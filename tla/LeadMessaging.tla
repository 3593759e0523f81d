---------------------------- MODULE LeadMessaging ----------------------------
(***************************************************************************)
(* Lead confirmation texts (leadMessaging.service.ts).                     *)
(*                                                                         *)
(* A lead's transaction persists a message row.  The request handler that  *)
(* created it, and drains started by a queue wake-up or a cron, dispatch   *)
(* it: claim the row for a minute, ask Twilio to send the text, record the *)
(* outcome if the claim still stands.  A dispatcher can be killed or be    *)
(* slow, Twilio can refuse, fail to answer, or accept a text whose sender  *)
(* has gone, and reports progress by callbacks in any order.               *)
(*                                                                         *)
(* What is abstracted: the verdict of the capacity guard and whether a     *)
(* source was retired are left open; a lease and a retry date are a flag   *)
(* each; a claim is named by the attempt it started, where the code draws  *)
(* a fresh lease_owner, and a Twilio SID likewise; only Granot messages    *)
(* can be retired, here every message can.                                 *)
(***************************************************************************)
EXTENDS Naturals

CONSTANTS
  Messages,      \* lead messages
  Workers,       \* slots in which dispatchers execute
  MaxAttempts,   \* LEAD_MESSAGING_MAX_ATTEMPTS
  MaxManual,     \* LEAD_MESSAGING_MAX_MANUAL_RETRIES
  DrainLimit,    \* LEAD_MESSAGING_DRAIN_LIMIT
  Reported,      \* the provider statuses that Twilio uses
  MaxFaults,     \* bound: crashes, failed writes, errors without an answer
  None           \* no message, no status

PROVIDER_STATUS_RANK ==
  [s \in {"accepted", "scheduled", "queued", "sending", "sent", "delivered",
          "read", "undelivered", "failed", "canceled"} |->
     CASE s \in {"accepted", "scheduled"} -> 1
       [] s = "queued"                    -> 2
       [] s = "sending"                   -> 3
       [] s = "sent"                      -> 4
       [] s = "read"                      -> 6
       [] OTHER                           -> 5]

ASSUME LeadMessagingAssumption ==
  /\ MaxAttempts \in Nat \ {0}
  /\ MaxManual \in Nat
  /\ DrainLimit \in Nat \ {0}
  /\ MaxFaults \in Nat
  /\ Reported \subseteq DOMAIN PROVIDER_STATUS_RANK
  /\ None \notin Messages \cup DOMAIN PROVIDER_STATUS_RANK

VARIABLES
  row,       \* the lead_messages rows
  pc,        \* pc[w]: where dispatcher w is
  at,        \* at[w]: the message it dispatches, with the attempt it started
  left,      \* left[w]: candidates its drain may still take
  calls,     \* create requests on their way to Twilio
  texts,     \* texts Twilio accepted
  news,      \* status callbacks Twilio has issued
  faults     \* faults so far

vars == <<row, pc, at, left, calls, texts, news, faults>>

-----------------------------------------------------------------------------
(* Rows. *)

Claimable == {"pending", "queued", "retry_scheduled"}
Statuses == Claimable \cup
  {"absent", "sending", "accepted", "sent", "delivered", "uncertain",
   "failed", "undelivered", "skipped"}
Final == {"delivered", "read", "failed", "undelivered", "canceled"}

Attempts == 0 .. (MaxAttempts + MaxManual)

(* sid 0: no SID.  The SID of a text is the attempt that sent it. *)
Rows == [status : Statuses, sid : Attempts, prov : Reported \cup {None},
         attempts : Attempts, manual : 0 .. MaxManual,
         live : BOOLEAN, due : BOOLEAN]

AbsentRow == [status |-> "absent", sid |-> 0, prov |-> None, attempts |-> 0,
              manual |-> 0, live |-> FALSE, due |-> TRUE]

Claims == [msg : Messages, k : Attempts]
Idle == [msg |-> None, k |-> 0]

Goto(w, l) == pc' = [pc EXCEPT ![w] = l]

Fault == faults < MaxFaults /\ faults' = faults + 1

workerVars == <<pc, at, left>>
twilioVars == <<calls, texts, news>>

(* persistLeadMessageIntent, in the transaction that creates the lead. *)
PersistLeadMessageIntent(m) ==
  /\ row[m].status = "absent"
  /\ \E s \in {"skipped", "pending", "queued"} :
       row' = [row EXCEPT ![m].status = s]
  /\ UNCHANGED <<workerVars, twilioVars, faults>>

-----------------------------------------------------------------------------
(* Dispatchers. *)

(* dispatchOrQueuePersistedLeadMessage in inline mode: one message, no drain.
   The handler may come to it late, when a drain has been there. *)
DispatchInline(w, m) ==
  /\ pc[w] = "idle" /\ row[m].status = "pending"
  /\ at' = [at EXCEPT ![w] = [msg |-> m, k |-> 0]]
  /\ left' = [left EXCEPT ![w] = 0]
  /\ Goto(w, "picked")
  /\ UNCHANGED <<row, twilioVars, faults>>

(* runLeadMessagingDrain: a claim whose lease expired has an unknown outcome. *)
StartDrain(w) ==
  /\ pc[w] = "idle"
  /\ row' = [m \in Messages |->
               IF row[m].status = "sending" /\ ~row[m].live
               THEN [row[m] EXCEPT !.status = "uncertain", !.due = TRUE]
               ELSE row[m]]
  /\ left' = [left EXCEPT ![w] = DrainLimit]
  /\ Goto(w, "loop")
  /\ UNCHANGED <<at, twilioVars, faults>>

(* Scheduled retries are forgotten. *)
MutantCandidates ==
  {m \in Messages : row[m].status \in {"pending", "queued"} /\ row[m].due}

Candidates == {m \in Messages : row[m].status \in Claimable /\ row[m].due}

(* Find a candidate.  It is claimed later, and may have changed by then. *)
Pick(w) ==
  /\ pc[w] = "loop" /\ left[w] > 0
  /\ \E m \in Candidates : at' = [at EXCEPT ![w] = [msg |-> m, k |-> 0]]
  /\ left' = [left EXCEPT ![w] = @ - 1]
  /\ Goto(w, "picked")
  /\ UNCHANGED <<row, twilioVars, faults>>

EndDrain(w) ==
  /\ pc[w] = "loop"
  /\ left[w] = 0 \/ Candidates = {}
  /\ Goto(w, "idle")
  /\ UNCHANGED <<row, at, left, twilioVars, faults>>

Done(w) ==
  /\ at' = [at EXCEPT ![w] = Idle]
  /\ Goto(w, "loop")
  /\ UNCHANGED left

(* dispatchPersistedLeadMessage claims by status alone: not by the retry date
   that made the message a candidate. *)
Claim(w) ==
  LET m == at[w].msg
      k == row[m].attempts + 1
  IN  /\ pc[w] = "picked"
      /\ \/ /\ row[m].status \in Claimable
            /\ row' = [row EXCEPT ![m].status = "sending", ![m].live = TRUE,
                                  ![m].attempts = k]
            /\ at' = [at EXCEPT ![w].k = k]
            /\ Goto(w, "claimed")
            /\ UNCHANGED left
         \/ /\ row[m].status \notin Claimable
            /\ UNCHANGED row
            /\ Done(w)
      /\ UNCHANGED <<twilioVars, faults>>

(* The filter of every update that a dispatcher makes after its claim: still
   sending, under this dispatcher's lease_owner. *)
Owns(w) ==
  /\ row[at[w].msg].status = "sending"
  /\ row[at[w].msg].attempts = at[w].k

(* The compare-and-set, after which the dispatcher is done either way. *)
Update(w, new) ==
  /\ row' = IF Owns(w) THEN [row EXCEPT ![at[w].msg] = new] ELSE row
  /\ Done(w)

(* granotCreationRetired: the source was retired since the text was asked for. *)
Retire(w) ==
  /\ pc[w] = "claimed"
  /\ Update(w, [row[at[w].msg] EXCEPT !.status = "skipped", !.live = FALSE,
                                       !.due = TRUE])
  /\ UNCHANGED <<twilioVars, faults>>

Send(w) ==
  /\ pc[w] = "claimed"
  /\ calls' = calls \cup {at[w]}
  /\ Goto(w, "calling")
  /\ UNCHANGED <<row, at, left, texts, news, faults>>

(* Ambiguous failures are retried like those that are known to be unsent. *)
MutantClassify(failure, attempts) ==
  IF failure \in {"unsent", "ambiguous"} /\ attempts < MaxAttempts
  THEN "retry_scheduled"
  ELSE IF failure = "ambiguous" THEN "uncertain" ELSE "failed"

(* One retry too many. *)
MutantBudget(failure, attempts) ==
  IF failure = "unsent" /\ attempts <= MaxAttempts THEN "retry_scheduled"
  ELSE IF failure = "ambiguous" THEN "uncertain" ELSE "failed"

(* classifyLeadMessagingFailure: 429 and connections never made are unsent;
   time-outs, resets and 5xx are ambiguous; any other error is definite. *)
ClassifyLeadMessagingFailure(failure, attempts) ==
  IF failure = "unsent" /\ attempts < MaxAttempts THEN "retry_scheduled"
  ELSE IF failure = "ambiguous" THEN "uncertain" ELSE "failed"

HandleDispatchFailure(w, failure) ==
  LET status == ClassifyLeadMessagingFailure(failure, at[w].k)
  IN  Update(w, [row[at[w].msg] EXCEPT !.status = status, !.live = FALSE,
                                       !.due = status # "retry_scheduled"])

(* Nothing reached Twilio: the configuration is incomplete or the schedule is
   out of Twilio's window. *)
FailLocally(w) ==
  /\ pc[w] = "claimed"
  /\ HandleDispatchFailure(w, "definite")
  /\ UNCHANGED <<twilioVars, faults>>

(* Twilio refused the request, or it never left. *)
Refused(w, failure) ==
  /\ pc[w] = "calling" /\ at[w] \in calls
  /\ calls' = calls \ {at[w]}
  /\ HandleDispatchFailure(w, failure)
  /\ UNCHANGED <<texts, news, faults>>

(* No usable answer: the request may have been accepted, or still be. *)
Unanswered(w) ==
  /\ pc[w] = "calling" /\ Fault
  /\ HandleDispatchFailure(w, "ambiguous")
  /\ UNCHANGED twilioVars

NormalizeAcceptedStatus(s) == IF s = "sent" THEN "sent" ELSE "accepted"

(* The answer arrives and is recorded with the SID. *)
RecordAccepted(w) ==
  /\ pc[w] = "calling"
  /\ \E t \in texts :
       /\ t.msg = at[w].msg /\ t.k = at[w].k
       /\ Update(w, [row[at[w].msg] EXCEPT
            !.status = NormalizeAcceptedStatus(t.first), !.sid = t.k,
            !.prov = t.first, !.live = FALSE, !.due = TRUE])
  /\ UNCHANGED <<twilioVars, faults>>

(* The write of the outcome fails: the row is left to its lease. *)
RecordFails(w) ==
  /\ pc[w] = "calling" /\ Fault
  /\ Done(w)
  /\ UNCHANGED <<row, twilioVars>>

(* The platform kills a dispatcher, between two of its steps. *)
Crash(w) ==
  /\ pc[w] # "idle" /\ Fault
  /\ at' = [at EXCEPT ![w] = Idle]
  /\ Goto(w, "idle")
  /\ UNCHANGED <<row, left, twilioVars>>

-----------------------------------------------------------------------------
(* Time, Twilio and operators. *)

LeaseExpires(m) ==
  /\ row[m].status = "sending" /\ row[m].live
  /\ row' = [row EXCEPT ![m].live = FALSE]
  /\ UNCHANGED <<workerVars, twilioVars, faults>>

BecomesDue(m) ==
  /\ ~row[m].due
  /\ row' = [row EXCEPT ![m].due = TRUE]
  /\ UNCHANGED <<workerVars, twilioVars, faults>>

(* What Twilio can answer to an accepted request. *)
FirstStatuses == Reported \cap {"accepted", "scheduled", "queued", "sent"}

(* Twilio accepts a request, whether or not its sender still waits. *)
Accept(c) ==
  /\ c \in calls
  /\ calls' = calls \ {c}
  /\ \E s \in FirstStatuses :
       /\ texts' = texts \cup {[msg |-> c.msg, k |-> c.k, first |-> s]}
       /\ news' = news \cup {[msg |-> c.msg, k |-> c.k, st |-> s]}
  /\ UNCHANGED <<row, workerVars, faults>>

(* The text makes progress; a final status is followed by read at most. *)
Progress(t, s) ==
  LET said == {n \in news : n.msg = t.msg /\ n.k = t.k} IN
  /\ \A n \in said :
       /\ PROVIDER_STATUS_RANK[n.st] < PROVIDER_STATUS_RANK[s]
       /\ n.st \in Final => n.st = "delivered" /\ s = "read"
  /\ news' = news \cup {[msg |-> t.msg, k |-> t.k, st |-> s]}
  /\ UNCHANGED <<row, workerVars, calls, texts, faults>>

NormalizeCallbackStatus(s) ==
  CASE s \in {"delivered", "read"}  -> "delivered"
    [] s = "undelivered"            -> "undelivered"
    [] s \in {"failed", "canceled"} -> "failed"
    [] s = "sent"                   -> "sent"
    [] OTHER                        -> "accepted"

(* Final statuses are not excluded. *)
MutantApplies(current, incoming) ==
  current = None \/ PROVIDER_STATUS_RANK[current] <= PROVIDER_STATUS_RANK[incoming]

Applies(current, incoming) ==
  \/ current = None
  \/ /\ current \notin Final
     /\ PROVIDER_STATUS_RANK[current] <= PROVIDER_STATUS_RANK[incoming]

(* applyTwilioStatusCallback: callbacks arrive in any order, repeatedly or not
   at all.  One whose SID is not recorded (yet) matches no row and is lost. *)
ApplyTwilioStatusCallback(n) ==
  /\ row[n.msg].sid = n.k
  /\ Applies(row[n.msg].prov, n.st)
  /\ row' = [row EXCEPT ![n.msg].prov = n.st,
                        ![n.msg].status = NormalizeCallbackStatus(n.st)]
  /\ UNCHANGED <<workerVars, twilioVars, faults>>

(* A message that has a SID can be retried. *)
MutantRetryable(m) ==
  /\ row[m].status \in {"failed", "undelivered"}
  /\ row[m].manual < MaxManual

Retryable(m) ==
  /\ row[m].status \in {"failed", "undelivered"}
  /\ row[m].manual < MaxManual
  /\ row[m].sid = 0

RequestLeadMessageRetry(m) ==
  /\ Retryable(m)
  /\ row' = [row EXCEPT ![m].status = "queued", ![m].due = TRUE,
                        ![m].live = FALSE, ![m].manual = @ + 1]
  /\ UNCHANGED <<workerVars, twilioVars, faults>>

-----------------------------------------------------------------------------
Init ==
  /\ row = [m \in Messages |-> AbsentRow]
  /\ pc = [w \in Workers |-> "idle"]
  /\ at = [w \in Workers |-> Idle]
  /\ left = [w \in Workers |-> 0]
  /\ calls = {} /\ texts = {} /\ news = {}
  /\ faults = 0

(* What a dispatcher does once it runs. *)
Dispatch(w) ==
  \/ Pick(w) \/ EndDrain(w) \/ Claim(w)
  \/ Retire(w) \/ FailLocally(w) \/ Send(w)
  \/ \E failure \in {"unsent", "definite"} : Refused(w, failure)
  \/ RecordAccepted(w)

Next ==
  \/ \E m \in Messages :
       \/ PersistLeadMessageIntent(m) \/ RequestLeadMessageRetry(m)
       \/ LeaseExpires(m) \/ BecomesDue(m)
       \/ \E w \in Workers : DispatchInline(w, m)
  \/ \E w \in Workers :
       \/ StartDrain(w) \/ Dispatch(w)
       \/ Unanswered(w) \/ RecordFails(w) \/ Crash(w)
  \/ \E c \in calls : Accept(c)
  \/ \E t \in texts, s \in Reported : Progress(t, s)
  \/ \E n \in news : ApplyTwilioStatusCallback(n)

Spec == Init /\ [][Next]_vars

(* The cron starts a drain every five minutes, a dispatcher that runs goes on,
   its call included, which the Twilio client ends after ten seconds, and dates
   pass.  That Twilio accepts anything, or calls back, is not assumed. *)
Fairness ==
  /\ \A w \in Workers : WF_vars(StartDrain(w)) /\ WF_vars(Dispatch(w))
  /\ \A m \in Messages : WF_vars(LeaseExpires(m)) /\ WF_vars(BecomesDue(m))

FairSpec == Spec /\ Fairness

-----------------------------------------------------------------------------
(* Properties. *)

Labels == {"idle", "loop", "picked", "claimed", "calling"}

(* Every variable has its type: in particular a message is attempted at most
   MaxAttempts times, and once more for each manual retry. *)
TypeOK ==
  /\ row \in [Messages -> Rows]
  /\ pc \in [Workers -> Labels]
  /\ at \in [Workers -> Claims \cup {Idle}]
  /\ left \in [Workers -> 0 .. DrainLimit]
  /\ calls \subseteq Claims
  /\ texts \subseteq [msg : Messages, k : Attempts, first : Reported]
  /\ news \subseteq [msg : Messages, k : Attempts, st : Reported]
  /\ faults \in 0 .. MaxFaults

(* No lead is texted twice for one message, whoever dispatches it, dies, times
   out or retries it. *)
AtMostOneText == \A t, u \in texts : t.msg = u.msg => t = u

(* What the row says has become of the text. *)
Verdict(m) ==
  CASE row[m].sid # 0                                      -> "handed_over"
    [] row[m].sid = 0 /\ row[m].status \in {"failed", "skipped"} -> "unsent"
    [] row[m].status = "uncertain"                         -> "unknown"
    [] OTHER                                               -> "open"

Texts == [msg : Messages, k : Attempts, first : Reported]

Promise == INSTANCE LeadText WITH verdict <- [m \in Messages |-> Verdict(m)]

(* Messaging implements its promise: failed or skipped without a SID means that
   nobody was texted, a SID that someone was, and uncertain is never retried. *)
KeepsItsPromise == Promise!Spec

(* A final provider status is final: no late or repeated callback, retry, drain
   or slow dispatcher changes what is recorded after it. *)
FinalStatusesStay ==
  [][\A m \in Messages : row[m].prov \in Final =>
       row'[m].prov = row[m].prov /\ row'[m].status = row[m].status]_vars

(* Every message that was persisted leaves the statuses that are in flight. *)
NothingStaysInFlight ==
  \A m \in Messages :
    row[m].status \in Claimable \cup {"sending"}
      ~> row[m].status \notin Claimable \cup {"sending"}
=============================================================================
