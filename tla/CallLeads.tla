------------------------------ MODULE CallLeads ------------------------------
(***************************************************************************)
(* From a finished RingCentral call to a call lead.  Two transports read   *)
(* the account's Call Log: the cron's scan of a window, elected by a lease *)
(* and resumed from a cursor (call-log-sync.service.ts), and webhooks,     *)
(* which wake up for one call (webhook-call-log-qualification.ts).  Both   *)
(* hand what they read to ingestRingCentralQualifiedCall, which creates a  *)
(* lead for the call and keeps the call's final result up to date on it.   *)
(*                                                                         *)
(* RingCentral is external: calls start, their finished record appears in  *)
(* the Call Log later, and its result may be rewritten.  Every call here   *)
(* qualifies; its record names its telephony session or only its Call Log  *)
(* id.  Write mode is "create", adoption is off, and the 90 days of the    *)
(* duplicate rule are longer than any behaviour.  Operators edit and       *)
(* remove leads; they do not change whether a lead is a duplicate.         *)
(***************************************************************************)
EXTENDS Integers, FiniteSets

CONSTANTS
  Calls,
  Caller, Start,     \* of a call: phone number and source granularity; its start
  Identified,        \* the calls whose record names their telephony session
  Runs, Hooks,       \* slots of the cron's and of the webhook's invocations
  Overlap, Rolling, Lookback,  \* the minutes of ringcentral-config.ts
  PageLimit,         \* MAX_PAGES * PER_PAGE: records that one run can fetch
  MaxTries,          \* retries of a final-result write
  MaxTime,           \* bound: the clock
  Budget,            \* bound: what failures, kills, stalls, rewrites and removals, at
                     \* Fault each, and edits, at Edit each, may cost
  None, Lost         \* nobody; an invocation that was killed

Workers == Runs \cup Hooks
Never == -1          \* a date that is not set

ASSUME CallLeadsAssumption ==
  /\ IsFiniteSet(Calls) /\ Identified \subseteq Calls
  /\ Overlap \in Nat /\ Rolling \in Nat /\ Lookback \in Nat
  /\ PageLimit \in Nat /\ MaxTries \in Nat
  /\ MaxTime \in Nat /\ Budget \in Nat
  /\ Start \in [Calls -> 0 .. MaxTime]
  /\ Runs \cap Hooks = {}
  /\ None \notin Workers \cup Calls /\ Lost \notin Workers \cup {None}

VARIABLES
  now,
  call,    \* the Call Log: when the finished record appeared, and its result
  lead,    \* the call leads, by call and by the invocation that creates them,
  rev,     \* and their domain_revision
  ledger,  \* the processed calls: whose lead callLeadId names, or None
  cursor,  \* lastSyncTo
  origin,  \* history: where the first window that was completed began,
  reached, \* and the latest end of a completed window
  lease,   \* of the sync state: its owner, and when it ends
  work,    \* what each invocation is doing
  spent    \* of the budget

leadVars == <<lead, rev, ledger>>
syncVars == <<cursor, origin, reached, lease>>
serverVars == <<leadVars, syncVars, work>>
vars == <<now, call, serverVars, spent>>

-----------------------------------------------------------------------------
Times == 0 .. MaxTime
Results == 0 .. Budget  \* the first, and each that replaced it

CallRows == [logged : Times \cup {Never}, result : Results]

(* A lead: whether it is there, was not made yet or was removed; whether it is a
   duplicate; the result it shows, since which observation.
   An invocation makes one lead of a call at most (NothingMadeYet, in the proofs),
   so that its slot may stand for the lead's id. *)
LeadRows == [st : {"none", "here", "gone"}, dup : BOOLEAN, result : Results,
             at : Times \cup {Never}]

NoLead == [st |-> "none", dup |-> FALSE, result |-> 0, at |-> Never]

Readings == [call : Calls, result : Results, at : Times]
NoReading == [call |-> None, result |-> 0, at |-> 0]

Labels == {"idle", "entered", "claimed", "next", "classify", "create", "result", "patch"}

(* At these a worker has a record in hand. *)
Ingesting == {"classify", "create", "result", "patch"}

Work == [pc : Labels, from : Int, to : Times, todo : SUBSET Readings,
         hand : Readings \cup {NoReading}, dup : BOOLEAN, id : Workers \cup {None},
         rev : Nat, tries : 0 .. MaxTries]

Idle == [pc |-> "idle", from |-> 0, to |-> 0, todo |-> {}, hand |-> NoReading,
         dup |-> FALSE, id |-> None, rev |-> 0, tries |-> 0]

At(w, label) == work[w].pc = label
Leave(w) == work' = [work EXCEPT ![w] = Idle]

(* The record that was in hand stays there. *)
MutantDone(w) ==
  work' = [work EXCEPT ![w] =
             IF w \in Runs THEN [@ EXCEPT !.pc = "next"] ELSE Idle]

(* After a record a run takes the next one; a webhook is done. *)
Done(w) ==
  work' = [work EXCEPT ![w] =
             IF w \in Runs
             THEN [Idle EXCEPT !.pc = "next", !.from = work[w].from, !.to = work[w].to,
                               !.todo = work[w].todo]
             ELSE Idle]

Fault == 2
Edit == 1
Spend(cost) == spent + cost <= Budget /\ spent' = spent + cost

-----------------------------------------------------------------------------
(* RingCentral and the clock. *)

Logged(c) == call[c].logged # Never

Tick ==
  /\ now < MaxTime /\ now' = now + 1
  /\ UNCHANGED <<call, serverVars, spent>>

(* The call has begun, and ended, and its finished record is there. *)
Appears(c) ==
  /\ ~Logged(c) /\ Start[c] <= now
  /\ call' = [call EXCEPT ![c].logged = now]
  /\ UNCHANGED <<now, serverVars, spent>>

(* Not at the end of time, when nothing more could be observed. *)
IsRewritten(c) ==
  /\ Logged(c) /\ now < MaxTime /\ Spend(Fault)
  /\ call' = [call EXCEPT ![c].result = @ + 1]
  /\ UNCHANGED <<now, serverVars>>

-----------------------------------------------------------------------------
(* The cron's run: runRingCentralCallLogSync. *)

(* A fence that forgets whose lease it is. *)
MutantHeld(r) == lease.live

(* ownerFence *)
Held(r) == lease.owner = r /\ lease.live

Free == [owner |-> None, live |-> FALSE, until |-> 0]

Earlier(s, t) == IF s <= t THEN s ELSE t
Later(s, t) == IF s <= t THEN t ELSE s

(* The rolling window alone. *)
MutantWindowStart(to) == to - Rolling

(* resolveWindowStart *)
WindowStart(to) ==
  Earlier(IF cursor # Never THEN cursor - Overlap ELSE to - Lookback, to - Rolling)

(* The invocation takes the time, before it looks at the indexes of the state. *)
Enter(r) ==
  /\ At(r, "idle")
  /\ work' = [work EXCEPT ![r].pc = "entered", ![r].to = now]
  /\ UNCHANGED <<now, call, leadVars, syncVars, spent>>

(* leased_until is missing, or not after the date that the invocation has taken. *)
Claimable(r) == ~lease.live /\ lease.until <= work[r].to

(* acquireCallLogSyncLease, with that date: it is the end of the window. *)
Acquire(r) ==
  /\ At(r, "entered") /\ Claimable(r)
  /\ lease' = [owner |-> r, live |-> TRUE, until |-> work[r].to]
  /\ work' = [work EXCEPT ![r].pc = "claimed", ![r].from = WindowStart(work[r].to)]
  /\ UNCHANGED <<now, call, leadVars, cursor, origin, reached, spent>>

(* lease_held: the invocation does nothing. *)
Contended(r) ==
  /\ At(r, "entered") /\ ~Claimable(r)
  /\ Leave(r)
  /\ UNCHANGED <<now, call, leadVars, syncVars, spent>>

(* Only the calls that have no lead. *)
MutantListed(from, to) ==
  {c \in Calls : /\ Logged(c) /\ from <= Start[c] /\ Start[c] <= to
                 /\ ledger[c] = None}

Listed(from, to) ==
  {c \in Calls : Logged(c) /\ from <= Start[c] /\ Start[c] <= to}

(* What the pages may hold: they are newest first, in any order where calls began
   together, and end at the limit, silently. *)
Pages(S) ==
  {F \in SUBSET S : /\ \A c \in F, d \in S \ F : Start[d] <= Start[c]
                    /\ F = S \/ Cardinality(F) = PageLimit
                    /\ Cardinality(F) <= PageLimit}

(* The renewal that is forced after the route snapshot was loaded, and all
   pages.  The scan dates what it read by the end of its window. *)
Fetch(r) ==
  /\ At(r, "claimed") /\ Held(r)
  /\ lease' = [lease EXCEPT !.until = now]
  /\ \E F \in Pages(Listed(work[r].from, work[r].to)) :
       work' = [work EXCEPT ![r].pc = "next",
         ![r].todo = {[call |-> c, result |-> call[c].result, at |-> work[r].to] :
                        c \in F}]
  /\ UNCHANGED <<now, call, leadVars, cursor, origin, reached, spent>>

Processed(c) == ledger[c] # None

(* findProcessedCall: what to do about the record. *)
Begun(rec, q) ==
  [rec EXCEPT !.pc = IF Processed(q.call) THEN "result" ELSE "classify",
              !.id = ledger[q.call], !.hand = q]

(* The oldest record that is left; the lease is renewed only when that is due. *)
TakeRecord(r) ==
  /\ At(r, "next")
  /\ \E q \in work[r].todo :
       /\ \A o \in work[r].todo : Start[q.call] <= Start[o.call]
       /\ work' = [work EXCEPT ![r] = Begun([work[r] EXCEPT !.todo = @ \ {q}], q)]
  /\ UNCHANGED <<now, call, leadVars, syncVars, spent>>

(* recordCallLogSyncSuccess: the cursor moves to the end of the window. *)
Finish(r) ==
  /\ At(r, "next") /\ work[r].todo = {} /\ Held(r)
  /\ cursor' = work[r].to
  /\ origin' = IF cursor = Never THEN work[r].from ELSE origin
  /\ reached' = Later(reached, work[r].to)
  /\ lease' = Free
  /\ Leave(r)
  /\ UNCHANGED <<now, call, leadVars, spent>>

(* A renewal or the final write finds that the lease is lost: nothing more is
   written. *)
LeaseLost(r) ==
  /\ work[r].pc \in {"claimed", "next"} /\ ~Held(r)
  /\ Leave(r)
  /\ UNCHANGED <<now, call, leadVars, syncVars, spent>>

-----------------------------------------------------------------------------
(* The webhook: qualifyWebhookCallFromCallLog asks for the records of a telephony
   session, once the record is there. *)
ReadRecord(h, c) ==
  /\ At(h, "idle") /\ Logged(c) /\ c \in Identified
  /\ work' = [work EXCEPT ![h] =
       Begun(work[h], [call |-> c, result |-> call[c].result, at |-> now])]
  /\ UNCHANGED <<now, call, leadVars, syncVars, spent>>

-----------------------------------------------------------------------------
(* ingestRingCentralQualifiedCall, by either. *)
CallOf(w) == work[w].hand.call

IsHere(c, v) == lead[c][v].st = "here"
Paid(c) == \E v \in Workers : IsHere(c, v) /\ ~lead[c][v].dup

(* Any other call of the caller. *)
MutantIsDuplicate(c) ==
  \E d \in Calls \ {c} : Caller[d] = Caller[c] /\ Paid(d)

(* classifyRingCentralCallLeadDuplicate: earlier calls only. *)
IsDuplicate(c) ==
  \E d \in Calls \ {c} : /\ Caller[d] = Caller[c] /\ Paid(d)
                         /\ Start[d] < Start[c]

Classify(w) ==
  /\ At(w, "classify")
  /\ work' = [work EXCEPT ![w].pc = "create", ![w].dup = IsDuplicate(CallOf(w))]
  /\ UNCHANGED <<now, call, leadVars, syncVars, spent>>

(* Without the unique index. *)
MutantTaken(c) == FALSE

(* The unique index on the telephony session of a lead.  There is none on its
   Call Log id, and the ledger's indexes refuse nothing: its row is upserted. *)
Taken(c) == c \in Identified /\ \E v \in Workers : IsHere(c, v)

(* One transaction: the lead, and the ledger row that names it from now on. *)
CreateLead(w) ==
  LET c == CallOf(w) IN
  /\ At(w, "create") /\ ~Taken(c)
  /\ lead' = [lead EXCEPT ![c][w] =
       [st |-> "here", dup |-> work[w].dup, result |-> work[w].hand.result,
        at |-> work[w].hand.at]]
  /\ ledger' = [ledger EXCEPT ![c] = w]
  /\ Done(w)
  /\ UNCHANGED <<now, call, rev, syncVars, spent>>

(* The transaction fails with a duplicate key, and the ledger is read again. *)
Raced(w) ==
  /\ At(w, "create") /\ Taken(CallOf(w))
  /\ work' = [work EXCEPT ![w].pc = "result", ![w].id = ledger[CallOf(w)]]
  /\ UNCHANGED <<now, call, leadVars, syncVars, spent>>

(* The lead that the final result is for. *)
LeadOf(w) == lead[CallOf(w)][work[w].id]
RevOf(w) == rev[CallOf(w)][work[w].id]

(* The last writer wins. *)
MutantIsNewer(w) == TRUE

(* planRingCentralFinalResultUpdate: only a newer observation is written. *)
IsNewer(w) == LeadOf(w).at < work[w].hand.at

(* persistRingCentralFinalCallLogResult reads the lead, if there still is one,
   and plans. *)
ReadLead(w) ==
  /\ At(w, "result")
  /\ IF LeadOf(w).st = "here" /\ IsNewer(w)
     THEN work' = [work EXCEPT ![w].pc = "patch", ![w].rev = RevOf(w)]
     ELSE Done(w)
  /\ UNCHANGED <<now, call, leadVars, syncVars, spent>>

Unchanged(w) == LeadOf(w).st = "here" /\ RevOf(w) = work[w].rev

(* A result is written without the date of its observation. *)
MutantWithResult(row, q) == [row EXCEPT !.result = q.result]

WithResult(row, q) == [row EXCEPT !.result = q.result, !.at = q.at]

(* The command plans again inside its transaction.  A result that is the same moves
   only the date of its observation, and not the revision. *)
PatchLead(w) ==
  LET c == CallOf(w)
      v == work[w].id
  IN
  /\ At(w, "patch") /\ Unchanged(w)
  /\ lead' = IF IsNewer(w) THEN [lead EXCEPT ![c][v] = WithResult(@, work[w].hand)]
             ELSE lead
  /\ rev' = IF IsNewer(w) /\ lead[c][v].result # work[w].hand.result
            THEN [rev EXCEPT ![c][v] = @ + 1] ELSE rev
  /\ Done(w)
  /\ UNCHANGED <<now, call, ledger, syncVars, spent>>

MayRetry(w) == work[w].tries < MaxTries

(* DomainRevisionConflictError: somebody changed or removed the lead in between. *)
RetryPatch(w) ==
  /\ At(w, "patch") /\ ~Unchanged(w) /\ MayRetry(w)
  /\ work' = [work EXCEPT ![w].pc = "result", ![w].rev = 0, ![w].tries = @ + 1]
  /\ UNCHANGED <<now, call, leadVars, syncVars, spent>>

(* The error ends the run with recordCallLogSyncError, which frees the lease
   only behind the fence, or is swallowed by the webhook. *)
EndInError(w) ==
  /\ lease' = IF Held(w) THEN Free ELSE lease
  /\ Leave(w)
  /\ UNCHANGED <<now, call, leadVars, cursor, origin, reached>>

GiveUpPatch(w) ==
  /\ At(w, "patch") /\ ~Unchanged(w) /\ ~MayRetry(w)
  /\ EndInError(w) /\ UNCHANGED spent

-----------------------------------------------------------------------------
(* The environment. *)

(* A request to RingCentral, a read or a commit fails, or what follows a commit
   does. *)
Fail(w) == ~At(w, "idle") /\ Spend(Fault) /\ EndInError(w)

(* The invocation is killed, or its error cannot be recorded. *)
Crash(w) ==
  /\ ~At(w, "idle") /\ Spend(Fault)
  /\ lease' = IF lease.owner = w THEN [lease EXCEPT !.owner = Lost] ELSE lease
  /\ Leave(w)
  /\ UNCHANGED <<now, call, leadVars, cursor, origin, reached>>

(* The lease ended, at some time since it was last extended. *)
Lapse ==
  \E t \in lease.until .. now : lease' = [owner |-> None, live |-> FALSE, until |-> t]

(* Five minutes pass without a renewal: nobody is there to renew, *)
ExpireLost ==
  /\ lease.owner = Lost /\ lease.live /\ Lapse
  /\ UNCHANGED <<now, call, leadVars, cursor, origin, reached, work, spent>>

(* or the claim, a page or a record takes so long. *)
Stall(r) ==
  /\ Held(r) /\ Spend(Fault) /\ Lapse
  /\ UNCHANGED <<now, call, leadVars, cursor, origin, reached, work>>

(* Another command corrects the lead.  It matters between a plan and its write. *)
EditLead(c, v) ==
  /\ Spend(Edit)
  /\ \E w \in Workers : /\ At(w, "patch") /\ CallOf(w) = c /\ work[w].id = v
                        /\ Unchanged(w)
  /\ rev' = [rev EXCEPT ![c][v] = @ + 1]
  /\ UNCHANGED <<now, call, lead, ledger, syncVars, work>>

(* beginCallLeadRemoval: the ledger row stays. *)
RemoveLead(c, v) ==
  /\ IsHere(c, v) /\ Spend(Fault)
  /\ lead' = [lead EXCEPT ![c][v].st = "gone"]
  /\ UNCHANGED <<now, call, rev, ledger, syncVars, work>>

-----------------------------------------------------------------------------
Init ==
  /\ now = 0
  /\ call = [c \in Calls |-> [logged |-> Never, result |-> 0]]
  /\ lead = [c \in Calls |-> [v \in Workers |-> NoLead]]
  /\ rev = [c \in Calls |-> [v \in Workers |-> 0]]
  /\ ledger = [c \in Calls |-> None]
  /\ cursor = Never /\ origin = 0 /\ reached = Never
  /\ lease = Free
  /\ work = [w \in Workers |-> Idle]
  /\ spent = 0

Ingest(w) ==
  \/ Classify(w) \/ CreateLead(w) \/ Raced(w)
  \/ ReadLead(w) \/ PatchLead(w) \/ RetryPatch(w) \/ GiveUpPatch(w)

RunStep(r) ==
  \/ Enter(r) \/ Acquire(r) \/ Contended(r)
  \/ Fetch(r) \/ TakeRecord(r) \/ Finish(r)
  \/ LeaseLost(r) \/ Ingest(r)

Next ==
  \/ Tick
  \/ \E c \in Calls : Appears(c) \/ IsRewritten(c)
  \/ \E c \in Calls, v \in Workers : EditLead(c, v) \/ RemoveLead(c, v)
  \/ \E r \in Runs : RunStep(r) \/ Stall(r)
  \/ \E h \in Hooks : Ingest(h) \/ \E c \in Calls : ReadRecord(h, c)
  \/ \E w \in Workers : Fail(w) \/ Crash(w)
  \/ ExpireLost

Spec == Init /\ [][Next]_vars

(* The clock goes on, the cron (every 30 minutes) starts runs, live runs go on,
   and the lease of a dead one expires.  Nothing is assumed of webhooks. *)
Fairness ==
  /\ WF_vars(Tick)
  /\ \A r \in Runs : WF_vars(RunStep(r))
  /\ WF_vars(ExpireLost)

FairSpec == Spec /\ Fairness
-----------------------------------------------------------------------------
(***************************************************************************)
(* Properties.                                                             *)
(***************************************************************************)

(* The types of the state: the retries of a final-result write are bounded, a
   worker has a record in hand exactly while it ingests one, and knows a lead
   while it writes a result. *)
TypeOK ==
  /\ now \in Times
  /\ call \in [Calls -> CallRows]
  /\ lead \in [Calls -> [Workers -> LeadRows]]
  /\ rev \in [Calls -> [Workers -> Nat]]
  /\ ledger \in [Calls -> Workers \cup {None}]
  /\ cursor \in Times \cup {Never} /\ origin \in Int /\ reached \in Times \cup {Never}
  /\ lease \in [owner : Workers \cup {None, Lost}, live : BOOLEAN,
                until : Times]
  /\ work \in [Workers -> Work]
  /\ \A w \in Workers : /\ CallOf(w) \in Calls <=> work[w].pc \in Ingesting
                        /\ work[w].pc \in {"result", "patch"} => work[w].id # None
  /\ spent \in 0 .. Budget

(* The calls in the Call Log that began no earlier, up to a time. *)
CallsAfter(c, t) ==
  {d \in Calls \ {c} : Logged(d) /\ Start[c] <= Start[d] /\ Start[d] <= t}

(* One run cannot fetch them all.  The code drops the rest of such a window, the
   oldest calls, and moves on. *)
BeyondThePages(c) == Cardinality(CallsAfter(c, reached)) >= PageLimit

(* The sync passes no call: one that was in the Call Log before the end of a
   completed window has been ingested, if its record appeared within the overlap
   after the call began, the call is not older than the sync and the pages of a
   run reach back to it. *)
NoCallIsPassed ==
  \A c \in Calls :
    /\ Logged(c) /\ call[c].logged < reached
    /\ Start[c] >= origin
    /\ call[c].logged - Start[c] <= Overlap
    => Processed(c) \/ BeyondThePages(c)

(* Runs, webhooks and retries make no second lead for a call whose telephony
   session is known: while there is a lead, there is one.  (Of a call that only
   has a Call Log id they may make several.) *)
OneLeadPerCall ==
  \A c \in Identified : \A v, w \in Workers : IsHere(c, v) /\ IsHere(c, w) => v = w

(* There is, or was, a paid lead of an earlier call of the caller. *)
PaidBefore(c) ==
  \E d \in Calls \ {c} :
    /\ Caller[d] = Caller[c] /\ Start[d] < Start[c]
    /\ \E v \in Workers : lead[d][v].st # "none" /\ ~lead[d][v].dup

(* A lead is written off as a duplicate only behind a lead of an earlier call of
   the same caller that was paid: every caller with leads has been paid for. *)
DuplicatesFollowAPaidLead ==
  \A c \in Calls : (\E v \in Workers : lead[c][v].dup) => PaidBefore(c)

(* A run that records its success replaces the very cursor that its window was
   taken from, so that the windows that were completed join: no run that lost its
   lease, or that claimed late with an old date, comes in between. *)
WindowsJoin ==
  [][\A r \in Runs : Finish(r) => work[r].from = WindowStart(work[r].to)]_vars

(* A final result never replaces one on the same lead that is dated later,
   whatever order the two transports write in. *)
ResultsMoveForward ==
  [][\A c \in Calls, v \in Workers : lead'[c][v].at >= lead[c][v].at]_vars

Ledger == INSTANCE CallLedger
  WITH Slots <- Workers,
       shown <- [c \in Calls |-> IF Logged(c) THEN call[c].result ELSE -1]

(* Whichever transport ingests a call, and whatever it raced with or repeats: a
   lead is or is not a duplicate for good and shows a result that was read for
   this call and that the Call Log has had; a call whose session is known has one
   lead at a time; and a lead that was removed stays removed. *)
KeepsTheLedger == Ledger!Spec

(* Whatever runs fail, are killed or lose their lease: sooner or later every
   call whose record appeared within the overlap has had its lead, unless the
   pages do not reach back to it. *)
EveryCallBecomesALead ==
  []<>(\A c \in Calls :
         /\ cursor # Never /\ Start[c] >= origin
         /\ Logged(c) /\ call[c].logged - Start[c] <= Overlap
         => Processed(c) \/ BeyondThePages(c))

(* The windows of later runs do not reach back to the call. *)
OutOfReach(c) ==
  Start[c] < MaxTime - Rolling /\ (cursor # Never => Start[c] < cursor - Overlap)

(* The results on the leads that the ledger names catch up with the Call Log. *)
ResultsCatchUp ==
  []<>(\A c \in Calls :
         /\ Processed(c) /\ IsHere(c, ledger[c])
         /\ ~OutOfReach(c) /\ ~BeyondThePages(c)
         => lead[c][ledger[c]].result = call[c].result)
=============================================================================
