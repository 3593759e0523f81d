------------------------- MODULE LeadMessagingProofs -------------------------
(* Theorems about LeadMessaging, for any messages, dispatchers and bounds. *)
EXTENDS LeadMessaging, TLAPS

(* A claim adds an attempt only where one is left: automatic retries stop at
   MaxAttempts, and each manual retry buys one more. *)
Budgeted ==
  \A m \in Messages :
    /\ row[m].attempts <= MaxAttempts + row[m].manual
    /\ row[m].status \in Claimable \cup {"absent"} =>
         row[m].attempts < MaxAttempts + row[m].manual

Active(w) == pc[w] \in {"claimed", "calling"}

Texted(m) == \E t \in texts : t.msg = m

(* Nothing is under way for a message that may be claimed (again). *)
AtRest(m) ==
  /\ row[m].sid = 0
  /\ row[m].status \in Claimable \cup {"absent", "failed", "skipped"}

Quiet ==
  \A m \in Messages : AtRest(m) =>
    /\ ~Texted(m)
    /\ \A c \in calls : c.msg # m
    /\ \A w \in Workers : Active(w) => at[w].msg # m

(* Whatever is under way belongs to the latest attempt of its message. *)
Current ==
  /\ \A w \in Workers :
       /\ pc[w] \in {"picked", "claimed", "calling"} => at[w] \in Claims
       /\ Active(w) => at[w].k # 0 /\ at[w].k = row[at[w].msg].attempts
  /\ \A c \in calls : /\ c.k # 0 /\ c.k = row[c.msg].attempts
                      /\ ~Texted(c.msg)
  /\ \A t \in texts : t.k # 0 /\ t.k = row[t.msg].attempts
  /\ \A n \in news : n.k # 0

(* One dispatcher is at work on a message, and it has not called before it
   calls. *)
Alone ==
  /\ \A v, w \in Workers :
       Active(v) /\ Active(w) /\ at[v].msg = at[w].msg => v = w
  /\ \A w \in Workers : pc[w] = "claimed" =>
       ~Texted(at[w].msg) /\ \A c \in calls : c.msg # at[w].msg

(* A SID is recorded for a text that was accepted, and only then does a status
   of the provider count. *)
SidsAreReal ==
  \A m \in Messages :
    /\ row[m].sid # 0 =>
         /\ Texted(m)
         /\ row[m].status \in {"accepted", "sent", "delivered", "failed",
                               "undelivered"}
    /\ row[m].sid = 0 =>
         /\ row[m].prov = None
         /\ row[m].status \notin {"accepted", "sent", "delivered",
                                  "undelivered"}

IInv ==
  /\ TypeOK /\ Budgeted /\ Quiet /\ Current /\ Alone /\ SidsAreReal
  /\ AtMostOneText

-----------------------------------------------------------------------------
(* Types and budgets. *)

GoodRows == {r \in Rows :
  /\ r.attempts <= MaxAttempts + r.manual
  /\ r.status \in Claimable \cup {"absent"} =>
       r.attempts < MaxAttempts + r.manual}

Typed == TypeOK /\ Budgeted

TypedByRow ==
  /\ row \in [Messages -> GoodRows]
  /\ pc \in [Workers -> Labels]
  /\ at \in [Workers -> Claims \cup {Idle}]
  /\ left \in [Workers -> 0 .. DrainLimit]
  /\ calls \subseteq Claims
  /\ texts \subseteq [msg : Messages, k : Attempts, first : Reported]
  /\ news \subseteq [msg : Messages, k : Attempts, st : Reported]
  /\ faults \in 0 .. MaxFaults

(* Types and budgets can be checked row by row. *)
LEMMA TypedRows == Typed <=> TypedByRow
BY DEF Typed, TypeOK, Budgeted, GoodRows, TypedByRow

(* What a dispatcher writes at the end of its attempt stays in the budget. *)
LEMMA OutcomesAreGood ==
  ASSUME NEW r \in GoodRows, NEW k \in Attempts, NEW failure,
         r.status = "sending", r.attempts = k
  PROVE  /\ [r EXCEPT !.status = "skipped", !.live = FALSE, !.due = TRUE] \in GoodRows
         /\ LET status == ClassifyLeadMessagingFailure(failure, k)
            IN  [r EXCEPT !.status = status, !.live = FALSE,
                          !.due = status # "retry_scheduled"] \in GoodRows
         /\ \A first \in Reported :
              [r EXCEPT !.status = NormalizeAcceptedStatus(first), !.sid = k,
                        !.prov = first, !.live = FALSE, !.due = TRUE]
                \in GoodRows
<1> USE LeadMessagingAssumption
        DEF GoodRows, Rows, Statuses, Claimable, Attempts
<1>1. [r EXCEPT !.status = "skipped", !.live = FALSE, !.due = TRUE] \in GoodRows
  OBVIOUS
<1>2. ASSUME NEW st \in {"retry_scheduled", "uncertain", "failed"},
             NEW due \in BOOLEAN,
             st = "retry_scheduled" => k < MaxAttempts
      PROVE  [r EXCEPT !.status = st, !.live = FALSE, !.due = due] \in GoodRows
  <2> DEFINE new == [r EXCEPT !.status = st, !.live = FALSE, !.due = due]
  <2>1. new \in Rows
    OBVIOUS
  <2>2. new.attempts = k /\ new.manual = r.manual /\ new.status = st
    OBVIOUS
  <2>3. k \in Nat /\ r.manual \in Nat /\ k <= MaxAttempts + r.manual
    OBVIOUS
  <2>4. k < MaxAttempts => k < MaxAttempts + r.manual
    BY <2>3
  <2> QED BY <1>2, <2>1, <2>2, <2>3, <2>4
<1>3. /\ ClassifyLeadMessagingFailure(failure, k)
           \in {"retry_scheduled", "uncertain", "failed"}
      /\ ClassifyLeadMessagingFailure(failure, k) = "retry_scheduled"
           => k < MaxAttempts
  BY DEF ClassifyLeadMessagingFailure
<1>4. LET status == ClassifyLeadMessagingFailure(failure, k)
      IN  [r EXCEPT !.status = status, !.live = FALSE,
                    !.due = status # "retry_scheduled"] \in GoodRows
  <2> DEFINE status == ClassifyLeadMessagingFailure(failure, k)
  <2>1. (status # "retry_scheduled") \in BOOLEAN
    OBVIOUS
  <2> HIDE DEF status
  <2> QED BY <1>2, <1>3, <2>1 DEF status
<1>5. ASSUME NEW st \in {"accepted", "sent"}, NEW first \in Reported
      PROVE  [r EXCEPT !.status = st, !.sid = k, !.prov = first,
                       !.live = FALSE, !.due = TRUE] \in GoodRows
  OBVIOUS
<1>6. \A first \in Reported : NormalizeAcceptedStatus(first) \in {"accepted", "sent"}
  BY DEF NormalizeAcceptedStatus
<1> HIDE DEF GoodRows
<1>7. ASSUME NEW first \in Reported
      PROVE  [r EXCEPT !.status = NormalizeAcceptedStatus(first), !.sid = k,
                       !.prov = first, !.live = FALSE, !.due = TRUE]
               \in GoodRows
  BY <1>5, <1>6
<1> QED BY <1>1, <1>4, <1>7

(* The other edits of a row. *)
LEMMA EditsAreGood ==
  ASSUME NEW r \in GoodRows
  PROVE  /\ [r EXCEPT !.live = FALSE] \in GoodRows
         /\ [r EXCEPT !.due = TRUE] \in GoodRows
         /\ r.status = "sending" =>
              [r EXCEPT !.status = "uncertain", !.due = TRUE] \in GoodRows
         /\ r.status = "absent" =>
              \A s \in {"skipped", "pending", "queued"} :
                [r EXCEPT !.status = s] \in GoodRows
         /\ r.status \in Claimable =>
              [r EXCEPT !.status = "sending", !.live = TRUE,
                        !.attempts = r.attempts + 1] \in GoodRows
         /\ r.manual < MaxManual =>
              [r EXCEPT !.status = "queued", !.due = TRUE, !.live = FALSE,
                        !.manual = @ + 1] \in GoodRows
         /\ \A s \in Reported :
              [r EXCEPT !.prov = s, !.status = NormalizeCallbackStatus(s)]
                \in GoodRows
<1> USE LeadMessagingAssumption
        DEF GoodRows, Rows, Statuses, Claimable, Attempts
<1>1. [r EXCEPT !.live = FALSE] \in GoodRows /\ [r EXCEPT !.due = TRUE] \in GoodRows
  OBVIOUS
<1>2. r.status = "sending" =>
        [r EXCEPT !.status = "uncertain", !.due = TRUE] \in GoodRows
  OBVIOUS
<1>3. ASSUME r.status = "absent", NEW s \in {"skipped", "pending", "queued"}
      PROVE  [r EXCEPT !.status = s] \in GoodRows
  BY <1>3
<1>4. ASSUME r.status \in Claimable
      PROVE  [r EXCEPT !.status = "sending", !.live = TRUE,
                       !.attempts = r.attempts + 1] \in GoodRows
  <2> DEFINE k == r.attempts + 1
             new == [r EXCEPT !.status = "sending", !.live = TRUE,
                              !.attempts = k]
  <2>1. k \in Attempts /\ k <= MaxAttempts + r.manual
    BY <1>4
  <2> HIDE DEF k
  <2>2. new \in Rows
    BY <2>1
  <2>3. new.attempts = k /\ new.manual = r.manual /\ new.status = "sending"
    OBVIOUS
  <2>4. new \in GoodRows
    BY <2>1, <2>2, <2>3
  <2> QED BY <2>4 DEF k
<1>5. ASSUME r.manual < MaxManual
      PROVE  [r EXCEPT !.status = "queued", !.due = TRUE, !.live = FALSE,
                       !.manual = @ + 1] \in GoodRows
  <2> DEFINE n == r.manual + 1
             new == [r EXCEPT !.status = "queued", !.due = TRUE,
                              !.live = FALSE, !.manual = n]
  <2>1. n \in 0 .. MaxManual /\ r.attempts < MaxAttempts + n
    BY <1>5
  <2> HIDE DEF n
  <2>2. new \in Rows
    BY <2>1
  <2>3. new.attempts = r.attempts /\ new.manual = n
    OBVIOUS
  <2>4. r.attempts \in Nat /\ r.attempts <= MaxAttempts + n
    BY <2>1
  <2> HIDE DEF new
  <2>5. new \in GoodRows
    BY <2>1, <2>2, <2>3, <2>4
  <2> QED BY <2>5 DEF n, new
<1>6. ASSUME NEW s \in Reported
      PROVE  [r EXCEPT !.prov = s, !.status = NormalizeCallbackStatus(s)]
               \in GoodRows
  <2>1. NormalizeCallbackStatus(s)
          \in {"delivered", "undelivered", "failed", "sent", "accepted"}
    BY DEF NormalizeCallbackStatus
  <2> QED BY <2>1
<1> QED BY <1>1, <1>2, <1>3, <1>4, <1>5, <1>6

(* An update by its owner types the row; anyone else's leaves it. *)
LEMMA UpdateIsTyped ==
  ASSUME Typed, NEW w \in Workers, at[w] \in Claims, NEW new, Update(w, new),
         Owns(w) => new \in GoodRows
  PROVE  /\ row' \in [Messages -> GoodRows]
         /\ pc' \in [Workers -> Labels]
         /\ at' \in [Workers -> Claims \cup {Idle}]
         /\ left' \in [Workers -> 0 .. DrainLimit]
BY TypedRows DEF TypedByRow, Update, Done, Goto, Labels

(* Every step keeps the types and the budget. *)
LEMMA TypeStep == Typed /\ Current /\ [Next]_vars => Typed'
<1> SUFFICES ASSUME Typed, Current, [Next]_vars PROVE TypedByRow'
  BY DEF Typed, TypeOK, Budgeted, GoodRows, TypedByRow
<1>t. TypedByRow
  BY TypedRows
<1>r. \A m \in Messages : row[m] \in GoodRows
  BY <1>t DEF TypedByRow
<1>w. ASSUME NEW w \in Workers, pc[w] \in {"picked", "claimed", "calling"}
      PROVE  /\ at[w] \in Claims /\ at[w].msg \in Messages
             /\ at[w].k \in Attempts /\ row[at[w].msg] \in GoodRows
  BY <1>w, <1>r DEF Current, Claims
<1>1. ASSUME NEW m \in Messages, PersistLeadMessageIntent(m)
      PROVE  TypedByRow'
  <2>1. \A s \in {"skipped", "pending", "queued"} :
          [row[m] EXCEPT !.status = s] \in GoodRows
    BY <1>1, <1>r, EditsAreGood DEF PersistLeadMessageIntent
  <2> QED BY <1>1, <1>t, <2>1
          DEF TypedByRow, PersistLeadMessageIntent, workerVars, twilioVars
<1>2. ASSUME NEW m \in Messages, RequestLeadMessageRetry(m)
      PROVE  TypedByRow'
  <2>1. [row[m] EXCEPT !.status = "queued", !.due = TRUE, !.live = FALSE,
                       !.manual = @ + 1] \in GoodRows
    BY <1>2, <1>r, EditsAreGood DEF RequestLeadMessageRetry, Retryable
  <2>2. row' \in [Messages -> GoodRows]
    BY <1>2, <1>t, <2>1 DEF TypedByRow, RequestLeadMessageRetry
  <2> QED BY <1>2, <1>t, <2>2
          DEF TypedByRow, RequestLeadMessageRetry, workerVars, twilioVars
<1>3. ASSUME NEW m \in Messages, LeaseExpires(m) \/ BecomesDue(m)
      PROVE  TypedByRow'
  <2>1. /\ [row[m] EXCEPT !.live = FALSE] \in GoodRows
        /\ [row[m] EXCEPT !.due = TRUE] \in GoodRows
    BY <1>r, EditsAreGood
  <2> QED BY <1>3, <1>t, <2>1
          DEF TypedByRow, LeaseExpires, BecomesDue, workerVars, twilioVars
<1>4. ASSUME NEW w \in Workers, NEW m \in Messages, DispatchInline(w, m)
      PROVE  TypedByRow'
  <2>1. [msg |-> m, k |-> 0] \in Claims /\ 0 \in 0 .. DrainLimit
    BY LeadMessagingAssumption DEF Claims, Attempts
  <2> QED BY <1>4, <1>t, <2>1
          DEF TypedByRow, DispatchInline, Goto, Labels, twilioVars
<1>5. ASSUME NEW w \in Workers, StartDrain(w)
      PROVE  TypedByRow'
  <2>1. \A m \in Messages : row[m].status = "sending" =>
          [row[m] EXCEPT !.status = "uncertain", !.due = TRUE] \in GoodRows
    BY <1>r, EditsAreGood
  <2>2. row' \in [Messages -> GoodRows]
    BY <1>5, <1>r, <2>1 DEF StartDrain
  <2>3. DrainLimit \in 0 .. DrainLimit
    BY LeadMessagingAssumption
  <2> QED BY <1>5, <1>t, <2>2, <2>3
          DEF TypedByRow, StartDrain, Goto, Labels, twilioVars
<1>6. ASSUME NEW w \in Workers, Pick(w) \/ EndDrain(w)
      PROVE  TypedByRow'
  <2>1. \A m \in Messages : [msg |-> m, k |-> 0] \in Claims
    BY LeadMessagingAssumption DEF Claims, Attempts
  <2>2. left[w] \in 0 .. DrainLimit /\ DrainLimit \in Nat
    BY <1>t, LeadMessagingAssumption DEF TypedByRow
  <2>3. left[w] > 0 => left[w] - 1 \in 0 .. DrainLimit
    BY <2>2
  <2>4. CASE Pick(w)
    BY <2>4, <1>t, <2>1, <2>3
    DEF TypedByRow, Pick, Candidates, Goto, Labels, twilioVars
  <2>5. CASE EndDrain(w)
    BY <2>5, <1>t DEF TypedByRow, EndDrain, Goto, Labels, twilioVars
  <2> QED BY <1>6, <2>4, <2>5
<1>7. ASSUME NEW w \in Workers, Claim(w)
      PROVE  TypedByRow'
  <2> DEFINE m == at[w].msg
             k == row[m].attempts + 1
             new == [row[m] EXCEPT !.status = "sending", !.live = TRUE,
                                   !.attempts = k]
  <2>1. m \in Messages /\ row[m] \in GoodRows /\ at[w] \in Claims
    BY <1>7, <1>w DEF Claim
  <2>2. row[m].status \in Claimable => new \in GoodRows
    BY <2>1, EditsAreGood
  <2>3. row[m].status \in Claimable => k \in Attempts
    <3>1. new.attempts = k
      BY <2>1 DEF GoodRows, Rows
    <3> HIDE DEF new
    <3> QED BY <3>1, <2>2 DEF GoodRows, Rows
  <2>4. row[m].status \in Claimable => [at[w] EXCEPT !.k = k] \in Claims
    BY <2>1, <2>3 DEF Claims
  <2>5. CASE row[m].status \in Claimable
    <3>1. row' = [row EXCEPT ![m] = new]
      BY <1>7, <2>5 DEF Claim
    <3>2. at' = [at EXCEPT ![w] = [at[w] EXCEPT !.k = k]]
      BY <1>7, <2>5 DEF Claim
    <3>3. /\ Goto(w, "claimed")
          /\ UNCHANGED <<left, twilioVars, faults>>
      BY <1>7, <2>5 DEF Claim
    <3> HIDE DEF m, k, new
    <3> QED BY <1>t, <2>2, <2>4, <2>5, <3>1, <3>2, <3>3
            DEF TypedByRow, Goto, Labels, twilioVars
  <2>6. CASE row[m].status \notin Claimable
    BY <1>7, <1>t, <2>6
    DEF TypedByRow, Claim, Done, Goto, Labels, twilioVars
  <2> QED BY <2>5, <2>6
<1>u. ASSUME NEW w \in Workers, pc[w] \in {"claimed", "calling"}, NEW new,
             Update(w, new), Owns(w) => new \in GoodRows,
             calls' \subseteq calls, texts' = texts, news' = news,
             faults' \in 0 .. MaxFaults
      PROVE  TypedByRow'
  <2>1. /\ row' \in [Messages -> GoodRows]
        /\ pc' \in [Workers -> Labels]
        /\ at' \in [Workers -> Claims \cup {Idle}]
        /\ left' \in [Workers -> 0 .. DrainLimit]
    BY <1>u, <1>w, UpdateIsTyped
  <2> QED BY <1>u, <1>t, <2>1 DEF TypedByRow
<1>f. ASSUME NEW w \in Workers, pc[w] \in {"claimed", "calling"}, NEW failure,
             HandleDispatchFailure(w, failure),
             calls' \subseteq calls, texts' = texts, news' = news,
             faults' \in 0 .. MaxFaults
      PROVE  TypedByRow'
  <2> DEFINE r == row[at[w].msg]
             status == ClassifyLeadMessagingFailure(failure, at[w].k)
             new == [r EXCEPT !.status = status, !.live = FALSE,
                              !.due = status # "retry_scheduled"]
  <2>1. r \in GoodRows /\ at[w].k \in Attempts
    BY <1>f, <1>w
  <2>2. Owns(w) => r.status = "sending" /\ r.attempts = at[w].k
    BY DEF Owns
  <2>3. Owns(w) => new \in GoodRows
    BY <2>1, <2>2, OutcomesAreGood
  <2>4. Update(w, new)
    BY <1>f DEF HandleDispatchFailure
  <2> HIDE DEF new
  <2> QED BY <1>f, <1>u, <2>3, <2>4
<1>fault. Fault \/ UNCHANGED faults => faults' \in 0 .. MaxFaults
  BY <1>t, LeadMessagingAssumption DEF TypedByRow, Fault
<1>8. ASSUME NEW w \in Workers, Retire(w)
      PROVE  TypedByRow'
  <2> DEFINE new == [row[at[w].msg] EXCEPT !.status = "skipped", !.live = FALSE, !.due = TRUE]
  <2>1. row[at[w].msg] \in GoodRows /\ at[w].k \in Attempts
    BY <1>8, <1>w DEF Retire
  <2>2. Owns(w) => new \in GoodRows
    BY <2>1, OutcomesAreGood DEF Owns
  <2>3. Update(w, new) /\ pc[w] = "claimed" /\ UNCHANGED <<calls, texts, news, faults>>
    BY <1>8 DEF Retire, twilioVars
  <2> HIDE DEF new
  <2> QED BY <1>u, <1>fault, <2>2, <2>3
<1>9. ASSUME NEW w \in Workers, FailLocally(w)
      PROVE  TypedByRow'
  BY <1>9, <1>f, <1>fault DEF FailLocally, twilioVars
<1>10. ASSUME NEW w \in Workers, Send(w)
       PROVE  TypedByRow'
  BY <1>10, <1>t, <1>w DEF TypedByRow, Send, Goto, Labels
<1>11. ASSUME NEW w \in Workers, NEW failure \in {"unsent", "definite"},
              Refused(w, failure)
       PROVE  TypedByRow'
  BY <1>11, <1>f, <1>fault DEF Refused
<1>12. ASSUME NEW w \in Workers, RecordAccepted(w)
       PROVE  TypedByRow'
  <2>1. PICK t \in texts :
          /\ t.msg = at[w].msg /\ t.k = at[w].k
          /\ Update(w, [row[at[w].msg] EXCEPT
               !.status = NormalizeAcceptedStatus(t.first), !.sid = t.k,
               !.prov = t.first, !.live = FALSE, !.due = TRUE])
    BY <1>12 DEF RecordAccepted
  <2> DEFINE new == [row[at[w].msg] EXCEPT
               !.status = NormalizeAcceptedStatus(t.first), !.sid = t.k,
               !.prov = t.first, !.live = FALSE, !.due = TRUE]
  <2>2. row[at[w].msg] \in GoodRows /\ at[w].k \in Attempts /\ t.first \in Reported
    BY <1>12, <1>t, <1>w DEF RecordAccepted, TypedByRow
  <2>3. Owns(w) => new \in GoodRows
    BY <2>1, <2>2, OutcomesAreGood DEF Owns
  <2>4. Update(w, new) /\ pc[w] = "calling" /\ UNCHANGED <<calls, texts, news, faults>>
    BY <1>12, <2>1 DEF RecordAccepted, twilioVars
  <2> HIDE DEF new
  <2> QED BY <1>u, <1>fault, <2>3, <2>4
<1>13. ASSUME NEW w \in Workers, Unanswered(w)
       PROVE  TypedByRow'
  BY <1>13, <1>f, <1>fault DEF Unanswered, twilioVars
<1>14. ASSUME NEW w \in Workers, RecordFails(w) \/ Crash(w)
       PROVE  TypedByRow'
  BY <1>14, <1>t, <1>fault
  DEF TypedByRow, RecordFails, Crash, Done, Goto, Labels, twilioVars
<1>15. ASSUME NEW c \in calls, Accept(c)
       PROVE  TypedByRow'
  <2>1. c.msg \in Messages /\ c.k \in Attempts
    BY <1>t DEF TypedByRow, Claims
  <2> QED BY <1>15, <1>t, <2>1
          DEF TypedByRow, Accept, FirstStatuses, workerVars
<1>16. ASSUME NEW t \in texts, NEW s \in Reported, Progress(t, s)
       PROVE  TypedByRow'
  <2>1. t.msg \in Messages /\ t.k \in Attempts
    BY <1>t DEF TypedByRow
  <2> QED BY <1>16, <1>t, <2>1 DEF TypedByRow, Progress, workerVars
<1>17. ASSUME NEW n \in news, ApplyTwilioStatusCallback(n)
       PROVE  TypedByRow'
  <2>1. n.msg \in Messages /\ n.st \in Reported
    BY <1>t DEF TypedByRow
  <2>2. [row[n.msg] EXCEPT !.prov = n.st, !.status = NormalizeCallbackStatus(n.st)]
          \in GoodRows
    BY <2>1, <1>r, EditsAreGood
  <2> QED BY <1>17, <1>t, <2>1, <2>2
          DEF TypedByRow, ApplyTwilioStatusCallback, workerVars, twilioVars
<1>18. CASE UNCHANGED vars
  BY <1>18, <1>t DEF TypedByRow, vars
<1> QED
  BY <1>1, <1>2, <1>3, <1>4, <1>5, <1>6, <1>7, <1>8, <1>9, <1>10, <1>11, <1>12,
     <1>13, <1>14, <1>15, <1>16, <1>17, <1>18 DEF Next, Dispatch

-----------------------------------------------------------------------------
(* What is under way. *)

Flight == Quiet /\ Current /\ Alone /\ SidsAreReal /\ AtMostOneText

(* What a row may say of a text, given its SID. *)
Honest(r) ==
  /\ r.sid # 0 => r.status \in {"accepted", "sent", "delivered", "failed",
                                "undelivered"}
  /\ r.sid = 0 => /\ r.prov = None
                  /\ r.status \notin {"accepted", "sent", "delivered",
                                      "undelivered"}

(* A step that sends, accepts and claims nothing, and puts no message at rest. *)
LEMMA CalmStep ==
  ASSUME TypeOK, Flight,
         \A m \in Messages : /\ row'[m].attempts = row[m].attempts
                             /\ row'[m].sid = row[m].sid
                             /\ AtRest(m)' => AtRest(m)
                             /\ Honest(row'[m]),
         \A w \in Workers :
           /\ Active(w)' => Active(w) /\ pc'[w] = pc[w] /\ at'[w] = at[w]
           /\ pc'[w] = "picked" => at'[w] \in Claims,
         UNCHANGED <<calls, texts>>,
         \A n \in news' : n.k # 0
  PROVE  Flight'
<1>1. \A m : Texted(m)' <=> Texted(m)
  BY DEF Texted
<1>2. Quiet'
  BY <1>1 DEF Flight, Quiet
<1>3. Current'
  <2>1. \A w \in Workers : Active(w)' =>
          at'[w] \in Claims /\ at'[w].k # 0 /\ at'[w].k = row'[at'[w].msg].attempts
    BY DEF Flight, Current, Active, Claims
  <2>2. \A w \in Workers : pc'[w] \in {"picked", "claimed", "calling"} =>
          at'[w] \in Claims
    BY <2>1 DEF Active
  <2>3. \A c \in calls : c.msg \in Messages
    BY DEF TypeOK, Claims
  <2>4. \A t \in texts : t.msg \in Messages
    BY DEF TypeOK
  <2> QED BY <1>1, <2>1, <2>2, <2>3, <2>4 DEF Flight, Current
<1>4. Alone'
  BY <1>1 DEF Flight, Alone, Active
<1>5. SidsAreReal'
  BY <1>1 DEF Flight, SidsAreReal, Honest
<1>6. AtMostOneText'
  BY DEF Flight, AtMostOneText
<1> QED BY <1>2, <1>3, <1>4, <1>5, <1>6 DEF Flight

(* A dispatcher ends its attempt with an outcome that is true. *)
LEMMA OutcomeStep ==
  ASSUME TypeOK, Flight, NEW w \in Workers, Active(w), NEW new,
         Update(w, new),
         Owns(w) => new.attempts = row[at[w].msg].attempts /\ Honest(new),
         Owns(w) /\ new.sid # 0 => Texted(at[w].msg),
         Owns(w) /\ new.sid = 0 =>
           \/ new.status = "uncertain"
           \/ ~Texted(at[w].msg) /\ \A c \in calls' : c.msg # at[w].msg,
         calls' \subseteq calls, UNCHANGED <<texts, news>>
  PROVE  Flight'
<1> DEFINE m == at[w].msg
<1>1. \A q : Texted(q)' <=> Texted(q)
  BY DEF Texted
<1>2. m \in Messages
  BY DEF Flight, Current, Active, Claims
<1>3. /\ Owns(w) => row'[m] = new /\ \A q \in Messages \ {m} : row'[q] = row[q]
      /\ ~Owns(w) => row' = row
  BY <1>2 DEF Update, TypeOK
<1>4. /\ pc'[w] = "loop"
      /\ \A v \in Workers \ {w} : pc'[v] = pc[v] /\ at'[v] = at[v]
  BY DEF Update, Done, Goto, TypeOK
<1>5. \A v \in Workers : Active(v)' => v # w /\ Active(v) /\ at[v].msg # m
  BY <1>4 DEF Flight, Alone, Active
<1>6. \A q \in Messages : row'[q].attempts = row[q].attempts
  BY <1>3
<1>7. Quiet'
  <2> SUFFICES ASSUME NEW q \in Messages, AtRest(q)'
               PROVE  /\ ~Texted(q)
                      /\ \A c \in calls' : c.msg # q
                      /\ \A v \in Workers : Active(v)' => at'[v].msg # q
    BY <1>1 DEF Quiet
  <2>1. CASE Owns(w) /\ q = m
    BY <1>3, <1>4, <1>5, <2>1 DEF AtRest, Claimable
  <2>2. CASE ~(Owns(w) /\ q = m)
    <3>1. AtRest(q)
      BY <1>3, <2>2 DEF AtRest
    <3> QED BY <3>1, <1>4, <1>5 DEF Flight, Quiet
  <2> QED BY <2>1, <2>2
<1>8. Current'
  <2>1. \A v \in Workers : pc'[v] \in {"picked", "claimed", "calling"} =>
          /\ pc'[v] = pc[v] /\ at'[v] = at[v] /\ at[v] \in Claims
    BY <1>4 DEF Flight, Current
  <2>2. \A v \in Workers : Active(v)' =>
          at'[v].k # 0 /\ at'[v].k = row'[at'[v].msg].attempts
    BY <1>6, <2>1 DEF Flight, Current, Active, Claims
  <2>3. \A c \in calls : c.msg \in Messages
    BY DEF TypeOK, Claims
  <2>4. \A t \in texts : t.msg \in Messages
    BY DEF TypeOK
  <2> QED BY <1>1, <1>6, <2>1, <2>2, <2>3, <2>4 DEF Flight, Current
<1>9. Alone'
  BY <1>1, <1>4, <1>5 DEF Flight, Alone, Active
<1>10. SidsAreReal'
  BY <1>1, <1>3 DEF Flight, SidsAreReal, Honest
<1>11. AtMostOneText'
  BY DEF Flight, AtMostOneText
<1> QED BY <1>7, <1>8, <1>9, <1>10, <1>11 DEF Flight

(* A dispatch that fails says so, and how, of its own attempt only. *)
LEMMA FailureStep ==
  ASSUME TypeOK, Flight, NEW w \in Workers, Active(w), NEW failure,
         HandleDispatchFailure(w, failure),
         \/ failure = "ambiguous"
         \/ ~Texted(at[w].msg) /\ \A c \in calls' : c.msg # at[w].msg,
         calls' \subseteq calls, UNCHANGED <<texts, news>>
  PROVE  Flight'
<1> DEFINE m == at[w].msg
           status == ClassifyLeadMessagingFailure(failure, at[w].k)
           due == status # "retry_scheduled"
           new == [row[m] EXCEPT !.status = status, !.live = FALSE, !.due = due]
<1>1. m \in Messages /\ row[m] \in Rows
  BY DEF Flight, Current, Active, Claims, TypeOK
<1>2. /\ status \in {"retry_scheduled", "uncertain", "failed"}
      /\ failure = "ambiguous" => status = "uncertain"
  BY DEF ClassifyLeadMessagingFailure
<1>3. Update(w, new)
  BY DEF HandleDispatchFailure
<1>4. Owns(w) => row[m].status = "sending" /\ row[m].sid = 0 /\ row[m].prov = None
  BY <1>1 DEF Owns, Flight, SidsAreReal
<1>5. /\ new.status = status /\ new.attempts = row[m].attempts
      /\ new.sid = row[m].sid /\ new.prov = row[m].prov
  <2> HIDE DEF status, due
  <2> QED BY <1>1 DEF Rows
<1>6. Owns(w) => Honest(new) /\ new.sid = 0
  <2> HIDE DEF new, status
  <2> QED BY <1>2, <1>4, <1>5 DEF Honest
<1> HIDE DEF new, status
<1> QED BY <1>2, <1>3, <1>5, <1>6, OutcomeStep

(* Every step keeps what is under way in order. *)
LEMMA FlightStep == TypeOK /\ TypeOK' /\ Flight /\ [Next]_vars => Flight'
<1> SUFFICES ASSUME TypeOK, TypeOK', Flight, [Next]_vars PROVE Flight'
  OBVIOUS
<1>r. \A m \in Messages : row[m] \in Rows /\ Honest(row[m])
  BY DEF TypeOK, Flight, SidsAreReal, Honest
<1>w. ASSUME NEW w \in Workers, Active(w)
      PROVE  at[w] \in Claims /\ at[w].msg \in Messages
  BY <1>w DEF Flight, Current, Active, Claims
<1>n. \A n \in news : n.k # 0
  BY DEF Flight, Current
<1>1. ASSUME NEW m \in Messages, PersistLeadMessageIntent(m)
      PROVE  Flight'
  <2>1. PICK s \in {"skipped", "pending", "queued"} :
          row' = [row EXCEPT ![m] = [row[m] EXCEPT !.status = s]]
    BY <1>1 DEF PersistLeadMessageIntent
  <2>2. row[m].status = "absent" /\ row[m].sid = 0 /\ row[m].prov = None
    BY <1>1, <1>r DEF PersistLeadMessageIntent, Honest
  <2>3. \A q \in Messages :
          /\ row'[q].attempts = row[q].attempts /\ row'[q].sid = row[q].sid
          /\ row'[q].prov = row[q].prov
          /\ row'[q].status = IF q = m THEN s ELSE row[q].status
    BY <2>1, <1>r DEF TypeOK, Rows
  <2>4. \A q \in Messages : /\ AtRest(q)' => AtRest(q)
                            /\ Honest(row'[q])
    BY <2>2, <2>3, <1>r DEF AtRest, Honest
  <2>5. UNCHANGED <<pc, at, calls, texts, news>>
    BY <1>1 DEF PersistLeadMessageIntent, workerVars, twilioVars
  <2> QED BY <2>3, <2>4, <2>5, <1>n, CalmStep DEF Active, Flight, Current
<1>2. ASSUME NEW m \in Messages, RequestLeadMessageRetry(m)
      PROVE  Flight'
  <2>1. /\ row[m].status = "failed" /\ row[m].sid = 0 /\ row[m].prov = None
    BY <1>2, <1>r DEF RequestLeadMessageRetry, Retryable, Honest
  <2>2. row' = [row EXCEPT ![m] = [row[m] EXCEPT !.status = "queued", !.due = TRUE,
                                      !.live = FALSE, !.manual = @ + 1]]
    BY <1>2 DEF RequestLeadMessageRetry
  <2>3. \A q \in Messages :
          /\ row'[q].attempts = row[q].attempts /\ row'[q].sid = row[q].sid
          /\ row'[q].prov = row[q].prov
          /\ row'[q].status = IF q = m THEN "queued" ELSE row[q].status
    BY <2>2, <1>r DEF TypeOK, Rows
  <2>4. \A q \in Messages : /\ AtRest(q)' => AtRest(q)
                            /\ Honest(row'[q])
    BY <2>1, <2>3, <1>r DEF AtRest, Honest
  <2>5. UNCHANGED <<pc, at, calls, texts, news>>
    BY <1>2 DEF RequestLeadMessageRetry, workerVars, twilioVars
  <2> QED BY <2>3, <2>4, <2>5, <1>n, CalmStep DEF Active, Flight, Current
<1>3. ASSUME NEW m \in Messages, LeaseExpires(m) \/ BecomesDue(m)
      PROVE  Flight'
  <2>1. \/ row' = [row EXCEPT ![m] = [row[m] EXCEPT !.live = FALSE]]
        \/ row' = [row EXCEPT ![m] = [row[m] EXCEPT !.due = TRUE]]
    BY <1>3 DEF LeaseExpires, BecomesDue
  <2>2. \A q \in Messages :
          /\ row'[q].attempts = row[q].attempts /\ row'[q].sid = row[q].sid
          /\ row'[q].prov = row[q].prov /\ row'[q].status = row[q].status
    BY <2>1, <1>r DEF TypeOK, Rows
  <2>3. \A q \in Messages : /\ AtRest(q)' => AtRest(q)
                            /\ Honest(row'[q])
    BY <2>2, <1>r DEF AtRest, Honest
  <2>4. UNCHANGED <<pc, at, calls, texts, news>>
    BY <1>3 DEF LeaseExpires, BecomesDue, workerVars, twilioVars
  <2> QED BY <2>2, <2>3, <2>4, <1>n, CalmStep DEF Active, Flight, Current
<1>same. row' = row => \A q \in Messages :
           /\ row'[q].attempts = row[q].attempts /\ row'[q].sid = row[q].sid
           /\ AtRest(q)' => AtRest(q)
           /\ Honest(row'[q])
  BY <1>r DEF AtRest
<1>4. ASSUME NEW w \in Workers, NEW m \in Messages, DispatchInline(w, m)
      PROVE  Flight'
  <2>1. [msg |-> m, k |-> 0] \in Claims
    BY LeadMessagingAssumption DEF Claims, Attempts
  <2>2. \A v \in Workers :
          /\ Active(v)' => Active(v) /\ pc'[v] = pc[v] /\ at'[v] = at[v]
          /\ pc'[v] = "picked" => at'[v] \in Claims
    BY <1>4, <2>1 DEF DispatchInline, Goto, Active, TypeOK, Flight, Current
  <2>3. UNCHANGED <<row, calls, texts, news>>
    BY <1>4 DEF DispatchInline, twilioVars
  <2> QED BY <2>2, <2>3, <1>same, <1>n, CalmStep
<1>5. ASSUME NEW w \in Workers, StartDrain(w)
      PROVE  Flight'
  <2>1. \A q \in Messages :
          /\ row'[q].attempts = row[q].attempts /\ row'[q].sid = row[q].sid
          /\ row'[q].prov = row[q].prov
          /\ \/ row'[q].status = row[q].status
             \/ row[q].status = "sending" /\ row'[q].status = "uncertain"
    BY <1>5, <1>r DEF StartDrain, Rows
  <2>2. \A q \in Messages : /\ AtRest(q)' => AtRest(q)
                            /\ Honest(row'[q])
    BY <2>1, <1>r DEF AtRest, Honest, Claimable
  <2>3. \A v \in Workers :
          /\ Active(v)' => Active(v) /\ pc'[v] = pc[v] /\ at'[v] = at[v]
          /\ pc'[v] = "picked" => at'[v] \in Claims
    BY <1>5 DEF StartDrain, Goto, Active, TypeOK, Flight, Current
  <2>4. UNCHANGED <<calls, texts, news>>
    BY <1>5 DEF StartDrain, twilioVars
  <2> QED BY <2>1, <2>2, <2>3, <2>4, <1>n, CalmStep
<1>6. ASSUME NEW w \in Workers,
             Pick(w) \/ EndDrain(w) \/ RecordFails(w) \/ Crash(w)
      PROVE  Flight'
  <2>1. \A m \in Messages : [msg |-> m, k |-> 0] \in Claims
    BY LeadMessagingAssumption DEF Claims, Attempts
  <2>2. \A v \in Workers :
          /\ Active(v)' => Active(v) /\ pc'[v] = pc[v] /\ at'[v] = at[v]
          /\ pc'[v] = "picked" => at'[v] \in Claims
    <3>1. \A v \in Workers : pc[v] = "picked" => at[v] \in Claims
      BY DEF Flight, Current
    <3>2. CASE Pick(w)
      BY <3>2, <3>1, <2>1 DEF Pick, Candidates, Goto, Active, TypeOK
    <3>3. CASE EndDrain(w)
      BY <3>3, <3>1 DEF EndDrain, Goto, Active, TypeOK
    <3>4. CASE RecordFails(w) \/ Crash(w)
      BY <3>4, <3>1 DEF RecordFails, Crash, Done, Goto, Active, TypeOK
    <3> QED BY <1>6, <3>2, <3>3, <3>4
  <2>3. UNCHANGED <<row, calls, texts, news>>
    BY <1>6 DEF Pick, EndDrain, RecordFails, Crash, Done, twilioVars
  <2> QED BY <2>2, <2>3, <1>same, <1>n, CalmStep
<1>7. ASSUME NEW w \in Workers, Claim(w)
      PROVE  Flight'
  <2> DEFINE m == at[w].msg
             k == row[m].attempts + 1
             new == [row[m] EXCEPT !.status = "sending", !.live = TRUE,
                                   !.attempts = k]
  <2>1. at[w] \in Claims /\ m \in Messages /\ row[m] \in Rows /\ pc[w] = "picked"
    BY <1>7, <1>r DEF Claim, Flight, Current, Claims
  <2>2. CASE row[m].status \in Claimable
    <3>1. /\ row' = [row EXCEPT ![m] = new]
          /\ at' = [at EXCEPT ![w] = [at[w] EXCEPT !.k = k]]
          /\ pc' = [pc EXCEPT ![w] = "claimed"]
          /\ UNCHANGED <<calls, texts, news>>
      BY <1>7, <2>2 DEF Claim, Goto, twilioVars
    <3>2. k # 0 /\ k = row[m].attempts + 1
      BY <2>1 DEF Rows, Attempts
    <3>3. /\ new.status = "sending" /\ new.attempts = k
          /\ new.sid = row[m].sid /\ new.prov = row[m].prov
      <4> HIDE DEF k
      <4> QED BY <2>1 DEF Rows
    <3>4. row[m].sid = 0 /\ AtRest(m)
      BY <2>1, <2>2, <1>r DEF Honest, AtRest, Claimable
    <3>5. /\ ~Texted(m) /\ \A c \in calls : c.msg # m
          /\ \A v \in Workers : Active(v) => at[v].msg # m
      BY <2>1, <3>4 DEF Flight, Quiet
    <3>6. [at[w] EXCEPT !.k = k].msg = m /\ [at[w] EXCEPT !.k = k].k = k
      BY <2>1 DEF Claims
    <3> HIDE DEF m, k, new
    <3>7. /\ at'[w].msg = m /\ at'[w].k = k /\ pc'[w] = "claimed"
          /\ \A v \in Workers \ {w} : at'[v] = at[v] /\ pc'[v] = pc[v]
      BY <3>1, <3>6 DEF TypeOK
    <3>8. /\ row'[m] = new
          /\ \A q \in Messages \ {m} : row'[q] = row[q]
      BY <2>1, <3>1 DEF TypeOK
    <3>9. \A q : Texted(q)' <=> Texted(q)
      BY <3>1 DEF Texted
    <3>10. Quiet'
      <4> SUFFICES ASSUME NEW q \in Messages, AtRest(q)'
                   PROVE  /\ ~Texted(q)
                          /\ \A c \in calls : c.msg # q
                          /\ \A v \in Workers : Active(v)' => at'[v].msg # q
        BY <3>1, <3>9 DEF Quiet
      <4>1. q # m
        BY <3>3, <3>8 DEF AtRest, Claimable
      <4>2. AtRest(q)
        BY <4>1, <3>8 DEF AtRest
      <4> QED BY <4>1, <4>2, <3>7 DEF Flight, Quiet, Active
    <3>11. Current'
      <4>1. at'[w] \in Claims
        BY <2>1, <3>7, LeadMessagingAssumption DEF TypeOK, Idle
      <4>2. \A v \in Workers : pc'[v] \in {"picked", "claimed", "calling"} =>
              at'[v] \in Claims
        BY <4>1, <3>7 DEF Flight, Current
      <4>3. \A v \in Workers : Active(v)' =>
              at'[v].k # 0 /\ at'[v].k = row'[at'[v].msg].attempts
        <5>1. \A v \in Workers \ {w} : Active(v)' =>
                /\ Active(v) /\ at'[v] = at[v] /\ at[v].msg # m
                /\ at[v].msg \in Messages
          BY <1>w, <3>5, <3>7 DEF Active
        <5>2. \A v \in Workers \ {w} : Active(v)' =>
                at'[v].k # 0 /\ at'[v].k = row'[at'[v].msg].attempts
          BY <5>1, <3>8 DEF Flight, Current
        <5>3. at'[w].k # 0 /\ at'[w].k = row'[at'[w].msg].attempts
          BY <3>2, <3>3, <3>7, <3>8
        <5> QED BY <5>2, <5>3
      <4>4. \A c \in calls : /\ c.k # 0 /\ c.k = row'[c.msg].attempts
                             /\ ~Texted(c.msg)
        <5>1. \A c \in calls : c.msg \in Messages \ {m}
          BY <3>5 DEF TypeOK, Claims
        <5> QED BY <5>1, <3>8 DEF Flight, Current
      <4>5. \A t \in texts : t.k # 0 /\ t.k = row'[t.msg].attempts
        <5>1. \A t \in texts : t.msg \in Messages \ {m}
          BY <3>5 DEF TypeOK, Texted
        <5> QED BY <5>1, <3>8 DEF Flight, Current
      <4> QED BY <4>2, <4>3, <4>4, <4>5, <3>1, <3>9, <1>n DEF Current
    <3>12. Alone'
      <4>1. \A v \in Workers \ {w} : Active(v)' =>
              /\ Active(v) /\ pc'[v] = pc[v] /\ at'[v] = at[v] /\ at[v].msg # m
        BY <3>5, <3>7 DEF Active
      <4>2. \A v \in Workers : pc'[v] = "claimed" =>
              ~Texted(at'[v].msg) /\ \A c \in calls : c.msg # at'[v].msg
        BY <4>1, <3>5, <3>7 DEF Flight, Alone, Active
      <4>3. \A u, v \in Workers :
              Active(u)' /\ Active(v)' /\ at'[u].msg = at'[v].msg => u = v
        BY <4>1, <3>7 DEF Flight, Alone
      <4> QED BY <4>2, <4>3, <3>1, <3>9 DEF Alone
    <3>13. SidsAreReal'
      <4>1. Honest(row'[m])
        BY <3>3, <3>4, <3>8, <2>1, <1>r DEF Honest
      <4>2. row'[m].sid = 0
        BY <3>3, <3>4, <3>8
      <4> QED BY <4>1, <4>2, <3>8, <3>9 DEF Flight, SidsAreReal, Honest
    <3>14. AtMostOneText'
      BY <3>1 DEF Flight, AtMostOneText
    <3> QED BY <3>10, <3>11, <3>12, <3>13, <3>14 DEF Flight
  <2>3. CASE row[m].status \notin Claimable
    <3>1. \A v \in Workers :
            /\ Active(v)' => Active(v) /\ pc'[v] = pc[v] /\ at'[v] = at[v]
            /\ pc'[v] = "picked" => at'[v] \in Claims
      BY <1>7, <2>3
      DEF Claim, Done, Goto, Active, TypeOK, Flight, Current
    <3>2. UNCHANGED <<row, calls, texts, news>>
      BY <1>7, <2>3 DEF Claim, twilioVars
    <3> QED BY <3>1, <3>2, <1>same, <1>n, CalmStep
  <2> QED BY <2>2, <2>3
<1>a. ASSUME NEW w \in Workers, pc[w] = "claimed"
      PROVE  ~Texted(at[w].msg) /\ \A c \in calls : c.msg # at[w].msg
  BY <1>a DEF Flight, Alone
<1>8. ASSUME NEW w \in Workers, Retire(w)
      PROVE  Flight'
  <2> DEFINE r == row[at[w].msg]
             new == [r EXCEPT !.status = "skipped", !.live = FALSE, !.due = TRUE]
  <2>1. Active(w) /\ Update(w, new) /\ UNCHANGED <<calls, texts, news>>
    BY <1>8 DEF Retire, Active, twilioVars
  <2>2. r \in Rows /\ Honest(r)
    BY <2>1, <1>r, <1>w
  <2>3. /\ new.status = "skipped" /\ new.attempts = r.attempts
        /\ new.sid = r.sid /\ new.prov = r.prov
    BY <2>2 DEF Rows
  <2>4. Owns(w) => r.sid = 0
    BY <2>2 DEF Owns, Honest
  <2>5. ~Texted(at[w].msg) /\ \A c \in calls' : c.msg # at[w].msg
    BY <1>8, <2>1, <1>a DEF Retire
  <2> HIDE DEF new
  <2>6. Owns(w) => Honest(new) /\ new.sid = 0
    BY <2>2, <2>3, <2>4 DEF Honest
  <2> QED BY <2>1, <2>3, <2>5, <2>6, OutcomeStep
<1>9. ASSUME NEW w \in Workers, FailLocally(w)
      PROVE  Flight'
  <2>1. /\ Active(w) /\ HandleDispatchFailure(w, "definite")
        /\ UNCHANGED <<calls, texts, news>>
    BY <1>9 DEF FailLocally, Active, twilioVars
  <2>2. ~Texted(at[w].msg) /\ \A c \in calls' : c.msg # at[w].msg
    BY <1>9, <2>1, <1>a DEF FailLocally
  <2> QED BY <2>1, <2>2, FailureStep
<1>10. ASSUME NEW w \in Workers, Send(w)
       PROVE  Flight'
  <2>1. /\ Active(w) /\ pc[w] = "claimed" /\ calls' = calls \cup {at[w]}
        /\ pc'[w] = "calling"
        /\ \A v \in Workers \ {w} : pc'[v] = pc[v]
        /\ UNCHANGED <<row, at, texts, news>>
    BY <1>10 DEF Send, Goto, Active, TypeOK
  <2>2. /\ at[w] \in Claims /\ at[w].k # 0
        /\ at[w].k = row[at[w].msg].attempts /\ ~Texted(at[w].msg)
    BY <2>1, <1>w, <1>a DEF Flight, Current
  <2>3. \A q : Texted(q)' <=> Texted(q)
    BY <2>1 DEF Texted
  <2>4. \A v \in Workers : Active(v)' <=> Active(v)
    BY <2>1 DEF Active
  <2>5. Quiet'
    <3>1. \A q \in Messages : AtRest(q)' <=> AtRest(q)
      BY <2>1 DEF AtRest
    <3>2. ~AtRest(at[w].msg)
      BY <2>1, <1>w DEF Flight, Quiet
    <3> QED BY <2>1, <2>3, <2>4, <3>1, <3>2 DEF Flight, Quiet
  <2>6. Current'
    <3>1. \A v \in Workers : pc'[v] \in {"picked", "claimed", "calling"} =>
            pc[v] \in {"picked", "claimed", "calling"}
      BY <2>1
    <3> QED BY <2>1, <2>2, <2>3, <2>4, <3>1 DEF Flight, Current
  <2>7. Alone'
    <3>1. \A v \in Workers : pc'[v] = "claimed" =>
            v # w /\ pc[v] = "claimed" /\ at[v].msg # at[w].msg
      BY <2>1 DEF Flight, Alone, Active
    <3> QED BY <2>1, <2>3, <2>4, <3>1 DEF Flight, Alone
  <2>8. SidsAreReal' /\ AtMostOneText'
    BY <2>1, <2>3 DEF Flight, SidsAreReal, AtMostOneText
  <2> QED BY <2>5, <2>6, <2>7, <2>8 DEF Flight
<1>11. ASSUME NEW w \in Workers, NEW failure \in {"unsent", "definite"},
              Refused(w, failure)
       PROVE  Flight'
  <2>1. /\ Active(w) /\ HandleDispatchFailure(w, failure)
        /\ at[w] \in calls /\ calls' = calls \ {at[w]}
        /\ UNCHANGED <<texts, news>>
    BY <1>11 DEF Refused, Active
  <2>2. ~Texted(at[w].msg)
    BY <2>1 DEF Flight, Current
  <2>3. ASSUME NEW c \in calls', c.msg = at[w].msg
        PROVE  FALSE
    <3>1. c.k = at[w].k
      BY <2>1, <2>3 DEF Flight, Current
    <3>2. c \in Claims /\ at[w] \in Claims
      BY <2>1 DEF TypeOK
    <3>3. c = at[w]
      BY <2>3, <3>1, <3>2 DEF Claims
    <3> QED BY <2>1, <3>3
  <2> QED BY <2>1, <2>2, <2>3, FailureStep
<1>12. ASSUME NEW w \in Workers, RecordAccepted(w)
       PROVE  Flight'
  <2>1. PICK t \in texts :
          /\ t.msg = at[w].msg /\ t.k = at[w].k
          /\ Update(w, [row[at[w].msg] EXCEPT
               !.status = NormalizeAcceptedStatus(t.first), !.sid = t.k,
               !.prov = t.first, !.live = FALSE, !.due = TRUE])
    BY <1>12 DEF RecordAccepted
  <2> DEFINE r == row[at[w].msg]
             status == NormalizeAcceptedStatus(t.first)
             new == [r EXCEPT !.status = status, !.sid = t.k,
                              !.prov = t.first, !.live = FALSE, !.due = TRUE]
  <2>2. Active(w) /\ Update(w, new) /\ UNCHANGED <<calls, texts, news>>
    BY <1>12, <2>1 DEF RecordAccepted, Active, twilioVars
  <2>3. r \in Rows
    BY <2>2, <1>r, <1>w
  <2>4. status \in {"accepted", "sent"}
    BY DEF NormalizeAcceptedStatus
  <2>5. new.status = status /\ new.attempts = r.attempts /\ new.sid = t.k
    <3> HIDE DEF status
    <3> QED BY <2>3 DEF Rows
  <2>6. t.k # 0 /\ Texted(at[w].msg)
    BY <2>1 DEF Flight, Current, Texted
  <2> HIDE DEF new, status
  <2>7. Honest(new)
    BY <2>4, <2>5, <2>6 DEF Honest
  <2> QED BY <2>2, <2>5, <2>6, <2>7, OutcomeStep
<1>13. ASSUME NEW w \in Workers, Unanswered(w)
       PROVE  Flight'
  <2>1. /\ Active(w) /\ HandleDispatchFailure(w, "ambiguous")
        /\ UNCHANGED <<calls, texts, news>>
    BY <1>13 DEF Unanswered, Active, twilioVars
  <2> QED BY <2>1, FailureStep
<1>14. ASSUME NEW c \in calls, Accept(c)
       PROVE  Flight'
  <2>1. PICK s \in FirstStatuses :
          /\ texts' = texts \cup {[msg |-> c.msg, k |-> c.k, first |-> s]}
          /\ news' = news \cup {[msg |-> c.msg, k |-> c.k, st |-> s]}
    BY <1>14 DEF Accept
  <2>2. calls' = calls \ {c} /\ UNCHANGED <<row, pc, at>>
    BY <1>14 DEF Accept, workerVars
  <2>3. /\ c.msg \in Messages /\ c.k # 0 /\ c.k = row[c.msg].attempts
        /\ ~Texted(c.msg) /\ ~AtRest(c.msg)
    BY DEF TypeOK, Claims, Flight, Current, Quiet
  <2>4. \A q : Texted(q)' <=> Texted(q) \/ q = c.msg
    <3> DEFINE new == [msg |-> c.msg, k |-> c.k, first |-> s]
    <3>1. new.msg = c.msg /\ texts' = texts \cup {new}
      BY <2>1
    <3> HIDE DEF new
    <3> QED BY <3>1 DEF Texted
  <2>5. ASSUME NEW d \in calls', d.msg = c.msg
        PROVE  FALSE
    <3>1. d.k = c.k
      BY <2>2, <2>5 DEF Flight, Current
    <3>2. d \in Claims /\ c \in Claims
      BY <2>2 DEF TypeOK
    <3>3. d = c
      BY <2>5, <3>1, <3>2 DEF Claims
    <3> QED BY <2>2, <3>3
  <2>6. \A v \in Workers : Active(v)' <=> Active(v)
    BY <2>2 DEF Active
  <2>7. Quiet'
    <3>1. \A q \in Messages : AtRest(q)' <=> AtRest(q)
      BY <2>2 DEF AtRest
    <3> QED BY <2>2, <2>3, <2>4, <2>6, <3>1 DEF Flight, Quiet
  <2>8. Current'
    <3>1. \A d \in calls' : /\ d.k # 0 /\ d.k = row'[d.msg].attempts
                            /\ ~Texted(d.msg)'
      BY <2>2, <2>4, <2>5 DEF Flight, Current
    <3>2. \A t \in texts' : t.k # 0 /\ t.k = row'[t.msg].attempts
      BY <2>1, <2>2, <2>3 DEF Flight, Current
    <3>3. \A n \in news' : n.k # 0
      BY <2>1, <2>3, <1>n
    <3>4. \A v \in Workers :
            /\ pc'[v] \in {"picked", "claimed", "calling"} => at'[v] \in Claims
            /\ Active(v)' => at'[v].k # 0 /\ at'[v].k = row'[at'[v].msg].attempts
      BY <2>2, <2>6 DEF Flight, Current
    <3> QED BY <3>1, <3>2, <3>3, <3>4 DEF Current
  <2>9. Alone'
    <3>1. \A v \in Workers : pc[v] = "claimed" => at[v].msg # c.msg
      BY <1>a
    <3> QED BY <2>2, <2>4, <2>6, <3>1 DEF Flight, Alone
  <2>10. SidsAreReal'
    BY <2>2, <2>4 DEF Flight, SidsAreReal
  <2>11. AtMostOneText'
    BY <2>1, <2>3 DEF Flight, AtMostOneText, Texted
  <2> QED BY <2>7, <2>8, <2>9, <2>10, <2>11 DEF Flight
<1>15. ASSUME NEW t \in texts, NEW s \in Reported, Progress(t, s)
       PROVE  Flight'
  <2>1. /\ news' = news \cup {[msg |-> t.msg, k |-> t.k, st |-> s]}
        /\ UNCHANGED <<row, pc, at, calls, texts>>
    BY <1>15 DEF Progress, workerVars
  <2>2. \A n \in news' : n.k # 0
    BY <2>1, <1>n DEF Flight, Current
  <2> QED BY <2>1, <2>2, <1>same, CalmStep DEF Active, Flight, Current
<1>16. ASSUME NEW n \in news, ApplyTwilioStatusCallback(n)
       PROVE  Flight'
  <2> DEFINE m == n.msg
             status == NormalizeCallbackStatus(n.st)
             new == [row[m] EXCEPT !.prov = n.st, !.status = status]
  <2>1. m \in Messages /\ row[m] \in Rows /\ row[m].sid # 0
    BY <1>16, <1>n, <1>r DEF TypeOK, ApplyTwilioStatusCallback
  <2>2. row' = [row EXCEPT ![m] = new] /\ UNCHANGED <<pc, at, calls, texts, news>>
    BY <1>16 DEF ApplyTwilioStatusCallback, workerVars, twilioVars
  <2>3. status \in {"delivered", "undelivered", "failed", "sent", "accepted"}
    BY DEF NormalizeCallbackStatus
  <2>4. /\ new.status = status /\ new.attempts = row[m].attempts
        /\ new.sid = row[m].sid
    <3> HIDE DEF status
    <3> QED BY <2>1 DEF Rows
  <2> HIDE DEF m, status, new
  <2>5. \A q \in Messages :
          /\ row'[q].attempts = row[q].attempts /\ row'[q].sid = row[q].sid
          /\ q # m => row'[q] = row[q]
          /\ q = m => row'[q] = new
    BY <2>1, <2>2, <2>4 DEF TypeOK
  <2>6. \A q \in Messages : /\ AtRest(q)' => AtRest(q)
                            /\ Honest(row'[q])
    BY <2>1, <2>3, <2>4, <2>5, <1>r DEF AtRest, Honest
  <2> QED BY <2>2, <2>5, <2>6, <1>n, CalmStep DEF Active, Flight, Current
<1>17. CASE UNCHANGED vars
  BY <1>17, <1>same, <1>n, CalmStep DEF vars, Active, Flight, Current
<1> QED
  BY <1>1, <1>2, <1>3, <1>4, <1>5, <1>6, <1>7, <1>8, <1>9, <1>10, <1>11, <1>12,
     <1>13, <1>14, <1>15, <1>16, <1>17 DEF Next, Dispatch

-----------------------------------------------------------------------------
(* Theorems. *)

LEMMA InitIsFine == Init => IInv
<1> SUFFICES ASSUME Init PROVE IInv
  OBVIOUS
<1>1. AbsentRow \in Rows
  BY LeadMessagingAssumption DEF AbsentRow, Rows, Attempts, Statuses
<1>2. \A m \in Messages : row[m] = AbsentRow
  BY DEF Init
<1>3. /\ AbsentRow.status = "absent" /\ AbsentRow.sid = 0
      /\ AbsentRow.prov = None /\ AbsentRow.attempts = 0
      /\ AbsentRow.manual = 0
  BY DEF AbsentRow
<1>4. TypeOK
  BY <1>1, LeadMessagingAssumption DEF Init, TypeOK, Labels
<1>5. Budgeted
  <2>1. 0 <= MaxAttempts + 0 /\ 0 < MaxAttempts + 0
    BY LeadMessagingAssumption
  <2>2. \A m \in Messages : row[m].attempts = 0 /\ row[m].manual = 0
    BY <1>2, <1>3
  <2> QED BY <2>1, <2>2 DEF Budgeted
<1>6. Quiet
  BY DEF Init, Quiet, Texted, Active
<1>7. Current /\ Alone
  BY DEF Init, Current, Alone, Active
<1>8. SidsAreReal
  BY <1>2, <1>3 DEF SidsAreReal
<1>9. AtMostOneText
  BY DEF Init, AtMostOneText
<1> QED BY <1>4, <1>5, <1>6, <1>7, <1>8, <1>9 DEF IInv

(* IInv is an inductive invariant: budgets, and who may be at work on what. *)
THEOREM InductiveInvariant == Spec => []IInv
<1>1. IInv /\ [Next]_vars => IInv'
  BY TypeStep, FlightStep DEF IInv, Typed, Flight
<1> QED BY InitIsFine, <1>1, PTL DEF Spec

(* Every variable keeps its type, and no message is attempted more often than
   the two retry limits allow. *)
THEOREM TypeCorrect == Spec => []TypeOK
<1>1. IInv => TypeOK
  BY DEF IInv
<1> QED BY <1>1, InductiveInvariant, PTL

(* No lead is texted twice for one message, whatever drains, inline dispatches,
   crashes, lost answers, slow acceptances and manual retries there are. *)
THEOREM TextedAtMostOnce == Spec => []AtMostOneText
<1>1. IInv => AtMostOneText
  BY DEF IInv
<1> QED BY <1>1, InductiveInvariant, PTL

(* What a final callback recorded, no later callback, drain, dispatcher or
   operator overwrites. *)
THEOREM FinalStatusesStayFinal == Spec => FinalStatusesStay
<1> DEFINE Stays == \A m \in Messages : row[m].prov \in Final =>
                      row'[m].prov = row[m].prov /\ row'[m].status = row[m].status
<1>1. IInv /\ [Next]_vars => [Stays]_vars
  <2> SUFFICES ASSUME IInv, Next, NEW m \in Messages, row[m].prov \in Final
               PROVE  row'[m].prov = row[m].prov /\ row'[m].status = row[m].status
    BY DEF vars
  <2>1. row \in [Messages -> Rows] /\ row[m] \in Rows
    BY DEF IInv, TypeOK
  <2>2. None \notin Final
    BY LeadMessagingAssumption DEF Final, PROVIDER_STATUS_RANK
  <2>3. /\ row[m].sid # 0
        /\ row[m].status \notin Claimable \cup {"absent", "sending"}
    BY <2>1, <2>2 DEF IInv, SidsAreReal, Claimable
  <2>4. CASE \E q \in Messages :
               \/ PersistLeadMessageIntent(q) \/ RequestLeadMessageRetry(q)
               \/ \E w \in Workers : DispatchInline(w, q)
    BY <2>1, <2>3, <2>4
    DEF PersistLeadMessageIntent, RequestLeadMessageRetry, Retryable,
        DispatchInline
  <2>5. CASE \E q \in Messages : LeaseExpires(q) \/ BecomesDue(q)
    BY <2>1, <2>5 DEF LeaseExpires, BecomesDue, Rows
  <2>6. CASE \E w \in Workers : StartDrain(w)
    BY <2>1, <2>3, <2>6 DEF StartDrain
  <2>7. CASE \E w \in Workers : Claim(w)
    BY <2>1, <2>3, <2>7 DEF Claim, Done
  <2>8. ASSUME NEW w \in Workers, NEW new, Update(w, new)
        PROVE  row'[m] = row[m]
    BY <2>1, <2>3, <2>8 DEF Update, Owns
  <2>9. CASE \E w \in Workers :
               \/ Retire(w) \/ FailLocally(w) \/ RecordAccepted(w)
               \/ Unanswered(w)
               \/ \E failure \in {"unsent", "definite"} : Refused(w, failure)
    BY <2>8, <2>9
    DEF Retire, FailLocally, RecordAccepted, Unanswered, Refused,
        HandleDispatchFailure
  <2>10. CASE \E n \in news : ApplyTwilioStatusCallback(n)
    BY <2>1, <2>2, <2>10 DEF ApplyTwilioStatusCallback, Applies
  <2>11. CASE UNCHANGED row
    BY <2>11
  <2>12. \/ \E w \in Workers : Pick(w) \/ EndDrain(w) \/ Send(w)
                               \/ RecordFails(w) \/ Crash(w)
         \/ \E c \in calls : Accept(c)
         \/ \E t \in texts, s \in Reported : Progress(t, s)
         => UNCHANGED row
    BY DEF Pick, EndDrain, Send, RecordFails, Crash, Accept, Progress
  <2> QED
    BY <2>4, <2>5, <2>6, <2>7, <2>9, <2>10, <2>11, <2>12 DEF Next, Dispatch
<1> QED BY <1>1, InductiveInvariant, PTL DEF Spec, FinalStatusesStay

-----------------------------------------------------------------------------
(* The promise is kept: LeadText is implemented. *)

verdicts == [m \in Messages |-> Verdict(m)]

PromiseStep == [Promise!Step \/ Promise!GiveUp]_(Promise!vars)

(* Verdicts, from the SID and the status. *)
Readable(m) ==
  /\ Verdict(m) \in {"open", "handed_over", "unsent", "unknown"}
  /\ Verdict(m) = "handed_over" <=> row[m].sid # 0
  /\ Verdict(m) = "unsent" <=>
       row[m].sid = 0 /\ row[m].status \in {"failed", "skipped"}
  /\ Verdict(m) = "open" <=>
       row[m].sid = 0 /\ row[m].status \in Claimable \cup {"absent", "sending"}

AllReadable == \A m \in Messages : Readable(m)

(* A SID and a status of the types they have determine the verdict. *)
LEMMA VerdictTable == TypeOK /\ SidsAreReal => AllReadable
<1> SUFFICES ASSUME TypeOK, SidsAreReal, NEW m \in Messages
             PROVE  Readable(m)
  BY DEF AllReadable
<1>1. row[m].status \in Statuses
  BY DEF TypeOK, Rows
<1>2. row[m].sid # 0 => row[m].status # "uncertain"
  BY DEF SidsAreReal
<1>3. row[m].sid = 0 =>
        row[m].status \notin {"accepted", "sent", "delivered", "undelivered"}
  BY DEF SidsAreReal
<1> QED BY <1>1, <1>2, <1>3 DEF Readable, Verdict, Statuses, Claimable

(* A message whose verdict was open may get any verdict: the invariant says
   that it is a true one. *)
LEMMA ConclusionsAreTrue ==
  ASSUME IInv, IInv', NEW m \in Messages, UNCHANGED texts,
         Verdict(m) = "open" \/ Verdict(m)' = Verdict(m),
         \A q \in Messages \ {m} : row'[q] = row[q]
  PROVE  PromiseStep
<1>1. /\ \A q \in Messages \ {m} : Verdict(q)' = Verdict(q)
      /\ Texted(m)' <=> Texted(m)
  BY DEF Verdict, Texted
<1>2. /\ Verdict(m)' \in {"open", "handed_over", "unsent", "unknown"}
      /\ Verdict(m)' = "handed_over" <=> row'[m].sid # 0
      /\ Verdict(m)' = "unsent" <=>
           row'[m].sid = 0 /\ row'[m].status \in {"failed", "skipped"}
  <2>1. (TypeOK /\ SidsAreReal)'
    BY DEF IInv
  <2>2. AllReadable'
    BY <2>1, VerdictTable, PTL
  <2> QED BY <2>2 DEF AllReadable, Readable
<1>3. Verdict(m)' = "handed_over" => Texted(m)
  BY <1>1, <1>2 DEF IInv, SidsAreReal
<1>4. Verdict(m)' = "unsent" => ~Texted(m)
  BY <1>1, <1>2 DEF IInv, Quiet, AtRest
<1>5. verdicts' = [verdicts EXCEPT ![m] = Verdict(m)']
  BY <1>1 DEF verdicts
<1>6. CASE Verdict(m)' = Verdict(m)
  <2>1. UNCHANGED verdicts
    BY <1>1, <1>6 DEF verdicts
  <2> QED BY <2>1 DEF PromiseStep, Promise!vars, verdicts
<1>7. CASE Verdict(m) = "open" /\ Verdict(m)' # "open"
  <2>1. Promise!Conclude(m, Verdict(m)')
    BY <1>3, <1>4, <1>5, <1>7
    DEF Promise!Conclude, Promise!Texted, Texted, verdicts
  <2> QED BY <1>2, <1>7, <2>1 DEF PromiseStep, Promise!Step
<1> QED BY <1>6, <1>7

(* Every step of LeadMessaging is a step of the promise, or none. *)
LEMMA StepsKeepThePromise == IInv /\ IInv' /\ [Next]_vars => PromiseStep
<1> SUFFICES ASSUME IInv, IInv', [Next]_vars PROVE PromiseStep
  OBVIOUS
<1>v. \A m \in Messages :
        /\ Verdict(m) \in {"open", "handed_over", "unsent", "unknown"}
        /\ Verdict(m) = "handed_over" <=> row[m].sid # 0
        /\ Verdict(m) = "unsent" <=>
             row[m].sid = 0 /\ row[m].status \in {"failed", "skipped"}
        /\ Verdict(m) = "open" <=>
             row[m].sid = 0 /\ row[m].status \in Claimable \cup {"absent", "sending"}
  BY VerdictTable DEF IInv, AllReadable, Readable
<1>s. \A m \in Messages : row[m].sid # 0 =>
        row[m].status \notin Claimable \cup {"absent", "sending", "uncertain"}
  BY DEF IInv, SidsAreReal, Claimable
<1>r. row \in [Messages -> Rows]
  BY DEF IInv, TypeOK
<1>1. ASSUME NEW m \in Messages, PersistLeadMessageIntent(m)
      PROVE  PromiseStep
  <2>1. Verdict(m) = "open"
    BY <1>1, <1>v, <1>s DEF PersistLeadMessageIntent
  <2>2. UNCHANGED texts /\ \A q \in Messages \ {m} : row'[q] = row[q]
    BY <1>1, <1>r DEF PersistLeadMessageIntent, twilioVars
  <2> QED BY <2>1, <2>2, ConclusionsAreTrue
<1>2. ASSUME NEW m \in Messages, RequestLeadMessageRetry(m)
      PROVE  PromiseStep
  <2>1. row[m].sid = 0 /\ row[m].status = "failed"
    BY <1>2 DEF RequestLeadMessageRetry, Retryable, IInv, SidsAreReal
  <2>2. /\ row' = [row EXCEPT ![m] = [row[m] EXCEPT !.status = "queued",
                     !.due = TRUE, !.live = FALSE, !.manual = @ + 1]]
        /\ UNCHANGED texts
    BY <1>2 DEF RequestLeadMessageRetry, twilioVars
  <2>3. row'[m].sid = 0 /\ row'[m].status = "queued"
    BY <1>r, <2>1, <2>2 DEF Rows
  <2>4. /\ Verdict(m) = "unsent" /\ Verdict(m)' = "open"
        /\ \A q \in Messages \ {m} : Verdict(q)' = Verdict(q)
    BY <1>v, <1>r, <2>1, <2>2, <2>3 DEF Verdict
  <2>5. verdicts' = [verdicts EXCEPT ![m] = "open"] /\ verdicts[m] = "unsent"
    BY <2>4 DEF verdicts
  <2>6. Promise!Reopen(m)
    BY <2>2, <2>5 DEF Promise!Reopen, verdicts
  <2> QED BY <2>6 DEF PromiseStep, Promise!Step
<1>3. ASSUME NEW m \in Messages, LeaseExpires(m) \/ BecomesDue(m)
      PROVE  PromiseStep
  <2>1. row'[m].sid = row[m].sid /\ row'[m].status = row[m].status
    BY <1>3, <1>r DEF LeaseExpires, BecomesDue, Rows
  <2>2. Verdict(m)' = Verdict(m)
    BY <2>1 DEF Verdict
  <2>3. UNCHANGED texts /\ \A q \in Messages \ {m} : row'[q] = row[q]
    BY <1>3, <1>r DEF LeaseExpires, BecomesDue, twilioVars
  <2> QED BY <2>2, <2>3, ConclusionsAreTrue
<1>4. CASE UNCHANGED <<row, texts>>
  <2>1. UNCHANGED verdicts
    BY <1>4 DEF verdicts, Verdict
  <2> QED BY <1>4, <2>1 DEF PromiseStep, Promise!vars, verdicts
<1>5. ASSUME NEW w \in Workers, StartDrain(w)
      PROVE  PromiseStep
  <2> DEFINE M == {m \in Messages : row[m].status = "sending" /\ ~row[m].live}
  <2>1. \A m \in M : Verdict(m) = "open"
    BY <1>v, <1>s
  <2>2. \A m \in M : row'[m].sid = row[m].sid /\ row'[m].status = "uncertain"
    BY <1>5, <1>r DEF StartDrain, Rows
  <2>3. \A m \in Messages \ M : row'[m] = row[m]
    BY <1>5 DEF StartDrain
  <2>4. \A m \in Messages :
          Verdict(m)' = IF m \in M THEN "unknown" ELSE Verdict(m)
    <3>1. \A m \in M : row'[m].sid = 0
      BY <1>v, <2>1, <2>2
    <3>2. \A m \in M : Verdict(m)' = "unknown"
      BY <2>2, <3>1 DEF Verdict
    <3> QED BY <2>3, <3>2 DEF Verdict
  <2>5. verdicts' = [m \in Messages |-> IF m \in M THEN "unknown" ELSE verdicts[m]]
    BY <2>4 DEF verdicts
  <2>6. M \in SUBSET Messages /\ \A m \in M : verdicts[m] = "open"
    BY <2>1 DEF verdicts
  <2>7. UNCHANGED texts
    BY <1>5 DEF StartDrain, twilioVars
  <2> HIDE DEF M
  <2>8. Promise!GiveUp
    BY <2>5, <2>6, <2>7 DEF Promise!GiveUp, verdicts
  <2> QED BY <2>8 DEF PromiseStep
<1>6. ASSUME NEW w \in Workers, Claim(w)
      PROVE  PromiseStep
  <2>1. CASE row[at[w].msg].status \in Claimable
    <3>1. at[w].msg \in Messages
      BY <1>6 DEF Claim, IInv, Current, Claims
    <3>2. Verdict(at[w].msg) = "open"
      BY <2>1, <3>1, <1>v, <1>s
    <3>3. UNCHANGED texts /\ \A q \in Messages \ {at[w].msg} : row'[q] = row[q]
      BY <1>6, <1>r, <2>1 DEF Claim, twilioVars
    <3> QED BY <3>1, <3>2, <3>3, ConclusionsAreTrue
  <2>2. CASE row[at[w].msg].status \notin Claimable
    BY <1>4, <1>6, <2>2 DEF Claim, twilioVars
  <2> QED BY <2>1, <2>2
<1>7. ASSUME NEW w \in Workers, Active(w), NEW new, Update(w, new),
             UNCHANGED texts
      PROVE  PromiseStep
  <2>1. at[w].msg \in Messages
    BY <1>7 DEF IInv, Current, Active, Claims
  <2>2. CASE Owns(w)
    <3>1. Verdict(at[w].msg) = "open"
      BY <1>v, <1>s, <2>1, <2>2 DEF Owns
    <3>2. \A q \in Messages \ {at[w].msg} : row'[q] = row[q]
      BY <1>7, <1>r, <2>2 DEF Update
    <3> QED BY <1>7, <2>1, <3>1, <3>2, ConclusionsAreTrue
  <2>3. CASE ~Owns(w)
    BY <1>4, <1>7, <2>3 DEF Update
  <2> QED BY <2>2, <2>3
<1>8. CASE \E w \in Workers :
             \/ Retire(w) \/ FailLocally(w) \/ RecordAccepted(w)
             \/ Unanswered(w)
             \/ \E failure \in {"unsent", "definite"} : Refused(w, failure)
  BY <1>7, <1>8
  DEF Retire, FailLocally, RecordAccepted, Unanswered, Refused,
      HandleDispatchFailure, Active, twilioVars
<1>9. ASSUME NEW c \in calls, Accept(c)
      PROVE  PromiseStep
  <2>1. PICK s \in FirstStatuses :
          texts' = texts \cup {[msg |-> c.msg, k |-> c.k, first |-> s]}
    BY <1>9 DEF Accept
  <2> DEFINE t == [msg |-> c.msg, k |-> c.k, first |-> s]
  <2>2. t \in Texts /\ t.msg = c.msg /\ c.msg \in Messages
    BY DEF Texts, FirstStatuses, IInv, TypeOK, Claims
  <2>3. ~Texted(c.msg) /\ ~AtRest(c.msg)
    BY <2>2 DEF IInv, Current, Quiet
  <2>4. Verdict(c.msg) # "handed_over"
    BY <1>v, <2>2, <2>3 DEF IInv, SidsAreReal
  <2>5. Verdict(c.msg) # "unsent"
    BY <1>v, <2>2, <2>3 DEF AtRest
  <2>6. verdicts[c.msg] \in {"open", "unknown"}
    BY <1>v, <2>2, <2>4, <2>5 DEF verdicts
  <2>7. UNCHANGED verdicts /\ texts' = texts \cup {t}
    BY <1>9, <2>1 DEF Accept, verdicts, Verdict
  <2> HIDE DEF t
  <2>8. Promise!Accept(t)
    BY <2>2, <2>3, <2>6, <2>7
    DEF Promise!Accept, Promise!Texted, Texted, verdicts
  <2> QED BY <2>2, <2>8 DEF PromiseStep, Promise!Step
<1>10. ASSUME NEW n \in news, ApplyTwilioStatusCallback(n)
       PROVE  PromiseStep
  <2>1. n.msg \in Messages /\ n.k # 0 /\ row[n.msg].sid # 0
    BY <1>10 DEF ApplyTwilioStatusCallback, IInv, TypeOK, Current
  <2>2. row'[n.msg].sid = row[n.msg].sid
    BY <1>10, <1>r, <2>1 DEF ApplyTwilioStatusCallback, Rows
  <2>3. Verdict(n.msg)' = Verdict(n.msg)
    <3>1. Verdict(n.msg) = "handed_over"
      BY <1>v, <2>1
    <3>2. (TypeOK /\ SidsAreReal)'
      BY DEF IInv
    <3>3. AllReadable'
      BY <3>2, VerdictTable, PTL
    <3>4. Verdict(n.msg)' = "handed_over"
      BY <2>1, <2>2, <3>3 DEF AllReadable, Readable
    <3> QED BY <3>1, <3>4
  <2>4. UNCHANGED texts /\ \A q \in Messages \ {n.msg} : row'[q] = row[q]
    BY <1>10, <1>r DEF ApplyTwilioStatusCallback, twilioVars
  <2> QED BY <2>1, <2>3, <2>4, ConclusionsAreTrue
<1>11. \/ \E w \in Workers : Pick(w) \/ EndDrain(w) \/ Send(w)
                             \/ RecordFails(w) \/ Crash(w)
       \/ \E w \in Workers, m \in Messages : DispatchInline(w, m)
       \/ \E t \in texts, s \in Reported : Progress(t, s)
       \/ UNCHANGED vars
       => UNCHANGED <<row, texts>>
  BY DEF Pick, EndDrain, Send, RecordFails, Crash, Progress, DispatchInline,
         twilioVars, vars
<1> QED
  BY <1>1, <1>2, <1>3, <1>4, <1>5, <1>6, <1>8, <1>9, <1>10, <1>11
  DEF Next, Dispatch

(* Lead messaging implements the promise of LeadText, where the row of a
   message tells the verdict: "unsent" means that nobody was or will be texted
   by that attempt, "handed over" that somebody was, "unknown" is for good. *)
THEOREM PromiseKept == Spec => KeepsItsPromise
<1>1. Init => Promise!Init
  <2> SUFFICES ASSUME Init PROVE Promise!Init
    OBVIOUS
  <2>1. \A m \in Messages : Verdict(m) = "open"
    <3>1. \A m \in Messages : row[m].sid = 0 /\ row[m].status = "absent"
      BY DEF Init, AbsentRow
    <3> QED BY <3>1 DEF Verdict
  <2> QED BY <2>1 DEF Promise!Init, Init
<1>2. IInv /\ IInv' /\ [Next]_vars => [Promise!Step \/ Promise!GiveUp]_(Promise!vars)
  BY StepsKeepThePromise DEF PromiseStep
<1> QED BY <1>1, <1>2, InductiveInvariant, PTL DEF Spec, KeepsItsPromise, Promise!Spec

=============================================================================
