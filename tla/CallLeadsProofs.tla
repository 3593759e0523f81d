-------------------------- MODULE CallLeadsProofs --------------------------
(* Theorems about CallLeads, for every number of calls, runs and webhooks,
   every overlap and every bound. *)
EXTENDS CallLeads, FiniteSetTheorems, TLAPS

(* A record that was corrected cost something each time. *)
ResultsBounded == \A c \in Calls : call[c].result <= spent

(* Nothing is dated ahead of the clock, and no record before its call. *)
Dated ==
  /\ reached <= now
  /\ \A w \in Workers : work[w].to <= now
  /\ \A c \in Calls : Logged(c) => Start[c] <= call[c].logged

(* The cursor may have been put back from where the windows reached. *)
CursorBehind == cursor <= reached /\ (cursor = Never <=> reached = Never)

(* A call that the ledger does not name has no leads yet, and a worker that is
   about to create one has made none of this call. *)
NothingMadeYet ==
  /\ \A c \in Calls : ~Processed(c) => \A v \in Workers : lead[c][v].st = "none"
  /\ \A w \in Workers :
       work[w].pc \in {"classify", "create"} => lead[CallOf(w)][w].st = "none"

(* What was not made yet has no result. *)
NothingObservedYet ==
  \A c \in Calls, v \in Workers : lead[c][v].st = "none" => lead[c][v].at = Never

(* What a worker found out about duplicates stays true. *)
RemembersRight ==
  \A w \in Workers : At(w, "create") /\ work[w].dup => PaidBefore(CallOf(w))

(* The cursor is still the one from which the holder of the lease has taken the
   begin of its window. *)
HolderFollowsCursor ==
  \A r \in Runs :
    Held(r) /\ work[r].pc \notin {"idle", "entered"}
      => work[r].from = WindowStart(work[r].to)

IInv ==
  /\ TypeOK /\ ResultsBounded /\ Dated /\ CursorBehind
  /\ NothingMadeYet /\ NothingObservedYet
  /\ OneLeadPerCall /\ DuplicatesFollowAPaidLead /\ RemembersRight
  /\ HolderFollowsCursor

(* As many others as a run can fetch began no earlier, up to a time. *)
Crowded(c, t) == Cardinality(CallsAfter(c, t)) >= PageLimit

(* A run that has read the Call Log has a call of its window that was there
   before the window ended, unless its pages did not reach back to it: in the
   ledger, on its list or in hand. *)
Covers(r) ==
  \A c \in Calls :
    /\ Logged(c) /\ call[c].logged < work[r].to
    /\ work[r].from <= Start[c] /\ Start[c] <= work[r].to
    => \/ Processed(c)
       \/ \E q \in work[r].todo : q.call = c
       \/ work[r].pc \in {"classify", "create"} /\ CallOf(r) = c
       \/ Crowded(c, work[r].to)

RunsCover ==
  \A r \in Runs : work[r].pc \notin {"idle", "entered", "claimed"} => Covers(r)

-----------------------------------------------------------------------------
(* Who changes what. *)
LEMMA Frames ==
  ASSUME [Next]_vars
  PROVE  /\ now' = now \/ Tick
         /\ call' = call \/ \E c \in Calls : Appears(c) \/ IsRewritten(c)
         /\ \/ lead' = lead \/ \E w \in Workers : CreateLead(w) \/ PatchLead(w)
            \/ \E c \in Calls, v \in Workers : RemoveLead(c, v)
         /\ \/ rev' = rev \/ \E w \in Workers : PatchLead(w)
            \/ \E c \in Calls, v \in Workers : EditLead(c, v)
         /\ ledger' = ledger \/ \E w \in Workers : CreateLead(w)
         /\ UNCHANGED <<cursor, origin, reached>> \/ \E r \in Runs : Finish(r)
         /\ \/ lease' = lease \/ ExpireLost
            \/ \E r \in Runs : Acquire(r) \/ Fetch(r) \/ Finish(r) \/ Stall(r)
            \/ \E w \in Workers : EndInError(w) \/ Crash(w)
         /\ \/ work' = work
            \/ \E r \in Runs :
                 \/ Enter(r) \/ Acquire(r) \/ Contended(r) \/ Fetch(r)
                 \/ TakeRecord(r) \/ Finish(r) \/ LeaseLost(r)
            \/ \E h \in Hooks, c \in Calls : ReadRecord(h, c)
            \/ \E w \in Workers :
                 \/ Classify(w) \/ CreateLead(w) \/ Raced(w) \/ ReadLead(w)
                 \/ PatchLead(w) \/ RetryPatch(w) \/ EndInError(w) \/ Crash(w)
         /\ spent' = spent \/ Spend(Fault) \/ Spend(Edit)
<1>1. CASE Next
  <2>1. CASE \/ Tick \/ ExpireLost
             \/ \E c \in Calls : Appears(c) \/ IsRewritten(c)
             \/ \E c \in Calls, v \in Workers : EditLead(c, v) \/ RemoveLead(c, v)
             \/ \E r \in Runs : Stall(r)
    BY <2>1
       DEF Tick, ExpireLost, Appears, IsRewritten, EditLead, RemoveLead, Stall,
           serverVars, syncVars, leadVars
  <2>2. CASE \/ \E r \in Runs :
                  \/ Enter(r) \/ Acquire(r) \/ Contended(r) \/ Fetch(r)
                  \/ TakeRecord(r) \/ Finish(r) \/ LeaseLost(r)
             \/ \E h \in Hooks, c \in Calls : ReadRecord(h, c)
    BY <2>2
       DEF Enter, Acquire, Contended, Fetch, TakeRecord, Finish, LeaseLost,
           ReadRecord, syncVars, leadVars
  <2>3. CASE \E w \in Workers :
               \/ Classify(w) \/ CreateLead(w) \/ Raced(w) \/ ReadLead(w)
               \/ PatchLead(w) \/ RetryPatch(w) \/ GiveUpPatch(w)
               \/ Fail(w) \/ Crash(w)
    BY <2>3
       DEF Classify, CreateLead, Raced, ReadLead, PatchLead, RetryPatch,
           GiveUpPatch, Fail, Crash, EndInError, syncVars, leadVars
  <2> QED BY <1>1, <2>1, <2>2, <2>3 DEF Next, RunStep, Ingest, Workers
<1>2. CASE UNCHANGED vars
  BY <1>2 DEF vars, serverVars, syncVars, leadVars
<1> QED BY <1>1, <1>2

(* Types of what is used as a record. *)
LEMMA Worked ==
  ASSUME TypeOK, NEW w \in Workers
  PROVE  /\ work[w] \in Work
         /\ work[w].pc \in Ingesting =>
              CallOf(w) \in Calls /\ work[w].hand \in Readings
         /\ work[w].pc \in {"result", "patch"} => work[w].id \in Workers
BY CallLeadsAssumption DEF TypeOK, Work, CallOf, NoReading, Ingesting

(* A worker that is through is typed. *)
LEMMA IdleIsTyped ==
  Idle \in Work /\ Idle.pc = "idle" /\ Idle.hand.call = None /\ None \notin Calls
BY CallLeadsAssumption
   DEF Idle, Work, Readings, NoReading, Labels, Results, Times

(* What a worker becomes when it is through with a record. *)
LEMMA AfterARecord ==
  ASSUME TypeOK, NEW w \in Workers, Done(w)
  PROVE  /\ work' \in [Workers -> Work]
         /\ \A v \in Workers \ {w} : work'[v] = work[v]
         /\ \/ work'[w] = Idle
            \/ /\ w \in Runs /\ work'[w].pc = "next" /\ work'[w].hand = NoReading
               /\ work'[w].from = work[w].from /\ work'[w].to = work[w].to
               /\ work'[w].todo = work[w].todo
<1>1. work \in [Workers -> Work] /\ work[w] \in Work
  BY DEF TypeOK
<1> DEFINE next == [Idle EXCEPT !.pc = "next", !.from = work[w].from,
                                !.to = work[w].to, !.todo = work[w].todo]
<1>2. next \in Work
  <2>1. /\ "next" \in Labels /\ work[w].from \in Int /\ work[w].to \in Times
        /\ work[w].todo \in SUBSET Readings
    BY <1>1 DEF Labels, Work
  <2> QED BY <2>1, IdleIsTyped DEF Work
<1>3. work' = [work EXCEPT ![w] = IF w \in Runs THEN next ELSE Idle]
  BY DEF Done
<1>4. /\ next.pc = "next" /\ next.hand = NoReading
      /\ next.from = work[w].from /\ next.to = work[w].to
      /\ next.todo = work[w].todo
  BY DEF Idle
<1> HIDE DEF next
<1> QED BY <1>1, <1>2, <1>3, <1>4, IdleIsTyped

-----------------------------------------------------------------------------
(* One worker moves on, to a record that is sound. *)
Sound(rec) ==
  /\ rec \in Work
  /\ rec.hand.call \in Calls <=> rec.pc \in Ingesting
  /\ rec.pc \in {"result", "patch"} => rec.id # None

WorkSound == work \in [Workers -> Work] /\ \A w \in Workers : Sound(work[w])

(* Then all work is sound. *)
LEMMA OneMoves ==
  ASSUME WorkSound, NEW w \in Workers, NEW rec, Sound(rec),
         work' = [work EXCEPT ![w] = rec]
  PROVE  WorkSound'
BY DEF WorkSound, Sound

(* What is begun about a record is sound. *)
LEMMA BegunIsSound ==
  ASSUME NEW rec \in Work, NEW q \in Readings, ledger \in [Calls -> Workers \cup {None}]
  PROVE  /\ Sound(Begun(rec, q))
         /\ Begun(rec, q).pc = IF Processed(q.call) THEN "result" ELSE "classify"
         /\ Begun(rec, q).hand = q
         /\ Begun(rec, q).from = rec.from /\ Begun(rec, q).to = rec.to
         /\ Begun(rec, q).todo = rec.todo
<1> DEFINE pc == IF Processed(q.call) THEN "result" ELSE "classify"
<1>1. q.call \in Calls /\ ledger[q.call] \in Workers \cup {None}
  BY DEF Readings
<1>2. pc \in Labels /\ pc \in Ingesting /\ (pc = "result" => ledger[q.call] # None)
      /\ pc # "patch"
  BY DEF Labels, Ingesting, Processed
<1>3. Begun(rec, q) = [rec EXCEPT !.pc = pc, !.id = ledger[q.call], !.hand = q]
  BY DEF Begun
<1> HIDE DEF pc
<1>4. Begun(rec, q).pc = pc
  BY <1>3 DEF Work
<1>5. Begun(rec, q) \in Work /\ Begun(rec, q).hand = q
      /\ Begun(rec, q).id = ledger[q.call]
  BY <1>1, <1>2, <1>3 DEF Work
<1>6. Sound(Begun(rec, q))
  BY <1>1, <1>2, <1>4, <1>5 DEF Sound
<1> QED BY <1>3, <1>4, <1>5, <1>6 DEF pc, Work

OthersTyped ==
  /\ now \in Times
  /\ call \in [Calls -> CallRows]
  /\ lead \in [Calls -> [Workers -> LeadRows]]
  /\ rev \in [Calls -> [Workers -> Nat]]
  /\ ledger \in [Calls -> Workers \cup {None}]
  /\ cursor \in Times \cup {Never} /\ origin \in Int /\ reached \in Times \cup {Never}
  /\ lease \in [owner : Workers \cup {None, Lost}, live : BOOLEAN, until : Times]
  /\ spent \in 0 .. Budget

(* The type invariant, in two parts. *)
LEMMA TypeParts == TypeOK <=> OthersTyped /\ WorkSound
BY DEF TypeOK, OthersTyped, WorkSound, Sound, CallOf

(* The begin of a window. *)
LEMMA WindowIsTyped ==
  ASSUME OthersTyped, NEW to \in Times
  PROVE  WindowStart(to) \in Int
BY CallLeadsAssumption DEF OthersTyped, WindowStart, Earlier, Times, Never

(* The types of the work are inductive, *)
LEMMA WorkTypesStay ==
  ASSUME TypeOK, NothingMadeYet, [Next]_vars
  PROVE  WorkSound'
<1>1. /\ OthersTyped /\ WorkSound
      /\ \A w \in Workers : Sound(work[w]) /\ work[w] \in Work
  BY TypeParts DEF WorkSound, Sound
<1>2. \A w \in Workers : Leave(w) => WorkSound'
  <2>1. Sound(Idle)
    BY IdleIsTyped, CallLeadsAssumption DEF Sound, Ingesting
  <2> QED BY <1>1, <2>1, OneMoves DEF Leave
<1>3. \A w \in Workers : Done(w) => WorkSound'
  <2> SUFFICES ASSUME NEW w \in Workers, Done(w) PROVE WorkSound'
    OBVIOUS
  <2>1. work' = [work EXCEPT ![w] = work'[w]]
    BY <1>1 DEF Done, WorkSound
  <2>2. Sound(work'[w])
    BY IdleIsTyped, AfterARecord, CallLeadsAssumption DEF Sound, NoReading, Ingesting
  <2> QED BY <1>1, <2>1, <2>2, OneMoves
<1>4. ASSUME NEW r \in Runs, Enter(r)
      PROVE  WorkSound'
  <2> DEFINE rec == [work[r] EXCEPT !.pc = "entered", !.to = now]
  <2>1. Sound(rec) /\ r \in Workers
    BY <1>1, <1>4 DEF Enter, At, Sound, Work, Labels, Workers, OthersTyped, Ingesting
  <2>2. work' = [work EXCEPT ![r] = rec]
    BY <1>4 DEF Enter
  <2> HIDE DEF rec
  <2> QED BY <1>1, <2>1, <2>2, OneMoves
<1>5. ASSUME NEW r \in Runs, Acquire(r)
      PROVE  WorkSound'
  <2> DEFINE rec == [work[r] EXCEPT !.pc = "claimed",
                                    !.from = WindowStart(work[r].to)]
  <2>1. r \in Workers /\ WindowStart(work[r].to) \in Int
    BY <1>1, WindowIsTyped DEF Workers, Work
  <2>2. Sound(rec)
    BY <1>1, <1>5, <2>1 DEF Acquire, At, Sound, Work, Labels, Ingesting
  <2>3. work' = [work EXCEPT ![r] = rec]
    BY <1>5 DEF Acquire
  <2> HIDE DEF rec
  <2> QED BY <1>1, <2>1, <2>2, <2>3, OneMoves
<1>6. ASSUME NEW r \in Runs, Fetch(r)
      PROVE  WorkSound'
  <2>0. PICK F \in Pages(Listed(work[r].from, work[r].to)) :
          work' = [work EXCEPT ![r].pc = "next",
            ![r].todo = {[call |-> c, result |-> call[c].result, at |-> work[r].to] :
                           c \in F}]
    BY <1>6 DEF Fetch
  <2> DEFINE todo == {[call |-> c, result |-> call[c].result, at |-> work[r].to] :
                         c \in F}
             rec == [work[r] EXCEPT !.pc = "next", !.todo = todo]
  <2>1. r \in Workers
    BY DEF Workers
  <2>2. todo \in SUBSET Readings
    <3>1. \A c \in Calls :
            [call |-> c, result |-> call[c].result, at |-> work[r].to] \in Readings
      BY <1>1, <2>1 DEF OthersTyped, CallRows, Readings, Work
    <3>2. F \subseteq Calls
      BY DEF Pages, Listed
    <3> QED BY <3>1, <3>2
  <2>3. work' = [work EXCEPT ![r] = rec]
    BY <2>0
  <2> HIDE DEF todo
  <2>4. Sound(rec)
    BY <1>1, <1>6, <2>1, <2>2 DEF Fetch, At, Sound, Work, Labels, Ingesting
  <2> HIDE DEF rec
  <2> QED BY <1>1, <2>1, <2>3, <2>4, OneMoves
<1>7. ASSUME NEW r \in Runs, TakeRecord(r)
      PROVE  WorkSound'
  <2>1. PICK q \in work[r].todo :
          work' = [work EXCEPT ![r] = Begun([work[r] EXCEPT !.todo = @ \ {q}], q)]
    BY <1>7 DEF TakeRecord
  <2> DEFINE rec == [work[r] EXCEPT !.todo = @ \ {q}]
  <2>2. r \in Workers /\ work[r] \in Work
    BY <1>1 DEF Workers
  <2>3. q \in Readings /\ rec \in Work
    BY <2>1, <2>2 DEF Work
  <2>4. work' = [work EXCEPT ![r] = Begun(rec, q)]
    BY <2>1
  <2> HIDE DEF rec
  <2>5. Sound(Begun(rec, q))
    BY <1>1, <2>3, BegunIsSound DEF OthersTyped
  <2> QED BY <1>1, <2>2, <2>4, <2>5, OneMoves
<1>8. ASSUME NEW h \in Hooks, NEW c \in Calls, ReadRecord(h, c)
      PROVE  WorkSound'
  <2> DEFINE q == [call |-> c, result |-> call[c].result, at |-> now]
  <2>1. h \in Workers /\ work[h] \in Work
    BY <1>1 DEF Workers
  <2>2. q \in Readings
    BY <1>1 DEF OthersTyped, Readings, CallRows
  <2>3. work' = [work EXCEPT ![h] = Begun(work[h], q)]
    BY <1>8 DEF ReadRecord
  <2> HIDE DEF q
  <2>4. Sound(Begun(work[h], q))
    BY <1>1, <2>1, <2>2, BegunIsSound DEF OthersTyped
  <2> QED BY <1>1, <2>1, <2>3, <2>4, OneMoves
<1>9. ASSUME NEW w \in Workers, Classify(w)
      PROVE  WorkSound'
  <2> DEFINE rec == [work[w] EXCEPT !.pc = "create", !.dup = IsDuplicate(CallOf(w))]
  <2>1. IsDuplicate(CallOf(w)) \in BOOLEAN
    BY DEF IsDuplicate
  <2>2. work' = [work EXCEPT ![w] = rec]
    BY <1>9 DEF Classify
  <2>3. Sound(rec)
    BY <1>1, <1>9, <2>1 DEF Classify, At, Sound, Work, Labels, Ingesting
  <2> HIDE DEF rec
  <2> QED BY <1>1, <2>2, <2>3, OneMoves
<1>10. ASSUME NEW w \in Workers, Raced(w)
       PROVE  WorkSound'
  <2> DEFINE rec == [work[w] EXCEPT !.pc = "result", !.id = ledger[CallOf(w)]]
  <2>1. CallOf(w) \in Calls
    BY <1>10, Worked DEF Raced, At, Ingesting
  <2>2. ledger[CallOf(w)] \in Workers \cup {None} /\ ledger[CallOf(w)] # None
    BY <1>1, <1>10, <2>1
       DEF OthersTyped, Raced, Taken, IsHere, NothingMadeYet, Processed
  <2>3. work' = [work EXCEPT ![w] = rec]
    BY <1>10 DEF Raced
  <2>4. /\ rec \in Work /\ rec.pc = "result" /\ rec.hand = work[w].hand
        /\ rec.id = ledger[CallOf(w)]
    BY <1>1, <2>2 DEF Work, Labels
  <2>5. Sound(rec)
    BY <1>1, <1>10, <2>2, <2>4 DEF Raced, At, Sound, Ingesting
  <2> HIDE DEF rec
  <2> QED BY <1>1, <2>3, <2>5, OneMoves
<1>11. ASSUME NEW w \in Workers, ReadLead(w)
       PROVE  WorkSound'
  <2> DEFINE rec == [work[w] EXCEPT !.pc = "patch", !.rev = RevOf(w)]
  <2>1. work' = [work EXCEPT ![w] = rec] \/ Done(w)
    BY <1>11 DEF ReadLead
  <2>2. CallOf(w) \in Calls /\ work[w].id \in Workers
    BY <1>11, Worked DEF ReadLead, At, Ingesting
  <2>3. RevOf(w) \in Nat
    BY <1>1, <2>2 DEF RevOf, OthersTyped
  <2>4. /\ rec \in Work /\ rec.pc = "patch" /\ rec.hand = work[w].hand
        /\ rec.id = work[w].id
    BY <1>1, <2>3 DEF Work, Labels
  <2>5. Sound(rec)
    BY <1>1, <1>11, <2>4 DEF ReadLead, At, Sound, Ingesting
  <2> HIDE DEF rec
  <2> QED BY <1>1, <1>3, <2>1, <2>5, OneMoves
<1>12. ASSUME NEW w \in Workers, RetryPatch(w)
       PROVE  WorkSound'
  <2> DEFINE rec == [work[w] EXCEPT !.pc = "result", !.rev = 0, !.tries = @ + 1]
  <2>1. work' = [work EXCEPT ![w] = rec]
    BY <1>12 DEF RetryPatch
  <2>2. Sound(rec)
    <3>1. work[w] \in Work /\ work[w].tries + 1 \in 0 .. MaxTries
      BY <1>1, <1>12, CallLeadsAssumption DEF RetryPatch, MayRetry, Work
    <3>2. rec \in Work
      BY <3>1 DEF Work, Labels
    <3>3. rec.pc = "result" /\ rec.hand = work[w].hand /\ rec.id = work[w].id
      BY <3>1 DEF Work
    <3> QED BY <1>1, <1>12, <3>2, <3>3 DEF RetryPatch, At, Sound, Ingesting
  <2> HIDE DEF rec
  <2> QED BY <1>1, <2>1, <2>2, OneMoves
<1>13. work' = work => WorkSound'
  BY <1>1 DEF WorkSound, Sound
<1> QED
  <2>1. \A r \in Runs : Contended(r) \/ LeaseLost(r) \/ Finish(r) => Leave(r)
    BY DEF Contended, LeaseLost, Finish
  <2>2. \A w \in Workers : EndInError(w) \/ Crash(w) => Leave(w)
    BY DEF Crash, EndInError
  <2>3. \A w \in Workers : CreateLead(w) \/ PatchLead(w) => Done(w)
    BY DEF CreateLead, PatchLead
  <2> QED BY <1>2, <1>3, <1>4, <1>5, <1>6, <1>7, <1>8, <1>9, <1>10, <1>11, <1>12,
             <1>13, <2>1, <2>2, <2>3, Frames DEF Workers

(* How a lead changes: a worker creates it, *)
Created(c, v, row) ==
  /\ CreateLead(v) /\ CallOf(v) = c
  /\ row.st = "here" /\ row.dup = work[v].dup /\ row.at \in Times

(* or, while it is there, its result is written or it is removed. *)
Changed(c, v, row) ==
  /\ IsHere(c, v) /\ row.st \in {"here", "gone"}
  /\ row.dup = lead[c][v].dup /\ row.at >= lead[c][v].at

(* What writing a result changes. *)
LEMMA ResultIsTyped ==
  ASSUME NEW row \in LeadRows, NEW q \in Readings
  PROVE  LET new == WithResult(row, q) IN
         /\ new \in LeadRows /\ new.st = row.st /\ new.dup = row.dup
         /\ new.at = q.at /\ new.result = q.result
BY DEF WithResult, LeadRows, Readings

(* Every step leaves the leads alone, or changes one of them so. *)
LEMMA LeadsEvolve ==
  ASSUME TypeOK, [Next]_vars
  PROVE  \/ lead' = lead
         \/ \E c \in Calls, v \in Workers, row \in LeadRows :
              /\ lead' = [lead EXCEPT ![c][v] = row]
              /\ Created(c, v, row) \/ Changed(c, v, row)
<1>1. OthersTyped /\ \A w \in Workers : work[w] \in Work
  BY TypeParts DEF WorkSound
<1>2. \A c \in Calls, v \in Workers : lead[c][v] \in LeadRows /\ lead[c][v].at \in Int
  BY <1>1, CallLeadsAssumption DEF OthersTyped, LeadRows, Times, Never
<1> DEFINE Goal == \E c \in Calls, v \in Workers, row \in LeadRows :
                     /\ lead' = [lead EXCEPT ![c][v] = row]
                     /\ Created(c, v, row) \/ Changed(c, v, row)
<1>3. ASSUME NEW w \in Workers, CreateLead(w)
      PROVE  Goal
  <2> DEFINE c == CallOf(w)
             row == [st |-> "here", dup |-> work[w].dup,
                     result |-> work[w].hand.result, at |-> work[w].hand.at]
  <2>1. c \in Calls /\ work[w].hand \in Readings
    BY <1>3, Worked DEF CreateLead, At, Ingesting
  <2>2. row \in LeadRows /\ row.at \in Times
    BY <1>1, <2>1 DEF LeadRows, Readings, Work
  <2>3. Created(c, w, row)
    BY <1>3, <2>2 DEF Created
  <2>4. lead' = [lead EXCEPT ![c][w] = row]
    BY <1>3 DEF CreateLead
  <2> HIDE DEF c, row
  <2> QED BY <2>1, <2>2, <2>3, <2>4
<1>4. ASSUME NEW w \in Workers, PatchLead(w)
      PROVE  lead' = lead \/ Goal
  <2> DEFINE c == CallOf(w)
             v == work[w].id
             q == work[w].hand
             row == WithResult(lead[c][v], q)
  <2>1. c \in Calls /\ q \in Readings /\ v \in Workers
    BY <1>4, Worked DEF PatchLead, At, Ingesting
  <2>2. CASE ~IsNewer(w)
    BY <1>4, <2>2 DEF PatchLead
  <2>3. CASE IsNewer(w)
    <3>1. lead' = [lead EXCEPT ![c][v] = row] /\ IsHere(c, v)
      BY <1>4, <2>3 DEF PatchLead, Unchanged, LeadOf, IsHere
    <3>2. /\ row \in LeadRows /\ row.st = lead[c][v].st
          /\ row.dup = lead[c][v].dup /\ row.at = q.at
      BY <1>2, <2>1, ResultIsTyped
    <3>3. q.at \in Int /\ q.at > lead[c][v].at
      BY <1>2, <2>1, <2>3, CallLeadsAssumption
         DEF Readings, Times, IsNewer, LeadOf
    <3>4. Changed(c, v, row)
      BY <1>2, <2>1, <3>1, <3>2, <3>3 DEF Changed, IsHere
    <3> HIDE DEF row, c, v
    <3> QED BY <2>1, <3>1, <3>2, <3>4
  <2> QED BY <2>2, <2>3
<1>5. ASSUME NEW c \in Calls, NEW v \in Workers, RemoveLead(c, v)
      PROVE  Goal
  <2> DEFINE row == [lead[c][v] EXCEPT !.st = "gone"]
  <2>1. lead' = [lead EXCEPT ![c][v] = row]
    BY <1>5 DEF RemoveLead
  <2>2. /\ row \in LeadRows /\ row.st = "gone"
        /\ row.dup = lead[c][v].dup /\ row.at = lead[c][v].at
    BY <1>2 DEF LeadRows
  <2>3. Changed(c, v, row)
    BY <1>2, <1>5, <2>2 DEF Changed, RemoveLead
  <2> HIDE DEF row
  <2> QED BY <2>1, <2>2, <2>3
<1> QED BY <1>3, <1>4, <1>5, Frames

(* The other types are inductive, *)
LEMMA OtherTypesStay ==
  ASSUME TypeOK, ResultsBounded, [Next]_vars
  PROVE  OthersTyped' /\ ResultsBounded'
<1>1. /\ OthersTyped /\ \A w \in Workers : work[w] \in Work
      /\ \A c \in Calls : call[c] \in CallRows /\ call[c].result \in Nat
      /\ \A c \in Calls : call[c].result <= spent
      /\ spent \in Nat
  BY TypeParts, CallLeadsAssumption
     DEF WorkSound, OthersTyped, CallRows, Results, ResultsBounded
<1>2. call' \in [Calls -> CallRows] /\ spent' \in 0 .. Budget /\ ResultsBounded'
  <2>1. ASSUME NEW c \in Calls, Appears(c)
        PROVE  call' \in [Calls -> CallRows] /\ spent' = spent /\ ResultsBounded'
    <3>1. /\ call' = [call EXCEPT ![c] = [call[c] EXCEPT !.logged = now]]
          /\ spent' = spent
      BY <2>1 DEF Appears
    <3>2. /\ [call[c] EXCEPT !.logged = now] \in CallRows
          /\ [call[c] EXCEPT !.logged = now].result = call[c].result
      BY <1>1 DEF OthersTyped, CallRows
    <3> QED BY <1>1, <3>1, <3>2 DEF OthersTyped, ResultsBounded
  <2>2. ASSUME NEW c \in Calls, IsRewritten(c)
        PROVE  /\ call' \in [Calls -> CallRows]
               /\ spent' \in 0 .. Budget /\ ResultsBounded'
    <3> DEFINE row == [call[c] EXCEPT !.result = @ + 1]
    <3>1. /\ call' = [call EXCEPT ![c] = row]
          /\ spent + 2 <= Budget /\ spent' = spent + 2
      BY <2>2 DEF IsRewritten, Spend, Fault
    <3>2. call[c].result + 1 \in Results
      BY <1>1, <3>1, CallLeadsAssumption DEF Results
    <3>3. row \in CallRows /\ row.result = call[c].result + 1
      BY <1>1, <3>2 DEF CallRows
    <3> HIDE DEF row
    <3>4. call' \in [Calls -> CallRows]
      BY <1>1, <3>1, <3>3 DEF OthersTyped
    <3>5. ASSUME NEW d \in Calls PROVE call'[d].result <= spent'
      <4>1. CASE d = c
        <5>1. call'[d].result = call[c].result + 1
          BY <1>1, <3>1, <3>3, <4>1 DEF OthersTyped
        <5> QED BY <1>1, <3>1, <5>1
      <4>2. CASE d # c
        <5>1. call'[d] = call[d]
          BY <1>1, <3>1, <4>2 DEF OthersTyped
        <5> QED BY <1>1, <3>1, <5>1
      <4> QED BY <4>1, <4>2
    <3> QED BY <1>1, <3>1, <3>4, <3>5, CallLeadsAssumption DEF ResultsBounded
  <2>3. ASSUME call' = call, spent' = spent \/ Spend(Fault) \/ Spend(Edit)
        PROVE  call' \in [Calls -> CallRows] /\ spent' \in 0 .. Budget
                 /\ ResultsBounded'
    <3>1. spent' \in 0 .. Budget /\ spent <= spent'
      BY <1>1, <2>3, CallLeadsAssumption DEF OthersTyped, Spend, Fault, Edit
    <3> QED BY <1>1, <2>3, <3>1, CallLeadsAssumption DEF OthersTyped, ResultsBounded
  <2> QED BY <1>1, <2>1, <2>2, <2>3, Frames DEF OthersTyped
<1>3. now' \in Times
  BY <1>1, Frames, CallLeadsAssumption DEF OthersTyped, Times, Tick
<1>4. cursor' \in Times \cup {Never} /\ origin' \in Int /\ reached' \in Times \cup {Never}
  <2>1. ASSUME NEW r \in Runs, Finish(r)
        PROVE  cursor' \in Times \cup {Never} /\ origin' \in Int
                 /\ reached' \in Times \cup {Never}
    BY <1>1, <2>1 DEF Finish, OthersTyped, Work, Workers, Later
  <2> QED BY <1>1, <2>1, Frames DEF OthersTyped
<1>5. lead' \in [Calls -> [Workers -> LeadRows]]
  <2>1. ASSUME NEW c \in Calls, NEW v \in Workers, NEW row \in LeadRows,
               lead' = [lead EXCEPT ![c][v] = row]
        PROVE  lead' \in [Calls -> [Workers -> LeadRows]]
    BY <1>1, <2>1 DEF OthersTyped
  <2> QED BY <1>1, <2>1, LeadsEvolve DEF OthersTyped
<1>6. rev' \in [Calls -> [Workers -> Nat]]
  <2>1. ASSUME NEW c \in Calls, NEW v \in Workers, rev' = [rev EXCEPT ![c][v] = @ + 1]
        PROVE  rev' \in [Calls -> [Workers -> Nat]]
    BY <1>1, <2>1 DEF OthersTyped
  <2>2. \A w \in Workers : PatchLead(w) => CallOf(w) \in Calls /\ work[w].id \in Workers
    BY Worked DEF PatchLead, At, Ingesting
  <2>3. \A w \in Workers : PatchLead(w) =>
          rev' = rev \/ rev' = [rev EXCEPT ![CallOf(w)][work[w].id] = @ + 1]
    BY DEF PatchLead
  <2>4. \A c \in Calls, v \in Workers :
          EditLead(c, v) => rev' = [rev EXCEPT ![c][v] = @ + 1]
    BY DEF EditLead
  <2>5. ASSUME NEW w \in Workers, PatchLead(w)
        PROVE  rev' \in [Calls -> [Workers -> Nat]]
    BY <1>1, <2>1, <2>2, <2>3, <2>5 DEF OthersTyped
  <2>6. ASSUME NEW c \in Calls, NEW v \in Workers, EditLead(c, v)
        PROVE  rev' \in [Calls -> [Workers -> Nat]]
    BY <2>1, <2>4, <2>6
  <2> QED BY <1>1, <2>5, <2>6, Frames DEF OthersTyped
<1>7. ledger' \in [Calls -> Workers \cup {None}]
  <2>1. ASSUME NEW w \in Workers, CreateLead(w)
        PROVE  ledger' \in [Calls -> Workers \cup {None}]
    BY <1>1, <2>1 DEF CreateLead, OthersTyped
  <2> QED BY <1>1, <2>1, Frames DEF OthersTyped
<1>8. lease' \in [owner : Workers \cup {None, Lost}, live : BOOLEAN, until : Times]
  <2> DEFINE Leases == [owner : Workers \cup {None, Lost}, live : BOOLEAN, until : Times]
  <2>1. lease \in Leases /\ Free \in Leases /\ now \in Times
    BY <1>1, CallLeadsAssumption DEF OthersTyped, Free, Times
  <2>2. ASSUME NEW r \in Runs, Acquire(r) PROVE lease' \in Leases
    BY <1>1, <2>2 DEF Acquire, Workers, Work
  <2>3. ASSUME NEW r \in Runs, Fetch(r) PROVE lease' \in Leases
    <3>1. lease' = [lease EXCEPT !.until = now]
      BY <2>3 DEF Fetch
    <3> QED BY <2>1, <3>1
  <2>4. ASSUME Lapse PROVE lease' \in Leases
    <3>1. PICK t \in lease.until .. now :
            lease' = [owner |-> None, live |-> FALSE, until |-> t]
      BY <2>4 DEF Lapse
    <3>2. t \in Times
      BY <2>1, CallLeadsAssumption DEF Times
    <3> QED BY <3>1, <3>2
  <2>5. ASSUME NEW w \in Workers, EndInError(w) \/ Crash(w) PROVE lease' \in Leases
    BY <2>1, <2>5 DEF EndInError, Crash
  <2> HIDE DEF Leases
  <2>6. lease' \in Leases
    BY <2>1, <2>2, <2>3, <2>4, <2>5, Frames DEF Finish, Stall, ExpireLost
  <2> QED BY <2>6 DEF Leases
<1> QED BY <1>2, <1>3, <1>4, <1>5, <1>6, <1>7, <1>8 DEF OthersTyped

(* and so is the type invariant. *)
LEMMA TypesStay ==
  ASSUME TypeOK, ResultsBounded, NothingMadeYet, [Next]_vars
  PROVE  TypeOK' /\ ResultsBounded'
<1>1. OthersTyped' /\ WorkSound' /\ ResultsBounded'
  BY WorkTypesStay, OtherTypesStay
<1> QED BY <1>1 DEF OthersTyped, WorkSound, Sound, TypeOK, CallOf

-----------------------------------------------------------------------------
(* How the work of one worker changes. *)
SameWindow(w) ==
  /\ work'[w].from = work[w].from /\ work'[w].to = work[w].to
  /\ work'[w].todo = work[w].todo

Read(r, F) ==
  {[call |-> c, result |-> call[c].result, at |-> work[r].to] : c \in F}

Enters(w) ==
  /\ w \in Runs /\ At(w, "idle") /\ work'[w].pc = "entered"
  /\ work'[w].to = now /\ work'[w].from = work[w].from
  /\ work'[w].todo = work[w].todo /\ work'[w].hand = work[w].hand

Begins(w) ==
  /\ w \in Runs /\ Acquire(w) /\ work'[w].pc = "claimed"
  /\ work'[w].from = WindowStart(work[w].to) /\ work'[w].to = work[w].to
  /\ work'[w].todo = work[w].todo /\ work'[w].hand = work[w].hand

Lists(w) ==
  /\ w \in Runs /\ Fetch(w) /\ work'[w].pc = "next"
  /\ \E F \in Pages(Listed(work[w].from, work[w].to)) : work'[w].todo = Read(w, F)
  /\ work'[w].from = work[w].from /\ work'[w].to = work[w].to
  /\ work'[w].hand = work[w].hand

FirstLabel(c) == IF Processed(c) THEN "result" ELSE "classify"

Takes(w) ==
  \E q \in work[w].todo :
    /\ q \in Readings /\ UNCHANGED <<lead, ledger>> /\ At(w, "next")
    /\ work'[w].pc = FirstLabel(q.call) /\ work'[w].hand = q
    /\ work'[w].todo = work[w].todo \ {q}
    /\ work'[w].from = work[w].from /\ work'[w].to = work[w].to

Wakes(w) ==
  \E q \in Readings :
    /\ w \in Hooks /\ UNCHANGED <<lead, ledger>> /\ SameWindow(w)
    /\ work'[w].pc = FirstLabel(q.call) /\ work'[w].hand = q
    /\ Logged(q.call) /\ q.result = call[q.call].result

Classified(w) ==
  /\ At(w, "classify") /\ work'[w].pc = "create" /\ UNCHANGED <<lead, ledger>>
  /\ work'[w].hand = work[w].hand /\ work'[w].dup = IsDuplicate(CallOf(w))
  /\ SameWindow(w)

Writes(w) ==
  /\ \/ At(w, "create") /\ Taken(CallOf(w)) /\ ledger' = ledger
     \/ work[w].pc \in {"result", "patch"}
  /\ work'[w].pc \in {"result", "patch"}
  /\ work'[w].hand = work[w].hand /\ SameWindow(w)

Through(w) ==
  /\ CreateLead(w) \/ work[w].pc \in {"result", "patch"}
  /\ w \in Runs /\ work'[w].pc = "next" /\ work'[w].hand = NoReading
  /\ SameWindow(w)

Moved(w) ==
  \/ work'[w] = Idle \/ Enters(w) \/ Begins(w) \/ Lists(w) \/ Takes(w) \/ Wakes(w)
  \/ Classified(w) \/ Writes(w) \/ Through(w)

(* Every step leaves a worker alone or moves it so. *)
LEMMA WorkEvolves ==
  ASSUME TypeOK, [Next]_vars
  PROVE  \A w \in Workers : work'[w] = work[w] \/ Moved(w)
<1>1. work \in [Workers -> Work] /\ \A w \in Workers : work[w] \in Work
  BY DEF TypeOK
<1>0. ledger \in [Calls -> Workers \cup {None}]
  BY DEF TypeOK
<1> DEFINE Goal == \A v \in Workers : work'[v] = work[v] \/ Moved(v)
<1>2. ASSUME NEW w \in Workers, Leave(w)
      PROVE  Goal
  BY <1>1, <1>2 DEF Leave, Moved
<1>3. ASSUME NEW w \in Workers, CreateLead(w) \/ PatchLead(w) \/ ReadLead(w)
      PROVE  Goal
  <2>1. CASE Done(w)
    <3>1. Through(w) \/ work'[w] = Idle
      BY <1>3, <2>1, AfterARecord DEF Through, SameWindow, PatchLead, ReadLead, At
    <3> QED BY <2>1, <3>1, AfterARecord DEF Moved
  <2>2. CASE ~Done(w)
    <3>1. /\ At(w, "result")
          /\ work' = [work EXCEPT ![w].pc = "patch", ![w].rev = RevOf(w)]
      BY <1>3, <2>2 DEF CreateLead, PatchLead, ReadLead
    <3>2. Writes(w) /\ \A v \in Workers \ {w} : work'[v] = work[v]
      BY <1>1, <3>1 DEF Writes, SameWindow, At, Work
    <3> QED BY <3>2 DEF Moved
  <2> QED BY <2>1, <2>2
<1>4. ASSUME NEW w \in Workers, Raced(w) \/ RetryPatch(w)
      PROVE  Goal
  <2>1. Writes(w) /\ \A v \in Workers \ {w} : work'[v] = work[v]
    BY <1>1, <1>4 DEF Raced, RetryPatch, Writes, SameWindow, At, Work, leadVars
  <2> QED BY <2>1 DEF Moved
<1>5. ASSUME NEW w \in Workers, Classify(w)
      PROVE  Goal
  <2>1. Classified(w) /\ \A v \in Workers \ {w} : work'[v] = work[v]
    BY <1>1, <1>5 DEF Classify, Classified, SameWindow, At, Work, leadVars
  <2> QED BY <2>1 DEF Moved
<1>6. ASSUME NEW h \in Hooks, NEW c \in Calls, ReadRecord(h, c)
      PROVE  Goal
  <2> DEFINE q == [call |-> c, result |-> call[c].result, at |-> now]
  <2>1. /\ h \in Workers /\ work[h] \in Work
        /\ q \in Readings /\ q.call = c /\ q.result = call[c].result
    BY <1>1 DEF Workers, TypeOK, Readings, CallRows
  <2>2. /\ work' = [work EXCEPT ![h] = Begun(work[h], q)]
        /\ Logged(c) /\ UNCHANGED <<lead, ledger>>
    BY <1>6 DEF ReadRecord, leadVars
  <2> HIDE DEF q
  <2>3. /\ work'[h] = Begun(work[h], q)
        /\ \A v \in Workers \ {h} : work'[v] = work[v]
    BY <1>1, <2>1, <2>2
  <2>4. Wakes(h)
    BY <1>0, <2>1, <2>2, <2>3, BegunIsSound DEF Wakes, FirstLabel, SameWindow
  <2> QED BY <2>3, <2>4 DEF Moved
<1>7. ASSUME NEW r \in Runs, TakeRecord(r)
      PROVE  Goal
  <2>1. PICK q \in work[r].todo :
          work' = [work EXCEPT ![r] = Begun([work[r] EXCEPT !.todo = @ \ {q}], q)]
    BY <1>7 DEF TakeRecord
  <2> DEFINE rec == [work[r] EXCEPT !.todo = @ \ {q}]
  <2>2. r \in Workers /\ At(r, "next") /\ UNCHANGED <<lead, ledger>>
    BY <1>7 DEF TakeRecord, leadVars, Workers
  <2>3. /\ q \in Readings /\ rec \in Work /\ rec.todo = work[r].todo \ {q}
        /\ rec.from = work[r].from /\ rec.to = work[r].to
    BY <1>1, <2>1, <2>2 DEF Work
  <2> HIDE DEF rec
  <2>4. /\ work'[r] = Begun(rec, q)
        /\ \A v \in Workers \ {r} : work'[v] = work[v]
    BY <1>1, <2>1, <2>2 DEF rec
  <2>5. /\ work'[r].pc = FirstLabel(q.call) /\ work'[r].hand = q
        /\ work'[r].todo = work[r].todo \ {q}
        /\ work'[r].from = work[r].from /\ work'[r].to = work[r].to
    BY <1>0, <2>3, <2>4, BegunIsSound DEF FirstLabel
  <2>6. Takes(r)
    BY <2>2, <2>3, <2>5, q \in work[r].todo DEF Takes
  <2> QED BY <2>4, <2>6 DEF Moved
<1>8. ASSUME NEW r \in Runs, Fetch(r)
      PROVE  Goal
  <2>1. PICK F \in Pages(Listed(work[r].from, work[r].to)) :
          work' = [work EXCEPT ![r].pc = "next", ![r].todo = Read(r, F)]
    BY <1>8 DEF Fetch, Read
  <2>2. r \in Workers
    BY DEF Workers
  <2>3. /\ work'[r].pc = "next" /\ work'[r].todo = Read(r, F)
        /\ work'[r].from = work[r].from /\ work'[r].to = work[r].to
        /\ work'[r].hand = work[r].hand
    BY <1>1, <2>1, <2>2 DEF Work
  <2>4. Lists(r)
    BY <1>8, <2>3 DEF Lists
  <2>5. \A v \in Workers \ {r} : work'[v] = work[v]
    BY <1>1, <2>1
  <2> QED BY <2>4, <2>5 DEF Moved
<1>9. ASSUME NEW r \in Runs, Enter(r) \/ Acquire(r)
      PROVE  Goal
  <2>1. Enters(r) \/ Begins(r)
    BY <1>1, <1>9 DEF Enter, Acquire, Enters, Begins, At, Work, Workers
  <2>2. \A v \in Workers \ {r} : work'[v] = work[v]
    BY <1>1, <1>9 DEF Enter, Acquire
  <2> QED BY <2>1, <2>2 DEF Moved
<1> QED
  <2>1. \A r \in Runs : r \in Workers /\ (Contended(r) \/ LeaseLost(r) \/ Finish(r)
                                            => Leave(r))
    BY DEF Contended, LeaseLost, Finish, Workers
  <2>2. \A w \in Workers : EndInError(w) \/ Crash(w) => Leave(w)
    BY DEF Crash, EndInError
  <2> QED BY <1>2, <1>3, <1>4, <1>5, <1>6, <1>7, <1>8, <1>9, <2>1, <2>2, Frames

-----------------------------------------------------------------------------
(* What was made stays made, and stays the duplicate that it is or is not. *)
LEMMA LeadsStay ==
  ASSUME TypeOK, NothingMadeYet, [Next]_vars, NEW c \in Calls, NEW v \in Workers
  PROVE  /\ \/ lead'[c][v] = lead[c][v] \/ Created(c, v, lead'[c][v])
            \/ Changed(c, v, lead'[c][v])
         /\ lead[c][v].st # "none" =>
              lead'[c][v].st # "none" /\ lead'[c][v].dup = lead[c][v].dup
<1>1. \/ lead'[c][v] = lead[c][v] \/ Created(c, v, lead'[c][v])
      \/ Changed(c, v, lead'[c][v])
  <2>1. ASSUME NEW d \in Calls, NEW u \in Workers, NEW row \in LeadRows,
               lead' = [lead EXCEPT ![d][u] = row],
               Created(d, u, row) \/ Changed(d, u, row)
        PROVE  \/ lead'[c][v] = lead[c][v] \/ Created(c, v, lead'[c][v])
               \/ Changed(c, v, lead'[c][v])
    <3>1. lead'[c][v] = IF c = d /\ v = u THEN row ELSE lead[c][v]
      BY <2>1 DEF TypeOK
    <3> QED BY <2>1, <3>1
  <2> QED BY <2>1, LeadsEvolve
<1>2. Created(c, v, lead'[c][v]) => lead[c][v].st = "none"
  BY DEF Created, CreateLead, At, NothingMadeYet
<1> QED BY <1>1, <1>2 DEF Changed

(* The ledger names a call for good. *)
LEMMA ProcessedStays ==
  ASSUME TypeOK, [Next]_vars, NEW c \in Calls, Processed(c)
  PROVE  Processed(c)'
<1>1. ASSUME NEW w \in Workers, CreateLead(w) PROVE Processed(c)'
  BY <1>1, CallLeadsAssumption DEF CreateLead, Processed, TypeOK
<1> QED BY <1>1, Frames DEF Processed

(* A worker creates one lead of a call at most. *)
LEMMA MadeOnce ==
  ASSUME TypeOK, NothingMadeYet, [Next]_vars
  PROVE  NothingMadeYet'
<1>1. ASSUME NEW c \in Calls, ~Processed(c)', NEW v \in Workers
      PROVE  lead'[c][v].st = "none"
  <2>1. ~Processed(c)
    BY <1>1, ProcessedStays
  <2>2. lead[c][v].st = "none" /\ ~Changed(c, v, lead'[c][v])
    BY <2>1 DEF NothingMadeYet, Changed, IsHere
  <2>3. ~Created(c, v, lead'[c][v])
    BY <1>1, CallLeadsAssumption DEF Created, CreateLead, Processed, TypeOK
  <2> QED BY <2>2, <2>3, LeadsStay
<1>2. ASSUME NEW w \in Workers, work'[w].pc \in {"classify", "create"}
      PROVE  lead'[CallOf(w)'][w].st = "none"
  <2>1. CASE work'[w] = work[w]
    <3> DEFINE c == CallOf(w)
    <3>1. /\ CallOf(w)' = c /\ c \in Calls /\ lead[c][w].st = "none"
      BY <1>2, <2>1, Worked DEF NothingMadeYet, CallOf, Ingesting
    <3>2. ~Changed(c, w, lead'[c][w])
      BY <3>1 DEF Changed, IsHere
    <3>3. ~Created(c, w, lead'[c][w])
      BY <1>2, <2>1, AfterARecord, IdleIsTyped DEF Created, CreateLead
    <3> HIDE DEF c
    <3> QED BY <3>1, <3>2, <3>3, LeadsStay
  <2>2. CASE Takes(w) \/ Wakes(w)
    BY <1>2, <2>2 DEF Takes, Wakes, FirstLabel, NothingMadeYet, CallOf, Readings
  <2>3. CASE Classified(w)
    BY <2>3 DEF Classified, At, NothingMadeYet, CallOf
  <2>4. ~(\/ work'[w] = Idle \/ Enters(w) \/ Begins(w) \/ Lists(w) \/ Writes(w)
          \/ Through(w))
    BY <1>2, IdleIsTyped DEF Enters, Begins, Lists, Writes, Through
  <2> QED BY <2>1, <2>2, <2>3, <2>4, WorkEvolves DEF Moved
<1> QED BY <1>1, <1>2 DEF NothingMadeYet

(* Nothing is observed of what was not made. *)
LEMMA ObservedLater ==
  ASSUME TypeOK, NothingMadeYet, NothingObservedYet, [Next]_vars
  PROVE  NothingObservedYet'
<1> SUFFICES ASSUME NEW c \in Calls, NEW v \in Workers, lead'[c][v].st = "none"
             PROVE  lead'[c][v].at = Never
  BY DEF NothingObservedYet
<1>1. lead'[c][v] = lead[c][v]
  BY LeadsStay DEF Created, Changed
<1> QED BY <1>1 DEF NothingObservedYet

(* The unique index. *)
LEMMA OneLeadStays ==
  ASSUME TypeOK, NothingMadeYet, OneLeadPerCall, [Next]_vars
  PROVE  OneLeadPerCall'
<1> SUFFICES ASSUME NEW c \in Identified, NEW v \in Workers, NEW w \in Workers,
                    lead'[c][v].st = "here", lead'[c][w].st = "here"
             PROVE  v = w
  BY DEF OneLeadPerCall, IsHere
<1>1. c \in Calls
  BY CallLeadsAssumption
<1>2. CASE IsHere(c, v) /\ IsHere(c, w)
  BY <1>2 DEF OneLeadPerCall
<1>3. CASE ~(IsHere(c, v) /\ IsHere(c, w))
  <2>1. PICK u \in {v, w} : ~IsHere(c, u)
    BY <1>3
  <2>2. u \in Workers /\ lead'[c][u].st = "here"
    BY <2>1
  <2>3. Created(c, u, lead'[c][u])
    BY <1>1, <2>1, <2>2, LeadsStay DEF IsHere, Changed
  <2>4. /\ lead' = [lead EXCEPT ![c][u] = lead'[c][u]]
        /\ \A x \in Workers : ~IsHere(c, x)
    <3>1. ~Taken(c) /\ CallOf(u) = c /\ CreateLead(u)
      BY <2>3 DEF Created, CreateLead
    <3>2. \A x \in Workers : ~IsHere(c, x)
      BY <3>1 DEF Taken
    <3>3. lead' = [lead EXCEPT ![c][u] = lead'[c][u]]
      BY <1>1, <2>2, <3>1 DEF CreateLead, TypeOK
    <3> QED BY <3>2, <3>3
  <2>5. \A x \in Workers \ {u} : lead'[c][x] = lead[c][x]
    BY <1>1, <2>4 DEF TypeOK
  <2> QED BY <2>1, <2>4, <2>5 DEF IsHere
<1> QED BY <1>2, <1>3

(* What was found out about duplicates stays true. *)
LEMMA DuplicatesStay ==
  ASSUME TypeOK, NothingMadeYet, DuplicatesFollowAPaidLead, RemembersRight,
         [Next]_vars
  PROVE  DuplicatesFollowAPaidLead' /\ RemembersRight'
<1> DEFINE PaidNext(c) ==
      \E d \in Calls \ {c} :
        /\ Caller[d] = Caller[c] /\ Start[d] < Start[c]
        /\ \E v \in Workers : lead'[d][v].st # "none" /\ ~lead'[d][v].dup
<1>1. ASSUME NEW c \in Calls, PaidBefore(c)
      PROVE  PaidNext(c)
  BY <1>1, LeadsStay DEF PaidBefore
<1>2. ASSUME NEW c \in Calls, NEW v \in Workers, lead'[c][v].dup
      PROVE  PaidNext(c)
  <2>1. CASE lead[c][v].dup
    BY <1>1, <2>1 DEF DuplicatesFollowAPaidLead
  <2>2. CASE ~lead[c][v].dup
    <3>1. Created(c, v, lead'[c][v])
      BY <1>2, <2>2, LeadsStay DEF Changed
    <3>2. PaidBefore(c)
      BY <1>2, <3>1 DEF Created, CreateLead, RemembersRight
    <3> QED BY <1>1, <3>2
  <2> QED BY <2>1, <2>2
<1>3. ASSUME NEW w \in Workers, work'[w].pc = "create", work'[w].dup
      PROVE  PaidNext(work'[w].hand.call)
  <2>1. work'[w] = work[w] \/ Classified(w)
    BY <1>3, IdleIsTyped, WorkEvolves
       DEF Moved, Enters, Begins, Lists, Takes, Wakes, FirstLabel, Writes, Through
  <2>2. CallOf(w) \in Calls /\ work'[w].hand.call = CallOf(w)
    BY <1>3, <2>1, Worked DEF Classified, At, CallOf, Ingesting
  <2>3. PaidBefore(CallOf(w))
    <3>1. CASE work'[w] = work[w]
      BY <1>3, <3>1 DEF At, RemembersRight
    <3>2. CASE Classified(w)
      <4>1. IsDuplicate(CallOf(w))
        BY <1>3, <3>2 DEF Classified
      <4> QED BY <4>1 DEF IsDuplicate, Paid, PaidBefore, IsHere
    <3> QED BY <2>1, <3>1, <3>2
  <2> HIDE DEF PaidNext
  <2> QED BY <1>1, <2>2, <2>3
<1> QED BY <1>2, <1>3 DEF DuplicatesFollowAPaidLead, PaidBefore, RemembersRight, At, CallOf

(* Dates stay behind the clock. *)
LEMMA DatesStay ==
  ASSUME TypeOK, Dated, [Next]_vars
  PROVE  Dated' /\ now' >= now
<1>1. /\ now \in Int /\ 0 <= now /\ reached \in Int
      /\ \A w \in Workers : work[w].to \in Int
      /\ \A c \in Calls : Start[c] \in Int /\ call[c].logged \in Int
  BY CallLeadsAssumption DEF TypeOK, Times, Never, Work, CallRows
<1>2. now' \in Int /\ now' >= now
  BY <1>1, Frames DEF Tick
<1>3. reached' <= now'
  <2>1. ASSUME NEW r \in Runs, Finish(r) PROVE reached' <= now
    BY <1>1, <2>1 DEF Finish, Later, Dated, Workers
  <2> QED BY <1>1, <1>2, <2>1, Frames, TypesStay DEF Dated, Finish, Later, Workers
<1>4. ASSUME NEW w \in Workers
      PROVE  work'[w].to <= now'
  <2>1. \/ work'[w].to = work[w].to \/ work'[w].to = now \/ work'[w].to = 0
    BY WorkEvolves
       DEF Moved, Enters, Begins, Lists, Takes, Wakes, Classified, Writes, Through,
           SameWindow, Idle
  <2> QED BY <1>1, <1>2, <2>1 DEF Dated
<1>5. ASSUME NEW c \in Calls, Logged(c)'
      PROVE  Start[c] <= call'[c].logged
  <2>1. call \in [Calls -> CallRows]
    BY DEF TypeOK
  <2>2. ASSUME NEW d \in Calls, Appears(d)
        PROVE  Start[c] <= call'[c].logged
    BY <1>5, <2>1, <2>2 DEF Appears, Logged, Dated, CallRows
  <2>3. ASSUME NEW d \in Calls, IsRewritten(d)
        PROVE  Start[c] <= call'[c].logged
    BY <1>5, <2>1, <2>3 DEF IsRewritten, Logged, Dated, CallRows
  <2> QED BY <1>5, <2>2, <2>3, Frames DEF Dated, Logged
<1> QED BY <1>2, <1>3, <1>4, <1>5 DEF Dated

(* The cursor stays behind what the windows reached. *)
LEMMA CursorStaysBehind ==
  ASSUME TypeOK, CursorBehind, [Next]_vars
  PROVE  CursorBehind'
<1>1. cursor \in Int /\ reached \in Int /\ \A w \in Workers : work[w].to \in Nat
  BY CallLeadsAssumption DEF TypeOK, Times, Never, Work
<1>2. ASSUME NEW r \in Runs, Finish(r) PROVE CursorBehind'
  BY <1>1, <1>2 DEF Finish, Later, CursorBehind, Never, Workers
<1> QED BY <1>2, Frames DEF CursorBehind

(* A run that holds the lease after a step, and goes on, held it before, or claims
   it in this step; and the cursor stays where it is. *)
LEMMA HolderStays ==
  ASSUME TypeOK, [Next]_vars, NEW r \in Runs, Held(r)', ~Acquire(r)
  PROVE  Held(r) /\ cursor' = cursor
<1>1. /\ lease \in [owner : Workers \cup {None, Lost}, live : BOOLEAN, until : Times]
      /\ None # r /\ Lost # r
  BY CallLeadsAssumption DEF Workers, TypeOK
<1>2. ASSUME NEW q \in Runs, Acquire(q) PROVE FALSE
  <2>1. lease'.owner = q
    BY <1>2 DEF Acquire
  <2> QED BY <1>2, <2>1 DEF Held
<1>3. ASSUME NEW q \in Runs, Fetch(q) PROVE Held(r)
  <2>1. lease' = [lease EXCEPT !.until = now]
    BY <1>3 DEF Fetch
  <2> QED BY <1>1, <2>1 DEF Held
<1>4. ASSUME NEW q \in Runs, Finish(q) PROVE FALSE
  BY <1>4 DEF Finish, Free, Held
<1>5. Lapse => FALSE
  BY DEF Lapse, Held
<1>6. ASSUME NEW w \in Workers, EndInError(w) \/ Crash(w) PROVE Held(r)
  <2>1. lease' = Free \/ lease' = lease \/ lease' = [lease EXCEPT !.owner = Lost]
    BY <1>6 DEF EndInError, Crash
  <2> QED BY <1>1, <2>1 DEF Free, Held
<1>7. Held(r)
  BY <1>2, <1>3, <1>4, <1>5, <1>6, Frames DEF ExpireLost, Stall, Held
<1> QED BY <1>4, <1>7, Frames

(* The cursor is still the one that the holder of the lease follows. *)
LEMMA WindowsStay ==
  ASSUME TypeOK, HolderFollowsCursor, [Next]_vars
  PROVE  HolderFollowsCursor'
<1> SUFFICES ASSUME NEW r \in Runs, Held(r)', work'[r].pc \notin {"idle", "entered"}
             PROVE  (work[r].from = WindowStart(work[r].to))'
  BY DEF HolderFollowsCursor
<1>1. r \in Workers /\ r \notin Hooks /\ Idle.pc = "idle"
  BY CallLeadsAssumption DEF Workers, Idle
<1>2. CASE Acquire(r)
  <2>1. /\ work'[r].from = WindowStart(work[r].to) /\ work'[r].to = work[r].to
        /\ cursor' = cursor
    BY <1>1, <1>2 DEF Acquire, TypeOK, Work
  <2> QED BY <2>1 DEF WindowStart
<1>3. CASE ~Acquire(r)
  <2>1. Held(r) /\ cursor' = cursor
    BY <1>3, HolderStays
  <2>2. /\ work[r].pc \notin {"idle", "entered"}
        /\ work'[r].from = work[r].from /\ work'[r].to = work[r].to
    BY <1>1, <1>3, WorkEvolves
       DEF Moved, Enters, Begins, Lists, Fetch, Takes, Wakes, Classified, Writes,
           Through, CreateLead, SameWindow, At
  <2> QED BY <2>1, <2>2 DEF HolderFollowsCursor, WindowStart
<1> QED BY <1>2, <1>3

-----------------------------------------------------------------------------
(* Init establishes the invariant. *)
LEMMA Initially == Init => IInv /\ RunsCover /\ NoCallIsPassed
<1> SUFFICES ASSUME Init PROVE IInv /\ RunsCover /\ NoCallIsPassed
  OBVIOUS
<1>1. OthersTyped
  <2>1. [logged |-> Never, result |-> 0] \in CallRows /\ 0 \in Times
    BY CallLeadsAssumption DEF CallRows, Results, Times
  <2>2. NoLead \in LeadRows
    BY CallLeadsAssumption DEF LeadRows, NoLead, Results
  <2> QED BY <2>1, <2>2, CallLeadsAssumption DEF Init, OthersTyped, Free
<1>2. WorkSound
  BY IdleIsTyped DEF Init, WorkSound, Sound, Ingesting
<1>3. TypeOK
  BY <1>1, <1>2, TypeParts
<1>4. ResultsBounded /\ Dated /\ CursorBehind
  BY CallLeadsAssumption
     DEF Init, ResultsBounded, Dated, CursorBehind, Logged, Never, Idle
<1>5. NothingMadeYet /\ NothingObservedYet /\ OneLeadPerCall
  <2>1. \A c \in Calls, v \in Workers : lead[c][v] = NoLead
    BY DEF Init
  <2>2. \A w \in Workers : work[w].pc = "idle"
    BY DEF Init, Idle
  <2> QED BY <2>1, <2>2, CallLeadsAssumption
          DEF NothingMadeYet, NothingObservedYet, OneLeadPerCall, NoLead, IsHere
<1>6. DuplicatesFollowAPaidLead
  <2>1. \A c \in Calls, v \in Workers : ~lead[c][v].dup
    BY DEF Init, NoLead
  <2> QED BY <2>1 DEF DuplicatesFollowAPaidLead
<1>7. RemembersRight /\ HolderFollowsCursor /\ RunsCover
  BY DEF Init, RemembersRight, HolderFollowsCursor, RunsCover, At, Idle, Workers
<1>8. NoCallIsPassed
  BY DEF Init, NoCallIsPassed, Logged
<1> QED BY <1>3, <1>4, <1>5, <1>6, <1>7, <1>8 DEF IInv

(* Every step preserves the invariant. *)
LEMMA Inductively == IInv /\ [Next]_vars => IInv'
BY TypesStay, DatesStay, CursorStaysBehind, MadeOnce, ObservedLater, OneLeadStays,
   DuplicatesStay, WindowsStay
   DEF IInv

(* The strengthening is inductive, for any calls, runs and webhooks: the window
   of the lease holder begins where the cursor says, whatever date it was claimed
   with; what was found about duplicates stays true; and a worker makes one lead
   of a call at most. *)
THEOREM InductiveInvariant == Spec => []IInv
BY Initially, Inductively, PTL DEF Spec

(* Every reachable state is well typed: retries are bounded, a worker has a record
   in hand exactly while it ingests one, and it knows the lead whose result it
   writes, the ledger having named it. *)
THEOREM TypeCorrect == Spec => []TypeOK
<1>1. IInv => TypeOK
  BY DEF IInv
<1> QED BY <1>1, InductiveInvariant, PTL

(* Whatever runs and webhooks ingest a call whose session is known, and whatever
   operators remove: one lead at a time. *)
THEOREM NoSecondLead == Spec => []OneLeadPerCall
<1>1. IInv => OneLeadPerCall
  BY DEF IInv
<1> QED BY <1>1, InductiveInvariant, PTL

(* Although it is classified before the transaction, a duplicate has a lead of an
   earlier call of its caller that was paid. *)
THEOREM EveryCallerIsPaidFor == Spec => []DuplicatesFollowAPaidLead
<1>1. IInv => DuplicatesFollowAPaidLead
  BY DEF IInv
<1> QED BY <1>1, InductiveInvariant, PTL

(* A run that completes its window has taken it from the cursor that it replaces,
   whatever date it entered with, and whatever runs lost their lease before. *)
THEOREM CompletedWindowsJoin == Spec => WindowsJoin
<1>1. ASSUME IInv, NEW r \in Runs, Finish(r)
      PROVE  work[r].from = WindowStart(work[r].to)
  BY <1>1 DEF Finish, At, IInv, HolderFollowsCursor
<1>2. IInv => [\A r \in Runs : Finish(r) => work[r].from = WindowStart(work[r].to)]_vars
  BY <1>1
<1> QED BY <1>2, InductiveInvariant, PTL DEF Spec, WindowsJoin

(* No transport replaces a result by one that is dated earlier. *)
THEOREM ResultsNeverMoveBack == Spec => ResultsMoveForward
<1>1. ASSUME IInv, [Next]_vars
      PROVE  \A c \in Calls, v \in Workers : lead'[c][v].at >= lead[c][v].at
  <2> SUFFICES ASSUME NEW c \in Calls, NEW v \in Workers
               PROVE  lead'[c][v].at >= lead[c][v].at
    OBVIOUS
  <2>1. /\ lead[c][v].at \in Int
        /\ lead[c][v].st = "none" => lead[c][v].at = -1
    BY <1>1, CallLeadsAssumption
       DEF IInv, TypeOK, LeadRows, Times, Never, NothingObservedYet
  <2>2. CASE Created(c, v, lead'[c][v])
    <3>1. lead[c][v].st = "none"
      BY <1>1, <2>2 DEF Created, CreateLead, At, IInv, NothingMadeYet
    <3> QED BY <2>1, <2>2, <3>1, CallLeadsAssumption DEF Created, Times
  <2>3. CASE Changed(c, v, lead'[c][v])
    BY <2>3 DEF Changed
  <2> QED BY <1>1, <2>1, <2>2, <2>3, LeadsStay DEF IInv
<1> QED BY <1>1, InductiveInvariant, PTL DEF Spec, ResultsMoveForward

-----------------------------------------------------------------------------
(* The later calls are finitely many. *)
LEMMA CallsAfterFinite ==
  ASSUME NEW c, NEW t
  PROVE  IsFiniteSet(CallsAfter(c, t)) /\ Cardinality(CallsAfter(c, t)) \in Nat
<1>1. CallsAfter(c, t) \in SUBSET Calls /\ IsFiniteSet(Calls)
  BY CallLeadsAssumption DEF CallsAfter
<1> QED BY <1>1, FS_Subset, FS_CardinalityType

(* A call of the window that the pages of a run do not hold is crowded out. *)
LEMMA PagesReachBack ==
  ASSUME NEW s, NEW t, NEW c \in Listed(s, t), NEW F \in Pages(Listed(s, t)),
         c \notin F
  PROVE  Crowded(c, t)
<1>1. Cardinality(F) = PageLimit /\ PageLimit \in Nat
  BY CallLeadsAssumption DEF Pages
<1>2. F \in SUBSET CallsAfter(c, t)
  BY DEF Pages, Listed, CallsAfter
<1>3. Cardinality(F) <= Cardinality(CallsAfter(c, t))
  BY <1>2, CallsAfterFinite, FS_Subset
<1> QED BY <1>1, <1>3, CallsAfterFinite DEF Crowded

(* The Call Log forgets no call. *)
LEMMA LoggedStays ==
  ASSUME TypeOK, [Next]_vars, NEW c \in Calls, Logged(c)
  PROVE  call'[c].logged = call[c].logged /\ Logged(c)'
<1>1. now \in Int /\ call \in [Calls -> CallRows] /\ ~Appears(c)
  BY CallLeadsAssumption DEF TypeOK, Times, Appears
<1>2. ASSUME NEW d \in Calls, Appears(d)
      PROVE  call'[c].logged = call[c].logged
  BY <1>1, <1>2 DEF Appears
<1>3. ASSUME NEW d \in Calls, IsRewritten(d)
      PROVE  call'[c].logged = call[c].logged
  BY <1>1, <1>3 DEF IsRewritten, CallRows
<1> QED BY <1>2, <1>3, Frames DEF Logged

(* A record that is dated before the present was there already. *)
LEMMA LoggedBefore ==
  ASSUME TypeOK, [Next]_vars, NEW c \in Calls, Logged(c)', call'[c].logged < now
  PROVE  Logged(c) /\ call'[c].logged = call[c].logged
<1>1. now \in Int /\ call \in [Calls -> CallRows]
  BY CallLeadsAssumption DEF TypeOK, Times
<1>2. ~Appears(c)
  BY <1>1 DEF Appears, CallRows
<1>3. ASSUME NEW d \in Calls, Appears(d)
      PROVE  call'[c] = call[c]
  BY <1>1, <1>2, <1>3 DEF Appears
<1>4. ASSUME NEW d \in Calls, IsRewritten(d)
      PROVE  call'[c].logged = call[c].logged
  BY <1>1, <1>4 DEF IsRewritten, CallRows
<1> QED BY <1>3, <1>4, Frames DEF Logged

(* A call that is crowded out stays so. *)
LEMMA CrowdStays ==
  ASSUME TypeOK, [Next]_vars, NEW c \in Calls, NEW t \in Int, NEW u \in Int,
         t <= u, Crowded(c, t)
  PROVE  Crowded(c, u)'
<1>1. CallsAfter(c, t) \in SUBSET CallsAfter(c, u)'
  BY LoggedStays, CallLeadsAssumption DEF CallsAfter, Times
<1> DEFINE later == CallsAfter(c, u)'
<1>2. later \in SUBSET Calls
  BY DEF CallsAfter
<1> HIDE DEF later
<1>3. IsFiniteSet(later) /\ Cardinality(later) \in Nat
  BY <1>2, CallLeadsAssumption, FS_Subset, FS_CardinalityType
<1>4. Cardinality(CallsAfter(c, t)) <= Cardinality(later)
  BY <1>1, <1>3, FS_Subset DEF later
<1>5. Cardinality(CallsAfter(c, t)) \in Nat /\ PageLimit \in Nat
  BY CallsAfterFinite, CallLeadsAssumption
<1>6. Cardinality(later) >= PageLimit
  BY <1>3, <1>4, <1>5 DEF Crowded
<1> QED BY <1>6 DEF Crowded, later

(* What a run has read stays covered. *)
LEMMA CoverStays ==
  ASSUME IInv, RunsCover, [Next]_vars
  PROVE  RunsCover'
<1> SUFFICES ASSUME NEW r \in Runs, work'[r].pc \notin {"idle", "entered", "claimed"},
                    NEW c \in Calls, Logged(c)', call'[c].logged < work'[r].to,
                    work'[r].from <= Start[c], Start[c] <= work'[r].to
             PROVE  \/ Processed(c)'
                    \/ \E q \in work'[r].todo : q.call = c
                    \/ work'[r].pc \in {"classify", "create"} /\ CallOf(r)' = c
                    \/ Crowded(c, work[r].to)'
  BY DEF RunsCover, Covers
<1>1. /\ TypeOK /\ Dated /\ NothingMadeYet
      /\ r \in Workers /\ r \notin Hooks /\ Idle.pc = "idle"
  BY CallLeadsAssumption DEF IInv, Workers, Idle
<1>2. CASE Lists(r)
  <2>1. /\ call' = call
        /\ work'[r].from = work[r].from /\ work'[r].to = work[r].to
    BY <1>2 DEF Lists, Fetch
  <2>2. PICK F \in Pages(Listed(work[r].from, work[r].to)) :
          work'[r].todo = Read(r, F)
    BY <1>2 DEF Lists
  <2>3. c \in Listed(work[r].from, work[r].to)
    BY <2>1 DEF Listed, Logged
  <2>4. CASE c \in F
    <3> DEFINE q == [call |-> c, result |-> call[c].result, at |-> work[r].to]
    <3>1. q \in Read(r, F) /\ q.call = c
      BY <2>4 DEF Read
    <3> HIDE DEF q
    <3> QED BY <2>2, <3>1
  <2>5. CASE c \notin F
    <3>1. Crowded(c, work[r].to)
      BY <2>3, <2>5, PagesReachBack
    <3> QED BY <2>1, <3>1 DEF Crowded, CallsAfter, Logged
  <2> QED BY <2>4, <2>5
<1>3. CASE ~Lists(r)
  <2>1. \/ work'[r] = work[r] \/ Takes(r) \/ Classified(r) \/ Writes(r) \/ Through(r)
    BY <1>1, <1>3, WorkEvolves DEF Moved, Enters, Begins, Wakes
  <2>2. /\ work[r].pc \notin {"idle", "entered", "claimed"}
        /\ work'[r].from = work[r].from /\ work'[r].to = work[r].to
    BY <2>1 DEF Takes, Classified, Writes, Through, CreateLead, SameWindow, At
  <2>3. Logged(c) /\ call[c].logged < work[r].to
    <3>1. /\ now \in Int /\ work[r].to \in Int /\ work[r].to <= now
          /\ call'[c].logged \in Int
      BY <1>1, CallLeadsAssumption, Inductively
         DEF TypeOK, Times, Work, Dated, IInv, CallRows, Never
    <3> QED BY <1>1, <2>2, <3>1, LoggedBefore
  <2>4. \/ Processed(c) \/ \E q \in work[r].todo : q.call = c
        \/ work[r].pc \in {"classify", "create"} /\ CallOf(r) = c
        \/ Crowded(c, work[r].to)
    BY <2>2, <2>3 DEF RunsCover, Covers
  <2>5. CASE Processed(c)
    BY <1>1, <2>5, ProcessedStays
  <2>6. CASE \E q \in work[r].todo : q.call = c
    BY <2>1, <2>6
       DEF Takes, FirstLabel, Processed, CallOf, Classified, Writes, Through,
           SameWindow
  <2>7. CASE work[r].pc \in {"classify", "create"} /\ CallOf(r) = c
    <3>1. CreateLead(r) => Processed(c)'
      BY <1>1, <2>7, CallLeadsAssumption DEF CreateLead, TypeOK, Processed
    <3>2. Taken(c) => Processed(c)
      BY <1>1 DEF Taken, IsHere, NothingMadeYet
    <3>3. CASE work'[r] = work[r]
      BY <2>7, <3>3 DEF CallOf
    <3>4. CASE Classified(r)
      BY <2>7, <3>4 DEF Classified, CallOf
    <3>5. CASE Writes(r)
      BY <1>1, <2>7, <3>2, <3>5, ProcessedStays DEF Writes
    <3> QED BY <2>1, <2>7, <3>1, <3>3, <3>4, <3>5 DEF Takes, Through, At
  <2>8. CASE Crowded(c, work[r].to)
    <3>1. work[r].to \in Int
      BY <1>1, CallLeadsAssumption DEF TypeOK, Work, Times
    <3> QED BY <1>1, <2>2, <2>8, <3>1, CrowdStays DEF Crowded, CallsAfter, Logged
  <2> QED BY <2>4, <2>5, <2>6, <2>7, <2>8
<1> QED BY <1>2, <1>3

(* and the windows pass nothing. *)
LEMMA NothingIsPassed ==
  ASSUME IInv, RunsCover, NoCallIsPassed, [Next]_vars
  PROVE  NoCallIsPassed'
<1> SUFFICES ASSUME NEW c \in Calls, Logged(c)',
                    call'[c].logged < reached', Start[c] >= origin',
                    call'[c].logged - Start[c] <= Overlap
             PROVE  Processed(c)' \/ Crowded(c, reached)'
  BY DEF NoCallIsPassed, BeyondThePages, Crowded
<1>1. /\ TypeOK /\ Dated
      /\ now \in Int /\ cursor \in Int /\ reached \in Int /\ reached <= now
      /\ cursor <= reached /\ (cursor = Never <=> reached = Never)
      /\ Overlap \in Int /\ Rolling \in Int /\ call \in [Calls -> CallRows]
      /\ call[c].logged \in Int /\ Start[c] \in Int
  BY CallLeadsAssumption
     DEF IInv, TypeOK, Times, Never, Dated, CursorBehind, CallRows
<1>2. ASSUME NEW r \in Runs, Finish(r)
      PROVE  Processed(c) \/ Crowded(c, reached)'
  <2>1. /\ Held(r) /\ work[r].pc = "next" /\ work[r].todo = {} /\ call' = call
        /\ reached' = Later(reached, work[r].to)
        /\ origin' = IF cursor = Never THEN work[r].from ELSE origin
    BY <1>2 DEF Finish, At
  <2>2. Covers(r) /\ work[r].to \in Nat /\ work[r].from \in Int
    BY <1>1, <2>1, CallLeadsAssumption DEF RunsCover, TypeOK, Work, Workers, Times
  <2>3. Logged(c) /\ Start[c] <= call[c].logged /\ call[c].logged < reached'
    BY <1>1, <2>1 DEF Logged, Dated
  <2>4. ASSUME work[r].from <= Start[c], reached' = work[r].to
        PROVE  Processed(c) \/ Crowded(c, reached)'
    <3>1. Start[c] <= work[r].to /\ call[c].logged < work[r].to
      BY <1>1, <2>2, <2>3, <2>4
    <3>2. Processed(c) \/ Crowded(c, work[r].to)
      BY <1>1, <2>1, <2>2, <2>3, <2>4, <3>1 DEF Covers
    <3> QED BY <2>1, <2>4, <3>2 DEF Crowded, CallsAfter, Logged
  <2>5. CASE cursor = Never
    <3>1. reached' = work[r].to
      BY <1>1, <2>1, <2>2, <2>5 DEF Later, Never
    <3> QED BY <2>1, <2>4, <2>5, <3>1
  <2>6. CASE cursor # Never
    <3>1. work[r].from <= cursor - Overlap
      <4>1. work[r].from = WindowStart(work[r].to)
        BY <2>1 DEF IInv, HolderFollowsCursor
      <4> QED BY <1>1, <2>2, <2>6, <4>1 DEF WindowStart, Earlier
    <3>2. CASE call[c].logged < reached
      <4>1. Processed(c) \/ Crowded(c, reached)
        BY <2>1, <2>3, <2>6, <3>2 DEF NoCallIsPassed, BeyondThePages, Crowded
      <4>2. reached' \in Int /\ reached <= reached'
        BY <1>1, <2>1, <2>2 DEF Later
      <4>3. Crowded(c, reached) => Crowded(c, reached)'
        BY <1>1, <2>1, <4>2, CrowdStays DEF Crowded, CallsAfter, Logged
      <4> QED BY <4>1, <4>3
    <3>3. CASE ~(call[c].logged < reached)
      <4>1. reached' = work[r].to
        BY <1>1, <2>1, <2>2, <2>3, <3>3 DEF Later
      <4>2. work[r].from <= Start[c]
        BY <1>1, <2>1, <2>2, <3>1, <3>3
      <4> QED BY <2>4, <4>1, <4>2
    <3> QED BY <3>2, <3>3
  <2> QED BY <2>5, <2>6
<1>3. ASSUME ~\E r \in Runs : Finish(r)
      PROVE  Processed(c) \/ Crowded(c, reached)'
  <2>1. reached' = reached /\ origin' = origin
    BY <1>3, Frames
  <2>2. Logged(c) /\ call'[c].logged = call[c].logged
    <3>1. call'[c].logged \in Int
      BY Inductively, CallLeadsAssumption
         DEF IInv, TypeOK, CallRows, Times, Never
    <3>2. call'[c].logged < now
      BY <1>1, <2>1, <3>1
    <3> QED BY <1>1, <3>2, LoggedBefore
  <2>3. Processed(c) \/ Crowded(c, reached)
    BY <2>1, <2>2 DEF NoCallIsPassed, BeyondThePages, Crowded
  <2>4. Crowded(c, reached) => Crowded(c, reached)'
    BY <1>1, <2>1, CrowdStays DEF Crowded, CallsAfter, Logged
  <2> QED BY <2>3, <2>4
<1> QED BY <1>1, <1>2, <1>3, ProcessedStays

(* The sync passes no call whose record appeared within the overlap, whatever runs
   fail, are killed, finish late or claim with an old date, except the oldest of a
   window with more calls than a run can fetch: every window is joined to the
   cursor that it replaces by the overlap, the cursor is never ahead of what was
   reached, and what a run has read is in the ledger, on its list or in hand. *)
THEOREM CursorPassesNoCall == Spec => []NoCallIsPassed
<1>1. IInv /\ RunsCover /\ NoCallIsPassed /\ [Next]_vars
        => (RunsCover /\ NoCallIsPassed)'
  BY CoverStays, NothingIsPassed
<1> QED BY <1>1, Initially, InductiveInvariant, PTL DEF Spec

-----------------------------------------------------------------------------
(* CallLeads implements CallLedger. *)

(* A result that was read is one that the call has had. *)
WasShown(q) == Logged(q.call) /\ q.result <= call[q.call].result

ReadingsShown ==
  \A w \in Workers :
    /\ \A q \in work[w].todo : WasShown(q)
    /\ CallOf(w) \in Calls => WasShown(work[w].hand)

(* The same after a step. *)
WillBeShown(q) ==
  call'[q.call].logged # Never /\ q.result <= call'[q.call].result

(* What the Call Log has shown stays behind what it shows. *)
LEMMA ShownStays ==
  ASSUME TypeOK, [Next]_vars, NEW q \in Readings, WasShown(q)
  PROVE  WillBeShown(q)
<1>1. /\ q.call \in Calls /\ q.result \in Int
      /\ call \in [Calls -> CallRows] /\ call[q.call].result \in Int
  BY CallLeadsAssumption DEF TypeOK, Readings, Results, CallRows
<1>2. Logged(q.call)'
  BY <1>1, LoggedStays DEF WasShown
<1>3. ASSUME NEW c \in Calls, Appears(c) \/ IsRewritten(c)
      PROVE  /\ call'[q.call].result >= call[q.call].result
             /\ call'[q.call].result \in Int
  <2>1. CASE q.call = c
    BY <1>1, <1>3, <2>1 DEF Appears, IsRewritten, CallRows
  <2>2. CASE q.call # c
    BY <1>1, <1>3, <2>2 DEF Appears, IsRewritten
  <2> QED BY <2>1, <2>2
<1>4. /\ call'[q.call].result >= call[q.call].result
      /\ call'[q.call].result \in Int
  BY <1>1, <1>3, Frames
<1> QED BY <1>1, <1>2, <1>4 DEF WasShown, WillBeShown, Logged

(* Everything that is read was shown. *)
LEMMA ReadingsStayShown ==
  ASSUME TypeOK, ReadingsShown, [Next]_vars
  PROVE  ReadingsShown'
<1> SUFFICES ASSUME NEW w \in Workers
             PROVE  /\ \A q \in work'[w].todo : WillBeShown(q)
                    /\ work'[w].hand.call \in Calls => WillBeShown(work'[w].hand)
  BY DEF ReadingsShown, WasShown, WillBeShown, Logged, CallOf
<1>1. /\ work[w] \in Work /\ work[w].todo \subseteq Readings
      /\ CallOf(w) \in Calls => work[w].hand \in Readings
  BY CallLeadsAssumption DEF TypeOK, Work, CallOf, NoReading
<1>2. \A q \in work[w].todo : WillBeShown(q)
  BY <1>1, ShownStays DEF ReadingsShown
<1>3. CallOf(w) \in Calls => WillBeShown(work[w].hand)
  BY <1>1, ShownStays DEF ReadingsShown
<1>4. CASE work'[w] = work[w]
  BY <1>2, <1>3, <1>4 DEF CallOf
<1>5. CASE work'[w] = Idle
  BY <1>5, IdleIsTyped DEF Idle, CallOf
<1>6. CASE Enters(w) \/ Begins(w)
  BY <1>2, <1>3, <1>6 DEF Enters, Begins, CallOf
<1>7. CASE Lists(w)
  <2>1. PICK F \in Pages(Listed(work[w].from, work[w].to)) : work'[w].todo = Read(w, F)
    BY <1>7 DEF Lists
  <2>2. work'[w].hand = work[w].hand /\ call' = call
    BY <1>7 DEF Lists, Fetch
  <2>3. ASSUME NEW q \in Read(w, F) PROVE WillBeShown(q)
    <3>1. PICK c \in F : q = [call |-> c, result |-> call[c].result, at |-> work[w].to]
      BY DEF Read
    <3>2. c \in Calls /\ Logged(c) /\ call[c].result \in Int
      BY CallLeadsAssumption DEF Pages, Listed, TypeOK, CallRows, Results
    <3>3. q.call = c /\ q.result = call[c].result
      BY <3>1
    <3> QED BY <2>2, <3>2, <3>3 DEF WillBeShown, Logged
  <2> QED BY <1>3, <2>1, <2>2, <2>3 DEF CallOf
<1>8. CASE Takes(w)
  BY <1>2, <1>8 DEF Takes
<1>9. CASE Wakes(w)
  <2>1. PICK q \in Readings : /\ work'[w].hand = q /\ Logged(q.call) /\ SameWindow(w)
                              /\ q.result = call[q.call].result
    BY <1>9 DEF Wakes
  <2>2. q.result \in Int
    BY CallLeadsAssumption DEF Readings, Results
  <2>3. WillBeShown(q)
    BY <2>1, <2>2, ShownStays DEF WasShown
  <2> QED BY <1>2, <2>1, <2>3 DEF SameWindow
<1>10. CASE Classified(w) \/ Writes(w)
  BY <1>2, <1>3, <1>10 DEF Classified, Writes, SameWindow, CallOf
<1>11. CASE Through(w)
  BY <1>2, <1>11, CallLeadsAssumption DEF Through, SameWindow, CallOf, NoReading
<1> QED BY <1>4, <1>5, <1>6, <1>7, <1>8, <1>9, <1>10, <1>11, WorkEvolves DEF Moved

(* The ledger's view of the Call Log. *)
Log == [c \in Calls |-> IF Logged(c) THEN call[c].result ELSE -1]

(* A record that appears or is rewritten shows something new. *)
LEMMA LogShows ==
  ASSUME IInv, NEW c \in Calls, Appears(c) \/ IsRewritten(c)
  PROVE  Ledger!Show(c)
<1>1. /\ call \in [Calls -> CallRows] /\ call[c].result \in Int /\ call[c].result >= 0
      /\ now \in Int /\ now >= 0
  BY CallLeadsAssumption DEF IInv, TypeOK, CallRows, Results, Times
<1>2. /\ \A d \in Calls \ {c} : call'[d] = call[d]
      /\ Logged(c)' /\ call'[c].result \in Int
      /\ Logged(c) => call'[c].result > call[c].result
      /\ call'[c].result >= call[c].result
      /\ lead' = lead
  BY <1>1 DEF Appears, IsRewritten, Logged, Never, CallRows, serverVars, leadVars
<1>3. /\ Log'[c] > Log[c]
      /\ Log' = [Log EXCEPT ![c] = Log'[c]]
  <2>1. \A d \in Calls : Log[d] = IF Logged(d) THEN call[d].result ELSE -1
    BY DEF Log
  <2>2. \A d \in Calls : Log'[d] = IF Logged(d)' THEN call'[d].result ELSE -1
    BY DEF Log
  <2>3. \A d \in Calls \ {c} : Log'[d] = Log[d]
    BY <1>2, <2>1, <2>2 DEF Logged
  <2>4. Log'[c] > Log[c]
    BY <1>1, <1>2, <2>1, <2>2
  <2>5. Log = [d \in Calls |-> Log[d]] /\ Log' = [d \in Calls |-> Log'[d]]
    BY DEF Log
  <2> QED BY <2>3, <2>4, <2>5
<1> QED BY <1>2, <1>3 DEF Ledger!Show, Log

(* A worker that writes what it read of a call observes for the ledger. *)
LEMMA WriteIsObserve ==
  ASSUME TypeOK, ReadingsShown, NEW w \in Workers, work[w].pc \in Ingesting,
         NEW v \in Workers, NEW dup, lead[CallOf(w)][v].at < work[w].hand.at,
         lead' = [lead EXCEPT ![CallOf(w)][v] =
                    [st |-> "here", dup |-> dup, result |-> work[w].hand.result,
                     at |-> work[w].hand.at]],
         call' = call
  PROVE  Ledger!Observe(CallOf(w), v, dup)
<1> DEFINE c == CallOf(w)
           q == work[w].hand
           row == [st |-> "here", dup |-> dup, result |-> q.result, at |-> q.at]
<1>1. /\ c \in Calls /\ q \in Readings
      /\ lead \in [Calls -> [Workers -> LeadRows]]
  BY Worked DEF TypeOK
<1>2. q.result \in 0 .. Log[c]
  <2>1. q.result \in Nat /\ q.result <= call[c].result /\ Logged(c)
    BY <1>1, CallLeadsAssumption DEF ReadingsShown, WasShown, CallOf, Readings, Results
  <2>2. Log[c] = call[c].result /\ call[c].result \in Int
    BY <1>1, <2>1, CallLeadsAssumption DEF Log, TypeOK, CallRows, Results
  <2> QED BY <2>1, <2>2
<1>3. q.at > lead[c][v].at
  <2>1. q.at \in Int /\ lead[c][v].at \in Int
    BY <1>1, CallLeadsAssumption DEF Readings, LeadRows, Times, Never
  <2> QED BY <2>1
<1>4. lead'[c][v] = row
  BY <1>1
<1>5. row.result = q.result /\ row.at = q.at
  OBVIOUS
<1>6. lead' = [lead EXCEPT ![c][v] = [st |-> "here", dup |-> dup,
                 result |-> lead'[c][v].result, at |-> lead'[c][v].at]]
  BY <1>4, <1>5
<1>7. Log' = Log
  BY DEF Log, Logged
<1> HIDE DEF c, q, row
<1>8. Ledger!Observe(c, v, dup)
  BY <1>2, <1>3, <1>4, <1>5, <1>6, <1>7 DEF Ledger!Observe, Log
<1> QED BY <1>8 DEF c

(* A lead that is there, with a result, says the rest as before. *)
LEMMA WithResultRow ==
  ASSUME NEW row \in LeadRows, row.st = "here", NEW q
  PROVE  WithResult(row, q) = [st |-> "here", dup |-> row.dup,
                               result |-> q.result, at |-> q.at]
<1> DEFINE fields == {"st", "dup", "result", "at"}
           new == [row EXCEPT !.result = q.result, !.at = q.at]
           says == [st |-> "here", dup |-> row.dup, result |-> q.result, at |-> q.at]
<1>1. DOMAIN row = fields
  BY DEF LeadRows
<1>2. new = [f \in fields |-> new[f]] /\ says = [f \in fields |-> says[f]]
  BY <1>1
<1>3. /\ new["st"] = says["st"] /\ new["result"] = says["result"]
      /\ new["at"] = says["at"]
  BY <1>1
<1>4. new["dup"] = row["dup"] /\ says["dup"] = row["dup"]
  BY <1>1
<1> HIDE DEF new, says
<1>5. \A f \in fields : new[f] = says[f]
  BY <1>3, <1>4
<1> QED BY <1>2, <1>5 DEF new, says, WithResult

(* The transaction enters a lead of the call. *)
LEMMA CreateIsEnter ==
  ASSUME IInv, ReadingsShown, NEW w \in Workers, CreateLead(w)
  PROVE  \E c \in Calls, s \in Workers : Ledger!Enter(c, s)
<1> DEFINE c == CallOf(w)
<1>1. /\ c \in Calls /\ work[w].hand \in Readings /\ work[w] \in Work
      /\ work[w].pc = "create" /\ TypeOK /\ call' = call
  BY Worked DEF CreateLead, At, IInv, Ingesting
<1>2. lead[c][w].st = "none" /\ lead[c][w].at = -1 /\ work[w].hand.at \in Nat
  BY <1>1, CallLeadsAssumption
     DEF IInv, NothingMadeYet, NothingObservedYet, Never, Readings, Times
<1>3. Ledger!Observe(c, w, work[w].dup)
  <2>1. lead[CallOf(w)][w].at < work[w].hand.at
    BY <1>2
  <2>2. work[w].pc \in Ingesting
    BY <1>1 DEF Ingesting
  <2>3. lead' = [lead EXCEPT ![CallOf(w)][w] =
                   [st |-> "here", dup |-> work[w].dup,
                    result |-> work[w].hand.result, at |-> work[w].hand.at]]
    BY DEF CreateLead
  <2> HIDE DEF c
  <2>4. Ledger!Observe(CallOf(w), w, work[w].dup)
    BY <1>1, <2>1, <2>2, <2>3, WriteIsObserve
  <2> QED BY <2>4 DEF c
<1>4. c \in Identified => \A t \in Workers : ~Ledger!IsHere(c, t)
  BY DEF CreateLead, Taken, IsHere, Ledger!IsHere
<1>5. work[w].dup => Ledger!PaidBefore(c)
  BY <1>1 DEF IInv, RemembersRight, At, PaidBefore, Ledger!PaidBefore
<1>6. work[w].dup \in BOOLEAN
  BY <1>1 DEF Work
<1> HIDE DEF c
<1>7. Ledger!Enter(c, w)
  BY <1>2, <1>3, <1>4, <1>5, <1>6 DEF Ledger!Enter
<1> QED BY <1>1, <1>7

(* The command renews the result, or does nothing. *)
LEMMA PatchIsRenew ==
  ASSUME IInv, ReadingsShown, NEW w \in Workers, PatchLead(w)
  PROVE  lead' = lead \/ \E c \in Calls, s \in Workers : Ledger!Renew(c, s)
<1> DEFINE c == CallOf(w)
           v == work[w].id
           q == work[w].hand
<1>1. /\ c \in Calls /\ v \in Workers /\ work[w].pc = "patch" /\ TypeOK
      /\ call' = call /\ q \in Readings
  BY Worked DEF PatchLead, At, IInv, Ingesting
<1>2. CASE ~IsNewer(w)
  BY <1>2 DEF PatchLead
<1>3. CASE IsNewer(w)
  <2>1. lead[c][v] \in LeadRows /\ lead[c][v].st = "here"
    BY <1>1 DEF TypeOK, PatchLead, Unchanged, LeadOf
  <2>2. WithResult(lead[c][v], q) = [st |-> "here", dup |-> lead[c][v].dup,
                                     result |-> q.result, at |-> q.at]
    BY <2>1, WithResultRow
  <2>3. lead' = [lead EXCEPT ![c][v] = WithResult(lead[c][v], q)]
    BY <1>3 DEF PatchLead
  <2>4. lead[c][v].at < q.at
    BY <1>3 DEF IsNewer, LeadOf
  <2>5. Ledger!Observe(c, v, lead[c][v].dup)
    BY <1>1, <2>2, <2>3, <2>4, WriteIsObserve DEF Ingesting
  <2> HIDE DEF c, v, q
  <2>6. Ledger!Renew(c, v)
    BY <2>1, <2>5 DEF Ledger!Renew, Ledger!IsHere
  <2> QED BY <1>1, <2>6
<1> QED BY <1>2, <1>3

(* Every step is a step of the ledger. *)
LEMMA LedgerStep ==
  ASSUME IInv, ReadingsShown, [Next]_vars
  PROVE  [Ledger!Next]_(Ledger!vars)
<1>1. CASE UNCHANGED <<call, lead>>
  BY <1>1 DEF Ledger!vars, Logged
<1>2. ASSUME NEW c \in Calls, Appears(c) \/ IsRewritten(c)
      PROVE  Ledger!Next
  BY <1>2, LogShows DEF Ledger!Next
<1>3. ASSUME NEW w \in Workers, CreateLead(w)
      PROVE  Ledger!Next
  BY <1>3, CreateIsEnter DEF Ledger!Next
<1>4. ASSUME NEW w \in Workers, PatchLead(w)
      PROVE  Ledger!Next \/ UNCHANGED <<call, lead>>
  BY <1>4, PatchIsRenew DEF Ledger!Next, PatchLead
<1>5. ASSUME NEW c \in Calls, NEW v \in Workers, RemoveLead(c, v)
      PROVE  Ledger!Next
  <2>1. Ledger!Remove(c, v)
    BY <1>5 DEF RemoveLead, IsHere, Ledger!Remove, Ledger!IsHere, Logged
  <2> QED BY <2>1 DEF Ledger!Next
<1> QED BY <1>1, <1>2, <1>3, <1>4, <1>5, Frames

(* Whatever transports and runs ingest a call, race and repeat each other, and
   whatever is removed in between, the ledger's promise is kept: a lead is or is
   not a duplicate for good, and only behind one that was paid; it shows a result
   that the Call Log has shown for this very call, replaced only by one dated
   later; and a call whose session is known has one lead at a time. *)
THEOREM LedgerIsKept == Spec => KeepsTheLedger
<1>1. Init => ReadingsShown
  BY IdleIsTyped DEF Init, ReadingsShown, Idle, CallOf
<1>2. IInv /\ ReadingsShown /\ [Next]_vars => ReadingsShown'
  BY ReadingsStayShown DEF IInv
<1>3. Init => Ledger!Init
  BY DEF Init, Ledger!Init, Logged, NoLead, Never
<1>4. IInv /\ ReadingsShown /\ [Next]_vars => [Ledger!Next]_(Ledger!vars)
  BY LedgerStep
<1> QED BY <1>1, <1>2, <1>3, <1>4, InductiveInvariant, PTL
        DEF Spec, KeepsTheLedger, Ledger!Spec
=============================================================================
