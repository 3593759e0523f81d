-------------------------- MODULE SheetSyncProofs --------------------------
(* Theorems about SheetSync, for every number of documents, runs and jobs. *)
EXTENDS SheetSync, TLAPS

(* A job that may still fail has an attempt left. *)
Unexhausted ==
  \A j \in Jobs : job[j].status \in Active \cup {"processing"}
                    => job[j].attempts < MaxAttempts

WellKeyed(key) ==
  /\ key \in Keys
  /\ key.res = "booking_chain" =>
       key.id \in Bookings /\ LeadOf[key.id] \in Leads

(* Every inserted row names a document, and a chain names a booking that is
   attached to a lead. *)
JobsNamed == \A j \in Jobs : job[j].status # "free" => WellKeyed(job[j].key)

(* Which lists a run may have where: claims to plan only while it plans, and
   planned jobs only from planning to settling. *)
ListsMatchLabel ==
  \A r \in Runs :
    /\ \A j \in todo[r] \cup work[r] : job[j].status # "free"
    /\ pc[r] \notin {"plan", "failing"} => todo[r] = {}
    /\ pc[r] \in {"idle", "claim", "finish"} => work[r] = {}

IInv ==
  TypeOK /\ NoProcessingLeak /\ Unexhausted /\ JobsNamed /\ ListsMatchLabel

-----------------------------------------------------------------------------
(* The operators that write outbox rows. *)

(* buildCoalescingKey yields a key of the document's own kind. *)
LEMMA KeysAreWellFormed ==
  ASSUME NEW d \in Docs
  PROVE  /\ WellKeyed(UpsertKey(d))
         /\ WellKeyed(TombstoneKey(d))
BY SheetSyncAssumption
   DEF WellKeyed, UpsertKey, TombstoneKey, Keys, Resources, Tombstones, Docs

(* Enqueue leaves a row alone, refreshes an active one of the key, or makes it
   a new pending row of the key. *)
LEMMA EnqueueEffect ==
  ASSUME NEW js \in [Jobs -> JobRecords], NEW key \in Keys,
         NEW located \in BOOLEAN
  PROVE  /\ Enqueue(js, key, located) \in [Jobs -> JobRecords]
         /\ \A k \in Jobs :
              LET new == Enqueue(js, key, located)[k] IN
              \/ new = js[k]
              \/ /\ js[k].status \in Active
                 /\ new.status = js[k].status
                 /\ new.key = js[k].key
                 /\ new.attempts = js[k].attempts
              \/ /\ new.status = "pending"
                 /\ new.key = key
                 /\ new.attempts = 0
<1> DEFINE joined == CHOOSE i \in Jobs : Joins(js, key, i)
           added  == [FreeJob EXCEPT !.key = key, !.status = "pending",
                                     !.located = located]
<1>1. added \in JobRecords /\ added.status = "pending" /\ added.key = key
      /\ added.attempts = 0
  <2>1. FreeJob \in JobRecords /\ FreeJob.attempts = 0
    BY SheetSyncAssumption DEF FreeJob, JobRecords, Statuses, Active
  <2> QED BY <2>1 DEF JobRecords, Statuses, Active
<1>2. CASE \E j \in Jobs : Joins(js, key, j)
  <2>1. joined \in Jobs /\ Joins(js, key, joined)
    BY <1>2
  <2>2. Enqueue(js, key, located)
          = [js EXCEPT ![joined].hints = {}, ![joined].located = located]
    BY <1>2 DEF Enqueue
  <2> HIDE DEF joined
  <2>3. Enqueue(js, key, located) \in [Jobs -> JobRecords]
    BY <2>1, <2>2 DEF JobRecords
  <2> QED BY <2>1, <2>2, <2>3 DEF Joins, JobRecords
<1>3. CASE ~ \E j \in Jobs : Joins(js, key, j)
  <2>1. Enqueue(js, key, located) = [js EXCEPT ![NextFree(js)] = added]
    BY <1>3 DEF Enqueue
  <2> HIDE DEF added
  <2> QED BY <1>1, <2>1
<1> QED BY <1>2, <1>3

(* What a domain write does to a row: nothing, or the row is active or
   cancelled and has the key and the attempts of an active row, or new ones. *)
Refreshed(old, new) ==
  \/ new = old
  \/ /\ new.status \in Active \cup {"cancelled"}
     /\ \/ /\ old.status \in Active
           /\ new.key = old.key
           /\ new.attempts = old.attempts
        \/ WellKeyed(new.key) /\ new.attempts = 0

(* upsertActiveJob takes every outbox row along one of the edges Refreshed. *)
LEMMA EnqueueRefreshes ==
  ASSUME NEW js \in [Jobs -> JobRecords], NEW d \in Docs,
         NEW located \in BOOLEAN
  PROVE  /\ Enqueue(js, UpsertKey(d), located) \in [Jobs -> JobRecords]
         /\ \A k \in Jobs :
              Refreshed(js[k], Enqueue(js, UpsertKey(d), located)[k])
<1>1. WellKeyed(UpsertKey(d)) /\ UpsertKey(d) \in Keys
  BY KeysAreWellFormed DEF WellKeyed
<1>2. Enqueue(js, UpsertKey(d), located) \in [Jobs -> JobRecords]
  BY <1>1, EnqueueEffect
<1>3. ASSUME NEW k \in Jobs
      PROVE  Refreshed(js[k], Enqueue(js, UpsertKey(d), located)[k])
  BY <1>1, EnqueueEffect DEF Refreshed, Active
<1> QED BY <1>2, <1>3

(* So does enqueueSheetSyncTombstone, its cancellation included. *)
LEMMA TombstoneRefreshes ==
  ASSUME NEW js \in [Jobs -> JobRecords], NEW d \in Docs,
         NEW located \in BOOLEAN
  PROVE  /\ EnqueueTombstone(js, d, located) \in [Jobs -> JobRecords]
         /\ \A k \in Jobs :
              Refreshed(js[k], EnqueueTombstone(js, d, located)[k])
<1> DEFINE cancelled == [j \in Jobs |->
             IF Joins(js, SupersededKey(d), j)
             THEN [js[j] EXCEPT !.status = "cancelled"] ELSE js[j]]
<1>1. WellKeyed(TombstoneKey(d)) /\ TombstoneKey(d) \in Keys
  BY KeysAreWellFormed DEF WellKeyed
<1>2. cancelled \in [Jobs -> JobRecords]
  BY DEF JobRecords, Statuses
<1>3. \A k \in Jobs : Refreshed(js[k], cancelled[k])
  BY DEF Refreshed, Joins, JobRecords
<1>4. EnqueueTombstone(js, d, located)
        = Enqueue(cancelled, TombstoneKey(d), located)
  BY DEF EnqueueTombstone
<1> HIDE DEF cancelled
<1>5. Enqueue(cancelled, TombstoneKey(d), located) \in [Jobs -> JobRecords]
  BY <1>1, <1>2, EnqueueEffect
<1>6. ASSUME NEW k \in Jobs
      PROVE  Refreshed(js[k], Enqueue(cancelled, TombstoneKey(d), located)[k])
  BY <1>1, <1>2, <1>3, EnqueueEffect DEF Refreshed, Active
<1> QED BY <1>4, <1>5, <1>6

(* A write within its bound leaves a document a document. *)
LEMMA TouchedIsTyped ==
  ASSUME TypeOK, NEW d \in Docs, CanTouch(d)
  PROVE  Touched(d) \in DocRecords
<1>1. doc[d] \in DocRecords /\ doc[d].ver < MaxVersion
  BY DEF TypeOK, CanTouch
<1>2. doc[d].ver + 1 \in 0 .. MaxVersion
  BY <1>1, SheetSyncAssumption DEF DocRecords
<1> QED BY <1>1, <1>2 DEF Touched, DocRecords

(* The documents stay typed, the outbox is refreshed, the drain is untouched. *)
LEMMA DomainWriteEffect ==
  ASSUME TypeOK, DomainWrite
  PROVE  /\ doc' \in [Docs -> DocRecords]
         /\ job' \in [Jobs -> JobRecords]
         /\ \A k \in Jobs : Refreshed(job[k], job'[k])
         /\ UNCHANGED drainVars
<1>0. job \in [Jobs -> JobRecords] /\ doc \in [Docs -> DocRecords]
  BY DEF TypeOK
<1>1. ASSUME NEW d \in Docs
      PROVE  Removed(d) \in DocRecords
  BY <1>0 DEF Removed, DocRecords
<1>2. ASSUME NEW l \in Leads, WriteLead(l)
      PROVE  /\ doc' \in [Docs -> DocRecords]
             /\ job' \in [Jobs -> JobRecords]
             /\ \A k \in Jobs : Refreshed(job[k], job'[k])
             /\ UNCHANGED drainVars
  <2>1. l \in Docs
    BY DEF Docs
  <2>2. doc' \in [Docs -> DocRecords]
    BY <1>0, <1>2, <2>1, TouchedIsTyped DEF WriteLead
  <2>3. FALSE \in BOOLEAN
    OBVIOUS
  <2> QED BY <1>0, <1>2, <2>1, <2>2, <2>3, EnqueueRefreshes DEF WriteLead
<1>3. ASSUME NEW l \in Leads, DeleteLead(l)
      PROVE  /\ doc' \in [Docs -> DocRecords]
             /\ job' \in [Jobs -> JobRecords]
             /\ \A k \in Jobs : Refreshed(job[k], job'[k])
             /\ UNCHANGED drainVars
  <2>1. l \in Docs
    BY DEF Docs
  <2>2. doc' \in [Docs -> DocRecords]
    BY <1>0, <1>1, <1>3, <2>1 DEF DeleteLead
  <2>3. TRUE \in BOOLEAN
    OBVIOUS
  <2> QED BY <1>0, <1>3, <2>1, <2>2, <2>3, TombstoneRefreshes DEF DeleteLead
<1>4. ASSUME NEW b \in Bookings, WriteBooking(b)
      PROVE  /\ doc' \in [Docs -> DocRecords]
             /\ job' \in [Jobs -> JobRecords]
             /\ \A k \in Jobs : Refreshed(job[k], job'[k])
             /\ UNCHANGED drainVars
  <2>1. b \in Docs
    BY DEF Docs
  <2>2. ASSUME NEW d \in Docs, d \in {b, LeadOf[b]}
        PROVE  CanTouch(d)
    <3>1. CASE d = b
      BY <1>4, <3>1 DEF WriteBooking
    <3>2. CASE d = LeadOf[b]
      BY <1>4, <3>2, SheetSyncAssumption DEF WriteBooking, Docs
    <3> QED BY <2>2, <3>1, <3>2
  <2>3. doc' \in [Docs -> DocRecords]
    BY <1>0, <1>4, <2>2, TouchedIsTyped DEF WriteBooking
  <2>4. FALSE \in BOOLEAN
    OBVIOUS
  <2> QED BY <1>0, <1>4, <2>1, <2>3, <2>4, EnqueueRefreshes DEF WriteBooking
<1>5. ASSUME NEW b \in Bookings, DeleteBooking(b)
      PROVE  /\ doc' \in [Docs -> DocRecords]
             /\ job' \in [Jobs -> JobRecords]
             /\ \A k \in Jobs : Refreshed(job[k], job'[k])
             /\ UNCHANGED drainVars
  <2> DEFINE l == LeadOf[b]
             refreshed == IF l = None THEN job
                          ELSE Enqueue(job, UpsertKey(l), FALSE)
  <2>1. b \in Docs /\ (l = None \/ l \in Docs) /\ b # l
    BY SheetSyncAssumption DEF Docs
  <2>2. /\ refreshed \in [Jobs -> JobRecords]
        /\ \A k \in Jobs : Refreshed(job[k], refreshed[k])
    <3>1. FALSE \in BOOLEAN
      OBVIOUS
    <3> QED BY <1>0, <2>1, <3>1, EnqueueRefreshes DEF Refreshed
  <2>3. /\ job' = EnqueueTombstone(refreshed, b, doc[b].located)
        /\ doc[b].located \in BOOLEAN
    BY <1>0, <1>5, <2>1 DEF DeleteBooking, DocRecords
  <2>4. ASSUME NEW d \in Docs
        PROVE  doc'[d] \in DocRecords
    <3>1. CASE d = b
      <4>1. doc'[d] = Removed(d)
        BY <1>5, <2>1, <3>1 DEF DeleteBooking
      <4> QED BY <1>1, <4>1
    <3>2. CASE d # b /\ d = l
      <4>1. d # None
        BY SheetSyncAssumption DEF Docs
      <4>2. CanTouch(d)
        BY <1>5, <3>2, <4>1 DEF DeleteBooking
      <4>3. doc'[d] = Touched(d)
        BY <1>5, <3>2 DEF DeleteBooking
      <4> QED BY <4>2, <4>3, TouchedIsTyped
    <3>3. CASE d # b /\ d # l
      <4>1. doc'[d] = doc[d]
        BY <1>5, <3>3 DEF DeleteBooking
      <4> QED BY <1>0, <4>1
    <3> QED BY <3>1, <3>2, <3>3
  <2>5. doc' \in [Docs -> DocRecords]
    BY <1>5, <2>4 DEF DeleteBooking
  <2> HIDE DEF refreshed
  <2>6. /\ job' \in [Jobs -> JobRecords]
        /\ \A k \in Jobs : Refreshed(refreshed[k], job'[k])
    BY <2>1, <2>2, <2>3, TombstoneRefreshes
  <2>7. \A k \in Jobs : Refreshed(job[k], job'[k])
    BY <2>2, <2>6 DEF Refreshed, Active
  <2> QED BY <1>5, <2>5, <2>6, <2>7 DEF DeleteBooking
<1>6. ASSUME NEW l \in Leads, NEW b \in Bookings, CorrectLead(l, b)
      PROVE  /\ doc' \in [Docs -> DocRecords]
             /\ job' \in [Jobs -> JobRecords]
             /\ \A k \in Jobs : Refreshed(job[k], job'[k])
             /\ UNCHANGED drainVars
  <2>1. b \in Docs /\ FALSE \in BOOLEAN
    BY DEF Docs
  <2>2. doc' \in [Docs -> DocRecords]
    <3>1. PICK D \in {{l}, {l, b}} :
            /\ \A d \in D : CanTouch(d)
            /\ doc' = [d \in Docs |-> IF d \in D THEN Touched(d) ELSE doc[d]]
      BY <1>6 DEF CorrectLead
    <3> QED BY <1>0, <3>1, TouchedIsTyped
  <2> QED BY <1>0, <1>6, <2>1, <2>2, EnqueueRefreshes DEF CorrectLead
<1> QED BY <1>2, <1>3, <1>4, <1>5, <1>6 DEF DomainWrite

-----------------------------------------------------------------------------
(* The operators of a run. *)

(* planJobWrites yields writes, all of them for the planned job. *)
LEMMA PlannedWritesAreTyped ==
  ASSUME TypeOK, NEW j \in Jobs, WellKeyed(job[j].key)
  PROVE  PlannedWrites(j) \subseteq Writes
<1>1. ASSUME NEW d \in Docs
      PROVE  Upsert(j, d) \in Writes /\ Delete(j, d) \in Writes
  BY SheetSyncAssumption DEF TypeOK, DocRecords, Upsert, Delete, Writes
<1>2. /\ job[j].key.id \in Docs
      /\ job[j].key.res = "booking_chain" => LeadOf[job[j].key.id] \in Docs
  BY DEF WellKeyed, Keys, Docs
<1>3. job[j].key.res \in Resources
  BY DEF WellKeyed, Keys
<1> QED BY <1>1, <1>2, <1>3 DEF PlannedWrites, Resources, Tombstones

(* Recording the outcome of a group of writes yields writes. *)
LEMMA OutcomeIsTyped ==
  ASSUME NEW P \in SUBSET Writes, NEW G \in SUBSET Writes,
         NEW st \in {"planned", "synced", "failed", "deferred"}
  PROVE  Outcome(P, G, st) \in SUBSET Writes
BY DEF Outcome, Writes

(* Deferring what was not sent yields writes. *)
LEMMA StoppedIsTyped ==
  ASSUME NEW P \in SUBSET Writes
  PROVE  Stopped(P) \in SUBSET Writes
BY DEF Stopped, Writes

(* After a batch a run writes on or persists, with typed writes. *)
LEMMA AfterWritesIsTyped ==
  ASSUME TypeOK, NEW r \in Runs, NEW P \in SUBSET Writes, AfterWrites(r, P)
  PROVE  /\ plan' \in [Runs -> SUBSET Writes]
         /\ pc' \in [Runs -> Labels]
         /\ pc' = [pc EXCEPT ![r] = pc'[r]]
         /\ pc'[r] \in {"persist", "write"}
BY DEF TypeOK, AfterWrites, Goto, Labels

(* The writes that one request carries are writes of the run's plan. *)
LEMMA GroupIsTyped ==
  ASSUME TypeOK, NEW r \in Runs, NEW d, NEW op
  PROVE  Group(r, d, op) \in SUBSET Writes
BY DEF TypeOK, Group, Unsent

(* What the three settlements make of a job that is being processed. *)
LEMMA SettlementIsTyped ==
  ASSUME TypeOK, Unexhausted, NEW j \in Jobs, job[j].status = "processing",
         NEW targets \in SUBSET Docs,
         NEW new \in {Synced(j), Deferred(j, targets), Failure(j, targets)}
  PROVE  /\ new \in JobRecords
         /\ new.status \in {"synced", "retrying", "failed"}
         /\ new.key = job[j].key
         /\ new.status = "retrying" => new.attempts < MaxAttempts
<1>1. /\ job[j] \in JobRecords /\ job[j].attempts < MaxAttempts
      /\ job[j].attempts \in Nat
  BY SheetSyncAssumption DEF TypeOK, Unexhausted, JobRecords
<1>2. job[j].attempts + 1 \in 0 .. MaxAttempts
  BY <1>1, SheetSyncAssumption
<1>3. CASE new = Synced(j)
  BY <1>1, <1>3 DEF Synced, JobRecords, Statuses
<1>4. CASE new = Deferred(j, targets)
  BY <1>1, <1>4 DEF Deferred, JobRecords, Statuses, Active
<1>5. CASE new = Failure(j, targets)
  <2> DEFINE attempts == job[j].attempts + 1
  <2>1. CASE attempts >= MaxAttempts
    <3>1. new = [job[j] EXCEPT !.status = "failed", !.attempts = attempts,
                               !.live = FALSE, !.hints = {}]
      BY <1>5, <2>1 DEF Failure
    <3> QED BY <1>1, <1>2, <3>1 DEF JobRecords, Statuses, Active
  <2>2. CASE ~(attempts >= MaxAttempts)
    <3>1. new = [job[j] EXCEPT !.status = "retrying", !.attempts = attempts,
                               !.live = FALSE, !.hints = targets]
      BY <1>5, <2>2 DEF Failure
    <3>2. attempts < MaxAttempts
      BY <1>1, <2>2, SheetSyncAssumption
    <3> QED BY <1>1, <1>2, <3>1, <3>2 DEF JobRecords, Statuses, Active
  <2> QED BY <2>1, <2>2
<1> QED BY <1>3, <1>4, <1>5

-----------------------------------------------------------------------------
(* Every step preserves the types. *)

(* The edits of an outbox row that keep its key and its attempts, or reset
   them. *)
LEMMA RowEditsAreTyped ==
  ASSUME NEW old \in JobRecords, NEW r \in Runs \cup {None, Lost},
         NEW st \in Statuses
  PROVE  /\ [old EXCEPT !.status = st, !.run = r, !.live = TRUE] \in JobRecords
         /\ [old EXCEPT !.status = st, !.live = FALSE] \in JobRecords
         /\ [old EXCEPT !.run = r] \in JobRecords
         /\ [old EXCEPT !.live = FALSE] \in JobRecords
         /\ [old EXCEPT !.status = st, !.attempts = 0, !.run = None,
                        !.live = FALSE] \in JobRecords
<1>1. 0 \in 0 .. MaxAttempts
  BY SheetSyncAssumption
<1> QED BY <1>1 DEF JobRecords

(* Every step of the system keeps the types: one step per action. *)
LEMMA TypeStep ==
  ASSUME IInv, [Next]_vars
  PROVE  TypeOK'
<1> USE SheetSyncAssumption DEF IInv
<1>0. /\ job \in [Jobs -> JobRecords]
      /\ {"processing", "retrying", "pending"} \subseteq Statuses
  BY DEF TypeOK, Statuses, Active
<1>1. CASE DomainWrite
  BY <1>1, DomainWriteEffect DEF TypeOK, drainVars
<1>2. ASSUME NEW r \in Runs, Start(r)
      PROVE  TypeOK'
  BY <1>2 DEF TypeOK, Start, Goto, Labels, domainVars
<1>3. ASSUME NEW r \in Runs, Claim(r)
      PROVE  TypeOK'
  <2>1. job' \in [Jobs -> JobRecords]
    <3>1. PICK S : job' = [j \in Jobs |->
                             IF j \in S
                             THEN [job[j] EXCEPT !.status = "processing",
                                                 !.run = r, !.live = TRUE]
                             ELSE job[j]]
      BY <1>3 DEF Claim
    <3> QED BY <1>0, <3>1, RowEditsAreTyped
  <2>2. todo' \in [Runs -> SUBSET Jobs]
    <3>1. Claimable \subseteq Jobs /\ todo \in [Runs -> SUBSET Jobs]
      BY DEF Claimable, TypeOK
    <3>2. PICK S \in SUBSET Claimable : todo' = [todo EXCEPT ![r] = S]
      BY <1>3 DEF Claim
    <3> QED BY <3>1, <3>2
  <2>3. pc' \in [Runs -> Labels]
    BY <1>3 DEF TypeOK, Claim, Goto, Labels
  <2> QED BY <1>3, <2>1, <2>2, <2>3 DEF TypeOK, Claim, domainVars
<1>4. ASSUME NEW r \in Runs, Check(r)
      PROVE  TypeOK'
  <2>1. pc' \in [Runs -> Labels] /\ ok' \in [Runs -> BOOLEAN]
    BY <1>4 DEF TypeOK, Check, Goto, Labels
  <2>2. plan' \in [Runs -> SUBSET Writes]
    BY <1>4, StoppedIsTyped DEF TypeOK, Check
  <2> QED BY <1>4, <2>1, <2>2 DEF TypeOK, Check, domainVars
<1>5. ASSUME NEW r \in Runs, NEW j \in Jobs, PlanJob(r, j)
      PROVE  TypeOK'
  <2>1. WellKeyed(job[j].key)
    BY <1>5 DEF PlanJob, IsNext, ListsMatchLabel, JobsNamed
  <2>2. PlannedWrites(j) \subseteq Writes
    BY <2>1, PlannedWritesAreTyped
  <2> QED BY <1>5, <2>2 DEF TypeOK, PlanJob, Uncheck, domainVars
<1>6. ASSUME NEW r \in Runs, NEW j \in Jobs, PlanFails(r, j)
      PROVE  TypeOK'
  <2>1. job' \in [Jobs -> JobRecords] /\ pc' \in [Runs -> Labels]
    BY <1>6, SettlementIsTyped
       DEF TypeOK, PlanFails, Settle, Owns, Goto, Labels
  <2>2. spent' \in 0 .. MaxDisruptions
    BY <1>6 DEF TypeOK, PlanFails, Spend
  <2> QED BY <1>6, <2>1, <2>2 DEF TypeOK, PlanFails, Uncheck, domainVars
<1>7. ASSUME NEW r \in Runs, OutOfTime(r)
      PROVE  TypeOK'
  <2>1. job' \in [Jobs -> JobRecords]
    <3>1. CASE job' = job
      BY <1>0, <3>1
    <3>2. CASE job' # job
      <4>1. job' = [j \in Jobs |->
                     IF j \in todo[r]
                     THEN [job[j] EXCEPT !.status = "pending", !.live = FALSE]
                     ELSE job[j]]
        BY <1>7, <3>2 DEF OutOfTime
      <4> QED BY <1>0, <4>1, RowEditsAreTyped
    <3> QED BY <3>1, <3>2
  <2>2. pc' \in [Runs -> Labels] /\ todo' \in [Runs -> SUBSET Jobs]
    <3>1. /\ pc' \in {pc, [pc EXCEPT ![r] = "failing"],
                      [pc EXCEPT ![r] = "persist"]}
          /\ todo' \in {todo, [todo EXCEPT ![r] = {}]}
      BY <1>7 DEF OutOfTime, Goto
    <3> QED BY <3>1 DEF TypeOK, Labels
  <2>3. plan' \in [Runs -> SUBSET Writes]
    BY <1>7, StoppedIsTyped DEF TypeOK, OutOfTime
  <2>4. spent' \in 0 .. MaxDisruptions /\ ok' \in [Runs -> BOOLEAN]
    <3>1. /\ spent < MaxDisruptions /\ spent' = spent + 1
          /\ ok' = [ok EXCEPT ![r] = FALSE]
      BY <1>7 DEF OutOfTime, Spend, Uncheck
    <3> QED BY <3>1 DEF TypeOK
  <2> QED BY <1>7, <2>1, <2>2, <2>3, <2>4 DEF TypeOK, OutOfTime, domainVars
<1>8. ASSUME NEW r \in Runs, BeginWrite(r)
      PROVE  TypeOK'
  <2>1. plan' \in [Runs -> SUBSET Writes] /\ pc' \in [Runs -> Labels]
    BY <1>8, AfterWritesIsTyped DEF TypeOK, BeginWrite, Goto, Labels
  <2> QED BY <1>8, <2>1 DEF TypeOK, BeginWrite, Uncheck, domainVars
<1>9. ASSUME NEW r \in Runs, NEW d \in Docs, NEW op \in {"upsert", "delete"},
             SkipRequest(r, d, op)
      PROVE  TypeOK'
  <2>1. PICK st \in {"failed", "synced"} :
          AfterWrites(r, Outcome(plan[r], Group(r, d, op), st))
    BY <1>9 DEF SkipRequest
  <2>2. plan' \in [Runs -> SUBSET Writes] /\ pc' \in [Runs -> Labels]
    <3>1. Outcome(plan[r], Group(r, d, op), st) \in SUBSET Writes
      BY GroupIsTyped, OutcomeIsTyped DEF TypeOK
    <3> QED BY <2>1, <3>1, AfterWritesIsTyped
  <2> QED BY <1>9, <2>2 DEF TypeOK, SkipRequest, Uncheck, domainVars
<1>10. ASSUME NEW r \in Runs, NEW d \in Docs, NEW op \in {"upsert", "delete"},
              QuotaDenied(r, d, op)
       PROVE  TypeOK'
  <2>1. plan' \in [Runs -> SUBSET Writes] /\ pc' \in [Runs -> Labels]
    <3>1. Outcome(plan[r], Group(r, d, op), "deferred") \in SUBSET Writes
      BY GroupIsTyped, OutcomeIsTyped DEF TypeOK
    <3> QED BY <1>10, <3>1, AfterWritesIsTyped DEF QuotaDenied
  <2>2. spent' \in 0 .. MaxDisruptions
    BY <1>10 DEF TypeOK, QuotaDenied, Spend
  <2> QED BY <1>10, <2>1, <2>2 DEF TypeOK, QuotaDenied, Uncheck, domainVars
<1>11. ASSUME NEW r \in Runs, NEW d \in Docs, NEW op \in {"upsert", "delete"},
              Send(r, d, op)
       PROVE  TypeOK'
  <2>1. wire' \subseteq Requests
    <3>1. PICK w \in Group(r, d, op) :
            wire' = wire \cup
              {[run |-> r, doc |-> d, op |-> op, ver |-> w.ver,
                structural |-> op = "delete" \/ row[d] = 0,
                landed |-> FALSE, n |-> 0]}
      BY <1>11 DEF Send
    <3>2. w.ver \in 0 .. MaxVersion
      BY GroupIsTyped DEF Writes
    <3>3. (op = "delete" \/ row[d] = 0) \in BOOLEAN
      OBVIOUS
    <3>4. 0 \in 0 .. MaxDisruptions
      OBVIOUS
    <3>5. [run |-> r, doc |-> d, op |-> op, ver |-> w.ver,
           structural |-> op = "delete" \/ row[d] = 0,
           landed |-> FALSE, n |-> 0] \in Requests
      BY <3>2, <3>3, <3>4 DEF Requests
    <3> QED BY <3>1, <3>5 DEF TypeOK
  <2>2. pc' \in [Runs -> Labels] /\ ok' \in [Runs -> BOOLEAN]
    BY <1>11 DEF TypeOK, Send, Goto, Uncheck, Labels
  <2> QED BY <1>11, <2>1, <2>2 DEF TypeOK, Send
<1>12. ASSUME NEW q \in wire, Land(q)
       PROVE  TypeOK'
  <2>1. q \in Requests /\ [q EXCEPT !.landed = TRUE] \in Requests
    BY DEF TypeOK, Requests
  <2>2. wire' \subseteq Requests
    BY <1>12, <2>1 DEF TypeOK, Land
  <2>3. row' \in [Docs -> 0 .. MaxVersion]
    BY <1>12, <2>1 DEF TypeOK, Land, Requests
  <2>4. stray' \in [Docs -> BOOLEAN]
    BY <1>12 DEF TypeOK, Land
  <2> QED BY <1>12, <2>2, <2>3, <2>4 DEF TypeOK, Land
<1>13. ASSUME NEW r \in Runs, NEW q \in wire, Answer(r, q)
       PROVE  TypeOK'
  <2>1. plan' \in [Runs -> SUBSET Writes] /\ pc' \in [Runs -> Labels]
    <3>1. Outcome(plan[r], Group(r, q.doc, q.op), "synced") \in SUBSET Writes
      BY GroupIsTyped, OutcomeIsTyped DEF TypeOK
    <3> QED BY <1>13, <3>1, AfterWritesIsTyped DEF Answer, Answered
  <2> QED BY <1>13, <2>1 DEF TypeOK, Answer
<1>14. ASSUME NEW r \in Runs, NEW q \in wire, Reject(r, q)
       PROVE  TypeOK'
  <2>1. plan' \in [Runs -> SUBSET Writes] /\ pc' \in [Runs -> Labels]
    <3>1. Outcome(plan[r], Group(r, q.doc, q.op), "failed") \in SUBSET Writes
      BY GroupIsTyped, OutcomeIsTyped DEF TypeOK
    <3> QED BY <1>14, <3>1, AfterWritesIsTyped DEF Reject, Answered
  <2>2. spent' \in 0 .. MaxDisruptions
    BY <1>14 DEF TypeOK, Reject, Spend
  <2> QED BY <1>14, <2>1, <2>2 DEF TypeOK, Reject
<1>15. \A q \in wire : Abandon(q) \subseteq Requests
  BY DEF TypeOK, Abandon, Requests
<1>16. ASSUME NEW r \in Runs, NEW q \in wire, Unconfirmed(r, q)
       PROVE  TypeOK'
  <2>1. plan' \in [Runs -> SUBSET Writes] /\ pc' \in [Runs -> Labels]
    <3>1. Outcome(plan[r], Group(r, q.doc, q.op), "failed") \in SUBSET Writes
      BY GroupIsTyped, OutcomeIsTyped DEF TypeOK
    <3>2. Stopped(plan[r]) \in SUBSET Writes
      BY StoppedIsTyped DEF TypeOK
    <3> QED BY <1>16, <3>1, <3>2, AfterWritesIsTyped DEF Unconfirmed, Answered
  <2>2. spent' \in 0 .. MaxDisruptions
    BY <1>16 DEF TypeOK, Unconfirmed, Spend
  <2>3. wire' \subseteq Requests
    BY <1>15, <1>16 DEF TypeOK, Unconfirmed
  <2> QED BY <1>16, <2>1, <2>2, <2>3 DEF TypeOK, Unconfirmed
<1>17. ASSUME NEW r \in Runs, Persist(r)
       PROVE  TypeOK'
  <2>1. doc' \in [Docs -> DocRecords]
    <3>1. doc \in [Docs -> DocRecords]
      BY DEF TypeOK
    <3>2. ASSUME NEW d \in Docs
          PROVE  [doc[d] EXCEPT !.located = TRUE] \in DocRecords
      BY <3>1 DEF DocRecords
    <3>3. PICK S : doc' = [d \in Docs |-> IF d \in S
                                          THEN [doc[d] EXCEPT !.located = TRUE]
                                          ELSE doc[d]]
      BY <1>17 DEF Persist
    <3> QED BY <3>1, <3>2, <3>3
  <2>2. plan' \in [Runs -> SUBSET Writes]
    <3>1. PICK lost \in SUBSET {w.doc : w \in {u \in plan[r] : u.op = "upsert"}} :
          plan' = [plan EXCEPT ![r] =
            {[w EXCEPT !.st = IF w.doc \in lost /\ w.op = "upsert"
                                 /\ @ = "synced" THEN "failed" ELSE @]
               : w \in plan[r]}]
      BY <1>17 DEF Persist
    <3>2. ASSUME NEW w \in plan[r]
          PROVE  [w EXCEPT !.st = IF w.doc \in lost /\ w.op = "upsert"
                                     /\ @ = "synced" THEN "failed" ELSE @]
                   \in Writes
      BY DEF TypeOK, Writes
    <3> QED BY <3>1, <3>2 DEF TypeOK
  <2>3. spent' \in 0 .. MaxDisruptions
    BY <1>17 DEF TypeOK, Persist, Spend
  <2>4. pc' \in [Runs -> Labels] /\ ok' \in [Runs -> BOOLEAN]
    BY <1>17 DEF TypeOK, Persist, Goto, Uncheck, Labels
  <2> QED BY <1>17, <2>1, <2>2, <2>3, <2>4 DEF TypeOK, Persist
<1>18. ASSUME NEW r \in Runs, NEW j \in Jobs, SettleJob(r, j)
       PROVE  TypeOK'
  <2>1. RetryTargets(Outcomes(r, j)) \in SUBSET Docs
    BY DEF TypeOK, RetryTargets, Outcomes, Writes
  <2>2. job' \in [Jobs -> JobRecords] /\ pc' \in [Runs -> Labels]
    BY <1>18, <2>1, SettlementIsTyped
       DEF TypeOK, SettleJob, Settle, Owns, Goto, Labels
  <2> QED BY <1>18, <2>2 DEF TypeOK, SettleJob, Uncheck, domainVars
<1>19. ASSUME NEW r \in Runs, AllSettled(r)
       PROVE  TypeOK'
  BY <1>19 DEF TypeOK, AllSettled, Goto, Uncheck, Labels, domainVars
<1>20. ASSUME NEW r \in Runs, Forget(r)
       PROVE  /\ todo' \in [Runs -> SUBSET Jobs]
              /\ work' \in [Runs -> SUBSET Jobs]
              /\ plan' \in [Runs -> SUBSET Writes]
              /\ ok' \in [Runs -> BOOLEAN]
              /\ pc' \in [Runs -> Labels]
  BY <1>20 DEF TypeOK, Forget, Goto, Uncheck, Labels
<1>21. ASSUME NEW r \in Runs, Finish(r)
       PROVE  TypeOK'
  BY <1>20, <1>21 DEF TypeOK, Finish, Released, domainVars
<1>22. ASSUME NEW r \in Runs, Abort(r)
       PROVE  TypeOK'
  <2>1. job' \in [Jobs -> JobRecords]
    BY <1>0, <1>22, RowEditsAreTyped DEF Abort, ReleasedClaims
  <2> QED BY <1>20, <1>22, <2>1 DEF TypeOK, Abort, Released, domainVars
<1>23. ASSUME NEW r \in Runs, Crash(r)
       PROVE  TypeOK'
  <2>1. job' \in [Jobs -> JobRecords]
    BY <1>0, <1>23, RowEditsAreTyped DEF Crash
  <2>2. wire' \subseteq Requests
    BY <1>15, <1>23 DEF TypeOK, Crash
  <2>3. lease' \in [owner : Runs \cup {None, Lost}, live : BOOLEAN]
    BY <1>23 DEF TypeOK, Crash
  <2>4. spent' \in 0 .. MaxDisruptions
    BY <1>23 DEF TypeOK, Crash, Spend
  <2> QED BY <1>20, <1>23, <2>1, <2>2, <2>3, <2>4 DEF TypeOK, Crash
<1>24. CASE ExpireLost
  <2>1. job' \in [Jobs -> JobRecords]
    BY <1>0, <1>24, RowEditsAreTyped DEF ExpireLost
  <2> QED BY <1>24, <2>1 DEF TypeOK, ExpireLost, domainVars
<1>25. ASSUME NEW r \in Runs, Stall(r)
       PROVE  TypeOK'
  <2>1. job' \in [Jobs -> JobRecords]
    <3>1. CASE UNCHANGED job
      BY <1>0, <3>1
    <3>2. CASE job' = [j \in Jobs |-> IF j \in Claims(r)
                                     THEN [job[j] EXCEPT !.live = FALSE]
                                     ELSE job[j]]
      BY <1>0, <3>2, RowEditsAreTyped
    <3> QED BY <1>25, <3>1, <3>2 DEF Stall
  <2>2. spent' \in 0 .. MaxDisruptions
    BY <1>25 DEF TypeOK, Stall, Spend
  <2>3. lease' \in [owner : Runs \cup {None, Lost}, live : BOOLEAN]
    BY <1>25 DEF TypeOK, Stall
  <2> QED BY <1>25, <2>1, <2>2, <2>3 DEF TypeOK, Stall, domainVars
<1>26. CASE RaiseFence \/ LowerFence
  <2>1. spent' \in 0 .. MaxDisruptions
    BY <1>26 DEF TypeOK, RaiseFence, LowerFence, Spend
  <2>2. fence' \in BOOLEAN
    BY <1>26 DEF RaiseFence, LowerFence
  <2> QED BY <1>26, <2>1, <2>2 DEF TypeOK, RaiseFence, LowerFence
<1>27. ASSUME NEW j \in Jobs, AdminRetry(j)
       PROVE  TypeOK'
  <2>1. job' \in [Jobs -> JobRecords]
    <3>1. job' = [job EXCEPT ![j] =
                    [job[j] EXCEPT !.status = "pending", !.attempts = 0,
                                   !.run = None, !.live = FALSE]]
      BY <1>0, <1>27 DEF AdminRetry
    <3> QED BY <1>0, <3>1, RowEditsAreTyped
  <2> QED BY <1>27, <2>1 DEF TypeOK, AdminRetry, Spend, domainVars
<1>28. CASE UNCHANGED vars
  BY <1>28 DEF TypeOK, vars
<1> QED
  BY <1>1, <1>2, <1>3, <1>4, <1>5, <1>6, <1>7, <1>8, <1>9, <1>10, <1>11,
     <1>12, <1>13, <1>14, <1>16, <1>17, <1>18, <1>19, <1>21, <1>22, <1>23,
     <1>24, <1>25, <1>26, <1>27, <1>28
  DEF Next, RunStep, Disturb

-----------------------------------------------------------------------------
(* Every step preserves the rest of the invariant. *)

ClaimsInv == NoProcessingLeak /\ Unexhausted /\ JobsNamed /\ ListsMatchLabel

(* A domain write refreshes outbox rows and claims none, so the claims and the
   lists of every run stay accounted for. *)
LEMMA DomainWriteKeepsClaims ==
  ASSUME IInv, DomainWrite
  PROVE  ClaimsInv'
<1> USE SheetSyncAssumption DEF IInv
<1>1. /\ \A k \in Jobs : Refreshed(job[k], job'[k])
      /\ pc' = pc /\ todo' = todo /\ work' = work
  BY DomainWriteEffect DEF drainVars
<1>2. NoProcessingLeak'
  BY <1>1 DEF NoProcessingLeak, Refreshed, Active
<1>3. Unexhausted' /\ JobsNamed'
  BY <1>1 DEF Unexhausted, JobsNamed, Refreshed, Active
<1>4. ListsMatchLabel'
  <2>1. \A k \in Jobs : job[k].status # "free" => job'[k].status # "free"
    BY <1>1 DEF Refreshed, Active
  <2>2. \A r \in Runs : todo[r] \subseteq Jobs /\ work[r] \subseteq Jobs
    BY DEF TypeOK
  <2> QED BY <1>1, <2>1, <2>2 DEF ListsMatchLabel
<1> QED BY <1>2, <1>3, <1>4 DEF ClaimsInv

(* Steps that leave the outbox and the lists alone, and move no run to where
   its lists must be empty. *)
LEMMA UntouchedClaims ==
  ASSUME IInv, UNCHANGED <<job, todo, work>>,
         \A r \in Runs : \/ pc'[r] = pc[r]
                         \/ /\ pc'[r] \in {"write", "await", "persist",
                                           "settle"}
                            /\ pc[r] # "failing" /\ todo[r] = {}
                         \/ pc'[r] = "failing"
                         \/ pc[r] = "idle" /\ pc'[r] = "claim"
                         \/ /\ pc[r] = "settle" /\ pc'[r] = "finish"
                            /\ work[r] = {}
  PROVE  ClaimsInv'
<1> USE DEF IInv
<1>1. NoProcessingLeak'
  BY DEF NoProcessingLeak
<1>2. Unexhausted' /\ JobsNamed'
  BY DEF Unexhausted, JobsNamed
<1>3. ASSUME NEW r \in Runs
      PROVE  /\ \A j \in todo[r] \cup work[r] : job[j].status # "free"
             /\ pc'[r] \notin {"plan", "failing"} => todo[r] = {}
             /\ pc'[r] \in {"idle", "claim", "finish"} => work[r] = {}
  BY DEF ListsMatchLabel
<1>4. ListsMatchLabel'
  BY <1>3 DEF ListsMatchLabel
<1> QED BY <1>1, <1>2, <1>4 DEF ClaimsInv

(* A settlement, or its failure, of a job that leaves the lists of its run. *)
LEMMA SettledClaims ==
  ASSUME IInv, NEW r \in Runs, NEW j \in Jobs, NEW targets \in SUBSET Docs,
         NEW new \in {Synced(j), Deferred(j, targets), Failure(j, targets)},
         pc[r] \in {"plan", "settle"}, Settle(r, j, new),
         \/ /\ todo' = [todo EXCEPT ![r] = @ \ {j}]
            /\ UNCHANGED work
         \/ /\ work' = [work EXCEPT ![r] = @ \ {j}]
            /\ UNCHANGED todo
  PROVE  ClaimsInv'
<1> USE DEF IInv
<1>1. CASE Owns(r, j)
  <2>1. /\ job' = [job EXCEPT ![j] = new] /\ UNCHANGED pc
        /\ job[j].status = "processing" /\ job[j].run = r
    BY <1>1 DEF Settle, Owns
  <2>2. /\ new.status \in {"synced", "retrying", "failed"}
        /\ new.key = job[j].key
        /\ new.status = "retrying" => new.attempts < MaxAttempts
    BY <2>1, SettlementIsTyped
  <2>3. /\ \A k \in Jobs \ {j} : job'[k] = job[k]
        /\ job'[j] = new
    BY <2>1 DEF TypeOK
  <2>4. NoProcessingLeak'
    BY <2>1, <2>2, <2>3 DEF NoProcessingLeak, TypeOK
  <2>5. Unexhausted' /\ JobsNamed'
    BY <2>1, <2>2, <2>3 DEF Unexhausted, JobsNamed, Active
  <2>6. ListsMatchLabel'
    BY <2>1, <2>2, <2>3 DEF ListsMatchLabel, TypeOK
  <2> QED BY <2>4, <2>5, <2>6 DEF ClaimsInv
<1>2. CASE ~Owns(r, j)
  <2>1. UNCHANGED job /\ pc' = [pc EXCEPT ![r] = "failing"]
    BY <1>2 DEF Settle, Goto
  <2>2. NoProcessingLeak'
    BY <2>1 DEF NoProcessingLeak, TypeOK
  <2>3. Unexhausted' /\ JobsNamed'
    BY <2>1 DEF Unexhausted, JobsNamed
  <2>4. ListsMatchLabel'
    BY <2>1 DEF ListsMatchLabel, TypeOK
  <2> QED BY <2>2, <2>3, <2>4 DEF ClaimsInv
<1> QED BY <1>1, <1>2

(* Every step of the system keeps the claims accounted for. *)
LEMMA ClaimsStep ==
  ASSUME IInv, [Next]_vars
  PROVE  ClaimsInv'
<1> USE SheetSyncAssumption DEF IInv
<1>0. /\ job \in [Jobs -> JobRecords] /\ pc \in [Runs -> Labels]
      /\ todo \in [Runs -> SUBSET Jobs] /\ work \in [Runs -> SUBSET Jobs]
  BY DEF TypeOK
<1>1. CASE DomainWrite
  BY <1>1, DomainWriteKeepsClaims
<1>2. ASSUME NEW r \in Runs, Start(r)
      PROVE  ClaimsInv'
  BY <1>0, <1>2, UntouchedClaims DEF Start, Goto
<1>3. ASSUME NEW r \in Runs, Claim(r)
      PROVE  ClaimsInv'
  <2>1. PICK S \in SUBSET Claimable :
          /\ job' = [j \in Jobs |->
                       IF j \in S
                       THEN [job[j] EXCEPT !.status = "processing", !.run = r,
                                           !.live = TRUE]
                       ELSE job[j]]
          /\ todo' = [todo EXCEPT ![r] = S]
          /\ pc' = [pc EXCEPT ![r] = IF S = {} THEN "finish" ELSE "plan"]
    BY <1>3 DEF Claim, Goto
  <2>2. /\ pc[r] = "claim" /\ todo[r] = {} /\ work[r] = {} /\ work' = work
        /\ S \in SUBSET Jobs
    BY <1>3 DEF Claim, ListsMatchLabel, Claimable
  <2>3. \A k \in Jobs :
          /\ job'[k].key = job[k].key
          /\ job'[k].attempts = job[k].attempts
          /\ IF k \in S
             THEN /\ job'[k].status = "processing"
                  /\ job'[k].run = r
                  /\ job[k].status \in Active
             ELSE job'[k] = job[k]
    <3> SUFFICES ASSUME NEW k \in Jobs
                 PROVE  /\ job'[k].key = job[k].key
                        /\ job'[k].attempts = job[k].attempts
                        /\ IF k \in S
                           THEN /\ job'[k].status = "processing"
                                /\ job'[k].run = r
                                /\ job[k].status \in Active
                           ELSE job'[k] = job[k]
      OBVIOUS
    <3>1. CASE k \in S
      <4>1. job[k].status \in Active
        BY <3>1 DEF Claimable
      <4>2. job'[k] = [job[k] EXCEPT !.status = "processing", !.run = r,
                                     !.live = TRUE]
        BY <2>1, <3>1
      <4> QED BY <1>0, <3>1, <4>1, <4>2 DEF JobRecords
    <3>2. CASE k \notin S
      BY <2>1, <3>2
    <3> QED BY <3>1, <3>2
  <2>4. NoProcessingLeak'
    <3> SUFFICES ASSUME NEW k \in Jobs, job'[k].status = "processing"
                 PROVE  \/ job'[k].run = Lost
                        \/ /\ job'[k].run \in Runs
                           /\ \/ k \in todo'[job'[k].run] \cup work'[job'[k].run]
                              \/ pc'[job'[k].run] = "failing"
      BY DEF NoProcessingLeak
    <3>1. CASE k \in S
      <4>1. job'[k].run = r
        BY <2>3, <3>1
      <4>2. todo'[r] = S
        BY <1>0, <2>1
      <4> QED BY <3>1, <4>1, <4>2
    <3>2. CASE k \notin S
      <4>1. job'[k] = job[k] /\ job[k].run # r
        BY <2>2, <2>3, <3>2 DEF NoProcessingLeak
      <4> QED BY <1>0, <2>1, <2>2, <4>1 DEF NoProcessingLeak
    <3> QED BY <3>1, <3>2
  <2>5. Unexhausted' /\ JobsNamed'
    BY <2>3 DEF Unexhausted, JobsNamed, Active
  <2>6. ListsMatchLabel'
    BY <1>0, <2>1, <2>2, <2>3 DEF ListsMatchLabel, Active
  <2> QED BY <2>4, <2>5, <2>6 DEF ClaimsInv
<1>4. ASSUME NEW r \in Runs, Check(r)
      PROVE  ClaimsInv'
  <2>1. pc[r] = "write" => todo[r] = {}
    BY DEF ListsMatchLabel
  <2> QED BY <1>0, <1>4, <2>1, UntouchedClaims DEF Check, Goto
<1>5. ASSUME NEW r \in Runs, NEW j \in Jobs, PlanJob(r, j)
      PROVE  ClaimsInv'
  <2>1. /\ UNCHANGED <<job, pc>> /\ pc[r] = "plan" /\ j \in todo[r]
        /\ todo' = [todo EXCEPT ![r] = @ \ {j}]
        /\ work' = [work EXCEPT ![r] = @ \cup {j}]
    BY <1>5 DEF PlanJob, IsNext
  <2>2. NoProcessingLeak'
    BY <1>0, <2>1 DEF NoProcessingLeak
  <2>3. Unexhausted' /\ JobsNamed'
    BY <2>1 DEF Unexhausted, JobsNamed
  <2>4. ListsMatchLabel'
    BY <1>0, <2>1 DEF ListsMatchLabel
  <2> QED BY <2>2, <2>3, <2>4 DEF ClaimsInv
<1>6. ASSUME NEW r \in Runs, NEW j \in Jobs, PlanFails(r, j)
      PROVE  ClaimsInv'
  <2>1. {} \in SUBSET Docs
    OBVIOUS
  <2> QED BY <1>6, <2>1, SettledClaims DEF PlanFails
<1>7. ASSUME NEW r \in Runs, OutOfTime(r)
      PROVE  ClaimsInv'
  <2>1. CASE pc[r] = "plan" /\ \A j \in todo[r] : Owns(r, j)
    <3>1. /\ job' = [j \in Jobs |->
                       IF j \in todo[r]
                       THEN [job[j] EXCEPT !.status = "pending", !.live = FALSE]
                       ELSE job[j]]
          /\ todo' = [todo EXCEPT ![r] = {}]
          /\ UNCHANGED <<pc, work>>
      BY <1>7, <2>1 DEF OutOfTime
    <3>2. \A k \in Jobs :
            /\ job'[k].key = job[k].key
            /\ job'[k].attempts = job[k].attempts
            /\ IF k \in todo[r]
               THEN job'[k].status = "pending" /\ job[k].status = "processing"
               ELSE job'[k] = job[k]
      <4>1. \A k \in todo[r] : job[k].status = "processing"
        BY <2>1 DEF Owns
      <4> SUFFICES ASSUME NEW k \in Jobs
                   PROVE  /\ job'[k].key = job[k].key
                          /\ job'[k].attempts = job[k].attempts
                          /\ IF k \in todo[r]
                             THEN /\ job'[k].status = "pending"
                                  /\ job[k].status = "processing"
                             ELSE job'[k] = job[k]
        OBVIOUS
      <4>2. CASE k \in todo[r]
        <5>1. job'[k] = [job[k] EXCEPT !.status = "pending", !.live = FALSE]
          BY <3>1, <4>2
        <5> QED BY <1>0, <4>1, <4>2, <5>1 DEF JobRecords
      <4>3. CASE k \notin todo[r]
        BY <3>1, <4>3
      <4> QED BY <4>2, <4>3
    <3>3. NoProcessingLeak'
      <4>1. ASSUME NEW k \in Jobs, job'[k].status = "processing"
            PROVE  k \notin todo[r] /\ job'[k] = job[k]
        BY <3>2, <4>1
      <4>2. \A i \in Runs : todo'[i] = IF i = r THEN {} ELSE todo[i]
        BY <1>0, <3>1
      <4> QED BY <3>1, <4>1, <4>2 DEF NoProcessingLeak
    <3>4. Unexhausted' /\ JobsNamed'
      BY <3>2 DEF Unexhausted, JobsNamed, Active
    <3>5. ListsMatchLabel'
      BY <1>0, <3>1, <3>2 DEF ListsMatchLabel
    <3> QED BY <3>3, <3>4, <3>5 DEF ClaimsInv
  <2>2. CASE pc[r] = "plan" /\ ~ \A j \in todo[r] : Owns(r, j)
    <3>1. /\ todo' = [todo EXCEPT ![r] = {}]
          /\ UNCHANGED <<job, work>>
          /\ pc' = [pc EXCEPT ![r] = "failing"]
      BY <1>7, <2>2 DEF OutOfTime, Goto
    <3>2. NoProcessingLeak'
      BY <1>0, <3>1 DEF NoProcessingLeak
    <3>3. Unexhausted' /\ JobsNamed'
      BY <3>1 DEF Unexhausted, JobsNamed
    <3>4. ListsMatchLabel'
      BY <1>0, <3>1 DEF ListsMatchLabel
    <3> QED BY <3>2, <3>3, <3>4 DEF ClaimsInv
  <2>3. CASE pc[r] = "write"
    <3>1. todo[r] = {}
      BY <2>3 DEF ListsMatchLabel
    <3> QED BY <1>0, <1>7, <2>3, <3>1, UntouchedClaims DEF OutOfTime, Goto
  <2> QED BY <1>7, <2>1, <2>2, <2>3 DEF OutOfTime
<1>8. ASSUME NEW r \in Runs, BeginWrite(r)
      PROVE  ClaimsInv'
  BY <1>0, <1>8, UntouchedClaims DEF BeginWrite, AfterWrites, Goto
<1>9. ASSUME NEW r \in Runs, NEW P, AfterWrites(r, P),
             pc[r] \in {"write", "await"}, UNCHANGED <<job, todo, work>>
      PROVE  ClaimsInv'
  <2>1. todo[r] = {}
    BY <1>9 DEF ListsMatchLabel
  <2> QED BY <1>0, <1>9, <2>1, UntouchedClaims DEF AfterWrites, Goto
<1>10. ASSUME NEW r \in Runs, NEW d \in Docs, NEW op \in {"upsert", "delete"},
              SkipRequest(r, d, op) \/ QuotaDenied(r, d, op)
       PROVE  ClaimsInv'
  BY <1>9, <1>10 DEF SkipRequest, QuotaDenied
<1>11. ASSUME NEW r \in Runs, NEW d \in Docs, NEW op \in {"upsert", "delete"},
              Send(r, d, op)
       PROVE  ClaimsInv'
  <2>1. todo[r] = {}
    BY <1>11 DEF Send, ListsMatchLabel
  <2> QED BY <1>0, <1>11, <2>1, UntouchedClaims DEF Send, Goto
<1>12. ASSUME NEW q \in wire, Land(q)
       PROVE  ClaimsInv'
  BY <1>12, UntouchedClaims DEF Land
<1>13. ASSUME NEW r \in Runs, NEW q \in wire,
              Answer(r, q) \/ Reject(r, q) \/ Unconfirmed(r, q)
       PROVE  ClaimsInv'
  BY <1>9, <1>13 DEF Answer, Reject, Unconfirmed, Answered, Awaits
<1>14. ASSUME NEW r \in Runs, Persist(r)
       PROVE  ClaimsInv'
  <2>1. todo[r] = {}
    BY <1>14 DEF Persist, ListsMatchLabel
  <2>2. /\ pc' = [pc EXCEPT ![r] = "settle"] /\ pc[r] = "persist"
        /\ UNCHANGED <<job, todo, work>>
    BY <1>14 DEF Persist, Goto
  <2> QED BY <1>0, <2>1, <2>2, UntouchedClaims
<1>15. ASSUME NEW r \in Runs, NEW j \in Jobs, SettleJob(r, j)
       PROVE  ClaimsInv'
  <2>1. RetryTargets(Outcomes(r, j)) \in SUBSET Docs
    BY DEF TypeOK, RetryTargets, Outcomes, Writes
  <2> QED BY <1>15, <2>1, SettledClaims DEF SettleJob
<1>16. ASSUME NEW r \in Runs, AllSettled(r)
       PROVE  ClaimsInv'
  BY <1>0, <1>16, UntouchedClaims DEF AllSettled, Goto
<1>17. ASSUME NEW r \in Runs, Forget(r)
       PROVE  /\ todo' = [todo EXCEPT ![r] = {}]
              /\ work' = [work EXCEPT ![r] = {}]
              /\ pc' = [pc EXCEPT ![r] = "idle"]
  BY <1>17 DEF Forget, Goto
<1>18. ASSUME NEW r \in Runs, Finish(r)
       PROVE  ClaimsInv'
  <2>1. todo[r] = {} /\ work[r] = {} /\ UNCHANGED job /\ pc[r] = "finish"
    BY <1>18 DEF Finish, ListsMatchLabel
  <2>2. NoProcessingLeak'
    BY <1>0, <1>17, <1>18, <2>1 DEF Finish, NoProcessingLeak
  <2>3. Unexhausted' /\ JobsNamed'
    BY <2>1 DEF Unexhausted, JobsNamed
  <2>4. ListsMatchLabel'
    BY <1>0, <1>17, <1>18, <2>1 DEF Finish, ListsMatchLabel
  <2> QED BY <2>2, <2>3, <2>4 DEF ClaimsInv
<1>19. ASSUME NEW r \in Runs, Abort(r)
       PROVE  ClaimsInv'
  <2>1. \A k \in Jobs :
          /\ job'[k].key = job[k].key
          /\ job'[k].attempts = job[k].attempts
          /\ IF k \in Claims(r)
             THEN job'[k].status = "retrying"
             ELSE job'[k] = job[k]
    <3> SUFFICES ASSUME NEW k \in Jobs
                 PROVE  /\ job'[k].key = job[k].key
                        /\ job'[k].attempts = job[k].attempts
                        /\ IF k \in Claims(r)
                           THEN job'[k].status = "retrying"
                           ELSE job'[k] = job[k]
      OBVIOUS
    <3>1. CASE k \in Claims(r)
      <4>1. job'[k] = [job[k] EXCEPT !.status = "retrying", !.live = FALSE]
        BY <1>19, <3>1 DEF Abort, ReleasedClaims
      <4> QED BY <1>0, <3>1, <4>1 DEF JobRecords
    <3>2. CASE k \notin Claims(r)
      BY <1>19, <3>2 DEF Abort, ReleasedClaims
    <3> QED BY <3>1, <3>2
  <2>2. NoProcessingLeak'
    BY <1>0, <1>17, <1>19, <2>1 DEF Abort, NoProcessingLeak, Claims
  <2>3. Unexhausted' /\ JobsNamed'
    BY <2>1 DEF Unexhausted, JobsNamed, Active, Claims
  <2>4. ListsMatchLabel'
    BY <1>0, <1>17, <1>19, <2>1 DEF Abort, ListsMatchLabel
  <2> QED BY <2>2, <2>3, <2>4 DEF ClaimsInv
<1>20. ASSUME NEW r \in Runs, Crash(r)
       PROVE  ClaimsInv'
  <2>1. \A k \in Jobs :
          /\ job'[k].key = job[k].key
          /\ job'[k].attempts = job[k].attempts
          /\ job'[k].status = job[k].status
          /\ job'[k].run = IF k \in Claims(r) THEN Lost ELSE job[k].run
    BY <1>0, <1>20 DEF JobRecords, Crash
  <2>2. NoProcessingLeak'
    BY <1>0, <1>17, <1>20, <2>1 DEF Crash, NoProcessingLeak, Claims
  <2>3. Unexhausted' /\ JobsNamed'
    BY <2>1 DEF Unexhausted, JobsNamed
  <2>4. ListsMatchLabel'
    BY <1>0, <1>17, <1>20, <2>1 DEF Crash, ListsMatchLabel
  <2> QED BY <2>2, <2>3, <2>4 DEF ClaimsInv
<1>21. ASSUME ExpireLost \/ \E r \in Runs : Stall(r)
       PROVE  ClaimsInv'
  <2>1. \A k \in Jobs :
          /\ job'[k].key = job[k].key
          /\ job'[k].attempts = job[k].attempts
          /\ job'[k].status = job[k].status
          /\ job'[k].run = job[k].run
    <3>1. PICK S : \/ UNCHANGED job
                   \/ job' = [j \in Jobs |-> IF j \in S
                                             THEN [job[j] EXCEPT !.live = FALSE]
                                             ELSE job[j]]
      <4>1. CASE ExpireLost
        <5>1. job' = [j \in Jobs |-> IF j \in {i \in Jobs : job[i].run = Lost}
                                     THEN [job[j] EXCEPT !.live = FALSE]
                                     ELSE job[j]]
          BY <4>1 DEF ExpireLost
        <5> QED BY <5>1
      <4>2. CASE \E r \in Runs : Stall(r)
        BY <4>2 DEF Stall
      <4> QED BY <1>21, <4>1, <4>2
    <3> QED BY <1>0, <3>1 DEF JobRecords
  <2>2. UNCHANGED <<pc, todo, work>>
    BY <1>21 DEF ExpireLost, Stall
  <2>3. NoProcessingLeak'
    BY <2>1, <2>2 DEF NoProcessingLeak
  <2>4. Unexhausted' /\ JobsNamed' /\ ListsMatchLabel'
    BY <1>0, <2>1, <2>2 DEF Unexhausted, JobsNamed, ListsMatchLabel
  <2> QED BY <2>3, <2>4 DEF ClaimsInv
<1>22. CASE RaiseFence \/ LowerFence
  BY <1>22, UntouchedClaims DEF RaiseFence, LowerFence
<1>23. ASSUME NEW j \in Jobs, AdminRetry(j)
       PROVE  ClaimsInv'
  <2>1. \A k \in Jobs :
          /\ job'[k].key = job[k].key
          /\ IF k = j
             THEN /\ job'[k].status = "pending" /\ job'[k].attempts = 0
                  /\ job[k].status # "free"
             ELSE job'[k] = job[k]
    BY <1>0, <1>23 DEF JobRecords, AdminRetry
  <2>2. UNCHANGED <<pc, todo, work>>
    BY <1>23 DEF AdminRetry
  <2>3. NoProcessingLeak'
    BY <2>1, <2>2 DEF NoProcessingLeak
  <2>4. Unexhausted' /\ JobsNamed' /\ ListsMatchLabel'
    BY <1>0, <2>1, <2>2 DEF Unexhausted, JobsNamed, ListsMatchLabel
  <2> QED BY <2>3, <2>4 DEF ClaimsInv
<1>24. CASE UNCHANGED vars
  BY <1>24, UntouchedClaims DEF vars
<1> QED
  BY <1>1, <1>2, <1>3, <1>4, <1>5, <1>6, <1>7, <1>8, <1>10, <1>11, <1>12,
     <1>13, <1>14, <1>15, <1>16, <1>18, <1>19, <1>20, <1>21, <1>22, <1>23,
     <1>24
  DEF Next, RunStep, Disturb

-----------------------------------------------------------------------------
(* An empty outbox with no run in progress satisfies the invariant. *)
LEMMA InitEstablishesIInv == Init => IInv
<1> SUFFICES ASSUME Init PROVE IInv
  OBVIOUS
<1> USE SheetSyncAssumption DEF Init
<1>1. TypeOK
  <2>1. job \in [Jobs -> JobRecords]
    BY DEF FreeJob, JobRecords, Statuses, Active
  <2>2. 0 \in 0 .. MaxVersion /\ 0 \in 0 .. MaxDisruptions
    OBVIOUS
  <2>3. doc \in [Docs -> DocRecords] /\ row \in [Docs -> 0 .. MaxVersion]
    BY <2>2 DEF DocRecords
  <2>4. /\ stray \in [Docs -> BOOLEAN] /\ fence \in BOOLEAN
        /\ lease \in [owner : Runs \cup {None, Lost}, live : BOOLEAN]
    OBVIOUS
  <2>5. /\ pc \in [Runs -> Labels] /\ ok \in [Runs -> BOOLEAN]
        /\ todo \in [Runs -> SUBSET Jobs] /\ work \in [Runs -> SUBSET Jobs]
        /\ plan \in [Runs -> SUBSET Writes]
    BY DEF Labels
  <2>6. wire \subseteq Requests /\ spent \in 0 .. MaxDisruptions
    BY <2>2
  <2> HIDE DEF Init
  <2> QED BY <2>1, <2>3, <2>4, <2>5, <2>6 DEF TypeOK
<1>2. NoProcessingLeak /\ Unexhausted /\ JobsNamed
  BY DEF NoProcessingLeak, Unexhausted, JobsNamed, FreeJob, Active
<1>3. ListsMatchLabel
  BY DEF ListsMatchLabel
<1> QED BY <1>1, <1>2, <1>3 DEF IInv

(* The inductive invariant holds in every reachable state: claims point at a run
   that lists them or was killed, no job that is claimed has used up its
   attempts, every row has a key of its document's kind, and a run has lists
   only where its code holds them. *)
THEOREM InductiveInvariant == Spec => []IInv
<1>1. IInv /\ [Next]_vars => IInv'
  BY TypeStep, ClaimsStep DEF IInv, ClaimsInv
<1> QED BY InitEstablishesIInv, <1>1, PTL DEF Spec

(* Every reachable state has the types: in particular no job is charged more
   than MaxAttempts attempts, whatever runs and admins do. *)
THEOREM TypeCorrect == Spec => []TypeOK
<1>1. IInv => TypeOK
  BY DEF IInv
<1> QED BY InductiveInvariant, <1>1, PTL

(* No run that is still alive leaks a claim: markJob..., deferJob, releaseClaim
   and releaseClaimedJobsForRun between them account for every job a run
   claimed, for any number of runs and jobs. *)
THEOREM ClaimsAreAccountedFor == Spec => []NoProcessingLeak
<1>1. IInv => NoProcessingLeak
  BY DEF IInv
<1> QED BY InductiveInvariant, <1>1, PTL
=============================================================================
