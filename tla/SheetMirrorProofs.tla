-------------------------- MODULE SheetMirrorProofs --------------------------
(* The lease's owner writes rows forward, and Sheet Sync implements
   SheetMirror, for every number of documents, runs, jobs and disruptions. *)
EXTENDS SheetSyncRowsProofs

(* Nothing that is on its way to w's row, or that a run which may have lost the
   lease can still send there, is newer than w. *)
Newest(r, w) ==
  /\ row[w.doc] <= w.ver
  /\ \A q \in wire : q.doc = w.doc => q.ver <= w.ver
  /\ \A s \in Runs \ {r} : pc[s] \in {"write", "await"} =>
       \A v \in Unsent(plan[s]) : v.doc = w.doc => v.ver <= w.ver

(* Rows, requests and plans show versions that their documents have had. *)
NothingFromTheFuture ==
  /\ \A d \in Docs : row[d] <= doc[d].ver
  /\ \A q \in wire : q.ver <= doc[q.doc].ver
  /\ \A r \in Runs : \A w \in plan[r] : w.ver <= doc[w.doc].ver

OwnerIsNewest ==
  \A r \in Runs : lease.owner = r =>
    \A w \in plan[r] : w.st = "planned" /\ w.op = "upsert" => Newest(r, w)

RowsOrdered == NothingFromTheFuture /\ OwnerIsNewest

-----------------------------------------------------------------------------
(* Steps that plan, send and apply nothing. *)

Sending == {"write", "await"}

(* What run s has planned comes from its plan before the step. *)
FromPlan(s) ==
  \A v \in plan'[s] :
    /\ \E w \in plan[s] : v.op = w.op /\ v.doc = w.doc /\ v.ver = w.ver
    /\ v.st = "planned" => v \in plan[s]

AddsNothing ==
  /\ UNCHANGED row
  /\ \A d \in Docs : doc[d].ver <= doc'[d].ver
  /\ \A q \in wire' : \E p \in wire : p.doc = q.doc /\ p.ver = q.ver
  /\ \A s \in Runs :
       /\ FromPlan(s)
       /\ pc'[s] \in Sending => pc[s] \in Sending \/ lease'.owner = s
       /\ lease'.owner = s => lease.owner = s \/ plan'[s] = {}

(* Versions are numbers. *)
LEMMA VersionsAreNumbers ==
  ASSUME IInv
  PROVE  /\ \A d \in Docs : row[d] \in Nat /\ doc[d].ver \in Nat
         /\ \A q \in wire : q.doc \in Docs /\ q.ver \in Nat
                            /\ q.op \in {"upsert", "delete"}
         /\ \A r \in Runs : \A w \in plan[r] :
              w.doc \in Docs /\ w.ver \in Nat /\ w.op \in {"upsert", "delete"}
<1>1. /\ doc \in [Docs -> DocRecords] /\ row \in [Docs -> 0 .. MaxVersion]
      /\ wire \subseteq Requests /\ plan \in [Runs -> SUBSET Writes]
      /\ MaxVersion \in Nat
  BY SheetSyncAssumption DEF IInv, TypeOK
<1>2. \A d \in Docs : row[d] \in Nat /\ doc[d].ver \in Nat
  BY <1>1 DEF DocRecords
<1>3. \A q \in wire : q.doc \in Docs /\ q.ver \in Nat /\ q.op \in {"upsert", "delete"}
  BY <1>1 DEF Requests
<1>4. \A r \in Runs : \A w \in plan[r] :
        w.doc \in Docs /\ w.ver \in Nat /\ w.op \in {"upsert", "delete"}
  BY <1>1 DEF Writes
<1> QED BY <1>2, <1>3, <1>4

(* Such a step leaves rows and requests as new as they are. *)
LEMMA AddingNothingKeepsOrder ==
  ASSUME IInv, IInv', RowsOrdered, AddsNothing
  PROVE  RowsOrdered'
<1> USE DEF AddsNothing
<1>1. \A d \in Docs : /\ doc[d].ver \in Nat /\ doc'[d].ver \in Nat
                      /\ doc[d].ver <= doc'[d].ver
  BY VersionsAreNumbers DEF IInv, TypeOK, DocRecords
<1>2. \A d \in Docs : row'[d] <= doc'[d].ver
  BY <1>1, VersionsAreNumbers DEF RowsOrdered, NothingFromTheFuture
<1>3. ASSUME NEW q \in wire'
      PROVE  q.ver <= doc'[q.doc].ver
  <2>1. PICK p \in wire : p.doc = q.doc /\ p.ver = q.ver
    OBVIOUS
  <2>2. p.ver <= doc[p.doc].ver /\ p.doc \in Docs /\ p.ver \in Nat
    BY VersionsAreNumbers DEF RowsOrdered, NothingFromTheFuture
  <2> QED BY <1>1, <2>1, <2>2
<1>4. ASSUME NEW r \in Runs, NEW v \in plan'[r]
      PROVE  v.ver <= doc'[v.doc].ver
  <2>1. PICK w \in plan[r] : w.doc = v.doc /\ w.ver = v.ver
    BY DEF FromPlan
  <2>2. w.ver <= doc[w.doc].ver /\ w.doc \in Docs /\ w.ver \in Nat
    BY VersionsAreNumbers DEF RowsOrdered, NothingFromTheFuture
  <2> QED BY <1>1, <2>1, <2>2
<1>5. ASSUME NEW r \in Runs, lease'.owner = r, NEW w \in plan'[r],
             w.st = "planned", w.op = "upsert"
      PROVE  Newest(r, w)'
  <2>1. lease.owner = r /\ w \in plan[r]
    BY <1>5 DEF FromPlan
  <2>2. Newest(r, w)
    BY <1>5, <2>1 DEF RowsOrdered, OwnerIsNewest
  <2>3. \A q \in wire' : q.doc = w.doc => q.ver <= w.ver
    BY <2>2 DEF Newest
  <2>4. ASSUME NEW s \in Runs \ {r}, pc'[s] \in {"write", "await"},
               NEW v \in Unsent(plan'[s]), v.doc = w.doc
        PROVE  v.ver <= w.ver
    <3>1. v \in Unsent(plan[s]) /\ pc[s] \in {"write", "await"}
      BY <1>5, <2>4 DEF FromPlan, Unsent, Sending
    <3> QED BY <2>2, <2>4, <3>1 DEF Newest
  <2> QED BY <2>2, <2>3, <2>4 DEF Newest, Unsent
<1> QED BY <1>2, <1>3, <1>4, <1>5 DEF RowsOrdered, NothingFromTheFuture, OwnerIsNewest

(* A step of one run that adds nothing to its plan. *)
LEMMA RunAddsNothing ==
  ASSUME IInv, SameDocs, UNCHANGED row, NEW r \in Runs, OthersStay(r), FromPlan(r),
         \A q \in wire' : \E p \in wire : p.doc = q.doc /\ p.ver = q.ver,
         pc'[r] \in Sending => pc[r] \in Sending \/ lease'.owner = r,
         lease'.owner \in {lease.owner, None, Lost}
  PROVE  AddsNothing
<1>1. \A d \in Docs : doc[d].ver <= doc'[d].ver
  BY VersionsAreNumbers DEF SameDocs
<1>2. \A s \in Runs : s # None /\ s # Lost
  BY SheetSyncAssumption
<1>3. \A s \in Runs \ {r} : FromPlan(s) /\ pc'[s] = pc[s]
  BY DEF OthersStay, FromPlan
<1> QED BY <1>1, <1>2, <1>3 DEF AddsNothing

(* The writes that get an outcome, or are deferred, are no longer to be sent. *)
LEMMA OutcomesComeFromThePlan ==
  ASSUME IInv, NEW r \in Runs, NEW P,
         plan' = [plan EXCEPT ![r] = P],
         \/ P = plan[r] \/ P = {} \/ P = Stopped(plan[r])
         \/ \E G \in SUBSET plan[r], st \in {"synced", "failed", "deferred"} :
              P = Outcome(plan[r], G, st)
  PROVE  FromPlan(r) /\ \A s \in Runs \ {r} : plan'[s] = plan[s]
<1>1. plan'[r] = P /\ plan[r] \in SUBSET Writes
  BY RunsTyped
<1>2. CASE P = Stopped(plan[r])
  <2>1. \A v \in P : v.st # "planned"
    BY <1>1, <1>2, StoppedEffect DEF Unsent
  <2> QED BY <1>1, <1>2, <2>1, RunsTyped, StoppedEffect DEF FromPlan
<1>3. ASSUME NEW G \in SUBSET plan[r], NEW st \in {"synced", "failed", "deferred"},
             P = Outcome(plan[r], G, st)
      PROVE  FromPlan(r)
  <2>1. \A v \in P : \/ v \in plan[r]
                     \/ /\ \E w \in plan[r] : v.op = w.op /\ v.doc = w.doc /\ v.ver = w.ver
                        /\ v.st # "planned"
    BY <1>1, <1>3, OutcomeEffect
  <2> QED BY <1>1, <2>1 DEF FromPlan
<1>4. CASE P = plan[r] \/ P = {}
  BY <1>1, <1>4 DEF FromPlan
<1> QED BY <1>1, <1>2, <1>3, <1>4, RunsTyped

(* A run claims, checks, begins, or settles. *)
LEMMA SettlingAddsNothing ==
  ASSUME IInv, RowsInv, NEW r \in Runs,
         \/ Start(r) \/ Claim(r) \/ Check(r) \/ BeginWrite(r)
         \/ AllSettled(r) \/ Finish(r) \/ Abort(r) \/ OutOfTime(r) \/ Stall(r)
         \/ \E j \in Jobs : PlanFails(r, j) \/ SettleJob(r, j)
  PROVE  AddsNothing /\ SameDocs /\ UNCHANGED <<row, stray>>
<1>1. UNCHANGED <<doc, row, stray, wire>>
  BY DEF Start, Claim, Check, BeginWrite, AllSettled, Finish, Abort, OutOfTime,
         Stall, PlanFails, SettleJob, domainVars
<1>2. SameDocs
  BY <1>1 DEF SameDocs, Kept, Exists
<1>3. \A s \in Runs : s # None /\ s # Lost
  BY SheetSyncAssumption
<1>4. CASE Start(r)
  <2>1. /\ UNCHANGED <<ok, work, plan>> /\ pc' = [pc EXCEPT ![r] = "claim"]
        /\ lease' = [owner |-> r, live |-> TRUE] /\ pc[r] = "idle"
    BY <1>4 DEF Start, Goto, domainVars
  <2>2. plan'[r] = {}
    BY <2>1 DEF RowsInv, PlansMatchLabel
  <2>3. \A s \in Runs : /\ pc'[s] \in Sending => pc[s] \in Sending
                        /\ FromPlan(s)
    BY <2>1, RunsTyped DEF FromPlan, Sending
  <2>4. \A d \in Docs : doc[d].ver <= doc'[d].ver
    BY <1>1, VersionsAreNumbers
  <2> QED BY <1>1, <1>2, <2>1, <2>2, <2>3, <2>4 DEF AddsNothing
<1>5. ASSUME FromPlan(r), OthersStay(r),
             pc'[r] \in Sending => pc[r] \in Sending \/ lease'.owner = r,
             lease'.owner \in {lease.owner, None, Lost}
      PROVE  AddsNothing
  BY <1>1, <1>2, <1>5, RunAddsNothing
<1>6. CASE Claim(r)
  <2>1. /\ UNCHANGED <<lease, ok, work, plan>>
        /\ \E l \in {"finish", "plan"} : pc' = [pc EXCEPT ![r] = l]
    BY <1>6 DEF Claim, Goto, domainVars
  <2>2. OthersStay(r) /\ pc'[r] \notin Sending /\ FromPlan(r)
    BY <2>1, RunsTyped DEF OthersStay, Sending, FromPlan
  <2> QED BY <1>1, <1>2, <1>5, <2>1, <2>2
<1>7. CASE Check(r)
  <2>1. /\ UNCHANGED <<lease, work>>
        /\ ok' = ok \/ ok' = [ok EXCEPT ![r] = TRUE]
        /\ \/ pc' = pc \/ pc' = [pc EXCEPT ![r] = "persist"]
           \/ pc' = [pc EXCEPT ![r] = "failing"]
        /\ \E P : /\ plan' = [plan EXCEPT ![r] = P]
                  /\ P = plan[r] \/ P = Stopped(plan[r])
    BY <1>7, RunsTyped DEF Check, Goto, domainVars
  <2>2. FromPlan(r) /\ \A s \in Runs \ {r} : plan'[s] = plan[s]
    BY <2>1, OutcomesComeFromThePlan
  <2>3. OthersStay(r) /\ (pc'[r] \in Sending => pc[r] \in Sending)
    BY <2>1, <2>2, RunsTyped DEF OthersStay, Sending
  <2> QED BY <1>1, <1>2, <1>5, <2>1, <2>2, <2>3
<1>8. CASE BeginWrite(r)
  <2>1. /\ UNCHANGED <<lease, work>> /\ ok' = [ok EXCEPT ![r] = FALSE]
        /\ plan' = [plan EXCEPT ![r] = plan[r]]
        /\ \E l : pc' = [pc EXCEPT ![r] = l] /\ (l \in Sending => lease.owner = r)
    BY <1>8, RunsTyped DEF BeginWrite, AfterWrites, Goto, Uncheck, domainVars, Held, Sending
  <2>2. FromPlan(r) /\ \A s \in Runs \ {r} : plan'[s] = plan[s]
    BY <2>1, OutcomesComeFromThePlan
  <2>3. OthersStay(r) /\ (pc'[r] \in Sending => lease.owner = r)
    BY <2>1, <2>2, RunsTyped DEF OthersStay
  <2> QED BY <1>1, <1>2, <1>5, <2>1, <2>2, <2>3
<1>9. CASE AllSettled(r)
  <2>1. /\ UNCHANGED <<lease, work, plan>> /\ ok' = [ok EXCEPT ![r] = FALSE]
        /\ pc' = [pc EXCEPT ![r] = "finish"]
    BY <1>9 DEF AllSettled, Goto, Uncheck, domainVars
  <2>2. OthersStay(r) /\ pc'[r] \notin Sending /\ FromPlan(r)
    BY <2>1, RunsTyped DEF OthersStay, Sending, FromPlan
  <2> QED BY <1>1, <1>2, <1>5, <2>1, <2>2
<1>10. CASE Finish(r) \/ Abort(r)
  <2>1. Forget(r) /\ lease' = Released(r)
    BY <1>10 DEF Finish, Abort
  <2>2. OthersStay(r) /\ pc'[r] \notin Sending /\ FromPlan(r)
    BY <2>1, ForgetEffect DEF Sending, FromPlan
  <2>3. lease'.owner \in {lease.owner, None}
    BY <2>1 DEF Released
  <2> QED BY <1>1, <1>2, <1>5, <2>2, <2>3
<1>11. CASE OutOfTime(r)
  <2>1. /\ UNCHANGED <<lease, work>> /\ ok' = [ok EXCEPT ![r] = FALSE]
        /\ plan' = [plan EXCEPT ![r] = Stopped(plan[r])]
        /\ \/ pc' = pc \/ pc' = [pc EXCEPT ![r] = "persist"]
           \/ pc' = [pc EXCEPT ![r] = "failing"]
    BY <1>11 DEF OutOfTime, Goto, Uncheck, domainVars
  <2>2. FromPlan(r) /\ \A s \in Runs \ {r} : plan'[s] = plan[s]
    BY <2>1, OutcomesComeFromThePlan
  <2>3. OthersStay(r) /\ (pc'[r] \in Sending => pc[r] \in Sending)
    BY <2>1, <2>2, RunsTyped DEF OthersStay, Sending
  <2> QED BY <1>1, <1>2, <1>5, <2>1, <2>2, <2>3
<1>12. CASE Stall(r)
  <2>1. UNCHANGED <<pc, ok, work, plan>> /\ lease' = [lease EXCEPT !.live = FALSE]
    BY <1>12 DEF Stall, domainVars
  <2>2. lease'.owner = lease.owner
    BY <2>1 DEF IInv, TypeOK
  <2>3. OthersStay(r) /\ FromPlan(r)
    BY <2>1 DEF OthersStay, FromPlan
  <2> QED BY <1>1, <1>2, <1>5, <2>1, <2>2, <2>3
<1>13. CASE \E j \in Jobs : PlanFails(r, j) \/ SettleJob(r, j)
  <2>1. /\ UNCHANGED <<lease, plan>> /\ ok' = [ok EXCEPT ![r] = FALSE]
        /\ pc' = pc \/ pc' = [pc EXCEPT ![r] = "failing"]
        /\ \E W : work' = [work EXCEPT ![r] = W]
    BY <1>13, RunsTyped DEF PlanFails, SettleJob, Settle, Goto, Uncheck, domainVars
  <2>2. OthersStay(r) /\ (pc'[r] \in Sending => pc[r] \in Sending) /\ FromPlan(r)
    BY <2>1, RunsTyped DEF OthersStay, Sending, FromPlan
  <2> QED BY <1>1, <1>2, <1>5, <2>1, <2>2
<1> QED BY <1>1, <1>2, <1>4, <1>6, <1>7, <1>8, <1>9, <1>10, <1>11, <1>12, <1>13

(* A run records what became of its requests. *)
LEMMA OutcomesAddNothing ==
  ASSUME IInv, RowsInv, NEW r \in Runs,
         \/ \E d \in Docs, op \in {"upsert", "delete"} :
              SkipRequest(r, d, op) \/ QuotaDenied(r, d, op)
         \/ \E q \in wire : Answer(r, q) \/ Reject(r, q) \/ Unconfirmed(r, q)
  PROVE  AddsNothing /\ SameDocs /\ UNCHANGED <<row, stray>>
<1>1. /\ UNCHANGED <<doc, row, stray, lease, work>> /\ pc[r] \in Sending
      /\ \E P : /\ AfterWrites(r, P)
                /\ \/ P = Stopped(plan[r])
                   \/ \E G \in SUBSET plan[r], st \in {"synced", "failed", "deferred"} :
                        P = Outcome(plan[r], G, st)
      /\ ok' = ok \/ ok' = [ok EXCEPT ![r] = FALSE]
  <2>1. \A d, op : Group(r, d, op) \in SUBSET plan[r]
    BY DEF Group, Unsent
  <2> HIDE DEF Sending
  <2>2. ASSUME NEW d \in Docs, NEW op \in {"upsert", "delete"},
               SkipRequest(r, d, op) \/ QuotaDenied(r, d, op)
        PROVE  <1>1
    BY <2>1, <2>2 DEF SkipRequest, QuotaDenied, Uncheck, domainVars, Sending
  <2>3. ASSUME NEW q \in wire, Answer(r, q) \/ Reject(r, q) \/ Unconfirmed(r, q)
        PROVE  <1>1
    BY <2>1, <2>3 DEF Answer, Reject, Unconfirmed, Answered, Awaits, Sending
  <2> QED BY <2>2, <2>3
<1>2. \A q \in wire' : \E p \in wire : p.doc = q.doc /\ p.ver = q.ver
  <2>1. ASSUME NEW q \in wire, Answer(r, q) \/ Reject(r, q) \/ Unconfirmed(r, q)
        PROVE  wire' \subseteq (wire \ {q}) \cup Abandon(q)
    BY <2>1 DEF Answer, Reject, Unconfirmed
  <2>2. ASSUME NEW q \in wire, NEW p \in Abandon(q)
        PROVE  p.doc = q.doc /\ p.ver = q.ver
    BY <2>2 DEF Abandon, IInv, TypeOK, Requests
  <2>3. ASSUME \E d \in Docs, op \in {"upsert", "delete"} :
                 SkipRequest(r, d, op) \/ QuotaDenied(r, d, op)
        PROVE  UNCHANGED wire
    BY <2>3 DEF SkipRequest, QuotaDenied, domainVars
  <2> QED BY <2>1, <2>2, <2>3
<1>3. SameDocs
  BY <1>1 DEF SameDocs, Kept, Exists
<1>4. PICK P : /\ AfterWrites(r, P)
               /\ \/ P = Stopped(plan[r])
                  \/ \E G \in SUBSET plan[r], st \in {"synced", "failed", "deferred"} :
                       P = Outcome(plan[r], G, st)
  BY <1>1
<1>5. FromPlan(r) /\ \A s \in Runs \ {r} : plan'[s] = plan[s]
  BY <1>4, OutcomesComeFromThePlan DEF AfterWrites
<1>6. OthersStay(r)
  BY <1>1, <1>4, <1>5, RunsTyped DEF OthersStay, AfterWrites, Goto
<1> QED BY <1>1, <1>2, <1>3, <1>5, <1>6, RunAddsNothing

(* Locations are persisted, or the run is killed. *)
LEMMA PersistingAddsNothing ==
  ASSUME IInv, RowsInv, NEW r \in Runs, Persist(r) \/ Crash(r)
  PROVE  AddsNothing /\ SameDocs /\ UNCHANGED <<row, stray>>
<1>1. CASE Persist(r)
  <2>1. /\ UNCHANGED <<row, stray, wire, lease, work>>
        /\ pc' = [pc EXCEPT ![r] = "settle"] /\ ok' = [ok EXCEPT ![r] = FALSE]
    BY <1>1 DEF Persist, Goto, Uncheck
  <2> DEFINE upserted == {w.doc : w \in {u \in plan[r] : u.op = "upsert"}}
  <2>2. PICK lost \in SUBSET upserted :
           plan' = [plan EXCEPT ![r] =
             {[w EXCEPT !.st = IF w.doc \in lost /\ w.op = "upsert"
                                  /\ @ = "synced" THEN "failed" ELSE @]
                : w \in plan[r]}]
    BY <1>1 DEF Persist
  <2> HIDE DEF upserted
  <2>3. \A v \in plan'[r] : \E w \in plan[r] :
          /\ v.op = w.op /\ v.doc = w.doc /\ v.ver = w.ver
          /\ v = w \/ v.st = "failed"
    <3>1. plan'[r] = {[w EXCEPT !.st = IF w.doc \in lost /\ w.op = "upsert"
                                          /\ @ = "synced" THEN "failed" ELSE @]
                        : w \in plan[r]}
      BY <2>2, RunsTyped
    <3>2. plan[r] \in SUBSET Writes
      BY RunsTyped
    <3> QED BY <3>1, <3>2 DEF Writes
  <2>4. FromPlan(r)
    BY <2>3 DEF FromPlan
  <2>5. OthersStay(r) /\ pc'[r] \notin Sending
    BY <2>1, <2>2, RunsTyped DEF OthersStay, Sending
  <2> QED BY <1>1, <2>1, <2>4, <2>5, PersistKeepsDocuments, RunAddsNothing
<1>2. CASE Crash(r)
  <2>1. /\ UNCHANGED <<doc, row, stray>> /\ Forget(r)
        /\ lease' = IF lease.owner = r THEN [lease EXCEPT !.owner = Lost] ELSE lease
        /\ wire' = UNION {IF q.run = r THEN Abandon(q) ELSE {q} : q \in wire}
    BY <1>2 DEF Crash
  <2>2. \A q \in wire' : \E p \in wire : p.doc = q.doc /\ p.ver = q.ver
    <3>1. ASSUME NEW q \in wire, NEW p \in Abandon(q)
          PROVE  p.doc = q.doc /\ p.ver = q.ver
      BY <3>1 DEF Abandon, IInv, TypeOK, Requests
    <3> QED BY <2>1, <3>1
  <2>3. OthersStay(r) /\ pc'[r] \notin Sending /\ FromPlan(r)
    BY <2>1, ForgetEffect DEF Sending, FromPlan
  <2>4. lease'.owner \in {lease.owner, Lost}
    BY <2>1 DEF IInv, TypeOK
  <2>5. SameDocs
    BY <2>1 DEF SameDocs, Kept, Exists
  <2> QED BY <2>1, <2>2, <2>3, <2>4, <2>5, RunAddsNothing
<1> QED BY <1>1, <1>2

(* Dates pass, the fence moves, jobs are retried. *)
LEMMA EnvironmentAddsNothing ==
  ASSUME IInv, \/ ExpireLost \/ RaiseFence \/ LowerFence \/ UNCHANGED vars
               \/ \E j \in Jobs : AdminRetry(j)
  PROVE  AddsNothing /\ SameDocs /\ UNCHANGED <<row, stray>>
<1>1. UNCHANGED <<doc, row, stray, wire, pc, plan>>
  BY DEF ExpireLost, RaiseFence, LowerFence, AdminRetry, domainVars, vars
<1>2. lease'.owner = lease.owner
  BY DEF ExpireLost, RaiseFence, LowerFence, AdminRetry, domainVars, vars, IInv, TypeOK
<1>3. SameDocs
  BY <1>1 DEF SameDocs, Kept, Exists
<1>4. \A d \in Docs : doc[d].ver <= doc'[d].ver
  BY <1>1, VersionsAreNumbers
<1> QED BY <1>1, <1>2, <1>3, <1>4 DEF AddsNothing, FromPlan

(* Documents only get newer. *)
LEMMA DomainWritesAddNothing ==
  ASSUME IInv, NEW D \in SUBSET Docs, Rewritten(D)
  PROVE  AddsNothing
<1>1. UNCHANGED <<lease, row, wire, pc, plan>>
  BY DEF Rewritten, drainVars
<1>2. ASSUME NEW d \in Docs
      PROVE  doc[d].ver <= doc'[d].ver
  <2>1. doc[d] \in DocRecords /\ doc[d].ver \in Nat
    BY VersionsAreNumbers DEF IInv, TypeOK
  <2>2. doc'[d] \in {doc[d], Touched(d), Removed(d)}
    BY DEF Rewritten
  <2>3. Touched(d).ver = doc[d].ver + 1 /\ Removed(d).ver = doc[d].ver
    BY <2>1 DEF Touched, Removed, DocRecords
  <2> QED BY <2>1, <2>2, <2>3
<1> QED BY <1>1, <1>2 DEF AddsNothing, FromPlan

-----------------------------------------------------------------------------
(* Steps that plan, send and apply. *)

(* What is planned now is as new as the documents. *)
LEMMA PlanningKeepsOrder ==
  ASSUME IInv, RowsInv, RowsOrdered, NEW r \in Runs, NEW j \in Jobs, PlanJob(r, j)
  PROVE  RowsOrdered' /\ SameDocs /\ UNCHANGED <<row, stray>>
<1>1. /\ UNCHANGED <<doc, row, stray, wire, lease, pc>> /\ pc[r] = "plan"
      /\ plan' = [plan EXCEPT ![r] = @ \cup PlannedWrites(j)]
      /\ job[j].status # "free" /\ ~PlanThrows(j)
  <2>1. j \in todo[r]
    BY DEF PlanJob, IsNext
  <2> QED BY <2>1 DEF PlanJob, domainVars, IInv, ListsMatchLabel
<1>2. SameDocs
  BY <1>1 DEF SameDocs, Kept, Exists
<1>3. \A w \in PlannedWrites(j) :
        /\ w \in Writes
        /\ w.op = "upsert" => w.ver = doc[w.doc].ver
        /\ w.op = "delete" => w.ver = 0
  BY <1>1, PlannedAreCurrent DEF Current
<1>4. ASSUME NEW w \in PlannedWrites(j)
      PROVE  w.doc \in Docs /\ w.ver \in Nat /\ w.ver <= doc[w.doc].ver
  <2>1. w.doc \in Docs /\ w.op \in {"upsert", "delete"}
    BY <1>3 DEF Writes
  <2>2. doc[w.doc].ver \in Nat
    BY <2>1, VersionsAreNumbers
  <2> QED BY <1>3, <2>1, <2>2
<1>5. /\ plan'[r] = plan[r] \cup PlannedWrites(j)
      /\ \A s \in Runs \ {r} : plan'[s] = plan[s]
  BY <1>1, RunsTyped
<1>6. NothingFromTheFuture'
  BY <1>1, <1>4, <1>5 DEF RowsOrdered, NothingFromTheFuture
<1>7. ASSUME NEW s \in Runs, lease.owner = s, NEW w \in plan'[s],
             w.st = "planned", w.op = "upsert"
      PROVE  Newest(s, w)'
  <2>1. CASE w \in plan[s]
    <3>1. Newest(s, w)
      BY <1>7, <2>1 DEF RowsOrdered, OwnerIsNewest
    <3> QED BY <1>1, <1>5, <3>1 DEF Newest, Unsent
  <2>2. CASE w \notin plan[s]
    <3>1. w \in PlannedWrites(j) /\ s = r
      BY <1>5, <1>7, <2>2
    <3>2. w.ver = doc[w.doc].ver /\ w.doc \in Docs
      BY <1>3, <1>4, <1>7, <3>1
    <3>3. /\ row[w.doc] <= w.ver
          /\ \A q \in wire : q.doc = w.doc => q.ver <= w.ver
          /\ \A t \in Runs : \A v \in Unsent(plan[t]) : v.doc = w.doc => v.ver <= w.ver
      BY <3>2 DEF RowsOrdered, NothingFromTheFuture, Unsent
    <3> QED BY <1>1, <1>5, <3>1, <3>3 DEF Newest, Unsent
  <2> QED BY <2>1, <2>2
<1> QED BY <1>1, <1>2, <1>6, <1>7 DEF RowsOrdered, OwnerIsNewest

(* A request is no newer than what the sender, or the owner, has planned. *)
LEMMA SendingKeepsOrder ==
  ASSUME IInv, RowsInv, RowsOrdered, NEW r \in Runs, NEW d \in Docs,
         NEW op \in {"upsert", "delete"}, Send(r, d, op)
  PROVE  RowsOrdered' /\ SameDocs /\ UNCHANGED <<row, stray>>
<1>1. /\ UNCHANGED <<doc, row, stray, lease, plan>> /\ pc[r] = "write"
      /\ pc' = [pc EXCEPT ![r] = "await"]
      /\ ~Conflicting(Group(r, d, op))
  BY DEF Send, Goto
<1>2. SameDocs
  BY <1>1 DEF SameDocs, Kept, Exists
<1>3. PICK w \in Group(r, d, op) :
        \E q : wire' = wire \cup {q} /\ q.doc = d /\ q.ver = w.ver
  <2>1. PICK w \in Group(r, d, op) : wire' = wire \cup
           {[run |-> r, doc |-> d, op |-> op, ver |-> w.ver,
             structural |-> op = "delete" \/ row[d] = 0,
             landed |-> FALSE, n |-> 0]}
    BY DEF Send
  <2> DEFINE q == [run |-> r, doc |-> d, op |-> op, ver |-> w.ver,
                   structural |-> op = "delete" \/ row[d] = 0,
                   landed |-> FALSE, n |-> 0]
  <2>2. q.doc = d /\ q.ver = w.ver /\ wire' = wire \cup {q}
    BY <2>1
  <2> HIDE DEF q
  <2> QED BY <2>2
<1>4. w \in Unsent(plan[r]) /\ w.doc = d /\ w.op = op
  BY <1>3, GroupOfRow
<1>5. NothingFromTheFuture'
  BY <1>1, <1>3, <1>4 DEF RowsOrdered, NothingFromTheFuture, Unsent
<1>6. ASSUME NEW s \in Runs, lease.owner = s, NEW v \in plan[s],
             v.st = "planned", v.op = "upsert"
      PROVE  Newest(s, v)'
  <2>1. Newest(s, v)
    BY <1>6 DEF RowsOrdered, OwnerIsNewest
  <2>2. ASSUME v.doc = d
        PROVE  w.ver <= v.ver
    <3>1. CASE s # r
      BY <1>1, <1>4, <2>1, <2>2, <3>1 DEF Newest
    <3>2. CASE s = r /\ op = "upsert"
      <4>1. v \in Group(r, d, op)
        BY <1>6, <2>2, <3>2, GroupOfRow DEF Unsent
      <4>2. v.ver = w.ver
        BY <1>1, <1>3, <4>1 DEF Conflicting
      <4> QED BY <1>6, <4>2, VersionsAreNumbers
    <3>3. CASE op = "delete"
      <4>1. w.ver = 0
        BY <1>4, <3>3 DEF RowsInv, DeletedStay, Unsent
      <4> QED BY <1>6, <4>1, VersionsAreNumbers
    <3> QED BY <3>1, <3>2, <3>3
  <2>3. \A t \in Runs : pc'[t] \in {"write", "await"} => pc[t] \in {"write", "await"}
    BY <1>1, RunsTyped
  <2> QED BY <1>1, <1>3, <2>1, <2>2, <2>3 DEF Newest, Unsent
<1> QED BY <1>1, <1>2, <1>5, <1>6 DEF RowsOrdered, OwnerIsNewest

(* A request that takes effect is on the wire before; the owner's moves its row
   forward, or removes the row of a document that is gone. *)
LEMMA LandingKeepsOrder ==
  ASSUME IInv, RowsInv, RowsOrdered, NEW q \in wire, Land(q)
  PROVE  /\ RowsOrdered' /\ SameDocs /\ q.doc \in Docs
         /\ row' = [row EXCEPT ![q.doc] = row'[q.doc]]
         /\ stray' = [stray EXCEPT ![q.doc] = stray'[q.doc]]
         /\ row'[q.doc] \in 0 .. doc[q.doc].ver /\ stray'[q.doc] \in BOOLEAN
         /\ ~stray'[q.doc] /\ row'[q.doc] < row[q.doc] =>
              row'[q.doc] = 0 /\ ~Exists(q.doc)
<1> DEFINE new == IF q.op = "upsert" THEN q.ver ELSE 0
           landed == [q EXCEPT !.landed = TRUE]
<1>1. /\ UNCHANGED <<doc, lease, pc, plan>>
      /\ row' = [row EXCEPT ![q.doc] = new]
      /\ stray' = [stray EXCEPT ![q.doc] = lease.owner # q.run \/ q.run = Lost]
      /\ wire' = (wire \ {q}) \cup (IF q.run = Lost THEN {} ELSE {landed})
  BY DEF Land
<1>2. /\ q \in Requests /\ q.doc \in Docs /\ q.op \in {"upsert", "delete"}
      /\ q.ver \in Nat /\ new \in Nat /\ new <= q.ver
      /\ landed.doc = q.doc /\ landed.ver = q.ver
  BY VersionsAreNumbers DEF IInv, TypeOK, Requests
<1> HIDE DEF new, landed
<1>3. SameDocs
  BY <1>1 DEF SameDocs, Kept, Exists
<1>4. \A p \in wire' : \E o \in wire : o.doc = p.doc /\ o.ver = p.ver
  BY <1>1, <1>2
<1>5. /\ row'[q.doc] = new /\ \A d \in Docs \ {q.doc} : row'[d] = row[d]
      /\ stray'[q.doc] = (lease.owner # q.run \/ q.run = Lost)
  BY <1>1, <1>2 DEF IInv, TypeOK
<1>6. new <= doc[q.doc].ver
  <2>1. q.ver <= doc[q.doc].ver /\ doc[q.doc].ver \in Nat
    BY <1>2, VersionsAreNumbers DEF RowsOrdered, NothingFromTheFuture
  <2> QED BY <1>2, <2>1
<1>7. NothingFromTheFuture'
  BY <1>1, <1>4, <1>5, <1>6 DEF RowsOrdered, NothingFromTheFuture
<1>8. ASSUME NEW s \in Runs, lease.owner = s, NEW v \in plan[s],
             v.st = "planned", v.op = "upsert"
      PROVE  Newest(s, v)'
  <2>1. Newest(s, v) /\ v.doc \in Docs /\ v.ver \in Nat
    BY <1>8, VersionsAreNumbers DEF RowsOrdered, OwnerIsNewest
  <2>2. row'[v.doc] <= v.ver
    <3>1. CASE v.doc = q.doc
      BY <1>2, <1>5, <2>1, <3>1 DEF Newest
    <3>2. CASE v.doc # q.doc
      BY <1>5, <2>1, <3>2 DEF Newest
    <3> QED BY <3>1, <3>2
  <2>3. \A p \in wire' : p.doc = v.doc => p.ver <= v.ver
    BY <1>4, <2>1 DEF Newest
  <2> QED BY <1>1, <2>1, <2>2, <2>3 DEF Newest, Unsent
<1>9. ASSUME ~stray'[q.doc], new < row[q.doc]
      PROVE  new = 0 /\ ~Exists(q.doc)
  <2>1. lease.owner = q.run /\ q.run \in Runs
    BY <1>2, <1>5, <1>9 DEF Requests
  <2>2. Matches(q)
    BY <2>1 DEF RowsInv, InFlight
  <2>3. PICK w \in Group(q.run, q.doc, q.op) : w.ver = q.ver
    BY <2>2 DEF Matches
  <2>4. w \in plan[q.run] /\ w.st = "planned" /\ w.doc = q.doc /\ w.op = q.op
    BY <2>1, <2>3, GroupOfRow DEF Unsent
  <2>5. CASE q.op = "upsert"
    <3>1. row[q.doc] <= q.ver
      BY <2>1, <2>3, <2>4, <2>5 DEF RowsOrdered, OwnerIsNewest, Newest
    <3>2. new = q.ver
      BY <2>5 DEF new
    <3> QED BY <1>2, <1>9, <3>1, <3>2, VersionsAreNumbers
  <2>6. CASE q.op = "delete"
    <3>1. Gone(w.doc)
      BY <2>1, <2>4, <2>6 DEF RowsInv, DeletedStay
    <3> QED BY <2>4, <2>6, <3>1 DEF new, Gone
  <2> QED BY <1>2, <2>5, <2>6
<1>10. RowsOrdered'
  BY <1>1, <1>7, <1>8 DEF RowsOrdered, OwnerIsNewest
<1>11. new \in 0 .. doc[q.doc].ver
  BY <1>2, <1>6, VersionsAreNumbers
<1>12. stray'[q.doc] \in BOOLEAN
  BY <1>5
<1>13. /\ row' = [row EXCEPT ![q.doc] = row'[q.doc]]
       /\ stray' = [stray EXCEPT ![q.doc] = stray'[q.doc]]
  BY <1>1, <1>5
<1> QED BY <1>2, <1>3, <1>5, <1>9, <1>10, <1>11, <1>12, <1>13

-----------------------------------------------------------------------------
(* Every step, and what it is to the mirror. *)

(* The steps that are neither a domain write nor a landing. *)
QuietNext ==
  \/ \E r \in Runs : RunStep(r) \/ Disturb(r)
  \/ ExpireLost \/ RaiseFence \/ LowerFence \/ \E j \in Jobs : AdminRetry(j)
  \/ UNCHANGED vars

(* They leave documents and rows alone. *)
LEMMA QuietSteps ==
  ASSUME IInv, IInv', RowsInv, RowsOrdered, QuietNext
  PROVE  RowsOrdered' /\ SameDocs /\ UNCHANGED <<row, stray>>
<1>1. ASSUME AddsNothing
      PROVE  RowsOrdered'
  BY <1>1, AddingNothingKeepsOrder
<1>2. ASSUME NEW r \in Runs, RunStep(r)
      PROVE  RowsOrdered' /\ SameDocs /\ UNCHANGED <<row, stray>>
  <2>1. CASE \/ Start(r) \/ Claim(r) \/ Check(r) \/ BeginWrite(r)
             \/ AllSettled(r) \/ Finish(r) \/ Abort(r)
             \/ \E j \in Jobs : PlanFails(r, j) \/ SettleJob(r, j)
    BY <1>1, <2>1, SettlingAddsNothing
  <2>2. CASE \E j \in Jobs : PlanJob(r, j)
    BY <2>2, PlanningKeepsOrder
  <2>3. CASE \E d \in Docs, op \in {"upsert", "delete"} : Send(r, d, op)
    BY <2>3, SendingKeepsOrder
  <2>4. CASE \/ \E d \in Docs, op \in {"upsert", "delete"} : SkipRequest(r, d, op)
             \/ \E q \in wire : Answer(r, q)
    BY <1>1, <2>4, OutcomesAddNothing
  <2>5. CASE Persist(r)
    BY <1>1, <2>5, PersistingAddsNothing
  <2> QED BY <1>2, <2>1, <2>2, <2>3, <2>4, <2>5 DEF RunStep
<1>3. ASSUME NEW r \in Runs, Disturb(r)
      PROVE  RowsOrdered' /\ SameDocs /\ UNCHANGED <<row, stray>>
  <2>1. CASE OutOfTime(r) \/ Stall(r)
    BY <1>1, <2>1, SettlingAddsNothing
  <2>2. CASE \/ \E d \in Docs, op \in {"upsert", "delete"} : QuotaDenied(r, d, op)
             \/ \E q \in wire : Reject(r, q) \/ Unconfirmed(r, q)
    BY <1>1, <2>2, OutcomesAddNothing
  <2>3. CASE Crash(r)
    BY <1>1, <2>3, PersistingAddsNothing
  <2> QED BY <1>3, <2>1, <2>2, <2>3 DEF Disturb
<1>4. CASE \/ ExpireLost \/ RaiseFence \/ LowerFence \/ UNCHANGED vars
           \/ \E j \in Jobs : AdminRetry(j)
  BY <1>1, <1>4, EnvironmentAddsNothing
<1> QED BY <1>2, <1>3, <1>4 DEF QuietNext

(* A step is quiet, a domain write, or a landing. *)
LEMMA StepsAre ==
  ASSUME [Next]_vars
  PROVE  QuietNext \/ DomainWrite \/ \E q \in wire : Land(q)
BY DEF Next, QuietNext

(* Every step keeps rows, requests and plans in order. *)
LEMMA OrderStep ==
  ASSUME IInv, IInv', RowsInv, RowsOrdered, [Next]_vars
  PROVE  RowsOrdered'
<1>1. CASE QuietNext
  BY <1>1, QuietSteps
<1>2. CASE DomainWrite
  BY <1>2, DomainWritesRewrite, DomainWritesAddNothing, AddingNothingKeepsOrder
<1>3. CASE \E q \in wire : Land(q)
  BY <1>3, LandingKeepsOrder
<1> QED BY <1>1, <1>2, <1>3, StepsAre

(* Only a landing changes a row. *)
LEMMA ForwardStep ==
  ASSUME IInv, IInv', RowsInv, RowsOrdered, [Next]_vars
  PROVE  \A d \in Docs : row'[d] < row[d] /\ ~stray'[d] => row'[d] = 0 /\ ~Exists(d)
<1>0. \A d \in Docs : row[d] \in Nat
  BY VersionsAreNumbers
<1>1. CASE UNCHANGED row
  BY <1>0, <1>1
<1>2. ASSUME NEW q \in wire, Land(q)
      PROVE  \A d \in Docs : row'[d] < row[d] /\ ~stray'[d] => row'[d] = 0 /\ ~Exists(d)
  <2>1. \A d \in Docs \ {q.doc} : row'[d] = row[d]
    BY <1>2 DEF Land
  <2> QED BY <1>0, <1>2, <2>1, LandingKeepsOrder
<1>3. CASE DomainWrite
  BY <1>1, <1>3, DomainWritesRewrite DEF Rewritten, drainVars
<1>4. CASE QuietNext
  BY <1>1, <1>4, QuietSteps
<1> QED BY <1>2, <1>3, <1>4, StepsAre

(* Nothing is planned, sent or shown at first. *)
LEMMA InitEstablishesOrder == Init => RowsOrdered
BY DEF Init, RowsOrdered, NothingFromTheFuture, OwnerIsNewest

(* The three invariants hold in every reachable state. *)
LEMMA RowsInvariants == Spec => [](IInv /\ RowsInv /\ RowsOrdered)
<1>1. IInv /\ RowsInv /\ [Next]_vars => RowsInv'
  BY RowsStep
<1>2. IInv /\ IInv' /\ RowsInv /\ RowsOrdered /\ [Next]_vars => RowsOrdered'
  BY OrderStep
<1> QED BY InductiveInvariant, InitEstablishesRows, InitEstablishesOrder,
           <1>1, <1>2, PTL DEF Spec

(* Whatever runs overlap, stall, are killed or are retried: the owner of the
   lease writes no row back to an older version of its document, and removes a
   row only when its document is gone. *)
THEOREM RowsNeverMoveBack == Spec => RowsMoveForward
<1>1. IInv /\ IInv' /\ RowsInv /\ RowsOrdered /\ [Next]_vars =>
        [\A d \in Docs : row'[d] < row[d] /\ ~stray'[d] =>
           row'[d] = 0 /\ ~Exists(d)]_vars
  BY ForwardStep
<1> QED BY RowsInvariants, <1>1, PTL DEF Spec, RowsMoveForward

-----------------------------------------------------------------------------
(* Sheet Sync implements SheetMirror. *)

(* Rows that nothing is owed for are settled, as SheetMirror says it. *)
LEMMA MirrorSettled ==
  ASSUME SettledRowsAreCurrent'
  PROVE  \A d \in Docs : Mirror!Settled(d)'
BY DEF SettledRowsAreCurrent, Mirror!Settled, Mirror!Shown, Desired, Kept, Exists

(* A quiet step strikes off debts that are paid. *)
LEMMA QuietIsSettle ==
  ASSUME SettledRowsAreCurrent', SameDocs, UNCHANGED <<row, stray>>
  PROVE  Mirror!Settle
<1>1. /\ [d \in Docs |-> doc'[d].ver] = [d \in Docs |-> doc[d].ver]
      /\ [d \in Docs |-> doc'[d].exists] = [d \in Docs |-> doc[d].exists]
      /\ {d \in Docs : Kept(d)}' = {d \in Docs : Kept(d)}
  BY DEF SameDocs
<1> QED BY <1>1, MirrorSettled DEF Mirror!Settle, Exists

(* A landing writes one row. *)
LEMMA LandingIsWrite ==
  ASSUME IInv, IInv', RowsInv, RowsOrdered, SettledRowsAreCurrent',
         NEW q \in wire, Land(q)
  PROVE  Mirror!Write(q.doc) \/ Mirror!Stray(q.doc)
<1>1. /\ SameDocs /\ q.doc \in Docs
      /\ row' = [row EXCEPT ![q.doc] = row'[q.doc]]
      /\ stray' = [stray EXCEPT ![q.doc] = stray'[q.doc]]
      /\ row'[q.doc] \in 0 .. doc[q.doc].ver /\ stray'[q.doc] \in BOOLEAN
      /\ ~stray'[q.doc] /\ row'[q.doc] < row[q.doc] =>
           row'[q.doc] = 0 /\ ~Exists(q.doc)
  BY LandingKeepsOrder
<1>2. UNCHANGED <<doc, job>>
  BY DEF Land
<1>3. /\ [d \in Docs |-> doc'[d].ver] = [d \in Docs |-> doc[d].ver]
      /\ {d \in Docs : Kept(d)}' = {d \in Docs : Kept(d)}
      /\ {d \in Docs : Outstanding(d)}' = {d \in Docs : Outstanding(d)}
  BY <1>2 DEF Kept, Outstanding, Covers, Exists
<1>4. [d \in Docs |-> Exists(d)]' = [d \in Docs |-> Exists(d)]
  BY <1>2 DEF Exists
<1>5. CASE ~stray'[q.doc]
  <2>1. stray' = [stray EXCEPT ![q.doc] = FALSE]
    BY <1>1, <1>5
  <2> QED BY <1>1, <1>3, <1>4, <1>5, <2>1, MirrorSettled DEF Mirror!Write
<1>6. CASE stray'[q.doc]
  <2>1. stray' = [stray EXCEPT ![q.doc] = TRUE]
    BY <1>1, <1>6
  <2> QED BY <1>1, <1>3, <1>4, <1>6, <2>1 DEF Mirror!Stray
<1> QED BY <1>1, <1>5, <1>6

(* A row of the outbox that covers a document is covered by another one when it
   is cancelled. *)
LEMMA StaysOutstanding ==
  ASSUME IInv, NEW D \in SUBSET Docs, Rewritten(D), NEW d \in Docs
  PROVE  /\ d \in D => Outstanding(d)'
         /\ Outstanding(d) => Outstanding(d)'
<1>1. ASSUME d \in D
      PROVE  Outstanding(d)'
  <2>1. PICK j \in Jobs : job'[j].status \in Active /\ Serves(j, d)'
    BY <1>1 DEF Rewritten
  <2> QED BY <2>1 DEF Outstanding, Serves, Covers
<1>2. ASSUME d \notin D, Outstanding(d)
      PROVE  Outstanding(d)'
  <2>1. PICK j \in Jobs : /\ job[j].status \in Active \cup {"processing", "failed"}
                          /\ Covers(j, d)
    BY <1>2 DEF Outstanding
  <2>2. JobRewritten(D, j)
    BY DEF Rewritten
  <2>3. /\ job'[j].status \in Active \cup {"processing", "failed"}
        /\ job'[j].key = job[j].key
    BY <1>2, <2>1, <2>2 DEF JobRewritten, Active, Covers
  <2> QED BY <2>1, <2>3 DEF Outstanding, Covers
<1> QED BY <1>1, <1>2

(* A domain write changes its documents and owes them their rows. *)
LEMMA DomainWriteIsChange ==
  ASSUME IInv, IInv', RowsInv, DomainWrite
  PROVE  \E D \in SUBSET Docs : Mirror!Change(D)
<1>1. PICK D \in SUBSET Docs : Rewritten(D)
  BY DomainWritesRewrite
<1> DEFINE ver == [d \in Docs |-> doc[d].ver]
<1>2. /\ doc \in [Docs -> DocRecords] /\ doc' \in [Docs -> DocRecords]
      /\ MaxVersion \in Nat
  BY SheetSyncAssumption DEF IInv, TypeOK
<1>3. /\ [d \in Docs |-> doc'[d].ver] \in [Docs -> Nat]
      /\ [d \in Docs |-> doc'[d].exists] \in [Docs -> BOOLEAN]
  BY <1>2 DEF DocRecords
<1>4. ASSUME NEW d \in D
      PROVE  Mirror!Touch(d) \/ Mirror!Remove(d)
  <2>1. d \in Docs /\ doc[d] \in DocRecords
    BY <1>2
  <2>2. CASE CanTouch(d) /\ doc'[d] = Touched(d)
    <3>1. doc'[d].ver = doc[d].ver + 1 /\ doc'[d].exists
      BY <2>1, <2>2 DEF Touched, DocRecords
    <3>2. doc[d].exists \/ doc[d].ver = 0
      BY <2>2 DEF CanTouch, Exists
    <3>3. d \in {e \in Docs : Kept(e)}'
      BY <2>1, <3>1 DEF Kept, Exists
    <3> QED BY <2>1, <3>1, <3>2, <3>3 DEF Mirror!Touch, Exists
  <2>3. CASE Exists(d) /\ doc'[d] = Removed(d)
    <3>1. doc'[d].ver = doc[d].ver /\ ~doc'[d].exists
      BY <2>1, <2>3 DEF Removed, DocRecords
    <3> QED BY <2>1, <2>3, <3>1 DEF Mirror!Remove, Exists
  <2> QED BY <1>1, <2>2, <2>3 DEF Rewritten
<1>5. ASSUME NEW d \in Docs \ D
      PROVE  /\ doc'[d] = doc[d]
             /\ Kept(d)' <=> Kept(d)
  BY <1>1 DEF Rewritten, Kept, Exists
<1>6. {d \in Docs : Outstanding(d)} \cup D \subseteq {d \in Docs : Outstanding(d)}'
  BY <1>1, StaysOutstanding
<1>7. UNCHANGED <<row, stray>>
  BY <1>1 DEF Rewritten, drainVars
<1>8. Mirror!Change(D)
  BY <1>3, <1>4, <1>5, <1>6, <1>7 DEF Mirror!Change, Exists
<1> QED BY <1>8

(* At first there is neither document nor debt nor row. *)
LEMMA InitIsMirrored == Init => Mirror!Init
<1> SUFFICES ASSUME Init PROVE Mirror!Init
  OBVIOUS
<1>1. \A d \in Docs : ~Outstanding(d)
  BY DEF Init, Outstanding, FreeJob, Active
<1>2. /\ [d \in Docs |-> doc[d].ver] = [d \in Docs |-> 0]
      /\ [d \in Docs |-> doc[d].exists] = [d \in Docs |-> FALSE]
      /\ row = [d \in Docs |-> 0] /\ stray = [d \in Docs |-> FALSE]
  BY DEF Init
<1> QED BY <1>1, <1>2 DEF Mirror!Init, Exists

(* Every step is a step of the mirror. *)
LEMMA MirrorStep ==
  ASSUME IInv, IInv', RowsInv, RowsOrdered, SettledRowsAreCurrent', [Next]_vars
  PROVE  [Mirror!Next]_(Mirror!vars)
<1>1. CASE QuietNext
  BY <1>1, QuietSteps, QuietIsSettle DEF Mirror!Next
<1>2. CASE DomainWrite
  BY <1>2, DomainWriteIsChange DEF Mirror!Next
<1>3. ASSUME NEW q \in wire, Land(q)
      PROVE  Mirror!Next
  <2>1. q.doc \in Docs
    BY VersionsAreNumbers
  <2> QED BY <1>3, <2>1, LandingIsWrite DEF Mirror!Next
<1> QED BY <1>1, <1>2, <1>3, StepsAre

(* Outbox and drainer together keep the promise of SheetMirror: a change owes
   its documents a row from the step that commits it, rows are written forward
   only, and a debt is struck off only when the row is the document. *)
THEOREM SheetIsAMirror == Spec => MirrorsDocuments
<1>1. IInv /\ IInv' /\ RowsInv /\ RowsOrdered /\ SettledRowsAreCurrent' /\ [Next]_vars
        => [Mirror!Next]_(Mirror!vars)
  BY MirrorStep
<1> QED BY RowsInvariants, SettledRowsStayCurrent, InitIsMirrored, <1>1, PTL
        DEF Spec, MirrorsDocuments, Mirror!Spec
=============================================================================
