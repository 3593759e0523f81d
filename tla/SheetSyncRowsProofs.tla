------------------------ MODULE SheetSyncRowsProofs ------------------------
(* Once nothing is outstanding for a document, its row is the document: the
   inductive invariant behind SettledRowsAreCurrent, for every number of
   documents, runs, jobs and disruptions. *)
EXTENDS SheetSyncProofs, FiniteSetTheorems

(* A document that was deleted; it does not come back. *)
Gone(d) == ~Exists(d) /\ doc[d].ver > 0

(* The write would leave the row as the document is now. *)
Current(w) ==
  IF w.op = "upsert" THEN Exists(w.doc) /\ w.ver = doc[w.doc].ver
                     ELSE ~Exists(w.doc)

(* A run that planned the job now would write the row of d. *)
Serves(j, d) ==
  \/ /\ job[j].key.id = d
     /\ d \in Leads \/ Allowed(j, d)
     /\ d \in Leads \/ Exists(d) \/ job[j].key.res \in Tombstones
  \/ /\ job[j].key.res = "booking_chain" /\ Exists(job[j].key.id)
     /\ LeadOf[job[j].key.id] = d

(* A run that lost the lease will fail its next check, unless it settles a job
   for which it has passed it. *)
Doomed(r) == lease.owner # r /\ ~(pc[r] = "settle" /\ ok[r])

(* Run r, which has claimed j, is to give it back. *)
Returning(r, j) ==
  r = Lost \/ ~job[j].live \/ j \notin work[r] \/ pc[r] = "failing" \/ Doomed(r)

(* A write that failed or waits, or is yet to bring the row up to date. *)
Unsettled(w) ==
  w.st \in {"failed", "deferred"} \/ (w.st = "planned" /\ Current(w))

Due(r, j, d) == \E w \in plan[r] : w.job = j /\ w.doc = d /\ Unsettled(w)

(* Job j will not be settled for good before d's row has been written again. *)
Pledged(j, d) ==
  /\ job[j].status \in Active \cup {"failed", "processing"}
  /\ Serves(j, d)
  /\ job[j].status = "processing" =>
       Returning(job[j].run, j) \/ Due(job[j].run, j, d)

Upcoming(d) == \E j \in Jobs : Pledged(j, d)

(* A row is current, or will be written again. *)
RowsKept ==
  \A d \in Docs :
    Kept(d) /\ ~stray[d] => row[d] = Desired(d) \/ Upcoming(d)

(* What the owner of the lease will still write although it is outdated, will
   be written over. *)
StaleCovered ==
  \A r \in Runs : lease.owner = r =>
    \A w \in plan[r] :
      w.st = "planned" /\ ~Current(w) /\ Kept(w.doc) => Upcoming(w.doc)

(* Tombstones and deletions are those of deleted documents. *)
DeletedStay ==
  /\ \A d \in Docs : Exists(d) => doc[d].ver > 0
  /\ \A j \in Jobs : job[j].status # "free" =>
       /\ job[j].key.res \in Tombstones => Gone(job[j].key.id)
       /\ job[j].key.res \in {"booked_lead", "delete_booked_lead"} =>
            job[j].key.id \notin Leads
       /\ job[j].key.res = "delete_booked_lead" /\ Kept(job[j].key.id) =>
            job[j].located
  /\ \A r \in Runs : \A w \in plan[r] : w.op = "delete" => Gone(w.doc) /\ w.ver = 0

(* A request that a run awaits carries what the run planned for the row, after
   every upsert if it deletes; once it has landed the row shows it. *)
Matches(q) ==
  LET r == q.run IN
  /\ pc[r] = "await"
  /\ Group(r, q.doc, q.op) # {}
  /\ \A w \in Group(r, q.doc, q.op) : w.ver = q.ver
  /\ q.op = "delete" => \A w \in Unsent(plan[r]) : w.op = "delete"
  /\ q.landed /\ r = lease.owner /\ ~stray[q.doc] => row[q.doc] = q.ver

InFlight ==
  /\ \A q \in wire : q.run \in Runs => Matches(q)
  /\ \A p, q \in wire : p.run \in Runs /\ p.run = q.run => p = q

(* What a run has planned by where it is. *)
PlansMatchLabel ==
  \A r \in Runs :
    /\ pc[r] \in {"idle", "claim"} => plan[r] = {}
    /\ pc[r] \in {"persist", "settle", "finish"} => Unsent(plan[r]) = {}

RowsInv == RowsKept /\ StaleCovered /\ DeletedStay /\ InFlight /\ PlansMatchLabel

-----------------------------------------------------------------------------
(* What a step of a run leaves true. *)

SameDocs ==
  \A d \in Docs : /\ doc'[d].exists = doc[d].exists /\ doc'[d].ver = doc[d].ver
                  /\ Kept(d)' <=> Kept(d)

OthersStay(r) ==
  \A s \in Runs \ {r} : /\ pc'[s] = pc[s] /\ ok'[s] = ok[s]
                        /\ work'[s] = work[s] /\ plan'[s] = plan[s]

(* The unsettled writes for d in r's plan stay unsettled. *)
StaysUnsettled(r, d) ==
  \A w \in plan[r] : w.doc = d /\ Unsettled(w) =>
    \E v \in plan'[r] : v.job = w.job /\ v.doc = d /\ (Unsettled(v))'

(* Equal documents agree on what is current and what is served. *)
LEMMA SameDocuments ==
  ASSUME IInv, SameDocs
  PROVE  /\ \A d \in Docs : /\ Kept(d)' <=> Kept(d)
                            /\ Desired(d)' = Desired(d)
                            /\ Gone(d)' <=> Gone(d)
         /\ \A w \in Writes : Current(w)' <=> Current(w)
         /\ \A j \in Jobs, d \in Docs :
              job[j].status # "free" /\ job'[j] = job[j] =>
                (Serves(j, d)' <=> Serves(j, d))
<1>1. \A d \in Docs : Exists(d)' <=> Exists(d)
  BY DEF SameDocs, Exists
<1>2. \A d \in Docs : Kept(d)' <=> Kept(d)
  BY DEF SameDocs
<1>3. \A d \in Docs : Desired(d)' = Desired(d)
  BY <1>1 DEF SameDocs, Desired
<1>4. \A d \in Docs : Gone(d)' <=> Gone(d)
  BY <1>1 DEF SameDocs, Gone
<1>5. \A w \in Writes : Current(w)' <=> Current(w)
  BY <1>1 DEF SameDocs, Current, Writes
<1>6. ASSUME NEW j \in Jobs, NEW d \in Docs, job[j].status # "free", job'[j] = job[j]
      PROVE  Serves(j, d)' <=> Serves(j, d)
  <2>1. job[j].key.id \in Docs
    BY <1>6 DEF IInv, JobsNamed, WellKeyed, Keys
  <2> QED BY <1>1, <1>6, <2>1 DEF Serves, Allowed
<1> QED BY <1>2, <1>3, <1>4, <1>5, <1>6

(* A job that a step leaves alone keeps its pledge if the run that has claimed
   it fails, or goes on with what is unsettled. *)
LEMMA PledgeStays ==
  ASSUME IInv, SameDocs, NEW j \in Jobs, NEW d \in Docs, Pledged(j, d),
         job'[j] = job[j],
         job[j].status = "processing" /\ job[j].run \in Runs =>
           \/ Doomed(job[j].run)' \/ pc'[job[j].run] = "failing"
           \/ /\ j \in work'[job[j].run] => j \in work[job[j].run]
              /\ pc[job[j].run] # "failing" /\ ~Doomed(job[j].run)
              /\ StaysUnsettled(job[j].run, d)
  PROVE  Pledged(j, d)'
<1>1. Serves(j, d)'
  BY SameDocuments DEF Pledged, Active
<1>2. ASSUME job[j].status = "processing"
      PROVE  (Returning(job[j].run, j) \/ Due(job[j].run, j, d))'
  <2>1. job[j].run = Lost \/ job[j].run \in Runs
    BY <1>2 DEF IInv, NoProcessingLeak
  <2>2. CASE job[j].run = Lost
    BY <2>2 DEF Returning
  <2>3. CASE /\ job[j].run \in Runs
             /\ Doomed(job[j].run)' \/ pc'[job[j].run] = "failing"
    BY <2>3 DEF Returning
  <2>4. CASE /\ job[j].run \in Runs
             /\ j \in work'[job[j].run] => j \in work[job[j].run]
             /\ pc[job[j].run] # "failing" /\ ~Doomed(job[j].run)
             /\ StaysUnsettled(job[j].run, d)
    <3>1. CASE job[j].run = Lost \/ ~job[j].live \/ j \notin work[job[j].run]
      BY <2>4, <3>1 DEF Returning
    <3>2. CASE Due(job[j].run, j, d)
      BY <2>4, <3>2 DEF Due, StaysUnsettled
    <3> QED BY <1>2, <2>4, <3>1, <3>2 DEF Pledged, Returning
  <2> QED BY <1>2, <2>1, <2>2, <2>3, <2>4
<1> QED BY <1>1, <1>2 DEF Pledged

(* What is unsettled in a plan that stays is unsettled. *)
LEMMA SamePlan ==
  ASSUME IInv, SameDocs, NEW r \in Runs, NEW d \in Docs, plan[r] \subseteq plan'[r]
  PROVE  StaysUnsettled(r, d)
<1>1. plan[r] \subseteq Writes
  BY DEF IInv, TypeOK
<1>2. \A w \in plan[r] : Unsettled(w)' <=> Unsettled(w)
  BY <1>1, SameDocuments DEF Unsettled
<1> QED BY <1>2 DEF StaysUnsettled

(* The runs that are not in a step keep the pledges of their jobs. *)
LEMMA OthersKeep ==
  ASSUME IInv, SameDocs, NEW r \in Runs, OthersStay(r),
         lease'.owner \in {lease.owner, r, None, Lost},
         NEW j \in Jobs, NEW d \in Docs, Pledged(j, d), job'[j] = job[j],
         job[j].status = "processing" => job[j].run # r
  PROVE  Pledged(j, d)'
<1> SUFFICES ASSUME job[j].status = "processing", job[j].run \in Runs
             PROVE  \/ Doomed(job[j].run)' \/ pc'[job[j].run] = "failing"
                    \/ /\ work'[job[j].run] = work[job[j].run]
                       /\ pc[job[j].run] # "failing" /\ ~Doomed(job[j].run)
                       /\ StaysUnsettled(job[j].run, d)
  BY PledgeStays
<1> DEFINE s == job[j].run
<1>1. s \in Runs \ {r} /\ s # None /\ s # Lost
  BY SheetSyncAssumption
<1>2. /\ pc'[s] = pc[s] /\ ok'[s] = ok[s]
      /\ work'[s] = work[s] /\ plan'[s] = plan[s]
  BY <1>1 DEF OthersStay
<1>3. StaysUnsettled(s, d)
  BY <1>1, <1>2, SamePlan
<1>4. Doomed(s) => Doomed(s)'
  BY <1>1, <1>2 DEF Doomed
<1> QED BY <1>2, <1>3, <1>4

(* What run r has left for d after a step that the others take no part in. *)
GoesOn(r, d) ==
  \/ lease'.owner # r /\ ~(pc'[r] = "settle" /\ ok'[r])
  \/ pc'[r] = "failing"
  \/ /\ lease.owner = r /\ pc[r] # "failing"
     /\ StaysUnsettled(r, d)

(* A step of run r that leaves job j alone and plans nothing for it. *)
LEMMA RunKeeps ==
  ASSUME IInv, SameDocs, NEW r \in Runs, OthersStay(r),
         lease'.owner \in {lease.owner, r, None, Lost},
         NEW j \in Jobs, NEW d \in Docs, Pledged(j, d), job'[j] = job[j],
         GoesOn(r, d), j \in work'[r] => j \in work[r]
  PROVE  Pledged(j, d)'
<1>1. CASE job[j].status = "processing" /\ job[j].run = r
  <2>1. \/ Doomed(r)' \/ pc'[r] = "failing"
        \/ /\ pc[r] # "failing" /\ ~Doomed(r)
           /\ StaysUnsettled(r, d)
    BY DEF GoesOn, Doomed
  <2> QED BY <1>1, <2>1, PledgeStays
<1>2. CASE ~(job[j].status = "processing" /\ job[j].run = r)
  BY <1>2, OthersKeep
<1> QED BY <1>1, <1>2

(* The steps of a run between its claims and its settlements. *)
LEMMA QuietStep ==
  ASSUME IInv, SameDocs, NEW r \in Runs, OthersStay(r), UNCHANGED <<job, lease>>,
         work'[r] = work[r], NEW d \in Docs, GoesOn(r, d)
  PROVE  Upcoming(d) => Upcoming(d)'
<1> SUFFICES ASSUME Upcoming(d) PROVE Upcoming(d)'
  OBVIOUS
<1>1. PICK j \in Jobs : Pledged(j, d)
  BY DEF Upcoming
<1>2. Pledged(j, d)'
  BY <1>1, RunKeeps
<1> QED BY <1>2 DEF Upcoming

-----------------------------------------------------------------------------
(* The parts of the invariant that most steps leave alone. *)

(* The row of d is as d is, and no outdated write is left for it. *)
Done(d) ==
  /\ stray[d] \/ row[d] = Desired(d)
  /\ \A r \in Runs : lease'.owner = r =>
       \A w \in plan'[r] : w.doc = d /\ w.st = "planned" => Current(w)

(* A step that leaves documents and rows alone, drops a pledge only when the
   row is done, and adds no outdated write to the plan of the lease's owner. *)
LEMMA RowsStay ==
  ASSUME IInv, RowsInv, SameDocs, UNCHANGED <<row, stray>>,
         \A d \in Docs : Done(d) \/ (Kept(d) /\ Upcoming(d) => Upcoming(d)'),
         \A r \in Runs : lease'.owner = r =>
           \A w \in plan'[r] : w.st = "planned" =>
             \/ lease.owner = r /\ w \in plan[r]
             \/ w \in Writes /\ Current(w)
  PROVE  RowsKept' /\ StaleCovered'
<1>1. RowsKept'
  <2> SUFFICES ASSUME NEW d \in Docs, Kept(d)', ~stray'[d]
               PROVE  row'[d] = Desired(d)' \/ Upcoming(d)'
    BY DEF RowsKept
  <2>1. Kept(d) /\ Desired(d)' = Desired(d)
    BY SameDocuments
  <2> QED BY <2>1 DEF RowsInv, RowsKept, Done
<1>2. StaleCovered'
  <2> SUFFICES ASSUME NEW r \in Runs, lease'.owner = r, NEW w \in plan'[r],
                      w.st = "planned", ~Current(w)', Kept(w.doc)'
               PROVE  Upcoming(w.doc)'
    BY DEF StaleCovered
  <2>1. w \in Writes /\ w.doc \in Docs
    BY DEF IInv, TypeOK, Writes
  <2>2. ~Current(w) /\ Kept(w.doc)
    BY <2>1, SameDocuments
  <2>3. Upcoming(w.doc)
    BY <2>2 DEF RowsInv, StaleCovered
  <2> QED BY <2>1, <2>2, <2>3 DEF Done
<1> QED BY <1>1, <1>2

(* A step that keeps keys, and plans deletions of deleted documents only. *)
LEMMA DeletedStays ==
  ASSUME IInv, RowsInv, SameDocs,
         \A j \in Jobs : job'[j].status # "free" =>
                           job[j].status # "free" /\ job'[j].key = job[j].key
                                                  /\ job'[j].located = job[j].located,
         \A r \in Runs : \A w \in plan'[r] : w.op = "delete" =>
           \/ \E v \in plan[r] : v.op = w.op /\ v.doc = w.doc /\ v.ver = w.ver
           \/ w.doc \in Docs /\ Gone(w.doc) /\ w.ver = 0
  PROVE  DeletedStay'
<1>1. \A d \in Docs : Exists(d)' => doc'[d].ver > 0
  BY DEF RowsInv, DeletedStay, SameDocs, Exists
<1>2. \A d \in Docs : Gone(d) => ~doc'[d].exists /\ doc'[d].ver > 0
  BY DEF Gone, Exists, SameDocs
<1>3. ASSUME NEW j \in Jobs, job'[j].status # "free"
      PROVE  /\ job'[j].key.res \in Tombstones =>
                  /\ ~doc'[job'[j].key.id].exists
                  /\ doc'[job'[j].key.id].ver > 0
             /\ job'[j].key.res \in {"booked_lead", "delete_booked_lead"} =>
                  job'[j].key.id \notin Leads
             /\ job'[j].key.res = "delete_booked_lead" /\ Kept(job[j].key.id)' =>
                  job'[j].located
  <2>1. job[j].status # "free" /\ job'[j].key = job[j].key
                               /\ job'[j].located = job[j].located /\ job[j].key.id \in Docs
    BY <1>3 DEF IInv, JobsNamed, WellKeyed, Keys
  <2>2. Kept(job[j].key.id)' <=> Kept(job[j].key.id)
    BY <2>1 DEF SameDocs
  <2> QED BY <1>2, <2>1, <2>2 DEF RowsInv, DeletedStay
<1>4. ASSUME NEW r \in Runs, NEW w \in plan'[r], w.op = "delete"
      PROVE  ~doc'[w.doc].exists /\ doc'[w.doc].ver > 0 /\ w.ver = 0
  <2>1. CASE \E v \in plan[r] : v.op = w.op /\ v.doc = w.doc /\ v.ver = w.ver
    <3>1. PICK v \in plan[r] : v.op = w.op /\ v.doc = w.doc /\ v.ver = w.ver
      BY <2>1
    <3>2. v.doc \in Docs
      BY DEF IInv, TypeOK, Writes
    <3> QED BY <1>2, <1>4, <3>1, <3>2 DEF RowsInv, DeletedStay
  <2> QED BY <1>2, <1>4, <2>1
<1> QED BY <1>1, <1>3, <1>4 DEF DeletedStay, Gone, Exists

(* A step in which no run that awaits an answer takes part. *)
LEMMA WireStays ==
  ASSUME RowsInv, UNCHANGED <<row, stray, wire>>,
         \A s \in Runs : pc[s] = "await" =>
           /\ pc'[s] = "await" /\ plan'[s] = plan[s]
           /\ lease'.owner = s => lease.owner = s
  PROVE  InFlight'
<1>1. ASSUME NEW q \in wire, q.run \in Runs
      PROVE  Matches(q)'
  <2>1. Matches(q)
    BY <1>1 DEF RowsInv, InFlight
  <2>2. pc[q.run] = "await"
    BY <2>1 DEF Matches
  <2> QED BY <1>1, <2>1, <2>2 DEF Matches, Group, Unsent
<1>2. \A p, q \in wire : p.run \in Runs /\ p.run = q.run => p = q
  BY DEF RowsInv, InFlight
<1> QED BY <1>1, <1>2 DEF InFlight
-----------------------------------------------------------------------------
(* Outcomes of planned writes. *)

(* A plan in which every write that was unsettled has become a failed or a
   deferred one, or has stayed as it was. *)
LEMMA SettlesLater ==
  ASSUME IInv, SameDocs, NEW r \in Runs, NEW d \in Docs,
         \A w \in plan[r] : w.doc = d =>
           \/ w \in plan'[r]
           \/ w.st = "synced"
           \/ \E v \in plan'[r] : /\ v.job = w.job /\ v.doc = d
                                  /\ v.st \in {"failed", "deferred"}
  PROVE  StaysUnsettled(r, d)
<1> SUFFICES ASSUME NEW w \in plan[r], w.doc = d, Unsettled(w)
             PROVE  \E v \in plan'[r] : /\ v.job = w.job /\ v.doc = d
                                        /\ (Unsettled(v))'
  BY DEF StaysUnsettled
<1>1. w \in Writes
  BY DEF IInv, TypeOK
<1>2. CASE w \in plan'[r]
  <2>1. (Unsettled(w))'
    BY <1>1, SameDocuments DEF Unsettled
  <2> QED BY <1>2, <2>1
<1>3. CASE w.st = "synced"
  BY <1>3 DEF Unsettled
<1>4. ASSUME NEW v \in plan'[r], v.job = w.job, v.doc = d,
             v.st \in {"failed", "deferred"}
      PROVE  v.job = w.job /\ v.doc = d /\ (Unsettled(v))'
  BY <1>4 DEF Unsettled
<1> QED BY <1>2, <1>3, <1>4

(* Stopping the delivery leaves nothing to send and settles nothing. *)
LEMMA StoppedEffect ==
  ASSUME NEW P \in SUBSET Writes
  PROVE  /\ Unsent(Stopped(P)) = {}
         /\ \A w \in P : \/ w \in Stopped(P)
                         \/ \E v \in Stopped(P) :
                              /\ v.job = w.job /\ v.doc = w.doc
                              /\ v.st \in {"failed", "deferred"}
         /\ \A v \in Stopped(P) :
              \E w \in P : v.op = w.op /\ v.doc = w.doc /\ v.ver = w.ver
<1> DEFINE deferred(w) == [w EXCEPT !.st = IF @ = "planned" THEN "deferred" ELSE @]
<1>1. ASSUME NEW w \in P
      PROVE  /\ deferred(w) \in Stopped(P)
             /\ deferred(w).job = w.job /\ deferred(w).doc = w.doc
             /\ deferred(w).op = w.op /\ deferred(w).ver = w.ver
             /\ deferred(w).st = IF w.st = "planned" THEN "deferred" ELSE w.st
             /\ w.st # "planned" => deferred(w) = w
  BY DEF Stopped, Writes
<1>2. \A v \in Stopped(P) : \E w \in P : v = deferred(w)
  BY DEF Stopped
<1> HIDE DEF deferred
<1>3. \A w \in P : w.st \in {"planned", "synced", "failed", "deferred"}
  BY DEF Writes
<1>4. Unsent(Stopped(P)) = {}
  BY <1>1, <1>2 DEF Unsent
<1> QED BY <1>1, <1>2, <1>3, <1>4

(* Recording the outcome of some writes leaves the others as they are. *)
LEMMA OutcomeEffect ==
  ASSUME NEW P \in SUBSET Writes, NEW G \in SUBSET P,
         NEW st
  PROVE  /\ P \ G \subseteq Outcome(P, G, st)
         /\ \A w \in G : \E v \in Outcome(P, G, st) :
              v.job = w.job /\ v.doc = w.doc /\ v.st = st
         /\ \A v \in Outcome(P, G, st) :
              \/ v \in P \ G
              \/ \E w \in G : /\ v.op = w.op /\ v.doc = w.doc
                              /\ v.ver = w.ver /\ v.st = st
<1> DEFINE done(w) == [w EXCEPT !.st = st]
<1>1. ASSUME NEW w \in G
      PROVE  /\ done(w) \in Outcome(P, G, st)
             /\ done(w).job = w.job /\ done(w).doc = w.doc
             /\ done(w).op = w.op /\ done(w).ver = w.ver /\ done(w).st = st
  BY DEF Outcome, Writes
<1>2. \A v \in Outcome(P, G, st) : v \in P \ G \/ \E w \in G : v = done(w)
  BY DEF Outcome
<1>3. P \ G \subseteq Outcome(P, G, st)
  BY DEF Outcome
<1> HIDE DEF done
<1> QED BY <1>1, <1>2, <1>3

-----------------------------------------------------------------------------
(* Planning. *)

(* What a job plans is current. *)
LEMMA PlannedAreCurrent ==
  ASSUME IInv, RowsInv, NEW j \in Jobs, job[j].status # "free", ~PlanThrows(j),
         NEW w \in PlannedWrites(j)
  PROVE  /\ w \in Writes /\ w.job = j /\ w.st = "planned" /\ Current(w)
         /\ w.op = "delete" => w.doc \in Docs /\ Gone(w.doc) /\ w.ver = 0
<1>1. WellKeyed(job[j].key) /\ w \in Writes
  BY PlannedWritesAreTyped DEF IInv, JobsNamed
<1>2. w.doc \in Docs
  BY <1>1 DEF Writes
<1>3. job[j].key.res \in Resources
  BY <1>1 DEF WellKeyed, Keys
<1> DEFINE id == job[j].key.id
<1>4. ASSUME NEW d, w = Upsert(j, d), Exists(d)
      PROVE  /\ w.job = j /\ w.st = "planned" /\ w.op = "upsert" /\ Current(w)
  BY <1>4 DEF Upsert, Current
<1>5. ASSUME w = Delete(j, id), job[j].key.res \in Tombstones
      PROVE  /\ w.job = j /\ w.st = "planned" /\ Current(w)
             /\ Gone(w.doc) /\ w.ver = 0
  <2>1. w.doc = id /\ w.job = j /\ w.st = "planned" /\ w.op = "delete" /\ w.ver = 0
    BY <1>5 DEF Delete
  <2>2. Gone(id)
    BY <1>5 DEF RowsInv, DeletedStay
  <2> QED BY <2>1, <2>2 DEF Current, Gone
<1>6. \/ \E d : w = Upsert(j, d) /\ Exists(d)
      \/ w = Delete(j, id) /\ job[j].key.res \in Tombstones
  <2>1. CASE job[j].key.res = "source_lead"
    BY <2>1 DEF PlannedWrites, PlanThrows
  <2>2. CASE job[j].key.res \in Tombstones
    BY <2>2 DEF PlannedWrites, Tombstones
  <2>3. CASE job[j].key.res = "booked_lead"
    BY <2>3 DEF PlannedWrites
  <2>4. CASE job[j].key.res = "booking_chain"
    BY <2>4 DEF PlannedWrites, PlanThrows
  <2> QED BY <1>3, <2>1, <2>2, <2>3, <2>4 DEF Resources
<1>7. CASE \E d : w = Upsert(j, d) /\ Exists(d)
  BY <1>1, <1>4, <1>7
<1>8. CASE w = Delete(j, id) /\ job[j].key.res \in Tombstones
  BY <1>1, <1>2, <1>5, <1>8
<1> QED BY <1>6, <1>7, <1>8

(* A run that plans the job does write the rows that the job serves. *)
LEMMA PlanServes ==
  ASSUME IInv, RowsInv, NEW j \in Jobs, job[j].status # "free", ~PlanThrows(j),
         NEW d \in Docs, Kept(d), Serves(j, d)
  PROVE  \E w \in PlannedWrites(j) : w.doc = d
<1>1. WellKeyed(job[j].key) /\ job[j].key.res \in Resources
  BY DEF IInv, JobsNamed, WellKeyed, Keys
<1>2. Upsert(j, d).doc = d /\ Delete(j, d).doc = d
  BY DEF Upsert, Delete
<1>3. CASE job[j].key.res = "booking_chain"
  <2>1. job[j].key.id \in Bookings
    BY <1>1, <1>3 DEF WellKeyed
  <2>2. CASE job[j].key.id = d
    <3>1. d \notin Leads /\ Exists(d) /\ Allowed(j, d)
      BY <1>3, <2>1, <2>2, SheetSyncAssumption DEF Serves, Tombstones
    <3> QED BY <1>2, <1>3, <2>2, <3>1 DEF PlannedWrites
  <2>3. CASE job[j].key.id # d
    BY <1>2, <1>3, <2>3 DEF Serves, PlannedWrites
  <2> QED BY <2>2, <2>3
<1>4. CASE job[j].key.res # "booking_chain"
  <2>1. job[j].key.id = d /\ (d \in Leads \/ Allowed(j, d))
    BY <1>4 DEF Serves
  <2>2. CASE job[j].key.res \in {"source_lead", "delete_source_lead"}
    BY <1>2, <2>1, <2>2 DEF PlannedWrites
  <2>3. CASE job[j].key.res \in {"booked_lead", "delete_booked_lead"}
    <3>1. /\ d \notin Leads /\ Allowed(j, d)
          /\ job[j].key.res = "booked_lead" => Exists(d)
          /\ job[j].key.res = "delete_booked_lead" => job[j].located
      BY <2>1, <2>3 DEF RowsInv, DeletedStay, Serves, Tombstones
    <3> QED BY <1>2, <2>1, <2>3, <3>1 DEF PlannedWrites
  <2> QED BY <1>1, <1>4, <2>2, <2>3 DEF Resources, Tombstones
<1> QED BY <1>3, <1>4
-----------------------------------------------------------------------------
(* The steps of a run that claim, plan and settle no job. *)

(* Where a run may be with what it has planned. *)
PlanFits(r) ==
  /\ pc[r] \in {"idle", "claim"} => plan[r] = {}
  /\ pc[r] \in {"persist", "settle", "finish"} => Unsent(plan[r]) = {}

(* A step of run r leaves the plans of the others where they fit. *)
LEMMA PlansFit ==
  ASSUME RowsInv, NEW r \in Runs, OthersStay(r), (PlanFits(r))'
  PROVE  PlansMatchLabel'
<1> SUFFICES ASSUME NEW s \in Runs PROVE (PlanFits(s))'
  BY DEF PlansMatchLabel, PlanFits
<1>1. CASE s # r
  BY <1>1 DEF OthersStay, RowsInv, PlansMatchLabel, PlanFits, Unsent
<1> QED BY <1>1

(* The requests of the other runs stay matched. *)
LEMMA WireOfOthers ==
  ASSUME RowsInv, UNCHANGED <<row, stray>>, NEW r \in Runs, OthersStay(r),
         lease'.owner \in {lease.owner, r, None, Lost},
         \A q \in wire' : q.run \in Runs => q \in wire /\ q.run # r
  PROVE  InFlight'
<1>1. ASSUME NEW q \in wire', q.run \in Runs
      PROVE  Matches(q)'
  <2>1. q \in wire /\ q.run \in Runs \ {r}
    BY <1>1
  <2>2. Matches(q)
    BY <2>1 DEF RowsInv, InFlight
  <2>3. pc'[q.run] = pc[q.run] /\ plan'[q.run] = plan[q.run]
    BY <2>1 DEF OthersStay
  <2>4. lease'.owner = q.run => lease.owner = q.run
    BY <2>1, SheetSyncAssumption
  <2> QED BY <2>2, <2>3, <2>4 DEF Matches, Group, Unsent
<1>2. \A p, q \in wire' : p.run \in Runs /\ p.run = q.run => p = q
  BY DEF RowsInv, InFlight
<1> QED BY <1>1, <1>2 DEF InFlight

(* A run that awaits nothing has no request on the wire. *)
LEMMA NothingAwaited ==
  ASSUME RowsInv, NEW r \in Runs, pc[r] # "await"
  PROVE  \A q \in wire : q.run # r
BY DEF RowsInv, InFlight, Matches

(* The run changes its place and its plan only. *)
LEMMA QuietRun ==
  ASSUME IInv, RowsInv, SameDocs, NEW r \in Runs, OthersStay(r),
         UNCHANGED <<job, lease, row, stray, work>>,
         \A d \in Docs : GoesOn(r, d) \/ Done(d),
         \A w \in plan'[r] :
           /\ \E v \in plan[r] : v.op = w.op /\ v.doc = w.doc /\ v.ver = w.ver
           /\ w.st = "planned" => w \in plan[r],
         (PlanFits(r))',
         \A q \in wire' : q.run \in Runs => q \in wire /\ q.run # r
  PROVE  RowsInv'
<1>1. \A d \in Docs : Done(d) \/ (Kept(d) /\ Upcoming(d) => Upcoming(d)')
  BY QuietStep
<1>2. \A s \in Runs : lease'.owner = s =>
        \A w \in plan'[s] : w.st = "planned" => lease.owner = s /\ w \in plan[s]
  BY DEF OthersStay
<1>3. RowsKept' /\ StaleCovered'
  BY <1>1, <1>2, RowsStay
<1>4. \A s \in Runs : \A w \in plan'[s] :
        \E v \in plan[s] : v.op = w.op /\ v.doc = w.doc /\ v.ver = w.ver
  BY DEF OthersStay
<1>5. DeletedStay'
  BY <1>4, DeletedStays
<1>6. InFlight' /\ PlansMatchLabel'
  BY WireOfOthers, PlansFit
<1> QED BY <1>3, <1>5, <1>6 DEF RowsInv

(* What the lists and labels of the runs range over. *)
LEMMA RunsTyped ==
  ASSUME IInv
  PROVE  /\ pc \in [Runs -> Labels] /\ ok \in [Runs -> BOOLEAN]
         /\ todo \in [Runs -> SUBSET Jobs] /\ work \in [Runs -> SUBSET Jobs]
         /\ plan \in [Runs -> SUBSET Writes] /\ job \in [Jobs -> JobRecords]
BY DEF IInv, TypeOK

(* requireActiveLease: the run goes on, stops its delivery, or fails. *)
LEMMA CheckKeepsRows ==
  ASSUME IInv, RowsInv, NEW r \in Runs, Check(r)
  PROVE  RowsInv'
<1>1. /\ UNCHANGED <<doc, job, lease, row, stray, work, wire>>
      /\ pc[r] \in {"plan", "write", "persist", "settle"}
  BY DEF Check, domainVars
<1>2. SameDocs /\ plan[r] \in SUBSET Writes
  BY <1>1 DEF SameDocs, Kept, Exists, IInv, TypeOK
<1>3. \A q \in wire' : q.run \in Runs => q \in wire /\ q.run # r
  BY <1>1, NothingAwaited
<1>4. CASE /\ Held(r) /\ ok' = [ok EXCEPT ![r] = TRUE]
           /\ UNCHANGED <<pc, plan>>
  <2>1. /\ OthersStay(r) /\ pc'[r] = pc[r] /\ plan'[r] = plan[r]
        /\ lease.owner = r
    BY <1>1, <1>4, RunsTyped DEF OthersStay, Held
  <2>2. \A d \in Docs : GoesOn(r, d)
    BY <1>1, <1>2, <2>1, SamePlan DEF GoesOn
  <2>3. (PlanFits(r))'
    BY <1>1, <2>1 DEF PlanFits, Unsent, RowsInv, PlansMatchLabel
  <2> QED BY <1>1, <1>2, <1>3, <2>1, <2>2, <2>3, QuietRun
<1>5. CASE /\ pc[r] = "write" /\ plan' = [plan EXCEPT ![r] = Stopped(@)]
           /\ pc' = [pc EXCEPT ![r] = "persist"] /\ UNCHANGED ok
  <2>1. OthersStay(r) /\ pc'[r] = "persist" /\ plan'[r] = Stopped(plan[r])
    BY <1>1, <1>5, RunsTyped DEF OthersStay
  <2>2. \A d \in Docs : StaysUnsettled(r, d)
    BY <1>2, <2>1, SettlesLater, StoppedEffect
  <2>3. \A d \in Docs : GoesOn(r, d)
    BY <1>1, <1>5, <2>1, <2>2 DEF GoesOn
  <2>4. (PlanFits(r))'
    BY <1>2, <2>1, StoppedEffect DEF PlanFits, Unsent
  <2>5. \A w \in plan'[r] :
          /\ \E v \in plan[r] : v.op = w.op /\ v.doc = w.doc /\ v.ver = w.ver
          /\ w.st = "planned" => w \in plan[r]
    BY <1>2, <2>1, StoppedEffect DEF Unsent
  <2> QED BY <1>1, <1>2, <1>3, <2>1, <2>3, <2>4, <2>5, QuietRun
<1>6. CASE pc' = [pc EXCEPT ![r] = "failing"] /\ UNCHANGED <<ok, plan>>
  <2>1. OthersStay(r) /\ pc'[r] = "failing" /\ plan'[r] = plan[r]
    BY <1>1, <1>6, RunsTyped DEF OthersStay
  <2>2. (\A d \in Docs : GoesOn(r, d)) /\ (PlanFits(r))'
    BY <2>1 DEF GoesOn, PlanFits
  <2> QED BY <1>1, <1>2, <1>3, <2>1, <2>2, QuietRun
<1> QED BY <1>4, <1>5, <1>6 DEF Check, Goto
(* Everything is planned: the plan stays. *)
LEMMA BeginWriteKeepsRows ==
  ASSUME IInv, RowsInv, NEW r \in Runs, BeginWrite(r)
  PROVE  RowsInv'
<1>1. /\ UNCHANGED <<doc, job, lease, row, stray, work, wire>>
      /\ pc[r] = "plan" /\ UNCHANGED plan
      /\ \/ lease.owner = r /\ AfterWrites(r, plan[r])
         \/ pc' = [pc EXCEPT ![r] = "failing"]
      /\ ok' = [ok EXCEPT ![r] = FALSE]
  BY RunsTyped DEF BeginWrite, domainVars, AfterWrites, Goto, Held, Uncheck
<1>2. SameDocs /\ OthersStay(r)
  BY <1>1, RunsTyped DEF SameDocs, Kept, Exists, OthersStay, AfterWrites, Goto
<1>3. \A q \in wire' : q.run \in Runs => q \in wire /\ q.run # r
  BY <1>1, NothingAwaited
<1>4. \A d \in Docs : GoesOn(r, d)
  <2>1. CASE lease.owner = r
    BY <1>1, <1>2, <2>1, SamePlan DEF GoesOn
  <2>2. CASE pc' = [pc EXCEPT ![r] = "failing"]
    BY <2>2, RunsTyped DEF GoesOn
  <2> QED BY <1>1, <2>1, <2>2
<1>5. (PlanFits(r))'
  BY <1>1, RunsTyped DEF PlanFits, AfterWrites, Goto, Unsent
<1> QED BY <1>1, <1>2, <1>3, <1>4, <1>5, QuietRun

(* Writes that were not sent, or whose request came to nothing, wait for a
   retry; writes that are settled need not, if their row is done. *)
LEMMA OutcomeKeepsRows ==
  ASSUME IInv, RowsInv, NEW r \in Runs, pc[r] \in {"write", "await"},
         NEW G \in SUBSET Unsent(plan[r]), NEW e \in Docs,
         \A w \in G : w.doc = e,
         NEW st \in {"synced", "failed", "deferred"},
         AfterWrites(r, Outcome(plan[r], G, st)),
         UNCHANGED <<doc, job, lease, row, stray, work>>,
         ok' = ok \/ Uncheck(r),
         st = "synced" /\ lease.owner = r =>
           \/ \A w \in G : ~Current(w)
           \/ /\ stray[e] \/ row[e] = Desired(e)
              /\ \A w \in Unsent(plan[r]) \ G : w.doc # e,
         \A q \in wire' : q.run \in Runs => q \in wire /\ q.run # r
  PROVE  RowsInv'
<1> DEFINE P == Outcome(plan[r], G, st)
<1>1. /\ plan[r] \in SUBSET Writes /\ G \in SUBSET plan[r]
      /\ \A w \in G : w.st = "planned"
  BY RunsTyped DEF Unsent
<1>2. /\ plan' = [plan EXCEPT ![r] = P]
      /\ pc' = [pc EXCEPT ![r] = pc'[r]] /\ pc'[r] \in {"persist", "write"}
      /\ pc'[r] = "persist" => Unsent(P) = {}
      /\ ok' = [ok EXCEPT ![r] = ok'[r]]
  <2> DEFINE l == IF Unsent(P) = {} THEN "persist" ELSE "write"
  <2>1. ok' = [ok EXCEPT ![r] = ok'[r]]
    BY RunsTyped DEF Uncheck
  <2>2. plan' = [plan EXCEPT ![r] = P] /\ pc' = [pc EXCEPT ![r] = l]
    BY DEF AfterWrites, Goto
  <2>3. l \in {"persist", "write"} /\ (l = "persist" => Unsent(P) = {})
    OBVIOUS
  <2> HIDE DEF l, P
  <2>4. pc'[r] = l
    BY <2>2, RunsTyped
  <2> QED BY <2>1, <2>2, <2>3, <2>4
<1> HIDE DEF P
<1>3. SameDocs /\ OthersStay(r) /\ plan'[r] = P
  BY <1>2, RunsTyped DEF SameDocs, Kept, Exists, OthersStay
<1>4. /\ plan[r] \ G \subseteq P
      /\ \A w \in G : \E v \in P : v.job = w.job /\ v.doc = w.doc /\ v.st = st
      /\ \A v \in P :
           \/ v \in plan[r] \ G
           \/ \E w \in G : /\ v.op = w.op /\ v.doc = w.doc
                           /\ v.ver = w.ver /\ v.st = st
  <2>1. P = Outcome(plan[r], G, st)
    BY DEF P
  <2> HIDE DEF P
  <2> QED BY <1>1, <2>1, OutcomeEffect
<1>5. ASSUME NEW d \in Docs
      PROVE  GoesOn(r, d) \/ Done(d)
  <2>1. CASE lease.owner # r
    BY <1>2, <2>1 DEF GoesOn
  <2>2. CASE lease.owner = r /\ (st # "synced" \/ d # e)
    <3>1. StaysUnsettled(r, d)
      <4>1. \A w \in plan[r] : w.doc = d =>
              \/ w \in P
              \/ \E v \in P : /\ v.job = w.job /\ v.doc = d
                              /\ v.st \in {"failed", "deferred"}
        BY <1>4, <2>2
      <4> QED BY <1>3, <4>1, SettlesLater
    <3> QED BY <2>2, <3>1 DEF GoesOn
  <2>3. CASE lease.owner = r /\ st = "synced" /\ d = e /\ \A w \in G : ~Current(w)
    <3>1. ASSUME NEW w \in plan[r], Unsettled(w)
          PROVE  w \in P /\ (Unsettled(w))'
      <4>1. w \notin G
        BY <1>1, <2>3, <3>1 DEF Unsettled
      <4>2. (Current(w))' <=> Current(w)
        BY <1>1, <1>3, SameDocuments
      <4> QED BY <1>4, <3>1, <4>1, <4>2 DEF Unsettled
    <3>2. StaysUnsettled(r, d)
      BY <1>3, <3>1 DEF StaysUnsettled
    <3> QED BY <2>3, <3>2 DEF GoesOn
  <2>4. CASE /\ lease.owner = r /\ d = e
             /\ stray[e] \/ row[e] = Desired(e)
             /\ \A w \in Unsent(plan[r]) \ G : w.doc # e
             /\ st = "synced"
    <3>1. ASSUME NEW w \in P, w.st = "planned", w.doc = e
          PROVE  FALSE
      BY <1>4, <2>4, <3>1 DEF Unsent
    <3> QED BY <1>3, <2>4, <3>1 DEF Done
  <2> QED BY <2>1, <2>2, <2>3, <2>4
<1>6. \A w \in plan'[r] :
        /\ \E v \in plan[r] : v.op = w.op /\ v.doc = w.doc /\ v.ver = w.ver
        /\ w.st = "planned" => w \in plan[r]
  BY <1>1, <1>3, <1>4
<1>7. (PlanFits(r))'
  BY <1>2, <1>3 DEF PlanFits, Unsent
<1> QED BY <1>3, <1>5, <1>6, <1>7, QuietRun

(* The writes of one request concern one row. *)
LEMMA GroupOfRow ==
  ASSUME NEW r \in Runs, NEW d, NEW op
  PROVE  /\ Group(r, d, op) \in SUBSET Unsent(plan[r])
         /\ \A w \in Group(r, d, op) : w.doc = d /\ w.op = op
         /\ \A w \in Unsent(plan[r]) : w.doc = d /\ w.op = op => w \in Group(r, d, op)
BY DEF Group

(* A planned deletion is the last write of its row, and leaves none. *)
LEMMA DeletionIsLast ==
  ASSUME IInv, RowsInv, NEW r \in Runs, NEW d \in Docs,
         Group(r, d, "delete") # {}, \A w \in Unsent(plan[r]) : w.op = "delete"
  PROVE  /\ Desired(d) = 0
         /\ \A w \in Unsent(plan[r]) \ Group(r, d, "delete") : w.doc # d
<1>1. PICK w \in Group(r, d, "delete") : TRUE
  OBVIOUS
<1>2. w \in plan[r] /\ w.op = "delete" /\ w.doc = d
  BY <1>1 DEF Group, Unsent
<1>3. Gone(d)
  BY <1>2 DEF RowsInv, DeletedStay
<1> QED BY <1>3, GroupOfRow DEF Gone, Desired

(* processCoalescedTabGroup sends nothing. *)
LEMMA SkipRequestKeepsRows ==
  ASSUME IInv, RowsInv, NEW r \in Runs, NEW d \in Docs,
         NEW op \in {"upsert", "delete"}, SkipRequest(r, d, op)
  PROVE  RowsInv'
<1> DEFINE G == Group(r, d, op)
<1>1. /\ UNCHANGED <<doc, job, lease, row, stray, work, wire>>
      /\ pc[r] = "write" /\ Reachable(r, d, op)
  BY DEF SkipRequest, domainVars
<1>2. \A q \in wire' : q.run \in Runs => q \in wire /\ q.run # r
  BY <1>1, NothingAwaited
<1>3. G \in SUBSET Unsent(plan[r]) /\ \A w \in G : w.doc = d
  BY GroupOfRow
<1>4. CASE AfterWrites(r, Outcome(plan[r], G, "failed")) /\ UNCHANGED ok
  <2> HIDE DEF G
  <2> QED BY <1>1, <1>2, <1>3, <1>4, OutcomeKeepsRows
<1>5. CASE /\ op = "delete" /\ row[d] = 0
           /\ AfterWrites(r, Outcome(plan[r], G, "synced")) /\ Uncheck(r)
  <2>1. row[d] = Desired(d) /\ \A w \in Unsent(plan[r]) \ G : w.doc # d
    BY <1>1, <1>5, DeletionIsLast DEF Reachable
  <2> HIDE DEF G
  <2> QED BY <1>1, <1>2, <1>3, <1>5, <2>1, OutcomeKeepsRows
<1> QED BY <1>4, <1>5 DEF SkipRequest

(* The quota ledger's refusal defers the writes. *)
LEMMA QuotaDeniedKeepsRows ==
  ASSUME IInv, RowsInv, NEW r \in Runs, NEW d \in Docs,
         NEW op \in {"upsert", "delete"}, QuotaDenied(r, d, op)
  PROVE  RowsInv'
<1> DEFINE G == Group(r, d, op)
<1>1. /\ UNCHANGED <<doc, job, lease, row, stray, work, wire>>
      /\ pc[r] = "write" /\ Uncheck(r)
      /\ AfterWrites(r, Outcome(plan[r], G, "deferred"))
  BY DEF QuotaDenied, domainVars
<1>2. \A q \in wire' : q.run \in Runs => q \in wire /\ q.run # r
  BY <1>1, NothingAwaited
<1>3. G \in SUBSET Unsent(plan[r]) /\ \A w \in G : w.doc = d
  BY GroupOfRow
<1> HIDE DEF G
<1> QED BY <1>1, <1>2, <1>3, OutcomeKeepsRows
(* A request that a run awaits is matched, and is the only one. *)
LEMMA AwaitedIsMatched ==
  ASSUME IInv, RowsInv, NEW r \in Runs, NEW q \in wire, Awaits(r, q)
  PROVE  /\ Matches(q) /\ q.run = r /\ pc[r] = "await"
         /\ q.doc \in Docs /\ q.op \in {"upsert", "delete"}
         /\ q \in Requests /\ Group(r, q.doc, q.op) # {}
         /\ \A p \in wire \ {q} : p.run # r
<1>1. q \in Requests /\ q.run = r /\ pc[r] = "await"
  BY DEF IInv, TypeOK, Awaits
<1>2. Matches(q) /\ \A p \in wire \ {q} : p.run # r
  BY <1>1 DEF RowsInv, InFlight
<1>3. Group(r, q.doc, q.op) # {}
  BY <1>1, <1>2 DEF Matches
<1> QED BY <1>1, <1>2, <1>3 DEF Requests

(* Once the request has landed, the row shows what it carried.  If that is
   current, nothing else is to be written. *)
LEMMA LandedIsDone ==
  ASSUME IInv, RowsInv, NEW r \in Runs, lease.owner = r, NEW q \in wire,
         Awaits(r, q), NEW e, e = q.doc, stray[e] \/ row[e] = q.ver,
         NEW w \in Group(r, q.doc, q.op), Current(w)
  PROVE  /\ stray[e] \/ row[e] = Desired(e)
         /\ \A v \in Unsent(plan[r]) \ Group(r, q.doc, q.op) : v.doc # e
<1>1. Matches(q) /\ q.run = r /\ q.doc \in Docs /\ q.op \in {"upsert", "delete"}
  BY AwaitedIsMatched
<1>2. /\ w \in plan[r] /\ w.op = q.op /\ w.doc = q.doc /\ w.ver = q.ver
  BY <1>1 DEF Matches, Group, Unsent
<1>3. CASE q.op = "delete"
  <2>1. /\ \A v \in Unsent(plan[r]) : v.op = "delete"
        /\ Group(r, q.doc, "delete") # {}
    BY <1>1, <1>3 DEF Matches
  <2>2. w.ver = 0
    BY <1>2, <1>3 DEF RowsInv, DeletedStay
  <2> QED BY <1>1, <1>2, <1>3, <2>1, <2>2, DeletionIsLast
<1>4. CASE q.op = "upsert"
  <2>1. Exists(e) /\ q.ver = Desired(e)
    BY <1>2, <1>4 DEF Current, Desired
  <2>2. ASSUME NEW v \in Unsent(plan[r]), v.doc = e
        PROVE  v \in Group(r, q.doc, q.op)
    <3>1. v \in plan[r] /\ v.op \in {"upsert", "delete"}
      BY RunsTyped DEF Unsent, Writes
    <3>2. v.op # "delete"
      BY <2>1, <2>2, <3>1 DEF RowsInv, DeletedStay, Gone
    <3> QED BY <1>4, <2>2, <3>1, <3>2, GroupOfRow
  <2> QED BY <2>1, <2>2
<1> QED BY <1>1, <1>3, <1>4

(* The request is answered, rejected, or given up. *)
LEMMA AnswersKeepRows ==
  ASSUME IInv, RowsInv, NEW r \in Runs, NEW q \in wire,
         Answer(r, q) \/ Reject(r, q) \/ Unconfirmed(r, q)
  PROVE  RowsInv'
<1> DEFINE G == Group(r, q.doc, q.op)
<1>1. /\ UNCHANGED <<doc, job, lease, row, stray, work, ok>>
      /\ Awaits(r, q)
      /\ wire' = wire \ {q} \/ wire' = (wire \ {q}) \cup Abandon(q)
  BY DEF Answer, Reject, Unconfirmed
<1>2. /\ pc[r] = "await" /\ q.doc \in Docs /\ q \in Requests
      /\ \A p \in wire \ {q} : p.run # r
  BY <1>1, AwaitedIsMatched
<1>3. \A p \in wire' : p.run \in Runs => p \in wire /\ p.run # r
  <2>1. \A p \in Abandon(q) : p.run = Lost
    BY <1>2 DEF Abandon, Requests
  <2> QED BY <1>1, <1>2, <2>1, SheetSyncAssumption
<1>4. G \in SUBSET Unsent(plan[r]) /\ \A w \in G : w.doc = q.doc
  BY GroupOfRow
<1>5. CASE Answer(r, q)
  <2>1. q.landed /\ AfterWrites(r, Outcome(plan[r], G, "synced"))
    BY <1>5 DEF Answer, Answered
  <2>2. lease.owner = r => stray[q.doc] \/ row[q.doc] = q.ver
    BY <1>1, <2>1, AwaitedIsMatched DEF Matches
  <2>3. lease.owner = r =>
          \/ \A w \in G : ~Current(w)
          \/ /\ stray[q.doc] \/ row[q.doc] = Desired(q.doc)
             /\ \A w \in Unsent(plan[r]) \ G : w.doc # q.doc
    BY <1>1, <2>2, LandedIsDone
  <2> HIDE DEF G
  <2> QED BY <1>1, <1>2, <1>3, <1>4, <2>1, <2>3, OutcomeKeepsRows
<1>6. CASE AfterWrites(r, Outcome(plan[r], G, "failed"))
  <2> HIDE DEF G
  <2> QED BY <1>1, <1>2, <1>3, <1>4, <1>6, OutcomeKeepsRows
<1>7. CASE AfterWrites(r, Stopped(plan[r]))
  <2>1. plan[r] \in SUBSET Writes
    BY RunsTyped
  <2>2. Unsent(Stopped(plan[r])) = {}
    BY <2>1, StoppedEffect
  <2>3. /\ plan' = [plan EXCEPT ![r] = Stopped(plan[r])]
        /\ pc' = [pc EXCEPT ![r] = "persist"]
    BY <1>7, <2>2 DEF AfterWrites, Goto
  <2>4. /\ SameDocs /\ OthersStay(r) /\ plan'[r] = Stopped(plan[r])
        /\ pc'[r] = "persist"
    BY <1>1, <2>3, RunsTyped DEF SameDocs, Kept, Exists, OthersStay
  <2>5. \A d \in Docs : StaysUnsettled(r, d)
    BY <2>1, <2>4, SettlesLater, StoppedEffect
  <2>6. \A d \in Docs : GoesOn(r, d)
    BY <1>1, <1>2, <2>4, <2>5 DEF GoesOn
  <2>7. (PlanFits(r))'
    BY <2>2, <2>4 DEF PlanFits, Unsent
  <2>8. \A w \in plan'[r] :
          /\ \E v \in plan[r] : v.op = w.op /\ v.doc = w.doc /\ v.ver = w.ver
          /\ w.st = "planned" => w \in plan[r]
    BY <2>1, <2>4, StoppedEffect DEF Unsent
  <2> QED BY <1>1, <1>3, <2>4, <2>6, <2>7, <2>8, QuietRun
<1> QED BY <1>5, <1>6, <1>7 DEF Reject, Unconfirmed, Answered

(* A request is sent: it carries what all the writes of its row carry. *)
LEMMA SendKeepsRows ==
  ASSUME IInv, RowsInv, NEW r \in Runs, NEW d \in Docs,
         NEW op \in {"upsert", "delete"}, Send(r, d, op)
  PROVE  RowsInv'
<1>1. /\ UNCHANGED <<doc, job, lease, row, stray, work, plan>>
      /\ pc[r] = "write" /\ Reachable(r, d, op)
      /\ ~Conflicting(Group(r, d, op))
      /\ pc' = [pc EXCEPT ![r] = "await"]
      /\ ok' = [ok EXCEPT ![r] = FALSE]
  BY DEF Send, Goto, Uncheck
<1>2. PICK q : /\ wire' = wire \cup {q}
               /\ q.run = r /\ q.doc = d /\ q.op = op /\ q.landed = FALSE
               /\ \E w \in Group(r, d, op) : q.ver = w.ver
  BY DEF Send
<1>3. SameDocs /\ OthersStay(r) /\ pc'[r] = "await"
  BY <1>1, RunsTyped DEF SameDocs, Kept, Exists, OthersStay
<1>4. \A e \in Docs : GoesOn(r, e)
  BY <1>1, <1>3, SamePlan DEF GoesOn
<1>5. RowsKept' /\ StaleCovered'
  <2>1. \A e \in Docs : Upcoming(e) => Upcoming(e)'
    BY <1>1, <1>3, <1>4, QuietStep
  <2> QED BY <1>1, <1>3, <2>1, RowsStay
<1>6. DeletedStay' /\ PlansMatchLabel'
  <2>1. (PlanFits(r))'
    BY <1>3 DEF PlanFits
  <2> QED BY <1>1, <1>3, <2>1, DeletedStays, PlansFit
<1>7. InFlight'
  <2>1. \A p \in wire : p.run # r
    BY <1>1, NothingAwaited
  <2>2. ASSUME NEW p \in wire, p.run \in Runs
        PROVE  Matches(p)'
    <3>1. Matches(p) /\ p.run # r
      BY <2>1, <2>2 DEF RowsInv, InFlight
    <3>2. pc'[p.run] = pc[p.run]
      BY <1>3, <2>2, <3>1 DEF OthersStay
    <3> QED BY <1>1, <3>1, <3>2 DEF Matches, Group, Unsent
  <2>3. Matches(q)'
    <3>1. \A w \in Group(r, d, op) : w.ver = q.ver
      BY <1>1, <1>2 DEF Conflicting
    <3>2. /\ Group(r, d, op) # {}
          /\ op = "delete" => \A w \in Unsent(plan[r]) : w.op = "delete"
      BY <1>1 DEF Reachable
    <3> QED BY <1>1, <1>2, <1>3, <3>1, <3>2 DEF Matches, Group, Unsent
  <2>4. \A p1, p2 \in wire' : p1.run \in Runs /\ p1.run = p2.run => p1 = p2
    BY <1>2, <2>1 DEF RowsInv, InFlight
  <2> QED BY <1>2, <2>2, <2>3, <2>4 DEF InFlight
<1> QED BY <1>5, <1>6, <1>7 DEF RowsInv

(* A location is written onto documents that exist. *)
LEMMA PersistKeepsDocuments ==
  ASSUME IInv, NEW r \in Runs, Persist(r)
  PROVE  SameDocs
<1> DEFINE upserted == {w.doc : w \in {u \in plan[r] : u.op = "upsert"}}
<1>1. PICK lost \in SUBSET upserted :
        /\ {d \in upserted : ~Exists(d)} \subseteq lost
        /\ doc' = [d \in Docs |-> IF d \in upserted \ lost
                                  THEN [doc[d] EXCEPT !.located = TRUE]
                                  ELSE doc[d]]
  BY DEF Persist
<1> HIDE DEF upserted
<1>2. ASSUME NEW d \in Docs
      PROVE  \/ doc'[d] = doc[d]
             \/ /\ doc'[d].exists = doc[d].exists /\ doc'[d].ver = doc[d].ver
                /\ Exists(d)
  BY <1>1 DEF IInv, TypeOK, DocRecords
<1> QED BY <1>2 DEF SameDocs, Kept, Exists

(* persistDocSheetSync turns synced outcomes into failed ones. *)
LEMMA PersistKeepsRows ==
  ASSUME IInv, RowsInv, NEW r \in Runs, Persist(r)
  PROVE  RowsInv'
<1>1. /\ UNCHANGED <<job, lease, row, stray, work, wire>>
      /\ pc[r] = "persist" /\ pc' = [pc EXCEPT ![r] = "settle"]
      /\ ok' = [ok EXCEPT ![r] = FALSE]
  BY DEF Persist, Goto, Uncheck
<1> DEFINE upserted == {w.doc : w \in {u \in plan[r] : u.op = "upsert"}}
<1>2. PICK lost \in SUBSET upserted :
        plan' = [plan EXCEPT ![r] =
             {[w EXCEPT !.st = IF w.doc \in lost /\ w.op = "upsert"
                                  /\ @ = "synced" THEN "failed" ELSE @]
                : w \in plan[r]}]
  BY DEF Persist
<1> HIDE DEF upserted
<1>3. SameDocs
  BY PersistKeepsDocuments
<1>4. plan[r] \in SUBSET Writes /\ Unsent(plan[r]) = {}
  BY <1>1, RunsTyped DEF RowsInv, PlansMatchLabel
<1> DEFINE failed(w) == [w EXCEPT !.st = IF w.doc \in lost /\ w.op = "upsert"
                                            /\ @ = "synced" THEN "failed" ELSE @]
<1>5. /\ plan' = [plan EXCEPT ![r] = {failed(w) : w \in plan[r]}]
      /\ plan'[r] = {failed(w) : w \in plan[r]}
  BY <1>2, RunsTyped
<1>6. \A w \in plan[r] :
        /\ failed(w).op = w.op /\ failed(w).doc = w.doc /\ failed(w).ver = w.ver
        /\ failed(w).st = w.st \/ failed(w).st = "failed"
        /\ w.st # "synced" => failed(w) = w
  BY <1>4 DEF Writes
<1> HIDE DEF failed
<1>7. OthersStay(r) /\ pc'[r] = "settle"
  BY <1>1, <1>5, RunsTyped DEF OthersStay
<1>8. \A d \in Docs : StaysUnsettled(r, d)
  <2>1. \A w \in plan[r] : w.st = "synced" \/ w \in plan'[r]
    BY <1>5, <1>6
  <2> QED BY <1>3, <2>1, SettlesLater
<1>9. \A d \in Docs : GoesOn(r, d)
  BY <1>1, <1>7, <1>8, RunsTyped DEF GoesOn
<1>10. \A w \in plan'[r] :
         /\ \E v \in plan[r] : v.op = w.op /\ v.doc = w.doc /\ v.ver = w.ver
         /\ w.st # "planned"
  BY <1>4, <1>5, <1>6 DEF Unsent
<1>11. (PlanFits(r))'
  BY <1>7, <1>10 DEF PlanFits, Unsent
<1>12. \A q \in wire' : q.run \in Runs => q \in wire /\ q.run # r
  BY <1>1, NothingAwaited
<1> QED BY <1>1, <1>3, <1>7, <1>9, <1>10, <1>11, <1>12, QuietRun

(* The last job of the run is settled. *)
LEMMA AllSettledKeepsRows ==
  ASSUME IInv, RowsInv, NEW r \in Runs, AllSettled(r)
  PROVE  RowsInv'
<1>1. /\ UNCHANGED <<doc, job, lease, row, stray, work, wire, plan>>
      /\ pc[r] = "settle" /\ pc' = [pc EXCEPT ![r] = "finish"]
      /\ ok' = [ok EXCEPT ![r] = FALSE]
  BY DEF AllSettled, domainVars, Goto, Uncheck
<1>2. /\ SameDocs /\ OthersStay(r) /\ pc'[r] = "finish"
      /\ ok'[r] = FALSE
  BY <1>1, RunsTyped DEF SameDocs, Kept, Exists, OthersStay
<1>3. \A d \in Docs : GoesOn(r, d)
  BY <1>1, <1>2, SamePlan DEF GoesOn
<1>4. (PlanFits(r))'
  BY <1>1, <1>2 DEF PlanFits, Unsent, RowsInv, PlansMatchLabel
<1>5. \A q \in wire' : q.run \in Runs => q \in wire /\ q.run # r
  BY <1>1, NothingAwaited
<1> QED BY <1>1, <1>2, <1>3, <1>4, <1>5, QuietRun

-----------------------------------------------------------------------------
(* The steps of no run. *)

(* A step that leaves the runs alone, and the jobs but for their leases, and
   frees jobs only to be done again. *)
LEMMA Bystanders ==
  ASSUME IInv, SameDocs, UNCHANGED <<pc, ok, work, plan>>,
         lease'.owner = lease.owner,
         \A j \in Jobs :
           \/ job'[j] = job[j]
           \/ /\ job'[j].key = job[j].key
              /\ job'[j].located = job[j].located /\ job'[j].hints = job[j].hints
              /\ \/ job[j].status # "free" /\ job'[j].status \in Active
                 \/ job'[j].status = job[j].status /\ job'[j].live = FALSE
  PROVE  \A d \in Docs : Upcoming(d) => Upcoming(d)'
<1> SUFFICES ASSUME NEW d \in Docs, NEW j \in Jobs, Pledged(j, d)
             PROVE  Pledged(j, d)'
  BY DEF Upcoming
<1>1. CASE job'[j] = job[j]
  <2> SUFFICES ASSUME job[j].status = "processing", job[j].run \in Runs
               PROVE  \/ Doomed(job[j].run)' \/ pc'[job[j].run] = "failing"
                      \/ /\ j \in work'[job[j].run] => j \in work[job[j].run]
                         /\ pc[job[j].run] # "failing" /\ ~Doomed(job[j].run)
                         /\ StaysUnsettled(job[j].run, d)
    BY <1>1, PledgeStays
  <2>1. StaysUnsettled(job[j].run, d)
    BY SamePlan
  <2>2. Doomed(job[j].run) => Doomed(job[j].run)'
    BY <1>1 DEF Doomed
  <2>3. CASE pc[job[j].run] = "failing"
    BY <2>3
  <2>4. CASE Doomed(job[j].run)
    BY <2>2, <2>4
  <2>5. CASE pc[job[j].run] # "failing" /\ ~Doomed(job[j].run)
    BY <2>1, <2>5
  <2> QED BY <2>3, <2>4, <2>5
<1>2. CASE /\ job'[j].key = job[j].key
           /\ job'[j].located = job[j].located /\ job'[j].hints = job[j].hints
           /\ \/ job[j].status # "free" /\ job'[j].status \in Active
              \/ job'[j].status = job[j].status /\ job'[j].live = FALSE
  <2>1. job[j].key.id \in Docs
    BY DEF Pledged, Active, IInv, JobsNamed, WellKeyed, Keys
  <2>2. Serves(j, d)'
    BY <1>2, <2>1 DEF Pledged, Serves, Allowed, SameDocs, Exists
  <2> QED BY <1>2, <2>2 DEF Pledged, Returning, Active
<1> QED BY <1>1, <1>2

(* So such a step, if it leaves the rows and the wire alone as well, keeps the
   invariant. *)
LEMMA BystandersKeepRows ==
  ASSUME IInv, RowsInv, UNCHANGED <<doc, row, stray, wire, pc, ok, work, plan>>,
         lease'.owner = lease.owner,
         \A j \in Jobs :
           \/ job'[j] = job[j]
           \/ /\ job'[j].key = job[j].key
              /\ job'[j].located = job[j].located /\ job'[j].hints = job[j].hints
              /\ \/ job[j].status # "free" /\ job'[j].status \in Active
                 \/ job'[j].status = job[j].status /\ job'[j].live = FALSE
  PROVE  RowsInv'
<1>1. SameDocs
  BY DEF SameDocs, Kept, Exists
<1>2. RowsKept' /\ StaleCovered'
  <2>1. \A d \in Docs : Upcoming(d) => Upcoming(d)'
    BY <1>1, Bystanders
  <2> QED BY <1>1, <2>1, RowsStay
<1>3. DeletedStay'
  BY <1>1, DeletedStays
<1>4. InFlight' /\ PlansMatchLabel'
  BY WireStays DEF PlansMatchLabel, RowsInv, Unsent
<1> QED BY <1>2, <1>3, <1>4 DEF RowsInv

(* Dates pass, a fence is raised or lowered, an admin retries a job. *)
LEMMA EnvironmentKeepsRows ==
  ASSUME IInv, RowsInv,
         \/ ExpireLost \/ RaiseFence \/ LowerFence
         \/ \E r \in Runs : Stall(r)
         \/ \E j \in Jobs : AdminRetry(j)
         \/ UNCHANGED vars
  PROVE  RowsInv'
<1> DEFINE Edited(j) ==
             /\ job'[j].key = job[j].key
             /\ job'[j].located = job[j].located /\ job'[j].hints = job[j].hints
             /\ \/ job[j].status # "free" /\ job'[j].status \in Active
                \/ job'[j].status = job[j].status /\ job'[j].live = FALSE
<1>0. job \in [Jobs -> JobRecords]
  BY RunsTyped
<1>1. CASE ExpireLost
  <2>1. ASSUME NEW j \in Jobs, job'[j] # job[j]
        PROVE  Edited(j)
    <3>1. job[j].run = Lost /\ job'[j] = [job[j] EXCEPT !.live = FALSE]
      BY <1>1, <2>1 DEF ExpireLost
    <3> QED BY <1>0, <3>1 DEF JobRecords
  <2>2. lease'.owner = lease.owner
    BY <1>1 DEF ExpireLost, IInv, TypeOK
  <2> QED BY <1>1, <2>1, <2>2, BystandersKeepRows DEF ExpireLost, domainVars
<1>2. ASSUME NEW r \in Runs, Stall(r)
      PROVE  RowsInv'
  <2>1. ASSUME NEW j \in Jobs, job'[j] # job[j]
        PROVE  Edited(j)
    <3>1. /\ job[j].status = "processing"
          /\ job'[j] = [job[j] EXCEPT !.live = FALSE]
      BY <1>2, <2>1 DEF Stall, Claims
    <3> QED BY <1>0, <3>1 DEF JobRecords
  <2>2. lease'.owner = lease.owner
    BY <1>2 DEF Stall, IInv, TypeOK
  <2> QED BY <1>2, <2>1, <2>2, BystandersKeepRows DEF Stall, domainVars
<1>3. CASE RaiseFence \/ LowerFence
  BY <1>3, BystandersKeepRows DEF RaiseFence, LowerFence
<1>4. ASSUME NEW i \in Jobs, AdminRetry(i)
      PROVE  RowsInv'
  <2>1. ASSUME NEW j \in Jobs, job'[j] # job[j]
        PROVE  Edited(j)
    <3>1. j = i /\ job[i].status # "free"
      BY <1>0, <1>4, <2>1 DEF AdminRetry
    <3>2. job'[i].key = job[i].key
          /\ job'[i].located = job[i].located /\ job'[i].hints = job[i].hints
          /\ job'[i].status = "pending"
      BY <1>0, <1>4 DEF AdminRetry, JobRecords
    <3> QED BY <3>1, <3>2 DEF Active
  <2> QED BY <1>4, <2>1, BystandersKeepRows DEF AdminRetry, domainVars
<1>5. CASE UNCHANGED vars
  BY <1>5, BystandersKeepRows DEF vars
<1> QED BY <1>1, <1>2, <1>3, <1>4, <1>5
(* A request takes effect: unless it strays, it is the one that the owner of
   the lease awaits, and the row becomes current or is to be written again. *)
LEMMA LandKeepsRows ==
  ASSUME IInv, RowsInv, NEW q \in wire, Land(q)
  PROVE  RowsInv'
<1> DEFINE new == IF q.op = "upsert" THEN q.ver ELSE 0
           landed == [q EXCEPT !.landed = TRUE]
<1>1. /\ UNCHANGED <<doc, lease, job, pc, ok, work, plan>>
      /\ row' = [row EXCEPT ![q.doc] = new]
      /\ stray' = [stray EXCEPT ![q.doc] = lease.owner # q.run \/ q.run = Lost]
      /\ wire' = (wire \ {q}) \cup (IF q.run = Lost THEN {} ELSE {landed})
  BY DEF Land
<1>2. q \in Requests /\ q.doc \in Docs /\ q.op \in {"upsert", "delete"}
  BY DEF IInv, TypeOK, Requests
<1>3. /\ landed.run = q.run /\ landed.doc = q.doc /\ landed.op = q.op
      /\ landed.ver = q.ver
  BY <1>2 DEF Requests
<1> HIDE DEF new, landed
<1>4. SameDocs
  BY <1>1 DEF SameDocs, Kept, Exists
<1>5. /\ \A d \in Docs : row'[d] = IF d = q.doc THEN new ELSE row[d]
      /\ \A d \in Docs : d # q.doc => stray'[d] = stray[d]
      /\ ~stray'[q.doc] => q.run = lease.owner /\ q.run \in Runs
  BY <1>1, <1>2 DEF IInv, TypeOK, Requests
<1>6. \A d \in Docs : Upcoming(d) => Upcoming(d)'
  BY <1>1, <1>4, Bystanders
<1>7. ASSUME NEW r \in Runs, q.run = r
      PROVE  /\ Matches(q) /\ new = q.ver
             /\ \E w \in plan[r] : /\ w.st = "planned" /\ w.doc = q.doc
                                   /\ Current(w) => q.ver = Desired(q.doc)
  <2>1. Matches(q)
    BY <1>7 DEF RowsInv, InFlight
  <2>2. PICK w \in Group(r, q.doc, q.op) : TRUE
    BY <1>7, <2>1 DEF Matches
  <2>3. /\ w \in plan[r] /\ w.st = "planned" /\ w.doc = q.doc /\ w.op = q.op
        /\ w.ver = q.ver
    BY <1>7, <2>1, <2>2 DEF Matches, Group, Unsent
  <2>4. q.op = "delete" => q.ver = 0
    BY <2>3 DEF RowsInv, DeletedStay
  <2>5. Current(w) => q.ver = Desired(q.doc)
    BY <1>2, <2>3, <2>4 DEF Current, Desired
  <2> QED BY <1>2, <2>1, <2>3, <2>4, <2>5 DEF new
<1>8. RowsKept'
  <2> SUFFICES ASSUME NEW d \in Docs, Kept(d)', ~stray'[d]
               PROVE  row'[d] = Desired(d)' \/ Upcoming(d)'
    BY DEF RowsKept
  <2>1. Kept(d) /\ Desired(d)' = Desired(d)
    BY <1>4, SameDocuments
  <2>2. CASE d # q.doc
    BY <1>5, <1>6, <2>1, <2>2 DEF RowsInv, RowsKept
  <2>3. CASE d = q.doc
    <3>1. q.run = lease.owner /\ q.run \in Runs
      BY <1>5, <2>3
    <3>2. PICK w \in plan[q.run] : /\ w.st = "planned" /\ w.doc = d
                                   /\ Current(w) => q.ver = Desired(d)
      BY <1>7, <2>3, <3>1
    <3>3. new = q.ver
      BY <1>7, <3>1
    <3>4. CASE Current(w)
      BY <1>5, <2>1, <2>3, <3>2, <3>3, <3>4
    <3>5. CASE ~Current(w)
      <4>1. Upcoming(d)
        BY <2>1, <3>1, <3>2, <3>5 DEF RowsInv, StaleCovered
      <4> QED BY <1>6, <4>1
    <3> QED BY <3>4, <3>5
  <2> QED BY <2>2, <2>3
<1>9. StaleCovered'
  <2> SUFFICES ASSUME NEW r \in Runs, lease'.owner = r, NEW w \in plan'[r],
                      w.st = "planned", ~Current(w)', Kept(w.doc)'
               PROVE  Upcoming(w.doc)'
    BY DEF StaleCovered
  <2>1. w \in plan[r] /\ w \in Writes /\ w.doc \in Docs
    BY <1>1, RunsTyped DEF Writes
  <2>2. ~Current(w) /\ Kept(w.doc)
    BY <1>4, <2>1, SameDocuments
  <2> QED BY <1>1, <1>6, <2>1, <2>2 DEF RowsInv, StaleCovered
<1>10. DeletedStay' /\ PlansMatchLabel'
  BY <1>1, <1>4, DeletedStays DEF PlansMatchLabel, RowsInv, Unsent
<1>11. InFlight'
  <2>1. \A p \in wire \ {q} : p.run \in Runs => p.run # q.run
    BY DEF RowsInv, InFlight
  <2>2. ASSUME NEW p \in wire \ {q}, p.run \in Runs
        PROVE  Matches(p)'
    <3>1. Matches(p) /\ p.doc \in Docs
      BY <2>2 DEF RowsInv, InFlight, IInv, TypeOK, Requests
    <3>2. p.run = lease.owner /\ ~stray'[p.doc] => p.doc # q.doc
      BY <1>5, <2>1, <2>2
    <3>3. /\ p.landed /\ p.run = lease'.owner /\ ~stray'[p.doc]
               => row'[p.doc] = p.ver
      BY <1>1, <1>5, <3>1, <3>2 DEF Matches
    <3> QED BY <1>1, <3>1, <3>3 DEF Matches, Group, Unsent
  <2>3. ASSUME q.run \in Runs
        PROVE  Matches(landed)'
    <3>1. Matches(q) /\ new = q.ver
      BY <1>7, <2>3
    <3>2. row'[landed.doc] = landed.ver
      BY <1>2, <1>3, <1>5, <3>1
    <3> QED BY <1>1, <1>3, <3>1, <3>2 DEF Matches, Group, Unsent
  <2>4. \A p \in wire' : p.run \in Runs =>
          p \in wire \ {q} \/ (p = landed /\ q.run \in Runs)
    BY <1>1, <1>3
  <2>5. \A p1, p2 \in wire' : p1.run \in Runs /\ p1.run = p2.run => p1 = p2
    BY <1>3, <2>1, <2>4 DEF RowsInv, InFlight
  <2> QED BY <2>2, <2>3, <2>4, <2>5 DEF InFlight
<1> QED BY <1>8, <1>9, <1>10, <1>11 DEF RowsInv

-----------------------------------------------------------------------------
(* The steps of a run that claim, plan, settle or release jobs. *)

(* A step of run r with which no pledge is lost. *)
LEMMA RunKeepsRows ==
  ASSUME IInv, RowsInv, SameDocs, NEW r \in Runs, OthersStay(r),
         UNCHANGED <<row, stray>>,
         lease'.owner \in {lease.owner, r, None, Lost},
         \A j \in Jobs, d \in Docs : Kept(d) /\ Pledged(j, d) => Pledged(j, d)',
         \A j \in Jobs : job'[j].status # "free" =>
                           job[j].status # "free" /\ job'[j].key = job[j].key
                                                  /\ job'[j].located = job[j].located,
         \A w \in plan'[r] :
           /\ w.op = "delete" =>
                \/ \E v \in plan[r] : v.op = w.op /\ v.doc = w.doc /\ v.ver = w.ver
                \/ w.doc \in Docs /\ Gone(w.doc) /\ w.ver = 0
           /\ w.st = "planned" /\ lease'.owner = r =>
                \/ lease.owner = r /\ w \in plan[r]
                \/ w \in Writes /\ Current(w),
         (PlanFits(r))',
         \A q \in wire' : q.run \in Runs => q \in wire /\ q.run # r
  PROVE  RowsInv'
<1>1. \A d \in Docs : Kept(d) /\ Upcoming(d) => Upcoming(d)'
  BY DEF Upcoming
<1>2. \A s \in Runs : lease'.owner = s =>
        \A w \in plan'[s] : w.st = "planned" =>
          \/ lease.owner = s /\ w \in plan[s]
          \/ w \in Writes /\ Current(w)
  <2> SUFFICES ASSUME NEW s \in Runs, lease'.owner = s, s # r
               PROVE  lease.owner = s /\ plan'[s] = plan[s]
    OBVIOUS
  <2> QED BY SheetSyncAssumption DEF OthersStay
<1>3. RowsKept' /\ StaleCovered'
  BY <1>1, <1>2, RowsStay
<1>4. \A s \in Runs : \A w \in plan'[s] : w.op = "delete" =>
        \/ \E v \in plan[s] : v.op = w.op /\ v.doc = w.doc /\ v.ver = w.ver
        \/ w.doc \in Docs /\ Gone(w.doc) /\ w.ver = 0
  BY DEF OthersStay
<1>5. DeletedStay'
  BY <1>4, DeletedStays
<1>6. InFlight' /\ PlansMatchLabel'
  BY WireOfOthers, PlansFit
<1> QED BY <1>3, <1>5, <1>6 DEF RowsInv

(* A run that lists nothing has claimed nothing. *)
LEMMA NothingClaimed ==
  ASSUME IInv, NEW r \in Runs, pc[r] \in {"idle", "claim", "finish"}
  PROVE  /\ todo[r] = {} /\ work[r] = {}
         /\ \A j \in Jobs : job[j].status = "processing" => job[j].run # r
<1>1. todo[r] = {} /\ work[r] = {}
  BY DEF IInv, ListsMatchLabel
<1>2. ASSUME NEW j \in Jobs, job[j].status = "processing", job[j].run = r
      PROVE  FALSE
  BY <1>1, <1>2, SheetSyncAssumption DEF IInv, NoProcessingLeak
<1> QED BY <1>1, <1>2

(* The lease is acquired. *)
LEMMA StartKeepsRows ==
  ASSUME IInv, RowsInv, NEW r \in Runs, Start(r)
  PROVE  RowsInv'
<1>1. /\ UNCHANGED <<doc, job, row, stray, work, wire, plan, ok>>
      /\ pc[r] = "idle" /\ pc' = [pc EXCEPT ![r] = "claim"]
      /\ lease'.owner = r
  BY DEF Start, domainVars, Goto
<1>2. SameDocs /\ OthersStay(r) /\ pc'[r] = "claim"
  BY <1>1, RunsTyped DEF SameDocs, Kept, Exists, OthersStay
<1>3. plan[r] = {} /\ plan'[r] = {} /\ (PlanFits(r))'
  BY <1>1, <1>2 DEF RowsInv, PlansMatchLabel, PlanFits
<1>4. \A j \in Jobs, d \in Docs : Pledged(j, d) => Pledged(j, d)'
  BY <1>1, <1>2, NothingClaimed, OthersKeep
<1>5. \A q \in wire' : q.run \in Runs => q \in wire /\ q.run # r
  BY <1>1, NothingAwaited
<1> QED BY <1>1, <1>2, <1>3, <1>4, <1>5, RunKeepsRows

(* The run forgets its lists. *)
LEMMA ForgetEffect ==
  ASSUME IInv, NEW r \in Runs, Forget(r)
  PROVE  OthersStay(r) /\ pc'[r] = "idle" /\ plan'[r] = {} /\ (PlanFits(r))'
<1>1. /\ work' = [work EXCEPT ![r] = {}] /\ plan' = [plan EXCEPT ![r] = {}]
      /\ ok' = [ok EXCEPT ![r] = FALSE] /\ pc' = [pc EXCEPT ![r] = "idle"]
  BY DEF Forget, Uncheck, Goto
<1>2. OthersStay(r) /\ pc'[r] = "idle" /\ plan'[r] = {}
  BY <1>1, RunsTyped DEF OthersStay
<1> QED BY <1>2 DEF PlanFits

(* The run ends. *)
LEMMA FinishKeepsRows ==
  ASSUME IInv, RowsInv, NEW r \in Runs, Finish(r)
  PROVE  RowsInv'
<1>1. /\ UNCHANGED <<doc, job, row, stray, wire>> /\ pc[r] = "finish"
      /\ Forget(r) /\ lease'.owner \in {lease.owner, None}
  BY DEF Finish, domainVars, Released
<1>2. SameDocs /\ OthersStay(r) /\ plan'[r] = {} /\ (PlanFits(r))'
  BY <1>1, ForgetEffect DEF SameDocs, Kept, Exists
<1>3. \A j \in Jobs, d \in Docs : Pledged(j, d) => Pledged(j, d)'
  BY <1>1, <1>2, NothingClaimed, OthersKeep
<1>4. \A q \in wire' : q.run \in Runs => q \in wire /\ q.run # r
  BY <1>1, NothingAwaited
<1> QED BY <1>1, <1>2, <1>3, <1>4, RunKeepsRows
(* A job that keeps its key serves the rows that its new hints leave. *)
LEMMA ServesStays ==
  ASSUME IInv, SameDocs, NEW j \in Jobs, NEW d \in Docs, Serves(j, d),
         job[j].status # "free", job'[j].key = job[j].key
                                 /\ job'[j].located = job[j].located,
         \/ job'[j].hints \in {job[j].hints, {}}
         \/ d \in job'[j].hints
  PROVE  Serves(j, d)'
<1>1. job[j].key.id \in Docs
  BY DEF IInv, JobsNamed, WellKeyed, Keys
<1> QED BY <1>1 DEF Serves, Allowed, SameDocs, Exists

(* claimDueJobs: what is claimed is on the list to plan. *)
LEMMA ClaimKeepsRows ==
  ASSUME IInv, RowsInv, NEW r \in Runs, Claim(r)
  PROVE  RowsInv'
<1>1. /\ UNCHANGED <<doc, lease, row, stray, work, wire, plan, ok>>
      /\ pc[r] = "claim"
  BY DEF Claim, domainVars
<1>2. PICK S \in SUBSET Claimable :
        /\ job' = [j \in Jobs |->
                     IF j \in S
                     THEN [job[j] EXCEPT !.status = "processing", !.run = r,
                                         !.live = TRUE]
                     ELSE job[j]]
        /\ pc' = [pc EXCEPT ![r] = IF S = {} THEN "finish" ELSE "plan"]
  BY DEF Claim, Goto
<1>3. SameDocs /\ OthersStay(r)
  BY <1>1, <1>2, RunsTyped DEF SameDocs, Kept, Exists, OthersStay
<1>4. \A j \in Jobs :
        IF j \in S
        THEN /\ job[j].status \in Active /\ job'[j].status = "processing"
             /\ job'[j].run = r /\ job'[j].key = job[j].key
             /\ job'[j].located = job[j].located
             /\ job'[j].hints = job[j].hints
        ELSE job'[j] = job[j]
  <2> SUFFICES ASSUME NEW j \in S
               PROVE  /\ job[j].status \in Active
                      /\ job'[j].status = "processing"
                      /\ job'[j].run = r /\ job'[j].key = job[j].key
                      /\ job'[j].located = job[j].located
                      /\ job'[j].hints = job[j].hints
    BY <1>2
  <2>1. j \in Jobs /\ job[j].status \in Active
    BY DEF Claimable
  <2>2. job'[j] = [job[j] EXCEPT !.status = "processing", !.run = r,
                                 !.live = TRUE]
    BY <1>2, <2>1
  <2> QED BY <2>1, <2>2, RunsTyped DEF JobRecords
<1>5. work[r] = {} /\ plan[r] = {}
  BY <1>1, NothingClaimed DEF RowsInv, PlansMatchLabel
<1>6. ASSUME NEW j \in Jobs, NEW d \in Docs, Pledged(j, d)
      PROVE  Pledged(j, d)'
  <2>1. CASE j \in S
    <3>1. Serves(j, d)'
      BY <1>3, <1>4, <1>6, <2>1, ServesStays DEF Pledged, Active
    <3> QED BY <1>1, <1>4, <1>5, <2>1, <3>1 DEF Pledged, Returning
  <2>2. CASE j \notin S
    BY <1>1, <1>3, <1>4, <1>6, <2>2, NothingClaimed, OthersKeep
  <2> QED BY <2>1, <2>2
<1>7. \A j \in Jobs : job'[j].status # "free" =>
        job[j].status # "free" /\ job'[j].key = job[j].key
                               /\ job'[j].located = job[j].located
  BY <1>4 DEF Active
<1>8. plan'[r] = {} /\ (PlanFits(r))'
  BY <1>1, <1>5 DEF PlanFits, Unsent
<1>9. \A q \in wire' : q.run \in Runs => q \in wire /\ q.run # r
  BY <1>1, NothingAwaited
<1> QED BY <1>1, <1>3, <1>6, <1>7, <1>8, <1>9, RunKeepsRows

(* planJobWrites: what the job owes is planned. *)
LEMMA PlanJobKeepsRows ==
  ASSUME IInv, RowsInv, NEW r \in Runs, NEW j \in Jobs, PlanJob(r, j)
  PROVE  RowsInv'
<1>1. /\ UNCHANGED <<doc, lease, row, stray, job, wire, pc>>
      /\ pc[r] = "plan" /\ j \in todo[r] /\ ~PlanThrows(j)
      /\ work' = [work EXCEPT ![r] = @ \cup {j}]
      /\ plan' = [plan EXCEPT ![r] = @ \cup PlannedWrites(j)]
      /\ ok' = [ok EXCEPT ![r] = FALSE]
  BY DEF PlanJob, IsNext, domainVars, Uncheck
<1>2. /\ SameDocs /\ OthersStay(r)
      /\ work'[r] = work[r] \cup {j}
      /\ plan'[r] = plan[r] \cup PlannedWrites(j)
  BY <1>1, RunsTyped DEF SameDocs, Kept, Exists, OthersStay
<1>3. job[j].status # "free"
  BY <1>1 DEF IInv, ListsMatchLabel
<1>4. \A w \in PlannedWrites(j) :
        /\ w \in Writes /\ w.job = j /\ w.st = "planned" /\ Current(w)
        /\ w.op = "delete" => w.doc \in Docs /\ Gone(w.doc) /\ w.ver = 0
  BY <1>1, <1>3, PlannedAreCurrent
<1>5. \A d \in Docs : GoesOn(r, d)
  <2>1. \A d \in Docs : StaysUnsettled(r, d)
    BY <1>2, SamePlan
  <2> QED BY <1>1, <2>1 DEF GoesOn
<1>6. ASSUME NEW i \in Jobs, NEW d \in Docs, Kept(d), Pledged(i, d)
      PROVE  Pledged(i, d)'
  <2>1. CASE i # j
    BY <1>1, <1>2, <1>5, <1>6, <2>1, RunKeeps
  <2>2. CASE i = j
    <3>1. Serves(j, d)'
      BY <1>1, <1>2, <1>3, <1>6, <2>2, ServesStays DEF Pledged
    <3>2. CASE job[j].status = "processing" /\ job[j].run = r
      <4>1. PICK w \in PlannedWrites(j) : w.doc = d
        BY <1>1, <1>3, <1>6, <2>2, PlanServes DEF Pledged
      <4>2. w \in plan'[r] /\ w.job = j /\ w.st = "planned" /\ Current(w)'
        BY <1>2, <1>4, <4>1, SameDocuments
      <4>3. (Due(job[j].run, j, d))'
        BY <1>1, <3>2, <4>1, <4>2 DEF Due, Unsettled
      <4> QED BY <1>1, <2>2, <3>1, <3>2, <4>3 DEF Pledged
    <3>3. CASE ~(job[j].status = "processing" /\ job[j].run = r)
      BY <1>1, <1>2, <1>6, <2>2, <3>3, OthersKeep
    <3> QED BY <3>2, <3>3
  <2> QED BY <2>1, <2>2
<1>7. (PlanFits(r))'
  BY <1>1 DEF PlanFits
<1>8. \A q \in wire' : q.run \in Runs => q \in wire /\ q.run # r
  BY <1>1, NothingAwaited
<1>9. \A w \in plan'[r] :
        /\ w.op = "delete" =>
             \/ \E v \in plan[r] : v.op = w.op /\ v.doc = w.doc /\ v.ver = w.ver
             \/ w.doc \in Docs /\ Gone(w.doc) /\ w.ver = 0
        /\ w.st = "planned" /\ lease'.owner = r =>
             \/ lease.owner = r /\ w \in plan[r]
             \/ w \in Writes /\ Current(w)
  BY <1>1, <1>2, <1>4
<1> QED BY <1>1, <1>2, <1>6, <1>7, <1>8, <1>9, RunKeepsRows

(* A job of the run is settled, or the run fails; what the job still owes is in
   its hints. *)
LEMMA SettlementKeepsRows ==
  ASSUME IInv, RowsInv, NEW r \in Runs, NEW j \in Jobs, NEW new,
         pc[r] \in {"plan", "settle"}, Settle(r, j, new), Uncheck(r),
         UNCHANGED <<doc, lease, row, stray, wire, plan>>,
         \/ UNCHANGED work
         \/ work' = [work EXCEPT ![r] = @ \ {j}],
         Owns(r, j) =>
           /\ new.key = job[j].key /\ new.located = job[j].located
           /\ new.status \in Active \cup {"failed", "synced"}
           /\ \A d \in Docs : Pledged(j, d) =>
                /\ new.status \in Active \cup {"failed"}
                /\ new.hints = {} \/ d \in new.hints
  PROVE  RowsInv'
<1>1. /\ SameDocs /\ OthersStay(r) /\ plan' = plan
      /\ work'[r] \subseteq work[r] /\ ok'[r] = FALSE
  BY RunsTyped DEF SameDocs, Kept, Exists, OthersStay, Settle, Goto, Uncheck
<1>2. CASE Owns(r, j)
  <2>1. /\ UNCHANGED pc /\ job'[j] = new
        /\ \A i \in Jobs \ {j} : job'[i] = job[i]
        /\ job[j].status = "processing"
    BY <1>2, RunsTyped DEF Settle, Owns
  <2>2. \A d \in Docs : GoesOn(r, d)
    BY <1>1, <2>1, SamePlan DEF GoesOn
  <2>3. ASSUME NEW i \in Jobs, NEW d \in Docs, Pledged(i, d)
        PROVE  Pledged(i, d)'
    <3>1. CASE i = j
      <4>1. Serves(j, d)'
        BY <1>1, <1>2, <2>1, <2>3, <3>1, ServesStays DEF Pledged
      <4> QED BY <1>2, <2>1, <2>3, <3>1, <4>1 DEF Pledged, Active
    <3>2. CASE i # j
      BY <1>1, <2>1, <2>2, <2>3, <3>2, RunKeeps
    <3> QED BY <3>1, <3>2
  <2>4. (PlanFits(r))'
    BY <1>1, <2>1 DEF PlanFits, Unsent, RowsInv, PlansMatchLabel
  <2>5. \A q \in wire' : q.run \in Runs => q \in wire /\ q.run # r
    BY NothingAwaited
  <2>6. \A i \in Jobs : job'[i].status # "free" =>
          job[i].status # "free" /\ job'[i].key = job[i].key
                                 /\ job'[i].located = job[i].located
    BY <1>2, <2>1
  <2> QED BY <1>1, <2>3, <2>4, <2>5, <2>6, RunKeepsRows
<1>3. CASE ~Owns(r, j)
  <2>1. UNCHANGED job /\ pc'[r] = "failing"
    BY <1>3, RunsTyped DEF Settle, Goto
  <2>2. \A d \in Docs : GoesOn(r, d)
    BY <2>1 DEF GoesOn
  <2>3. \A i \in Jobs, d \in Docs : Pledged(i, d) => Pledged(i, d)'
    BY <1>1, <2>1, <2>2, RunKeeps
  <2>4. (PlanFits(r))'
    BY <2>1 DEF PlanFits
  <2>5. \A q \in wire' : q.run \in Runs => q \in wire /\ q.run # r
    BY NothingAwaited
  <2> QED BY <1>1, <2>1, <2>3, <2>4, <2>5, RunKeepsRows
<1> QED BY <1>2, <1>3
(* The hints that a settlement leaves. *)
LEMMA SettlementHints ==
  ASSUME IInv, NEW j \in Jobs, NEW targets \in SUBSET Docs
  PROVE  /\ Failure(j, targets).status \in Active \cup {"failed"}
         /\ Failure(j, targets).key = job[j].key
         /\ Failure(j, targets).located = job[j].located
         /\ Failure(j, targets).hints \in {{}, targets}
         /\ Deferred(j, targets).status \in Active
         /\ Deferred(j, targets).key = job[j].key
         /\ Deferred(j, targets).located = job[j].located
         /\ Deferred(j, targets).hints = targets
         /\ Synced(j).status = "synced" /\ Synced(j).key = job[j].key
         /\ Synced(j).located = job[j].located
<1>1. job[j] \in JobRecords
  BY RunsTyped
<1>2. CASE job[j].attempts + 1 >= MaxAttempts
  <2>1. Failure(j, targets) = [job[j] EXCEPT !.status = "failed",
                                 !.attempts = job[j].attempts + 1,
                                 !.live = FALSE, !.hints = {}]
    BY <1>2 DEF Failure
  <2> QED BY <1>1, <2>1 DEF JobRecords, Deferred, Synced, Active
<1>3. CASE ~(job[j].attempts + 1 >= MaxAttempts)
  <2>1. Failure(j, targets) = [job[j] EXCEPT !.status = "retrying",
                                 !.attempts = job[j].attempts + 1,
                                 !.live = FALSE, !.hints = targets]
    BY <1>3 DEF Failure
  <2> QED BY <1>1, <2>1 DEF JobRecords, Deferred, Synced, Active
<1> QED BY <1>2, <1>3

(* A job that cannot be planned fails as a whole. *)
LEMMA PlanFailsKeepsRows ==
  ASSUME IInv, RowsInv, NEW r \in Runs, NEW j \in Jobs, PlanFails(r, j)
  PROVE  RowsInv'
<1> DEFINE new == Failure(j, {})
<1>1. /\ new.key = job[j].key
      /\ new.located = job[j].located /\ new.status \in Active \cup {"failed"}
      /\ new.hints = {}
  BY SettlementHints
<1>2. /\ pc[r] = "plan" /\ Settle(r, j, new) /\ Uncheck(r)
      /\ UNCHANGED <<doc, lease, row, stray, wire, plan, work>>
  BY DEF PlanFails, domainVars
<1> HIDE DEF new
<1> QED BY <1>1, <1>2, SettlementKeepsRows

(* A planned job is settled by the outcomes of its writes: the retry targets
   name every row that it still owes. *)
LEMMA SettleJobKeepsRows ==
  ASSUME IInv, RowsInv, NEW r \in Runs, NEW j \in Jobs, SettleJob(r, j)
  PROVE  RowsInv'
<1> DEFINE W == Outcomes(r, j)
           new == IF \E w \in W : w.st = "failed"
                  THEN Failure(j, RetryTargets(W))
                  ELSE IF \E w \in W : w.st = "deferred"
                       THEN Deferred(j, RetryTargets(W))
                       ELSE Synced(j)
<1>1. /\ pc[r] = "settle" /\ ok[r] /\ j \in work[r]
      /\ Settle(r, j, new) /\ Uncheck(r)
      /\ work' = [work EXCEPT ![r] = @ \ {j}]
      /\ UNCHANGED <<doc, lease, row, stray, wire, plan>>
  BY DEF SettleJob, domainVars
<1>2. RetryTargets(W) \in SUBSET Docs
  BY RunsTyped DEF RetryTargets, Outcomes, Writes
<1>3. /\ new.key = job[j].key /\ new.located = job[j].located
      /\ new.status \in Active \cup {"failed", "synced"}
  <2> HIDE DEF W
  <2> QED BY <1>2, SettlementHints
<1>4. ASSUME NEW w \in W, w.st \in {"failed", "deferred"}
      PROVE  /\ new.status \in Active \cup {"failed"}
             /\ new.hints \in {{}, RetryTargets(W)}
             /\ w.doc \in RetryTargets(W)
  <2>1. w.doc \in RetryTargets(W)
    BY <1>4 DEF RetryTargets
  <2> HIDE DEF W
  <2> QED BY <1>2, <1>4, <2>1, SettlementHints
<1>5. ASSUME Owns(r, j), NEW d \in Docs, Pledged(j, d)
      PROVE  \E w \in W : w.doc = d /\ w.st \in {"failed", "deferred"}
  <2>1. job[j].status = "processing" /\ job[j].run = r /\ job[j].live
    BY <1>5 DEF Owns
  <2>2. ~Returning(r, j)
    BY <1>1, <2>1, SheetSyncAssumption DEF Returning, Doomed
  <2>3. PICK w \in plan[r] : w.job = j /\ w.doc = d /\ Unsettled(w)
    BY <1>5, <2>1, <2>2 DEF Pledged, Due
  <2>4. w.st # "planned"
    BY <1>1 DEF RowsInv, PlansMatchLabel, Unsent
  <2> QED BY <2>3, <2>4 DEF Outcomes, Unsettled
<1> HIDE DEF W, new
<1>6. Owns(r, j) =>
        /\ new.key = job[j].key /\ new.located = job[j].located
        /\ new.status \in Active \cup {"failed", "synced"}
        /\ \A d \in Docs : Pledged(j, d) =>
             /\ new.status \in Active \cup {"failed"}
             /\ new.hints = {} \/ d \in new.hints
  BY <1>3, <1>4, <1>5
<1>7. /\ pc[r] \in {"plan", "settle"} /\ Settle(r, j, new) /\ Uncheck(r)
      /\ UNCHANGED <<doc, lease, row, stray, wire, plan>>
      /\ UNCHANGED work \/ work' = [work EXCEPT ![r] = @ \ {j}]
  BY <1>1
<1> QED BY <1>6, <1>7, SettlementKeepsRows

(* The run deadline passes: what is not planned is released, what is not sent
   is deferred. *)
LEMMA OutOfTimeKeepsRows ==
  ASSUME IInv, RowsInv, NEW r \in Runs, OutOfTime(r)
  PROVE  RowsInv'
<1>1. /\ UNCHANGED <<doc, lease, row, stray, wire, work>>
      /\ pc[r] \in {"plan", "write"}
      /\ plan' = [plan EXCEPT ![r] = Stopped(plan[r])]
      /\ ok' = [ok EXCEPT ![r] = FALSE]
      /\ \/ UNCHANGED pc /\ pc[r] = "plan"
         \/ pc' = [pc EXCEPT ![r] = "failing"] /\ UNCHANGED job
         \/ pc' = [pc EXCEPT ![r] = "persist"] /\ UNCHANGED job
  BY DEF OutOfTime, domainVars, Uncheck, Goto
<1>2. /\ SameDocs /\ OthersStay(r) /\ plan'[r] = Stopped(plan[r])
      /\ pc'[r] \in {"plan", "failing", "persist"}
      /\ plan[r] \in SUBSET Writes
  BY <1>1, RunsTyped DEF SameDocs, Kept, Exists, OthersStay
<1>3. \A d \in Docs : StaysUnsettled(r, d)
  BY <1>2, SettlesLater, StoppedEffect
<1>4. \A d \in Docs : GoesOn(r, d)
  BY <1>1, <1>2, <1>3 DEF GoesOn
<1>5. \A j \in Jobs :
        \/ job'[j] = job[j]
        \/ /\ job[j].status = "processing" /\ job'[j].status = "pending"
           /\ job'[j].key = job[j].key
           /\ job'[j].located = job[j].located /\ job'[j].hints = job[j].hints
  <2> SUFFICES ASSUME NEW j \in Jobs, job'[j] # job[j]
               PROVE  /\ job[j].status = "processing"
                      /\ job'[j].status = "pending"
                      /\ job'[j].key = job[j].key /\ job'[j].located = job[j].located
                      /\ job'[j].hints = job[j].hints
    OBVIOUS
  <2>1. job[j].status = "processing" /\ job'[j] =
          [job[j] EXCEPT !.status = "pending", !.live = FALSE]
    BY DEF OutOfTime, Owns
  <2> QED BY <2>1, RunsTyped DEF JobRecords
<1>6. ASSUME NEW j \in Jobs, NEW d \in Docs, Pledged(j, d)
      PROVE  Pledged(j, d)'
  <2>1. CASE job'[j] = job[j]
    BY <1>1, <1>2, <1>4, <1>6, <2>1, RunKeeps
  <2>2. CASE job'[j] # job[j]
    <3>1. /\ job[j].status = "processing" /\ job'[j].status = "pending"
          /\ job'[j].key = job[j].key
          /\ job'[j].located = job[j].located /\ job'[j].hints = job[j].hints
      BY <1>5, <2>2
    <3>2. Serves(j, d)'
      BY <1>2, <1>6, <3>1, ServesStays DEF Pledged
    <3> QED BY <3>1, <3>2 DEF Pledged, Active
  <2> QED BY <2>1, <2>2
<1>7. \A j \in Jobs : job'[j].status # "free" =>
        job[j].status # "free" /\ job'[j].key = job[j].key
                               /\ job'[j].located = job[j].located
  BY <1>5
<1>8. (PlanFits(r))'
  BY <1>2, StoppedEffect DEF PlanFits, Unsent
<1>9. \A w \in plan'[r] :
        /\ \E v \in plan[r] : v.op = w.op /\ v.doc = w.doc /\ v.ver = w.ver
        /\ w.st # "planned"
  BY <1>2, StoppedEffect DEF Unsent
<1>10. \A q \in wire' : q.run \in Runs => q \in wire /\ q.run # r
  BY <1>1, NothingAwaited
<1> QED BY <1>1, <1>2, <1>6, <1>7, <1>8, <1>9, <1>10, RunKeepsRows

(* The catch block gives every claim back. *)
LEMMA AbortKeepsRows ==
  ASSUME IInv, RowsInv, NEW r \in Runs, Abort(r)
  PROVE  RowsInv'
<1>1. /\ UNCHANGED <<doc, row, stray, wire>> /\ pc[r] = "failing"
      /\ Forget(r) /\ lease'.owner \in {lease.owner, None}
      /\ job' = ReleasedClaims(r)
  BY DEF Abort, domainVars, Released
<1>2. SameDocs /\ OthersStay(r) /\ plan'[r] = {} /\ (PlanFits(r))'
  BY <1>1, ForgetEffect DEF SameDocs, Kept, Exists
<1>3. \A j \in Jobs :
        IF j \in Claims(r)
        THEN /\ job[j].status = "processing" /\ job'[j].status = "retrying"
             /\ job'[j].key = job[j].key
             /\ job'[j].located = job[j].located /\ job'[j].hints = job[j].hints
        ELSE job'[j] = job[j]
  <2> SUFFICES ASSUME NEW j \in Jobs, j \in Claims(r)
               PROVE  /\ job[j].status = "processing"
                      /\ job'[j].status = "retrying"
                      /\ job'[j].key = job[j].key /\ job'[j].located = job[j].located
                      /\ job'[j].hints = job[j].hints
    BY <1>1 DEF ReleasedClaims
  <2>1. job'[j] = [job[j] EXCEPT !.status = "retrying", !.live = FALSE]
    BY <1>1 DEF ReleasedClaims
  <2> QED BY <2>1, RunsTyped DEF Claims, JobRecords
<1>4. ASSUME NEW j \in Jobs, NEW d \in Docs, Pledged(j, d)
      PROVE  Pledged(j, d)'
  <2>1. CASE j \in Claims(r)
    <3>1. Serves(j, d)'
      BY <1>2, <1>3, <1>4, <2>1, ServesStays DEF Pledged
    <3> QED BY <1>3, <2>1, <3>1 DEF Pledged, Active
  <2>2. CASE j \notin Claims(r)
    BY <1>1, <1>2, <1>3, <1>4, <2>2, OthersKeep DEF Claims
  <2> QED BY <2>1, <2>2
<1>5. \A q \in wire' : q.run \in Runs => q \in wire /\ q.run # r
  BY <1>1, NothingAwaited
<1>6. \A j \in Jobs : job'[j].status # "free" =>
        job[j].status # "free" /\ job'[j].key = job[j].key
                               /\ job'[j].located = job[j].located
  BY <1>3
<1> QED BY <1>1, <1>2, <1>4, <1>5, <1>6, RunKeepsRows

(* The claims of a killed run run on without an owner. *)
LEMMA CrashKeepsRows ==
  ASSUME IInv, RowsInv, NEW r \in Runs, Crash(r)
  PROVE  RowsInv'
<1>1. /\ UNCHANGED <<doc, row, stray>> /\ Forget(r)
      /\ lease' = IF lease.owner = r THEN [lease EXCEPT !.owner = Lost] ELSE lease
      /\ job' = [j \in Jobs |->
           IF j \in Claims(r) THEN [job[j] EXCEPT !.run = Lost] ELSE job[j]]
      /\ wire' = UNION {IF q.run = r THEN Abandon(q) ELSE {q} : q \in wire}
  BY DEF Crash
<1>2. SameDocs /\ OthersStay(r) /\ plan'[r] = {} /\ (PlanFits(r))'
  BY <1>1, ForgetEffect DEF SameDocs, Kept, Exists
<1>3. lease'.owner \in {lease.owner, Lost}
  BY <1>1 DEF IInv, TypeOK
<1>4. \A j \in Jobs :
        IF j \in Claims(r)
        THEN /\ job[j].status = "processing" /\ job'[j].status = "processing"
             /\ job'[j].run = Lost
             /\ job'[j].key = job[j].key
             /\ job'[j].located = job[j].located /\ job'[j].hints = job[j].hints
        ELSE job'[j] = job[j]
  <2> SUFFICES ASSUME NEW j \in Jobs, j \in Claims(r)
               PROVE  /\ job[j].status = "processing"
                      /\ job'[j].status = "processing"
                      /\ job'[j].run = Lost
                      /\ job'[j].key = job[j].key /\ job'[j].located = job[j].located
                      /\ job'[j].hints = job[j].hints
    BY <1>1
  <2>1. job'[j] = [job[j] EXCEPT !.run = Lost]
    BY <1>1
  <2> QED BY <2>1, RunsTyped DEF Claims, JobRecords
<1>5. ASSUME NEW j \in Jobs, NEW d \in Docs, Pledged(j, d)
      PROVE  Pledged(j, d)'
  <2>1. CASE j \in Claims(r)
    <3>1. Serves(j, d)'
      BY <1>2, <1>4, <1>5, <2>1, ServesStays DEF Pledged
    <3> QED BY <1>4, <2>1, <3>1 DEF Pledged, Returning
  <2>2. CASE j \notin Claims(r)
    BY <1>2, <1>3, <1>4, <1>5, <2>2, OthersKeep DEF Claims
  <2> QED BY <2>1, <2>2
<1>6. ASSUME NEW q \in wire', q.run \in Runs
      PROVE  q \in wire /\ q.run # r
  <2>1. PICK p \in wire : q \in IF p.run = r THEN Abandon(p) ELSE {p}
    BY <1>1
  <2>2. p \in Requests
    BY DEF IInv, TypeOK
  <2>3. CASE p.run = r
    <3>1. q.run = Lost
      BY <2>1, <2>2, <2>3 DEF Abandon, Requests
    <3> QED BY <1>6, <3>1, SheetSyncAssumption
  <2>4. CASE p.run # r
    BY <2>1, <2>4
  <2> QED BY <2>3, <2>4
<1>7. \A j \in Jobs : job'[j].status # "free" =>
        job[j].status # "free" /\ job'[j].key = job[j].key
                               /\ job'[j].located = job[j].located
  BY <1>4
<1> QED BY <1>1, <1>2, <1>3, <1>5, <1>6, <1>7, RunKeepsRows
-----------------------------------------------------------------------------
(* Domain writes. *)

(* What becomes of an outbox row when the documents of D are written: it stays,
   is joined, is cancelled by a tombstone, or is inserted. *)
JobRewritten(D, j) ==
  \/ job'[j] = job[j]
  \/ /\ job[j].status \in Active /\ job'[j].key = job[j].key
     /\ job[j].key.res = "delete_booked_lead" => job'[j].located = job[j].located
     /\ \/ job'[j].status = job[j].status /\ job'[j].hints = {}
        \/ /\ job'[j].status = "cancelled"
           /\ job[j].key.res # "booking_chain" /\ job[j].key.id \in D
  \/ /\ job[j].status = "free" /\ job'[j].key.id \in Docs
     /\ job'[j].key.res \in Tombstones =>
          job'[j].key.id \in D /\ ~doc'[job'[j].key.id].exists
     /\ job'[j].key.res \in {"booked_lead", "delete_booked_lead"} =>
          job'[j].key.id \notin Leads
     /\ job'[j].key.res = "delete_booked_lead" =>
          job'[j].located = doc'[job'[j].key.id].located

(* The documents of D are written, and an active job is there for each row. *)
Rewritten(D) ==
  /\ UNCHANGED drainVars
  /\ \A d \in Docs \ D : doc'[d] = doc[d]
  /\ \A d \in D :
       \/ CanTouch(d) /\ doc'[d] = Touched(d)
       \/ /\ Exists(d) /\ doc'[d] = Removed(d)
          /\ d \in Bookings /\ LeadOf[d] \in Leads => LeadOf[d] \in D
  /\ \A j \in Jobs : JobRewritten(D, j)
  /\ \A d \in D : \E j \in Jobs : job'[j].status \in Active /\ Serves(j, d)'

(* Documents only move on: what was deleted stays deleted. *)
LEMMA DocumentsMoveOn ==
  ASSUME IInv, RowsInv, NEW D \in SUBSET Docs, Rewritten(D)
  PROVE  /\ \A d \in Docs : Gone(d) => ~doc'[d].exists /\ doc'[d].ver > 0
         /\ \A d \in Docs : Gone(d) => doc'[d] = doc[d]
         /\ \A d \in Docs : doc'[d].exists => doc'[d].ver > 0
         /\ \A d \in D : ~doc'[d].exists => doc'[d].ver > 0
         /\ \A d \in Bookings \cap Docs :
              Exists(d) /\ ~doc'[d].exists /\ LeadOf[d] \in Leads =>
                LeadOf[d] \in D
<1>1. \A d \in Docs : doc[d] \in DocRecords /\ doc[d].ver \in Nat
  BY SheetSyncAssumption DEF IInv, TypeOK, DocRecords
<1>2. \A d \in Docs : Exists(d) => doc[d].ver > 0
  BY DEF RowsInv, DeletedStay
<1>3. ASSUME NEW d \in D, CanTouch(d), doc'[d] = Touched(d)
      PROVE  doc'[d].exists /\ doc'[d].ver > 0 /\ ~Gone(d)
  <2>1. doc'[d].exists = TRUE /\ doc'[d].ver = doc[d].ver + 1
    BY <1>1, <1>3 DEF Touched, DocRecords
  <2>2. ~Gone(d)
    BY <1>1, <1>3 DEF CanTouch, Gone, Exists
  <2> QED BY <1>1, <2>1, <2>2
<1>4. ASSUME NEW d \in D, Exists(d), doc'[d] = Removed(d)
      PROVE  ~doc'[d].exists /\ doc'[d].ver > 0 /\ ~Gone(d)
  <2>1. doc'[d].exists = FALSE /\ doc'[d].ver = doc[d].ver
    BY <1>1, <1>4 DEF Removed, DocRecords
  <2> QED BY <1>2, <1>4, <2>1 DEF Gone
<1>5. ASSUME NEW d \in Docs \ D
      PROVE  /\ Gone(d) => ~doc'[d].exists /\ doc'[d].ver > 0
             /\ doc'[d].exists => doc'[d].ver > 0
             /\ Exists(d) => doc'[d].exists
             /\ doc'[d] = doc[d]
  BY <1>2 DEF Rewritten, Gone, Exists
<1>6. ASSUME NEW d \in D
      PROVE  /\ ~Gone(d) /\ doc'[d].ver > 0
             /\ ~doc'[d].exists /\ d \in Bookings /\ LeadOf[d] \in Leads =>
                  LeadOf[d] \in D
  BY <1>3, <1>4 DEF Rewritten
<1> QED BY <1>5, <1>6

(* A job serves the rows of the documents that stay, unless a tombstone of
   another document cancels it. *)
LEMMA PledgesOfOtherRows ==
  ASSUME IInv, RowsInv, NEW D \in SUBSET Docs, Rewritten(D),
         NEW d \in Docs \ D, NEW j \in Jobs, Pledged(j, d)
  PROVE  Pledged(j, d)'
<1>1. UNCHANGED <<lease, pc, ok, work, plan>>
  BY DEF Rewritten, drainVars
<1>2. doc'[d] = doc[d]
  BY DEF Rewritten
<1>3. job[j].status # "free" /\ WellKeyed(job[j].key)
  BY DEF Pledged, Active, IInv, JobsNamed
<1>4. ASSUME job[j].key.res = "booking_chain", Exists(job[j].key.id),
             LeadOf[job[j].key.id] = d
      PROVE  doc'[job[j].key.id].exists
  <2>1. job[j].key.id \in Bookings /\ LeadOf[job[j].key.id] \in Leads
        /\ job[j].key.id \in Docs
    BY <1>3, <1>4 DEF WellKeyed, Keys
  <2> QED BY <1>4, <2>1, DocumentsMoveOn
<1>5. ASSUME job'[j].key = job[j].key, job'[j].hints \in {job[j].hints, {}}
      PROVE  Serves(j, d)'
  BY <1>2, <1>4, <1>5 DEF Pledged, Serves, Allowed, Exists
<1>6. CASE job'[j] = job[j]
  <2>1. Serves(j, d)'
    BY <1>5, <1>6
  <2>2. ASSUME job[j].status = "processing", Due(job[j].run, j, d)
        PROVE  (Due(job[j].run, j, d))'
    <3>1. PICK w \in plan[job[j].run] : w.job = j /\ w.doc = d /\ Unsettled(w)
      BY <2>2 DEF Due
    <3>2. (Unsettled(w))'
      BY <1>2, <3>1 DEF Unsettled, Current, Exists
    <3> QED BY <1>1, <1>6, <3>1, <3>2 DEF Due
  <2>3. Returning(job[j].run, j) => (Returning(job[j].run, j))'
    BY <1>1, <1>6 DEF Returning, Doomed
  <2> QED BY <1>6, <2>1, <2>2, <2>3 DEF Pledged
<1>7. CASE /\ job[j].status \in Active /\ job'[j].key = job[j].key
           /\ job'[j].status = job[j].status /\ job'[j].hints = {}
  BY <1>5, <1>7 DEF Pledged, Active
<1>8. CASE job[j].key.res # "booking_chain" /\ job[j].key.id \in D
  BY <1>8 DEF Pledged, Serves
<1> QED BY <1>3, <1>6, <1>7, <1>8 DEF Rewritten, JobRewritten

(* So domain writes keep the invariant: rows that become outdated have a job,
   and the jobs of the other rows stay. *)
LEMMA RewrittenKeepsRows ==
  ASSUME IInv, RowsInv, NEW D \in SUBSET Docs, Rewritten(D)
  PROVE  RowsInv'
<1>1. UNCHANGED <<lease, row, stray, wire, pc, ok, work, plan>>
  BY DEF Rewritten, drainVars
<1>2. \A d \in D : Upcoming(d)'
  BY DEF Rewritten, Upcoming, Pledged, Active
<1>3. \A d \in Docs \ D : Upcoming(d) => Upcoming(d)'
  BY PledgesOfOtherRows DEF Upcoming
<1>4. ASSUME NEW d \in Docs \ D
      PROVE  (Kept(d)' <=> Kept(d)) /\ Desired(d)' = Desired(d)
  BY DEF Rewritten, Kept, Desired, Exists
<1>5. RowsKept'
  BY <1>1, <1>2, <1>3, <1>4 DEF RowsKept, RowsInv
<1>6. StaleCovered'
  <2> SUFFICES ASSUME NEW r \in Runs, lease.owner = r, NEW w \in plan[r],
                      w.st = "planned", ~Current(w)', Kept(w.doc)'
               PROVE  Upcoming(w.doc)'
    BY <1>1 DEF StaleCovered
  <2>1. w.doc \in Docs
    BY RunsTyped DEF Writes
  <2>2. CASE w.doc \in D
    BY <1>2, <2>2
  <2>3. CASE w.doc \notin D
    <3>1. doc'[w.doc] = doc[w.doc]
      BY <2>1, <2>3 DEF Rewritten
    <3>2. ~Current(w) /\ Kept(w.doc)
      BY <1>4, <2>1, <2>3, <3>1 DEF Current, Exists
    <3>3. Upcoming(w.doc)
      BY <3>2 DEF RowsInv, StaleCovered
    <3> QED BY <1>3, <2>1, <2>3, <3>3
  <2> QED BY <2>2, <2>3
<1>7. DeletedStay'
  <2>1. ASSUME NEW j \in Jobs, job'[j].status # "free"
        PROVE  /\ job'[j].key.res \in Tombstones =>
                    /\ ~doc'[job'[j].key.id].exists
                    /\ doc'[job'[j].key.id].ver > 0
               /\ job'[j].key.res \in {"booked_lead", "delete_booked_lead"} =>
                    job'[j].key.id \notin Leads
               /\ job'[j].key.res = "delete_booked_lead" /\ Kept(job[j].key.id)' =>
                    job'[j].located
    <3>1. CASE job[j].status # "free" /\ job'[j].key = job[j].key
      <4>1. job[j].key.id \in Docs
        BY <3>1 DEF IInv, JobsNamed, WellKeyed, Keys
      <4>2. /\ job[j].key.res \in Tombstones => Gone(job[j].key.id)
            /\ job[j].key.res \in {"booked_lead", "delete_booked_lead"} =>
                 job[j].key.id \notin Leads
            /\ job[j].key.res = "delete_booked_lead" /\ Kept(job[j].key.id) =>
                 job[j].located
        BY <3>1 DEF RowsInv, DeletedStay
      <4>3. ASSUME job[j].key.res = "delete_booked_lead", Kept(job[j].key.id)'
            PROVE  job'[j].located
        <5>1. doc'[job[j].key.id] = doc[job[j].key.id]
          BY <4>1, <4>2, <4>3, DocumentsMoveOn DEF Tombstones
        <5>2. Kept(job[j].key.id)
          BY <3>1, <4>3, <5>1 DEF Kept, Exists
        <5>3. job'[j].located = job[j].located
          BY <3>1, <4>3 DEF Rewritten, JobRewritten
        <5> QED BY <4>2, <4>3, <5>2, <5>3
      <4> QED BY <3>1, <4>1, <4>2, <4>3, DocumentsMoveOn
    <3>2. CASE job[j].status = "free" /\ job'[j] # job[j]
      <4>1. /\ job'[j].key.id \in Docs
            /\ job'[j].key.res \in Tombstones =>
                 job'[j].key.id \in D /\ ~doc'[job'[j].key.id].exists
            /\ job'[j].key.res \in {"booked_lead", "delete_booked_lead"} =>
                 job'[j].key.id \notin Leads
            /\ job'[j].key.res = "delete_booked_lead" =>
                 job'[j].located = doc'[job'[j].key.id].located
        BY <3>2 DEF Rewritten, JobRewritten, Active
      <4> QED BY <4>1, DocumentsMoveOn DEF Kept, Exists, Tombstones
    <3> QED BY <2>1, <3>1, <3>2 DEF Rewritten, JobRewritten, Active
  <2>2. ASSUME NEW r \in Runs, NEW w \in plan[r], w.op = "delete"
        PROVE  ~doc'[w.doc].exists /\ doc'[w.doc].ver > 0 /\ w.ver = 0
    <3>1. w.doc \in Docs
      BY RunsTyped DEF Writes
    <3> QED BY <2>2, <3>1, DocumentsMoveOn DEF RowsInv, DeletedStay
  <2>3. \A d \in Docs : doc'[d].exists => doc'[d].ver > 0
    BY DocumentsMoveOn
  <2> QED BY <1>1, <2>1, <2>2, <2>3 DEF DeletedStay, Gone, Exists
<1>8. InFlight' /\ PlansMatchLabel'
  BY <1>1, WireStays DEF PlansMatchLabel, RowsInv, Unsent
<1> QED BY <1>5, <1>6, <1>7, <1>8 DEF RowsInv
-----------------------------------------------------------------------------
(* The outbox has room where a domain write needs it. *)

Free(js) == {j \in Jobs : js[j].status = "free"}

(* Of the free rows, one comes first. *)
LEMMA NextFreeIsFree ==
  ASSUME NEW js, Free(js) # {}
  PROVE  NextFree(js) \in Free(js)
<1> DEFINE S == Free(js)
           Upto(i) == {k \in S : k <= i}
           T == {Upto(i) : i \in S}
<1>1. IsFiniteSet(S) /\ S \in SUBSET Nat
  <2>1. IsFiniteSet(Jobs)
    BY FS_Interval, SheetSyncAssumption DEF Jobs
  <2>2. S \subseteq Jobs
    BY DEF Free
  <2>3. IsFiniteSet(S)
    BY <2>1, <2>2, FS_Subset
  <2> QED BY <2>2, <2>3 DEF Jobs
<1>2. IsWellFoundedOn(StrictSubsetOrdering(S), SUBSET S)
  BY <1>1, FS_StrictSubsetOrderingWellFounded, FS_FiniteSubsetsOfFinite
<1>3. T \subseteq SUBSET S /\ T # {}
  OBVIOUS
<1>4. PICK M \in T : \A U \in T : ~(<<U, M>> \in StrictSubsetOrdering(S))
  <2> HIDE DEF S, T
  <2> QED BY <1>2, <1>3, WFMin
<1>5. PICK i \in S : M = Upto(i)
  OBVIOUS
<1>6. ASSUME NEW k \in S
      PROVE  i <= k
  <2> SUFFICES ASSUME k < i PROVE FALSE
    BY <1>1
  <2>1. Upto(k) \in T /\ Upto(k) \subseteq M /\ i \in M /\ i \notin Upto(k)
    BY <1>1, <1>5
  <2>2. <<Upto(k), M>> \in StrictSubsetOrdering(S)
    BY <2>1, <1>3 DEF StrictSubsetOrdering
  <2> QED BY <1>4, <2>1, <2>2
<1>7. \E j \in Jobs : /\ js[j].status = "free"
                      /\ \A k \in Jobs : js[k].status = "free" => j <= k
  BY <1>5, <1>6 DEF Free
<1> QED BY <1>7 DEF NextFree, Free

(* HasFree counts what it says. *)
LEMMA RoomForOne ==
  ASSUME HasFree(1)
  PROVE  Free(job) # {}
<1>1. Cardinality(Free(job)) >= 1
  BY DEF HasFree, Free
<1> QED BY <1>1, FS_EmptySet

(* Room for two leaves room for one more, wherever the first went. *)
LEMMA RoomForTwo ==
  ASSUME HasFree(2), NEW i
  PROVE  Free(job) \ {i} # {}
<1>1. Cardinality(Free(job)) >= 2
  BY DEF HasFree, Free
<1>2. IsFiniteSet(Free(job))
  <2>1. IsFiniteSet(Jobs) /\ Free(job) \subseteq Jobs
    BY FS_Interval, SheetSyncAssumption DEF Jobs, Free
  <2> QED BY <2>1, FS_Subset
<1>3. Cardinality(Free(job)) \in Nat
  BY <1>2, FS_CardinalityType
<1>4. Cardinality(Free(job) \ {i}) >= 1
  BY <1>1, <1>2, <1>3, FS_RemoveElement
<1> QED BY <1>4, FS_EmptySet

(* Row i of the outbox was joined, or inserted, with the key. *)
Added(old, new, key, i) ==
  /\ \A k \in Jobs \ {i} : new[k] = old[k]
  /\ new[i].key = key /\ new[i].status \in Active /\ new[i].hints = {}
  /\ \/ old[i].status \in Active /\ old[i].key = key /\ new[i].status = old[i].status
     \/ old[i].status = "free"

(* upsertActiveJob leaves an active row of the key without retry hints. *)
LEMMA EnqueueAdds ==
  ASSUME NEW js \in [Jobs -> JobRecords], NEW key \in Keys,
         NEW located \in BOOLEAN,
         (\E j \in Jobs : Joins(js, key, j)) \/ Free(js) # {}
  PROVE  \E i \in Jobs : /\ Added(js, Enqueue(js, key, located), key, i)
                         /\ Enqueue(js, key, located)[i].located = located
<1> DEFINE joined == CHOOSE i \in Jobs : Joins(js, key, i)
           added  == [FreeJob EXCEPT !.key = key, !.status = "pending",
                                     !.located = located]
           next   == NextFree(js)
<1>1. /\ added.key = key /\ added.status = "pending" /\ added.hints = {}
      /\ added.located = located
  BY DEF FreeJob
<1>2. CASE \E j \in Jobs : Joins(js, key, j)
  <2>1. joined \in Jobs /\ Joins(js, key, joined)
    BY <1>2
  <2>2. Enqueue(js, key, located)
          = [js EXCEPT ![joined].hints = {}, ![joined].located = located]
    BY <1>2 DEF Enqueue
  <2> HIDE DEF joined
  <2>3. /\ Added(js, Enqueue(js, key, located), key, joined)
        /\ Enqueue(js, key, located)[joined].located = located
    BY <2>1, <2>2 DEF Added, Joins, JobRecords
  <2> QED BY <2>1, <2>3
<1>3. CASE ~ \E j \in Jobs : Joins(js, key, j)
  <2>1. next \in Jobs /\ js[next].status = "free"
    BY <1>3, NextFreeIsFree DEF Free
  <2>2. Enqueue(js, key, located) = [js EXCEPT ![next] = added]
    BY <1>3 DEF Enqueue
  <2> HIDE DEF added, next
  <2>3. /\ Added(js, Enqueue(js, key, located), key, next)
        /\ Enqueue(js, key, located)[next].located = located
    BY <1>1, <2>1, <2>2 DEF Added, Active
  <2> QED BY <2>1, <2>3
<1> QED BY <1>2, <1>3

(* A row that a tombstone cancels. *)
Cancelled(old, new, key) ==
  /\ old.status \in Active /\ old.key = key
  /\ new.status = "cancelled" /\ new.key = key

(* enqueueSheetSyncTombstone leaves an active tombstone, and cancels no row but
   the superseded ones. *)
LEMMA TombstoneAdds ==
  ASSUME NEW js \in [Jobs -> JobRecords], NEW d \in Docs,
         NEW located \in BOOLEAN, Free(js) # {}
  PROVE  LET new == EnqueueTombstone(js, d, located) IN
         \E i \in Jobs :
           /\ new[i].key = TombstoneKey(d)
           /\ new[i].status \in Active /\ new[i].hints = {}
           /\ new[i].located = located
           /\ \/ /\ js[i].status \in Active /\ js[i].key = TombstoneKey(d)
                 /\ new[i].status = js[i].status
              \/ js[i].status = "free"
           /\ \A k \in Jobs \ {i} :
                \/ new[k] = js[k]
                \/ Cancelled(js[k], new[k], SupersededKey(d))
<1> DEFINE cancelled == [j \in Jobs |->
             IF Joins(js, SupersededKey(d), j)
             THEN [js[j] EXCEPT !.status = "cancelled"] ELSE js[j]]
           new == EnqueueTombstone(js, d, located)
<1>1. TombstoneKey(d) \in Keys /\ TombstoneKey(d) # SupersededKey(d)
  <2>1. TombstoneKey(d).res # SupersededKey(d).res
    BY DEF TombstoneKey, SupersededKey
  <2> QED BY <2>1, KeysAreWellFormed DEF WellKeyed
<1>2. cancelled \in [Jobs -> JobRecords]
  BY DEF JobRecords, Statuses
<1>3. \A k \in Jobs :
        \/ cancelled[k] = js[k]
        \/ Cancelled(js[k], cancelled[k], SupersededKey(d))
  BY DEF Joins, Cancelled, JobRecords
<1>4. Free(cancelled) # {}
  <2>1. PICK j \in Jobs : js[j].status = "free"
    BY DEF Free
  <2>2. ~Joins(js, SupersededKey(d), j)
    BY <2>1 DEF Joins, Active
  <2>3. cancelled[j].status = "free"
    BY <2>1, <2>2
  <2> HIDE DEF cancelled
  <2> QED BY <2>3 DEF Free
<1>5. new = Enqueue(cancelled, TombstoneKey(d), located)
  BY DEF EnqueueTombstone
<1> HIDE DEF cancelled, new
<1>6. PICK i \in Jobs : /\ Added(cancelled, new, TombstoneKey(d), i)
                       /\ new[i].located = located
  BY <1>1, <1>2, <1>4, <1>5, EnqueueAdds
<1>7. cancelled[i] = js[i]
  BY <1>1, <1>3, <1>6 DEF Added, Cancelled, Active
<1>8. \A k \in Jobs \ {i} : new[k] = cancelled[k]
  BY <1>6 DEF Added
<1>9. /\ new[i].key = TombstoneKey(d)
      /\ new[i].status \in Active /\ new[i].hints = {}
      /\ new[i].located = located
      /\ \/ /\ js[i].status \in Active /\ js[i].key = TombstoneKey(d)
            /\ new[i].status = js[i].status
         \/ js[i].status = "free"
  BY <1>6, <1>7 DEF Added
<1> QED BY <1>3, <1>8, <1>9 DEF new
-----------------------------------------------------------------------------
(* The five domain writes. *)

(* The rows that an upsert job of a document serves. *)
LEMMA UpsertServes ==
  ASSUME NEW e \in Docs, NEW j \in Jobs, job'[j].key = UpsertKey(e),
         job'[j].hints = {}
  PROVE  /\ e \in Leads \/ doc'[e].exists => Serves(j, e)'
         /\ \A d \in Docs : e \in Bookings /\ LeadOf[e] = d /\ doc'[e].exists
                              => Serves(j, d)'
<1>1. job'[j].key.id = e
  BY DEF UpsertKey
<1>2. ASSUME NEW d \in Docs, e \in Bookings, LeadOf[e] = d
      PROVE  job'[j].key.res = "booking_chain"
  BY <1>2, SheetSyncAssumption DEF UpsertKey, Docs
<1> QED BY <1>1, <1>2 DEF Serves, Allowed, Exists

(* A row that upsertActiveJob joins or inserts is rewritten as allowed. *)
LEMMA AddedIsRewritten ==
  ASSUME NEW D, NEW e \in Docs, NEW i \in Jobs,
         Added(job, job', UpsertKey(e), i)
  PROVE  \A j \in Jobs : JobRewritten(D, j)
<1>1. /\ UpsertKey(e).id = e /\ UpsertKey(e).res \notin Tombstones
      /\ UpsertKey(e).res # "delete_booked_lead"
      /\ UpsertKey(e).res \in {"booked_lead", "delete_booked_lead"} => e \notin Leads
  BY DEF UpsertKey, Tombstones
<1> QED BY <1>1 DEF Added, JobRewritten

(* Creating or changing a lead, or a booking with its lead. *)
LEMMA UpsertRewrites ==
  ASSUME IInv, RowsInv, NEW e \in Docs, NEW D \in SUBSET Docs,
         \A d \in D : d = e \/ (e \in Bookings /\ LeadOf[e] = d),
         \A d \in D : CanTouch(d) /\ doc'[d] = Touched(d),
         \A d \in Docs \ D : doc'[d] = doc[d],
         e \in D \/ Exists(e),
         job' = Enqueue(job, UpsertKey(e), FALSE), HasFree(1),
         UNCHANGED drainVars
  PROVE  Rewritten(D)
<1>1. PICK i \in Jobs : Added(job, job', UpsertKey(e), i)
  <2>1. UpsertKey(e) \in Keys /\ job \in [Jobs -> JobRecords] /\ FALSE \in BOOLEAN
    BY KeysAreWellFormed, RunsTyped DEF WellKeyed
  <2>2. Free(job) # {}
    BY RoomForOne
  <2> QED BY <2>1, <2>2, EnqueueAdds
<1>2. doc'[e].exists
  <2>1. CASE e \in D
    <3>1. doc[e] \in DocRecords /\ doc'[e] = Touched(e)
      BY <2>1 DEF IInv, TypeOK
    <3> QED BY <3>1 DEF Touched, DocRecords
  <2>2. CASE e \notin D
    BY <2>2 DEF Exists
  <2> QED BY <2>1, <2>2
<1>3. \A d \in D : job'[i].status \in Active /\ Serves(i, d)'
  BY <1>1, <1>2, UpsertServes DEF Added
<1>4. \A j \in Jobs : JobRewritten(D, j)
  BY <1>1, AddedIsRewritten
<1> QED BY <1>3, <1>4 DEF Rewritten

(* WriteLead, WriteBooking and CorrectLead are such writes. *)
LEMMA UpsertsRewrite ==
  ASSUME IInv, RowsInv,
         \/ \E l \in Leads : WriteLead(l)
         \/ \E b \in Bookings : WriteBooking(b)
         \/ \E l \in Leads, b \in Bookings : CorrectLead(l, b)
  PROVE  \E D \in SUBSET Docs : Rewritten(D)
<1>0. doc \in [Docs -> DocRecords]
  BY DEF IInv, TypeOK
<1>1. ASSUME NEW l \in Leads, WriteLead(l)
      PROVE  \E D \in SUBSET Docs : Rewritten(D)
  <2>1. l \in Docs /\ {l} \in SUBSET Docs
    BY DEF Docs
  <2>2. /\ \A d \in {l} : CanTouch(d) /\ doc'[d] = Touched(d)
        /\ \A d \in Docs \ {l} : doc'[d] = doc[d]
    BY <1>0, <1>1, <2>1 DEF WriteLead
  <2>3. /\ job' = Enqueue(job, UpsertKey(l), FALSE) /\ HasFree(1)
        /\ UNCHANGED drainVars
    BY <1>1 DEF WriteLead
  <2> QED BY <2>1, <2>2, <2>3, UpsertRewrites
<1>2. ASSUME NEW b \in Bookings, WriteBooking(b)
      PROVE  \E D \in SUBSET Docs : Rewritten(D)
  <2> DEFINE D == {d \in Docs : d \in {b, LeadOf[b]}}
  <2>1. b \in Docs /\ b \in D /\ D \in SUBSET Docs
    BY DEF Docs
  <2>2. \A d \in D : CanTouch(d)
    <3>1. CanTouch(b) /\ (LeadOf[b] # None => CanTouch(LeadOf[b]))
      BY <1>2 DEF WriteBooking
    <3> QED BY <3>1, SheetSyncAssumption DEF Docs
  <2>3. doc' = [d \in Docs |-> IF d \in {b, LeadOf[b]} THEN Touched(d) ELSE doc[d]]
    BY <1>2 DEF WriteBooking
  <2>4. /\ \A d \in D : doc'[d] = Touched(d)
        /\ \A d \in Docs \ D : doc'[d] = doc[d]
        /\ \A d \in D : d = b \/ (b \in Bookings /\ LeadOf[b] = d)
    BY <2>3
  <2>5. /\ job' = Enqueue(job, UpsertKey(b), FALSE) /\ HasFree(1)
        /\ UNCHANGED drainVars
    BY <1>2 DEF WriteBooking
  <2> HIDE DEF D
  <2> QED BY <2>1, <2>2, <2>4, <2>5, UpsertRewrites
<1>3. ASSUME NEW l \in Leads, NEW b \in Bookings, CorrectLead(l, b)
      PROVE  \E D \in SUBSET Docs : Rewritten(D)
  <2>1. PICK D \in {{l}, {l, b}} :
          /\ \A d \in D : CanTouch(d)
          /\ doc' = [d \in Docs |-> IF d \in D THEN Touched(d) ELSE doc[d]]
    BY <1>3 DEF CorrectLead
  <2>2. b \in Docs /\ D \in SUBSET Docs /\ LeadOf[b] = l
    BY <1>3 DEF Docs, CorrectLead
  <2>3. /\ \A d \in D : CanTouch(d) /\ doc'[d] = Touched(d)
        /\ \A d \in Docs \ D : doc'[d] = doc[d]
        /\ \A d \in D : d = b \/ (b \in Bookings /\ LeadOf[b] = d)
    BY <2>1, <2>2
  <2>4. /\ job' = Enqueue(job, UpsertKey(b), FALSE) /\ HasFree(1)
        /\ UNCHANGED drainVars /\ Exists(b)
    BY <1>3 DEF CorrectLead
  <2> QED BY <2>2, <2>3, <2>4, UpsertRewrites
<1> QED BY <1>1, <1>2, <1>3

(* What a tombstone joins, inserts or cancels is rewritten as allowed. *)
LEMMA TombstoneKeys ==
  ASSUME NEW d \in Docs
  PROVE  /\ TombstoneKey(d).id = d /\ TombstoneKey(d).res \in Tombstones
         /\ TombstoneKey(d).res \in {"booked_lead", "delete_booked_lead"} =>
              d \notin Leads
         /\ d \in Leads => TombstoneKey(d).res # "delete_booked_lead"
         /\ SupersededKey(d).res # "delete_booked_lead"
         /\ SupersededKey(d).id = d /\ SupersededKey(d).res # "booking_chain"
         /\ d \notin Leads => SupersededKey(d).res = "booked_lead"
BY DEF TombstoneKey, SupersededKey, Tombstones

(* A lead is deleted. *)
LEMMA DeleteLeadRewrites ==
  ASSUME IInv, RowsInv, NEW l \in Leads, DeleteLead(l)
  PROVE  \E D \in SUBSET Docs : Rewritten(D)
<1>1. l \in Docs /\ Exists(l) /\ UNCHANGED drainVars
  BY DEF Docs, DeleteLead
<1>2. doc'[l] = Removed(l) /\ \A d \in Docs \ {l} : doc'[d] = doc[d]
  BY <1>1 DEF DeleteLead, IInv, TypeOK
<1>3. ~doc'[l].exists
  BY <1>1, <1>2 DEF Removed, IInv, TypeOK, DocRecords
<1>4. PICK i \in Jobs :
        /\ job'[i].key = TombstoneKey(l)
        /\ job'[i].status \in Active /\ job'[i].hints = {}
        /\ job'[i].located = TRUE
        /\ \/ /\ job[i].status \in Active /\ job[i].key = TombstoneKey(l)
              /\ job'[i].status = job[i].status
           \/ job[i].status = "free"
        /\ \A k \in Jobs \ {i} :
             \/ job'[k] = job[k]
             \/ Cancelled(job[k], job'[k], SupersededKey(l))
  <2>1. Free(job) # {} /\ job \in [Jobs -> JobRecords] /\ TRUE \in BOOLEAN
    BY RoomForOne, RunsTyped DEF DeleteLead
  <2>2. job' = EnqueueTombstone(job, l, TRUE)
    BY DEF DeleteLead
  <2> QED BY <1>1, <2>1, <2>2, TombstoneAdds
<1>5. \A j \in Jobs : JobRewritten({l}, j)
  <2>1. JobRewritten({l}, i)
    BY <1>1, <1>3, <1>4, TombstoneKeys DEF JobRewritten
  <2>2. \A k \in Jobs \ {i} : JobRewritten({l}, k)
    BY <1>1, <1>4, TombstoneKeys DEF JobRewritten, Cancelled
  <2> QED BY <2>1, <2>2
<1>6. Serves(i, l)'
  BY <1>1, <1>4, TombstoneKeys DEF Serves
<1>7. Rewritten({l})
  BY <1>1, <1>2, <1>4, <1>5, <1>6, SheetSyncAssumption DEF Rewritten
<1>8. {l} \in SUBSET Docs
  BY <1>1
<1> QED BY <1>7, <1>8

(* A booking is deleted and its lead is refreshed. *)
LEMMA DeleteBookingRewrites ==
  ASSUME IInv, RowsInv, NEW b \in Bookings, DeleteBooking(b)
  PROVE  \E D \in SUBSET Docs : Rewritten(D)
<1> DEFINE l == LeadOf[b]
           refreshed == IF l = None THEN job ELSE Enqueue(job, UpsertKey(l), FALSE)
           D == {d \in Docs : d \in {b, l}}
<1>1. /\ b \in Docs /\ b \notin Leads /\ Exists(b) /\ HasFree(1)
      /\ l # None => /\ l \in Leads /\ l \in Docs /\ l # b /\ CanTouch(l)
                     /\ Waiting(UpsertKey(l)) \/ HasFree(2)
      /\ UNCHANGED drainVars
  BY SheetSyncAssumption DEF Docs, DeleteBooking
<1>2. /\ doc'[b] = Removed(b)
      /\ l # None => doc'[l] = Touched(l)
      /\ \A d \in Docs \ D : doc'[d] = doc[d]
  <2>0. l # b
    BY <1>1, SheetSyncAssumption
  <2> HIDE DEF l
  <2>1. doc' = [d \in Docs |-> CASE d = b -> Removed(d)
                                [] d = l -> Touched(d)
                                [] OTHER -> doc[d]]
    BY DEF DeleteBooking, l
  <2>2. doc'[b] = Removed(b)
    BY <1>1, <2>0, <2>1
  <2>3. l # None => doc'[l] = Touched(l)
    BY <1>1, <2>0, <2>1
  <2>4. ASSUME NEW d \in Docs \ D
        PROVE  doc'[d] = doc[d]
    BY <2>1
  <2> QED BY <2>2, <2>3, <2>4
<1>3. ~doc'[b].exists
  BY <1>1, <1>2 DEF Removed, IInv, TypeOK, DocRecords
<1>4. job \in [Jobs -> JobRecords] /\ Free(job) # {} /\ FALSE \in BOOLEAN
  BY <1>1, RunsTyped, RoomForOne
<1>5. /\ refreshed \in [Jobs -> JobRecords] /\ Free(refreshed) # {}
      /\ \/ l = None /\ refreshed = job
         \/ /\ l # None
            /\ \E i \in Jobs : Added(job, refreshed, UpsertKey(l), i)
  <2>1. CASE l = None
    BY <1>4, <2>1
  <2>2. CASE l # None
    <3>1. UpsertKey(l) \in Keys
      BY <1>1, <2>2, KeysAreWellFormed DEF WellKeyed
    <3>2. refreshed = Enqueue(job, UpsertKey(l), FALSE)
      BY <2>2
    <3> HIDE DEF l, refreshed
    <3>3. refreshed \in [Jobs -> JobRecords]
      BY <1>4, <3>1, <3>2, EnqueueEffect
    <3>4. PICK i \in Jobs : Added(job, refreshed, UpsertKey(l), i)
      BY <1>4, <3>1, <3>2, EnqueueAdds
    <3>5. Free(refreshed) # {}
      <4>1. CASE job[i].status = "free"
        <5>1. ASSUME Waiting(UpsertKey(l))
              PROVE  FALSE
          <6>1. PICK k \in Jobs : Joins(job, UpsertKey(l), k)
            BY <5>1 DEF Waiting
          <6>2. refreshed = [job EXCEPT
                   ![CHOOSE k2 \in Jobs : Joins(job, UpsertKey(l), k2)].hints = {},
                   ![CHOOSE k2 \in Jobs : Joins(job, UpsertKey(l), k2)].located = FALSE]
            BY <3>2, <6>1 DEF Enqueue
          <6>3. refreshed[i].status = job[i].status
            BY <1>4, <6>2 DEF JobRecords
          <6> QED BY <3>4, <4>1, <6>3 DEF Added, Active
        <5>2. PICK k \in Free(job) \ {i} : TRUE
          BY <1>1, <2>2, <5>1, RoomForTwo
        <5> QED BY <3>4, <5>2 DEF Added, Free
      <4>2. CASE job[i].status # "free"
        <5>1. PICK k \in Free(job) : TRUE
          BY <1>4
        <5> QED BY <3>4, <4>2, <5>1 DEF Added, Free
      <4> QED BY <4>1, <4>2
    <3> QED BY <2>2, <3>3, <3>4, <3>5
  <2> QED BY <2>1, <2>2
<1>6. job' = EnqueueTombstone(refreshed, b, doc[b].located)
      /\ doc[b].located \in BOOLEAN
  BY <1>1 DEF DeleteBooking, IInv, TypeOK, DocRecords
<1> HIDE DEF refreshed
<1>7. PICK t \in Jobs :
        /\ job'[t].key = TombstoneKey(b)
        /\ job'[t].status \in Active /\ job'[t].hints = {}
        /\ job'[t].located = doc[b].located
        /\ \/ /\ refreshed[t].status \in Active /\ refreshed[t].key = TombstoneKey(b)
              /\ job'[t].status = refreshed[t].status
           \/ refreshed[t].status = "free"
        /\ \A k \in Jobs \ {t} :
             \/ job'[k] = refreshed[k]
             \/ Cancelled(refreshed[k], job'[k], SupersededKey(b))
  BY <1>1, <1>5, <1>6, TombstoneAdds
<1>8. b \in D /\ D \in SUBSET Docs
  BY <1>1
<1>9. ASSUME NEW j \in Jobs, refreshed[j] = job[j]
      PROVE  JobRewritten(D, j)
  <2>1. CASE j = t
    <3>1. job[t].status = "free"
      BY <1>1, <1>7, <1>9, <2>1, TombstoneKeys DEF RowsInv, DeletedStay, Gone, Active
    <3>2. doc'[b].located = doc[b].located
      BY <1>1, <1>2 DEF Removed, IInv, TypeOK, DocRecords
    <3> QED BY <1>1, <1>3, <1>7, <1>8, <2>1, <3>1, <3>2, TombstoneKeys DEF JobRewritten
  <2>2. CASE j # t
    BY <1>1, <1>7, <1>8, <1>9, <2>2, TombstoneKeys DEF JobRewritten, Cancelled
  <2> QED BY <2>1, <2>2
<1>10. ASSUME l # None
       PROVE  /\ \A j \in Jobs : JobRewritten(D, j)
              /\ \E j \in Jobs : job'[j].status \in Active /\ Serves(j, l)'
  <2>1. PICK i \in Jobs : Added(job, refreshed, UpsertKey(l), i)
    BY <1>5, <1>10
  <2>2. /\ UpsertKey(l).res = "source_lead" /\ UpsertKey(l).id = l
        /\ l \in Docs /\ l \in Leads
    BY <1>1, <1>10 DEF UpsertKey
  <2>3. TombstoneKey(b).res # "source_lead" /\ SupersededKey(b).res # "source_lead"
    BY <1>1 DEF TombstoneKey, SupersededKey
  <2>4. i # t /\ job'[i] = refreshed[i]
    BY <1>7, <2>1, <2>2, <2>3 DEF Added, Cancelled, Active
  <2>5. JobRewritten(D, i)
    BY <2>1, <2>2, <2>4 DEF Added, JobRewritten, Tombstones
  <2>6. \A j \in Jobs \ {i} : JobRewritten(D, j)
    BY <1>9, <2>1 DEF Added
  <2>7. Serves(i, l)'
    BY <2>1, <2>2, <2>4, UpsertServes DEF Added
  <2> QED BY <2>1, <2>4, <2>5, <2>6, <2>7 DEF Added
<1>11. \A j \in Jobs : JobRewritten(D, j)
  BY <1>5, <1>9, <1>10
<1>12. \A d \in D : \E j \in Jobs : job'[j].status \in Active /\ Serves(j, d)'
  <2>1. job'[t].status \in Active /\ Serves(t, b)'
    BY <1>7, <1>1, TombstoneKeys DEF Serves, Allowed
  <2> QED BY <1>10, <2>1, SheetSyncAssumption DEF Docs
<1>13. Rewritten(D)
  <2>1. \A d \in D :
          \/ CanTouch(d) /\ doc'[d] = Touched(d)
          \/ /\ Exists(d) /\ doc'[d] = Removed(d)
             /\ d \in Bookings /\ LeadOf[d] \in Leads => LeadOf[d] \in D
    BY <1>1, <1>2, SheetSyncAssumption DEF Docs
  <2> QED BY <1>1, <1>2, <1>11, <1>12, <2>1 DEF Rewritten
<1> QED BY <1>8, <1>13

(* Every domain write commits its documents and the jobs for their rows. *)
LEMMA DomainWritesRewrite ==
  ASSUME IInv, RowsInv, DomainWrite
  PROVE  \E D \in SUBSET Docs : Rewritten(D)
BY UpsertsRewrite, DeleteLeadRewrites, DeleteBookingRewrites DEF DomainWrite

-----------------------------------------------------------------------------
(* Every step keeps the invariant: one step per action. *)
LEMMA RowsStep ==
  ASSUME IInv, RowsInv, [Next]_vars
  PROVE  RowsInv'
<1>1. CASE DomainWrite
  BY <1>1, DomainWritesRewrite, RewrittenKeepsRows
<1>2. ASSUME NEW r \in Runs, RunStep(r)
      PROVE  RowsInv'
  <2>1. CASE \/ Start(r) \/ Claim(r) \/ Check(r) \/ BeginWrite(r)
             \/ Persist(r) \/ AllSettled(r) \/ Finish(r) \/ Abort(r)
    BY <2>1, StartKeepsRows, ClaimKeepsRows, CheckKeepsRows,
       BeginWriteKeepsRows, PersistKeepsRows, AllSettledKeepsRows,
       FinishKeepsRows, AbortKeepsRows
  <2>2. CASE \E j \in Jobs : PlanJob(r, j) \/ PlanFails(r, j) \/ SettleJob(r, j)
    BY <2>2, PlanJobKeepsRows, PlanFailsKeepsRows, SettleJobKeepsRows
  <2>3. CASE \E d \in Docs, op \in {"upsert", "delete"} :
               SkipRequest(r, d, op) \/ Send(r, d, op)
    BY <2>3, SkipRequestKeepsRows, SendKeepsRows
  <2>4. CASE \E q \in wire : Answer(r, q)
    BY <2>4, AnswersKeepRows
  <2> QED BY <1>2, <2>1, <2>2, <2>3, <2>4 DEF RunStep
<1>3. ASSUME NEW r \in Runs, Disturb(r)
      PROVE  RowsInv'
  <2>1. CASE OutOfTime(r) \/ Crash(r) \/ Stall(r)
    BY <2>1, OutOfTimeKeepsRows, CrashKeepsRows, EnvironmentKeepsRows
  <2>2. CASE \E d \in Docs, op \in {"upsert", "delete"} : QuotaDenied(r, d, op)
    BY <2>2, QuotaDeniedKeepsRows
  <2>3. CASE \E q \in wire : Reject(r, q) \/ Unconfirmed(r, q)
    BY <2>3, AnswersKeepRows
  <2> QED BY <1>3, <2>1, <2>2, <2>3 DEF Disturb
<1>4. CASE \E q \in wire : Land(q)
  BY <1>4, LandKeepsRows
<1>5. CASE \/ ExpireLost \/ RaiseFence \/ LowerFence
           \/ \E j \in Jobs : AdminRetry(j)
           \/ UNCHANGED vars
  BY <1>5, EnvironmentKeepsRows
<1> QED BY <1>1, <1>2, <1>3, <1>4, <1>5 DEF Next

(* An empty sheet shows that there is no document. *)
LEMMA InitEstablishesRows == Init => RowsInv
<1> SUFFICES ASSUME Init PROVE RowsInv
  OBVIOUS
<1> USE DEF Init
<1>1. \A d \in Docs : ~Exists(d) /\ Desired(d) = 0 /\ row[d] = 0
  BY DEF Exists, Desired
<1>2. RowsKept /\ StaleCovered
  BY <1>1 DEF RowsKept, StaleCovered
<1>3. DeletedStay
  BY <1>1 DEF DeletedStay, FreeJob
<1>4. InFlight /\ PlansMatchLabel
  BY DEF InFlight, PlansMatchLabel, Unsent
<1> QED BY <1>2, <1>3, <1>4 DEF RowsInv

(* The rows that nothing is outstanding for are among those kept. *)
LEMMA RowsInvSettles == ASSUME RowsInv PROVE SettledRowsAreCurrent
<1> SUFFICES ASSUME NEW d \in Docs, Kept(d), ~Outstanding(d), ~stray[d]
             PROVE  row[d] = Desired(d)
  BY DEF SettledRowsAreCurrent
<1>1. ASSUME NEW j \in Jobs, Pledged(j, d)
      PROVE  Outstanding(d)
  BY <1>1 DEF Pledged, Serves, Outstanding, Covers
<1> QED BY <1>1 DEF RowsInv, RowsKept, Upcoming

(* Once no job is outstanding for a lead, for a booking that exists or for one
   that was deleted after its row had been located, its row shows the document as it is, whatever number of runs overlap, stall, are
   killed or are retried between the write and the sheet. *)
THEOREM SettledRowsStayCurrent == Spec => []SettledRowsAreCurrent
<1>1. IInv /\ RowsInv /\ [Next]_vars => RowsInv'
  BY RowsStep
<1>2. RowsInv => SettledRowsAreCurrent
  BY RowsInvSettles
<1> QED BY InductiveInvariant, InitEstablishesRows, <1>1, <1>2, PTL DEF Spec
=============================================================================
