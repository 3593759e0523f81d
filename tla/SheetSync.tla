----------------------------- MODULE SheetSync -----------------------------
(***************************************************************************)
(* The Sheet Sync outbox and its drainer.                                  *)
(*                                                                         *)
(* Domain services change Leads and Bookings in MongoDB and, in the same   *)
(* transaction, persist an outbox job (sheetSyncOutbox.service.ts).  Drain *)
(* runs (drainer/runSheetSyncDrain.ts), started by queue wake-ups, a cron  *)
(* and admins, elect a writer with a lease, claim due jobs, plan the rows  *)
(* from the CURRENT documents, send the rows to Google Sheets one request  *)
(* at a time, record where each row went, and settle each job.  A run can  *)
(* be killed, stall past its lease, lose an answer, or leave a request in  *)
(* flight that takes effect after another run took over.                   *)
(*                                                                         *)
(* What is abstracted: a document's content is a version number and a row  *)
(* holds the version it was projected from (0: there is no row); row       *)
(* positions and duplicate rows are left out; a request carries one row; a *)
(* lease is live or expired instead of carrying a date, and so is a job's  *)
(* claim; renewals keep them live and are no steps; which of the claimable *)
(* jobs are due is left open.  Operators named Mutant... are altered copies*)
(* of the definition below them, kept to show that the runs notice.        *)
(***************************************************************************)
EXTENDS Naturals, FiniteSets

CONSTANTS
  Leads,            \* source leads (FormLead / CallLead documents)
  Bookings,         \* BookedLead documents
  LeadOf,           \* LeadOf[b]: the lead a booking is attached to, or None
  Runs,             \* slots in which drain invocations execute
  NumJobs,          \* bound: outbox rows that can be inserted
  MaxVersion,       \* bound: writes of one document
  MaxAttempts,      \* SHEET_SYNC_MAX_ATTEMPTS
  MaxDisruptions,   \* bound: faults, admin retries and topology fences
  CanCrash,         \* whether the platform may kill a running drain
  None,             \* nobody; no lead
  Lost              \* an invocation that was killed, a request nobody awaits

Docs == Leads \cup Bookings
Jobs == 1 .. NumJobs

ASSUME SheetSyncAssumption ==
  /\ Leads \cap Bookings = {}
  /\ LeadOf \in [Bookings -> Leads \cup {None}]
  /\ NumJobs \in Nat
  /\ MaxVersion \in Nat \ {0}
  /\ MaxAttempts \in Nat \ {0}
  /\ MaxDisruptions \in Nat
  /\ CanCrash \in BOOLEAN
  /\ None \notin Runs \cup Leads \cup Bookings
  /\ Lost \notin Runs \cup {None}

VARIABLES
  doc,      \* the documents: version, whether it exists, whether its
            \* sheet_sync array names the row's location
  job,      \* the outbox rows, in creation order
  lease,    \* the lease document of scope sheet-sync:drain
  fence,    \* whether an operator holds lead-reporting:tab-migration
  row,      \* row[d]: the version the sheet shows for d, 0 for no row
  stray,    \* stray[d]: the last effect on d's row came from a request whose
            \* sender had lost the lease or given the request up
  wire,     \* requests sent to Google and not yet answered
  pc,       \* pc[r]: where run r is
  ok,       \* ok[r]: run r has passed the ownership check its next step needs
  todo,     \* todo[r]: claimed jobs not planned yet
  work,     \* work[r]: planned jobs not settled yet
  plan,     \* plan[r]: the planned writes and their outcomes
  spent     \* disruptions so far

vars == <<doc, job, lease, fence, row, stray, wire, pc, ok, todo, work, plan,
          spent>>

-----------------------------------------------------------------------------
(* Outbox rows. *)

Tombstones == {"delete_source_lead", "delete_booked_lead"}
Resources == {"source_lead", "booked_lead", "booking_chain"} \cup Tombstones

Active == {"pending", "retrying"}                \* COALESCE_STATUSES
Statuses == Active \cup {"free", "processing", "synced", "failed", "cancelled"}

Keys == [res : Resources, id : Docs]
JobRecords == [key : Keys \cup {None}, status : Statuses,
               attempts : 0 .. MaxAttempts, run : Runs \cup {None, Lost},
               live : BOOLEAN, hints : SUBSET Docs, located : BOOLEAN]

FreeJob == [key |-> None, status |-> "free", attempts |-> 0, run |-> None,
            live |-> FALSE, hints |-> {}, located |-> FALSE]

(* priorityForJob: deletes before chains before single rows. *)
Priority(res) == CASE res \in Tombstones      -> 100
                   [] res = "booking_chain"   -> 80
                   [] res = "booked_lead"     -> 65
                   [] OTHER                   -> 60

(* The key of a booking leaves its lead out. *)
MutantUpsertKey(d) ==
  [res |-> IF d \in Leads THEN "source_lead" ELSE "booked_lead", id |-> d]

(* buildCoalescingKey for the three kinds of jobs a document can have. *)
UpsertKey(d) ==
  [res |-> IF d \in Leads THEN "source_lead"
           ELSE IF LeadOf[d] = None THEN "booked_lead" ELSE "booking_chain",
   id  |-> d]

TombstoneKey(d) ==
  [res |-> IF d \in Leads THEN "delete_source_lead" ELSE "delete_booked_lead",
   id  |-> d]

(* supersededUpsertCoalescingKey: a booking chain is not superseded. *)
SupersededKey(d) ==
  [res |-> IF d \in Leads THEN "source_lead" ELSE "booked_lead", id |-> d]

NextFree(js) ==
  CHOOSE j \in Jobs : /\ js[j].status = "free"
                      /\ \A k \in Jobs : js[k].status = "free" => j <= k

HasFree(n) == Cardinality({j \in Jobs : job[j].status = "free"}) >= n

(* A write during processing joins the job that is being processed. *)
MutantJoins(js, key, j) ==
  js[j].key = key /\ js[j].status \in Active \cup {"processing"}

Joins(js, key, j) == js[j].key = key /\ js[j].status \in Active

(* An active job of the key is there to coalesce onto. *)
Waiting(key) == \E j \in Jobs : Joins(job, key, j)

(* The retry hints of the row that is joined stay. *)
MutantEnqueue(js, key, located) ==
  IF \E j \in Jobs : Joins(js, key, j)
  THEN LET j == CHOOSE i \in Jobs : Joins(js, key, i)
       IN  [js EXCEPT ![j].located = located]
  ELSE [js EXCEPT ![NextFree(js)] =
          [FreeJob EXCEPT !.key = key, !.status = "pending",
                          !.located = located]]

(* upsertActiveJob: coalesce onto an active row of the key, which resets its
   retry hints, or insert a pending one.  Never coalesces onto processing. *)
Enqueue(js, key, located) ==
  IF \E j \in Jobs : Joins(js, key, j)
  THEN LET j == CHOOSE i \in Jobs : Joins(js, key, i)
       IN  [js EXCEPT ![j].hints = {}, ![j].located = located]
  ELSE [js EXCEPT ![NextFree(js)] =
          [FreeJob EXCEPT !.key = key, !.status = "pending",
                          !.located = located]]

(* enqueueSheetSyncTombstone: cancel the superseded upsert, then enqueue. *)
EnqueueTombstone(js, d, located) ==
  LET cancelled == [j \in Jobs |->
        IF Joins(js, SupersededKey(d), j)
        THEN [js[j] EXCEPT !.status = "cancelled"] ELSE js[j]]
  IN  Enqueue(cancelled, TombstoneKey(d), located)

-----------------------------------------------------------------------------
(* Domain writes.  Document and outbox row commit in one transaction. *)

DocRecords == [ver : 0 .. MaxVersion, exists : BOOLEAN, located : BOOLEAN]

Exists(d) == doc[d].exists

Touched(d) == [doc[d] EXCEPT !.ver = @ + 1, !.exists = TRUE]

Removed(d) == [doc[d] EXCEPT !.exists = FALSE]

CanTouch(d) == doc[d].ver < MaxVersion /\ (Exists(d) \/ doc[d].ver = 0)

drainVars == <<lease, fence, row, stray, wire, pc, ok, todo, work, plan, spent>>

(* Create a lead, or change it alone. *)
WriteLead(l) ==
  /\ CanTouch(l) /\ HasFree(1)
  /\ doc' = [doc EXCEPT ![l] = Touched(l)]
  /\ job' = Enqueue(job, UpsertKey(l), FALSE)
  /\ UNCHANGED drainVars

(* Create or change a booking; a lead has one at a time.  It is mirrored onto
   the lead it is attached to, and one chain job covers both rows. *)
WriteBooking(b) ==
  LET l == LeadOf[b] IN
  /\ CanTouch(b) /\ HasFree(1)
  /\ l # None => /\ Exists(l) /\ CanTouch(l)
                 /\ \A c \in Bookings : LeadOf[c] = l /\ Exists(c) => c = b
  /\ doc' = [d \in Docs |-> IF d \in {b, l} THEN Touched(d) ELSE doc[d]]
  /\ job' = Enqueue(job, UpsertKey(b), FALSE)
  /\ UNCHANGED drainVars

(* correctFormLead on a lead with a booking: refreshAttachedBookingFromLead may
   change the booking as well, and asks for the chain in either case. *)
CorrectLead(l, b) ==
  /\ LeadOf[b] = l /\ Exists(l) /\ Exists(b) /\ HasFree(1)
  /\ \E D \in {{l}, {l, b}} :
       /\ \A d \in D : CanTouch(d)
       /\ doc' = [d \in Docs |-> IF d \in D THEN Touched(d) ELSE doc[d]]
  /\ job' = Enqueue(job, UpsertKey(b), FALSE)
  /\ UNCHANGED drainVars

(* removeFormLead without cascade: refused while a booking names the lead.  A
   source-lead tombstone enumerates every destination a lead can have. *)
DeleteLead(l) ==
  /\ Exists(l) /\ HasFree(1)
  /\ \A b \in Bookings : LeadOf[b] = l => ~Exists(b)
  /\ doc' = [doc EXCEPT ![l] = Removed(l)]
  /\ job' = EnqueueTombstone(job, l, TRUE)
  /\ UNCHANGED drainVars

(* deleteBookedLeadInTransaction, which reads the booking in its transaction too:
   clear the booking off the surviving lead and refresh the lead's row; the
   booking's tombstone knows only the locations that its sheet_sync array names
   (buildTombstonePreviousTargets). *)
DeleteBooking(b) ==
  LET l == LeadOf[b] IN
  /\ Exists(b) /\ HasFree(1)
  /\ l # None => /\ Exists(l) /\ CanTouch(l)
                 /\ Waiting(UpsertKey(l)) \/ HasFree(2)
  /\ doc' = [d \in Docs |-> CASE d = b -> Removed(d)
                              [] d = l -> Touched(d)
                              [] OTHER -> doc[d]]
  /\ LET refreshed == IF l = None THEN job
                      ELSE Enqueue(job, UpsertKey(l), FALSE)
     IN  job' = EnqueueTombstone(refreshed, b, doc[b].located)
  /\ UNCHANGED drainVars

-----------------------------------------------------------------------------
(* Planning: jobPlanner.ts, against the documents as they are now. *)

PlanThrows(j) ==
  LET key == job[j].key IN
  \/ key.res = "source_lead" /\ ~Exists(key.id)
  \/ /\ key.res = "booking_chain" /\ Exists(key.id)
     /\ ~Exists(LeadOf[key.id])

Upsert(j, d) ==
  [job |-> j, doc |-> d, op |-> "upsert", ver |-> doc[d].ver, st |-> "planned"]

Delete(j, d) ==
  [job |-> j, doc |-> d, op |-> "delete", ver |-> 0, st |-> "planned"]

(* targetAllowed: no hints allow every target.  Leads ignore their hints. *)
Allowed(j, d) == job[j].hints = {} \/ d \in job[j].hints

PlannedWrites(j) ==
  LET res == job[j].key.res
      d   == job[j].key.id
  IN  CASE res = "source_lead"        -> {Upsert(j, d)}
        [] res = "delete_source_lead" -> {Delete(j, d)}
        [] res = "delete_booked_lead" -> IF job[j].located
                                         THEN {Delete(j, d)} ELSE {}
        [] res = "booked_lead"        -> IF Exists(d) /\ Allowed(j, d)
                                         THEN {Upsert(j, d)} ELSE {}
        [] res = "booking_chain"      ->
             IF Exists(d)
             THEN {Upsert(j, LeadOf[d])}
                  \cup (IF Allowed(j, d) THEN {Upsert(j, d)} ELSE {})
             ELSE {}

-----------------------------------------------------------------------------
(* The drain lease (durableWork/leases.ts).  Owners are unique per invocation,
   so the owner alone identifies the token here. *)

Held(r) == lease.owner = r /\ lease.live

Released(r) == IF Held(r) THEN [owner |-> None, live |-> FALSE] ELSE lease

Goto(r, l) == pc' = [pc EXCEPT ![r] = l]

Spend == spent < MaxDisruptions /\ spent' = spent + 1

domainVars == <<doc, row, stray, wire, fence>>

(* The checks at entry: the topology fence, then the lease. *)
Start(r) ==
  /\ pc[r] = "idle" /\ ~fence /\ ~lease.live
  /\ lease' = [owner |-> r, live |-> TRUE]
  /\ Goto(r, "claim")
  /\ UNCHANGED <<domainVars, job, ok, todo, work, plan, spent>>

Claimable == {j \in Jobs : job[j].status \in Active /\ ~job[j].live}

(* claimDueJobs.  S is the part of the claimable jobs that is due and within
   the limit.  No ownership is checked here: each job's status arbitrates. *)
Claim(r) ==
  /\ pc[r] = "claim"
  /\ \E S \in SUBSET Claimable :
       /\ S = {} => Claimable = {}
       /\ job' = [j \in Jobs |->
            IF j \in S
            THEN [job[j] EXCEPT !.status = "processing", !.run = r,
                                !.live = TRUE]
            ELSE job[j]]
       /\ todo' = [todo EXCEPT ![r] = S]
       /\ Goto(r, IF S = {} THEN "finish" ELSE "plan")
  /\ UNCHANGED <<domainVars, lease, ok, work, plan, spent>>

(* requireActiveLease, and before a request the topology fence as well.  What
   was checked may have changed by the time the next step runs.  A failed check
   inside delivery stops the delivery: what is left is deferred.  Payloads that
   are in conflict fail even then; here they do if SkipRequest, which waits for no
   check, has come to them before. *)
Stopped(P) == {[w EXCEPT !.st = IF @ = "planned" THEN "deferred" ELSE @]
                 : w \in P}

Check(r) ==
  /\ ~ok[r] /\ pc[r] \in {"plan", "write", "persist", "settle"}
  /\ \/ /\ Held(r) /\ (pc[r] = "write" => ~fence)
        /\ ok' = [ok EXCEPT ![r] = TRUE]
        /\ UNCHANGED <<pc, plan>>
     \/ /\ pc[r] = "write" /\ (~Held(r) \/ fence)
        /\ plan' = [plan EXCEPT ![r] = Stopped(@)]
        /\ Goto(r, "persist")
        /\ UNCHANGED ok
     \/ /\ pc[r] # "write" /\ ~Held(r)
        /\ Goto(r, "failing")
        /\ UNCHANGED <<ok, plan>>
  /\ UNCHANGED <<domainVars, lease, job, todo, work, spent>>

Uncheck(r) == ok' = [ok EXCEPT ![r] = FALSE]

(* Claimed jobs are planned by priority, oldest first. *)
IsNext(r, j) ==
  /\ j \in todo[r]
  /\ \A k \in todo[r] :
       LET p == Priority(job[j].key.res)
           q == Priority(job[k].key.res)
       IN  p > q \/ (p = q /\ j <= k)

PlanJob(r, j) ==
  /\ pc[r] = "plan" /\ IsNext(r, j) /\ ~PlanThrows(j)
  /\ todo' = [todo EXCEPT ![r] = @ \ {j}]
  /\ work' = [work EXCEPT ![r] = @ \cup {j}]
  /\ plan' = [plan EXCEPT ![r] = @ \cup PlannedWrites(j)]
  /\ Uncheck(r)
  /\ UNCHANGED <<domainVars, lease, job, pc, spent>>

-----------------------------------------------------------------------------
(* Settling a job: every update carries activeJobFilter. *)

Owns(r, j) == job[j].status = "processing" /\ job[j].run = r /\ job[j].live

Synced(j) == [job[j] EXCEPT !.status = "synced", !.live = FALSE, !.hints = {}]

(* The claim of a deferred job is not given up. *)
MutantDeferred(j, targets) ==
  [job[j] EXCEPT !.status = "retrying", !.hints = targets]

Deferred(j, targets) ==
  [job[j] EXCEPT !.status = "retrying", !.live = FALSE, !.hints = targets]

(* One attempt too many. *)
MutantFailure(j, targets) ==
  LET attempts == job[j].attempts + 1
      terminal == attempts > MaxAttempts
  IN  [job[j] EXCEPT !.status = IF terminal THEN "failed" ELSE "retrying",
                     !.attempts = attempts, !.live = FALSE,
                     !.hints = IF terminal THEN {} ELSE targets]

Failure(j, targets) ==
  LET attempts == job[j].attempts + 1
      terminal == attempts >= MaxAttempts
  IN  [job[j] EXCEPT !.status = IF terminal THEN "failed" ELSE "retrying",
                     !.attempts = attempts, !.live = FALSE,
                     !.hints = IF terminal THEN {} ELSE targets]

(* One update of a claimed job, or the run's catch block when it matches none. *)
Settle(r, j, updated) ==
  IF Owns(r, j)
  THEN job' = [job EXCEPT ![j] = updated] /\ UNCHANGED pc
  ELSE UNCHANGED job /\ Goto(r, "failing")

(* planJobWrites threw: the document it needs is gone, or Mongo failed. *)
PlanFails(r, j) ==
  /\ pc[r] = "plan" /\ ok[r] /\ IsNext(r, j)
  /\ \/ PlanThrows(j) /\ UNCHANGED spent
     \/ Spend
  /\ todo' = [todo EXCEPT ![r] = @ \ {j}]
  /\ Settle(r, j, Failure(j, {}))
  /\ Uncheck(r)
  /\ UNCHANGED <<domainVars, lease, work, plan>>

(* The run deadline passes.  Jobs not planned go back to pending (releaseClaim)
   and the delivery of the planned ones is stopped before its next request. *)
OutOfTime(r) ==
  /\ ok[r] /\ Spend
  /\ \/ /\ pc[r] = "plan" /\ todo[r] # {}
        /\ IF \A j \in todo[r] : Owns(r, j)
           THEN /\ job' = [j \in Jobs |->
                     IF j \in todo[r]
                     THEN [job[j] EXCEPT !.status = "pending", !.live = FALSE]
                     ELSE job[j]]
                /\ UNCHANGED pc
           ELSE UNCHANGED job /\ Goto(r, "failing")
        /\ todo' = [todo EXCEPT ![r] = {}]
     \/ /\ pc[r] = "write"
        /\ Goto(r, "persist")
        /\ UNCHANGED <<job, todo>>
  /\ plan' = [plan EXCEPT ![r] = Stopped(@)]
  /\ Uncheck(r)
  /\ UNCHANGED <<domainVars, lease, work>>

-----------------------------------------------------------------------------
(* Delivery: batchWriter.ts over the guarded client of deliveryRequests.ts. *)

Unsent(P) == {w \in P : w.st = "planned"}

AfterWrites(r, P) ==
  /\ plan' = [plan EXCEPT ![r] = P]
  /\ Goto(r, IF Unsent(P) = {} THEN "persist" ELSE "write")

(* Everything is planned: renew the lease, recheck the fence, begin. *)
BeginWrite(r) ==
  /\ pc[r] = "plan" /\ todo[r] = {}
  /\ IF Held(r) /\ ~fence
     THEN AfterWrites(r, plan[r])
     ELSE Goto(r, "failing") /\ UNCHANGED plan
  /\ Uncheck(r)
  /\ UNCHANGED <<domainVars, lease, job, todo, work, spent>>

(* The unsent writes of run r that one request for row d would carry.  Upserts
   go before deletes. *)
Group(r, d, op) == {w \in Unsent(plan[r]) : w.doc = d /\ w.op = op}

Reachable(r, d, op) ==
  /\ Group(r, d, op) # {}
  /\ op = "delete" => \A w \in Unsent(plan[r]) : w.op = "delete"

Outcome(P, G, st) == (P \ G) \cup {[w EXCEPT !.st = st] : w \in G}

Conflicting(G) == \E v, w \in G : v.ver # w.ver

(* processCoalescedTabGroup: different payloads for one row all fail, a delete
   of a row that is not there is done; neither sends anything. *)
SkipRequest(r, d, op) ==
  /\ pc[r] = "write" /\ Reachable(r, d, op)
  /\ LET G == Group(r, d, op) IN
     \/ /\ Conflicting(G)
        /\ AfterWrites(r, Outcome(plan[r], G, "failed"))
        /\ UNCHANGED ok
     \/ /\ op = "delete" /\ row[d] = 0 /\ ok[r]
        /\ AfterWrites(r, Outcome(plan[r], G, "synced"))
        /\ Uncheck(r)
  /\ UNCHANGED <<domainVars, lease, job, todo, work, spent>>

(* The quota ledger refuses the request: these writes wait for a later run. *)
QuotaDenied(r, d, op) ==
  /\ pc[r] = "write" /\ ok[r] /\ Reachable(r, d, op) /\ Spend
  /\ AfterWrites(r, Outcome(plan[r], Group(r, d, op), "deferred"))
  /\ Uncheck(r)
  /\ UNCHANGED <<domainVars, lease, job, todo, work>>

(* A request names the run that awaits it; Lost once nobody does. *)
Requests == [run : Runs \cup {Lost}, doc : Docs, op : {"upsert", "delete"},
             ver : 0 .. MaxVersion, structural : BOOLEAN, landed : BOOLEAN,
             n : 0 .. MaxDisruptions]

(* Send one request.  A row that was not found is appended and a delete is
   positional: both are structural, and their outcome must be confirmed. *)
Send(r, d, op) ==
  /\ pc[r] = "write" /\ ok[r] /\ Reachable(r, d, op)
  /\ ~Conflicting(Group(r, d, op))
  /\ op = "delete" => row[d] # 0
  /\ \E w \in Group(r, d, op) :
       wire' = wire \cup
         {[run |-> r, doc |-> d, op |-> op, ver |-> w.ver,
           structural |-> op = "delete" \/ row[d] = 0,
           landed |-> FALSE, n |-> 0]}
  /\ Goto(r, "await")
  /\ Uncheck(r)
  /\ UNCHANGED <<doc, fence, row, stray, lease, job, todo, work, plan, spent>>

(* A request takes effect at Google, whoever still awaits it. *)
Land(q) ==
  /\ q \in wire /\ ~q.landed
  /\ row' = [row EXCEPT ![q.doc] = IF q.op = "upsert" THEN q.ver ELSE 0]
  /\ stray' = [stray EXCEPT ![q.doc] = lease.owner # q.run \/ q.run = Lost]
  /\ wire' = (wire \ {q}) \cup
             (IF q.run = Lost THEN {} ELSE {[q EXCEPT !.landed = TRUE]})
  /\ UNCHANGED <<doc, fence, lease, job, pc, ok, todo, work, plan, spent>>

Awaits(r, q) == pc[r] = "await" /\ q \in wire /\ q.run = r

Answered(r, q, st) ==
  AfterWrites(r, Outcome(plan[r], Group(r, q.doc, q.op), st))

(* The confirmation arrives. *)
Answer(r, q) ==
  /\ Awaits(r, q) /\ q.landed
  /\ wire' = wire \ {q}
  /\ Answered(r, q, "synced")
  /\ UNCHANGED <<doc, fence, row, stray, lease, job, ok, todo, work, spent>>

(* Google rejects the request explicitly (400, 401, 403, 404, 429). *)
Reject(r, q) ==
  /\ Awaits(r, q) /\ ~q.landed /\ Spend
  /\ wire' = wire \ {q}
  /\ Answered(r, q, "failed")
  /\ UNCHANGED <<doc, fence, row, stray, lease, job, ok, todo, work>>

(* The request stays on its way with nobody awaiting it. *)
Abandon(q) ==
  IF q.landed THEN {} ELSE {[q EXCEPT !.run = Lost, !.n = spent]}

(* No usable answer.  An uncertain structural write stops every later request
   of the run and defers what is left; an uncertain update merely failed. *)
Unconfirmed(r, q) ==
  /\ Awaits(r, q) /\ Spend
  /\ wire' = (wire \ {q}) \cup Abandon(q)
  /\ IF q.structural
     THEN AfterWrites(r, Stopped(plan[r]))
     ELSE Answered(r, q, "failed")
  /\ UNCHANGED <<doc, fence, row, stray, lease, job, ok, todo, work>>
-----------------------------------------------------------------------------
(* Settling the run. *)

(* persistDocSheetSync: the location of every upserted row is written onto its
   document.  A document that is gone, or a Mongo failure, turns the synced
   outcomes of that document into failed ones.  The code goes from document to
   document; a run that fails between two is one that loses the later ones. *)
Persist(r) ==
  /\ pc[r] = "persist" /\ ok[r]
  /\ LET upserted == {w.doc : w \in {u \in plan[r] : u.op = "upsert"}} IN
     \E lost \in SUBSET upserted :
       /\ {d \in upserted : ~Exists(d)} \subseteq lost
       /\ IF \E d \in lost : Exists(d) THEN Spend ELSE UNCHANGED spent
       /\ doc' = [d \in Docs |-> IF d \in upserted \ lost
                                 THEN [doc[d] EXCEPT !.located = TRUE]
                                 ELSE doc[d]]
       /\ plan' = [plan EXCEPT ![r] =
            {[w EXCEPT !.st = IF w.doc \in lost /\ w.op = "upsert"
                                 /\ @ = "synced" THEN "failed" ELSE @]
               : w \in plan[r]}]
  /\ Goto(r, "settle")
  /\ Uncheck(r)
  /\ UNCHANGED <<fence, row, stray, wire, lease, job, todo, work>>

Outcomes(r, j) == {w \in plan[r] : w.job = j}

(* retryTargetsFor. *)
RetryTargets(W) == {w.doc : w \in {u \in W : u.st \in {"failed", "deferred"}}}

(* One planned job gets its status from the outcomes of its writes; a job with
   no writes is done. *)
SettleJob(r, j) ==
  /\ pc[r] = "settle" /\ ok[r] /\ j \in work[r]
  /\ work' = [work EXCEPT ![r] = @ \ {j}]
  /\ LET W == Outcomes(r, j)
         updated == IF \E w \in W : w.st = "failed"
                    THEN Failure(j, RetryTargets(W))
                    ELSE IF \E w \in W : w.st = "deferred"
                         THEN Deferred(j, RetryTargets(W))
                         ELSE Synced(j)
     IN  Settle(r, j, updated)
  /\ Uncheck(r)
  /\ UNCHANGED <<domainVars, lease, todo, plan, spent>>

(* Nothing is left to settle.  Losing the lease here changes no more than the
   run's own record. *)
AllSettled(r) ==
  /\ pc[r] = "settle" /\ work[r] = {}
  /\ Goto(r, "finish")
  /\ Uncheck(r)
  /\ UNCHANGED <<domainVars, lease, job, todo, work, plan, spent>>

(* The plan outlives its run, as state of the process would. *)
MutantForget(r) ==
  /\ todo' = [todo EXCEPT ![r] = {}]
  /\ work' = [work EXCEPT ![r] = {}]
  /\ Uncheck(r)
  /\ Goto(r, "idle")
  /\ UNCHANGED plan

Forget(r) ==
  /\ todo' = [todo EXCEPT ![r] = {}]
  /\ work' = [work EXCEPT ![r] = {}]
  /\ plan' = [plan EXCEPT ![r] = {}]
  /\ Uncheck(r)
  /\ Goto(r, "idle")

(* The run ends and releases the lease if it still has it. *)
Finish(r) ==
  /\ pc[r] = "finish"
  /\ lease' = Released(r)
  /\ Forget(r)
  /\ UNCHANGED <<domainVars, job, spent>>

Claims(r) == {j \in Jobs : job[j].status = "processing" /\ job[j].run = r}

(* Only claims whose lease is live are released. *)
MutantReleasedClaims(r) ==
  [j \in Jobs |->
     IF j \in Claims(r) /\ job[j].live
     THEN [job[j] EXCEPT !.status = "retrying", !.live = FALSE] ELSE job[j]]

(* releaseClaimedJobsForRun: whether or not their lease is live. *)
ReleasedClaims(r) ==
  [j \in Jobs |->
     IF j \in Claims(r)
     THEN [job[j] EXCEPT !.status = "retrying", !.live = FALSE] ELSE job[j]]

(* The catch block: release the claims, then the lease. *)
Abort(r) ==
  /\ pc[r] = "failing"
  /\ job' = ReleasedClaims(r)
  /\ lease' = Released(r)
  /\ Forget(r)
  /\ UNCHANGED <<domainVars, spent>>

-----------------------------------------------------------------------------
(* The environment. *)

(* The invocation is killed: its lease and claims run on without an owner. *)
Crash(r) ==
  /\ CanCrash /\ pc[r] # "idle" /\ Spend
  /\ lease' = IF lease.owner = r THEN [lease EXCEPT !.owner = Lost] ELSE lease
  /\ job' = [j \in Jobs |->
       IF j \in Claims(r) THEN [job[j] EXCEPT !.run = Lost] ELSE job[j]]
  /\ wire' = UNION {IF q.run = r THEN Abandon(q) ELSE {q} : q \in wire}
  /\ Forget(r)
  /\ UNCHANGED <<doc, row, stray, fence>>

(* Time passes the dates of an invocation that no longer renews them. *)
ExpireLost ==
  /\ \/ lease.owner = Lost /\ lease.live
     \/ \E j \in Jobs : job[j].run = Lost /\ job[j].live
  /\ lease' = IF lease.owner = Lost THEN [lease EXCEPT !.live = FALSE]
              ELSE lease
  /\ job' = [j \in Jobs |-> IF job[j].run = Lost
                            THEN [job[j] EXCEPT !.live = FALSE] ELSE job[j]]
  /\ UNCHANGED <<domainVars, pc, ok, todo, work, plan, spent>>

(* A running invocation stalls past a heartbeat: the lease expires, and with it
   or without it the claims of its jobs. *)
Stall(r) ==
  /\ Held(r) /\ pc[r] # "idle" /\ Spend
  /\ lease' = [lease EXCEPT !.live = FALSE]
  /\ \/ UNCHANGED job
     \/ job' = [j \in Jobs |->
          IF j \in Claims(r) THEN [job[j] EXCEPT !.live = FALSE] ELSE job[j]]
  /\ UNCHANGED <<domainVars, pc, ok, todo, work, plan>>

(* An operator raises and lowers the topology fence. *)
RaiseFence ==
  /\ ~fence /\ Spend
  /\ fence' = TRUE
  /\ UNCHANGED <<doc, row, stray, wire, lease, job, pc, ok, todo, work, plan>>

LowerFence ==
  /\ fence
  /\ fence' = FALSE
  /\ UNCHANGED <<doc, row, stray, wire, lease, job, pc, ok, todo, work, plan,
                 spent>>

(* retrySheetSyncJobs: failed jobs by default, any job by its id. *)
AdminRetry(j) ==
  /\ job[j].status # "free" /\ Spend
  /\ job' = [job EXCEPT ![j].status = "pending", ![j].attempts = 0,
                        ![j].run = None, ![j].live = FALSE]
  /\ UNCHANGED <<domainVars, lease, pc, ok, todo, work, plan>>

-----------------------------------------------------------------------------
Init ==
  /\ doc = [d \in Docs |-> [ver |-> 0, exists |-> FALSE, located |-> FALSE]]
  /\ job = [j \in Jobs |-> FreeJob]
  /\ lease = [owner |-> None, live |-> FALSE]
  /\ fence = FALSE
  /\ row = [d \in Docs |-> 0]
  /\ stray = [d \in Docs |-> FALSE]
  /\ wire = {}
  /\ pc = [r \in Runs |-> "idle"]
  /\ ok = [r \in Runs |-> FALSE]
  /\ todo = [r \in Runs |-> {}]
  /\ work = [r \in Runs |-> {}]
  /\ plan = [r \in Runs |-> {}]
  /\ spent = 0

DomainWrite ==
  \/ \E l \in Leads : WriteLead(l) \/ DeleteLead(l)
  \/ \E b \in Bookings : WriteBooking(b) \/ DeleteBooking(b)
  \/ \E l \in Leads, b \in Bookings : CorrectLead(l, b)

(* What a run does by itself. *)
RunStep(r) ==
  \/ Start(r)
  \/ Claim(r)
  \/ Check(r)
  \/ \E j \in Jobs : PlanJob(r, j) \/ PlanFails(r, j) \/ SettleJob(r, j)
  \/ BeginWrite(r)
  \/ \E d \in Docs, op \in {"upsert", "delete"} :
       SkipRequest(r, d, op) \/ Send(r, d, op)
  \/ \E q \in wire : Answer(r, q)
  \/ Persist(r)
  \/ AllSettled(r)
  \/ Finish(r)
  \/ Abort(r)

(* What happens to a run. *)
Disturb(r) ==
  \/ OutOfTime(r)
  \/ \E d \in Docs, op \in {"upsert", "delete"} : QuotaDenied(r, d, op)
  \/ \E q \in wire : Reject(r, q) \/ Unconfirmed(r, q)
  \/ Crash(r)
  \/ Stall(r)

Next ==
  \/ DomainWrite
  \/ \E r \in Runs : RunStep(r) \/ Disturb(r)
  \/ \E q \in wire : Land(q)
  \/ ExpireLost
  \/ RaiseFence
  \/ LowerFence
  \/ \E j \in Jobs : AdminRetry(j)

Spec == Init /\ [][Next]_vars

(* Runs keep being started and keep going (cron, */5 minutes), Google acts on
   what it was sent, dates pass, and operators lower their fence. *)
Fairness ==
  /\ \A r \in Runs : WF_vars(RunStep(r))
  /\ WF_vars(\E q \in wire : Land(q))
  /\ WF_vars(ExpireLost)
  /\ WF_vars(LowerFence)

FairSpec == Spec /\ Fairness

-----------------------------------------------------------------------------
(* Properties. *)

Labels == {"idle", "claim", "plan", "write", "await", "persist", "settle",
           "finish", "failing"}

Writes == [job : Jobs, doc : Docs, op : {"upsert", "delete"},
           ver : 0 .. MaxVersion,
           st : {"planned", "synced", "failed", "deferred"}]

(* Every variable has its type. *)
TypeOK ==
  /\ doc \in [Docs -> DocRecords]
  /\ job \in [Jobs -> JobRecords]
  /\ lease \in [owner : Runs \cup {None, Lost}, live : BOOLEAN]
  /\ fence \in BOOLEAN
  /\ row \in [Docs -> 0 .. MaxVersion]
  /\ stray \in [Docs -> BOOLEAN]
  /\ wire \subseteq Requests
  /\ pc \in [Runs -> Labels]
  /\ ok \in [Runs -> BOOLEAN]
  /\ todo \in [Runs -> SUBSET Jobs]
  /\ work \in [Runs -> SUBSET Jobs]
  /\ plan \in [Runs -> SUBSET Writes]
  /\ spent \in 0 .. MaxDisruptions

(* No run leaks its claims: a processing job is still on the list of the run
   that claimed it, which will settle or release it, or its run was killed. *)
NoProcessingLeak ==
  \A j \in Jobs : job[j].status = "processing" =>
    \/ job[j].run = Lost
    \/ /\ job[j].run \in Runs
       /\ \/ j \in todo[job[j].run] \cup work[job[j].run]
          \/ pc[job[j].run] = "failing"

(* The jobs that will still touch d's row, or were given up visibly. *)
Covers(j, d) ==
  \/ job[j].key.id = d
  \/ job[j].key.res = "booking_chain" /\ LeadOf[job[j].key.id] = d

Outstanding(d) ==
  \E j \in Jobs : /\ job[j].status \in Active \cup {"processing", "failed"}
                  /\ Covers(j, d)

Desired(d) == IF Exists(d) THEN doc[d].ver ELSE 0

(* Documents whose rows the sync accounts for: a booking that is deleted before
   its row was located is given up (DeletedBookingsHaveNoRow). *)
Kept(d) == d \in Leads \/ Exists(d) \/ doc[d].located

(* Once no job is outstanding for a document that is kept, its row shows the
   document as it is: no write is lost between the outbox, the plan, the sheet
   and the settlement, whatever runs overlap, stall or are retried.
   The one exception is a request that took effect after its sender gave it up
   or lost the lease, which the drainer documents. *)
SettledRowsAreCurrent ==
  \A d \in Docs :
    Kept(d) /\ ~Outstanding(d) /\ ~stray[d] => row[d] = Desired(d)

(* Whatever runs overlap or stall, the owner of the lease does not write an older
   version over a newer one, nor remove the row of a document that exists. *)
RowsMoveForward ==
  [][\A d \in Docs : row'[d] < row[d] /\ ~stray'[d] =>
       row'[d] = 0 /\ ~Exists(d)]_vars

Mirror == INSTANCE SheetMirror
  WITH version <- [d \in Docs |-> doc[d].ver],
       alive   <- [d \in Docs |-> Exists(d)],
       kept    <- {d \in Docs : Kept(d)},
       owed    <- {d \in Docs : Outstanding(d)}

(* Outbox and drainer keep the sheet as a mirror of the documents. *)
MirrorsDocuments == Mirror!Spec

(* The same for a deleted booking. *)
DeletedBookingsHaveNoRow ==
  \A b \in Bookings : ~Exists(b) /\ ~Outstanding(b) /\ ~stray[b] => row[b] = 0

(* Every job that was persisted is settled one day, unless the run that had
   claimed it was killed. *)
EveryJobIsSettled ==
  \A j \in Jobs : job[j].status \in Active \cup {"processing"}
                    ~> \/ job[j].status \in {"synced", "failed", "cancelled"}
                       \/ job[j].status = "processing" /\ job[j].run = Lost
=============================================================================
