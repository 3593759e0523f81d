--------------------------- MODULE ReportingDelivery ---------------------------
(***************************************************************************)
(* Delivery of confirmed report runs to a managed Google tab               *)
(* (services/reporting, strategy replace_tab).                             *)
(*                                                                         *)
(* A worker, started by a queue message or the heartbeat cron, leases a    *)
(* run, builds the run's manifest, creates a hidden staging tab, fills it  *)
(* page by page, verifies it and promotes it: one Google batch renames the *)
(* old tab away and gives the staging tab the published title, and one     *)
(* MongoDB transaction completes the run and moves the destination to the  *)
(* new tab.  A worker that lost its lease goes on until a guarded write    *)
(* tells it so; Google does not know the lease.  Several runs can be       *)
(* delivered to the same destination at once.                              *)
(*                                                                         *)
(* What is abstracted: the report's rows are numbered, and a batch writes  *)
(* one; every tab a worker stages is hidden until it is promoted, so the   *)
(* title tells the hidden tabs; recovery titles are unique and not told    *)
(* apart; the destination's version is left out, since nothing here edits  *)
(* a destination; the conditions of the workbook registry and of capacity  *)
(* are left open; an invocation that is killed and one that abandons after *)
(* a retryable error both leave a free lease.                              *)
(***************************************************************************)
EXTENDS Naturals, Sequences, FiniteSets

CONSTANTS
  Runs,         \* confirmed runs of one destination
  Workers,      \* invocations that can execute at the same time
  Pages,        \* Pages[r]: pages of the report of run r, none if it is empty
  PageBatches,  \* batches of a page
  MaxCancels,   \* bound: cancellation requests
  MaxLosses,    \* bound: workers that die, abandon their run or lose its lease
  MaxErrors,    \* bound: failed Google calls that a worker swallows
  None          \* no run

ASSUME ReportingAssumption ==
  /\ Pages \in [Runs -> Nat]
  /\ PageBatches \in Nat \ {0}
  /\ MaxCancels \in Nat /\ MaxLosses \in Nat /\ MaxErrors \in Nat
  /\ None \notin Runs

VARIABLES
  run,       \* reporting_runs
  delivery,  \* reporting_deliveries
  manifest,  \* runs that have a manifest
  dest,      \* the destination's managed tab and its predecessors
  tabs,      \* the workbook: a tab's sheet ID is its index
  pc,        \* pc[w]: where worker w is
  job,       \* job[w]: what it has in memory
  janitor,   \* the run whose tab the cleanup janitor is about to delete
  losses,    \* losses so far
  errors     \* errors so far

vars == <<run, delivery, manifest, dest, tabs, pc, job, janitor, losses, errors>>

runVars == <<run, delivery, manifest, dest>>
workerVars == <<pc, job>>
faults == <<losses, errors>>

-----------------------------------------------------------------------------
(* Documents, tabs and workers. *)

(* A promoting run is cancelled as well. *)
MutantCancellable == {"queued", "querying", "writing", "verifying", "promoting"}

Cancellable == {"queued", "querying", "writing", "verifying"}
Open == Cancellable \cup {"promoting"}
Statuses == Open \cup {"completed", "failed", "cancelled"}

LastRow(r) == Pages[r] * PageBatches + 1      \* row 1 is the header
Report(r) == 1 .. LastRow(r)

(* The reservation: the epoch that made it, and whether Google applied it. *)
RunDocs == [status : Statuses, epoch : Nat, leased : BOOLEAN, cancel : BOOLEAN,
            page : Nat, gen : Nat, applied : BOOLEAN]

(* 0: no sheet ID, no fence.  sum: expected.data_checksum is set. *)
DeliveryDocs ==
  [status : {"pending", "writing", "completed", "failed", "cancelled"},
   fence : Nat, staging : Nat, old : Nat, next : Nat,
   sum : BOOLEAN, step : {"not_started", "submitted", "ambiguous", "updated"},
   cleanup : {"not_needed", "pending", "completed"}]

Tabs == [by : Runs \cup {None}, marked : BOOLEAN, rows : SUBSET Nat,
         title : {"published", "staging", "recovery", "deleted"}]

(* Where a worker can be. *)
Labels ==
  {"idle", "bind", "resolve", "manifest", "persist", "artifact", "create", "mark",
   "record", "begin", "read", "write", "put", "acknowledge", "page", "checkpoint",
   "verify", "promote", "reserve", "adopt", "check", "rename", "confirm", "apply",
   "submit", "commit", "ambiguous", "giveUp", "recover", "readopt", "cancelled",
   "enqueue", "failed"}

Jobs == [run : Runs \cup {None}, epoch : Nat, tab : Nat, old : Nat,
         next : Nat, page : Nat]
NoJob == [run |-> None, epoch |-> 0, tab |-> 0, old |-> 0, next |-> 0, page |-> 0]

(* The lease of a worker's run is still its own (renewReportingRunLease). *)
Held(w) == /\ run[job[w].run].leased
           /\ run[job[w].run].epoch = job[w].epoch

(* The delivery is still fenced for it (patchReportingDeliveryFenced). *)
Fenced(w) == delivery[job[w].run].fence = job[w].epoch

Goto(w, l) == pc' = [pc EXCEPT ![w] = l]

(* The worker returns.  What it remembers is gone. *)
Leave(w) == /\ Goto(w, "idle")
            /\ job' = [job EXCEPT ![w] = NoJob]

Loss == losses < MaxLosses /\ losses' = losses + 1 /\ UNCHANGED errors
Error == errors < MaxErrors /\ errors' = errors + 1 /\ UNCHANGED losses

StagingTabs(r) ==
  {t \in DOMAIN tabs : tabs[t].title = "staging" /\ tabs[t].by = r}
MarkedTabs(r) ==
  {t \in DOMAIN tabs :
     tabs[t].marked /\ tabs[t].by = r /\ tabs[t].title # "deleted"}

(* inspectReplaceTabPromotion, by immutable sheet IDs. *)
ReadyToPromote(w) == /\ tabs[job[w].old].title = "published"
                     /\ tabs[job[w].tab].title = "staging"
AlreadyPromoted(old, tab) == /\ tabs[old].title # "published"
                             /\ tabs[tab].title = "published"

-----------------------------------------------------------------------------
(* Runs are claimed, cancelled and failed. *)

(* Promotion is never resumed. *)
MutantClaimable == Open \ {"promoting"}

Claimable == Open

(* claimNextQueuedReportingRun.  The hint of a queue message picks the run. *)
Claim(w, r) ==
  /\ pc[w] = "idle"
  /\ run[r].status \in Claimable /\ ~run[r].leased
  /\ run' = [run EXCEPT ![r].leased = TRUE, ![r].epoch = @ + 1]
  /\ job' = [job EXCEPT ![w] = [NoJob EXCEPT !.run = r, !.epoch = run[r].epoch + 1]]
  /\ Goto(w, "bind")
  /\ UNCHANGED <<delivery, manifest, dest, tabs, janitor, faults>>

(* ensureReportingDelivery and bindReportingDeliveryFence.  After a recorded
   rename the worker goes to recovery. *)
Bind(w) ==
  LET r == job[w].run IN
  /\ pc[w] = "bind" /\ Held(w)
  /\ delivery' = [delivery EXCEPT ![r].fence = job[w].epoch]
  /\ Goto(w, IF delivery[r].step = "submitted" THEN "recover" ELSE "resolve")
  /\ UNCHANGED <<run, manifest, dest, tabs, job, janitor, faults>>

(* requestReportingRunCancellation. *)
RequestCancel(r) ==
  /\ run[r].status \in Open /\ ~run[r].cancel
  /\ Cardinality({q \in Runs : run[q].cancel}) < MaxCancels
  /\ run' = [run EXCEPT ![r].cancel = TRUE]
  /\ UNCHANGED <<delivery, manifest, dest, tabs, workerVars, janitor, faults>>

CancelDue(w) == run[job[w].run].cancel /\ run[job[w].run].status \in Cancellable

(* The places where executeLeasedReportingRun calls cancelIfRequested. *)
AtSafePoint(w) ==
  \/ pc[w] \in {"resolve", "manifest", "begin"}
  \/ pc[w] = "read" /\ job[w].next > 1 /\ job[w].page < Pages[job[w].run]

(* cancelIfRequested: the run first, then its delivery, then the cleanup. *)
Cancel(w) ==
  /\ AtSafePoint(w) /\ Held(w) /\ CancelDue(w)
  /\ run' = [run EXCEPT ![job[w].run].status = "cancelled"]
  /\ Goto(w, "cancelled")
  /\ UNCHANGED <<delivery, manifest, dest, tabs, job, janitor, faults>>

CancelDelivery(w) ==
  /\ pc[w] = "cancelled"
  /\ delivery' = [delivery EXCEPT ![job[w].run].status =
                    IF Fenced(w) THEN "cancelled" ELSE @]
  /\ IF job[w].tab = 0
     THEN Leave(w)
     ELSE Goto(w, "enqueue") /\ UNCHANGED job
  /\ UNCHANGED <<run, manifest, dest, tabs, janitor, faults>>

(* enqueueIncompleteArtifactCleanup. *)
EnqueueCleanup(w) ==
  /\ pc[w] = "enqueue"
  /\ delivery' = [delivery EXCEPT ![job[w].run].cleanup = "pending"]
  /\ Leave(w)
  /\ UNCHANGED <<run, manifest, dest, tabs, janitor, faults>>

(* failRun: the run, then its delivery. *)
FailRun(w) ==
  /\ run' = [run EXCEPT ![job[w].run].status = "failed"]
  /\ Goto(w, "failed")

FailDelivery(w) ==
  /\ pc[w] = "failed"
  /\ delivery' = [delivery EXCEPT ![job[w].run].status =
                    IF Fenced(w) THEN "failed" ELSE @]
  /\ Leave(w)
  /\ UNCHANGED <<run, manifest, dest, tabs, janitor, faults>>

(* An error that is not retryable reaches runReportingDeliveryWorker.  The
   delivery is patched even when the run could not be failed. *)
Throw(w) ==
  LET r == job[w].run IN
  IF run[r].status \notin Open
  THEN Leave(w) /\ UNCHANGED run
  ELSE /\ run' = [run EXCEPT ![r].status = IF Held(w) THEN "failed" ELSE @]
       /\ Goto(w, "failed")
       /\ UNCHANGED job

-----------------------------------------------------------------------------
(* The run's inputs and its staging tab. *)

(* The destination is read, the source read-through captured. *)
Start(w) ==
  LET r == job[w].run IN
  /\ pc[w] = "resolve" /\ Held(w) /\ ~CancelDue(w)
  /\ job' = [job EXCEPT ![w].old = dest.sheet]
  /\ run' = [run EXCEPT ![r].status = IF @ = "queued" THEN "querying" ELSE @]
  /\ Goto(w, "manifest")
  /\ UNCHANGED <<delivery, manifest, dest, tabs, janitor, faults>>

(* The workbook registry or the capacity of the destination refuses. *)
Refuse(w) ==
  /\ pc[w] = "resolve" /\ Held(w)
  /\ FailRun(w)
  /\ UNCHANGED <<delivery, manifest, dest, tabs, job, janitor, faults>>

LoadManifest(w) ==
  /\ pc[w] = "manifest" /\ Held(w) /\ ~CancelDue(w)
  /\ Goto(w, IF job[w].run \in manifest THEN "artifact" ELSE "persist")
  /\ UNCHANGED <<runVars, tabs, job, janitor, faults>>

(* persistReportingCandidateManifest asks for no lease.  Two manifests of a run
   differ in their capture times, so the second one conflicts. *)
PersistManifest(w) ==
  LET r == job[w].run IN
  /\ pc[w] = "persist"
  /\ IF r \in manifest
     THEN Throw(w) /\ UNCHANGED manifest
     ELSE /\ manifest' = manifest \cup {r}
          /\ Goto(w, "artifact")
          /\ UNCHANGED <<run, job>>
  /\ UNCHANGED <<delivery, dest, tabs, janitor, faults>>

(* createOrResumeDeliveryArtifact: the tab the delivery names, else one that
   carries the run's marker, else a new one if the title is free. *)
ResumeArtifact(w) ==
  LET r == job[w].run
      d == delivery[r] IN
  /\ pc[w] = "artifact" /\ Held(w) /\ d.staging # 0
  /\ job' = [job EXCEPT ![w].tab = d.staging, ![w].old = d.old]
  /\ Goto(w, "record")
  /\ UNCHANGED <<runVars, tabs, janitor, faults>>

LookForTab(w) ==
  LET r == job[w].run IN
  IF tabs[job[w].old].title # "published"
  THEN Throw(w)
  ELSE /\ UNCHANGED run
       /\ \/ \E t \in MarkedTabs(r) :
               /\ job' = [job EXCEPT ![w].tab = t]
               /\ Goto(w, "record")
          \/ MarkedTabs(r) = {} /\ Goto(w, "create") /\ UNCHANGED job

FindArtifact(w) ==
  /\ pc[w] = "artifact" /\ Held(w) /\ delivery[job[w].run].staging = 0
  /\ LookForTab(w)
  /\ UNCHANGED <<delivery, manifest, dest, tabs, janitor, faults>>

(* A failed read of a marker is taken for a missing one: the tab that the
   delivery names is looked for, or the run's tab is not found. *)
MissArtifact(w) ==
  LET d == delivery[job[w].run] IN
  /\ pc[w] = "artifact" /\ Held(w) /\ Error
  /\ \/ d.staging # 0 /\ ~AlreadyPromoted(d.old, d.staging) /\ LookForTab(w)
     \/ /\ d.staging = 0 /\ tabs[job[w].old].title = "published"
        /\ Goto(w, "create") /\ UNCHANGED <<run, job>>
  /\ UNCHANGED <<delivery, manifest, dest, tabs, janitor>>

(* createHiddenStagingTab: Google refuses a second tab of the same title. *)
AddTab(w) ==
  LET r == job[w].run IN
  /\ pc[w] = "create"
  /\ IF StagingTabs(r) # {}
     THEN Throw(w) /\ UNCHANGED tabs
     ELSE /\ tabs' = Append(tabs, [by |-> r, marked |-> FALSE, rows |-> {},
                                   title |-> "staging"])
          /\ job' = [job EXCEPT ![w].tab = Len(tabs) + 1]
          /\ Goto(w, "mark")
          /\ UNCHANGED run
  /\ UNCHANGED <<delivery, manifest, dest, janitor, faults>>

MarkTab(w) ==
  /\ pc[w] = "mark"
  /\ tabs' = [tabs EXCEPT ![job[w].tab].marked = TRUE]
  /\ Goto(w, "record")
  /\ UNCHANGED <<runVars, job, janitor, faults>>

RecordArtifact(w) ==
  /\ pc[w] = "record" /\ Fenced(w)
  /\ delivery' = [delivery EXCEPT ![job[w].run].staging = job[w].tab,
                                  ![job[w].run].old = job[w].old]
  /\ Goto(w, "begin")
  /\ UNCHANGED <<run, manifest, dest, tabs, job, janitor, faults>>

-----------------------------------------------------------------------------
(* The report is written and verified. *)

(* A run that is being written is promoted at once. *)
MutantResumeAt(status) ==
  CASE status = "verifying"              -> "verify"
    [] status \in {"writing", "promoting"} -> "promote"
    [] OTHER                             -> "read"

(* isAtOrPast: where a worker resumes, by the status of the run. *)
ResumeAt(status) ==
  CASE status = "verifying" -> "verify"
    [] status = "promoting" -> "promote"
    [] OTHER                -> "read"

Begin(w) ==
  LET r == job[w].run IN
  /\ pc[w] = "begin" /\ Held(w) /\ ~CancelDue(w)
  /\ run' = [run EXCEPT ![r].status = IF @ = "querying" THEN "writing" ELSE @]
  /\ job' = [job EXCEPT ![w].next = delivery[r].next, ![w].page = run[r].page]
  /\ Goto(w, ResumeAt(run[r].status))
  /\ UNCHANGED <<delivery, manifest, dest, tabs, janitor, faults>>

(* A page ends one batch late. *)
MutantLongPage(w) == (job[w].page + 1) * PageBatches + 2

(* A page ends one batch early. *)
MutantShortPage(w) == (job[w].page + 1) * PageBatches

EndOfPage(w) == (job[w].page + 1) * PageBatches + 1

WriteHeader(w) ==
  /\ pc[w] = "read" /\ Held(w) /\ job[w].next = 1
  /\ Goto(w, "put")
  /\ UNCHANGED <<runVars, tabs, job, janitor, faults>>

(* The next page of the stream; its batches may be acknowledged already. *)
ReadPage(w) ==
  /\ pc[w] = "read" /\ Held(w) /\ ~CancelDue(w)
  /\ job[w].next > 1 /\ job[w].page < Pages[job[w].run]
  /\ Goto(w, IF job[w].next > EndOfPage(w) THEN "page" ELSE "write")
  /\ UNCHANGED <<runVars, tabs, job, janitor, faults>>

(* The stream finds that a document of the page changed, or the validation of the
   manifest does, after it was loaded and in a recovery.  No lease is asked. *)
SourceChanged(w) ==
  /\ \/ pc[w] = "read" /\ job[w].next > 1 /\ job[w].page < Pages[job[w].run]
     \/ pc[w] \in {"artifact", "readopt"}
  /\ Throw(w)
  /\ UNCHANGED <<delivery, manifest, dest, tabs, janitor, faults>>

NextBatch(w) ==
  /\ pc[w] = "write" /\ Held(w)
  /\ Goto(w, "put")
  /\ UNCHANGED <<runVars, tabs, job, janitor, faults>>

(* writeBoundedReportingBatch, by the staging tab's title. *)
Put(w) ==
  LET r == job[w].run IN
  /\ pc[w] = "put"
  /\ IF StagingTabs(r) = {}
     THEN Throw(w) /\ UNCHANGED tabs
     ELSE /\ tabs' = [t \in DOMAIN tabs |->
                        IF t \in StagingTabs(r)
                        THEN [tabs[t] EXCEPT !.rows = @ \cup {job[w].next}]
                        ELSE tabs[t]]
          /\ Goto(w, "acknowledge")
          /\ UNCHANGED <<run, job>>
  /\ UNCHANGED <<delivery, manifest, dest, janitor, faults>>

Acknowledge(w) ==
  LET r == job[w].run IN
  /\ pc[w] = "acknowledge" /\ Fenced(w)
  /\ delivery' = [delivery EXCEPT ![r].next = job[w].next + 1,
                    ![r].status = IF job[w].next = 1 THEN "writing" ELSE @]
  /\ job' = [job EXCEPT ![w].next = @ + 1]
  /\ Goto(w, CASE job[w].next = 1              -> "read"
               [] job[w].next >= EndOfPage(w)  -> "page"
               [] OTHER                        -> "write")
  /\ UNCHANGED <<run, manifest, dest, tabs, janitor, faults>>

RecordChecksum(w) ==
  /\ pc[w] = "page" /\ Fenced(w)
  /\ delivery' = [delivery EXCEPT ![job[w].run].sum = TRUE]
  /\ Goto(w, "checkpoint")
  /\ UNCHANGED <<run, manifest, dest, tabs, job, janitor, faults>>

Checkpoint(w) ==
  /\ pc[w] = "checkpoint" /\ Held(w)
  /\ run' = [run EXCEPT ![job[w].run].page = job[w].page + 1]
  /\ job' = [job EXCEPT ![w].page = @ + 1]
  /\ Goto(w, "read")
  /\ UNCHANGED <<delivery, manifest, dest, tabs, janitor, faults>>

EndWriting(w) ==
  /\ pc[w] = "read" /\ Held(w)
  /\ job[w].page = Pages[job[w].run] /\ job[w].next > 1
  /\ run' = [run EXCEPT ![job[w].run].status = "verifying"]
  /\ Goto(w, "verify")
  /\ UNCHANGED <<delivery, manifest, dest, tabs, job, janitor, faults>>

(* verifyStagingContents. *)
Verify(w) ==
  /\ pc[w] = "verify" /\ Held(w)
  /\ IF tabs[job[w].tab].rows = Report(job[w].run)
     THEN /\ run' = [run EXCEPT ![job[w].run].status = "promoting"]
          /\ Goto(w, "promote")
     ELSE FailRun(w)
  /\ UNCHANGED <<delivery, manifest, dest, tabs, job, janitor, faults>>

-----------------------------------------------------------------------------
(* The staging tab is promoted. *)

(* planPromotionRecovery.  Every claim has an epoch of its own, so the
   reservation a worker finds is another one's. *)
Inspect(w) ==
  /\ pc[w] = "promote" /\ Held(w)
  /\ Goto(w, CASE ReadyToPromote(w)                        -> "reserve"
               [] AlreadyPromoted(job[w].old, job[w].tab)  -> "adopt"
               [] OTHER                                    -> "ambiguous")
  /\ UNCHANGED <<runVars, tabs, job, janitor, faults>>

(* writePromotionReservationUnderLease. *)
Reserve(w) ==
  /\ pc[w] = "reserve" /\ Held(w)
  /\ run' = [run EXCEPT ![job[w].run].gen = job[w].epoch,
                        ![job[w].run].applied = FALSE]
  /\ Goto(w, "check")
  /\ UNCHANGED <<delivery, manifest, dest, tabs, job, janitor, faults>>

(* The same, for a rename that Google has applied. *)
Adopt(w) ==
  /\ pc[w] \in {"adopt", "readopt"} /\ Held(w)
  /\ run' = [run EXCEPT ![job[w].run].gen = job[w].epoch,
                        ![job[w].run].applied = TRUE]
  /\ Goto(w, IF pc[w] = "adopt" THEN "submit" ELSE "commit")
  /\ UNCHANGED <<delivery, manifest, dest, tabs, job, janitor, faults>>

(* The lease is renewed, then promoteOrRecoverReplaceTab inspects again. *)
Check(w) ==
  /\ pc[w] = "check" /\ Held(w)
  /\ Goto(w, CASE ReadyToPromote(w)                        -> "rename"
               [] AlreadyPromoted(job[w].old, job[w].tab)  -> "confirm"
               [] OTHER                                    -> "ambiguous")
  /\ UNCHANGED <<runVars, tabs, job, janitor, faults>>

(* promoteStagingTab: all or nothing, and titles are unique. *)
TitleIsFree(w) ==
  \A t \in DOMAIN tabs \ {job[w].old, job[w].tab} : tabs[t].title # "published"

Rename(w) ==
  /\ pc[w] = "rename"
  /\ IF TitleIsFree(w)
     THEN /\ tabs' = [tabs EXCEPT ![job[w].old].title = "recovery",
                                  ![job[w].tab].title = "published"]
          /\ Goto(w, "confirm")
     ELSE Goto(w, "ambiguous") /\ UNCHANGED tabs
  /\ UNCHANGED <<runVars, job, janitor, faults>>

Confirm(w) ==
  /\ pc[w] = "confirm"
  /\ Goto(w, IF /\ AlreadyPromoted(job[w].old, job[w].tab)
                /\ tabs[job[w].tab].rows = Report(job[w].run)
             THEN "apply" ELSE "ambiguous")
  /\ UNCHANGED <<runVars, tabs, job, janitor, faults>>

(* markPromotionReservationProviderApplied. *)
MarkApplied(w) ==
  /\ pc[w] = "apply" /\ Held(w)
  /\ run' = [run EXCEPT ![job[w].run].applied = TRUE]
  /\ Goto(w, "submit")
  /\ UNCHANGED <<delivery, manifest, dest, tabs, job, janitor, faults>>

RecordRename(w) ==
  /\ pc[w] = "submit" /\ Fenced(w)
  /\ delivery' = [delivery EXCEPT ![job[w].run].step = "submitted"]
  /\ Goto(w, "commit")
  /\ UNCHANGED <<run, manifest, dest, tabs, job, janitor, faults>>

(* commitPromotionDestinationCas: one transaction over run, destination and
   delivery, under the lease, the fence and the worker's own reservation. *)
CommitAllowed(w) ==
  LET r == job[w].run IN
  /\ run[r].status = "promoting" /\ Held(w) /\ Fenced(w)
  /\ run[r].gen = job[w].epoch /\ run[r].applied
  /\ \/ dest.sheet = job[w].old
     \/ dest.sheet = job[w].tab /\ job[w].old \in dest.preds

(* The old tab is not recorded as a predecessor. *)
MutantNextDestination(w) == [sheet |-> job[w].tab, preds |-> dest.preds]

NextDestination(w) ==
  [sheet |-> job[w].tab, preds |-> dest.preds \cup {job[w].old}]

Commit(w) ==
  LET r == job[w].run IN
  /\ pc[w] = "commit" /\ CommitAllowed(w)
  /\ run' = [run EXCEPT ![r].status = "completed"]
  /\ dest' = NextDestination(w)
  /\ delivery' = [delivery EXCEPT ![r].status = "completed", ![r].step = "updated"]
  /\ Leave(w)
  /\ UNCHANGED <<manifest, tabs, janitor, faults>>

(* failAmbiguousPromotion. *)
RecordAmbiguous(w) ==
  /\ pc[w] = "ambiguous" /\ Fenced(w)
  /\ delivery' = [delivery EXCEPT ![job[w].run].step = "ambiguous"]
  /\ Goto(w, "giveUp")
  /\ UNCHANGED <<run, manifest, dest, tabs, job, janitor, faults>>

GiveUp(w) ==
  /\ pc[w] = "giveUp" /\ Held(w)
  /\ FailRun(w)
  /\ UNCHANGED <<delivery, manifest, dest, tabs, job, janitor, faults>>

(* recoverRenameBatchSubmitted: the recorded rename is checked again. *)
Recover(w) ==
  LET d == delivery[job[w].run] IN
  /\ pc[w] = "recover" /\ Held(w)
  /\ IF /\ d.sum /\ AlreadyPromoted(d.old, d.staging)
        /\ tabs[d.staging].rows = Report(job[w].run)
     THEN /\ job' = [job EXCEPT ![w].tab = d.staging, ![w].old = d.old]
          /\ Goto(w, "readopt")
          /\ UNCHANGED run
     ELSE FailRun(w) /\ UNCHANGED job
  /\ UNCHANGED <<delivery, manifest, dest, tabs, janitor, faults>>

-----------------------------------------------------------------------------
(* Lost leases, faults and the janitor. *)

(* LeaseLostError: nothing is failed, another worker resumes. *)
LeaseLost(w) ==
  /\ \/ /\ pc[w] \in {"bind", "resolve", "manifest", "artifact", "begin", "read",
                      "write", "checkpoint", "verify", "promote", "reserve", "adopt",
                      "readopt", "check", "apply", "giveUp", "recover"}
        /\ ~Held(w)
     \/ pc[w] \in {"record", "acknowledge", "page", "submit", "ambiguous"} /\ ~Fenced(w)
     \/ pc[w] = "commit" /\ ~CommitAllowed(w)
  /\ run' = [run EXCEPT ![job[w].run].leased = @ /\ ~Held(w)]
  /\ Leave(w)
  /\ UNCHANGED <<delivery, manifest, dest, tabs, janitor, faults>>

(* The invocation is killed, or abandons after a retryable error. *)
Abandon(w) ==
  /\ pc[w] # "idle" /\ Loss
  /\ run' = [run EXCEPT ![job[w].run].leased = @ /\ ~Held(w)]
  /\ Leave(w)
  /\ UNCHANGED <<delivery, manifest, dest, tabs, janitor>>

(* The lease of a live worker expires. *)
Stall(w) ==
  /\ pc[w] # "idle" /\ Held(w) /\ Loss
  /\ run' = [run EXCEPT ![job[w].run].leased = FALSE]
  /\ UNCHANGED <<delivery, manifest, dest, tabs, workerVars, janitor>>

(* Google refuses the rename, or fails a marker read before or after it: all
   are caught, and taken for an ambiguous promotion. *)
CaughtFailure(w) ==
  /\ \/ pc[w] = "check" /\ Held(w)
     \/ pc[w] \in {"rename", "confirm"}
  /\ Error
  /\ Goto(w, "ambiguous")
  /\ UNCHANGED <<runVars, tabs, job, janitor>>

(* The same in recoverRenameBatchSubmitted, taken for a marker mismatch. *)
CaughtInRecovery(w) ==
  /\ pc[w] = "recover" /\ Held(w) /\ Error
  /\ FailRun(w)
  /\ UNCHANGED <<delivery, manifest, dest, tabs, job, janitor>>

(* cleanupDeliveryArtifacts: hidden, marked tabs of cancelled deliveries. *)
JanitorList(r) ==
  /\ janitor = None
  /\ delivery[r].cleanup = "pending" /\ delivery[r].status \in {"failed", "cancelled"}
  /\ delivery[r].staging # 0 /\ tabs[delivery[r].staging].title = "staging"
  /\ janitor' = r
  /\ UNCHANGED <<runVars, tabs, workerVars, faults>>

JanitorDelete(r) ==
  /\ janitor = r
  /\ tabs' = [tabs EXCEPT ![delivery[r].staging].title = "deleted"]
  /\ delivery' = [delivery EXCEPT ![r].cleanup = "completed"]
  /\ janitor' = None
  /\ UNCHANGED <<run, manifest, dest, workerVars, faults>>

-----------------------------------------------------------------------------
Init ==
  /\ run = [r \in Runs |-> [status |-> "queued", epoch |-> 0, leased |-> FALSE,
                            cancel |-> FALSE, page |-> 0, gen |-> 0,
                            applied |-> FALSE]]
  /\ delivery = [r \in Runs |-> [status |-> "pending", fence |-> 0, staging |-> 0,
                                 old |-> 0, next |-> 1, sum |-> FALSE,
                                 step |-> "not_started", cleanup |-> "not_needed"]]
  /\ manifest = {}
  /\ dest = [sheet |-> 1, preds |-> {}]
  /\ tabs = <<[by |-> None, marked |-> FALSE, rows |-> {}, title |-> "published"]>>
  /\ pc = [w \in Workers |-> "idle"]
  /\ job = [w \in Workers |-> NoJob]
  /\ janitor = None
  /\ losses = 0 /\ errors = 0

Prepare(w) ==
  \/ Bind(w) \/ Start(w) \/ Refuse(w) \/ LoadManifest(w) \/ PersistManifest(w)
  \/ ResumeArtifact(w) \/ FindArtifact(w) \/ AddTab(w) \/ MarkTab(w)
  \/ RecordArtifact(w)

Write(w) ==
  \/ Begin(w) \/ WriteHeader(w) \/ ReadPage(w) \/ SourceChanged(w) \/ NextBatch(w)
  \/ Put(w) \/ Acknowledge(w) \/ RecordChecksum(w) \/ Checkpoint(w)
  \/ EndWriting(w) \/ Verify(w)

Promote(w) ==
  \/ Inspect(w) \/ Reserve(w) \/ Adopt(w) \/ Check(w) \/ Rename(w) \/ Confirm(w)
  \/ MarkApplied(w) \/ RecordRename(w) \/ Commit(w) \/ RecordAmbiguous(w)
  \/ GiveUp(w) \/ Recover(w)

Stop(w) ==
  Cancel(w) \/ CancelDelivery(w) \/ EnqueueCleanup(w) \/ FailDelivery(w) \/ LeaseLost(w)

(* What a worker that is running does. *)
WorkerStep(w) == Prepare(w) \/ Write(w) \/ Promote(w) \/ Stop(w)

WorkerFault(w) ==
  \/ Abandon(w) \/ Stall(w)
  \/ MissArtifact(w) \/ CaughtFailure(w) \/ CaughtInRecovery(w)

Next ==
  \/ \E w \in Workers : WorkerStep(w) \/ WorkerFault(w) \/ \E r \in Runs : Claim(w, r)
  \/ \E r \in Runs : RequestCancel(r) \/ JanitorList(r) \/ JanitorDelete(r)

Spec == Init /\ [][Next]_vars

(* The platform runs an invocation until it returns or dies, and the heartbeat
   wakes a stranded run every five minutes. *)
Fairness ==
  /\ \A w \in Workers : WF_vars(WorkerStep(w))
  /\ \A r \in Runs : WF_vars(\E w \in Workers : Claim(w, r))

FairSpec == Spec /\ Fairness

-----------------------------------------------------------------------------
(* Documents, workbook and workers are well formed: no page or row beyond the
   end of the report is checkpointed, acknowledged or written. *)
TypeOK ==
  /\ run \in [Runs -> RunDocs]
  /\ delivery \in [Runs -> DeliveryDocs]
  /\ manifest \subseteq Runs
  /\ \A r \in Runs : run[r].page <= Pages[r] /\ delivery[r].next \in 1 .. LastRow(r) + 1
  /\ tabs \in Seq(Tabs)
  /\ \A t \in DOMAIN tabs : \A i \in tabs[t].rows : i \in Report(tabs[t].by)
  /\ dest.sheet \in DOMAIN tabs /\ dest.preds \subseteq DOMAIN tabs
  /\ pc \in [Workers -> Labels] /\ job \in [Workers -> Jobs]
  /\ \A w \in Workers : pc[w] = "idle" <=> job[w].run = None
  /\ janitor \in Runs \cup {None}
  /\ losses \in 0 .. MaxLosses /\ errors \in 0 .. MaxErrors

Published == {t \in DOMAIN tabs : tabs[t].title = "published"}

(* Whoever opens the workbook finds exactly one tab under the published title,
   and every row of the report in it: no stale worker's rename, write or
   resumption shows readers two tabs, none, or half a report. *)
ReadersSeeAWholeReport ==
  /\ Cardinality(Published) = 1
  /\ \A t \in Published : tabs[t].by # None => tabs[t].rows = Report(tabs[t].by)

(* The published tab is the destination's, or that of a run between its rename
   and its commit; a run that was cancelled or never verified is not on show.
   (A failed run may be: see FailedReplacementPreservesTheOldTab.) *)
OnlyPromotedReportsShow ==
  \A t \in Published :
    t = dest.sheet \/ run[tabs[t].by].status \in {"promoting", "failed"}

(* However often the run changed hands while it was written, once it is taken
   for written its recorded tab has every row. *)
ResumedWritesAreComplete ==
  \A r \in Runs : run[r].status \in {"verifying", "promoting", "completed"} =>
    tabs[delivery[r].staging].rows = Report(r)

(* The cleanup janitor lists the tabs and deletes later, by sheet ID: it never
   deletes a tab that is or was published. *)
JanitorSparesPublishedTabs ==
  [][\A t \in DOMAIN tabs :
       tabs[t].title \in {"published", "recovery"} => tabs'[t].title # "deleted"]_vars

Outcome == [r \in Runs |-> IF run[r].status \in Open THEN "open" ELSE run[r].status]

Publication == INSTANCE ReportPublication
  WITH outcome <- Outcome,
       current <- tabs[dest.sheet].by,
       past <- {tabs[t].by : t \in dest.preds}

(* Run, destination and tabs move as one publication: a run ends once, the
   destination moves to its tab in the step that completes it, whichever of its
   workers commits, and what the destination showed before is a predecessor. *)
PublishesOnce == Publication!Spec

(* However its workers die, stall or are overtaken, a confirmed run ends. *)
EveryRunEnds == <>(\A r \in Runs : run[r].status \notin Open)

(* What reportingDelivery.test.ts:321 promises: a replacement that fails
   preserves the old tab.  A marker read that fails after the rename is caught
   and fails the run, with its tab in the old one's place. *)
FailedReplacementPreservesTheOldTab ==
  \A r \in Runs : run[r].status = "failed" =>
    \A t \in Published : tabs[t].by # r
=============================================================================
