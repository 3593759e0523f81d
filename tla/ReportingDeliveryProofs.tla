------------------------ MODULE ReportingDeliveryProofs ------------------------
(* Theorems about ReportingDelivery, for all runs, workers, page sizes and
   bounds. *)
EXTENDS ReportingDelivery, SequenceTheorems, FiniteSetTheorems, TLAPS

Lineage == {dest.sheet} \cup dest.preds
Ended == {"completed", "failed", "cancelled"}
Promoted == {"promoting", "completed", "failed"}

(* Workers that have bound the delivery's fence to their epoch. *)
Bound(w) == pc[w] \notin {"idle", "bind"}

Preparing == {"manifest", "persist", "artifact", "create", "mark", "record", "begin"}
Writing == {"read", "write", "put", "acknowledge", "page", "checkpoint"}
Promoting == {"promote", "reserve", "adopt", "check", "rename", "confirm", "apply",
              "submit", "commit", "ambiguous", "giveUp", "readopt"}
Recorded == {"begin", "verify"} \cup Writing \cup Promoting
Aimed == Preparing \cup Recorded

Types ==
  /\ run \in [Runs -> RunDocs]
  /\ delivery \in [Runs -> DeliveryDocs]
  /\ manifest \subseteq Runs
  /\ tabs \in Seq(Tabs)
  /\ dest \in [sheet : Nat, preds : SUBSET Nat]
  /\ pc \in [Workers -> Labels] /\ job \in [Workers -> Jobs]
  /\ \A w \in Workers : pc[w] = "idle" <=> job[w].run = None
  /\ janitor \in Runs \cup {None}
  /\ losses \in 0 .. MaxLosses /\ errors \in 0 .. MaxErrors

(* Every claim has an epoch of its own, and a fence is never ahead of the lease
   nor behind a worker that bound it. *)
Epochs ==
  /\ \A r \in Runs : delivery[r].fence <= run[r].epoch
  /\ \A w \in Workers : pc[w] # "idle" =>
       /\ 0 < job[w].epoch /\ job[w].epoch <= run[job[w].run].epoch
       /\ Bound(w) => job[w].epoch <= delivery[job[w].run].fence
  /\ \A v, w \in Workers :
       v # w /\ pc[v] # "idle" /\ job[v].run = job[w].run => job[v].epoch # job[w].epoch

(* The tabs the destination names or named are those of completed runs. *)
LineageOK ==
  /\ dest.sheet \in DOMAIN tabs /\ dest.preds \subseteq DOMAIN tabs
  /\ dest.sheet \notin dest.preds
  /\ \A t \in DOMAIN tabs : tabs[t].by = None => t \in Lineage
  /\ \A t \in Lineage : tabs[t].by # None => run[tabs[t].by].status = "completed"
  /\ \A r \in Runs : run[r].status = "completed" => delivery[r].staging \in Lineage

(* One tab is published, a run has one staging tab, and a tab is renamed away
   or deleted only when it may be. *)
TitlesOK ==
  /\ \E t \in DOMAIN tabs : tabs[t].title = "published"
  /\ \A t, u \in DOMAIN tabs :
       tabs[t].title = "published" /\ tabs[u].title = "published" => t = u
  /\ \A t, u \in DOMAIN tabs :
       tabs[t].title = "staging" /\ tabs[u].title = "staging" /\ tabs[t].by = tabs[u].by
         => t = u
  /\ \A t \in DOMAIN tabs :
       /\ \A i \in tabs[t].rows : i \in Report(tabs[t].by)
       /\ tabs[t].title = "recovery" => t \in Lineage
       /\ tabs[t].title = "deleted" =>
            tabs[t].by # None /\ run[tabs[t].by].status = "cancelled"
       /\ tabs[t].title = "published" =>
            /\ t \notin dest.preds
            /\ \/ t \in Lineage
               \/ /\ run[tabs[t].by].status \in {"promoting", "failed"}
                  /\ t = delivery[tabs[t].by].staging
            /\ tabs[t].by # None => Report(tabs[t].by) \subseteq tabs[t].rows

(* What a delivery records about its tab is true of it. *)
DeliveryOK(r) ==
  LET d == delivery[r]
      s == delivery[r].staging IN
  /\ s # 0 => /\ s \in DOMAIN tabs /\ tabs[s].by = r /\ tabs[s].marked
              /\ d.old \in Lineage
  /\ run[r].status \in {"verifying", "promoting", "completed"} =>
       s # 0 /\ Report(r) \subseteq tabs[s].rows
  /\ d.step # "not_started" => s # 0 /\ run[r].status \in Promoted
  /\ run[r].applied => run[r].status \in Promoted
  /\ run[r].applied /\ run[r].status = "promoting" => tabs[s].title = "published"
  /\ d.cleanup # "not_needed" => run[r].status = "cancelled"
  /\ janitor = r => s # 0 /\ run[r].status = "cancelled"
  /\ d.next \in 1 .. LastRow(r) + 1
  /\ s = 0 => d.next = 1
  /\ s # 0 => \A i \in 1 .. d.next - 1 : i \in tabs[s].rows
  /\ run[r].page <= Pages[r]
  /\ run[r].page > 0 => d.next > run[r].page * PageBatches + 1

DeliveriesOK == \A r \in Runs : DeliveryOK(r)

(* What a worker remembers is still true, whether or not it lost its lease. *)
RemembersRight(w) ==
  LET r == job[w].run
      tab == job[w].tab
      old == job[w].old IN
  /\ pc[w] \in Aimed =>
       /\ old \in Lineage /\ tabs[old].by # r
       /\ run[r].status = "completed" => old \in dest.preds
  /\ tab # 0 => tab \in DOMAIN tabs /\ tabs[tab].by = r
  /\ pc[w] \in {"mark", "record", "enqueue"} => tab # 0
  /\ pc[w] = "record" => tabs[tab].marked
  /\ pc[w] \in Recorded => tab # 0 /\ tab = delivery[r].staging
  /\ pc[w] \in Promoting => run[r].status \in Promoted /\ Report(r) \subseteq tabs[tab].rows
  /\ pc[w] \in {"adopt", "readopt", "apply"} /\ run[r].status = "promoting" =>
       tabs[tab].title = "published"
  /\ pc[w] \in {"cancelled", "enqueue"} => run[r].status = "cancelled"

(* A worker that still has the fence is where the run's status says, and knows
   how far the writing is. *)
InPhase(w) ==
  LET r == job[w].run
      d == delivery[job[w].run] IN
  /\ pc[w] = "bind" /\ Held(w) => run[r].status \in Open
  /\ Bound(w) /\ Fenced(w) =>
    /\ pc[w] = "resolve" => run[r].status \in Open
    /\ pc[w] \in Preparing => run[r].status \in Open \ {"queued"}
    /\ pc[w] \in Writing => run[r].status = "writing"
    /\ pc[w] = "verify" => run[r].status = "verifying"
    /\ pc[w] \in Promoting \cup {"recover"} => run[r].status = "promoting"
    /\ pc[w] = "create" => d.staging = 0
    /\ pc[w] \in {"mark", "record"} => d.staging \in {0, job[w].tab}
    /\ pc[w] \in Writing => job[w].next = d.next /\ job[w].page = run[r].page
    /\ pc[w] = "acknowledge" => job[w].next \in tabs[job[w].tab].rows

InRange(w) ==
  LET r == job[w].run IN
  /\ pc[w] \in Writing => job[w].page <= Pages[r] /\ job[w].next > 0
  /\ pc[w] \in Writing /\ job[w].page > 0 => job[w].next > job[w].page * PageBatches + 1
  /\ pc[w] = "write" => job[w].page < Pages[r] /\ job[w].next <= EndOfPage(w)
  /\ pc[w] \in {"put", "acknowledge"} =>
       \/ job[w].next = 1
       \/ job[w].page < Pages[r] /\ job[w].next <= EndOfPage(w)
  /\ pc[w] \in {"page", "checkpoint"} => job[w].page < Pages[r] /\ job[w].next > EndOfPage(w)

World == LineageOK /\ TitlesOK /\ DeliveriesOK
WorkerOK(w) == RemembersRight(w) /\ InPhase(w) /\ InRange(w)

IInv == Types /\ Epochs /\ World /\ \A w \in Workers : WorkerOK(w)

-----------------------------------------------------------------------------
(* The workbook as a sequence, and the run of a worker. *)

LEMMA Workbook ==
  ASSUME tabs \in Seq(Tabs)
  PROVE  /\ DOMAIN tabs = 1 .. Len(tabs) /\ Len(tabs) \in Nat
         /\ DOMAIN tabs \subseteq Nat \ {0}
         /\ tabs \in [DOMAIN tabs -> Tabs]
  OBVIOUS

LEMMA WorkbookMap ==
  ASSUME tabs \in Seq(Tabs), NEW new \in [DOMAIN tabs -> Tabs]
  PROVE  new \in Seq(Tabs)
<1>1. DOMAIN tabs = 1 .. Len(tabs) /\ Len(tabs) \in Nat
  OBVIOUS
<1> QED BY <1>1, SeqDef

LEMMA WorkersRun ==
  ASSUME Types, NEW w \in Workers, pc[w] # "idle"
  PROVE  job[w].run \in Runs
BY DEF Types, Jobs

-----------------------------------------------------------------------------
(* What an edit of a document changes, field by field. *)

SameStatus(r) == run'[r].status = run[r].status
SameLease(r) == run'[r].epoch = run[r].epoch /\ run'[r].leased = run[r].leased
SamePage(r) == run'[r].page = run[r].page
SameApplied(r) == run'[r].applied = run[r].applied

SameFence(r) == delivery'[r].fence = delivery[r].fence
SameTabs(r) == /\ delivery'[r].staging = delivery[r].staging
               /\ delivery'[r].old = delivery[r].old
SameNext(r) == delivery'[r].next = delivery[r].next
SameStep(r) == delivery'[r].step = delivery[r].step
SameCleanup(r) == delivery'[r].cleanup = delivery[r].cleanup

LEMMA ClaimEdit ==
  ASSUME run \in [Runs -> RunDocs], NEW r \in Runs,
         run' = [run EXCEPT ![r].leased = TRUE, ![r].epoch = @ + 1]
  PROVE  /\ run' \in [Runs -> RunDocs]
         /\ \A q \in Runs : SameStatus(q) /\ SamePage(q) /\ SameApplied(q)
         /\ \A q \in Runs \ {r} : SameLease(q)
         /\ run'[r].leased /\ run'[r].epoch = run[r].epoch + 1
BY DEF RunDocs, SameStatus, SamePage, SameApplied, SameLease

LEMMA CancelEdit ==
  ASSUME run \in [Runs -> RunDocs], NEW r \in Runs,
         run' = [run EXCEPT ![r].cancel = TRUE]
  PROVE  /\ run' \in [Runs -> RunDocs]
         /\ \A q \in Runs :
              SameStatus(q) /\ SamePage(q) /\ SameApplied(q) /\ SameLease(q)
BY DEF RunDocs, SameStatus, SamePage, SameApplied, SameLease

LEMMA StatusEdit ==
  ASSUME run \in [Runs -> RunDocs], NEW r \in Runs, NEW s \in Statuses,
         run' = [run EXCEPT ![r].status = s]
  PROVE  /\ run' \in [Runs -> RunDocs]
         /\ \A q \in Runs : SamePage(q) /\ SameApplied(q) /\ SameLease(q)
         /\ \A q \in Runs \ {r} : SameStatus(q)
         /\ run'[r].status = s
BY DEF RunDocs, SameStatus, SamePage, SameApplied, SameLease

LEMMA PageEdit ==
  ASSUME run \in [Runs -> RunDocs], NEW r \in Runs, NEW n \in Nat,
         run' = [run EXCEPT ![r].page = n]
  PROVE  /\ run' \in [Runs -> RunDocs]
         /\ \A q \in Runs : SameStatus(q) /\ SameApplied(q) /\ SameLease(q)
         /\ \A q \in Runs \ {r} : SamePage(q)
         /\ run'[r].page = n
BY DEF RunDocs, SameStatus, SamePage, SameApplied, SameLease

LEMMA ReservationEdit ==
  ASSUME run \in [Runs -> RunDocs], NEW r \in Runs, NEW n \in Nat, NEW b \in BOOLEAN,
         run' = [run EXCEPT ![r].gen = n, ![r].applied = b]
  PROVE  /\ run' \in [Runs -> RunDocs]
         /\ \A q \in Runs : SameStatus(q) /\ SamePage(q) /\ SameLease(q)
         /\ \A q \in Runs \ {r} : SameApplied(q)
         /\ run'[r].applied = b
BY DEF RunDocs, SameStatus, SamePage, SameApplied, SameLease

LEMMA AppliedEdit ==
  ASSUME run \in [Runs -> RunDocs], NEW r \in Runs,
         run' = [run EXCEPT ![r].applied = TRUE]
  PROVE  /\ run' \in [Runs -> RunDocs]
         /\ \A q \in Runs : SameStatus(q) /\ SamePage(q) /\ SameLease(q)
         /\ \A q \in Runs \ {r} : SameApplied(q)
BY DEF RunDocs, SameStatus, SamePage, SameApplied, SameLease

LEMMA LeaseEdit ==
  ASSUME run \in [Runs -> RunDocs], NEW r \in Runs, NEW b \in BOOLEAN,
         run' = [run EXCEPT ![r].leased = b]
  PROVE  /\ run' \in [Runs -> RunDocs]
         /\ \A q \in Runs : SameStatus(q) /\ SamePage(q) /\ SameApplied(q)
         /\ \A q \in Runs \ {r} : SameLease(q)
         /\ run'[r].epoch = run[r].epoch /\ run'[r].leased = b
BY DEF RunDocs, SameStatus, SamePage, SameApplied, SameLease

LEMMA FenceEdit ==
  ASSUME delivery \in [Runs -> DeliveryDocs], NEW r \in Runs, NEW n \in Nat,
         delivery' = [delivery EXCEPT ![r].fence = n]
  PROVE  /\ delivery' \in [Runs -> DeliveryDocs]
         /\ \A q \in Runs : SameTabs(q) /\ SameNext(q) /\ SameStep(q) /\ SameCleanup(q)
         /\ \A q \in Runs \ {r} : SameFence(q)
         /\ delivery'[r].fence = n
BY DEF DeliveryDocs, SameFence, SameTabs, SameNext, SameStep, SameCleanup

LEMMA OutcomeEdit ==
  ASSUME delivery \in [Runs -> DeliveryDocs], NEW r \in Runs,
         NEW s \in {"pending", "writing", "completed", "failed", "cancelled"},
         delivery' = [delivery EXCEPT ![r].status = s]
  PROVE  /\ delivery' \in [Runs -> DeliveryDocs]
         /\ \A q \in Runs : SameTabs(q) /\ SameNext(q) /\ SameStep(q) /\ SameCleanup(q)
                            /\ SameFence(q)
BY DEF DeliveryDocs, SameFence, SameTabs, SameNext, SameStep, SameCleanup

LEMMA CleanupEdit ==
  ASSUME delivery \in [Runs -> DeliveryDocs], NEW r \in Runs,
         NEW c \in {"pending", "completed"},
         delivery' = [delivery EXCEPT ![r].cleanup = c]
  PROVE  /\ delivery' \in [Runs -> DeliveryDocs]
         /\ \A q \in Runs : SameTabs(q) /\ SameNext(q) /\ SameStep(q) /\ SameFence(q)
         /\ \A q \in Runs \ {r} : SameCleanup(q)
BY DEF DeliveryDocs, SameFence, SameTabs, SameNext, SameStep, SameCleanup

LEMMA ArtifactEdit ==
  ASSUME delivery \in [Runs -> DeliveryDocs], NEW r \in Runs, NEW t \in Nat, NEW o \in Nat,
         delivery' = [delivery EXCEPT ![r].staging = t, ![r].old = o]
  PROVE  /\ delivery' \in [Runs -> DeliveryDocs]
         /\ \A q \in Runs : SameNext(q) /\ SameStep(q) /\ SameFence(q) /\ SameCleanup(q)
         /\ \A q \in Runs \ {r} : SameTabs(q)
         /\ delivery'[r].staging = t /\ delivery'[r].old = o
<1>1. \A q \in Runs : delivery'[q] \in DeliveryDocs
  BY ZenonT(60) DEF DeliveryDocs
<1>2. delivery' \in [Runs -> DeliveryDocs]
  BY <1>1
<1>3. /\ \A q \in Runs : SameNext(q) /\ SameStep(q) /\ SameFence(q) /\ SameCleanup(q)
      /\ \A q \in Runs \ {r} : SameTabs(q)
      /\ delivery'[r].staging = t /\ delivery'[r].old = o
  BY DEF DeliveryDocs, SameFence, SameTabs, SameNext, SameStep, SameCleanup
<1> QED BY <1>2, <1>3

LEMMA NextEdit ==
  ASSUME delivery \in [Runs -> DeliveryDocs], NEW r \in Runs, NEW n \in Nat,
         NEW s \in {"pending", "writing", "completed", "failed", "cancelled"},
         delivery' = [delivery EXCEPT ![r].next = n, ![r].status = s]
  PROVE  /\ delivery' \in [Runs -> DeliveryDocs]
         /\ \A q \in Runs : SameTabs(q) /\ SameStep(q) /\ SameFence(q) /\ SameCleanup(q)
         /\ \A q \in Runs \ {r} : SameNext(q)
         /\ delivery'[r].next = n
<1>1. \A q \in Runs : delivery'[q] \in DeliveryDocs
  BY ZenonT(60) DEF DeliveryDocs
<1>2. delivery' \in [Runs -> DeliveryDocs]
  BY <1>1
<1>3. /\ \A q \in Runs : SameTabs(q) /\ SameStep(q) /\ SameFence(q) /\ SameCleanup(q)
      /\ \A q \in Runs \ {r} : SameNext(q)
      /\ delivery'[r].next = n
  BY DEF DeliveryDocs, SameFence, SameTabs, SameNext, SameStep, SameCleanup
<1> QED BY <1>2, <1>3

LEMMA SumEdit ==
  ASSUME delivery \in [Runs -> DeliveryDocs], NEW r \in Runs,
         delivery' = [delivery EXCEPT ![r].sum = TRUE]
  PROVE  /\ delivery' \in [Runs -> DeliveryDocs]
         /\ \A q \in Runs : SameTabs(q) /\ SameNext(q) /\ SameStep(q) /\ SameCleanup(q)
                            /\ SameFence(q)
<1>1. \A q \in Runs : delivery'[q] \in DeliveryDocs
  BY DEF DeliveryDocs
<1>2. delivery' \in [Runs -> DeliveryDocs]
  BY <1>1
<1>3. /\ \A q \in Runs : SameTabs(q) /\ SameNext(q) /\ SameStep(q) /\ SameCleanup(q)
                   /\ SameFence(q)
  BY DEF DeliveryDocs, SameFence, SameTabs, SameNext, SameStep, SameCleanup
<1> QED BY <1>2, <1>3

LEMMA StepEdit ==
  ASSUME delivery \in [Runs -> DeliveryDocs], NEW r \in Runs,
         NEW s \in {"submitted", "ambiguous"},
         delivery' = [delivery EXCEPT ![r].step = s]
  PROVE  /\ delivery' \in [Runs -> DeliveryDocs]
         /\ \A q \in Runs : SameTabs(q) /\ SameNext(q) /\ SameFence(q) /\ SameCleanup(q)
         /\ \A q \in Runs \ {r} : SameStep(q)
BY DEF DeliveryDocs, SameFence, SameTabs, SameNext, SameStep, SameCleanup

LEMMA CompletionEdit ==
  ASSUME delivery \in [Runs -> DeliveryDocs], NEW r \in Runs,
         delivery' = [delivery EXCEPT ![r].status = "completed", ![r].step = "updated"]
  PROVE  /\ delivery' \in [Runs -> DeliveryDocs]
         /\ \A q \in Runs : SameTabs(q) /\ SameNext(q) /\ SameFence(q) /\ SameCleanup(q)
         /\ \A q \in Runs \ {r} : SameStep(q)
<1>1. \A q \in Runs : delivery'[q] \in DeliveryDocs
  BY DEF DeliveryDocs
<1>2. delivery' \in [Runs -> DeliveryDocs]
  BY <1>1
<1>3. /\ \A q \in Runs : SameTabs(q) /\ SameNext(q) /\ SameFence(q) /\ SameCleanup(q)
      /\ \A q \in Runs \ {r} : SameStep(q)
  BY DEF DeliveryDocs, SameFence, SameTabs, SameNext, SameStep, SameCleanup
<1> QED BY <1>2, <1>3

-----------------------------------------------------------------------------
(* Where a step leaves its worker, and what it remembers. *)

WorkerTypes ==
  /\ pc \in [Workers -> Labels] /\ job \in [Workers -> Jobs]
  /\ \A w \in Workers : pc[w] = "idle" <=> job[w].run = None

OthersStay(w) ==
  \A u \in Workers \ {w} : pc'[u] = pc[u] /\ job'[u] = job[u]

Moved(w, l) ==
  /\ WorkerTypes' /\ OthersStay(w)
  /\ pc'[w] = l /\ job'[w].run = job[w].run /\ job'[w].epoch = job[w].epoch

LEMMA Left ==
  ASSUME WorkerTypes, NEW w \in Workers, Leave(w)
  PROVE  /\ WorkerTypes' /\ OthersStay(w)
         /\ pc'[w] = "idle" /\ job'[w] = NoJob
<1>1. NoJob \in Jobs /\ NoJob.run = None /\ "idle" \in Labels
  BY DEF NoJob, Jobs, Labels
<1> QED BY <1>1 DEF WorkerTypes, OthersStay, Leave, Goto

LEMMA Went ==
  ASSUME WorkerTypes, NEW w \in Workers, pc[w] # "idle",
         NEW l \in Labels \ {"idle"}, Goto(w, l), job' = job
  PROVE  Moved(w, l) /\ job'[w] = job[w]
BY DEF WorkerTypes, OthersStay, Moved, Goto

LEMMA WentWithOld ==
  ASSUME WorkerTypes, NEW w \in Workers, pc[w] # "idle",
         NEW l \in Labels \ {"idle"}, Goto(w, l),
         NEW o \in Nat, job' = [job EXCEPT ![w].old = o]
  PROVE  /\ Moved(w, l)
         /\ job'[w].old = o /\ job'[w].tab = job[w].tab
         /\ job'[w].next = job[w].next /\ job'[w].page = job[w].page
BY DEF WorkerTypes, OthersStay, Moved, Goto, Jobs

LEMMA WentWithTab ==
  ASSUME WorkerTypes, NEW w \in Workers, pc[w] # "idle",
         NEW l \in Labels \ {"idle"}, Goto(w, l),
         NEW t \in Nat, job' = [job EXCEPT ![w].tab = t]
  PROVE  /\ Moved(w, l)
         /\ job'[w].tab = t /\ job'[w].old = job[w].old
         /\ job'[w].next = job[w].next /\ job'[w].page = job[w].page
BY DEF WorkerTypes, OthersStay, Moved, Goto, Jobs

LEMMA WentWithTabs ==
  ASSUME WorkerTypes, NEW w \in Workers, pc[w] # "idle",
         NEW l \in Labels \ {"idle"}, Goto(w, l),
         NEW t \in Nat, NEW o \in Nat,
         job' = [job EXCEPT ![w].tab = t, ![w].old = o]
  PROVE  /\ Moved(w, l)
         /\ job'[w].tab = t /\ job'[w].old = o
         /\ job'[w].next = job[w].next /\ job'[w].page = job[w].page
BY DEF WorkerTypes, OthersStay, Moved, Goto, Jobs

LEMMA WentWithProgress ==
  ASSUME WorkerTypes, NEW w \in Workers, pc[w] # "idle",
         NEW l \in Labels \ {"idle"}, Goto(w, l),
         NEW n \in Nat, NEW p \in Nat, job' = [job EXCEPT ![w].next = n, ![w].page = p]
  PROVE  /\ Moved(w, l)
         /\ job'[w].next = n /\ job'[w].page = p
         /\ job'[w].tab = job[w].tab /\ job'[w].old = job[w].old
BY DEF WorkerTypes, OthersStay, Moved, Goto, Jobs

LEMMA WentWithNext ==
  ASSUME WorkerTypes, NEW w \in Workers, pc[w] # "idle",
         NEW l \in Labels \ {"idle"}, Goto(w, l),
         NEW n \in Nat, job' = [job EXCEPT ![w].next = n]
  PROVE  /\ Moved(w, l)
         /\ job'[w].next = n /\ job'[w].page = job[w].page
         /\ job'[w].tab = job[w].tab /\ job'[w].old = job[w].old
BY DEF WorkerTypes, OthersStay, Moved, Goto, Jobs

LEMMA WentWithPage ==
  ASSUME WorkerTypes, NEW w \in Workers, pc[w] # "idle",
         NEW l \in Labels \ {"idle"}, Goto(w, l),
         NEW p \in Nat, job' = [job EXCEPT ![w].page = p]
  PROVE  /\ Moved(w, l)
         /\ job'[w].page = p /\ job'[w].next = job[w].next
         /\ job'[w].tab = job[w].tab /\ job'[w].old = job[w].old
BY DEF WorkerTypes, OthersStay, Moved, Goto, Jobs

-----------------------------------------------------------------------------
(* What a step leaves true for the workers that did not take it. *)

(* A step of the workers of V: tabs and predecessors are only added to, an
   ended run stays ended, the staging tab is recorded once, and a document's
   progress is moved only by a worker that holds the lease or the fence. *)
Keeps(V) ==
  /\ \A t \in DOMAIN tabs :
       /\ t \in DOMAIN tabs' /\ tabs'[t].by = tabs[t].by
       /\ tabs[t].marked => tabs'[t].marked
       /\ tabs[t].rows \subseteq tabs'[t].rows
  /\ Lineage \subseteq Lineage' /\ dest.preds \subseteq dest'.preds
  /\ \A r \in Runs :
       /\ run[r].status \in Ended => SameStatus(r)
       /\ run[r].status = "promoting" => run'[r].status \in Promoted
       /\ delivery[r].staging # 0 => delivery'[r].staging = delivery[r].staging
       /\ run[r].status = "promoting" /\ run'[r].status = "promoting" =>
            \A t \in DOMAIN tabs : tabs[t].by = r /\ tabs[t].title = "published"
                                     => tabs'[t].title = "published"
       /\ run'[r].status = "completed" => SameStatus(r) \/ Lineage \subseteq dest'.preds
       /\ SameStatus(r) \/ \E v \in V : Bound(v) /\ Held(v) /\ job[v].run = r
       /\ \/ SamePage(r) /\ SameNext(r) /\ delivery'[r].staging = delivery[r].staging
          \/ \E v \in V : Bound(v) /\ Fenced(v) /\ job[v].run = r
       /\ SameFence(r) \/ \E v \in V : /\ pc[v] # "idle" /\ job[v].run = r
                                       /\ delivery'[r].fence = job[v].epoch
       /\ \/ run'[r].epoch = run[r].epoch /\ (run'[r].leased => run[r].leased)
          \/ run'[r].epoch = run[r].epoch + 1

(* The lease holder that bound its fence has the fence, and nobody else has. *)
LEMMA LeaseIsFenced ==
  ASSUME Types, Epochs, NEW w \in Workers, Bound(w), Held(w)
  PROVE  Fenced(w)
<1>1. job[w].run \in Runs /\ pc[w] # "idle"
  BY WorkersRun DEF Bound
<1>2. /\ job[w].epoch <= delivery[job[w].run].fence
      /\ delivery[job[w].run].fence <= run[job[w].run].epoch
      /\ job[w].epoch = run[job[w].run].epoch
  BY <1>1 DEF Epochs, Held
<1>3. job[w].epoch \in Nat /\ delivery[job[w].run].fence \in Nat
  BY <1>1 DEF Types, Jobs, DeliveryDocs
<1> QED BY <1>2, <1>3 DEF Fenced

LEMMA OthersAreStale ==
  ASSUME Epochs, NEW u \in Workers, NEW v \in Workers, u # v, pc[u] # "idle", pc[v] # "idle",
         job[u].run = job[v].run
  PROVE  /\ Fenced(u) => ~Fenced(v)
         /\ Held(u) => ~Held(v)
BY DEF Epochs, Fenced, Held

(* Under such a step, what another worker knows stays true. *)
LEMMA OthersRemember ==
  ASSUME IInv, NEW V \in SUBSET Workers, Keeps(V), NEW u \in Workers \ V,
         pc'[u] = pc[u], job'[u] = job[u]
  PROVE  RemembersRight(u)'
<1> DEFINE r == job[u].run
           tab == job[u].tab
           old == job[u].old
<1>0. RemembersRight(u) /\ (pc[u] # "idle" => r \in Runs)
  BY WorkersRun DEF IInv, WorkerOK
<1>a. Aimed \subseteq Labels \ {"idle"} /\ "idle" \notin Aimed \cup Recorded \cup Promoting
  BY DEF Aimed, Recorded, Preparing, Writing, Promoting, Labels
<1>b. Lineage \subseteq DOMAIN tabs
  BY DEF IInv, World, LineageOK, Lineage
<1>1. pc[u] \in Aimed =>
        /\ old \in Lineage' /\ tabs'[old].by # r
        /\ run'[r].status = "completed" => old \in dest'.preds
  <2> SUFFICES ASSUME pc[u] \in Aimed
               PROVE  /\ old \in Lineage' /\ tabs'[old].by # r
                      /\ run'[r].status = "completed" => old \in dest'.preds
    OBVIOUS
  <2>1. r \in Runs
    BY <1>0, <1>a
  <2>2. old \in Lineage /\ tabs[old].by # r
        /\ (run[r].status = "completed" => old \in dest.preds)
    BY <1>0 DEF RemembersRight
  <2>3. run'[r].status = "completed" => SameStatus(r) \/ Lineage \subseteq dest'.preds
    BY <2>1 DEF Keeps
  <2> QED BY <2>2, <2>3, <1>b DEF Keeps, SameStatus
<1>2. tab # 0 => tab \in DOMAIN tabs' /\ tabs'[tab].by = r
  BY <1>0 DEF RemembersRight, Keeps
<1>3. /\ pc[u] \in {"mark", "record", "enqueue"} => tab # 0
      /\ pc[u] = "record" => tabs'[tab].marked
  BY <1>0 DEF RemembersRight, Keeps
<1>4. pc[u] \in Recorded => tab # 0 /\ tab = delivery'[r].staging
  BY <1>0, <1>a DEF RemembersRight, Keeps
<1>5. pc[u] \in Promoting => run'[r].status \in Promoted /\ Report(r) \subseteq tabs'[tab].rows
  <2> SUFFICES ASSUME pc[u] \in Promoting
               PROVE  run'[r].status \in Promoted /\ Report(r) \subseteq tabs'[tab].rows
    OBVIOUS
  <2>1. r \in Runs /\ pc[u] \in Recorded
    BY <1>0, <1>a DEF Recorded
  <2>2. run[r].status \in Promoted /\ Report(r) \subseteq tabs[tab].rows
        /\ tab \in DOMAIN tabs
    BY <1>0, <2>1 DEF RemembersRight
  <2>3. run'[r].status \in Promoted
    BY <2>1, <2>2 DEF Keeps, Promoted, Ended, SameStatus
  <2> QED BY <2>2, <2>3 DEF Keeps
<1>6. pc[u] \in {"adopt", "readopt", "apply"} /\ run'[r].status = "promoting" =>
        tabs'[tab].title = "published"
  <2> SUFFICES ASSUME pc[u] \in {"adopt", "readopt", "apply"}, run'[r].status = "promoting"
               PROVE  tabs'[tab].title = "published"
    OBVIOUS
  <2>1. r \in Runs /\ pc[u] \in Promoting /\ pc[u] \in Recorded
    BY <1>0 DEF Promoting, Recorded
  <2>2. run[r].status \in Promoted /\ tab \in DOMAIN tabs /\ tabs[tab].by = r
    BY <1>0, <2>1 DEF RemembersRight
  <2>3. run[r].status = "promoting"
    BY <2>1, <2>2 DEF Keeps, Promoted, Ended, SameStatus
  <2>4. tabs[tab].title = "published"
    BY <1>0, <2>3 DEF RemembersRight
  <2> QED BY <2>1, <2>2, <2>3, <2>4 DEF Keeps
<1>7. pc[u] \in {"cancelled", "enqueue"} => run'[r].status = "cancelled"
  BY <1>0 DEF RemembersRight, Keeps, Ended, SameStatus
<1> QED BY <1>1, <1>2, <1>3, <1>4, <1>5, <1>6, <1>7 DEF RemembersRight

LEMMA OthersInPhase ==
  ASSUME IInv, NEW V \in SUBSET Workers, Keeps(V), NEW u \in Workers \ V,
         pc'[u] = pc[u], job'[u] = job[u]
  PROVE  InPhase(u)'
<1> DEFINE r == job[u].run
<1>0. InPhase(u) /\ RemembersRight(u)
  BY DEF IInv, WorkerOK
<1>1. CASE pc[u] = "idle"
  BY <1>1 DEF InPhase, Bound
<1>2. CASE pc[u] # "idle"
  <2>1. r \in Runs
    BY <1>2, WorkersRun DEF IInv
  <2>2. pc[u] = "bind" /\ Held(u)' => run'[r].status \in Open
    <3> SUFFICES ASSUME pc[u] = "bind", Held(u)' PROVE run'[r].status \in Open
      OBVIOUS
    <3>1. Held(u)
      <4>1. job[u].epoch <= run[r].epoch /\ job[u].epoch \in Nat /\ run[r].epoch \in Nat
        BY <1>2, <2>1 DEF IInv, Epochs, Types, Jobs, RunDocs
      <4>2. job[u].epoch = run'[r].epoch /\ run'[r].leased
        BY DEF Held
      <4> QED BY <2>1, <4>1, <4>2 DEF Keeps, Held
    <3>2. SameStatus(r)
      BY <1>2, <2>1, <3>1, OthersAreStale DEF Keeps, Bound, IInv
    <3> QED BY <1>0, <3>1, <3>2 DEF InPhase, SameStatus
  <2>3. ASSUME Bound(u), Fenced(u)'
        PROVE  /\ Fenced(u) /\ SameStatus(r) /\ SamePage(r) /\ SameNext(r)
               /\ delivery'[r].staging = delivery[r].staging
    <3>1. SameFence(r)
      <4>1. ASSUME NEW v \in V, pc[v] # "idle", job[v].run = r, delivery'[r].fence = job[v].epoch
            PROVE  FALSE
        BY <1>2, <2>3, <4>1 DEF Epochs, Fenced, IInv
      <4> QED BY <2>1, <4>1 DEF Keeps
    <3>2. Fenced(u)
      BY <2>3, <3>1 DEF Fenced, SameFence
    <3>3. \A v \in V : Bound(v) /\ job[v].run = r => ~Fenced(v)
      BY <1>2, <3>2, OthersAreStale DEF Bound, IInv
    <3>4. \A v \in V : Bound(v) /\ job[v].run = r => ~Held(v)
      BY <3>3, LeaseIsFenced DEF IInv
    <3> QED BY <2>1, <3>2, <3>3, <3>4 DEF Keeps
  <2>4. pc[u] = "acknowledge" /\ job[u].next \in tabs[job[u].tab].rows
          => job[u].next \in tabs'[job[u].tab].rows
    <3>1. pc[u] = "acknowledge" => job[u].tab \in DOMAIN tabs
      BY <1>0 DEF RemembersRight, Recorded, Writing
    <3> QED BY <3>1 DEF Keeps
  <2>5. ASSUME Bound(u)', Fenced(u)'
        PROVE  /\ Fenced(u) /\ SameStatus(r) /\ SamePage(r) /\ SameNext(r)
               /\ delivery'[r].staging = delivery[r].staging
    BY <2>3, <2>5 DEF Bound
  <2>6. Bound(u)' <=> Bound(u)
    BY DEF Bound
  <2> QED BY <1>0, <2>2, <2>4, <2>5, <2>6
          DEF InPhase, SameStatus, SamePage, SameNext
<1> QED BY <1>1, <1>2

LEMMA OthersKeep ==
  ASSUME IInv, NEW V \in SUBSET Workers, Keeps(V), NEW u \in Workers \ V,
         pc'[u] = pc[u], job'[u] = job[u]
  PROVE  WorkerOK(u)'
<1>1. InRange(u)'
  BY DEF IInv, WorkerOK, InRange, EndOfPage
<1> QED BY <1>1, OthersRemember, OthersInPhase DEF WorkerOK

-----------------------------------------------------------------------------
(* What has to be shown of a step of worker w. *)

Sound(w) ==
  Types' /\ OthersStay(w) /\ Epochs' /\ Keeps({w}) /\ World' /\ WorkerOK(w)'

LEMMA SoundStep ==
  ASSUME IInv, NEW w \in Workers, Sound(w)
  PROVE  IInv'
<1>1. ASSUME NEW u \in Workers PROVE WorkerOK(u)'
  <2>1. CASE u = w
    BY <2>1 DEF Sound
  <2>2. CASE u # w
    BY <2>2, OthersKeep DEF Sound, OthersStay
  <2> QED BY <2>1, <2>2
<1> QED BY <1>1 DEF IInv, Sound

(* A worker that does not claim or bind leaves the epochs alone. *)
LEMMA EpochsStay ==
  ASSUME Types, Epochs, NEW w \in Workers, OthersStay(w),
         \/ pc'[w] = "idle" /\ job'[w] = NoJob
         \/ Moved(w, pc'[w]) /\ Bound(w),
         \A r \in Runs : SameFence(r) /\ run'[r].epoch = run[r].epoch
  PROVE  Epochs'
<1>1. \A r \in Runs : delivery'[r].fence <= run'[r].epoch
  BY DEF Epochs, SameFence
<1>2. ASSUME NEW u \in Workers, pc'[u] # "idle"
      PROVE  /\ pc[u] # "idle" /\ job'[u].run = job[u].run /\ job'[u].epoch = job[u].epoch
             /\ job[u].run \in Runs /\ (Bound(u)' => Bound(u))
  <2>1. /\ pc[u] # "idle" /\ job'[u].run = job[u].run /\ job'[u].epoch = job[u].epoch
        /\ (Bound(u)' => Bound(u))
    BY <1>2 DEF OthersStay, Moved, Bound
  <2> QED BY <2>1, WorkersRun
<1>3. ASSUME NEW u \in Workers, pc'[u] # "idle"
      PROVE  /\ 0 < job'[u].epoch /\ job'[u].epoch <= run'[job'[u].run].epoch
             /\ Bound(u)' => job'[u].epoch <= delivery'[job'[u].run].fence
  BY <1>2, <1>3 DEF Epochs, SameFence
<1>4. ASSUME NEW u \in Workers, NEW v \in Workers,
             v # u, pc'[v] # "idle", job'[v].run = job'[u].run
      PROVE  job'[v].epoch # job'[u].epoch
  <2>1. pc'[u] # "idle"
    <3>1. job'[v].run \in Runs
      BY <1>2, <1>4
    <3>2. pc'[u] = "idle" => job'[u].run = None
      <4>1. CASE u = w
        BY <4>1 DEF Moved, WorkerTypes, NoJob
      <4>2. CASE u # w
        BY <4>2 DEF Types, OthersStay
      <4> QED BY <4>1, <4>2
    <3> QED BY <1>4, <3>1, <3>2, ReportingAssumption
  <2> QED BY <1>2, <1>4, <2>1 DEF Epochs
<1> QED BY <1>1, <1>3, <1>4 DEF Epochs

(* A step that moves nothing the documents' part of the invariant speaks of. *)
Unmoved ==
  /\ dest' = dest /\ tabs' = tabs
  /\ janitor' = janitor
  /\ \A r \in Runs :
       /\ SameStatus(r) /\ SamePage(r) /\ SameApplied(r)
       /\ SameTabs(r) /\ SameNext(r) /\ SameStep(r) /\ SameCleanup(r)

(* Nor a lease or a fence, but that a lease may end. *)
Calm ==
  /\ Unmoved
  /\ \A r \in Runs : /\ run'[r].epoch = run[r].epoch /\ (run'[r].leased => run[r].leased)
                     /\ SameFence(r)

LEMMA UnmovedKeeps ==
  ASSUME Types, Unmoved, NEW V,
         \A r \in Runs :
           /\ SameFence(r) \/ \E v \in V : /\ pc[v] # "idle" /\ job[v].run = r
                                           /\ delivery'[r].fence = job[v].epoch
           /\ \/ run'[r].epoch = run[r].epoch /\ (run'[r].leased => run[r].leased)
              \/ run'[r].epoch = run[r].epoch + 1
  PROVE  Keeps(V)
<1>1. Lineage' = Lineage
  BY DEF Unmoved, Lineage
<1>2. \A r \in Runs : run[r].status = "promoting" => run'[r].status \in Promoted
  BY DEF Unmoved, SameStatus, Promoted
<1> QED BY <1>1, <1>2 DEF Keeps, Unmoved, SameTabs

LEMMA CalmKeeps ==
  ASSUME Types, Calm, NEW V
  PROVE  Keeps(V)
BY UnmovedKeeps DEF Calm

LEMMA UnmovedWorld ==
  ASSUME Types, World, Unmoved
  PROVE  World'
<1>0. Lineage' = Lineage
  BY DEF Unmoved, Lineage
<1>1. \A t \in DOMAIN tabs : tabs[t].by # None => tabs[t].by \in Runs
  BY Workbook DEF Types, Tabs
<1>2. LineageOK'
  BY <1>0, <1>1 DEF World, LineageOK, Unmoved, SameStatus, SameTabs, Lineage
<1>3. TitlesOK'
  <2>1. \A t \in DOMAIN tabs : tabs[t].by # None =>
          /\ run'[tabs[t].by].status = run[tabs[t].by].status
          /\ delivery'[tabs[t].by].staging = delivery[tabs[t].by].staging
    BY <1>1 DEF Unmoved, SameStatus, SameTabs
  <2>2. \A t \in DOMAIN tabs : tabs[t].by = None => t \in Lineage
    BY DEF World, LineageOK
  <2> QED BY <1>0, <2>1, <2>2 DEF World, TitlesOK, Unmoved
<1>4. DeliveriesOK'
  BY <1>0 DEF World, DeliveriesOK, DeliveryOK, Unmoved, SameStatus, SamePage, SameApplied, SameTabs,
              SameNext, SameStep, SameCleanup
<1> QED BY <1>2, <1>3, <1>4 DEF World

(* So only the worker itself is left to look at. *)
LEMMA CalmStep ==
  ASSUME IInv, Types', Calm, NEW w \in Workers, OthersStay(w),
         \/ pc'[w] = "idle" /\ job'[w] = NoJob
         \/ Moved(w, pc'[w]) /\ Bound(w) /\ WorkerOK(w)'
  PROVE  Sound(w)
<1>1. Epochs'
  BY EpochsStay DEF IInv, Calm, Unmoved
<1>2. Keeps({w}) /\ World'
  BY CalmKeeps, UnmovedWorld DEF IInv, Calm
<1>3. pc'[w] = "idle" /\ job'[w] = NoJob => WorkerOK(w)'
  BY DEF WorkerOK, RemembersRight, InPhase, InRange, NoJob, Bound, Held,
         Aimed, Preparing, Recorded, Writing, Promoting
<1> QED BY <1>1, <1>2, <1>3 DEF Sound

(* The worker ends its run, or moves it to the next status. *)
Advances(w, s) ==
  LET r == job[w].run IN
  /\ Bound(w) /\ Held(w)
  /\ dest' = dest /\ tabs' = tabs /\ janitor' = janitor /\ delivery' = delivery
  /\ run' = [run EXCEPT ![r].status = s]
  /\ \/ s = "failed" /\ run[r].status \in Open
     \/ s = "cancelled" /\ run[r].status \in Cancellable
     \/ s = run[r].status
     \/ s = "querying" /\ run[r].status = "queued"
     \/ s = "writing" /\ run[r].status = "querying"
     \/ /\ s = "verifying" /\ run[r].status = "writing"
        /\ delivery[r].staging # 0
        /\ Report(r) \subseteq tabs[delivery[r].staging].rows
     \/ s = "promoting" /\ run[r].status = "verifying"

LEMMA AdvanceEffect ==
  ASSUME Types, NEW w \in Workers, NEW s, Advances(w, s)
  PROVE  /\ job[w].run \in Runs /\ s \in Statuses
         /\ run' \in [Runs -> RunDocs]
         /\ \A q \in Runs : SamePage(q) /\ SameApplied(q) /\ SameLease(q)
         /\ \A q \in Runs \ {job[w].run} : SameStatus(q)
         /\ run'[job[w].run].status = s
<1>1. job[w].run \in Runs
  BY WorkersRun DEF Advances, Bound
<1>2. s \in Statuses
  BY <1>1 DEF Advances, Statuses, Open, Cancellable, Types, RunDocs
<1> QED BY <1>1, <1>2, StatusEdit DEF Advances, Types

LEMMA AdvanceKeeps ==
  ASSUME Types, NEW w \in Workers, NEW s, Advances(w, s)
  PROVE  Keeps({w})
<1> DEFINE r == job[w].run
<1>1. /\ r \in Runs
      /\ \A q \in Runs : SamePage(q) /\ SameApplied(q) /\ SameLease(q)
      /\ \A q \in Runs \ {r} : SameStatus(q)
      /\ run'[r].status = s
  BY AdvanceEffect
<1>2. Lineage' = Lineage
  BY DEF Advances, Lineage
<1>3. /\ run[r].status \in Ended => s = run[r].status
      /\ run[r].status = "promoting" => s \in Promoted
      /\ s = "completed" => s = run[r].status
  BY DEF Advances, Ended, Open, Cancellable, Promoted
<1>4. ASSUME NEW q \in Runs
      PROVE  /\ run[q].status \in Ended => SameStatus(q)
             /\ run[q].status = "promoting" => run'[q].status \in Promoted
             /\ run'[q].status = "completed" => SameStatus(q)
  BY <1>1, <1>3 DEF SameStatus, Promoted
<1>5. Bound(w) /\ Held(w) /\ dest' = dest /\ tabs' = tabs /\ delivery' = delivery
  BY DEF Advances
<1> QED BY <1>1, <1>2, <1>4, <1>5 DEF Keeps, SameLease, SameFence, SameNext

LEMMA AdvanceWorld ==
  ASSUME IInv, NEW w \in Workers, NEW s, Advances(w, s)
  PROVE  World'
<1> DEFINE r == job[w].run
<1>1. /\ r \in Runs
      /\ \A q \in Runs : SamePage(q) /\ SameApplied(q) /\ SameLease(q)
      /\ \A q \in Runs \ {r} : SameStatus(q)
      /\ run'[r].status = s
  BY AdvanceEffect DEF IInv
<1>2. Lineage' = Lineage /\ dest' = dest /\ tabs' = tabs /\ delivery' = delivery
      /\ janitor' = janitor
  BY DEF Advances, Lineage
<1>3. LineageOK /\ TitlesOK /\ DeliveriesOK
  BY DEF IInv, World
<1>4. \A t \in DOMAIN tabs : tabs[t].by # None => tabs[t].by \in Runs
  BY Workbook DEF Types, Tabs, IInv
<1>5. /\ run[r].status \in Ended => s = run[r].status
      /\ run[r].status \in {"promoting", "failed"} => s \in {"promoting", "failed"}
      /\ run[r].status \in Promoted => s \in Promoted
      /\ s = "completed" => s = run[r].status
      /\ s = "promoting" => run[r].status \in {"verifying", "promoting"}
      /\ s = "verifying" =>
           \/ run[r].status = "verifying"
           \/ /\ delivery[r].staging # 0
              /\ Report(r) \subseteq tabs[delivery[r].staging].rows
  BY DEF Advances, Ended, Open, Cancellable, Promoted
<1>6. ASSUME NEW q \in Runs
      PROVE  /\ run[q].status \in Ended => run'[q].status = run[q].status
             /\ run[q].status \in {"promoting", "failed"}
                  => run'[q].status \in {"promoting", "failed"}
             /\ run[q].status \in Promoted => run'[q].status \in Promoted
             /\ run'[q].status = "completed" => run[q].status = "completed"
             /\ run'[q].status = "promoting" => run[q].status \in {"verifying", "promoting"}
             /\ run'[q].status = "verifying" =>
                  \/ run[q].status = "verifying"
                  \/ /\ delivery[q].staging # 0
                     /\ Report(q) \subseteq tabs[delivery[q].staging].rows
  BY <1>1, <1>5 DEF SameStatus
<1>7. LineageOK'
  <2>1. Lineage \subseteq DOMAIN tabs
    BY <1>3 DEF LineageOK, Lineage
  <2> QED BY <1>2, <1>3, <1>4, <1>6, <2>1 DEF LineageOK, Ended
<1>8. TitlesOK'
  <2>1. \A t \in DOMAIN tabs : tabs[t].by = None => t \in Lineage
    BY <1>3 DEF LineageOK
  <2> QED BY <1>2, <1>3, <1>4, <1>6, <2>1 DEF TitlesOK, Ended
<1>9. DeliveriesOK'
  <2> SUFFICES ASSUME NEW q \in Runs PROVE DeliveryOK(q)'
    BY DEF DeliveriesOK
  <2>0. DeliveryOK(q)
    BY <1>3 DEF DeliveriesOK
  <2>1. run'[q].applied = run[q].applied /\ run'[q].page = run[q].page
    BY <1>1 DEF SameApplied, SamePage
  <2>2. run[q].applied /\ run'[q].status = "promoting" => run[q].status = "promoting"
    BY <1>6, <2>0 DEF DeliveryOK, Promoted
  <2>3. /\ run'[q].status \in {"verifying", "promoting", "completed"} =>
             /\ delivery[q].staging # 0
             /\ Report(q) \subseteq tabs[delivery[q].staging].rows
        /\ run'[q].applied => run'[q].status \in Promoted
        /\ run'[q].applied /\ run'[q].status = "promoting"
             => tabs[delivery[q].staging].title = "published"
    BY <1>6, <2>0, <2>1, <2>2 DEF DeliveryOK
  <2>4. /\ run[q].status = "cancelled" => run'[q].status = "cancelled"
        /\ run[q].status \in Promoted => run'[q].status \in Promoted
    BY <1>6 DEF Ended
  <2> QED BY <1>2, <2>0, <2>1, <2>3, <2>4 DEF DeliveryOK
<1> QED BY <1>7, <1>8, <1>9 DEF World

LEMMA AdvanceStep ==
  ASSUME IInv, Types', NEW w \in Workers, NEW s, Advances(w, s), OthersStay(w),
         \/ pc'[w] = "idle" /\ job'[w] = NoJob
         \/ Moved(w, pc'[w]),
         WorkerOK(w)'
  PROVE  Sound(w)
<1>1. Bound(w) /\ \A r \in Runs : SameFence(r) /\ run'[r].epoch = run[r].epoch
  BY AdvanceEffect DEF IInv, Advances, SameFence, SameLease
<1>2. Epochs'
  BY <1>1, EpochsStay DEF IInv
<1> QED BY <1>2, AdvanceKeeps, AdvanceWorld DEF Sound, IInv

(* What is known of a worker at work. *)
LEMMA Standing ==
  ASSUME IInv, NEW w \in Workers, Bound(w)
  PROVE  /\ WorkerTypes /\ pc[w] # "idle"
         /\ job[w].run \in Runs
         /\ job[w].epoch \in Nat /\ job[w].tab \in Nat /\ job[w].old \in Nat
         /\ job[w].next \in Nat /\ job[w].page \in Nat
         /\ RemembersRight(w) /\ InPhase(w) /\ InRange(w)
         /\ Held(w) => Fenced(w)
         /\ DeliveryOK(job[w].run)
<1>1. Types /\ Epochs /\ pc[w] # "idle" /\ job[w].run \in Runs
  BY WorkersRun DEF IInv, Bound
<1>2. WorkerTypes
  BY <1>1 DEF Types, WorkerTypes
<1>3. /\ job[w].epoch \in Nat /\ job[w].tab \in Nat /\ job[w].old \in Nat
      /\ job[w].next \in Nat /\ job[w].page \in Nat
  BY <1>1 DEF Types, Jobs
<1>4. Held(w) => Fenced(w)
  BY <1>1, LeaseIsFenced
<1> QED BY <1>1, <1>2, <1>3, <1>4 DEF IInv, WorkerOK, World, DeliveriesOK

(* Steps that leave run, delivery, tabs and destination alone. *)
Still == /\ run' = run /\ delivery' = delivery /\ dest' = dest /\ tabs' = tabs
         /\ janitor' = janitor

Rest == manifest' \subseteq Runs /\ losses' \in 0 .. MaxLosses /\ errors' \in 0 .. MaxErrors

LEMMA StillStep ==
  ASSUME IInv, NEW w \in Workers, Still, Rest,
         \/ WorkerTypes' /\ OthersStay(w) /\ pc'[w] = "idle" /\ job'[w] = NoJob
         \/ Moved(w, pc'[w]) /\ Bound(w) /\ WorkerOK(w)'
  PROVE  Sound(w)
<1>1. Types'
  BY DEF IInv, Types, Still, Rest, Moved, WorkerTypes
<1>2. Calm
  BY DEF Still, Calm, Unmoved, SameStatus, SamePage, SameApplied, SameTabs, SameNext, SameStep,
         SameCleanup, SameFence
<1>3. OthersStay(w)
  BY DEF Moved
<1> QED BY <1>1, <1>2, <1>3, CalmStep

LEMMA RestIsTyped ==
  ASSUME IInv, manifest' = manifest, UNCHANGED faults \/ Loss \/ Error
  PROVE  Rest
BY ReportingAssumption DEF IInv, Types, Rest, faults, Loss, Error

(* Steps of a worker that only moves on. *)
LEMMA Walk ==
  ASSUME IInv, NEW w \in Workers, NEW l, Still, Rest, Goto(w, l), job' = job,
         \/ pc[w] = "manifest" /\ l \in {"artifact", "persist"}
         \/ pc[w] = "persist" /\ l = "artifact"
         \/ /\ pc[w] = "artifact" /\ l = "create"
            /\ Fenced(w) => delivery[job[w].run].staging = 0
         \/ pc[w] = "read" /\ l = "put" /\ job[w].next = 1
         \/ /\ pc[w] = "read" /\ job[w].page < Pages[job[w].run]
            /\ \/ l = "page" /\ job[w].next > EndOfPage(w)
               \/ l = "write" /\ job[w].next <= EndOfPage(w)
         \/ pc[w] = "write" /\ l = "put"
         \/ /\ pc[w] \in {"promote", "check", "rename", "confirm"}
            /\ \/ l \in {"reserve", "rename", "confirm", "ambiguous"}
               \/ l \in {"adopt", "apply"} /\ tabs[job[w].tab].title = "published"
         \/ pc[w] = "ambiguous" /\ l = "giveUp"
  PROVE  Sound(w)
<1>1. /\ Bound(w)
      /\ l \in {"artifact", "persist", "create", "put", "page", "write", "reserve",
                "rename", "confirm", "ambiguous", "adopt", "apply", "giveUp"}
  BY DEF Bound
<1>2. Moved(w, l) /\ job'[w] = job[w]
  BY <1>1, Standing, Went DEF Labels
<1>3. RemembersRight(w)'
  BY <1>1, <1>2, Standing
  DEF RemembersRight, Moved, Still, Aimed, Preparing, Recorded, Writing, Promoting, Lineage
<1>4. InPhase(w)'
  BY <1>1, <1>2, Standing
  DEF InPhase, Moved, Still, Preparing, Writing, Promoting, Bound, Fenced
<1>5. InRange(w)'
  BY <1>1, <1>2, Standing DEF InRange, Moved, Still, Writing, EndOfPage
<1> QED BY <1>1, <1>2, <1>3, <1>4, <1>5, StillStep DEF Moved, WorkerOK

LEMMA Return ==
  ASSUME IInv, NEW w \in Workers, Bound(w), Calm, Rest, Leave(w),
         run' \in [Runs -> RunDocs], delivery' \in [Runs -> DeliveryDocs]
  PROVE  Sound(w)
<1>1. /\ WorkerTypes' /\ OthersStay(w)
      /\ pc'[w] = "idle" /\ job'[w] = NoJob
  BY Standing, Left
<1>2. Types'
  BY <1>1 DEF IInv, Types, Calm, Unmoved, Rest, WorkerTypes
<1> QED BY <1>1, <1>2, CalmStep

(* A failed run leaves its worker nothing to be right about. *)
LEMMA FailedIsFine ==
  ASSUME IInv, NEW w \in Workers, Bound(w), tabs' = tabs,
         pc'[w] = "failed", job'[w] = job[w]
  PROVE  WorkerOK(w)'
<1>1. RemembersRight(w)'
  BY Standing DEF RemembersRight, Aimed, Preparing, Recorded, Writing, Promoting
<1>2. InPhase(w)' /\ InRange(w)'
  BY DEF InPhase, InRange, Preparing, Writing, Promoting
<1> QED BY <1>1, <1>2 DEF WorkerOK

LEMMA Failure ==
  ASSUME IInv, NEW w \in Workers, Bound(w), Held(w), run[job[w].run].status \in Open,
         run' = [run EXCEPT ![job[w].run].status = "failed"],
         Goto(w, "failed"), job' = job, Rest,
         delivery' = delivery, dest' = dest, tabs' = tabs, janitor' = janitor
  PROVE  Sound(w)
<1>1. Advances(w, "failed")
  BY DEF Advances
<1>2. Moved(w, "failed") /\ job'[w] = job[w]
  BY Standing, Went DEF Labels
<1>3. run' \in [Runs -> RunDocs]
  BY <1>1, AdvanceEffect DEF IInv
<1>4. Types'
  BY <1>2, <1>3 DEF IInv, Types, Rest, Moved, WorkerTypes
<1>5. WorkerOK(w)' /\ OthersStay(w) /\ pc'[w] = "failed"
  BY <1>2, FailedIsFine DEF Moved
<1> QED BY <1>1, <1>2, <1>4, <1>5, AdvanceStep

LEMMA Thrown ==
  ASSUME IInv, NEW w \in Workers, Bound(w), Throw(w), Rest,
         delivery' = delivery, dest' = dest, tabs' = tabs, janitor' = janitor
  PROVE  Sound(w)
<1> DEFINE r == job[w].run
<1>0. r \in Runs /\ run \in [Runs -> RunDocs] /\ delivery \in [Runs -> DeliveryDocs]
  BY Standing DEF IInv, Types
<1>1. CASE run[r].status \notin Open
  <2>1. Leave(w) /\ run' = run
    BY <1>1 DEF Throw
  <2>2. Calm
    BY <2>1 DEF Calm, Unmoved, SameStatus, SamePage, SameApplied, SameTabs, SameNext, SameStep,
                SameCleanup, SameFence
  <2> QED BY <1>0, <2>1, <2>2, Return
<1>2. CASE run[r].status \in Open /\ Held(w)
  <2>1. run' = [run EXCEPT ![r].status = "failed"] /\ Goto(w, "failed") /\ job' = job
    BY <1>2 DEF Throw
  <2> QED BY <1>2, <2>1, Failure
<1>3. CASE run[r].status \in Open /\ ~Held(w)
  <2>1. run' = [run EXCEPT ![r].status = run[r].status] /\ Goto(w, "failed") /\ job' = job
    BY <1>3 DEF Throw
  <2>2. run[r].status \in Statuses
    BY <1>0 DEF RunDocs
  <2>3. /\ run' \in [Runs -> RunDocs]
        /\ \A q \in Runs : SamePage(q) /\ SameApplied(q) /\ SameLease(q) /\ SameStatus(q)
    BY <1>0, <2>1, <2>2, StatusEdit DEF SameStatus
  <2>4. Calm
    BY <2>3 DEF Calm, Unmoved, SameTabs, SameNext, SameStep, SameCleanup, SameFence, SameLease
  <2>5. Moved(w, "failed") /\ job'[w] = job[w]
    BY <2>1, Standing, Went DEF Labels
  <2>6. Types'
    BY <2>3, <2>5 DEF IInv, Types, Rest, Moved, WorkerTypes
  <2>7. WorkerOK(w)' /\ OthersStay(w) /\ pc'[w] = "failed"
    BY <2>5, FailedIsFine DEF Moved
  <2> QED BY <2>4, <2>5, <2>6, <2>7, CalmStep
<1> QED BY <1>1, <1>2, <1>3

-----------------------------------------------------------------------------
(* The steps, one by one: those that only move on, or give up. *)

LEMMA WalkingSteps ==
  ASSUME IInv, NEW w \in Workers,
         \/ LoadManifest(w) \/ PersistManifest(w) \/ WriteHeader(w) \/ ReadPage(w)
         \/ NextBatch(w) \/ Inspect(w) \/ Check(w) \/ Confirm(w)
         \/ CaughtFailure(w) \/ SourceChanged(w)
  PROVE  Sound(w)
<1> USE DEF Still, runVars, Bound
<1>1. CASE LoadManifest(w)
  BY <1>1, Walk, RestIsTyped DEF LoadManifest
<1>2. CASE PersistManifest(w)
  <2>1. pc[w] = "persist" /\ job[w].run \in Runs
    BY <1>2, Standing DEF PersistManifest
  <2>2. Rest
    BY <1>2, <2>1 DEF PersistManifest, Rest, IInv, Types, faults
  <2>3. CASE job[w].run \in manifest
    BY <1>2, <2>1, <2>2, <2>3, Thrown DEF PersistManifest
  <2>4. CASE job[w].run \notin manifest
    BY <1>2, <2>1, <2>2, <2>4, Walk DEF PersistManifest
  <2> QED BY <2>3, <2>4
<1>3. CASE WriteHeader(w)
  BY <1>3, Walk, RestIsTyped DEF WriteHeader
<1>4. CASE ReadPage(w)
  <2>1. job[w].next \in Nat /\ EndOfPage(w) \in Nat
    BY <1>4, Standing, ReportingAssumption DEF ReadPage, EndOfPage
  <2>2. /\ pc[w] = "read" /\ job[w].page < Pages[job[w].run]
        /\ job' = job /\ Still /\ Rest
        /\ Goto(w, IF job[w].next > EndOfPage(w) THEN "page" ELSE "write")
    BY <1>4, RestIsTyped DEF ReadPage
  <2>3. CASE job[w].next > EndOfPage(w)
    BY <2>2, <2>3, Walk
  <2>4. CASE ~(job[w].next > EndOfPage(w))
    <3>1. job[w].next <= EndOfPage(w)
      BY <2>1, <2>4
    <3> QED BY <2>2, <2>4, <3>1, Walk
  <2> QED BY <2>3, <2>4
<1>5. CASE NextBatch(w)
  BY <1>5, Walk, RestIsTyped DEF NextBatch
<1>6. CASE Inspect(w)
  BY <1>6, Walk, RestIsTyped DEF Inspect, AlreadyPromoted
<1>7. CASE Check(w)
  BY <1>7, Walk, RestIsTyped DEF Check
<1>8. CASE Confirm(w)
  BY <1>8, Walk, RestIsTyped DEF Confirm, AlreadyPromoted
<1>9. CASE CaughtFailure(w)
  BY <1>9, Walk, RestIsTyped DEF CaughtFailure
<1>10. CASE SourceChanged(w)
  BY <1>10, Thrown, RestIsTyped DEF SourceChanged
<1> QED BY <1>1, <1>2, <1>3, <1>4, <1>5, <1>6, <1>7, <1>8, <1>9, <1>10

-----------------------------------------------------------------------------
(* The steps that end, fail or cancel a run, or lose its lease. *)

LEMMA FailingSteps ==
  ASSUME IInv, NEW w \in Workers, Refuse(w) \/ GiveUp(w) \/ CaughtInRecovery(w)
  PROVE  Sound(w)
<1>1. /\ pc[w] \in {"resolve", "giveUp", "recover"} /\ Held(w) /\ FailRun(w) /\ job' = job
      /\ Rest /\ delivery' = delivery /\ dest' = dest /\ tabs' = tabs /\ janitor' = janitor
  BY RestIsTyped DEF Refuse, GiveUp, CaughtInRecovery
<1>2. Bound(w) /\ Fenced(w) /\ InPhase(w)
  BY <1>1, Standing DEF Bound
<1>3. run[job[w].run].status \in Open
  BY <1>1, <1>2 DEF InPhase, Promoting, Open, Cancellable
<1> QED BY <1>1, <1>2, <1>3, Failure DEF FailRun

LEMMA CancelStep ==
  ASSUME IInv, NEW w \in Workers, Cancel(w)
  PROVE  Sound(w)
<1>1. /\ pc[w] \in {"resolve", "manifest", "begin", "read"} /\ Bound(w)
      /\ Held(w) /\ run[job[w].run].status \in Cancellable
      /\ run' = [run EXCEPT ![job[w].run].status = "cancelled"]
      /\ Goto(w, "cancelled") /\ job' = job
      /\ delivery' = delivery /\ dest' = dest /\ tabs' = tabs /\ janitor' = janitor
      /\ Rest
  BY RestIsTyped DEF Cancel, AtSafePoint, CancelDue, Bound
<1>2. Advances(w, "cancelled")
  BY <1>1 DEF Advances
<1>3. Moved(w, "cancelled") /\ job'[w] = job[w]
  BY <1>1, Standing, Went DEF Labels
<1>4. run' \in [Runs -> RunDocs] /\ run'[job[w].run].status = "cancelled"
  BY <1>2, AdvanceEffect DEF IInv
<1>5. Types'
  BY <1>1, <1>3, <1>4 DEF IInv, Types, Rest, Moved, WorkerTypes
<1>6. WorkerOK(w)'
  <2>1. RemembersRight(w)'
    BY <1>1, <1>3, <1>4, Standing
    DEF Moved, RemembersRight, Aimed, Preparing, Recorded, Writing, Promoting
  <2>2. InPhase(w)' /\ InRange(w)'
    BY <1>3 DEF Moved, InPhase, InRange, Preparing, Writing, Promoting
  <2> QED BY <2>1, <2>2 DEF WorkerOK
<1> QED BY <1>2, <1>3, <1>5, <1>6, AdvanceStep DEF Moved

LEMMA CancelDeliveryStep ==
  ASSUME IInv, NEW w \in Workers, CancelDelivery(w)
  PROVE  Sound(w)
<1> DEFINE r == job[w].run
           s == IF Fenced(w) THEN "cancelled" ELSE delivery[r].status
<1>1. pc[w] = "cancelled" /\ Bound(w) /\ r \in Runs
  BY Standing DEF CancelDelivery, Bound
<1>2. /\ run' = run /\ dest' = dest /\ tabs' = tabs /\ janitor' = janitor /\ Rest
      /\ delivery' = [delivery EXCEPT ![r].status = s]
  BY RestIsTyped DEF CancelDelivery
<1>3. s \in {"pending", "writing", "completed", "failed", "cancelled"}
  BY <1>1 DEF IInv, Types, DeliveryDocs
<1>4. /\ delivery' \in [Runs -> DeliveryDocs]
      /\ \A q \in Runs : SameTabs(q) /\ SameNext(q) /\ SameStep(q) /\ SameCleanup(q)
                         /\ SameFence(q)
  <2> HIDE DEF s
  <2> QED BY <1>1, <1>2, <1>3, OutcomeEdit DEF IInv, Types
<1>5. Calm /\ run' \in [Runs -> RunDocs]
  BY <1>2, <1>4 DEF Calm, Unmoved, SameStatus, SamePage, SameApplied, IInv, Types
<1>6. CASE job[w].tab = 0
  BY <1>1, <1>2, <1>4, <1>5, <1>6, Return DEF CancelDelivery
<1>7. CASE job[w].tab # 0
  <2>1. Moved(w, "enqueue") /\ job'[w] = job[w]
    BY <1>1, <1>7, Standing, Went DEF CancelDelivery, Labels
  <2>2. Types'
    BY <1>2, <1>4, <1>5, <2>1 DEF IInv, Types, Rest, Moved, WorkerTypes
  <2>3. RemembersRight(w)'
    BY <1>1, <1>2, <1>7, <2>1, Standing
    DEF Moved, RemembersRight, Aimed, Preparing, Recorded, Writing, Promoting
  <2>4. InPhase(w)' /\ InRange(w)'
    BY <2>1 DEF Moved, InPhase, InRange, Preparing, Writing, Promoting
  <2> QED BY <1>1, <1>5, <2>1, <2>2, <2>3, <2>4, CalmStep DEF Moved, WorkerOK
<1> QED BY <1>6, <1>7

LEMMA FailDeliveryStep ==
  ASSUME IInv, NEW w \in Workers, FailDelivery(w)
  PROVE  Sound(w)
<1> DEFINE r == job[w].run
           s == IF Fenced(w) THEN "failed" ELSE delivery[r].status
<1>1. pc[w] = "failed" /\ Bound(w) /\ r \in Runs
  BY Standing DEF FailDelivery, Bound
<1>2. /\ run' = run /\ dest' = dest /\ tabs' = tabs /\ janitor' = janitor /\ Rest
      /\ delivery' = [delivery EXCEPT ![r].status = s] /\ Leave(w)
  BY RestIsTyped DEF FailDelivery
<1>3. s \in {"pending", "writing", "completed", "failed", "cancelled"}
  BY <1>1 DEF IInv, Types, DeliveryDocs
<1>4. /\ delivery' \in [Runs -> DeliveryDocs]
      /\ \A q \in Runs : SameTabs(q) /\ SameNext(q) /\ SameStep(q) /\ SameCleanup(q)
                         /\ SameFence(q)
  <2> HIDE DEF s
  <2> QED BY <1>1, <1>2, <1>3, OutcomeEdit DEF IInv, Types
<1>5. Calm /\ run' \in [Runs -> RunDocs]
  BY <1>2, <1>4 DEF Calm, Unmoved, SameStatus, SamePage, SameApplied, IInv, Types
<1> QED BY <1>1, <1>2, <1>4, <1>5, Return

(* Giving a lease back, or losing it. *)
LEMMA LeaseEnds ==
  ASSUME IInv, NEW w \in Workers, pc[w] # "idle", Rest,
         run' = [run EXCEPT ![job[w].run].leased = @ /\ ~Held(w)]
           \/ run' = [run EXCEPT ![job[w].run].leased = FALSE],
         delivery' = delivery, dest' = dest, tabs' = tabs, janitor' = janitor
  PROVE  /\ Calm /\ run' \in [Runs -> RunDocs] /\ delivery' \in [Runs -> DeliveryDocs]
<1> DEFINE r == job[w].run
           b == run[r].leased /\ ~Held(w)
<1>0. r \in Runs /\ run \in [Runs -> RunDocs] /\ delivery \in [Runs -> DeliveryDocs]
  BY WorkersRun DEF IInv, Types
<1>1. ASSUME NEW c \in BOOLEAN, run' = [run EXCEPT ![r].leased = c],
             c => run[r].leased
      PROVE  Calm /\ run' \in [Runs -> RunDocs]
  <2>1. /\ run' \in [Runs -> RunDocs]
        /\ \A q \in Runs : SameStatus(q) /\ SamePage(q) /\ SameApplied(q)
        /\ \A q \in Runs \ {r} : SameLease(q)
        /\ run'[r].epoch = run[r].epoch /\ run'[r].leased = c
    BY <1>0, <1>1, LeaseEdit
  <2> QED BY <1>1, <2>1 DEF Calm, Unmoved, SameTabs, SameNext, SameStep, SameCleanup, SameFence,
                            SameLease
<1>2. b \in BOOLEAN /\ (b => run[r].leased)
  OBVIOUS
<1>3. run' = [run EXCEPT ![r].leased = b] \/ run' = [run EXCEPT ![r].leased = FALSE]
  OBVIOUS
<1> HIDE DEF b
<1> QED BY <1>0, <1>1, <1>2, <1>3

LEMMA LeasingSteps ==
  ASSUME IInv, NEW w \in Workers, LeaseLost(w) \/ Abandon(w) \/ Stall(w)
  PROVE  Sound(w)
<1>1. /\ pc[w] # "idle" /\ Rest
      /\ delivery' = delivery /\ dest' = dest /\ tabs' = tabs /\ janitor' = janitor
      /\ \/ run' = [run EXCEPT ![job[w].run].leased = @ /\ ~Held(w)] /\ Leave(w)
         \/ run' = [run EXCEPT ![job[w].run].leased = FALSE] /\ UNCHANGED workerVars
  BY RestIsTyped DEF LeaseLost, Abandon, Stall
<1>2. /\ Calm /\ run' \in [Runs -> RunDocs] /\ delivery' \in [Runs -> DeliveryDocs]
  BY <1>1, LeaseEnds
<1>3. WorkerTypes
  BY DEF IInv, Types, WorkerTypes
<1>4. CASE Leave(w)
  <2>1. /\ WorkerTypes' /\ OthersStay(w)
        /\ pc'[w] = "idle" /\ job'[w] = NoJob
    BY <1>3, <1>4, Left
  <2>2. Types'
    BY <1>1, <1>2, <2>1 DEF IInv, Types, Calm, Unmoved, Rest, WorkerTypes
  <2> QED BY <1>2, <2>1, <2>2, CalmStep
<1>5. CASE UNCHANGED workerVars
  <2>1. pc' = pc /\ job' = job
    BY <1>5 DEF workerVars
  <2>2. OthersStay(w) /\ Types'
    BY <1>1, <1>2, <2>1 DEF OthersStay, IInv, Types, Calm, Unmoved, Rest
  <2>3. Keeps({}) /\ Keeps({w}) /\ World'
    BY <1>2, CalmKeeps, UnmovedWorld DEF IInv, Calm
  <2>4. WorkerOK(w)'
    BY <2>1, <2>3, OthersKeep
  <2>5. Epochs'
    BY <1>2, <2>1 DEF IInv, Epochs, Calm, Unmoved, SameFence, Bound, Types, Jobs
  <2> QED BY <2>2, <2>3, <2>4, <2>5 DEF Sound
<1> QED BY <1>1, <1>4, <1>5

LEMMA EnqueueCleanupStep ==
  ASSUME IInv, NEW w \in Workers, EnqueueCleanup(w)
  PROVE  Sound(w)
<1> DEFINE r == job[w].run
<1>1. pc[w] = "enqueue" /\ Bound(w) /\ r \in Runs
  BY Standing DEF EnqueueCleanup, Bound
<1>2. /\ run' = run /\ dest' = dest /\ tabs' = tabs /\ janitor' = janitor /\ Rest
      /\ delivery' = [delivery EXCEPT ![r].cleanup = "pending"] /\ Leave(w)
  BY RestIsTyped DEF EnqueueCleanup
<1>3. /\ delivery' \in [Runs -> DeliveryDocs]
      /\ \A q \in Runs : SameTabs(q) /\ SameNext(q) /\ SameStep(q) /\ SameFence(q)
      /\ \A q \in Runs \ {r} : SameCleanup(q)
  BY <1>1, <1>2, CleanupEdit DEF IInv, Types
<1>4. run[r].status = "cancelled"
  BY <1>1, Standing DEF RemembersRight
<1>5. /\ WorkerTypes' /\ OthersStay(w)
      /\ pc'[w] = "idle" /\ job'[w] = NoJob
  BY <1>1, <1>2, Standing, Left
<1>6. Types'
  BY <1>2, <1>3, <1>5 DEF IInv, Types, Rest, WorkerTypes
<1>7. Keeps({w})
  BY <1>2, <1>3 DEF Keeps, SameStatus, SamePage, SameNext, SameTabs, SameFence, Promoted, Lineage
<1>8. Epochs'
  BY <1>2, <1>3, <1>5, EpochsStay DEF IInv
<1>9. World'
  <2>1. LineageOK'
    BY <1>2, <1>3 DEF IInv, World, LineageOK, Lineage, SameTabs
  <2>2. TitlesOK'
    <3>1. \A t \in DOMAIN tabs : tabs[t].by = None => t \in Lineage
      BY DEF IInv, World, LineageOK
    <3>2. \A t \in DOMAIN tabs : tabs[t].by # None =>
            delivery'[tabs[t].by].staging = delivery[tabs[t].by].staging
      BY <1>3, Workbook DEF SameTabs, IInv, Types, Tabs
    <3>3. Lineage' = Lineage
      BY <1>2 DEF Lineage
    <3> QED BY <1>2, <3>1, <3>2, <3>3 DEF IInv, World, TitlesOK
  <2>3. DeliveriesOK'
    BY <1>2, <1>3, <1>4 DEF IInv, World, DeliveriesOK, DeliveryOK, SameTabs, SameNext,
                            SameStep, SameCleanup, Lineage
  <2> QED BY <2>1, <2>2, <2>3 DEF World
<1>10. WorkerOK(w)'
  BY <1>5 DEF WorkerOK, RemembersRight, InPhase, InRange, NoJob, Bound, Held,
              Aimed, Preparing, Recorded, Writing, Promoting
<1> QED BY <1>5, <1>6, <1>7, <1>8, <1>9, <1>10 DEF Sound

-----------------------------------------------------------------------------
(* Claims and fences. *)

LEMMA ClaimStep ==
  ASSUME IInv, NEW w \in Workers, NEW r \in Runs, Claim(w, r)
  PROVE  Sound(w)
<1>0. Types /\ Epochs /\ pc[w] = "idle" /\ run[r].status \in Claimable
  BY DEF IInv, Claim
<1>1. /\ run' \in [Runs -> RunDocs]
      /\ \A q \in Runs : SameStatus(q) /\ SamePage(q) /\ SameApplied(q)
      /\ \A q \in Runs \ {r} : SameLease(q)
      /\ run'[r].leased /\ run'[r].epoch = run[r].epoch + 1
  BY <1>0, ClaimEdit DEF Claim, Types
<1>2. run[r].epoch \in Nat
  BY <1>0 DEF Types, RunDocs
<1>3. /\ WorkerTypes' /\ OthersStay(w) /\ pc'[w] = "bind"
      /\ job'[w].run = r /\ job'[w].epoch = run[r].epoch + 1 /\ job'[w].tab = 0
  <2> DEFINE j == [NoJob EXCEPT !.run = r, !.epoch = run[r].epoch + 1]
  <2>1. j \in Jobs /\ j.run = r /\ j.epoch = run[r].epoch + 1 /\ j.tab = 0
    <3>1. run[r].epoch + 1 \in Nat
      BY <1>2
    <3>2. NoJob \in Jobs /\ NoJob.tab = 0
      BY DEF NoJob, Jobs
    <3>3. ASSUME NEW x \in Jobs, NEW e \in Nat
          PROVE  LET k == [x EXCEPT !.run = r, !.epoch = e] IN
                 k \in Jobs /\ k.run = r /\ k.epoch = e /\ k.tab = x.tab
      BY DEF Jobs
    <3> QED BY <3>1, <3>2, <3>3
  <2>2. job' = [job EXCEPT ![w] = j] /\ Goto(w, "bind")
    BY DEF Claim
  <2>3. r # None /\ "bind" \in Labels
    BY ReportingAssumption DEF Labels
  <2> HIDE DEF j
  <2> QED BY <1>0, <2>1, <2>2, <2>3 DEF Types, WorkerTypes, OthersStay, Goto
<1>4. /\ dest' = dest /\ tabs' = tabs /\ janitor' = janitor /\ delivery' = delivery /\ Rest
  BY RestIsTyped DEF Claim
<1>5. Types'
  BY <1>0, <1>1, <1>3, <1>4 DEF Types, Rest, WorkerTypes
<1>6. Unmoved
  BY <1>1, <1>4 DEF Unmoved, SameTabs, SameNext, SameStep, SameCleanup
<1>7. Keeps({w})
  BY <1>0, <1>1, <1>4, <1>6, UnmovedKeeps DEF SameFence, SameLease
<1>8. Epochs'
  <2>1. \A q \in Runs : /\ run[q].epoch \in Nat /\ delivery[q].fence \in Nat
                        /\ delivery[q].fence <= run[q].epoch
                        /\ run[q].epoch <= run'[q].epoch
    <3> SUFFICES ASSUME NEW q \in Runs
                 PROVE  /\ run[q].epoch \in Nat /\ delivery[q].fence \in Nat
                        /\ delivery[q].fence <= run[q].epoch
                        /\ run[q].epoch <= run'[q].epoch
      OBVIOUS
    <3>1. run[q].epoch \in Nat /\ delivery[q].fence \in Nat
      BY <1>0 DEF Types, RunDocs, DeliveryDocs
    <3>2. run'[q].epoch = run[q].epoch \/ run'[q].epoch = run[q].epoch + 1
      BY <1>1 DEF SameLease
    <3> QED BY <1>0, <3>1, <3>2 DEF Epochs
  <2>2. \A u \in Workers \ {w} : pc'[u] = pc[u] /\ job'[u] = job[u] /\ job[u].epoch \in Nat
    BY <1>0, <1>3 DEF OthersStay, Types, Jobs
  <2>3. \A u \in Workers \ {w} : pc[u] # "idle" =>
          /\ job[u].run \in Runs
          /\ 0 < job[u].epoch /\ job[u].epoch <= run[job[u].run].epoch
    BY <1>0, WorkersRun DEF Epochs
  <2>4. \A q \in Runs : delivery'[q].fence <= run'[q].epoch
    BY <1>4, <2>1, <1>1 DEF Types, RunDocs
  <2>5. ASSUME NEW u \in Workers, pc'[u] # "idle"
        PROVE  /\ 0 < job'[u].epoch /\ job'[u].epoch <= run'[job'[u].run].epoch
               /\ Bound(u)' => job'[u].epoch <= delivery'[job'[u].run].fence
    <3>1. CASE u = w
      BY <1>1, <1>2, <1>3, <3>1 DEF Bound
    <3>2. CASE u # w
      <4>1. /\ 0 < job[u].epoch /\ job[u].epoch <= run[job[u].run].epoch
            /\ Bound(u) => job[u].epoch <= delivery[job[u].run].fence
        BY <1>0, <2>2, <2>5, <3>2 DEF Epochs
      <4>2. run'[job[u].run].epoch \in Nat
        BY <1>1, <2>2, <2>3, <2>5, <3>2 DEF RunDocs
      <4>3. job'[u].epoch <= run'[job'[u].run].epoch
        BY <2>1, <2>2, <2>3, <2>5, <3>2, <4>1, <4>2
      <4> QED BY <1>4, <2>2, <3>2, <4>1, <4>3 DEF Bound
    <3> QED BY <3>1, <3>2
  <2>6. ASSUME NEW u \in Workers, NEW v \in Workers,
               v # u, pc'[v] # "idle", job'[v].run = job'[u].run
        PROVE  job'[v].epoch # job'[u].epoch
    <3>1. CASE v = w
      <4>1. pc[u] # "idle" /\ job[u].run = r
        BY <1>0, <1>3, <2>2, <2>6, <3>1, ReportingAssumption DEF Types
      <4> QED BY <1>2, <1>3, <2>2, <2>3, <2>6, <3>1, <4>1
    <3>2. CASE u = w
      BY <1>2, <1>3, <2>2, <2>3, <2>6, <3>2
    <3>3. CASE v # w /\ u # w
      BY <1>0, <2>2, <2>6, <3>3 DEF Epochs
    <3> QED BY <3>1, <3>2, <3>3
  <2> QED BY <2>4, <2>5, <2>6 DEF Epochs
<1>9. WorkerOK(w)'
  BY <1>0, <1>1, <1>3 DEF WorkerOK, RemembersRight, InPhase, InRange, Bound, Claimable,
        SameStatus, Aimed, Preparing, Recorded, Writing, Promoting
<1>10. World'
  BY <1>6, UnmovedWorld DEF IInv
<1> QED BY <1>3, <1>5, <1>7, <1>8, <1>9, <1>10 DEF Sound

LEMMA BindStep ==
  ASSUME IInv, NEW w \in Workers, Bind(w)
  PROVE  Sound(w)
<1> DEFINE r == job[w].run
           l == IF delivery[r].step = "submitted" THEN "recover" ELSE "resolve"
<1>0. /\ Types /\ Epochs /\ WorkerTypes /\ r \in Runs /\ pc[w] = "bind" /\ Held(w)
      /\ job[w].epoch \in Nat /\ job[w].epoch = run[r].epoch
      /\ RemembersRight(w) /\ InPhase(w) /\ DeliveryOK(r)
  BY WorkersRun DEF IInv, Bind, Types, WorkerTypes, Jobs, Held, WorkerOK, World, DeliveriesOK
<1>1. /\ run' = run /\ dest' = dest /\ tabs' = tabs /\ janitor' = janitor /\ Rest
      /\ delivery' = [delivery EXCEPT ![r].fence = job[w].epoch]
      /\ Goto(w, l) /\ job' = job
  BY RestIsTyped DEF Bind
<1>2. /\ delivery' \in [Runs -> DeliveryDocs]
      /\ \A q \in Runs : SameTabs(q) /\ SameNext(q) /\ SameStep(q) /\ SameCleanup(q)
      /\ \A q \in Runs \ {r} : SameFence(q)
      /\ delivery'[r].fence = job[w].epoch
  BY <1>0, <1>1, FenceEdit DEF Types
<1>3. /\ l \in {"recover", "resolve"}
      /\ l = "recover" => run[r].status \in Promoted
  BY <1>0 DEF DeliveryOK
<1> HIDE DEF l
<1>4. Moved(w, l) /\ job'[w] = job[w]
  BY <1>0, <1>1, <1>3, Went DEF Labels
<1>5. Types'
  BY <1>0, <1>1, <1>2, <1>4 DEF Types, Rest, WorkerTypes, Moved
<1>6. Unmoved
  BY <1>1, <1>2 DEF Unmoved, SameStatus, SamePage, SameApplied
<1>7. Keeps({w})
  BY <1>0, <1>1, <1>2, <1>6, UnmovedKeeps
<1>8. Epochs'
  <2>1. \A u \in Workers : job'[u] = job[u] /\ (pc'[u] = "idle" <=> pc[u] = "idle")
    BY <1>0, <1>1, <1>3, <1>4 DEF Moved, OthersStay
  <2>2. \A u \in Workers \ {w} : Bound(u)' <=> Bound(u)
    BY <1>4 DEF Moved, OthersStay, Bound
  <2>3. \A u \in Workers : pc[u] # "idle" =>
          /\ 0 < job[u].epoch /\ job[u].epoch <= run[job[u].run].epoch
          /\ u # w /\ Bound(u)' => job[u].epoch <= delivery'[job[u].run].fence
    <3> SUFFICES ASSUME NEW u \in Workers, pc[u] # "idle"
                 PROVE  /\ 0 < job[u].epoch /\ job[u].epoch <= run[job[u].run].epoch
                        /\ u # w /\ Bound(u)' => job[u].epoch <= delivery'[job[u].run].fence
      OBVIOUS
    <3>1. /\ 0 < job[u].epoch /\ job[u].epoch <= run[job[u].run].epoch
          /\ u # w /\ Bound(u)' => job[u].epoch <= delivery[job[u].run].fence
          /\ job[u].run \in Runs
      BY <1>0, <2>2, WorkersRun DEF Epochs
    <3> QED BY <1>0, <1>2, <3>1 DEF SameFence
  <2>4. Bound(w)' => job[w].epoch <= delivery'[r].fence
    BY <1>0, <1>2
  <2>5. \A q \in Runs : delivery'[q].fence <= run[q].epoch
    BY <1>0, <1>2 DEF Epochs, SameFence
  <2> QED BY <1>0, <1>1, <2>1, <2>3, <2>4, <2>5 DEF Epochs
<1>9. WorkerOK(w)'
  <2>1. RemembersRight(w)'
    BY <1>0, <1>1, <1>3, <1>4
    DEF Moved, RemembersRight, Aimed, Preparing, Recorded, Writing, Promoting
  <2>2. InRange(w)'
    BY <1>3, <1>4 DEF Moved, InRange, Writing
  <2>3. InPhase(w)'
    <3>1. run[r].status \in Open
      BY <1>0 DEF InPhase
    <3> QED BY <1>1, <1>3, <1>4, <3>1
        DEF Moved, InPhase, Preparing, Writing, Promoting, Promoted, Open, Cancellable
  <2> QED BY <2>1, <2>2, <2>3 DEF WorkerOK
<1>10. World'
  BY <1>6, UnmovedWorld DEF IInv
<1> QED BY <1>4, <1>5, <1>7, <1>8, <1>9, <1>10 DEF Sound, Moved

-----------------------------------------------------------------------------
(* The run's inputs and its staging tab. *)

LEMMA LineageIsInTheWorkbook ==
  ASSUME IInv
  PROVE  Lineage \subseteq DOMAIN tabs /\ DOMAIN tabs \subseteq Nat \ {0}
BY Workbook DEF IInv, Types, World, LineageOK, Lineage

(* The tabs of a run that has not ended. *)
LEMMA TabsOfAnOpenRun ==
  ASSUME IInv, NEW r \in Runs, run[r].status \in Open,
         NEW t \in DOMAIN tabs, tabs[t].by = r
  PROVE  /\ t \notin Lineage
         /\ tabs[t].title \in {"staging", "published"}
         /\ tabs[t].title = "published" =>
              run[r].status = "promoting" /\ t = delivery[r].staging
<1>0. r # None /\ run[r].status \notin {"completed", "failed", "cancelled"}
  BY ReportingAssumption DEF Open, Cancellable
<1>1. t \notin Lineage
  BY <1>0 DEF IInv, World, LineageOK
<1>2. tabs[t].title \in {"published", "staging", "recovery", "deleted"}
  BY Workbook DEF IInv, Types, Tabs
<1> QED BY <1>0, <1>1, <1>2 DEF IInv, World, TitlesOK

LEMMA StartStep ==
  ASSUME IInv, NEW w \in Workers, Start(w)
  PROVE  Sound(w)
<1> DEFINE r == job[w].run
           s == IF run[r].status = "queued" THEN "querying" ELSE run[r].status
<1>0. /\ pc[w] = "resolve" /\ Bound(w) /\ Held(w) /\ Fenced(w) /\ r \in Runs
      /\ run[r].status \in Open /\ WorkerTypes /\ RemembersRight(w)
  BY Standing DEF Start, Bound, InPhase
<1>1. /\ delivery' = delivery /\ dest' = dest /\ tabs' = tabs /\ janitor' = janitor
      /\ Rest /\ run' = [run EXCEPT ![r].status = s]
      /\ job' = [job EXCEPT ![w].old = dest.sheet] /\ Goto(w, "manifest")
  BY RestIsTyped DEF Start
<1>2. s \in Open \ {"queued"}
  BY <1>0 DEF Open, Cancellable
<1>3. Advances(w, s)
  BY <1>0, <1>1 DEF Advances
<1> HIDE DEF s
<1>4. /\ run' \in [Runs -> RunDocs] /\ run'[r].status = s
  BY <1>3, AdvanceEffect DEF IInv
<1>5. dest.sheet \in Nat /\ dest.sheet \in Lineage /\ dest.sheet \in DOMAIN tabs
  BY LineageIsInTheWorkbook DEF Lineage
<1>6. /\ Moved(w, "manifest")
      /\ job'[w].old = dest.sheet /\ job'[w].tab = job[w].tab
  BY <1>0, <1>1, <1>5, WentWithOld DEF Labels
<1>7. Types'
  BY <1>1, <1>4, <1>6 DEF IInv, Types, Rest, WorkerTypes, Moved
<1>8. tabs[dest.sheet].by # r
  BY <1>0, <1>5, TabsOfAnOpenRun
<1>9. WorkerOK(w)'
  <2>1. RemembersRight(w)'
    BY <1>0, <1>1, <1>2, <1>4, <1>5, <1>6, <1>8
    DEF Moved, RemembersRight, Preparing, Recorded, Writing, Promoting, Lineage, Open, Cancellable
  <2>2. InPhase(w)' /\ InRange(w)'
    BY <1>2, <1>4, <1>6 DEF Moved, InPhase, InRange, Writing, Promoting
  <2> QED BY <2>1, <2>2 DEF WorkerOK
<1> QED BY <1>3, <1>6, <1>7, <1>9, AdvanceStep DEF Moved

(* A worker that takes a tab of its run for the staging tab. *)
LEMMA TakesTab ==
  ASSUME IInv, NEW w \in Workers, pc[w] = "artifact", Still, Rest, Goto(w, "record"),
         NEW t \in DOMAIN tabs, NEW o \in Lineage,
         \/ job' = [job EXCEPT ![w].tab = t] /\ o = job[w].old
         \/ job' = [job EXCEPT ![w].tab = t, ![w].old = o],
         tabs[t].by = job[w].run, tabs[t].marked, tabs[o].by # job[w].run,
         run[job[w].run].status # "completed",
         Fenced(w) => delivery[job[w].run].staging \in {0, t}
  PROVE  Sound(w)
<1>0. /\ Bound(w) /\ WorkerTypes /\ RemembersRight(w) /\ InPhase(w)
  BY Standing DEF Bound
<1>1. t \in Nat /\ o \in Nat /\ t # 0
  BY LineageIsInTheWorkbook
<1>2. Moved(w, "record") /\ job'[w].tab = t /\ job'[w].old = o
  BY <1>0, <1>1, WentWithTab, WentWithTabs DEF Labels
<1>3. RemembersRight(w)'
  BY <1>0, <1>1, <1>2
  DEF Moved, Still, RemembersRight, Recorded, Writing, Promoting, Lineage
<1>4. InPhase(w)' /\ InRange(w)'
  BY <1>0, <1>2 DEF Moved, Still, InPhase, InRange, Preparing, Writing, Promoting, Fenced, Bound
<1> QED BY <1>0, <1>2, <1>3, <1>4, StillStep DEF Moved, WorkerOK

LEMMA ResumeArtifactStep ==
  ASSUME IInv, NEW w \in Workers, ResumeArtifact(w)
  PROVE  Sound(w)
<1> DEFINE r == job[w].run
           t == delivery[r].staging
           o == delivery[r].old
<1>0. /\ pc[w] = "artifact" /\ Bound(w) /\ Fenced(w) /\ r \in Runs
      /\ run[r].status \in Open /\ DeliveryOK(r)
  BY Standing DEF ResumeArtifact, Bound, InPhase, Preparing
<1>1. t # 0 /\ t \in DOMAIN tabs /\ tabs[t].by = r /\ tabs[t].marked /\ o \in Lineage
  BY <1>0 DEF ResumeArtifact, DeliveryOK
<1>2. tabs[o].by # r /\ run[r].status # "completed"
  BY <1>0, <1>1, TabsOfAnOpenRun, LineageIsInTheWorkbook DEF Open, Cancellable
<1>3. /\ Still /\ Rest /\ Goto(w, "record")
      /\ job' = [job EXCEPT ![w].tab = t, ![w].old = o]
  BY RestIsTyped DEF ResumeArtifact, Still, runVars
<1> QED BY <1>0, <1>1, <1>2, <1>3, TakesTab

(* A marked tab of the run is the recorded one, if there is one. *)
LEMMA Looking ==
  ASSUME IInv, NEW w \in Workers, pc[w] = "artifact", Held(w), LookForTab(w), Rest,
         delivery' = delivery, dest' = dest, tabs' = tabs, janitor' = janitor,
         LET d == delivery[job[w].run] IN
         d.staging # 0 => ~AlreadyPromoted(d.old, d.staging)
  PROVE  Sound(w)
<1> DEFINE r == job[w].run
           s == delivery[r].staging
           o == delivery[r].old
<1>0. /\ Bound(w) /\ Fenced(w) /\ r \in Runs /\ RemembersRight(w)
      /\ run[r].status \in Open /\ DeliveryOK(r)
  BY Standing DEF Bound, InPhase, Preparing
<1>1. run[r].status # "completed" /\ job[w].old \in Lineage /\ tabs[job[w].old].by # r
  BY <1>0 DEF Open, Cancellable, RemembersRight, Aimed, Preparing
<1>2. CASE tabs[job[w].old].title # "published"
  BY <1>0, <1>2, Thrown DEF LookForTab
<1>3. ASSUME s # 0
      PROVE  s \in MarkedTabs(r) /\ tabs[s].title = "staging"
  <2>1. /\ s \in DOMAIN tabs /\ tabs[s].by = r /\ tabs[s].marked
        /\ o \in Lineage /\ o \in DOMAIN tabs
    BY <1>0, <1>3, LineageIsInTheWorkbook DEF DeliveryOK
  <2>2. tabs[o].by # r
    BY <1>0, <2>1, TabsOfAnOpenRun
  <2>3. tabs[s].title = "published" => tabs[o].title # "published"
    BY <2>1, <2>2 DEF IInv, World, TitlesOK
  <2>4. tabs[s].title # "published"
    BY <1>3, <2>3 DEF AlreadyPromoted
  <2>5. tabs[s].title \in {"staging", "published"}
    BY <1>0, <2>1, TabsOfAnOpenRun
  <2> QED BY <2>1, <2>4, <2>5 DEF MarkedTabs
<1>4. ASSUME NEW t \in MarkedTabs(r), job' = [job EXCEPT ![w].tab = t], Goto(w, "record"),
             run' = run
      PROVE  Sound(w)
  <2>1. t \in DOMAIN tabs /\ tabs[t].by = r /\ tabs[t].marked
    BY DEF MarkedTabs
  <2>2. s \in {0, t}
    <3> SUFFICES ASSUME s # 0 PROVE s = t
      OBVIOUS
    <3>1. s \in DOMAIN tabs /\ tabs[s].by = r /\ tabs[s].title = "staging"
      BY <1>3 DEF MarkedTabs
    <3>2. tabs[t].title = "published" => t = s
      BY <1>0, <2>1, TabsOfAnOpenRun
    <3>3. tabs[t].title = "staging" => t = s
      BY <2>1, <3>1 DEF IInv, World, TitlesOK
    <3> QED BY <1>0, <2>1, <3>2, <3>3, TabsOfAnOpenRun
  <2>3. Still
    BY <1>4 DEF Still
  <2> QED BY <1>1, <1>4, <2>1, <2>2, <2>3, TakesTab
<1>5. CASE MarkedTabs(r) = {} /\ Goto(w, "create") /\ job' = job /\ run' = run
  <2>1. s = 0
    BY <1>3, <1>5
  <2> QED BY <1>5, <2>1, Walk DEF Still
<1> QED BY <1>2, <1>4, <1>5 DEF LookForTab

LEMMA FindArtifactStep ==
  ASSUME IInv, NEW w \in Workers, FindArtifact(w)
  PROVE  Sound(w)
BY Looking, RestIsTyped DEF FindArtifact

LEMMA MissArtifactStep ==
  ASSUME IInv, NEW w \in Workers, MissArtifact(w)
  PROVE  Sound(w)
<1>1. /\ pc[w] = "artifact" /\ Held(w) /\ Rest
      /\ delivery' = delivery /\ dest' = dest /\ tabs' = tabs /\ janitor' = janitor
  BY RestIsTyped DEF MissArtifact
<1> QED BY <1>1, Looking, Walk DEF MissArtifact, Still

-----------------------------------------------------------------------------
(* Steps that change the workbook. *)

(* The lease, the documents and the destination stay. *)
WorkbookOnly ==
  /\ run' = run /\ delivery' = delivery /\ dest' = dest /\ janitor' = janitor
  /\ manifest' = manifest /\ losses' = losses /\ errors' = errors

LEMMA WorkbookKeeps ==
  ASSUME IInv, NEW V, WorkbookOnly,
         \A t \in DOMAIN tabs :
           /\ t \in DOMAIN tabs' /\ tabs'[t].by = tabs[t].by
           /\ tabs[t].marked => tabs'[t].marked
           /\ tabs[t].rows \subseteq tabs'[t].rows
           /\ tabs[t].title = "published" /\ tabs'[t].title # "published"
                => t \in Lineage
  PROVE  Keeps(V)
<1>1. Lineage' = Lineage
  BY DEF WorkbookOnly, Lineage
<1>2. ASSUME NEW r \in Runs, run[r].status = "promoting",
             NEW t \in DOMAIN tabs, tabs[t].by = r, tabs[t].title = "published"
      PROVE  tabs'[t].title = "published"
  <2>1. t \notin Lineage
    BY <1>2, TabsOfAnOpenRun DEF Open
  <2> QED BY <1>2, <2>1
<1>3. \A r \in Runs : /\ SameStatus(r) /\ SamePage(r) /\ SameNext(r) /\ SameFence(r)
                      /\ run[r].status = "promoting" => run[r].status \in Promoted
  BY DEF WorkbookOnly, SameStatus, SamePage, SameNext, SameFence, Promoted
<1> QED BY <1>1, <1>2, <1>3 DEF Keeps, WorkbookOnly

LEMMA WorkbookEpochs ==
  ASSUME IInv, NEW w \in Workers, WorkbookOnly, Bound(w), Moved(w, pc'[w])
  PROVE  Epochs'
<1>1. OthersStay(w) /\ \A r \in Runs : SameFence(r) /\ run'[r].epoch = run[r].epoch
  BY DEF WorkbookOnly, SameFence, Moved
<1> QED BY <1>1, EpochsStay DEF IInv

LEMMA AddTabStep ==
  ASSUME IInv, NEW w \in Workers, AddTab(w)
  PROVE  Sound(w)
<1> DEFINE r == job[w].run
           n == Len(tabs) + 1
           new == [by |-> r, marked |-> FALSE, rows |-> {}, title |-> "staging"]
<1>0. /\ pc[w] = "create" /\ Bound(w) /\ r \in Runs /\ WorkerTypes
      /\ RemembersRight(w) /\ InPhase(w)
  BY Standing DEF AddTab, Bound
<1>1. CASE StagingTabs(r) # {}
  <2>1. /\ Throw(w) /\ Rest
        /\ delivery' = delivery /\ dest' = dest /\ tabs' = tabs /\ janitor' = janitor
    BY <1>1, RestIsTyped DEF AddTab
  <2> QED BY <1>0, <2>1, Thrown
<1>2. CASE StagingTabs(r) = {}
  <2>0. /\ tabs' = Append(tabs, new) /\ WorkbookOnly
        /\ job' = [job EXCEPT ![w].tab = n] /\ Goto(w, "mark")
    BY <1>2 DEF AddTab, WorkbookOnly, faults
  <2>1. /\ tabs \in Seq(Tabs) /\ new \in Tabs
        /\ DOMAIN tabs = 1 .. Len(tabs) /\ Len(tabs) \in Nat
    BY <1>0, Workbook DEF IInv, Types, Tabs
  <2>2. /\ tabs' \in Seq(Tabs)
        /\ DOMAIN tabs' = DOMAIN tabs \cup {n}
        /\ \A t \in DOMAIN tabs : t # n /\ tabs'[t] = tabs[t]
        /\ tabs'[n] = new
    BY <2>0, <2>1
  <2>3. n \in Nat /\ n # 0
    BY <2>1
  <2>4. new.by = r /\ new.title = "staging" /\ new.rows = {}
    OBVIOUS
  <2> HIDE DEF n, new
  <2>5. Moved(w, "mark") /\ job'[w].tab = n /\ job'[w].old = job[w].old
    BY <1>0, <2>0, <2>3, WentWithTab DEF Labels
  <2>6. Types'
    BY <2>0, <2>2, <2>5 DEF IInv, Types, WorkbookOnly, WorkerTypes, Moved
  <2>7. Keeps({w})
    BY <2>0, <2>2, WorkbookKeeps
  <2>8. Epochs'
    BY <1>0, <2>0, <2>5, WorkbookEpochs DEF Moved
  <2>9. Lineage' = Lineage /\ Lineage \subseteq DOMAIN tabs /\ r # None
    BY <1>0, <2>0, LineageIsInTheWorkbook, ReportingAssumption DEF WorkbookOnly, Lineage
  <2>10. LineageOK'
    BY <2>0, <2>2, <2>4, <2>9 DEF IInv, World, LineageOK, WorkbookOnly
  <2>11. TitlesOK'
    <3>1. \A t \in DOMAIN tabs : tabs[t].title = "staging" => tabs[t].by # r
      BY <1>2 DEF StagingTabs
    <3>2. \E t \in DOMAIN tabs' : tabs'[t].title = "published"
      BY <2>2 DEF IInv, World, TitlesOK
    <3>3. \A t, u \in DOMAIN tabs' :
            tabs'[t].title = "published" /\ tabs'[u].title = "published" => t = u
      BY <2>2, <2>4 DEF IInv, World, TitlesOK
    <3>4. \A t, u \in DOMAIN tabs' :
            tabs'[t].title = "staging" /\ tabs'[u].title = "staging"
              /\ tabs'[t].by = tabs'[u].by => t = u
      BY <2>2, <2>4, <3>1 DEF IInv, World, TitlesOK
    <3>5. ASSUME NEW t \in DOMAIN tabs'
          PROVE  /\ \A i \in tabs'[t].rows : i \in Report(tabs'[t].by)
                 /\ tabs'[t].title = "recovery" => t \in Lineage'
                 /\ tabs'[t].title = "deleted" =>
                      tabs'[t].by # None /\ run'[tabs'[t].by].status = "cancelled"
                 /\ tabs'[t].title = "published" =>
                      /\ t \notin dest'.preds
                      /\ \/ t \in Lineage'
                         \/ /\ run'[tabs'[t].by].status \in {"promoting", "failed"}
                            /\ t = delivery'[tabs'[t].by].staging
                      /\ tabs'[t].by # None => Report(tabs'[t].by) \subseteq tabs'[t].rows
      <4>1. CASE t = n
        BY <2>2, <2>4, <4>1
      <4>2. CASE t \in DOMAIN tabs
        BY <2>0, <2>2, <2>9, <4>2 DEF IInv, World, TitlesOK, WorkbookOnly
      <4> QED BY <2>2, <4>1, <4>2
    <3> QED BY <3>2, <3>3, <3>4, <3>5 DEF TitlesOK
  <2>12. DeliveriesOK'
    <3> SUFFICES ASSUME NEW q \in Runs PROVE DeliveryOK(q)'
      BY DEF DeliveriesOK
    <3>1. DeliveryOK(q)
      BY DEF IInv, World, DeliveriesOK
    <3>2. run[q].applied /\ run[q].status = "promoting" => delivery[q].staging # 0
      BY <3>1 DEF DeliveryOK
    <3> QED BY <2>0, <2>2, <2>9, <3>1, <3>2 DEF DeliveryOK, WorkbookOnly
  <2>13. RemembersRight(w)'
    BY <1>0, <2>0, <2>2, <2>3, <2>4, <2>5, <2>9
    DEF RemembersRight, Moved, WorkbookOnly, Aimed, Preparing, Recorded, Writing, Promoting
  <2>14. InPhase(w)' /\ InRange(w)'
    BY <1>0, <2>0, <2>5
    DEF Moved, WorkbookOnly, InPhase, InRange, Preparing, Writing, Promoting, Fenced, Bound
  <2> QED BY <2>5, <2>6, <2>7, <2>8, <2>10, <2>11, <2>12, <2>13, <2>14
          DEF Sound, World, WorkerOK, Moved
<1> QED BY <1>1, <1>2

(* Marking and filling a tab: no title changes. *)
LEMMA FillingWorld ==
  ASSUME IInv, WorkbookOnly, DOMAIN tabs' = DOMAIN tabs,
         \A t \in DOMAIN tabs :
           /\ tabs'[t].by = tabs[t].by /\ tabs'[t].title = tabs[t].title
           /\ tabs[t].marked => tabs'[t].marked
           /\ tabs[t].rows \subseteq tabs'[t].rows
           /\ \A i \in tabs'[t].rows : i \in Report(tabs[t].by)
  PROVE  World' /\ \A V : Keeps(V)
<1>1. Lineage' = Lineage /\ Lineage \subseteq DOMAIN tabs
  BY LineageIsInTheWorkbook DEF WorkbookOnly, Lineage
<1>2. LineageOK'
  BY <1>1 DEF IInv, World, LineageOK, WorkbookOnly
<1>3. TitlesOK'
  BY <1>1 DEF IInv, World, TitlesOK, WorkbookOnly
<1>4. DeliveriesOK'
  <2> SUFFICES ASSUME NEW q \in Runs PROVE DeliveryOK(q)'
    BY DEF DeliveriesOK
  <2>1. DeliveryOK(q)
    BY DEF IInv, World, DeliveriesOK
  <2>2. run[q].applied /\ run[q].status = "promoting" => delivery[q].staging # 0
    BY <2>1 DEF DeliveryOK
  <2> QED BY <1>1, <2>1, <2>2 DEF DeliveryOK, WorkbookOnly
<1> QED BY <1>2, <1>3, <1>4, WorkbookKeeps DEF World

LEMMA MarkTabStep ==
  ASSUME IInv, NEW w \in Workers, MarkTab(w)
  PROVE  Sound(w)
<1> DEFINE n == job[w].tab
<1>0. /\ pc[w] = "mark" /\ Bound(w) /\ WorkerTypes /\ RemembersRight(w) /\ InPhase(w)
  BY Standing DEF MarkTab, Bound
<1>1. n \in DOMAIN tabs /\ tabs[n].by = job[w].run
  BY <1>0 DEF RemembersRight
<1>2. /\ WorkbookOnly /\ job' = job /\ Goto(w, "record")
      /\ tabs' = [tabs EXCEPT ![n].marked = TRUE]
  BY DEF MarkTab, WorkbookOnly, runVars, faults
<1>3. tabs \in Seq(Tabs) /\ tabs \in [DOMAIN tabs -> Tabs]
  BY Workbook DEF IInv, Types
<1>4. /\ DOMAIN tabs' = DOMAIN tabs /\ tabs' \in [DOMAIN tabs -> Tabs]
      /\ \A t \in DOMAIN tabs :
           /\ tabs'[t].by = tabs[t].by /\ tabs'[t].title = tabs[t].title
           /\ tabs[t].marked => tabs'[t].marked
           /\ tabs'[t].rows = tabs[t].rows
      /\ tabs'[n].marked
  BY <1>1, <1>2, <1>3 DEF Tabs
<1>5. tabs' \in Seq(Tabs)
  BY <1>3, <1>4, WorkbookMap
<1>6. Moved(w, "record") /\ job'[w] = job[w]
  BY <1>0, <1>2, Went DEF Labels
<1>7. Types'
  BY <1>2, <1>5, <1>6 DEF IInv, Types, WorkbookOnly, WorkerTypes, Moved
<1>8. World' /\ Keeps({w})
  BY <1>2, <1>4, FillingWorld DEF IInv, World, TitlesOK
<1>9. Epochs'
  BY <1>0, <1>2, <1>6, WorkbookEpochs DEF Moved
<1>10. RemembersRight(w)'
  <2>1. job[w].old \in DOMAIN tabs
    BY <1>0, LineageIsInTheWorkbook DEF RemembersRight, Aimed, Preparing
  <2> QED BY <1>0, <1>1, <1>2, <1>4, <1>6, <2>1
      DEF RemembersRight, Moved, WorkbookOnly, Aimed, Preparing, Recorded, Writing,
          Promoting, Lineage
<1>11. InPhase(w)' /\ InRange(w)'
  BY <1>0, <1>2, <1>6
  DEF Moved, WorkbookOnly, InPhase, InRange, Preparing, Writing, Promoting, Fenced, Bound
<1> QED BY <1>6, <1>7, <1>8, <1>9, <1>10, <1>11 DEF Sound, WorkerOK, Moved

(* The pages before the last one end before the report does. *)
LEMMA PagesFit ==
  ASSUME NEW r \in Runs, NEW p \in Nat, p < Pages[r]
  PROVE  /\ (p + 1) * PageBatches + 1 \in Nat
         /\ (p + 1) * PageBatches + 1 <= LastRow(r)
<1>1. Pages[r] \in Nat /\ PageBatches \in Nat
  BY ReportingAssumption
<1>2. \A a, b, c \in Nat : a <= b => a * c \in Nat /\ b * c \in Nat /\ a * c <= b * c
  OBVIOUS
<1>3. p + 1 \in Nat /\ p + 1 <= Pages[r]
  BY <1>1
<1>4. /\ (p + 1) * PageBatches \in Nat /\ Pages[r] * PageBatches \in Nat
      /\ (p + 1) * PageBatches <= Pages[r] * PageBatches
  BY <1>1, <1>2, <1>3
<1> DEFINE a == (p + 1) * PageBatches
           b == Pages[r] * PageBatches
<1> HIDE DEF a, b
<1>5. a \in Nat /\ b \in Nat /\ a <= b
  BY <1>4 DEF a, b
<1>6. a + 1 \in Nat /\ a + 1 <= b + 1
  BY <1>5
<1> QED BY <1>6 DEF a, b, LastRow

LEMMA LastRowIsARow ==
  ASSUME NEW r \in Runs
  PROVE  LastRow(r) \in Nat \ {0}
<1>1. Pages[r] \in Nat /\ PageBatches \in Nat
  BY ReportingAssumption
<1>2. Pages[r] * PageBatches \in Nat
  BY <1>1
<1> DEFINE b == Pages[r] * PageBatches
<1> HIDE DEF b
<1>3. b + 1 \in Nat \ {0}
  BY <1>2 DEF b
<1> QED BY <1>3 DEF b, LastRow

(* The row a worker puts or acknowledges is one of the report's. *)
LEMMA NextIsARow ==
  ASSUME IInv, NEW w \in Workers, pc[w] \in {"put", "acknowledge"}
  PROVE  job[w].next \in Report(job[w].run)
<1> DEFINE r == job[w].run
           i == job[w].next
<1>0. r \in Runs /\ InRange(w) /\ i \in Nat /\ job[w].page \in Nat
  BY Standing DEF Bound
<1>1. i > 0
  BY <1>0 DEF InRange, Writing
<1>2. i = 1 \/ (job[w].page < Pages[r] /\ i <= EndOfPage(w))
  BY <1>0 DEF InRange
<1>3. LastRow(r) \in Nat \ {0}
  BY <1>0, LastRowIsARow
<1>4. CASE i = 1
  BY <1>3, <1>4 DEF Report
<1>5. CASE job[w].page < Pages[r] /\ i <= EndOfPage(w)
  <2>1. EndOfPage(w) \in Nat /\ EndOfPage(w) <= LastRow(r)
    BY <1>0, <1>5, PagesFit DEF EndOfPage
  <2> QED BY <1>0, <1>1, <1>3, <1>5, <2>1 DEF Report
<1> QED BY <1>2, <1>4, <1>5

LEMMA PutStep ==
  ASSUME IInv, NEW w \in Workers, Put(w)
  PROVE  Sound(w)
<1> DEFINE r == job[w].run
           i == job[w].next
<1>0. /\ pc[w] = "put" /\ Bound(w) /\ WorkerTypes /\ r \in Runs
      /\ RemembersRight(w) /\ InPhase(w) /\ InRange(w) /\ i \in Nat /\ job[w].page \in Nat
      /\ DeliveryOK(r)
  BY Standing DEF Put, Bound
<1>1. CASE StagingTabs(r) = {}
  <2>1. /\ Throw(w) /\ Rest
        /\ delivery' = delivery /\ dest' = dest /\ tabs' = tabs /\ janitor' = janitor
    BY <1>1, RestIsTyped DEF Put
  <2> QED BY <1>0, <2>1, Thrown
<1>2. CASE StagingTabs(r) # {}
  <2>1. /\ WorkbookOnly /\ job' = job /\ Goto(w, "acknowledge")
        /\ tabs' = [t \in DOMAIN tabs |->
                      IF t \in StagingTabs(r)
                      THEN [tabs[t] EXCEPT !.rows = @ \cup {i}]
                      ELSE tabs[t]]
    BY <1>2 DEF Put, WorkbookOnly, faults
  <2>2. tabs \in Seq(Tabs) /\ tabs \in [DOMAIN tabs -> Tabs]
    BY Workbook DEF IInv, Types
  <2>3. /\ DOMAIN tabs' = DOMAIN tabs
        /\ \A t \in DOMAIN tabs :
             /\ tabs'[t] \in Tabs
             /\ tabs'[t].by = tabs[t].by /\ tabs'[t].title = tabs[t].title
             /\ tabs'[t].marked = tabs[t].marked
             /\ tabs'[t].rows = IF t \in StagingTabs(r) THEN tabs[t].rows \cup {i}
                                ELSE tabs[t].rows
    BY <1>0, <2>1, <2>2 DEF Tabs
  <2>4. tabs' \in Seq(Tabs)
    BY <2>1, <2>2, <2>3, WorkbookMap
  <2>5. i \in Report(r)
    BY <1>0, NextIsARow
  <2>6. Moved(w, "acknowledge") /\ job'[w] = job[w]
    BY <1>0, <2>1, Went DEF Labels
  <2>7. Types'
    BY <2>1, <2>4, <2>6 DEF IInv, Types, WorkbookOnly, WorkerTypes, Moved
  <2>8. World' /\ Keeps({w})
    <3>1. \A t \in DOMAIN tabs : \A k \in tabs'[t].rows : k \in Report(tabs[t].by)
      <4>1. \A t \in DOMAIN tabs : \A k \in tabs[t].rows : k \in Report(tabs[t].by)
        BY DEF IInv, World, TitlesOK
      <4>2. \A t \in StagingTabs(r) : tabs[t].by = r
        BY DEF StagingTabs
      <4>3. ASSUME NEW t \in DOMAIN tabs, NEW k \in tabs'[t].rows
            PROVE  k \in tabs[t].rows \/ (t \in StagingTabs(r) /\ k = i)
        BY <2>3
      <4> QED BY <2>5, <4>1, <4>2, <4>3
    <3>2. \A t \in DOMAIN tabs :
            /\ tabs'[t].by = tabs[t].by /\ tabs'[t].title = tabs[t].title
            /\ tabs[t].marked => tabs'[t].marked
            /\ tabs[t].rows \subseteq tabs'[t].rows
      BY <2>3
    <3> QED BY <2>1, <2>3, <3>1, <3>2, FillingWorld
  <2>9. Epochs'
    BY <1>0, <2>1, <2>6, WorkbookEpochs DEF Moved
  <2>10. RemembersRight(w)'
    <3>1. job[w].old \in DOMAIN tabs /\ job[w].tab \in DOMAIN tabs
      BY <1>0, LineageIsInTheWorkbook DEF RemembersRight, Aimed, Recorded, Writing
    <3> QED BY <1>0, <2>1, <2>3, <2>6, <3>1
        DEF RemembersRight, Moved, WorkbookOnly, Aimed, Preparing, Recorded, Writing,
            Promoting, Lineage
  <2>11. Fenced(w) => job[w].tab \in StagingTabs(r)
    <3> SUFFICES ASSUME Fenced(w) PROVE job[w].tab \in StagingTabs(r)
      OBVIOUS
    <3>1. run[r].status = "writing"
      BY <1>0 DEF InPhase, Writing
    <3>2. job[w].tab \in DOMAIN tabs /\ tabs[job[w].tab].by = r
      BY <1>0 DEF RemembersRight, Recorded, Writing
    <3> QED BY <1>0, <3>1, <3>2, TabsOfAnOpenRun DEF StagingTabs, Open, Cancellable
  <2>12. InPhase(w)'
    <3>1. Fenced(w) => job[w].next \in tabs'[job[w].tab].rows
      <4>1. job[w].tab \in DOMAIN tabs
        BY <1>0 DEF RemembersRight, Recorded, Writing
      <4> QED BY <2>3, <2>11, <4>1
    <3> QED BY <1>0, <2>1, <2>6, <3>1
        DEF Moved, WorkbookOnly, InPhase, Preparing, Writing, Promoting, Fenced, Bound
  <2>13. InRange(w)'
    BY <1>0, <2>6 DEF Moved, InRange, Writing, EndOfPage
  <2> QED BY <2>6, <2>7, <2>8, <2>9, <2>10, <2>12, <2>13 DEF Sound, WorkerOK, Moved
<1> QED BY <1>1, <1>2

LEMMA RenameStep ==
  ASSUME IInv, NEW w \in Workers, Rename(w)
  PROVE  Sound(w)
<1> DEFINE r == job[w].run
           new == job[w].tab
           old == job[w].old
<1>0. /\ pc[w] = "rename" /\ Bound(w) /\ WorkerTypes /\ r \in Runs /\ r # None
      /\ RemembersRight(w) /\ InPhase(w) /\ DeliveryOK(r)
  BY Standing, ReportingAssumption DEF Rename, Bound
<1>1. CASE ~TitleIsFree(w)
  <2>1. Still /\ Rest /\ job' = job /\ Goto(w, "ambiguous")
    BY <1>1, RestIsTyped DEF Rename, Still, runVars
  <2> QED BY <1>0, <2>1, Walk
<1>2. CASE TitleIsFree(w)
  <2>1. /\ WorkbookOnly /\ job' = job /\ Goto(w, "confirm")
        /\ tabs' = [tabs EXCEPT ![old].title = "recovery", ![new].title = "published"]
    BY <1>2 DEF Rename, WorkbookOnly, runVars, faults
  <2>2. /\ new \in DOMAIN tabs /\ tabs[new].by = r /\ new = delivery[r].staging /\ new # 0
        /\ old \in DOMAIN tabs /\ old \in Lineage /\ tabs[old].by # r
        /\ run[r].status \in Promoted /\ Report(r) \subseteq tabs[new].rows
        /\ run[r].status = "completed" => old \in dest.preds
    BY <1>0, LineageIsInTheWorkbook DEF RemembersRight, Aimed, Recorded, Promoting
  <2>3. tabs \in Seq(Tabs) /\ tabs \in [DOMAIN tabs -> Tabs] /\ old # new
    BY <2>2, Workbook DEF IInv, Types
  <2>4. /\ DOMAIN tabs' = DOMAIN tabs
        /\ \A t \in DOMAIN tabs :
             /\ tabs'[t] \in Tabs
             /\ tabs'[t].by = tabs[t].by
             /\ tabs'[t].marked = tabs[t].marked
             /\ tabs'[t].rows = tabs[t].rows
             /\ t \notin {old, new} => tabs'[t].title = tabs[t].title
        /\ tabs'[old].title = "recovery" /\ tabs'[new].title = "published"
    BY <2>1, <2>2, <2>3 DEF Tabs
  <2>5. tabs' \in Seq(Tabs)
    <3>1. tabs' \in [DOMAIN tabs -> Tabs]
      BY <2>1, <2>4
    <3> QED BY <2>3, <3>1, WorkbookMap
  <2>6. Moved(w, "confirm") /\ job'[w] = job[w]
    BY <1>0, <2>1, Went DEF Labels
  <2>7. Types'
    BY <2>1, <2>5, <2>6 DEF IInv, Types, WorkbookOnly, WorkerTypes, Moved
  <2>8. \A t \in DOMAIN tabs : tabs[t].title = "published" => t \in {old, new}
    BY <1>2 DEF TitleIsFree
  <2>9. Keeps({w})
    <3>1. \A t \in DOMAIN tabs :
            tabs[t].title = "published" /\ tabs'[t].title # "published" => t \in Lineage
      BY <2>2, <2>4, <2>8
    <3>2. \A t \in DOMAIN tabs :
            /\ t \in DOMAIN tabs' /\ tabs'[t].by = tabs[t].by
            /\ tabs[t].marked => tabs'[t].marked
            /\ tabs[t].rows \subseteq tabs'[t].rows
      BY <2>4
    <3> QED BY <2>1, <3>1, <3>2, WorkbookKeeps
  <2>10. Epochs'
    BY <1>0, <2>1, <2>6, WorkbookEpochs DEF Moved
  <2>11. Lineage' = Lineage /\ Lineage \subseteq DOMAIN tabs
    BY <2>1, LineageIsInTheWorkbook DEF WorkbookOnly, Lineage
  <2>12. LineageOK'
    <3>1. /\ run' = run /\ delivery' = delivery /\ dest' = dest /\ DOMAIN tabs' = DOMAIN tabs
          /\ \A t \in DOMAIN tabs : tabs'[t].by = tabs[t].by
      BY <2>1, <2>4 DEF WorkbookOnly
    <3> QED BY <2>11, <3>1 DEF IInv, World, LineageOK
  <2>13. new \notin dest.preds
    <3>1. CASE run[r].status = "completed"
      <4>1. PICK u \in DOMAIN tabs : tabs[u].title = "published"
        BY DEF IInv, World, TitlesOK
      <4>2. u \notin dest.preds
        BY <4>1 DEF IInv, World, TitlesOK
      <4> QED BY <2>2, <2>8, <3>1, <4>1, <4>2
    <3>2. CASE run[r].status # "completed"
      <4>1. new \notin Lineage
        BY <1>0, <2>2, <3>2 DEF IInv, World, LineageOK
      <4> QED BY <4>1 DEF Lineage
    <3> QED BY <3>1, <3>2
  <2>14. new \in Lineage \/ run[r].status \in {"promoting", "failed"}
    <3>1. run[r].status = "completed" => new \in Lineage
      BY <1>0, <2>2 DEF IInv, World, LineageOK
    <3> QED BY <2>2, <3>1 DEF Promoted
  <2>15. TitlesOK'
    <3>1. \A t \in DOMAIN tabs : tabs'[t].title = "published" <=> t = new
      BY <2>2, <2>3, <2>4, <2>8
    <3>2. \A t \in DOMAIN tabs :
            tabs'[t].title \in {"staging", "deleted"} => tabs'[t].title = tabs[t].title
      BY <2>4
    <3>3. \A t, u \in DOMAIN tabs' :
            tabs'[t].title = "staging" /\ tabs'[u].title = "staging"
              /\ tabs'[t].by = tabs'[u].by => t = u
      BY <2>4, <3>2 DEF IInv, World, TitlesOK
    <3>4. ASSUME NEW t \in DOMAIN tabs
          PROVE  /\ \A i \in tabs'[t].rows : i \in Report(tabs'[t].by)
                 /\ tabs'[t].title = "recovery" => t \in Lineage
                 /\ tabs'[t].title = "deleted" =>
                      tabs'[t].by # None /\ run[tabs'[t].by].status = "cancelled"
      BY <2>2, <2>4, <3>2 DEF IInv, World, TitlesOK
    <3>5. ASSUME NEW t \in DOMAIN tabs, tabs'[t].title = "published"
          PROVE  /\ t \notin dest.preds
                 /\ \/ t \in Lineage
                    \/ /\ run[tabs'[t].by].status \in {"promoting", "failed"}
                       /\ t = delivery[tabs'[t].by].staging
                 /\ tabs'[t].by # None => Report(tabs'[t].by) \subseteq tabs'[t].rows
      BY <2>2, <2>4, <2>13, <2>14, <3>1, <3>5
    <3>6. /\ \E t \in DOMAIN tabs' : tabs'[t].title = "published"
          /\ \A t, u \in DOMAIN tabs' :
               tabs'[t].title = "published" /\ tabs'[u].title = "published" => t = u
      BY <2>2, <2>4, <3>1
    <3>7. ASSUME NEW t \in DOMAIN tabs'
          PROVE  /\ \A i \in tabs'[t].rows : i \in Report(tabs'[t].by)
                 /\ tabs'[t].title = "recovery" => t \in Lineage'
                 /\ tabs'[t].title = "deleted" =>
                      tabs'[t].by # None /\ run'[tabs'[t].by].status = "cancelled"
                 /\ tabs'[t].title = "published" =>
                      /\ t \notin dest'.preds
                      /\ \/ t \in Lineage'
                         \/ /\ run'[tabs'[t].by].status \in {"promoting", "failed"}
                            /\ t = delivery'[tabs'[t].by].staging
                      /\ tabs'[t].by # None => Report(tabs'[t].by) \subseteq tabs'[t].rows
      <4>1. /\ t \in DOMAIN tabs /\ Lineage' = Lineage
            /\ run' = run /\ delivery' = delivery /\ dest' = dest
        BY <2>1, <2>4, <2>11 DEF WorkbookOnly
      <4>2. CASE tabs'[t].title = "published"
        BY <3>4, <3>5, <4>1, <4>2
      <4>3. CASE tabs'[t].title # "published"
        BY <3>4, <4>1, <4>3
      <4> QED BY <4>2, <4>3
    <3> QED BY <3>3, <3>6, <3>7 DEF TitlesOK
  <2>16. DeliveriesOK'
    <3> SUFFICES ASSUME NEW q \in Runs PROVE DeliveryOK(q)'
      BY DEF DeliveriesOK
    <3>1. DeliveryOK(q)
      BY DEF IInv, World, DeliveriesOK
    <3>2. ASSUME run[q].applied, run[q].status = "promoting"
          PROVE  /\ delivery[q].staging \in DOMAIN tabs
                 /\ tabs'[delivery[q].staging].title = "published"
      <4>1. /\ delivery[q].staging \in DOMAIN tabs /\ tabs[delivery[q].staging].by = q
            /\ tabs[delivery[q].staging].title = "published"
        BY <3>1, <3>2 DEF DeliveryOK
      <4>2. delivery[q].staging # old
        BY <2>2, <3>2, <4>1, TabsOfAnOpenRun DEF Open
      <4> QED BY <2>4, <2>8, <4>1, <4>2
    <3>3. ASSUME delivery[q].staging \in DOMAIN tabs
          PROVE  /\ delivery[q].staging \in DOMAIN tabs'
                 /\ tabs'[delivery[q].staging].by = tabs[delivery[q].staging].by
                 /\ tabs'[delivery[q].staging].marked = tabs[delivery[q].staging].marked
                 /\ tabs'[delivery[q].staging].rows = tabs[delivery[q].staging].rows
      BY <2>4, <3>3
    <3>4. delivery[q].staging # 0 => delivery[q].staging \in DOMAIN tabs
      BY <3>1 DEF DeliveryOK
    <3> QED BY <2>1, <2>11, <3>1, <3>2, <3>3, <3>4 DEF DeliveryOK, WorkbookOnly
  <2>17. RemembersRight(w)'
    <3>1. /\ pc'[w] = "confirm" /\ job'[w] = job[w] /\ run' = run /\ delivery' = delivery
          /\ dest' = dest /\ new \in DOMAIN tabs' /\ tabs'[new].by = r
          /\ tabs'[new].rows = tabs[new].rows /\ tabs'[old].by = tabs[old].by
      BY <2>1, <2>2, <2>4, <2>6 DEF Moved, WorkbookOnly
    <3> HIDE DEF new, old
    <3> QED BY <2>2, <2>11, <3>1
        DEF new, old, RemembersRight, Aimed, Preparing, Recorded, Writing, Promoting
  <2>18. InPhase(w)' /\ InRange(w)'
    BY <1>0, <2>1, <2>6
    DEF Moved, WorkbookOnly, InPhase, InRange, Preparing, Writing, Promoting, Fenced, Bound
  <2> QED BY <2>6, <2>7, <2>9, <2>10, <2>12, <2>15, <2>16, <2>17, <2>18
          DEF Sound, World, WorkerOK, Moved
<1> QED BY <1>1, <1>2

-----------------------------------------------------------------------------
(* Steps that record progress in the documents. *)

LEMMA DocumentsStep ==
  ASSUME IInv, Types', NEW w \in Workers, Bound(w), Moved(w, pc'[w]), WorkerOK(w)',
         dest' = dest, tabs' = tabs,
         \A r \in Runs :
           /\ SameStatus(r) /\ SameLease(r) /\ SameFence(r)
           /\ delivery[r].staging # 0 => delivery'[r].staging = delivery[r].staging
           /\ \/ SamePage(r) /\ SameNext(r) /\ delivery'[r].staging = delivery[r].staging
              \/ Fenced(w) /\ job[w].run = r
           /\ DeliveryOK(r)'
  PROVE  Sound(w)
<1>1. Lineage' = Lineage /\ Lineage \subseteq DOMAIN tabs
  BY LineageIsInTheWorkbook DEF Lineage
<1>2. \A r \in Runs : run'[r].status = run[r].status
  BY DEF SameStatus
<1>3. Keeps({w})
  <2>1. \A r \in Runs : run[r].status = "promoting" => run'[r].status \in Promoted
    BY <1>2 DEF Promoted
  <2> QED BY <1>1, <1>2, <2>1 DEF Keeps, SameLease
<1>4. Epochs'
  <2>1. OthersStay(w) /\ \A r \in Runs : SameFence(r) /\ run'[r].epoch = run[r].epoch
    BY DEF Moved, SameLease
  <2> QED BY <2>1, EpochsStay DEF IInv
<1>5. \A t \in DOMAIN tabs : tabs[t].by # None => tabs[t].by \in Runs
  BY Workbook DEF Types, Tabs, IInv
<1>6. LineageOK'
  <2>1. \A r \in Runs : run[r].status = "completed" => delivery[r].staging # 0
    BY DEF IInv, World, DeliveriesOK, DeliveryOK
  <2> QED BY <1>1, <1>2, <1>5, <2>1 DEF IInv, World, LineageOK
<1>7. TitlesOK'
  <2>1. \A t \in DOMAIN tabs : tabs[t].by = None => t \in Lineage
    BY DEF IInv, World, LineageOK
  <2>2. \A t \in DOMAIN tabs : t # 0
    BY LineageIsInTheWorkbook
  <2>3. \A t \in DOMAIN tabs : tabs[t].by # None =>
          /\ run'[tabs[t].by].status = run[tabs[t].by].status
          /\ t = delivery[tabs[t].by].staging => t = delivery'[tabs[t].by].staging
    BY <1>2, <1>5, <2>2
  <2> QED BY <1>1, <2>1, <2>3 DEF IInv, World, TitlesOK
<1>8. DeliveriesOK'
  BY DEF DeliveriesOK
<1> QED BY <1>3, <1>4, <1>6, <1>7, <1>8 DEF Sound, World, Moved

(* A delivery none of whose facts changed. *)
LEMMA SameDelivery ==
  ASSUME NEW q \in Runs, DeliveryOK(q), tabs' = tabs, janitor' = janitor, Lineage' = Lineage,
         SameStatus(q), SamePage(q), SameApplied(q),
         SameTabs(q), SameNext(q), SameStep(q), SameCleanup(q)
  PROVE  DeliveryOK(q)'
BY DEF DeliveryOK, SameStatus, SamePage, SameApplied, SameTabs, SameNext, SameStep, SameCleanup

LEMMA RecordArtifactStep ==
  ASSUME IInv, NEW w \in Workers, RecordArtifact(w)
  PROVE  Sound(w)
<1> DEFINE r == job[w].run
           t == job[w].tab
           o == job[w].old
<1>0. /\ pc[w] = "record" /\ Bound(w) /\ Fenced(w) /\ r \in Runs /\ WorkerTypes
      /\ RemembersRight(w) /\ InPhase(w) /\ t \in Nat /\ o \in Nat /\ DeliveryOK(r)
  BY Standing DEF RecordArtifact, Bound
<1>1. /\ run' = run /\ dest' = dest /\ tabs' = tabs /\ janitor' = janitor /\ Rest
      /\ delivery' = [delivery EXCEPT ![r].staging = t, ![r].old = o]
      /\ job' = job /\ Goto(w, "begin")
  BY RestIsTyped DEF RecordArtifact
<1>2. /\ delivery' \in [Runs -> DeliveryDocs]
      /\ \A q \in Runs : SameNext(q) /\ SameStep(q) /\ SameFence(q) /\ SameCleanup(q)
      /\ \A q \in Runs \ {r} : SameTabs(q)
      /\ delivery'[r].staging = t /\ delivery'[r].old = o
  <2>1. delivery \in [Runs -> DeliveryDocs]
    BY DEF IInv, Types
  <2>2. /\ r \in Runs /\ t \in Nat /\ o \in Nat
        /\ delivery' = [delivery EXCEPT ![r].staging = t, ![r].old = o]
    BY <1>0, <1>1
  <2> HIDE DEF r, t, o
  <2> QED BY <2>1, <2>2, ArtifactEdit
<1>3. /\ t # 0 /\ t \in DOMAIN tabs /\ tabs[t].by = r /\ tabs[t].marked /\ o \in Lineage
      /\ delivery[r].staging \in {0, t} /\ run[r].status \in Open \ {"queued"}
  BY <1>0 DEF RemembersRight, InPhase, Aimed, Preparing
<1>4. Moved(w, "begin") /\ job'[w] = job[w]
  BY <1>0, <1>1, Went DEF Labels
<1>5. Types'
  BY <1>1, <1>2, <1>4 DEF IInv, Types, Rest, WorkerTypes, Moved
<1>6. Lineage' = Lineage
  BY <1>1 DEF Lineage
<1>7. ASSUME NEW q \in Runs PROVE DeliveryOK(q)'
  <2>1. CASE q = r
    <3>1. delivery[r].staging = 0 => delivery[r].next = 1
      BY <1>0 DEF DeliveryOK
    <3>2. \A i \in 1 .. delivery[r].next - 1 : i \in tabs[t].rows
      <4>1. CASE delivery[r].staging = 0
        BY <3>1, <4>1
      <4>2. CASE delivery[r].staging = t
        BY <1>0, <1>3, <4>2 DEF DeliveryOK
      <4> QED BY <1>3, <4>1, <4>2
    <3>3. /\ run[r].status \in {"verifying", "promoting", "completed"} =>
               Report(r) \subseteq tabs[t].rows
          /\ run[r].applied /\ run[r].status = "promoting" => tabs[t].title = "published"
      BY <1>0, <1>3 DEF DeliveryOK
    <3>4. /\ delivery'[r].staging = t /\ delivery'[r].old = o
          /\ delivery'[r].next = delivery[r].next /\ delivery'[r].step = delivery[r].step
          /\ delivery'[r].cleanup = delivery[r].cleanup
      BY <1>0, <1>2 DEF SameNext, SameStep, SameCleanup
    <3>5. /\ delivery[r].step # "not_started" => run[r].status \in Promoted
          /\ run[r].applied => run[r].status \in Promoted
          /\ delivery[r].cleanup # "not_needed" => run[r].status = "cancelled"
          /\ janitor = r => run[r].status = "cancelled"
          /\ delivery[r].next \in 1 .. LastRow(r) + 1
          /\ run[r].page <= Pages[r]
          /\ run[r].page > 0 => delivery[r].next > run[r].page * PageBatches + 1
      BY <1>0 DEF DeliveryOK
    <3>6. run' = run /\ tabs' = tabs /\ janitor' = janitor
      BY <1>1
    <3> HIDE DEF r, t, o
    <3> QED BY <1>3, <1>6, <2>1, <3>2, <3>3, <3>4, <3>5, <3>6 DEF DeliveryOK
  <2>2. CASE q # r
    <3>1. DeliveryOK(q)
      BY DEF IInv, World, DeliveriesOK
    <3>2. SameStatus(q) /\ SamePage(q) /\ SameApplied(q)
      BY <1>1 DEF SameStatus, SamePage, SameApplied
    <3> QED BY <1>1, <1>2, <1>6, <2>2, <3>1, <3>2, SameDelivery
  <2> QED BY <2>1, <2>2
<1>8. RemembersRight(w)'
  BY <1>0, <1>1, <1>2, <1>3, <1>4, <1>6
  DEF Moved, RemembersRight, Aimed, Preparing, Recorded, Writing, Promoting
<1>9. InPhase(w)' /\ InRange(w)'
  BY <1>1, <1>3, <1>4 DEF Moved, InPhase, InRange, Preparing, Writing, Promoting
<1> QED BY <1>0, <1>1, <1>2, <1>3, <1>4, <1>5, <1>7, <1>8, <1>9, DocumentsStep
        DEF Moved, WorkerOK, SameStatus, SameLease, SamePage, SameTabs

LEMMA RecordChecksumStep ==
  ASSUME IInv, NEW w \in Workers, RecordChecksum(w)
  PROVE  Sound(w)
<1> DEFINE r == job[w].run
<1>0. /\ pc[w] = "page" /\ Bound(w) /\ Fenced(w) /\ r \in Runs /\ WorkerTypes
      /\ RemembersRight(w) /\ InPhase(w) /\ InRange(w)
  BY Standing DEF RecordChecksum, Bound
<1>1. /\ run' = run /\ dest' = dest /\ tabs' = tabs /\ janitor' = janitor /\ Rest
      /\ delivery' = [delivery EXCEPT ![r].sum = TRUE]
      /\ job' = job /\ Goto(w, "checkpoint")
  BY RestIsTyped DEF RecordChecksum
<1>2. /\ delivery' \in [Runs -> DeliveryDocs]
      /\ \A q \in Runs : SameTabs(q) /\ SameNext(q) /\ SameStep(q) /\ SameCleanup(q)
                         /\ SameFence(q)
  BY <1>0, <1>1, SumEdit DEF IInv, Types
<1>3. Moved(w, "checkpoint") /\ job'[w] = job[w]
  BY <1>0, <1>1, Went DEF Labels
<1>4. Types'
  BY <1>1, <1>2, <1>3 DEF IInv, Types, Rest, WorkerTypes, Moved
<1>5. Calm
  BY <1>1, <1>2 DEF Calm, Unmoved, SameStatus, SamePage, SameApplied
<1>6. Lineage' = Lineage
  BY <1>1 DEF Lineage
<1>7. RemembersRight(w)'
  BY <1>0, <1>1, <1>2, <1>3, <1>6
  DEF Moved, RemembersRight, Aimed, Preparing, Recorded, Writing, Promoting, SameTabs
<1>8. InPhase(w)'
  BY <1>0, <1>1, <1>2, <1>3
  DEF Moved, InPhase, Preparing, Writing, Promoting, Fenced, SameNext
<1>9. InRange(w)'
  BY <1>0, <1>3 DEF Moved, InRange, Writing, EndOfPage
<1> QED BY <1>0, <1>3, <1>4, <1>5, <1>7, <1>8, <1>9, CalmStep DEF Moved, WorkerOK

(* The steps of a promotion that record how far it has come. *)
LEMMA PromotionStep ==
  ASSUME IInv, NEW w \in Workers, NEW l \in {"check", "submit", "commit", "giveUp"},
         pc[w] \in Promoting, Goto(w, l), job' = job, Rest,
         dest' = dest, tabs' = tabs, janitor' = janitor,
         run' \in [Runs -> RunDocs], delivery' \in [Runs -> DeliveryDocs],
         \A q \in Runs :
           /\ SameStatus(q) /\ SamePage(q) /\ SameLease(q)
           /\ SameTabs(q) /\ SameNext(q) /\ SameFence(q) /\ SameCleanup(q),
         \A q \in Runs \ {job[w].run} : SameApplied(q) /\ SameStep(q),
         run'[job[w].run].applied =>
           run[job[w].run].applied \/ pc[w] \in {"adopt", "readopt", "apply"}
  PROVE  Sound(w)
<1> DEFINE r == job[w].run
<1>0. /\ Bound(w) /\ r \in Runs /\ WorkerTypes
      /\ RemembersRight(w) /\ InPhase(w) /\ DeliveryOK(r)
  BY Standing DEF Bound, Promoting
<1>1. /\ delivery[r].staging # 0 /\ job[w].tab = delivery[r].staging
      /\ run[r].status \in Promoted
      /\ pc[w] \in {"adopt", "readopt", "apply"} /\ run[r].status = "promoting" =>
           tabs[job[w].tab].title = "published"
  BY <1>0 DEF RemembersRight, Recorded
<1>2. Moved(w, l) /\ job'[w] = job[w]
  BY <1>0, Went DEF Labels, Promoting
<1>3. Types'
  BY <1>2 DEF IInv, Types, Rest, WorkerTypes, Moved
<1>4. Lineage' = Lineage
  BY DEF Lineage
<1>5. ASSUME NEW q \in Runs PROVE DeliveryOK(q)'
  <2>1. CASE q = r
    <3>1. /\ run'[q].status = run[q].status /\ run'[q].page = run[q].page
          /\ delivery'[q].staging = delivery[q].staging /\ delivery'[q].old = delivery[q].old
          /\ delivery'[q].next = delivery[q].next /\ delivery'[q].cleanup = delivery[q].cleanup
      BY DEF SameStatus, SamePage, SameTabs, SameNext, SameCleanup
    <3>2. /\ DeliveryOK(q) /\ delivery[q].staging # 0 /\ run[q].status \in Promoted
          /\ run'[q].applied /\ run[q].status = "promoting" =>
               tabs[delivery[q].staging].title = "published"
      BY <1>0, <1>1, <2>1 DEF DeliveryOK
    <3> QED BY <1>4, <3>1, <3>2 DEF DeliveryOK
  <2>2. CASE q # r
    <3>1. DeliveryOK(q)
      BY DEF IInv, World, DeliveriesOK
    <3> QED BY <1>4, <2>2, <3>1, SameDelivery
  <2> QED BY <2>1, <2>2
<1>6. RemembersRight(w)'
  BY <1>0, <1>1, <1>2, <1>4
  DEF Moved, RemembersRight, Aimed, Preparing, Recorded, Writing, Promoting, SameStatus, SameTabs
<1>7. InPhase(w)' /\ InRange(w)'
  BY <1>0, <1>2
  DEF Moved, InPhase, InRange, Preparing, Writing, Promoting, Fenced, SameStatus, SameFence
<1> QED BY <1>0, <1>2, <1>3, <1>5, <1>6, <1>7, DocumentsStep DEF Moved, WorkerOK, SameTabs

LEMMA PromotionSteps ==
  ASSUME IInv, NEW w \in Workers,
         \/ Reserve(w) \/ Adopt(w) \/ MarkApplied(w) \/ RecordRename(w) \/ RecordAmbiguous(w)
  PROVE  Sound(w)
<1> DEFINE r == job[w].run
<1>0. /\ pc[w] \in {"reserve", "adopt", "readopt", "apply", "submit", "ambiguous"}
      /\ r \in Runs /\ job[w].epoch \in Nat
      /\ run \in [Runs -> RunDocs] /\ delivery \in [Runs -> DeliveryDocs]
  BY Standing DEF Reserve, Adopt, MarkApplied, RecordRename, RecordAmbiguous, Bound, IInv, Types
<1>1. pc[w] \in Promoting
  BY <1>0 DEF Promoting
<1>2. CASE Reserve(w) \/ Adopt(w) \/ MarkApplied(w)
  <2> DEFINE l == IF pc[w] = "reserve" THEN "check"
                  ELSE IF pc[w] \in {"adopt", "apply"} THEN "submit" ELSE "commit"
  <2>1. /\ Goto(w, l) /\ job' = job /\ Rest
        /\ delivery' = delivery /\ dest' = dest /\ tabs' = tabs /\ janitor' = janitor
        /\ \/ /\ pc[w] = "reserve"
              /\ run' = [run EXCEPT ![r].gen = job[w].epoch, ![r].applied = FALSE]
           \/ /\ pc[w] \in {"adopt", "readopt"}
              /\ run' = [run EXCEPT ![r].gen = job[w].epoch, ![r].applied = TRUE]
           \/ /\ pc[w] = "apply"
              /\ run' = [run EXCEPT ![r].applied = TRUE]
    BY <1>2, RestIsTyped DEF Reserve, Adopt, MarkApplied
  <2>2. /\ run' \in [Runs -> RunDocs]
        /\ \A q \in Runs : SameStatus(q) /\ SamePage(q) /\ SameLease(q)
        /\ \A q \in Runs \ {r} : SameApplied(q)
        /\ run'[r].applied => pc[w] \in {"adopt", "readopt", "apply"}
    BY <1>0, <2>1, ReservationEdit, AppliedEdit
  <2>3. \A q \in Runs : SameTabs(q) /\ SameNext(q) /\ SameFence(q) /\ SameCleanup(q)
                        /\ SameStep(q)
    BY <2>1 DEF SameTabs, SameNext, SameFence, SameCleanup, SameStep
  <2>4. l \in {"check", "submit", "commit", "giveUp"}
    OBVIOUS
  <2> HIDE DEF l
  <2> QED BY <1>0, <1>1, <2>1, <2>2, <2>3, <2>4, PromotionStep
<1>3. CASE RecordRename(w) \/ RecordAmbiguous(w)
  <2>1. PICK l \in {"commit", "giveUp"}, s \in {"submitted", "ambiguous"} :
          /\ Goto(w, l) /\ delivery' = [delivery EXCEPT ![r].step = s]
          /\ job' = job /\ Rest
          /\ run' = run /\ dest' = dest /\ tabs' = tabs /\ janitor' = janitor
    BY <1>3, RestIsTyped DEF RecordRename, RecordAmbiguous
  <2>2. /\ delivery' \in [Runs -> DeliveryDocs]
        /\ \A q \in Runs : SameTabs(q) /\ SameNext(q) /\ SameFence(q) /\ SameCleanup(q)
        /\ \A q \in Runs \ {r} : SameStep(q)
    BY <1>0, <2>1, StepEdit
  <2>3. /\ \A q \in Runs : SameStatus(q) /\ SamePage(q) /\ SameLease(q) /\ SameApplied(q)
        /\ run'[r].applied => run[r].applied
    BY <2>1 DEF SameStatus, SamePage, SameLease, SameApplied
  <2> QED BY <1>0, <1>1, <2>1, <2>2, <2>3, PromotionStep
<1> QED BY <1>2, <1>3

LEMMA AcknowledgeStep ==
  ASSUME IInv, NEW w \in Workers, Acknowledge(w)
  PROVE  Sound(w)
<1> DEFINE r == job[w].run
           i == job[w].next
           l == CASE i = 1             -> "read"
                  [] i >= EndOfPage(w) -> "page"
                  [] OTHER             -> "write"
           s == IF i = 1 THEN "writing" ELSE delivery[r].status
<1>0. /\ pc[w] = "acknowledge" /\ Bound(w) /\ Fenced(w) /\ r \in Runs /\ WorkerTypes
      /\ RemembersRight(w) /\ InPhase(w) /\ InRange(w)
      /\ i \in Nat /\ job[w].page \in Nat /\ DeliveryOK(r)
      /\ i \in Report(r) /\ EndOfPage(w) \in Nat
  BY Standing, NextIsARow, ReportingAssumption DEF Acknowledge, Bound, EndOfPage
<1>1. /\ run' = run /\ dest' = dest /\ tabs' = tabs /\ janitor' = janitor /\ Rest
      /\ delivery' = [delivery EXCEPT ![r].next = i + 1, ![r].status = s]
      /\ job' = [job EXCEPT ![w].next = i + 1] /\ Goto(w, l)
  BY RestIsTyped DEF Acknowledge
<1>2. /\ delivery' \in [Runs -> DeliveryDocs]
      /\ \A q \in Runs : SameTabs(q) /\ SameStep(q) /\ SameFence(q) /\ SameCleanup(q)
      /\ \A q \in Runs \ {r} : SameNext(q)
      /\ delivery'[r].next = i + 1
  <2>1. s \in {"pending", "writing", "completed", "failed", "cancelled"}
    BY <1>0 DEF IInv, Types, DeliveryDocs
  <2>2. delivery \in [Runs -> DeliveryDocs] /\ i + 1 \in Nat
    BY <1>0 DEF IInv, Types
  <2>3. delivery' = [delivery EXCEPT ![r].next = i + 1, ![r].status = s]
    BY <1>1
  <2> HIDE DEF s, r, i
  <2> QED BY <1>0, <2>1, <2>2, <2>3, NextEdit
<1>3. /\ delivery[r].staging # 0 /\ job[w].tab = delivery[r].staging
      /\ run[r].status = "writing"
      /\ delivery[r].next = i /\ run[r].page = job[w].page
      /\ i \in tabs[delivery[r].staging].rows
  BY <1>0 DEF RemembersRight, InPhase, Recorded, Writing
<1>4. /\ l \in {"read", "page", "write"}
      /\ l = "page" => i # 1 /\ i >= EndOfPage(w)
      /\ l = "write" => i # 1 /\ i < EndOfPage(w)
  <2>1. CASE i = 1
    <3>1. EndOfPage(w) > 1
      <4>1. \A a, b \in Nat \ {0} : a * b \in Nat \ {0}
        OBVIOUS
      <4>2. job[w].page + 1 \in Nat \ {0} /\ PageBatches \in Nat \ {0}
        BY <1>0, ReportingAssumption
      <4> DEFINE c == (job[w].page + 1) * PageBatches
      <4>3. c \in Nat \ {0} /\ EndOfPage(w) = c + 1
        BY <4>1, <4>2 DEF EndOfPage
      <4> HIDE DEF c
      <4> QED BY <4>3
    <3>2. ~(i >= EndOfPage(w))
      BY <1>0, <2>1, <3>1
    <3> QED BY <2>1, <3>2
  <2>2. CASE i # 1 /\ i >= EndOfPage(w)
    BY <2>2
  <2>3. CASE i # 1 /\ ~(i >= EndOfPage(w))
    <3>1. i < EndOfPage(w)
      BY <1>0, <2>3
    <3>2. l = "write"
      BY <2>3
    <3> QED BY <2>3, <3>1, <3>2
  <2> QED BY <2>1, <2>2, <2>3
<1>5. /\ Moved(w, l) /\ job'[w].next = i + 1 /\ job'[w].page = job[w].page
      /\ job'[w].tab = job[w].tab /\ job'[w].old = job[w].old
  <2>1. l \in Labels \ {"idle"} /\ pc[w] # "idle" /\ i + 1 \in Nat /\ job[w].page \in Nat
    BY <1>0, <1>4 DEF Labels
  <2>2. Goto(w, l) /\ job' = [job EXCEPT ![w].next = i + 1]
    BY <1>1
  <2> HIDE DEF l, i
  <2> QED BY <1>0, <2>1, <2>2, WentWithNext
<1> HIDE DEF l, s
<1>6. Types'
  BY <1>1, <1>2, <1>5 DEF IInv, Types, Rest, WorkerTypes, Moved
<1>7. Lineage' = Lineage
  BY <1>1 DEF Lineage
<1>8. ASSUME NEW q \in Runs PROVE DeliveryOK(q)'
  <2>1. CASE q = r
    <3>1. i + 1 \in 1 .. LastRow(r) + 1
      BY <1>0, LastRowIsARow DEF Report
    <3>2. \A k \in 1 .. i : k \in tabs[delivery[r].staging].rows
      <4>1. \A k \in 1 .. i - 1 : k \in tabs[delivery[r].staging].rows
        BY <1>0, <1>3 DEF DeliveryOK
      <4>2. \A k \in 1 .. i : k = i \/ k \in 1 .. i - 1
        BY <1>0
      <4> QED BY <1>3, <4>1, <4>2
    <3>3. run[r].page > 0 => i + 1 > run[r].page * PageBatches + 1
      <4>1. run[r].page > 0 => i > run[r].page * PageBatches + 1
        BY <1>0, <1>3 DEF DeliveryOK
      <4>2. run[r].page * PageBatches + 1 \in Nat
        BY <1>0, <1>3, ReportingAssumption
      <4> QED BY <1>0, <4>1, <4>2
    <3>4. (i + 1) - 1 = i
      BY <1>0
    <3>5. /\ delivery'[r].staging = delivery[r].staging /\ delivery'[r].old = delivery[r].old
          /\ delivery'[r].next = i + 1 /\ delivery'[r].step = delivery[r].step
          /\ delivery'[r].cleanup = delivery[r].cleanup
      BY <1>0, <1>2 DEF SameTabs, SameStep, SameCleanup
    <3>6. /\ run' = run /\ tabs' = tabs /\ janitor' = janitor
      BY <1>1
    <3>7. DeliveryOK(r) /\ delivery[r].staging # 0
      BY <1>0, <1>3
    <3> HIDE DEF r, i
    <3> QED BY <1>7, <2>1, <3>1, <3>2, <3>3, <3>4, <3>5, <3>6, <3>7 DEF DeliveryOK
  <2>2. CASE q # r
    <3>1. DeliveryOK(q)
      BY DEF IInv, World, DeliveriesOK
    <3>2. SameStatus(q) /\ SamePage(q) /\ SameApplied(q)
      BY <1>1 DEF SameStatus, SamePage, SameApplied
    <3> QED BY <1>1, <1>2, <1>7, <2>2, <3>1, <3>2, SameDelivery
  <2> QED BY <2>1, <2>2
<1>9. RemembersRight(w)'
  <2>1. /\ pc'[w] = l /\ job'[w].run = r /\ job'[w].tab = job[w].tab /\ job'[w].old = job[w].old
        /\ run' = run /\ dest' = dest /\ tabs' = tabs
        /\ delivery'[r].staging = delivery[r].staging
    BY <1>0, <1>1, <1>2, <1>5 DEF Moved, SameTabs
  <2>2. /\ job[w].old \in Lineage /\ tabs[job[w].old].by # r
        /\ job[w].tab \in DOMAIN tabs /\ tabs[job[w].tab].by = r
    BY <1>0, <1>3 DEF RemembersRight, Aimed, Recorded, Writing
  <2> HIDE DEF r
  <2> QED BY <1>3, <1>4, <1>7, <2>1, <2>2 DEF RemembersRight, Promoting
<1>10. InPhase(w)'
  BY <1>1, <1>2, <1>3, <1>4, <1>5
  DEF Moved, InPhase, Preparing, Writing, Promoting
<1>11. InRange(w)'
  <2>1. job[w].page <= Pages[r]
    BY <1>0 DEF InRange, Writing
  <2>2. job[w].page > 0 => i + 1 > job[w].page * PageBatches + 1
    <3>1. job[w].page > 0 => i > job[w].page * PageBatches + 1
      BY <1>0 DEF InRange, Writing
    <3>2. job[w].page * PageBatches + 1 \in Nat
      BY <1>0, ReportingAssumption
    <3> QED BY <1>0, <3>1, <3>2
  <2>3. i # 1 => job[w].page < Pages[r]
    BY <1>0 DEF InRange
  <2>4. i + 1 > 0
    BY <1>0
  <2>5. EndOfPage(w)' = EndOfPage(w)
    BY <1>5 DEF EndOfPage
  <2>6. /\ l = "page" => i + 1 > EndOfPage(w)
        /\ l = "write" => i + 1 <= EndOfPage(w)
    BY <1>0, <1>4
  <2>7. /\ pc'[w] = l /\ job'[w].run = r
    BY <1>5 DEF Moved
  <2> HIDE DEF i
  <2> QED BY <1>4, <1>5, <2>1, <2>2, <2>3, <2>4, <2>5, <2>6, <2>7 DEF InRange, Writing
<1> QED BY <1>0, <1>1, <1>2, <1>5, <1>6, <1>8, <1>9, <1>10, <1>11, DocumentsStep
        DEF Moved, WorkerOK, SameStatus, SameLease, SamePage, SameTabs

LEMMA CheckpointStep ==
  ASSUME IInv, NEW w \in Workers, Checkpoint(w)
  PROVE  Sound(w)
<1> DEFINE r == job[w].run
           p == job[w].page
<1>0. /\ pc[w] = "checkpoint" /\ Bound(w) /\ Held(w) /\ Fenced(w) /\ r \in Runs /\ WorkerTypes
      /\ RemembersRight(w) /\ InPhase(w) /\ InRange(w)
      /\ p \in Nat /\ job[w].next \in Nat /\ DeliveryOK(r)
  BY Standing DEF Checkpoint, Bound
<1>1. /\ delivery' = delivery /\ dest' = dest /\ tabs' = tabs /\ janitor' = janitor /\ Rest
      /\ run' = [run EXCEPT ![r].page = p + 1]
      /\ job' = [job EXCEPT ![w].page = p + 1] /\ Goto(w, "read")
  BY RestIsTyped DEF Checkpoint
<1>2. /\ run' \in [Runs -> RunDocs]
      /\ \A q \in Runs : SameStatus(q) /\ SameApplied(q) /\ SameLease(q)
      /\ \A q \in Runs \ {r} : SamePage(q)
      /\ run'[r].page = p + 1
  <2>1. run \in [Runs -> RunDocs] /\ p + 1 \in Nat
    BY <1>0 DEF IInv, Types
  <2>2. run' = [run EXCEPT ![r].page = p + 1]
    BY <1>1
  <2> HIDE DEF r, p
  <2> QED BY <1>0, <2>1, <2>2, PageEdit
<1>3. /\ delivery[r].staging # 0 /\ job[w].tab = delivery[r].staging
      /\ run[r].status = "writing" /\ delivery[r].next = job[w].next
      /\ p < Pages[r] /\ job[w].next > EndOfPage(w)
  BY <1>0 DEF RemembersRight, InPhase, InRange, Recorded, Writing
<1>4. /\ p + 1 <= Pages[r] /\ job[w].next > (p + 1) * PageBatches + 1
      /\ p + 1 \in Nat /\ job[w].next > 0
  BY <1>0, <1>3, ReportingAssumption DEF EndOfPage, InRange, Writing
<1>5. /\ Moved(w, "read") /\ job'[w].next = job[w].next /\ job'[w].page = p + 1
      /\ job'[w].tab = job[w].tab /\ job'[w].old = job[w].old
  <2>1. "read" \in Labels \ {"idle"} /\ pc[w] # "idle"
    BY <1>0 DEF Labels
  <2>2. p + 1 \in Nat /\ Goto(w, "read") /\ job' = [job EXCEPT ![w].page = p + 1]
    BY <1>1, <1>4
  <2> HIDE DEF p
  <2> QED BY <1>0, <2>1, <2>2, WentWithPage
<1>6. Types'
  BY <1>1, <1>2, <1>5 DEF IInv, Types, Rest, WorkerTypes, Moved
<1>7. Lineage' = Lineage
  BY <1>1 DEF Lineage
<1>8. ASSUME NEW q \in Runs PROVE DeliveryOK(q)'
  <2>1. CASE q = r
    <3>1. /\ delivery' = delivery /\ tabs' = tabs /\ janitor' = janitor
          /\ run'[r].status = run[r].status /\ run'[r].applied = run[r].applied
          /\ run'[r].page = p + 1
      BY <1>0, <1>1, <1>2 DEF SameStatus, SameApplied
    <3>2. DeliveryOK(r) /\ p + 1 <= Pages[r] /\ delivery[r].next > (p + 1) * PageBatches + 1
      BY <1>0, <1>3, <1>4
    <3> HIDE DEF r, p
    <3> QED BY <1>7, <2>1, <3>1, <3>2 DEF DeliveryOK
  <2>2. CASE q # r
    <3>1. DeliveryOK(q)
      BY DEF IInv, World, DeliveriesOK
    <3>2. SameTabs(q) /\ SameNext(q) /\ SameStep(q) /\ SameCleanup(q)
      BY <1>1 DEF SameTabs, SameNext, SameStep, SameCleanup
    <3> QED BY <1>1, <1>2, <1>7, <2>2, <3>1, <3>2, SameDelivery
  <2> QED BY <2>1, <2>2
<1>9. RemembersRight(w)'
  BY <1>0, <1>1, <1>2, <1>3, <1>5, <1>7
  DEF Moved, RemembersRight, Aimed, Recorded, Writing, Preparing, Promoting, SameStatus
<1>10. InPhase(w)'
  BY <1>0, <1>1, <1>2, <1>3, <1>5
  DEF Moved, InPhase, Preparing, Writing, Promoting, SameStatus
<1>11. InRange(w)'
  <2>1. pc'[w] = "read" /\ job'[w].run = r
    BY <1>5 DEF Moved
  <2> HIDE DEF p
  <2> QED BY <1>4, <1>5, <2>1 DEF InRange, Writing
<1> QED BY <1>0, <1>1, <1>2, <1>5, <1>6, <1>8, <1>9, <1>10, <1>11, DocumentsStep
        DEF Moved, WorkerOK, SameFence, SameNext

-----------------------------------------------------------------------------
(* Steps from one status of the run to the next. *)

LEMMA BeginStep ==
  ASSUME IInv, NEW w \in Workers, Begin(w)
  PROVE  Sound(w)
<1> DEFINE r == job[w].run
           s == IF run[r].status = "querying" THEN "writing" ELSE run[r].status
           l == ResumeAt(run[r].status)
           n == delivery[r].next
           p == run[r].page
<1>0. /\ pc[w] = "begin" /\ Bound(w) /\ Held(w) /\ Fenced(w) /\ r \in Runs /\ WorkerTypes
      /\ RemembersRight(w) /\ DeliveryOK(r) /\ run[r].status \in Open \ {"queued"}
  BY Standing DEF Begin, Bound, InPhase, Preparing
<1>1. /\ delivery' = delivery /\ dest' = dest /\ tabs' = tabs /\ janitor' = janitor /\ Rest
      /\ run' = [run EXCEPT ![r].status = s]
      /\ job' = [job EXCEPT ![w].next = n, ![w].page = p] /\ Goto(w, l)
  BY RestIsTyped DEF Begin
<1>2. /\ s \in {"writing", "verifying", "promoting"}
      /\ l = CASE s = "verifying" -> "verify"
               [] s = "promoting" -> "promote"
               [] s = "writing"   -> "read"
      /\ s # "writing" => s = run[r].status
  BY <1>0 DEF Open, Cancellable, ResumeAt
<1>3. Advances(w, s)
  BY <1>0, <1>1, <1>2 DEF Advances, Open, Cancellable
<1>4. l \in {"verify", "promote", "read"}
  BY <1>2
<1>5. n \in Nat /\ p \in Nat
  BY <1>0 DEF IInv, Types, DeliveryDocs, RunDocs
<1> HIDE DEF s, l, n, p
<1>6. /\ run' \in [Runs -> RunDocs] /\ run'[r].status = s /\ run'[r].page = run[r].page
  BY <1>3, AdvanceEffect DEF IInv, SamePage
<1>7. /\ Moved(w, l) /\ job'[w].next = n /\ job'[w].page = p
      /\ job'[w].tab = job[w].tab /\ job'[w].old = job[w].old
  <2>1. l \in Labels \ {"idle"} /\ pc[w] # "idle"
    BY <1>0, <1>4 DEF Labels
  <2>2. Goto(w, l) /\ job' = [job EXCEPT ![w].next = n, ![w].page = p]
    BY <1>1
  <2> QED BY <1>0, <1>5, <2>1, <2>2, WentWithProgress, ZenonT(60)
<1>8. Types'
  BY <1>1, <1>6, <1>7 DEF IInv, Types, Rest, WorkerTypes, Moved
<1>9. job[w].tab # 0 /\ job[w].tab = delivery[r].staging
  BY <1>0 DEF RemembersRight, Recorded
<1>10. RemembersRight(w)'
  <2>1. l = "promote" => Report(r) \subseteq tabs[job[w].tab].rows /\ s = "promoting"
    BY <1>0, <1>2, <1>9 DEF DeliveryOK
  <2>2. job[w].old \in Lineage /\ tabs[job[w].old].by # r
    BY <1>0 DEF RemembersRight, Aimed, Preparing
  <2> QED BY <1>0, <1>1, <1>2, <1>4, <1>6, <1>7, <1>9, <2>1, <2>2
          DEF Moved, RemembersRight, Writing, Promoting, Promoted, Lineage
<1>11. InPhase(w)'
  BY <1>1, <1>2, <1>4, <1>6, <1>7 DEF Moved, InPhase, Preparing, Writing, Promoting, n, p
<1>12. InRange(w)'
  <2>1. p <= Pages[r] /\ n > 0 /\ (p > 0 => n > p * PageBatches + 1)
    BY <1>0, LastRowIsARow DEF DeliveryOK, n, p
  <2> QED BY <1>4, <1>7, <2>1 DEF Moved, InRange, Writing
<1> QED BY <1>3, <1>7, <1>8, <1>10, <1>11, <1>12, AdvanceStep DEF Moved, WorkerOK

LEMMA EndWritingStep ==
  ASSUME IInv, NEW w \in Workers, EndWriting(w)
  PROVE  Sound(w)
<1> DEFINE r == job[w].run
           t == job[w].tab
<1>0. /\ pc[w] = "read" /\ Bound(w) /\ Held(w) /\ Fenced(w) /\ r \in Runs /\ WorkerTypes
      /\ RemembersRight(w) /\ InPhase(w) /\ InRange(w) /\ DeliveryOK(r)
      /\ job[w].page = Pages[r] /\ job[w].next > 1
      /\ job[w].next \in Nat /\ job[w].page \in Nat
  BY Standing DEF EndWriting, Bound
<1>1. /\ delivery' = delivery /\ dest' = dest /\ tabs' = tabs /\ janitor' = janitor /\ Rest
      /\ run' = [run EXCEPT ![r].status = "verifying"]
      /\ job' = job /\ Goto(w, "verify")
  BY RestIsTyped DEF EndWriting
<1>2. /\ t # 0 /\ t = delivery[r].staging
      /\ run[r].status = "writing" /\ delivery[r].next = job[w].next
  BY <1>0 DEF RemembersRight, InPhase, Recorded, Writing
<1>3. Report(r) \subseteq tabs[t].rows
  <2>1. job[w].next > LastRow(r)
    <3>1. CASE job[w].page = 0
      <4>1. LastRow(r) = 1
        <5>1. \A b \in Nat : 0 * b = 0
          OBVIOUS
        <5>2. Pages[r] = 0 /\ PageBatches \in Nat
          BY <1>0, <3>1, ReportingAssumption
        <5>3. Pages[r] * PageBatches = 0
          BY <5>1, <5>2
        <5> QED BY <5>3 DEF LastRow
      <4> QED BY <1>0, <4>1
    <3>2. CASE job[w].page # 0
      BY <1>0, <3>2 DEF InRange, Writing, LastRow
    <3> QED BY <3>1, <3>2
  <2>2. \A i \in 1 .. job[w].next - 1 : i \in tabs[t].rows
    BY <1>0, <1>2 DEF DeliveryOK
  <2>3. \A i \in Report(r) : i \in 1 .. job[w].next - 1
    BY <1>0, <2>1, LastRowIsARow DEF Report
  <2> QED BY <2>2, <2>3
<1>4. Advances(w, "verifying")
  BY <1>0, <1>1, <1>2, <1>3 DEF Advances
<1>5. /\ run' \in [Runs -> RunDocs] /\ run'[r].status = "verifying"
  BY <1>4, AdvanceEffect DEF IInv
<1>6. Moved(w, "verify") /\ job'[w] = job[w]
  BY <1>0, <1>1, Went DEF Labels
<1>7. Types'
  BY <1>1, <1>5, <1>6 DEF IInv, Types, Rest, WorkerTypes, Moved
<1>8. RemembersRight(w)'
  BY <1>0, <1>1, <1>2, <1>5, <1>6
  DEF Moved, RemembersRight, Aimed, Recorded, Writing, Preparing, Promoting, Lineage
<1>9. InPhase(w)' /\ InRange(w)'
  BY <1>5, <1>6 DEF Moved, InPhase, InRange, Preparing, Writing, Promoting
<1> QED BY <1>4, <1>6, <1>7, <1>8, <1>9, AdvanceStep DEF Moved, WorkerOK

LEMMA VerifyStep ==
  ASSUME IInv, NEW w \in Workers, Verify(w)
  PROVE  Sound(w)
<1> DEFINE r == job[w].run
           t == job[w].tab
<1>0. /\ pc[w] = "verify" /\ Bound(w) /\ Held(w) /\ Fenced(w) /\ r \in Runs /\ WorkerTypes
      /\ RemembersRight(w) /\ run[r].status = "verifying"
  BY Standing DEF Verify, Bound, InPhase
<1>1. /\ delivery' = delivery /\ dest' = dest /\ tabs' = tabs /\ janitor' = janitor /\ Rest
      /\ job' = job
  BY RestIsTyped DEF Verify
<1>2. CASE tabs[t].rows = Report(r)
  <2>1. run' = [run EXCEPT ![r].status = "promoting"] /\ Goto(w, "promote")
    BY <1>2 DEF Verify
  <2>2. Advances(w, "promoting")
    BY <1>0, <1>1, <2>1 DEF Advances
  <2>3. /\ run' \in [Runs -> RunDocs] /\ run'[r].status = "promoting"
    BY <2>2, AdvanceEffect DEF IInv
  <2>4. Moved(w, "promote") /\ job'[w] = job[w]
    BY <1>0, <1>1, <2>1, Went DEF Labels
  <2>5. Types'
    BY <1>1, <2>3, <2>4 DEF IInv, Types, Rest, WorkerTypes, Moved
  <2>6. RemembersRight(w)'
    BY <1>0, <1>1, <1>2, <2>3, <2>4
    DEF Moved, RemembersRight, Aimed, Recorded, Writing, Preparing, Promoting, Promoted, Lineage
  <2>7. InPhase(w)' /\ InRange(w)'
    BY <2>3, <2>4 DEF Moved, InPhase, InRange, Preparing, Writing, Promoting
  <2> QED BY <2>2, <2>4, <2>5, <2>6, <2>7, AdvanceStep DEF Moved, WorkerOK
<1>3. CASE tabs[t].rows # Report(r)
  BY <1>0, <1>1, <1>3, Failure DEF Verify, FailRun, Open, Cancellable
<1> QED BY <1>2, <1>3

LEMMA RecoverStep ==
  ASSUME IInv, NEW w \in Workers, Recover(w)
  PROVE  Sound(w)
<1> DEFINE r == job[w].run
           t == delivery[r].staging
           o == delivery[r].old
           ok == /\ delivery[r].sum /\ AlreadyPromoted(o, t)
                 /\ tabs[t].rows = Report(r)
<1>0. /\ pc[w] = "recover" /\ Bound(w) /\ Held(w) /\ Fenced(w) /\ r \in Runs /\ WorkerTypes
      /\ RemembersRight(w) /\ run[r].status = "promoting" /\ DeliveryOK(r)
  BY Standing DEF Recover, Bound, InPhase
<1>1. /\ delivery' = delivery /\ dest' = dest /\ tabs' = tabs /\ janitor' = janitor /\ Rest
  BY RestIsTyped DEF Recover
<1>2. CASE ok
  <2>1. /\ run' = run /\ Goto(w, "readopt")
        /\ job' = [job EXCEPT ![w].tab = t, ![w].old = o]
        /\ tabs[t].title = "published" /\ tabs[t].rows = Report(r)
    BY <1>2 DEF Recover, AlreadyPromoted
  <2>2. t # 0 /\ t \in DOMAIN tabs /\ tabs[t].by = r /\ o \in Lineage
    BY <1>0 DEF DeliveryOK
  <2>3. t \in Nat /\ o \in Nat /\ tabs[o].by # r
    BY <1>0, <2>2, LineageIsInTheWorkbook, TabsOfAnOpenRun DEF Open
  <2> HIDE DEF t, o
  <2>4. Moved(w, "readopt") /\ job'[w].tab = t /\ job'[w].old = o
    <3>1. "readopt" \in Labels \ {"idle"} /\ pc[w] # "idle" /\ WorkerTypes
          /\ t \in Nat /\ o \in Nat
      BY <1>0, <2>3 DEF Labels
    <3>2. Goto(w, "readopt") /\ job' = [job EXCEPT ![w].tab = t, ![w].old = o]
      BY <2>1
    <3> HIDE DEF r, ok
    <3> QED BY <3>1, <3>2, WentWithTabs, ZenonT(60)
  <2>5. RemembersRight(w)'
    <3>1. /\ pc'[w] = "readopt" /\ job'[w].run = r /\ job'[w].tab = t /\ job'[w].old = o
          /\ run' = run /\ delivery' = delivery /\ dest' = dest /\ tabs' = tabs
      BY <1>1, <2>1, <2>4 DEF Moved
    <3>2. /\ Lineage' = Lineage /\ t = delivery[r].staging
          /\ run[r].status = "promoting" /\ tabs[t].title = "published" /\ tabs[t].rows = Report(r)
      BY <1>0, <2>1, <3>1 DEF Lineage, t
    <3> HIDE DEF r
    <3> QED BY <2>2, <2>3, <3>1, <3>2 DEF RemembersRight, Writing, Promoted
  <2>6. InPhase(w)' /\ InRange(w)'
    BY <1>0, <2>1, <2>4 DEF Moved, InPhase, InRange, Preparing, Writing, Promoting
  <2> QED BY <1>0, <1>1, <2>1, <2>4, <2>5, <2>6, StillStep DEF Moved, WorkerOK, Still
<1>3. CASE ~ok
  <2>1. FailRun(w) /\ job' = job
    BY <1>3 DEF Recover
  <2> QED BY <1>0, <1>1, <2>1, Failure DEF FailRun, Open
<1> QED BY <1>2, <1>3

(* A destination still names the tab that a run replaces when it commits. *)
LEMMA CommitStep ==
  ASSUME IInv, NEW w \in Workers, Commit(w)
  PROVE  Sound(w)
<1> DEFINE r == job[w].run
           t == job[w].tab
           o == job[w].old
<1>0. /\ pc[w] = "commit" /\ Bound(w) /\ Held(w) /\ Fenced(w) /\ r \in Runs /\ WorkerTypes
      /\ RemembersRight(w) /\ DeliveryOK(r) /\ t \in Nat /\ o \in Nat
      /\ run[r].status = "promoting" /\ run[r].applied
  BY Standing DEF Commit, CommitAllowed, Bound
<1>1. /\ tabs' = tabs /\ janitor' = janitor /\ Rest /\ Leave(w)
      /\ run' = [run EXCEPT ![r].status = "completed"]
      /\ delivery' = [delivery EXCEPT ![r].status = "completed", ![r].step = "updated"]
      /\ dest' = [sheet |-> t, preds |-> dest.preds \cup {o}]
  BY RestIsTyped DEF Commit, NextDestination
<1>2. /\ t # 0 /\ t = delivery[r].staging /\ t \in DOMAIN tabs /\ tabs[t].by = r
      /\ tabs[t].title = "published" /\ Report(r) \subseteq tabs[t].rows
      /\ o \in Lineage
  BY <1>0 DEF RemembersRight, DeliveryOK, Aimed, Recorded, Promoting
<1>3. t \notin Lineage
  BY <1>0, <1>2, TabsOfAnOpenRun DEF Open
<1>4. dest.sheet = o
  BY <1>3 DEF Commit, CommitAllowed, Lineage
<1>5. /\ run' \in [Runs -> RunDocs]
      /\ \A q \in Runs : SamePage(q) /\ SameApplied(q) /\ SameLease(q)
      /\ \A q \in Runs \ {r} : SameStatus(q)
      /\ run'[r].status = "completed"
  <2>1. run \in [Runs -> RunDocs] /\ "completed" \in Statuses
    BY DEF IInv, Types, Statuses
  <2> HIDE DEF r
  <2> QED BY <1>0, <1>1, <2>1, StatusEdit
<1>6. /\ delivery' \in [Runs -> DeliveryDocs]
      /\ \A q \in Runs : SameTabs(q) /\ SameNext(q) /\ SameFence(q) /\ SameCleanup(q)
      /\ \A q \in Runs \ {r} : SameStep(q)
  <2>1. delivery \in [Runs -> DeliveryDocs]
    BY DEF IInv, Types
  <2> HIDE DEF r
  <2> QED BY <1>0, <1>1, <2>1, CompletionEdit
<1>7. /\ WorkerTypes' /\ OthersStay(w)
      /\ pc'[w] = "idle" /\ job'[w] = NoJob
  BY <1>0, <1>1, Left
<1>8. /\ dest'.sheet = t /\ dest'.preds = dest.preds \cup {o} /\ dest'.preds = Lineage
      /\ Lineage' = Lineage \cup {t} /\ dest' \in [sheet : Nat, preds : SUBSET Nat]
  BY <1>0, <1>1, <1>4 DEF Lineage, IInv, Types
<1>9. Types'
  BY <1>1, <1>5, <1>6, <1>7, <1>8 DEF IInv, Types, Rest, WorkerTypes
<1>10. Keeps({w})
  <2>1. \A q \in Runs : run[q].status = "promoting" => run'[q].status \in Promoted
    BY <1>5 DEF SameStatus, Promoted
  <2>2. \A q \in Runs : run[q].status \in Ended => SameStatus(q)
    BY <1>0, <1>5 DEF Ended
  <2>3. \A q \in Runs : SameStatus(q) \/ q = r
    BY <1>5
  <2> QED BY <1>0, <1>1, <1>5, <1>6, <1>8, <2>1, <2>2, <2>3 DEF Keeps, SameTabs, SameLease
<1>11. Epochs'
  BY <1>5, <1>6, <1>7, EpochsStay DEF IInv, SameLease
<1>12. \A u \in DOMAIN tabs : tabs[u].by # None =>
         /\ tabs[u].by \in Runs
         /\ run'[tabs[u].by].status = run[tabs[u].by].status \/ tabs[u].by = r
  BY <1>5, Workbook DEF IInv, Types, Tabs, SameStatus
<1>13. LineageOK'
  <2>1. \A q \in Runs : run'[q].status = "completed" => delivery'[q].staging \in Lineage \cup {t}
    BY <1>2, <1>5, <1>6 DEF SameStatus, SameTabs, IInv, World, LineageOK
  <2>2. Lineage \cup {t} \subseteq DOMAIN tabs
    BY <1>2, LineageIsInTheWorkbook
  <2>3. \A u \in Lineage \cup {t} : tabs[u].by # None => run'[tabs[u].by].status = "completed"
    BY <1>2, <1>5, <1>12, <2>2 DEF IInv, World, LineageOK
  <2>4. \A u \in DOMAIN tabs : tabs[u].by = None => u \in Lineage \cup {t}
    BY DEF IInv, World, LineageOK
  <2>5. t \notin dest'.preds /\ dest'.preds \subseteq DOMAIN tabs
    BY <1>3, <1>8, <2>2
  <2>6. tabs' = tabs /\ dest'.sheet = t /\ Lineage' = Lineage \cup {t}
    BY <1>1, <1>8
  <2> HIDE DEF r, t, o
  <2> QED BY <1>2, <2>1, <2>2, <2>3, <2>4, <2>5, <2>6 DEF LineageOK
<1>14. TitlesOK'
  <2>1. \A u \in DOMAIN tabs : tabs[u].title = "published" => u = t
    BY <1>2 DEF IInv, World, TitlesOK
  <2>2. ASSUME NEW u \in DOMAIN tabs
        PROVE  /\ \A i \in tabs[u].rows : i \in Report(tabs[u].by)
               /\ tabs[u].title = "recovery" => u \in Lineage \cup {t}
               /\ tabs[u].title = "deleted" =>
                    tabs[u].by # None /\ run'[tabs[u].by].status = "cancelled"
    BY <1>0, <1>12 DEF IInv, World, TitlesOK
  <2>3. \A u, v \in DOMAIN tabs :
          tabs[u].title = "staging" /\ tabs[v].title = "staging" /\ tabs[u].by = tabs[v].by
            => u = v
    BY DEF IInv, World, TitlesOK
  <2>4. /\ tabs' = tabs /\ Lineage' = Lineage \cup {t} /\ t \notin dest'.preds
        /\ t \in DOMAIN tabs /\ tabs[t].title = "published" /\ Report(tabs[t].by) \subseteq tabs[t].rows
    BY <1>1, <1>2, <1>3, <1>8
  <2> HIDE DEF r, t, o
  <2> QED BY <2>1, <2>2, <2>3, <2>4 DEF TitlesOK
<1>15. DeliveriesOK'
  <2> SUFFICES ASSUME NEW q \in Runs PROVE DeliveryOK(q)'
    BY DEF DeliveriesOK
  <2>1. DeliveryOK(q)
    BY DEF IInv, World, DeliveriesOK
  <2>2. /\ run'[q].page = run[q].page /\ run'[q].applied = run[q].applied
        /\ delivery'[q].staging = delivery[q].staging /\ delivery'[q].old = delivery[q].old
        /\ delivery'[q].next = delivery[q].next /\ delivery'[q].cleanup = delivery[q].cleanup
        /\ Lineage \subseteq Lineage' /\ tabs' = tabs /\ janitor' = janitor
    BY <1>1, <1>5, <1>6, <1>8 DEF SamePage, SameApplied, SameTabs, SameNext, SameCleanup
  <2>3. CASE q = r
    <3>1. /\ run'[q].status = "completed" /\ run[q].status = "promoting"
          /\ delivery[q].staging # 0 /\ Report(q) \subseteq tabs[delivery[q].staging].rows
      BY <1>0, <1>2, <1>5, <2>3
    <3> HIDE DEF r, t, o
    <3> QED BY <2>1, <2>2, <3>1 DEF DeliveryOK, Promoted
  <2>4. CASE q # r
    <3>1. run'[q].status = run[q].status /\ delivery'[q].step = delivery[q].step
      BY <1>5, <1>6, <2>4 DEF SameStatus, SameStep
    <3> HIDE DEF r, t, o
    <3> QED BY <2>1, <2>2, <3>1 DEF DeliveryOK
  <2> QED BY <2>3, <2>4
<1>16. WorkerOK(w)'
  BY <1>7 DEF WorkerOK, RemembersRight, InPhase, InRange, NoJob, Bound, Held,
              Aimed, Preparing, Recorded, Writing, Promoting
<1> QED BY <1>7, <1>9, <1>10, <1>11, <1>13, <1>14, <1>15, <1>16 DEF Sound, World

-----------------------------------------------------------------------------
(* Steps that no worker takes. *)

LEMMA QuietStep ==
  ASSUME IInv, Types', Keeps({}), World', pc' = pc, job' = job,
         \A r \in Runs : SameFence(r) /\ run'[r].epoch = run[r].epoch
  PROVE  IInv'
<1>1. Epochs'
  <2>1. \A w \in Workers : pc[w] # "idle" => job[w].run \in Runs
    BY WorkersRun DEF IInv
  <2>2. \A w \in Workers : Bound(w)' <=> Bound(w)
    BY DEF Bound
  <2> QED BY <2>1, <2>2 DEF IInv, Epochs, SameFence
<1>2. \A w \in Workers : WorkerOK(w)'
  BY OthersKeep
<1> QED BY <1>1, <1>2 DEF IInv

LEMMA RequestCancelStep ==
  ASSUME IInv, NEW r \in Runs, RequestCancel(r)
  PROVE  IInv' /\ Keeps({})
<1>1. /\ delivery' = delivery /\ dest' = dest /\ tabs' = tabs /\ janitor' = janitor
      /\ pc' = pc /\ job' = job /\ Rest
      /\ run' = [run EXCEPT ![r].cancel = TRUE]
  BY RestIsTyped DEF RequestCancel, workerVars
<1>2. /\ run' \in [Runs -> RunDocs]
      /\ \A q \in Runs : SameStatus(q) /\ SamePage(q) /\ SameApplied(q) /\ SameLease(q)
  BY <1>1, CancelEdit DEF IInv, Types
<1>3. Calm
  BY <1>1, <1>2 DEF Calm, Unmoved, SameTabs, SameNext, SameStep, SameCleanup, SameFence, SameLease
<1>4. Keeps({}) /\ World'
  BY <1>3, CalmKeeps, UnmovedWorld DEF IInv, Calm
<1>5. Types'
  BY <1>1, <1>2 DEF IInv, Types, Rest
<1> QED BY <1>1, <1>2, <1>4, <1>5, QuietStep DEF SameLease, SameFence

LEMMA JanitorListStep ==
  ASSUME IInv, NEW r \in Runs, JanitorList(r)
  PROVE  IInv' /\ Keeps({})
<1>1. /\ run' = run /\ delivery' = delivery /\ dest' = dest /\ tabs' = tabs
      /\ pc' = pc /\ job' = job /\ Rest /\ janitor' = r
      /\ delivery[r].staging # 0 /\ delivery[r].cleanup # "not_needed"
  BY RestIsTyped DEF JanitorList, workerVars, runVars
<1>2. Types'
  BY <1>1 DEF IInv, Types, Rest
<1>3. Keeps({})
  BY <1>1 DEF Keeps, SameStatus, SamePage, SameNext, SameFence, Lineage, Promoted
<1>4. Lineage' = Lineage
  BY <1>1 DEF Lineage
<1>5. LineageOK' /\ TitlesOK'
  BY <1>1, <1>4 DEF IInv, World, LineageOK, TitlesOK
<1>6. DeliveriesOK'
  <2>1. \A q \in Runs : DeliveryOK(q)
    BY DEF IInv, World, DeliveriesOK
  <2>2. run[r].status = "cancelled"
    BY <1>1, <2>1 DEF DeliveryOK
  <2> QED BY <1>1, <1>4, <2>1, <2>2 DEF DeliveriesOK, DeliveryOK
<1> QED BY <1>1, <1>2, <1>3, <1>5, <1>6, QuietStep DEF World, SameFence

LEMMA JanitorDeleteStep ==
  ASSUME IInv, NEW r \in Runs, JanitorDelete(r)
  PROVE  IInv' /\ Keeps({})
<1> DEFINE n == delivery[r].staging
<1>0. /\ r # None /\ tabs \in Seq(Tabs) /\ tabs \in [DOMAIN tabs -> Tabs]
      /\ delivery \in [Runs -> DeliveryDocs]
  BY ReportingAssumption, Workbook DEF IInv, Types
<1>1. /\ run' = run /\ dest' = dest /\ pc' = pc /\ job' = job /\ Rest /\ janitor' = None
      /\ tabs' = [tabs EXCEPT ![n].title = "deleted"]
      /\ delivery' = [delivery EXCEPT ![r].cleanup = "completed"]
  BY RestIsTyped DEF JanitorDelete, workerVars
<1>2. /\ n \in DOMAIN tabs /\ tabs[n].by = r /\ run[r].status = "cancelled"
  BY DEF JanitorDelete, IInv, World, DeliveriesOK, DeliveryOK
<1>3. tabs[n].title # "published" /\ n \notin Lineage
  BY <1>0, <1>2 DEF IInv, World, TitlesOK, LineageOK
<1>4. /\ DOMAIN tabs' = DOMAIN tabs /\ tabs' \in [DOMAIN tabs -> Tabs]
      /\ \A t \in DOMAIN tabs :
           /\ tabs'[t].by = tabs[t].by /\ tabs'[t].marked = tabs[t].marked
           /\ tabs'[t].rows = tabs[t].rows
           /\ t # n => tabs'[t].title = tabs[t].title
      /\ tabs'[n].title = "deleted"
  BY <1>0, <1>1, <1>2 DEF Tabs
<1>5. tabs' \in Seq(Tabs)
  BY <1>0, <1>4, WorkbookMap
<1>6. /\ delivery' \in [Runs -> DeliveryDocs]
      /\ \A q \in Runs : SameTabs(q) /\ SameNext(q) /\ SameStep(q) /\ SameFence(q)
      /\ \A q \in Runs \ {r} : SameCleanup(q)
  BY <1>0, <1>1, CleanupEdit
<1>7. Types'
  BY <1>1, <1>5, <1>6 DEF IInv, Types, Rest
<1>8. Lineage' = Lineage /\ Lineage \subseteq DOMAIN tabs
  BY <1>1, LineageIsInTheWorkbook DEF Lineage
<1>9. Keeps({})
  <2>1. \A t \in DOMAIN tabs : tabs[t].title = "published" => tabs'[t].title = "published"
    BY <1>3, <1>4
  <2>2. \A q \in Runs : /\ SameStatus(q) /\ SamePage(q)
                        /\ run[q].status = "promoting" => run'[q].status \in Promoted
    BY <1>1 DEF SameStatus, SamePage, Promoted
  <2> QED BY <1>1, <1>4, <1>6, <1>8, <2>1, <2>2 DEF Keeps, SameTabs
<1>10. LineageOK'
  <2>1. \A q \in Runs : delivery'[q].staging = delivery[q].staging
    BY <1>6 DEF SameTabs
  <2> QED BY <1>1, <1>4, <1>8, <2>1 DEF IInv, World, LineageOK
<1>11. TitlesOK'
  <2>1. \A t \in DOMAIN tabs : t # n =>
          tabs'[t].title = tabs[t].title /\ tabs'[t].by = tabs[t].by /\ tabs'[t].rows = tabs[t].rows
    BY <1>4
  <2>2. /\ \E t \in DOMAIN tabs' : tabs'[t].title = "published"
        /\ \A t, u \in DOMAIN tabs' :
             tabs'[t].title = "published" /\ tabs'[u].title = "published" => t = u
        /\ \A t, u \in DOMAIN tabs' :
             tabs'[t].title = "staging" /\ tabs'[u].title = "staging"
               /\ tabs'[t].by = tabs'[u].by => t = u
    BY <1>3, <1>4 DEF IInv, World, TitlesOK
  <2>3. ASSUME NEW t \in DOMAIN tabs'
        PROVE  /\ \A i \in tabs'[t].rows : i \in Report(tabs'[t].by)
               /\ tabs'[t].title = "recovery" => t \in Lineage'
               /\ tabs'[t].title = "deleted" =>
                    tabs'[t].by # None /\ run'[tabs'[t].by].status = "cancelled"
               /\ tabs'[t].title = "published" =>
                    /\ t \notin dest'.preds
                    /\ \/ t \in Lineage'
                       \/ /\ run'[tabs'[t].by].status \in {"promoting", "failed"}
                          /\ t = delivery'[tabs'[t].by].staging
                    /\ tabs'[t].by # None => Report(tabs'[t].by) \subseteq tabs'[t].rows
    <3>0. t \in DOMAIN tabs
      BY <1>4
    <3>1. CASE t = n
      <4>1. /\ tabs'[t].title = "deleted" /\ tabs'[t].by = r /\ run'[r].status = "cancelled"
            /\ tabs'[t].rows = tabs[t].rows /\ tabs[t].by = r
        BY <1>1, <1>2, <1>4, <3>1
      <4>2. \A i \in tabs[t].rows : i \in Report(tabs[t].by)
        BY <3>0 DEF IInv, World, TitlesOK
      <4> QED BY <1>0, <4>1, <4>2
    <3>2. CASE t # n
      <4>1. tabs[t].by # None => delivery'[tabs[t].by].staging = delivery[tabs[t].by].staging
        BY <1>0, <1>6, <3>0 DEF Tabs, SameTabs
      <4>2. tabs[t].by = None => t \in Lineage
        BY <3>0 DEF IInv, World, LineageOK
      <4>3. run' = run /\ dest' = dest
        BY <1>1
      <4> QED BY <1>8, <2>1, <3>0, <3>2, <4>1, <4>2, <4>3 DEF IInv, World, TitlesOK
    <3> QED BY <3>1, <3>2
  <2> QED BY <2>2, <2>3 DEF TitlesOK
<1>12. DeliveriesOK'
  <2> SUFFICES ASSUME NEW q \in Runs PROVE DeliveryOK(q)'
    BY DEF DeliveriesOK
  <2>1. DeliveryOK(q)
    BY DEF IInv, World, DeliveriesOK
  <2>2. /\ run' = run /\ janitor' # q
        /\ delivery'[q].staging = delivery[q].staging /\ delivery'[q].old = delivery[q].old
        /\ delivery'[q].next = delivery[q].next /\ delivery'[q].step = delivery[q].step
        /\ delivery'[q].cleanup # "not_needed" =>
             delivery[q].cleanup # "not_needed" \/ run[q].status = "cancelled"
    BY <1>1, <1>2, <1>6, ReportingAssumption DEF SameTabs, SameNext, SameStep, SameCleanup
  <2>3. delivery[q].staging # 0 =>
          LET s == delivery[q].staging IN
          /\ s \in DOMAIN tabs' /\ tabs'[s].by = tabs[s].by /\ tabs'[s].marked = tabs[s].marked
          /\ tabs'[s].rows = tabs[s].rows
          /\ run[q].status = "promoting" => tabs'[s].title = tabs[s].title
    BY <1>2, <1>4, <2>1 DEF DeliveryOK
  <2> QED BY <1>8, <2>1, <2>2, <2>3 DEF DeliveryOK
<1> QED BY <1>1, <1>6, <1>7, <1>9, <1>10, <1>11, <1>12, QuietStep DEF World

-----------------------------------------------------------------------------
(* The invariant. *)

LEMMA InitOK == ASSUME Init PROVE IInv
<1>1. /\ tabs = <<[by |-> None, marked |-> FALSE, rows |-> {}, title |-> "published"]>>
      /\ DOMAIN tabs = {1} /\ tabs[1].by = None /\ tabs[1].title = "published"
      /\ tabs[1].rows = {}
  BY DEF Init
<1>2. Types
  <2>1. run \in [Runs -> RunDocs]
    BY DEF Init, RunDocs, Statuses, Open, Cancellable
  <2>2. delivery \in [Runs -> DeliveryDocs]
    BY DEF Init, DeliveryDocs
  <2>3. tabs \in Seq(Tabs)
    <3>1. [by |-> None, marked |-> FALSE, rows |-> {}, title |-> "published"] \in Tabs
      BY DEF Tabs
    <3> QED BY <1>1, <3>1
  <2>4. pc \in [Workers -> Labels] /\ job \in [Workers -> Jobs]
    BY DEF Init, Labels, Jobs, NoJob
  <2>5. \A w \in Workers : pc[w] = "idle" /\ job[w].run = None
    BY DEF Init, NoJob
  <2> QED BY <2>1, <2>2, <2>3, <2>4, <2>5, ReportingAssumption DEF Init, Types
<1>3. Epochs
  BY DEF Init, Epochs
<1>4. LineageOK /\ TitlesOK
  <2>1. Lineage = {1} /\ dest.preds = {} /\ dest.sheet = 1
    BY DEF Init, Lineage
  <2>2. \A r \in Runs : run[r].status = "queued"
    BY DEF Init
  <2> QED BY <1>1, <2>1, <2>2 DEF LineageOK, TitlesOK
<1>5. DeliveriesOK
  <2> SUFFICES ASSUME NEW r \in Runs PROVE DeliveryOK(r)
    BY DEF DeliveriesOK
  <2>1. /\ run[r].status = "queued" /\ run[r].applied = FALSE /\ run[r].page = 0
        /\ delivery[r].staging = 0 /\ delivery[r].next = 1 /\ delivery[r].step = "not_started"
        /\ delivery[r].cleanup = "not_needed" /\ janitor # r
    BY ReportingAssumption DEF Init
  <2>2. 1 \in 1 .. LastRow(r) + 1 /\ Pages[r] \in Nat
    BY LastRowIsARow, ReportingAssumption
  <2> QED BY <2>1, <2>2 DEF DeliveryOK
<1>6. \A w \in Workers : WorkerOK(w)
  BY DEF Init, NoJob, WorkerOK, RemembersRight, InPhase, InRange, Bound, Aimed, Preparing,
         Recorded, Writing, Promoting
<1> QED BY <1>2, <1>3, <1>4, <1>5, <1>6 DEF IInv, World

LEMMA WorkersStep ==
  ASSUME IInv, NEW w \in Workers,
         WorkerStep(w) \/ WorkerFault(w) \/ \E r \in Runs : Claim(w, r)
  PROVE  Sound(w)
<1>1. Prepare(w) => Sound(w)
  BY BindStep, StartStep, FailingSteps, WalkingSteps, ResumeArtifactStep, FindArtifactStep,
     AddTabStep, MarkTabStep, RecordArtifactStep DEF Prepare
<1>2. Write(w) => Sound(w)
  BY BeginStep, WalkingSteps, PutStep, AcknowledgeStep, RecordChecksumStep, CheckpointStep,
     EndWritingStep, VerifyStep DEF Write
<1>3. Promote(w) => Sound(w)
  BY WalkingSteps, PromotionSteps, RenameStep, CommitStep, FailingSteps, RecoverStep DEF Promote
<1>4. Stop(w) => Sound(w)
  BY CancelStep, CancelDeliveryStep, EnqueueCleanupStep, FailDeliveryStep, LeasingSteps DEF Stop
<1>5. WorkerFault(w) => Sound(w)
  BY LeasingSteps, MissArtifactStep, WalkingSteps, FailingSteps DEF WorkerFault
<1> QED BY <1>1, <1>2, <1>3, <1>4, <1>5, ClaimStep DEF WorkerStep

(* Such a step is that of one worker or of none. *)
Kept == \E V \in SUBSET Workers : Keeps(V) /\ \A u, v \in V : u = v

LEMMA NextOK ==
  ASSUME IInv, [Next]_vars
  PROVE  IInv' /\ Kept
<1>1. CASE UNCHANGED vars
  <2>1. Still /\ manifest' = manifest /\ losses' = losses /\ errors' = errors
        /\ pc' = pc /\ job' = job
    BY <1>1 DEF vars, Still
  <2>2. Calm
    BY <2>1 DEF Still, Calm, Unmoved, SameStatus, SamePage, SameApplied, SameTabs, SameNext,
                SameStep, SameCleanup, SameFence
  <2>3. Keeps({}) /\ World'
    BY <2>2, CalmKeeps, UnmovedWorld DEF IInv, Calm
  <2>4. Types'
    BY <2>1 DEF IInv, Types, Still
  <2> QED BY <2>1, <2>2, <2>3, <2>4, QuietStep DEF Calm, Kept
<1>2. ASSUME NEW w \in Workers,
             WorkerStep(w) \/ WorkerFault(w) \/ \E r \in Runs : Claim(w, r)
      PROVE  IInv' /\ Kept
  <2>1. Sound(w)
    BY <1>2, WorkersStep
  <2>2. \A u, v \in {w} : u = v
    OBVIOUS
  <2> QED BY <2>1, <2>2, SoundStep DEF Sound, Kept
<1>3. ASSUME NEW r \in Runs, RequestCancel(r) \/ JanitorList(r) \/ JanitorDelete(r)
      PROVE  IInv' /\ Kept
  <2>1. IInv' /\ Keeps({})
    BY <1>3, RequestCancelStep, JanitorListStep, JanitorDeleteStep
  <2> QED BY <2>1 DEF Kept
<1> QED BY <1>1, <1>2, <1>3 DEF Next

LEMMA InductiveInvariant == Spec => []IInv
<1>1. Init => IInv
  BY InitOK
<1>2. IInv /\ [Next]_vars => IInv'
  BY NextOK
<1> QED BY <1>1, <1>2, PTL DEF Spec

-----------------------------------------------------------------------------
(* Documents, workbook and workers stay well formed: whichever of its workers
   goes on with a run, and whatever a stale one still writes, no page is
   checkpointed, no batch acknowledged and no row put beyond the report's end. *)
THEOREM DocumentsAreTyped == Spec => []TypeOK
<1>1. ASSUME IInv PROVE TypeOK
  <2>1. \A r \in Runs : run[r].page <= Pages[r] /\ delivery[r].next \in 1 .. LastRow(r) + 1
    BY <1>1 DEF IInv, World, DeliveriesOK, DeliveryOK
  <2>2. \A t \in DOMAIN tabs : \A i \in tabs[t].rows : i \in Report(tabs[t].by)
    BY <1>1 DEF IInv, World, TitlesOK
  <2> QED BY <1>1, <2>1, <2>2 DEF IInv, Types, World, LineageOK, TypeOK
<1> QED BY <1>1, InductiveInvariant, PTL

(* Two runs that are delivered at the same time, and stale workers that rename,
   write and resume, never show readers two tabs, no tab or half a report. *)
THEOREM OneWholeReportIsShown == Spec => []ReadersSeeAWholeReport
<1>1. ASSUME IInv PROVE ReadersSeeAWholeReport
  <2>1. PICK t \in DOMAIN tabs : tabs[t].title = "published"
    BY <1>1 DEF IInv, World, TitlesOK
  <2>2. Published = {t}
    BY <1>1, <2>1 DEF IInv, World, TitlesOK, Published
  <2>3. tabs[t].by # None => tabs[t].rows = Report(tabs[t].by)
    <3>1. tabs[t].by # None => Report(tabs[t].by) \subseteq tabs[t].rows
      BY <1>1, <2>1 DEF IInv, World, TitlesOK
    <3>2. \A i \in tabs[t].rows : i \in Report(tabs[t].by)
      BY <1>1, <2>1 DEF IInv, World, TitlesOK
    <3> QED BY <3>1, <3>2
  <2> QED BY <2>2, <2>3, FS_Singleton DEF ReadersSeeAWholeReport
<1> QED BY <1>1, InductiveInvariant, PTL

(* The published tab is the destination's own, or that of a run whose rename
   Google applied before the run was completed or failed: the title never goes
   to a run that was cancelled or not yet verified. *)
THEOREM NoUnverifiedReportShows == Spec => []OnlyPromotedReportsShow
<1>1. ASSUME IInv PROVE OnlyPromotedReportsShow
  BY <1>1 DEF IInv, World, TitlesOK, OnlyPromotedReportsShow, Published, Lineage
<1> QED BY <1>1, InductiveInvariant, PTL

(* A run that changes hands while it is written is not taken for written before
   its recorded tab has every row, so checkpoints, acknowledgements and batches
   of different workers add up. *)
THEOREM NoRowIsLost == Spec => []ResumedWritesAreComplete
<1>1. ASSUME IInv PROVE ResumedWritesAreComplete
  <2> SUFFICES ASSUME NEW r \in Runs, run[r].status \in {"verifying", "promoting", "completed"}
               PROVE  tabs[delivery[r].staging].rows = Report(r)
    BY DEF ResumedWritesAreComplete
  <2> DEFINE s == delivery[r].staging
  <2>1. s \in DOMAIN tabs /\ tabs[s].by = r /\ Report(r) \subseteq tabs[s].rows
    BY <1>1 DEF IInv, World, DeliveriesOK, DeliveryOK
  <2>2. \A i \in tabs[s].rows : i \in Report(r)
    BY <1>1, <2>1 DEF IInv, World, TitlesOK
  <2> QED BY <2>1, <2>2
<1> QED BY <1>1, InductiveInvariant, PTL

-----------------------------------------------------------------------------
(* What a step may not do. *)

(* The janitor, which lists tabs and deletes them later, never deletes one that
   readers see or that was the destination's before. *)
THEOREM PublishedTabsAreNotDeleted == Spec => JanitorSparesPublishedTabs
<1> DEFINE Spared ==
      \A t \in DOMAIN tabs :
        tabs[t].title \in {"published", "recovery"} => tabs'[t].title # "deleted"
<1>1. ASSUME IInv, IInv', [Next]_vars PROVE Spared
  <2>1. PICK V \in SUBSET Workers : Keeps(V)
    BY <1>1, NextOK DEF Kept
  <2> SUFFICES ASSUME NEW t \in DOMAIN tabs, tabs[t].title \in {"published", "recovery"},
                      tabs'[t].title = "deleted"
               PROVE  FALSE
    OBVIOUS
  <2>2. /\ t \in DOMAIN tabs' /\ tabs'[t].by = tabs[t].by
        /\ tabs[t].by # None /\ run'[tabs[t].by].status = "cancelled"
    BY <1>1, <2>1 DEF Keeps, IInv, World, TitlesOK
  <2>3. t \notin Lineage
    BY <1>1, <2>1, <2>2 DEF Keeps, IInv, World, LineageOK
  <2>4. tabs[t].by \in Runs /\ run[tabs[t].by].status \in {"promoting", "failed"}
    BY <1>1, <2>2, <2>3, Workbook DEF IInv, Types, Tabs, World, TitlesOK
  <2> QED BY <2>1, <2>2, <2>4 DEF Keeps, Ended, SameStatus, Promoted
<1> QED BY <1>1, InductiveInvariant, PTL DEF Spec, JanitorSparesPublishedTabs

(* Only a commit moves the destination. *)
LEMMA OnlyCommitsMove ==
  ASSUME [Next]_vars, ~(\E w \in Workers : Commit(w))
  PROVE  dest' = dest
<1>1. ASSUME NEW w \in Workers, Prepare(w) PROVE dest' = dest
  BY <1>1 DEF Prepare, Bind, Start, Refuse, LoadManifest, PersistManifest, ResumeArtifact,
              FindArtifact, AddTab, MarkTab, RecordArtifact, runVars
<1>2. ASSUME NEW w \in Workers, Write(w) PROVE dest' = dest
  BY <1>2 DEF Write, Begin, WriteHeader, ReadPage, SourceChanged, NextBatch, Put, Acknowledge,
              RecordChecksum, Checkpoint, EndWriting, Verify, runVars
<1>3. ASSUME NEW w \in Workers, Promote(w), ~Commit(w) PROVE dest' = dest
  BY <1>3 DEF Promote, Inspect, Reserve, Adopt, Check, Rename, Confirm, MarkApplied,
              RecordRename, RecordAmbiguous, GiveUp, Recover, runVars
<1>4. ASSUME NEW w \in Workers, Stop(w) \/ WorkerFault(w) \/ \E r \in Runs : Claim(w, r)
      PROVE  dest' = dest
  BY <1>4 DEF Stop, Cancel, CancelDelivery, EnqueueCleanup, FailDelivery, LeaseLost, WorkerFault,
              Abandon, Stall, MissArtifact, CaughtFailure, CaughtInRecovery, Claim, runVars
<1>5. ASSUME NEW r \in Runs, RequestCancel(r) \/ JanitorList(r) \/ JanitorDelete(r)
      PROVE  dest' = dest
  BY <1>5 DEF RequestCancel, JanitorList, JanitorDelete, runVars
<1> QED BY <1>1, <1>2, <1>3, <1>4, <1>5 DEF Next, WorkerStep, vars

Ends(r) == run[r].status \in Open /\ run'[r].status \in {"failed", "cancelled"}

(* A run that any other step ends is failed or cancelled. *)
LEMMA OthersFailOrCancel ==
  ASSUME IInv, IInv', NEW V \in SUBSET Workers, Keeps(V), dest' = dest, NEW r \in Runs
  PROVE  Outcome'[r] = Outcome[r] \/ Ends(r)
<1>1. run[r].status \in Statuses /\ run'[r].status \in Statuses
  BY DEF IInv, Types, RunDocs
<1>2. run'[r].status = "completed" => run'[r].status = run[r].status
  BY DEF IInv, World, LineageOK, Keeps, Lineage, SameStatus
<1>3. run[r].status \in Ended => run'[r].status = run[r].status
  BY DEF Keeps, SameStatus
<1> QED BY <1>1, <1>2, <1>3 DEF Outcome, Ends, Ended, Statuses, Open, Cancellable

LEMMA CommitsComplete ==
  ASSUME IInv, NEW w \in Workers, Commit(w), NEW r \in Runs, job[w].run = r
  PROVE  Publication!Complete(r)
<1> DEFINE t == job[w].tab
<1>0. /\ pc[w] = "commit" /\ r \in Runs /\ RemembersRight(w)
      /\ run[r].status = "promoting"
  BY Standing DEF Commit, CommitAllowed, Bound
<1>1. t \in DOMAIN tabs /\ tabs[t].by = r
  BY <1>0 DEF RemembersRight, Recorded, Promoting
<1>2. dest.sheet = job[w].old
  <2>1. t \notin Lineage
    BY <1>0, <1>1, TabsOfAnOpenRun DEF Open
  <2> QED BY <2>1 DEF Commit, CommitAllowed, Lineage
<1>3. /\ tabs' = tabs /\ dest'.sheet = t /\ dest'.preds = dest.preds \cup {dest.sheet}
      /\ run' = [run EXCEPT ![r].status = "completed"]
  BY <1>2 DEF Commit, NextDestination
<1>4. /\ Outcome[r] = "open"
      /\ Outcome' = [Outcome EXCEPT ![r] = "completed"]
  <2>1. /\ run'[r].status = "completed"
        /\ \A q \in Runs \ {r} : run'[q].status = run[q].status
    <3>1. run \in [Runs -> RunDocs]
      BY DEF IInv, Types
    <3> QED BY <1>0, <1>3, <3>1 DEF RunDocs
  <2> QED BY <1>0, <2>1 DEF Outcome, Open, Cancellable
<1> DEFINE past == {tabs[u].by : u \in dest.preds}
<1>5. {tabs'[u].by : u \in dest'.preds} = past \cup {tabs[dest.sheet].by}
  BY <1>3
<1>6. tabs'[dest'.sheet].by = r
  BY <1>1, <1>3
<1> QED BY <1>4, <1>5, <1>6 DEF Publication!Complete

LEMMA StepsPublish ==
  ASSUME IInv, IInv', [Next]_vars
  PROVE  [Publication!Next]_(Publication!vars)
<1>1. CASE \E w \in Workers : Commit(w)
  <2>1. PICK w \in Workers : Commit(w)
    BY <1>1
  <2>2. job[w].run \in Runs
    BY <2>1, WorkersRun DEF Commit, IInv
  <2> QED BY <2>1, <2>2, CommitsComplete DEF Publication!Next
<1>2. CASE ~(\E w \in Workers : Commit(w))
  <2>1. dest' = dest
    BY <1>2, OnlyCommitsMove
  <2>2. PICK V \in SUBSET Workers : Keeps(V) /\ \A u, v \in V : u = v
    BY NextOK DEF Kept
  <2>3. /\ tabs'[dest'.sheet].by = tabs[dest.sheet].by
        /\ {tabs'[u].by : u \in dest'.preds} = {tabs[u].by : u \in dest.preds}
    <3>1. Lineage \subseteq DOMAIN tabs
      BY LineageIsInTheWorkbook
    <3>2. \A u \in Lineage : tabs'[u].by = tabs[u].by
      BY <2>2, <3>1 DEF Keeps
    <3> QED BY <2>1, <3>2 DEF Lineage
  <2>4. CASE \E r \in Runs : Ends(r)
    <3>1. PICK r \in Runs : Ends(r)
      BY <2>4
    <3>2. ~SameStatus(r)
      BY <3>1 DEF Ends, SameStatus, Open, Cancellable
    <3>3. \A q \in Runs \ {r} : SameStatus(q)
      BY <2>2, <3>2 DEF Keeps
    <3>4. /\ Outcome[r] = "open"
          /\ Outcome' = [Outcome EXCEPT ![r] = run'[r].status]
      BY <3>1, <3>3 DEF Outcome, Ends, SameStatus, Open, Cancellable
    <3>5. Publication!End(r)
      BY <2>3, <3>1, <3>4 DEF Publication!End, Ends
    <3> QED BY <3>5 DEF Publication!Next
  <2>5. CASE ~(\E r \in Runs : Ends(r))
    <3>1. \A r \in Runs : Outcome'[r] = Outcome[r]
      BY <2>1, <2>2, <2>5, OthersFailOrCancel
    <3>2. Outcome' = Outcome
      BY <3>1 DEF Outcome
    <3> QED BY <2>3, <3>2 DEF Publication!vars
  <2> QED BY <2>4, <2>5
<1> QED BY <1>1, <1>2

(* Run, destination and tabs, which are written at different times by workers
   that may have lost their lease, implement ReportPublication: a run ends once,
   and the destination moves to its tab in the step that completes it. *)
THEOREM DeliveryPublishes == Spec => PublishesOnce
<1>1. Init => Publication!Init
  BY DEF Init, Publication!Init, Outcome, Open, Cancellable
<1>2. IInv /\ IInv' /\ [Next]_vars => [Publication!Next]_(Publication!vars)
  BY StepsPublish
<1> QED BY <1>1, <1>2, InductiveInvariant, PTL DEF Spec, PublishesOnce, Publication!Spec
=============================================================================
