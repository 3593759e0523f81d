---------------------------- MODULE GranotReceipts ----------------------------
(***************************************************************************)
(* Granot observation receipts (granotLifecycle/drainer.ts, processor.ts). *)
(*                                                                         *)
(* A receipt is an observation of a CRM job that was captured and has to   *)
(* be decided.  Queue wake-ups, a cron and waiting callers claim it under  *)
(* a five-minute lease, run the processor, and settle the receipt only if  *)
(* the claim still stands; the processor itself is not fenced.  It decides *)
(* once per (observation, attempt): it writes the matched lead through an  *)
(* idempotent command, or only records what it found.                      *)
(*                                                                         *)
(* What is abstracted: live mode with every gate open; all observations    *)
(* concern one lead, which they match once it exists, and need no link to  *)
(* it; observations are numbered in their temporal order (captured_at,     *)
(* then id); next_attempt_at, a lease and the 24 hours are a flag each; a  *)
(* claim is named by the slot it runs in, where the code draws a fresh     *)
(* lease_owner.  Creation of leads and booking cases are left out.         *)
(***************************************************************************)
EXTENDS Integers

CONSTANTS
  Receipts,       \* observation receipts, numbered in temporal order
  Workers,        \* slots in which invocations of the drainer execute
  Fields, Values, \* the lead's fields that observations speak of
  Says,           \* Says[r]: what the observation of receipt r says of them
  MaxTechnical,   \* TECHNICAL_DEAD_LETTER_ATTEMPT
  Offsets,        \* the length of PENDING_MATCH_OFFSETS_MS
  MaxTries,       \* maxCommandAttempts
  BornWinners,    \* temporal winners a lead may already have: 0 or none
  MaxFaults,      \* bound: crashes, stalls, errors
  MaxEdits,       \* bound: edits of the lead by others
  MaxRequeues,    \* bound: requeues by an owner
  None            \* no decision, no command, no owner

NoWinner == -1

Outcomes == {"pending_match", "unmatched", "stale", "already_current",
             "applied"}

ASSUME GranotReceiptsAssumption ==
  /\ Receipts \subseteq Nat \ {0}
  /\ Says \in [Receipts -> [Fields -> Values]]
  /\ MaxTechnical \in Nat \ {0}
  /\ Offsets \in Nat \ {0}
  /\ MaxTries \in Nat \ {0}
  /\ BornWinners \subseteq {0, NoWinner}
  /\ MaxFaults \in Nat /\ MaxEdits \in Nat /\ MaxRequeues \in Nat
  /\ None \notin Receipts \cup Workers /\ None \notin Outcomes
  /\ None \notin [rev : Nat, paths : SUBSET Fields]

VARIABLES
  receipt,   \* the processing part of the receipt documents
  window,    \* window[r]: less than 24 hours since captured_at
  decision,  \* decision[r][n]: outcome of the decision of attempt n
  command,   \* command[r]: checksum of the stored synchronizeLead command
  lead,      \* the lead, with its last_accepted_granot_observation
  work,      \* work[w]: what the invocation in slot w is doing
  faults, edits

vars == <<receipt, window, decision, command, lead, work, faults, edits>>

-----------------------------------------------------------------------------
States == {"absent", "pending", "retry_scheduled", "claimed", "completed",
           "dead_letter"}
Attempts == 1 .. Offsets

\* The outcomes that accept the observation for its lead: acceptsLead.
Accepting == {"applied", "already_current"}

Plans == [outcome : Outcomes, paths : SUBSET Fields, advance : BOOLEAN]
Checksums == [rev : Nat, paths : SUBSET Fields]
ReceiptRows ==
  [state : States, due : BOOLEAN, owner : Workers \cup {None},
   expired : BOOLEAN, technical : Nat, match : 0 .. Offsets - 1,
   latest : 0 .. Offsets, certified : 0 .. Offsets, requeues : Nat]
LeadRows ==
  [exists : BOOLEAN, state : [Fields -> Values],
   winner : Receipts \cup {0, NoWinner}, rev : Nat,
   proof : (Receipts \X Attempts) \cup {None}]

Undecided == [outcome |-> "unmatched", paths |-> {}, advance |-> FALSE]

Idle == [at |-> "idle", on |-> None, attempt |-> 0, found |-> None,
         plan |-> Undecided, rev |-> 0, tries |-> 0]

\* What the processor can fail in before the receipt is settled.
Processing == {"running", "loaded", "looked", "planned", "ready", "raced",
               "missed", "lost", "decided"}
WorkRows ==
  [at : Processing \cup {"idle", "claimed", "failed"},
   on : Receipts \cup {None}, attempt : 0 .. Offsets,
   found : Outcomes \cup {None}, plan : Plans, rev : Nat, tries : 0 .. MaxTries]

Init ==
  /\ receipt = [r \in Receipts |->
       [state |-> "absent", due |-> FALSE, owner |-> None, expired |-> FALSE,
        technical |-> 0, match |-> 0, latest |-> 0, certified |-> 0,
        requeues |-> 0]]
  /\ window = [r \in Receipts |-> TRUE]
  /\ decision = [r \in Receipts |-> [n \in Attempts |-> None]]
  /\ command = [r \in Receipts |-> None]
  /\ \E s \in [Fields -> Values] :
       lead = [exists |-> FALSE, state |-> s, winner |-> NoWinner, rev |-> 0,
               proof |-> None]
  /\ work = [w \in Workers |-> Idle]
  /\ faults = 0
  /\ edits = 0

-----------------------------------------------------------------------------
(***************************************************************************)
(* The world: captures, time, the lead, owners.                            *)
(***************************************************************************)
Capture(r) ==
  /\ receipt[r].state = "absent"
  /\ receipt' = [receipt EXCEPT ![r].state = "pending", ![r].due = TRUE]
  /\ UNCHANGED <<window, decision, command, lead, work, faults, edits>>

\* The attempt after the last offset but one is due when the window closes.
ComesDue(r) ==
  /\ receipt[r].state = "retry_scheduled" /\ ~receipt[r].due
  /\ receipt' = [receipt EXCEPT ![r].due = TRUE]
  /\ window' = [window EXCEPT ![r] = @ /\ receipt[r].match < Offsets - 1]
  /\ UNCHANGED <<decision, command, lead, work, faults, edits>>

WindowCloses(r) ==
  /\ receipt[r].state # "absent" /\ window[r]
  /\ window' = [window EXCEPT ![r] = FALSE]
  /\ UNCHANGED <<receipt, decision, command, lead, work, faults, edits>>

LeadArrives ==
  /\ ~lead.exists
  /\ \E b \in BornWinners :
       lead' = [lead EXCEPT !.exists = TRUE, !.winner = b]
  /\ UNCHANGED <<receipt, window, decision, command, work, faults, edits>>

\* Any other command that writes the lead.
EditLead ==
  /\ lead.exists /\ edits < MaxEdits
  /\ \E f \in Fields : \E v \in Values \ {lead.state[f]} :
       lead' = [lead EXCEPT !.state[f] = v, !.rev = @ + 1]
  /\ edits' = edits + 1
  /\ UNCHANGED <<receipt, window, decision, command, work, faults>>

RequeueDeadLetterReceipt(r) ==
  /\ receipt[r].state = "dead_letter" /\ receipt[r].requeues < MaxRequeues
  /\ receipt' = [receipt EXCEPT ![r].state = "pending", ![r].due = TRUE,
                   ![r].technical = 0, ![r].requeues = @ + 1]
  /\ UNCHANGED <<window, decision, command, lead, work, faults, edits>>

-----------------------------------------------------------------------------
(***************************************************************************)
(* Claims and leases.                                                      *)
(***************************************************************************)
\* Mutant: an expired claim is not taken over.
MutantClaimable(r) ==
  receipt[r].state \in {"pending", "retry_scheduled"} /\ receipt[r].due

Claimable(r) ==
  /\ receipt[r].state \in {"pending", "retry_scheduled", "claimed"}
  /\ receipt[r].due
  /\ receipt[r].state = "claimed" => receipt[r].expired

Claim(w, r) ==
  /\ work[w].at = "idle" /\ Claimable(r)
  /\ receipt' = [receipt EXCEPT ![r].state = "claimed", ![r].owner = w,
                   ![r].expired = FALSE, ![r].technical = @ + 1]
  /\ work' = [work EXCEPT ![w].at = "claimed", ![w].on = r]
  /\ UNCHANGED <<window, decision, command, lead, faults, edits>>

\* Mutant: the fence does not ask who owns the claim.
MutantFenced(w) == receipt[work[w].on].state = "claimed"

\* The fence: it does not ask whether the lease has expired.
Fenced(w) ==
  /\ receipt[work[w].on].state = "claimed"
  /\ receipt[work[w].on].owner = w

Start(w) ==
  /\ work[w].at = "claimed"
  /\ \/ /\ Fenced(w)
        /\ receipt' = [receipt EXCEPT ![work[w].on].expired = FALSE]
        /\ work' = [work EXCEPT ![w].at = "running"]
     \/ /\ ~Fenced(w)
        /\ work' = [work EXCEPT ![w] = Idle]
        /\ UNCHANGED receipt
  /\ UNCHANGED <<window, decision, command, lead, faults, edits>>

\* The timer renews a lease that was missed, as long as the claim stands.
KeepLease(w) ==
  /\ work[w].at \in Processing /\ Fenced(w) /\ receipt[work[w].on].expired
  /\ receipt' = [receipt EXCEPT ![work[w].on].expired = FALSE]
  /\ UNCHANGED <<window, decision, command, lead, work, faults, edits>>

LeaseExpires(r) ==
  /\ receipt[r].state = "claimed" /\ ~receipt[r].expired
  /\ receipt' = [receipt EXCEPT ![r].expired = TRUE]
  /\ UNCHANGED <<window, decision, command, lead, work, edits>>

Orphaned(r) == work[receipt[r].owner].on # r

ExpireOrphan(r) ==
  /\ LeaseExpires(r) /\ Orphaned(r)
  /\ UNCHANGED faults

\* The owner is frozen, or its renewals fail, for five minutes.
Stall(r) ==
  /\ LeaseExpires(r) /\ ~Orphaned(r)
  /\ faults < MaxFaults /\ faults' = faults + 1

-----------------------------------------------------------------------------
(***************************************************************************)
(* The processor.  Each read of the database is a step.                    *)
(***************************************************************************)
LoadReceipt(w) ==
  /\ work[w].at = "running"
  /\ work' = [work EXCEPT ![w].at = "loaded",
                          ![w].attempt = receipt[work[w].on].match + 1]
  /\ UNCHANGED <<receipt, window, decision, command, lead, faults, edits>>

FindDecision(w) ==
  /\ work[w].at = "loaded"
  /\ work' = [work EXCEPT ![w].at = "looked",
                ![w].found = decision[work[w].on][work[w].attempt]]
  /\ UNCHANGED <<receipt, window, decision, command, lead, faults, edits>>

\* shouldCompletePendingMatch, negated: some offset is left, in the 24 hours.
KeepsMatching(r, n) == window[r] /\ n < Offsets

\* planLeadDesiredState: no lead yet, or the temporal order, or what differs.
Plan(r, n) ==
  LET paths == {f \in Fields : lead.state[f] # Says[r][f]}
      outcome == CASE ~lead.exists /\ KeepsMatching(r, n) -> "pending_match"
                   [] ~lead.exists /\ ~KeepsMatching(r, n) -> "unmatched"
                   [] lead.exists /\ r < lead.winner -> "stale"
                   [] lead.exists /\ r = lead.winner -> "already_current"
                   [] lead.exists /\ r > lead.winner /\ paths = {} -> "already_current"
                   [] OTHER -> "applied"
  IN  [outcome |-> outcome,
       paths   |-> IF outcome = "applied" THEN paths ELSE {},
       advance |-> outcome \in Accepting /\ r > lead.winner]

\* decisionMeaningEquals: a stored decision against what would be decided now.
MeaningEquals(stored, planned) ==
  \/ stored = planned
  \/ stored = "applied" /\ planned \in {"already_current", "stale"}

PrepareDecision(w) ==
  /\ work[w].at = "looked"
  /\ LET plan == Plan(work[w].on, work[w].attempt)
         found == work[w].found
     IN  \/ /\ found = None
            /\ work' = [work EXCEPT ![w].at = "planned", ![w].plan = plan]
         \/ /\ found # None /\ MeaningEquals(found, plan.outcome)
            /\ work' = [work EXCEPT ![w].at = "decided",
                          ![w].plan = [Undecided EXCEPT !.outcome = found]]
         \/ /\ found # None /\ ~MeaningEquals(found, plan.outcome)
            /\ work' = [work EXCEPT ![w].at = "failed"]
  /\ UNCHANGED <<receipt, window, decision, command, lead, faults, edits>>

\* expectedRevision is read anew, after the plan was made.
ReadRevision(w) ==
  /\ work[w].at = "planned" /\ work[w].plan.outcome = "applied"
  /\ work' = [work EXCEPT ![w].at = "ready", ![w].rev = lead.rev]
  /\ UNCHANGED <<receipt, window, decision, command, lead, faults, edits>>

Checksum(w) == [rev |-> work[w].rev, paths |-> work[w].plan.paths]

\* A decision is inserted under a unique key, and the receipt points to it;
\* the proof of an earlier decision is withdrawn (pointReceiptToDecision).
Fresh(w) == decision[work[w].on][work[w].attempt] = None

\* Mutant: the receipt does not point to the decision.
MutantRecord(w, outcome) ==
  /\ decision' = [decision EXCEPT ![work[w].on][work[w].attempt] = outcome]
  /\ work' = [work EXCEPT ![w].at = "decided", ![w].plan.outcome = outcome]
  /\ UNCHANGED receipt

Record(w, outcome) ==
  LET r == work[w].on
      n == work[w].attempt
  IN  /\ decision' = [decision EXCEPT ![r][n] = outcome]
      /\ receipt' = [receipt EXCEPT ![r].latest = n,
                       ![r].certified = IF @ = n THEN n ELSE 0]
      /\ work' = [work EXCEPT ![w].at = "decided", ![w].plan.outcome = outcome]

Certified(w) == <<work[w].on, receipt[work[w].on].certified>>

\* Mutant: any decision withdraws the evidence that the lead has.
MutantProofKept(w) == None

ProofKept(w) ==
  IF lead.proof = Certified(w) /\ lead.proof # <<work[w].on, work[w].attempt>>
    THEN None ELSE lead.proof

Races(w) ==
  \/ lead.rev # work[w].rev
  \/ lead.winner >= work[w].on
  \/ ~Fresh(w)

\* Mutant: a race too many is planned again.
MutantAfterRace(tries) == IF tries <= MaxTries THEN "raced" ELSE "failed"

AfterRace(tries) == IF tries < MaxTries THEN "raced" ELSE "failed"

\* synchronizeLeadFromGranot: one transaction under the observation's key.
SynchronizeLead(w) ==
  LET r == work[w].on
      stored == decision[r][work[w].attempt]
      written == [f \in Fields |-> IF f \in work[w].plan.paths
                                     THEN Says[r][f] ELSE lead.state[f]]
  IN
  /\ work[w].at = "ready"
  /\ \/ /\ command[r] = Checksum(w)
        /\ work' = [work EXCEPT ![w].at = "decided",
                      ![w].plan.outcome = IF stored = None THEN "applied" ELSE stored]
        /\ UNCHANGED <<receipt, decision, command, lead>>
     \/ /\ command[r] \notin {None, Checksum(w)}
        /\ work' = [work EXCEPT ![w].at = "failed"]
        /\ UNCHANGED <<receipt, decision, command, lead>>
     \/ /\ command[r] = None /\ Races(w)
        /\ work' = [work EXCEPT ![w].tries = @ + 1,
                      ![w].at = AfterRace(work[w].tries + 1)]
        /\ UNCHANGED <<receipt, decision, command, lead>>
     \/ /\ command[r] = None /\ ~Races(w)
        /\ Record(w, "applied")
        /\ command' = [command EXCEPT ![r] = Checksum(w)]
        /\ lead' = [lead EXCEPT !.state = written, !.winner = r, !.proof = None,
                     !.rev = IF written = lead.state THEN @ ELSE @ + 1]
  /\ UNCHANGED <<window, faults, edits>>

\* Mutant: the compare-and-swap compares nothing.
MutantWinsOver(r) == TRUE

\* The filter of the compare-and-swap needs a winner to compare with.
WinsOver(r) == lead.winner # NoWinner /\ lead.winner < r

\* Any other plan is only recorded; one that is already current also advances
\* the temporal winner, in the same transaction.
PersistDecision(w) ==
  LET r == work[w].on
      plan == work[w].plan
      cas == plan.outcome = "already_current" /\ plan.advance
  IN
  /\ work[w].at = "planned" /\ plan.outcome # "applied"
  /\ \/ /\ cas /\ ~WinsOver(r)
        /\ work' = [work EXCEPT ![w].at = "missed"]
        /\ UNCHANGED <<receipt, decision, lead>>
     \/ /\ cas => WinsOver(r)
        /\ ~Fresh(w)
        /\ work' = [work EXCEPT ![w].at = "failed"]
        /\ UNCHANGED <<receipt, decision, lead>>
     \/ /\ cas => WinsOver(r)
        /\ Fresh(w)
        /\ Record(w, plan.outcome)
        /\ lead' = IF cas THEN [lead EXCEPT !.winner = r, !.proof = None]
                          ELSE [lead EXCEPT !.proof = ProofKept(w)]
  /\ UNCHANGED <<window, command, faults, edits>>

\* A lost race or compare-and-swap is planned again from the lead as it is.
Replan(w) ==
  /\ work[w].at \in {"raced", "missed"}
  /\ LET plan == Plan(work[w].on, work[w].attempt)
         again == work[w].at = "raced" /\ plan.outcome = "applied"
     IN  work' = [work EXCEPT ![w].plan = plan,
                    ![w].at = IF again THEN "planned" ELSE "lost"]
  /\ UNCHANGED <<receipt, window, decision, command, lead, faults, edits>>

\* ... and then recorded, whatever it says, without a compare-and-swap.
PersistReplan(w) ==
  /\ work[w].at = "lost"
  /\ \/ /\ ~Fresh(w)
        /\ work' = [work EXCEPT ![w].at = "failed"]
        /\ UNCHANGED <<receipt, decision, lead>>
     \/ /\ Fresh(w)
        /\ Record(w, work[w].plan.outcome)
        /\ lead' = [lead EXCEPT !.proof = ProofKept(w)]
  /\ UNCHANGED <<window, command, faults, edits>>

-----------------------------------------------------------------------------
(***************************************************************************)
(* Settling the receipt.                                                   *)
(***************************************************************************)
LeaseLost(w) ==
  /\ work[w].at \in {"decided", "failed"} /\ ~Fenced(w)
  /\ work' = [work EXCEPT ![w] = Idle]
  /\ UNCHANGED <<receipt, window, decision, command, lead, faults, edits>>

\* Mutant: the lead is certified whoever its temporal winner is.
MutantCertifies(w) ==
  /\ work[w].plan.outcome \in Accepting
  /\ \A n \in Attempts : n > work[w].attempt => decision[work[w].on][n] = None

\* certifyAcceptedLead: the lead still shows this observation as its winner,
\* and the decision is the last one of the observation.
Certifies(w) ==
  /\ work[w].plan.outcome \in Accepting
  /\ lead.winner = work[w].on
  /\ \A n \in Attempts : n > work[w].attempt => decision[work[w].on][n] = None

Complete(w) ==
  LET r == work[w].on
      n == work[w].attempt
  IN
  /\ work[w].at = "decided" /\ Fenced(w)
  /\ work[w].plan.outcome # "pending_match"
  /\ receipt' = [receipt EXCEPT ![r].state = "completed", ![r].latest = n,
       ![r].technical = 0, ![r].owner = None, ![r].expired = FALSE,
       ![r].certified = IF Certifies(w) THEN n ELSE @]
  /\ lead' = IF Certifies(w) THEN [lead EXCEPT !.proof = <<r, n>>] ELSE lead
  /\ work' = [work EXCEPT ![w] = Idle]
  /\ UNCHANGED <<window, decision, command, faults, edits>>

FinalizePendingMatch(w) ==
  LET r == work[w].on
      n == receipt[r].match + 1
      done == ~KeepsMatching(r, n)
  IN
  /\ work[w].at = "decided" /\ Fenced(w)
  /\ work[w].plan.outcome = "pending_match"
  /\ receipt' = [receipt EXCEPT ![r].match = n, ![r].latest = work[w].attempt,
       ![r].state = IF done THEN "completed" ELSE "retry_scheduled",
       ![r].due = IF done THEN @ ELSE FALSE,
       ![r].technical = 0, ![r].owner = None, ![r].expired = FALSE]
  /\ work' = [work EXCEPT ![w] = Idle]
  /\ UNCHANGED <<window, decision, command, lead, faults, edits>>

\* Mutant: a failure is written whether or not the claim still stands.
MutantFailure(w) ==
  /\ work[w].at = "failed"
  /\ receipt' = [receipt EXCEPT ![work[w].on].state = "retry_scheduled",
       ![work[w].on].due = FALSE, ![work[w].on].owner = None,
       ![work[w].on].expired = FALSE]
  /\ work' = [work EXCEPT ![w] = Idle]
  /\ UNCHANGED <<window, decision, command, lead, faults, edits>>

FinalizeTechnicalFailure(w) ==
  LET r == work[w].on
      dead == receipt[r].technical >= MaxTechnical
  IN
  /\ work[w].at = "failed" /\ Fenced(w)
  /\ receipt' = [receipt EXCEPT
       ![r].state = IF dead THEN "dead_letter" ELSE "retry_scheduled",
       ![r].due = IF dead THEN @ ELSE FALSE,
       ![r].owner = None, ![r].expired = FALSE]
  /\ work' = [work EXCEPT ![w] = Idle]
  /\ UNCHANGED <<window, decision, command, lead, faults, edits>>

\* A dependency fails, or a commit succeeds and its answer is lost.
TechnicalError(w) ==
  /\ work[w].at \in Processing
  /\ faults < MaxFaults /\ faults' = faults + 1
  /\ work' = [work EXCEPT ![w].at = "failed"]
  /\ UNCHANGED <<receipt, window, decision, command, lead, edits>>

\* The invocation is killed, or settling the receipt throws.
Crash(w) ==
  /\ work[w].at # "idle"
  /\ faults < MaxFaults /\ faults' = faults + 1
  /\ work' = [work EXCEPT ![w] = Idle]
  /\ UNCHANGED <<receipt, window, decision, command, lead, edits>>

-----------------------------------------------------------------------------
Process(w) ==
  \/ Start(w) \/ LoadReceipt(w) \/ FindDecision(w) \/ PrepareDecision(w)
  \/ ReadRevision(w) \/ SynchronizeLead(w) \/ PersistDecision(w)
  \/ Replan(w) \/ PersistReplan(w)
  \/ LeaseLost(w) \/ Complete(w) \/ FinalizePendingMatch(w)
  \/ FinalizeTechnicalFailure(w)

Next ==
  \/ \E r \in Receipts :
       \/ Capture(r) \/ ComesDue(r) \/ WindowCloses(r)
       \/ RequeueDeadLetterReceipt(r) \/ ExpireOrphan(r) \/ Stall(r)
  \/ LeadArrives \/ EditLead
  \/ \E w \in Workers : \E r \in Receipts : Claim(w, r)
  \/ \E w \in Workers : Process(w) \/ KeepLease(w) \/ TechnicalError(w) \/ Crash(w)

Spec == Init /\ [][Next]_vars

(***************************************************************************)
(* The cron drains every five minutes, in an invocation of its own: due    *)
(* work is claimed again and again until it is settled.                    *)
(***************************************************************************)
FairSpec ==
  /\ Spec
  /\ \A r \in Receipts :
       /\ WF_vars(ComesDue(r)) /\ WF_vars(ExpireOrphan(r))
       /\ SF_vars(\E w \in Workers : Claim(w, r))
  /\ \A w \in Workers : WF_vars(Process(w))

-----------------------------------------------------------------------------
(***************************************************************************)
(* Properties.                                                             *)
(***************************************************************************)
TypeOK ==
  /\ receipt \in [Receipts -> ReceiptRows]
  /\ window \in [Receipts -> BOOLEAN]
  /\ decision \in [Receipts -> [Attempts -> Outcomes \cup {None}]]
  /\ command \in [Receipts -> Checksums \cup {None}]
  /\ lead \in LeadRows
  /\ work \in [Workers -> WorkRows]
  /\ faults \in 0 .. MaxFaults
  /\ edits \in 0 .. MaxEdits

\* The match clock counts recorded pending_match decisions and nothing else:
\* each attempt it has passed was decided so, and none is decided ahead of it,
\* although processors that lost their lease still write decisions.
MatchAttemptsArePending ==
  \A r \in Receipts : \A n \in Attempts :
    /\ n <= receipt[r].match => decision[r][n] = "pending_match"
    /\ n > receipt[r].match + 1 => decision[r][n] = None

\* latest_decision_id names the decision of the highest decided attempt, which
\* settling and un-fenced decision writes both store, and a completed receipt
\* has one.
LatestIsTheLastDecision ==
  \A r \in Receipts :
    /\ receipt[r].latest # 0 => decision[r][receipt[r].latest] # None
    /\ \A n \in Attempts : n > receipt[r].latest => decision[r][n] = None
    /\ receipt[r].state = "completed" => receipt[r].latest # 0

\* The acceptance evidence on a lead is that of its present temporal winner,
\* whose receipt is completed on that very, accepting, decision.
ProofsAreGenuine ==
  lead.proof # None =>
    LET r == lead.proof[1]
        n == lead.proof[2]
    IN  /\ lead.winner = r
        /\ receipt[r].state = "completed"
        /\ receipt[r].latest = n /\ receipt[r].certified = n
        /\ decision[r][n] \in Accepting

\* A lead's temporal winner is never replaced by an older observation.
WinnerMovesForward == [][lead.exists => lead'.winner >= lead.winner]_vars

\* A receipt completed on a final decision is never touched again, neither by
\* late claimants nor by processors that lost its lease.
FinallyDecided(r) ==
  /\ receipt[r].state = "completed"
  /\ decision[r][receipt[r].latest] # "pending_match"

DecidedForGood ==
  [][\A r \in Receipts : FinallyDecided(r) =>
       /\ receipt'[r] = receipt[r] /\ decision'[r] = decision[r]]_vars

\* Processors that overlap, lose their claim, race for the lead or start over
\* after a crash keep the promise of ObservationJournal: an observation is decided
\* attempt by attempt and once each, writes the lead at most once and together
\* with its decision, and evidence is that of the winner until the next one.
Journal == INSTANCE ObservationJournal WITH
  Observations <- Receipts,
  journal      <- decision,
  wrote        <- {r \in Receipts : command[r] # None},
  present      <- lead.exists,
  values       <- lead.state,
  winner       <- lead.winner,
  evidence     <- lead.proof

KeepsTheJournal == Journal!Spec

\* Every captured receipt is completed or dead-lettered, whatever crashes,
\* stalls, errors and races happen on the way.
EveryReceiptSettles ==
  \A r \in Receipts :
    receipt[r].state # "absent" ~> receipt[r].state \in {"completed", "dead_letter"}

(***************************************************************************)
(* What the documents say, and the runs refute.                            *)
(***************************************************************************)
\* docs/knowledge/granot-lifecycle/drainer.md:47, "Technical failure (no
\* Decision): ... attempt 10 -> dead_letter": a receipt is dead-lettered only
\* while its current attempt has no decision.
DeadLettersAreUndecided ==
  \A r \in Receipts : receipt[r].state = "dead_letter" =>
    decision[r][receipt[r].match + 1] = None

\* docs/knowledge/granot-lifecycle/processor.md:91, "Never persist `applied`
\* against a lost claim.": an observation decided applied has written the lead.
AppliedMeansWritten ==
  \A r \in Receipts : \A n \in Attempts :
    decision[r][n] = "applied" => command[r] # None

\* docs/knowledge/granot-lifecycle/processor.md:110, already_current is recorded,
\* and the temporal winner advanced, for an observation "whose authorized
\* desired state ... [is] already current": a new winner's values are on the lead.
WinnersAreCurrent ==
  [][lead'.winner # lead.winner /\ lead'.winner \in Receipts =>
       lead'.state = Says[lead'.winner]]_vars
=============================================================================
