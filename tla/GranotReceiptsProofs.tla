-------------------------- MODULE GranotReceiptsProofs --------------------------
(* Theorems about GranotReceipts, for every number of receipts, workers and
   attempts. *)
EXTENDS GranotReceipts, TLAPS

(* The steps of a processing at which its attempt is known. *)
Loaded(w) ==
  work[w].at \in {"loaded", "looked", "planned", "ready", "raced", "missed",
                  "lost", "decided"}

(* A processing works on the present attempt of its receipt while it holds the
   claim, and on that or an earlier one afterwards. *)
Timely(w) ==
  /\ work[w].at # "idle" => work[w].on \in Receipts
  /\ Loaded(w) =>
       /\ work[w].attempt \in Attempts
       /\ work[w].attempt <= receipt[work[w].on].match + 1
       /\ Fenced(w) => work[w].attempt = receipt[work[w].on].match + 1

(* What a processing holds agrees with the stored decisions: one it found, and
   the one it is about to settle its receipt by.  It sets out to write only a
   lead that is there. *)
Informed(w) ==
  /\ work[w].at # "failed" => work[w].tries < MaxTries
  /\ work[w].at \in {"planned", "lost"} /\ work[w].plan.outcome = "pending_match"
       => work[w].attempt < Offsets
  /\ work[w].at = "looked" /\ work[w].found # None
       => work[w].found = decision[work[w].on][work[w].attempt]
  /\ work[w].at = "decided"
       => /\ work[w].plan.outcome = decision[work[w].on][work[w].attempt]
          /\ work[w].plan.outcome # None
  /\ work[w].at = "planned" /\ work[w].plan.outcome = "applied" => lead.exists
  /\ work[w].at = "ready" => lead.exists

Working == \A w \in Workers : Timely(w) /\ Informed(w)

(* A pending_match decision leaves an offset to wait for; a stored command came
   with an applied decision. *)
Conclusive ==
  \A r \in Receipts :
    /\ \A n \in Attempts : decision[r][n] = "pending_match" => n < Offsets
    /\ command[r] # None => \E n \in Attempts : decision[r][n] = "applied"

(* A lead that has not arrived has no winner and no evidence. *)
Unborn == ~lead.exists => lead.winner = NoWinner /\ lead.proof = None

History == MatchAttemptsArePending /\ LatestIsTheLastDecision

IInv == TypeOK /\ Working /\ History /\ Conclusive /\ Unborn /\ ProofsAreGenuine

-----------------------------------------------------------------------------
(* The initial state. *)

LEMMA InitIsGood == Init => IInv
<1> SUFFICES ASSUME Init PROVE IInv
  OBVIOUS
<1> USE GranotReceiptsAssumption DEF Init
<1>1. TypeOK
  <2>1. receipt \in [Receipts -> ReceiptRows]
    BY DEF ReceiptRows, States
  <2>2. decision \in [Receipts -> [Attempts -> Outcomes \cup {None}]]
    BY DEF Attempts
  <2>3. lead \in LeadRows
    BY DEF LeadRows, NoWinner
  <2>4. work \in [Workers -> WorkRows]
    <3>1. Undecided \in Plans
      BY DEF Undecided, Plans, Outcomes
    <3> QED BY <3>1 DEF Idle, WorkRows, Processing
  <2>5. /\ faults \in 0 .. MaxFaults /\ edits \in 0 .. MaxEdits
        /\ window \in [Receipts -> BOOLEAN]
        /\ command \in [Receipts -> Checksums \cup {None}]
    OBVIOUS
  <2> QED BY <2>1, <2>2, <2>3, <2>4, <2>5 DEF TypeOK
<1>2. Working
  BY DEF Working, Timely, Informed, Loaded, Idle
<1>3. History /\ Conclusive
  <2>1. \A r \in Receipts :
          /\ receipt[r].match = 0 /\ receipt[r].latest = 0
          /\ receipt[r].state = "absent"
          /\ command[r] = None
          /\ \A n \in Attempts : decision[r][n] = None
    OBVIOUS
  <2>2. \A n \in Attempts : ~(n <= 0)
    BY DEF Attempts
  <2>3. None # "pending_match"
    BY DEF Outcomes
  <2> QED BY <2>1, <2>2, <2>3
       DEF History, MatchAttemptsArePending, LatestIsTheLastDecision, Conclusive
<1>4. Unborn /\ ProofsAreGenuine
  BY DEF Unborn, ProofsAreGenuine, NoWinner
<1> QED BY <1>1, <1>2, <1>3, <1>4 DEF IInv

-----------------------------------------------------------------------------
(* Types: the documents. *)

(* planLeadDesiredState yields a plan, and asks for another match attempt only
   when an offset is left. *)
LEMMA PlansAreTyped ==
  ASSUME NEW r \in Receipts, NEW n \in Attempts
  PROVE  /\ Plan(r, n) \in Plans
         /\ Plan(r, n).outcome = "pending_match" => n < Offsets
         /\ Plan(r, n).outcome = "applied" => lead.exists
<1> DEFINE paths == {f \in Fields : lead.state[f] # Says[r][f]}
           outcome == CASE ~lead.exists /\ KeepsMatching(r, n) -> "pending_match"
                   [] ~lead.exists /\ ~KeepsMatching(r, n) -> "unmatched"
                   [] lead.exists /\ r < lead.winner -> "stale"
                   [] lead.exists /\ r = lead.winner -> "already_current"
                   [] lead.exists /\ r > lead.winner /\ paths = {} -> "already_current"
                   [] OTHER -> "applied"
<1>1. /\ outcome \in Outcomes
      /\ outcome = "pending_match" => n < Offsets
      /\ outcome = "applied" => lead.exists
  BY DEF Outcomes, KeepsMatching
<1>2. (outcome \in Accepting /\ r > lead.winner) \in BOOLEAN
  OBVIOUS
<1>3. (IF outcome = "applied" THEN paths ELSE {}) \in SUBSET Fields
  OBVIOUS
<1>4. Plan(r, n) = [outcome |-> outcome,
                    paths   |-> IF outcome = "applied" THEN paths ELSE {},
                    advance |-> outcome \in Accepting /\ r > lead.winner]
  BY Zenon DEF Plan
<1> HIDE DEF outcome, paths
<1> QED BY <1>1, <1>2, <1>3, <1>4 DEF Plans

(* What time and owners do to a receipt leaves it a receipt. *)
LEMMA ReceiptEdits ==
  ASSUME NEW x \in ReceiptRows
  PROVE  /\ [x EXCEPT !.due = TRUE] \in ReceiptRows
         /\ [x EXCEPT !.expired = TRUE] \in ReceiptRows
         /\ [x EXCEPT !.expired = FALSE] \in ReceiptRows
         /\ [x EXCEPT !.state = "pending", !.due = TRUE] \in ReceiptRows
         /\ [x EXCEPT !.state = "pending", !.due = TRUE, !.technical = 0,
                      !.requeues = @ + 1] \in ReceiptRows
         /\ \A w \in Workers :
              [x EXCEPT !.state = "claimed", !.owner = w, !.expired = FALSE,
                        !.technical = @ + 1] \in ReceiptRows
<1> USE DEF ReceiptRows, States
<1>0. x.technical + 1 \in Nat /\ x.requeues + 1 \in Nat
  OBVIOUS
<1>1. /\ [x EXCEPT !.due = TRUE] \in ReceiptRows
      /\ [x EXCEPT !.expired = TRUE] \in ReceiptRows
      /\ [x EXCEPT !.expired = FALSE] \in ReceiptRows
  OBVIOUS
<1>2. [x EXCEPT !.state = "pending", !.due = TRUE] \in ReceiptRows
  OBVIOUS
<1>3. [x EXCEPT !.state = "pending", !.due = TRUE, !.technical = 0,
                !.requeues = @ + 1] \in ReceiptRows
  BY <1>0
<1>4. ASSUME NEW w \in Workers
      PROVE  [x EXCEPT !.state = "claimed", !.owner = w, !.expired = FALSE,
                       !.technical = @ + 1] \in ReceiptRows
  BY <1>0
<1> HIDE DEF ReceiptRows, States
<1> QED BY <1>1, <1>2, <1>3, <1>4

(* Settling a claim leaves the receipt a receipt. *)
LEMMA Settlements ==
  ASSUME NEW x \in ReceiptRows, NEW n \in Attempts, NEW certified \in BOOLEAN,
         NEW due \in BOOLEAN, NEW state \in States
  PROVE  /\ [x EXCEPT !.state = "completed", !.latest = n, !.technical = 0,
                      !.owner = None, !.expired = FALSE,
                      !.certified = IF certified THEN n ELSE @] \in ReceiptRows
         /\ [x EXCEPT !.state = state, !.due = due, !.owner = None,
                      !.expired = FALSE] \in ReceiptRows
         /\ \A k \in 0 .. Offsets - 1 :
              [x EXCEPT !.match = k, !.latest = n, !.state = state, !.due = due,
                        !.technical = 0, !.owner = None, !.expired = FALSE]
                \in ReceiptRows
         /\ [x EXCEPT !.latest = n, !.certified = IF @ = n THEN n ELSE 0]
              \in ReceiptRows
<1> USE DEF ReceiptRows
<1>0. n \in 0 .. Offsets /\ 0 \in 0 .. Offsets /\ "completed" \in States
  BY GranotReceiptsAssumption DEF Attempts, States
<1>1. [x EXCEPT !.state = "completed", !.latest = n, !.technical = 0,
                !.owner = None, !.expired = FALSE,
                !.certified = IF certified THEN n ELSE @] \in ReceiptRows
  BY <1>0
<1>2. [x EXCEPT !.state = state, !.due = due, !.owner = None,
                !.expired = FALSE] \in ReceiptRows
  BY <1>0
<1>3. ASSUME NEW k \in 0 .. Offsets - 1
      PROVE  [x EXCEPT !.match = k, !.latest = n, !.state = state, !.due = due,
                       !.technical = 0, !.owner = None, !.expired = FALSE]
                \in ReceiptRows
  BY <1>0
<1>4. [x EXCEPT !.latest = n, !.certified = IF @ = n THEN n ELSE 0]
        \in ReceiptRows
  BY <1>0
<1> HIDE DEF ReceiptRows
<1> QED BY <1>1, <1>2, <1>3, <1>4

(* An idle slot is a slot. *)
LEMMA IdleIsTyped == Idle \in WorkRows
<1>1. Undecided \in Plans
  BY DEF Undecided, Plans, Outcomes
<1> QED BY <1>1, GranotReceiptsAssumption DEF Idle, WorkRows, Processing

-----------------------------------------------------------------------------
(* Types: the steps. *)

(* Captures, time, other writers and owners. *)
LEMMA WorldTypes ==
  ASSUME TypeOK
  PROVE  /\ \A r \in Receipts :
              Capture(r) \/ ComesDue(r) \/ WindowCloses(r)
                \/ RequeueDeadLetterReceipt(r) \/ ExpireOrphan(r) \/ Stall(r)
                => TypeOK'
         /\ LeadArrives \/ EditLead => TypeOK'
<1> USE GranotReceiptsAssumption DEF TypeOK
<1>1. ASSUME NEW r \in Receipts, Capture(r) PROVE TypeOK'
  <2>1. [receipt[r] EXCEPT !.state = "pending", !.due = TRUE] \in ReceiptRows
    BY ReceiptEdits
  <2>2. receipt' \in [Receipts -> ReceiptRows]
    BY <1>1, <2>1 DEF Capture
  <2> QED BY <1>1, <2>2 DEF Capture
<1>2. ASSUME NEW r \in Receipts, ComesDue(r) PROVE TypeOK'
  <2>1. [receipt[r] EXCEPT !.due = TRUE] \in ReceiptRows
    BY ReceiptEdits
  <2>2. receipt' \in [Receipts -> ReceiptRows]
    BY <1>2, <2>1 DEF ComesDue
  <2>3. window' \in [Receipts -> BOOLEAN]
    BY <1>2 DEF ComesDue
  <2> QED BY <1>2, <2>2, <2>3 DEF ComesDue
<1>3. ASSUME NEW r \in Receipts, WindowCloses(r) PROVE TypeOK'
  BY <1>3 DEF WindowCloses
<1>4. ASSUME NEW r \in Receipts, RequeueDeadLetterReceipt(r) PROVE TypeOK'
  <2>1. [receipt[r] EXCEPT !.state = "pending", !.due = TRUE, !.technical = 0,
                           !.requeues = @ + 1] \in ReceiptRows
    BY ReceiptEdits
  <2>2. receipt' \in [Receipts -> ReceiptRows]
    BY <1>4, <2>1 DEF RequeueDeadLetterReceipt
  <2> QED BY <1>4, <2>2 DEF RequeueDeadLetterReceipt
<1>5. ASSUME NEW r \in Receipts, ExpireOrphan(r) \/ Stall(r) PROVE TypeOK'
  <2>1. [receipt[r] EXCEPT !.expired = TRUE] \in ReceiptRows
    BY ReceiptEdits
  <2>2. receipt' \in [Receipts -> ReceiptRows]
    BY <1>5, <2>1 DEF ExpireOrphan, Stall, LeaseExpires
  <2>3. faults' \in 0 .. MaxFaults
    BY <1>5 DEF ExpireOrphan, Stall
  <2> QED BY <1>5, <2>2, <2>3 DEF ExpireOrphan, Stall, LeaseExpires
<1>6. ASSUME LeadArrives PROVE TypeOK'
  <2>1. lead' \in LeadRows
    BY <1>6 DEF LeadArrives, LeadRows
  <2> QED BY <1>6, <2>1 DEF LeadArrives
<1>7. ASSUME EditLead PROVE TypeOK'
  <2>1. PICK f \in Fields, v \in Values :
          lead' = [lead EXCEPT !.state[f] = v, !.rev = @ + 1]
    BY <1>7 DEF EditLead
  <2>2. lead' \in LeadRows
    <3>1. [lead.state EXCEPT ![f] = v] \in [Fields -> Values]
          /\ lead.rev + 1 \in Nat
      BY DEF LeadRows
    <3>2. lead' = [lead EXCEPT !.state = [lead.state EXCEPT ![f] = v],
                               !.rev = lead.rev + 1]
      BY <2>1
    <3> QED BY <3>1, <3>2 DEF LeadRows
  <2>3. edits' \in 0 .. MaxEdits
    BY <1>7 DEF EditLead
  <2> QED BY <1>7, <2>2, <2>3 DEF EditLead
<1> QED BY <1>1, <1>2, <1>3, <1>4, <1>5, <1>6, <1>7

(* Claims and leases. *)
LEMMA ClaimTypes ==
  ASSUME TypeOK, Working, NEW w \in Workers
  PROVE  /\ \A r \in Receipts : Claim(w, r) => TypeOK'
         /\ Start(w) \/ KeepLease(w) => TypeOK'
<1> USE DEF TypeOK
<1>1. ASSUME NEW r \in Receipts, Claim(w, r) PROVE TypeOK'
  <2>1. [receipt[r] EXCEPT !.state = "claimed", !.owner = w, !.expired = FALSE,
                           !.technical = @ + 1] \in ReceiptRows
    BY ReceiptEdits
  <2>2. receipt' \in [Receipts -> ReceiptRows]
    BY <1>1, <2>1 DEF Claim
  <2>3. [work[w] EXCEPT !.at = "claimed", !.on = r] \in WorkRows
    BY DEF WorkRows
  <2>4. work' \in [Workers -> WorkRows]
    BY <1>1, <2>3 DEF Claim
  <2> QED BY <1>1, <2>2, <2>4 DEF Claim
<1>2. ASSUME Start(w) \/ KeepLease(w) PROVE TypeOK'
  <2>1. work[w].on \in Receipts
    BY <1>2 DEF Working, Timely, Start, KeepLease, Processing
  <2>2. [receipt[work[w].on] EXCEPT !.expired = FALSE] \in ReceiptRows
    BY <2>1, ReceiptEdits
  <2>3. receipt' \in [Receipts -> ReceiptRows]
    BY <1>2, <2>1, <2>2 DEF Start, KeepLease
  <2>4. [work[w] EXCEPT !.at = "running"] \in WorkRows
    BY DEF WorkRows, Processing
  <2>5. work' \in [Workers -> WorkRows]
    BY <1>2, <2>4, IdleIsTyped DEF Start, KeepLease
  <2> QED BY <1>2, <2>3, <2>5 DEF Start, KeepLease
<1> QED BY <1>1, <1>2

(* The reads and the failures of the processor. *)
LEMMA ReaderTypes ==
  ASSUME TypeOK, Working, NEW w \in Workers
  PROVE  LoadReceipt(w) \/ FindDecision(w) \/ PrepareDecision(w)
           \/ ReadRevision(w) \/ Replan(w) \/ LeaseLost(w) \/ TechnicalError(w)
           \/ Crash(w)
           => TypeOK'
<1> USE DEF TypeOK
<1> DEFINE r == work[w].on
           n == work[w].attempt
<1>0. ASSUME NEW x \in WorkRows, work' = [work EXCEPT ![w] = x]
      PROVE  work' \in [Workers -> WorkRows]
  BY <1>0
<1>10. work[w] \in WorkRows
  OBVIOUS
<1>1. ASSUME LoadReceipt(w) PROVE TypeOK'
  <2>1. r \in Receipts
    BY <1>1 DEF Working, Timely, LoadReceipt
  <2>2. receipt[r].match + 1 \in 0 .. Offsets
    <3>1. receipt[r] \in ReceiptRows
      BY <2>1
    <3>2. receipt[r].match \in 0 .. Offsets - 1
      BY <3>1 DEF ReceiptRows
    <3> QED BY <3>2, GranotReceiptsAssumption
  <2> HIDE DEF r
  <2>3. [work[w] EXCEPT !.at = "loaded", !.attempt = receipt[r].match + 1]
          \in WorkRows
    BY <1>10, <2>2 DEF WorkRows, Processing
  <2> USE DEF r
  <2>4. work' \in [Workers -> WorkRows]
    BY <1>1, <2>3 DEF LoadReceipt
  <2> QED BY <1>1, <2>4 DEF LoadReceipt
<1>2. ASSUME FindDecision(w) PROVE TypeOK'
  <2>1. r \in Receipts /\ n \in Attempts
    BY <1>2 DEF Working, Timely, Loaded, FindDecision
  <2>2. decision[r][n] \in Outcomes \cup {None}
    BY <2>1
  <2>3. \A d \in Outcomes \cup {None} :
          [work[w] EXCEPT !.at = "looked", !.found = d] \in WorkRows
    BY <1>10 DEF WorkRows, Processing
  <2>4. work' \in [Workers -> WorkRows]
    BY <1>2, <2>2, <2>3 DEF FindDecision
  <2> QED BY <1>2, <2>4 DEF FindDecision
<1>3. ASSUME PrepareDecision(w) PROVE TypeOK'
  <2>1. r \in Receipts /\ n \in Attempts
    BY <1>3 DEF Working, Timely, Loaded, PrepareDecision
  <2>2. Plan(r, n) \in Plans
    BY <2>1, PlansAreTyped
  <2>3. [work[w] EXCEPT !.at = "planned", !.plan = Plan(r, n)] \in WorkRows
    BY <2>2 DEF WorkRows, Processing
  <2>4. [work[w] EXCEPT !.at = "failed"] \in WorkRows
    BY DEF WorkRows
  <2>5. work[w].found # None =>
          [work[w] EXCEPT !.at = "decided",
                   !.plan = [Undecided EXCEPT !.outcome = work[w].found]]
            \in WorkRows
    <3>1. work[w].found # None =>
            [Undecided EXCEPT !.outcome = work[w].found] \in Plans
      BY DEF WorkRows, Undecided, Plans
    <3> QED BY <3>1 DEF WorkRows, Processing
  <2>6. work' \in [Workers -> WorkRows]
    BY <1>3, <2>3, <2>4, <2>5 DEF PrepareDecision
  <2> QED BY <1>3, <2>6 DEF PrepareDecision
<1>4. ASSUME ReadRevision(w) PROVE TypeOK'
  <2>1. [work[w] EXCEPT !.at = "ready", !.rev = lead.rev] \in WorkRows
    BY DEF WorkRows, Processing, LeadRows
  <2>2. work' \in [Workers -> WorkRows]
    BY <1>4, <2>1 DEF ReadRevision
  <2> QED BY <1>4, <2>2 DEF ReadRevision
<1>5. ASSUME Replan(w) PROVE TypeOK'
  <2>1. r \in Receipts /\ n \in Attempts
    BY <1>5 DEF Working, Timely, Loaded, Replan
  <2>2. Plan(r, n) \in Plans
    BY <2>1, PlansAreTyped
  <2>3. \A at \in {"planned", "lost"} :
          [work[w] EXCEPT !.plan = Plan(r, n), !.at = at] \in WorkRows
    BY <2>2 DEF WorkRows, Processing
  <2>4. PICK at \in {"planned", "lost"} :
          work' = [work EXCEPT ![w].plan = Plan(r, n), ![w].at = at]
    BY <1>5 DEF Replan
  <2>5. work' \in [Workers -> WorkRows]
    BY <2>3, <2>4
  <2> QED BY <1>5, <2>5 DEF Replan
<1>6. ASSUME LeaseLost(w) PROVE TypeOK'
  BY <1>6, IdleIsTyped DEF LeaseLost
<1>7. ASSUME TechnicalError(w) PROVE TypeOK'
  <2>1. [work[w] EXCEPT !.at = "failed"] \in WorkRows
    BY DEF WorkRows
  <2>2. work' \in [Workers -> WorkRows] /\ faults' \in 0 .. MaxFaults
    BY <1>7, <2>1, GranotReceiptsAssumption DEF TechnicalError
  <2> QED BY <1>7, <2>2 DEF TechnicalError
<1>8. ASSUME Crash(w) PROVE TypeOK'
  <2>1. work' \in [Workers -> WorkRows] /\ faults' \in 0 .. MaxFaults
    BY <1>8, IdleIsTyped, GranotReceiptsAssumption DEF Crash
  <2> QED BY <1>8, <2>1 DEF Crash
<1> QED BY <1>1, <1>2, <1>3, <1>4, <1>5, <1>6, <1>7, <1>8

(* A processing that has its outcome stays well typed. *)
LEMMA DecidedIsTyped ==
  ASSUME NEW x \in WorkRows, NEW o \in Outcomes
  PROVE  [x EXCEPT !.at = "decided", !.plan.outcome = o] \in WorkRows
<1>1. [x.plan EXCEPT !.outcome = o] \in Plans
  BY DEF WorkRows, Plans
<1>2. [x EXCEPT !.at = "decided", !.plan.outcome = o]
        = [x EXCEPT !.at = "decided", !.plan = [x.plan EXCEPT !.outcome = o]]
  BY DEF WorkRows
<1>3. \A p \in Plans : [x EXCEPT !.at = "decided", !.plan = p] \in WorkRows
  BY DEF WorkRows, Processing
<1> QED BY <1>1, <1>2, <1>3

(* Storing a decision: the receipt points to it. *)
LEMMA RecordTypes ==
  ASSUME TypeOK, NEW w \in Workers, work[w].on \in Receipts,
         work[w].attempt \in Attempts, NEW o \in Outcomes, Record(w, o)
  PROVE  /\ receipt' \in [Receipts -> ReceiptRows]
         /\ decision' \in [Receipts -> [Attempts -> Outcomes \cup {None}]]
         /\ work' \in [Workers -> WorkRows]
<1> USE DEF TypeOK
<1> DEFINE r == work[w].on
           n == work[w].attempt
<1>1. [receipt[r] EXCEPT !.latest = n, !.certified = IF @ = n THEN n ELSE 0]
        \in ReceiptRows
  <2>1. receipt[r] \in ReceiptRows /\ n \in Attempts
    OBVIOUS
  <2>2. FALSE \in BOOLEAN /\ "completed" \in States
    BY DEF States
  <2> HIDE DEF r, n
  <2> QED BY <2>1, <2>2, Settlements
<1>2. [work[w] EXCEPT !.at = "decided", !.plan.outcome = o] \in WorkRows
  BY DecidedIsTyped
<1>3. receipt' \in [Receipts -> ReceiptRows]
  BY <1>1 DEF Record
<1>4. work' \in [Workers -> WorkRows]
  BY <1>2 DEF Record
<1>5. decision' \in [Receipts -> [Attempts -> Outcomes \cup {None}]]
  BY DEF Record
<1> QED BY <1>3, <1>4, <1>5

(* Withdrawing evidence leaves the lead a lead. *)
LEMMA ProofKeptIsTyped ==
  ASSUME TypeOK, NEW w \in Workers
  PROVE  /\ [lead EXCEPT !.proof = ProofKept(w)] \in LeadRows
         /\ ProofKept(w) \in {lead.proof, None}
<1>1. ProofKept(w) \in {lead.proof, None}
  BY DEF ProofKept
<1> QED BY <1>1 DEF TypeOK, LeadRows

(* The writers of decisions and of the lead. *)
LEMMA WriterTypes ==
  ASSUME TypeOK, Working, NEW w \in Workers
  PROVE  SynchronizeLead(w) \/ PersistDecision(w) \/ PersistReplan(w) => TypeOK'
<1> USE DEF TypeOK
<1> DEFINE r == work[w].on
           n == work[w].attempt
<1>0. /\ work[w] \in WorkRows
      /\ work[w].plan.outcome \in Outcomes
      /\ work[w].tries \in 0 .. MaxTries
      /\ "applied" \in Outcomes
  BY DEF WorkRows, Plans, Outcomes
<1>1. ASSUME SynchronizeLead(w) PROVE TypeOK'
  <2> DEFINE stored == decision[r][n]
             written == [f \in Fields |-> IF f \in work[w].plan.paths
                                     THEN Says[r][f] ELSE lead.state[f]]
  <2>1. r \in Receipts /\ n \in Attempts /\ work[w].tries < MaxTries
    BY <1>1 DEF Working, Timely, Informed, Loaded, SynchronizeLead
  <2>2. CASE work' = [work EXCEPT ![w].at = "decided",
               ![w].plan.outcome = IF stored = None THEN "applied" ELSE stored]
             /\ UNCHANGED <<receipt, decision, command, lead>>
    <3>1. (IF stored = None THEN "applied" ELSE stored) \in Outcomes
      <4>1. stored \in Outcomes \cup {None}
        BY <2>1
      <4> QED BY <1>0, <4>1
    <3>2. ASSUME NEW o \in Outcomes
          PROVE  [work[w] EXCEPT !.at = "decided", !.plan.outcome = o] \in WorkRows
      BY <1>0, DecidedIsTyped
    <3>3. work' \in [Workers -> WorkRows]
      BY <2>2, <3>1, <3>2
    <3> QED BY <1>1, <2>2, <3>3 DEF SynchronizeLead
  <2>3. CASE work' = [work EXCEPT ![w].at = "failed"]
             /\ UNCHANGED <<receipt, decision, command, lead>>
    <3>1. [work[w] EXCEPT !.at = "failed"] \in WorkRows
      BY <1>0 DEF WorkRows
    <3>2. work' \in [Workers -> WorkRows]
      BY <2>3, <3>1
    <3> QED BY <1>1, <2>3, <3>2 DEF SynchronizeLead
  <2>4. CASE work' = [work EXCEPT ![w].tries = @ + 1,
                        ![w].at = AfterRace(work[w].tries + 1)]
             /\ UNCHANGED <<receipt, decision, command, lead>>
    <3>1. work[w].tries + 1 \in 0 .. MaxTries
      BY <1>0, <2>1, GranotReceiptsAssumption
    <3>2. AfterRace(work[w].tries + 1) \in {"raced", "failed"}
      BY DEF AfterRace
    <3>3. [work[w] EXCEPT !.tries = work[w].tries + 1,
                          !.at = AfterRace(work[w].tries + 1)] \in WorkRows
      BY <1>0, <3>1, <3>2 DEF WorkRows, Processing
    <3>4. work' \in [Workers -> WorkRows]
      BY <2>4, <3>3
    <3> QED BY <1>1, <2>4, <3>4 DEF SynchronizeLead
  <2>5. CASE /\ Record(w, "applied")
             /\ command' = [command EXCEPT ![r] = Checksum(w)]
             /\ lead' = [lead EXCEPT !.state = written, !.winner = r, !.proof = None,
                          !.rev = IF written = lead.state THEN @ ELSE @ + 1]
    <3>1. /\ receipt' \in [Receipts -> ReceiptRows]
          /\ decision' \in [Receipts -> [Attempts -> Outcomes \cup {None}]]
          /\ work' \in [Workers -> WorkRows]
      BY <1>0, <2>1, <2>5, RecordTypes
    <3>2. Checksum(w) \in Checksums
      BY <1>0 DEF Checksum, Checksums, WorkRows, Plans
    <3>3. written \in [Fields -> Values]
      <4>1. Says[r] \in [Fields -> Values]
        BY <2>1, GranotReceiptsAssumption
      <4>2. lead.state \in [Fields -> Values]
        BY DEF LeadRows
      <4> HIDE DEF r
      <4> QED BY <4>1, <4>2
    <3>4. (IF written = lead.state THEN lead.rev ELSE lead.rev + 1) \in Nat
      BY DEF LeadRows
    <3> HIDE DEF written
    <3>5. lead' \in LeadRows
      BY <2>1, <2>5, <3>3, <3>4 DEF LeadRows
    <3>6. command' \in [Receipts -> Checksums \cup {None}]
      BY <2>5, <3>2
    <3> QED BY <1>1, <3>1, <3>5, <3>6 DEF SynchronizeLead
  <2> QED BY <1>1, <2>2, <2>3, <2>4, <2>5 DEF SynchronizeLead
<1>2. ASSUME PersistDecision(w) PROVE TypeOK'
  <2>1. r \in Receipts /\ n \in Attempts
    BY <1>2 DEF Working, Timely, Loaded, PersistDecision
  <2>2. ASSUME NEW at \in {"missed", "failed"}, work' = [work EXCEPT ![w].at = at],
               UNCHANGED <<receipt, decision, lead>>
        PROVE  TypeOK'
    <3>1. [work[w] EXCEPT !.at = at] \in WorkRows
      BY <1>0, <2>2 DEF WorkRows, Processing
    <3>2. work' \in [Workers -> WorkRows]
      BY <2>2, <3>1
    <3> QED BY <1>2, <2>2, <3>2 DEF PersistDecision
  <2>3. ASSUME Record(w, work[w].plan.outcome),
               \/ lead' = [lead EXCEPT !.winner = r, !.proof = None]
               \/ lead' = [lead EXCEPT !.proof = ProofKept(w)]
        PROVE  TypeOK'
    <3>1. /\ receipt' \in [Receipts -> ReceiptRows]
          /\ decision' \in [Receipts -> [Attempts -> Outcomes \cup {None}]]
          /\ work' \in [Workers -> WorkRows]
      BY <1>0, <2>1, <2>3, RecordTypes
    <3>2. [lead EXCEPT !.winner = r, !.proof = None] \in LeadRows
      BY <2>1 DEF LeadRows
    <3>3. lead' \in LeadRows
      BY <2>3, <3>2, ProofKeptIsTyped
    <3> QED BY <1>2, <3>1, <3>3 DEF PersistDecision
  <2> QED BY <1>2, <2>2, <2>3 DEF PersistDecision
<1>3. ASSUME PersistReplan(w) PROVE TypeOK'
  <2>1. r \in Receipts /\ n \in Attempts
    BY <1>3 DEF Working, Timely, Loaded, PersistReplan
  <2>2. CASE work' = [work EXCEPT ![w].at = "failed"]
             /\ UNCHANGED <<receipt, decision, lead>>
    <3>1. [work[w] EXCEPT !.at = "failed"] \in WorkRows
      BY <1>0 DEF WorkRows
    <3>2. work' \in [Workers -> WorkRows]
      BY <2>2, <3>1
    <3> QED BY <1>3, <2>2, <3>2 DEF PersistReplan
  <2>3. CASE Record(w, work[w].plan.outcome)
             /\ lead' = [lead EXCEPT !.proof = ProofKept(w)]
    <3>1. /\ receipt' \in [Receipts -> ReceiptRows]
          /\ decision' \in [Receipts -> [Attempts -> Outcomes \cup {None}]]
          /\ work' \in [Workers -> WorkRows]
      BY <1>0, <2>1, <2>3, RecordTypes
    <3>2. lead' \in LeadRows
      BY <2>3, ProofKeptIsTyped
    <3> QED BY <1>3, <3>1, <3>2 DEF PersistReplan
  <2> QED BY <1>3, <2>2, <2>3 DEF PersistReplan
<1> QED BY <1>1, <1>2, <1>3

(* Settling. *)
LEMMA SettlementTypes ==
  ASSUME TypeOK, Working, Conclusive, NEW w \in Workers
  PROVE  Complete(w) \/ FinalizePendingMatch(w) \/ FinalizeTechnicalFailure(w)
           => TypeOK'
<1> USE DEF TypeOK
<1> DEFINE r == work[w].on
           n == work[w].attempt
<1>1. ASSUME Complete(w) PROVE TypeOK'
  <2>1. r \in Receipts /\ n \in Attempts
    BY <1>1 DEF Working, Timely, Loaded, Complete
  <2>2. Certifies(w) \in BOOLEAN
    BY DEF Certifies
  <2>3. receipt' = [receipt EXCEPT ![r].state = "completed", ![r].latest = n,
          ![r].technical = 0, ![r].owner = None, ![r].expired = FALSE,
          ![r].certified = IF Certifies(w) THEN n ELSE @]
    BY <1>1 DEF Complete
  <2>4. ASSUME NEW c \in BOOLEAN
        PROVE  [receipt[r] EXCEPT !.state = "completed", !.latest = n, !.technical = 0,
                      !.owner = None, !.expired = FALSE,
                      !.certified = IF c THEN n ELSE @] \in ReceiptRows
    <3>1. receipt[r] \in ReceiptRows /\ "completed" \in States /\ TRUE \in BOOLEAN
      BY <2>1 DEF States
    <3> HIDE DEF r, n
    <3> QED BY <2>1, <3>1, Settlements
  <2>5. receipt' \in [Receipts -> ReceiptRows]
    BY <2>2, <2>3, <2>4
  <2>6. lead' \in LeadRows
    BY <1>1, <2>1 DEF Complete, LeadRows
  <2>7. work' \in [Workers -> WorkRows]
    BY <1>1, IdleIsTyped DEF Complete
  <2> QED BY <1>1, <2>5, <2>6, <2>7 DEF Complete
<1>2. ASSUME FinalizePendingMatch(w) PROVE TypeOK'
  <2> DEFINE k == receipt[r].match + 1
             done == ~KeepsMatching(r, k)
  <2>1. r \in Receipts /\ n \in Attempts /\ n = k
    BY <1>2 DEF Working, Timely, Loaded, FinalizePendingMatch
  <2>2. n < Offsets
    BY <1>2, <2>1 DEF Working, Informed, FinalizePendingMatch, Conclusive
  <2>3. k \in 0 .. Offsets - 1
    BY <2>1, <2>2, GranotReceiptsAssumption DEF Attempts
  <2>4. receipt' = [receipt EXCEPT ![r].match = k, ![r].latest = n,
          ![r].state = IF done THEN "completed" ELSE "retry_scheduled",
          ![r].due = IF done THEN @ ELSE FALSE,
          ![r].technical = 0, ![r].owner = None, ![r].expired = FALSE]
    BY <1>2 DEF FinalizePendingMatch
  <2>5. /\ receipt[r] \in ReceiptRows /\ receipt[r].due \in BOOLEAN
        /\ "completed" \in States /\ "retry_scheduled" \in States
    BY <2>1 DEF ReceiptRows, States
  <2> HIDE DEF k, n, r, done
  <2>6. [receipt[r] EXCEPT !.match = k, !.latest = n,
          !.state = IF done THEN "completed" ELSE "retry_scheduled",
          !.due = IF done THEN @ ELSE FALSE,
          !.technical = 0, !.owner = None, !.expired = FALSE] \in ReceiptRows
    BY <2>1, <2>3, <2>5, Settlements
  <2>7. receipt' \in [Receipts -> ReceiptRows]
    BY <2>4, <2>6
  <2>8. work' \in [Workers -> WorkRows]
    BY <1>2, IdleIsTyped DEF FinalizePendingMatch
  <2> QED BY <1>2, <2>7, <2>8 DEF FinalizePendingMatch
<1>3. ASSUME FinalizeTechnicalFailure(w) PROVE TypeOK'
  <2> DEFINE dead == receipt[r].technical >= MaxTechnical
  <2>1. r \in Receipts
    BY <1>3 DEF Working, Timely, FinalizeTechnicalFailure
  <2>2. receipt' = [receipt EXCEPT
          ![r].state = IF dead THEN "dead_letter" ELSE "retry_scheduled",
          ![r].due = IF dead THEN @ ELSE FALSE,
          ![r].owner = None, ![r].expired = FALSE]
    BY <1>3 DEF FinalizeTechnicalFailure
  <2>3. receipt[r] \in ReceiptRows
    BY <2>1
  <2> HIDE DEF r, dead
  <2>4. [receipt[r] EXCEPT
          !.state = IF dead THEN "dead_letter" ELSE "retry_scheduled",
          !.due = IF dead THEN @ ELSE FALSE,
          !.owner = None, !.expired = FALSE] \in ReceiptRows
    BY <2>3 DEF ReceiptRows, States
  <2>5. receipt' \in [Receipts -> ReceiptRows]
    BY <2>2, <2>4
  <2>6. work' \in [Workers -> WorkRows]
    BY <1>3, IdleIsTyped DEF FinalizeTechnicalFailure
  <2> QED BY <1>3, <2>5, <2>6 DEF FinalizeTechnicalFailure
<1> QED BY <1>1, <1>2, <1>3

LEMMA TypeStep == IInv /\ [Next]_vars => TypeOK'
<1> SUFFICES ASSUME IInv, [Next]_vars PROVE TypeOK'
  OBVIOUS
<1>1. TypeOK /\ Working /\ Conclusive
  BY DEF IInv
<1>2. CASE UNCHANGED vars
  BY <1>1, <1>2 DEF TypeOK, vars
<1>3. CASE Next
  BY <1>1, <1>3, WorldTypes, ClaimTypes, ReaderTypes, WriterTypes, SettlementTypes
     DEF Next, Process
<1> QED BY <1>2, <1>3

-----------------------------------------------------------------------------
(* What the steps leave alone. *)

(* A step that stores no decision and moves no match clock. *)
Quiet ==
  /\ decision' = decision /\ command' = command
  /\ \A r \in Receipts :
       /\ receipt'[r].match = receipt[r].match
       /\ receipt'[r].latest = receipt[r].latest
       /\ receipt'[r].certified = receipt[r].certified
       /\ receipt'[r].state = "completed" <=> receipt[r].state = "completed"

(* A step of others: decisions stay, match clocks only advance, and nobody
   gains or keeps a claim whose match clock moves. *)
Undisturbed(v) ==
  /\ work'[v] = work[v]
  /\ lead.exists => lead'.exists
  /\ \A r \in Receipts :
       /\ \A n \in Attempts :
            decision[r][n] # None => decision'[r][n] = decision[r][n]
       /\ receipt[r].match <= receipt'[r].match
       /\ receipt'[r].state = "claimed" /\ receipt'[r].owner = v =>
            /\ receipt[r].state = "claimed" /\ receipt[r].owner = v
            /\ receipt'[r].match = receipt[r].match

(* A processing is not disturbed by such a step. *)
LEMMA OthersStand ==
  ASSUME TypeOK, TypeOK', NEW v \in Workers, Timely(v), Informed(v), Undisturbed(v)
  PROVE  Timely(v)' /\ Informed(v)'
<1> USE DEF TypeOK
<1>1. Loaded(v)' <=> Loaded(v)
  BY DEF Loaded, Undisturbed
<1>2. work[v].at # "idle" => work[v].on \in Receipts
  BY DEF Timely
<1>3. Timely(v)'
  <2>1. CASE Loaded(v)
    <3> DEFINE r == work[v].on
    <3>1. r \in Receipts /\ work'[v].on = r /\ work'[v].attempt = work[v].attempt
      BY <1>2, <2>1 DEF Loaded, Undisturbed
    <3>2. receipt[r].match \in Int /\ receipt'[r].match \in Int
          /\ work[v].attempt \in Int
      BY <2>1, <3>1 DEF ReceiptRows, Timely, Attempts
    <3>3. work[v].attempt <= receipt'[r].match + 1
      BY <2>1, <3>1, <3>2 DEF Timely, Undisturbed
    <3>4. Fenced(v)' => work[v].attempt = receipt'[r].match + 1
      BY <2>1, <3>1 DEF Fenced, Timely, Undisturbed
    <3> QED BY <2>1, <3>1, <3>3, <3>4 DEF Timely
  <2>2. CASE ~Loaded(v)
    BY <1>1, <1>2, <2>2 DEF Timely, Undisturbed
  <2> QED BY <2>1, <2>2
<1>4. Informed(v)'
  <2>1. ASSUME work[v].at = "looked", work[v].found # None
        PROVE  work[v].found = decision'[work[v].on][work[v].attempt]
    BY <1>2, <2>1 DEF Loaded, Timely, Informed, Undisturbed
  <2>2. ASSUME work[v].at = "decided"
        PROVE  work[v].plan.outcome = decision'[work[v].on][work[v].attempt]
    BY <1>2, <2>2 DEF Loaded, Timely, Informed, Undisturbed
  <2> QED BY <2>1, <2>2 DEF Informed, Undisturbed
<1> QED BY <1>3, <1>4

(* Quiet steps keep the history. *)
LEMMA QuietHistory ==
  ASSUME History, Conclusive, Quiet
  PROVE  History' /\ Conclusive'
BY DEF History, Conclusive, MatchAttemptsArePending, LatestIsTheLastDecision, Quiet

(* ... and the evidence, unless they withdraw it. *)
LEMMA QuietProofs ==
  ASSUME TypeOK, ProofsAreGenuine, Quiet,
         lead'.proof = None \/ (lead'.proof = lead.proof /\ lead'.winner = lead.winner)
  PROVE  ProofsAreGenuine'
<1> SUFFICES ASSUME lead'.proof # None, lead'.proof = lead.proof,
                    lead'.winner = lead.winner
             PROVE  ProofsAreGenuine'
  BY DEF ProofsAreGenuine
<1>1. lead.proof \in Receipts \X Attempts
  BY DEF TypeOK, LeadRows
<1>2. lead.proof[1] \in Receipts
  BY <1>1
<1> QED BY <1>2 DEF ProofsAreGenuine, Quiet

(* Which attempt a processing can decide: the present one. *)
LEMMA FreshIsPresent ==
  ASSUME TypeOK, History, NEW w \in Workers, Timely(w), Loaded(w), Fresh(w)
  PROVE  /\ work[w].on \in Receipts /\ work[w].attempt \in Attempts
         /\ work[w].attempt = receipt[work[w].on].match + 1
<1> DEFINE r == work[w].on
           n == work[w].attempt
<1>1. r \in Receipts /\ n \in Attempts /\ n <= receipt[r].match + 1
  BY DEF Timely, Loaded
<1>2. receipt[r].match \in Int /\ n \in Int
  BY <1>1 DEF TypeOK, ReceiptRows, Attempts
<1>3. ~(n <= receipt[r].match)
  <2>1. None # "pending_match"
    BY GranotReceiptsAssumption DEF Outcomes
  <2> QED BY <1>1, <2>1 DEF Fresh, History, MatchAttemptsArePending
<1> QED BY <1>1, <1>2, <1>3

(* Storing a decision for the present attempt continues the history. *)
LEMMA RecordHistory ==
  ASSUME TypeOK, History, Conclusive, NEW w \in Workers, Timely(w), Loaded(w),
         Fresh(w), NEW o \in Outcomes, Record(w, o),
         o = "pending_match" => work[w].attempt < Offsets,
         \/ command' = command
         \/ /\ o = "applied"
            /\ \A r \in Receipts \ {work[w].on} : command'[r] = command[r]
  PROVE  History' /\ Conclusive'
<1> DEFINE r == work[w].on
           n == work[w].attempt
<1>1. r \in Receipts /\ n \in Attempts /\ n = receipt[r].match + 1
  BY FreshIsPresent
<1>2. /\ \A q \in Receipts : \A k \in Attempts :
           decision'[q][k] = IF q = r /\ k = n THEN o ELSE decision[q][k]
      /\ \A q \in Receipts :
           /\ receipt'[q].match = receipt[q].match
           /\ receipt'[q].state = receipt[q].state
           /\ receipt'[q].latest = IF q = r THEN n ELSE receipt[q].latest
  BY <1>1 DEF Record, TypeOK, ReceiptRows
<1>3. o # None /\ None # "pending_match"
  BY GranotReceiptsAssumption DEF Outcomes
<1>4. n \in Int /\ n # 0 /\ \A q \in Receipts : receipt[q].match \in Int
  BY <1>1 DEF TypeOK, ReceiptRows, Attempts
<1> HIDE DEF r, n
<1>5. MatchAttemptsArePending'
  <2> SUFFICES ASSUME NEW q \in Receipts, NEW k \in Attempts
               PROVE  /\ k <= receipt'[q].match => decision'[q][k] = "pending_match"
                      /\ k > receipt'[q].match + 1 => decision'[q][k] = None
    BY DEF MatchAttemptsArePending
  <2>1. CASE q = r /\ k = n
    BY <1>1, <1>2, <1>4, <2>1
  <2>2. CASE ~(q = r /\ k = n)
    BY <1>2, <2>2 DEF History, MatchAttemptsArePending
  <2> QED BY <2>1, <2>2
<1>6. LatestIsTheLastDecision'
  <2> SUFFICES ASSUME NEW q \in Receipts
               PROVE  /\ receipt'[q].latest # 0 => decision'[q][receipt'[q].latest] # None
                      /\ \A k \in Attempts :
                           k > receipt'[q].latest => decision'[q][k] = None
                      /\ receipt'[q].state = "completed" => receipt'[q].latest # 0
    BY DEF LatestIsTheLastDecision
  <2>1. CASE q = r
    <3>1. receipt'[q].latest = n /\ decision'[q][n] = o
      BY <1>1, <1>2, <2>1
    <3>2. ASSUME NEW k \in Attempts, k > n
          PROVE  decision'[q][k] = None
      BY <1>1, <1>2, <1>4, <2>1, <3>2 DEF History, MatchAttemptsArePending, Attempts
    <3> QED BY <1>3, <1>4, <3>1, <3>2
  <2>2. CASE q # r
    <3>1. receipt[q].latest \in 0 .. Offsets
      BY DEF TypeOK, ReceiptRows
    <3>2. receipt[q].latest # 0 => receipt[q].latest \in Attempts
      BY <3>1, GranotReceiptsAssumption DEF Attempts
    <3> QED BY <1>2, <2>2, <3>2 DEF History, LatestIsTheLastDecision
  <2> QED BY <2>1, <2>2
<1>7. Conclusive'
  <2> SUFFICES ASSUME NEW q \in Receipts
               PROVE  /\ \A k \in Attempts :
                           decision'[q][k] = "pending_match" => k < Offsets
                      /\ command'[q] # None =>
                           \E k \in Attempts : decision'[q][k] = "applied"
    BY DEF Conclusive
  <2>1. \A k \in Attempts : decision'[q][k] = "pending_match" => k < Offsets
    BY <1>2 DEF Conclusive, r, n
  <2>2. ASSUME command'[q] # None
        PROVE  \E k \in Attempts : decision'[q][k] = "applied"
    <3>1. CASE q = r /\ o = "applied"
      BY <1>1, <1>2, <3>1
    <3>2. CASE ~(q = r /\ o = "applied")
      <4>1. command[q] # None
        BY <2>2, <3>2 DEF r
      <4>2. PICK k \in Attempts : decision[q][k] = "applied"
        BY <4>1 DEF Conclusive
      <4>3. ~(q = r /\ k = n)
        <5>1. decision[r][n] = None /\ None # "applied"
          BY GranotReceiptsAssumption DEF Fresh, r, n, Outcomes
        <5> QED BY <4>2, <5>1
      <4> QED BY <1>2, <4>2, <4>3
    <3> QED BY <3>1, <3>2
  <2> QED BY <2>1, <2>2
<1> QED BY <1>5, <1>6, <1>7 DEF History

(* A certified receipt has no attempt left to decide. *)
LEMMA CertifiedIsDecided ==
  ASSUME TypeOK, History, ProofsAreGenuine, NEW w \in Workers, Timely(w),
         Loaded(w), Fresh(w), lead.proof # None
  PROVE  lead.proof[1] # work[w].on
<1> SUFFICES ASSUME lead.proof[1] = work[w].on PROVE FALSE
  OBVIOUS
<1> DEFINE r == lead.proof[1]
           n == lead.proof[2]
<1>1. r \in Receipts /\ n \in Attempts
  <2>1. lead.proof \in Receipts \X Attempts
    BY DEF TypeOK, LeadRows
  <2> QED BY <2>1
<1>2. decision[r][n] \in Accepting
  BY DEF ProofsAreGenuine
<1>3. decision[r][receipt[r].match + 1] = None /\ receipt[r].match \in Int
  BY <1>1, FreshIsPresent DEF Fresh, TypeOK, ReceiptRows
<1>4. decision[r][n] # None /\ decision[r][n] # "pending_match"
  BY <1>2, GranotReceiptsAssumption DEF Accepting, Outcomes
<1>5. n # receipt[r].match + 1
  BY <1>3, <1>4
<1>6. n <= receipt[r].match \/ n > receipt[r].match + 1
  BY <1>1, <1>3, <1>5 DEF Attempts
<1> QED BY <1>1, <1>4, <1>6 DEF History, MatchAttemptsArePending

(* Storing a decision keeps the evidence that the step does not withdraw. *)
LEMMA RecordProofs ==
  ASSUME TypeOK, History, ProofsAreGenuine, NEW w \in Workers, Timely(w),
         Loaded(w), Fresh(w), NEW o \in Outcomes, Record(w, o),
         lead'.proof = None \/ (lead'.proof = lead.proof /\ lead'.winner = lead.winner)
  PROVE  ProofsAreGenuine'
<1> SUFFICES ASSUME lead'.proof # None, lead'.proof = lead.proof,
                    lead'.winner = lead.winner
             PROVE  ProofsAreGenuine'
  BY DEF ProofsAreGenuine
<1>1. lead.proof[1] \in Receipts
  <2>1. lead.proof \in Receipts \X Attempts
    BY DEF TypeOK, LeadRows
  <2> QED BY <2>1
<1>2. lead.proof[1] # work[w].on
  BY CertifiedIsDecided
<1>3. /\ receipt'[lead.proof[1]] = receipt[lead.proof[1]]
      /\ decision'[lead.proof[1]] = decision[lead.proof[1]]
  BY <1>1, <1>2 DEF Record, TypeOK
<1> QED BY <1>3 DEF ProofsAreGenuine

(* The processing that stored the decision holds it, the others are undisturbed. *)
LEMMA RecordWork ==
  ASSUME TypeOK, TypeOK', History, NEW w \in Workers, Timely(w), Informed(w),
         Loaded(w), Fresh(w), NEW o \in Outcomes, Record(w, o),
         lead.exists => lead'.exists
  PROVE  /\ Timely(w)' /\ Informed(w)'
         /\ \A v \in Workers \ {w} : Undisturbed(v)
<1> DEFINE r == work[w].on
           n == work[w].attempt
<1>1. r \in Receipts /\ n \in Attempts /\ n = receipt[r].match + 1
  BY FreshIsPresent
<1>2. /\ work'[w].at = "decided" /\ work'[w].on = r /\ work'[w].attempt = n
      /\ work'[w].plan.outcome = o /\ work'[w].tries = work[w].tries
      /\ \A v \in Workers \ {w} : work'[v] = work[v]
  BY DEF Record, TypeOK, WorkRows, Plans
<1>3. /\ \A q \in Receipts :
           /\ receipt'[q].match = receipt[q].match
           /\ receipt'[q].state = receipt[q].state
           /\ receipt'[q].owner = receipt[q].owner
      /\ \A q \in Receipts : \A k \in Attempts :
           decision'[q][k] = IF q = r /\ k = n THEN o ELSE decision[q][k]
  <2>1. receipt' = [receipt EXCEPT ![r].latest = n,
                      ![r].certified = IF @ = n THEN n ELSE 0]
    BY DEF Record
  <2>2. receipt'[r] = [receipt[r] EXCEPT !.latest = n,
                         !.certified = IF @ = n THEN n ELSE 0]
    BY <1>1, <2>1 DEF TypeOK
  <2>3. ASSUME NEW q \in Receipts
        PROVE  /\ receipt'[q].match = receipt[q].match
               /\ receipt'[q].state = receipt[q].state
               /\ receipt'[q].owner = receipt[q].owner
    <3>1. receipt[r] \in ReceiptRows
      BY <1>1 DEF TypeOK
    <3>2. CASE q = r
      BY <2>2, <3>1, <3>2 DEF ReceiptRows
    <3>3. CASE q # r
      BY <2>1, <3>3 DEF TypeOK
    <3> QED BY <3>2, <3>3
  <2>4. decision' = [decision EXCEPT ![r][n] = o]
    BY DEF Record
  <2>5. \A q \in Receipts : \A k \in Attempts :
          decision'[q][k] = IF q = r /\ k = n THEN o ELSE decision[q][k]
    BY <1>1, <2>4 DEF TypeOK
  <2> QED BY <2>3, <2>5
<1>4. o # None
  BY GranotReceiptsAssumption
<1>5. \A q \in Receipts : receipt[q].match \in Int
  BY DEF TypeOK, ReceiptRows
<1>6. Timely(w)'
  BY <1>1, <1>2, <1>3, <1>5 DEF Timely
<1>7. Informed(w)'
  BY <1>1, <1>2, <1>3, <1>4 DEF Informed, Loaded
<1>8. ASSUME NEW v \in Workers \ {w} PROVE Undisturbed(v)
  BY <1>1, <1>2, <1>3, <1>5 DEF Undisturbed, Fresh
<1> QED BY <1>6, <1>7, <1>8

-----------------------------------------------------------------------------
(* The other parts of the invariant: the steps. *)

Kept == Working' /\ History' /\ Conclusive' /\ Unborn' /\ ProofsAreGenuine'

(* A step that decides nothing, touches no processing and names no winner. *)
Aside ==
  /\ Quiet /\ work' = work
  /\ \A r \in Receipts :
       /\ receipt'[r].owner = receipt[r].owner
       /\ receipt'[r].state = "claimed" => receipt[r].state = "claimed"
  /\ lead'.proof = lead.proof
  /\ lead.exists => lead'.exists /\ lead'.winner = lead.winner
  /\ ~lead'.exists => lead'.winner = lead.winner

(* Captures, time, other writers, owners and heartbeats step aside. *)
LEMMA WorldKeeps ==
  ASSUME IInv, TypeOK',
         \/ \E r \in Receipts :
              Capture(r) \/ ComesDue(r) \/ WindowCloses(r)
                \/ RequeueDeadLetterReceipt(r) \/ ExpireOrphan(r) \/ Stall(r)
         \/ LeadArrives \/ EditLead
         \/ \E w \in Workers : KeepLease(w)
  PROVE  Kept
<1> USE DEF IInv, TypeOK
<1>1. Aside
  <2>1. ASSUME NEW r \in Receipts, Capture(r)
        PROVE  Aside
    BY <2>1 DEF Capture, Aside, Quiet, ReceiptRows
  <2>2. ASSUME NEW r \in Receipts, ComesDue(r)
        PROVE  Aside
    BY <2>2 DEF ComesDue, Aside, Quiet, ReceiptRows
  <2>3. ASSUME NEW r \in Receipts, WindowCloses(r)
        PROVE  Aside
    BY <2>3 DEF WindowCloses, Aside, Quiet
  <2>4. ASSUME NEW r \in Receipts, RequeueDeadLetterReceipt(r)
        PROVE  Aside
    BY <2>4 DEF RequeueDeadLetterReceipt, Aside, Quiet, ReceiptRows
  <2>5. ASSUME NEW r \in Receipts, ExpireOrphan(r) \/ Stall(r)
        PROVE  Aside
    <3>1. LeaseExpires(r)
      BY <2>5 DEF ExpireOrphan, Stall
    <3> QED BY <3>1 DEF LeaseExpires, Aside, Quiet, ReceiptRows
  <2>6. ASSUME LeadArrives
        PROVE  Aside
    BY <2>6 DEF LeadArrives, Aside, Quiet, LeadRows
  <2>7. ASSUME EditLead
        PROVE  Aside
    <3>1. PICK f \in Fields, v \in Values :
            lead' = [lead EXCEPT !.state[f] = v, !.rev = @ + 1]
      BY <2>7 DEF EditLead
    <3>2. /\ lead'.proof = lead.proof /\ lead'.winner = lead.winner
          /\ lead'.exists = lead.exists
      BY <3>1 DEF LeadRows
    <3> QED BY <2>7, <3>2 DEF EditLead, Aside, Quiet
  <2>8. ASSUME NEW w \in Workers, KeepLease(w)
        PROVE  Aside
    BY <2>8 DEF KeepLease, Aside, Quiet, ReceiptRows
  <2> QED BY <2>1, <2>2, <2>3, <2>4, <2>5, <2>6, <2>7, <2>8
<1>2. Working'
  <2>1. ASSUME NEW v \in Workers PROVE Undisturbed(v)
    <3>1. \A r \in Receipts : receipt[r].match \in Int
      BY DEF ReceiptRows
    <3> QED BY <1>1, <3>1 DEF Aside, Quiet, Undisturbed
  <2> QED BY <2>1, OthersStand DEF Working
<1>3. History' /\ Conclusive'
  BY <1>1, QuietHistory DEF Aside
<1>4. Unborn'
  BY <1>1 DEF Unborn, Aside
<1>5. ProofsAreGenuine'
  <2>1. lead.proof # None => lead'.winner = lead.winner
    BY <1>1 DEF Unborn, Aside
  <2>2. Quiet /\ lead'.proof = lead.proof
    BY <1>1 DEF Aside
  <2>3. lead'.proof = None \/ (lead'.proof = lead.proof /\ lead'.winner = lead.winner)
    BY <2>1, <2>2
  <2> QED BY <2>2, <2>3, QuietProofs
<1> QED BY <1>2, <1>3, <1>4, <1>5 DEF Kept

(* A step of w alone that decides nothing. *)
Solo(w) ==
  /\ Quiet /\ lead' = lead
  /\ \A v \in Workers \ {w} : work'[v] = work[v]
  /\ \A r \in Receipts : receipt'[r].state = "claimed" /\ receipt'[r].owner # w =>
       receipt[r].state = "claimed" /\ receipt'[r].owner = receipt[r].owner

LEMMA SoloKeeps ==
  ASSUME IInv, TypeOK', NEW w \in Workers, Solo(w), Timely(w)', Informed(w)'
  PROVE  Kept
<1> USE DEF IInv
<1>1. Working'
  <2>1. ASSUME NEW v \in Workers \ {w} PROVE Undisturbed(v)
    <3>1. \A r \in Receipts : receipt[r].match \in Int
      BY DEF TypeOK, ReceiptRows
    <3> QED BY <3>1 DEF Solo, Quiet, Undisturbed
  <2> QED BY <2>1, OthersStand DEF Working
<1>2. History' /\ Conclusive'
  BY QuietHistory DEF Solo
<1>3. Unborn'
  BY DEF Unborn, Solo
<1>4. ProofsAreGenuine'
  <2>1. Quiet /\ lead' = lead
    BY DEF Solo
  <2> QED BY <2>1, QuietProofs
<1> QED BY <1>1, <1>2, <1>3, <1>4 DEF Kept

(* A slot that is given back is timely and informed. *)
LEMMA IdleIsSound ==
  ASSUME NEW w \in Workers, work'[w] = Idle
  PROVE  Timely(w)' /\ Informed(w)'
BY GranotReceiptsAssumption DEF Timely, Informed, Loaded, Idle

(* A processing that goes on, with the same attempt of the same receipt, is as
   timely as it was. *)
LEMMA GoingOn ==
  ASSUME NEW w \in Workers, Timely(w), work'[w].at # "idle" => work[w].at # "idle",
         Loaded(w)' => Loaded(w), work'[w].on = work[w].on,
         work'[w].attempt = work[w].attempt, receipt' = receipt
  PROVE  Timely(w)'
BY DEF Timely, Fenced

(* Claims, starts, lost leases, crashes and errors. *)
LEMMA ClaimKeeps ==
  ASSUME IInv, TypeOK', NEW w \in Workers
  PROVE  (\E r \in Receipts : Claim(w, r)) \/ Start(w) \/ LeaseLost(w) \/ Crash(w)
           \/ TechnicalError(w)
           => Kept
<1> USE DEF IInv, TypeOK
<1>0. /\ work[w] \in WorkRows /\ Timely(w) /\ Informed(w)
      /\ \A r \in Receipts : receipt[r] \in ReceiptRows
  BY DEF Working
<1>1. ASSUME NEW r \in Receipts, Claim(w, r) PROVE Kept
  <2>1. Solo(w)
    <3>1. /\ receipt'[r] = [receipt[r] EXCEPT !.state = "claimed", !.owner = w,
                               !.expired = FALSE, !.technical = @ + 1]
          /\ \A q \in Receipts \ {r} : receipt'[q] = receipt[q]
          /\ receipt[r].state # "completed"
      BY <1>1 DEF Claim, Claimable
    <3>2. /\ receipt'[r].state = "claimed" /\ receipt'[r].owner = w
          /\ receipt'[r].match = receipt[r].match
          /\ receipt'[r].latest = receipt[r].latest
          /\ receipt'[r].certified = receipt[r].certified
      BY <1>0, <3>1 DEF ReceiptRows
    <3> QED BY <1>1, <3>1, <3>2 DEF Claim, Solo, Quiet
  <2>2. work'[w].at = "claimed" /\ work'[w].on = r /\ work'[w].tries = work[w].tries
    <3>1. work'[w] = [work[w] EXCEPT !.at = "claimed", !.on = r]
      BY <1>1 DEF Claim
    <3> QED BY <1>0, <3>1 DEF WorkRows
  <2>3. Timely(w)' /\ Informed(w)'
    BY <1>0, <1>1, <2>2 DEF Claim, Timely, Informed, Loaded
  <2> QED BY <2>1, <2>3, SoloKeeps
<1>2. ASSUME Start(w) PROVE Kept
  <2>1. work[w].on \in Receipts
    BY <1>0, <1>2 DEF Start, Timely
  <2>2. Solo(w)
    <3>1. ASSUME NEW q \in Receipts
          PROVE  \/ receipt'[q] = receipt[q]
                 \/ receipt'[q] = [receipt[q] EXCEPT !.expired = FALSE]
      BY <1>2, <2>1 DEF Start
    <3>2. ASSUME NEW q \in Receipts
          PROVE  /\ receipt'[q].state = receipt[q].state
                 /\ receipt'[q].owner = receipt[q].owner
                 /\ receipt'[q].match = receipt[q].match
                 /\ receipt'[q].latest = receipt[q].latest
                 /\ receipt'[q].certified = receipt[q].certified
      BY <1>0, <3>1 DEF ReceiptRows
    <3>3. \A v \in Workers \ {w} : work'[v] = work[v]
      BY <1>2 DEF Start
    <3> QED BY <1>2, <3>2, <3>3 DEF Start, Solo, Quiet
  <2>3. Timely(w)' /\ Informed(w)'
    <3>1. CASE work' = [work EXCEPT ![w] = Idle]
      BY <3>1, IdleIsSound
    <3>2. CASE work' = [work EXCEPT ![w].at = "running"]
      <4>1. work'[w].at = "running" /\ work'[w].on = work[w].on
            /\ work'[w].tries = work[w].tries
        BY <3>2 DEF WorkRows
      <4> QED BY <1>0, <1>2, <2>1, <4>1 DEF Start, Timely, Informed, Loaded
    <3> QED BY <1>2, <3>1, <3>2 DEF Start
  <2> QED BY <2>2, <2>3, SoloKeeps
<1>3. ASSUME LeaseLost(w) \/ Crash(w) PROVE Kept
  <2>1. Solo(w)
    BY <1>3 DEF LeaseLost, Crash, Solo, Quiet
  <2>2. work'[w] = Idle
    BY <1>3 DEF LeaseLost, Crash
  <2> QED BY <2>1, <2>2, IdleIsSound, SoloKeeps
<1>4. ASSUME TechnicalError(w) PROVE Kept
  <2>1. Solo(w)
    BY <1>4 DEF TechnicalError, Solo, Quiet
  <2>2. work'[w].at = "failed" /\ work'[w].on = work[w].on
    BY <1>4 DEF TechnicalError, WorkRows
  <2>3. work[w].on \in Receipts
    BY <1>0, <1>4 DEF TechnicalError, Timely, Processing
  <2>4. Timely(w)' /\ Informed(w)'
    BY <2>2, <2>3 DEF Timely, Informed, Loaded
  <2> QED BY <2>1, <2>4, SoloKeeps
<1> QED BY <1>1, <1>2, <1>3, <1>4

(* The reads of the processor. *)
LEMMA ReadersKeep ==
  ASSUME IInv, TypeOK', NEW w \in Workers,
         LoadReceipt(w) \/ FindDecision(w) \/ PrepareDecision(w)
           \/ ReadRevision(w) \/ Replan(w)
  PROVE  Kept
<1> USE DEF IInv, TypeOK
<1> DEFINE r == work[w].on
           n == work[w].attempt
<1>0. work[w] \in WorkRows /\ Timely(w) /\ Informed(w)
  BY DEF Working
<1>1. Solo(w) /\ receipt' = receipt /\ decision' = decision
  BY DEF LoadReceipt, FindDecision, PrepareDecision, ReadRevision, Replan, Solo, Quiet
<1>2. ASSUME LoadReceipt(w) PROVE Timely(w)' /\ Informed(w)'
  <2>1. /\ work'[w].at = "loaded" /\ work'[w].on = r
        /\ work'[w].attempt = receipt[r].match + 1 /\ work'[w].tries = work[w].tries
    BY <1>2 DEF LoadReceipt, WorkRows
  <2>2. r \in Receipts
    BY <1>0, <1>2 DEF LoadReceipt, Timely
  <2>3. receipt[r].match + 1 \in Attempts /\ receipt[r].match \in Int
    <3>1. receipt[r] \in ReceiptRows
      BY <2>2
    <3>2. receipt[r].match \in 0 .. Offsets - 1
      BY <3>1 DEF ReceiptRows
    <3> QED BY <3>2, GranotReceiptsAssumption DEF Attempts
  <2>4. Timely(w)'
    BY <1>1, <2>1, <2>2, <2>3 DEF Timely
  <2>5. Informed(w)'
    BY <1>0, <1>2, <2>1 DEF LoadReceipt, Informed
  <2> QED BY <2>4, <2>5
<1>3. ASSUME FindDecision(w) PROVE Timely(w)' /\ Informed(w)'
  <2>1. /\ work'[w].at = "looked" /\ work'[w].on = r /\ work'[w].attempt = n
        /\ work'[w].found = decision[r][n] /\ work'[w].tries = work[w].tries
    BY <1>3 DEF FindDecision, WorkRows
  <2>2. Timely(w)'
    BY <1>0, <1>1, <1>3, <2>1, GoingOn DEF FindDecision, Loaded
  <2>3. Informed(w)'
    BY <1>0, <1>1, <1>3, <2>1 DEF FindDecision, Informed
  <2> QED BY <2>2, <2>3
<1>4. ASSUME PrepareDecision(w) PROVE Timely(w)' /\ Informed(w)'
  <2>1. r \in Receipts /\ n \in Attempts
    BY <1>0, <1>4 DEF PrepareDecision, Timely, Loaded
  <2>2. /\ work'[w].on = r /\ work'[w].attempt = n /\ work'[w].tries = work[w].tries
        /\ work'[w].at \in {"planned", "decided", "failed"}
        /\ work'[w].at = "planned" => work'[w].plan = Plan(r, n)
        /\ work'[w].at = "decided" =>
             work[w].found # None /\ work'[w].plan.outcome = work[w].found
    BY <1>4 DEF PrepareDecision, WorkRows, Undecided
  <2>3. /\ Plan(r, n).outcome = "pending_match" => n < Offsets
        /\ Plan(r, n).outcome = "applied" => lead.exists
    BY <2>1, PlansAreTyped
  <2>4. Timely(w)'
    BY <1>0, <1>1, <1>4, <2>2, GoingOn DEF PrepareDecision, Loaded
  <2>5. Informed(w)'
    BY <1>0, <1>1, <1>4, <2>2, <2>3 DEF PrepareDecision, Informed, Solo
  <2> QED BY <2>4, <2>5
<1>5. ASSUME ReadRevision(w) PROVE Timely(w)' /\ Informed(w)'
  <2>1. /\ work'[w].at = "ready" /\ work'[w].on = r /\ work'[w].attempt = n
        /\ work'[w].tries = work[w].tries
    BY <1>5 DEF ReadRevision, WorkRows
  <2>2. Timely(w)'
    BY <1>0, <1>1, <1>5, <2>1, GoingOn DEF ReadRevision, Loaded
  <2>3. Informed(w)'
    <3>1. lead' = lead /\ lead.exists
      BY <1>0, <1>1, <1>5 DEF ReadRevision, Informed, Solo
    <3>2. work[w].tries < MaxTries
      BY <1>0, <1>5 DEF ReadRevision, Informed
    <3> QED BY <2>1, <3>1, <3>2 DEF Informed
  <2> QED BY <2>2, <2>3
<1>6. ASSUME Replan(w) PROVE Timely(w)' /\ Informed(w)'
  <2>1. r \in Receipts /\ n \in Attempts
    BY <1>0, <1>6 DEF Replan, Timely, Loaded
  <2>2. /\ work'[w].on = r /\ work'[w].attempt = n /\ work'[w].tries = work[w].tries
        /\ work'[w].at \in {"planned", "lost"} /\ work'[w].plan = Plan(r, n)
    BY <1>6 DEF Replan, WorkRows
  <2>3. /\ Plan(r, n).outcome = "pending_match" => n < Offsets
        /\ Plan(r, n).outcome = "applied" => lead.exists
    BY <2>1, PlansAreTyped
  <2>4. Timely(w)'
    BY <1>0, <1>1, <1>6, <2>2, GoingOn DEF Replan, Loaded
  <2>5. Informed(w)'
    BY <1>0, <1>1, <1>6, <2>2, <2>3 DEF Replan, Informed, Solo
  <2> QED BY <2>4, <2>5
<1> QED BY <1>1, <1>2, <1>3, <1>4, <1>5, <1>6, SoloKeeps

(* Once the command of an observation is stored, every attempt up to the
   present one is decided. *)
LEMMA CommandsAreDecided ==
  ASSUME TypeOK, History, Conclusive, NEW w \in Workers, Timely(w), Loaded(w),
         command[work[w].on] # None
  PROVE  decision[work[w].on][work[w].attempt] # None
<1> DEFINE r == work[w].on
           n == work[w].attempt
<1>1. r \in Receipts /\ n \in Attempts /\ n <= receipt[r].match + 1
  BY DEF Timely, Loaded
<1>2. PICK k \in Attempts : decision[r][k] = "applied"
  BY <1>1 DEF Conclusive
<1>3. "applied" # "pending_match" /\ "applied" # None /\ "pending_match" # None
  BY GranotReceiptsAssumption DEF Outcomes
<1>4. ~(k <= receipt[r].match) /\ ~(k > receipt[r].match + 1)
  BY <1>1, <1>2, <1>3 DEF History, MatchAttemptsArePending
<1>5. receipt[r].match \in Int /\ k \in Int /\ n \in Int
  BY <1>1 DEF TypeOK, ReceiptRows, Attempts
<1>6. n = k \/ n <= receipt[r].match
  BY <1>1, <1>4, <1>5
<1> QED BY <1>1, <1>2, <1>3, <1>6 DEF History, MatchAttemptsArePending

(* The writes of the processor. *)
LEMMA WritersKeep ==
  ASSUME IInv, TypeOK', NEW w \in Workers
  PROVE  SynchronizeLead(w) \/ PersistDecision(w) \/ PersistReplan(w) => Kept
<1> USE DEF IInv
<1> DEFINE r == work[w].on
           n == work[w].attempt
<1>0. /\ work[w] \in WorkRows /\ Timely(w) /\ Informed(w)
      /\ \A v \in Workers : Timely(v) /\ Informed(v)
  BY DEF Working, TypeOK
<1>1. ASSUME Loaded(w) PROVE r \in Receipts /\ n \in Attempts
  BY <1>0, <1>1 DEF Timely, Loaded
(* A write that stores nothing. *)
<1>2. ASSUME Loaded(w), UNCHANGED <<receipt, decision, command, lead>>,
             \A v \in Workers \ {w} : work'[v] = work[v],
             work'[w].on = r, work'[w].attempt = n,
             work'[w].at \in {"failed", "raced", "missed", "decided"},
             Informed(w)'
      PROVE  Kept
  <2>1. Solo(w)
    BY <1>2 DEF Solo, Quiet
  <2>2. Timely(w)'
    BY <1>0, <1>2, GoingOn DEF Loaded
  <2> QED BY <1>2, <2>1, <2>2, SoloKeeps
(* One that stores the decision of the present attempt. *)
<1>3. ASSUME Loaded(w), Fresh(w), NEW o \in Outcomes, Record(w, o),
             o = "pending_match" => n < Offsets,
             \/ command' = command
             \/ /\ o = "applied"
                /\ \A q \in Receipts \ {r} : command'[q] = command[q],
             lead'.exists = lead.exists,
             lead'.winner = lead.winner \/ lead.exists,
             lead'.proof = None \/ (lead'.proof = lead.proof /\ lead'.winner = lead.winner)
      PROVE  Kept
  <2>1. /\ Timely(w)' /\ Informed(w)'
        /\ \A v \in Workers \ {w} : Undisturbed(v)
    BY <1>0, <1>3, RecordWork
  <2>2. Working'
    BY <1>0, <2>1, OthersStand DEF Working
  <2>3. History' /\ Conclusive'
    BY <1>0, <1>3, RecordHistory
  <2>4. ProofsAreGenuine'
    BY <1>0, <1>3, RecordProofs
  <2>5. Unborn'
    BY <1>3 DEF Unborn
  <2> QED BY <2>2, <2>3, <2>4, <2>5 DEF Kept
<1>4. ASSUME SynchronizeLead(w) PROVE Kept
  <2>1. Loaded(w) /\ r \in Receipts /\ n \in Attempts /\ work[w].at = "ready"
    BY <1>1, <1>4 DEF SynchronizeLead, Loaded
  <2>2. CASE command[r] = Checksum(w) /\ UNCHANGED <<receipt, decision, command, lead>>
             /\ work' = [work EXCEPT ![w].at = "decided",
                   ![w].plan.outcome = IF decision[r][n] = None THEN "applied"
                                                                ELSE decision[r][n]]
    <3>1. command[r] # None
      BY <2>1, <2>2, GranotReceiptsAssumption, <1>0 DEF Checksum, WorkRows, Plans
    <3>2. decision[r][n] # None
      BY <1>0, <2>1, <3>1, CommandsAreDecided
    <3>3. /\ \A v \in Workers \ {w} : work'[v] = work[v]
          /\ work'[w].on = r /\ work'[w].attempt = n
          /\ work'[w].at = "decided" /\ work'[w].plan.outcome = decision[r][n]
          /\ work'[w].tries = work[w].tries
      BY <1>0, <2>2, <3>2 DEF TypeOK, WorkRows, Plans
    <3>4. Informed(w)'
      BY <1>0, <2>1, <2>2, <3>2, <3>3 DEF Informed
    <3> QED BY <1>2, <2>1, <2>2, <3>3, <3>4
  <2>3. CASE UNCHANGED <<receipt, decision, command, lead>>
             /\ work' = [work EXCEPT ![w].at = "failed"]
    <3>1. /\ \A v \in Workers \ {w} : work'[v] = work[v]
          /\ work'[w].on = r /\ work'[w].attempt = n /\ work'[w].at = "failed"
      BY <1>0, <2>3 DEF TypeOK, WorkRows
    <3>2. Informed(w)'
      BY <3>1 DEF Informed
    <3> QED BY <1>2, <2>1, <2>3, <3>1, <3>2
  <2>4. CASE UNCHANGED <<receipt, decision, command, lead>>
             /\ work' = [work EXCEPT ![w].tries = @ + 1,
                           ![w].at = AfterRace(work[w].tries + 1)]
    <3>1. /\ \A v \in Workers \ {w} : work'[v] = work[v]
          /\ work'[w].on = r /\ work'[w].attempt = n
          /\ work'[w].tries = work[w].tries + 1
          /\ work'[w].at = AfterRace(work[w].tries + 1)
      BY <1>0, <2>4 DEF TypeOK, WorkRows
    <3>2. /\ work'[w].at \in {"raced", "failed"}
          /\ work'[w].at # "failed" => work'[w].tries < MaxTries
      BY <3>1 DEF AfterRace
    <3>3. Informed(w)'
      BY <3>2 DEF Informed
    <3> QED BY <1>2, <2>1, <2>4, <3>1, <3>2, <3>3
  <2>5. CASE /\ command[r] = None /\ ~Races(w) /\ Record(w, "applied")
             /\ command' = [command EXCEPT ![r] = Checksum(w)]
             /\ \E s, k : lead' = [lead EXCEPT !.state = s, !.winner = r,
                                             !.proof = None, !.rev = k]
    <3>1. Fresh(w) /\ lead.exists
      BY <1>0, <2>1, <2>5 DEF Races, Informed
    <3>2. lead'.exists = lead.exists /\ lead'.proof = None
      BY <2>5 DEF TypeOK, LeadRows
    <3>3. \A q \in Receipts \ {r} : command'[q] = command[q]
      BY <2>5 DEF TypeOK
    <3>4. "applied" \in Outcomes /\ "applied" # "pending_match"
      BY DEF Outcomes
    <3> QED BY <1>3, <2>1, <2>5, <3>1, <3>2, <3>3, <3>4
  <2> QED BY <1>4, <2>2, <2>3, <2>4, <2>5 DEF SynchronizeLead
<1>5. ASSUME PersistDecision(w) PROVE Kept
  <2> DEFINE plan == work[w].plan
             cas == plan.outcome = "already_current" /\ plan.advance
  <2>1. /\ Loaded(w) /\ r \in Receipts /\ n \in Attempts
        /\ work[w].at = "planned" /\ plan.outcome \in Outcomes
    BY <1>0, <1>1, <1>5 DEF PersistDecision, Loaded, WorkRows, Plans
  <2>2. CASE /\ UNCHANGED <<receipt, decision, lead>>
             /\ \/ work' = [work EXCEPT ![w].at = "missed"]
                \/ work' = [work EXCEPT ![w].at = "failed"]
    <3>1. /\ \A v \in Workers \ {w} : work'[v] = work[v]
          /\ work'[w].on = r /\ work'[w].attempt = n
          /\ work'[w].at \in {"missed", "failed"} /\ work'[w].tries = work[w].tries
      BY <1>0, <2>2 DEF TypeOK, WorkRows
    <3>2. Informed(w)'
      BY <1>0, <2>1, <3>1 DEF Informed
    <3>3. command' = command
      BY <1>5 DEF PersistDecision
    <3> QED BY <1>2, <2>1, <2>2, <3>1, <3>2, <3>3
  <2>3. CASE /\ cas => WinsOver(r)
             /\ Fresh(w) /\ Record(w, plan.outcome)
             /\ lead' = IF cas THEN [lead EXCEPT !.winner = r, !.proof = None]
                               ELSE [lead EXCEPT !.proof = ProofKept(w)]
    <3>1. plan.outcome = "pending_match" => n < Offsets
      BY <1>0, <2>1 DEF Informed
    <3>2. CASE cas
      <4>1. /\ lead'.exists = lead.exists /\ lead'.proof = None
            /\ lead.winner # NoWinner
        BY <2>3, <3>2 DEF TypeOK, LeadRows, WinsOver
      <4>2. lead.exists
        BY <4>1 DEF Unborn
      <4> QED BY <1>3, <1>5, <2>1, <2>3, <3>1, <4>1, <4>2 DEF PersistDecision
    <3>3. CASE ~cas
      <4>1. /\ lead'.exists = lead.exists /\ lead'.winner = lead.winner
            /\ lead'.proof = None \/ lead'.proof = lead.proof
        BY <2>3, <3>3 DEF TypeOK, LeadRows, ProofKept
      <4> QED BY <1>3, <1>5, <2>1, <2>3, <3>1, <4>1 DEF PersistDecision
    <3> QED BY <3>2, <3>3
  <2> QED BY <1>5, <2>2, <2>3 DEF PersistDecision
<1>6. ASSUME PersistReplan(w) PROVE Kept
  <2>1. /\ Loaded(w) /\ r \in Receipts /\ n \in Attempts
        /\ work[w].at = "lost" /\ work[w].plan.outcome \in Outcomes
        /\ command' = command
    BY <1>0, <1>1, <1>6 DEF PersistReplan, Loaded, WorkRows, Plans
  <2>2. CASE /\ UNCHANGED <<receipt, decision, lead>>
             /\ work' = [work EXCEPT ![w].at = "failed"]
    <3>1. /\ \A v \in Workers \ {w} : work'[v] = work[v]
          /\ work'[w].on = r /\ work'[w].attempt = n /\ work'[w].at = "failed"
      BY <1>0, <2>2 DEF TypeOK, WorkRows
    <3>2. Informed(w)'
      BY <3>1 DEF Informed
    <3> QED BY <1>2, <2>1, <2>2, <3>1, <3>2
  <2>3. CASE /\ Fresh(w) /\ Record(w, work[w].plan.outcome)
             /\ lead' = [lead EXCEPT !.proof = ProofKept(w)]
    <3>1. work[w].plan.outcome = "pending_match" => n < Offsets
      BY <1>0, <2>1 DEF Informed
    <3>2. /\ lead'.exists = lead.exists /\ lead'.winner = lead.winner
          /\ lead'.proof = None \/ lead'.proof = lead.proof
      BY <2>3 DEF TypeOK, LeadRows, ProofKept
    <3> QED BY <1>3, <2>1, <2>3, <3>1, <3>2
  <2> QED BY <1>6, <2>2, <2>3 DEF PersistReplan
<1> QED BY <1>4, <1>5, <1>6

(* The steps that settle a receipt. *)
LEMMA SettlementsKeep ==
  ASSUME IInv, TypeOK', NEW w \in Workers
  PROVE  Complete(w) \/ FinalizePendingMatch(w) \/ FinalizeTechnicalFailure(w)
           => Kept
<1> USE DEF IInv
<1> DEFINE r == work[w].on
           n == work[w].attempt
<1>0. /\ work[w] \in WorkRows /\ Timely(w) /\ Informed(w)
      /\ \A v \in Workers : Timely(v) /\ Informed(v)
      /\ \A q \in Receipts : receipt[q] \in ReceiptRows
  BY DEF Working, TypeOK
(* What both ways to finish a decided attempt have in common. *)
<1>1. ASSUME work[w].at = "decided", Fenced(w), NEW m \in {receipt[r].match, n},
             work' = [work EXCEPT ![w] = Idle], decision' = decision,
             command' = command,
             \A q \in Receipts \ {r} : receipt'[q] = receipt[q],
             receipt'[r].match = m, receipt'[r].latest = n,
             receipt'[r].state # "claimed", lead'.exists = lead.exists
      PROVE  /\ r \in Receipts /\ n \in Attempts /\ n = receipt[r].match + 1
             /\ decision[r][n] # None /\ decision[r][n] = work[w].plan.outcome
             /\ Working' /\ Conclusive' /\ LatestIsTheLastDecision'
  <2>1. /\ r \in Receipts /\ n \in Attempts /\ n = receipt[r].match + 1
        /\ decision[r][n] # None /\ decision[r][n] = work[w].plan.outcome
    BY <1>0, <1>1 DEF Timely, Informed, Loaded
  <2>2. receipt[r].match \in Int /\ n \in Int /\ n # 0
    BY <1>0, <2>1 DEF ReceiptRows, Attempts
  <2>3. Working'
    <3>1. ASSUME NEW v \in Workers \ {w} PROVE Undisturbed(v)
      <4>1. \A q \in Receipts : receipt[q].match \in Int
        BY <1>0 DEF ReceiptRows
      <4> QED BY <1>1, <2>1, <2>2, <4>1 DEF Undisturbed
    <3>2. Timely(w)' /\ Informed(w)'
      BY <1>1, IdleIsSound DEF TypeOK
    <3> QED BY <1>0, <3>1, <3>2, OthersStand DEF Working
  <2>4. Conclusive'
    BY <1>1 DEF Conclusive
  <2>5. LatestIsTheLastDecision'
    <3> SUFFICES ASSUME NEW q \in Receipts
                 PROVE  /\ receipt'[q].latest # 0 => decision'[q][receipt'[q].latest] # None
                        /\ \A k \in Attempts : k > receipt'[q].latest => decision'[q][k] = None
                        /\ receipt'[q].state = "completed" => receipt'[q].latest # 0
      BY DEF LatestIsTheLastDecision
    <3>1. CASE q = r
      BY <1>1, <2>1, <2>2, <3>1 DEF History, MatchAttemptsArePending
    <3>2. CASE q # r
      BY <1>1, <3>2 DEF History, LatestIsTheLastDecision
    <3> QED BY <3>1, <3>2
  <2> QED BY <2>1, <2>3, <2>4, <2>5
<1>2. ASSUME Complete(w) PROVE Kept
  <2>1. work[w].at = "decided" /\ Fenced(w) /\ r \in Receipts
    BY <1>0, <1>2 DEF Complete, Timely
  <2>2. receipt'[r] = [receipt[r] EXCEPT !.state = "completed", !.latest = n,
          !.technical = 0, !.owner = None, !.expired = FALSE,
          !.certified = IF Certifies(w) THEN n ELSE @]
    BY <1>2, <2>1 DEF Complete, TypeOK
  <2>3. /\ receipt'[r].state = "completed" /\ receipt'[r].latest = n
        /\ receipt'[r].match = receipt[r].match
        /\ Certifies(w) => receipt'[r].certified = n
    BY <1>0, <2>1, <2>2 DEF ReceiptRows
  <2>4. \A q \in Receipts \ {r} : receipt'[q] = receipt[q]
    BY <1>2 DEF Complete, TypeOK
  <2>5. /\ lead'.exists = lead.exists /\ lead'.winner = lead.winner
        /\ lead'.proof = IF Certifies(w) THEN <<r, n>> ELSE lead.proof
    BY <1>2 DEF Complete, TypeOK, LeadRows
  <2>6. /\ r \in Receipts /\ n \in Attempts /\ n = receipt[r].match + 1
        /\ decision[r][n] # None /\ decision[r][n] = work[w].plan.outcome
        /\ Working' /\ Conclusive' /\ LatestIsTheLastDecision'
    BY <1>1, <1>2, <2>1, <2>3, <2>4, <2>5 DEF Complete
  <2>7. MatchAttemptsArePending'
    <3>1. \A q \in Receipts : receipt'[q].match = receipt[q].match
      BY <2>3, <2>4
    <3>2. decision' = decision
      BY <1>2 DEF Complete
    <3> QED BY <3>1, <3>2 DEF History, MatchAttemptsArePending
  <2>8. Unborn'
    <3>1. r # NoWinner
      BY <2>1, GranotReceiptsAssumption DEF NoWinner
    <3> QED BY <2>5, <3>1 DEF Certifies, Unborn
  <2>9. ProofsAreGenuine'
    <3>1. CASE Certifies(w)
      <4>1. lead'.proof[1] = r /\ lead'.proof[2] = n /\ lead'.winner = r
        BY <2>5, <3>1 DEF Certifies
      <4>2. decision'[r][n] \in Accepting
        BY <1>2, <2>6, <3>1 DEF Complete, Certifies
      <4> QED BY <2>3, <3>1, <4>1, <4>2 DEF ProofsAreGenuine
    <3>2. CASE ~Certifies(w) /\ lead.proof # None
      <4>1. lead.proof \in Receipts \X Attempts
        BY <3>2 DEF TypeOK, LeadRows
      <4>2. lead.proof[1] \in Receipts \ {r}
        BY <2>1, <3>2, <4>1 DEF ProofsAreGenuine, Fenced
      <4>3. lead'.proof = lead.proof
        BY <2>5, <3>2
      <4>4. decision' = decision
        BY <1>2 DEF Complete
      <4> QED BY <2>4, <2>5, <3>2, <4>2, <4>3, <4>4 DEF ProofsAreGenuine
    <3>3. CASE ~Certifies(w) /\ lead.proof = None
      BY <2>5, <3>3 DEF ProofsAreGenuine
    <3> QED BY <3>1, <3>2, <3>3
  <2> QED BY <2>6, <2>7, <2>8, <2>9 DEF Kept, History
<1>3. ASSUME FinalizePendingMatch(w) PROVE Kept
  <2> DEFINE k == receipt[r].match + 1
             done == ~KeepsMatching(r, k)
  <2>1. /\ work[w].at = "decided" /\ Fenced(w) /\ r \in Receipts /\ n = k
    BY <1>0, <1>3 DEF FinalizePendingMatch, Timely, Loaded
  <2>2. receipt'[r] = [receipt[r] EXCEPT !.match = k, !.latest = n,
          !.state = IF done THEN "completed" ELSE "retry_scheduled",
          !.due = IF done THEN @ ELSE FALSE,
          !.technical = 0, !.owner = None, !.expired = FALSE]
    BY <1>3, <2>1 DEF FinalizePendingMatch, TypeOK
  <2>3. /\ receipt'[r].state # "claimed" /\ receipt'[r].latest = n
        /\ receipt'[r].match = n
    <3> HIDE DEF r, n, k, done
    <3> QED BY <1>0, <2>1, <2>2 DEF ReceiptRows
  <2>4. \A q \in Receipts \ {r} : receipt'[q] = receipt[q]
    BY <1>3 DEF FinalizePendingMatch, TypeOK
  <2>5. lead' = lead /\ decision' = decision /\ command' = command
    BY <1>3 DEF FinalizePendingMatch
  <2>6. /\ n \in Attempts /\ decision[r][n] = "pending_match"
        /\ Working' /\ Conclusive' /\ LatestIsTheLastDecision'
    BY <1>1, <1>3, <2>1, <2>3, <2>4, <2>5 DEF FinalizePendingMatch
  <2>7. MatchAttemptsArePending'
    <3> SUFFICES ASSUME NEW q \in Receipts, NEW a \in Attempts
                 PROVE  /\ a <= receipt'[q].match => decision'[q][a] = "pending_match"
                        /\ a > receipt'[q].match + 1 => decision'[q][a] = None
      BY DEF MatchAttemptsArePending
    <3>1. CASE q = r
      <4>1. a \in Int /\ n \in Int /\ receipt[r].match \in Int
        BY <1>0, <2>1, <2>6 DEF Attempts, ReceiptRows
      <4>2. /\ a <= receipt[r].match => decision[r][a] = "pending_match"
            /\ a > n => decision[r][a] = None
        BY <2>1 DEF History, MatchAttemptsArePending
      <4> QED BY <2>1, <2>3, <2>5, <2>6, <3>1, <4>1, <4>2
    <3>2. CASE q # r
      BY <2>4, <2>5, <3>2 DEF History, MatchAttemptsArePending
    <3> QED BY <3>1, <3>2
  <2>8. Unborn'
    BY <2>5 DEF Unborn
  <2>9. ProofsAreGenuine'
    <3>1. CASE lead.proof # None
      <4>1. lead.proof \in Receipts \X Attempts
        BY <3>1 DEF TypeOK, LeadRows
      <4>2. lead.proof[1] \in Receipts \ {r}
        BY <2>1, <3>1, <4>1 DEF ProofsAreGenuine, Fenced
      <4> QED BY <2>4, <2>5, <3>1, <4>2 DEF ProofsAreGenuine
    <3>2. CASE lead.proof = None
      BY <2>5, <3>2 DEF ProofsAreGenuine
    <3> QED BY <3>1, <3>2
  <2> QED BY <2>6, <2>7, <2>8, <2>9 DEF Kept, History
<1>4. ASSUME FinalizeTechnicalFailure(w) PROVE Kept
  <2> DEFINE dead == receipt[r].technical >= MaxTechnical
  <2>1. r \in Receipts /\ receipt[r].state = "claimed"
    BY <1>0, <1>4 DEF FinalizeTechnicalFailure, Timely, Fenced
  <2>2. receipt'[r] = [receipt[r] EXCEPT
          !.state = IF dead THEN "dead_letter" ELSE "retry_scheduled",
          !.due = IF dead THEN @ ELSE FALSE, !.owner = None, !.expired = FALSE]
    BY <1>4, <2>1 DEF FinalizeTechnicalFailure, TypeOK
  <2>3. /\ receipt'[r].state \in {"dead_letter", "retry_scheduled"}
        /\ receipt'[r].match = receipt[r].match
        /\ receipt'[r].latest = receipt[r].latest
        /\ receipt'[r].certified = receipt[r].certified
    <3> HIDE DEF r, dead
    <3> QED BY <1>0, <2>1, <2>2 DEF ReceiptRows
  <2>4. \A q \in Receipts \ {r} : receipt'[q] = receipt[q]
    BY <1>4 DEF FinalizeTechnicalFailure, TypeOK
  <2>5. /\ work'[w] = Idle /\ \A v \in Workers \ {w} : work'[v] = work[v]
        /\ decision' = decision /\ command' = command /\ lead' = lead
    BY <1>4 DEF FinalizeTechnicalFailure, TypeOK
  <2>6. Solo(w)
    BY <2>1, <2>3, <2>4, <2>5 DEF Solo, Quiet
  <2> QED BY <2>5, <2>6, IdleIsSound, SoloKeeps
<1> QED BY <1>2, <1>3, <1>4

LEMMA InvStep == IInv /\ [Next]_vars => IInv'
<1> SUFFICES ASSUME IInv, [Next]_vars PROVE IInv'
  OBVIOUS
<1>1. TypeOK'
  BY TypeStep
<1>2. CASE UNCHANGED vars
  <2>1. Working' /\ History' /\ Conclusive' /\ Unborn' /\ ProofsAreGenuine'
    BY <1>2 DEF vars, IInv, Working, Timely, Informed, Loaded, Fenced, History,
         MatchAttemptsArePending, LatestIsTheLastDecision, Conclusive, Unborn,
         ProofsAreGenuine
  <2> QED BY <1>1, <2>1 DEF IInv
<1>3. CASE Next
  <2>1. Kept
    BY <1>1, <1>3, WorldKeeps, ClaimKeeps, ReadersKeep, WritersKeep, SettlementsKeep
       DEF Next, Process
  <2> QED BY <1>1, <2>1 DEF IInv, Kept
<1> QED BY <1>2, <1>3

-----------------------------------------------------------------------------
(* The theorems. *)

(* The strengthened invariant of claims, fences, processors and decisions holds
   in every reachable state. *)
THEOREM InductiveInvariant == Spec => []IInv
<1> QED BY InitIsGood, InvStep, PTL DEF Spec

(* Every reachable state is well typed; no match clock runs past the offsets. *)
THEOREM TypeCorrect == Spec => []TypeOK
<1>1. IInv => TypeOK
  BY DEF IInv
<1> QED BY <1>1, InductiveInvariant, PTL

(* The match clock of a receipt counts its pending_match decisions, although
   processors that lost their lease go on deciding (finalizePendingMatch,
   persistDecision). *)
THEOREM MatchClockCountsDecisions == Spec => []MatchAttemptsArePending
<1>1. IInv => MatchAttemptsArePending
  BY DEF IInv, History
<1> QED BY <1>1, InductiveInvariant, PTL

(* latest_decision_id names the last decision, whoever wrote it, and completed
   receipts have one. *)
THEOREM LatestIsLast == Spec => []LatestIsTheLastDecision
<1>1. IInv => LatestIsTheLastDecision
  BY DEF IInv, History
<1> QED BY <1>1, InductiveInvariant, PTL

(* Acceptance evidence on a lead belongs to its present winner and to the
   decision its receipt was completed on (certifyAcceptedLead). *)
THEOREM EvidenceIsGenuine == Spec => []ProofsAreGenuine
<1>1. IInv => ProofsAreGenuine
  BY DEF IInv
<1> QED BY <1>1, InductiveInvariant, PTL

LEMMA WinnerStep == IInv /\ [Next]_vars => [lead.exists => lead'.winner >= lead.winner]_vars
<1> SUFFICES ASSUME IInv, Next, lead.exists PROVE lead'.winner >= lead.winner
  BY DEF vars
<1>1. /\ lead.winner \in Int /\ lead \in LeadRows
      /\ \A w \in Workers : Timely(w)
  <2>1. lead \in LeadRows /\ \A w \in Workers : Timely(w)
    BY DEF IInv, TypeOK, Working
  <2>2. lead.winner \in Receipts \/ lead.winner = 0 \/ lead.winner = NoWinner
    BY <2>1 DEF LeadRows
  <2>3. lead.winner \in Int
    <3>1. NoWinner \in Int
      BY DEF NoWinner
    <3>2. \A r \in Receipts : r \in Int
      BY GranotReceiptsAssumption
    <3> QED BY <2>2, <3>1, <3>2
  <2> QED BY <2>1, <2>3
<1>2. ASSUME lead'.winner = lead.winner PROVE lead'.winner >= lead.winner
  BY <1>1, <1>2
<1>3. CASE lead' = lead
  BY <1>2, <1>3
<1>4. CASE EditLead
  <2>1. PICK f \in Fields, v \in Values :
          lead' = [lead EXCEPT !.state[f] = v, !.rev = @ + 1]
    BY <1>4 DEF EditLead
  <2> QED BY <1>1, <1>2, <2>1 DEF LeadRows
<1>5. ASSUME NEW w \in Workers, SynchronizeLead(w) PROVE lead'.winner >= lead.winner
  <2>1. work[w].on \in Receipts
    BY <1>1, <1>5 DEF SynchronizeLead, Timely
  <2>2. CASE /\ ~Races(w)
             /\ \E s, k : lead' = [lead EXCEPT !.state = s, !.winner = work[w].on,
                                             !.proof = None, !.rev = k]
    <3>1. lead'.winner = work[w].on
      BY <1>1, <2>2 DEF LeadRows
    <3>2. ~(lead.winner >= work[w].on) /\ work[w].on \in Int
      BY <2>1, <2>2, GranotReceiptsAssumption DEF Races
    <3> QED BY <1>1, <3>1, <3>2
  <2> QED BY <1>3, <1>5, <2>2 DEF SynchronizeLead
<1>6. ASSUME NEW w \in Workers, PersistDecision(w) PROVE lead'.winner >= lead.winner
  <2>1. work[w].on \in Int
    BY <1>1, <1>6, GranotReceiptsAssumption DEF PersistDecision, Timely
  <2>2. CASE /\ WinsOver(work[w].on)
             /\ lead' = [lead EXCEPT !.winner = work[w].on, !.proof = None]
    <3>1. lead'.winner = work[w].on
      BY <1>1, <2>2 DEF LeadRows
    <3> QED BY <1>1, <2>1, <2>2, <3>1 DEF WinsOver
  <2>3. CASE lead' = [lead EXCEPT !.proof = ProofKept(w)]
    BY <1>1, <1>2, <2>3 DEF LeadRows
  <2> QED BY <1>3, <1>6, <2>2, <2>3 DEF PersistDecision
<1>7. ASSUME NEW w \in Workers, PersistReplan(w) \/ Complete(w)
      PROVE  lead'.winner >= lead.winner
  <2>1. \/ lead' = lead
        \/ \E p : lead' = [lead EXCEPT !.proof = p]
    BY <1>7 DEF PersistReplan, Complete
  <2> QED BY <1>1, <1>2, <2>1 DEF LeadRows
<1>8. CASE LeadArrives
  BY <1>8 DEF LeadArrives
<1>9. ASSUME NEW r \in Receipts,
             \/ Capture(r) \/ ComesDue(r) \/ WindowCloses(r)
             \/ RequeueDeadLetterReceipt(r) \/ ExpireOrphan(r) \/ Stall(r)
             \/ \E w \in Workers : Claim(w, r)
      PROVE  lead' = lead
  BY <1>9 DEF Capture, ComesDue, WindowCloses, RequeueDeadLetterReceipt, ExpireOrphan,
       Stall, LeaseExpires, Claim
<1>10. ASSUME NEW w \in Workers,
              \/ Start(w) \/ LoadReceipt(w) \/ FindDecision(w) \/ PrepareDecision(w)
              \/ ReadRevision(w) \/ Replan(w) \/ LeaseLost(w)
              \/ FinalizePendingMatch(w) \/ FinalizeTechnicalFailure(w)
              \/ KeepLease(w) \/ TechnicalError(w) \/ Crash(w)
       PROVE  lead' = lead
  BY <1>10 DEF Start, LoadReceipt, FindDecision, PrepareDecision, ReadRevision, Replan,
       LeaseLost, FinalizePendingMatch, FinalizeTechnicalFailure, KeepLease,
       TechnicalError, Crash
<1> QED BY <1>3, <1>4, <1>5, <1>6, <1>7, <1>8, <1>9, <1>10 DEF Next, Process

(* No step puts an older observation in the place of a lead's temporal winner:
   neither the command's race test nor the compare-and-swap lets one through. *)
THEOREM WinnersAdvance == Spec => WinnerMovesForward
<1> QED BY InductiveInvariant, WinnerStep, PTL DEF Spec, WinnerMovesForward

(* Nobody has an attempt left to decide for a receipt that is decided for good. *)
LEMMA NothingLeftToDecide ==
  ASSUME TypeOK, History, NEW r \in Receipts, FinallyDecided(r),
         NEW w \in Workers, Timely(w), Loaded(w), Fresh(w)
  PROVE  work[w].on # r
<1> SUFFICES ASSUME work[w].on = r PROVE FALSE
  OBVIOUS
<1> DEFINE n == receipt[r].latest
<1>1. n # 0 /\ decision[r][n] # None /\ decision[r][n] # "pending_match"
  BY DEF FinallyDecided, History, LatestIsTheLastDecision
<1>2. n \in Attempts /\ n \in Int /\ receipt[r].match \in Int
  <2>1. receipt[r] \in ReceiptRows
    BY DEF TypeOK
  <2> QED BY <1>1, <2>1, GranotReceiptsAssumption DEF ReceiptRows, Attempts
<1>3. n = receipt[r].match + 1
  BY <1>1, <1>2 DEF History, MatchAttemptsArePending
<1> QED BY <1>1, <1>3, FreshIsPresent DEF Fresh

LEMMA DecidedStep ==
  ASSUME IInv, Next, NEW r \in Receipts, FinallyDecided(r)
  PROVE  receipt'[r] = receipt[r] /\ decision'[r] = decision[r]
<1>1. /\ receipt[r].state = "completed"
      /\ TypeOK /\ History /\ \A w \in Workers : Timely(w)
  BY DEF FinallyDecided, IInv, Working
<1>2. /\ receipt \in [Receipts -> ReceiptRows]
      /\ decision \in [Receipts -> [Attempts -> Outcomes \cup {None}]]
  BY <1>1 DEF TypeOK
<1>3. ASSUME NEW w \in Workers, Loaded(w), Fresh(w), NEW o, Record(w, o)
      PROVE  receipt'[r] = receipt[r] /\ decision'[r] = decision[r]
  <2>1. work[w].on # r
    BY <1>1, <1>3, NothingLeftToDecide
  <2> QED BY <1>2, <1>3, <2>1 DEF Record
<1>4. ASSUME NEW w \in Workers,
             SynchronizeLead(w) \/ PersistDecision(w) \/ PersistReplan(w)
      PROVE  receipt'[r] = receipt[r] /\ decision'[r] = decision[r]
  <2>1. Loaded(w)
    BY <1>4 DEF SynchronizeLead, PersistDecision, PersistReplan, Loaded
  <2>2. \/ UNCHANGED <<receipt, decision>>
        \/ Fresh(w) /\ \E o : Record(w, o)
    BY <1>4 DEF SynchronizeLead, PersistDecision, PersistReplan, Races
  <2> QED BY <1>3, <2>1, <2>2
<1>5. ASSUME NEW q \in Receipts,
             \/ Capture(q) \/ ComesDue(q) \/ WindowCloses(q)
             \/ RequeueDeadLetterReceipt(q) \/ ExpireOrphan(q) \/ Stall(q)
             \/ \E w \in Workers : Claim(w, q)
      PROVE  receipt'[r] = receipt[r] /\ decision'[r] = decision[r]
  <2>1. CASE WindowCloses(q)
    BY <2>1 DEF WindowCloses
  <2>2. CASE ~WindowCloses(q)
    <3>1. q # r
      BY <1>1, <1>5, <2>2 DEF Capture, ComesDue, RequeueDeadLetterReceipt, ExpireOrphan,
         Stall, LeaseExpires, Claim, Claimable
    <3>2. decision' = decision
      BY <1>5 DEF Capture, ComesDue, WindowCloses, RequeueDeadLetterReceipt,
         ExpireOrphan, Stall, LeaseExpires, Claim
    <3>3. receipt'[r] = receipt[r]
      BY <1>2, <1>5, <2>2, <3>1 DEF Capture, ComesDue, RequeueDeadLetterReceipt,
         ExpireOrphan, Stall, LeaseExpires, Claim
    <3> QED BY <3>2, <3>3
  <2> QED BY <2>1, <2>2
<1>6. ASSUME NEW w \in Workers,
             \/ Start(w) \/ KeepLease(w) \/ Complete(w)
             \/ FinalizePendingMatch(w) \/ FinalizeTechnicalFailure(w)
      PROVE  receipt'[r] = receipt[r] /\ decision'[r] = decision[r]
  <2>1. decision' = decision
    BY <1>6 DEF Start, KeepLease, Complete, FinalizePendingMatch,
       FinalizeTechnicalFailure
  <2>2. CASE receipt' = receipt
    BY <2>1, <2>2
  <2>3. CASE receipt' # receipt
    <3>1. Fenced(w)
      BY <1>6, <2>3 DEF Start, KeepLease, Complete, FinalizePendingMatch,
         FinalizeTechnicalFailure
    <3>2. work[w].on # r
      BY <1>1, <3>1 DEF Fenced
    <3>3. receipt'[r] = receipt[r]
      BY <1>2, <1>6, <2>3, <3>2 DEF Start, KeepLease, Complete, FinalizePendingMatch,
         FinalizeTechnicalFailure
    <3> QED BY <2>1, <3>3
  <2> QED BY <2>2, <2>3
<1>7. ASSUME NEW w \in Workers,
             \/ LoadReceipt(w) \/ FindDecision(w) \/ PrepareDecision(w)
             \/ ReadRevision(w) \/ Replan(w) \/ LeaseLost(w)
             \/ TechnicalError(w) \/ Crash(w)
      PROVE  receipt' = receipt /\ decision' = decision
  BY <1>7 DEF LoadReceipt, FindDecision, PrepareDecision, ReadRevision, Replan,
     LeaseLost, TechnicalError, Crash
<1>8. ASSUME LeadArrives \/ EditLead PROVE receipt' = receipt /\ decision' = decision
  BY <1>8 DEF LeadArrives, EditLead
<1> QED BY <1>4, <1>5, <1>6, <1>7, <1>8 DEF Next, Process

(* A receipt that is completed on a final decision is never written again, and
   neither are its decisions: late processors find nothing to decide and late
   settlements are fenced off. *)
THEOREM DecidedReceiptsStay == Spec => DecidedForGood
<1>1. IInv /\ [Next]_vars =>
        [\A r \in Receipts : FinallyDecided(r) =>
           /\ receipt'[r] = receipt[r] /\ decision'[r] = decision[r]]_vars
  BY DecidedStep DEF vars
<1> QED BY <1>1, InductiveInvariant, PTL DEF Spec, DecidedForGood

-----------------------------------------------------------------------------
(* The promise of ObservationJournal. *)

(* A plan that finds something to say about the lead was made for one that is
   there. *)
Seen ==
  \A w \in Workers :
    /\ work[w].at \in {"planned", "ready", "raced", "missed", "lost"}
    /\ work[w].plan.outcome \notin {"pending_match", "unmatched"}
    => lead.exists

(* planLeadDesiredState compares with a lead, or says that there is none. *)
LEMMA PlansSee ==
  ASSUME NEW r, NEW n, Plan(r, n).outcome \notin {"pending_match", "unmatched"}
  PROVE  lead.exists
<1> SUFFICES ASSUME ~lead.exists
             PROVE  Plan(r, n).outcome \in {"pending_match", "unmatched"}
  OBVIOUS
<1> DEFINE paths == {f \in Fields : lead.state[f] # Says[r][f]}
           outcome == CASE ~lead.exists /\ KeepsMatching(r, n) -> "pending_match"
                   [] ~lead.exists /\ ~KeepsMatching(r, n) -> "unmatched"
                   [] lead.exists /\ r < lead.winner -> "stale"
                   [] lead.exists /\ r = lead.winner -> "already_current"
                   [] lead.exists /\ r > lead.winner /\ paths = {} -> "already_current"
                   [] OTHER -> "applied"
<1>1. Plan(r, n) = [outcome |-> outcome,
                    paths   |-> IF outcome = "applied" THEN paths ELSE {},
                    advance |-> outcome \in Accepting /\ r > lead.winner]
  BY Zenon DEF Plan
<1>2. Plan(r, n).outcome = outcome
  BY <1>1
<1>3. outcome \in {"pending_match", "unmatched"}
  BY DEF KeepsMatching
<1> QED BY <1>2, <1>3

(* A lead does not go away. *)
LEMMA LeadsRemain == TypeOK /\ [Next]_vars /\ lead.exists => lead'.exists
<1> SUFFICES ASSUME TypeOK, [Next]_vars, lead.exists PROVE lead'.exists
  OBVIOUS
<1>1. lead \in LeadRows
  BY DEF TypeOK
<1>2. ASSUME NEW w \in Workers, Process(w)
      PROVE  lead'.exists
  BY <1>1, <1>2
     DEF LeadRows, Process, Start, LoadReceipt, FindDecision, PrepareDecision,
         ReadRevision, SynchronizeLead, PersistDecision, Replan, PersistReplan,
         LeaseLost, Complete, FinalizePendingMatch, FinalizeTechnicalFailure
<1>3. CASE EditLead
  BY <1>1, <1>3 DEF EditLead, LeadRows
<1>4. CASE UNCHANGED lead \/ LeadArrives
  BY <1>4 DEF LeadArrives
<1> QED BY <1>2, <1>3, <1>4
        DEF Next, vars, Capture, ComesDue, WindowCloses, RequeueDeadLetterReceipt,
            ExpireOrphan, Stall, LeaseExpires, Claim, KeepLease, TechnicalError, Crash

(* Seen at first, and always. *)
LEMMA SeenAtFirst == Init => Seen
BY DEF Init, Seen, Idle

(* What a plan was made for stays there. *)
LEMMA SeenStep ==
  ASSUME TypeOK, Seen, [Next]_vars
  PROVE  Seen'
<1> SUFFICES ASSUME NEW v \in Workers,
                    work'[v].at \in {"planned", "ready", "raced", "missed", "lost"},
                    work'[v].plan.outcome \notin {"pending_match", "unmatched"}
             PROVE  lead.exists
  BY LeadsRemain DEF Seen
<1>1. work \in [Workers -> WorkRows] /\ work[v] \in WorkRows
  BY DEF TypeOK
<1>2. CASE work'[v] = work[v]
  BY <1>2 DEF Seen
<1>3. CASE PrepareDecision(v) \/ Replan(v)
  <2>1. work'[v].plan = Plan(work[v].on, work[v].attempt)
    BY <1>1, <1>3 DEF PrepareDecision, Replan, WorkRows
  <2> QED BY <2>1, PlansSee
<1>4. CASE ReadRevision(v) \/ SynchronizeLead(v) \/ PersistDecision(v)
  <2>1. CASE \E o : Record(v, o)
    BY <1>1, <2>1 DEF Record, WorkRows
  <2>2. CASE ~\E o : Record(v, o)
    <3>1. /\ work[v].at \in {"planned", "ready"}
          /\ work'[v].at \in {"ready", "raced", "missed"} =>
               work'[v].plan = work[v].plan
          /\ work'[v].at \notin {"planned", "lost"}
      BY <1>1, <1>4, <2>2
         DEF ReadRevision, SynchronizeLead, PersistDecision, WorkRows, AfterRace
    <3> QED BY <3>1 DEF Seen
  <2> QED BY <2>1, <2>2
<1>5. ASSUME NEW w \in Workers, Process(w), w # v
      PROVE  work'[v] = work[v]
  BY <1>1, <1>5
     DEF Process, Start, LoadReceipt, FindDecision, PrepareDecision,
         ReadRevision, SynchronizeLead, PersistDecision, Replan, PersistReplan, Record,
         LeaseLost, Complete, FinalizePendingMatch, FinalizeTechnicalFailure
<1>0. Idle.at = "idle"
  BY DEF Idle
<1>6. ASSUME \/ Start(v) \/ LoadReceipt(v) \/ FindDecision(v) \/ PersistReplan(v)
             \/ LeaseLost(v) \/ Complete(v) \/ FinalizePendingMatch(v)
             \/ FinalizeTechnicalFailure(v)
      PROVE  FALSE
  <2>1. \/ work'[v] = Idle
        \/ work' = [work EXCEPT ![v].at = "running"]
        \/ \E n : work' = [work EXCEPT ![v].at = "loaded", ![v].attempt = n]
        \/ \E o : work' = [work EXCEPT ![v].at = "looked", ![v].found = o]
        \/ work' = [work EXCEPT ![v].at = "failed"]
        \/ \E o : work' = [work EXCEPT ![v].at = "decided", ![v].plan.outcome = o]
    BY <1>1, <1>6
       DEF Start, LoadReceipt, FindDecision, PersistReplan, Record,
           LeaseLost, Complete, FinalizePendingMatch, FinalizeTechnicalFailure
  <2> QED BY <1>0, <1>1, <2>1 DEF WorkRows
<1>7. ASSUME NEW w \in Workers,
             TechnicalError(w) \/ Crash(w) \/ \E r \in Receipts : Claim(w, r)
      PROVE  work'[v] = work[v]
  <2>1. \/ work' = [work EXCEPT ![w].at = "failed"]
        \/ work' = [work EXCEPT ![w] = Idle]
        \/ \E r : work' = [work EXCEPT ![w].at = "claimed", ![w].on = r]
    BY <1>7 DEF TechnicalError, Crash, Claim
  <2>2. w # v
    BY <1>0, <1>1, <2>1 DEF WorkRows
  <2> QED BY <1>1, <2>1, <2>2
<1>8. CASE UNCHANGED work
  BY <1>2, <1>8
<1> QED BY <1>2, <1>3, <1>4, <1>5, <1>6, <1>7, <1>8
        DEF Next, Process, vars, Capture, ComesDue, WindowCloses,
            RequeueDeadLetterReceipt, ExpireOrphan, Stall, LeaseExpires, KeepLease,
            LeadArrives, EditLead

(* The journal is empty at first. *)
LEMMA InitIsJournal == Init => Journal!Init
<1> SUFFICES ASSUME Init PROVE Journal!Init
  OBVIOUS
<1>1. {r \in Receipts : command[r] # None} = {}
  BY DEF Init
<1>2. /\ decision = [r \in Receipts |-> [n \in Journal!Attempts |-> None]]
      /\ ~lead.exists /\ lead.state \in [Fields -> Values]
      /\ lead.winner = -1 /\ lead.proof = None
  BY DEF Init, Attempts, Journal!Attempts, NoWinner
<1> QED BY <1>1, <1>2 DEF Journal!Init

(* A decision is entered where the journal is open. *)
LEMMA RecordEnters ==
  ASSUME TypeOK, History, NEW w \in Workers, Timely(w), Loaded(w), Fresh(w),
         NEW o, Record(w, o)
  PROVE  /\ work[w].on \in Receipts /\ work[w].attempt \in Journal!Attempts
         /\ Journal!Enter(work[w].on, work[w].attempt, o)
<1> DEFINE r == work[w].on
           n == work[w].attempt
<1>1. r \in Receipts /\ n \in Attempts /\ n = receipt[r].match + 1
  BY FreshIsPresent
<1>2. receipt[r].match \in Int
  BY <1>1 DEF TypeOK, ReceiptRows
<1>3. ASSUME NEW m \in Attempts, m < n PROVE decision[r][m] = "pending_match"
  <2>1. m <= receipt[r].match
    BY <1>1, <1>2, <1>3 DEF Attempts
  <2> QED BY <1>1, <2>1 DEF History, MatchAttemptsArePending
<1>4. Journal!Open(r, n)
  BY <1>3 DEF Journal!Open, Journal!Attempts, Attempts, Fresh
<1>5. decision' = [decision EXCEPT ![r][n] = o]
  BY DEF Record
<1> QED BY <1>1, <1>4, <1>5 DEF Journal!Enter, Journal!Attempts, Attempts

(* The receipt of the winner's evidence is decided for good, so no decision on
   it is left to withdraw the evidence: pointReceiptToDecision never does. *)
LEMMA EvidenceIsKept ==
  ASSUME TypeOK, History, ProofsAreGenuine, NEW w \in Workers, Timely(w), Loaded(w),
         Fresh(w)
  PROVE  ProofKept(w) = lead.proof
<1>1. lead.proof = Certified(w) => lead.proof[1] = work[w].on
  BY DEF Certified
<1> QED BY <1>1, CertifiedIsDecided DEF ProofKept

(* A decision that is only recorded is a note. *)
LEMMA RecordNotes ==
  ASSUME TypeOK, History, NEW w \in Workers, Timely(w), Loaded(w), Fresh(w),
         NEW o \in Outcomes, Record(w, o),
         o = "pending_match" => work[w].attempt < Offsets,
         o \notin {"pending_match", "unmatched"} => lead.exists,
         command' = command, lead' = lead
  PROVE  Journal!Next
<1>1. /\ work[w].on \in Receipts /\ work[w].attempt \in Journal!Attempts
      /\ Journal!Enter(work[w].on, work[w].attempt, o)
  BY RecordEnters
<1>2. o \in Journal!NoMatch \cup Journal!Accepting \cup {"stale"}
  BY DEF Outcomes, Journal!NoMatch, Journal!Accepting
<1>3. Journal!Note(work[w].on, work[w].attempt)
  BY <1>1, <1>2 DEF Journal!Note, Journal!NoMatch
<1> QED BY <1>1, <1>3 DEF Journal!Next

(* Winners are observations, or stand before all of them. *)
LEMMA WinnersAreNumbers == TypeOK => lead.winner \in Int
<1> SUFFICES ASSUME TypeOK PROVE lead.winner \in Int
  OBVIOUS
<1>1. lead.winner \in Receipts \/ lead.winner = 0 \/ lead.winner = NoWinner
  BY DEF TypeOK, LeadRows
<1>2. NoWinner \in Int
  BY DEF NoWinner
<1>3. \A r \in Receipts : r \in Int
  BY GranotReceiptsAssumption
<1> QED BY <1>1, <1>2, <1>3

(* The command of an observation is written once, with its decision. *)
LEMMA SynchronizeIsWrite ==
  ASSUME IInv, NEW w \in Workers, SynchronizeLead(w)
  PROVE  Journal!Next \/ UNCHANGED <<decision, command, lead>>
<1>1. CASE UNCHANGED <<decision, command, lead>>
  BY <1>1
<1>2. CASE ~UNCHANGED <<decision, command, lead>>
  <2>1. /\ TypeOK /\ History /\ Timely(w) /\ Informed(w) /\ lead \in LeadRows
        /\ work[w] \in WorkRows /\ command \in [Receipts -> Checksums \cup {None}]
        /\ work[w].at = "ready" /\ Loaded(w)
    BY DEF IInv, Working, TypeOK, SynchronizeLead, Loaded
  <2>2. PICK r \in Receipts, n \in Attempts :
          r = work[w].on /\ n = work[w].attempt
    BY <2>1 DEF Timely, Loaded
  <2>3. PICK written, k :
          /\ command[r] = None /\ ~Races(w) /\ Record(w, "applied")
          /\ command' = [command EXCEPT ![r] = Checksum(w)]
          /\ written = [f \in Fields |-> IF f \in work[w].plan.paths
                                          THEN Says[r][f] ELSE lead.state[f]]
          /\ lead' = [lead EXCEPT !.state = written, !.winner = r, !.proof = None,
                                  !.rev = k]
    <3> DEFINE values == [f \in Fields |-> IF f \in work[w].plan.paths
                                             THEN Says[r][f] ELSE lead.state[f]]
    <3>1. /\ command[r] = None /\ ~Races(w) /\ Record(w, "applied")
          /\ command' = [command EXCEPT ![r] = Checksum(w)]
          /\ lead' = [lead EXCEPT !.state = values, !.winner = r, !.proof = None,
                       !.rev = IF values = lead.state THEN @ ELSE @ + 1]
      BY <1>2, <2>2 DEF SynchronizeLead
    <3>2. \E k : lead' = [lead EXCEPT !.state = values, !.winner = r,
                                      !.proof = None, !.rev = k]
      <4> HIDE DEF values
      <4> QED BY <3>1
    <3> QED BY <3>1, <3>2
  <2>4. Fresh(w) /\ ~(lead.winner >= r) /\ lead.exists
    BY <2>1, <2>2, <2>3 DEF Races, Informed
  <2>5. n \in Journal!Attempts /\ Journal!Enter(r, n, "applied")
    BY <2>1, <2>2, <2>3, <2>4, RecordEnters
  <2>6. Checksum(w) # None
    <3>1. Checksum(w) \in Checksums
      BY <2>1 DEF Checksum, Checksums, WorkRows, Plans
    <3> QED BY <3>1, GranotReceiptsAssumption DEF Checksums
  <2>7. /\ {q \in Receipts : command'[q] # None} =
             {q \in Receipts : command[q] # None} \cup {r}
        /\ r \notin {q \in Receipts : command[q] # None}
    BY <2>1, <2>3, <2>6
  <2>8. /\ lead'.exists = lead.exists /\ lead'.state = written
        /\ lead'.winner = r /\ lead'.proof = None
    BY <2>1, <2>3 DEF LeadRows
  <2>9. /\ written \in [Fields -> Values]
        /\ \A f \in Fields : written[f] \in {lead.state[f], Says[r][f]}
    <3>1. lead.state \in [Fields -> Values] /\ Says[r] \in [Fields -> Values]
      BY <2>1, GranotReceiptsAssumption DEF LeadRows
    <3> QED BY <2>3, <3>1
  <2>10. lead.winner < r
    <3>1. r \in Int
      BY GranotReceiptsAssumption
    <3>2. lead.winner \in Int
      BY <2>1, WinnersAreNumbers
    <3> QED BY <2>4, <3>1, <3>2
  <2>11. Journal!Win(r)
    BY <2>4, <2>8, <2>10 DEF Journal!Win
  <2>12. Journal!Write(r, n)
    BY <2>4, <2>5, <2>7, <2>8, <2>9, <2>11 DEF Journal!Write
  <2> QED BY <2>5, <2>12 DEF Journal!Next
<1> QED BY <1>1, <1>2

(* Any other decision is noted, or accepts what the lead shows. *)
LEMMA PersistIsEntry ==
  ASSUME IInv, Seen, NEW w \in Workers, PersistDecision(w) \/ PersistReplan(w)
  PROVE  Journal!Next \/ UNCHANGED <<decision, command, lead>>
<1> DEFINE r == work[w].on
           n == work[w].attempt
           o == work[w].plan.outcome
<1>1. /\ TypeOK /\ History /\ ProofsAreGenuine /\ Unborn
      /\ Timely(w) /\ Informed(w) /\ lead \in LeadRows
      /\ work[w] \in WorkRows /\ o \in Outcomes
  BY DEF IInv, Working, TypeOK, WorkRows, Plans
<1>2. /\ work[w].at \in {"planned", "lost"} /\ Loaded(w) /\ command' = command
  BY DEF PersistDecision, PersistReplan, Loaded
<1>3. /\ o = "pending_match" => n < Offsets
      /\ o \notin {"pending_match", "unmatched"} => lead.exists
  BY <1>1, <1>2 DEF Informed, Seen
<1>4. CASE /\ Fresh(w) /\ Record(w, o)
           /\ lead' = [lead EXCEPT !.proof = ProofKept(w)]
  <2>1. lead' = lead
    BY <1>1, <1>2, <1>4, EvidenceIsKept DEF LeadRows
  <2> QED BY <1>1, <1>2, <1>3, <1>4, <2>1, RecordNotes
<1>5. CASE /\ Fresh(w) /\ Record(w, o) /\ o = "already_current" /\ WinsOver(r)
           /\ lead' = [lead EXCEPT !.winner = r, !.proof = None]
  <2>1. r \in Receipts /\ n \in Journal!Attempts /\ Journal!Enter(r, n, o)
    BY <1>1, <1>2, <1>5, RecordEnters
  <2> HIDE DEF r, n, o
  <2>2. /\ lead'.exists = lead.exists /\ lead'.state = lead.state
        /\ lead'.winner = r /\ lead'.proof = None
    BY <1>1, <1>5 DEF LeadRows
  <2>3. lead.exists /\ lead.winner < r
    BY <1>1, <1>5 DEF WinsOver, Unborn
  <2>4. Journal!Win(r)
    BY <2>2, <2>3 DEF Journal!Win
  <2>5. Journal!Accept(r, n)
    BY <1>2, <1>5, <2>1, <2>2, <2>4 DEF Journal!Accept
  <2> QED BY <2>1, <2>5 DEF Journal!Next
<1>6. CASE UNCHANGED <<decision, lead>>
  BY <1>2, <1>6
<1> QED BY <1>4, <1>5, <1>6 DEF PersistDecision, PersistReplan

(* Completing a receipt certifies the lead, or leaves it alone. *)
LEMMA CompleteIsCertify ==
  ASSUME IInv, NEW w \in Workers, Complete(w)
  PROVE  Journal!Next \/ UNCHANGED <<decision, command, lead>>
<1> DEFINE r == work[w].on
           n == work[w].attempt
<1>1. UNCHANGED <<decision, command>> /\ work[w].at = "decided"
  BY DEF Complete
<1>2. CASE ~Certifies(w)
  BY <1>1, <1>2 DEF Complete
<1>3. CASE Certifies(w)
  <2>1. lead' = [lead EXCEPT !.proof = <<r, n>>] /\ lead \in LeadRows
    BY <1>3 DEF Complete, IInv, TypeOK
  <2>2. /\ lead'.exists = lead.exists /\ lead'.state = lead.state
        /\ lead'.winner = lead.winner /\ lead'.proof = <<r, n>>
    BY <2>1 DEF LeadRows
  <2>3. /\ r \in Receipts /\ n \in Attempts
        /\ work[w].plan.outcome = decision[r][n]
    BY <1>1 DEF IInv, Working, Timely, Informed, Loaded
  <2>4. n \in Journal!Attempts /\ \A m \in Journal!Attempts : m \in Attempts
    BY <2>3 DEF Attempts, Journal!Attempts
  <2>5. /\ lead.winner = r /\ decision[r][n] \in Journal!Accepting
        /\ \A m \in Attempts : m > n => decision[r][m] = None
    BY <1>3, <2>3 DEF Certifies, Accepting, Journal!Accepting
  <2>6. Journal!Certify(r, n)
    BY <1>1, <2>2, <2>4, <2>5 DEF Journal!Certify
  <2> QED BY <2>3, <2>4, <2>6 DEF Journal!Next
<1> QED BY <1>2, <1>3

(* Every step is a step of the journal. *)
LEMMA JournalStep ==
  ASSUME IInv, Seen, [Next]_vars
  PROVE  [Journal!Next]_(Journal!vars)
<1>1. CASE UNCHANGED <<decision, command, lead>>
  BY <1>1 DEF Journal!vars
<1>2. CASE LeadArrives
  <2>1. PICK b \in BornWinners : lead' = [lead EXCEPT !.exists = TRUE, !.winner = b]
    BY <1>2 DEF LeadArrives
  <2>2. /\ ~lead.exists /\ lead'.exists /\ lead'.winner = b
        /\ lead'.state = lead.state /\ lead'.proof = lead.proof
        /\ UNCHANGED <<decision, command>>
    BY <1>2, <2>1 DEF LeadArrives, IInv, TypeOK, LeadRows
  <2>3. Journal!Appear
    BY <2>2 DEF Journal!Appear
  <2> QED BY <2>3 DEF Journal!Next
<1>3. CASE EditLead
  <2>1. PICK f \in Fields, v \in Values :
          lead' = [lead EXCEPT !.state[f] = v, !.rev = @ + 1]
    BY <1>3 DEF EditLead
  <2>2. lead \in LeadRows /\ lead.exists /\ UNCHANGED <<decision, command>>
    BY <1>3 DEF EditLead, IInv, TypeOK
  <2>3. /\ lead'.exists = lead.exists /\ lead'.winner = lead.winner
        /\ lead'.proof = lead.proof /\ lead'.state = [lead.state EXCEPT ![f] = v]
    BY <2>1, <2>2 DEF LeadRows
  <2>4. lead'.state \in [Fields -> Values]
    BY <2>2, <2>3 DEF LeadRows
  <2>5. Journal!Edit
    BY <2>2, <2>3, <2>4 DEF Journal!Edit
  <2> QED BY <2>5 DEF Journal!Next
<1>4. ASSUME NEW w \in Workers, SynchronizeLead(w)
      PROVE  [Journal!Next]_(Journal!vars)
  BY <1>1, <1>4, SynchronizeIsWrite
<1>5. ASSUME NEW w \in Workers, PersistDecision(w) \/ PersistReplan(w)
      PROVE  [Journal!Next]_(Journal!vars)
  BY <1>1, <1>5, PersistIsEntry
<1>6. ASSUME NEW w \in Workers, Complete(w)
      PROVE  [Journal!Next]_(Journal!vars)
  BY <1>1, <1>6, CompleteIsCertify
<1>7. ASSUME NEW w \in Workers,
             \/ Start(w) \/ LoadReceipt(w) \/ FindDecision(w) \/ PrepareDecision(w)
             \/ ReadRevision(w) \/ Replan(w) \/ LeaseLost(w)
             \/ FinalizePendingMatch(w) \/ FinalizeTechnicalFailure(w)
             \/ KeepLease(w) \/ TechnicalError(w) \/ Crash(w)
      PROVE  UNCHANGED <<decision, command, lead>>
  BY <1>7
     DEF Start, LoadReceipt, FindDecision, PrepareDecision, ReadRevision, Replan,
         LeaseLost, FinalizePendingMatch, FinalizeTechnicalFailure, KeepLease,
         TechnicalError, Crash
<1>8. ASSUME NEW r \in Receipts,
             \/ Capture(r) \/ ComesDue(r) \/ WindowCloses(r)
             \/ RequeueDeadLetterReceipt(r) \/ ExpireOrphan(r) \/ Stall(r)
             \/ \E w \in Workers : Claim(w, r)
      PROVE  UNCHANGED <<decision, command, lead>>
  BY <1>8
     DEF Capture, ComesDue, WindowCloses, RequeueDeadLetterReceipt, ExpireOrphan,
         Stall, LeaseExpires, Claim
<1>9. CASE UNCHANGED vars
  BY <1>1, <1>9 DEF vars
<1> QED BY <1>1, <1>2, <1>3, <1>4, <1>5, <1>6, <1>7, <1>8, <1>9 DEF Next, Process

(* Overlapping, late and repeated processings keep the promise of
   ObservationJournal: attempts are decided in turn and once each, an observation
   writes the lead at most once and in the step that decides it, and evidence
   stays with the winner until there is a newer one. *)
THEOREM JournalIsKept == Spec => KeepsTheJournal
<1>1. Spec => []Seen
  <2>1. IInv /\ Seen /\ [Next]_vars => Seen'
    BY SeenStep DEF IInv
  <2> QED BY <2>1, SeenAtFirst, InductiveInvariant, PTL DEF Spec
<1>2. IInv /\ Seen /\ [Next]_vars => [Journal!Next]_(Journal!vars)
  BY JournalStep
<1> QED BY <1>1, <1>2, InductiveInvariant, InitIsJournal, PTL
        DEF Spec, KeepsTheJournal, Journal!Spec

-----------------------------------------------------------------------------
(* The finding of AppliedMeansWritten needs a lead without a temporal winner. *)

(* A lead that is there has a winner; a compare-and-swap fails only against a
   winner that is no older; and nothing is planned again as applied after it. *)
AfterMisses ==
  \A w \in Workers :
    /\ work[w].at = "missed" => lead.exists /\ lead.winner >= work[w].on
    /\ work[w].at = "lost" => work[w].plan.outcome # "applied"

WonLeads == lead.exists => lead.winner # NoWinner

WInv == WonLeads /\ AfterMisses /\ AppliedMeansWritten

(* Leads appear in one way only. *)
LEMMA LeadsArrive ==
  ASSUME TypeOK, [Next]_vars, ~lead.exists, lead'.exists
  PROVE  LeadArrives
<1>1. lead \in LeadRows
  BY DEF TypeOK
<1>2. ASSUME NEW w \in Workers,
             Process(w) \/ KeepLease(w) \/ TechnicalError(w) \/ Crash(w)
      PROVE  lead'.exists = lead.exists
  BY <1>1, <1>2
     DEF LeadRows, Process, Start, LoadReceipt, FindDecision, PrepareDecision,
         ReadRevision, SynchronizeLead, PersistDecision, Replan, PersistReplan,
         LeaseLost, Complete, FinalizePendingMatch, FinalizeTechnicalFailure,
         KeepLease, TechnicalError, Crash
<1>3. ASSUME NEW r \in Receipts,
             \/ Capture(r) \/ ComesDue(r) \/ WindowCloses(r)
             \/ RequeueDeadLetterReceipt(r) \/ ExpireOrphan(r) \/ Stall(r)
             \/ \E w \in Workers : Claim(w, r)
      PROVE  lead' = lead
  BY <1>3
     DEF Capture, ComesDue, WindowCloses, RequeueDeadLetterReceipt, ExpireOrphan,
         Stall, LeaseExpires, Claim
<1> QED BY <1>2, <1>3 DEF Next, vars, EditLead

(* A lead that appears with a winner keeps one. *)
LEMMA LeadsStayWon ==
  ASSUME NoWinner \notin BornWinners, IInv, WonLeads, [Next]_vars
  PROVE  WonLeads'
<1>1. lead \in LeadRows /\ TypeOK
  BY DEF IInv, TypeOK
<1>2. CASE lead.exists
  <2>1. lead.winner \in Int /\ lead.winner >= 0
    <3>1. lead.winner \in Receipts \cup {0, -1} /\ lead.winner # -1
      BY <1>1, <1>2 DEF WonLeads, LeadRows, NoWinner
    <3>2. \A x \in Receipts \cup {0, -1} : x # -1 => x \in Int /\ x >= 0
      BY GranotReceiptsAssumption
    <3> QED BY <3>1, <3>2
  <2>2. lead'.winner >= lead.winner
    <3>1. CASE lead' = lead
      BY <2>1, <3>1
    <3>2. CASE lead' # lead
      BY <1>2, <3>2, WinnerStep DEF vars
    <3> QED BY <3>1, <3>2
  <2> QED BY <2>1, <2>2 DEF WonLeads, NoWinner
<1>3. CASE ~lead.exists /\ lead'.exists
  <2>1. LeadArrives
    BY <1>1, <1>3, LeadsArrive
  <2> QED BY <1>1, <2>1 DEF LeadArrives, LeadRows, WonLeads
<1> QED BY <1>2, <1>3 DEF WonLeads

(* What is planned for a winner's own observation or an older one writes nothing. *)
LEMMA OldPlansWriteNothing ==
  ASSUME TypeOK, lead.exists, NEW r \in Receipts, lead.winner >= r, NEW n
  PROVE  Plan(r, n).outcome # "applied"
<1>1. lead.winner \in Int /\ r \in Int
  BY WinnersAreNumbers, GranotReceiptsAssumption
<1>2. r < lead.winner \/ r = lead.winner
  BY <1>1
<1> QED BY <1>2 DEF Plan

(* Misses stay what they were, and no decision made after one is an applied one. *)
LEMMA MissesStay ==
  ASSUME NoWinner \notin BornWinners, IInv, Seen, WonLeads, AfterMisses, [Next]_vars
  PROVE  AfterMisses'
<1> SUFFICES ASSUME NEW v \in Workers
             PROVE  /\ work'[v].at = "missed" => lead'.exists /\ lead'.winner >= work'[v].on
                    /\ work'[v].at = "lost" => work'[v].plan.outcome # "applied"
  BY DEF AfterMisses
<1>1. /\ TypeOK /\ work \in [Workers -> WorkRows] /\ work[v] \in WorkRows
      /\ lead \in LeadRows
  BY DEF IInv, TypeOK
<1>2. lead.exists => lead'.exists /\ (lead' = lead \/ lead'.winner >= lead.winner)
  BY <1>1, LeadsRemain, WinnerStep DEF vars
<1>3. CASE work'[v] = work[v]
  <2>1. ASSUME work[v].at = "missed"
        PROVE  lead'.exists /\ lead'.winner >= work[v].on
    <3>1. lead.exists /\ lead.winner >= work[v].on
      BY <2>1 DEF AfterMisses
    <3>2. lead.winner \in Int /\ lead'.winner \in Int
      <4>1. lead'.winner \in Receipts \cup {0, -1}
        BY <1>1, TypeStep DEF TypeOK, LeadRows, NoWinner
      <4>2. \A x \in Receipts \cup {0, -1} : x \in Int
        BY GranotReceiptsAssumption
      <4>3. lead.winner \in Int
        BY <1>1, WinnersAreNumbers
      <4> QED BY <4>1, <4>2, <4>3
    <3>3. work[v].on \in Int
      <4>1. Loaded(v) => work[v].on \in Receipts
        BY DEF IInv, Working, Timely, Loaded
      <4>2. work[v].on \in Receipts
        BY <2>1, <4>1 DEF Loaded
      <4>3. Receipts \subseteq Int
        BY GranotReceiptsAssumption
      <4> QED BY <4>2, <4>3
    <3> QED BY <1>2, <3>1, <3>2, <3>3
  <2> QED BY <1>3, <2>1 DEF AfterMisses
<1>4. CASE Replan(v)
  <2>1. work[v].on \in Receipts
    BY <1>4 DEF IInv, Working, Timely, Loaded, Replan
  <2>2. /\ work'[v].plan = Plan(work[v].on, work[v].attempt)
        /\ work'[v].at = IF work[v].at = "raced" /\ work'[v].plan.outcome = "applied"
                         THEN "planned" ELSE "lost"
    BY <1>1, <1>4 DEF Replan, WorkRows
  <2>3. CASE work[v].at = "raced"
    BY <2>2, <2>3
  <2>4. CASE work[v].at = "missed"
    <3>1. lead.exists /\ lead.winner >= work[v].on
      BY <2>4 DEF AfterMisses
    <3> QED BY <1>1, <2>1, <2>2, <3>1, OldPlansWriteNothing
  <2> QED BY <1>4, <2>3, <2>4 DEF Replan
<1>5. CASE PersistDecision(v)
  <2>1. work[v].on \in Receipts /\ work[v].at = "planned"
    BY <1>5 DEF IInv, Working, Timely, Loaded, PersistDecision
  <2>2. CASE /\ work[v].plan.outcome = "already_current" /\ ~WinsOver(work[v].on)
             /\ work' = [work EXCEPT ![v].at = "missed"] /\ UNCHANGED lead
    <3>1. lead.exists
      BY <2>1, <2>2 DEF Seen
    <3>2. lead.winner >= work[v].on
      BY <1>1, <2>1, <2>2, <3>1, WinnersAreNumbers, GranotReceiptsAssumption
         DEF WonLeads, WinsOver
    <3>3. work'[v].on = work[v].on /\ work'[v].at = "missed"
      BY <1>1, <2>2 DEF WorkRows
    <3> QED BY <2>2, <3>1, <3>2, <3>3
  <2>3. CASE work' = [work EXCEPT ![v].at = "failed"] \/ \E o : Record(v, o)
    <3>1. work'[v].at \notin {"missed", "lost"}
      BY <1>1, <2>3 DEF Record, WorkRows
    <3> QED BY <3>1
  <2> QED BY <1>5, <2>2, <2>3 DEF PersistDecision
<1>6. ASSUME \/ ReadRevision(v) \/ SynchronizeLead(v) \/ PrepareDecision(v)
             \/ Start(v) \/ LoadReceipt(v) \/ FindDecision(v) \/ PersistReplan(v)
             \/ LeaseLost(v) \/ Complete(v) \/ FinalizePendingMatch(v)
             \/ FinalizeTechnicalFailure(v)
      PROVE  work'[v].at \notin {"missed", "lost"}
  <2>1. Idle.at = "idle"
    BY DEF Idle
  <2>2. CASE SynchronizeLead(v)
    <3>1. CASE \E o : Record(v, o)
      BY <1>1, <3>1 DEF Record, WorkRows
    <3>2. CASE ~\E o : Record(v, o)
      BY <1>1, <2>2, <3>2 DEF SynchronizeLead, WorkRows, AfterRace
    <3> QED BY <3>1, <3>2
  <2>3. CASE PrepareDecision(v)
    BY <1>1, <2>3 DEF PrepareDecision, WorkRows
  <2>4. CASE ~SynchronizeLead(v) /\ ~PrepareDecision(v)
    <3>1. \/ work'[v] = Idle
          \/ \E n : work' = [work EXCEPT ![v].at = "ready", ![v].rev = n]
          \/ work' = [work EXCEPT ![v].at = "running"]
          \/ \E n : work' = [work EXCEPT ![v].at = "loaded", ![v].attempt = n]
          \/ \E o : work' = [work EXCEPT ![v].at = "looked", ![v].found = o]
          \/ work' = [work EXCEPT ![v].at = "failed"]
          \/ \E o : work' = [work EXCEPT ![v].at = "decided", ![v].plan.outcome = o]
      BY <1>1, <1>6, <2>4
         DEF ReadRevision, Start, LoadReceipt, FindDecision, PersistReplan, Record,
             LeaseLost, Complete, FinalizePendingMatch, FinalizeTechnicalFailure
    <3> QED BY <1>1, <2>1, <3>1 DEF WorkRows
  <2> QED BY <2>2, <2>3, <2>4
<1>7. ASSUME NEW w \in Workers, Process(w), w # v
      PROVE  work'[v] = work[v]
  BY <1>1, <1>7
     DEF Process, Start, LoadReceipt, FindDecision, PrepareDecision,
         ReadRevision, SynchronizeLead, PersistDecision, Replan, PersistReplan, Record,
         LeaseLost, Complete, FinalizePendingMatch, FinalizeTechnicalFailure
<1>8. ASSUME NEW w \in Workers,
             TechnicalError(w) \/ Crash(w) \/ \E r \in Receipts : Claim(w, r)
      PROVE  work'[v] = work[v] \/ work'[v].at \notin {"missed", "lost"}
  <2>1. \/ work' = [work EXCEPT ![w].at = "failed"]
        \/ work' = [work EXCEPT ![w] = Idle]
        \/ \E r : work' = [work EXCEPT ![w].at = "claimed", ![w].on = r]
    BY <1>8 DEF TechnicalError, Crash, Claim
  <2> QED BY <1>1, <2>1 DEF WorkRows, Idle
<1>9. CASE UNCHANGED work
  BY <1>3, <1>9
<1> QED BY <1>3, <1>4, <1>5, <1>6, <1>7, <1>8, <1>9
        DEF Next, Process, vars, Capture, ComesDue, WindowCloses,
            RequeueDeadLetterReceipt, ExpireOrphan, Stall, LeaseExpires, KeepLease,
            LeadArrives, EditLead

(* Only a synchronization records an applied decision, and it stores its command. *)
LEMMA AppliedIsWritten ==
  ASSUME IInv, AfterMisses, AppliedMeansWritten, [Next]_vars
  PROVE  AppliedMeansWritten'
<1>1. /\ decision \in [Receipts -> [Attempts -> Outcomes \cup {None}]]
      /\ command \in [Receipts -> Checksums \cup {None}]
      /\ work \in [Workers -> WorkRows]
  BY DEF IInv, TypeOK
<1>2. ASSUME NEW w \in Workers, NEW o, Record(w, o), work[w].on \in Receipts,
             o = "applied" => command'[work[w].on] # None,
             \A r \in Receipts : command[r] # None => command'[r] # None
      PROVE  AppliedMeansWritten'
  <2>1. ASSUME NEW r \in Receipts, NEW n \in Attempts, decision'[r][n] = "applied"
        PROVE  command'[r] # None
    <3>1. decision' = [decision EXCEPT ![work[w].on][work[w].attempt] = o]
      BY <1>2 DEF Record
    <3>2. decision[r][n] = "applied" \/ (r = work[w].on /\ o = "applied")
      BY <1>1, <2>1, <3>1
    <3> QED BY <1>2, <3>2 DEF AppliedMeansWritten
  <2> QED BY <2>1 DEF AppliedMeansWritten
<1>3. CASE UNCHANGED <<decision, command>>
  BY <1>3 DEF AppliedMeansWritten
<1>4. ASSUME NEW w \in Workers, SynchronizeLead(w)
      PROVE  AppliedMeansWritten'
  <2>1. work[w].on \in Receipts
    BY <1>4 DEF IInv, Working, Timely, Loaded, SynchronizeLead
  <2>2. CASE Record(w, "applied") /\ command' = [command EXCEPT ![work[w].on] = Checksum(w)]
    <3>1. Checksum(w) # None
      BY <1>1, GranotReceiptsAssumption DEF Checksum, WorkRows, Plans
    <3>2. \A r \in Receipts : command'[r] = IF r = work[w].on THEN Checksum(w) ELSE command[r]
      BY <1>1, <2>2
    <3> QED BY <1>2, <2>1, <2>2, <3>1, <3>2
  <2> QED BY <1>3, <1>4, <2>2 DEF SynchronizeLead
<1>5. ASSUME NEW w \in Workers, PersistDecision(w) \/ PersistReplan(w)
      PROVE  AppliedMeansWritten'
  <2>1. /\ work[w].on \in Receipts /\ UNCHANGED command
        /\ work[w].plan.outcome # "applied"
    BY <1>5 DEF IInv, Working, Timely, Loaded, PersistDecision, PersistReplan, AfterMisses
  <2>2. CASE Record(w, work[w].plan.outcome)
    BY <1>2, <2>1, <2>2
  <2> QED BY <1>3, <1>5, <2>1, <2>2 DEF PersistDecision, PersistReplan
<1>6. ASSUME NEW w \in Workers,
             \/ Start(w) \/ LoadReceipt(w) \/ FindDecision(w) \/ PrepareDecision(w)
             \/ ReadRevision(w) \/ Replan(w) \/ LeaseLost(w) \/ Complete(w)
             \/ FinalizePendingMatch(w) \/ FinalizeTechnicalFailure(w)
             \/ KeepLease(w) \/ TechnicalError(w) \/ Crash(w)
      PROVE  UNCHANGED <<decision, command>>
  BY <1>6
     DEF Start, LoadReceipt, FindDecision, PrepareDecision, ReadRevision, Replan,
         LeaseLost, Complete, FinalizePendingMatch, FinalizeTechnicalFailure, KeepLease,
         TechnicalError, Crash
<1>7. ASSUME NEW r \in Receipts,
             \/ Capture(r) \/ ComesDue(r) \/ WindowCloses(r)
             \/ RequeueDeadLetterReceipt(r) \/ ExpireOrphan(r) \/ Stall(r)
             \/ \E w \in Workers : Claim(w, r)
      PROVE  UNCHANGED <<decision, command>>
  BY <1>7
     DEF Capture, ComesDue, WindowCloses, RequeueDeadLetterReceipt, ExpireOrphan,
         Stall, LeaseExpires, Claim
<1> QED BY <1>3, <1>4, <1>5, <1>6, <1>7 DEF Next, Process, LeadArrives, EditLead, vars

(* Once a lead has had a temporal winner from the start, "applied" means written,
   whatever races, edits, lost claims and crashes there are: what
   AppliedMeansWritten fails on are leads that no observation has won before. *)
THEOREM AppliedOnWonLeadsIsWritten ==
  ASSUME NoWinner \notin BornWinners
  PROVE  Spec => []AppliedMeansWritten
<1>1. Init => Seen /\ WInv
  <2>1. Init => WonLeads /\ AfterMisses
    BY DEF Init, WonLeads, AfterMisses, Idle
  <2>2. Init => AppliedMeansWritten
    BY GranotReceiptsAssumption DEF Init, AppliedMeansWritten, Outcomes
  <2> QED BY <2>1, <2>2, SeenAtFirst DEF WInv
<1>2. IInv /\ Seen /\ WInv /\ [Next]_vars => (Seen /\ WInv)'
  <2> SUFFICES ASSUME IInv, Seen, WInv, [Next]_vars PROVE Seen' /\ WInv'
    OBVIOUS
  <2>1. WonLeads' /\ AfterMisses' /\ AppliedMeansWritten'
    BY LeadsStayWon, MissesStay, AppliedIsWritten DEF WInv
  <2>2. Seen'
    BY SeenStep DEF IInv
  <2> QED BY <2>1, <2>2 DEF WInv
<1>3. WInv => AppliedMeansWritten
  BY DEF WInv
<1> QED BY <1>1, <1>2, <1>3, InductiveInvariant, PTL DEF Spec
=============================================================================
