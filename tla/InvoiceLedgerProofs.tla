------------------------ MODULE InvoiceLedgerProofs ------------------------
(***************************************************************************)
(* Theorems about InvoiceLedger: its type invariant, and that the          *)
(* approvals granted at commit time never overspend a purchase order, for  *)
(* any number of submissions, requests, orders and amounts.                *)
(***************************************************************************)
EXTENDS InvoiceLedger, FiniteSetTheorems, TLAPS

-----------------------------------------------------------------------------
(* Sums of allocations.  Pairs and Sum are UnitsCharged and Charged over   *)
(* any table R, so that one fact serves a state and the next.              *)

Pairs(R, S, p) == {u \in S \X (1..MaxCharge) : u[2] <= R[u[1]].alloc[p]}

Sum(R, S, p) == Cardinality(Pairs(R, S, p))

(* Charged counts a finite set.                                            *)
LEMMA ChargedIsSum ==
    \A S, p : Charged(S, p) = Sum(runs, S, p)
BY DEF Charged, UnitsCharged, Sum, Pairs

(* There are finitely many (run, unit) pairs.                              *)
LEMMA PairsFinite ==
    ASSUME NEW R, NEW S \in SUBSET Submissions, NEW p
    PROVE  IsFiniteSet(Pairs(R, S, p)) /\ Sum(R, S, p) \in Nat
<1>1. IsFiniteSet(S)
  BY FS_Subset, LedgerAssumption
<1>2. IsFiniteSet(1..MaxCharge)
  BY FS_Interval, LedgerAssumption
<1>3. IsFiniteSet(S \X (1..MaxCharge))
  BY <1>1, <1>2, FS_Product
<1>4. Pairs(R, S, p) \in SUBSET (S \X (1..MaxCharge))
  BY DEF Pairs
<1>5. IsFiniteSet(Pairs(R, S, p))
  BY <1>3, <1>4, FS_Subset
<1> QED
  BY <1>5, FS_CardinalityType DEF Sum

(* Charging fewer runs, with what they are charged unchanged, costs less.  *)
LEMMA SumMonotone ==
    ASSUME NEW R, NEW Q, NEW T \in SUBSET Submissions, NEW S \in SUBSET T, NEW p,
           \A s \in S : R[s].alloc[p] = Q[s].alloc[p]
    PROVE  Sum(R, S, p) <= Sum(Q, T, p)
<1>1. Pairs(R, S, p) \in SUBSET Pairs(Q, T, p)
  BY DEF Pairs
<1>2. IsFiniteSet(Pairs(Q, T, p))
  BY PairsFinite
<1> QED
  BY <1>1, <1>2, FS_Subset DEF Sum

(* There are n units in an amount of n.                                    *)
LEMMA UnitsUpTo ==
    ASSUME NEW n \in Nat
    PROVE  IsFiniteSet(1..n) /\ Cardinality(1..n) = n
<1>1. /\ IsFiniteSet(1..n)
      /\ Cardinality(1..n) = IF 1 > n THEN 0 ELSE n - 1 + 1
  <2>1. 1 \in Int /\ n \in Int
    OBVIOUS
  <2> QED
    BY <2>1, FS_Interval, ZenonT(30)
<1> QED
  BY <1>1

(* One more run costs what it is charged.                                  *)
LEMMA SumAdd ==
    ASSUME NEW R, NEW S \in SUBSET Submissions, NEW s \in Submissions \ S, NEW p,
           R[s].alloc[p] \in 0..MaxCharge
    PROVE  Sum(R, S \cup {s}, p) = Sum(R, S, p) + R[s].alloc[p]
<1> DEFINE n == R[s].alloc[p]
           New == {s} \X (1..n)
<1>1. IsFiniteSet({s}) /\ Cardinality({s}) = 1
  BY FS_Singleton
<1>2. n \in Nat /\ MaxCharge \in Nat /\ n <= MaxCharge
  <2>1. MaxCharge \in Nat
    BY LedgerAssumption
  <2> QED
    BY <2>1
<1>3. IsFiniteSet(1..n) /\ Cardinality(1..n) = n
  <2> HIDE DEF n
  <2> QED
    BY <1>2, UnitsUpTo
<1>4. IsFiniteSet(New) /\ Cardinality(New) = 1 * n
  BY <1>1, <1>3, FS_Product
<1>5. Pairs(R, S \cup {s}, p) = Pairs(R, S, p) \cup New
  <2>1. ASSUME NEW u \in Pairs(R, S \cup {s}, p)
        PROVE  u \in Pairs(R, S, p) \cup New
    BY <2>1, <1>2 DEF Pairs
  <2>2. ASSUME NEW u \in Pairs(R, S, p) \cup New
        PROVE  u \in Pairs(R, S \cup {s}, p)
    BY <2>2, <1>2 DEF Pairs
  <2> QED
    BY <2>1, <2>2
<1>6. Pairs(R, S, p) \cap New = {}
  BY DEF Pairs
<1>7. IsFiniteSet(Pairs(R, S, p)) /\ Cardinality(Pairs(R, S, p)) \in Nat
  BY PairsFinite DEF Sum
<1>8. Cardinality(Pairs(R, S \cup {s}, p))
          = Cardinality(Pairs(R, S, p)) + Cardinality(New) - Cardinality({})
  BY <1>4, <1>5, <1>6, <1>7, FS_Union
<1>9. Cardinality({}) = 0
  BY FS_EmptySet
<1> QED
  BY <1>2, <1>4, <1>7, <1>8, <1>9 DEF Sum

-----------------------------------------------------------------------------
(* The tolerance grows with the amount it is taken of.                     *)
LEMMA DivMonotone ==
    ASSUME NEW a \in Nat, NEW b \in Nat, NEW d \in Nat \ {0}, a <= b
    PROVE  a \div d <= b \div d
<1> DEFINE q == a \div d  r == b \div d
<1>1. q \in Int /\ r \in Int
  OBVIOUS
<1>2. d * q <= a /\ b < d * r + d
  OBVIOUS
<1>3. d * q < d * (r + 1)
  BY <1>1, <1>2
<1>4. q < r + 1
  BY <1>1, <1>3
<1> QED
  BY <1>1, <1>4

(* tolerance_for never shrinks as the amount grows.                        *)
LEMMA ToleranceMonotone ==
    ASSUME NEW a \in Nat, NEW b \in Nat, a <= b
    PROVE  /\ tolerance_for(a) \in Nat
           /\ tolerance_for(a) <= tolerance_for(b)
<1>1. a \div PO_TOLERANCE_DIVISOR <= b \div PO_TOLERANCE_DIVISOR
  BY DivMonotone, LedgerAssumption
<1>2. a \div PO_TOLERANCE_DIVISOR \in Nat /\ b \div PO_TOLERANCE_DIVISOR \in Nat
  BY LedgerAssumption
<1> QED
  BY <1>1, <1>2, LedgerAssumption DEF tolerance_for, Larger

-----------------------------------------------------------------------------
(* Types.                                                                  *)

LEMMA StoredRun ==
    ASSUME TypeOK, NEW s \in Stored
    PROVE  s \in Submissions /\ runs[s] \in Run
BY DEF TypeOK, Stored

(* A restart fills in decisions and leaves a run otherwise as it was.      *)
LEMMA BackfilledKeeps ==
    ASSUME NEW run \in Run
    PROVE  /\ Backfilled(run) \in Run
           /\ Backfilled(run).id = run.id
           /\ Backfilled(run).status = run.status
           /\ Backfilled(run).event = run.event
           /\ Backfilled(run).alloc = run.alloc
           /\ run.automated_decision # None
                 => Backfilled(run).automated_decision = run.automated_decision
BY DEF Backfilled, Run

(* What an order has been charged is a number.                             *)
LEMMA ChargedType ==
    ASSUME NEW S \in SUBSET Submissions, NEW p
    PROVE  Charged(S, p) \in Nat
BY ChargedIsSum, PairsFinite

(* What remains of an order is a number.                                   *)
LEMMA RemainingType ==
    ASSUME NEW p \in POs
    PROVE  /\ Remaining(p) \in Int
           /\ Remaining(p) <= POAmount[p]
<1>1. ApprovedRuns \in SUBSET Submissions
  BY DEF ApprovedRuns, Stored
<1>2. Charged(ApprovedRuns, p) \in Nat
  BY <1>1, ChargedType
<1> QED
  BY <1>2, LedgerAssumption DEF Remaining

(* A proposed split charges orders the invoice names, and no more than it  *)
(* is worth.                                                               *)
LEMMA SplitType ==
    ASSUME NEW d \in Documents
    PROVE  /\ split_across(d) \in Allocation
           /\ \A p \in POs \ Bound(d) : split_across(d)[p] = 0
<1>1. /\ d \in Document
      /\ d.converted \in 1..MaxCharge
      /\ d.primary \in POs \cup {None}
      /\ d.secondary \in POs \cup {None}
      /\ d.secondary # None => d.primary \in POs
  BY LedgerAssumption DEF Document
<1> DEFINE first == IF IsMulti(d)
                    THEN Smaller(d.converted, Larger(0, Remaining(d.primary)))
                    ELSE d.converted
<1>2. first \in 0..MaxCharge /\ d.converted - first \in 0..MaxCharge
  <2>1. CASE IsMulti(d)
    <3>1. d.primary \in POs
      BY <1>1, <2>1 DEF IsMulti
    <3>2. Remaining(d.primary) \in Int
      BY <3>1, RemainingType
    <3> QED
      BY <1>1, <2>1, <3>2, LedgerAssumption DEF Smaller, Larger
  <2>2. CASE ~IsMulti(d)
    BY <1>1, <2>2, LedgerAssumption
  <2> QED
    BY <2>1, <2>2
<1> HIDE DEF first
<1>3. split_across(d) = [p \in POs |->
            IF p = d.primary THEN first
            ELSE IF p = d.secondary THEN d.converted - first ELSE 0]
  BY DEF split_across, first
<1>4. ASSUME NEW p \in POs
      PROVE  split_across(d)[p] \in 0..MaxCharge
  BY <1>2, <1>3, LedgerAssumption
<1>5. split_across(d) \in Allocation
  BY <1>3, <1>4 DEF Allocation
<1>6. ASSUME NEW p \in POs \ Bound(d)
      PROVE  split_across(d)[p] = 0
  <2>1. p # d.primary /\ p # d.secondary
    BY LedgerAssumption DEF Bound
  <2> QED
    BY <1>3, <2>1
<1> QED
  BY <1>5, <1>6

(* match_po reports reasons.                                               *)
LEMMA MatchReasonsType ==
    ASSUME NEW d PROVE MatchReasons(d) \subseteq Reasons
BY DEF MatchReasons, Reasons, Blockers, RejectReasons, WarnReasons

(* decide() answers with a status.                                         *)
LEMMA VerdictType ==
    ASSUME NEW reasons PROVE Verdict(reasons) \in Statuses
BY DEF Verdict, Statuses

(* The empty draft is a draft.                                             *)
LEMMA NoDraftType == NoDraft \in Draft
BY LedgerAssumption DEF NoDraft, Draft, Statuses, Allocation

(* What is inserted is a row of `runs`.                                    *)
LEMMA NewRunType ==
    ASSUME lastId \in Nat, NEW status \in Statuses,
           NEW automated \in Statuses \cup {None},
           NEW reasons \in SUBSET Reasons, NEW alloc \in Allocation
    PROVE  NewRun(status, automated, reasons, alloc) \in Run
BY DEF NewRun, Run, Events, Statuses

(* A status transition leaves a row of `runs`.                             *)
LEMMA TransitionType ==
    ASSUME NEW run \in Run, NEW new \in Statuses, NEW event \in Events
    PROVE  apply_status_transition(run, new, event) \in Run
BY DEF apply_status_transition, Run, Statuses

(* A walk that goes on is a walk.                                          *)
LEMMA AdvanceType ==
    ASSUME NEW walk \in Walk PROVE Advance(walk) \in Walk
<1>1. Idle \in Walk
  BY DEF Idle, Walk
<1> QED
  BY <1>1 DEF Advance, Walk

(* A ruling or an override starts a walk that is well formed.              *)
LEMMA WalkFromType ==
    ASSUME TypeOK, NEW s \in Submissions
    PROVE  WalkFrom(s) \in Walk
<1>1. doc[s] \in Document
  BY LedgerAssumption DEF TypeOK
<1>2. doc[s].primary \in POs \cup {None}
  BY <1>1 DEF Document
<1> QED
  BY <1>2 DEF WalkFrom, Idle, Walk

(* The initial state has the right shape.                                  *)
LEMMA TypeInit == Init => TypeOK
<1> SUFFICES ASSUME Init PROVE TypeOK
  OBVIOUS
<1>1. NoDraft \in Draft
  BY NoDraftType
<1>2. Idle \in Walk
  BY DEF Idle, Walk
<1> QED
  BY <1>1, <1>2 DEF Init, TypeOK, Stages

(* Every action keeps every variable in its type.                          *)
LEMMA TypeNext == TypeOK /\ [Next]_vars => TypeOK'
<1> SUFFICES ASSUME TypeOK, [Next]_vars PROVE TypeOK'
  OBVIOUS
<1> USE DEF TypeOK
<1>1. ASSUME NEW s \in Submissions, AbortUnreadable(s)
      PROVE  TypeOK'
  <2>1. NoDraft.alloc \in Allocation
    BY NoDraftType DEF Draft
  <2>2. {"substantive"} \in SUBSET Reasons
    BY DEF Reasons, Blockers
  <2>3. NewRun("NEEDS_REVIEW", None, {"substantive"}, NoDraft.alloc) \in Run
    BY <2>1, <2>2, NewRunType DEF Statuses
  <2> QED
    BY <1>1, <2>3 DEF AbortUnreadable, Stages, Settled
<1>2. ASSUME NEW s \in Submissions, Match(s)
      PROVE  TypeOK'
  <2> DEFINE reasons == doc[s].findings \cup MatchReasons(doc[s])
                            \cup {r \in {"substantive"} : doc[s].number = None}
  <2>1. doc[s] \in Document
    BY LedgerAssumption
  <2>2. reasons \in SUBSET Reasons
    BY <2>1, MatchReasonsType DEF Document, Reasons, Blockers, RejectReasons, WarnReasons
  <2>3. split_across(doc[s]) \in Allocation
    BY SplitType
  <2> HIDE DEF reasons
  <2>4. draft' = [draft EXCEPT ![s] =
                     [draft[s] EXCEPT !.reasons = reasons, !.alloc = split_across(doc[s])]]
    BY <1>2 DEF Match, reasons
  <2>5. draft' \in [Submissions -> Draft]
    BY <2>2, <2>3, <2>4 DEF Draft
  <2> QED
    BY <1>2, <2>5 DEF Match, Stages
<1>3. ASSUME NEW s \in Submissions, Decide(s)
      PROVE  TypeOK'
  <2> DEFINE reasons == draft[s].reasons
                            \cup {r \in {"duplicate"} : find_duplicate(doc[s]) # {}}
  <2>1. reasons \in SUBSET Reasons
    BY DEF Draft, Reasons, Blockers, RejectReasons
  <2>2. Verdict(reasons) \in Statuses
    BY VerdictType
  <2> HIDE DEF reasons
  <2>3. draft' = [draft EXCEPT ![s] =
                     [draft[s] EXCEPT !.verdict = Verdict(reasons), !.reasons = reasons]]
    BY <1>3 DEF Decide, reasons
  <2>4. draft' \in [Submissions -> Draft]
    BY <2>1, <2>2, <2>3 DEF Draft
  <2> QED
    BY <1>3, <2>4 DEF Decide, Stages
<1>4. ASSUME NEW s \in Submissions, RecheckDuplicate(s)
      PROVE  TypeOK'
  <2> DEFINE was     == draft[s].verdict
             locks   == was # "REJECTED" /\ doc[s].number # None
             repeat  == locks /\ find_duplicate(doc[s]) # {}
             strange == ~repeat /\ was = "APPROVED" /\ doc[s].stranger
             verdict == IF repeat THEN "REJECTED"
                        ELSE IF strange THEN "NEEDS_REVIEW" ELSE was
             reasons == draft[s].reasons \cup {r \in {"duplicate"} : repeat}
                                         \cup {r \in {"portal"} : strange}
  <2>1. locks \in BOOLEAN
    OBVIOUS
  <2>2. verdict \in Statuses
    BY DEF Draft, Statuses
  <2>3. reasons \in SUBSET Reasons
    BY DEF Draft, Reasons, Blockers, RejectReasons
  <2>4. draft' = [draft EXCEPT ![s] =
            [draft[s] EXCEPT !.key = locks, !.verdict = verdict, !.reasons = reasons]]
    BY <1>4 DEF RecheckDuplicate
  <2> HIDE DEF was, locks, repeat, strange, verdict, reasons
  <2>5. draft' \in [Submissions -> Draft]
    BY <2>1, <2>2, <2>3, <2>4 DEF Draft
  <2> QED
    BY <1>4, <2>5 DEF RecheckDuplicate, Stages
<1>5. ASSUME NEW s \in Submissions, RecheckBalance(s)
      PROVE  TypeOK'
  <2> DEFINE rows    == IF draft[s].verdict = "APPROVED" THEN Bound(doc[s]) ELSE {}
             short   == \E p \in rows :
                           ~Fits(draft[s].alloc[p], Remaining(p), POAmount[p])
             verdict == IF short THEN "REJECTED" ELSE draft[s].verdict
             reasons == draft[s].reasons \cup {r \in {"balance"} : short}
  <2>1. doc[s] \in Document
    BY LedgerAssumption
  <2>2. rows \in SUBSET POs
    BY <2>1 DEF Bound, Document
  <2>3. verdict \in Statuses
    BY DEF Draft, Statuses
  <2>4. reasons \in SUBSET Reasons
    BY DEF Draft, Reasons
  <2>5. draft' = [draft EXCEPT ![s] =
            [draft[s] EXCEPT !.rows = rows, !.verdict = verdict, !.reasons = reasons]]
    BY <1>5 DEF RecheckBalance
  <2> HIDE DEF rows, short, verdict, reasons
  <2>6. draft' \in [Submissions -> Draft]
    BY <2>2, <2>3, <2>4, <2>5 DEF Draft
  <2> QED
    BY <1>5, <2>6 DEF RecheckBalance, Stages
<1>6. ASSUME NEW s \in Submissions, InsertRun(s)
      PROVE  TypeOK'
  <2>1. /\ draft[s].verdict \in Statuses
        /\ draft[s].reasons \in SUBSET Reasons
        /\ draft[s].alloc \in Allocation
    BY DEF Draft
  <2>2. NewRun(draft[s].verdict, draft[s].verdict, draft[s].reasons, draft[s].alloc) \in Run
    BY <2>1, NewRunType
  <2> QED
    BY <1>6, <2>2, NoDraftType DEF InsertRun, Stages, Settled
<1>7. ASSUME NEW r \in Requests, NEW s \in Submissions, NEW decision \in Decisions,
             Review(r, s, decision)
      PROVE  TypeOK'
  <2> DEFINE moved == apply_status_transition(runs[s], Outcome(decision), decision)
  <2>1. moved \in Run
    BY <1>7, TransitionType DEF Review, Outcome, Statuses, Events
  <2>2. HumanOutcome(decision) \in {"HUMAN_APPROVED", "HUMAN_REJECTED"}
    BY DEF HumanOutcome
  <2> HIDE DEF moved
  <2>3. [moved EXCEPT !.human_decision = decision,
                      !.final_decision = HumanOutcome(decision)] \in Run
    BY <2>1, <2>2 DEF Run
  <2>4. runs' \in [Submissions -> Run \cup {None}]
    BY <1>7, <2>3 DEF Review, moved
  <2>5. cascade' \in [Requests -> Walk]
    BY <1>7, WalkFromType DEF Review
  <2> QED
    BY <1>7, <2>4, <2>5 DEF Review
<1>8. ASSUME NEW r \in Requests, NEW s \in Submissions, NEW new \in Statuses,
             set_run_status(r, s, new)
      PROVE  TypeOK'
  <2>1. apply_status_transition(runs[s], new, "STATUS_OVERRIDDEN") \in Run
    BY <1>8, TransitionType DEF set_run_status, Events
  <2>2. runs' \in [Submissions -> Run \cup {None}]
    BY <1>8, <2>1 DEF set_run_status
  <2>3. cascade' \in [Requests -> Walk]
    BY <1>8, WalkFromType DEF set_run_status
  <2> QED
    BY <1>8, <2>2, <2>3 DEF set_run_status
<1>9. ASSUME NEW r \in Requests, ListQueue(r)
      PROVE  TypeOK'
  <2> DEFINE pending == runs_pending_on_po(cascade[r].po)
             queue   == {[run |-> s, id |-> runs[s].id] : s \in pending}
  <2>1. \A s \in pending : s \in Submissions /\ runs[s].id \in Nat
    BY StoredRun DEF runs_pending_on_po, Run
  <2>2. queue \in SUBSET [run: Submissions, id: Nat]
    BY <2>1
  <2>3. Idle \in Walk
    BY DEF Idle, Walk
  <2> HIDE DEF pending, queue
  <2>4. [cascade[r] EXCEPT !.stage = "checking", !.queue = queue] \in Walk
    BY <1>9, <2>2 DEF Walk
  <2>5. cascade' = [cascade EXCEPT ![r] = IF pending = {} THEN Idle
                       ELSE [cascade[r] EXCEPT !.stage = "checking", !.queue = queue]]
    BY <1>9 DEF ListQueue, pending, queue
  <2> QED
    BY <1>9, <2>3, <2>4, <2>5 DEF ListQueue
<1>10. ASSUME NEW r \in Requests, CheckHead(r)
       PROVE  TypeOK'
  <2>1. Advance(cascade[r]) \in Walk
    BY AdvanceType
  <2>2. [cascade[r] EXCEPT !.stage = "applying"] \in Walk
    BY DEF Walk
  <2> QED
    BY <1>10, <2>1, <2>2 DEF CheckHead
<1>11. ASSUME NEW r \in Requests, ApplyApproval(r)
       PROVE  TypeOK'
  <2> DEFINE s == Current(r)
  <2>1. ASSUME s \in Stored
        PROVE  apply_status_transition(runs[s], "APPROVED", "AUTO_APPROVED") \in Run
    BY <2>1, StoredRun, TransitionType DEF Statuses, Events
  <2>2. Advance(cascade[r]) \in Walk
    BY AdvanceType
  <2> HIDE DEF s
  <2>3. runs' = IF s \in Stored \ ApprovedRuns
                THEN [runs EXCEPT ![s] =
                         apply_status_transition(runs[s], "APPROVED", "AUTO_APPROVED")]
                ELSE runs
    BY <1>11 DEF ApplyApproval, s
  <2>4. runs' \in [Submissions -> Run \cup {None}]
    BY <2>1, <2>3
  <2> QED
    BY <1>11, <2>2, <2>4 DEF ApplyApproval
<1>12. ASSUME clear_run_history
       PROVE  TypeOK'
  BY <1>12 DEF clear_run_history
<1>13. ASSUME Restart
       PROVE  TypeOK'
  <2>1. Idle \in Walk
    BY DEF Idle, Walk
  <2>2. runs' \in [Submissions -> Run \cup {None}]
    BY <1>13, StoredRun, BackfilledKeeps DEF Restart
  <2> QED
    BY <1>13, <2>1, <2>2, NoDraftType DEF Restart, Stages, Settled
<1>14. ASSUME UNCHANGED vars
       PROVE  TypeOK'
  BY <1>14 DEF vars
<1> QED
  BY <1>1, <1>2, <1>3, <1>4, <1>5, <1>6, <1>7, <1>8, <1>9, <1>10, <1>11, <1>12, <1>13, <1>14
  DEF Next, Pipeline, WalkQueue, Rule

(* The rows and records keep their types whatever the interleaving.        *)
THEOREM TypeCorrect == Spec => []TypeOK
<1>1. Init => TypeOK
  BY TypeInit
<1>2. TypeOK /\ [Next]_vars => TypeOK'
  BY TypeNext
<1> QED
  BY <1>1, <1>2, PTL DEF Spec

-----------------------------------------------------------------------------
(* The approvals of the pipeline stay within the budget.                   *)

LEMMA PipelineChargeType ==
    ASSUME NEW p \in POs
    PROVE  /\ ApprovedByPipeline \in SUBSET Submissions
           /\ ApprovedByPipeline \in SUBSET ApprovedRuns
           /\ Charged(ApprovedByPipeline, p) \in Nat
           /\ Charged(ApprovedByPipeline, p) <= Charged(ApprovedRuns, p)
           /\ POAmount[p] \in Nat
           /\ tolerance_for(POAmount[p]) \in Nat
<1>1. /\ ApprovedByPipeline \in SUBSET ApprovedRuns
      /\ ApprovedRuns \in SUBSET Submissions
  BY DEF ApprovedByPipeline, ApprovedRuns, Stored
<1>2. Sum(runs, ApprovedByPipeline, p) <= Sum(runs, ApprovedRuns, p)
  BY <1>1, SumMonotone
<1>3. POAmount[p] \in Nat /\ tolerance_for(POAmount[p]) \in Nat
  BY LedgerAssumption, ToleranceMonotone
<1> QED
  BY <1>1, <1>2, <1>3, ChargedIsSum, ChargedType

(* No approval of the pipeline appears, and none costs more.               *)
NoneAdded ==
    \A s \in ApprovedByPipeline' :
        s \in ApprovedByPipeline /\ runs'[s].alloc = runs[s].alloc

Shrinks ==
    /\ \A s \in Submissions : runs[s] = None => runs'[s] = None
    /\ NoneAdded

(* A step that only takes approvals away keeps every balance bound.        *)
LEMMA ShrinkingCharge ==
    ASSUME NoneAdded, NEW p \in POs
    PROVE  /\ Charged(ApprovedByPipeline, p)' \in Nat
           /\ Charged(ApprovedByPipeline, p)' <= Charged(ApprovedByPipeline, p)
<1>1. ApprovedByPipeline \in SUBSET Submissions
  BY PipelineChargeType
<1>2. ApprovedByPipeline' \in SUBSET ApprovedByPipeline
  BY DEF NoneAdded
<1>3. \A s \in ApprovedByPipeline' : runs'[s].alloc[p] = runs[s].alloc[p]
  BY DEF NoneAdded
<1>4. Sum(runs', ApprovedByPipeline', p) <= Sum(runs, ApprovedByPipeline, p)
  BY <1>1, <1>2, <1>3, SumMonotone
<1>5. Sum(runs', ApprovedByPipeline', p) \in Nat
  BY <1>1, <1>2, PairsFinite
<1>6. Charged(ApprovedByPipeline, p)' = Sum(runs', ApprovedByPipeline', p)
  BY DEF Charged, UnitsCharged, Sum, Pairs
<1> QED
  BY <1>4, <1>5, <1>6, ChargedIsSum

(* A step that leaves the runs alone is one of those.                      *)
LEMMA SameRunsShrink == UNCHANGED runs => Shrinks
BY DEF Shrinks, NoneAdded, ApprovedByPipeline, ApprovedRuns, Stored

(* A transition attributes the run to whoever made it, and keeps what it   *)
(* is charged.                                                             *)
LEMMA TransitionKeeps ==
    ASSUME NEW run \in Run, NEW new, NEW event
    PROVE  /\ apply_status_transition(run, new, event).event = event
           /\ apply_status_transition(run, new, event).alloc = run.alloc
           /\ apply_status_transition(run, new, event).status = new
BY DEF apply_status_transition, Run

(* Nothing but an insert adds to what the pipeline approved.               *)
LEMMA RulingsShrink ==
    ASSUME TypeOK, NEW r \in Requests
    PROVE  WalkQueue(r) \/ Rule(r) \/ clear_run_history => Shrinks
<1>1. ASSUME NEW s \in Submissions, NEW decision \in Decisions, Review(r, s, decision)
      PROVE  Shrinks
  <2>1. runs[s] \in Run
    BY <1>1 DEF TypeOK, Review
  <2>2. runs' = [runs EXCEPT ![s] =
           [apply_status_transition(runs[s], Outcome(decision), decision) EXCEPT
               !.human_decision = decision, !.final_decision = HumanOutcome(decision)]]
    BY <1>1 DEF Review
  <2>3. apply_status_transition(runs[s], Outcome(decision), decision) \in Run
    BY <2>1, TransitionType DEF Outcome, Statuses, Events
  <2>4. runs'[s].event = decision
    BY <2>1, <2>2, <2>3, TransitionKeeps DEF Run, TypeOK
  <2>5. s \notin ApprovedByPipeline'
    BY <2>4 DEF ApprovedByPipeline, Decisions
  <2> QED
    BY <1>1, <2>2, <2>5 DEF Shrinks, NoneAdded, ApprovedByPipeline, ApprovedRuns, Stored, TypeOK, Review
<1>2. ASSUME NEW s \in Submissions, NEW new \in Statuses, set_run_status(r, s, new)
      PROVE  Shrinks
  <2>1. runs[s] \in Run
    BY <1>2 DEF TypeOK, set_run_status
  <2>2. runs' = [runs EXCEPT ![s] = apply_status_transition(runs[s], new, "STATUS_OVERRIDDEN")]
    BY <1>2 DEF set_run_status
  <2>3. s \notin ApprovedByPipeline'
    BY <2>1, <2>2, TransitionKeeps DEF ApprovedByPipeline, TypeOK
  <2> QED
    BY <1>2, <2>2, <2>3
    DEF Shrinks, NoneAdded, ApprovedByPipeline, ApprovedRuns, Stored, TypeOK, set_run_status
<1>3. ASSUME ListQueue(r) \/ CheckHead(r)
      PROVE  Shrinks
  BY <1>3, SameRunsShrink DEF ListQueue, CheckHead
<1>4. ASSUME ApplyApproval(r)
      PROVE  Shrinks
  <2> DEFINE s == Current(r)
  <2>1. CASE s \in Stored \ ApprovedRuns
    <3>1. s \in Submissions /\ runs[s] \in Run
      BY <2>1, StoredRun
    <3>2. runs' = [runs EXCEPT ![s] =
                      apply_status_transition(runs[s], "APPROVED", "AUTO_APPROVED")]
      BY <1>4, <2>1 DEF ApplyApproval
    <3> HIDE DEF s
    <3>3. s \notin ApprovedByPipeline'
      BY <3>1, <3>2, TransitionKeeps DEF ApprovedByPipeline, TypeOK
    <3> QED
      BY <2>1, <3>1, <3>2, <3>3 DEF Shrinks, NoneAdded, ApprovedByPipeline, ApprovedRuns, Stored, TypeOK
  <2>2. CASE s \notin Stored \ ApprovedRuns
    BY <1>4, <2>2, SameRunsShrink DEF ApplyApproval
  <2> QED
    BY <2>1, <2>2
<1>5. ASSUME clear_run_history
      PROVE  Shrinks
  BY <1>5 DEF clear_run_history, Shrinks, NoneAdded, ApprovedByPipeline, ApprovedRuns, Stored
<1> QED
  BY <1>1, <1>2, <1>3, <1>4, <1>5 DEF WalkQueue, Rule

(* An insert adds one run, and what it is charged, to the pipeline's own.  *)
LEMMA InsertCharge ==
    ASSUME TypeOK, NothingWrittenEarly, NEW s \in Submissions, InsertRun(s),
           NEW p \in POs
    PROVE  /\ draft[s].verdict # "APPROVED"
                 => Charged(ApprovedByPipeline, p)' = Charged(ApprovedByPipeline, p)
           /\ draft[s].verdict = "APPROVED"
                 => Charged(ApprovedByPipeline, p)'
                      = Charged(ApprovedByPipeline, p) + draft[s].alloc[p]
<1> DEFINE A == ApprovedByPipeline
           row == NewRun(draft[s].verdict, draft[s].verdict, draft[s].reasons, draft[s].alloc)
<1>1. runs[s] = None
  BY DEF NothingWrittenEarly, InsertRun
<1>2. runs' = [runs EXCEPT ![s] = row]
  BY DEF InsertRun
<1>3. /\ row.status = draft[s].verdict
      /\ row.event = "PROCESSING_COMPLETED"
      /\ row.alloc = draft[s].alloc
  BY DEF NewRun
<1>4. row # None
  <2>1. row \in Run
    BY NewRunType DEF TypeOK, Draft
  <2> QED
    BY <2>1, LedgerAssumption
<1> HIDE DEF row
<1>5. runs'[s] = row /\ \A t \in Submissions \ {s} : runs'[t] = runs[t]
  BY <1>2 DEF TypeOK
<1>6. A \in SUBSET Submissions /\ s \notin A
  BY <1>1 DEF ApprovedByPipeline, ApprovedRuns, Stored
<1>7. A' = IF draft[s].verdict = "APPROVED" THEN A \cup {s} ELSE A
  BY <1>1, <1>3, <1>4, <1>5 DEF ApprovedByPipeline, ApprovedRuns, Stored
<1>8. Charged(ApprovedByPipeline, p)' = Sum(runs', A', p)
  BY DEF Charged, UnitsCharged, Sum, Pairs
<1>9. Sum(runs', A, p) = Sum(runs, A, p)
  <2>1. \A t \in A : runs'[t] = runs[t]
    BY <1>5, <1>6
  <2>2. Pairs(runs', A, p) = Pairs(runs, A, p)
    BY <2>1 DEF Pairs
  <2> QED
    BY <2>2 DEF Sum
<1>10. runs'[s].alloc[p] = draft[s].alloc[p] /\ draft[s].alloc[p] \in 0..MaxCharge
  BY <1>3, <1>5 DEF TypeOK, Draft, Allocation
<1>11. Sum(runs', A \cup {s}, p) = Sum(runs', A, p) + draft[s].alloc[p]
  <2> DEFINE R == runs'
  <2>1. R[s].alloc[p] \in 0..MaxCharge /\ s \in Submissions \ A
    BY <1>6, <1>10
  <2> HIDE DEF R, A
  <2>2. Sum(R, A \cup {s}, p) = Sum(R, A, p) + R[s].alloc[p]
    BY <1>6, <2>1, SumAdd
  <2> QED
    BY <1>10, <2>2 DEF R
<1>12. Charged(ApprovedByPipeline, p) = Sum(runs, A, p)
  BY ChargedIsSum
<1> QED
  BY <1>7, <1>8, <1>9, <1>11, <1>12

(* Nothing is charged at first.                                            *)
LEMMA BudgetInit == Init => BudgetInv
<1> SUFFICES ASSUME Init PROVE BudgetInv
  OBVIOUS
<1>1. ApprovedByPipeline = {}
  BY DEF Init, ApprovedByPipeline, ApprovedRuns, Stored
<1>2. PipelineWithinBudget
  <2> SUFFICES ASSUME NEW p \in POs
               PROVE  Charged(ApprovedByPipeline, p)
                          <= POAmount[p] + tolerance_for(POAmount[p])
    BY DEF PipelineWithinBudget
  <2>1. Pairs(runs, {}, p) = {}
    BY DEF Pairs
  <2>2. Charged(ApprovedByPipeline, p) = 0
    BY <1>1, <2>1, ChargedIsSum, FS_EmptySet DEF Sum
  <2> QED
    BY <2>2, PipelineChargeType
<1> QED
  BY <1>2
  DEF Init, NoDraft, BudgetInv, NothingWrittenEarly, ChargesOnlyBound, RowsHeld, Headroom

(* Where no approval of the pipeline is added, what a transaction found    *)
(* under its locks is still so.                                            *)
LEMMA ShrinkKeepsBudget ==
    ASSUME TypeOK, BudgetInv, NoneAdded
    PROVE  /\ PipelineWithinBudget'
           /\ UNCHANGED <<pc, draft>> => Headroom'
<1>1. \A p \in POs : /\ Charged(ApprovedByPipeline, p)' \in Nat
                     /\ Charged(ApprovedByPipeline, p)' <= Charged(ApprovedByPipeline, p)
                     /\ Charged(ApprovedByPipeline, p) \in Nat
                     /\ POAmount[p] + tolerance_for(POAmount[p]) \in Nat
  BY ShrinkingCharge, PipelineChargeType
<1>2. PipelineWithinBudget'
  BY <1>1 DEF BudgetInv, PipelineWithinBudget
<1>3. ASSUME UNCHANGED <<pc, draft>>
      PROVE  Headroom'
  <2> SUFFICES ASSUME NEW s \in Submissions, pc[s] = "checked",
                      draft[s].verdict = "APPROVED", NEW p \in draft[s].rows
               PROVE  Charged(ApprovedByPipeline, p)' + draft[s].alloc[p]
                          <= POAmount[p] + tolerance_for(POAmount[p])
    BY <1>3 DEF Headroom
  <2>1. p \in POs /\ draft[s].alloc[p] \in Int
    BY DEF TypeOK, Draft, Allocation
  <2>2. Charged(ApprovedByPipeline, p) + draft[s].alloc[p]
            <= POAmount[p] + tolerance_for(POAmount[p])
    BY DEF BudgetInv, Headroom
  <2> QED
    BY <1>1, <2>1, <2>2
<1> QED
  BY <1>2, <1>3

(* The balance read under the row lock leaves room for the reader.         *)
LEMMA FitsHeadroom ==
    ASSUME NEW p \in POs, NEW amount \in Nat,
           Fits(amount, Remaining(p), POAmount[p])
    PROVE  Charged(ApprovedByPipeline, p) + amount
               <= POAmount[p] + tolerance_for(POAmount[p])
<1>1. /\ Charged(ApprovedByPipeline, p) \in Nat
      /\ Charged(ApprovedByPipeline, p) <= Charged(ApprovedRuns, p)
      /\ POAmount[p] \in Nat
      /\ tolerance_for(POAmount[p]) \in Nat
  BY PipelineChargeType
<1>2. ApprovedRuns \in SUBSET Submissions
  BY DEF ApprovedRuns, Stored
<1>3. Charged(ApprovedRuns, p) \in Nat
  BY <1>2, ChargedType
<1> DEFINE left == Remaining(p)
<1>4. left = POAmount[p] - Charged(ApprovedRuns, p)
  BY DEF Remaining
<1>5. amount - left <= tolerance_for(IF left > 0 THEN left ELSE POAmount[p])
  BY DEF Fits
<1>6. left \in Int /\ left <= POAmount[p]
  BY <1>1, <1>3, <1>4
<1> HIDE DEF left
<1>7. CASE left > 0
  <2>1. /\ tolerance_for(left) \in Nat
        /\ tolerance_for(left) <= tolerance_for(POAmount[p])
    BY <1>1, <1>6, <1>7, ToleranceMonotone
  <2> QED
    BY <1>1, <1>3, <1>4, <1>5, <1>6, <1>7, <2>1
<1>8. CASE ~(left > 0)
  BY <1>1, <1>3, <1>4, <1>5, <1>6, <1>8
<1> QED
  BY <1>7, <1>8

(* A step of one submission that leaves the runs alone, takes no row and   *)
(* ends before the balance is read.                                        *)
LEMMA EarlyStepKeepsBudget ==
    ASSUME TypeOK, BudgetInv, NEW s \in Submissions,
           UNCHANGED <<doc, runs>>,
           pc[s] \notin {"checked", "done"},
           pc' = [pc EXCEPT ![s] = pc'[s]], pc'[s] \notin {"checked", "done"},
           \A t \in Submissions \ {s} : draft'[t] = draft[t],
           draft'[s].rows = draft[s].rows,
           \A p \in POs \ Bound(doc[s]) : draft'[s].alloc[p] = 0
    PROVE  BudgetInv'
<1>1. NoneAdded
  BY SameRunsShrink DEF Shrinks
<1>2. \A t \in Submissions \ {s} : pc'[t] = pc[t]
  BY DEF TypeOK
<1>3. NothingWrittenEarly'
  BY <1>2 DEF BudgetInv, NothingWrittenEarly
<1>4. ChargesOnlyBound'
  BY DEF BudgetInv, ChargesOnlyBound
<1>5. \A t \in Submissions : draft'[t].rows = draft[t].rows
  OBVIOUS
<1>6. draft[s].rows = {}
  BY DEF BudgetInv, RowsHeld
<1>7. RowsHeld'
  BY <1>2, <1>5, <1>6 DEF BudgetInv, RowsHeld
<1>8. Headroom'
  <2> SUFFICES ASSUME NEW t \in Submissions, pc'[t] = "checked",
                      draft'[t].verdict = "APPROVED", NEW p \in draft'[t].rows
               PROVE  Charged(ApprovedByPipeline, p)' + draft'[t].alloc[p]
                          <= POAmount[p] + tolerance_for(POAmount[p])
    BY DEF Headroom
  <2>1. t # s /\ draft'[t] = draft[t] /\ pc[t] = "checked"
    BY <1>2
  <2>2. p \in POs /\ draft[t].alloc[p] \in Int
    BY <2>1 DEF TypeOK, Draft, Allocation
  <2>3. Charged(ApprovedByPipeline, p) + draft[t].alloc[p]
            <= POAmount[p] + tolerance_for(POAmount[p])
    BY <2>1 DEF BudgetInv, Headroom
  <2> QED
    BY <1>1, <2>1, <2>2, <2>3, ShrinkingCharge, PipelineChargeType
<1> QED
  BY <1>1, <1>3, <1>4, <1>7, <1>8, ShrinkKeepsBudget DEF BudgetInv

(* Somebody rules, walks or clears: no transaction is touched.             *)
LEMMA RulingKeepsBudget ==
    ASSUME TypeOK, BudgetInv, Shrinks, UNCHANGED <<doc, pc, draft>>
    PROVE  BudgetInv'
<1>1. NothingWrittenEarly'
  BY DEF BudgetInv, NothingWrittenEarly, Shrinks
<1>2. ChargesOnlyBound' /\ RowsHeld'
  BY DEF BudgetInv, ChargesOnlyBound, RowsHeld
<1> QED
  BY <1>1, <1>2, ShrinkKeepsBudget DEF BudgetInv, Shrinks

(* RecheckBalance finds its headroom under the row locks it takes.         *)
LEMMA RecheckKeepsBudget ==
    ASSUME TypeOK, BudgetInv, NEW s \in Submissions, RecheckBalance(s)
    PROVE  BudgetInv'
<1> DEFINE rows    == IF draft[s].verdict = "APPROVED" THEN Bound(doc[s]) ELSE {}
           short   == \E p \in rows :
                         ~Fits(draft[s].alloc[p], Remaining(p), POAmount[p])
           verdict == IF short THEN "REJECTED" ELSE draft[s].verdict
<1>1. /\ draft'[s].rows = rows
      /\ draft'[s].verdict = verdict
      /\ draft'[s].alloc = draft[s].alloc
      /\ \A t \in Submissions \ {s} : draft'[t] = draft[t]
  BY DEF RecheckBalance, TypeOK, Draft
<1>2. /\ pc[s] = "keyed" /\ pc'[s] = "checked"
      /\ \A t \in Submissions \ {s} : pc'[t] = pc[t]
      /\ UNCHANGED <<doc, runs>>
  BY DEF RecheckBalance, TypeOK
<1>3. \A t \in Submissions \ {s} : draft[t].rows \cap rows = {}
  <2> SUFFICES ASSUME NEW t \in Submissions \ {s}, draft[t].rows # {}
               PROVE  draft[t].rows \cap rows = {}
    OBVIOUS
  <2>1. InTransaction(t)
    BY DEF BudgetInv, RowsHeld, InTransaction
  <2> QED
    BY <2>1 DEF RecheckBalance, RowsFree
<1>4. verdict = "APPROVED" =>
          /\ rows = Bound(doc[s])
          /\ \A p \in rows : Fits(draft[s].alloc[p], Remaining(p), POAmount[p])
  OBVIOUS
<1>5. rows \subseteq POs
  <2>1. doc[s] \in Document
    BY LedgerAssumption DEF TypeOK
  <2> QED
    BY <2>1 DEF Bound, Document
<1> HIDE DEF rows, short, verdict
<1>6. NoneAdded
  BY <1>2, SameRunsShrink DEF Shrinks
<1>7. NothingWrittenEarly'
  BY <1>2 DEF BudgetInv, NothingWrittenEarly
<1>8. ChargesOnlyBound'
  BY <1>1, <1>2 DEF BudgetInv, ChargesOnlyBound
<1>9. RowsHeld'
  <2>1. \A t \in Submissions : draft'[t].rows # {} => pc'[t] = "checked"
    BY <1>1, <1>2 DEF BudgetInv, RowsHeld
  <2>2. \A t \in Submissions :
           pc'[t] = "checked" /\ draft'[t].verdict = "APPROVED"
              => draft'[t].rows = Bound(doc'[t])
    BY <1>1, <1>2, <1>4 DEF BudgetInv, RowsHeld
  <2>3. \A t, u \in Submissions : t # u => draft'[t].rows \cap draft'[u].rows = {}
    BY <1>1, <1>3 DEF BudgetInv, RowsHeld
  <2> QED
    BY <2>1, <2>2, <2>3 DEF RowsHeld
<1>10. Headroom'
  <2> SUFFICES ASSUME NEW t \in Submissions, pc'[t] = "checked",
                      draft'[t].verdict = "APPROVED", NEW p \in draft'[t].rows
               PROVE  Charged(ApprovedByPipeline, p)' + draft'[t].alloc[p]
                          <= POAmount[p] + tolerance_for(POAmount[p])
    BY DEF Headroom
  <2>1. CASE t = s
    <3>1. p \in POs /\ draft[s].alloc[p] \in Nat
      BY <1>1, <1>5, <2>1 DEF TypeOK, Draft, Allocation
    <3>2. Fits(draft[s].alloc[p], Remaining(p), POAmount[p])
      BY <1>1, <1>4, <2>1
    <3>3. Charged(ApprovedByPipeline, p) + draft[s].alloc[p]
              <= POAmount[p] + tolerance_for(POAmount[p])
      BY <3>1, <3>2, FitsHeadroom
    <3> QED
      BY <1>1, <1>6, <2>1, <3>1, <3>3, ShrinkingCharge, PipelineChargeType
  <2>2. CASE t # s
    <3>1. draft'[t] = draft[t] /\ pc[t] = "checked"
      BY <1>1, <1>2, <2>2
    <3>2. p \in POs /\ draft[t].alloc[p] \in Int
      BY <3>1 DEF TypeOK, Draft, Allocation
    <3>3. Charged(ApprovedByPipeline, p) + draft[t].alloc[p]
              <= POAmount[p] + tolerance_for(POAmount[p])
      BY <3>1 DEF BudgetInv, Headroom
    <3> QED
      BY <1>6, <3>1, <3>2, <3>3, ShrinkingCharge, PipelineChargeType
  <2> QED
    BY <2>1, <2>2
<1> QED
  BY <1>6, <1>7, <1>8, <1>9, <1>10, ShrinkKeepsBudget DEF BudgetInv

(* InsertRun spends its own headroom and nobody else's.                    *)
LEMMA InsertKeepsBudget ==
    ASSUME TypeOK, BudgetInv, NEW s \in Submissions, InsertRun(s)
    PROVE  BudgetInv'
<1>1. /\ pc[s] = "checked" /\ pc'[s] = "done"
      /\ draft'[s] = NoDraft
      /\ \A t \in Submissions \ {s} :
            pc'[t] = pc[t] /\ draft'[t] = draft[t] /\ runs'[t] = runs[t]
      /\ doc' = doc
  BY DEF InsertRun, TypeOK
<1>2. ASSUME NEW p \in POs
      PROVE  /\ draft[s].verdict # "APPROVED" \/ draft[s].alloc[p] = 0
                   => Charged(ApprovedByPipeline, p)' = Charged(ApprovedByPipeline, p)
             /\ draft[s].verdict = "APPROVED"
                   => Charged(ApprovedByPipeline, p)'
                        = Charged(ApprovedByPipeline, p) + draft[s].alloc[p]
  BY InsertCharge, PipelineChargeType DEF BudgetInv
<1>3. NothingWrittenEarly'
  BY <1>1 DEF BudgetInv, NothingWrittenEarly
<1>4. NoDraft.rows = {} /\ NoDraft.verdict # "APPROVED" /\ \A p \in POs : NoDraft.alloc[p] = 0
  BY DEF NoDraft
<1>5. ChargesOnlyBound'
  BY <1>1, <1>4 DEF BudgetInv, ChargesOnlyBound
<1>6. RowsHeld'
  BY <1>1, <1>4 DEF BudgetInv, RowsHeld
<1>7. ASSUME draft[s].verdict = "APPROVED", NEW p \in POs, draft[s].alloc[p] # 0
      PROVE  p \in draft[s].rows
  BY <1>1, <1>7 DEF BudgetInv, ChargesOnlyBound, RowsHeld
<1>8. Headroom'
  <2> SUFFICES ASSUME NEW t \in Submissions, pc'[t] = "checked",
                      draft'[t].verdict = "APPROVED", NEW p \in draft'[t].rows
               PROVE  Charged(ApprovedByPipeline, p)' + draft'[t].alloc[p]
                          <= POAmount[p] + tolerance_for(POAmount[p])
    BY DEF Headroom
  <2>1. t # s /\ draft'[t] = draft[t] /\ pc[t] = "checked"
    BY <1>1
  <2>2. p \in POs /\ p \in draft[t].rows
    BY <2>1 DEF TypeOK, Draft
  <2>3. p \notin draft[s].rows
    BY <2>1, <2>2 DEF BudgetInv, RowsHeld
  <2>4. Charged(ApprovedByPipeline, p)' = Charged(ApprovedByPipeline, p)
    BY <1>2, <1>7, <2>2, <2>3
  <2>5. Charged(ApprovedByPipeline, p) + draft[t].alloc[p]
            <= POAmount[p] + tolerance_for(POAmount[p])
    BY <2>1, <2>2 DEF BudgetInv, Headroom
  <2> QED
    BY <2>1, <2>4, <2>5
<1>9. PipelineWithinBudget'
  <2> SUFFICES ASSUME NEW p \in POs
               PROVE  Charged(ApprovedByPipeline, p)'
                          <= POAmount[p] + tolerance_for(POAmount[p])
    BY DEF PipelineWithinBudget
  <2>1. CASE draft[s].verdict = "APPROVED" /\ draft[s].alloc[p] # 0
    BY <1>1, <1>2, <1>7, <2>1 DEF BudgetInv, Headroom
  <2>2. CASE draft[s].verdict # "APPROVED" \/ draft[s].alloc[p] = 0
    BY <1>2, <2>2 DEF BudgetInv, PipelineWithinBudget
  <2> QED
    BY <2>1, <2>2
<1> QED
  BY <1>3, <1>5, <1>6, <1>8, <1>9 DEF BudgetInv

(* A file that cannot be read charges nothing.                             *)
LEMMA AbortKeepsBudget ==
    ASSUME TypeOK, BudgetInv, NEW s \in Submissions, AbortUnreadable(s)
    PROVE  BudgetInv'
<1>1. /\ pc[s] = "received" /\ pc'[s] = "done"
      /\ \A t \in Submissions \ {s} : pc'[t] = pc[t] /\ runs'[t] = runs[t]
      /\ runs'[s].status = "NEEDS_REVIEW"
      /\ UNCHANGED <<doc, draft>>
  BY DEF AbortUnreadable, NewRun, TypeOK
<1>2. NoneAdded
  <2>1. s \notin ApprovedByPipeline'
    BY <1>1 DEF ApprovedByPipeline, ApprovedRuns
  <2> QED
    BY <1>1, <2>1 DEF NoneAdded, ApprovedByPipeline, ApprovedRuns, Stored
<1>3. NothingWrittenEarly' /\ ChargesOnlyBound'
  BY <1>1 DEF BudgetInv, NothingWrittenEarly, ChargesOnlyBound
<1>4. RowsHeld'
  BY <1>1 DEF BudgetInv, RowsHeld
<1>5. Headroom'
  <2> SUFFICES ASSUME NEW t \in Submissions, pc'[t] = "checked",
                      draft[t].verdict = "APPROVED", NEW p \in draft[t].rows
               PROVE  Charged(ApprovedByPipeline, p)' + draft[t].alloc[p]
                          <= POAmount[p] + tolerance_for(POAmount[p])
    BY <1>1 DEF Headroom
  <2>1. pc[t] = "checked" /\ p \in POs /\ draft[t].alloc[p] \in Int
    BY <1>1 DEF TypeOK, Draft, Allocation
  <2>2. Charged(ApprovedByPipeline, p) + draft[t].alloc[p]
            <= POAmount[p] + tolerance_for(POAmount[p])
    BY <2>1 DEF BudgetInv, Headroom
  <2> QED
    BY <1>2, <2>1, <2>2, ShrinkingCharge, PipelineChargeType
<1> QED
  BY <1>2, <1>3, <1>4, <1>5, ShrinkKeepsBudget DEF BudgetInv

(* A restart drops every draft.                                            *)
LEMMA RestartKeepsBudget ==
    ASSUME TypeOK, BudgetInv, Restart
    PROVE  BudgetInv'
<1>1. /\ doc' = doc
      /\ \A s \in Submissions : draft'[s] = NoDraft
      /\ \A s \in Submissions : pc'[s] = "done" => pc[s] = "done"
      /\ \A s \in Submissions : pc'[s] # "checked"
      /\ \A s \in Submissions : pc[s] = "done" => pc'[s] = "done"
  BY DEF Restart, InFlight, Settled
<1>2. NoDraft.rows = {} /\ NoDraft.verdict # "APPROVED" /\ \A p \in POs : NoDraft.alloc[p] = 0
  BY DEF NoDraft
<1>3. Shrinks
  <2>1. \A s \in Submissions :
           runs'[s] = IF s \in Stored THEN Backfilled(runs[s]) ELSE None
    BY DEF Restart
  <2>2. \A s \in Stored :
           /\ Backfilled(runs[s]).status = runs[s].status
           /\ Backfilled(runs[s]).event = runs[s].event
           /\ Backfilled(runs[s]).alloc = runs[s].alloc
    BY StoredRun, BackfilledKeeps
  <2> QED
    BY <2>1, <2>2 DEF Shrinks, NoneAdded, ApprovedByPipeline, ApprovedRuns, Stored
<1>4. NothingWrittenEarly' /\ ChargesOnlyBound' /\ RowsHeld' /\ Headroom'
  BY <1>1, <1>2, <1>3
  DEF BudgetInv, NothingWrittenEarly, ChargesOnlyBound, RowsHeld, Headroom, Shrinks
<1> QED
  BY <1>3, <1>4, ShrinkKeepsBudget DEF BudgetInv, Shrinks

(* Every step of the ledger keeps the budget invariant.                    *)
LEMMA BudgetNext == TypeOK /\ BudgetInv /\ [Next]_vars => BudgetInv'
<1> SUFFICES ASSUME TypeOK, BudgetInv, [Next]_vars PROVE BudgetInv'
  OBVIOUS
<1>1. ASSUME NEW s \in Submissions, Match(s)
      PROVE  BudgetInv'
  <2>1. doc[s] \in Documents
    BY DEF TypeOK
  <2>2. draft'[s].alloc = split_across(doc[s]) /\ draft'[s].rows = draft[s].rows
    BY <1>1 DEF Match, TypeOK, Draft
  <2>3. \A p \in POs \ Bound(doc[s]) : draft'[s].alloc[p] = 0
    BY <2>1, <2>2, SplitType
  <2> QED
    BY <1>1, <2>2, <2>3, EarlyStepKeepsBudget DEF Match, TypeOK
<1>2. ASSUME NEW s \in Submissions, Decide(s)
      PROVE  BudgetInv'
  <2>1. draft'[s].alloc = draft[s].alloc /\ draft'[s].rows = draft[s].rows
    BY <1>2 DEF Decide, TypeOK, Draft
  <2>2. \A p \in POs \ Bound(doc[s]) : draft'[s].alloc[p] = 0
    BY <2>1 DEF BudgetInv, ChargesOnlyBound
  <2> QED
    BY <1>2, <2>1, <2>2, EarlyStepKeepsBudget DEF Decide, TypeOK
<1>3. ASSUME NEW s \in Submissions, RecheckDuplicate(s)
      PROVE  BudgetInv'
  <2>1. draft'[s].alloc = draft[s].alloc /\ draft'[s].rows = draft[s].rows
    BY <1>3 DEF RecheckDuplicate, TypeOK, Draft
  <2>2. \A p \in POs \ Bound(doc[s]) : draft'[s].alloc[p] = 0
    BY <2>1 DEF BudgetInv, ChargesOnlyBound
  <2>3. /\ UNCHANGED <<doc, runs>>
        /\ pc[s] = "decided" /\ pc' = [pc EXCEPT ![s] = "keyed"] /\ pc'[s] = "keyed"
        /\ \A t \in Submissions \ {s} : draft'[t] = draft[t]
    BY <1>3 DEF RecheckDuplicate, TypeOK
  <2> QED
    BY <2>1, <2>2, <2>3, EarlyStepKeepsBudget
<1>4. ASSUME NEW s \in Submissions, Pipeline(s)
      PROVE  BudgetInv'
  BY <1>1, <1>2, <1>3, <1>4, AbortKeepsBudget, RecheckKeepsBudget, InsertKeepsBudget
  DEF Pipeline
<1>5. ASSUME NEW r \in Requests, WalkQueue(r) \/ Rule(r)
      PROVE  BudgetInv'
  <2>1. UNCHANGED <<doc, pc, draft>>
    BY <1>5 DEF WalkQueue, Rule, ListQueue, CheckHead, ApplyApproval, Review, set_run_status
  <2> QED
    BY <1>5, <2>1, RulingsShrink, RulingKeepsBudget
<1>6. ASSUME clear_run_history
      PROVE  BudgetInv'
  <2>1. Shrinks
    BY <1>6 DEF clear_run_history, Shrinks, NoneAdded, ApprovedByPipeline, ApprovedRuns, Stored
  <2> QED
    BY <1>6, <2>1, RulingKeepsBudget DEF clear_run_history
<1>7. ASSUME UNCHANGED vars
      PROVE  BudgetInv'
  BY <1>7, SameRunsShrink, RulingKeepsBudget DEF vars
<1> QED
  BY <1>4, <1>5, <1>6, <1>7, RestartKeepsBudget DEF Next

(* The invariant that makes it inductive: the room a transaction found for *)
(* itself under its row lock is still there when it commits.               *)
THEOREM BudgetInvariant == Spec => []BudgetInv
<1>1. Init => BudgetInv
  BY BudgetInit
<1>2. TypeOK /\ BudgetInv /\ [Next]_vars => BudgetInv'
  BY BudgetNext
<1> QED
  BY <1>1, <1>2, TypeCorrect, PTL DEF Spec

(* save_run_checked never lets racing invoices overspend a purchase order. *)
THEOREM PipelineNeverOverspends == Spec => []PipelineWithinBudget
<1>1. BudgetInv => PipelineWithinBudget
  BY DEF BudgetInv
<1> QED
  BY <1>1, BudgetInvariant, PTL
-----------------------------------------------------------------------------
(* What is on record of the decisions on a run.                            *)

(* The label one row is reported under, as FinalDecisionConsistent has it. *)
Labelled(run) ==
    run.final_decision =
        IF run.human_decision # None THEN HumanOutcome(run.human_decision)
        ELSE IF run.automated_decision = None /\ run.event = "PROCESSING_COMPLETED" THEN None
        ELSE run.status

(* A later row keeps the decisions that an earlier one has.                *)
KeepsDecisions(run, next) ==
    /\ run.automated_decision # None => next.automated_decision = run.automated_decision
    /\ run.human_decision # None => next.human_decision = run.human_decision

(* A run is recorded once, by the pass that was at work on its document.   *)
StoredIsDone == \A s \in Stored : pc[s] = "done"

RecordInv == TypeOK /\ StoredIsDone /\ FinalDecisionConsistent

(* A transition relabels a run that nobody has ruled on.                   *)
LEMMA TransitionLabels ==
    ASSUME NEW run \in Run, Labelled(run), NEW new \in Statuses,
           NEW event \in Events \ {"PROCESSING_COMPLETED"}
    PROVE  /\ Labelled(apply_status_transition(run, new, event))
           /\ KeepsDecisions(run, apply_status_transition(run, new, event))
BY DEF apply_status_transition, Labelled, KeepsDecisions, Run

(* A ruling is the first one, and gives the run its label.                 *)
LEMMA ReviewLabels ==
    ASSUME NEW run \in Run, run.human_decision = None, NEW decision \in Decisions
    PROVE  LET next == [apply_status_transition(run, Outcome(decision), decision) EXCEPT
                           !.human_decision = decision,
                           !.final_decision = HumanOutcome(decision)]
           IN  Labelled(next) /\ KeepsDecisions(run, next)
BY LedgerAssumption DEF apply_status_transition, Labelled, KeepsDecisions, Run

(* A restart fills in what is missing, and that only.                      *)
LEMMA BackfillLabels ==
    ASSUME NEW run \in Run, Labelled(run)
    PROVE  Labelled(Backfilled(run)) /\ KeepsDecisions(run, Backfilled(run))
<1>1. None \notin Statuses /\ \A d : HumanOutcome(d) # None
  BY LedgerAssumption DEF HumanOutcome
<1>2. run.status \in Statuses
  BY DEF Run
<1> QED
  BY <1>1, <1>2 DEF Backfilled, Labelled, KeepsDecisions, Run

(* What one step may do to the row of a run that is on file.               *)
LEMMA RowStep ==
    ASSUME RecordInv, [Next]_vars, NEW s \in Submissions, runs'[s] # None
    PROVE  Labelled(runs'[s]) /\ (s \in Stored => KeepsDecisions(runs[s], runs'[s]))
<1>0. ASSUME s \in Stored
      PROVE  runs[s] \in Run /\ Labelled(runs[s]) /\ pc[s] = "done"
  BY <1>0, StoredRun DEF RecordInv, StoredIsDone, FinalDecisionConsistent, Labelled
<1>1. CASE runs'[s] = runs[s]
  BY <1>0, <1>1 DEF KeepsDecisions, Stored
<1>2. ASSUME NEW t \in Submissions, AbortUnreadable(t) \/ InsertRun(t), runs'[s] # runs[s]
      PROVE  Labelled(runs'[s]) /\ s \notin Stored
  <2>1. s = t /\ pc[s] # "done"
    BY <1>2 DEF AbortUnreadable, InsertRun, RecordInv, TypeOK
  <2>2. CASE AbortUnreadable(t)
    <3>1. runs'[s] = NewRun("NEEDS_REVIEW", None, {"substantive"}, NoDraft.alloc)
      BY <2>1, <2>2 DEF AbortUnreadable, RecordInv, TypeOK
    <3> QED
      BY <1>0, <2>1, <3>1 DEF Labelled, NewRun
  <2>3. CASE InsertRun(t)
    <3>1. runs'[s] = NewRun(draft[s].verdict, draft[s].verdict, draft[s].reasons, draft[s].alloc)
      BY <2>1, <2>3 DEF InsertRun, RecordInv, TypeOK
    <3> QED
      BY <1>0, <2>1, <3>1 DEF Labelled, NewRun
  <2> QED
    BY <1>2, <2>2, <2>3
<1>3. ASSUME NEW r \in Requests, NEW t \in Submissions, NEW decision \in Decisions,
             Review(r, t, decision), runs'[s] # runs[s]
      PROVE  s \in Stored /\ Labelled(runs'[s]) /\ KeepsDecisions(runs[s], runs'[s])
  <2>1. s = t /\ s \in Stored /\ runs[s].human_decision = None
    BY <1>3 DEF Review, RecordInv, TypeOK, Stored
  <2>2. runs'[s] = [apply_status_transition(runs[s], Outcome(decision), decision) EXCEPT
                        !.human_decision = decision,
                        !.final_decision = HumanOutcome(decision)]
    BY <1>3, <2>1 DEF Review, RecordInv, TypeOK
  <2> DEFINE next == [apply_status_transition(runs[s], Outcome(decision), decision) EXCEPT
                          !.human_decision = decision,
                          !.final_decision = HumanOutcome(decision)]
  <2>3. runs[s] \in Run /\ runs[s].human_decision = None
    BY <1>0, <2>1
  <2>4. Labelled(next) /\ KeepsDecisions(runs[s], next)
    BY <2>3, ReviewLabels
  <2> QED
    BY <2>1, <2>2, <2>4
<1>4. ASSUME NEW r \in Requests, NEW t \in Submissions, NEW new \in Statuses,
             set_run_status(r, t, new), runs'[s] # runs[s]
      PROVE  s \in Stored /\ Labelled(runs'[s]) /\ KeepsDecisions(runs[s], runs'[s])
  <2>1. s = t /\ s \in Stored
        /\ runs'[s] = apply_status_transition(runs[s], new, "STATUS_OVERRIDDEN")
    BY <1>4 DEF set_run_status, RecordInv, TypeOK, Stored
  <2>2. "STATUS_OVERRIDDEN" \in Events \ {"PROCESSING_COMPLETED"}
    BY DEF Events
  <2> QED
    BY <1>0, <2>1, <2>2, TransitionLabels
<1>5. ASSUME NEW r \in Requests, ApplyApproval(r), runs'[s] # runs[s]
      PROVE  s \in Stored /\ Labelled(runs'[s]) /\ KeepsDecisions(runs[s], runs'[s])
  <2>1. s \in Stored /\ runs'[s] = apply_status_transition(runs[s], "APPROVED", "AUTO_APPROVED")
    BY <1>5 DEF ApplyApproval, RecordInv, TypeOK
  <2>2. "AUTO_APPROVED" \in Events \ {"PROCESSING_COMPLETED"} /\ "APPROVED" \in Statuses
    BY DEF Events, Statuses
  <2> QED
    BY <1>0, <2>1, <2>2, TransitionLabels
<1>6. CASE Restart
  <2>1. s \in Stored /\ runs'[s] = Backfilled(runs[s])
    BY <1>6 DEF Restart
  <2> QED
    BY <1>0, <2>1, BackfillLabels
<1>7. CASE clear_run_history
  BY <1>7 DEF clear_run_history
<1>8. ASSUME NEW t \in Submissions,
             Match(t) \/ Decide(t) \/ RecheckDuplicate(t) \/ RecheckBalance(t)
      PROVE  runs'[s] = runs[s]
  BY <1>8 DEF Match, Decide, RecheckDuplicate, RecheckBalance
<1>9. ASSUME NEW r \in Requests, ListQueue(r) \/ CheckHead(r)
      PROVE  runs'[s] = runs[s]
  BY <1>9 DEF ListQueue, CheckHead
<1> QED
  BY <1>1, <1>2, <1>3, <1>4, <1>5, <1>6, <1>7, <1>8, <1>9
  DEF Next, Pipeline, WalkQueue, Rule, vars

(* A row comes into being as its pass ends.                                *)
LEMMA DoneStep == RecordInv /\ [Next]_vars => StoredIsDone'
<1> SUFFICES ASSUME RecordInv, [Next]_vars, NEW s \in Submissions, runs'[s] # None
             PROVE  pc'[s] = "done"
  BY DEF StoredIsDone, Stored
<1>0. runs[s] # None => pc[s] = "done"
  BY DEF RecordInv, StoredIsDone, Stored
<1>1. ASSUME NEW t \in Submissions, Pipeline(t)
      PROVE  pc'[s] = "done"
  BY <1>0, <1>1 DEF Pipeline, AbortUnreadable, Match, Decide, RecheckDuplicate, RecheckBalance,
                    InsertRun, RecordInv, TypeOK
<1>2. ASSUME NEW r \in Requests, WalkQueue(r) \/ Rule(r)
      PROVE  pc'[s] = "done"
  <2>1. UNCHANGED pc
    BY <1>2 DEF WalkQueue, Rule, ListQueue, CheckHead, ApplyApproval, Review, set_run_status
  <2>2. runs[s] # None
    BY <1>2 DEF WalkQueue, Rule, ListQueue, CheckHead, ApplyApproval, Review, set_run_status,
                RecordInv, TypeOK, Stored
  <2> QED
    BY <1>0, <2>1, <2>2
<1>3. CASE Restart
  BY <1>0, <1>3 DEF Restart, Stored, InFlight, Settled
<1>4. CASE clear_run_history
  BY <1>4 DEF clear_run_history
<1> QED
  BY <1>0, <1>1, <1>2, <1>3, <1>4 DEF Next, vars

(* Labels and places on record are kept by every step.                     *)
LEMMA RecordNext == RecordInv /\ [Next]_vars => RecordInv'
<1> SUFFICES ASSUME RecordInv, [Next]_vars PROVE RecordInv'
  OBVIOUS
<1>1. FinalDecisionConsistent'
  BY RowStep DEF FinalDecisionConsistent, Labelled, Stored
<1>2. TypeOK' /\ StoredIsDone'
  BY TypeNext, DoneStep DEF RecordInv
<1> QED
  BY <1>1, <1>2 DEF RecordInv

LEMMA RecordInit == Init => RecordInv
BY TypeInit DEF Init, RecordInv, StoredIsDone, FinalDecisionConsistent, Stored

(* A run is reported under a person's label once a person has ruled, and   *)
(* under its status until then, whatever overrides, walks and restarts do. *)
THEOREM LabelsFollowRulings == Spec => []FinalDecisionConsistent
<1>1. RecordInv => FinalDecisionConsistent
  BY DEF RecordInv
<1> QED
  BY <1>1, RecordInit, RecordNext, PTL DEF Spec

(* No later step rewrites a ruling, or an automated decision.              *)
THEOREM DecisionsAreKept == Spec => RulingsStand
<1>1. RecordInv /\ [Next]_vars =>
        [\A s \in Stored : s \in Stored' =>
            /\ runs[s].automated_decision # None
                  => runs'[s].automated_decision = runs[s].automated_decision
            /\ runs[s].human_decision # None
                  => runs'[s].human_decision = runs[s].human_decision]_vars
  BY RowStep DEF Stored, KeepsDecisions
<1> QED
  BY <1>1, RecordInit, RecordNext, PTL DEF Spec, RulingsStand

-----------------------------------------------------------------------------
(* What the cascade releases.                                              *)

MayBeReleased(s) == runs[s].reasons \cap Blockers = {} /\ ~IsMulti(doc[s])

(* A run a walk is about to approve was found fit, and no later row takes  *)
(* its place: a run that is deleted meanwhile does not come back.          *)
ApplyingIsFit ==
    \A r \in Requests : \A s \in Submissions :
        cascade[r].stage = "applying" /\ s = Current(r) =>
            pc[s] = "done" /\ (runs[s] # None => MayBeReleased(s))

(* What no step does to a run whose pass is over.                          *)
LEMMA DoneStays ==
    ASSUME RecordInv, [Next]_vars, NEW s \in Submissions, pc[s] = "done"
    PROVE  /\ pc'[s] = "done" /\ doc' = doc
           /\ runs'[s] # None =>
                 /\ runs[s] # None
                 /\ runs'[s].reasons = runs[s].reasons
                 /\ \/ runs'[s].event \in {runs[s].event, "STATUS_OVERRIDDEN"} \cup Decisions
                    \/ \E r \in Requests : ApplyApproval(r) /\ s = Current(r)
<1>0. runs[s] # None => runs[s] \in Run
  BY StoredRun DEF RecordInv, Stored
<1>1. ASSUME NEW t \in Submissions, Pipeline(t)
      PROVE  pc'[s] = "done" /\ doc' = doc /\ runs'[s] = runs[s]
  BY <1>1 DEF Pipeline, AbortUnreadable, Match, Decide, RecheckDuplicate, RecheckBalance,
              InsertRun, RecordInv, TypeOK
<1>2. ASSUME NEW r \in Requests, NEW t \in Submissions, NEW decision \in Decisions,
             Review(r, t, decision)
      PROVE  /\ UNCHANGED <<pc, doc>>
             /\ runs'[s] # None =>
                   /\ runs[s] # None /\ runs'[s].reasons = runs[s].reasons
                   /\ runs'[s].event \in {runs[s].event, decision}
  <2>1. CASE s # t
    BY <1>2, <2>1 DEF Review, RecordInv, TypeOK
  <2>2. CASE s = t
    <3>1. runs[s] # None /\ runs'[s] = [apply_status_transition(runs[s], Outcome(decision), decision)
                             EXCEPT !.human_decision = decision,
                                    !.final_decision = HumanOutcome(decision)]
      BY <1>2, <2>2 DEF Review, RecordInv, TypeOK
    <3> QED
      BY <1>0, <1>2, <3>1 DEF Review, apply_status_transition, Run
  <2> QED
    BY <2>1, <2>2
<1>3. ASSUME NEW r \in Requests, NEW t \in Submissions, NEW new \in Statuses,
             set_run_status(r, t, new)
      PROVE  /\ UNCHANGED <<pc, doc>>
             /\ runs'[s] # None =>
                   /\ runs[s] # None /\ runs'[s].reasons = runs[s].reasons
                   /\ runs'[s].event \in {runs[s].event, "STATUS_OVERRIDDEN"}
  BY <1>0, <1>3 DEF set_run_status, apply_status_transition, RecordInv, TypeOK, Run
<1>4. ASSUME NEW r \in Requests, ApplyApproval(r)
      PROVE  /\ UNCHANGED <<pc, doc>>
             /\ runs'[s] # None =>
                   /\ runs[s] # None /\ runs'[s].reasons = runs[s].reasons
                   /\ runs'[s].event = runs[s].event \/ s = Current(r)
  BY <1>0, <1>4 DEF ApplyApproval, apply_status_transition, RecordInv, TypeOK, Run, Stored
<1>5. CASE Restart
  BY <1>0, <1>5 DEF Restart, Backfilled, InFlight, Settled, Stored, Run
<1>6. CASE clear_run_history
  BY <1>6 DEF clear_run_history
<1>7. ASSUME NEW r \in Requests, ListQueue(r) \/ CheckHead(r)
      PROVE  UNCHANGED <<pc, doc, runs>>
  BY <1>7 DEF ListQueue, CheckHead
<1> QED
  BY <1>1, <1>2, <1>3, <1>4, <1>5, <1>6, <1>7 DEF Next, WalkQueue, Rule, vars

(* A walk comes to approve a run only by looking at it.                    *)
LEMMA WalkStep ==
    ASSUME RecordInv, [Next]_vars, NEW r \in Requests, cascade'[r].stage = "applying"
    PROVE  \/ cascade'[r] = cascade[r]
           \/ /\ UNCHANGED <<pc, doc, runs>> /\ Current(r)' = Current(r)
              /\ Releasable(Current(r), cascade[r].po)
<1>0. cascade[r] \in Walk /\ Idle.stage = "idle"
  BY DEF RecordInv, TypeOK, Idle
<1>1. \A s : WalkFrom(s).stage # "applying"
  BY DEF WalkFrom, Idle
<1>2. ASSUME NEW w \in Walk PROVE Advance(w).stage # "applying"
  BY <1>2 DEF Advance, Idle, Walk
<1>3. ASSUME NEW q \in Requests, CheckHead(q)
      PROVE  \/ cascade'[r] = cascade[r]
             \/ /\ UNCHANGED <<pc, doc, runs>> /\ Current(r)' = Current(r)
                /\ Releasable(Current(r), cascade[r].po)
  <2>1. CASE q # r
    BY <1>3, <2>1 DEF CheckHead, RecordInv, TypeOK
  <2>2. CASE q = r
    <3>1. cascade'[r] = IF Releasable(Current(r), cascade[r].po)
                        THEN [cascade[r] EXCEPT !.stage = "applying"] ELSE Advance(cascade[r])
      BY <1>3, <2>2 DEF CheckHead, RecordInv, TypeOK
    <3>2. Releasable(Current(r), cascade[r].po)
          /\ cascade'[r] = [cascade[r] EXCEPT !.stage = "applying"]
      BY <1>0, <1>2, <3>1
    <3>3. cascade'[r].queue = cascade[r].queue
      BY <1>0, <3>2 DEF Walk
    <3> QED
      BY <1>3, <3>2, <3>3 DEF CheckHead, Current
  <2> QED
    BY <2>1, <2>2
<1>4. ASSUME NEW q \in Requests, ListQueue(q)
      PROVE  cascade'[r] = cascade[r]
  BY <1>0, <1>4 DEF ListQueue, RecordInv, TypeOK, Walk, Idle
<1>5. ASSUME NEW q \in Requests, ApplyApproval(q)
      PROVE  cascade'[r] = cascade[r]
  <2>1. cascade' = [cascade EXCEPT ![q] = Advance(@)] /\ cascade \in [Requests -> Walk]
    BY <1>5 DEF ApplyApproval, RecordInv, TypeOK
  <2>2. q # r
    <3>1. q = r => cascade'[r] = Advance(cascade[r])
      BY <2>1
    <3> QED
      BY <1>0, <1>2, <3>1
  <2> QED
    BY <2>1, <2>2
<1>6. ASSUME NEW q \in Requests, Rule(q)
      PROVE  cascade'[r] = cascade[r]
  <2>1. PICK s \in Submissions : cascade' = [cascade EXCEPT ![q] = WalkFrom(s)]
    BY <1>6 DEF Rule, Review, set_run_status
  <2>2. q # r
    <3>1. q = r => cascade'[r] = WalkFrom(s)
      BY <2>1 DEF RecordInv, TypeOK
    <3> QED
      BY <1>1, <3>1
  <2> QED
    BY <2>1, <2>2 DEF RecordInv, TypeOK
<1>7. ASSUME NEW s \in Submissions, Pipeline(s)
      PROVE  cascade'[r] = cascade[r]
  BY <1>7 DEF Pipeline, AbortUnreadable, Match, Decide, RecheckDuplicate, RecheckBalance, InsertRun
<1>8. ~Restart
  BY <1>0 DEF Restart
<1>9. clear_run_history => cascade'[r] = cascade[r]
  BY DEF clear_run_history
<1> QED
  BY <1>3, <1>4, <1>5, <1>6, <1>7, <1>8, <1>9 DEF Next, WalkQueue, vars

LEMMA ApplyingNext == RecordInv /\ ApplyingIsFit /\ [Next]_vars => ApplyingIsFit'
<1> SUFFICES ASSUME RecordInv, ApplyingIsFit, [Next]_vars, NEW r \in Requests, NEW s \in Submissions,
                    cascade'[r].stage = "applying", s = Current(r)'
             PROVE  pc'[s] = "done" /\ (runs'[s] # None => MayBeReleased(s)')
  BY DEF ApplyingIsFit
<1>1. pc[s] = "done" /\ (runs[s] # None => MayBeReleased(s))
  <2>1. CASE cascade'[r] = cascade[r]
    BY <2>1 DEF ApplyingIsFit, Current
  <2>2. CASE Current(r)' = Current(r) /\ Releasable(Current(r), cascade[r].po)
    BY <2>2 DEF Releasable, MayBeReleased, RecordInv, StoredIsDone, Stored
  <2> QED
    BY <2>1, <2>2, WalkStep
<1> QED
  BY <1>1, DoneStays DEF MayBeReleased

(* The cascade approves no run that carries a finding beyond the balance,  *)
(* nor one split over several orders, however long ago it looked.          *)
THEOREM NothingIsLaundered == Spec => NoLaundering
<1>1. Init => ApplyingIsFit
  BY DEF Init, ApplyingIsFit, Idle
<1>2. RecordInv /\ ApplyingIsFit /\ [Next]_vars =>
        [\A s \in Stored :
            s \in Stored' /\ runs'[s].event = "AUTO_APPROVED"
                => \/ runs[s].event = "AUTO_APPROVED"
                   \/ runs[s].reasons \cap Blockers = {} /\ ~IsMulti(doc[s])]_vars
  <2> SUFFICES ASSUME RecordInv, ApplyingIsFit, [Next]_vars, NEW s \in Stored, s \in Stored',
                      runs'[s].event = "AUTO_APPROVED", runs[s].event # "AUTO_APPROVED"
               PROVE  runs[s].reasons \cap Blockers = {} /\ ~IsMulti(doc[s])
    OBVIOUS
  <2>1. s \in Submissions /\ runs[s] # None /\ runs'[s] # None /\ pc[s] = "done"
    BY DEF Stored, RecordInv, StoredIsDone
  <2>2. PICK r \in Requests : ApplyApproval(r) /\ s = Current(r)
    BY <2>1, DoneStays DEF Decisions
  <2> QED
    BY <2>1, <2>2 DEF ApplyApproval, ApplyingIsFit, MayBeReleased
<1> QED
  BY <1>1, <1>2, RecordInit, RecordNext, ApplyingNext, PTL DEF Spec, NoLaundering
=============================================================================
