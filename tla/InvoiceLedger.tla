--------------------------- MODULE InvoiceLedger ---------------------------
(***************************************************************************)
(* The purchase-order ledger: what run_pipeline, save_run_checked,         *)
(* record_human_review, set_run_status and reevaluate_po_queue do to the   *)
(* rows of `runs` and `run_allocations`, and how they interleave.          *)
(*                                                                         *)
(* A SUBMISSION is one pass of a document through the pipeline; it writes  *)
(* at most one run, so a run is named by the submission that wrote it.     *)
(* The verdict is reached outside any transaction (Match, Decide) and is   *)
(* re-checked under locks when the run commits (RecheckDuplicate,          *)
(* RecheckBalance, InsertRun).  A REQUEST is one HTTP thread that rules on *)
(* a run and then walks the queue of the purchase order it touched, one    *)
(* run at a time, each balance read and each write in a transaction of its *)
(* own.                                                                    *)
(*                                                                         *)
(* Money is counted in whole units of the purchase order's currency.       *)
(***************************************************************************)
EXTENDS Integers, FiniteSets

CONSTANTS
    Submissions,            \* passes through run_pipeline
    Requests,               \* request threads of reviewers and administrators
    POs,                    \* purchase order numbers
    POAmount,               \* what each purchase order authorises
    Documents,              \* the invoices that may be submitted
    Numbers,                \* invoice numbers
    Vendors,                \* vendor names
    MaxCharge,              \* the largest amount an invoice may state
    PO_TOLERANCE_DIVISOR,   \* 1 / PO_TOLERANCE_PERCENT
    PO_TOLERANCE_FLOOR,     \* PO_TOLERANCE_DOLLARS
    None                    \* SQL NULL

Statuses  == {"APPROVED", "NEEDS_REVIEW", "REJECTED"}
Decisions == {"ACCEPTED", "REJECTED"}

(***************************************************************************)
(* The reasons a run carries, by what they are grounds for.  A reason of   *)
(* level "warn" holds the invoice too but does not block the cascade;      *)
(* "balance" is of level "fail" and recognised by its wording.             *)
(***************************************************************************)
WarnReasons   == {"unconfirmed"}           \* vendor unsure, or PO inferred
RejectReasons == {"refused", "duplicate"}
Blockers      == RejectReasons \cup {"substantive", "unmatched", "split",
                                     "currency", "portal"}
Reasons       == WarnReasons \cup Blockers \cup {"balance"}

(***************************************************************************)
(* What the extractor and the checks that do not read the ledger make of a *)
(* document.  `foreign` says the invoice is in another currency than its   *)
(* purchase orders, and `converted` is then its total at the pinned rate   *)
(* (where there is none, `total` itself and a "substantive" finding);      *)
(* `stranger` says a portal client submitted it in the name of a vendor it *)
(* does not represent.                                                     *)
(* Amounts are positive: a total of zero or less is a "substantive"        *)
(* finding, and what a person's acceptance of a credit note would do to    *)
(* the balance is left out.                                                *)
(***************************************************************************)
Document ==
    [number: Numbers \cup {None}, vendor: Vendors \cup {None},
     total: 1..MaxCharge, converted: 1..MaxCharge,
     primary: POs \cup {None}, secondary: POs \cup {None},
     findings: SUBSET {"unconfirmed", "refused", "substantive"},
     foreign: BOOLEAN, readable: BOOLEAN, stranger: BOOLEAN]

VARIABLES
    doc,       \* the document each submission carries
    pc,        \* how far each submission has got
    draft,     \* the verdict it is about to commit, and the locks it holds
    runs,      \* the rows of `runs` with their allocations
    lastId,    \* the identity sequence of `runs`
    cascade    \* the queue each request thread is walking

vars == <<doc, pc, draft, runs, lastId, cascade>>

Settled == {"done", "lost"}
Stages  == {"received", "matched", "decided", "keyed", "checked"} \cup Settled

Events == {"PROCESSING_COMPLETED", "AUTO_APPROVED", "STATUS_OVERRIDDEN"}
              \cup Decisions

Allocation == [POs -> 0..MaxCharge]

Run == [id: Nat, status: Statuses,
        automated_decision: Statuses \cup {None},
        human_decision: Decisions \cup {None},
        final_decision: Statuses \cup {"HUMAN_APPROVED", "HUMAN_REJECTED", None},
        reasons: SUBSET Reasons, alloc: Allocation,
        event: Events]      \* the activity that last moved its status

Draft == [verdict: Statuses, reasons: SUBSET Reasons, alloc: Allocation,
          key: BOOLEAN,     \* holds the advisory lock of its invoice identity
          rows: SUBSET POs] \* purchase_orders rows it holds FOR UPDATE

Walk == [stage: {"idle", "listing", "checking", "applying"},
         po: POs \cup {None},
         queue: SUBSET [run: Submissions, id: Nat]]

Idle == [stage |-> "idle", po |-> None, queue |-> {}]

ASSUME LedgerAssumption ==
    /\ IsFiniteSet(Submissions)
    /\ None \notin POs \cup Numbers \cup Vendors \cup Statuses \cup Decisions
                       \cup {"HUMAN_APPROVED", "HUMAN_REJECTED"}
    /\ POAmount \in [POs -> Nat]
    /\ MaxCharge \in Nat
    /\ PO_TOLERANCE_DIVISOR \in Nat \ {0}
    /\ PO_TOLERANCE_FLOOR \in Nat
    /\ Documents \subseteq Document
    /\ \A d \in Documents :
          /\ d.secondary # None => d.primary \notin {None, d.secondary}
          /\ ~d.foreign => d.converted = d.total
          /\ ~d.readable => d.number = None /\ d.vendor = None /\ d.primary = None
    /\ None \notin Run

-----------------------------------------------------------------------------
(* The derived balance: nothing is deducted anywhere, consumption is the   *)
(* sum of the allocations of the runs that are APPROVED now.  The sum is   *)
(* the number of (run, unit) pairs charged to the purchase order.          *)

UnitsCharged(S, p) ==
    {u \in S \X (1..MaxCharge) : u[2] <= runs[u[1]].alloc[p]}

Charged(S, p) == Cardinality(UnitsCharged(S, p))

Stored == {s \in Submissions : runs[s] # None}

ApprovedRuns == {s \in Stored : runs[s].status = "APPROVED"}

RemainingExcept(p, s) == POAmount[p] - Charged(ApprovedRuns \ {s}, p)

Remaining(p) == POAmount[p] - Charged(ApprovedRuns, p)

Larger(a, b)  == IF a >= b THEN a ELSE b
Smaller(a, b) == IF a <= b THEN a ELSE b

tolerance_for(amount) ==
    Larger(amount \div PO_TOLERANCE_DIVISOR, PO_TOLERANCE_FLOOR)

(* `whole` is what the tolerance is taken of once nothing remains.         *)
Fits(amount, remaining, whole) ==
    amount - remaining <= tolerance_for(IF remaining > 0 THEN remaining ELSE whole)

-----------------------------------------------------------------------------
(* What one document would be charged, and to which orders.                *)

Bound(d) == {d.primary, d.secondary} \ {None}

IsMulti(d)   == d.secondary # None
IsForeign(d) == d.foreign

(* The combined position of the orders an invoice names.                   *)
Combined(f, d) == f[d.primary] + (IF IsMulti(d) THEN f[d.secondary] ELSE 0)

Authorised(d) == Combined(POAmount, d)
LeftOn(d)     == Combined([p \in POs |-> Remaining(p)], d)

(* Mutant of split_across: the figure on the invoice is charged as though  *)
(* it were in the currency of the order.                                   *)
split_unconverted(d) ==
    [p \in POs |-> IF p = d.primary THEN d.total ELSE 0]

(* Each order named is filled up to its balance in the order the invoice   *)
(* names them, and the last one absorbs the rest.                          *)
split_across(d) ==
    LET first == IF IsMulti(d)
                 THEN Smaller(d.converted, Larger(0, Remaining(d.primary)))
                 ELSE d.converted
    IN  [p \in POs |-> IF p = d.primary THEN first
                       ELSE IF p = d.secondary THEN d.converted - first ELSE 0]

(* Everything match_po reports that is grounds for not approving.  The     *)
(* wording of a multi-PO shortfall is not one the cascade recognises, and  *)
(* "split" already says as much.  A foreign invoice is refused when it     *)
(* states the very figure of the order or of its balance.                  *)
MatchReasons(d) ==
    IF d.primary = None THEN {"unmatched"}
    ELSE LET fits   == Fits(d.converted, LeftOn(d), Authorised(d))
             copied == IsForeign(d) /\ d.total \in {Authorised(d), LeftOn(d)}
         IN  {r \in {"split"}    : IsMulti(d)}
             \cup {r \in {"balance"}  : ~fits /\ ~IsMulti(d)}
             \cup {r \in {"refused"}  : copied}
             \cup {r \in {"currency"} : IsForeign(d) /\ ~copied /\ ~fits}

(* A run already on file with the same number and total, of the same       *)
(* vendor or of a vendor nobody could read, whatever became of it.         *)
Repeats(d, e) ==
    d.number # None /\ e.number = d.number /\ e.total = d.total
        /\ e.vendor \in {d.vendor, None}

(* Mutant of find_duplicate: a vendor nobody could read matches nothing.   *)
find_duplicate_same_vendor(d) ==
    {s \in Stored : Repeats(d, doc[s]) /\ doc[s].vendor = d.vendor}

find_duplicate(d) == {s \in Stored : Repeats(d, doc[s])}

(* Reject wins over review when both fire.                                 *)
Verdict(reasons) ==
    IF reasons \cap RejectReasons # {} THEN "REJECTED"
    ELSE IF reasons # {} THEN "NEEDS_REVIEW" ELSE "APPROVED"

-----------------------------------------------------------------------------
NoDraft == [verdict |-> "NEEDS_REVIEW", reasons |-> {},
            alloc |-> [p \in POs |-> 0], key |-> FALSE, rows |-> {}]

Init ==
    /\ doc \in [Submissions -> Documents]
    /\ pc = [s \in Submissions |-> "received"]
    /\ draft = [s \in Submissions |-> NoDraft]
    /\ runs = [s \in Submissions |-> None]
    /\ lastId = 0
    /\ cascade = [r \in Requests |-> Idle]

(* The row and its allocations, as one transaction writes them.            *)
NewRun(status, automated, reasons, alloc) ==
    [id |-> lastId + 1, status |-> status,
     automated_decision |-> automated, human_decision |-> None,
     final_decision |-> automated, reasons |-> reasons, alloc |-> alloc,
     event |-> "PROCESSING_COMPLETED"]

(* A file that cannot be opened is recorded for a person, with neither a   *)
(* purchase order nor an automated decision.                               *)
AbortUnreadable(s) ==
    /\ pc[s] = "received"
    /\ ~doc[s].readable
    /\ runs' = [runs EXCEPT
           ![s] = NewRun("NEEDS_REVIEW", None, {"substantive"}, NoDraft.alloc)]
    /\ lastId' = lastId + 1
    /\ pc' = [pc EXCEPT ![s] = "done"]
    /\ UNCHANGED <<doc, draft, cascade>>

(* Extraction, validation and match_po; balances read with no lock.        *)
Match(s) ==
    /\ pc[s] = "received"
    /\ doc[s].readable
    /\ draft' = [draft EXCEPT
           ![s].reasons = doc[s].findings \cup MatchReasons(doc[s])
                              \cup {r \in {"substantive"} : doc[s].number = None},
           ![s].alloc = split_across(doc[s])]
    /\ pc' = [pc EXCEPT ![s] = "matched"]
    /\ UNCHANGED <<doc, runs, lastId, cascade>>

(* duplicate_check, again with no lock, and decide().                      *)
Decide(s) ==
    /\ pc[s] = "matched"
    /\ LET reasons == draft[s].reasons
                          \cup {r \in {"duplicate"} : find_duplicate(doc[s]) # {}}
       IN  draft' = [draft EXCEPT ![s].verdict = Verdict(reasons),
                                  ![s].reasons = reasons]
    /\ pc' = [pc EXCEPT ![s] = "decided"]
    /\ UNCHANGED <<doc, runs, lastId, cascade>>

(* Mutant of InTransaction: the locks go before the row is inserted.       *)
InTransactionUntilChecked(s) == pc[s] = "keyed"

InTransaction(s) == pc[s] \in {"keyed", "checked"}

(* Mutant of duplicate_lock_key: it takes the vendor in.                   *)
duplicate_lock_key_vendor(d) == <<d.number, d.total, d.vendor>>

(* The advisory lock of an invoice identity leaves the vendor out.         *)
duplicate_lock_key(d) == <<d.number, d.total>>

(* Mutant of KeyFree: a lock of the session, which outlives the commit.    *)
KeyFreeOfSessions(s) ==
    \A t \in Submissions \ {s} :
        pc[t] \in {"keyed", "checked", "done"}
            => duplicate_lock_key(doc[t]) # duplicate_lock_key(doc[s])

KeyFree(s) ==
    \A t \in Submissions \ {s} :
        InTransaction(t) /\ draft[t].key
            => duplicate_lock_key(doc[t]) # duplicate_lock_key(doc[s])

(* The transaction opens: the identity lock unless there is nothing left   *)
(* to reject, the duplicate asked again under it, then the portal's hold.  *)
RecheckDuplicate(s) ==
    /\ pc[s] = "decided"
    /\ LET was     == draft[s].verdict
           locks   == was # "REJECTED" /\ doc[s].number # None
           repeat  == locks /\ find_duplicate(doc[s]) # {}
           strange == ~repeat /\ was = "APPROVED" /\ doc[s].stranger
       IN  /\ locks => KeyFree(s)
           /\ draft' = [draft EXCEPT
                ![s].key = locks,
                ![s].verdict = IF repeat THEN "REJECTED"
                               ELSE IF strange THEN "NEEDS_REVIEW" ELSE was,
                ![s].reasons = @ \cup {r \in {"duplicate"} : repeat}
                                 \cup {r \in {"portal"} : strange}]
    /\ pc' = [pc EXCEPT ![s] = "keyed"]
    /\ UNCHANGED <<doc, runs, lastId, cascade>>

(* Mutant of RowsFree: SELECT without FOR UPDATE.                          *)
RowsFreeUnlocked(s, rows) == TRUE

RowsFree(s, rows) ==
    \A t \in Submissions \ {s} : InTransaction(t) => draft[t].rows \cap rows = {}

(* SELECT ... FOR UPDATE on each order charged, and the balance read again *)
(* under it.  A run that is still APPROVED here charges a single order.    *)
RecheckBalance(s) ==
    /\ pc[s] = "keyed"
    /\ LET rows  == IF draft[s].verdict = "APPROVED" THEN Bound(doc[s]) ELSE {}
           short == \E p \in rows : ~Fits(draft[s].alloc[p], Remaining(p), POAmount[p])
       IN  /\ RowsFree(s, rows)
           /\ draft' = [draft EXCEPT
                ![s].rows = rows,
                ![s].verdict = IF short THEN "REJECTED" ELSE @,
                ![s].reasons = @ \cup {r \in {"balance"} : short}]
    /\ pc' = [pc EXCEPT ![s] = "checked"]
    /\ UNCHANGED <<doc, runs, lastId, cascade>>

(* The insert and the commit, which releases every lock.                   *)
InsertRun(s) ==
    /\ pc[s] = "checked"
    /\ runs' = [runs EXCEPT ![s] = NewRun(draft[s].verdict, draft[s].verdict,
                                          draft[s].reasons, draft[s].alloc)]
    /\ lastId' = lastId + 1
    /\ draft' = [draft EXCEPT ![s] = NoDraft]
    /\ pc' = [pc EXCEPT ![s] = "done"]
    /\ UNCHANGED <<doc, cascade>>

-----------------------------------------------------------------------------
(* Mutants of apply_status_transition: a person's label is overwritten, or *)
(* the ruling itself is.                                                   *)
transition_relabels(run, new, event) ==
    [run EXCEPT !.status = new, !.final_decision = new, !.event = event]

transition_forgets(run, new, event) ==
    [run EXCEPT !.status = new, !.final_decision = new, !.event = event,
                !.human_decision = None]

(* The status moves, and the final decision with it until a person rules.  *)
apply_status_transition(run, new, event) ==
    [run EXCEPT !.status = new,
                !.final_decision = IF run.human_decision = None THEN new ELSE @,
                !.event = event]

(* A request that moved run s re-evaluates the queue of its primary order. *)
WalkFrom(s) ==
    IF doc[s].primary = None THEN Idle
    ELSE [stage |-> "listing", po |-> doc[s].primary, queue |-> {}]

(* Mutant of Outcome: the decision is stored where its status belongs.     *)
OutcomeVerbatim(decision) == decision

Outcome(decision) == IF decision = "ACCEPTED" THEN "APPROVED" ELSE "REJECTED"

HumanOutcome(decision) ==
    IF decision = "ACCEPTED" THEN "HUMAN_APPROVED" ELSE "HUMAN_REJECTED"

(* A person rules, once, on a run the process held.  Who holds the review  *)
(* claim only narrows who may take this step.                              *)
Review(r, s, decision) ==
    /\ cascade[r].stage = "idle"
    /\ runs[s] # None
    /\ "NEEDS_REVIEW" = IF runs[s].automated_decision = None
                        THEN runs[s].status ELSE runs[s].automated_decision
    /\ runs[s].human_decision = None
    /\ runs' = [runs EXCEPT ![s] =
           [apply_status_transition(@, Outcome(decision), decision) EXCEPT
               !.human_decision = decision,
               !.final_decision = HumanOutcome(decision)]]
    /\ cascade' = [cascade EXCEPT ![r] = WalkFrom(s)]
    /\ UNCHANGED <<doc, pc, draft, lastId>>

(* An administrator moves a run to any other status.                       *)
set_run_status(r, s, new) ==
    /\ cascade[r].stage = "idle"
    /\ runs[s] # None
    /\ runs[s].status # new
    /\ runs' = [runs EXCEPT ![s] = apply_status_transition(@, new, "STATUS_OVERRIDDEN")]
    /\ cascade' = [cascade EXCEPT ![r] = WalkFrom(s)]
    /\ UNCHANGED <<doc, pc, draft, lastId>>

(* The runs a request will look at, in the order they were recorded.       *)
runs_pending_on_po(p) ==
    {s \in Stored : runs[s].status = "NEEDS_REVIEW" /\ p \in Bound(doc[s])}

ListQueue(r) ==
    /\ cascade[r].stage = "listing"
    /\ LET pending == runs_pending_on_po(cascade[r].po)
       IN  cascade' = [cascade EXCEPT ![r] =
               IF pending = {} THEN Idle
               ELSE [@ EXCEPT !.stage = "checking",
                              !.queue = {[run |-> s, id |-> runs[s].id] : s \in pending}]]
    /\ UNCHANGED <<doc, pc, draft, runs, lastId>>

Oldest(queue) == CHOOSE e \in queue : \A f \in queue : e.id <= f.id

Current(r) == Oldest(cascade[r].queue).run

(* Mutant of Advance: a run that was looked at stays in the queue.         *)
AdvanceNot(walk) == [walk EXCEPT !.stage = "checking"]

Advance(walk) ==
    LET left == walk.queue \ {Oldest(walk.queue)}
    IN  IF left = {} THEN Idle ELSE [walk EXCEPT !.stage = "checking", !.queue = left]

(* Mutant of Releasable: any held run that fits will do.                   *)
ReleasableIfFits(s, p) ==
    runs[s] # None /\ Fits(doc[s].total, RemainingExcept(p, s), doc[s].total)

(* What the cascade asks of a held run.  It compares the total the invoice *)
(* states, and a run that is gone by now would only fail to be written.    *)
Releasable(s, p) ==
    /\ runs[s] # None
    /\ runs[s].reasons \cap Blockers = {}
    /\ ~IsMulti(doc[s])
    /\ Fits(doc[s].total, RemainingExcept(p, s), doc[s].total)

CheckHead(r) ==
    /\ cascade[r].stage = "checking"
    /\ cascade' = [cascade EXCEPT ![r] =
           IF Releasable(Current(r), @.po) THEN [@ EXCEPT !.stage = "applying"]
           ELSE Advance(@)]
    /\ UNCHANGED <<doc, pc, draft, runs, lastId>>

(* set_run_status in a transaction of its own, whatever has happened to    *)
(* the run or to the balance since they were read.                         *)
ApplyApproval(r) ==
    /\ cascade[r].stage = "applying"
    /\ LET s == Current(r)
       IN  runs' = IF s \in Stored \ ApprovedRuns
                   THEN [runs EXCEPT ![s] =
                            apply_status_transition(@, "APPROVED", "AUTO_APPROVED")]
                   ELSE runs
    /\ cascade' = [cascade EXCEPT ![r] = Advance(@)]
    /\ UNCHANGED <<doc, pc, draft, lastId>>

-----------------------------------------------------------------------------
clear_run_history ==
    /\ Stored # {}
    /\ runs' = [s \in Submissions |-> None]
    /\ UNCHANGED <<doc, pc, draft, lastId, cascade>>

(* init_db, at every start, gives each row that lacks them the automated   *)
(* and the final decision its status suggests.                             *)
Backfilled(run) ==
    [run EXCEPT !.automated_decision = IF @ = None THEN run.status ELSE @,
                !.final_decision = IF @ = None THEN run.status ELSE @]

(* The process dies: open transactions roll back, the passes in flight and *)
(* the walks are forgotten.                                                *)
InFlight == {s \in Submissions : pc[s] \notin Settled \cup {"received"}}

Restart ==
    /\ \/ InFlight # {}
       \/ \E r \in Requests : cascade[r] # Idle
       \/ \E s \in Stored : runs[s].automated_decision = None
    /\ pc' = [s \in Submissions |-> IF s \in InFlight THEN "lost" ELSE pc[s]]
    /\ draft' = [s \in Submissions |-> NoDraft]
    /\ cascade' = [r \in Requests |-> Idle]
    /\ runs' = [s \in Submissions |->
                   IF s \in Stored THEN Backfilled(runs[s]) ELSE None]
    /\ UNCHANGED <<doc, lastId>>

Pipeline(s) ==
    \/ AbortUnreadable(s)
    \/ Match(s)
    \/ Decide(s)
    \/ RecheckDuplicate(s)
    \/ RecheckBalance(s)
    \/ InsertRun(s)

WalkQueue(r) == ListQueue(r) \/ CheckHead(r) \/ ApplyApproval(r)

Rule(r) ==
    \E s \in Submissions :
        \/ \E decision \in Decisions : Review(r, s, decision)
        \/ \E new \in Statuses : set_run_status(r, s, new)

Next ==
    \/ \E s \in Submissions : Pipeline(s)
    \/ \E r \in Requests : WalkQueue(r) \/ Rule(r)
    \/ clear_run_history
    \/ Restart

Spec == Init /\ [][Next]_vars

(* A worker thread that has a document in hand, or a queue to walk, goes   *)
(* on with it.  Nobody owes the system a ruling, a reset or a restart.     *)
Fairness ==
    /\ \A s \in Submissions : WF_vars(Pipeline(s))
    /\ \A r \in Requests : WF_vars(WalkQueue(r))

FairSpec == Spec /\ Fairness
-----------------------------------------------------------------------------
(* Every variable has the shape its table or record gives it.              *)
TypeOK ==
    /\ doc \in [Submissions -> Documents]
    /\ pc \in [Submissions -> Stages]
    /\ draft \in [Submissions -> Draft]
    /\ runs \in [Submissions -> Run \cup {None}]
    /\ lastId \in Nat
    /\ cascade \in [Requests -> Walk]

(* The runs that stand approved by the pipeline's own verdict, untouched.  *)
ApprovedByPipeline ==
    {s \in ApprovedRuns : runs[s].event = "PROCESSING_COMPLETED"}

(* Invoices racing each other into one purchase order: whatever the        *)
(* interleaving, and whatever people and the cascade do to the balance in  *)
(* between, the approvals save_run_checked grants never add up to more     *)
(* than the order authorises and its tolerance.                            *)
PipelineWithinBudget ==
    \A p \in POs :
        Charged(ApprovedByPipeline, p) <= POAmount[p] + tolerance_for(POAmount[p])

(* Two copies of one invoice, in flight together or not: save_run_checked  *)
(* never lets the later one through as anything but REJECTED.              *)
NoDuplicateAdmitted ==
    \A s, t \in Stored :
        /\ runs[s].id < runs[t].id
        /\ runs[s].automated_decision # "REJECTED"
        /\ Repeats(doc[t], doc[s])
        => runs[t].automated_decision = "REJECTED"

(* The label a run is reported under: a person's once a person has ruled,  *)
(* however often the status moves afterwards, and the status until then.   *)
FinalDecisionConsistent ==
    \A s \in Stored :
        runs[s].final_decision =
            IF runs[s].human_decision # None
            THEN HumanOutcome(runs[s].human_decision)
            ELSE IF runs[s].automated_decision = None
                    /\ runs[s].event = "PROCESSING_COMPLETED" THEN None
            ELSE runs[s].status

(* A run is ruled on once and its automated decision, once it has one, is  *)
(* never rewritten: neither a second reviewer, an override, the cascade    *)
(* nor a restart, in any order, changes what is on record while the run    *)
(* exists.                                                                 *)
RulingsStand ==
    [][\A s \in Stored :
          s \in Stored' =>
              /\ runs[s].automated_decision # None
                    => runs'[s].automated_decision = runs[s].automated_decision
              /\ runs[s].human_decision # None
                    => runs'[s].human_decision = runs[s].human_decision]_vars

(* A reversal cannot launder a blocked invoice: reevaluate_po_queue never  *)
(* approves a run that carries a finding other than the balance, or whose  *)
(* split over several orders no person confirmed.                          *)
NoLaundering ==
    [][\A s \in Stored :
          s \in Stored' /\ runs'[s].event = "AUTO_APPROVED"
              => \/ runs[s].event = "AUTO_APPROVED"
                 \/ runs[s].reasons \cap Blockers = {} /\ ~IsMulti(doc[s])]_vars

(* No order of taking the two kinds of lock leaves transactions waiting on *)
(* each other: each document ends up recorded, or lost to a restart.       *)
EverySubmissionSettles == \A s \in Submissions : <>(pc[s] \in Settled)

(* A request that starts re-evaluating a queue comes to the end of it,     *)
(* though runs join, leave and vanish while it walks.                      *)
EveryWalkEnds ==
    \A r \in Requests : cascade[r].stage # "idle" ~> cascade[r].stage = "idle"
-----------------------------------------------------------------------------
(* What makes the commit-time checks inductive: nothing is on file before  *)
(* it is inserted; the rows and keys locked by open transactions do not    *)
(* overlap; and what a transaction found under its locks stays true while  *)
(* it holds them.                                                          *)

NothingWrittenEarly == \A s \in Submissions : pc[s] # "done" => runs[s] = None

ChargesOnlyBound ==
    \A s \in Submissions : \A p \in POs \ Bound(doc[s]) : draft[s].alloc[p] = 0

RowsHeld ==
    /\ \A s \in Submissions : draft[s].rows # {} => pc[s] = "checked"
    /\ \A s \in Submissions :
          pc[s] = "checked" /\ draft[s].verdict = "APPROVED" => draft[s].rows = Bound(doc[s])
    /\ \A s, t \in Submissions : s # t => draft[s].rows \cap draft[t].rows = {}

Headroom ==
    \A s \in Submissions :
        pc[s] = "checked" /\ draft[s].verdict = "APPROVED" =>
            \A p \in draft[s].rows :
                Charged(ApprovedByPipeline, p) + draft[s].alloc[p]
                    <= POAmount[p] + tolerance_for(POAmount[p])

(* Between the balance read under a row lock and the insert, people and    *)
(* the cascade still move the balance, and another submission may hold the *)
(* row of another order; the room the reader found for itself among the    *)
(* pipeline's approvals is still there when it commits.                    *)
BudgetInv ==
    /\ NothingWrittenEarly
    /\ ChargesOnlyBound
    /\ RowsHeld
    /\ Headroom
    /\ PipelineWithinBudget

KeysHeld ==
    /\ \A s \in Submissions :
          InTransaction(s) /\ draft[s].verdict # "REJECTED" /\ doc[s].number # None
              => draft[s].key
    /\ \A s, t \in Submissions :
          s # t /\ InTransaction(s) /\ draft[s].key /\ InTransaction(t) /\ draft[t].key
              => duplicate_lock_key(doc[s]) # duplicate_lock_key(doc[t])

NoRepeatPending ==
    \A s \in Submissions : \A t \in Stored :
        InTransaction(s) /\ draft[s].verdict # "REJECTED" /\ Repeats(doc[s], doc[t])
            => runs[t].automated_decision = "REJECTED"

IdsIssued == \A s \in Stored : runs[s].id <= lastId

(* A transaction that found no earlier copy of its invoice under the       *)
(* identity lock commits before any other copy can be admitted.            *)
IdentityInv ==
    /\ NothingWrittenEarly
    /\ KeysHeld
    /\ NoRepeatPending
    /\ IdsIssued
    /\ NoDuplicateAdmitted
=============================================================================
