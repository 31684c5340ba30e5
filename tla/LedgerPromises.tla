--------------------------- MODULE LedgerPromises ---------------------------
(***************************************************************************)
(* What the comments of the code say of the balance cascade and its races, *)
(* each as a property of InvoiceLedger.  None of them holds: the instances *)
(* that follow are the smallest in which the code does otherwise.          *)
(***************************************************************************)
EXTENDS MCInvoiceLedger

(* A request decides to release the run at the head of its queue.          *)
Releases(r) == cascade[r].stage = "checking" /\ cascade'[r].stage = "applying"

(* reevaluate_po_queue: "Only invoices held *purely* on balance are        *)
(* eligible."  Its filter only counts reasons of level "fail", so a run    *)
(* held on a warning is released, and so is one that has no reason at all: *)
(* the very run an administrator has just taken back.                      *)
OnlyBalanceHoldsReleased ==
    [][\A r \in Requests : Releases(r) => runs[Current(r)].reasons = {"balance"}]_vars

(* write_txn: the balance check and the write that consumes the balance    *)
(* happen in one atomic unit, "so two invoices for the same PO cannot both *)
(* read the same remaining balance and both approve".  Human approvals and *)
(* overrides are left out of the sum: they may overspend.                  *)
AutomaticApprovalsWithinBudget ==
    LET automatic == {s \in ApprovedRuns :
                         runs[s].event \in {"PROCESSING_COMPLETED", "AUTO_APPROVED"}}
    IN  \A p \in POs :
            Charged(automatic, p) <= POAmount[p] + tolerance_for(POAmount[p])

(* init_db: a run without an automated decision gets "the status they were *)
(* committed with.  That is exactly what it was."  A file nobody could read*)
(* is committed as NEEDS_REVIEW and without one; what it is given at the   *)
(* next start is whatever people have made of its status by then.          *)
BackfillIsWhatItWas ==
    \A s \in Stored :
        ~doc[s].readable => runs[s].automated_decision \in {None, "NEEDS_REVIEW"}

UnreadableDocuments == {Unreadable}

TwoInvoices == {Plain("n1", "v1", 3, p1), Plain("n2", "v1", 3, p1)}
=============================================================================
