----------------------------- MODULE LedgerClerk -----------------------------
(***************************************************************************)
(* The refinement mapping under which InvoiceLedger implements IntakeClerk:*)
(* the clerk's book is read off the runs on file.                          *)
(***************************************************************************)
EXTENDS InvoiceLedger

(* The clerk's book as the ledger keeps it.                                *)
ClerkEntry(s) ==
    [verdict  |-> IF doc[s].readable THEN runs[s].automated_decision ELSE "UNREAD",
     approved |-> s \in ApprovedByPipeline]

ClerkBook == [s \in Submissions |-> IF s \in Stored THEN ClerkEntry(s) ELSE None]

ClerkBudget == [p \in POs |-> POAmount[p] + tolerance_for(POAmount[p])]

ClerkCost ==
    [s \in Submissions |->
        [p \in POs |-> IF p \in Bound(doc[s]) THEN doc[s].converted ELSE 0]]

ClerkRepeats == [s \in Submissions |-> {t \in Submissions : Repeats(doc[s], doc[t])}]

Clerk == INSTANCE IntakeClerk WITH
             Invoices <- Submissions, Orders <- POs, MaxAmount <- MaxCharge,
             Budget <- ClerkBudget, Blank <- None,
             cost <- ClerkCost, repeats <- ClerkRepeats, book <- ClerkBook

(* SQL NULL is no entry of the book.                                       *)
ASSUME BlankAssumption == None \notin Clerk!Entry

(* run_pipeline and save_run_checked implement the clerk: though a verdict *)
(* is reached long before it commits, each run on file is one the clerk    *)
(* could have written at the instant of the commit.                        *)
ImplementsClerk == Clerk!ClerkSpec
=============================================================================
