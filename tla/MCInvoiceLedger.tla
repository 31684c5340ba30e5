-------------------------- MODULE MCInvoiceLedger --------------------------
(***************************************************************************)
(* Small instances of InvoiceLedger, with the clerk it implements.         *)
(***************************************************************************)
EXTENDS LedgerClerk, TLC

CONSTANTS p1, p2

OneAmount == (p1 :> 4)
TwoAmounts == (p1 :> 4 @@ p2 :> 2)

Symmetry == Permutations(Submissions)

Plain(number, vendor, amount, order) ==
    [number |-> number, vendor |-> vendor, total |-> amount, converted |-> amount,
     primary |-> order, secondary |-> None, findings |-> {},
     foreign |-> FALSE, readable |-> TRUE, stranger |-> FALSE]

Unreadable == [Plain(None, None, 1, None) EXCEPT !.readable = FALSE]

(* Invoices for one order of which any two can be paid and all cannot, and *)
(* a copy from a vendor nobody could read.                                 *)
IntakeDocuments ==
    {Plain("n1", "v1", 3, p1),
     Plain("n2", "v1", 2, p1),
     Plain("n3", "v1", 1, p1),
     [Plain("n1", None, 3, p1) EXCEPT !.findings = {"unconfirmed"}]}

(* One document of every kind the rules tell apart; a portal client's, in  *)
(* another's name, shares number and total with the first.                 *)
MixedDocuments ==
    {Plain("n1", "v1", 3, p1),
     [Plain("n1", "v2", 3, p1) EXCEPT !.stranger = TRUE],
     Plain("n2", "v1", 4, None),
     Plain(None, "v1", 2, p1),
     Unreadable,
     [Plain("n3", "v1", 2, p1) EXCEPT !.findings = {"refused"}],
     [Plain("n4", "v1", 2, p1) EXCEPT !.findings = {"substantive"}],
     [Plain("n5", "v1", 5, p1) EXCEPT !.secondary = p2],
     [Plain("n6", "v1", 2, p1) EXCEPT !.foreign = TRUE, !.converted = 4],
     [Plain("n7", "v1", 4, p1) EXCEPT !.foreign = TRUE, !.converted = 2]}

(* Two that fit their order alone, one of them held to be confirmed.       *)
UnconfirmedDocuments ==
    {Plain("n1", "v1", 3, p1), [Plain("n2", "v1", 3, p1) EXCEPT !.findings = {"unconfirmed"}]}
=============================================================================
