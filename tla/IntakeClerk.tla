---------------------------- MODULE IntakeClerk ----------------------------
(***************************************************************************)
(* What the intake of invoices promises its reader, as though one clerk    *)
(* did everything in one stroke: an invoice is filed with a verdict that   *)
(* is right at that moment, after which people (and the queue walks they   *)
(* start) may move it where they like.  InvoiceLedger, whose verdicts are  *)
(* reached outside any transaction and committed later, implements this.   *)
(***************************************************************************)
EXTENDS Integers, FiniteSets

CONSTANTS
    Invoices,          \* the invoices that may be filed
    Orders,            \* purchase orders
    MaxAmount,         \* the largest amount of an invoice
    Budget,            \* what the clerk may approve against each order
    Blank              \* not on file

VARIABLES
    cost,              \* what each invoice would charge to each order
    repeats,           \* the invoices each one repeats, when filed after them
    book               \* the verdict each was filed with, and whether it is an
                       \* approval that nobody has touched since

Verdicts == {"APPROVED", "NEEDS_REVIEW", "REJECTED", "UNREAD"}

Entry == [verdict: Verdicts, approved: BOOLEAN]

OnFile == {i \in Invoices : book[i] # Blank}

Granted == {i \in OnFile : book[i].approved}

Spent(S, p) ==
    Cardinality({u \in S \X (1..MaxAmount) : u[2] <= cost[u[1]][p]})

ClerkInit ==
    /\ cost \in [Invoices -> [Orders -> 0..MaxAmount]]
    /\ repeats \in [Invoices -> SUBSET Invoices]
    /\ book = [i \in Invoices |-> Blank]

(* Nothing but a rejection is given to a repeat of what is on file, and an *)
(* approval only to what charges one order, which still affords it.        *)
File(i, verdict) ==
    /\ i \notin OnFile
    /\ verdict # "REJECTED" =>
          \A j \in repeats[i] \cap OnFile : book[j].verdict = "REJECTED"
    /\ verdict = "APPROVED" =>
          \E p \in Orders : /\ {q \in Orders : cost[i][q] > 0} = {p}
                            /\ Spent(Granted \cup {i}, p) <= Budget[p]
    /\ book' = [book EXCEPT ![i] = [verdict |-> verdict, approved |-> verdict = "APPROVED"]]

(* Somebody moves invoices off or back onto the approved pile: from here   *)
(* on they answer for it, and the clerk's own approvals only shrink.       *)
Touch(i) ==
    /\ i \in Granted
    /\ book' = [book EXCEPT ![i].approved = FALSE]

Shred == book' = [i \in Invoices |-> Blank]

ClerkStep ==
    \/ \E i \in Invoices, verdict \in Verdicts : File(i, verdict)
    \/ \E i \in Invoices : Touch(i)
    \/ Shred

ClerkNext == ClerkStep /\ UNCHANGED <<cost, repeats>>

ClerkSpec == ClerkInit /\ [][ClerkNext]_<<cost, repeats, book>>
=============================================================================
