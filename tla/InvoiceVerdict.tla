---------------------------- MODULE InvoiceVerdict ----------------------------
(***************************************************************************)
(* What the rules make of one invoice: the checks of rules.py, the match   *)
(* with purchase orders of matching.py, and the verdict with the trail     *)
(* that explains it.  All of it reads and none of it writes: the one       *)
(* action judges some invoice against orders as they stand.                *)
(***************************************************************************)
EXTENDS Integers, Sequences, FiniteSets, SequencesExt

CONSTANTS
    Invoices,           \* what extraction may hand over
    Orders,             \* purchase orders on file, by number
    VendorRows,         \* the vendor list: records of a name and a status
    Rates,              \* FX_RATES, in units that make them integers
    Divisor, Floor,     \* the tolerance: a fraction, and at least an amount
    Slack,              \* ARITHMETIC_TOLERANCE_DOLLARS
    None

REQUIRED_FIELDS == {"vendor", "number", "total"}

VARIABLES invoice, match, failed, grounds, status
(* failed: the named checks that the audit trail records as not passed.    *)
(* grounds: why the invoice is held or rejected, by decide()'s two flags.  *)

vars == <<invoice, match, failed, grounds, status>>

(* Figures that no column holds were refused by extraction.                *)
Figure(x) == x # None

-----------------------------------------------------------------------------
(* The checks that need no purchase order.                                 *)

validate_required_fields(v) == {f \in REQUIRED_FIELDS : v[f] = None}

validate_confidence(v) == {f \in v.unsure \cap REQUIRED_FIELDS : v[f] # None}

validate_amount(v) == Figure(v.total) /\ v.total <= 0

Distance(a, b) == IF a >= b THEN a - b ELSE b - a

validate_arithmetic(v) ==
    /\ Figure(v.subtotal) /\ Figure(v.tax) /\ Figure(v.total)
    /\ Distance(v.total, v.subtotal + v.tax) > Slack

vendor_check(v) ==
    LET named == {w \in VendorRows : w.name = v.vendor}
    IN  IF v.vendor = None \/ Cardinality(named) > 1 THEN "unknown"
        ELSE IF \E w \in named : w.status = "approved" THEN "approved" ELSE "refused"

looks_like_an_invoice(v) ==
    v.vendor # None \/ v.number # None \/ v.total \notin {None, 0} \/ v.refs # <<>> \/ v.lines # <<>>

is_not_an_invoice(v) ==
    v.route \in {"groq-text", "gemini-vision"} /\ ~looks_like_an_invoice(v)

-----------------------------------------------------------------------------
(* The purchase orders an invoice is charged to.                           *)

Larger(a, b)  == IF a >= b THEN a ELSE b
Smaller(a, b) == IF a <= b THEN a ELSE b

tolerance_for(amount) == Larger(amount \div Divisor, Floor)

remaining_before(p) == Orders[p].amount - Orders[p].consumed

(* References that resolve, each order once and in the invoice's order.    *)
Referenced(v) ==
    LET seen[i \in 0 .. Len(v.refs)] ==
            IF i = 0 THEN <<>>
            ELSE IF v.refs[i] \in DOMAIN Orders \ ToSet(seen[i-1])
            THEN Append(seen[i-1], v.refs[i]) ELSE seen[i-1]
    IN  seen[Len(v.refs)]

(* Orders of the vendor that are close to the total.                       *)
Near(v) ==
    {p \in DOMAIN Orders :
        /\ Orders[p].vendor = v.vendor
        /\ Distance(Orders[p].amount, v.total) <= tolerance_for(Orders[p].amount)}

Inferable(v) ==
    /\ Figure(v.total) /\ v.total # 0
    /\ Cardinality({w \in VendorRows : w.name = v.vendor}) = 1

Bound(v) ==
    IF Referenced(v) # <<>> THEN Referenced(v)
    ELSE IF Inferable(v) /\ Cardinality(Near(v)) = 1 THEN <<CHOOSE p \in Near(v) : TRUE>>
    ELSE <<>>

(* At the pinned rates, rounded to the nearest unit.                       *)
fx_convert(amount, from, to) ==
    IF from = to THEN amount
    ELSE (2 * amount * Rates[from] + Rates[to]) \div (2 * Rates[to])

SumOf(figures) ==
    LET sum[i \in 0 .. Len(figures)] == IF i = 0 THEN 0 ELSE sum[i-1] + figures[i]
    IN  sum[Len(figures)]

(* Every order is filled to its balance before the next is touched, and    *)
(* the last takes what is left.                                            *)
split_across(ps, total) ==
    LET left[i \in 0 .. Len(ps)] ==
            IF i = 0 THEN total
            ELSE IF i = Len(ps) THEN 0
            ELSE left[i-1] - Smaller(left[i-1], Larger(0, remaining_before(ps[i])))
    IN  [i \in 1 .. Len(ps) |-> left[i-1] - left[i]]

NoMatch == [orders |-> <<>>, charged |-> 0, amounts |-> <<>>, remaining |-> 0, tolerance |-> 0,
            inferred |-> FALSE, foreign |-> FALSE, converts |-> FALSE, suspected |-> FALSE]

match_po(v) ==
    LET ps         == Bound(v)
        total      == IF Figure(v.total) THEN v.total ELSE 0
        remaining  == SumOf([i \in DOMAIN ps |-> remaining_before(ps[i])])
        whole      == SumOf([i \in DOMAIN ps |-> Orders[ps[i]].amount])
        currencies == {Orders[p].currency : p \in ToSet(ps)} \ {None}
        foreign    == v.currency # None /\ currencies \ {v.currency} # {}
        converts   == /\ foreign /\ Cardinality(currencies) = 1
                      /\ currencies \cup {v.currency} \subseteq DOMAIN Rates
        charged    == IF converts THEN fx_convert(total, v.currency, CHOOSE c \in currencies : TRUE)
                                  ELSE total
    IN  IF ps = <<>> THEN NoMatch
        ELSE [orders    |-> ps,
              charged   |-> charged,
              amounts   |-> split_across(ps, charged),
              remaining |-> remaining,
              tolerance |-> tolerance_for(IF remaining > 0 THEN remaining ELSE whole),
              inferred  |-> Referenced(v) = <<>>,
              foreign   |-> foreign,
              converts  |-> converts,
              suspected |-> foreign /\ total \in {whole, remaining}]

within_tolerance(m) == m.charged - m.remaining <= m.tolerance

-----------------------------------------------------------------------------
(* Line items: the n-th line billed of an item answers to the n-th line    *)
(* ordered of it, over all the orders the invoice is charged to.           *)

Ordered(m) ==
    LET lines[i \in 0 .. Len(m.orders)] ==
            IF i = 0 THEN <<>> ELSE lines[i-1] \o Orders[m.orders[i]].lines
    IN  lines[Len(m.orders)]

OfItem(lines, item) == {i \in DOMAIN lines : lines[i].item = item}

(* How many lines, up to the i-th, are of its item.                        *)
Occurrence(lines, i) == Cardinality({j \in OfItem(lines, lines[i].item) : j <= i})

Answering(lines, i, order) ==
    {j \in OfItem(order, lines[i].item) : Occurrence(order, j) = Occurrence(lines, i)}

Differ(a, b) == Figure(a) /\ Figure(b) /\ a # b

line_total(l) ==
    Figure(l.quantity) /\ Figure(l.price) /\ Figure(l.amount) /\ l.quantity * l.price # l.amount

Disagrees(lines, i, order) ==
    \/ Answering(lines, i, order) = {}
    \/ \E j \in Answering(lines, i, order) :
          \/ Differ(lines[i].quantity, order[j].quantity)
          \/ Differ(lines[i].price, order[j].price)
          \/ Differ(lines[i].amount, order[j].amount)

line_item_check(v, m) ==
    \E i \in DOMAIN v.lines :
        \/ line_total(v.lines[i])
        \/ Ordered(m) # <<>> /\ Disagrees(v.lines, i, Ordered(m))

-----------------------------------------------------------------------------
(* decide(): what rejects, what holds, and what the trail says of it.      *)

Closed(m)     == \E p \in ToSet(m.orders) : Orders[p].status = "closed"
Matched(m)    == m.orders # <<>>
fx_resolved(m) == m.foreign /\ m.converts /\ within_tolerance(m) /\ ~m.suspected

Rejecting(v, m) ==
    {g \in {"security", "not an invoice", "duplicate", "vendor", "figure reused"} :
        \/ g = "security" /\ v.flagged
        \/ g = "not an invoice" /\ is_not_an_invoice(v)
        \/ g = "duplicate" /\ v.duplicate
        \/ g = "vendor" /\ vendor_check(v) = "refused"
        \/ g = "figure reused" /\ m.suspected}

Holding(v, m) ==
    {g \in {"unreadable", "fields", "confidence", "amount", "arithmetic", "vendor unknown", "unmatched",
            "split", "closed", "currency", "inferred", "balance", "lines"} :
        \/ g = "unreadable" /\ v.route = "none"
        \/ g = "fields" /\ validate_required_fields(v) # {}
        \/ g = "confidence" /\ validate_confidence(v) # {}
        \/ g = "amount" /\ validate_amount(v)
        \/ g = "arithmetic" /\ validate_arithmetic(v)
        \/ g = "vendor unknown" /\ vendor_check(v) = "unknown"
        \/ g = "unmatched" /\ ~Matched(m)
        \/ g = "split" /\ Len(m.orders) > 1
        \/ g = "closed" /\ Closed(m)
        \/ g = "currency" /\ m.foreign /\ ~m.suspected /\ ~fx_resolved(m)
        \/ g = "inferred" /\ m.inferred
        \/ g = "balance" /\ Matched(m) /\ ~within_tolerance(m)
        \/ g = "lines" /\ line_item_check(v, m)}

(* The checks on record, each beside the branch it describes.              *)
Checks(v, m) ==
    {c \in {"Security screen", "Document readable", "Document is an invoice", "Required fields present",
            "Extraction confidence", "Invoice amount valid", "Invoice arithmetic", "Duplicate check",
            "Vendor approved", "PO matched", "Invoice-to-PO split stated", "Currency match",
            "Currency/amount not reused across currencies", "PO remaining check",
            "Line items match the PO"} :
        \/ c = "Security screen" /\ v.flagged
        \/ c = "Document readable" /\ v.route = "none"
        \/ c = "Document is an invoice" /\ is_not_an_invoice(v)
        \/ c = "Required fields present" /\ validate_required_fields(v) # {}
        \/ c = "Extraction confidence" /\ validate_confidence(v) # {}
        \/ c = "Invoice amount valid" /\ validate_amount(v)
        \/ c = "Invoice arithmetic" /\ validate_arithmetic(v)
        \/ c = "Duplicate check" /\ v.duplicate
        \/ c = "Vendor approved" /\ vendor_check(v) # "approved"
        \/ c = "PO matched" /\ ~Matched(m)
        \/ c = "Invoice-to-PO split stated" /\ Len(m.orders) > 1
        \/ c = "Currency match" /\ m.foreign /\ ~fx_resolved(m)
        \/ c = "Currency/amount not reused across currencies" /\ m.suspected
        \/ c = "PO remaining check" /\ Matched(m) /\ ~within_tolerance(m)
        \/ c = "Line items match the PO" /\ line_item_check(v, m)}

(* Mutant of Verdict: the flag `review` is lost.                           *)
VerdictOfRejections(rejecting, holding) ==
    IF rejecting # {} THEN "REJECTED" ELSE "APPROVED"

Verdict(rejecting, holding) ==
    IF rejecting # {} THEN "REJECTED" ELSE IF holding # {} THEN "NEEDS_REVIEW" ELSE "APPROVED"

NoInvoice == [route |-> "none"]

(* Amounts are whole units, orders charged more than they were for         *)
(* included, and references and lines come in the document's order.        *)
VerdictAssumption ==
    /\ None \notin Int /\ Divisor \in Nat \ {0} /\ Floor \in Nat
    /\ \A c \in DOMAIN Rates : Rates[c] \in Nat \ {0}
    /\ \A p \in DOMAIN Orders :
          /\ Orders[p].amount \in Int /\ Orders[p].consumed \in Int
          /\ Orders[p].lines \in Seq(ToSet(Orders[p].lines))
    /\ \A v \in Invoices :
          /\ v.total \in Int \cup {None}
          /\ v.refs \in Seq(ToSet(v.refs)) /\ v.lines \in Seq(ToSet(v.lines))
    /\ NoInvoice \notin Invoices

Init == invoice = NoInvoice /\ match = NoMatch /\ failed = {} /\ grounds = {} /\ status = "NEEDS_REVIEW"

decide ==
    /\ invoice = NoInvoice
    /\ \E v \in Invoices : invoice' = v
    /\ match' = match_po(invoice')
    /\ failed' = Checks(invoice', match')
    /\ grounds' = Rejecting(invoice', match') \cup Holding(invoice', match')
    /\ status' = Verdict(Rejecting(invoice', match'), Holding(invoice', match'))

Next == decide

Spec == Init /\ [][Next]_vars
-----------------------------------------------------------------------------
TypeOK ==
    /\ invoice \in Invoices \cup {NoInvoice}
    /\ match.orders \in Seq(DOMAIN Orders) /\ match.amounts \in Seq(Int)
    /\ status \in {"APPROVED", "NEEDS_REVIEW", "REJECTED"}

(* rules.py: "a trail assembled by re-running the logic is a trail that    *)
(* can disagree with the decision it claims to explain".  The trail never  *)
(* disagrees with the verdict: no failed check beside an approval, and     *)
(* behind anything else one that failed, except where all that holds it is *)
(* a closed order or an inferred one, which decide() records no check for. *)
TrailExplainsVerdict ==
    invoice # NoInvoice =>
        /\ status = "APPROVED" => failed = {}
        /\ failed = {} => grounds \subseteq {"closed", "inferred"}

(* What is charged is the invoice's whole total, no order but the last     *)
(* filled past its balance; and what is approved is charged to one open    *)
(* order that the invoice names, in that order's currency, within what     *)
(* remains and its tolerance, with no more lines of an item than ordered.  *)
(* It is something, unless conversion rounds it to nothing.                *)
ChargesFit ==
    /\ SumOf(match.amounts) = match.charged
    /\ \A i \in 1 .. Len(match.amounts) - 1 :
          match.amounts[i] <= Larger(0, remaining_before(match.orders[i]))
    /\ status = "APPROVED" =>
          /\ Len(match.orders) = 1 /\ Orders[match.orders[1]].status # "closed"
          /\ ToSet(match.orders) \subseteq ToSet(invoice.refs)
          /\ match.charged \in (IF match.converts THEN 0 ELSE 1) .. match.remaining + match.tolerance
          /\ match.foreign => match.converts
          /\ Ordered(match) # <<>> => \A l \in ToSet(invoice.lines) :
                Cardinality(OfItem(invoice.lines, l.item)) <= Cardinality(OfItem(Ordered(match), l.item))
=============================================================================
