----------------------------- MODULE MCSafeguards -----------------------------
(* Small instances of the parts around the ledger.                         *)
EXTENDS Safeguards, TLC

(* Two callers by address, who sign in as one user.                        *)
MCAsks  == {<<"a1", "u1">>, <<"a2", "u1">>}
MCLimit == "a1" :> 1 @@ "a2" :> 1 @@ "u1" :> 2

(* A page may show nothing, all that is required, too little, or more.     *)
MCReadings ==
    {{}, {"other"}, {"vendor_name", "invoice_number", "total"},
     {"vendor_name", "invoice_number", "total", "parts"}, {"vendor_name", "invoice_number", "parts"}}

(* An open order partly spent, a closed one in another currency, and one   *)
(* overspent of a vendor that two rows disagree about.                     *)
Line(item, quantity, price, amount) ==
    [item |-> item, quantity |-> quantity, price |-> price, amount |-> amount]

MCOrders ==
    "p1" :> [vendor |-> "v1", amount |-> 12, consumed |-> 4, status |-> "open", currency |-> "USD",
             lines |-> <<Line("i", 2, 3, 6), Line("i", 1, 2, 2)>>]
    @@ "p2" :> [vendor |-> "v1", amount |-> 6, consumed |-> 6, status |-> "closed", currency |-> "EUR",
                lines |-> <<>>]
    @@ "p3" :> [vendor |-> "v2", amount |-> 10, consumed |-> 11, status |-> "open", currency |-> None,
                lines |-> <<>>]

MCVendors == {[name |-> "v1", status |-> "approved"], [name |-> "v2", status |-> "approved"],
              [name |-> "v2", status |-> "blocked"], [name |-> "v3", status |-> "blocked"]}

MCInvoices ==
    [route : {"none", "groq-text", "regex"}, flagged : {FALSE}, vendor : {None, "v1", "v2", "v3"},
     number : {"n"}, unsure : {{}, {"total"}}, total : {None, -1, 0, 6, 9, 12}, subtotal : {None, 6},
     tax : {0}, refs : {<<>>, <<"p1">>, <<"p2">>, <<"p1", "zz", "p2", "p1">>, <<"p3">>},
     currency : {None, "USD", "EUR", "INR"},
     lines : {<<>>, <<Line("i", 2, 3, 6)>>, <<Line("i", 2, 3, 6), Line("i", 1, 2, 3)>>,
              <<Line("j", None, None, 4)>>},
     duplicate : {FALSE}]

(* Signatures that verify, for the sender, for another, or not, or that    *)
(* nobody can check; results stamped by us, by others, or by two of ours.  *)
Sig(intact, key, domain) ==
    [supported |-> TRUE, expired |-> FALSE, intact |-> intact, key |-> key, verifies |-> TRUE,
     domain |-> domain]

Says(server, mechanism, word) ==
    [server |-> server, says |-> mechanism :> [word |-> word, domain |-> None]]

MCMessages ==
    [froms : {1, 2}, address : {"a"}, domain : {"shop"}, envelope : {"esp", "shop"},
     signatures : {<<>>, <<Sig(TRUE, "found", "mail.shop")>>, <<Sig(TRUE, "found", "esp")>>,
                   <<Sig(TRUE, "missing", "shop")>>,
                   <<Sig(FALSE, "found", "shop"), Sig(TRUE, "found", "shop")>>},
     results : {<<>>, <<Says("theirs", "dmarc", "pass")>>, <<Says("ours", "spf", "pass")>>,
                <<Says("ours", "dmarc", "pass"), Says("ours", "dmarc", "fail")>>,
                <<Says("ours", "spf", "softfail")>>},
     pdf : BOOLEAN, subject : {FALSE}]

Listed(kind, sender_, status_) == [kind |-> kind, sender |-> sender_, status |-> status_]

MCLists == {<<>>, <<Listed("address", "a", "blocked"), Listed("domain", "shop", "trusted")>>,
            <<Listed("domain", "esp", "trusted")>>}

MCOrganisation == "shop" :> "shop" @@ "mail.shop" :> "shop" @@ "esp" :> "esp"

MCRates == "USD" :> 2 @@ "EUR" :> 3

MCTextModels   == <<"g1", "g2">>
MCVisionModels == <<"v1", "v2">>

(* To start with, each account stands for a client and a vendor of its own. *)
Owner == CHOOSE f \in [Users -> Clients \X Ids] :
             \A u, v \in Users : u # v => f[u][1] # f[v][1] /\ f[u][2] # f[v][2]

MCAccounts == {[u \in Users |-> [role |-> "client", disabled |-> FALSE,
                                client |-> Owner[u][1], vendors |-> {Owner[u][2]}]]}

=============================================================================
