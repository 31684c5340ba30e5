----------------------------- MODULE ClientPortal -----------------------------
(***************************************************************************)
(* Who is let in, and which invoices a supplier's account is shown.  A     *)
(* token is a snapshot of an account; the account, its disablement, its    *)
(* roles and the suppliers it stands for are read again on each request.   *)
(* A run belongs to the client that sent it, or, sent by none, to the      *)
(* supplier its document names, as far as names are unambiguous.           *)
(***************************************************************************)
EXTENDS Integers, FiniteSets

CONSTANTS
    Users,
    Clients,
    NoClient,      \* of a run that did not come through the portal
    VendorRows,    \* the rows of `vendors`: one for each spelling
    Ids,           \* vendor_id: not a key of that table
    Names,         \* what normalize_vendor_name makes of spellings
    Unreadable,    \* the vendor of a document that names none
    MaxRuns,       \* bound: invoices that arrive
    MaxEdits       \* bound: changes to the user store, and new reference data

PortalAssumption ==
    /\ NoClient \notin Clients
    /\ Unreadable \notin Names
    /\ MaxRuns \in Nat /\ MaxEdits \in Nat

PortalScopes == {"portal:read", "portal:submit"}

(* The roles of ROLE_SCOPES that matter here.                              *)
scopes_for_roles == [client |-> PortalScopes, client_readonly |-> {"portal:read"},
                     viewer |-> {"invoice:read"}]

Accounts == [role : DOMAIN scopes_for_roles, disabled : BOOLEAN,
             client : Clients \cup {NoClient}, vendors : SUBSET Ids]

VARIABLES
    idOf, nameOf,  \* the reference data: the id and the name of each vendor row
    account,       \* the user store
    token,         \* the scopes of the token each user holds; {} with none
    runs,          \* the invoices on file: who sent them, whom they name
    page,          \* what the last request of each user was served, and as whom
    edits

vars == <<idOf, nameOf, account, token, runs, page, edits>>

Nobody == [client |-> NoClient, vendors |-> {}, runs |-> {}]

Init ==
    /\ idOf \in [VendorRows -> Ids]
    /\ nameOf \in [VendorRows -> Names]
    /\ account \in [Users -> {a \in Accounts : a.role = "client" /\ ~a.disabled
                                                /\ a.client \in Clients /\ a.vendors # {}}]
    /\ token = [u \in Users |-> {}]
    /\ runs = {}
    /\ page = [u \in Users |-> Nobody]
    /\ edits = 0

Scopes(u) == scopes_for_roles[account[u].role]

-----------------------------------------------------------------------------
(* The user store is edited by hand.                                       *)
Edit(u) ==
    /\ edits < MaxEdits
    /\ edits' = edits + 1
    /\ \E a \in Accounts : account' = [account EXCEPT ![u] = a]
    /\ UNCHANGED <<idOf, nameOf, token, runs, page>>

(* A start reloads the vendor rows from the seed as it is by then, under   *)
(* the accounts, tokens and runs of before.  Pages are of one table: what  *)
(* was served under another is not held against it.                        *)
init_db ==
    /\ edits < MaxEdits
    /\ edits' = edits + 1
    /\ idOf' \in [VendorRows -> Ids] /\ nameOf' \in [VendorRows -> Names]
    /\ page' = [u \in Users |-> Nobody]
    /\ UNCHANGED <<account, token, runs>>

(* authenticate_user and create_access_token.                              *)
SignIn(u) ==
    /\ ~account[u].disabled
    /\ token' = [token EXCEPT ![u] = Scopes(u)]
    /\ UNCHANGED <<idOf, nameOf, account, runs, page, edits>>

Expire(u) ==
    /\ token[u] # {}
    /\ token' = [token EXCEPT ![u] = {}]
    /\ UNCHANGED <<idOf, nameOf, account, runs, page, edits>>

(* The token, cut down to what the account may do now.                     *)
apply_account_state(u) == IF account[u].disabled THEN {} ELSE token[u] \cap Scopes(u)

current_principal(u, scope) == scope \in apply_account_state(u)

(* An account that is not a whole, live client stands for nobody.          *)
client_binding(u) ==
    /\ Scopes(u) \cap PortalScopes # {}
    /\ ~account[u].disabled
    /\ account[u].client # NoClient
    /\ account[u].vendors # {}

RowsOf(id) == {r \in VendorRows : idOf[r] = id}

SameName(r) == {q \in VendorRows : nameOf[q] = nameOf[r]}

(* Mutant of Unambiguous: names are not compared across rows.              *)
UnambiguousId(id) == Cardinality(RowsOf(id)) = 1

(* One row, and no other that goes by the same name.                       *)
Unambiguous(id) ==
    /\ Cardinality(RowsOf(id)) = 1
    /\ \A r \in RowsOf(id) : SameName(r) = {r}

(* The names of the rows an account's vendor ids stand for.                *)
resolve_client(u) ==
    {nameOf[r] : r \in UNION {RowsOf(id) : id \in {i \in account[u].vendors : Unambiguous(i)}}}

represents_vendor(u, name) == name \in resolve_client(u)

(* The two halves of the predicate.                                        *)
visibility_clause(u) ==
    {run \in runs : \/ run.client = account[u].client
                    \/ run.client = NoClient /\ run.name \in resolve_client(u)}

Serve(u, rs) ==
    page' = [page EXCEPT ![u] = [client |-> account[u].client,
                                 vendors |-> account[u].vendors, runs |-> rs]]

(* One invoice, or its document, is a page of one.                         *)
list_invoices(u) ==
    /\ current_principal(u, "portal:read") /\ client_binding(u)
    /\ Serve(u, visibility_clause(u))
    /\ UNCHANGED <<idOf, nameOf, account, token, runs, edits>>

NewRun(client, name, asked) ==
    [id |-> Cardinality(runs) + 1, client |-> client, name |-> name, confirm |-> asked]

(* A document that names somebody else is held for a person to confirm.    *)
(* What is served is the run as it was committed, read by the predicate.   *)
portal_submit_invoice(u) ==
    /\ current_principal(u, "portal:submit") /\ client_binding(u)
    /\ Cardinality(runs) < MaxRuns
    /\ \E name \in Names \cup {Unreadable} :
          LET run == NewRun(account[u].client, name, ~represents_vendor(u, name)) IN
          /\ runs' = runs \cup {run}
          /\ Serve(u, {run})
    /\ UNCHANGED <<idOf, nameOf, account, token, edits>>

(* An upload by an employee, or an e-mail.                                 *)
Upload ==
    /\ Cardinality(runs) < MaxRuns
    /\ \E name \in Names \cup {Unreadable} : runs' = runs \cup {NewRun(NoClient, name, FALSE)}
    /\ UNCHANGED <<idOf, nameOf, account, token, page, edits>>

Next ==
    \/ \E u \in Users :
          \/ Edit(u) \/ SignIn(u) \/ Expire(u)
          \/ list_invoices(u) \/ portal_submit_invoice(u)
    \/ Upload \/ init_db

Spec == Init /\ [][Next]_vars
-----------------------------------------------------------------------------
TypeOK ==
    /\ account \in [Users -> Accounts]
    /\ token \in [Users -> SUBSET (PortalScopes \cup {"invoice:read"})]
    /\ \A run \in runs : run.client \in Clients \cup {NoClient} /\ run.confirm \in BOOLEAN
    /\ Cardinality(runs) <= MaxRuns /\ edits \in 0 .. MaxEdits

(* Two clients that stand for no common vendor id are never shown the same *)
(* invoice under one vendor table, whatever names collide in it, whoever   *)
(* sends a document in another's name, and however accounts are changed    *)
(* and the table was replaced before.                                      *)
ClientsAreIsolated ==
    \A u, v \in Users :
        /\ page[u].client # page[v].client
        /\ page[u].vendors \cap page[v].vendors = {}
        => page[u].runs \cap page[v].runs = {}
=============================================================================
