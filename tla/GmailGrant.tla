------------------------------ MODULE GmailGrant ------------------------------
(***************************************************************************)
(* The OAuth connection to a mailbox: an administrator is sent to Google   *)
(* with a single-use state, the callback exchanges the code it brings for  *)
(* a grant and stores it, pollers renew its access token, and the          *)
(* connection may be revoked at Google or disconnected here.  Every call   *)
(* of Google takes its time outside any transaction.  A grant is named by  *)
(* the state it was authorised under; a token is named by its grant.       *)
(***************************************************************************)
EXTENDS Integers, FiniteSets

CONSTANTS
    States,        \* the authorisations that are started
    Threads,       \* pollers and requests that want an access token
    NoGrant,
    MaxFailures    \* bound: calls of Google, or of the database, that fail

GrantAssumption == NoGrant \notin States /\ MaxFailures \in Nat

NoRow == [status |-> "none", refresh |-> NoGrant, access |-> NoGrant, fresh |-> FALSE]

VARIABLES
    live,          \* the grants Google honours
    disowned,      \* those a renewal failed for good, for a reason other than their end
    pending,       \* oauth_pending_authorizations
    callback,      \* where the callback that brought each state is
    exchanges,     \* how often the code of each state was exchanged
    row,           \* email_oauth_connections
    thread,        \* who is renewing, what row they read and what Google said
    leaving,       \* the disconnect under way, and the grant it read
    crossed,       \* a mailbox was connected while a renewal was under way
    failures

vars == <<live, disowned, pending, callback, exchanges, row, thread, leaving, crossed,
          failures>>

Resting == [pc |-> "idle", seen |-> NoRow]

Staying == [pc |-> "no", grant |-> NoGrant]

Init ==
    /\ live = {} /\ disowned = {}
    /\ pending = [s \in States |-> "none"]
    /\ callback = [s \in States |-> "none"]
    /\ exchanges = [s \in States |-> 0]
    /\ row = NoRow
    /\ thread = [t \in Threads |-> Resting]
    /\ leaving = Staying
    /\ crossed = FALSE
    /\ failures = 0

Connected == row.status # "none"

Fails == failures < MaxFailures /\ failures' = failures + 1

Works == UNCHANGED failures

-----------------------------------------------------------------------------
gmail_oauth_authorize(s) ==
    /\ pending[s] = "none"
    /\ pending' = [pending EXCEPT ![s] = "open"]
    /\ UNCHANGED <<live, disowned, callback, exchanges, row, thread, leaving, crossed, failures>>

Expire(s) ==
    /\ pending[s] = "open"
    /\ pending' = [pending EXCEPT ![s] = "expired"]
    /\ UNCHANGED <<live, disowned, callback, exchanges, row, thread, leaving, crossed, failures>>

MayConsume(s) == pending[s] = "open"

(* Read and stamped under one row lock.                                    *)
consume_pending_authorization(s) ==
    /\ MayConsume(s)
    /\ callback[s] \in {"none", "done"}
    /\ pending' = [pending EXCEPT ![s] = "consumed"]
    /\ callback' = [callback EXCEPT ![s] = "exchange"]
    /\ UNCHANGED <<live, disowned, exchanges, row, thread, leaving, crossed, failures>>

(* No grant; one that lacks the scope or a refresh token and is handed     *)
(* back, if Google can be reached; or one to be stored.                    *)
exchange_code(s) ==
    /\ callback[s] = "exchange"
    /\ exchanges' = [exchanges EXCEPT ![s] = @ + 1]
    /\ \/ /\ callback' = [callback EXCEPT ![s] = "done"]
          /\ \/ Works /\ UNCHANGED live
             \/ Fails /\ live' = live \cup {s}
       \/ /\ callback' = [callback EXCEPT ![s] = "save"]
          /\ live' = live \cup {s}
          /\ Works
    /\ UNCHANGED <<disowned, pending, row, thread, leaving, crossed>>

(* Mutant of NewRow: an access token on file is kept.                      *)
NewRowKeepsAccess(s) ==
    [status |-> "CONNECTED", refresh |-> s,
     access |-> IF row.access = NoGrant THEN s ELSE row.access, fresh |-> TRUE]

NewRow(s) == [status |-> "CONNECTED", refresh |-> s, access |-> s, fresh |-> TRUE]

(* The row is replaced; when it cannot be written the grant goes back.     *)
save_oauth_connection(s) ==
    /\ callback[s] = "save"
    /\ callback' = [callback EXCEPT ![s] = "done"]
    /\ \/ /\ row' = NewRow(s)
          /\ crossed' = (crossed \/ \E t \in Threads : thread[t].pc # "idle")
          /\ Works /\ UNCHANGED live
       \/ Fails /\ live' = live \ {s} /\ UNCHANGED <<row, crossed>>
    /\ UNCHANGED <<disowned, pending, exchanges, thread, leaving>>

-----------------------------------------------------------------------------
TokenExpires ==
    /\ row.fresh
    /\ row' = [row EXCEPT !.fresh = FALSE]
    /\ UNCHANGED <<live, disowned, pending, callback, exchanges, thread, leaving, crossed, failures>>

(* Google refuses a token that has not run out: http_401, once.            *)
clear_oauth_access_token ==
    /\ Connected /\ row.access # NoGrant
    /\ row' = [row EXCEPT !.access = NoGrant, !.fresh = FALSE]
    /\ UNCHANGED <<live, disowned, pending, callback, exchanges, thread, leaving, crossed, failures>>

(* gmail_access_token reads the row, and asks for a token if its own is    *)
(* not to be used; or its own cannot be decrypted, which ends it there.    *)
StartRefresh(t) ==
    /\ thread[t].pc = "idle"
    /\ Connected /\ row.status # "REVOKED"
    /\ \/ /\ ~row.fresh /\ Works
          /\ thread' = [thread EXCEPT ![t] = [pc |-> "asked", seen |-> row]]
          /\ UNCHANGED disowned
       \/ /\ row.fresh /\ Fails
          /\ thread' = [thread EXCEPT ![t] = [pc |-> "refused", seen |-> row]]
          /\ disowned' = disowned \cup {row.refresh}
    /\ UNCHANGED <<live, pending, callback, exchanges, row, leaving, crossed>>

(* invalid_grant is the end of the grant.  The client that is not known,   *)
(* the refresh token that is missing or cannot be decrypted and the reply  *)
(* without a token end the connection as well: each is terminal, and the   *)
(* grant may be as live as before.                                         *)
refresh_access_token(t) ==
    LET g == thread[t].seen.refresh
        Answer(pc) == thread' = [thread EXCEPT ![t].pc = pc]
    IN
    /\ thread[t].pc = "asked"
    /\ \/ /\ Works /\ UNCHANGED disowned
          /\ Answer(IF g \in live THEN "granted" ELSE "gone")
       \/ Fails /\ Answer("unreachable") /\ UNCHANGED disowned
       \/ Fails /\ Answer("refused") /\ disowned' = disowned \cup {g}
    /\ UNCHANGED <<live, pending, callback, exchanges, row, leaving, crossed>>

(* Mutant of Written: the tokens are put on file whether or not there is a *)
(* row.                                                                    *)
WrittenAnyway(r) == r

(* UPDATE ... WHERE provider: with no row there is nothing to update, and  *)
(* whose row it is by now is not asked.                                    *)
Written(r) == IF Connected THEN r ELSE NoRow

(* Google may send a new refresh token along; if not, the stored one stays. *)
update_oauth_tokens(t) ==
    LET g == thread[t].seen.refresh IN
    /\ thread[t].pc = "granted"
    /\ \E refresh \in {row.refresh, g} :
          row' = Written([status |-> "CONNECTED", refresh |-> refresh, access |-> g,
                          fresh |-> TRUE])
    /\ thread' = [thread EXCEPT ![t] = Resting]
    /\ UNCHANGED <<live, disowned, pending, callback, exchanges, leaving, crossed, failures>>

(* A terminal failure, or one to be tried again: then the status that was  *)
(* read is written back.                                                   *)
StatusAfter(t) == IF thread[t].pc = "unreachable" THEN thread[t].seen.status ELSE "REVOKED"

set_oauth_status(t) ==
    /\ thread[t].pc \in {"gone", "refused", "unreachable"}
    /\ row' = Written([row EXCEPT !.status = StatusAfter(t)])
    /\ thread' = [thread EXCEPT ![t] = Resting]
    /\ UNCHANGED <<live, disowned, pending, callback, exchanges, leaving, crossed, failures>>

-----------------------------------------------------------------------------
(* gmail_oauth_disconnect: read, revoke at Google, delete what is there.   *)
StartDisconnect ==
    /\ leaving.pc = "no" /\ Connected
    /\ leaving' = [pc |-> "revoke", grant |-> row.refresh]
    /\ UNCHANGED <<live, disowned, pending, callback, exchanges, row, thread, crossed, failures>>

revoke ==
    /\ leaving.pc = "revoke"
    /\ \/ Works /\ live' = live \ {leaving.grant}
       \/ Fails /\ UNCHANGED live
    /\ leaving' = [leaving EXCEPT !.pc = "delete"]
    /\ UNCHANGED <<disowned, pending, callback, exchanges, row, thread, crossed>>

delete_oauth_connection ==
    /\ leaving.pc = "delete"
    /\ row' = NoRow
    /\ leaving' = Staying
    /\ UNCHANGED <<live, disowned, pending, callback, exchanges, thread, crossed, failures>>

(* The account's owner, or Google, ends a grant.                           *)
RevokedAtGoogle(g) ==
    /\ g \in live
    /\ live' = live \ {g}
    /\ UNCHANGED <<disowned, pending, callback, exchanges, row, thread, leaving, crossed, failures>>

Renew(t) ==
    \/ StartRefresh(t) \/ refresh_access_token(t)
    \/ update_oauth_tokens(t) \/ set_oauth_status(t)

Next ==
    \/ \E s \in States :
          \/ gmail_oauth_authorize(s) \/ Expire(s) \/ consume_pending_authorization(s)
          \/ exchange_code(s) \/ save_oauth_connection(s) \/ RevokedAtGoogle(s)
    \/ TokenExpires \/ clear_oauth_access_token
    \/ \E t \in Threads : Renew(t)
    \/ StartDisconnect \/ revoke \/ delete_oauth_connection

Spec == Init /\ [][Next]_vars
-----------------------------------------------------------------------------
TypeOK ==
    /\ live \subseteq States /\ disowned \subseteq States
    /\ pending \in [States -> {"none", "open", "expired", "consumed"}]
    /\ callback \in [States -> {"none", "exchange", "save", "done"}]
    /\ exchanges \in [States -> Nat]
    /\ row.status \in {"none", "CONNECTED", "REVOKED"}
    /\ {row.refresh, row.access} \subseteq States \cup {NoGrant}
    /\ \A t \in Threads :
          thread[t].pc \in {"idle", "asked", "granted", "gone", "refused", "unreachable"}
    /\ leaving.pc \in {"no", "revoke", "delete"}
    /\ failures \in 0 .. MaxFailures

(* The access token on file is of the grant on file, unless somebody was   *)
(* renewing the token of an older connection when this one was made.       *)
TokensOfOneGrant ==
    row.access \in {NoGrant, row.refresh} \/ crossed

(* A mailbox shown as revoked is one whose own grant has ended or could    *)
(* not be renewed for good, with the same exception: neither a failure to  *)
(* reach Google nor an answer about another grant costs the connection.    *)
RevokedForGood ==
    row.status = "REVOKED" => row.refresh \notin live \/ row.refresh \in disowned \/ crossed

(* A disconnected mailbox stays so, whatever answers are still to come,    *)
(* until a callback stores a new grant.                                    *)
DisconnectedStays ==
    [][~Connected /\ Connected' => \E s \in States : callback[s] = "save" /\ row'.refresh = s]_vars
=============================================================================
