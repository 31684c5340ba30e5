----------------------------- MODULE GmailCursor -----------------------------
(***************************************************************************)
(* Reading a Gmail mailbox that may not be written to: a high-water mark   *)
(* over the date Google gives each message is kept in                      *)
(* email_oauth_connections, and a poll lists what came since, less an      *)
(* overlap.  The list comes newest first and is cut at a number of pages;  *)
(* what is not yet on file is fetched, oldest first, and handled in order. *)
(* Several pollers may be at it.  A message is named by its date, and what *)
(* ingestion makes of it is EmailIngest: here it gets on file or not.      *)
(***************************************************************************)
EXTENDS Integers, FiniteSets, FiniteSetsExt

CONSTANTS
    Pollers,
    LastDate,      \* bound: messages are dated 1 .. LastDate
    Overlap,       \* GMAIL_CURSOR_OVERLAP_SECONDS
    PageCap,       \* ids in GMAIL_MAX_LIST_PAGES pages
    Batch,         \* email_poll_batch
    MaxSlips       \* bound: reads and records that fail, and crashes

CursorAssumption ==
    /\ LastDate \in Nat /\ Overlap \in Nat
    /\ PageCap \in Nat \ {0} /\ Batch \in Nat \ {0}
    /\ MaxSlips \in Nat

Dates == 1 .. LastDate

VARIABLES
    arrived,       \* what is in the mailbox
    stored,        \* what is on file
    cursor,        \* cursor_internal_date
    batch,         \* what each poller has fetched and not yet handled
    at,            \* whether a poller is to handle the oldest of it or to mark it
    cut,           \* messages a list left out, being beyond its pages
    slipped,       \* messages that could not be read, or not be put on file
    slips

vars == <<arrived, stored, cursor, batch, at, cut, slipped, slips>>

Init ==
    /\ arrived = {}
    /\ stored = {}
    /\ cursor = 0
    /\ batch = [w \in Pollers |-> {}]
    /\ at = [w \in Pollers |-> "handle"]
    /\ cut = {}
    /\ slipped = {}
    /\ slips = 0

Newest == IF arrived = {} THEN 0 ELSE Max(arrived)

(* Google may deliver a message a little behind a newer one.               *)
Arrive(d) ==
    /\ d \notin arrived
    /\ d >= Newest - Overlap
    /\ arrived' = arrived \cup {d}
    /\ UNCHANGED <<stored, cursor, batch, at, cut, slipped, slips>>

-----------------------------------------------------------------------------
_cursor_epoch == Max({0, cursor - Overlap})

Offered == {d \in arrived : d >= _cursor_epoch}

Oldest(S, n) == {d \in S : Cardinality({e \in S : e < d}) < n}

(* The pages hold the newest.                                              *)
_list_ids == {d \in Offered : Cardinality({e \in Offered : e > d}) < PageCap}

(* Mutant of Chosen: the newest of the list, in the order Gmail gives it.  *)
ChosenNewest(fresh) == {d \in fresh : Cardinality({e \in fresh : e > d}) < Batch}

Chosen(fresh) == Oldest(fresh, Batch)

(* A message that cannot be read, being gone for one, is left out; without *)
(* a credential there is no batch.                                         *)
Fetch(w) ==
    LET chosen == Chosen(_list_ids \ stored) IN
    /\ batch[w] = {}
    /\ chosen # {}
    /\ \E unread \in SUBSET chosen :
          /\ slips + Cardinality(unread) <= MaxSlips
          /\ slips' = slips + Cardinality(unread)
          /\ slipped' = slipped \cup unread
          /\ batch' = [batch EXCEPT ![w] = chosen \ unread]
    /\ cut' = cut \cup (Offered \ _list_ids)
    /\ UNCHANGED <<arrived, stored, cursor, at>>

Current(w) == Min(batch[w])

(* Put on file, by this pass or by another before it; or the database is   *)
(* away and the batch goes on without it.                                  *)
Handle(w) ==
    /\ batch[w] # {} /\ at[w] = "handle"
    /\ \/ /\ stored' = stored \cup {Current(w)}
          /\ at' = [at EXCEPT ![w] = "mark"]
          /\ UNCHANGED <<batch, slipped, slips>>
       \/ /\ Current(w) \notin stored /\ slips < MaxSlips
          /\ slips' = slips + 1
          /\ slipped' = slipped \cup {Current(w)}
          /\ batch' = [batch EXCEPT ![w] = @ \ {Current(w)}]
          /\ UNCHANGED <<stored, at>>
    /\ UNCHANGED <<arrived, cursor, cut>>

(* Mutant of Advanced: one past the message.                               *)
AdvancedPast(d) == Max({cursor, d + 1})

Advanced(d) == Max({cursor, d})

(* advance_oauth_cursor: GREATEST, in the statement itself.                *)
mark_handled(w) ==
    /\ batch[w] # {} /\ at[w] = "mark"
    /\ cursor' = Advanced(Current(w))
    /\ batch' = [batch EXCEPT ![w] = @ \ {Current(w)}]
    /\ at' = [at EXCEPT ![w] = "handle"]
    /\ UNCHANGED <<arrived, stored, cut, slipped, slips>>

Crash(w) ==
    /\ batch[w] # {}
    /\ slips < MaxSlips
    /\ slips' = slips + 1
    /\ batch' = [batch EXCEPT ![w] = {}]
    /\ at' = [at EXCEPT ![w] = "handle"]
    /\ UNCHANGED <<arrived, stored, cursor, cut, slipped>>

poll_once(w) == Fetch(w) \/ Handle(w) \/ mark_handled(w)

Next ==
    \/ \E d \in Dates : Arrive(d)
    \/ \E w \in Pollers : poll_once(w)
    \/ \E w \in Pollers : Crash(w)

Spec == Init /\ [][Next]_vars
-----------------------------------------------------------------------------
TypeOK ==
    /\ stored \subseteq arrived /\ arrived \subseteq Dates
    /\ cursor \in 0 .. LastDate
    /\ \A w \in Pollers : batch[w] \subseteq arrived /\ at[w] \in {"handle", "mark"}
    /\ cut \subseteq arrived /\ slipped \subseteq arrived
    /\ slips \in 0 .. MaxSlips

(* The cursor passes what is not on file only where a page limit cut it    *)
(* off or a step of its own failed.  (mark_handled: "the cursor can never  *)
(* move past something that was not recorded".)                            *)
PassedIsOnFile ==
    \A d \in arrived : d < _cursor_epoch => d \in stored \cup cut \cup slipped
=============================================================================
