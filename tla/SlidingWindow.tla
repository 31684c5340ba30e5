---------------------------- MODULE SlidingWindow ----------------------------
(***************************************************************************)
(* The rate limiter of one process: the times of recent hits, by key.  A   *)
(* request asks for its address and then for its user, and reads the clock *)
(* before it waits for the lock, so hits may be recorded out of order.     *)
(***************************************************************************)
EXTENDS Integers, Sequences, FiniteSets

CONSTANTS
    Requests,      \* threads that ask
    Keys,
    Asks,          \* the keys a request may ask for, in turn: sequences of keys
    Limit,         \* of each key
    Window,
    MaxKeys,       \* the number of keys above which the table is swept
    LastTime       \* bound on the clock

WindowAssumption ==
    /\ Asks \subseteq Seq(Keys)
    /\ Limit \in [Keys -> Nat]
    /\ Window \in Nat \ {0} /\ MaxKeys \in Nat /\ LastTime \in Nat

VARIABLES
    now,
    hits,          \* the queue of each key
    known,         \* the keys the table has an entry for
    request,       \* keys still to ask for, and the time read for the next
    granted,       \* every hit that was ever allowed
    newest,        \* the latest time anybody checked by
    late           \* somebody checked by an earlier one after that

vars == <<now, hits, known, request, granted, newest, late>>

Gone == [keys |-> <<>>, time |-> -1]

Init ==
    /\ now = 0
    /\ hits = [k \in Keys |-> <<>>]
    /\ known = {}
    /\ request = [r \in Requests |-> Gone]
    /\ granted = [k \in Keys |-> <<>>]
    /\ newest = 0
    /\ late = FALSE

Tick ==
    /\ now < LastTime
    /\ now' = now + 1
    /\ UNCHANGED <<hits, known, request, granted, newest, late>>

Arrive(r) ==
    /\ request[r].keys = <<>>
    /\ \E keys \in Asks : request' = [request EXCEPT ![r] = [keys |-> keys, time |-> now]]
    /\ UNCHANGED <<now, hits, known, granted, newest, late>>

(* For the second key the clock is read anew.                              *)
ReadClock(r) ==
    /\ request[r].keys # <<>> /\ request[r].time = -1
    /\ request' = [request EXCEPT ![r].time = now]
    /\ UNCHANGED <<now, hits, known, granted, newest, late>>

(* What is left when the head has been popped while it is too old.         *)
Popped(q, cutoff) ==
    LET gone == {i \in 1 .. Len(q) : \A j \in 1 .. i : q[j] <= cutoff}
    IN  SubSeq(q, Cardinality(gone) + 1, Len(q))

(* Mutant of Stale: judged by the oldest hit.                              *)
StaleByOldest(q, cutoff) == q = <<>> \/ q[1] <= cutoff

Stale(q, cutoff) == q = <<>> \/ q[Len(q)] <= cutoff

_evict(table, cutoff) == {k \in known : Stale(table[k], cutoff)}

(* check, under the lock, and _enforce: a refusal ends the request.        *)
check(r) ==
    LET k == Head(request[r].keys)
        t == request[r].time
        q == Popped(hits[k], t - Window)
        grown == [hits EXCEPT ![k] = Append(q, t)]
        swept == IF Cardinality(known \cup {k}) > MaxKeys THEN _evict(grown, t - Window) ELSE {}
    IN
    /\ request[r].keys # <<>> /\ t >= 0
    /\ IF Len(q) >= Limit[k]
       THEN /\ hits' = [hits EXCEPT ![k] = q]
            /\ known' = known \cup {k}
            /\ request' = [request EXCEPT ![r] = Gone]
            /\ UNCHANGED granted
       ELSE /\ hits' = [j \in Keys |-> IF j \in swept THEN <<>> ELSE grown[j]]
            /\ known' = (known \cup {k}) \ swept
            /\ request' = [request EXCEPT ![r] = [keys |-> Tail(@.keys), time |-> -1]]
            /\ granted' = [granted EXCEPT ![k] = Append(@, t)]
    /\ newest' = IF t > newest THEN t ELSE newest
    /\ late' = (late \/ t < newest)
    /\ UNCHANGED now

Next == Tick \/ \E r \in Requests : Arrive(r) \/ ReadClock(r) \/ check(r)

Spec == Init /\ [][Next]_vars
-----------------------------------------------------------------------------
TypeOK ==
    /\ now \in 0 .. LastTime /\ newest \in 0 .. LastTime /\ late \in BOOLEAN
    /\ known \subseteq Keys
    /\ hits \in [Keys -> Seq(0 .. LastTime)] /\ granted \in [Keys -> Seq(0 .. LastTime)]
    /\ \A k \in Keys : Len(hits[k]) <= Limit[k]
    /\ request \in [Requests -> [keys : Seq(Keys), time : -1 .. LastTime]]

(* The hits in one window, by their places in the queue.                   *)
Inside(q, start) == {i \in DOMAIN q : q[i] \in start .. start + Window - 1}

(* No key gets more than its limit in any window of time, sweeps of the    *)
(* table included, unless requests got the lock in another order than they *)
(* read the clock.                                                         *)
WindowHolds ==
    ~late => \A k \in Keys, start \in 0 .. LastTime :
        Cardinality(Inside(granted[k], start)) <= Limit[k]
=============================================================================
