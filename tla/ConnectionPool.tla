---------------------------- MODULE ConnectionPool ----------------------------
(***************************************************************************)
(* get_conn and close.  The pool is made by whoever first finds none for   *)
(* the database it wants, with no lock: two callers may make one each, and *)
(* the second closes the first's if it comes between the pool and the name *)
(* of its database.  A caller polls a pool that has nothing to give until  *)
(* a deadline, and sets the schema of a connection that is not known to    *)
(* have it; close returns it to the pool it came from.                     *)
(***************************************************************************)
EXTENDS Integers, FiniteSets

CONSTANTS
    Callers,       \* requests; a pool is named by the one that makes it
    NoPool,
    MaxOut,        \* db_pool_max
    Patience,      \* polls in _POOL_WAIT_SECONDS
    MaxFaults      \* bound: SETs that fail and pools that cannot be made

PoolAssumption ==
    /\ IsFiniteSet(Callers) /\ NoPool \notin Callers
    /\ MaxOut \in Nat \ {0} /\ Patience \in Nat /\ MaxFaults \in Nat

VARIABLES
    current,       \* _POOL
    named,         \* whether _POOL_DSN names the database
    made, closed,  \* the pools that were made, and of them those closed again
    unmade,        \* callers whose pool could not be made
    free,          \* how many connections of each pool are open and in it
    out,           \* and how many are checked out
    caller,        \* what each caller is at, the pool it has, its polls so far
    lost,          \* connections nobody will return, by pool
    faults

vars == <<current, named, made, closed, unmade, free, out, caller, lost, faults>>

Away == [pc |-> "away", pool |-> NoPool, polls |-> 0]

Init ==
    /\ current = NoPool /\ named = FALSE
    /\ made = {} /\ closed = {} /\ unmade = {}
    /\ free = [p \in Callers |-> 0]
    /\ out = [p \in Callers |-> 0]
    /\ caller = [c \in Callers |-> Away]
    /\ lost = [p \in Callers |-> 0]
    /\ faults = 0

Goes(c, pc) == caller' = [caller EXCEPT ![c].pc = pc]

Leaves(c) == caller' = [caller EXCEPT ![c] = Away]

-----------------------------------------------------------------------------
(* _pool, in the steps that other callers may come between.                *)
FindPool(c) ==
    /\ caller[c].pc = "away"
    /\ Goes(c, IF current # NoPool /\ named THEN "found" ELSE "close")
    /\ UNCHANGED <<current, named, made, closed, unmade, free, out, lost, faults>>

(* closeall, of the pool in force: it closes the connections that are out  *)
(* of it as well as those in it.                                           *)
CloseOld(c) ==
    /\ caller[c].pc = "close"
    /\ Goes(c, "make")
    /\ IF current = NoPool THEN UNCHANGED <<closed, free, out, lost>>
       ELSE /\ closed' = closed \cup {current}
            /\ free' = [free EXCEPT ![current] = 0]
            /\ out' = [out EXCEPT ![current] = 0]
            /\ lost' = [lost EXCEPT ![current] = 0]
    /\ UNCHANGED <<current, named, made, unmade, faults>>

(* One connection is opened with it; if that fails there is no new pool,   *)
(* and the one in force stays as it was left.                              *)
MakePool(c) ==
    /\ caller[c].pc = "make"
    /\ \/ /\ made' = made \cup {c} /\ current' = c
          /\ free' = [free EXCEPT ![c] = 1]
          /\ Goes(c, "name")
          /\ UNCHANGED <<unmade, faults>>
       \/ /\ faults < MaxFaults /\ faults' = faults + 1
          /\ unmade' = unmade \cup {c}
          /\ Leaves(c)
          /\ UNCHANGED <<made, current, free>>
    /\ UNCHANGED <<named, closed, out, lost>>

SetDsn(c) ==
    /\ caller[c].pc = "name"
    /\ named' = TRUE
    /\ Goes(c, "found")
    /\ UNCHANGED <<current, made, closed, unmade, free, out, lost, faults>>

(* `return _POOL`: by now perhaps another's.                               *)
ReturnPool(c) ==
    /\ caller[c].pc = "found"
    /\ caller' = [caller EXCEPT ![c] = [pc |-> "poll", pool |-> current, polls |-> 0]]
    /\ UNCHANGED <<current, named, made, closed, unmade, free, out, lost, faults>>

-----------------------------------------------------------------------------
Exhausted(p) == free[p] = 0 /\ out[p] >= MaxOut

(* PoolError, for a closed pool as for an exhausted one.                   *)
Refuses(p) == p \in closed \/ Exhausted(p)

(* A connection of the pool, or a new one; else the caller waits.          *)
getconn(c) ==
    LET p == caller[c].pool IN
    /\ caller[c].pc = "poll"
    /\ IF Refuses(p)
       THEN /\ IF caller[c].polls >= Patience THEN Leaves(c)
               ELSE caller' = [caller EXCEPT ![c].polls = @ + 1]
            /\ UNCHANGED <<free, out>>
       ELSE /\ free' = [free EXCEPT ![p] = IF @ = 0 THEN 0 ELSE @ - 1]
            /\ out' = [out EXCEPT ![p] = @ + 1]
            /\ Goes(c, "set")
    /\ UNCHANGED <<current, named, made, closed, unmade, lost, faults>>

(* SET search_path, where it is needed; a failure there loses the          *)
(* connection, which nothing returns.  One that was closed meanwhile fails *)
(* of itself, and is in no pool to be lost from.                           *)
SetSchema(c) ==
    LET p == caller[c].pool IN
    /\ caller[c].pc = "set"
    /\ \/ Goes(c, "using") /\ UNCHANGED <<lost, faults>>
       \/ p \in closed /\ Leaves(c) /\ UNCHANGED <<lost, faults>>
       \/ /\ p \notin closed
          /\ faults < MaxFaults /\ faults' = faults + 1
          /\ lost' = [lost EXCEPT ![p] = @ + 1]
          /\ Leaves(c)
    /\ UNCHANGED <<current, named, made, closed, unmade, free, out>>

(* Mutant of Home: returned to whatever pool is current.                   *)
HomeIsCurrent(c) == current

Home(c) == caller[c].pool

(* The pool keeps one open connection that is not in use, and no more; a   *)
(* closed pool takes nothing back, and putconn raises.                     *)
close(c) ==
    LET p == Home(c) IN
    /\ caller[c].pc = "using"
    /\ IF p \in closed THEN UNCHANGED <<free, out>>
       ELSE /\ out' = [out EXCEPT ![p] = @ - 1]
            /\ free' = [free EXCEPT ![p] = 1]
    /\ Leaves(c)
    /\ UNCHANGED <<current, named, made, closed, unmade, lost, faults>>

Next == \E c \in Callers :
    \/ FindPool(c) \/ CloseOld(c) \/ MakePool(c) \/ SetDsn(c) \/ ReturnPool(c)
    \/ getconn(c) \/ SetSchema(c) \/ close(c)

Spec == Init /\ [][Next]_vars
-----------------------------------------------------------------------------
TypeOK ==
    /\ current \in Callers \cup {NoPool} /\ named \in BOOLEAN
    /\ made \subseteq Callers /\ closed \subseteq Callers /\ unmade \subseteq Callers
    /\ free \in [Callers -> Nat] /\ out \in [Callers -> Int] /\ lost \in [Callers -> Nat]
    /\ caller \in [Callers -> [pc : {"away", "close", "make", "name", "found", "poll", "set",
                                     "using"},
                               pool : Callers \cup {NoPool}, polls : 0 .. Patience]]
    /\ faults \in 0 .. MaxFaults

(* What is out of a pool that is open is in somebody's hands, but for what *)
(* failed SETs lost, and with what is in it never passes its limit; a      *)
(* closed pool has nothing.  A pool is closed only by another caller that  *)
(* found none, and the one in force is closed only until that caller has   *)
(* made its own, unless a pool could not be made.                          *)
OutIsHeld ==
    /\ \A p \in Callers :
          /\ IF p \in closed THEN out[p] = 0 /\ free[p] = 0
             ELSE out[p] = lost[p] + Cardinality({c \in Callers :
                               caller[c].pc \in {"set", "using"} /\ caller[c].pool = p})
          /\ out[p] + free[p] <= MaxOut
          /\ p \in closed => \E c \in Callers \ {p} :
                                c \in made \cup unmade \/ caller[c].pc = "make"
    /\ current \in closed => unmade # {} \/ \E c \in Callers : caller[c].pc = "make"
=============================================================================
