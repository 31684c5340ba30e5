------------------------------ MODULE DailyQuota ------------------------------
(***************************************************************************)
(* The daily budget of a provider, of the assistant, or of one portal      *)
(* client: a row per day that callers lock, read and increment.  A day's   *)
(* first callers find no row, and lock nothing.                            *)
(***************************************************************************)
EXTENDS Integers

CONSTANTS Callers, LastDay, Limit, MaxFaults

ASSUME QuotaAssumption == LastDay \in Nat /\ Limit \in Nat /\ MaxFaults \in Nat

Days == 0 .. LastDay

VARIABLES today, used, asking, openers, allowed, faults
(* asking: what each caller is at, and the day it took to be today.        *)
(* openers: upserts of callers that had found no row, by day.  allowed:    *)
(* calls let through, by day.  faults: times the counter was unavailable.  *)

vars == <<today, used, asking, openers, allowed, faults>>

Quiet == [pc |-> "idle", day |-> 0]

Init ==
    /\ today = 0
    /\ used = [d \in Days |-> 0]
    /\ asking = [c \in Callers |-> Quiet]
    /\ openers = [d \in Days |-> 0]
    /\ allowed = [d \in Days |-> 0]
    /\ faults = 0

Midnight ==
    /\ today < LastDay
    /\ today' = today + 1
    /\ UNCHANGED <<used, asking, openers, allowed, faults>>

(* A budget of zero is refused without a look at the table.                *)
try_consume(c) ==
    /\ asking[c].pc = "idle"
    /\ Limit > 0
    /\ asking' = [asking EXCEPT ![c] = [pc |-> "select", day |-> today]]
    /\ UNCHANGED <<today, used, openers, allowed, faults>>

(* Mutant of RowFree: SELECT without FOR UPDATE.                           *)
RowFreeUnlocked(d) == TRUE

(* Nobody has the day's row locked.                                        *)
RowFree(d) == \A c \in Callers : ~(asking[c].pc = "holding" /\ asking[c].day = d)

SelectForUpdate(c) ==
    LET d == asking[c].day IN
    /\ asking[c].pc = "select"
    /\ \/ used[d] = 0 /\ asking' = [asking EXCEPT ![c].pc = "opening"]
       \/ /\ used[d] > 0 /\ RowFree(d)
          /\ asking' = [asking EXCEPT ![c] = IF used[d] >= Limit THEN Quiet
                                             ELSE [@ EXCEPT !.pc = "holding"]]
    /\ UNCHANGED <<today, used, openers, allowed, faults>>

(* INSERT ... ON CONFLICT DO UPDATE, and the commit.                       *)
Upsert(c) ==
    LET d == asking[c].day IN
    /\ \/ asking[c].pc = "holding" /\ UNCHANGED openers
       \/ /\ asking[c].pc = "opening" /\ RowFree(d)
          /\ openers' = [openers EXCEPT ![d] = @ + 1]
    /\ used' = [used EXCEPT ![d] = @ + 1]
    /\ allowed' = [allowed EXCEPT ![d] = @ + 1]
    /\ asking' = [asking EXCEPT ![c] = Quiet]
    /\ UNCHANGED <<today, faults>>

(* The counter fails, and the call is let through.                         *)
FailOpen(c) ==
    /\ asking[c].pc # "idle"
    /\ faults < MaxFaults
    /\ faults' = faults + 1
    /\ allowed' = [allowed EXCEPT ![asking[c].day] = @ + 1]
    /\ asking' = [asking EXCEPT ![c] = Quiet]
    /\ UNCHANGED <<today, used, openers>>

Next ==
    \/ Midnight
    \/ \E c \in Callers : try_consume(c) \/ SelectForUpdate(c) \/ Upsert(c) \/ FailOpen(c)

Spec == Init /\ [][Next]_vars
-----------------------------------------------------------------------------
TypeOK ==
    /\ today \in Days
    /\ used \in [Days -> Nat]
    /\ asking \in [Callers -> [pc : {"idle", "select", "opening", "holding"}, day : Days]]
    /\ openers \in [Days -> Nat]
    /\ allowed \in [Days -> Nat]
    /\ faults \in Nat

(* A day's budget is exceeded only by callers that opened the day together, *)
(* one for each beyond the first, and by calls let through uncounted.      *)
BudgetKept ==
    \A d \in Days :
        /\ used[d] <= Limit \/ used[d] < Limit + openers[d]
        /\ allowed[d] <= used[d] + faults
=============================================================================
