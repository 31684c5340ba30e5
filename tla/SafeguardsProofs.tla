--------------------------- MODULE SafeguardsProofs ---------------------------
(***************************************************************************)
(* Proofs about the parts of Safeguards, for any values of its constants   *)
(* that the assumptions allow: the daily budget, the rate limiter, the     *)
(* rejection notices, stored documents, the connection pool and the client *)
(* portal.  Each part is first shown to run by its own specification.      *)
(***************************************************************************)
EXTENDS Safeguards, FiniteSetTheorems, SequenceTheorems, WellFoundedInduction, TLAPS

(* DailyQuota, by itself.                                                  *)

Asked == [pc : {"idle", "select", "opening", "holding"}, day : Days]

(* A caller at rest is typed.                                             *)
LEMMA QuietIsAsked == Quiet \in Asked
  BY QuotaAssumption DEF Quiet, Asked, Days

(* A locked row is held by one caller.                                     *)
OneHolder ==
    \A c, e \in Callers :
        asking[c].pc = "holding" /\ asking[e].pc = "holding" /\ asking[c].day = asking[e].day
            => c = e

(* What a holder read is still so: the row is there, and has room.         *)
RoomIsLeft ==
    \A c \in Callers : asking[c].pc = "holding"
        => used[asking[c].day] > 0 /\ used[asking[c].day] < Limit

(* Whoever asks was not turned away at once.                               *)
SomeLimit == \A c \in Callers : asking[c].pc # "idle" => Limit > 0

(* A day's row begins with a caller that opened the day.                   *)
RowsAreOpened == \A d \in Days : used[d] > 0 => openers[d] > 0

QuotaInv ==
    /\ TypeOK
    /\ OneHolder
    /\ RoomIsLeft
    /\ SomeLimit
    /\ RowsAreOpened
    /\ BudgetKept

(* Init establishes it.                                                    *)
LEMMA InitQuota == Init => QuotaInv
  BY QuotaAssumption, SMTT(30)
  DEF Init, QuotaInv, TypeOK, OneHolder, RoomIsLeft, SomeLimit, RowsAreOpened, BudgetKept, Days, Quiet

(* Time passes.                                                            *)
LEMMA MidnightQuota == QuotaInv /\ Midnight => QuotaInv'
  <1> SUFFICES ASSUME QuotaInv, Midnight PROVE QuotaInv'
    OBVIOUS
  <1> QED
    BY QuotaAssumption, SMTT(30)
    DEF Midnight, QuotaInv, TypeOK, OneHolder, RoomIsLeft, SomeLimit, RowsAreOpened, BudgetKept, Days

(* A caller begins.                                                        *)
LEMMA AskQuota ==
  ASSUME NEW c \in Callers, QuotaInv, try_consume(c) PROVE QuotaInv'
  <1> USE QuotaAssumption DEF try_consume, QuotaInv
  <1>1. TypeOK'
    BY DEF TypeOK
  <1>2. \A e \in Callers : asking'[e].pc = "holding" => e # c /\ asking'[e] = asking[e]
    BY DEF TypeOK
  <1>3. OneHolder' /\ RoomIsLeft'
    BY <1>2 DEF OneHolder, RoomIsLeft
  <1>4. SomeLimit'
    BY DEF TypeOK, SomeLimit
  <1>5. RowsAreOpened' /\ BudgetKept'
    BY DEF RowsAreOpened, BudgetKept
  <1> QED
    BY <1>1, <1>3, <1>4, <1>5

(* A caller finds no row, a spent budget, or a row that it locks.          *)
LEMMA SelectQuota ==
  ASSUME NEW c \in Callers, QuotaInv, SelectForUpdate(c) PROVE QuotaInv'
  <1> USE QuotaAssumption DEF QuotaInv
  <1>0. asking[c] \in Asked /\ asking[c].pc = "select"
    BY DEF SelectForUpdate, TypeOK, Asked
  <1>1. TypeOK'
    <2>1. \E v \in Asked : asking' = [asking EXCEPT ![c] = v]
      <3>1. [asking[c] EXCEPT !.pc = "opening"] \in Asked /\ [asking[c] EXCEPT !.pc = "holding"] \in Asked
        BY <1>0 DEF Asked
      <3> QED
        BY <3>1, QuietIsAsked DEF SelectForUpdate
    <2> QED
      BY <2>1 DEF SelectForUpdate, TypeOK, Asked
  <1>2. \A e \in Callers : e # c => asking'[e] = asking[e]
    BY DEF SelectForUpdate, TypeOK
  <1>3. /\ asking'[c].pc # "holding" \/ RowFree(asking[c].day)
        /\ asking'[c].pc = "holding" => /\ used[asking[c].day] > 0
                                        /\ used[asking[c].day] < Limit
                                        /\ asking'[c].day = asking[c].day
    BY <1>0 DEF SelectForUpdate, TypeOK, Quiet, Days
  <1>4. OneHolder'
    BY <1>2, <1>3 DEF OneHolder, RowFree
  <1>5. RoomIsLeft'
    BY <1>2, <1>3 DEF RoomIsLeft, SelectForUpdate
  <1>6. SomeLimit'
    BY <1>0, <1>2 DEF SomeLimit, SelectForUpdate
  <1>7. RowsAreOpened' /\ BudgetKept'
    BY DEF SelectForUpdate, RowsAreOpened, BudgetKept
  <1> QED
    BY <1>1, <1>4, <1>5, <1>6, <1>7

(* The row is written by its holder, or by a caller that opens the day.    *)
LEMMA UpsertQuota ==
  ASSUME NEW c \in Callers, QuotaInv, Upsert(c) PROVE QuotaInv'
  <1> DEFINE d == asking[c].day
  <1> USE QuotaAssumption DEF QuotaInv
  <1>0. d \in Days /\ used[d] \in Nat /\ openers[d] \in Nat /\ allowed[d] \in Nat
    BY DEF TypeOK
  <1>1. /\ used' = [used EXCEPT ![d] = @ + 1]
        /\ allowed' = [allowed EXCEPT ![d] = @ + 1]
        /\ asking' = [asking EXCEPT ![c] = Quiet]
        /\ openers' = openers \/ openers' = [openers EXCEPT ![d] = @ + 1]
        /\ faults' = faults /\ today' = today
    BY DEF Upsert
  <1>2. TypeOK'
    BY <1>0, <1>1, QuietIsAsked DEF TypeOK, Asked
  <1>3. \A e \in Callers :
            /\ e # c => asking'[e] = asking[e]
            /\ asking'[e].pc # "idle" => e # c
    BY <1>1 DEF TypeOK, Quiet
  <1>4. OneHolder'
    BY <1>3 DEF OneHolder
  <1>5. \A e \in Callers : e # c /\ asking[e].pc = "holding" => asking[e].day # d
    BY DEF OneHolder, Upsert, RowFree
  <1>6. RoomIsLeft'
    BY <1>1, <1>3, <1>5 DEF RoomIsLeft, TypeOK
  <1>7. SomeLimit'
    BY <1>3 DEF SomeLimit, Upsert
  <1>8. RowsAreOpened'
    <2>1. CASE asking[c].pc = "holding"
      BY <2>1, <1>0, <1>1 DEF RowsAreOpened, RoomIsLeft, Upsert, TypeOK
    <2>2. CASE asking[c].pc = "opening"
      BY <2>2, <1>0, <1>1 DEF RowsAreOpened, Upsert, TypeOK
    <2> QED
      BY <2>1, <2>2 DEF Upsert
  <1>9. BudgetKept'
    <2>1. CASE asking[c].pc = "holding"
      BY <2>1, <1>0, <1>1 DEF BudgetKept, RoomIsLeft, Upsert, TypeOK
    <2>2. CASE asking[c].pc = "opening"
      <3>1. Limit > 0 /\ openers'[d] = openers[d] + 1
        BY <2>2, <1>0 DEF SomeLimit, Upsert, TypeOK
      <3> QED
        BY <2>2, <3>1, <1>0, <1>1 DEF BudgetKept, RowsAreOpened, Upsert, TypeOK
    <2> QED
      BY <2>1, <2>2 DEF Upsert
  <1> QED
    BY <1>2, <1>4, <1>6, <1>7, <1>8, <1>9

(* The counter is away, and the call is let through.                       *)
LEMMA FailOpenQuota ==
  ASSUME NEW c \in Callers, QuotaInv, FailOpen(c) PROVE QuotaInv'
  <1> DEFINE d == asking[c].day
  <1> USE QuotaAssumption DEF QuotaInv
  <1>0. d \in Days /\ allowed[d] \in Nat /\ faults \in Nat
    BY DEF TypeOK
  <1>1. TypeOK'
    BY <1>0, QuietIsAsked DEF FailOpen, TypeOK, Asked
  <1>2. \A e \in Callers : asking'[e].pc # "idle" => asking'[e] = asking[e]
    BY DEF FailOpen, TypeOK, Quiet
  <1>3. OneHolder' /\ RoomIsLeft' /\ SomeLimit'
    BY <1>2 DEF OneHolder, RoomIsLeft, SomeLimit, FailOpen
  <1>4. RowsAreOpened'
    BY DEF RowsAreOpened, FailOpen
  <1>5. BudgetKept'
    BY <1>0 DEF BudgetKept, FailOpen, TypeOK
  <1> QED
    BY <1>1, <1>3, <1>4, <1>5

(* Every step of the module keeps it.                                      *)
LEMMA NextQuota == QuotaInv /\ [Next]_vars => QuotaInv'
  <1> SUFFICES ASSUME QuotaInv, [Next]_vars PROVE QuotaInv'
    OBVIOUS
  <1>1. CASE UNCHANGED vars
    BY <1>1 DEF vars, QuotaInv, TypeOK, OneHolder, RoomIsLeft, SomeLimit, RowsAreOpened, BudgetKept
  <1>2. CASE Next
    BY <1>2, MidnightQuota, AskQuota, SelectQuota, UpsertQuota, FailOpenQuota DEF Next
  <1> QED
    BY <1>1, <1>2

(* The inductive invariant of the counter: a day's row is locked by one    *)
(* caller at a time, and the room it saw is there when it writes.          *)
THEOREM QuotaInvariant == Spec => []QuotaInv
  BY InitQuota, NextQuota, PTL DEF Spec

(* However many callers ask, the budget is exceeded only by those that     *)
(* found the day without a row, and by failures of the counter.            *)
THEOREM BudgetIsKept == Spec => []BudgetKept
  <1>1. QuotaInv => BudgetKept
    BY DEF QuotaInv
  <1> QED
    BY <1>1, QuotaInvariant, PTL

-----------------------------------------------------------------------------
(* A set of natural numbers has a least element.                           *)
LEMMA LeastOf ==
  ASSUME NEW S \in SUBSET Nat, S # {} PROVE \E x \in S : \A y \in S : x <= y
  <1>1. IsWellFoundedOn(OpToRel(<, Nat), Nat)
    BY NatLessThanWellFounded
  <1>2. PICK x \in S : \A y \in S : ~(<<y, x>> \in OpToRel(<, Nat))
    BY <1>1, WFMin
  <1>3. \A y \in S : x <= y
    <2> TAKE y \in S
    <2>1. ~(<<y, x>> \in OpToRel(<, Nat))
      BY <1>2
    <2>2. <<y, x>> \in OpToRel(<, Nat) <=> y < x
      BY DEF OpToRel
    <2>3. ~(y < x) /\ x \in Nat /\ y \in Nat
      BY <2>1, <2>2
    <2> QED
      BY <2>3
  <1> QED
    BY <1>3

-----------------------------------------------------------------------------
(* SlidingWindow.                                                          *)

LEMMA WindowRuns == SafeSpec => W!Spec
  <1>1. SafeInit => W!Init
    BY DEF SafeInit
  <1>2. [SafeNext]_safeVars => [W!Next]_(W!vars)
    BY DEF SafeNext, At, safeVars, windowVars, W!vars
  <1> QED
    BY <1>1, <1>2, PTL DEF SafeSpec, W!Spec

LEMMA WindowCardinality ==
  /\ \A S : W!Cardinality(S) = Cardinality(S)
  /\ Asks \subseteq Seq(WindowKeys) /\ Ceiling \in [WindowKeys -> Nat]
  /\ Window \in Nat \ {0} /\ LastTime \in Nat
  BY WindowConstants DEF W!Cardinality, Cardinality, W!WindowAssumption

LEMMA TimesAreNumbers ==
  ASSUME NEW q \in Seq(0 .. LastTime)
  PROVE  /\ Len(q) \in Nat /\ DOMAIN q = 1 .. Len(q)
         /\ \A i \in 1 .. Len(q) : q[i] \in 0 .. LastTime /\ q[i] \in Int
         /\ 0 .. LastTime \subseteq Int
  <1>1. Len(q) \in Nat /\ DOMAIN q = 1 .. Len(q) /\ q \in [1 .. Len(q) -> 0 .. LastTime]
    BY LenProperties
  <1>2. LastTime \in Nat
    BY WindowCardinality
  <1>3. ASSUME NEW i \in 1 .. Len(q) PROVE q[i] \in 0 .. LastTime
    BY <1>1
  <1> QED
    BY <1>1, <1>2, <1>3

(* Times of hits in the order they were allowed, none later than top.      *)
Ascending(g, top) ==
    \A i \in 1 .. Len(g) : g[i] <= top /\ \A j \in 1 .. i : g[j] <= g[i]

(* The queue q is the end of g, the rest of which no window holds from the *)
(* time top on.                                                            *)
EndOf(q, g, top) ==
    /\ Len(q) <= Len(g)
    /\ \A i \in 1 .. Len(q) : q[i] = g[Len(g) - Len(q) + i]
    /\ \A i \in 1 .. Len(g) - Len(q) : g[i] <= top - Window

(* What is popped is too old, and what is left has a head that is not.     *)
LEMMA PoppedIsEnd ==
  ASSUME NEW q \in Seq(0 .. LastTime), NEW cutoff \in Int
  PROVE  \E n \in 0 .. Len(q) : /\ W!Popped(q, cutoff) = SubSeq(q, n + 1, Len(q))
                                /\ \A i \in 1 .. n : q[i] <= cutoff
  <1> DEFINE gone == {i \in 1 .. Len(q) : \A j \in 1 .. i : q[j] <= cutoff}
             late_ == {i \in 1 .. Len(q) : ~(q[i] <= cutoff)}
  <1>1. \E n \in 0 .. Len(q) : gone = 1 .. n
    <2>1. CASE late_ = {}
      BY <2>1
    <2>2. CASE late_ # {}
      <3>0. late_ \in SUBSET Nat
        OBVIOUS
      <3>1. PICK m \in late_ : \A i \in late_ : m <= i
        BY <2>2, <3>0, LeastOf
      <3>2. Len(q) \in Nat /\ m \in 1 .. Len(q) /\ ~(q[m] <= cutoff)
        BY <3>1, TimesAreNumbers
      <3>3. \A i \in 1 .. m - 1 : q[i] <= cutoff
        BY <3>1, <3>2
      <3>4. gone = 1 .. m - 1
        BY <3>2, <3>3
      <3>5. m - 1 \in 0 .. Len(q)
        BY <3>2
      <3> HIDE DEF gone
      <3> QED
        BY <3>4, <3>5
    <2> QED
      BY <2>1, <2>2
  <1>2. PICK n \in 0 .. Len(q) : gone = 1 .. n
    BY <1>1
  <1>3. W!Cardinality(gone) = n
    <2>1. 0 \in Int /\ 1 \in Int /\ n \in Int /\ n >= 0
      BY TimesAreNumbers
    <2>2. Cardinality(1 .. n) = n
      BY <2>1, FS_Interval
    <2> QED
      BY <1>2, <2>2, WindowCardinality
  <1>4. W!Popped(q, cutoff) = SubSeq(q, n + 1, Len(q))
    BY <1>3 DEF W!Popped
  <1> QED
    BY <1>2, <1>4

LEMMA PoppedTyped ==
  ASSUME NEW q \in Seq(0 .. LastTime), NEW cutoff \in Int
  PROVE  W!Popped(q, cutoff) \in Seq(0 .. LastTime) /\ Len(W!Popped(q, cutoff)) <= Len(q)
  <1>1. PICK n \in 0 .. Len(q) : W!Popped(q, cutoff) = SubSeq(q, n + 1, Len(q))
    BY PoppedIsEnd
  <1>2. \A i \in n + 1 .. Len(q) : q[i] \in 0 .. LastTime
    BY TimesAreNumbers
  <1> QED
    BY <1>1, <1>2, SubSeqProperties

(* Popping keeps the end of what was allowed, for the time it is done at.  *)
LEMMA PoppedEndOf ==
  ASSUME NEW q \in Seq(0 .. LastTime), NEW g \in Seq(0 .. LastTime),
         NEW top \in Int, NEW t \in Int, top <= t, EndOf(q, g, top)
  PROVE  EndOf(W!Popped(q, t - Window), g, t)
  <1> DEFINE p == W!Popped(q, t - Window)
  <1>1. PICK n \in 0 .. Len(q) : /\ p = SubSeq(q, n + 1, Len(q))
                                 /\ \A i \in 1 .. n : q[i] <= t - Window
    <2>1. t - Window \in Int
      BY WindowCardinality
    <2> QED
      BY <2>1, PoppedIsEnd
  <1>2. \A i \in n + 1 .. Len(q) : q[i] \in 0 .. LastTime
    BY TimesAreNumbers
  <1>3. Len(p) = Len(q) - n /\ \A i \in 1 .. Len(q) - n : p[i] = q[n + i]
    BY <1>1, <1>2, SubSeqProperties
  <1>4. /\ Len(q) \in Nat /\ Len(g) \in Nat /\ Len(q) <= Len(g) /\ Window \in Nat
        /\ \A i \in 1 .. Len(q) : q[i] \in Int /\ q[i] = g[Len(g) - Len(q) + i]
        /\ \A i \in 1 .. Len(g) : g[i] \in Int
        /\ \A i \in 1 .. Len(g) - Len(q) : g[i] <= top - Window
    BY TimesAreNumbers, WindowCardinality DEF EndOf
  <1> HIDE DEF p
  <1>5. ASSUME NEW i \in 1 .. Len(p) PROVE p[i] = g[Len(g) - Len(p) + i]
    <2>1. n + i \in 1 .. Len(q) /\ p[i] = q[n + i]
      BY <1>3, <1>4
    <2>2. Len(g) - Len(q) + (n + i) = Len(g) - Len(p) + i
      BY <1>3, <1>4
    <2> QED
      BY <1>4, <2>1, <2>2
  <1>6. ASSUME NEW i \in 1 .. Len(g) - Len(p) PROVE g[i] <= t - Window
    <2>0. i \in Nat /\ i >= 1 /\ i <= Len(g) - Len(q) + n
      BY <1>3, <1>4
    <2>1. CASE i <= Len(g) - Len(q)
      <3>1. g[i] <= top - Window /\ g[i] \in Int
        BY <1>4, <2>0, <2>1
      <3> QED
        BY <1>4, <3>1
    <2>2. CASE i > Len(g) - Len(q)
      <3> DEFINE j == i - (Len(g) - Len(q))
      <3>1. j \in 1 .. n /\ j \in 1 .. Len(q) /\ Len(g) - Len(q) + j = i
        BY <1>4, <2>0, <2>2
      <3>2. q[j] <= t - Window /\ q[j] = g[Len(g) - Len(q) + j]
        BY <1>1, <1>4, <3>1
      <3> QED
        BY <3>1, <3>2
    <2> QED
      BY <1>4, <2>0, <2>1, <2>2
  <1> QED
    BY <1>3, <1>4, <1>5, <1>6 DEF EndOf, p

(* A queue that is swept holds nothing a window will need.                 *)
LEMMA SweptEndOf ==
  ASSUME NEW q \in Seq(0 .. LastTime), NEW g \in Seq(0 .. LastTime),
         NEW top \in Int, NEW t \in Int,
         Ascending(g, top), EndOf(q, g, t), W!Stale(q, t - Window)
  PROVE  EndOf(<<>>, g, t)
  <1>1. CASE q = <<>>
    BY <1>1
  <1>2. CASE q # <<>>
    <2>1. Len(q) \in Nat /\ Len(q) > 0 /\ q[Len(q)] <= t - Window
      BY <1>2 DEF W!Stale
    <2>2. g[Len(g)] <= t - Window
      BY <2>1 DEF EndOf
    <2>3. \A i \in 1 .. Len(g) : g[i] \in Int /\ g[i] <= g[Len(g)]
      BY TimesAreNumbers DEF Ascending
    <2> QED
      BY <2>2, <2>3, WindowCardinality DEF EndOf
  <1> QED
    BY <1>1, <1>2

(* A hit that is allowed joins both.                                       *)
LEMMA JoinedEndOf ==
  ASSUME NEW q \in Seq(0 .. LastTime), NEW g \in Seq(0 .. LastTime), NEW t \in 0 .. LastTime,
         EndOf(q, g, t)
  PROVE  EndOf(Append(q, t), Append(g, t), t)
  <1> DEFINE a == Append(q, t)
             b == Append(g, t)
  <1>1. /\ Len(a) = Len(q) + 1 /\ a[Len(q) + 1] = t /\ \A i \in 1 .. Len(q) : a[i] = q[i]
        /\ Len(b) = Len(g) + 1 /\ b[Len(g) + 1] = t /\ \A i \in 1 .. Len(g) : b[i] = g[i]
    BY AppendProperties
  <1>2. /\ Len(q) \in Nat /\ Len(g) \in Nat /\ Len(q) <= Len(g)
        /\ \A i \in 1 .. Len(q) : q[i] = g[Len(g) - Len(q) + i]
        /\ \A i \in 1 .. Len(g) - Len(q) : g[i] <= t - Window
    BY TimesAreNumbers DEF EndOf
  <1> HIDE DEF a, b
  <1>3. ASSUME NEW i \in 1 .. Len(a) PROVE a[i] = b[Len(b) - Len(a) + i]
    <2>1. CASE i = Len(q) + 1
      BY <1>1, <1>2, <2>1
    <2>2. CASE i # Len(q) + 1
      <3>1. i \in 1 .. Len(q) /\ Len(g) - Len(q) + i \in 1 .. Len(g)
        BY <1>1, <1>2, <2>2
      <3>2. a[i] = g[Len(g) - Len(q) + i] /\ g[Len(g) - Len(q) + i] = b[Len(g) - Len(q) + i]
        BY <1>1, <1>2, <3>1
      <3>3. Len(g) - Len(q) = Len(b) - Len(a)
        BY <1>1, <1>2
      <3> QED
        BY <3>2, <3>3
    <2> QED
      BY <2>1, <2>2
  <1>4. ASSUME NEW i \in 1 .. Len(b) - Len(a) PROVE b[i] <= t - Window
    <2>1. i \in 1 .. Len(g) - Len(q) /\ i \in 1 .. Len(g)
      BY <1>1, <1>2
    <2> QED
      BY <1>1, <1>2, <2>1
  <1>5. Len(a) <= Len(b)
    BY <1>1, <1>2
  <1> QED
    BY <1>3, <1>4, <1>5 DEF EndOf, a, b

LEMMA JoinedAscending ==
  ASSUME NEW g \in Seq(0 .. LastTime), NEW top \in Int, NEW t \in 0 .. LastTime, top <= t,
         Ascending(g, top)
  PROVE  Ascending(Append(g, t), t)
  <1> DEFINE b == Append(g, t)
  <1>1. Len(b) = Len(g) + 1 /\ b[Len(g) + 1] = t /\ \A i \in 1 .. Len(g) : b[i] = g[i]
    BY AppendProperties
  <1>2. \A i \in 1 .. Len(g) : g[i] \in Int /\ g[i] <= t
    BY TimesAreNumbers DEF Ascending
  <1> QED
    BY <1>1, <1>2 DEF Ascending

(* With room in the queue there is room in every window.                   *)
LEMMA JoinedWindow ==
  ASSUME NEW q \in Seq(0 .. LastTime), NEW g \in Seq(0 .. LastTime), NEW t \in 0 .. LastTime,
         NEW limit \in Nat, NEW start \in Int, EndOf(q, g, t), Len(q) < limit,
         Cardinality(W!Inside(g, start)) <= limit
  PROVE  Cardinality(W!Inside(Append(g, t), start)) <= limit
  <1> DEFINE b == Append(g, t)
             n == Len(g) - Len(q)
  <1>1. Len(b) = Len(g) + 1 /\ b[Len(g) + 1] = t /\ \A i \in 1 .. Len(g) : b[i] = g[i]
    BY AppendProperties
  <1>2. DOMAIN b = 1 .. Len(g) + 1 /\ DOMAIN g = 1 .. Len(g)
    BY <1>1, AppendProperties, LenProperties
  <1>3. Len(g) \in Nat /\ Len(q) \in Nat /\ n \in Nat
    BY DEF EndOf
  <1>4. CASE t \notin start .. start + Window - 1
    <2>1. W!Inside(b, start) = W!Inside(g, start)
      BY <1>1, <1>2, <1>3, <1>4 DEF W!Inside
    <2> QED
      BY <2>1
  <1>5. CASE t \in start .. start + Window - 1
    <2>1. \A i \in 1 .. Len(g) : g[i] \in Int
      BY TimesAreNumbers
    <2>2. ASSUME NEW i \in W!Inside(b, start) PROVE i \in n + 1 .. Len(g) + 1
      <3>1. i \in 1 .. Len(g) + 1 /\ b[i] \in start .. start + Window - 1
        BY <1>2 DEF W!Inside
      <3>2. SUFFICES ASSUME i <= n PROVE FALSE
        BY <1>3, <3>1
      <3>3. i \in 1 .. n /\ i \in 1 .. Len(g)
        BY <1>3, <3>1, <3>2 DEF EndOf
      <3>4. g[i] <= t - Window /\ b[i] = g[i] /\ g[i] \in Int
        BY <1>1, <2>1, <3>3 DEF EndOf
      <3>5. g[i] >= start /\ t <= start + Window - 1 /\ Window \in Nat /\ t \in Int
        BY <1>5, <3>1, <3>4, WindowCardinality
      <3> QED
        BY <3>4, <3>5
    <2>3. /\ IsFiniteSet(n + 1 .. Len(g) + 1)
          /\ Cardinality(n + 1 .. Len(g) + 1) = Len(q) + 1
      BY <1>3, FS_Interval
    <2>4. /\ Cardinality(W!Inside(b, start)) <= Len(q) + 1
          /\ Cardinality(W!Inside(b, start)) \in Nat
      BY <2>2, <2>3, FS_Subset, FS_CardinalityType
    <2> QED
      BY <1>3, <2>4
  <1> QED
    BY <1>4, <1>5

(* Both survive a later time.                                              *)
LEMMA LaterWindow ==
  ASSUME NEW q \in Seq(0 .. LastTime), NEW g \in Seq(0 .. LastTime),
         NEW top \in Int, NEW t \in Int, top <= t
  PROVE  /\ Ascending(g, top) => Ascending(g, t)
         /\ EndOf(q, g, top) => EndOf(q, g, t)
  <1>1. \A i \in 1 .. Len(g) : g[i] \in Int
    BY TimesAreNumbers
  <1>2. Window \in Nat
    BY WindowCardinality
  <1>3. Len(q) \in Nat /\ Len(g) \in Nat
    BY TimesAreNumbers
  <1>4. Ascending(g, top) => Ascending(g, t)
    BY <1>1 DEF Ascending
  <1>5. ASSUME EndOf(q, g, top) PROVE EndOf(q, g, t)
    <2>1. ASSUME NEW i \in 1 .. Len(g) - Len(q) PROVE g[i] <= t - Window
      <3>1. i \in 1 .. Len(g) /\ g[i] <= top - Window
        BY <1>3, <1>5 DEF EndOf
      <3> QED
        BY <1>1, <1>2, <3>1
    <2> QED
      BY <1>5, <2>1 DEF EndOf
  <1> QED
    BY <1>4, <1>5

(* While requests are checked in the order of their times, the queue of a  *)
(* key is all that any window to come may hold of what was allowed.        *)
WindowKept(k) ==
    /\ Ascending(granted[k], newest)
    /\ EndOf(hits[k], granted[k], newest)
    /\ \A start \in Int : Cardinality(W!Inside(granted[k], start)) <= Ceiling[k]

WindowInv ==
    /\ W!TypeOK
    /\ ~late => \A k \in WindowKeys : WindowKept(k)

LEMMA WindowStarts == W!Init => WindowInv
  <1> SUFFICES ASSUME W!Init PROVE WindowInv
    OBVIOUS
  <1>1. W!TypeOK
    <2>1. W!Gone \in [keys : Seq(WindowKeys), time : -1 .. LastTime]
      <3>1. -1 \in -1 .. LastTime /\ <<>> \in Seq(WindowKeys)
        BY WindowCardinality
      <3> QED
        BY <3>1 DEF W!Gone
    <2>2. asker \in [Requests -> [keys : Seq(WindowKeys), time : -1 .. LastTime]]
      BY <2>1 DEF W!Init
    <2>3. 0 \in 0 .. LastTime /\ <<>> \in Seq(0 .. LastTime) /\ Len(<<>>) = 0
      BY WindowCardinality
    <2>4. /\ hits \in [WindowKeys -> Seq(0 .. LastTime)]
          /\ granted \in [WindowKeys -> Seq(0 .. LastTime)]
      BY <2>3 DEF W!Init
    <2>5. \A k \in WindowKeys : hits[k] = <<>> /\ Ceiling[k] \in Nat
      BY WindowCardinality DEF W!Init
    <2>6. \A k \in WindowKeys : Len(hits[k]) <= Ceiling[k]
      BY <2>3, <2>5
    <2> QED
      BY <2>2, <2>3, <2>4, <2>6 DEF W!Init, W!TypeOK
  <1>2. ASSUME NEW k \in WindowKeys PROVE WindowKept(k)
    <2>1. hits[k] = <<>> /\ granted[k] = <<>> /\ newest = 0 /\ Ceiling[k] \in Nat
      BY WindowCardinality DEF W!Init
    <2>2. ASSUME NEW start \in Int PROVE Cardinality(W!Inside(granted[k], start)) <= Ceiling[k]
      <3>1. W!Inside(granted[k], start) = {}
        BY <2>1 DEF W!Inside
      <3> QED
        <4>1. Cardinality(W!Inside(granted[k], start)) = 0
          BY <3>1, FS_EmptySet, Zenon
        <4> QED
          BY <2>1, <4>1
    <2> QED
      BY <2>1, <2>2 DEF WindowKept, Ascending, EndOf
  <1> QED
    BY <1>1, <1>2 DEF WindowInv

(* What is done at one key, when the time is not earlier than the newest.  *)
LEMMA WindowGrantKept ==
  ASSUME NEW k, NEW t \in 0 .. LastTime, NEW h \in Seq(0 .. LastTime), NEW g \in Seq(0 .. LastTime),
         NEW top \in Int, top <= t, NEW limit \in Nat,
         Ascending(g, top), EndOf(h, g, top), Len(W!Popped(h, t - Window)) < limit,
         \A start \in Int : Cardinality(W!Inside(g, start)) <= limit
  PROVE  /\ Ascending(Append(g, t), t)
         /\ EndOf(Append(W!Popped(h, t - Window), t), Append(g, t), t)
         /\ \A start \in Int : Cardinality(W!Inside(Append(g, t), start)) <= limit
  <1>1. t \in Int /\ t - Window \in Int
    BY WindowCardinality
  <1>2. W!Popped(h, t - Window) \in Seq(0 .. LastTime)
    BY <1>1, PoppedTyped
  <1>3. EndOf(W!Popped(h, t - Window), g, t)
    BY <1>1, PoppedEndOf
  <1> QED
    BY <1>2, <1>3, JoinedEndOf, JoinedAscending, JoinedWindow

LEMMA WindowCheck ==
  ASSUME WindowInv, NEW r \in Requests, W!check(r) PROVE WindowInv'
  <1>1. PICK k, t, q : /\ k = Head(asker[r].keys) /\ t = asker[r].time
                       /\ q = W!Popped(hits[k], t - Window)
    OBVIOUS
  <1>2. /\ asker[r].keys \in Seq(WindowKeys) /\ asker[r].keys # <<>> /\ t >= 0
        /\ asker[r] \in [keys : Seq(WindowKeys), time : -1 .. LastTime]
        /\ asker \in [Requests -> [keys : Seq(WindowKeys), time : -1 .. LastTime]]
    BY <1>1 DEF WindowInv, W!TypeOK, W!check
  <1>3. /\ k \in WindowKeys /\ Tail(asker[r].keys) \in Seq(WindowKeys)
        /\ t \in 0 .. LastTime /\ t \in Int /\ t - Window \in Int
    BY <1>1, <1>2, WindowCardinality
  <1>4. /\ hits \in [WindowKeys -> Seq(0 .. LastTime)] /\ granted \in [WindowKeys -> Seq(0 .. LastTime)]
        /\ \A j \in WindowKeys : Len(hits[j]) <= Ceiling[j] /\ Ceiling[j] \in Nat
        /\ known \subseteq WindowKeys /\ now \in 0 .. LastTime
        /\ newest \in 0 .. LastTime /\ newest \in Int /\ late \in BOOLEAN
    BY WindowCardinality DEF WindowInv, W!TypeOK
  <1>5. q \in Seq(0 .. LastTime) /\ Len(q) <= Len(hits[k]) /\ Len(q) \in Nat /\ Len(hits[k]) \in Nat
    BY <1>1, <1>3, <1>4, PoppedTyped, TimesAreNumbers
  <1>6. /\ newest' = IF t > newest THEN t ELSE newest
        /\ late' = (late \/ t < newest) /\ now' = now
    BY <1>1 DEF W!check
  <1>7. newest' \in 0 .. LastTime /\ late' \in BOOLEAN /\ now' \in 0 .. LastTime
    BY <1>3, <1>4, <1>6
  <1>8. ~late' => ~late /\ newest <= t /\ newest' = t
    <2>1. SUFFICES ASSUME ~late' PROVE ~late /\ newest <= t /\ newest' = t
      OBVIOUS
    <2>2. ~late /\ ~(t < newest)
      BY <1>6, <2>1
    <2>3. newest <= t
      BY <1>3, <1>4, <2>2
    <2>4. newest' = t
      BY <1>3, <1>4, <1>6, <2>3
    <2> QED
      BY <2>2, <2>3, <2>4
  <1>9. CASE Len(q) >= Ceiling[k]
    <2>1. /\ hits' = [hits EXCEPT ![k] = q] /\ known' = known \cup {k} /\ granted' = granted
          /\ asker' = [asker EXCEPT ![r] = W!Gone]
      BY <1>1, <1>9 DEF W!check
    <2>2. hits' \in [WindowKeys -> Seq(0 .. LastTime)] /\ known' \subseteq WindowKeys
      BY <1>3, <1>4, <1>5, <2>1
    <2>3. \A j \in WindowKeys : Len(hits'[j]) <= Ceiling[j]
      <3> TAKE j \in WindowKeys
      <3>1. CASE j = k
        BY <1>3, <1>4, <1>5, <2>1, <3>1
      <3>2. CASE j # k
        BY <1>4, <2>1, <3>2
      <3> QED
        BY <3>1, <3>2
    <2>4. asker' \in [Requests -> [keys : Seq(WindowKeys), time : -1 .. LastTime]]
      BY <1>2, <2>1, WindowCardinality DEF W!Gone
    <2>5. W!TypeOK'
      BY <1>4, <1>7, <2>1, <2>2, <2>3, <2>4 DEF W!TypeOK
    <2>6. ASSUME ~late', NEW j \in WindowKeys PROVE WindowKept(j)'
      <3>1. WindowKept(j) /\ newest <= t /\ newest' = t
        BY <1>8, <2>6 DEF WindowInv
      <3>2. hits[j] \in Seq(0 .. LastTime) /\ granted[j] \in Seq(0 .. LastTime)
        BY <1>4
      <3>3. Ascending(granted[j], t) /\ EndOf(hits[j], granted[j], t)
        BY <1>3, <1>4, <3>1, <3>2, LaterWindow DEF WindowKept
      <3>4. EndOf(W!Popped(hits[j], t - Window), granted[j], t)
        BY <1>3, <1>4, <3>1, <3>2, PoppedEndOf DEF WindowKept
      <3>5. EndOf(hits'[j], granted[j], t)
        <4>1. CASE j = k
          BY <1>1, <1>3, <1>4, <2>1, <3>4, <4>1
        <4>2. CASE j # k
          BY <1>4, <2>1, <3>3, <4>2
        <4> QED
          BY <4>1, <4>2
      <3> QED
        BY <2>1, <3>1, <3>3, <3>5 DEF WindowKept
    <2> QED
      BY <2>5, <2>6 DEF WindowInv
  <1>10. CASE ~(Len(q) >= Ceiling[k])
    <2>1. PICK grown, swept :
            /\ grown = [hits EXCEPT ![k] = Append(q, t)]
            /\ swept = IF W!Cardinality(known \cup {k}) > MaxKeys
                       THEN W!_evict(grown, t - Window) ELSE {}
      OBVIOUS
    <2>2. /\ hits' = [j \in WindowKeys |-> IF j \in swept THEN <<>> ELSE grown[j]]
          /\ known' = (known \cup {k}) \ swept
          /\ asker' = [asker EXCEPT ![r] = [keys |-> Tail(asker[r].keys), time |-> -1]]
          /\ granted' = [granted EXCEPT ![k] = Append(granted[k], t)]
      BY <1>1, <1>10, <2>1 DEF W!check
    <2>3. /\ Append(q, t) \in Seq(0 .. LastTime) /\ Len(Append(q, t)) = Len(q) + 1
          /\ Append(granted[k], t) \in Seq(0 .. LastTime)
      BY <1>3, <1>4, <1>5, AppendProperties
    <2>4. \A j \in WindowKeys : /\ grown[j] \in Seq(0 .. LastTime) /\ Len(grown[j]) <= Ceiling[j]
                                /\ j \in swept => W!Stale(grown[j], t - Window)
      <3> TAKE j \in WindowKeys
      <3>1. grown[j] = IF j = k THEN Append(q, t) ELSE hits[j]
        BY <1>4, <2>1
      <3>2. Len(q) + 1 <= Ceiling[k]
        BY <1>3, <1>4, <1>5, <1>10
      <3>3. j \in swept => W!Stale(grown[j], t - Window)
        BY <2>1 DEF W!_evict
      <3> QED
        BY <1>4, <2>3, <3>1, <3>2, <3>3
    <2>5. /\ hits' \in [WindowKeys -> Seq(0 .. LastTime)]
          /\ \A j \in WindowKeys : Len(hits'[j]) <= Ceiling[j]
      <3>1. \A j \in WindowKeys : hits'[j] = IF j \in swept THEN <<>> ELSE grown[j]
        BY <2>2
      <3>2. <<>> \in Seq(0 .. LastTime) /\ Len(<<>>) = 0
        OBVIOUS
      <3>3. \A j \in WindowKeys : (IF j \in swept THEN <<>> ELSE grown[j]) \in Seq(0 .. LastTime)
        BY <2>4, <3>2
      <3>4. ASSUME NEW j \in WindowKeys PROVE Len(hits'[j]) <= Ceiling[j]
        <4>1. CASE j \in swept
          <5>1. hits'[j] = <<>> /\ Ceiling[j] \in Nat
            BY <1>4, <3>1, <4>1
          <5> QED
            BY <3>2, <5>1
        <4>2. CASE j \notin swept
          BY <2>4, <3>1, <4>2
        <4> QED
          BY <4>1, <4>2
      <3> QED
        BY <2>2, <3>3, <3>4
    <2>6. granted' \in [WindowKeys -> Seq(0 .. LastTime)] /\ known' \subseteq WindowKeys
      BY <1>3, <1>4, <2>2, <2>3
    <2>7. asker' \in [Requests -> [keys : Seq(WindowKeys), time : -1 .. LastTime]]
      BY <1>2, <1>3, <2>2, WindowCardinality
    <2>8. W!TypeOK'
      BY <1>7, <2>5, <2>6, <2>7 DEF W!TypeOK
    <2>9. ASSUME ~late', NEW j \in WindowKeys PROVE WindowKept(j)'
      <3>1. WindowKept(j) /\ newest <= t /\ newest' = t
        BY <1>8, <2>9 DEF WindowInv
      <3>2. hits[j] \in Seq(0 .. LastTime) /\ granted[j] \in Seq(0 .. LastTime)
        BY <1>4
      <3>3. /\ Ascending(granted'[j], t) /\ EndOf(grown[j], granted'[j], t)
            /\ \A start \in Int : Cardinality(W!Inside(granted'[j], start)) <= Ceiling[j]
        <4>1. CASE j = k
          <5>1. Len(W!Popped(hits[k], t - Window)) < Ceiling[k]
            <6>1. Ceiling[k] \in Nat /\ Len(q) \in Nat /\ ~(Len(q) >= Ceiling[k])
              BY <1>3, <1>4, <1>5, <1>10
            <6>2. Len(q) < Ceiling[k]
              BY <6>1
            <6> QED
              BY <1>1, <6>2
          <5>2. granted'[k] = Append(granted[k], t) /\ grown[k] = Append(q, t)
            BY <1>3, <1>4, <2>1, <2>2
          <5> QED
            BY <1>1, <1>3, <1>4, <3>1, <3>2, <4>1, <5>1, <5>2, WindowGrantKept DEF WindowKept
        <4>2. CASE j # k
          <5>1. granted'[j] = granted[j] /\ grown[j] = hits[j]
            BY <1>4, <2>1, <2>2, <4>2
          <5> QED
            BY <1>3, <1>4, <3>1, <3>2, <5>1, LaterWindow DEF WindowKept
        <4> QED
          BY <4>1, <4>2
      <3>4. granted'[j] \in Seq(0 .. LastTime)
        BY <2>6
      <3>5. EndOf(hits'[j], granted'[j], t)
        <4>1. CASE j \in swept
          <5>1. hits'[j] = <<>> /\ grown[j] \in Seq(0 .. LastTime) /\ W!Stale(grown[j], t - Window)
            BY <2>2, <2>4, <4>1
          <5> QED
            BY <1>3, <3>3, <3>4, <5>1, SweptEndOf
        <4>2. CASE j \notin swept
          BY <2>2, <3>3, <4>2
        <4> QED
          BY <4>1, <4>2
      <3> QED
        BY <3>1, <3>3, <3>5 DEF WindowKept
    <2> QED
      BY <2>8, <2>9 DEF WindowInv
  <1> QED
    BY <1>9, <1>10

LEMMA WindowStep == WindowInv /\ [W!Next]_(W!vars) => WindowInv'
  <1> SUFFICES ASSUME WindowInv, [W!Next]_(W!vars) PROVE WindowInv'
    OBVIOUS
  <1>0. /\ asker \in [Requests -> [keys : Seq(WindowKeys), time : -1 .. LastTime]]
        /\ now \in 0 .. LastTime /\ LastTime \in Nat
    BY WindowCardinality DEF WindowInv, W!TypeOK
  <1>1. CASE W!Tick
    <2>1. now' \in 0 .. LastTime
      BY <1>0, <1>1 DEF W!Tick
    <2>2. UNCHANGED <<hits, known, asker, granted, newest, late>>
      BY <1>1 DEF W!Tick
    <2> QED
      BY <2>1, <2>2 DEF WindowInv, W!TypeOK, WindowKept
  <1>2. ASSUME NEW r \in Requests, W!Arrive(r) PROVE WindowInv'
    <2>1. PICK ks \in Asks : asker' = [asker EXCEPT ![r] = [keys |-> ks, time |-> now]]
      BY <1>2 DEF W!Arrive
    <2>2. asker' \in [Requests -> [keys : Seq(WindowKeys), time : -1 .. LastTime]]
      BY <1>0, <2>1, WindowCardinality
    <2>3. UNCHANGED <<now, hits, known, granted, newest, late>>
      BY <1>2 DEF W!Arrive
    <2> QED
      BY <2>2, <2>3 DEF WindowInv, W!TypeOK, WindowKept
  <1>3. ASSUME NEW r \in Requests, W!ReadClock(r) PROVE WindowInv'
    <2>1. asker' = [asker EXCEPT ![r].time = now]
      BY <1>3 DEF W!ReadClock
    <2>2. asker' \in [Requests -> [keys : Seq(WindowKeys), time : -1 .. LastTime]]
      BY <1>0, <2>1
    <2>3. UNCHANGED <<now, hits, known, granted, newest, late>>
      BY <1>3 DEF W!ReadClock
    <2> QED
      BY <2>2, <2>3 DEF WindowInv, W!TypeOK, WindowKept
  <1>4. CASE UNCHANGED W!vars
    BY <1>4 DEF W!vars, WindowInv, W!TypeOK, WindowKept
  <1> QED
    BY <1>1, <1>2, <1>3, <1>4, WindowCheck DEF W!Next

LEMMA WindowInvariant == SafeSpec => []WindowInv
  <1> QED
    BY WindowRuns, WindowStarts, WindowStep, PTL DEF W!Spec

(* The lock and the two keys of a request, with every sweep of the table:  *)
(* no window sees more hits of a key than its limit while requests are     *)
(* checked in the order they read the clock.                               *)
THEOREM WindowsHold == SafeSpec => []WindowHolds
  <1>1. WindowInv => WindowHolds
    <2> SUFFICES ASSUME WindowInv, ~late, NEW k \in WindowKeys, NEW start \in 0 .. LastTime
                 PROVE  W!Cardinality(W!Inside(granted[k], start)) <= Ceiling[k]
      BY DEF WindowHolds, W!WindowHolds
    <2>1. start \in Int
      BY WindowCardinality
    <2> QED
      BY <2>1, WindowCardinality DEF WindowInv, WindowKept
  <1> QED
    BY <1>1, WindowInvariant, PTL

-----------------------------------------------------------------------------
(* RejectionNotices.                                                       *)

LEMMA NoticesRun == SafeSpec => N!Spec
  <1>1. SafeInit => N!Init
    BY DEF SafeInit
  <1>2. [SafeNext]_safeVars => [N!Next]_(N!vars)
    BY DEF SafeNext, At, safeVars, noticeVars, N!vars
  <1> QED
    BY <1>1, <1>2, PTL DEF SafeSpec, N!Spec

(* Requests that nobody forces, about to send.                             *)
Sending == {r \in Requests : sender[r].pc = "send" /\ ~sender[r].force}

(* A notice nobody forces is on its way.                                   *)
Unforced == \E r \in Requests : N!OnItsWay(r) /\ ~sender[r].force

(* Notices that went out and that are about to, each but the first by an   *)
(* overlap or an upset; while none is on record, the first is on its way.  *)
NoticesInHand ==
    /\ unasked + Cardinality(Sending) <= 1 + overlaps + upsets
    /\ recorded = 0 => \/ unasked + Cardinality(Sending) <= overlaps + upsets
                       \/ Unforced /\ unasked + Cardinality(Sending) <= 1 + overlaps + upsets

NoticeInv == N!TypeOK /\ IsFiniteSet(Sending) /\ NoticesInHand

LEMMA InitNotices == N!Init => NoticeInv
  <1> SUFFICES ASSUME N!Init PROVE NoticeInv
    OBVIOUS
  <1>1. N!TypeOK
    BY NoticeConstants DEF N!Init, N!TypeOK, N!Over, N!NoticeAssumption
  <1>2. Sending = {}
    BY DEF N!Init, N!Over, Sending
  <1> QED
    BY <1>1, <1>2, FS_EmptySet DEF NoticeInv, NoticesInHand, N!Init

(* Wherever a request goes on to, it is typed.                             *)
NoticeRequests == [pc : {"idle", "look", "send", "record"}, force : BOOLEAN]

LEMMA RequestTyped ==
  ASSUME N!TypeOK, NEW r \in Requests,
         \/ sender' = [sender EXCEPT ![r] = N!Over]
         \/ \E pc \in {"look", "send", "record"} : sender' = [sender EXCEPT ![r].pc = pc]
  PROVE  sender' \in [Requests -> NoticeRequests]
  <1>1. sender \in [Requests -> NoticeRequests] /\ sender[r] \in NoticeRequests
    BY DEF N!TypeOK, NoticeRequests
  <1>2. N!Over \in NoticeRequests
    BY DEF N!Over, NoticeRequests
  <1>3. \A pc \in {"look", "send", "record"} : [sender[r] EXCEPT !.pc = pc] \in NoticeRequests
    BY <1>1 DEF NoticeRequests
  <1>4. \E v \in NoticeRequests : sender' = [sender EXCEPT ![r] = v]
    BY <1>2, <1>3
  <1> QED
    BY <1>1, <1>4

(* What a step of one request does to the number about to send.            *)
LEMMA SendingJoined ==
  ASSUME NoticeInv, NEW r \in Requests, r \notin Sending, Sending' = Sending \cup {r}
  PROVE  IsFiniteSet(Sending') /\ Cardinality(Sending') = Cardinality(Sending) + 1
  BY FS_AddElement DEF NoticeInv

LEMMA SendingLeft ==
  ASSUME NoticeInv, NEW r \in Sending, Sending' = Sending \ {r}
  PROVE  IsFiniteSet(Sending') /\ Cardinality(Sending') = Cardinality(Sending) - 1
  BY FS_RemoveElement DEF NoticeInv

(* A request to send a notice, or the end of the status that allows it.    *)
LEMMA AskingKeeps ==
  ASSUME NoticeInv,
         N!set_run_status \/ \E r \in Requests, force \in BOOLEAN : N!send_rejection_email(r, force)
  PROVE  NoticeInv'
  <1> USE DEF NoticeInv
  <1>1. N!TypeOK'
    <2>1. CASE N!set_run_status
      BY <2>1 DEF N!set_run_status, N!TypeOK
    <2>2. CASE \E r \in Requests, force \in BOOLEAN : N!send_rejection_email(r, force)
      <3>1. PICK r \in Requests, force \in BOOLEAN : N!send_rejection_email(r, force)
        BY <2>2
      <3>2. sender' \in [Requests -> [pc : {"idle", "look", "send", "record"}, force : BOOLEAN]]
        BY <3>1 DEF N!send_rejection_email, N!TypeOK
      <3> QED
        BY <3>1, <3>2, NoticeConstants DEF N!send_rejection_email, N!TypeOK, N!NoticeAssumption
    <2> QED
      BY <2>1, <2>2
  <1>2. \A r \in Requests : \/ sender'[r] = sender[r]
                            \/ sender[r].pc = "idle" /\ sender'[r].pc = "look"
    BY DEF N!set_run_status, N!send_rejection_email, N!TypeOK
  <1>3. Sending' = Sending /\ Unforced' = Unforced
    BY <1>2 DEF Sending, Unforced, N!OnItsWay
  <1>4. UNCHANGED <<recorded, unasked, overlaps, upsets>>
    BY DEF N!set_run_status, N!send_rejection_email
  <1> QED
    BY <1>1, <1>3, <1>4 DEF NoticesInHand

(* The history is looked at: with nothing on record a request goes on, and *)
(* if another is on its way, the two overlap.                              *)
LEMMA LookKeeps ==
  ASSUME NoticeInv, NEW r \in Requests, N!last_successful_send(r) PROVE NoticeInv'
  <1> USE DEF NoticeInv
  <1>0. /\ UNCHANGED <<rejected, recorded, unasked, asked, upsets>>
        /\ overlaps' = IF \E q \in Requests : N!OnItsWay(q) THEN overlaps + 1 ELSE overlaps
        /\ sender[r].pc = "look"
    BY DEF N!last_successful_send
  <1>1. N!TypeOK'
    <2>1. sender' \in [Requests -> NoticeRequests]
      BY RequestTyped DEF N!last_successful_send, N!End, N!Proceed
    <2> QED
      BY <1>0, <2>1 DEF N!TypeOK, NoticeRequests
  <1>2. Cardinality(Sending) \in Nat /\ unasked \in Nat /\ overlaps \in Nat /\ upsets \in Nat
    BY FS_CardinalityType, NoticeConstants DEF N!TypeOK, N!NoticeAssumption
  <1>3. overlaps' \in {overlaps, overlaps + 1}
    BY <1>0
  <1>4. CASE sender' = [sender EXCEPT ![r] = N!Over] \/ sender[r].force
    <2>1. Sending' = Sending /\ Unforced' = Unforced
      BY <1>0, <1>4
      DEF N!last_successful_send, N!End, N!Proceed, N!Over, N!TypeOK, Sending, Unforced, N!OnItsWay
    <2> QED
      BY <1>0, <1>1, <1>2, <1>3, <2>1 DEF NoticesInHand
  <1>5. CASE sender' = [sender EXCEPT ![r].pc = "send"] /\ ~sender[r].force
    <2>1. Sending' = Sending \cup {r} /\ r \notin Sending /\ Unforced'
      BY <1>0, <1>5 DEF N!TypeOK, Sending, Unforced, N!OnItsWay
    <2>2. IsFiniteSet(Sending') /\ Cardinality(Sending') = Cardinality(Sending) + 1
      BY <2>1, SendingJoined
    <2>3. recorded = 0
      <3>1. recorded > 0 => sender' = [sender EXCEPT ![r] = N!Over]
        BY <1>5 DEF N!last_successful_send, N!Blocked, N!End
      <3>2. sender'[r].pc = "send" /\ [sender EXCEPT ![r] = N!Over][r].pc = "idle"
        BY <1>5 DEF N!TypeOK, N!Over
      <3> QED
        BY <3>1, <3>2 DEF N!TypeOK
    <2>4. Unforced => overlaps' = overlaps + 1
      BY <1>0 DEF Unforced
    <2> QED
      BY <1>0, <1>1, <1>2, <1>3, <2>1, <2>2, <2>3, <2>4 DEF NoticesInHand
  <1> QED
    BY <1>4, <1>5 DEF N!last_successful_send, N!Blocked, N!End, N!Proceed

(* A notice goes out or does not, and is recorded or is not.               *)
LEMMA SendKeeps ==
  ASSUME NoticeInv, NEW r \in Requests, N!send(r) \/ N!log_activity(r) \/ N!Crash(r)
  PROVE  NoticeInv'
  <1> USE DEF NoticeInv
  <1>0. /\ UNCHANGED <<rejected, asked, overlaps>>
        /\ upsets' \in {upsets, upsets + 1} /\ upsets' \in 0 .. MaxUpsets
        /\ sender[r].pc # "idle"
        /\ sender' = [sender EXCEPT ![r] = N!Over] \/ sender' = [sender EXCEPT ![r].pc = "record"]
    BY NoticeConstants
    DEF N!send, N!log_activity, N!Crash, N!End, N!Proceed, N!TypeOK, N!NoticeAssumption
  <1>1. Cardinality(Sending) \in Nat /\ unasked \in Nat /\ overlaps \in Nat /\ upsets \in Nat
    BY FS_CardinalityType, NoticeConstants DEF N!TypeOK, N!NoticeAssumption
  <1>2. unasked' \in Nat /\ recorded' \in Nat
    BY DEF N!send, N!log_activity, N!Crash, N!Counted, N!TypeOK
  <1>3. N!TypeOK'
    <2>1. sender' \in [Requests -> NoticeRequests]
      BY <1>0, RequestTyped
    <2> QED
      BY <1>0, <1>2, <2>1 DEF N!TypeOK, NoticeRequests
  <1>4. CASE r \in Sending
    <2>1. Sending' = Sending \ {r}
      BY <1>0, <1>4 DEF Sending, N!TypeOK, N!Over
    <2>2. IsFiniteSet(Sending') /\ Cardinality(Sending') = Cardinality(Sending) - 1
      BY <1>4, <2>1, SendingLeft
    <2>3. /\ recorded' = recorded
          /\ \/ unasked' = unasked /\ upsets' \in {upsets, upsets + 1}
             \/ unasked' = unasked + 1 /\ upsets' = upsets + 1
             \/ unasked' = unasked + 1 /\ upsets' = upsets /\ Unforced'
      <3>1. sender[r].pc = "send" /\ ~sender[r].force
        BY <1>4 DEF Sending
      <3>2. CASE N!send(r) /\ sender' = [sender EXCEPT ![r].pc = "record"]
        <4>1. Unforced'
          BY <3>1, <3>2 DEF Unforced, N!OnItsWay, N!TypeOK
        <4> QED
          BY <1>0, <3>1, <3>2, <4>1 DEF N!send, N!Counted
      <3>3. CASE N!Crash(r)
        BY <1>0, <3>3 DEF N!Crash
      <3>4. CASE N!send(r) /\ N!End(r)
        <4>1. ~N!Proceed(r, "record")
          BY <3>4 DEF N!End, N!Proceed, N!Over, N!TypeOK
        <4> QED
          BY <1>0, <3>1, <3>4, <4>1 DEF N!send, N!Counted
      <3> QED
        BY <3>1, <3>2, <3>3, <3>4 DEF N!send, N!log_activity, N!Proceed
    <2> QED
      BY <1>0, <1>1, <1>3, <2>2, <2>3 DEF NoticesInHand
  <1>5. CASE r \notin Sending
    <2>1. Sending' = Sending
      BY <1>0, <1>5 DEF Sending, N!TypeOK, N!Over
    <2>2. unasked' = unasked
      BY <1>5 DEF N!send, N!log_activity, N!Crash, N!Counted, Sending
    <2>3. CASE recorded' # 0
      BY <1>0, <1>1, <1>3, <2>1, <2>2, <2>3 DEF NoticesInHand
    <2>4. CASE recorded' = 0
      <3>1. recorded = 0 /\ ~N!log_activity(r)
        BY <2>4 DEF N!send, N!log_activity, N!Crash, N!TypeOK
      <3>2. upsets' = upsets + 1 \/ (Unforced => Unforced')
        <4>1. CASE N!send(r)
          <5>1. \A q \in Requests : q # r => sender'[q] = sender[q]
            BY <1>0 DEF N!TypeOK
          <5>2. sender[r].force
            BY <1>5, <4>1 DEF N!send, Sending
          <5> QED
            BY <5>1, <5>2 DEF Unforced, N!OnItsWay
        <4>2. CASE N!Crash(r)
          BY <4>2 DEF N!Crash
        <4> QED
          BY <3>1, <4>1, <4>2
      <3> QED
        BY <1>0, <1>1, <1>3, <2>1, <2>2, <3>1, <3>2 DEF NoticesInHand
    <2> QED
      BY <2>3, <2>4
  <1> QED
    BY <1>4, <1>5

LEMMA NoticeInvariant == N!Spec => []NoticeInv
  <1>1. NoticeInv /\ [N!Next]_(N!vars) => NoticeInv'
    <2> SUFFICES ASSUME NoticeInv, [N!Next]_(N!vars) PROVE NoticeInv'
      OBVIOUS
    <2>1. CASE UNCHANGED N!vars
      BY <2>1 DEF N!vars, NoticeInv, N!TypeOK, Sending, NoticesInHand, Unforced, N!OnItsWay
    <2> QED
      BY <2>1, AskingKeeps, LookKeeps, SendKeeps DEF N!Next
  <1> QED
    BY <1>1, InitNotices, PTL DEF N!Spec

(* However requests to notify a vendor interleave, are forced, fail or die, *)
(* a second notice nobody asked for takes an overlap or an upset.          *)
THEOREM SecondNoticesAreRaces == SafeSpec => []SecondNoticeTakesARace
  <1>1. NoticeInv => SecondNoticeTakesARace
    <2> SUFFICES ASSUME NoticeInv PROVE SecondNoticeTakesARace
      OBVIOUS
    <2>1. Cardinality(Sending) \in Nat /\ unasked \in Nat /\ overlaps \in Nat /\ upsets \in Nat
      BY FS_CardinalityType, NoticeConstants DEF NoticeInv, N!TypeOK, N!NoticeAssumption
    <2> QED
      BY <2>1 DEF NoticeInv, NoticesInHand, SecondNoticeTakesARace, N!SecondNoticeTakesARace
  <1> QED
    BY <1>1, NoticesRun, NoticeInvariant, PTL

-----------------------------------------------------------------------------
(* DocumentCopies.                                                         *)

LEMMA CopiesRun == SafeSpec => D!Spec
  <1>1. SafeInit => D!Init
    BY DEF SafeInit
  <1>2. [SafeNext]_safeVars => [D!Next]_(D!vars)
    BY DEF SafeNext, At, safeVars, copyVars, D!vars
  <1> QED
    BY <1>1, <1>2, PTL DEF SafeSpec, D!Spec

(* A reader has at most one key, of a document whose request is over.      *)
ReadersHaveKeys ==
    /\ reading \in [Readers -> [keys : SUBSET Keys, saw : {"nothing", "whole", "gone"}]]
    /\ \A r \in Readers : \A k \in reading[r].keys :
          saving[k] = "over" /\ reading[r].keys = {k}

(* Bytes come before the row, and a row leaves before its bytes, unless    *)
(* these were lost with a store that does not outlive a restart.           *)
BytesFirst ==
    /\ \A k \in Keys : saving[k] = "saved" => k \in bytes
    /\ \A k \in rows \cup doomed : saving[k] = "over"
    /\ rows \cap doomed = {}
    /\ rows \subseteq bytes \cup wiped
    /\ durable => wiped = {}

CopyInv == D!TypeOK /\ ReadersHaveKeys /\ BytesFirst /\ RowHasItsBytes

LEMMA InitCopies == D!Init => CopyInv
  <1> SUFFICES ASSUME D!Init PROVE CopyInv
    OBVIOUS
  <1> USE DEF D!Init, D!NotReading, D!Stages
  <1>1. D!TypeOK
    BY CopiesConstants DEF D!TypeOK, D!CopiesAssumption
  <1>2. ReadersHaveKeys
    BY DEF ReadersHaveKeys
  <1>3. BytesFirst
    BY DEF BytesFirst
  <1>4. RowHasItsBytes
    BY DEF RowHasItsBytes, D!RowHasItsBytes
  <1> QED
    BY <1>1, <1>2, <1>3, <1>4 DEF CopyInv

(* The request that keeps a document.                                      *)
LEMMA SavingKeeps ==
  ASSUME CopyInv, NEW k \in Keys,
         D!_persist_document(k) \/ D!save(k) \/ D!save_document(k) \/ D!SaveFails(k)
  PROVE  CopyInv'
  <1> USE CopiesConstants
      DEF D!_persist_document, D!save, D!save_document, D!SaveFails, D!MayRecord,
          D!CopiesAssumption, CopyInv, D!TypeOK, D!Stages
  <1>1. D!TypeOK'
    OBVIOUS
  <1>2. /\ saving[k] # "over" /\ k \notin rows /\ UNCHANGED <<reading, doomed, durable, wiped>>
        /\ \A j \in Keys : saving[j] = "over" => saving'[j] = "over" /\ j # k
    BY DEF BytesFirst
  <1>3. ReadersHaveKeys'
    BY <1>2 DEF ReadersHaveKeys
  <1>4. BytesFirst'
    <2>1. CASE D!_persist_document(k) \/ D!SaveFails(k)
      BY <2>1, <1>2 DEF BytesFirst
    <2>2. CASE D!save(k)
      BY <2>2, <1>2 DEF BytesFirst
    <2>3. CASE D!save_document(k)
      BY <2>3, <1>2 DEF BytesFirst
    <2> QED
      BY <2>1, <2>2, <2>3
  <1>5. RowHasItsBytes'
    <2>1. \A r \in Readers : k \notin reading[r].keys /\ rows' \subseteq rows \cup {k}
      BY <1>2 DEF ReadersHaveKeys
    <2> QED
      BY <1>2, <1>4, <2>1 DEF RowHasItsBytes, D!RowHasItsBytes, BytesFirst
  <1> QED
    BY <1>1, <1>3, <1>4, <1>5

(* The reset, and what it deletes.                                         *)
LEMMA ResetKeeps ==
  ASSUME CopyInv, D!clear_run_history \/ \E k \in Keys : D!delete(k)
  PROVE  CopyInv'
  <1> USE CopiesConstants
      DEF D!clear_run_history, D!delete, D!CopiesAssumption, CopyInv, D!TypeOK, D!Stages
  <1>1. D!TypeOK'
    OBVIOUS
  <1>2. UNCHANGED <<saving, reading, durable, wiped>> /\ rows' \subseteq rows
    OBVIOUS
  <1>3. ReadersHaveKeys'
    BY <1>2 DEF ReadersHaveKeys
  <1>4. BytesFirst'
    BY <1>2 DEF BytesFirst
  <1>5. RowHasItsBytes'
    BY <1>2, <1>4 DEF RowHasItsBytes, D!RowHasItsBytes, BytesFirst
  <1> QED
    BY <1>1, <1>3, <1>4, <1>5

(* A reader takes a key from a row, and looks for the bytes.               *)
LEMMA ReadingKeeps ==
  ASSUME CopyInv, NEW r \in Readers, D!read(r) \/ \E k \in Keys : D!get_document_for_run(r, k)
  PROVE  CopyInv'
  <1> USE DEF CopyInv
  <1>1. UNCHANGED <<saving, runs, durable, bytes, wiped, rows, doomed, spoilt>>
    BY DEF D!read, D!get_document_for_run
  <1>2. BytesFirst'
    BY <1>1 DEF BytesFirst
  <1>3. CASE \E k \in Keys : D!get_document_for_run(r, k)
    <2>1. PICK k \in Keys : D!get_document_for_run(r, k)
      BY <1>3
    <2>2. saving[k] = "over" /\ reading' = [reading EXCEPT ![r] = [keys |-> {k}, saw |-> "nothing"]]
      BY <2>1 DEF D!get_document_for_run, BytesFirst
    <2>3. ReadersHaveKeys'
      BY <1>1, <2>2 DEF ReadersHaveKeys
    <2>4. D!TypeOK' /\ RowHasItsBytes'
      BY <1>1, <2>2, <2>3 DEF D!TypeOK, RowHasItsBytes, D!RowHasItsBytes, ReadersHaveKeys
    <2> QED
      BY <1>2, <2>3, <2>4
  <1>4. CASE D!read(r)
    <2>1. PICK k \in Keys : reading[r].keys = {k}
      BY <1>4 DEF D!read, ReadersHaveKeys
    <2>2. reading' = [reading EXCEPT ![r].saw = IF k \in bytes THEN "whole" ELSE "gone"]
      BY <1>4, <2>1 DEF D!read
    <2>3. ReadersHaveKeys'
      BY <1>1, <2>2 DEF ReadersHaveKeys
    <2>4. D!TypeOK'
      BY <1>1, <2>3 DEF D!TypeOK, ReadersHaveKeys
    <2>5. RowHasItsBytes'
      BY <1>1, <2>1, <2>2 DEF RowHasItsBytes, D!RowHasItsBytes, ReadersHaveKeys
    <2> QED
      BY <1>2, <2>3, <2>4, <2>5
  <1> QED
    BY <1>3, <1>4

(* A restart ends every request, and may take the bytes with it.           *)
LEMMA RestartKeeps == ASSUME CopyInv, D!Restart PROVE CopyInv'
  <1> USE DEF CopyInv
  <1>1. /\ UNCHANGED <<runs, durable, rows, spoilt>>
        /\ saving' = [k \in Keys |-> IF saving[k] = "free" THEN "free" ELSE "over"]
        /\ doomed' = {} /\ reading' = [r \in Readers |-> D!NotReading]
        /\ \/ UNCHANGED <<bytes, wiped>>
           \/ ~durable /\ bytes' = {} /\ wiped' = wiped \cup bytes
    BY DEF D!Restart
  <1>2. D!TypeOK'
    BY <1>1 DEF D!TypeOK, D!Stages, D!NotReading
  <1>3. ReadersHaveKeys'
    BY <1>1 DEF ReadersHaveKeys, D!NotReading
  <1>4. BytesFirst'
    BY <1>1 DEF BytesFirst, D!TypeOK, D!Stages
  <1>5. RowHasItsBytes'
    BY <1>1, <1>4 DEF RowHasItsBytes, D!RowHasItsBytes, BytesFirst, D!NotReading
  <1> QED
    BY <1>2, <1>3, <1>4, <1>5

LEMMA CopyInvariant == D!Spec => []CopyInv
  <1>1. CopyInv /\ [D!Next]_(D!vars) => CopyInv'
    <2> SUFFICES ASSUME CopyInv, [D!Next]_(D!vars) PROVE CopyInv'
      OBVIOUS
    <2>1. CASE UNCHANGED D!vars
      BY <2>1 DEF D!vars, CopyInv, D!TypeOK, ReadersHaveKeys, BytesFirst, RowHasItsBytes,
                  D!RowHasItsBytes
    <2> QED
      BY <2>1, SavingKeeps, ResetKeeps, ReadingKeeps, RestartKeeps DEF D!Next
  <1> QED
    BY <1>1, InitCopies, PTL DEF D!Spec

(* A row names bytes that are there, or that were lost at a restart with a *)
(* store that does not outlive one, whatever request, reset or deletion is *)
(* under way, and whichever of them fails or is cut short.                 *)
THEOREM RowsHaveTheirBytes == SafeSpec => []RowHasItsBytes
  <1>1. CopyInv => RowHasItsBytes
    BY DEF CopyInv
  <1> QED
    BY <1>1, CopiesRun, CopyInvariant, PTL

-----------------------------------------------------------------------------
(* ConnectionPool.                                                         *)

LEMMA PoolRuns == SafeSpec => P!Spec
  <1>1. SafeInit => P!Init
    BY DEF SafeInit
  <1>2. [SafeNext]_safeVars => [P!Next]_(P!vars)
    BY DEF SafeNext, At, safeVars, poolVars, P!vars
  <1> QED
    BY <1>1, <1>2, PTL DEF SafeSpec, P!Spec

LEMMA PoolCardinality ==
  /\ \A S : P!Cardinality(S) = Cardinality(S)
  /\ IsFiniteSet(Callers) /\ None \notin Callers
  /\ MaxOut \in Nat \ {0} /\ Patience \in Nat /\ MaxFaults \in Nat
  <1>1. \A S : P!Cardinality(S) = Cardinality(S) /\ (P!IsFiniteSet(S) <=> IsFiniteSet(S))
    BY DEF P!Cardinality, Cardinality, P!IsFiniteSet, IsFiniteSet
  <1>2. IsFiniteSet(Callers) /\ None \notin Callers /\ MaxOut \in Nat \ {0} /\ Patience \in Nat
    BY <1>1, PoolConstants DEF P!PoolAssumption
  <1> QED
    BY <1>1, <1>2, QuotaAssumption

CallerPlaces == {"away", "close", "make", "name", "found", "poll", "set", "using"}

CallerRows == [pc : CallerPlaces, pool : Callers \cup {None}, polls : 0 .. Patience]

Holding(p) == {c \in Callers : caller[c].pc \in {"set", "using"} /\ caller[c].pool = p}

(* A pool is made once by its caller, who has found none; the one in force *)
(* is one of them, and its database has a name once its maker is through.  *)
PoolsAreMade ==
    /\ closed \subseteq made
    /\ IF current = None THEN made = {} ELSE current \in made
    /\ \A c \in Callers :
          /\ c \in made => named \/ caller[c].pc = "name"
          /\ caller[c].pc \in {"close", "make"} => c \notin made

(* Whoever has a pool has one that was made.                               *)
CallersHavePools ==
    \A c \in Callers :
        /\ caller[c].pc \in {"name", "found"} => current # None
        /\ caller[c].pc \in {"poll", "set", "using"} => caller[c].pool \in made

(* A pool is closed by another caller than its own, that is to make one.   *)
ClosedByAnother ==
    /\ \A p \in closed : \E c \in Callers \ {p} :
          c \in made \cup unmade \/ caller[c].pc = "make"
    /\ current \in closed => unmade # {} \/ \E c \in Callers : caller[c].pc = "make"

(* What is out of an open pool is held or lost, and fits it.               *)
PoolsAddUp ==
    \A p \in Callers :
        /\ IF p \in closed THEN out[p] = 0 /\ free[p] = 0
           ELSE out[p] = lost[p] + Cardinality(Holding(p))
        /\ out[p] + free[p] <= MaxOut
        /\ p \notin made => out[p] = 0 /\ free[p] = 0

PoolInv == P!TypeOK /\ PoolsAreMade /\ CallersHavePools /\ ClosedByAnother /\ PoolsAddUp

(* The holders of a pool are callers, and finitely many.                   *)
LEMMA HoldersAreFew ==
  \A p : IsFiniteSet(Holding(p)) /\ Cardinality(Holding(p)) \in Nat
  <1> SUFFICES ASSUME NEW p PROVE IsFiniteSet(Holding(p)) /\ Cardinality(Holding(p)) \in Nat
    OBVIOUS
  <1>1. Holding(p) \subseteq Callers
    BY DEF Holding
  <1> QED
    BY <1>1, PoolCardinality, FS_Subset, FS_CardinalityType

LEMMA InitPool == P!Init => PoolInv
  <1> SUFFICES ASSUME P!Init PROVE PoolInv
    OBVIOUS
  <1>a. P!Away \in CallerRows /\ P!Away.pc = "away"
    BY PoolCardinality DEF P!Away, CallerRows, CallerPlaces
  <1>b. caller \in [Callers -> CallerRows] /\ \A c \in Callers : caller[c].pc = "away"
    BY <1>a DEF P!Init
  <1>c. /\ free \in [Callers -> Nat] /\ out \in [Callers -> Int] /\ lost \in [Callers -> Nat]
        /\ misses \in 0 .. MaxFaults
    <2>1. /\ free = [p \in Callers |-> 0] /\ out = [p \in Callers |-> 0]
          /\ lost = [p \in Callers |-> 0] /\ misses = 0
      BY DEF P!Init
    <2> QED
      BY <2>1, PoolCardinality
  <1>d. /\ named \in BOOLEAN /\ current = None
        /\ made = {} /\ closed = {} /\ unmade = {}
    BY ZenonT(10) DEF P!Init
  <1>1. P!TypeOK
    BY <1>b, <1>c, <1>d DEF P!TypeOK, CallerRows, CallerPlaces
  <1>2. \A p : Holding(p) = {}
    BY <1>b DEF Holding
  <1>3. PoolsAreMade /\ CallersHavePools /\ ClosedByAnother
    BY <1>b, <1>d DEF PoolsAreMade, CallersHavePools, ClosedByAnother
  <1>4. PoolsAddUp
    <2>1. \A p \in Callers : out[p] = 0 /\ free[p] = 0 /\ lost[p] = 0
      BY DEF P!Init
    <2>2. \A p \in Callers : Cardinality(Holding(p)) = 0
      BY <1>2, FS_EmptySet
    <2>3. \A p \in Callers : p \notin closed
      BY ONLY <1>d, Zenon
    <2>4. /\ \A p \in Callers : out[p] = lost[p] + Cardinality(Holding(p))
          /\ \A p \in Callers : out[p] + free[p] <= MaxOut
      BY <2>1, <2>2, PoolCardinality
    <2> QED
      BY <2>1, <2>3, <2>4, Zenon DEF PoolsAddUp
  <1> QED
    BY <1>1, <1>3, <1>4 DEF PoolInv

(* What a caller does to its own row.                                      *)
LEMMA CallerGoes ==
  ASSUME P!TypeOK, NEW c \in Callers, NEW pc \in CallerPlaces, P!Goes(c, pc)
  PROVE  /\ caller' \in [Callers -> CallerRows]
         /\ \A e \in Callers : e # c => caller'[e] = caller[e]
         /\ caller'[c].pc = pc /\ caller'[c].pool = caller[c].pool
  <1>1. caller \in [Callers -> CallerRows]
    BY DEF P!TypeOK, CallerRows, CallerPlaces
  <1>2. [caller[c] EXCEPT !.pc = pc] \in CallerRows
    BY <1>1 DEF CallerRows
  <1> QED
    BY <1>1, <1>2 DEF P!Goes, CallerRows

LEMMA CallerLeaves ==
  ASSUME P!TypeOK, NEW c \in Callers, P!Leaves(c)
  PROVE  /\ caller' \in [Callers -> CallerRows]
         /\ \A e \in Callers : e # c => caller'[e] = caller[e]
         /\ caller'[c].pc = "away"
  <1>1. caller \in [Callers -> CallerRows]
    BY DEF P!TypeOK, CallerRows, CallerPlaces
  <1>2. P!Away \in CallerRows /\ P!Away.pc = "away"
    BY PoolCardinality DEF P!Away, CallerRows, CallerPlaces
  <1> QED
    BY <1>1, <1>2 DEF P!Leaves

(* A caller that holds no connection, before and after, changes no count.  *)
LEMMA SameHolders ==
  ASSUME NEW c \in Callers, \A e \in Callers : e # c => caller'[e] = caller[e],
         caller[c].pc \notin {"set", "using"}, caller'[c].pc \notin {"set", "using"}
  PROVE  \A p : Holding(p)' = Holding(p)
  BY DEF Holding

(* A caller that moves on without a pool made, closed or failed to be made *)
(* leaves behind no pool that is closed for want of a new one.             *)
LEMMA StillClosedByAnother ==
  ASSUME ClosedByAnother, NEW c \in Callers, UNCHANGED <<current, made, closed, unmade>>,
         \A e \in Callers : e # c => caller'[e] = caller[e], caller[c].pc # "make"
  PROVE  ClosedByAnother'
  BY DEF ClosedByAnother

(* The pool is looked for, named and returned.                             *)
LEMMA FindKeeps ==
  ASSUME PoolInv, NEW c \in Callers, P!FindPool(c) \/ P!SetDsn(c) \/ P!ReturnPool(c)
  PROVE  PoolInv'
  <1> USE DEF PoolInv
  <1>0. /\ UNCHANGED <<current, made, closed, unmade, free, out, lost, misses>>
        /\ named' \in BOOLEAN /\ (named => named')
    BY DEF P!FindPool, P!SetDsn, P!ReturnPool, P!TypeOK
  <1>1. /\ caller' \in [Callers -> CallerRows]
        /\ \A e \in Callers : e # c => caller'[e] = caller[e]
        /\ caller[c].pc \in {"away", "name", "found"}
        /\ \/ caller'[c].pc = "close" /\ (current = None \/ ~named) /\ caller[c].pc = "away"
           \/ caller'[c].pc = "found" /\ current # None /\ named'
           \/ caller'[c].pc = "poll" /\ caller'[c].pool = current /\ caller[c].pc = "found"
    <2>1. CASE P!FindPool(c)
      <3> DEFINE pc == IF current # None /\ named THEN "found" ELSE "close"
      <3>1. P!Goes(c, pc) /\ pc \in CallerPlaces /\ caller[c].pc = "away" /\ named' = named
        BY <2>1 DEF P!FindPool, CallerPlaces
      <3> HIDE DEF pc
      <3>2. caller'[c].pc = pc /\ caller' \in [Callers -> CallerRows]
            /\ \A e \in Callers : e # c => caller'[e] = caller[e]
        BY <3>1, CallerGoes
      <3> QED
        BY <3>1, <3>2 DEF pc
    <2>2. CASE P!SetDsn(c)
      <3>1. P!Goes(c, "found") /\ "found" \in CallerPlaces /\ caller[c].pc = "name" /\ named'
        BY <2>2 DEF P!SetDsn, CallerPlaces
      <3>2. current # None
        BY <3>1 DEF CallersHavePools
      <3> QED
        BY <3>1, <3>2, CallerGoes
    <2>3. CASE P!ReturnPool(c)
      <3>1. [pc |-> "poll", pool |-> current, polls |-> 0] \in CallerRows
        BY PoolCardinality DEF CallerRows, CallerPlaces, P!TypeOK
      <3> QED
        BY <2>3, <3>1 DEF P!ReturnPool, P!TypeOK, CallerRows, CallerPlaces
    <2> QED
      BY <2>1, <2>2, <2>3
  <1>2. P!TypeOK'
    BY <1>0, <1>1 DEF P!TypeOK, CallerRows, CallerPlaces
  <1>3. \A p : Holding(p)' = Holding(p)
    BY <1>1, SameHolders
  <1>4. PoolsAreMade'
    BY <1>0, <1>1, PoolCardinality DEF PoolsAreMade
  <1>5. CallersHavePools'
    BY <1>0, <1>1 DEF CallersHavePools, PoolsAreMade
  <1>6. ClosedByAnother'
    BY <1>0, <1>1, StillClosedByAnother
  <1>7. PoolsAddUp'
    BY <1>0, <1>3 DEF PoolsAddUp
  <1> QED
    BY <1>2, <1>4, <1>5, <1>6, <1>7

(* A first caller closes the pool it found without the name it looked for. *)
LEMMA CloseOldKeeps == ASSUME PoolInv, NEW c \in Callers, P!CloseOld(c) PROVE PoolInv'
  <1> USE DEF PoolInv
  <1>0. UNCHANGED <<current, named, made, unmade, misses>> /\ caller[c].pc = "close"
        /\ c \notin made
    BY DEF P!CloseOld, PoolsAreMade
  <1>1. /\ caller' \in [Callers -> CallerRows]
        /\ \A e \in Callers : e # c => caller'[e] = caller[e]
        /\ caller'[c].pc = "make"
    BY CallerGoes DEF P!CloseOld, CallerPlaces
  <1>2. \/ UNCHANGED <<closed, free, out, lost>>
        \/ /\ current \in made
           /\ closed' = closed \cup {current}
           /\ free' = [free EXCEPT ![current] = 0]
           /\ out' = [out EXCEPT ![current] = 0]
           /\ lost' = [lost EXCEPT ![current] = 0]
    BY DEF P!CloseOld, PoolsAreMade
  <1>3. P!TypeOK'
    BY <1>0, <1>1, <1>2, PoolCardinality DEF P!TypeOK, CallerRows, CallerPlaces
  <1>4. \A p : Holding(p)' = Holding(p)
    BY <1>0, <1>1, SameHolders
  <1>5. PoolsAreMade' /\ CallersHavePools'
    BY <1>0, <1>1, <1>2 DEF PoolsAreMade, CallersHavePools
  <1>6. ClosedByAnother'
    BY <1>0, <1>1, <1>2 DEF ClosedByAnother
  <1>7. PoolsAddUp'
    BY <1>0, <1>2, <1>4, PoolCardinality DEF PoolsAddUp, P!TypeOK
  <1> QED
    BY <1>3, <1>5, <1>6, <1>7

(* It makes its own, with one connection in it, or cannot.                 *)
LEMMA MakeKeeps == ASSUME PoolInv, NEW c \in Callers, P!MakePool(c) PROVE PoolInv'
  <1> USE DEF PoolInv
  <1>0. /\ UNCHANGED <<named, closed, out, lost>> /\ caller[c].pc = "make"
        /\ c \notin made /\ c \notin closed
    BY DEF P!MakePool, PoolsAreMade
  <1>1. CASE /\ made' = made \cup {c} /\ current' = c
             /\ free' = [free EXCEPT ![c] = 1]
             /\ P!Goes(c, "name")
             /\ UNCHANGED <<unmade, misses>>
    <2>1. /\ caller' \in [Callers -> CallerRows]
          /\ \A e \in Callers : e # c => caller'[e] = caller[e]
          /\ caller'[c].pc = "name"
      BY <1>1, CallerGoes DEF CallerPlaces
    <2>2. P!TypeOK'
      BY <1>0, <1>1, <2>1 DEF P!TypeOK, CallerRows, CallerPlaces
    <2>3. \A p : Holding(p)' = Holding(p)
      BY <1>0, <2>1, SameHolders
    <2>4. PoolsAreMade' /\ CallersHavePools'
      BY <1>0, <1>1, <2>1, PoolCardinality DEF PoolsAreMade, CallersHavePools
    <2>5. ClosedByAnother'
      BY <1>0, <1>1, <2>1 DEF ClosedByAnother
    <2>6. PoolsAddUp'
      <3> SUFFICES ASSUME NEW p \in Callers
                   PROVE  /\ IF p \in closed' THEN out'[p] = 0 /\ free'[p] = 0
                             ELSE out'[p] = lost'[p] + Cardinality(Holding(p)')
                          /\ out'[p] + free'[p] <= MaxOut
                          /\ p \notin made' => out'[p] = 0 /\ free'[p] = 0
        BY DEF PoolsAddUp
      <3>1. CASE p = c
        BY <1>0, <1>1, <2>3, <3>1, PoolCardinality DEF PoolsAddUp, P!TypeOK
      <3>2. CASE p # c
        BY <1>0, <1>1, <2>3, <3>2 DEF PoolsAddUp, P!TypeOK
      <3> QED
        BY <3>1, <3>2
    <2> QED
      BY <2>2, <2>4, <2>5, <2>6
  <1>2. CASE /\ misses < MaxFaults /\ misses' = misses + 1
             /\ unmade' = unmade \cup {c}
             /\ P!Leaves(c)
             /\ UNCHANGED <<made, current, free>>
    <2>1. /\ caller' \in [Callers -> CallerRows]
          /\ \A e \in Callers : e # c => caller'[e] = caller[e]
          /\ caller'[c].pc = "away"
      BY <1>2, CallerLeaves
    <2>2. P!TypeOK'
      BY <1>0, <1>2, <2>1, PoolCardinality DEF P!TypeOK, CallerRows, CallerPlaces
    <2>3. \A p : Holding(p)' = Holding(p)
      BY <1>0, <2>1, SameHolders
    <2>4. PoolsAreMade' /\ CallersHavePools'
      BY <1>0, <1>2, <2>1 DEF PoolsAreMade, CallersHavePools
    <2>5. ClosedByAnother'
      BY <1>0, <1>2, <2>1 DEF ClosedByAnother
    <2>6. PoolsAddUp'
      BY <1>0, <1>2, <2>3 DEF PoolsAddUp
    <2> QED
      BY <2>2, <2>4, <2>5, <2>6
  <1> QED
    BY <1>1, <1>2 DEF P!MakePool

(* A caller waits for a connection in vain, or waits no more.              *)
LEMMA WaitKeeps ==
  ASSUME PoolInv, NEW c \in Callers, P!getconn(c), P!Refuses(caller[c].pool) PROVE PoolInv'
  <1> USE DEF PoolInv
  <1>0. /\ UNCHANGED <<current, named, made, closed, unmade, free, out, lost, misses>>
        /\ caller[c].pc = "poll"
        /\ \/ P!Leaves(c)
           \/ /\ caller[c].polls < Patience
              /\ caller' = [caller EXCEPT ![c].polls = @ + 1]
    BY PoolCardinality DEF P!getconn, P!TypeOK
  <1>1. /\ caller' \in [Callers -> CallerRows]
        /\ \A e \in Callers : e # c => caller'[e] = caller[e]
        /\ caller'[c].pc \in {"away", "poll"}
        /\ caller'[c].pc = "poll" => caller'[c].pool = caller[c].pool
    <2>1. CASE P!Leaves(c)
      BY <2>1, CallerLeaves
    <2>2. CASE /\ caller[c].polls < Patience
               /\ caller' = [caller EXCEPT ![c].polls = @ + 1]
      BY <1>0, <2>2, PoolCardinality DEF P!TypeOK, CallerRows, CallerPlaces
    <2> QED
      BY <1>0, <2>1, <2>2
  <1>2. P!TypeOK'
    BY <1>0, <1>1 DEF P!TypeOK, CallerRows, CallerPlaces
  <1>3. \A p : Holding(p)' = Holding(p)
    BY <1>0, <1>1, SameHolders
  <1>4. PoolsAreMade' /\ CallersHavePools'
    BY <1>0, <1>1 DEF PoolsAreMade, CallersHavePools
  <1>5. ClosedByAnother'
    BY <1>0, <1>1, StillClosedByAnother
  <1>6. PoolsAddUp'
    BY <1>0, <1>3 DEF PoolsAddUp
  <1> QED
    BY <1>2, <1>4, <1>5, <1>6

(* A caller takes a connection.                                            *)
LEMMA TakeKeeps ==
  ASSUME PoolInv, NEW c \in Callers, P!getconn(c), ~P!Refuses(caller[c].pool) PROVE PoolInv'
  <1> USE DEF PoolInv
  <1>0. PICK q \in made : q = caller[c].pool
    BY DEF P!getconn, CallersHavePools
  <1>1. /\ UNCHANGED <<current, named, made, closed, unmade, lost, misses>>
        /\ caller[c].pc = "poll" /\ q \notin closed
        /\ free' = [free EXCEPT ![q] = IF @ = 0 THEN 0 ELSE @ - 1]
        /\ out' = [out EXCEPT ![q] = @ + 1]
        /\ P!Goes(c, "set")
        /\ free[q] # 0 \/ out[q] < MaxOut
    BY <1>0, PoolCardinality DEF P!getconn, P!Refuses, P!Exhausted, P!TypeOK
  <1>2. q \in Callers /\ free[q] \in Nat /\ out[q] \in Int /\ lost[q] \in Nat
    BY <1>0 DEF P!TypeOK
  <1>3. /\ caller' \in [Callers -> CallerRows]
        /\ \A e \in Callers : e # c => caller'[e] = caller[e]
        /\ caller'[c].pc = "set" /\ caller'[c].pool = q
    BY <1>0, <1>1, CallerGoes DEF CallerPlaces
  <1>4. P!TypeOK'
    <2>1. free' \in [Callers -> Nat] /\ out' \in [Callers -> Int]
      BY <1>1, <1>2 DEF P!TypeOK
    <2> QED
      BY <1>1, <1>3, <2>1 DEF P!TypeOK, CallerRows, CallerPlaces
  <1>5. c \notin Holding(q) /\ Holding(q)' = Holding(q) \cup {c}
    BY <1>1, <1>3 DEF Holding
  <1>6. \A r : r # q => Holding(r)' = Holding(r)
    BY <1>1, <1>3 DEF Holding
  <1>7. Cardinality(Holding(q)') = Cardinality(Holding(q)) + 1
    BY <1>5, HoldersAreFew, FS_AddElement
  <1>8. PoolsAddUp'
    <2> SUFFICES ASSUME NEW r \in Callers
                 PROVE  /\ IF r \in closed' THEN out'[r] = 0 /\ free'[r] = 0
                           ELSE out'[r] = lost'[r] + Cardinality(Holding(r)')
                        /\ out'[r] + free'[r] <= MaxOut
                        /\ r \notin made' => out'[r] = 0 /\ free'[r] = 0
      BY DEF PoolsAddUp
    <2>1. CASE r = q
      <3>1. /\ out'[q] = out[q] + 1 /\ lost'[q] = lost[q]
            /\ free'[q] = IF free[q] = 0 THEN 0 ELSE free[q] - 1
        BY <1>1, <1>2 DEF P!TypeOK
      <3>2. out[q] = lost[q] + Cardinality(Holding(q)) /\ out[q] + free[q] <= MaxOut
        BY <1>1, <1>2 DEF PoolsAddUp
      <3> QED
        BY <1>0, <1>1, <1>2, <1>7, <2>1, <3>1, <3>2, HoldersAreFew, PoolCardinality
    <2>2. CASE r # q
      BY <1>1, <1>6, <2>2 DEF PoolsAddUp, P!TypeOK
    <2> QED
      BY <2>1, <2>2
  <1>9. PoolsAreMade' /\ CallersHavePools'
    BY <1>0, <1>1, <1>3 DEF PoolsAreMade, CallersHavePools
  <1>10. ClosedByAnother'
    BY <1>1, <1>3, StillClosedByAnother
  <1> QED
    BY <1>4, <1>8, <1>9, <1>10

(* The schema is set, or the connection is lost, or was closed meanwhile.  *)
LEMMA SetKeeps == ASSUME PoolInv, NEW c \in Callers, P!SetSchema(c) PROVE PoolInv'
  <1> USE DEF PoolInv
  <1>0. PICK q \in made : q = caller[c].pool
    BY DEF P!SetSchema, CallersHavePools
  <1>1. /\ UNCHANGED <<current, named, made, closed, unmade, free, out>>
        /\ caller[c].pc = "set" /\ q \in Callers
    BY <1>0 DEF P!SetSchema, P!TypeOK
  <1>2. CASE P!Goes(c, "using") /\ UNCHANGED <<lost, misses>>
    <2>1. /\ caller' \in [Callers -> CallerRows]
          /\ \A e \in Callers : e # c => caller'[e] = caller[e]
          /\ caller'[c].pc = "using" /\ caller'[c].pool = q
      BY <1>0, <1>2, CallerGoes DEF CallerPlaces
    <2>2. \A r : Holding(r)' = Holding(r)
      BY <1>0, <1>1, <2>1 DEF Holding
    <2>3. P!TypeOK' /\ PoolsAreMade' /\ CallersHavePools'
      BY <1>0, <1>1, <1>2, <2>1
      DEF P!TypeOK, CallerRows, CallerPlaces, PoolsAreMade, CallersHavePools
    <2>a. PoolsAddUp'
      BY <1>1, <1>2, <2>2 DEF PoolsAddUp
    <2>4. ClosedByAnother'
      BY <1>1, <2>1, StillClosedByAnother
    <2> QED
      BY <2>3, <2>4, <2>a
  <1>3. CASE P!Leaves(c)
    <2>1. /\ caller' \in [Callers -> CallerRows]
          /\ \A e \in Callers : e # c => caller'[e] = caller[e]
          /\ caller'[c].pc = "away"
      BY <1>3, CallerLeaves
    <2>2. \/ q \in closed /\ UNCHANGED <<lost, misses>>
          \/ /\ q \notin closed
             /\ misses < MaxFaults /\ misses' = misses + 1
             /\ lost' = [lost EXCEPT ![q] = @ + 1]
      BY <1>0, <1>3, <2>1 DEF P!SetSchema, P!Goes, P!TypeOK
    <2>3. P!TypeOK'
      BY <1>1, <2>1, <2>2, PoolCardinality DEF P!TypeOK, CallerRows, CallerPlaces
    <2>4. c \in Holding(q) /\ Holding(q)' = Holding(q) \ {c}
      BY <1>0, <1>1, <2>1 DEF Holding
    <2>5. \A r : r # q => Holding(r)' = Holding(r)
      BY <1>0, <1>1, <2>1 DEF Holding
    <2>6. Cardinality(Holding(q)') = Cardinality(Holding(q)) - 1
      BY <2>4, HoldersAreFew, FS_RemoveElement
    <2>7. PoolsAddUp'
      <3> SUFFICES ASSUME NEW r \in Callers
                   PROVE  /\ IF r \in closed THEN out[r] = 0 /\ free[r] = 0
                             ELSE out[r] = lost'[r] + Cardinality(Holding(r)')
                          /\ out[r] + free[r] <= MaxOut
                          /\ r \notin made => out[r] = 0 /\ free[r] = 0
        BY <1>1 DEF PoolsAddUp
      <3>1. CASE r = q /\ q \notin closed
        <4>1. lost'[q] = lost[q] + 1 /\ lost[q] \in Nat
          BY <1>1, <2>2, <3>1 DEF P!TypeOK
        <4> QED
          BY <1>1, <2>6, <3>1, <4>1, HoldersAreFew DEF PoolsAddUp
      <3>2. CASE r # q \/ q \in closed
        BY <1>1, <2>2, <2>5, <3>2 DEF PoolsAddUp, P!TypeOK
      <3> QED
        BY <3>1, <3>2
    <2>8. PoolsAreMade' /\ CallersHavePools'
      BY <1>1, <2>1 DEF PoolsAreMade, CallersHavePools
    <2>9. ClosedByAnother'
      BY <1>1, <2>1, StillClosedByAnother
    <2> QED
      BY <2>3, <2>7, <2>8, <2>9
  <1> QED
    BY <1>2, <1>3 DEF P!SetSchema

(* A connection goes back to the pool it came from, if that is open.       *)
LEMMA CloseKeeps == ASSUME PoolInv, NEW c \in Callers, P!close(c) PROVE PoolInv'
  <1> USE DEF PoolInv
  <1>0. PICK q \in made : q = caller[c].pool
    BY DEF P!close, CallersHavePools
  <1>1. /\ UNCHANGED <<current, named, made, closed, unmade, lost, misses>>
        /\ caller[c].pc = "using" /\ P!Leaves(c)
        /\ IF q \in closed THEN UNCHANGED <<free, out>>
           ELSE out' = [out EXCEPT ![q] = @ - 1] /\ free' = [free EXCEPT ![q] = 1]
    BY <1>0 DEF P!close, P!Home
  <1>2. q \in Callers /\ free[q] \in Nat /\ out[q] \in Int /\ lost[q] \in Nat
    BY <1>0 DEF P!TypeOK
  <1>3. /\ caller' \in [Callers -> CallerRows]
        /\ \A e \in Callers : e # c => caller'[e] = caller[e]
        /\ caller'[c].pc = "away"
    BY <1>1, CallerLeaves
  <1>4. P!TypeOK'
    BY <1>1, <1>2, <1>3 DEF P!TypeOK, CallerRows, CallerPlaces
  <1>5. c \in Holding(q) /\ Holding(q)' = Holding(q) \ {c}
    BY <1>0, <1>1, <1>3 DEF Holding
  <1>6. \A r : r # q => Holding(r)' = Holding(r)
    BY <1>0, <1>1, <1>3 DEF Holding
  <1>7. Cardinality(Holding(q)') = Cardinality(Holding(q)) - 1
    BY <1>5, HoldersAreFew, FS_RemoveElement
  <1>8. PoolsAddUp'
    <2> SUFFICES ASSUME NEW r \in Callers
                 PROVE  /\ IF r \in closed' THEN out'[r] = 0 /\ free'[r] = 0
                           ELSE out'[r] = lost'[r] + Cardinality(Holding(r)')
                        /\ out'[r] + free'[r] <= MaxOut
                        /\ r \notin made' => out'[r] = 0 /\ free'[r] = 0
      BY DEF PoolsAddUp
    <2>1. CASE r = q /\ q \notin closed
      <3>1. out'[q] = out[q] - 1 /\ free'[q] = 1 /\ lost'[q] = lost[q]
        BY <1>1, <1>2, <2>1 DEF P!TypeOK
      <3>2. out[q] = lost[q] + Cardinality(Holding(q)) /\ out[q] + free[q] <= MaxOut
        BY <1>2, <2>1 DEF PoolsAddUp
      <3> QED
        BY <1>0, <1>1, <1>2, <1>7, <2>1, <3>1, <3>2, HoldersAreFew, PoolCardinality
    <2>2. CASE q \in closed
      BY <1>1, <1>6, <2>2 DEF PoolsAddUp, P!TypeOK
    <2>3. CASE r # q /\ q \notin closed
      BY <1>1, <1>6, <2>3 DEF PoolsAddUp, P!TypeOK
    <2> QED
      BY <2>1, <2>2, <2>3
  <1>9. PoolsAreMade' /\ CallersHavePools'
    BY <1>1, <1>3 DEF PoolsAreMade, CallersHavePools
  <1>10. ClosedByAnother'
    BY <1>1, <1>3, StillClosedByAnother
  <1> QED
    BY <1>4, <1>8, <1>9, <1>10

LEMMA PoolInvariant == P!Spec => []PoolInv
  <1>1. PoolInv /\ [P!Next]_(P!vars) => PoolInv'
    <2> SUFFICES ASSUME PoolInv, [P!Next]_(P!vars) PROVE PoolInv'
      OBVIOUS
    <2>1. CASE UNCHANGED P!vars
      <3>1. UNCHANGED <<current, named, made, closed, unmade, free, out, caller, lost, misses>>
        BY <2>1 DEF P!vars
      <3>2. \A p : Holding(p)' = Holding(p)
        BY <3>1 DEF Holding
      <3> QED
        BY <3>1, <3>2
        DEF PoolInv, P!TypeOK, PoolsAreMade, CallersHavePools, ClosedByAnother, PoolsAddUp
    <2> QED
      BY <2>1, FindKeeps, CloseOldKeeps, MakeKeeps, WaitKeeps, TakeKeeps, SetKeeps, CloseKeeps
      DEF P!Next
  <1> QED
    BY <1>1, InitPool, PTL DEF P!Spec

(* Whatever pools racing first callers make and close, the connections     *)
(* that are out of each open one are held or lost, and with those in it    *)
(* they never pass its limit; none is closed but by another first caller,  *)
(* and none stays in force closed but where one could not be made.         *)
THEOREM ConnectionsAreHeld == SafeSpec => []OutIsHeld
  <1>1. PoolInv => OutIsHeld
    BY PoolCardinality
    DEF PoolInv, PoolsAddUp, ClosedByAnother, OutIsHeld, P!OutIsHeld, Holding
  <1> QED
    BY <1>1, PoolRuns, PoolInvariant, PTL

-----------------------------------------------------------------------------
(* ClientPortal.                                                           *)

LEMMA PortalRuns == SafeSpec => C!Spec
  <1>1. SafeInit => C!Init
    BY DEF SafeInit
  <1>2. [SafeNext]_safeVars => [C!Next]_(C!vars)
    BY DEF SafeNext, At, safeVars, portalVars, C!vars
  <1> QED
    BY <1>1, <1>2, PTL DEF SafeSpec, C!Spec

LEMMA PortalCardinality == \A S : C!Cardinality(S) = Cardinality(S)
  BY DEF C!Cardinality, Cardinality

(* A vendor id of p whose one row has the name of the document.            *)
NamedBy(p, name) ==
    \E id \in p.vendors : C!Unambiguous(id) /\ \E r \in C!RowsOf(id) : nameOf[r] = name

(* What page p shows was sent by its client, or, sent by none, names one   *)
(* of the client's vendors.                                                *)
ShownByRight(p) ==
    \A run \in p.runs :
        /\ p.client # None
        /\ run.client = p.client \/ (run.client = None /\ NamedBy(p, run.name))

PortalInv ==
    /\ C!TypeOK /\ IsFiniteSet(filed) /\ DOMAIN page = Users
    /\ \A u \in Users : ShownByRight(page[u])

LEMMA InitPortal == C!Init => PortalInv
  <1> SUFFICES ASSUME C!Init PROVE PortalInv
    OBVIOUS
  <1>1. C!TypeOK /\ IsFiniteSet(filed)
    BY PortalConstants, PortalCardinality, FS_EmptySet
    DEF C!Init, C!TypeOK, C!PortalAssumption, C!Accounts
  <1>2. DOMAIN page = Users /\ \A u \in Users : ShownByRight(page[u])
    BY DEF C!Init, C!Nobody, ShownByRight
  <1> QED
    BY <1>1, <1>2 DEF PortalInv

(* The reference data stays, so a page keeps its right to what it shows.   *)
LEMMA RightsStay ==
  ASSUME UNCHANGED <<idOf, nameOf>>
  PROVE  \A p : ShownByRight(p) <=> ShownByRight(p)'
  BY DEF ShownByRight, NamedBy, C!Unambiguous, C!RowsOf, C!SameName

(* Accounts and tokens change; pages and invoices do not.                  *)
LEMMA AccountKeeps ==
  ASSUME PortalInv, NEW u \in Users, C!Edit(u) \/ C!SignIn(u) \/ C!Expire(u)
  PROVE  PortalInv'
  <1>1. UNCHANGED <<idOf, nameOf, page, filed>>
    BY DEF C!Edit, C!SignIn, C!Expire
  <1>2. C!Scopes(u) \subseteq C!PortalScopes \cup {"invoice:read"}
    <2>1. account[u].role \in DOMAIN C!scopes_for_roles
      BY DEF PortalInv, C!TypeOK, C!Accounts
    <2> QED
      BY <2>1 DEF C!Scopes, C!scopes_for_roles, C!PortalScopes
  <1>3. account' \in [Users -> C!Accounts]
    BY DEF PortalInv, C!TypeOK, C!Edit, C!SignIn, C!Expire
  <1>4. token' \in [Users -> SUBSET (C!PortalScopes \cup {"invoice:read"})] /\ edits' \in 0 .. MaxEdits
    BY <1>2, PortalConstants
    DEF PortalInv, C!TypeOK, C!Edit, C!SignIn, C!Expire, C!PortalAssumption
  <1>5. C!TypeOK'
    BY <1>1, <1>3, <1>4 DEF PortalInv, C!TypeOK
  <1> QED
    BY <1>1, <1>5, RightsStay DEF PortalInv

(* An invoice is filed, with room for it.                                  *)
LEMMA FiledOnce ==
  ASSUME PortalInv, Cardinality(filed) < MaxRuns, NEW run, filed' = filed \cup {run}
  PROVE  IsFiniteSet(filed') /\ Cardinality(filed') <= MaxRuns
  <1>1. IsFiniteSet(filed) /\ Cardinality(filed) \in Nat
    BY FS_CardinalityType DEF PortalInv
  <1>2. /\ IsFiniteSet(filed \cup {run})
        /\ Cardinality(filed \cup {run}) \in {Cardinality(filed), Cardinality(filed) + 1}
    BY <1>1, FS_AddElement
  <1> QED
    BY <1>1, <1>2, FS_CardinalityType, PortalConstants DEF PortalInv, C!PortalAssumption

(* Of what is on file, an account sees what it has a right to.             *)
LEMMA VisibleByRight ==
  ASSUME NEW u \in Users, C!client_binding(u)
  PROVE  ShownByRight([client |-> account[u].client, vendors |-> account[u].vendors,
                       runs |-> C!visibility_clause(u)])
  <1> DEFINE p == [client |-> account[u].client, vendors |-> account[u].vendors,
                   runs |-> C!visibility_clause(u)]
  <1>1. p.client # None
    BY DEF C!client_binding
  <1>2. ASSUME NEW name \in C!resolve_client(u) PROVE NamedBy(p, name)
    BY <1>2 DEF C!resolve_client, NamedBy
  <1>3. \A run \in p.runs : run.client = p.client \/ (run.client = None /\ NamedBy(p, run.name))
    BY <1>2 DEF C!visibility_clause
  <1> QED
    BY <1>1, <1>3 DEF ShownByRight

LEMMA PageKeeps ==
  ASSUME PortalInv, NEW u \in Users, C!list_invoices(u) \/ C!portal_submit_invoice(u)
  PROVE  PortalInv'
  <1>1. UNCHANGED <<idOf, nameOf, account, token, edits>> /\ C!client_binding(u)
    BY DEF C!list_invoices, C!portal_submit_invoice
  <1>2. PICK rs : C!Serve(u, rs)
    BY DEF C!list_invoices, C!portal_submit_invoice
  <1>3. CASE C!list_invoices(u)
    <2>1. UNCHANGED filed
      BY <1>3 DEF C!list_invoices
    <2>2. page' = [page EXCEPT ![u] = [client |-> account[u].client, vendors |-> account[u].vendors,
                                       runs |-> C!visibility_clause(u)]]
      BY <1>3 DEF C!list_invoices, C!Serve
    <2>3. \A v \in Users : ShownByRight(page'[v])
      BY <1>1, <2>2, VisibleByRight DEF PortalInv
    <2> QED
      BY <1>1, <2>1, <2>2, <2>3, RightsStay DEF PortalInv, C!TypeOK
  <1>4. CASE C!portal_submit_invoice(u)
    <2>1. PICK name \in Names \cup {None} :
             LET run == C!NewRun(account[u].client, name, ~C!represents_vendor(u, name))
             IN  filed' = filed \cup {run} /\ C!Serve(u, {run})
      BY <1>4 DEF C!portal_submit_invoice
    <2> DEFINE run == C!NewRun(account[u].client, name, ~C!represents_vendor(u, name))
    <2>2. /\ filed' = filed \cup {run}
          /\ page' = [page EXCEPT ![u] = [client |-> account[u].client,
                                          vendors |-> account[u].vendors, runs |-> {run}]]
      BY <2>1 DEF C!Serve
    <2>3. run.client = account[u].client /\ run.client # None
      BY <1>1 DEF C!NewRun, C!client_binding
    <2>4. \A v \in Users : ShownByRight(page'[v])
      BY <2>2, <2>3 DEF PortalInv, ShownByRight
    <2>5. IsFiniteSet(filed') /\ Cardinality(filed') <= MaxRuns
      BY <1>4, <2>2, FiledOnce, PortalCardinality DEF C!portal_submit_invoice
    <2>6. run.client \in Clients \cup {None} /\ run.confirm \in BOOLEAN
      BY DEF PortalInv, C!TypeOK, C!Accounts, C!NewRun, C!represents_vendor
    <2>7. C!TypeOK'
      BY <1>1, <2>2, <2>5, <2>6, PortalCardinality DEF PortalInv, C!TypeOK
    <2>8. DOMAIN page' = Users
      BY <2>2 DEF PortalInv
    <2> QED
      BY <1>1, <2>4, <2>5, <2>7, <2>8, RightsStay DEF PortalInv
  <1> QED
    BY <1>3, <1>4

LEMMA UploadKeeps == ASSUME PortalInv, C!Upload PROVE PortalInv'
  <1>1. UNCHANGED <<idOf, nameOf, account, token, page, edits>>
    BY DEF C!Upload
  <1>2. PICK name \in Names \cup {None} : filed' = filed \cup {C!NewRun(None, name, FALSE)}
    BY DEF C!Upload
  <1>3. IsFiniteSet(filed') /\ Cardinality(filed') <= MaxRuns
    BY <1>2, FiledOnce, PortalCardinality DEF C!Upload
  <1>4. /\ C!NewRun(None, name, FALSE).client = None
        /\ C!NewRun(None, name, FALSE).confirm \in BOOLEAN
    BY DEF C!NewRun
  <1>5. \A run \in filed' : run.client \in Clients \cup {None} /\ run.confirm \in BOOLEAN
    BY <1>2, <1>4 DEF PortalInv, C!TypeOK
  <1>6. C!TypeOK'
    BY <1>1, <1>3, <1>5, PortalCardinality DEF PortalInv, C!TypeOK
  <1> QED
    BY <1>1, <1>3, <1>6, RightsStay DEF PortalInv

(* A start with another vendor table: no page of the old one is left.      *)
LEMMA ReloadKeeps == ASSUME PortalInv, C!init_db PROVE PortalInv'
  <1>1. /\ UNCHANGED <<account, token, filed>> /\ edits' = edits + 1 /\ edits < MaxEdits
        /\ page' = [u \in Users |-> C!Nobody]
    BY DEF C!init_db
  <1>2. C!TypeOK'
    BY <1>1, PortalConstants DEF PortalInv, C!TypeOK, C!PortalAssumption
  <1>3. \A u \in Users : ShownByRight(page[u])'
    BY <1>1 DEF C!Nobody, ShownByRight
  <1> QED
    BY <1>1, <1>2, <1>3 DEF PortalInv

LEMMA PortalInvariant == C!Spec => []PortalInv
  <1>1. PortalInv /\ [C!Next]_(C!vars) => PortalInv'
    <2> SUFFICES ASSUME PortalInv, [C!Next]_(C!vars) PROVE PortalInv'
      OBVIOUS
    <2>1. CASE UNCHANGED C!vars
      <3>1. UNCHANGED <<idOf, nameOf, account, token, filed, page, edits>>
        BY <2>1 DEF C!vars
      <3> QED
        BY <3>1, RightsStay DEF PortalInv, C!TypeOK
    <2> QED
      BY <2>1, AccountKeeps, PageKeeps, UploadKeeps, ReloadKeeps DEF C!Next
  <1> QED
    BY <1>1, InitPortal, PTL DEF C!Spec

(* Two unambiguous vendors of one name are one.                            *)
LEMMA NamesAreOwn ==
  ASSUME NEW p, NEW q, NEW name, NamedBy(p, name), NamedBy(q, name)
  PROVE  p.vendors \cap q.vendors # {}
  <1>1. PICK a \in p.vendors : C!Unambiguous(a) /\ \E r \in C!RowsOf(a) : nameOf[r] = name
    BY DEF NamedBy
  <1>2. PICK b \in q.vendors : C!Unambiguous(b) /\ \E r \in C!RowsOf(b) : nameOf[r] = name
    BY DEF NamedBy
  <1>3. PICK r \in C!RowsOf(a) : nameOf[r] = name
    BY <1>1
  <1>4. PICK s \in C!RowsOf(b) : nameOf[s] = name
    BY <1>2
  <1>5. s \in C!SameName(r) /\ C!SameName(r) = {r}
    BY <1>1, <1>3, <1>4 DEF C!Unambiguous, C!SameName, C!RowsOf
  <1>6. idOf[r] = a /\ idOf[s] = b
    BY <1>3, <1>4 DEF C!RowsOf
  <1> QED
    BY <1>5, <1>6

(* However accounts, names and invoices come and go, clients that stand    *)
(* for no common vendor id are shown no invoice in common.                 *)
THEOREM ClientsStayIsolated == SafeSpec => []ClientsAreIsolated
  <1>1. PortalInv => ClientsAreIsolated
    <2> SUFFICES ASSUME PortalInv, NEW u \in Users, NEW v \in Users,
                        page[u].client # page[v].client,
                        page[u].vendors \cap page[v].vendors = {},
                        NEW run \in page[u].runs \cap page[v].runs
                 PROVE  FALSE
      BY DEF ClientsAreIsolated, C!ClientsAreIsolated
    <2>1. NamedBy(page[u], run.name) /\ NamedBy(page[v], run.name)
      BY DEF PortalInv, ShownByRight
    <2> QED
      BY <2>1, NamesAreOwn
  <1> QED
    BY <1>1, PortalRuns, PortalInvariant, PTL
=============================================================================
