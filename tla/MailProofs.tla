------------------------------ MODULE MailProofs ------------------------------
(***************************************************************************)
(* Proofs about GmailCursor and GmailGrant as Mail composes them, for any  *)
(* pollers, dates, pages, authorisations and threads, and about the mail   *)
(* side as a whole.  Those of EmailIngest are in EmailIngestProofs.        *)
(***************************************************************************)
EXTENDS Mail, EmailIngestProofs, FiniteSetTheorems, WellFoundedInduction

(* A set of natural numbers has a least element.                           *)
LEMMA LeastOf ==
  ASSUME NEW S \in SUBSET Nat, S # {} PROVE \E x \in S : \A y \in S : x <= y
  <1>1. IsWellFoundedOn(OpToRel(<, Nat), Nat)
    BY NatLessThanWellFounded
  <1>2. PICK x \in S : \A y \in S : ~(<<y, x>> \in OpToRel(<, Nat))
    BY <1>1, WFMin
  <1>3. \A y \in S : x <= y
    <2> TAKE y \in S
    <2>1. ~(<<y, x>> \in OpToRel(<, Nat))
      BY <1>2
    <2>2. <<y, x>> \in OpToRel(<, Nat) <=> y < x
      BY DEF OpToRel
    <2>3. ~(y < x) /\ x \in Nat /\ y \in Nat
      BY <2>1, <2>2
    <2> QED
      BY <2>3
  <1> QED
    BY <1>3

-----------------------------------------------------------------------------
(* GmailCursor.                                                            *)

LEMMA CursorRuns == MailSpec => C!Spec
  <1>1. MailInit => C!Init
    BY DEF MailInit
  <1>2. [MailNext]_<<focus, vars, cursorVars, grantVars>> => [C!Next]_(C!vars)
    BY DEF MailNext, InIngest, InCursor, InGrant, cursorVars, C!vars
  <1> QED
    BY <1>1, <1>2, PTL DEF MailSpec, C!Spec

LEMMA CursorNumbers ==
  /\ \A S : C!Cardinality(S) = Cardinality(S)
  /\ LastDate \in Nat /\ Overlap \in Nat /\ PageCap \in Nat /\ Batch \in Nat /\ MaxSlips \in Nat
  BY CursorConstants DEF C!Cardinality, Cardinality, C!CursorAssumption

LEMMA DatesAre == \A d \in C!Dates : d \in Nat /\ d >= 1 /\ d <= LastDate
  BY CursorNumbers DEF C!Dates

(* Some of the dates.                                                      *)
LEMMA SomeDates ==
  ASSUME NEW S, S \subseteq C!Dates
  PROVE  IsFiniteSet(S) /\ Cardinality(S) \in Nat /\ S \subseteq Nat
  <1>1. IsFiniteSet(C!Dates)
    BY CursorNumbers, FS_Interval DEF C!Dates
  <1>2. IsFiniteSet(S)
    BY <1>1, FS_Subset
  <1> QED
    BY <1>2, FS_CardinalityType, CursorNumbers DEF C!Dates

LEMMA FirstOf ==
  ASSUME NEW S, S \subseteq C!Dates, S # {}
  PROVE  C!Min(S) \in S /\ \A y \in S : C!Min(S) <= y
  <1>1. \E x \in S : \A y \in S : x <= y
    BY SomeDates, LeastOf
  <1> QED
    BY <1>1 DEF C!Min

LEMMA LastOf ==
  ASSUME NEW S, S \subseteq C!Dates, S # {}
  PROVE  C!Max(S) \in S /\ \A y \in S : C!Max(S) >= y
  <1> DEFINE fromEnd == {LastDate - x : x \in S}
  <1>1. fromEnd \in SUBSET Nat /\ fromEnd # {}
    <2>1. \A x \in S : LastDate - x \in Nat
      BY DatesAre, CursorNumbers
    <2> QED
      BY <2>1
  <1>2. PICK n \in fromEnd : \A k \in fromEnd : n <= k
    BY <1>1, LeastOf
  <1>3. PICK x \in S : n = LastDate - x
    BY <1>2
  <1>4. \A y \in S : x >= y
    <2> TAKE y \in S
    <2>1. LastDate - x <= LastDate - y
      BY <1>2, <1>3
    <2> QED
      BY <2>1, CursorNumbers DEF C!Dates
  <1> QED
    BY <1>4 DEF C!Max

LEMMA LaterOf ==
  ASSUME NEW m \in Int, NEW n \in Int PROVE C!Max({m, n}) = IF m >= n THEN m ELSE n
  <1>1. \E x \in {m, n} : \A y \in {m, n} : x >= y
    OBVIOUS
  <1>2. C!Max({m, n}) \in {m, n} /\ \A y \in {m, n} : C!Max({m, n}) >= y
    BY <1>1 DEF C!Max
  <1> QED
    BY <1>2

CursorTyped ==
    /\ arrived \subseteq C!Dates /\ stored \subseteq arrived
    /\ cut \subseteq arrived /\ slipped \subseteq arrived
    /\ batch \in [Pollers -> SUBSET arrived] /\ at \in [Pollers -> {"handle", "mark"}]
    /\ slips \in 0 .. MaxSlips
    /\ cursor = 0 \/ cursor \in arrived

(* What is on file or excused.                                             *)
Seen == stored \cup cut \cup slipped

(* A batch reaches back as far as the overlap of each message in it, and   *)
(* what a poller is to mark is on file.                                    *)
BatchReaches(w) ==
    /\ \A b \in batch[w], d \in arrived : d < b - Overlap => d \in Seen \cup batch[w]
    /\ at[w] = "mark" => batch[w] # {} /\ C!Current(w) \in stored

CursorInv ==
    /\ CursorTyped
    /\ C!PassedIsOnFile
    /\ \A w \in Pollers : BatchReaches(w)

LEMMA CursorStarts == C!Init => CursorInv
  <1> SUFFICES ASSUME C!Init PROVE CursorInv
    OBVIOUS
  <1>1. CursorTyped
    BY CursorNumbers DEF C!Init, CursorTyped
  <1> QED
    BY <1>1 DEF C!Init, CursorInv, C!PassedIsOnFile, BatchReaches

(* The cursor, and the date from which a list is asked for.                *)
LEMMA EpochIs ==
  ASSUME CursorTyped
  PROVE  /\ cursor \in 0 .. LastDate /\ cursor \in Nat
         /\ C!_cursor_epoch = IF cursor >= Overlap THEN cursor - Overlap ELSE 0
  <1>1. cursor \in 0 .. LastDate /\ cursor \in Nat
    <2>1. CASE cursor = 0
      BY <2>1, CursorNumbers
    <2>2. CASE cursor \in C!Dates
      BY <2>2, DatesAre, CursorNumbers
    <2> QED
      BY <2>1, <2>2 DEF CursorTyped
  <1>2. cursor - Overlap \in Int /\ 0 \in Int
    BY <1>1, CursorNumbers
  <1>3. C!_cursor_epoch = IF 0 >= cursor - Overlap THEN 0 ELSE cursor - Overlap
    BY <1>2, LaterOf DEF C!_cursor_epoch
  <1> QED
    BY <1>1, <1>3, CursorNumbers

LEMMA ArriveKeeps ==
  ASSUME CursorInv, NEW d \in C!Dates, C!Arrive(d) PROVE CursorInv'
  <1>1. /\ arrived' = arrived \cup {d}
        /\ UNCHANGED <<stored, cursor, batch, at, cut, slipped, slips>>
        /\ d >= C!Newest - Overlap /\ d \in Nat /\ d >= 1
    BY CursorNumbers DEF C!Arrive, C!Dates
  <1>2. CursorTyped'
    BY <1>1 DEF CursorInv, CursorTyped
  <1>3. \A b \in arrived : b \in Nat /\ d >= b - Overlap
    <2> TAKE b \in arrived
    <2>1. C!Newest = C!Max(arrived) /\ C!Max(arrived) \in arrived /\ C!Max(arrived) >= b
      BY LastOf DEF C!Newest, CursorInv, CursorTyped
    <2>2. b \in Nat /\ C!Newest \in Nat /\ C!Newest >= b
      BY <2>1, DatesAre DEF CursorInv, CursorTyped
    <2> QED
      BY <1>1, <2>2, CursorNumbers
  <1>4. ~(d < C!_cursor_epoch)
    BY <1>1, <1>3, EpochIs, CursorNumbers DEF CursorInv, CursorTyped
  <1>5. C!_cursor_epoch' = C!_cursor_epoch /\ Seen' = Seen
    BY <1>1 DEF C!_cursor_epoch, Seen
  <1>6. C!PassedIsOnFile'
    BY <1>1, <1>4, <1>5 DEF CursorInv, C!PassedIsOnFile
  <1>7. ASSUME NEW w \in Pollers PROVE BatchReaches(w)'
    <2>1. batch[w] \subseteq arrived /\ BatchReaches(w) /\ C!Current(w)' = C!Current(w)
      BY <1>1 DEF CursorInv, CursorTyped, C!Current
    <2>2. \A b \in batch[w] : ~(d < b - Overlap)
      BY <1>1, <1>3, <2>1, CursorNumbers
    <2> QED
      BY <1>1, <1>5, <2>1, <2>2 DEF BatchReaches
  <1> QED
    BY <1>2, <1>6, <1>7 DEF CursorInv

(* What is not taken is on file, beyond the pages, or later.               *)
LEMMA ChosenReaches ==
  ASSUME CursorInv, NEW b \in C!Chosen(C!_list_ids \ stored), NEW d \in arrived, d < b
  PROVE  \/ d \in Seen \/ d \in C!Offered \ C!_list_ids \/ d \in C!Chosen(C!_list_ids \ stored)
  <1> DEFINE fresh == C!_list_ids \ stored
             before(n) == {e \in fresh : e < n}
  <1>1. CASE d \notin C!Offered
    <2>1. d \in Nat /\ C!_cursor_epoch \in Nat
      BY EpochIs, DatesAre, CursorNumbers DEF CursorInv, CursorTyped
    <2>2. d < C!_cursor_epoch
      BY <1>1, <2>1 DEF C!Offered
    <2> QED
      BY <2>2 DEF CursorInv, C!PassedIsOnFile, Seen
  <1>2. CASE d \in fresh
    <2>1. fresh \subseteq C!Dates /\ b \in fresh
      BY DEF C!_list_ids, C!Offered, C!Chosen, C!Oldest, CursorInv, CursorTyped
    <2>2. before(d) \subseteq before(b)
      BY <1>2, <2>1, CursorNumbers DEF C!Dates
    <2>3. /\ Cardinality(before(d)) \in Nat /\ Cardinality(before(b)) \in Nat
          /\ Cardinality(before(d)) <= Cardinality(before(b))
      BY <2>1, <2>2, SomeDates, FS_Subset
    <2>4. Cardinality(before(b)) < Batch
      BY CursorNumbers DEF C!Chosen, C!Oldest
    <2>5. Cardinality(before(d)) < Batch
      BY <2>3, <2>4, CursorNumbers
    <2> QED
      BY <1>2, <2>5, CursorNumbers DEF C!Chosen, C!Oldest
  <1> QED
    BY <1>1, <1>2 DEF Seen

LEMMA FetchCursor ==
  ASSUME CursorInv, NEW w \in Pollers, C!Fetch(w) PROVE CursorInv'
  <1> DEFINE chosen == C!Chosen(C!_list_ids \ stored)
  <1>1. PICK unread \in SUBSET chosen :
          /\ slips + Cardinality(unread) <= MaxSlips
          /\ slips' = slips + Cardinality(unread)
          /\ slipped' = slipped \cup unread
          /\ batch' = [batch EXCEPT ![w] = chosen \ unread]
          /\ cut' = cut \cup (C!Offered \ C!_list_ids)
          /\ UNCHANGED <<arrived, stored, cursor, at>>
    BY CursorNumbers DEF C!Fetch
  <1>2. chosen \subseteq arrived /\ C!Offered \subseteq arrived /\ unread \subseteq arrived
    BY DEF C!Chosen, C!Oldest, C!_list_ids, C!Offered
  <1> HIDE DEF chosen
  <1>3. Cardinality(unread) \in Nat
    BY <1>2, SomeDates DEF CursorInv, CursorTyped
  <1>4. CursorTyped'
    BY <1>1, <1>2, <1>3, CursorNumbers DEF CursorInv, CursorTyped
  <1>5. C!PassedIsOnFile'
    BY <1>1 DEF CursorInv, C!PassedIsOnFile, C!_cursor_epoch
  <1>6. ASSUME NEW v \in Pollers PROVE BatchReaches(v)'
    <2>1. CASE v = w
      <3>1. batch'[v] = chosen \ unread /\ at[v] # "mark"
        BY <1>1, <2>1 DEF CursorInv, CursorTyped, BatchReaches, C!Fetch
      <3>2. ASSUME NEW b \in chosen, NEW d \in arrived, d < b - Overlap
            PROVE  d \in Seen' \cup batch'[v]
        <4>1. d < b
          BY <1>2, <3>2, CursorNumbers DEF CursorInv, CursorTyped, C!Dates
        <4>2. d \in Seen \/ d \in C!Offered \ C!_list_ids \/ d \in chosen
          BY <4>1, ChosenReaches DEF chosen
        <4> QED
          BY <1>1, <3>1, <4>2 DEF Seen
      <3> QED
        BY <1>1, <3>1, <3>2 DEF BatchReaches
    <2>2. CASE v # w
      <3>1. batch'[v] = batch[v] /\ BatchReaches(v) /\ Seen \subseteq Seen'
        BY <1>1, <2>2 DEF CursorInv, CursorTyped, Seen
      <3>2. C!Current(v)' = C!Current(v)
        BY <3>1 DEF C!Current
      <3> QED
        BY <1>1, <3>1, <3>2 DEF BatchReaches
    <2> QED
      BY <2>1, <2>2
  <1> QED
    BY <1>4, <1>5, <1>6 DEF CursorInv

(* The oldest of a batch.                                                  *)
LEMMA CurrentIs ==
  ASSUME CursorInv, NEW w \in Pollers, batch[w] # {}
  PROVE  /\ C!Current(w) \in batch[w] /\ C!Current(w) \in arrived
         /\ \A b \in batch[w] : C!Current(w) <= b
  <1>1. batch[w] \subseteq arrived /\ batch[w] \subseteq C!Dates
    BY DEF CursorInv, CursorTyped
  <1> QED
    BY <1>1, FirstOf DEF C!Current

(* More is on file or excused, and a batch loses only that.                *)
LEMMA BatchShrinks ==
  ASSUME CursorInv, NEW w \in Pollers, NEW gone,
         stored \subseteq stored', cut' = cut, slipped \subseteq slipped', arrived' = arrived,
         batch' = [batch EXCEPT ![w] = @ \ gone], gone \subseteq Seen',
         \A v \in Pollers : v # w => at'[v] = at[v],
         at'[w] = "mark" => batch'[w] # {} /\ C!Min(batch'[w]) \in stored'
  PROVE  \A v \in Pollers : BatchReaches(v)'
  <1> TAKE v \in Pollers
  <1>1. /\ batch[v] \subseteq batch'[v] \cup gone /\ batch'[v] \subseteq batch[v]
        /\ v # w => batch'[v] = batch[v]
    BY DEF CursorInv, CursorTyped
  <1>2. Seen \subseteq Seen'
    BY DEF Seen
  <1>3. \A b \in batch'[v], d \in arrived' : d < b - Overlap => d \in Seen' \cup batch'[v]
    BY <1>1, <1>2 DEF CursorInv, BatchReaches
  <1>4. at'[v] = "mark" => batch'[v] # {} /\ C!Min(batch'[v]) \in stored'
    BY <1>1 DEF CursorInv, BatchReaches, C!Current
  <1> QED
    BY <1>3, <1>4 DEF BatchReaches, C!Current

LEMMA HandleCursor ==
  ASSUME CursorInv, NEW w \in Pollers, C!Handle(w) PROVE CursorInv'
  <1>0. /\ batch[w] # {} /\ at[w] = "handle" /\ UNCHANGED <<arrived, cursor, cut>>
        /\ C!Current(w) \in batch[w] /\ C!Current(w) \in arrived
    BY CurrentIs DEF C!Handle
  <1>1. CASE /\ stored' = stored \cup {C!Current(w)}
             /\ at' = [at EXCEPT ![w] = "mark"]
             /\ UNCHANGED <<batch, slipped, slips>>
    <2>1. CursorTyped'
      BY <1>0, <1>1 DEF CursorInv, CursorTyped
    <2>2. C!PassedIsOnFile'
      BY <1>0, <1>1 DEF CursorInv, C!PassedIsOnFile, C!_cursor_epoch
    <2>3. ASSUME NEW v \in Pollers PROVE BatchReaches(v)'
      <3>1. /\ BatchReaches(v) /\ batch'[v] = batch[v] /\ C!Current(v)' = C!Current(v)
            /\ Seen \subseteq Seen' /\ stored \subseteq stored'
        BY <1>0, <1>1 DEF CursorInv, Seen, C!Current
      <3>2. at'[v] = "mark" => batch[v] # {} /\ C!Current(v) \in stored'
        BY <1>0, <1>1, <3>1 DEF CursorInv, CursorTyped, BatchReaches
      <3> QED
        BY <1>0, <3>1, <3>2 DEF BatchReaches
    <2> QED
      BY <2>1, <2>2, <2>3 DEF CursorInv
  <1>2. CASE /\ C!Current(w) \notin stored /\ slips < MaxSlips
             /\ slips' = slips + 1
             /\ slipped' = slipped \cup {C!Current(w)}
             /\ batch' = [batch EXCEPT ![w] = @ \ {C!Current(w)}]
             /\ UNCHANGED <<stored, at>>
    <2>1. CursorTyped'
      BY <1>0, <1>2, CursorNumbers DEF CursorInv, CursorTyped
    <2>2. C!PassedIsOnFile'
      BY <1>0, <1>2 DEF CursorInv, C!PassedIsOnFile, C!_cursor_epoch
    <2>3. {C!Current(w)} \subseteq Seen' /\ at'[w] # "mark"
      BY <1>0, <1>2 DEF Seen
    <2>4. \A v \in Pollers : BatchReaches(v)'
      BY <1>0, <1>2, <2>3, BatchShrinks
    <2> QED
      BY <2>1, <2>2, <2>4 DEF CursorInv
  <1> QED
    BY <1>1, <1>2 DEF C!Handle

(* The cursor moves to the oldest of a batch, which is on file, and all    *)
(* that came long enough before it is out of the batch.                    *)
LEMMA MarkCursor ==
  ASSUME CursorInv, NEW w \in Pollers, C!mark_handled(w) PROVE CursorInv'
  <1>0. PICK b \in arrived : b = C!Current(w)
    BY CurrentIs DEF C!mark_handled
  <1>1. /\ batch[w] # {} /\ b \in stored /\ b \in batch[w] /\ \A e \in batch[w] : b <= e
        /\ cursor' = C!Max({cursor, b}) /\ batch' = [batch EXCEPT ![w] = @ \ {b}]
        /\ at' = [at EXCEPT ![w] = "handle"]
        /\ UNCHANGED <<arrived, stored, cut, slipped, slips>>
    BY <1>0, CurrentIs DEF C!mark_handled, C!Advanced, CursorInv, BatchReaches
  <1>2. b \in Nat /\ cursor \in Nat
    BY EpochIs, CursorNumbers DEF CursorInv, CursorTyped, C!Dates
  <1>3. cursor' = IF cursor >= b THEN cursor ELSE b
    BY <1>1, <1>2, LaterOf
  <1>4. CursorTyped'
    BY <1>1, <1>3 DEF CursorInv, CursorTyped
  <1>5. C!PassedIsOnFile'
    <2> SUFFICES ASSUME NEW d \in arrived, d < C!_cursor_epoch' PROVE d \in Seen
      BY <1>1 DEF C!PassedIsOnFile, Seen
    <2>1. d \in Nat
      BY CursorNumbers DEF CursorInv, CursorTyped, C!Dates
    <2>2. C!_cursor_epoch' = C!Max({0, cursor' - Overlap})
      BY DEF C!_cursor_epoch
    <2>3. cursor' \in Nat /\ cursor' - Overlap \in Int /\ 0 \in Int
      BY <1>2, <1>3, CursorNumbers
    <2>4. d < cursor' - Overlap
      BY <2>1, <2>2, <2>3, LaterOf
    <2>5. CASE cursor >= b
      <3>1. cursor' = cursor
        BY <1>3, <2>5
      <3>2. d < C!_cursor_epoch
        BY <3>1, <2>2 DEF C!_cursor_epoch
      <3> QED
        BY <3>2 DEF CursorInv, C!PassedIsOnFile, Seen
    <2>6. CASE ~(cursor >= b)
      <3>1. d < b - Overlap /\ ~(b <= d)
        BY <1>2, <1>3, <2>1, <2>4, <2>6, CursorNumbers
      <3>2. d \in Seen \cup batch[w]
        BY <1>1, <3>1 DEF CursorInv, BatchReaches
      <3> QED
        BY <1>1, <3>1, <3>2
    <2> QED
      BY <2>5, <2>6
  <1>6. {b} \subseteq Seen' /\ at'[w] # "mark" /\ \A v \in Pollers : v # w => at'[v] = at[v]
    BY <1>1 DEF Seen, CursorInv, CursorTyped
  <1>7. \A v \in Pollers : BatchReaches(v)'
    BY <1>1, <1>6, BatchShrinks
  <1> QED
    BY <1>4, <1>5, <1>7 DEF CursorInv

LEMMA CrashCursor ==
  ASSUME CursorInv, NEW w \in Pollers, C!Crash(w) PROVE CursorInv'
  <1>1. /\ slips < MaxSlips /\ slips' = slips + 1
        /\ batch' = [batch EXCEPT ![w] = {}] /\ at' = [at EXCEPT ![w] = "handle"]
        /\ UNCHANGED <<arrived, stored, cursor, cut, slipped>>
    BY DEF C!Crash
  <1>2. CursorTyped'
    BY <1>1, CursorNumbers DEF CursorInv, CursorTyped
  <1>3. C!PassedIsOnFile'
    BY <1>1 DEF CursorInv, C!PassedIsOnFile, C!_cursor_epoch
  <1>4. ASSUME NEW v \in Pollers PROVE BatchReaches(v)'
    BY <1>1 DEF CursorInv, CursorTyped, BatchReaches, C!Current, Seen
  <1> QED
    BY <1>2, <1>3, <1>4 DEF CursorInv

LEMMA CursorStep == CursorInv /\ [C!Next]_(C!vars) => CursorInv'
  <1> SUFFICES ASSUME CursorInv, [C!Next]_(C!vars) PROVE CursorInv'
    OBVIOUS
  <1>1. CASE UNCHANGED C!vars
    BY <1>1 DEF C!vars, CursorInv, CursorTyped, C!PassedIsOnFile, C!_cursor_epoch, BatchReaches,
                C!Current, Seen
  <1> QED
    BY <1>1, ArriveKeeps, FetchCursor, HandleCursor, MarkCursor, CrashCursor
    DEF C!Next, C!poll_once

(* However many pollers overlap, in whatever order Google delivers within  *)
(* the overlap: a batch is whole up to its oldest, so the cursor passes    *)
(* nothing but what is on file, cut off, or failed.                        *)
THEOREM CursorInvariant == MailSpec => []CursorInv
  BY CursorRuns, CursorStarts, CursorStep, PTL DEF C!Spec

-----------------------------------------------------------------------------
(* GmailGrant.                                                            *)

Grants == States \cup {NoGrant}

ConnectionRows == [status : {"none", "CONNECTED", "REVOKED"}, refresh : Grants, access : Grants,
                   fresh : BOOLEAN]

Renewals == [pc : {"idle", "asked", "granted", "gone", "refused", "unreachable"},
             seen : ConnectionRows]

GrantTyped ==
    /\ live \subseteq States /\ disowned \subseteq States
    /\ pending \in [States -> {"none", "open", "expired", "consumed"}]
    /\ callback \in [States -> {"none", "exchange", "save", "done"}]
    /\ row \in ConnectionRows
    /\ thread \in [Threads -> Renewals]
    /\ crossed \in BOOLEAN

(* A callback that is under way, or over, has used up its state.           *)
StateIsSpent == \A s \in States : callback[s] # "none" => pending[s] = "consumed"

(* A connection on file is of a grant whose callback is over.              *)
RowIsSettled ==
    IF G!Connected THEN row.refresh \in States /\ callback[row.refresh] = "done" ELSE row = G!NoRow

(* Whoever renews a token saw a live connection, of a grant whose callback *)
(* is over; its end or its refusal stands; and the row is still of that    *)
(* grant, unless it is gone or a mailbox was connected meanwhile.          *)
RenewalIsOfTheRow(x) ==
    x.pc # "idle" =>
        /\ x.seen.status = "CONNECTED"
        /\ x.seen.refresh \in States /\ callback[x.seen.refresh] = "done"
        /\ x.pc = "gone" => x.seen.refresh \notin live
        /\ x.pc = "refused" => x.seen.refresh \in disowned
        /\ crossed \/ ~G!Connected \/ row.refresh = x.seen.refresh

GrantInv ==
    /\ GrantTyped
    /\ StateIsSpent
    /\ RowIsSettled
    /\ \A t \in Threads : RenewalIsOfTheRow(thread[t])
    /\ G!TokensOfOneGrant
    /\ G!RevokedForGood

-----------------------------------------------------------------------------
(* Init establishes it.                                                    *)
LEMMA GrantRuns == MailSpec => G!Spec
  <1>1. MailInit => G!Init
    BY DEF MailInit
  <1>2. [MailNext]_<<focus, vars, cursorVars, grantVars>> => [G!Next]_(G!vars)
    BY DEF MailNext, InIngest, InCursor, InGrant, grantVars, G!vars
  <1> QED
    BY <1>1, <1>2, PTL DEF MailSpec, G!Spec

LEMMA InitGrant == G!Init => GrantInv
  <1> SUFFICES ASSUME G!Init PROVE GrantInv
    OBVIOUS
  <1>1. G!NoRow \in ConnectionRows /\ G!Resting \in Renewals
    BY DEF G!NoRow, ConnectionRows, Grants, G!Resting, Renewals
  <1>2. GrantTyped /\ StateIsSpent
    BY <1>1 DEF G!Init, GrantTyped, StateIsSpent
  <1>3. RowIsSettled /\ \A t \in Threads : RenewalIsOfTheRow(thread[t])
    BY DEF G!Init, RowIsSettled, G!Connected, RenewalIsOfTheRow, G!NoRow, G!Resting
  <1>4. G!TokensOfOneGrant /\ G!RevokedForGood
    BY DEF G!Init, G!TokensOfOneGrant, G!RevokedForGood, G!NoRow
  <1> QED
    BY <1>2, <1>3, <1>4 DEF GrantInv

(* The callback and the states it brings: a grant that becomes live is one *)
(* that nothing on file refers to yet.                                     *)
LEMMA AuthoriseKeeps ==
  ASSUME GrantInv, NEW s \in States,
         G!gmail_oauth_authorize(s) \/ G!Expire(s) \/ G!consume_pending_authorization(s)
  PROVE  GrantInv'
  <1>0. /\ UNCHANGED <<live, disowned, row, thread, crossed>>
        /\ \A g \in States : callback[g] = "done" => callback'[g] = "done"
    BY DEF G!gmail_oauth_authorize, G!Expire, G!consume_pending_authorization, G!MayConsume,
           GrantInv,
           GrantTyped, StateIsSpent
  <1>1. GrantTyped' /\ StateIsSpent'
    BY DEF G!gmail_oauth_authorize, G!Expire, G!consume_pending_authorization, G!MayConsume,
           GrantInv,
           GrantTyped, StateIsSpent
  <1>2. RowIsSettled' /\ \A t \in Threads : RenewalIsOfTheRow(thread[t])'
    BY <1>0 DEF GrantInv, RowIsSettled, RenewalIsOfTheRow, G!Connected
  <1>3. G!TokensOfOneGrant' /\ G!RevokedForGood'
    BY <1>0 DEF GrantInv, G!TokensOfOneGrant, G!RevokedForGood
  <1> QED
    BY <1>1, <1>2, <1>3 DEF GrantInv

LEMMA ExchangeKeeps ==
  ASSUME GrantInv, NEW s \in States, G!exchange_code(s) PROVE GrantInv'
  <1>0. /\ UNCHANGED <<disowned, row, thread, crossed, pending>> /\ callback[s] = "exchange"
        /\ live' \subseteq live \cup {s}
        /\ \A g \in States : callback[g] = "done" => callback'[g] = "done"
    BY DEF G!exchange_code, GrantInv, GrantTyped
  <1>1. GrantTyped' /\ StateIsSpent'
    BY DEF G!exchange_code, GrantInv, GrantTyped, StateIsSpent
  <1>2. RowIsSettled' /\ \A t \in Threads : RenewalIsOfTheRow(thread[t])'
    BY <1>0 DEF GrantInv, RowIsSettled, RenewalIsOfTheRow, G!Connected
  <1>3. G!TokensOfOneGrant'
    BY <1>0 DEF GrantInv, G!TokensOfOneGrant
  <1>4. G!RevokedForGood'
    BY <1>0 DEF GrantInv, G!RevokedForGood, RowIsSettled, G!Connected
  <1> QED
    BY <1>1, <1>2, <1>3, <1>4 DEF GrantInv

LEMMA SaveKeeps ==
  ASSUME GrantInv, NEW s \in States, G!save_oauth_connection(s) PROVE GrantInv'
  <1>0. /\ UNCHANGED <<disowned, thread, pending>> /\ callback[s] = "save"
        /\ callback' = [callback EXCEPT ![s] = "done"] /\ live' \subseteq live
    BY DEF G!save_oauth_connection
  <1>1. CASE /\ row' = G!NewRow(s) /\ UNCHANGED live
             /\ crossed' = (crossed \/ \E t \in Threads : thread[t].pc # "idle")
    <2>1. G!NewRow(s) \in ConnectionRows
      BY DEF G!NewRow, ConnectionRows, Grants
    <2>2. GrantTyped' /\ StateIsSpent'
      BY <1>0, <1>1, <2>1 DEF GrantInv, GrantTyped, StateIsSpent
    <2>3. RowIsSettled' /\ \A t \in Threads : RenewalIsOfTheRow(thread[t])'
      BY <1>0, <1>1 DEF GrantInv, GrantTyped, RowIsSettled, RenewalIsOfTheRow, G!Connected, G!NewRow
    <2>4. G!TokensOfOneGrant' /\ G!RevokedForGood'
      BY <1>1 DEF G!TokensOfOneGrant, G!RevokedForGood, G!NewRow
    <2> QED
      BY <2>2, <2>3, <2>4 DEF GrantInv
  <1>2. CASE UNCHANGED <<row, crossed>> /\ live' = live \ {s}
    <2>1. GrantTyped' /\ StateIsSpent'
      BY <1>0, <1>2 DEF GrantInv, GrantTyped, StateIsSpent
    <2>2. RowIsSettled' /\ \A t \in Threads : RenewalIsOfTheRow(thread[t])'
      BY <1>0, <1>2 DEF GrantInv, GrantTyped, RowIsSettled, RenewalIsOfTheRow, G!Connected
    <2>3. G!TokensOfOneGrant' /\ G!RevokedForGood'
      BY <1>0, <1>2 DEF GrantInv, G!TokensOfOneGrant, G!RevokedForGood
    <2> QED
      BY <2>1, <2>2, <2>3 DEF GrantInv
  <1> QED
    BY <1>1, <1>2 DEF G!save_oauth_connection

(* What expires, is refused, revoked or deleted.                           *)
LEMMA EndingKeeps ==
  ASSUME GrantInv,
         \/ G!TokenExpires \/ G!clear_oauth_access_token
         \/ G!StartDisconnect \/ G!revoke \/ G!delete_oauth_connection
         \/ \E s \in States : G!RevokedAtGoogle(s)
  PROVE  GrantInv'
  <1>0. /\ UNCHANGED <<disowned, callback, pending, thread, crossed>> /\ live' \subseteq live
        /\ \/ row' = G!NoRow
           \/ /\ row'.status = row.status /\ row'.refresh = row.refresh
              /\ row'.access \in {row.access, NoGrant}
              /\ row' = row \/ (row.fresh \/ G!Connected)
    BY DEF G!TokenExpires, G!clear_oauth_access_token, G!StartDisconnect, G!revoke,
           G!delete_oauth_connection, G!RevokedAtGoogle, GrantInv, GrantTyped, ConnectionRows
  <1>1. GrantTyped'
    <2>1. row' \in ConnectionRows
      <3>1. \/ row' = G!NoRow \/ row' = row
            \/ row' = [row EXCEPT !.fresh = FALSE]
            \/ row' = [row EXCEPT !.access = NoGrant, !.fresh = FALSE]
        BY DEF G!TokenExpires, G!clear_oauth_access_token, G!StartDisconnect, G!revoke,
               G!delete_oauth_connection, G!RevokedAtGoogle
      <3>2. row \in ConnectionRows /\ G!NoRow \in ConnectionRows
        BY DEF GrantInv, GrantTyped, G!NoRow, ConnectionRows, Grants
      <3>3. CASE row' = G!NoRow \/ row' = row
        BY <3>2, <3>3
      <3>4. CASE row' = [row EXCEPT !.fresh = FALSE]
        BY <3>2, <3>4 DEF ConnectionRows
      <3>5. CASE row' = [row EXCEPT !.access = NoGrant, !.fresh = FALSE]
        BY <3>2, <3>5 DEF ConnectionRows, Grants
      <3> QED
        BY <3>1, <3>3, <3>4, <3>5
    <2> QED
      BY <1>0, <2>1 DEF GrantInv, GrantTyped
  <1>2. StateIsSpent' /\ RowIsSettled'
    BY <1>0 DEF GrantInv, StateIsSpent, RowIsSettled, G!Connected, G!NoRow
  <1>3. \A t \in Threads : RenewalIsOfTheRow(thread[t])'
    BY <1>0 DEF GrantInv, RenewalIsOfTheRow, G!Connected, G!NoRow
  <1>4. G!TokensOfOneGrant' /\ G!RevokedForGood'
    BY <1>0 DEF GrantInv, G!TokensOfOneGrant, G!RevokedForGood, G!NoRow
  <1> QED
    BY <1>1, <1>2, <1>3, <1>4 DEF GrantInv

(* A thread asks Google.                                                   *)
LEMMA AskKeeps ==
  ASSUME GrantInv, NEW t \in Threads, G!StartRefresh(t) \/ G!refresh_access_token(t)
  PROVE  GrantInv'
  <1>0. /\ UNCHANGED <<callback, pending, live, row, crossed>>
        /\ \A u \in Threads : u # t => thread'[u] = thread[u]
    BY DEF G!StartRefresh, G!refresh_access_token, GrantInv, GrantTyped
  <1>a. disowned \subseteq disowned' /\ disowned' \subseteq States
    <2>1. G!Connected /\ thread[t].pc = "idle" => row.refresh \in States
      BY DEF GrantInv, RowIsSettled
    <2>2. thread[t].pc = "asked" => thread[t].seen.refresh \in States
      BY DEF GrantInv, RenewalIsOfTheRow
    <2> QED
      BY <2>1, <2>2 DEF G!StartRefresh, G!refresh_access_token, GrantInv, GrantTyped
  <1>1. thread' \in [Threads -> Renewals]
    BY DEF G!StartRefresh, G!refresh_access_token, GrantInv, GrantTyped, Renewals
  <1>2. RenewalIsOfTheRow(thread[t])'
    BY <1>0 DEF G!StartRefresh, G!refresh_access_token, GrantInv, GrantTyped, RenewalIsOfTheRow,
                G!Connected,
                RowIsSettled, ConnectionRows, Renewals
  <1>3. \A u \in Threads : RenewalIsOfTheRow(thread[u])'
    BY <1>0, <1>a, <1>2 DEF GrantInv, RenewalIsOfTheRow, G!Connected
  <1>4. GrantTyped' /\ StateIsSpent' /\ RowIsSettled' /\ G!TokensOfOneGrant' /\ G!RevokedForGood'
    BY <1>0, <1>a, <1>1
    DEF GrantInv, GrantTyped, StateIsSpent, RowIsSettled, G!Connected, G!TokensOfOneGrant,
        G!RevokedForGood
  <1> QED
    BY <1>3, <1>4 DEF GrantInv

(* It writes down what Google said, to a row that may be another by now.   *)
LEMMA WriteKeeps ==
  ASSUME GrantInv, NEW t \in Threads, G!update_oauth_tokens(t) \/ G!set_oauth_status(t)
  PROVE  GrantInv'
  <1> DEFINE g == thread[t].seen.refresh
  <1>0. /\ UNCHANGED <<callback, pending, live, disowned, crossed>>
        /\ thread' = [thread EXCEPT ![t] = G!Resting] /\ thread[t].pc # "idle"
    BY DEF G!update_oauth_tokens, G!set_oauth_status
  <1>1. /\ RenewalIsOfTheRow(thread[t]) /\ g \in States /\ callback[g] = "done"
        /\ crossed \/ ~G!Connected \/ row.refresh = g
    BY <1>0 DEF GrantInv, RenewalIsOfTheRow
  <1>2. G!Resting \in Renewals
    BY DEF G!Resting, G!NoRow, Renewals, ConnectionRows, Grants
  <1>3. CASE ~G!Connected
    <2>1. row = G!NoRow /\ row' = G!NoRow
      BY <1>3 DEF GrantInv, RowIsSettled, G!update_oauth_tokens, G!set_oauth_status, G!Written
    <2>2. /\ GrantTyped' /\ StateIsSpent' /\ RowIsSettled'
          /\ G!TokensOfOneGrant' /\ G!RevokedForGood'
      BY <1>0, <1>2, <2>1
      DEF GrantInv, GrantTyped, StateIsSpent, RowIsSettled, G!Connected, G!TokensOfOneGrant,
          G!RevokedForGood
    <2>3. \A u \in Threads : RenewalIsOfTheRow(thread[u])'
      BY <1>0, <2>1 DEF GrantInv, GrantTyped, RenewalIsOfTheRow, G!Connected, G!Resting
    <2> QED
      BY <2>2, <2>3 DEF GrantInv
  <1>4. CASE G!Connected
    <2>0. row \in ConnectionRows /\ row.refresh \in States /\ callback[row.refresh] = "done"
      BY <1>4 DEF GrantInv, RowIsSettled, GrantTyped
    <2>1. /\ row' \in ConnectionRows /\ row'.status # "none"
          /\ row'.refresh \in {row.refresh, g} /\ row'.access \in {row.access, g}
          /\ row'.status = "REVOKED" => g \notin live \/ g \in disowned
          /\ row'.access = g \/ (row'.access = row.access /\ row'.refresh = row.refresh)
      <3>1. CASE G!update_oauth_tokens(t)
        BY <1>1, <1>4, <2>0, <3>1
        DEF G!update_oauth_tokens, G!Written, ConnectionRows, Grants
      <3>2. CASE G!set_oauth_status(t)
        <4>1. row' = [row EXCEPT !.status = G!StatusAfter(t)]
          BY <1>4, <3>2 DEF G!set_oauth_status, G!Written
        <4>2. /\ G!StatusAfter(t) \in {"REVOKED", "CONNECTED"}
              /\ G!StatusAfter(t) = "REVOKED" => g \notin live \/ g \in disowned
          BY <1>0, <1>1, <3>2 DEF G!StatusAfter, G!set_oauth_status, RenewalIsOfTheRow
        <4> QED
          BY <2>0, <4>1, <4>2 DEF ConnectionRows
      <3> QED
        BY <3>1, <3>2
    <2>2. GrantTyped' /\ StateIsSpent' /\ RowIsSettled'
      BY <1>0, <1>1, <1>2, <2>0, <2>1
      DEF GrantInv, GrantTyped, StateIsSpent, RowIsSettled, G!Connected
    <2>3. \A u \in Threads : RenewalIsOfTheRow(thread[u])'
      BY <1>0, <1>1, <1>4, <2>1 DEF GrantInv, GrantTyped, RenewalIsOfTheRow, G!Connected, G!Resting
    <2>4. G!TokensOfOneGrant' /\ G!RevokedForGood'
      BY <1>0, <1>1, <1>4, <2>1 DEF GrantInv, G!TokensOfOneGrant, G!RevokedForGood
    <2> QED
      BY <2>2, <2>3, <2>4 DEF GrantInv
  <1> QED
    BY <1>3, <1>4

(* Every step of the module keeps it.                                      *)
LEMMA NextGrant == GrantInv /\ [G!Next]_(G!vars) => GrantInv'
  <1> SUFFICES ASSUME GrantInv, [G!Next]_(G!vars) PROVE GrantInv'
    OBVIOUS
  <1>1. CASE UNCHANGED G!vars
    BY <1>1 DEF G!vars, GrantInv, GrantTyped, StateIsSpent, RowIsSettled, RenewalIsOfTheRow,
                G!Connected,
                G!TokensOfOneGrant, G!RevokedForGood
  <1> QED
    BY <1>1, AuthoriseKeeps, ExchangeKeeps, SaveKeeps, EndingKeeps, AskKeeps, WriteKeeps
    DEF G!Next, G!Renew

(* The inductive invariant: a renewal under way is of the grant on file,   *)
(* unless that is gone or a mailbox was connected meanwhile.               *)
THEOREM GrantInvariant == MailSpec => []GrantInv
  BY GrantRuns, InitGrant, NextGrant, PTL DEF G!Spec

(* The access token on file is of the grant on file, and a mailbox shown   *)
(* as revoked is one whose own grant has ended or could not be renewed for *)
(* good, unless it was connected while an older grant was being renewed.   *)
THEOREM GrantStaysWhole == MailSpec => []GrantIsWhole
  <1>1. GrantInv => GrantIsWhole
    BY DEF GrantInv, GrantIsWhole
  <1> QED
    BY <1>1, GrantInvariant, PTL

(* No late answer of Google brings a disconnected mailbox back.            *)
THEOREM NothingReconnects == MailSpec => DisconnectedStays
  <1>1. GrantInv /\ [G!Next]_(G!vars) =>
          [~G!Connected /\ G!Connected'
             => \E s \in States : callback[s] = "save" /\ row'.refresh = s]_(G!vars)
    <2> SUFFICES ASSUME GrantInv, G!Next, ~G!Connected, G!Connected'
                 PROVE  \E s \in States : callback[s] = "save" /\ row'.refresh = s
      OBVIOUS
    <2>1. CASE \E s \in States : G!save_oauth_connection(s)
      BY <2>1 DEF G!save_oauth_connection, G!NewRow, G!Connected
    <2>2. CASE \E t \in Threads : G!Renew(t)
      BY <2>2 DEF G!Renew, G!StartRefresh, G!refresh_access_token, G!update_oauth_tokens,
                  G!set_oauth_status,
                  G!Written, G!Connected, G!NoRow
    <2>3. CASE \/ \E s \in States : G!gmail_oauth_authorize(s) \/ G!Expire(s) \/ G!exchange_code(s)
                     \/ G!consume_pending_authorization(s) \/ G!RevokedAtGoogle(s)
               \/ G!StartDisconnect \/ G!revoke \/ G!clear_oauth_access_token
      BY <2>3 DEF G!gmail_oauth_authorize, G!Expire, G!exchange_code,
                  G!consume_pending_authorization,
                  G!RevokedAtGoogle, G!StartDisconnect, G!revoke, G!clear_oauth_access_token,
                  G!Connected
    <2>4. CASE G!TokenExpires \/ G!delete_oauth_connection
      BY <2>4 DEF G!TokenExpires, G!delete_oauth_connection, G!Connected, G!NoRow, GrantInv,
                  RowIsSettled
    <2> QED
      BY <2>1, <2>2, <2>3, <2>4 DEF G!Next
  <1> QED
    BY <1>1, GrantInvariant, GrantRuns, PTL DEF G!Spec, DisconnectedStays, G!DisconnectedStays

-----------------------------------------------------------------------------
(* EmailIngest, and the two together.                                      *)

LEMMA IngestRuns == MailSpec => Spec
  <1>1. MailInit => Init
    BY DEF MailInit
  <1>2. [MailNext]_<<focus, vars, cursorVars, grantVars>> => [Next]_vars
    BY DEF MailNext, InIngest, InCursor, InGrant, vars
  <1> QED
    BY <1>1, <1>2, PTL DEF MailSpec, Spec

(* Neither the mark on a message nor the cursor leaves behind what is not  *)
(* on file.                                                                *)
THEOREM NothingIsPassedBy == MailSpec => []NothingPassedBy
  <1>1. CursorInv /\ HandledIsOnFile => NothingPassedBy
    BY DEF CursorInv, NothingPassedBy
  <1> QED
    BY <1>1, CursorInvariant, IngestRuns, MarkedIsOnFile, PTL
-----------------------------------------------------------------------------
(* What is left of the types.                                              *)
GrantCounted ==
    /\ exchanges \in [States -> Nat]
    /\ leaving.pc \in {"no", "revoke", "delete"}
    /\ failures \in 0 .. MaxFailures

LEMMA GrantCounts == GrantCounted /\ [G!Next]_(G!vars) => GrantCounted'
  <1> SUFFICES ASSUME GrantCounted, [G!Next]_(G!vars) PROVE GrantCounted'
    OBVIOUS
  <1>0. failures \in Nat /\ MaxFailures \in Nat /\ failures <= MaxFailures
    BY GrantConstants DEF GrantCounted, G!GrantAssumption
  <1>1. failures' \in 0 .. MaxFailures
    <2>1. failures' = failures \/ (failures < MaxFailures /\ failures' = failures + 1)
      BY DEF G!vars, G!Next, G!Renew, G!gmail_oauth_authorize, G!Expire,
             G!consume_pending_authorization, G!exchange_code, G!save_oauth_connection,
             G!RevokedAtGoogle, G!TokenExpires, G!clear_oauth_access_token, G!StartRefresh,
             G!refresh_access_token, G!update_oauth_tokens, G!set_oauth_status,
             G!StartDisconnect, G!revoke, G!delete_oauth_connection, G!Fails, G!Works
    <2> QED
      BY <1>0, <2>1
  <1>2. leaving'.pc \in {"no", "revoke", "delete"}
    <2>1. CASE G!StartDisconnect \/ G!delete_oauth_connection
      BY <2>1 DEF G!StartDisconnect, G!delete_oauth_connection, G!Staying
    <2>2. CASE G!revoke
      BY <2>2 DEF G!revoke, GrantCounted
    <2> QED
      BY <2>1, <2>2
      DEF G!vars, G!Next, G!Renew, G!gmail_oauth_authorize, G!Expire,
          G!consume_pending_authorization, G!exchange_code, G!save_oauth_connection,
          G!RevokedAtGoogle, G!TokenExpires, G!clear_oauth_access_token, G!StartRefresh,
          G!refresh_access_token, G!update_oauth_tokens, G!set_oauth_status, GrantCounted
  <1>3. exchanges' \in [States -> Nat]
    <2>1. exchanges' = exchanges \/ \E s \in States : exchanges' = [exchanges EXCEPT ![s] = @ + 1]
      BY DEF G!vars, G!Next, G!Renew, G!gmail_oauth_authorize, G!Expire,
             G!consume_pending_authorization, G!exchange_code, G!save_oauth_connection,
             G!RevokedAtGoogle, G!TokenExpires, G!clear_oauth_access_token, G!StartRefresh,
             G!refresh_access_token, G!update_oauth_tokens, G!set_oauth_status,
             G!StartDisconnect, G!revoke, G!delete_oauth_connection
    <2> QED
      BY <2>1 DEF GrantCounted
  <1> QED
    BY <1>1, <1>2, <1>3 DEF GrantCounted

(* The tables of the mail side, and how far each thread of it has got.     *)
THEOREM MailTyped == MailSpec => []MailTypes
  <1>1. G!Init => GrantCounted
    BY GrantConstants DEF G!Init, GrantCounted, G!Staying, G!GrantAssumption
  <1>2. MailSpec => []GrantCounted
    BY <1>1, GrantCounts, GrantRuns, PTL DEF G!Spec
  <1>3. GrantInv /\ GrantCounted => G!TypeOK
    <2>1. GrantInv => /\ row.status \in {"none", "CONNECTED", "REVOKED"}
                      /\ {row.refresh, row.access} \subseteq States \cup {NoGrant}
      BY DEF GrantInv, GrantTyped, ConnectionRows, Grants
    <2>2. GrantInv => \A t \in Threads :
              thread[t].pc \in {"idle", "asked", "granted", "gone", "refused", "unreachable"}
      BY DEF GrantInv, GrantTyped, Renewals
    <2> QED
      BY <2>1, <2>2 DEF GrantInv, GrantTyped, GrantCounted, G!TypeOK
  <1>4. CursorInv => C!TypeOK
    BY EpochIs DEF CursorInv, CursorTyped, C!TypeOK
  <1>5. TypeOK /\ GrantInv /\ GrantCounted /\ CursorInv => MailTypes
    BY <1>3, <1>4 DEF MailTypes
  <1> QED
    BY <1>2, <1>5, IngestRuns, IngestTyped, GrantInvariant, CursorInvariant, PTL
=============================================================================
