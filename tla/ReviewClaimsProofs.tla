------------------------- MODULE ReviewClaimsProofs -------------------------
(***************************************************************************)
(* Theorems about ReviewClaims, for any runs, reviewers and requests.      *)
(*                                                                         *)
(* Every step changes the claims of a run in one of four ways: it renews   *)
(* the newest open claim, closes it, closes it and appends another, or     *)
(* deletes them all.  The lemmas say what each way does to a run that has  *)
(* at most one open claim; the invariant is carried run by run.            *)
(***************************************************************************)
EXTENDS ReviewClaims, TLAPS

(* A request is made before it is answered.                                *)
AskedInThePast == \A q \in Requests : asked[q] # None => asked[q].at <= now

(* What the four invariants say of the claims of one run, at time t.       *)
Sound(rows, t) ==
    /\ rows \in Seq(ClaimRow)
    /\ \A i, j \in DOMAIN rows : IsOpen(rows[i]) /\ IsOpen(rows[j]) => i = j
    /\ \A i \in DOMAIN rows : IsOpen(rows[i]) => rows[i].expires_at <= t + LeaseLength

ShapesOK ==
    /\ now \in 0..MaxTime
    /\ run \in [Runs -> Run \cup {None}]
    /\ asked \in [Requests -> Request \cup {None}]

Inv ==
    /\ ShapesOK
    /\ DOMAIN claims = Runs /\ claims = [r \in Runs |-> claims[r]]
    /\ \A r \in Runs : Sound(claims[r], now)
    /\ AskedInThePast

(* A restart fills in the automated decision and nothing else.             *)
LEMMA BackfilledKeeps ==
    ASSUME NEW row \in Run
    PROVE  /\ Backfilled(row) \in Run
           /\ Backfilled(row).status = row.status
           /\ Backfilled(row).human_decision = row.human_decision
BY DEF Backfilled, Run

(* The invariant is the three that TLC checks, and one about requests.     *)
LEMMA InvGives == Inv => TypeOK /\ OneOpenClaim /\ LeaseNeverExceeded
BY DEF Inv, ShapesOK, Sound, TypeOK, OneOpenClaim, LeaseNeverExceeded, Open

(* The newest open claim is the open claim.                                *)
LEMMA NewestIsOpen ==
    ASSUME Inv, NEW r \in Runs, Open(r) # {}
    PROVE  /\ Newest(r) \in Open(r)
           /\ Open(r) = {Newest(r)}
           /\ Newest(r) \in DOMAIN claims[r]
           /\ claims[r][Newest(r)] \in ClaimRow
<1>1. PICK i \in Open(r) : TRUE
  OBVIOUS
<1>2. Sound(claims[r], now)
  BY DEF Inv
<1>3. \A j \in Open(r) : j = i
  BY <1>1, <1>2 DEF Sound, Open
<1>4. i \in Nat /\ i <= i
  BY <1>1, <1>2 DEF Sound, Open
<1>5. Newest(r) \in Open(r)
  BY <1>1, <1>3, <1>4 DEF Newest
<1> QED
  BY <1>2, <1>3, <1>5 DEF Open, Sound

(* Closing leaves no claim open, and every other claim as it was.          *)
LEMMA Closing ==
    ASSUME Inv, NEW r \in Runs, NEW reason \in Closings,
           NEW rows, rows = CloseNewest(r, reason)
    PROVE  /\ rows \in Seq(ClaimRow)
           /\ Len(rows) = Len(claims[r])
           /\ \A i \in DOMAIN rows : ~IsOpen(rows[i])
           /\ \A i \in DOMAIN claims[r] \ Open(r) : rows[i] = claims[r][i]
<1>1. Sound(claims[r], now)
  BY DEF Inv
<1>2. CASE Open(r) = {}
  BY <1>1, <1>2 DEF CloseNewest, Sound, Open
<1>3. CASE Open(r) # {}
  <2> DEFINE n == Newest(r)
  <2>1. /\ n \in DOMAIN claims[r]
        /\ claims[r][n] \in ClaimRow
        /\ Open(r) = {n}
    BY <1>3, NewestIsOpen
  <2>2. rows = [claims[r] EXCEPT ![n].release_reason = reason]
    BY <1>3 DEF CloseNewest, Close
  <2>3. [claims[r][n] EXCEPT !.release_reason = reason] \in ClaimRow
    BY <2>1 DEF ClaimRow
  <2> HIDE DEF n
  <2>4. claims[r] \in Seq(ClaimRow)
    BY <1>1 DEF Sound
  <2>5. rows = [claims[r] EXCEPT ![n] = [claims[r][n] EXCEPT !.release_reason = reason]]
    BY <2>2
  <2>6. rows \in Seq(ClaimRow) /\ Len(rows) = Len(claims[r]) /\ DOMAIN rows = DOMAIN claims[r]
    BY <2>1, <2>3, <2>4, <2>5
  <2>7. /\ rows[n].release_reason = reason
        /\ \A i \in DOMAIN rows : i # n => rows[i] = claims[r][i]
    BY <2>1, <2>4, <2>5, <2>6 DEF ClaimRow
  <2>8. reason # None
    BY ClaimsAssumption
  <2> QED
    BY <2>1, <2>6, <2>7, <2>8 DEF Open, IsOpen
<1> QED
  BY <1>2, <1>3

(* Rows with none open are sound whatever the time is.                     *)
LEMMA ClosedIsSound ==
    ASSUME NEW rows \in Seq(ClaimRow), NEW t,
           \A i \in DOMAIN rows : ~IsOpen(rows[i])
    PROVE  Sound(rows, t)
BY DEF Sound

(* A claim taken on closed rows is the only one open.                      *)
LEMMA TakingIsSound ==
    ASSUME NEW rows \in Seq(ClaimRow), NEW row \in ClaimRow, NEW t \in Nat,
           \A i \in DOMAIN rows : ~IsOpen(rows[i]),
           row.expires_at <= t + LeaseLength
    PROVE  Sound(Append(rows, row), t)
<1> DEFINE longer == Append(rows, row)
<1>1. /\ longer \in Seq(ClaimRow)
      /\ DOMAIN longer = 1..(Len(rows) + 1)
      /\ longer[Len(rows) + 1] = row
      /\ \A i \in 1..Len(rows) : longer[i] = rows[i] /\ i \in DOMAIN rows
      /\ Len(rows) \in Nat
  OBVIOUS
<1> HIDE DEF longer
<1>2. \A i \in DOMAIN longer : IsOpen(longer[i]) => i = Len(rows) + 1
  BY <1>1
<1> QED
  BY <1>1, <1>2 DEF Sound, longer

(* What is sound stays so as time goes by.                                 *)
LEMMA SoundLater ==
    ASSUME NEW rows, NEW t \in Nat, Sound(rows, t)
    PROVE  Sound(rows, t + 1)
<1>1. rows \in Seq(ClaimRow)
  BY DEF Sound
<1>2. ASSUME NEW i \in DOMAIN rows, IsOpen(rows[i])
      PROVE  rows[i].expires_at <= t + 1 + LeaseLength
  <2>1. rows[i] \in ClaimRow /\ rows[i].expires_at <= t + LeaseLength
    BY <1>1, <1>2 DEF Sound
  <2>2. rows[i].expires_at \in Int /\ LeaseLength \in Int
    BY <2>1, ClaimsAssumption DEF ClaimRow, Time
  <2> QED
    BY <2>1, <2>2
<1> QED
  BY <1>1, <1>2 DEF Sound

(* So is a run that was never claimed.                                     *)
LEMMA UnclaimedIsSound == \A t : Sound(<<>>, t)
<1>1. <<>> \in Seq(ClaimRow) /\ DOMAIN <<>> = {}
  OBVIOUS
<1> QED
  BY <1>1 DEF Sound

-----------------------------------------------------------------------------
(* No run is claimed at first.                                             *)
LEMMA InitInv == Init => Inv
<1> SUFFICES ASSUME Init PROVE Inv
  OBVIOUS
<1>1. ShapesOK
  BY ClaimsAssumption DEF Init, ShapesOK, Run, Statuses
<1>2. \A r \in Runs : claims[r] = <<>>
  BY DEF Init
<1>3. \A r \in Runs : Sound(claims[r], now)
  BY <1>2, UnclaimedIsSound
<1> QED
  BY <1>1, <1>3 DEF Inv, Init, AskedInThePast

(* A status transition keeps the claims sound, or closes what is open.     *)
LEMMA TransitionInv ==
    ASSUME Inv, NEW r \in Runs, run[r] \in Run, NEW changed \in Run,
           NEW reason \in Closings,
           apply_status_transition(r, changed, reason),
           UNCHANGED <<now, asked>>
    PROVE  Inv'
<1> DEFINE rows == CloseNewest(r, reason)
<1>1. Sound(rows, now)
  BY Closing, ClosedIsSound
<1> HIDE DEF rows
<1>2. claims' = claims \/ claims' = [claims EXCEPT ![r] = rows]
  BY DEF apply_status_transition, rows
<1>3. \A p \in Runs : Sound(claims'[p], now)
  BY <1>1, <1>2 DEF Inv
<1>4. ShapesOK'
  BY DEF Inv, ShapesOK, apply_status_transition
<1> QED
  BY <1>2, <1>3, <1>4 DEF Inv, AskedInThePast

(* Every step keeps the claims of every run sound.                         *)
LEMMA NextInv == Inv /\ [Next]_vars => Inv'
<1> SUFFICES ASSUME Inv, [Next]_vars PROVE Inv'
  OBVIOUS
<1>0. /\ now \in Nat /\ DOMAIN claims = Runs
      /\ \A r \in Runs : Sound(claims[r], now)
  BY DEF Inv, ShapesOK
<1>1. CASE UNCHANGED vars
  BY <1>1 DEF Inv, ShapesOK, AskedInThePast, vars
<1>2. CASE Tick
  <2>1. \A r \in Runs : Sound(claims'[r], now')
    BY <1>0, <1>2, SoundLater DEF Tick
  <2>2. ShapesOK' /\ AskedInThePast'
    BY <1>0, <1>2, ClaimsAssumption DEF Inv, ShapesOK, AskedInThePast, Tick, Request
  <2> QED
    BY <1>2, <2>1, <2>2 DEF Inv, Tick
<1>3. ASSUME NEW q \in Requests, RefuseClaim(q)
      PROVE  Inv'
  BY <1>3 DEF Inv, ShapesOK, AskedInThePast, RefuseClaim, Answered
<1>4. ASSUME NEW q \in Requests, RenewClaim(q)
      PROVE  Inv'
  <2> DEFINE r == asked[q].run
             at == asked[q].at
             n == Newest(r)
             rows == [claims[r] EXCEPT ![n].expires_at = Expiry(claims[r][n], at)]
  <2>1. r \in Runs /\ at \in 0..MaxTime /\ at <= now
    BY <1>4 DEF Inv, ShapesOK, AskedInThePast, RenewClaim, Request
  <2>2. Open(r) # {}
    BY <1>4 DEF RenewClaim, HeldBy, InForce
  <2>3. /\ n \in DOMAIN claims[r]
        /\ claims[r][n] \in ClaimRow
        /\ Open(r) = {n}
    BY <2>1, <2>2, NewestIsOpen
  <2>4. claims' = [claims EXCEPT ![r] = rows]
    BY <1>4 DEF RenewClaim
  <2>5. Expiry(claims[r][n], at) = at + LeaseLength /\ at + LeaseLength \in Time
    BY <2>1, ClaimsAssumption DEF Expiry, Time
  <2>6. claims[r] \in Seq(ClaimRow)
    BY <1>0, <2>1 DEF Sound
  <2> DEFINE row == [claims[r][n] EXCEPT !.expires_at = at + LeaseLength]
  <2>7. rows = [claims[r] EXCEPT ![n] = row]
    BY <2>5
  <2>8. row \in ClaimRow /\ row.expires_at = at + LeaseLength
    BY <2>3, <2>5 DEF ClaimRow
  <2> HIDE DEF rows, row, n, r, at
  <2>9. /\ rows \in Seq(ClaimRow) /\ DOMAIN rows = DOMAIN claims[r]
        /\ rows[n] = row
        /\ \A i \in DOMAIN rows : i # n => rows[i] = claims[r][i]
    BY <2>3, <2>6, <2>7, <2>8
  <2>10. \A i \in DOMAIN rows : IsOpen(rows[i]) => i = n
    BY <2>3, <2>9 DEF Open
  <2>11. row.expires_at <= now + LeaseLength
    BY <1>0, <2>1, <2>8, ClaimsAssumption
  <2>12. Sound(rows, now)
    BY <2>9, <2>10, <2>11 DEF Sound
  <2>13. \A p \in Runs : Sound(claims'[p], now)
    BY <1>0, <2>4, <2>12
  <2>14. ShapesOK' /\ AskedInThePast' /\ now' = now
    BY <1>4 DEF Inv, ShapesOK, AskedInThePast, RenewClaim, Answered
  <2> QED
    BY <1>0, <2>4, <2>13, <2>14 DEF Inv
<1>5. ASSUME NEW q \in Requests, TakeClaim(q)
      PROVE  Inv'
  <2> DEFINE r == asked[q].run
             at == asked[q].at
             row == [claimed_by |-> asked[q].by, expires_at |-> at + LeaseLength,
                     release_reason |-> None]
             rows == CloseNewest(r, "expired")
  <2>1. r \in Runs /\ at \in 0..MaxTime /\ at <= now /\ asked[q].by \in Reviewers
    BY <1>5 DEF Inv, ShapesOK, AskedInThePast, TakeClaim, Request
  <2>2. row \in ClaimRow /\ row.expires_at <= now + LeaseLength
    BY <1>0, <2>1, ClaimsAssumption DEF ClaimRow, Time
  <2>3. /\ rows \in Seq(ClaimRow)
        /\ \A i \in DOMAIN rows : ~IsOpen(rows[i])
    BY <2>1, Closing DEF Closings
  <2>4. claims' = [claims EXCEPT ![r] = Append(rows, row)]
    BY <1>5 DEF TakeClaim
  <2> HIDE DEF r, row, rows
  <2>5. Sound(Append(rows, row), now)
    BY <1>0, <2>2, <2>3, TakingIsSound
  <2>6. \A p \in Runs : Sound(claims'[p], now)
    BY <1>0, <2>4, <2>5
  <2>7. ShapesOK' /\ AskedInThePast' /\ now' = now
    BY <1>5 DEF Inv, ShapesOK, AskedInThePast, TakeClaim, Answered
  <2> QED
    BY <1>0, <2>4, <2>6, <2>7 DEF Inv
<1>6. ASSUME NEW r \in Runs, NEW u \in Reviewers, NEW q \in Requests, AskClaim(q, u, r)
      PROVE  Inv'
  <2>1. [by |-> u, run |-> r, at |-> now] \in Request
    BY DEF Inv, ShapesOK, Request
  <2>2. asked' = [asked EXCEPT ![q] = [by |-> u, run |-> r, at |-> now]]
    BY <1>6 DEF AskClaim
  <2>3. ShapesOK' /\ AskedInThePast'
    BY <1>0, <1>6, <2>1, <2>2 DEF Inv, ShapesOK, AskedInThePast, AskClaim
  <2> QED
    BY <1>6, <2>3 DEF Inv, AskClaim
<1>7. ASSUME NEW r \in Runs, NEW u \in Reviewers, NEW is_admin \in BOOLEAN,
             release_review_claim(u, r, is_admin)
      PROVE  Inv'
  <2> DEFINE rows == CloseNewest(r, "released")
  <2>1. Sound(rows, now)
    BY Closing, ClosedIsSound DEF Closings
  <2> HIDE DEF rows
  <2>2. claims' = [claims EXCEPT ![r] = rows] /\ UNCHANGED <<now, run, asked>>
    BY <1>7 DEF release_review_claim, rows
  <2>3. \A p \in Runs : Sound(claims'[p], now)
    BY <1>0, <2>1, <2>2
  <2> QED
    BY <1>0, <2>2, <2>3 DEF Inv, ShapesOK, AskedInThePast
<1>8. ASSUME NEW r \in Runs, NEW u \in Reviewers, NEW decision \in Decisions,
             record_human_review(u, r, decision)
      PROVE  Inv'
  <2> DEFINE changed == [run[r] EXCEPT !.status = Outcome(decision),
                                       !.human_decision = decision, !.reviewed_by = u]
  <2>1. run[r] \in Run
    BY <1>8 DEF record_human_review, Eligible, Inv, ShapesOK
  <2>2. changed \in Run
    BY <2>1 DEF Run, Outcome, Statuses
  <2>3. apply_status_transition(r, changed, "completed") /\ UNCHANGED <<now, asked>>
    BY <1>8 DEF record_human_review
  <2> HIDE DEF changed
  <2> QED
    BY <2>1, <2>2, <2>3, TransitionInv DEF Closings
<1>9. ASSUME NEW r \in Runs, NEW new \in Statuses, set_run_status(r, new)
      PROVE  Inv'
  <2> DEFINE changed == [run[r] EXCEPT !.status = new]
  <2>1. run[r] \in Run
    BY <1>9 DEF set_run_status, Inv, ShapesOK
  <2>2. changed \in Run
    BY <2>1 DEF Run
  <2>3. apply_status_transition(r, changed, "resolved") /\ UNCHANGED <<now, asked>>
    BY <1>9 DEF set_run_status
  <2> HIDE DEF changed
  <2> QED
    BY <2>1, <2>2, <2>3, TransitionInv DEF Closings
<1>10. CASE clear_run_history
  <2>1. \A r \in Runs : claims'[r] = <<>>
    BY <1>10 DEF clear_run_history
  <2>2. \A r \in Runs : Sound(claims'[r], now)
    BY <2>1, UnclaimedIsSound
  <2> QED
    BY <1>10, <2>2 DEF clear_run_history, Inv, ShapesOK, AskedInThePast
<1>11. CASE Restart
  <2>1. run' \in [Runs -> Run \cup {None}]
    BY <1>11, BackfilledKeeps DEF Restart, Inv, ShapesOK
  <2> QED
    BY <1>11, <2>1 DEF Restart, Inv, ShapesOK, AskedInThePast
<1> QED
  BY <1>1, <1>2, <1>3, <1>4, <1>5, <1>6, <1>7, <1>8, <1>9, <1>10, <1>11
  DEF Next, Claim, Act

(* The tables keep their shape, a run never has two open claims and no     *)
(* claim outlasts a lease from now: claim_review, release_review_claim,    *)
(* record_human_review and set_run_status in any order.                    *)
THEOREM ClaimsInvariant == Spec => [](TypeOK /\ OneOpenClaim /\ LeaseNeverExceeded)
<1>1. Inv /\ [Next]_vars => Inv'
  BY NextInv
<1> QED
  BY <1>1, InitInv, InvGives, PTL DEF Spec

(* Rows, claims and requests keep their shapes, the clock its bound.       *)
THEOREM ClaimsTyped == Spec => []TypeOK
BY ClaimsInvariant, PTL

-----------------------------------------------------------------------------
(* What the two action properties say of one run.                          *)
ClosedStay(r) ==
    run'[r] # None =>
        \A i \in DOMAIN claims[r] :
            claims[r][i].release_reason # None
                => i \in DOMAIN claims'[r] /\ claims'[r][i] = claims[r][i]

HoldEnds(r) ==
    run[r] # None /\ run'[r] # None
    /\ run[r].status = "NEEDS_REVIEW" /\ run'[r].status # "NEEDS_REVIEW"
        => \A i \in DOMAIN claims'[r] : ~IsOpen(claims'[r][i])

(* A transition touches the claims of its run, and closes them when the    *)
(* run leaves NEEDS_REVIEW.                                                *)
LEMMA TransitionKeeps ==
    ASSUME Inv, NEW r \in Runs, NEW changed, NEW reason \in Closings,
           apply_status_transition(r, changed, reason), NEW p \in Runs
    PROVE  ClosedStay(p) /\ HoldEnds(p)
<1> DEFINE rows == CloseNewest(r, reason)
<1>1. /\ rows \in Seq(ClaimRow) /\ Len(rows) = Len(claims[r])
      /\ \A i \in DOMAIN rows : ~IsOpen(rows[i])
      /\ \A i \in DOMAIN claims[r] \ Open(r) : rows[i] = claims[r][i]
  BY Closing
<1>2. claims[r] \in Seq(ClaimRow) /\ DOMAIN claims = Runs /\ DOMAIN run = Runs
  BY DEF Inv, Sound, ShapesOK
<1> HIDE DEF rows
<1>3. DOMAIN rows = DOMAIN claims[r]
  BY <1>1, <1>2
<1>4. /\ run' = [run EXCEPT ![r] = changed]
      /\ claims' = IF run[r].status = "NEEDS_REVIEW" /\ changed.status # "NEEDS_REVIEW"
                   THEN [claims EXCEPT ![r] = rows] ELSE claims
  BY DEF apply_status_transition, rows
<1>5. CASE p # r
  BY <1>2, <1>4, <1>5 DEF ClosedStay, HoldEnds
<1>6. CASE p = r /\ run[r].status = "NEEDS_REVIEW" /\ changed.status # "NEEDS_REVIEW"
  <2>1. claims'[r] = rows
    BY <1>2, <1>4, <1>6
  <2> QED
    BY <1>1, <1>3, <1>6, <2>1 DEF ClosedStay, HoldEnds, Open, IsOpen
<1>7. CASE p = r /\ ~(run[r].status = "NEEDS_REVIEW" /\ changed.status # "NEEDS_REVIEW")
  <2>1. claims' = claims /\ run'[r] = changed
    BY <1>2, <1>4, <1>7
  <2> QED
    BY <1>7, <2>1 DEF ClosedStay, HoldEnds
<1> QED
  BY <1>5, <1>6, <1>7

(* Every step keeps the closed claims, and closes what must be.            *)
LEMMA NextKeeps ==
    ASSUME Inv, [Next]_vars, NEW p \in Runs
    PROVE  ClosedStay(p) /\ HoldEnds(p)
<1>0. /\ DOMAIN claims = Runs
      /\ \A r \in Runs : claims[r] \in Seq(ClaimRow)
  BY DEF Inv, Sound
<1>1. CASE UNCHANGED <<run, claims>>
  BY <1>1 DEF ClosedStay, HoldEnds
<1>2. ASSUME NEW q \in Requests, RenewClaim(q)
      PROVE  ClosedStay(p) /\ HoldEnds(p)
  <2> DEFINE r == asked[q].run
             n == Newest(r)
             row == [claims[r][n] EXCEPT !.expires_at = Expiry(claims[r][n], asked[q].at)]
             rows == [claims[r] EXCEPT ![n] = row]
  <2>1. r \in Runs
    BY <1>2 DEF Inv, ShapesOK, RenewClaim, Request
  <2>2. n \in Open(r)
    <3>1. Open(r) # {}
      BY <1>2 DEF RenewClaim, HeldBy, InForce
    <3> QED
      BY <2>1, <3>1, NewestIsOpen
  <2>3. claims' = [claims EXCEPT ![r] = rows] /\ run' = run
    BY <1>2 DEF RenewClaim
  <2> HIDE DEF r, n, row
  <2>4. /\ DOMAIN rows = DOMAIN claims[r]
        /\ \A i \in DOMAIN rows : i # n => rows[i] = claims[r][i]
    BY <1>0, <2>1
  <2> HIDE DEF rows
  <2>5. claims'[r] = rows /\ (p # r => claims'[p] = claims[p])
    BY <1>0, <2>1, <2>3
  <2> QED
    BY <2>2, <2>3, <2>4, <2>5 DEF ClosedStay, HoldEnds, Open, IsOpen
<1>3. ASSUME NEW q \in Requests, TakeClaim(q)
      PROVE  ClosedStay(p) /\ HoldEnds(p)
  <2> DEFINE r == asked[q].run
             row == [claimed_by |-> asked[q].by, expires_at |-> asked[q].at + LeaseLength,
                     release_reason |-> None]
             rows == CloseNewest(r, "expired")
             longer == Append(rows, row)
  <2>1. r \in Runs
    BY <1>3 DEF Inv, ShapesOK, TakeClaim, Request
  <2>2. /\ rows \in Seq(ClaimRow) /\ Len(rows) = Len(claims[r])
        /\ \A i \in DOMAIN claims[r] \ Open(r) : rows[i] = claims[r][i]
    BY <2>1, Closing DEF Closings
  <2>3. claims' = [claims EXCEPT ![r] = longer] /\ run' = run
    BY <1>3 DEF TakeClaim
  <2> HIDE DEF r, row, rows
  <2>4. \A i \in DOMAIN claims[r] : i \in DOMAIN longer /\ longer[i] = rows[i]
    BY <1>0, <2>1, <2>2
  <2> HIDE DEF longer
  <2>5. claims'[r] = longer /\ (p # r => claims'[p] = claims[p])
    BY <1>0, <2>1, <2>3
  <2> QED
    BY <2>2, <2>3, <2>4, <2>5 DEF ClosedStay, HoldEnds, Open, IsOpen
<1>4. ASSUME NEW r \in Runs, NEW u \in Reviewers, NEW is_admin \in BOOLEAN,
             release_review_claim(u, r, is_admin)
      PROVE  ClosedStay(p) /\ HoldEnds(p)
  <2> DEFINE rows == CloseNewest(r, "released")
  <2>1. /\ rows \in Seq(ClaimRow) /\ Len(rows) = Len(claims[r])
        /\ \A i \in DOMAIN claims[r] \ Open(r) : rows[i] = claims[r][i]
    BY Closing DEF Closings
  <2>2. claims' = [claims EXCEPT ![r] = rows] /\ run' = run
    BY <1>4 DEF release_review_claim
  <2> HIDE DEF rows
  <2>3. claims'[r] = rows /\ (p # r => claims'[p] = claims[p])
    BY <1>0, <2>2
  <2>4. DOMAIN rows = DOMAIN claims[r]
    BY <1>0, <2>1
  <2> QED
    BY <2>1, <2>2, <2>3, <2>4 DEF ClosedStay, HoldEnds, Open, IsOpen
<1>5. ASSUME NEW r \in Runs, NEW u \in Reviewers, NEW decision \in Decisions,
             record_human_review(u, r, decision)
      PROVE  ClosedStay(p) /\ HoldEnds(p)
  BY <1>5, TransitionKeeps DEF record_human_review, Closings
<1>6. ASSUME NEW r \in Runs, NEW new \in Statuses, set_run_status(r, new)
      PROVE  ClosedStay(p) /\ HoldEnds(p)
  BY <1>6, TransitionKeeps DEF set_run_status, Closings
<1>7. CASE clear_run_history
  BY <1>7 DEF clear_run_history, ClosedStay, HoldEnds
<1>8. /\ Tick => UNCHANGED <<run, claims>>
      /\ Restart => ClosedStay(p) /\ HoldEnds(p)
  <2>1. ASSUME Restart
        PROVE  /\ claims' = claims
               /\ run[p] # None => run'[p].status = run[p].status
    BY <1>0, <2>1, BackfilledKeeps DEF Restart, Inv, ShapesOK
  <2> QED
    BY <2>1 DEF Tick, ClosedStay, HoldEnds
<1>9. \A q \in Requests : RefuseClaim(q) => UNCHANGED <<run, claims>>
  BY DEF RefuseClaim
<1>10. \A q \in Requests, u \in Reviewers, r \in Runs :
          AskClaim(q, u, r) => UNCHANGED <<run, claims>>
  BY DEF AskClaim
<1>11. UNCHANGED vars => UNCHANGED <<run, claims>>
  BY DEF vars
<1> QED
  BY <1>1, <1>2, <1>3, <1>4, <1>5, <1>6, <1>7, <1>8, <1>9, <1>10, <1>11
  DEF Next, Claim, Act

(* The history of a run's claims is never written over while the run       *)
(* exists, whichever of the claim operations runs next.                    *)
THEOREM ClosedClaimsAreKept == Spec => ClosedClaimsStay
<1>1. Inv /\ [Next]_vars => Inv'
  BY NextInv
<1>2. Inv /\ [Next]_vars =>
        [\A r \in Runs : run'[r] # None =>
            \A i \in DOMAIN claims[r] :
                claims[r][i].release_reason # None
                    => i \in DOMAIN claims'[r] /\ claims'[r][i] = claims[r][i]]_vars
  BY NextKeeps DEF ClosedStay
<1> QED
  BY <1>1, <1>2, InitInv, PTL DEF Spec, ClosedClaimsStay

(* A ruling, an override or a release by the cascade that takes a run out  *)
(* of NEEDS_REVIEW leaves no claim on it.                                  *)
THEOREM NoReviewOutlivesItsHold == Spec => ReviewEndsWithTheHold
<1>1. Inv /\ [Next]_vars => Inv'
  BY NextInv
<1>2. Inv /\ [Next]_vars =>
        [\A r \in Runs : run[r] # None /\ run'[r] # None
            /\ run[r].status = "NEEDS_REVIEW" /\ run'[r].status # "NEEDS_REVIEW"
                => \A i \in DOMAIN claims'[r] : ~IsOpen(claims'[r][i])]_vars
  BY NextKeeps DEF HoldEnds
<1> QED
  BY <1>1, <1>2, InitInv, PTL DEF Spec, ReviewEndsWithTheHold

-----------------------------------------------------------------------------
(* The third one, of one run.                                              *)
Exclusive(r) ==
    \A i \in Open(r) :
        claims[r][i].expires_at > now /\ run'[r] # None =>
            /\ run'[r].human_decision # run[r].human_decision
                  => run'[r].reviewed_by = claims[r][i].claimed_by
            /\ Len(claims'[r]) = Len(claims[r])

(* A lease that runs now ran when the request was made.                    *)
LEMMA ExclusiveStep ==
    ASSUME Inv, [Next]_vars, NEW p \in Runs
    PROVE  Exclusive(p)
<1> SUFFICES ASSUME NEW i \in Open(p), claims[p][i].expires_at > now, run'[p] # None
             PROVE  /\ run'[p].human_decision # run[p].human_decision
                          => run'[p].reviewed_by = claims[p][i].claimed_by
                    /\ Len(claims'[p]) = Len(claims[p])
  BY DEF Exclusive
<1>0. /\ DOMAIN claims = Runs /\ DOMAIN run = Runs
      /\ \A r \in Runs : claims[r] \in Seq(ClaimRow)
  BY DEF Inv, Sound, ShapesOK
<1>1. /\ Newest(p) = i /\ Open(p) # {}
      /\ claims[p][i].expires_at \in Int /\ now \in Int
  BY NewestIsOpen DEF ClaimRow, Time, Inv, ShapesOK
<1>2. CASE UNCHANGED <<run, claims>>
  BY <1>2
<1>3. ASSUME NEW q \in Requests, RenewClaim(q)
      PROVE  run' = run /\ Len(claims'[p]) = Len(claims[p])
  <2> DEFINE r == asked[q].run
             row == [claims[r][Newest(r)] EXCEPT
                        !.expires_at = Expiry(claims[r][Newest(r)], asked[q].at)]
  <2>1. claims' = [claims EXCEPT ![r] = [claims[r] EXCEPT ![Newest(r)] = row]]
    BY <1>3 DEF RenewClaim
  <2>2. r \in Runs /\ Newest(r) \in DOMAIN claims[r]
    <3>1. r \in Runs
      BY <1>3 DEF Inv, ShapesOK, RenewClaim, Request
    <3>2. Open(r) # {}
      BY <1>3 DEF RenewClaim, HeldBy, InForce
    <3> QED
      BY <3>1, <3>2, NewestIsOpen
  <2> HIDE DEF r, row
  <2>3. \A n : Len([claims[r] EXCEPT ![n] = row]) = Len(claims[r])
    BY <1>0, <2>2
  <2>4. Len(claims'[p]) = Len(claims[p])
    BY <1>0, <2>1, <2>2, <2>3
  <2> QED
    BY <1>3, <2>4 DEF RenewClaim
<1>4. ASSUME NEW q \in Requests, TakeClaim(q)
      PROVE  run' = run /\ claims'[p] = claims[p]
  <2>1. /\ asked[q].run \in Runs /\ asked[q].at \in Int
        /\ asked[q].at <= now
    BY <1>4 DEF Inv, ShapesOK, AskedInThePast, TakeClaim, Request
  <2>2. InForce(p, asked[q].at)
    BY <1>1, <2>1 DEF InForce
  <2>3. asked[q].run # p
    BY <1>4, <2>2 DEF TakeClaim, HeldBy, HeldByAnother
  <2> QED
    BY <1>0, <1>4, <2>1, <2>3 DEF TakeClaim
<1>5. ASSUME NEW r \in Runs, NEW reason \in Closings
      PROVE  Len(CloseNewest(r, reason)) = Len(claims[r])
  BY <1>5, Closing
<1>6. ASSUME NEW r \in Runs, NEW u \in Reviewers, NEW is_admin \in BOOLEAN,
             release_review_claim(u, r, is_admin)
      PROVE  run' = run /\ Len(claims'[p]) = Len(claims[p])
  BY <1>0, <1>5, <1>6 DEF release_review_claim, Closings
<1>7. ASSUME NEW r \in Runs, NEW changed, NEW reason \in Closings,
             apply_status_transition(r, changed, reason)
      PROVE  /\ Len(claims'[p]) = Len(claims[p])
             /\ p # r => run'[p] = run[p]
             /\ p = r => run'[p] = changed
  BY <1>0, <1>5, <1>7 DEF apply_status_transition
<1>8. ASSUME NEW r \in Runs, NEW u \in Reviewers, NEW decision \in Decisions,
             record_human_review(u, r, decision)
      PROVE  /\ run'[p].human_decision # run[p].human_decision
                    => run'[p].reviewed_by = claims[p][i].claimed_by
             /\ Len(claims'[p]) = Len(claims[p])
  <2> DEFINE changed == [run[r] EXCEPT !.status = Outcome(decision),
                                       !.human_decision = decision, !.reviewed_by = u]
  <2>1. apply_status_transition(r, changed, "completed") /\ "completed" \in Closings
    BY <1>8 DEF record_human_review, Closings
  <2>2. changed.reviewed_by = u
    BY <1>0, <1>8 DEF record_human_review, Eligible, Inv, ShapesOK, Run
  <2> HIDE DEF changed
  <2>3. InForce(p, now)
    BY <1>1 DEF InForce
  <2>4. p = r => claims[p][i].claimed_by = u
    BY <1>1, <1>8, <2>3 DEF record_human_review, HeldByAnother
  <2> QED
    BY <1>7, <2>1, <2>2, <2>4
<1>9. ASSUME NEW r \in Runs, NEW new \in Statuses, set_run_status(r, new)
      PROVE  /\ run'[p].human_decision = run[p].human_decision
             /\ Len(claims'[p]) = Len(claims[p])
  <2> DEFINE changed == [run[r] EXCEPT !.status = new]
  <2>1. apply_status_transition(r, changed, "resolved") /\ "resolved" \in Closings
    BY <1>9 DEF set_run_status, Closings
  <2>2. changed.human_decision = run[r].human_decision
    BY <1>0, <1>9 DEF set_run_status, Inv, ShapesOK, Run
  <2> HIDE DEF changed
  <2> QED
    BY <1>7, <2>1, <2>2
<1>10. ~clear_run_history
  BY DEF clear_run_history
<1>11. /\ Tick => UNCHANGED <<run, claims>>
       /\ \A q \in Requests : RefuseClaim(q) => UNCHANGED <<run, claims>>
       /\ \A q \in Requests, u \in Reviewers, r \in Runs :
              AskClaim(q, u, r) => UNCHANGED <<run, claims>>
       /\ UNCHANGED vars => UNCHANGED <<run, claims>>
  BY DEF Tick, RefuseClaim, AskClaim, vars
<1>12. ASSUME Restart
       PROVE  run'[p].human_decision = run[p].human_decision /\ claims' = claims
  BY <1>0, <1>12, BackfilledKeeps DEF Restart, Inv, ShapesOK
<1> QED
  BY <1>2, <1>3, <1>4, <1>6, <1>8, <1>9, <1>10, <1>11, <1>12 DEF Next, Claim, Act

(* While a lease runs nobody else rules on its run and nobody is given a   *)
(* claim beside it, whatever time the clock showed when the request came.  *)
THEOREM LeaseIsExclusive == Spec => ClaimIsExclusive
<1>1. Inv /\ [Next]_vars => Inv'
  BY NextInv
<1>2. Inv /\ [Next]_vars =>
        [\A r \in Runs : \A i \in Open(r) :
            claims[r][i].expires_at > now /\ run'[r] # None =>
                /\ run'[r].human_decision # run[r].human_decision
                      => run'[r].reviewed_by = claims[r][i].claimed_by
                /\ Len(claims'[r]) = Len(claims[r])]_vars
  BY ExclusiveStep DEF Exclusive
<1> QED
  BY <1>1, <1>2, InitInv, PTL DEF Spec, ClaimIsExclusive
=============================================================================
