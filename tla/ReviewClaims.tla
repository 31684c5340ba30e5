---------------------------- MODULE ReviewClaims ----------------------------
(***************************************************************************)
(* Who may work on a held invoice: the rows of `review_claims` under       *)
(* claim_review, release_review_claim, record_human_review and whatever    *)
(* else moves a run's status.  Every operation locks the row of its run    *)
(* first and is one action, except that claim_review reads the clock       *)
(* before it asks for the lock: a request waits in `asked`, with the time  *)
(* it was made, for as long as other transactions hold the row.            *)
(***************************************************************************)
EXTENDS Integers, Sequences

CONSTANTS
    Runs,
    Reviewers,
    Requests,      \* request threads that claim a review
    LeaseLength,   \* config.review_claim_lease_minutes()
    MaxTime,       \* bound: the clock stops here
    MaxClaims,     \* bound: no claim is asked for on a run with this many
    None           \* SQL NULL, and no request

Statuses  == {"APPROVED", "NEEDS_REVIEW", "REJECTED"}
Decisions == {"ACCEPTED", "REJECTED"}

Closings == {"released", "expired", "completed", "resolved"}

Time == 0..(MaxTime + LeaseLength)

ClaimRow == [claimed_by: Reviewers, expires_at: Time,
             release_reason: Closings \cup {None}]

Run == [status: Statuses, automated_decision: Statuses \cup {None},
        human_decision: Decisions \cup {None}, reviewed_by: Reviewers \cup {None}]

Request == [by: Reviewers, run: Runs, at: 0..MaxTime]

ASSUME ClaimsAssumption ==
    /\ LeaseLength \in Nat \ {0}
    /\ MaxTime \in Nat
    /\ MaxClaims \in Nat
    /\ None \notin Reviewers \cup Closings \cup Decisions \cup Statuses
    /\ None \notin Run \cup Request

VARIABLES
    now,       \* the wall clock
    run,       \* what the claim rules read of each row of `runs`
    claims,    \* the rows of review_claims, per run and in id order
    asked      \* what each request thread has asked for and not yet got

vars == <<now, run, claims, asked>>

(* Runs held by the pipeline, some by a file it could not read.            *)
Init ==
    /\ now = 0
    /\ run \in [Runs -> {[status |-> "NEEDS_REVIEW", automated_decision |-> a,
                          human_decision |-> None, reviewed_by |-> None] :
                            a \in {"NEEDS_REVIEW", None}}]
    /\ claims = [r \in Runs |-> <<>>]
    /\ asked = [q \in Requests |-> None]

Tick ==
    /\ now < MaxTime
    /\ now' = now + 1
    /\ UNCHANGED <<run, claims, asked>>

-----------------------------------------------------------------------------
(* WHERE released_at IS NULL ORDER BY id DESC LIMIT 1                      *)
(* Mutant of IsOpen: a claim given back is looked at again.                *)
IsOpenOrReleased(row) == row.release_reason \in {None, "released"}

IsOpen(row) == row.release_reason = None

Open(r) == {i \in DOMAIN claims[r] : IsOpen(claims[r][i])}

Newest(r) == CHOOSE i \in Open(r) : \A j \in Open(r) : j <= i

InForce(r, t) == Open(r) # {} /\ claims[r][Newest(r)].expires_at > t

HeldBy(r, t, u) == InForce(r, t) /\ claims[r][Newest(r)].claimed_by = u

(* Mutant of HeldByAnother: the check is left to the screen.               *)
HeldByAnotherUnchecked(r, t, u) == FALSE

HeldByAnother(r, t, u) == InForce(r, t) /\ claims[r][Newest(r)].claimed_by # u

Close(rows, i, reason) == [rows EXCEPT ![i].release_reason = reason]

(* Mutant of CloseNewest: a lease that ran out is written over, not closed.*)
CloseNewestUnlessExpired(r, reason) ==
    IF Open(r) = {} \/ reason = "expired" THEN claims[r]
    ELSE Close(claims[r], Newest(r), reason)

CloseNewest(r, reason) ==
    IF Open(r) = {} THEN claims[r] ELSE Close(claims[r], Newest(r), reason)

Expiry(row, at) == at + LeaseLength

(* Of its automated decision, or of its status where it has none.          *)
Eligible(r) ==
    /\ run[r] # None
    /\ "NEEDS_REVIEW" = IF run[r].automated_decision = None
                        THEN run[r].status ELSE run[r].automated_decision

-----------------------------------------------------------------------------
AskClaim(q, u, r) ==
    /\ asked[q] = None
    /\ Len(claims[r]) < MaxClaims
    /\ asked' = [asked EXCEPT ![q] = [by |-> u, run |-> r, at |-> now]]
    /\ UNCHANGED <<now, run, claims>>

Answered(q) == asked' = [asked EXCEPT ![q] = None]

(* Unknown, not held for review, or in the hands of somebody else.         *)
RefuseClaim(q) ==
    /\ asked[q] # None
    /\ \/ ~Eligible(asked[q].run)
       \/ HeldByAnother(asked[q].run, asked[q].at, asked[q].by)
    /\ Answered(q)
    /\ UNCHANGED <<now, run, claims>>

RenewClaim(q) ==
    /\ asked[q] # None
    /\ LET r  == asked[q].run
           at == asked[q].at
       IN  /\ Eligible(r)
           /\ HeldBy(r, at, asked[q].by)
           /\ claims' = [claims EXCEPT
                  ![r][Newest(r)].expires_at = Expiry(claims[r][Newest(r)], at)]
    /\ Answered(q)
    /\ UNCHANGED <<now, run>>

(* Nobody holds it: a lease that ran out is closed as such first.          *)
TakeClaim(q) ==
    /\ asked[q] # None
    /\ LET r == asked[q].run
       IN  /\ Eligible(r)
           /\ ~HeldBy(r, asked[q].at, asked[q].by)
           /\ ~HeldByAnother(r, asked[q].at, asked[q].by)
           /\ claims' = [claims EXCEPT ![r] =
                  Append(CloseNewest(r, "expired"),
                         [claimed_by |-> asked[q].by,
                          expires_at |-> asked[q].at + LeaseLength,
                          release_reason |-> None])]
    /\ Answered(q)
    /\ UNCHANGED <<now, run>>

(* By its holder, however late, or by an administrator.                    *)
release_review_claim(u, r, is_admin) ==
    /\ run[r] # None
    /\ Open(r) # {}
    /\ is_admin \/ claims[r][Newest(r)].claimed_by = u
    /\ claims' = [claims EXCEPT ![r] = CloseNewest(r, "released")]
    /\ UNCHANGED <<now, run, asked>>

(* Mutant of apply_status_transition: the claim is left to its lease.      *)
transition_keeps_claim(r, changed, reason) ==
    /\ run' = [run EXCEPT ![r] = changed]
    /\ claims' = claims

(* A run that leaves NEEDS_REVIEW takes its claim with it.                 *)
apply_status_transition(r, changed, reason) ==
    /\ run' = [run EXCEPT ![r] = changed]
    /\ claims' = IF run[r].status = "NEEDS_REVIEW" /\ changed.status # "NEEDS_REVIEW"
                 THEN [claims EXCEPT ![r] = CloseNewest(r, reason)]
                 ELSE claims

(* Mutant of Outcome: the decision is stored where its status belongs.     *)
OutcomeVerbatim(decision) == decision

Outcome(decision) == IF decision = "ACCEPTED" THEN "APPROVED" ELSE "REJECTED"

record_human_review(u, r, decision) ==
    /\ Eligible(r)
    /\ run[r].human_decision = None
    /\ ~HeldByAnother(r, now, u)
    /\ apply_status_transition(r,
           [run[r] EXCEPT !.status = Outcome(decision),
                          !.human_decision = decision, !.reviewed_by = u],
           "completed")
    /\ UNCHANGED <<now, asked>>

(* An administrator's override, or a release by the balance cascade.       *)
set_run_status(r, new) ==
    /\ run[r] # None
    /\ run[r].status # new
    /\ apply_status_transition(r, [run[r] EXCEPT !.status = new], "resolved")
    /\ UNCHANGED <<now, asked>>

clear_run_history ==
    /\ \E r \in Runs : run[r] # None
    /\ run' = [r \in Runs |-> None]
    /\ claims' = [r \in Runs |-> <<>>]
    /\ UNCHANGED <<now, asked>>

(* What init_db does at every start to a run with no automated decision.   *)
Backfilled(row) ==
    [row EXCEPT !.automated_decision = IF @ = None THEN row.status ELSE @]

(* The requests that wait are lost; the rows are not.                      *)
Restart ==
    /\ \/ \E q \in Requests : asked[q] # None
       \/ \E r \in Runs : run[r] # None /\ run[r].automated_decision = None
    /\ asked' = [q \in Requests |-> None]
    /\ run' = [r \in Runs |-> IF run[r] = None THEN None ELSE Backfilled(run[r])]
    /\ UNCHANGED <<now, claims>>

Claim(q) == RefuseClaim(q) \/ RenewClaim(q) \/ TakeClaim(q)

Act(r, u) ==
    \/ \E q \in Requests : AskClaim(q, u, r)
    \/ \E is_admin \in BOOLEAN : release_review_claim(u, r, is_admin)
    \/ \E decision \in Decisions : record_human_review(u, r, decision)

Next ==
    \/ Tick
    \/ \E q \in Requests : Claim(q)
    \/ \E r \in Runs, u \in Reviewers : Act(r, u)
    \/ \E r \in Runs, new \in Statuses : set_run_status(r, new)
    \/ clear_run_history
    \/ Restart

Spec == Init /\ [][Next]_vars
-----------------------------------------------------------------------------
(* Every variable has the shape its table or record gives it.              *)
TypeOK ==
    /\ now \in 0..MaxTime
    /\ run \in [Runs -> Run \cup {None}]
    /\ claims \in [Runs -> Seq(ClaimRow)]
    /\ asked \in [Requests -> Request \cup {None}]

(* Every query reads one open row and the rest of the code trusts there is *)
(* no other: whoever claims, renews, loses and takes over a review, in any *)
(* order, a run never has two.                                             *)
OneOpenClaim ==
    \A r \in Runs : \A i, j \in Open(r) : i = j

(* While a reviewer's lease runs and nobody has released it, nobody else   *)
(* rules on the run and nobody is given a claim beside it, not even by a   *)
(* request that was made before the lease was.                             *)
ClaimIsExclusive ==
    [][\A r \in Runs : \A i \in Open(r) :
          claims[r][i].expires_at > now /\ run'[r] # None =>
              /\ run'[r].human_decision # run[r].human_decision
                    => run'[r].reviewed_by = claims[r][i].claimed_by
              /\ Len(claims'[r]) = Len(claims[r])]_vars

(* What the history says of a claim that ended is never written over, as   *)
(* long as the run exists.                                                 *)
ClosedClaimsStay ==
    [][\A r \in Runs : run'[r] # None =>
          \A i \in DOMAIN claims[r] :
              claims[r][i].release_reason # None
                  => i \in DOMAIN claims'[r] /\ claims'[r][i] = claims[r][i]]_vars

(* A closed tab blocks an invoice for one lease at most: no open claim     *)
(* outlasts a lease taken out now, however its holder renewed it.          *)
LeaseNeverExceeded ==
    \A r \in Runs : \A i \in Open(r) : claims[r][i].expires_at <= now + LeaseLength

(* Once a run has left NEEDS_REVIEW a claim from before that does not hold *)
(* it any longer: a ruling or an override in the middle of somebody's      *)
(* review ends the review.                                                 *)
ReviewEndsWithTheHold ==
    [][\A r \in Runs : run[r] # None /\ run'[r] # None
          /\ run[r].status = "NEEDS_REVIEW" /\ run'[r].status # "NEEDS_REVIEW"
              => \A i \in DOMAIN claims'[r] : ~IsOpen(claims'[r][i])]_vars
=============================================================================
