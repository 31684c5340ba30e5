--------------------------- MODULE RejectionNotices ---------------------------
(***************************************************************************)
(* Rejection notices to vendors.  A request reads the run, reads the       *)
(* history for an earlier notice unless it is to be sent again anyway,     *)
(* sends, and records what came of it, each on its own; what is on record  *)
(* as sent is what counts as sent.  An administrator may move the run.     *)
(***************************************************************************)
EXTENDS Integers

CONSTANTS
    Requests,
    MaxUpsets,     \* bound: requests that die, answers that are lost
    MaxSends       \* bound: requests for a notice

NoticeAssumption == MaxUpsets \in Nat /\ MaxSends \in Nat

VARIABLES
    rejected,      \* whether the run's status is REJECTED
    recorded,      \* REJECTION_EMAIL_SENT rows
    request,       \* what each request is at, and whether it forces
    unasked,       \* notices that went out without force
    asked,         \* requests so far
    overlaps,      \* histories read while another notice was on its way
    upsets

vars == <<rejected, recorded, request, unasked, asked, overlaps, upsets>>

Over == [pc |-> "idle", force |-> FALSE]

Init ==
    /\ rejected = TRUE
    /\ recorded = 0
    /\ request = [r \in Requests |-> Over]
    /\ unasked = 0
    /\ asked = 0
    /\ overlaps = 0
    /\ upsets = 0

Proceed(r, pc) == request' = [request EXCEPT ![r].pc = pc]

End(r) == request' = [request EXCEPT ![r] = Over]

OnItsWay(r) == request[r].pc \in {"send", "record"}

(* get_run: only a rejected run has a notice.                              *)
send_rejection_email(r, force) ==
    /\ request[r].pc = "idle"
    /\ asked < MaxSends /\ rejected
    /\ asked' = asked + 1
    /\ request' = [request EXCEPT ![r] = [pc |-> "look", force |-> force]]
    /\ UNCHANGED <<rejected, recorded, unasked, overlaps, upsets>>

(* Mutant of Blocked: the history is not looked at.                        *)
BlockedNever(force) == FALSE

Blocked(force) == ~force /\ recorded > 0

last_successful_send(r) ==
    /\ request[r].pc = "look"
    /\ IF Blocked(request[r].force) THEN End(r) ELSE Proceed(r, "send")
    /\ overlaps' = IF \E q \in Requests : OnItsWay(q) THEN overlaps + 1 ELSE overlaps
    /\ UNCHANGED <<rejected, recorded, unasked, asked, upsets>>

Counted(r) == unasked' = IF request[r].force THEN unasked ELSE unasked + 1

(* Sent; refused, and a failure is recorded, which blocks nothing; or sent *)
(* and the answer lost, which reads as refused.                            *)
send(r) ==
    /\ request[r].pc = "send"
    /\ \/ Counted(r) /\ Proceed(r, "record") /\ UNCHANGED upsets
       \/ End(r) /\ UNCHANGED <<unasked, upsets>>
       \/ Counted(r) /\ End(r) /\ upsets < MaxUpsets /\ upsets' = upsets + 1
    /\ UNCHANGED <<rejected, recorded, asked, overlaps>>

log_activity(r) ==
    /\ request[r].pc = "record"
    /\ recorded' = recorded + 1
    /\ End(r)
    /\ UNCHANGED <<rejected, unasked, asked, overlaps, upsets>>

Crash(r) ==
    /\ request[r].pc # "idle"
    /\ upsets < MaxUpsets
    /\ upsets' = upsets + 1
    /\ End(r)
    /\ UNCHANGED <<rejected, recorded, unasked, asked, overlaps>>

set_run_status ==
    /\ rejected' = ~rejected
    /\ UNCHANGED <<recorded, request, unasked, asked, overlaps, upsets>>

Next ==
    \/ \E r \in Requests :
          \/ \E force \in BOOLEAN : send_rejection_email(r, force)
          \/ last_successful_send(r) \/ send(r) \/ log_activity(r) \/ Crash(r)
    \/ set_run_status

Spec == Init /\ [][Next]_vars
-----------------------------------------------------------------------------
TypeOK ==
    /\ rejected \in BOOLEAN
    /\ recorded \in Nat /\ unasked \in Nat /\ overlaps \in Nat
    /\ request \in [Requests -> [pc : {"idle", "look", "send", "record"}, force : BOOLEAN]]
    /\ asked \in 0 .. MaxSends /\ upsets \in 0 .. MaxUpsets

(* Nobody asks for a vendor to be written to twice, and it happens only    *)
(* when two requests overlap or when one is lost between sending and       *)
(* recording.                                                              *)
SecondNoticeTakesARace == unasked <= 1 + overlaps + upsets
=============================================================================
