----------------------------- MODULE EmailIngest -----------------------------
(***************************************************************************)
(* What becomes of a message that is fetched from a mailbox: it is claimed *)
(* by a unique index, its attachments are recorded and held, and those of  *)
(* a message that may be processed become runs.  A pass is one call of     *)
(* ingest_message, by a poller, or of process_message_attachments, from    *)
(* the screen; any number overlap, each statement or transaction of theirs *)
(* being a step.  Reviewers release and discard held messages, an          *)
(* administrator may clear the run history, and a process may die.         *)
(* A run is named by the attachment it was made from; what a run does to   *)
(* the ledger is InvoiceLedger.                                            *)
(***************************************************************************)
EXTENDS Integers, FiniteSets

CONSTANTS
    Messages,      \* what the provider has: one identifier each
    Parts,         \* the attachments of all messages, in their order
    PartsOf,       \* the attachments of each message
    Pdfs,          \* the ones collect_attachments takes for invoices
    Passes,        \* threads that ingest or process
    AutoAdmit,     \* EMAIL_AUTO_ADMIT_UNVERIFIED
    MaxUpsets,     \* bound: crashes, resets and database failures
    MaxRequests    \* bound: requests to process a message

ASSUME IngestAssumption ==
    /\ Parts \subseteq Nat \ {0}
    /\ PartsOf \in [Messages -> SUBSET Parts]
    /\ \A m, n \in Messages : m # n => PartsOf[m] \cap PartsOf[n] = {}
    /\ Pdfs \subseteq Parts
    /\ IsFiniteSet(Parts) /\ IsFiniteSet(Passes)
    /\ AutoAdmit \in BOOLEAN
    /\ MaxUpsets \in Nat
    /\ MaxRequests \in Nat

(* What triage and verification say of the bytes of a message.             *)
Natures == {"UNREADABLE", "IRRELEVANT", "VERIFIED", "UNVERIFIED", "SUSPICIOUS"}

Security     == {"ADMITTED", "QUARANTINED", "RELEASED", "DISCARDED"}
Ingestion    == {"RECEIVED", "FILTERED_OUT", "QUARANTINED", "PROCESSED",
                 "PARTIAL", "FAILED", "NO_ATTACHMENTS"}
PartStatuses == {"PENDING", "SKIPPED", "PROCESSED", "FAILED"}

VARIABLES
    nature,        \* of each message; it does not change
    unhandled,     \* the messages the provider will offer again
    message,       \* email_messages: the row of each message, if it has one
    part,          \* email_attachments: status and whether a copy has a key
    copies,        \* the held copies that are in the document store
    runs,          \* how many runs were ever made from each attachment
    pass,          \* where each pass is
    upsets,        \* crashes, resets and failures so far
    requests,      \* requests to process so far
    overlaps       \* passes that set out on a message another was at work on

vars == <<nature, unhandled, message, part, copies, runs, pass, upsets, requests, overlaps>>

NoPart   == 0

NoRow    == [status |-> "none", ingest |-> "none", run |-> NoPart]
Unlisted == [status |-> "none", held |-> FALSE]

(* have: the raw message, and so the attachments, are in memory.  seen: the *)
(* attachment rows as this pass read them.                                  *)
Idle == [pc |-> "idle", msg |-> "none", polled |-> FALSE, have |-> FALSE, cur |-> NoPart,
         todo |-> {}, seen |-> [p \in Parts |-> Unlisted], good |-> FALSE, bad |-> FALSE]

Init ==
    /\ nature \in [Messages -> Natures]
    /\ unhandled = Messages
    /\ message = [m \in Messages |-> NoRow]
    /\ part = [p \in Parts |-> Unlisted]
    /\ copies = {}
    /\ runs = [p \in Parts |-> 0]
    /\ pass = [w \in Passes |-> Idle]
    /\ upsets = 0
    /\ requests = 0
    /\ overlaps = 0

OnFile(m) == message[m].status # "none"

(* The record's status: the verdict, then _apply_auto_admit_policy.        *)
StatusOf(m) ==
    IF nature[m] = "VERIFIED" \/ (nature[m] = "UNVERIFIED" /\ AutoAdmit)
    THEN "ADMITTED" ELSE "QUARANTINED"

Processing(w) == pass[w].pc \in {"read", "take", "run", "complete", "orphan", "drop"}

Go(w, pc) == pass' = [pass EXCEPT ![w].pc = pc]

Leave(w) == pass' = [pass EXCEPT ![w] = Idle]

(* Mutant of May: a discarded message may be processed.                    *)
MayUnlessHeld(m) == message[m].status \notin {"none", "QUARANTINED"}

May(m) == message[m].status \in {"ADMITTED", "RELEASED"}

-----------------------------------------------------------------------------
(* Taking a message in.                                                    *)

Fetch(w, m) ==
    /\ pass[w].pc = "idle"
    /\ m \in unhandled
    /\ pass' = [pass EXCEPT ![w] = [Idle EXCEPT !.pc = "lookup", !.msg = m, !.polled = TRUE]]
    /\ UNCHANGED <<nature, unhandled, message, part, copies, runs, upsets, requests, overlaps>>

(* email_for_provider_message, the parse, the triage and the verification, *)
(* which may also fail for a reason of its own.                            *)
Judge(w) ==
    LET m == pass[w].msg IN
    /\ pass[w].pc = "lookup"
    /\ \/ OnFile(m) /\ Go(w, "mark")
       \/ ~OnFile(m) /\ nature[m] # "UNREADABLE" /\ Go(w, "claim")
       \/ ~OnFile(m) /\ nature[m] # "IRRELEVANT" /\ Go(w, "fail")
    /\ UNCHANGED <<nature, unhandled, message, part, copies, runs, upsets, requests, overlaps>>

NewRow(m) ==
    [status |-> IF nature[m] = "IRRELEVANT" THEN "QUARANTINED" ELSE StatusOf(m),
     ingest |-> IF nature[m] = "IRRELEVANT" THEN "FILTERED_OUT"
                ELSE IF StatusOf(m) = "ADMITTED" THEN "RECEIVED" ELSE "QUARANTINED",
     run    |-> NoPart]

(* The insert, or the refusal of the unique index.                         *)
claim_incoming_message(w) ==
    LET m == pass[w].msg IN
    /\ pass[w].pc = "claim"
    /\ IF OnFile(m)
       THEN Go(w, "mark") /\ UNCHANGED message
       ELSE Go(w, "record") /\ message' = [message EXCEPT ![m] = NewRow(m)]
    /\ UNCHANGED <<nature, unhandled, part, copies, runs, upsets, requests, overlaps>>

(* Mutant of _record_failure: a failure nobody could record is handled.    *)
FailureIsHandled(w) ==
    /\ pass[w].pc = "fail"
    /\ Go(w, "mark")
    /\ UNCHANGED <<nature, unhandled, message, part, copies, runs, upsets, requests, overlaps>>

(* The failure goes on file, over whatever another pass has written there  *)
(* in the meantime.  A new one is not marked: the provider offers the      *)
(* message once more.  With the database away nothing is written.          *)
_record_failure(w) ==
    LET m == pass[w].msg IN
    /\ pass[w].pc = "fail"
    /\ \/ /\ message' = [message EXCEPT ![m] =
                 IF OnFile(m) THEN [@ EXCEPT !.ingest = "FAILED"]
                 ELSE [status |-> "QUARANTINED", ingest |-> "FAILED", run |-> NoPart]]
          /\ IF OnFile(m) THEN Go(w, "mark") ELSE Leave(w)
          /\ UNCHANGED upsets
       \/ /\ upsets < MaxUpsets
          /\ upsets' = upsets + 1
          /\ Leave(w)
          /\ UNCHANGED message
    /\ UNCHANGED <<nature, unhandled, part, copies, runs, requests, overlaps>>

(* ON CONFLICT DO NOTHING: a row that is there keeps its status.           *)
Listed(m, candidates) ==
    [p \in Parts |->
        IF p \in PartsOf[m] /\ part[p].status = "none"
        THEN [status |-> IF p \in candidates THEN "PENDING" ELSE "SKIPPED", held |-> FALSE]
        ELSE part[p]]

record_attachments(w) ==
    LET m == pass[w].msg IN
    /\ pass[w].pc = "record"
    /\ IF nature[m] = "IRRELEVANT"
       THEN part' = Listed(m, {}) /\ Go(w, "mark")
       ELSE part' = Listed(m, Pdfs) /\ Go(w, "hold")
    /\ UNCHANGED <<nature, unhandled, message, copies, runs, upsets, requests, overlaps>>

(* Each candidate with no copy is saved under a new key, or could not be:  *)
(* a write and an update for each, in one action.  What a crash among them *)
(* leaves is what copies that could not be saved leave, and a crash after. *)
_hold_attachments(w) ==
    LET m == pass[w].msg
        wanted == {p \in PartsOf[m] \cap Pdfs : ~part[p].held}
    IN
    /\ pass[w].pc = "hold"
    /\ \E saved \in SUBSET wanted :
          /\ saved # wanted => upsets < MaxUpsets
          /\ upsets' = IF saved = wanted THEN upsets ELSE upsets + 1
          /\ part' = [p \in Parts |->
                IF p \in saved THEN [part[p] EXCEPT !.held = TRUE] ELSE part[p]]
          /\ copies' = copies \cup saved
    /\ pass' = [pass EXCEPT ![w].pc = IF StatusOf(m) = "ADMITTED" THEN "gate" ELSE "settle",
                            ![w].have = TRUE]
    /\ UNCHANGED <<nature, unhandled, message, runs, requests, overlaps>>

(* A held message is settled by a transaction of its own.                  *)
SettleQuarantined(w) ==
    /\ pass[w].pc = "settle"
    /\ message' = [message EXCEPT ![pass[w].msg].ingest = "QUARANTINED"]
    /\ Go(w, "mark")
    /\ UNCHANGED <<nature, unhandled, part, copies, runs, upsets, requests, overlaps>>

(* Best effort: the flag or the cursor may not be written.                 *)
mark_handled(w) ==
    /\ pass[w].pc = "mark"
    /\ \/ unhandled' = unhandled \ {pass[w].msg} /\ UNCHANGED upsets
       \/ upsets < MaxUpsets /\ upsets' = upsets + 1 /\ UNCHANGED unhandled
    /\ Leave(w)
    /\ UNCHANGED <<nature, message, part, copies, runs, requests, overlaps>>

-----------------------------------------------------------------------------
(* Processing the attachments of a message.                                *)

StartProcess(w, m) ==
    /\ pass[w].pc = "idle"
    /\ May(m)
    /\ requests < MaxRequests
    /\ requests' = requests + 1
    /\ pass' = [pass EXCEPT ![w] = [Idle EXCEPT !.pc = "gate", !.msg = m]]
    /\ UNCHANGED <<nature, unhandled, message, part, copies, runs, upsets, overlaps>>

(* The row is read again, whoever asks.                                    *)
Gate(w) ==
    LET m == pass[w].msg IN
    /\ pass[w].pc = "gate"
    /\ IF May(m)
       THEN /\ Go(w, "read")
            /\ overlaps' = IF \E v \in Passes : pass[v].msg = m /\ Processing(v)
                           THEN overlaps + 1 ELSE overlaps
       ELSE Leave(w) /\ UNCHANGED overlaps
    /\ UNCHANGED <<nature, unhandled, message, part, copies, runs, upsets, requests>>

(* list_email_attachments; a candidate with no copy sends the pass back to *)
(* the mailbox, which may still have the message.                          *)
ReadRows(w) ==
    LET m == pass[w].msg
        listed == {p \in PartsOf[m] : part[p].status # "none"}
        missing == {p \in listed : part[p].status # "SKIPPED" /\ ~part[p].held}
    IN
    /\ pass[w].pc = "read"
    /\ \E recovered \in {pass[w].have} \cup (IF missing = {} THEN {} ELSE {TRUE}) :
          pass' = [pass EXCEPT ![w].pc = "take", ![w].have = recovered,
                               ![w].todo = listed, ![w].seen = part]
    /\ UNCHANGED <<nature, unhandled, message, part, copies, runs, upsets, requests, overlaps>>

Finished(w, p, good, bad) ==
    pass' = [pass EXCEPT ![w].pc = "take", ![w].cur = NoPart, ![w].todo = @ \ {p},
                         ![w].seen[p] = Unlisted,
                         ![w].good = @ \/ good, ![w].bad = @ \/ bad]

(* Mutant of IsDone: no attachment is taken for processed.                 *)
NeverDone(row) == FALSE

IsDone(row) == row.status = "PROCESSED"

(* One attachment: done as this pass saw it, not a candidate, not to be    *)
(* had, done when its row is locked and read again, or to be processed.    *)
(* The lock is dropped with the transaction and the row left as it is.     *)
Take(w, p) ==
    LET seen == pass[w].seen[p]
        loaded == pass[w].have \/ (seen.held /\ p \in copies)
    IN
    /\ pass[w].pc = "take"
    /\ p \in pass[w].todo
    /\ \A q \in pass[w].todo : p <= q
    /\ \/ IsDone(seen) /\ Finished(w, p, TRUE, FALSE) /\ UNCHANGED part
       \/ seen.status = "SKIPPED" /\ Finished(w, p, FALSE, FALSE) /\ UNCHANGED part
       \/ /\ ~IsDone(seen) /\ seen.status # "SKIPPED" /\ ~loaded
          /\ part' = [part EXCEPT ![p].status = "FAILED"]
          /\ Finished(w, p, FALSE, TRUE)
       \/ /\ ~IsDone(seen) /\ seen.status # "SKIPPED" /\ loaded
          /\ IF IsDone(part[p])
             THEN Finished(w, p, TRUE, FALSE)
             ELSE pass' = [pass EXCEPT ![w].pc = "run", ![w].cur = p]
          /\ UNCHANGED part
    /\ UNCHANGED <<nature, unhandled, message, copies, runs, upsets, requests, overlaps>>

(* The pipeline saves a run, or raises; nothing is locked meanwhile.       *)
_run_invoice_pipeline(w) ==
    LET p == pass[w].cur IN
    /\ pass[w].pc = "run"
    /\ \/ /\ runs' = [runs EXCEPT ![p] = @ + 1]
          /\ Go(w, "complete")
          /\ UNCHANGED part
       \/ /\ part' = [part EXCEPT ![p].status = "FAILED"]
          /\ Finished(w, p, FALSE, TRUE)
          /\ UNCHANGED runs
    /\ UNCHANGED <<nature, unhandled, message, copies, upsets, requests, overlaps>>

complete_attachment(w) ==
    LET p == pass[w].cur IN
    /\ pass[w].pc = "complete"
    /\ part' = [part EXCEPT ![p].status = "PROCESSED"]
    /\ message' = [message EXCEPT ![pass[w].msg].run = IF @ = NoPart THEN p ELSE @]
    /\ Go(w, "drop")
    /\ UNCHANGED <<nature, unhandled, copies, runs, upsets, requests, overlaps>>

(* The run has been deleted: the foreign key refuses the row, and the      *)
(* exception ends the pass with nothing marked.                            *)
CompleteOrphan(w) ==
    /\ pass[w].pc = "orphan"
    /\ Leave(w)
    /\ UNCHANGED <<nature, unhandled, message, part, copies, runs, upsets, requests, overlaps>>

(* The holding copy this pass had seen is dropped, now the run owns one.   *)
_release_held_bytes(w) ==
    LET p == pass[w].cur
        had == pass[w].seen[p].held
    IN
    /\ pass[w].pc = "drop"
    /\ copies' = IF had THEN copies \ {p} ELSE copies
    /\ part' = IF had THEN [part EXCEPT ![p].held = FALSE] ELSE part
    /\ Finished(w, p, TRUE, FALSE)
    /\ UNCHANGED <<nature, unhandled, message, runs, upsets, requests, overlaps>>

(* Mutant of Outcome: one run is enough to call the message processed.     *)
OutcomeOfAny(good, bad) ==
    IF good THEN "PROCESSED" ELSE IF bad THEN "FAILED" ELSE "NO_ATTACHMENTS"

Outcome(good, bad) ==
    IF good /\ bad THEN "PARTIAL" ELSE OutcomeOfAny(good, bad)

Finish(w) ==
    LET m == pass[w].msg IN
    /\ pass[w].pc = "take"
    /\ pass[w].todo = {}
    /\ message' = [message EXCEPT ![m].ingest = Outcome(pass[w].good, pass[w].bad)]
    /\ IF pass[w].polled THEN Go(w, "mark") ELSE Leave(w)
    /\ UNCHANGED <<nature, unhandled, part, copies, runs, upsets, requests, overlaps>>

-----------------------------------------------------------------------------
(* A held message is released or discarded, once.                          *)
set_email_status(m, ruling) ==
    /\ message[m].status = "QUARANTINED"
    /\ message' = [message EXCEPT ![m].status = ruling]
    /\ UNCHANGED <<nature, unhandled, part, copies, runs, pass, upsets, requests, overlaps>>

Rule == \E m \in Messages, ruling \in {"RELEASED", "DISCARDED"} : set_email_status(m, ruling)

(* clear_run_history: the run's copy goes back to the attachment it came   *)
(* from, which waits again, unless the run's document had not been saved.  *)
(* A pass that was about to record a run finds it gone.                    *)
ClearHistory ==
    LET done == {p \in Parts : part[p].status = "PROCESSED"}
        bare == {p \in done : ~part[p].held}
    IN
    \E lost \in SUBSET bare :
       /\ upsets' = upsets + 1 + Cardinality(lost)
       /\ upsets' <= MaxUpsets
       /\ part' = [p \in Parts |->
             IF p \in lost THEN [status |-> "SKIPPED", held |-> FALSE]
             ELSE IF p \in done THEN [status |-> "PENDING", held |-> TRUE]
             ELSE part[p]]
       /\ copies' = copies \cup (bare \ lost)
       /\ message' = [m \in Messages |-> [message[m] EXCEPT !.run = NoPart,
                         !.ingest = IF @ \in {"PROCESSED", "PARTIAL"} THEN "RECEIVED" ELSE @]]
       /\ pass' = [w \in Passes |-> IF pass[w].pc = "complete"
                                    THEN [pass[w] EXCEPT !.pc = "orphan"] ELSE pass[w]]
       /\ UNCHANGED <<nature, unhandled, runs, requests, overlaps>>

Crash(w) ==
    /\ pass[w].pc # "idle"
    /\ upsets < MaxUpsets
    /\ upsets' = upsets + 1
    /\ Leave(w)
    /\ UNCHANGED <<nature, unhandled, message, part, copies, runs, requests, overlaps>>

Ingesting(w) ==
    \/ \E m \in Messages : Fetch(w, m)
    \/ Judge(w) \/ claim_incoming_message(w) \/ _record_failure(w)
    \/ record_attachments(w) \/ _hold_attachments(w) \/ SettleQuarantined(w) \/ mark_handled(w)

process_message_attachments(w) ==
    \/ Gate(w) \/ ReadRows(w)
    \/ \E p \in Parts : Take(w, p)
    \/ _run_invoice_pipeline(w) \/ complete_attachment(w) \/ CompleteOrphan(w)
    \/ _release_held_bytes(w) \/ Finish(w)

Next ==
    \/ \E w \in Passes : Ingesting(w)
    \/ \E w \in Passes : process_message_attachments(w)
    \/ \E w \in Passes, m \in Messages : StartProcess(w, m)
    \/ Rule
    \/ ClearHistory
    \/ \E w \in Passes : Crash(w)

Spec == Init /\ [][Next]_vars

-----------------------------------------------------------------------------
(* The steps of a pass are those of its own thread, and the poller starts  *)
(* another round for ever: no pass waits on anything but the database.     *)
Fairness == \A w \in Passes : WF_vars(Ingesting(w)) /\ WF_vars(process_message_attachments(w))

FairSpec == Spec /\ Fairness

TypeOK ==
    /\ nature \in [Messages -> Natures]
    /\ unhandled \subseteq Messages
    /\ message \in [Messages -> [status : Security \cup {"none"}, ingest : Ingestion \cup {"none"},
                                 run : Parts \cup {NoPart}]]
    /\ part \in [Parts -> [status : PartStatuses \cup {"none"}, held : BOOLEAN]]
    /\ copies \subseteq Parts
    /\ runs \in [Parts -> Nat]
    /\ \A w \in Passes : pass[w].todo \subseteq Parts /\ pass[w].cur \in Parts \cup {NoPart}
    /\ upsets \in 0 .. MaxUpsets
    /\ requests \in 0 .. MaxRequests
    /\ overlaps \in Nat

(* No run comes of a message that is held or discarded, whatever passes    *)
(* were under way when the ruling was made.  (discard_email_message:       *)
(* "Terminal: it can never become a run".)                                 *)
OnlyAdmittedBecomesRuns ==
    \A m \in Messages : \A p \in PartsOf[m] :
        runs[p] > 0 => message[m].status \in {"ADMITTED", "RELEASED"}

(* A second run of one PDF takes a pass that overlapped another, a crash,  *)
(* or a reset: retries and redeliveries alone make none.                   *)
SecondRunTakesAnOverlap ==
    \A p \in Parts : runs[p] <= 1 + overlaps + upsets

(* A message the provider will not offer again is on file.                 *)
HandledIsOnFile == \A m \in Messages \ unhandled : OnFile(m)

(* With nothing gone wrong, a message called PROCESSED has every PDF of it *)
(* processed.                                                              *)
ProcessedMeansAll ==
    \A m \in Messages :
        message[m].ingest = "PROCESSED" /\ upsets = 0 /\ overlaps = 0
            => \A p \in PartsOf[m] \cap Pdfs : part[p].status = "PROCESSED"

(* Every message the provider offers gets on file.                         *)
EveryMessageGetsOnFile == \A m \in Messages : m \in unhandled ~> OnFile(m)
=============================================================================
