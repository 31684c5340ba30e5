-------------------------- MODULE EmailIngestProofs --------------------------
(***************************************************************************)
(* Proofs about EmailIngest, for any messages, attachments and passes.     *)
(***************************************************************************)
EXTENDS EmailIngest, FiniteSetTheorems, TLAPS

Rows == [status : Security \cup {"none"}, ingest : Ingestion \cup {"none"},
         run : Parts \cup {NoPart}]

PartRows == [status : PartStatuses \cup {"none"}, held : BOOLEAN]

Places == {"idle", "lookup", "claim", "fail", "record", "hold", "settle", "mark", "gate",
           "read", "take", "run", "complete", "orphan", "drop"}

PassStates == [pc : Places, msg : Messages \cup {"none"}, polled : BOOLEAN, have : BOOLEAN,
               cur : Parts \cup {NoPart}, todo : SUBSET Parts, seen : [Parts -> PartRows],
               good : BOOLEAN, bad : BOOLEAN]

Typed ==
    /\ message \in [Messages -> Rows]
    /\ part \in [Parts -> PartRows]
    /\ runs \in [Parts -> Nat]
    /\ pass \in [Passes -> PassStates]

(* A pass under way has a message and looks at attachments of that message *)
(* only; past the claim the message is on file; and while its attachments  *)
(* are processed it is one that may be.                                    *)
InOrder(x, rows) ==
    /\ x.pc # "idle" => x.msg \in Messages /\ x.todo \subseteq PartsOf[x.msg]
    /\ x.pc \notin {"idle", "lookup", "claim", "fail"} => rows[x.msg].status # "none"
    /\ x.pc \in {"read", "take", "run", "complete", "orphan", "drop"}
          => rows[x.msg].status \in {"ADMITTED", "RELEASED"}
    /\ x.pc \in {"run", "complete", "orphan", "drop"} => x.cur \in PartsOf[x.msg]

PassesInOrder == \A w \in Passes : InOrder(pass[w], message)

IngestInv ==
    /\ Typed
    /\ PassesInOrder
    /\ OnlyAdmittedBecomesRuns
    /\ HandledIsOnFile

(* What is on file stays there, and what may be processed stays so.        *)
StatusStays == \A m \in Messages : (OnFile(m) => OnFile(m)') /\ (May(m) => May(m)')

-----------------------------------------------------------------------------
(* A pass at rest is typed, and in order.                                  *)
LEMMA IdleInOrder == Idle \in PassStates /\ InOrder(Idle, message)
  BY DEF Idle, PassStates, Places, Unlisted, PartRows, InOrder, NoPart

(* Init establishes it.                                                    *)
LEMMA InitIngest == Init => IngestInv
  <1> SUFFICES ASSUME Init PROVE IngestInv
    OBVIOUS
  <1>1. Typed
    BY IdleInOrder DEF Init, Typed, NoRow, Rows, Unlisted, PartRows
  <1>2. PassesInOrder
    BY IdleInOrder DEF Init, PassesInOrder
  <1>3. OnlyAdmittedBecomesRuns /\ HandledIsOnFile
    BY IngestAssumption DEF Init, OnlyAdmittedBecomesRuns, HandledIsOnFile
  <1> QED
    BY <1>1, <1>2, <1>3 DEF IngestInv

(* A pass that is in order stays so while the rows of messages do.         *)
LEMMA OrderStays ==
  ASSUME NEW x \in PassStates, InOrder(x, message), StatusStays PROVE InOrder(x, message')
  BY DEF InOrder, StatusStays, OnFile, May

(* A step of one pass keeps the invariant when the pass is left in order,  *)
(* and no run is made and no message marked.                               *)
LEMMA StepOfPass ==
  ASSUME NEW w \in Passes, IngestInv,
         NEW x \in PassStates, pass' = [pass EXCEPT ![w] = x], InOrder(x, message'),
         message' \in [Messages -> Rows], part' \in [Parts -> PartRows], StatusStays,
         UNCHANGED <<unhandled, runs>>
  PROVE  IngestInv'
  <1>1. Typed'
    BY DEF IngestInv, Typed
  <1>2. PassesInOrder'
    <2> SUFFICES ASSUME NEW v \in Passes PROVE InOrder(pass'[v], message')
      BY DEF PassesInOrder
    <2>1. CASE v = w
      BY <2>1 DEF IngestInv, Typed
    <2>2. CASE v # w
      BY <2>2, OrderStays DEF IngestInv, Typed, PassesInOrder
    <2> QED
      BY <2>1, <2>2
  <1>3. OnlyAdmittedBecomesRuns'
    BY DEF IngestInv, OnlyAdmittedBecomesRuns, StatusStays, May
  <1>4. HandledIsOnFile'
    BY DEF IngestInv, HandledIsOnFile, StatusStays
  <1> QED
    BY <1>1, <1>2, <1>3, <1>4 DEF IngestInv

(* A row is written over another without taking back what its status says. *)
LEMMA RowWritten ==
  ASSUME Typed, NEW m \in Messages, NEW r \in Rows, message' = [message EXCEPT ![m] = r],
         r.status # message[m].status => ~May(m) /\ r.status # "none"
  PROVE  message' \in [Messages -> Rows] /\ StatusStays
  BY DEF Typed, StatusStays, OnFile, May

(* Nothing is said of the messages.                                        *)
LEMMA RowsLeft ==
  ASSUME Typed, UNCHANGED message PROVE message' \in [Messages -> Rows] /\ StatusStays
  BY DEF Typed, StatusStays, OnFile, May

(* The pass of a thread, and what is known of it.                          *)
LEMMA PassKnown ==
  ASSUME IngestInv, NEW w \in Passes
  PROVE  Typed /\ pass[w] \in PassStates /\ InOrder(pass[w], message)
  BY DEF IngestInv, Typed, PassesInOrder

(* A pass goes on to another place, or to the end.                         *)
LEMMA GoIsTyped ==
  ASSUME Typed, NEW w \in Passes, NEW pc \in Places
  PROVE  /\ [pass[w] EXCEPT !.pc = pc] \in PassStates
         /\ Go(w, pc) => pass' = [pass EXCEPT ![w] = [pass[w] EXCEPT !.pc = pc]]
  BY DEF Typed, PassStates, Go

-----------------------------------------------------------------------------
(* Taking a message in, action by action.                                  *)

LEMMA FetchKeeps ==
  ASSUME IngestInv, NEW w \in Passes, NEW m \in Messages, Fetch(w, m) PROVE IngestInv'
  <1> DEFINE x == [Idle EXCEPT !.pc = "lookup", !.msg = m, !.polled = TRUE]
  <1>1. x \in PassStates /\ InOrder(x, message')
    BY IdleInOrder DEF InOrder, PassStates, Places, Idle
  <1> QED
    BY <1>1, PassKnown, RowsLeft, StepOfPass DEF Fetch, Typed

(* A pass that only moves on.                                              *)
LEMMA MoveKeeps ==
  ASSUME IngestInv, NEW w \in Passes, NEW pc \in Places, Go(w, pc),
         InOrder([pass[w] EXCEPT !.pc = pc], message'),
         message' \in [Messages -> Rows], part' \in [Parts -> PartRows], StatusStays,
         UNCHANGED <<unhandled, runs>>
  PROVE  IngestInv'
  <1> DEFINE x == [pass[w] EXCEPT !.pc = pc]
  <1>1. x \in PassStates /\ pass' = [pass EXCEPT ![w] = x]
    BY PassKnown, GoIsTyped
  <1>2. InOrder(x, message')
    OBVIOUS
  <1> HIDE DEF x
  <1> QED
    BY <1>1, <1>2, StepOfPass

LEMMA JudgeKeeps ==
  ASSUME IngestInv, NEW w \in Passes, Judge(w) PROVE IngestInv'
  <1>1. PICK pc \in {"mark", "claim", "fail"} : Go(w, pc) /\ (pc = "mark" => OnFile(pass[w].msg))
    BY DEF Judge
  <1>2. InOrder([pass[w] EXCEPT !.pc = pc], message')
    BY <1>1, PassKnown DEF Judge, InOrder, OnFile, PassStates
  <1>3. pc \in Places /\ part' \in [Parts -> PartRows] /\ UNCHANGED <<message, part, unhandled, runs>>
    BY PassKnown DEF Places, Judge, Typed
  <1> QED
    BY <1>1, <1>2, <1>3, PassKnown, RowsLeft, MoveKeeps

(* The row a new message gets is typed, and says something.                *)
LEMMA NewRowIsTyped ==
  ASSUME NEW m \in Messages PROVE NewRow(m) \in Rows /\ NewRow(m).status # "none"
  BY DEF NewRow, StatusOf, Rows, Security, Ingestion

LEMMA ClaimKeeps ==
  ASSUME IngestInv, NEW w \in Passes, claim_incoming_message(w) PROVE IngestInv'
  <1> DEFINE m == pass[w].msg
  <1>0. m \in Messages /\ Typed /\ pass[w] \in PassStates
    BY PassKnown DEF claim_incoming_message, InOrder
  <1>1. /\ UNCHANGED <<part, unhandled, runs>> /\ part' \in [Parts -> PartRows]
        /\ "mark" \in Places /\ "record" \in Places
    BY <1>0 DEF claim_incoming_message, Typed, Places
  <1>2. CASE OnFile(m)
    <2>1. Go(w, "mark") /\ UNCHANGED message
      BY <1>2 DEF claim_incoming_message
    <2>2. InOrder([pass[w] EXCEPT !.pc = "mark"], message')
      BY <2>1, <1>2, <1>0, PassKnown DEF InOrder, OnFile, PassStates, claim_incoming_message
    <2> QED
      BY <2>1, <2>2, <1>0, <1>1, RowsLeft, MoveKeeps
  <1>3. CASE ~OnFile(m)
    <2>1. Go(w, "record") /\ message' = [message EXCEPT ![m] = NewRow(m)]
      BY <1>3 DEF claim_incoming_message
    <2>2. message' \in [Messages -> Rows] /\ StatusStays
      BY <2>1, <1>3, <1>0, NewRowIsTyped, RowWritten DEF OnFile, May
    <2>3. InOrder([pass[w] EXCEPT !.pc = "record"], message')
      BY <2>1, <1>0, PassKnown, NewRowIsTyped DEF InOrder, PassStates, Typed, claim_incoming_message
    <2> QED
      BY <2>1, <2>2, <2>3, <1>0, <1>1, MoveKeeps
  <1> QED
    BY <1>2, <1>3

(* A pass that ends keeps the invariant.                                   *)
LEMMA LeaveKeeps ==
  ASSUME IngestInv, NEW w \in Passes, Leave(w),
         message' \in [Messages -> Rows], part' \in [Parts -> PartRows], StatusStays,
         UNCHANGED <<unhandled, runs>>
  PROVE  IngestInv'
  <1>1. Idle \in PassStates /\ InOrder(Idle, message') /\ pass' = [pass EXCEPT ![w] = Idle]
    BY IdleInOrder DEF InOrder, Idle, Leave
  <1> QED
    BY <1>1, StepOfPass

LEMMA FailureKeeps ==
  ASSUME IngestInv, NEW w \in Passes, _record_failure(w) PROVE IngestInv'
  <1> DEFINE m == pass[w].msg
             r == IF OnFile(m) THEN [message[m] EXCEPT !.ingest = "FAILED"]
                  ELSE [status |-> "QUARANTINED", ingest |-> "FAILED", run |-> NoPart]
  <1>0. m \in Messages /\ Typed /\ pass[w] \in PassStates /\ "mark" \in Places
    BY PassKnown DEF _record_failure, InOrder, Places
  <1>1. UNCHANGED <<part, unhandled, runs>> /\ part' \in [Parts -> PartRows]
    BY <1>0 DEF _record_failure, Typed
  <1>2. CASE message' = [message EXCEPT ![m] = r]
    <2>1. r \in Rows /\ (r.status # message[m].status => ~May(m) /\ r.status # "none")
      <3>1. CASE OnFile(m)
        <4>1. message[m] \in Rows /\ r = [message[m] EXCEPT !.ingest = "FAILED"]
          BY <3>1, <1>0 DEF Typed
        <4> QED
          BY <4>1 DEF Rows, Ingestion
      <3>2. CASE ~OnFile(m)
        <4>1. r = [status |-> "QUARANTINED", ingest |-> "FAILED", run |-> NoPart]
          BY <3>2
        <4> QED
          BY <4>1, <3>2 DEF Rows, Ingestion, Security, OnFile, May
      <3> QED
        BY <3>1, <3>2
    <2> HIDE DEF r
    <2>2. message' \in [Messages -> Rows] /\ StatusStays
      BY <1>2, <2>1, <1>0, RowWritten
    <2>3. CASE Leave(w)
      BY <2>2, <2>3, <1>1, LeaveKeeps
    <2>4. CASE OnFile(m) /\ Go(w, "mark")
      <3>1. InOrder([pass[w] EXCEPT !.pc = "mark"], message')
        BY <2>2, <2>4, <1>0, PassKnown DEF InOrder, StatusStays, OnFile, PassStates, _record_failure
      <3> QED
        BY <2>2, <2>4, <3>1, <1>0, <1>1, MoveKeeps
    <2> QED
      BY <2>3, <2>4 DEF _record_failure
  <1>3. CASE UNCHANGED message /\ Leave(w)
    BY <1>3, <1>0, <1>1, RowsLeft, LeaveKeeps
  <1> QED
    BY <1>2, <1>3 DEF _record_failure

LEMMA RecordKeeps ==
  ASSUME IngestInv, NEW w \in Passes, record_attachments(w) PROVE IngestInv'
  <1>0. Typed /\ pass[w] \in PassStates /\ InOrder(pass[w], message)
    BY PassKnown
  <1>1. \A c \in SUBSET Parts : Listed(pass[w].msg, c) \in [Parts -> PartRows]
    BY <1>0 DEF Listed, PartRows, PartStatuses, Typed
  <1>2. part' \in [Parts -> PartRows]
    BY <1>1, IngestAssumption DEF record_attachments
  <1>3. PICK pc \in {"mark", "hold"} : Go(w, pc)
    BY DEF record_attachments
  <1>4. pc \in Places /\ UNCHANGED <<message, unhandled, runs>>
    BY DEF Places, record_attachments
  <1>5. InOrder([pass[w] EXCEPT !.pc = pc], message')
    BY <1>0, <1>3, <1>4 DEF InOrder, PassStates, record_attachments
  <1> QED
    BY <1>0, <1>2, <1>3, <1>4, <1>5, RowsLeft, MoveKeeps

LEMMA HoldKeeps ==
  ASSUME IngestInv, NEW w \in Passes, _hold_attachments(w) PROVE IngestInv'
  <1> DEFINE pc == IF StatusOf(pass[w].msg) = "ADMITTED" THEN "gate" ELSE "settle"
             x == [pass[w] EXCEPT !.pc = pc, !.have = TRUE]
  <1>0. Typed /\ pass[w] \in PassStates /\ InOrder(pass[w], message)
    BY PassKnown
  <1>1. UNCHANGED <<message, unhandled, runs>>
    BY DEF _hold_attachments
  <1>2. part' \in [Parts -> PartRows]
    <2>1. PICK saved : part' = [p \in Parts |-> IF p \in saved THEN [part[p] EXCEPT !.held = TRUE]
                                                                 ELSE part[p]]
      BY DEF _hold_attachments
    <2>2. \A p \in Parts : part[p] \in PartRows /\ [part[p] EXCEPT !.held = TRUE] \in PartRows
      BY <1>0 DEF Typed, PartRows
    <2> QED
      BY <2>1, <2>2
  <1>3. x \in PassStates /\ pass' = [pass EXCEPT ![w] = x]
    BY <1>0 DEF _hold_attachments, PassStates, Places, Typed
  <1>4. InOrder(x, message')
    BY <1>0, <1>1 DEF InOrder, PassStates, _hold_attachments
  <1> HIDE DEF x
  <1> QED
    BY <1>0, <1>1, <1>2, <1>3, <1>4, RowsLeft, StepOfPass

LEMMA SettleKeeps ==
  ASSUME IngestInv, NEW w \in Passes, SettleQuarantined(w) PROVE IngestInv'
  <1> DEFINE m == pass[w].msg
             r == [message[m] EXCEPT !.ingest = "QUARANTINED"]
  <1>0. m \in Messages /\ Typed /\ pass[w] \in PassStates /\ "mark" \in Places
    BY PassKnown DEF SettleQuarantined, InOrder, Places
  <1>1. UNCHANGED <<part, unhandled, runs>> /\ part' \in [Parts -> PartRows] /\ Go(w, "mark")
    BY <1>0 DEF SettleQuarantined, Typed
  <1>2. r \in Rows /\ r.status = message[m].status /\ message' = [message EXCEPT ![m] = r]
    BY <1>0 DEF Rows, Ingestion, Typed, SettleQuarantined
  <1> HIDE DEF r
  <1>3. message' \in [Messages -> Rows] /\ StatusStays
    BY <1>0, <1>2, RowWritten
  <1>4. InOrder([pass[w] EXCEPT !.pc = "mark"], message')
    BY <1>0, <1>3, PassKnown DEF InOrder, StatusStays, OnFile, PassStates, SettleQuarantined
  <1> QED
    BY <1>0, <1>1, <1>3, <1>4, MoveKeeps

(* The one step that takes a message off the provider's hands.             *)
LEMMA MarkKeeps ==
  ASSUME IngestInv, NEW w \in Passes, mark_handled(w) PROVE IngestInv'
  <1>0. Typed /\ pass[w] \in PassStates /\ InOrder(pass[w], message)
    BY PassKnown
  <1>1. OnFile(pass[w].msg) /\ UNCHANGED <<message, part, runs>>
    BY <1>0 DEF InOrder, OnFile, mark_handled
  <1>2. \A m \in Messages \ unhandled' : m \in Messages \ unhandled \/ m = pass[w].msg
    BY DEF mark_handled
  <1>3. HandledIsOnFile'
    BY <1>1, <1>2 DEF HandledIsOnFile, IngestInv, OnFile
  <1>4. OnlyAdmittedBecomesRuns'
    BY <1>1 DEF OnlyAdmittedBecomesRuns, IngestInv, May
  <1>5. Typed' /\ PassesInOrder'
    BY <1>0, <1>1, IdleInOrder
    DEF mark_handled, Leave, Typed, PassesInOrder, IngestInv, InOrder, Idle
  <1> QED
    BY <1>3, <1>4, <1>5 DEF IngestInv

-----------------------------------------------------------------------------
(* Processing the attachments, action by action.                           *)

LEMMA StartKeeps ==
  ASSUME IngestInv, NEW w \in Passes, NEW m \in Messages, StartProcess(w, m) PROVE IngestInv'
  <1> DEFINE x == [Idle EXCEPT !.pc = "gate", !.msg = m]
  <1>0. Typed /\ UNCHANGED <<message, part, unhandled, runs>>
    BY PassKnown DEF StartProcess
  <1>1. x \in PassStates /\ pass' = [pass EXCEPT ![w] = x]
    BY IdleInOrder DEF PassStates, Places, StartProcess
  <1>2. InOrder(x, message')
    BY <1>0 DEF InOrder, Idle, May, StartProcess
  <1>3. part' \in [Parts -> PartRows]
    BY <1>0 DEF Typed
  <1> HIDE DEF x
  <1> QED
    BY <1>0, <1>1, <1>2, <1>3, RowsLeft, StepOfPass

LEMMA GateKeeps ==
  ASSUME IngestInv, NEW w \in Passes, Gate(w) PROVE IngestInv'
  <1>0. /\ Typed /\ pass[w] \in PassStates /\ InOrder(pass[w], message)
        /\ UNCHANGED <<message, part, unhandled, runs>>
    BY PassKnown DEF Gate
  <1>1. part' \in [Parts -> PartRows] /\ "read" \in Places
    BY <1>0 DEF Typed, Places
  <1>2. CASE May(pass[w].msg) /\ Go(w, "read")
    <2>1. InOrder([pass[w] EXCEPT !.pc = "read"], message')
      BY <1>0, <1>2 DEF InOrder, PassStates, May, Gate
    <2> QED
      BY <1>0, <1>1, <1>2, <2>1, RowsLeft, MoveKeeps
  <1>3. CASE Leave(w)
    BY <1>0, <1>1, <1>3, RowsLeft, LeaveKeeps
  <1> QED
    BY <1>2, <1>3 DEF Gate

LEMMA ReadKeeps ==
  ASSUME IngestInv, NEW w \in Passes, ReadRows(w) PROVE IngestInv'
  <1>0. /\ Typed /\ pass[w] \in PassStates /\ InOrder(pass[w], message)
        /\ UNCHANGED <<message, part, unhandled, runs>> /\ pass[w].pc = "read"
    BY PassKnown DEF ReadRows
  <1> DEFINE listed == {p \in PartsOf[pass[w].msg] : part[p].status # "none"}
  <1>1. PICK recovered \in BOOLEAN :
          pass' = [pass EXCEPT ![w].pc = "take", ![w].have = recovered,
                               ![w].todo = listed, ![w].seen = part]
    BY <1>0 DEF ReadRows, PassStates
  <1> DEFINE x == [pass[w] EXCEPT !.pc = "take", !.have = recovered, !.todo = listed, !.seen = part]
  <1>2. listed \subseteq PartsOf[pass[w].msg] /\ listed \in SUBSET Parts
    BY <1>0, IngestAssumption DEF InOrder
  <1> HIDE DEF listed
  <1>3. x \in PassStates /\ pass' = [pass EXCEPT ![w] = x]
    BY <1>0, <1>1, <1>2 DEF PassStates, Places, Typed
  <1>4. InOrder(x, message')
    BY <1>0, <1>2 DEF InOrder, PassStates
  <1>5. part' \in [Parts -> PartRows]
    BY <1>0 DEF Typed
  <1> HIDE DEF x
  <1> QED
    BY <1>0, <1>3, <1>4, <1>5, RowsLeft, StepOfPass

(* An attachment is done with, and the pass takes the next.                *)
LEMMA FinishedIsTyped ==
  ASSUME IngestInv, NEW w \in Passes, NEW p \in Parts, NEW good \in BOOLEAN, NEW bad \in BOOLEAN,
         Finished(w, p, good, bad), May(pass[w].msg), pass[w].pc # "idle",
         message' \in [Messages -> Rows], StatusStays
  PROVE  \E x \in PassStates : pass' = [pass EXCEPT ![w] = x] /\ InOrder(x, message')
  <1> DEFINE x == [pass[w] EXCEPT !.pc = "take", !.cur = NoPart, !.todo = @ \ {p},
                                  !.seen = [@ EXCEPT ![p] = Unlisted],
                                  !.good = @ \/ good, !.bad = @ \/ bad]
  <1>0. Typed /\ pass[w] \in PassStates /\ InOrder(pass[w], message)
    BY PassKnown
  <1>1. Unlisted \in PartRows
    BY DEF Unlisted, PartRows
  <1>2. /\ pass[w].todo \ {p} \in SUBSET Parts
        /\ [pass[w].seen EXCEPT ![p] = Unlisted] \in [Parts -> PartRows]
        /\ (pass[w].good \/ good) \in BOOLEAN /\ (pass[w].bad \/ bad) \in BOOLEAN
    BY <1>0, <1>1 DEF PassStates
  <1>3. x \in PassStates
    BY <1>0, <1>2 DEF PassStates, Places
  <1>4. pass' = [pass EXCEPT ![w] = x]
    BY <1>0 DEF Finished, Typed, PassStates
  <1>5. InOrder(x, message')
    BY <1>0 DEF InOrder, PassStates, StatusStays, May, OnFile
  <1> HIDE DEF x
  <1> QED
    BY <1>3, <1>4, <1>5

LEMMA PartFails ==
  ASSUME Typed, NEW p \in Parts, NEW st \in PartStatuses,
         part' = [part EXCEPT ![p].status = st] \/ UNCHANGED part
  PROVE  part' \in [Parts -> PartRows]
  BY DEF Typed, PartRows, PartStatuses

LEMMA TakeKeeps ==
  ASSUME IngestInv, NEW w \in Passes, NEW p \in Parts, Take(w, p) PROVE IngestInv'
  <1>0. /\ Typed /\ pass[w] \in PassStates /\ InOrder(pass[w], message)
        /\ UNCHANGED <<message, unhandled, runs>> /\ pass[w].pc = "take" /\ p \in pass[w].todo
    BY PassKnown DEF Take
  <1>1. part' \in [Parts -> PartRows]
    <2>1. part' = [part EXCEPT ![p].status = "FAILED"] \/ UNCHANGED part
      BY DEF Take
    <2> QED
      BY <2>1, <1>0, PartFails DEF PartStatuses
  <1>2. message' \in [Messages -> Rows] /\ StatusStays /\ May(pass[w].msg)
    BY <1>0, RowsLeft DEF InOrder, May
  <1>3. CASE \E good, bad \in BOOLEAN : Finished(w, p, good, bad)
    BY <1>0, <1>1, <1>2, <1>3, FinishedIsTyped, StepOfPass
  <1>4. CASE pass' = [pass EXCEPT ![w].pc = "run", ![w].cur = p]
    <2> DEFINE x == [pass[w] EXCEPT !.pc = "run", !.cur = p]
    <2>1. x \in PassStates /\ pass' = [pass EXCEPT ![w] = x]
      BY <1>0, <1>4 DEF PassStates, Places, Typed
    <2>2. InOrder(x, message')
      BY <1>0 DEF InOrder, PassStates
    <2> HIDE DEF x
    <2> QED
      BY <1>0, <1>1, <1>2, <2>1, <2>2, StepOfPass
  <1> QED
    BY <1>3, <1>4 DEF Take

(* The one step that makes a run.                                          *)
LEMMA PipelineKeeps ==
  ASSUME IngestInv, NEW w \in Passes, _run_invoice_pipeline(w) PROVE IngestInv'
  <1> DEFINE p == pass[w].cur
             m == pass[w].msg
  <1>0. /\ Typed /\ pass[w] \in PassStates /\ InOrder(pass[w], message)
        /\ UNCHANGED <<message, unhandled>> /\ pass[w].pc = "run"
    BY PassKnown DEF _run_invoice_pipeline
  <1>1. m \in Messages /\ p \in PartsOf[m] /\ p \in Parts /\ May(m)
    BY <1>0, IngestAssumption DEF InOrder, May
  <1>2. message' \in [Messages -> Rows] /\ StatusStays
    BY <1>0, RowsLeft
  <1>3. CASE runs' = [runs EXCEPT ![p] = @ + 1] /\ Go(w, "complete") /\ UNCHANGED part
    <2> DEFINE x == [pass[w] EXCEPT !.pc = "complete"]
    <2>1. x \in PassStates /\ pass' = [pass EXCEPT ![w] = x] /\ InOrder(x, message')
      BY <1>0, <1>3 DEF PassStates, Places, Typed, Go, InOrder
    <2> HIDE DEF x
    <2>2. Typed'
      <3>1. runs' \in [Parts -> Nat]
        BY <1>0, <1>1, <1>3 DEF Typed
      <3> QED
        BY <3>1, <1>0, <1>2, <1>3, <2>1 DEF Typed
    <2>3. PassesInOrder'
      <3>1. \A v \in Passes : pass'[v] = pass[v] \/ pass'[v] = x
        BY <2>1, <1>0 DEF Typed
      <3>2. message' = message /\ \A v \in Passes : InOrder(pass[v], message)
        BY <1>0 DEF PassesInOrder, IngestInv
      <3>3. \A v \in Passes : InOrder(pass'[v], message')
        BY <3>1, <3>2, <2>1
      <3> QED
        BY <3>3 DEF PassesInOrder
    <2>4. \A n \in Messages : \A q \in PartsOf[n] : runs'[q] > 0 => runs[q] > 0 \/ n = m
      BY <1>0, <1>1, <1>3, IngestAssumption DEF Typed
    <2>5. OnlyAdmittedBecomesRuns'
      BY <2>4, <1>0, <1>1 DEF OnlyAdmittedBecomesRuns, IngestInv, May
    <2>6. HandledIsOnFile'
      BY <1>0 DEF HandledIsOnFile, IngestInv, OnFile
    <2> QED
      BY <2>2, <2>3, <2>5, <2>6 DEF IngestInv
  <1>4. CASE /\ part' = [part EXCEPT ![p].status = "FAILED"] /\ Finished(w, p, FALSE, TRUE)
             /\ UNCHANGED runs
    <2>1. part' \in [Parts -> PartRows]
      BY <1>4, <1>0, <1>1, PartFails DEF PartStatuses
    <2> QED
      BY <1>4, <2>1, <1>0, <1>1, <1>2, FinishedIsTyped, StepOfPass
  <1> QED
    BY <1>3, <1>4 DEF _run_invoice_pipeline

LEMMA CompleteKeeps ==
  ASSUME IngestInv, NEW w \in Passes, complete_attachment(w) PROVE IngestInv'
  <1> DEFINE p == pass[w].cur
             m == pass[w].msg
             r == [message[m] EXCEPT !.run = IF message[m].run = NoPart THEN p ELSE message[m].run]
  <1>0. /\ Typed /\ pass[w] \in PassStates /\ InOrder(pass[w], message)
        /\ UNCHANGED <<runs, unhandled>> /\ pass[w].pc = "complete" /\ Go(w, "drop")
        /\ "drop" \in Places
    BY PassKnown DEF complete_attachment, Places
  <1>1. m \in Messages /\ p \in Parts
    BY <1>0, IngestAssumption DEF InOrder
  <1>2. part' \in [Parts -> PartRows]
    BY <1>0, <1>1, PartFails DEF PartStatuses, complete_attachment
  <1>3. message[m] \in Rows
    BY <1>0, <1>1 DEF Typed
  <1>4. r \in Rows /\ r.status = message[m].status
    BY <1>1, <1>3 DEF Rows
  <1>5. message' = [message EXCEPT ![m] = r]
    BY <1>0, <1>1 DEF complete_attachment, Typed
  <1> HIDE DEF r
  <1>6. message' \in [Messages -> Rows] /\ StatusStays
    BY <1>0, <1>1, <1>4, <1>5, RowWritten
  <1>7. InOrder([pass[w] EXCEPT !.pc = "drop"], message')
    BY <1>0, <1>1, <1>6 DEF InOrder, PassStates, StatusStays, May, OnFile
  <1> QED
    BY <1>0, <1>2, <1>6, <1>7, MoveKeeps

LEMMA OrphanKeeps ==
  ASSUME IngestInv, NEW w \in Passes, CompleteOrphan(w) PROVE IngestInv'
  <1>1. Typed /\ UNCHANGED <<message, part, unhandled, runs>> /\ Leave(w)
    BY PassKnown DEF CompleteOrphan
  <1>2. part' \in [Parts -> PartRows]
    BY <1>1 DEF Typed
  <1> QED
    BY <1>1, <1>2, RowsLeft, LeaveKeeps

LEMMA DropKeeps ==
  ASSUME IngestInv, NEW w \in Passes, _release_held_bytes(w) PROVE IngestInv'
  <1> DEFINE p == pass[w].cur
  <1>0. /\ Typed /\ pass[w] \in PassStates /\ InOrder(pass[w], message)
        /\ UNCHANGED <<message, runs, unhandled>> /\ pass[w].pc = "drop"
        /\ Finished(w, p, TRUE, FALSE)
    BY PassKnown DEF _release_held_bytes
  <1>1. p \in Parts /\ May(pass[w].msg)
    BY <1>0, IngestAssumption DEF InOrder, May
  <1>2. part' \in [Parts -> PartRows]
    <2>1. part' = [part EXCEPT ![p].held = FALSE] \/ UNCHANGED part
      BY DEF _release_held_bytes
    <2> QED
      BY <2>1, <1>0, <1>1 DEF Typed, PartRows
  <1> QED
    BY <1>0, <1>1, <1>2, RowsLeft, FinishedIsTyped, StepOfPass

LEMMA FinishKeeps ==
  ASSUME IngestInv, NEW w \in Passes, Finish(w) PROVE IngestInv'
  <1> DEFINE m == pass[w].msg
             r == [message[m] EXCEPT !.ingest = Outcome(pass[w].good, pass[w].bad)]
  <1>0. /\ Typed /\ pass[w] \in PassStates /\ InOrder(pass[w], message)
        /\ UNCHANGED <<runs, unhandled, part>> /\ pass[w].pc = "take" /\ "mark" \in Places
        /\ (Go(w, "mark") \/ Leave(w))
    BY PassKnown DEF Finish, Places
  <1>1. m \in Messages /\ part' \in [Parts -> PartRows]
    BY <1>0 DEF InOrder, Typed
  <1>2. message[m] \in Rows /\ Outcome(pass[w].good, pass[w].bad) \in Ingestion
    BY <1>0, <1>1 DEF Typed, Outcome, OutcomeOfAny, Ingestion
  <1>3. r \in Rows /\ r.status = message[m].status
    BY <1>2 DEF Rows
  <1>4. message' = [message EXCEPT ![m] = r]
    BY <1>0, <1>1 DEF Finish, Typed
  <1> HIDE DEF r
  <1>5. message' \in [Messages -> Rows] /\ StatusStays
    BY <1>0, <1>1, <1>3, <1>4, RowWritten
  <1>6. InOrder([pass[w] EXCEPT !.pc = "mark"], message')
    BY <1>0, <1>1, <1>5 DEF InOrder, PassStates, StatusStays, OnFile
  <1> QED
    BY <1>0, <1>1, <1>5, <1>6, MoveKeeps, LeaveKeeps

-----------------------------------------------------------------------------
(* What other actors do.                                                   *)

(* A person rules on a held message, whatever passes are under way.        *)
LEMMA RuleKeeps == IngestInv /\ Rule => IngestInv'
  <1> SUFFICES ASSUME IngestInv, NEW m \in Messages, NEW ruling \in {"RELEASED", "DISCARDED"},
                      set_email_status(m, ruling)
               PROVE  IngestInv'
    BY DEF Rule
  <1> DEFINE r == [message[m] EXCEPT !.status = ruling]
  <1>0. Typed /\ UNCHANGED <<unhandled, part, runs, pass>> /\ message[m].status = "QUARANTINED"
    BY DEF IngestInv, set_email_status
  <1>1. message[m] \in Rows
    BY <1>0 DEF Typed
  <1>2. r \in Rows /\ r.status # "none" /\ message' = [message EXCEPT ![m] = r]
    BY <1>0, <1>1 DEF Rows, Security, set_email_status, Typed
  <1> HIDE DEF r
  <1>3. message' \in [Messages -> Rows] /\ StatusStays
    BY <1>0, <1>2, RowWritten DEF May
  <1>4. Typed'
    BY <1>0, <1>3 DEF Typed
  <1>5. PassesInOrder'
    BY <1>0, <1>3, OrderStays DEF PassesInOrder, IngestInv, Typed
  <1>6. OnlyAdmittedBecomesRuns' /\ HandledIsOnFile'
    BY <1>0, <1>3 DEF OnlyAdmittedBecomesRuns, HandledIsOnFile, IngestInv, StatusStays, May
  <1> QED
    BY <1>4, <1>5, <1>6 DEF IngestInv

(* The reset sends attachments back and takes runs from under the passes.  *)
LEMMA ClearKeeps == IngestInv /\ ClearHistory => IngestInv'
  <1> SUFFICES ASSUME IngestInv, ClearHistory PROVE IngestInv'
    OBVIOUS
  <1>0. Typed /\ UNCHANGED <<unhandled, runs>>
    BY DEF IngestInv, ClearHistory
  <1> DEFINE Cleared(m) == [message[m] EXCEPT !.run = NoPart,
                  !.ingest = IF message[m].ingest \in {"PROCESSED", "PARTIAL"} THEN "RECEIVED"
                             ELSE message[m].ingest]
             Orphaned(w) == IF pass[w].pc = "complete" THEN [pass[w] EXCEPT !.pc = "orphan"]
                            ELSE pass[w]
  <1>1. message' = [m \in Messages |-> Cleared(m)] /\ pass' = [w \in Passes |-> Orphaned(w)]
    BY DEF ClearHistory
  <1>2. \A m \in Messages : Cleared(m) \in Rows /\ Cleared(m).status = message[m].status
    <2> TAKE m \in Messages
    <2>1. message[m] \in Rows
      BY <1>0 DEF Typed
    <2> QED
      BY <2>1 DEF Rows, Ingestion
  <1>3. \A w \in Passes : Orphaned(w) \in PassStates /\ InOrder(Orphaned(w), message)
    <2> TAKE w \in Passes
    <2>1. pass[w] \in PassStates /\ InOrder(pass[w], message)
      BY PassKnown
    <2> QED
      BY <2>1 DEF PassStates, Places, InOrder
  <1> HIDE DEF Cleared, Orphaned
  <1>4. message' \in [Messages -> Rows] /\ StatusStays
    BY <1>1, <1>2 DEF StatusStays, OnFile, May
  <1>5. part' \in [Parts -> PartRows]
    <2> DEFINE done == {p \in Parts : part[p].status = "PROCESSED"}
               Reset(lost) == [p \in Parts |->
                   IF p \in lost THEN [status |-> "SKIPPED", held |-> FALSE]
                   ELSE IF p \in done THEN [status |-> "PENDING", held |-> TRUE]
                   ELSE part[p]]
    <2>1. \E lost \in SUBSET {p \in done : ~part[p].held} : part' = Reset(lost)
      BY DEF ClearHistory
    <2>2. /\ [status |-> "SKIPPED", held |-> FALSE] \in PartRows
          /\ [status |-> "PENDING", held |-> TRUE] \in PartRows
      BY DEF PartRows, PartStatuses
    <2> QED
      BY <2>1, <2>2, <1>0 DEF Typed
  <1>6. Typed'
    BY <1>0, <1>1, <1>3, <1>4, <1>5 DEF Typed
  <1>7. PassesInOrder'
    <2> SUFFICES ASSUME NEW w \in Passes PROVE InOrder(pass'[w], message')
      BY DEF PassesInOrder
    <2>1. pass'[w] = Orphaned(w) /\ Orphaned(w) \in PassStates /\ InOrder(Orphaned(w), message)
      BY <1>1, <1>3
    <2> QED
      BY <2>1, <1>4, OrderStays
  <1>8. OnlyAdmittedBecomesRuns' /\ HandledIsOnFile'
    BY <1>0, <1>4 DEF OnlyAdmittedBecomesRuns, HandledIsOnFile, IngestInv, StatusStays, May
  <1> QED
    BY <1>6, <1>7, <1>8 DEF IngestInv

LEMMA CrashKeeps ==
  ASSUME IngestInv, NEW w \in Passes, Crash(w) PROVE IngestInv'
  <1>1. Typed /\ UNCHANGED <<message, part, unhandled, runs>> /\ Leave(w)
    BY PassKnown DEF Crash
  <1>2. part' \in [Parts -> PartRows]
    BY <1>1 DEF Typed
  <1> QED
    BY <1>1, <1>2, RowsLeft, LeaveKeeps

-----------------------------------------------------------------------------
(* Every step of the module keeps the invariant.                           *)
LEMMA NextIngest == IngestInv /\ [Next]_vars => IngestInv'
  <1> SUFFICES ASSUME IngestInv, [Next]_vars PROVE IngestInv'
    OBVIOUS
  <1>1. ASSUME NEW w \in Passes, Ingesting(w) PROVE IngestInv'
    BY <1>1, FetchKeeps, JudgeKeeps, ClaimKeeps, FailureKeeps, RecordKeeps, HoldKeeps,
       SettleKeeps, MarkKeeps DEF Ingesting
  <1>2. ASSUME NEW w \in Passes, process_message_attachments(w) PROVE IngestInv'
    BY <1>2, GateKeeps, ReadKeeps, TakeKeeps, PipelineKeeps, CompleteKeeps, OrphanKeeps,
       DropKeeps, FinishKeeps DEF process_message_attachments
  <1>3. CASE UNCHANGED vars
    <2>1. UNCHANGED <<message, part, runs, pass, unhandled>>
      BY <1>3 DEF vars
    <2> QED
      BY <2>1 DEF IngestInv, Typed, PassesInOrder, OnlyAdmittedBecomesRuns, HandledIsOnFile,
                  OnFile, May
  <1> QED
    BY <1>1, <1>2, <1>3, StartKeeps, RuleKeeps, ClearKeeps, CrashKeeps DEF Next

(* The inductive invariant: a pass works on attachments of its own message *)
(* only, the message is on file from the claim on, and one that is being   *)
(* processed has been admitted or released.                                *)
THEOREM IngestInvariant == Spec => []IngestInv
  BY InitIngest, NextIngest, PTL DEF Spec

(* No run comes of a message that is held or discarded, whatever the       *)
(* passes, the rulings and the failures.                                   *)
THEOREM HeldBecomesNoRun == Spec => []OnlyAdmittedBecomesRuns
  <1>1. IngestInv => OnlyAdmittedBecomesRuns
    BY DEF IngestInv
  <1> QED
    BY <1>1, IngestInvariant, PTL

(* A message is marked as handled only once it is on file.                 *)
THEOREM MarkedIsOnFile == Spec => []HandledIsOnFile
  <1>1. IngestInv => HandledIsOnFile
    BY DEF IngestInv
  <1> QED
    BY <1>1, IngestInvariant, PTL
-----------------------------------------------------------------------------
(* The types of the rest of the state.                                     *)

Counted ==
    /\ nature \in [Messages -> Natures]
    /\ unhandled \subseteq Messages
    /\ copies \subseteq Parts
    /\ upsets \in 0 .. MaxUpsets
    /\ requests \in 0 .. MaxRequests
    /\ overlaps \in Nat

LEMMA PartsAreCounted ==
  ASSUME NEW S \in SUBSET Parts PROVE IsFiniteSet(S) /\ Cardinality(S) \in Nat
  BY IngestAssumption, FS_Subset, FS_CardinalityType

(* How far each step lets the counters go.                                 *)
LEMMA IngestCounts ==
  ASSUME IngestInv, Counted, [Next]_vars
  PROVE  Counted' /\ upsets' >= upsets /\ overlaps' >= overlaps
  <1>0. /\ MaxUpsets \in Nat /\ MaxRequests \in Nat /\ upsets \in Nat /\ requests \in Nat
        /\ overlaps \in Nat /\ upsets <= MaxUpsets /\ requests <= MaxRequests
    BY IngestAssumption DEF Counted
  <1> DEFINE Kept == UNCHANGED <<nature, unhandled, copies, requests, overlaps>>
             Upset == upsets' = upsets \/ (upsets < MaxUpsets /\ upsets' = upsets + 1)
  <1>1. ASSUME Kept, Upset PROVE Counted' /\ upsets' >= upsets /\ overlaps' >= overlaps
    BY <1>0, <1>1 DEF Counted
  <1>2. CASE UNCHANGED vars \/ Rule
    BY <1>1, <1>2 DEF vars, Rule, set_email_status
  <1>3. ASSUME NEW w \in Passes, Ingesting(w)
        PROVE  Counted' /\ upsets' >= upsets /\ overlaps' >= overlaps
    <2>1. CASE \/ \E m \in Messages : Fetch(w, m)
               \/ Judge(w) \/ claim_incoming_message(w) \/ _record_failure(w)
               \/ record_attachments(w) \/ SettleQuarantined(w)
      BY <1>1, <2>1 DEF Fetch, Judge, claim_incoming_message, _record_failure,
                        record_attachments, SettleQuarantined
    <2>2. CASE mark_handled(w)
      <3>1. unhandled' \subseteq unhandled /\ Upset /\ UNCHANGED <<nature, copies, requests, overlaps>>
        BY <2>2 DEF mark_handled
      <3> QED
        BY <1>0, <3>1 DEF Counted
    <2>3. CASE _hold_attachments(w)
      <3>1. PICK saved \in SUBSET {p \in PartsOf[pass[w].msg] \cap Pdfs : ~part[p].held} :
              copies' = copies \cup saved
        BY <2>3 DEF _hold_attachments
      <3>2. copies' \subseteq Parts
        BY <3>1, IngestAssumption DEF Counted
      <3>3. Upset /\ UNCHANGED <<nature, unhandled, requests, overlaps>>
        BY <2>3 DEF _hold_attachments
      <3> QED
        BY <1>0, <3>2, <3>3 DEF Counted
    <2> QED
      BY <1>3, <2>1, <2>2, <2>3 DEF Ingesting
  <1>4. ASSUME NEW w \in Passes, process_message_attachments(w)
        PROVE  Counted' /\ upsets' >= upsets /\ overlaps' >= overlaps
    <2>1. CASE \/ ReadRows(w) \/ \E p \in Parts : Take(w, p)
               \/ _run_invoice_pipeline(w) \/ complete_attachment(w) \/ CompleteOrphan(w)
               \/ Finish(w)
      BY <1>1, <2>1 DEF ReadRows, Take, _run_invoice_pipeline, complete_attachment,
                        CompleteOrphan, Finish
    <2>2. CASE Gate(w)
      <3>1. /\ overlaps' = overlaps \/ overlaps' = overlaps + 1
            /\ UNCHANGED <<nature, unhandled, copies, requests, upsets>>
        BY <2>2 DEF Gate
      <3> QED
        BY <1>0, <3>1 DEF Counted
    <2>3. CASE _release_held_bytes(w)
      <3>1. copies' \subseteq copies /\ UNCHANGED <<nature, unhandled, requests, upsets, overlaps>>
        BY <2>3 DEF _release_held_bytes
      <3> QED
        BY <1>0, <3>1 DEF Counted
    <2> QED
      BY <1>4, <2>1, <2>2, <2>3 DEF process_message_attachments
  <1>5. ASSUME NEW w \in Passes, NEW m \in Messages, StartProcess(w, m)
        PROVE  Counted' /\ upsets' >= upsets /\ overlaps' >= overlaps
    BY <1>0, <1>5 DEF StartProcess, Counted
  <1>6. CASE ClearHistory
    <2> DEFINE bare == {p \in {p \in Parts : part[p].status = "PROCESSED"} : ~part[p].held}
    <2>1. PICK lost \in SUBSET bare :
            /\ upsets' = upsets + 1 + Cardinality(lost) /\ upsets' <= MaxUpsets
            /\ copies' = copies \cup (bare \ lost)
            /\ UNCHANGED <<nature, unhandled, requests, overlaps>>
      BY <1>6 DEF ClearHistory
    <2>2. Cardinality(lost) \in Nat
      BY PartsAreCounted
    <2> QED
      BY <1>0, <2>1, <2>2 DEF Counted
  <1>7. ASSUME NEW w \in Passes, Crash(w)
        PROVE  Counted' /\ upsets' >= upsets /\ overlaps' >= overlaps
    BY <1>1, <1>7 DEF Crash
  <1> QED
    BY <1>2, <1>3, <1>4, <1>5, <1>6, <1>7 DEF Next

LEMMA IngestCounted == Spec => []Counted
  <1>1. Init => Counted
    BY IngestAssumption DEF Init, Counted
  <1> QED
    BY <1>1, IngestCounts, IngestInvariant, PTL DEF Spec

(* The tables, and where each pass is.                                     *)
THEOREM IngestTyped == Spec => []TypeOK
  <1>1. IngestInv /\ Counted => TypeOK
    BY DEF IngestInv, Counted, Typed, TypeOK, Rows, PartRows, PassStates
  <1> QED
    BY <1>1, IngestInvariant, IngestCounted, PTL

-----------------------------------------------------------------------------
(* How many runs an attachment may still get: those of the passes that are *)
(* about to read its row, and of those that have and saw it unprocessed.   *)

About(x, p) ==
    /\ x.pc \in {"take", "run", "complete", "drop"}
    /\ p \in x.todo /\ ~IsDone(x.seen[p])
    /\ ~(x.pc \in {"complete", "drop"} /\ x.cur = p)

Chance(x, p) == About(x, p) \/ (x.pc = "read" /\ p \in PartsOf[x.msg])

Makes(x, p) == x.pc = "complete" /\ x.cur = p

AboutTo(p) == {w \in Passes : About(pass[w], p)}
Chances(p) == {w \in Passes : Chance(pass[w], p)}
Makers(p)  == {w \in Passes : Makes(pass[w], p)}

Excuses == overlaps + upsets

(* Each run beyond the first is paid for by an overlap or an upset, and so *)
(* is the one each of these passes may still make; a pass that comes when  *)
(* nobody is at work, and the attachment is not processed, makes one free. *)
RunsBounded(p) ==
    IF IsDone(part[p])
    THEN /\ runs[p] + Cardinality(AboutTo(p)) <= 1 + Excuses
         /\ runs[p] + Cardinality(Chances(p)) <= 2 + Excuses
    ELSE /\ runs[p] + Cardinality(Chances(p)) <= 1 + Excuses
         /\ Chances(p) = {} /\ Makers(p) = {} => runs[p] <= Excuses

(* A pass in the pipeline is there for an attachment it saw unprocessed.   *)
RunFits(x) == x.pc = "run" => About(x, x.cur)

RunsFit == \A w \in Passes : RunFits(pass[w])

RunsInv == IngestInv /\ Counted /\ RunsFit /\ \A p \in Parts : RunsBounded(p)

LEMMA CountingPasses ==
  ASSUME NEW S \in SUBSET Passes, NEW T \in SUBSET Passes
  PROVE  /\ Cardinality(S) \in Nat /\ Cardinality(T) \in Nat
         /\ S \subseteq T => Cardinality(S) <= Cardinality(T)
         /\ S # {} => Cardinality(S) >= 1
         /\ S = {} => Cardinality(S) = 0
         /\ \A w \in Passes : S \subseteq T \cup {w} => Cardinality(S) <= Cardinality(T) + 1
         /\ \A w \in T : S \subseteq T \ {w} => Cardinality(S) + 1 <= Cardinality(T)
  <1>1. IsFiniteSet(S) /\ IsFiniteSet(T) /\ Cardinality(S) \in Nat /\ Cardinality(T) \in Nat
    BY IngestAssumption, FS_Subset, FS_CardinalityType
  <1>2. S \subseteq T => Cardinality(S) <= Cardinality(T)
    BY <1>1, FS_Subset
  <1>3. (S = {} => Cardinality(S) = 0) /\ (S # {} => Cardinality(S) >= 1)
    BY <1>1, FS_EmptySet
  <1>4. ASSUME NEW w \in Passes, S \subseteq T \cup {w} PROVE Cardinality(S) <= Cardinality(T) + 1
    <2>1. /\ IsFiniteSet(T \cup {w}) /\ Cardinality(T \cup {w}) \in Nat
          /\ Cardinality(T \cup {w}) <= Cardinality(T) + 1
      <3>1. IsFiniteSet(T \cup {w})
        BY <1>1, FS_AddElement
      <3>2. Cardinality(T \cup {w}) = IF w \in T THEN Cardinality(T) ELSE Cardinality(T) + 1
        BY <1>1, FS_AddElement
      <3>3. Cardinality(T \cup {w}) \in Nat
        BY <3>1, FS_CardinalityType
      <3> QED
        BY <1>1, <3>1, <3>2, <3>3
    <2>2. Cardinality(S) <= Cardinality(T \cup {w})
      BY <1>4, <2>1, FS_Subset
    <2> QED
      BY <1>1, <2>1, <2>2
  <1>5. ASSUME NEW w \in T, S \subseteq T \ {w} PROVE Cardinality(S) + 1 <= Cardinality(T)
    <2>1. /\ IsFiniteSet(T \ {w}) /\ Cardinality(T \ {w}) \in Nat
          /\ Cardinality(T \ {w}) = Cardinality(T) - 1
      BY <1>1, FS_RemoveElement, FS_CardinalityType
    <2>2. Cardinality(S) <= Cardinality(T \ {w})
      BY <1>5, <2>1, FS_Subset
    <2> QED
      BY <1>1, <2>1, <2>2
  <1> QED
    BY <1>1, <1>2, <1>3, <1>4, <1>5

LEMMA RunsTyped ==
  ASSUME Typed, Counted, NEW p \in Parts
  PROVE  /\ runs[p] \in Nat /\ overlaps \in Nat /\ upsets \in Nat /\ Excuses \in Nat
         /\ AboutTo(p) \in SUBSET Passes /\ Chances(p) \in SUBSET Passes
         /\ Makers(p) \in SUBSET Passes /\ AboutTo(p) \subseteq Chances(p)
         /\ Cardinality(AboutTo(p)) \in Nat /\ Cardinality(Chances(p)) \in Nat
         /\ Cardinality(AboutTo(p)) <= Cardinality(Chances(p))
         /\ Chances(p) # {} => Cardinality(Chances(p)) >= 1
         /\ Chances(p) = {} => Cardinality(Chances(p)) = 0
  <1>1. /\ AboutTo(p) \in SUBSET Passes /\ Chances(p) \in SUBSET Passes
        /\ Makers(p) \in SUBSET Passes /\ AboutTo(p) \subseteq Chances(p)
    BY DEF AboutTo, Chances, Makers, Chance
  <1>2. runs[p] \in Nat /\ overlaps \in Nat /\ upsets \in Nat /\ Excuses \in Nat
    BY IngestAssumption DEF Typed, Counted, Excuses
  <1> QED
    BY <1>1, <1>2, CountingPasses

LEMMA SumIsNat == \A m, n \in Nat : m + n \in Nat
  OBVIOUS

LEMMA ExcusesTyped ==
  ASSUME Counted, Counted'
  PROVE  /\ overlaps \in Nat /\ upsets \in Nat /\ overlaps' \in Nat /\ upsets' \in Nat
         /\ Excuses \in Nat /\ Excuses' \in Nat
         /\ Excuses = overlaps + upsets /\ Excuses' = overlaps' + upsets'
  <1>1. overlaps \in Nat /\ upsets \in Nat /\ overlaps' \in Nat /\ upsets' \in Nat
    BY IngestAssumption DEF Counted
  <1>2. Excuses = overlaps + upsets /\ Excuses' = overlaps' + upsets'
    BY DEF Excuses
  <1>3. overlaps + upsets \in Nat /\ overlaps' + upsets' \in Nat
    BY <1>1, SumIsNat, Zenon
  <1> QED
    BY <1>1, <1>2, <1>3, Zenon

(* A step of one pass that gains no chance.                                *)
LEMMA Settles ==
  ASSUME RunsInv, Typed', Counted', NEW p \in Parts, NEW w \in Passes,
         \A v \in Passes : v # w => pass'[v] = pass[v],
         runs'[p] = runs[p], overlaps' + upsets' >= overlaps + upsets,
         IsDone(part'[p]) <=> IsDone(part[p]),
         Chance(pass'[w], p) => Chance(pass[w], p),
         IsDone(part[p]) /\ About(pass'[w], p) => About(pass[w], p),
         ~IsDone(part[p]) /\ Makes(pass[w], p) => Makes(pass'[w], p)
  PROVE  RunsBounded(p)'
  <1>1. /\ Chances(p)' \subseteq Chances(p)
        /\ IsDone(part[p]) => AboutTo(p)' \subseteq AboutTo(p)
        /\ ~IsDone(part[p]) => Makers(p) \subseteq Makers(p)'
    BY DEF Chances, AboutTo, Makers
  <1>2. /\ AboutTo(p)' \in SUBSET Passes /\ Chances(p)' \in SUBSET Passes
        /\ Chances(p) \in SUBSET Passes /\ AboutTo(p) \in SUBSET Passes
    BY DEF Chances, AboutTo
  <1>3. /\ Cardinality(Chances(p)') \in Nat /\ Cardinality(Chances(p)') <= Cardinality(Chances(p))
        /\ Cardinality(AboutTo(p)') \in Nat
        /\ IsDone(part[p]) => Cardinality(AboutTo(p)') <= Cardinality(AboutTo(p))
    BY <1>1, <1>2, CountingPasses
  <1>4. /\ runs[p] \in Nat /\ Excuses \in Nat /\ Excuses' \in Nat /\ Excuses' >= Excuses
        /\ Cardinality(AboutTo(p)) \in Nat /\ Cardinality(Chances(p)) \in Nat
        /\ Chances(p) # {} => Cardinality(Chances(p)) >= 1
    BY RunsTyped, ExcusesTyped DEF RunsInv, IngestInv
  <1>5. RunsBounded(p)
    BY DEF RunsInv
  <1>6. CASE IsDone(part[p])
    BY <1>3, <1>4, <1>5, <1>6 DEF RunsBounded
  <1>7. CASE ~IsDone(part[p])
    <2>1. runs[p] + Cardinality(Chances(p)') <= 1 + Excuses'
      BY <1>3, <1>4, <1>5, <1>7 DEF RunsBounded
    <2>2. ASSUME Chances(p)' = {}, Makers(p)' = {} PROVE runs[p] <= Excuses'
      <3>1. CASE Chances(p) = {}
        BY <1>1, <1>4, <1>5, <1>7, <2>2, <3>1 DEF RunsBounded
      <3>2. CASE Chances(p) # {}
        BY <1>4, <1>5, <1>7, <3>2 DEF RunsBounded
      <3> QED
        BY <3>1, <3>2
    <2> QED
      BY <1>7, <2>1, <2>2 DEF RunsBounded
  <1> QED
    BY <1>6, <1>7

(* An upset pays for the run that it may bring.                            *)
LEMMA UpsetPays ==
  ASSUME RunsInv, Typed', Counted', NEW p \in Parts,
         runs'[p] = runs[p], overlaps' = overlaps, upsets' > upsets,
         IsDone(part'[p]) => IsDone(part[p]),
         \A w \in Passes : /\ Chance(pass'[w], p) => Chance(pass[w], p)
                           /\ About(pass'[w], p) => About(pass[w], p)
  PROVE  RunsBounded(p)'
  <1>1. Chances(p)' \subseteq Chances(p) /\ AboutTo(p)' \subseteq AboutTo(p)
    BY DEF Chances, AboutTo
  <1>2. /\ AboutTo(p)' \in SUBSET Passes /\ Chances(p)' \in SUBSET Passes
        /\ Chances(p) \in SUBSET Passes /\ AboutTo(p) \in SUBSET Passes
    BY DEF Chances, AboutTo
  <1>3. /\ Cardinality(Chances(p)') \in Nat /\ Cardinality(Chances(p)') <= Cardinality(Chances(p))
        /\ Cardinality(AboutTo(p)') \in Nat /\ Cardinality(AboutTo(p)') <= Cardinality(AboutTo(p))
    BY <1>1, <1>2, CountingPasses
  <1>4. /\ runs[p] \in Nat /\ Excuses \in Nat /\ Excuses' \in Nat /\ Excuses' >= Excuses + 1
        /\ Cardinality(AboutTo(p)) \in Nat /\ Cardinality(Chances(p)) \in Nat
        /\ Cardinality(AboutTo(p)) <= Cardinality(Chances(p))
    BY RunsTyped, ExcusesTyped DEF RunsInv, IngestInv
  <1>5. RunsBounded(p)
    BY DEF RunsInv
  <1>6. CASE IsDone(part[p])
    BY <1>3, <1>4, <1>5, <1>6 DEF RunsBounded
  <1>7. CASE ~IsDone(part[p])
    BY <1>3, <1>4, <1>5, <1>7 DEF RunsBounded
  <1> QED
    BY <1>6, <1>7

(* A pass fails at the attachment, which is no longer processed, or makes  *)
(* a run of it.                                                            *)
LEMMA ChanceTaken ==
  ASSUME RunsInv, Typed', Counted', NEW p \in Parts, NEW w \in Passes,
         \A v \in Passes : v # w => pass'[v] = pass[v],
         overlaps' = overlaps, upsets' = upsets,
         About(pass[w], p), ~Chance(pass'[w], p),
         \/ runs'[p] = runs[p] /\ ~IsDone(part'[p])
         \/ runs'[p] = runs[p] + 1 /\ part'[p] = part[p] /\ Makes(pass'[w], p)
  PROVE  RunsBounded(p)'
  <1>1. /\ Chances(p)' \subseteq Chances(p) \ {w} /\ AboutTo(p)' \subseteq AboutTo(p) \ {w}
        /\ w \in Chances(p) /\ w \in AboutTo(p)
    BY DEF Chances, AboutTo, Chance
  <1>2. /\ AboutTo(p)' \in SUBSET Passes /\ Chances(p)' \in SUBSET Passes
        /\ Chances(p) \in SUBSET Passes /\ AboutTo(p) \in SUBSET Passes
    BY DEF Chances, AboutTo
  <1>3. /\ Cardinality(Chances(p)') \in Nat
        /\ Cardinality(Chances(p)') + 1 <= Cardinality(Chances(p))
        /\ Cardinality(AboutTo(p)') \in Nat
        /\ Cardinality(AboutTo(p)') + 1 <= Cardinality(AboutTo(p))
    BY <1>1, <1>2, CountingPasses
  <1>4. /\ runs[p] \in Nat /\ Excuses \in Nat /\ Excuses' = Excuses
        /\ Cardinality(AboutTo(p)) \in Nat /\ Cardinality(Chances(p)) \in Nat
    BY RunsTyped DEF RunsInv, IngestInv, Excuses
  <1>5. RunsBounded(p)
    BY DEF RunsInv
  <1>6. CASE runs'[p] = runs[p] /\ ~IsDone(part'[p])
    BY <1>3, <1>4, <1>5, <1>6 DEF RunsBounded
  <1>7. CASE runs'[p] = runs[p] + 1 /\ part'[p] = part[p] /\ Makes(pass'[w], p)
    <2>1. Makers(p)' # {}
      BY <1>7 DEF Makers
    <2> QED
      BY <1>3, <1>4, <1>5, <1>7, <2>1 DEF RunsBounded
  <1> QED
    BY <1>6, <1>7

(* The run is recorded, and the attachment is processed.                   *)
LEMMA RunRecorded ==
  ASSUME RunsInv, Typed', Counted', NEW p \in Parts, NEW w \in Passes,
         \A v \in Passes : v # w => pass'[v] = pass[v],
         overlaps' = overlaps, upsets' = upsets, runs'[p] = runs[p],
         Makes(pass[w], p), ~Chance(pass'[w], p), IsDone(part'[p])
  PROVE  RunsBounded(p)'
  <1>1. Chances(p)' \subseteq Chances(p) /\ AboutTo(p)' \subseteq AboutTo(p)
    BY DEF Chances, AboutTo, Chance
  <1>2. /\ AboutTo(p)' \in SUBSET Passes /\ Chances(p)' \in SUBSET Passes
        /\ Chances(p) \in SUBSET Passes /\ AboutTo(p) \in SUBSET Passes
    BY DEF Chances, AboutTo
  <1>3. /\ Cardinality(Chances(p)') \in Nat /\ Cardinality(Chances(p)') <= Cardinality(Chances(p))
        /\ Cardinality(AboutTo(p)') \in Nat /\ Cardinality(AboutTo(p)') <= Cardinality(AboutTo(p))
    BY <1>1, <1>2, CountingPasses
  <1>4. /\ runs[p] \in Nat /\ Excuses \in Nat /\ Excuses' = Excuses
        /\ Cardinality(AboutTo(p)) \in Nat /\ Cardinality(Chances(p)) \in Nat
        /\ Cardinality(AboutTo(p)) <= Cardinality(Chances(p))
    BY RunsTyped DEF RunsInv, IngestInv, Excuses
  <1>5. RunsBounded(p)
    BY DEF RunsInv
  <1> QED
    BY <1>3, <1>4, <1>5 DEF RunsBounded

(* A pass begins: as an overlap, or while nobody is at work.               *)
LEMMA ChanceGiven ==
  ASSUME RunsInv, Typed', Counted', NEW p \in Parts, NEW w \in Passes,
         \A v \in Passes : v # w => pass'[v] = pass[v],
         upsets' = upsets, runs'[p] = runs[p], part'[p] = part[p],
         ~About(pass'[w], p), ~Makes(pass[w], p),
         \/ overlaps' = overlaps + 1
         \/ overlaps' = overlaps /\ Chances(p) = {} /\ Makers(p) = {}
  PROVE  RunsBounded(p)'
  <1>1. /\ Chances(p)' \subseteq Chances(p) \cup {w} /\ AboutTo(p)' \subseteq AboutTo(p)
        /\ Makers(p) \subseteq Makers(p)'
    BY DEF Chances, AboutTo, Makers
  <1>2. /\ AboutTo(p)' \in SUBSET Passes /\ Chances(p)' \in SUBSET Passes
        /\ Chances(p) \in SUBSET Passes /\ AboutTo(p) \in SUBSET Passes
    BY DEF Chances, AboutTo
  <1>3. /\ Cardinality(Chances(p)') \in Nat
        /\ Cardinality(Chances(p)') <= Cardinality(Chances(p)) + 1
        /\ Cardinality(AboutTo(p)') \in Nat /\ Cardinality(AboutTo(p)') <= Cardinality(AboutTo(p))
    BY <1>1, <1>2, CountingPasses
  <1>4. /\ runs[p] \in Nat /\ overlaps \in Nat /\ upsets \in Nat /\ Excuses \in Nat
        /\ Cardinality(AboutTo(p)) \in Nat /\ Cardinality(Chances(p)) \in Nat
        /\ Cardinality(AboutTo(p)) <= Cardinality(Chances(p))
        /\ Chances(p) = {} => Cardinality(Chances(p)) = 0
    BY RunsTyped DEF RunsInv, IngestInv
  <1>5. RunsBounded(p)
    BY DEF RunsInv
  <1>6. CASE overlaps' = overlaps + 1
    <2>1. Excuses' = Excuses + 1
      BY <1>4, <1>6 DEF Excuses
    <2> QED
      BY <1>3, <1>4, <1>5, <2>1 DEF RunsBounded
  <1>7. CASE overlaps' = overlaps /\ Chances(p) = {} /\ Makers(p) = {}
    <2>1. Excuses' = Excuses
      BY <1>7 DEF Excuses
    <2>2. Cardinality(Chances(p)') <= 1 /\ runs[p] <= 1 + Excuses
          /\ (~IsDone(part[p]) => runs[p] <= Excuses)
      BY <1>3, <1>4, <1>5, <1>7 DEF RunsBounded
    <2>3. IsDone(part'[p]) <=> IsDone(part[p])
      OBVIOUS
    <2>4. CASE IsDone(part[p])
      BY <1>3, <1>4, <1>5, <2>1, <2>2, <2>3, <2>4 DEF RunsBounded
    <2>5. CASE ~IsDone(part[p])
      BY <1>3, <1>4, <1>5, <2>1, <2>2, <2>3, <2>5 DEF RunsBounded
    <2> QED
      BY <2>4, <2>5
  <1> QED
    BY <1>6, <1>7

-----------------------------------------------------------------------------
(* The steps, one by one.                                                  *)

Elsewhere == {"idle", "lookup", "claim", "fail", "record", "hold", "settle", "mark", "gate",
              "orphan"}

(* Neither before nor after such a step does the pass have a run to make.  *)
LEMMA StepElsewhere ==
  ASSUME RunsInv, Typed', Counted', NEW w \in Passes,
         \A v \in Passes : v # w => pass'[v] = pass[v],
         pass[w].pc \in Elsewhere, pass'[w].pc \in Elsewhere, runs' = runs,
         overlaps' >= overlaps, upsets' >= upsets,
         \A p \in Parts : IsDone(part'[p]) <=> IsDone(part[p])
  PROVE  \A p \in Parts : RunsBounded(p)'
  <1> TAKE p \in Parts
  <1>1. ~Chance(pass'[w], p) /\ ~About(pass'[w], p) /\ ~Makes(pass[w], p)
    BY DEF Chance, About, Makes, Elsewhere
  <1>2. overlaps' + upsets' >= overlaps + upsets
    BY ExcusesTyped DEF RunsInv
  <1> QED
    BY <1>1, <1>2, Settles

LEMMA IngestingBounded ==
  ASSUME RunsInv, Typed', Counted', upsets' >= upsets, overlaps' >= overlaps, NEW w \in Passes,
         Ingesting(w) \/ \E m \in Messages : StartProcess(w, m)
  PROVE  \A p \in Parts : RunsBounded(p)'
  <1>0. pass \in [Passes -> PassStates] /\ part \in [Parts -> PartRows]
    BY DEF RunsInv, IngestInv, Typed
  <1>1. CASE \/ \E m \in Messages : Fetch(w, m) \/ StartProcess(w, m)
             \/ Judge(w) \/ claim_incoming_message(w) \/ _record_failure(w)
             \/ SettleQuarantined(w) \/ mark_handled(w)
    <2>0. /\ \E y : pass' = [pass EXCEPT ![w] = y] /\ y.pc \in Elsewhere
          /\ pass[w].pc \in Elsewhere /\ runs' = runs /\ part' = part
      <3>1. ASSUME NEW pc \in Elsewhere, Go(w, pc)
            PROVE  \E y : pass' = [pass EXCEPT ![w] = y] /\ y.pc \in Elsewhere
        <4> DEFINE y == [pass[w] EXCEPT !.pc = pc]
        <4>1. pass' = [pass EXCEPT ![w] = y] /\ y.pc = pc
          BY <1>0, <3>1 DEF Go, PassStates
        <4> QED
          BY <3>1, <4>1
      <3>2. ASSUME Leave(w) PROVE \E y : pass' = [pass EXCEPT ![w] = y] /\ y.pc \in Elsewhere
        <4>1. pass' = [pass EXCEPT ![w] = Idle] /\ Idle.pc \in Elsewhere
          BY <3>2 DEF Leave, Idle, Elsewhere
        <4> QED
          BY <4>1
      <3>3. CASE \E m \in Messages : Fetch(w, m)
        BY <3>3 DEF Fetch, Idle, Elsewhere
      <3>4. CASE \E m \in Messages : StartProcess(w, m)
        BY <3>4 DEF StartProcess, Idle, Elsewhere
      <3>5. CASE Judge(w)
        BY <3>1, <3>5 DEF Judge, Elsewhere
      <3>6. CASE claim_incoming_message(w)
        BY <3>1, <3>6 DEF claim_incoming_message, Elsewhere
      <3>7. CASE _record_failure(w)
        BY <3>1, <3>2, <3>7 DEF _record_failure, Elsewhere
      <3>8. CASE SettleQuarantined(w)
        BY <3>1, <3>8 DEF SettleQuarantined, Elsewhere
      <3>9. CASE mark_handled(w)
        BY <3>2, <3>9 DEF mark_handled, Elsewhere
      <3> QED
        BY <1>1, <3>3, <3>4, <3>5, <3>6, <3>7, <3>8, <3>9
    <2>1. /\ \A v \in Passes : v # w => pass'[v] = pass[v]
          /\ pass[w].pc \in Elsewhere /\ pass'[w].pc \in Elsewhere
          /\ runs' = runs /\ \A p \in Parts : IsDone(part'[p]) <=> IsDone(part[p])
      BY <1>0, <2>0
    <2> QED
      BY <2>1, StepElsewhere
  <1>2. CASE record_attachments(w)
    <2>1. /\ \A v \in Passes : v # w => pass'[v] = pass[v]
          /\ pass[w].pc \in Elsewhere /\ pass'[w].pc \in Elsewhere /\ runs' = runs
      BY <1>0, <1>2 DEF record_attachments, Go, Elsewhere, PassStates
    <2>2. \A p \in Parts : IsDone(part'[p]) <=> IsDone(part[p])
      BY <1>2 DEF record_attachments, Listed, IsDone
    <2> QED
      BY <2>1, <2>2, StepElsewhere
  <1>3. CASE _hold_attachments(w)
    <2>1. /\ \A v \in Passes : v # w => pass'[v] = pass[v]
          /\ pass[w].pc \in Elsewhere /\ pass'[w].pc \in Elsewhere /\ runs' = runs
      BY <1>0, <1>3 DEF _hold_attachments, Elsewhere, PassStates
    <2>2. PICK saved : part' = [p \in Parts |->
                          IF p \in saved THEN [part[p] EXCEPT !.held = TRUE] ELSE part[p]]
      BY <1>3 DEF _hold_attachments
    <2>3. \A p \in Parts : IsDone(part'[p]) <=> IsDone(part[p])
      BY <1>0, <2>2 DEF IsDone, PartRows
    <2> QED
      BY <2>1, <2>3, StepElsewhere
  <1> QED
    BY <1>1, <1>2, <1>3 DEF Ingesting

(* A pass moves without a run, and no attachment is processed for it.      *)
LEMMA StepSettles ==
  ASSUME RunsInv, Typed', Counted', NEW w \in Passes,
         \A v \in Passes : v # w => pass'[v] = pass[v],
         runs' = runs, overlaps' = overlaps, upsets' = upsets, NEW p \in Parts,
         IsDone(part'[p]) <=> IsDone(part[p]),
         Chance(pass'[w], p) => Chance(pass[w], p),
         IsDone(part[p]) /\ About(pass'[w], p) => About(pass[w], p),
         ~Makes(pass[w], p)
  PROVE  RunsBounded(p)'
  <1>1. overlaps' + upsets' >= overlaps + upsets
    BY ExcusesTyped DEF RunsInv
  <1> QED
    BY <1>1, Settles

(* What is left of a pass that is done with an attachment.                 *)
LEMMA FinishedShape ==
  ASSUME RunsInv, NEW w \in Passes, NEW p \in Parts, NEW good \in BOOLEAN, NEW bad \in BOOLEAN,
         Finished(w, p, good, bad)
  PROVE  /\ \A v \in Passes : v # w => pass'[v] = pass[v]
         /\ pass'[w].pc = "take" /\ pass'[w].todo = pass[w].todo \ {p}
         /\ \A q \in Parts : q # p => pass'[w].seen[q] = pass[w].seen[q]
         /\ pass'[w].msg = pass[w].msg
  <1>1. pass \in [Passes -> PassStates] /\ pass[w] \in PassStates
    BY DEF RunsInv, IngestInv, Typed
  <1> QED
    BY <1>1 DEF Finished, PassStates

(* A pass at an attachment leaves its chances at the others as they are.   *)
LEMMA ChancesAfter ==
  ASSUME RunsInv, NEW w \in Passes, NEW p \in Parts, NEW good \in BOOLEAN, NEW bad \in BOOLEAN,
         Finished(w, p, good, bad), pass[w].pc \in {"take", "run", "drop"},
         pass[w].pc # "take" => pass[w].cur = p
  PROVE  \A q \in Parts : /\ Chance(pass'[w], q) => q # p /\ Chance(pass[w], q)
                          /\ About(pass'[w], q) => About(pass[w], q)
                          /\ ~Makes(pass[w], q)
  <1> TAKE q \in Parts
  <1>1. About(pass'[w], q) => q # p /\ About(pass[w], q)
    BY FinishedShape DEF About
  <1>2. Chance(pass'[w], q) => About(pass'[w], q)
    BY FinishedShape DEF Chance
  <1> QED
    BY <1>1, <1>2 DEF Chance, Makes

LEMMA FinishedBounded ==
  ASSUME RunsInv, Typed', Counted', NEW w \in Passes, NEW p \in Parts, NEW good \in BOOLEAN,
         NEW bad \in BOOLEAN, Finished(w, p, good, bad), pass[w].pc \in {"take", "run", "drop"},
         pass[w].pc # "take" => pass[w].cur = p,
         \A q \in Parts : q # p => (IsDone(part'[q]) <=> IsDone(part[q])),
         \/ IsDone(part'[p]) <=> IsDone(part[p])
         \/ ~IsDone(part'[p]) /\ About(pass[w], p),
         runs' = runs, overlaps' = overlaps, upsets' = upsets
  PROVE  \A q \in Parts : RunsBounded(q)'
  <1> TAKE q \in Parts
  <1>1. /\ \A v \in Passes : v # w => pass'[v] = pass[v]
        /\ Chance(pass'[w], q) => q # p /\ Chance(pass[w], q)
        /\ About(pass'[w], q) => About(pass[w], q)
        /\ ~Makes(pass[w], q)
    BY FinishedShape, ChancesAfter
  <1>2. CASE IsDone(part'[q]) <=> IsDone(part[q])
    BY <1>1, <1>2, StepSettles
  <1>3. CASE q = p /\ ~IsDone(part'[p]) /\ About(pass[w], p)
    BY <1>1, <1>3, ChanceTaken
  <1> QED
    BY <1>2, <1>3

LEMMA GateBounded ==
  ASSUME RunsInv, Typed', Counted', NEW w \in Passes, Gate(w)
  PROVE  \A p \in Parts : RunsBounded(p)'
  <1>0. /\ pass \in [Passes -> PassStates] /\ pass[w].pc = "gate"
        /\ UNCHANGED <<part, runs, upsets>>
    BY DEF RunsInv, IngestInv, Typed, Gate
  <1>1. CASE Leave(w) /\ UNCHANGED overlaps
    <2>1. /\ \A v \in Passes : v # w => pass'[v] = pass[v]
          /\ pass[w].pc \in Elsewhere /\ pass'[w].pc \in Elsewhere
      BY <1>0, <1>1 DEF Leave, Idle, Elsewhere
    <2>2. overlaps' >= overlaps /\ upsets' >= upsets
      BY <1>0, <1>1, ExcusesTyped DEF RunsInv
    <2> QED
      BY <1>0, <2>1, <2>2, StepElsewhere
  <1>2. CASE Go(w, "read")
    <2> TAKE p \in Parts
    <2>1. /\ \A v \in Passes : v # w => pass'[v] = pass[v]
          /\ pass'[w].pc = "read" /\ pass'[w].msg = pass[w].msg
      BY <1>0, <1>2 DEF Go, PassStates
    <2>2. ~About(pass'[w], p) /\ ~Makes(pass[w], p) /\ ~Chance(pass[w], p)
      BY <1>0, <2>1 DEF About, Makes, Chance
    <2>3. overlaps' = IF \E v \in Passes : pass[v].msg = pass[w].msg /\ Processing(v)
                      THEN overlaps + 1 ELSE overlaps
      BY <1>2 DEF Gate, Leave, Go, Idle, PassStates, RunsInv, IngestInv, Typed
    <2>4. CASE p \in PartsOf[pass[w].msg]
      <3>1. ASSUME NEW v \in Passes, Chance(pass[v], p) \/ Makes(pass[v], p)
            PROVE  Processing(v) /\ pass[v].msg = pass[w].msg
        <4>1. InOrder(pass[v], message) /\ InOrder(pass[w], message)
          BY DEF RunsInv, IngestInv, PassesInOrder
        <4>2. Processing(v)
          BY <3>1 DEF Chance, About, Makes, Processing
        <4>3. pass[v].msg \in Messages /\ p \in PartsOf[pass[v].msg] /\ pass[w].msg \in Messages
          BY <1>0, <3>1, <4>1, <4>2 DEF InOrder, Chance, About, Makes, Processing
        <4> QED
          BY <2>4, <4>2, <4>3, IngestAssumption
      <3>2. overlaps' = overlaps + 1 \/ (overlaps' = overlaps /\ Chances(p) = {} /\ Makers(p) = {})
        BY <2>3, <3>1 DEF Chances, Makers
      <3> QED
        BY <1>0, <2>1, <2>2, <3>2, ChanceGiven
    <2>5. CASE p \notin PartsOf[pass[w].msg]
      <3>1. ~Chance(pass'[w], p)
        BY <2>1, <2>2, <2>5 DEF Chance
      <3>2. overlaps' + upsets' >= overlaps + upsets
        BY <1>0, <2>3, ExcusesTyped DEF RunsInv
      <3> QED
        BY <1>0, <2>1, <2>2, <3>1, <3>2, Settles
    <2> QED
      BY <2>4, <2>5
  <1> QED
    BY <1>1, <1>2 DEF Gate

LEMMA ReadBounded ==
  ASSUME RunsInv, Typed', Counted', NEW w \in Passes, ReadRows(w)
  PROVE  \A p \in Parts : RunsBounded(p)'
  <1> TAKE p \in Parts
  <1>0. /\ pass \in [Passes -> PassStates] /\ pass[w] \in PassStates /\ pass[w].pc = "read"
        /\ UNCHANGED <<part, runs, upsets, overlaps>>
    BY DEF RunsInv, IngestInv, Typed, ReadRows
  <1>1. /\ \A v \in Passes : v # w => pass'[v] = pass[v]
        /\ pass'[w].pc = "take" /\ pass'[w].seen = part
        /\ pass'[w].todo \subseteq PartsOf[pass[w].msg]
    <2> DEFINE listed == {q \in PartsOf[pass[w].msg] : part[q].status # "none"}
    <2>1. PICK recovered : pass' = [pass EXCEPT ![w].pc = "take", ![w].have = recovered,
                                                ![w].todo = listed, ![w].seen = part]
      BY DEF ReadRows
    <2>2. listed \subseteq PartsOf[pass[w].msg]
      OBVIOUS
    <2> HIDE DEF listed
    <2> QED
      BY <1>0, <2>1, <2>2 DEF PassStates
  <1>2. /\ Chance(pass'[w], p) => Chance(pass[w], p)
        /\ IsDone(part[p]) => ~About(pass'[w], p)
        /\ ~Makes(pass[w], p)
    BY <1>0, <1>1 DEF Chance, About, Makes
  <1> QED
    BY <1>0, <1>1, <1>2, StepSettles

LEMMA TakeBounded ==
  ASSUME RunsInv, Typed', Counted', NEW w \in Passes, NEW p \in Parts, Take(w, p)
  PROVE  \A q \in Parts : RunsBounded(q)'
  <1>0. /\ pass \in [Passes -> PassStates] /\ pass[w] \in PassStates /\ pass[w].pc = "take"
        /\ part \in [Parts -> PartRows]
        /\ p \in pass[w].todo /\ UNCHANGED <<runs, upsets, overlaps>>
    BY DEF RunsInv, IngestInv, Typed, Take
  <1>1. CASE UNCHANGED part /\ \E good, bad \in BOOLEAN : Finished(w, p, good, bad)
    BY <1>0, <1>1, FinishedBounded
  <1>2. CASE /\ ~IsDone(pass[w].seen[p])
             /\ part' = [part EXCEPT ![p].status = "FAILED"] /\ Finished(w, p, FALSE, TRUE)
    <2>1. About(pass[w], p)
      BY <1>0, <1>2 DEF About
    <2>2. /\ ~IsDone(part'[p])
          /\ \A q \in Parts : q # p => (IsDone(part'[q]) <=> IsDone(part[q]))
      BY <1>0, <1>2 DEF IsDone, PartRows
    <2> QED
      BY <1>0, <1>2, <2>1, <2>2, FinishedBounded
  <1>3. CASE UNCHANGED part /\ pass' = [pass EXCEPT ![w].pc = "run", ![w].cur = p]
    <2> TAKE q \in Parts
    <2>1. /\ \A v \in Passes : v # w => pass'[v] = pass[v]
          /\ pass'[w].pc = "run" /\ pass'[w].todo = pass[w].todo /\ pass'[w].seen = pass[w].seen
      BY <1>0, <1>3 DEF PassStates
    <2>2. /\ Chance(pass'[w], q) => Chance(pass[w], q)
          /\ About(pass'[w], q) => About(pass[w], q)
          /\ ~Makes(pass[w], q)
      BY <1>0, <2>1 DEF Chance, About, Makes
    <2> QED
      BY <1>0, <1>3, <2>1, <2>2, StepSettles
  <1> QED
    BY <1>1, <1>2, <1>3 DEF Take


(* The pipeline makes a run, or fails at the attachment.                   *)
LEMMA PipelineBounded ==
  ASSUME RunsInv, Typed', Counted', NEW w \in Passes, _run_invoice_pipeline(w)
  PROVE  \A q \in Parts : RunsBounded(q)'
  <1> DEFINE p == pass[w].cur
  <1>0. /\ pass \in [Passes -> PassStates] /\ pass[w] \in PassStates /\ pass[w].pc = "run"
        /\ part \in [Parts -> PartRows] /\ runs \in [Parts -> Nat]
        /\ UNCHANGED <<upsets, overlaps>>
    BY DEF RunsInv, IngestInv, Typed, _run_invoice_pipeline
  <1>1. About(pass[w], p) /\ p \in Parts
    <2>1. About(pass[w], p)
      BY <1>0 DEF RunsInv, RunsFit, RunFits
    <2> QED
      BY <1>0, <2>1 DEF About, PassStates
  <1>2. CASE runs' = [runs EXCEPT ![p] = @ + 1] /\ Go(w, "complete") /\ UNCHANGED part
    <2> TAKE q \in Parts
    <2>1. /\ \A v \in Passes : v # w => pass'[v] = pass[v]
          /\ pass'[w].pc = "complete" /\ pass'[w].todo = pass[w].todo
          /\ pass'[w].seen = pass[w].seen /\ pass'[w].cur = p
      BY <1>0, <1>2 DEF Go, PassStates
    <2>2. CASE q = p
      <3>1. ~Chance(pass'[w], p) /\ Makes(pass'[w], p)
        BY <2>1 DEF Chance, About, Makes
      <3>2. runs'[p] = runs[p] + 1 /\ part'[p] = part[p]
        BY <1>0, <1>1, <1>2
      <3> QED
        BY <1>0, <1>1, <2>1, <2>2, <3>1, <3>2, ChanceTaken
    <2>3. CASE q # p
      <3>1. /\ Chance(pass'[w], q) => Chance(pass[w], q)
            /\ About(pass'[w], q) => About(pass[w], q)
            /\ ~Makes(pass[w], q)
        BY <1>0, <2>1 DEF Chance, About, Makes
      <3>2. runs'[q] = runs[q] /\ part'[q] = part[q]
        BY <1>0, <1>2, <2>3
      <3>3. overlaps' + upsets' >= overlaps + upsets
        BY <1>0, ExcusesTyped DEF RunsInv
      <3> QED
        BY <2>1, <3>1, <3>2, <3>3, Settles
    <2> QED
      BY <2>2, <2>3
  <1>3. CASE /\ part' = [part EXCEPT ![p].status = "FAILED"] /\ Finished(w, p, FALSE, TRUE)
             /\ UNCHANGED runs
    <2>1. /\ ~IsDone(part'[p])
          /\ \A q \in Parts : q # p => (IsDone(part'[q]) <=> IsDone(part[q]))
      BY <1>0, <1>1, <1>3 DEF IsDone, PartRows
    <2> QED
      BY <1>0, <1>1, <1>3, <2>1, FinishedBounded
  <1> QED
    BY <1>2, <1>3 DEF _run_invoice_pipeline

LEMMA CompleteBounded ==
  ASSUME RunsInv, Typed', Counted', NEW w \in Passes, complete_attachment(w)
  PROVE  \A q \in Parts : RunsBounded(q)'
  <1> DEFINE p == pass[w].cur
  <1> TAKE q \in Parts
  <1>0. /\ pass \in [Passes -> PassStates] /\ pass[w] \in PassStates /\ pass[w].pc = "complete"
        /\ part \in [Parts -> PartRows] /\ part' = [part EXCEPT ![p].status = "PROCESSED"]
        /\ UNCHANGED <<upsets, overlaps, runs>>
    BY DEF RunsInv, IngestInv, Typed, complete_attachment
  <1>1. /\ \A v \in Passes : v # w => pass'[v] = pass[v]
        /\ pass'[w].pc = "drop" /\ pass'[w].todo = pass[w].todo
        /\ pass'[w].seen = pass[w].seen /\ pass'[w].cur = p
    BY <1>0 DEF complete_attachment, Go, PassStates
  <1>2. CASE q = p
    <2>1. ~Chance(pass'[w], p) /\ Makes(pass[w], p)
      BY <1>0, <1>1 DEF Chance, About, Makes
    <2>2. IsDone(part'[q])
      BY <1>0, <1>2 DEF IsDone, PartRows
    <2> QED
      BY <1>0, <1>1, <1>2, <2>1, <2>2, RunRecorded
  <1>3. CASE q # p
    <2>1. /\ Chance(pass'[w], q) => Chance(pass[w], q)
          /\ About(pass'[w], q) => About(pass[w], q)
          /\ ~Makes(pass[w], q)
      BY <1>0, <1>1, <1>3 DEF Chance, About, Makes
    <2>2. part'[q] = part[q]
      BY <1>0, <1>3
    <2> QED
      BY <1>0, <1>1, <2>1, <2>2, StepSettles
  <1> QED
    BY <1>2, <1>3

LEMMA DropBounded ==
  ASSUME RunsInv, Typed', Counted', NEW w \in Passes, _release_held_bytes(w)
  PROVE  \A q \in Parts : RunsBounded(q)'
  <1> DEFINE p == pass[w].cur
  <1>0. /\ pass \in [Passes -> PassStates] /\ pass[w] \in PassStates /\ pass[w].pc = "drop"
        /\ part \in [Parts -> PartRows] /\ Finished(w, p, TRUE, FALSE)
        /\ UNCHANGED <<upsets, overlaps, runs>>
    BY DEF RunsInv, IngestInv, Typed, _release_held_bytes
  <1>1. p \in Parts
    <2>1. InOrder(pass[w], message)
      BY DEF RunsInv, IngestInv, PassesInOrder
    <2> QED
      BY <1>0, <2>1, IngestAssumption DEF InOrder
  <1>2. part' = part \/ part' = [part EXCEPT ![p].held = FALSE]
    BY DEF _release_held_bytes
  <1>3. \A q \in Parts : IsDone(part'[q]) <=> IsDone(part[q])
    BY <1>0, <1>2 DEF IsDone, PartRows
  <1> QED
    BY <1>0, <1>1, <1>3, FinishedBounded

LEMMA FinishBounded ==
  ASSUME RunsInv, Typed', Counted', NEW w \in Passes, Finish(w)
  PROVE  \A q \in Parts : RunsBounded(q)'
  <1> TAKE q \in Parts
  <1>0. /\ pass \in [Passes -> PassStates] /\ pass[w].pc = "take"
        /\ UNCHANGED <<part, upsets, overlaps, runs>>
    BY DEF RunsInv, IngestInv, Typed, Finish
  <1>1. /\ \A v \in Passes : v # w => pass'[v] = pass[v]
        /\ pass'[w].pc \in {"mark", "idle"}
    BY <1>0 DEF Finish, Go, Leave, Idle, PassStates
  <1>2. ~Chance(pass'[w], q) /\ ~About(pass'[w], q) /\ ~Makes(pass[w], q)
    BY <1>0, <1>1 DEF Chance, About, Makes
  <1> QED
    BY <1>0, <1>1, <1>2, StepSettles

(* Clearing the run history, or a crash.                                   *)
LEMMA UpsetBounded ==
  ASSUME RunsInv, Typed', Counted', ClearHistory \/ \E w \in Passes : Crash(w)
  PROVE  \A q \in Parts : RunsBounded(q)'
  <1> TAKE q \in Parts
  <1>0. /\ pass \in [Passes -> PassStates] /\ part \in [Parts -> PartRows] /\ upsets \in Nat
    BY ExcusesTyped DEF RunsInv, IngestInv, Typed
  <1>1. CASE ClearHistory
    <2>1. PICK lost \in SUBSET Parts :
            /\ upsets' = upsets + 1 + Cardinality(lost)
            /\ part' = [p \in Parts |->
                  IF p \in lost THEN [status |-> "SKIPPED", held |-> FALSE]
                  ELSE IF part[p].status = "PROCESSED" THEN [status |-> "PENDING", held |-> TRUE]
                  ELSE part[p]]
            /\ pass' = [w \in Passes |-> IF pass[w].pc = "complete"
                                          THEN [pass[w] EXCEPT !.pc = "orphan"] ELSE pass[w]]
            /\ UNCHANGED <<runs, overlaps>>
      <3> DEFINE done == {p \in Parts : part[p].status = "PROCESSED"}
                 bare == {p \in done : ~part[p].held}
      <3>1. PICK lost \in SUBSET bare :
              /\ upsets' = upsets + 1 + Cardinality(lost)
              /\ part' = [p \in Parts |->
                    IF p \in lost THEN [status |-> "SKIPPED", held |-> FALSE]
                    ELSE IF p \in done THEN [status |-> "PENDING", held |-> TRUE]
                    ELSE part[p]]
              /\ pass' = [w \in Passes |-> IF pass[w].pc = "complete"
                                          THEN [pass[w] EXCEPT !.pc = "orphan"] ELSE pass[w]]
              /\ UNCHANGED <<runs, overlaps>>
        BY <1>1 DEF ClearHistory
      <3> QED
        BY <3>1
    <2>2. upsets' > upsets
      BY <1>0, <2>1, PartsAreCounted
    <2>3. ~IsDone(part'[q])
      BY <2>1 DEF IsDone
    <2>4. ASSUME NEW w \in Passes
          PROVE  /\ Chance(pass'[w], q) => Chance(pass[w], q)
                 /\ About(pass'[w], q) => About(pass[w], q)
      <3>1. pass'[w] = pass[w] \/ pass'[w].pc = "orphan"
        BY <1>0, <2>1 DEF PassStates
      <3> QED
        BY <3>1 DEF Chance, About
    <2> QED
      BY <2>1, <2>2, <2>3, <2>4, UpsetPays
  <1>2. ASSUME NEW v \in Passes, Crash(v) PROVE RunsBounded(q)'
    <2>1. upsets' > upsets /\ UNCHANGED <<part, runs, overlaps>>
      BY <1>0, <1>2 DEF Crash
    <2>2. ASSUME NEW w \in Passes
          PROVE  /\ Chance(pass'[w], q) => Chance(pass[w], q)
                 /\ About(pass'[w], q) => About(pass[w], q)
      <3>1. pass'[w] = pass[w] \/ pass'[w].pc = "idle"
        BY <1>0, <1>2 DEF Crash, Leave, Idle
      <3> QED
        BY <3>1 DEF Chance, About
    <2> QED
      BY <2>1, <2>2, UpsetPays
  <1> QED
    BY <1>1, <1>2

(* Nothing of the passes or the attachments moves.                         *)
LEMMA StillBounded ==
  ASSUME RunsInv, Typed', Counted', UNCHANGED <<pass, part, runs, upsets, overlaps>>
  PROVE  \A q \in Parts : RunsBounded(q)'
  BY DEF RunsInv, RunsBounded, Chances, AboutTo, Makers, Chance, Excuses

-----------------------------------------------------------------------------
(* The pass of a run is at an attachment it saw unprocessed.               *)
LEMMA FitKept ==
  ASSUME pass \in [Passes -> PassStates], RunsFit, NEW w \in Passes,
         \A v \in Passes : v # w => pass'[v] = pass[v], RunFits(pass'[w])
  PROVE  RunsFit'
  BY DEF RunsFit

LEMMA RunsFitKept ==
  ASSUME IngestInv, RunsFit, [Next]_vars
  PROVE  RunsFit'
  <1>0. pass \in [Passes -> PassStates]
    BY DEF IngestInv, Typed
  <1>1. ASSUME NEW w \in Passes, NEW pc, pc # "run", Go(w, pc) PROVE RunsFit'
    <2>1. (\A v \in Passes : v # w => pass'[v] = pass[v]) /\ pass'[w].pc # "run"
      BY <1>0, <1>1 DEF Go, PassStates
    <2> QED
      BY <1>0, <2>1, FitKept DEF RunFits
  <1>2. ASSUME NEW w \in Passes, NEW x, x.pc # "run", pass' = [pass EXCEPT ![w] = x]
        PROVE  RunsFit'
    <2>1. (\A v \in Passes : v # w => pass'[v] = pass[v]) /\ pass'[w].pc # "run"
      BY <1>0, <1>2
    <2> QED
      BY <1>0, <2>1, FitKept DEF RunFits
  <1>3. ASSUME NEW w \in Passes, Leave(w) PROVE RunsFit'
    <2>1. Idle.pc # "run" /\ pass' = [pass EXCEPT ![w] = Idle]
      BY <1>3 DEF Leave, Idle
    <2> QED
      BY <1>2, <2>1
  <1>4. ASSUME NEW w \in Passes, NEW p \in Parts, NEW good, NEW bad, Finished(w, p, good, bad)
        PROVE  RunsFit'
    <2>1. (\A v \in Passes : v # w => pass'[v] = pass[v]) /\ pass'[w].pc = "take"
      BY <1>0, <1>4 DEF Finished, PassStates
    <2> QED
      BY <1>0, <2>1, FitKept DEF RunFits
  <1>5. CASE UNCHANGED vars \/ Rule
    BY <1>5 DEF vars, Rule, set_email_status, RunsFit
  <1>6. ASSUME NEW w \in Passes, Ingesting(w) PROVE RunsFit'
    <2>1. CASE \E m \in Messages : Fetch(w, m)
      <3>1. PICK m \in Messages : Fetch(w, m)
        BY <2>1
      <3> DEFINE x == [Idle EXCEPT !.pc = "lookup", !.msg = m, !.polled = TRUE]
      <3>2. x.pc # "run" /\ pass' = [pass EXCEPT ![w] = x]
        BY <3>1 DEF Fetch, Idle
      <3> QED
        BY <1>2, <3>2
    <2>2. CASE _hold_attachments(w)
      <3>1. (\A v \in Passes : v # w => pass'[v] = pass[v]) /\ pass'[w].pc # "run"
        BY <1>0, <2>2 DEF _hold_attachments, PassStates
      <3> QED
        BY <1>0, <3>1, FitKept DEF RunFits
    <2>3. CASE Judge(w) \/ claim_incoming_message(w) \/ record_attachments(w)
               \/ SettleQuarantined(w)
      BY <1>1, <2>3 DEF Judge, claim_incoming_message, record_attachments, SettleQuarantined
    <2>4. CASE _record_failure(w) \/ mark_handled(w)
      BY <1>1, <1>3, <2>4 DEF _record_failure, mark_handled
    <2> QED
      BY <1>6, <2>1, <2>2, <2>3, <2>4 DEF Ingesting
  <1>7. ASSUME NEW w \in Passes, process_message_attachments(w) PROVE RunsFit'
    <2>1. CASE Gate(w) \/ CompleteOrphan(w) \/ complete_attachment(w) \/ Finish(w)
      BY <1>1, <1>3, <2>1 DEF Gate, CompleteOrphan, complete_attachment, Finish
    <2>2. CASE ReadRows(w)
      <3> DEFINE listed == {q \in PartsOf[pass[w].msg] : part[q].status # "none"}
      <3>1. PICK recovered : pass' = [pass EXCEPT ![w].pc = "take", ![w].have = recovered,
                                                  ![w].todo = listed, ![w].seen = part]
        BY <2>2 DEF ReadRows
      <3> HIDE DEF listed
      <3>2. (\A v \in Passes : v # w => pass'[v] = pass[v]) /\ pass'[w].pc = "take"
        BY <1>0, <3>1 DEF PassStates
      <3> QED
        BY <1>0, <3>2, FitKept DEF RunFits
    <2>3. ASSUME NEW p \in Parts, Take(w, p) PROVE RunsFit'
      <3>1. CASE /\ ~IsDone(pass[w].seen[p])
                 /\ pass' = [pass EXCEPT ![w].pc = "run", ![w].cur = p]
        <4>1. /\ \A v \in Passes : v # w => pass'[v] = pass[v]
              /\ pass'[w].pc = "run" /\ pass'[w].cur = p
              /\ pass'[w].todo = pass[w].todo /\ pass'[w].seen = pass[w].seen
          BY <1>0, <3>1 DEF PassStates
        <4>2. RunFits(pass'[w])
          BY <2>3, <3>1, <4>1 DEF Take, RunFits, About
        <4> QED
          BY <1>0, <4>1, <4>2, FitKept
      <3> QED
        BY <1>4, <2>3, <3>1 DEF Take
    <2>4. CASE _run_invoice_pipeline(w) \/ _release_held_bytes(w)
      <3>1. pass[w].cur \in Parts
        <4>1. InOrder(pass[w], message) /\ pass[w].pc \in {"run", "drop"}
          BY <2>4 DEF IngestInv, PassesInOrder, _run_invoice_pipeline, _release_held_bytes
        <4> QED
          BY <4>1, IngestAssumption DEF InOrder
      <3> QED
        BY <1>1, <1>4, <2>4, <3>1 DEF _run_invoice_pipeline, _release_held_bytes
    <2> QED
      BY <1>7, <2>1, <2>2, <2>3, <2>4 DEF process_message_attachments
  <1>8. ASSUME NEW w \in Passes, NEW m \in Messages, StartProcess(w, m) PROVE RunsFit'
    <2> DEFINE x == [Idle EXCEPT !.pc = "gate", !.msg = m]
    <2>1. x.pc # "run" /\ pass' = [pass EXCEPT ![w] = x]
      BY <1>8 DEF StartProcess, Idle
    <2> QED
      BY <1>2, <2>1
  <1>9. CASE ClearHistory
    <2>1. \A w \in Passes : pass'[w] = pass[w] \/ pass'[w].pc = "orphan"
      <3>1. pass' = [w \in Passes |-> IF pass[w].pc = "complete"
                                      THEN [pass[w] EXCEPT !.pc = "orphan"] ELSE pass[w]]
        BY <1>9 DEF ClearHistory
      <3> QED
        BY <1>0, <3>1 DEF PassStates
    <2> QED
      BY <2>1 DEF RunsFit, RunFits
  <1>10. ASSUME NEW w \in Passes, Crash(w) PROVE RunsFit'
    BY <1>3, <1>10 DEF Crash
  <1> QED
    BY <1>5, <1>6, <1>7, <1>8, <1>9, <1>10 DEF Next

LEMMA InitRuns == Init => RunsInv
  <1> SUFFICES ASSUME Init PROVE RunsInv
    OBVIOUS
  <1>1. IngestInv /\ Counted
    BY InitIngest, IngestAssumption DEF Init, Counted
  <1>2. RunsFit
    BY DEF Init, RunsFit, RunFits, Idle
  <1>3. ASSUME NEW p \in Parts PROVE RunsBounded(p)
    <2>1. AboutTo(p) = {} /\ Chances(p) = {}
      BY DEF Init, AboutTo, Chances, Chance, About, Idle
    <2>2. Cardinality({}) = 0
      BY FS_EmptySet, Zenon
    <2>3. runs[p] = 0 /\ Excuses = 0
      BY DEF Init, Excuses
    <2> QED
      BY <2>1, <2>2, <2>3 DEF RunsBounded
  <1> QED
    BY <1>1, <1>2, <1>3 DEF RunsInv

LEMMA NextRuns == RunsInv /\ [Next]_vars => RunsInv'
  <1> SUFFICES ASSUME RunsInv, [Next]_vars PROVE RunsInv'
    OBVIOUS
  <1>1. IngestInv' /\ Typed' /\ Counted' /\ upsets' >= upsets /\ overlaps' >= overlaps /\ RunsFit'
    BY NextIngest, IngestCounts, RunsFitKept DEF RunsInv, IngestInv
  <1>2. \A p \in Parts : RunsBounded(p)'
    <2>1. CASE UNCHANGED vars \/ Rule
      BY <1>1, <2>1, StillBounded DEF vars, Rule, set_email_status
    <2>2. CASE \E w \in Passes : Ingesting(w) \/ \E m \in Messages : StartProcess(w, m)
      BY <1>1, <2>2, IngestingBounded
    <2>3. ASSUME NEW w \in Passes, process_message_attachments(w)
          PROVE  \A p \in Parts : RunsBounded(p)'
      <3>1. CASE Gate(w) \/ ReadRows(w) \/ \E p \in Parts : Take(w, p)
        BY <1>1, <3>1, GateBounded, ReadBounded, TakeBounded
      <3>2. CASE _run_invoice_pipeline(w) \/ complete_attachment(w) \/ _release_held_bytes(w)
        BY <1>1, <3>2, PipelineBounded, CompleteBounded, DropBounded
      <3>3. CASE Finish(w)
        BY <1>1, <3>3, FinishBounded
      <3>4. CASE CompleteOrphan(w)
        <4>1. /\ \A v \in Passes : v # w => pass'[v] = pass[v]
              /\ pass[w].pc \in Elsewhere /\ pass'[w].pc \in Elsewhere
              /\ runs' = runs /\ part' = part
          BY <3>4 DEF CompleteOrphan, Leave, Idle, Elsewhere, RunsInv, IngestInv, Typed
        <4> QED
          BY <1>1, <4>1, StepElsewhere
      <3> QED
        BY <2>3, <3>1, <3>2, <3>3, <3>4 DEF process_message_attachments
    <2>4. CASE ClearHistory \/ \E w \in Passes : Crash(w)
      BY <1>1, <2>4, UpsetBounded
    <2> QED
      BY <2>1, <2>2, <2>3, <2>4 DEF Next
  <1> QED
    BY <1>1, <1>2 DEF RunsInv

(* Runs filed and runs still to come of each attachment are paid for.      *)
THEOREM RunsInvariant == Spec => []RunsInv
  BY InitRuns, NextRuns, PTL DEF Spec

(* A second run of an attachment takes an overlap of two passes, a crash   *)
(* or a reset (the row of each attachment is read again under its lock).   *)
THEOREM RerunsAreExcused == Spec => []SecondRunTakesAnOverlap
  <1>1. RunsInv => SecondRunTakesAnOverlap
    <2> SUFFICES ASSUME RunsInv, NEW p \in Parts PROVE runs[p] <= 1 + overlaps + upsets
      BY DEF SecondRunTakesAnOverlap
    <2>1. /\ runs[p] \in Nat /\ overlaps \in Nat /\ upsets \in Nat
          /\ Cardinality(AboutTo(p)) \in Nat /\ Cardinality(Chances(p)) \in Nat
      BY RunsTyped DEF RunsInv, IngestInv
    <2>2. RunsBounded(p)
      BY DEF RunsInv
    <2> QED
      BY <2>1, <2>2 DEF RunsBounded, Excuses
  <1> QED
    BY <1>1, RunsInvariant, PTL
-----------------------------------------------------------------------------
(* With nothing gone wrong, a pass is the only one at work on its message, *)
(* what it saw of the attachments is still so, and its account of them is  *)
(* whole.                                                                  *)

Quiet == upsets = 0 /\ overlaps = 0

Alone ==
    \A v, w \in Passes :
        Processing(v) /\ Processing(w) /\ pass[v].msg = pass[w].msg => v = w

(* The attachments of a message are put on file together, by its nature.   *)
ListedWhole ==
    \A m \in Messages : \A p, q \in PartsOf[m] :
        part[p].status = "none" => part[q].status = "none"

ListedByNature ==
    \A m \in Messages : \A p \in PartsOf[m] :
        IF nature[m] = "IRRELEVANT" THEN part[p].status \in {"none", "SKIPPED"}
        ELSE p \in Pdfs => part[p].status # "SKIPPED"

AtParts == {"take", "run", "complete", "drop"}

Fresh(x) == x.pc \notin AtParts \cup {"orphan", "mark"} => x.good = FALSE

SeenAsIs(x, rows) ==
    x.pc \in AtParts =>
       /\ \A p \in x.todo :
             \/ x.pc = "drop" /\ p = x.cur
             \/ x.seen[p].status = rows[p].status /\ rows[p].status # "none"
       /\ x.pc # "take" => x.cur \in x.todo
       /\ x.pc \in {"run", "complete"} => rows[x.cur].status \notin {"SKIPPED", "PROCESSED"}
       /\ x.pc = "drop" => rows[x.cur].status = "PROCESSED"

Covers(x, rows) ==
    x.pc \in AtParts =>
       /\ nature[x.msg] = "IRRELEVANT" => x.good = FALSE
       /\ nature[x.msg] # "IRRELEVANT" /\ x.bad = FALSE /\ (x.good = TRUE \/ x.todo # {})
             => \A p \in PartsOf[x.msg] \cap Pdfs : p \in x.todo \/ rows[p].status = "PROCESSED"

Tracks(x, rows) == Fresh(x) /\ SeenAsIs(x, rows) /\ Covers(x, rows)

ProcessedWhole ==
    \A m \in Messages :
        message[m].ingest = "PROCESSED"
            => \A p \in PartsOf[m] \cap Pdfs : part[p].status = "PROCESSED"

Calm ==
    /\ Alone
    /\ ListedWhole
    /\ ListedByNature
    /\ \A w \in Passes : Tracks(pass[w], part)
    /\ ProcessedWhole

WholeInv == IngestInv /\ Counted /\ (Quiet => Calm)

(* What a step of a pass may do to an attachment: put it on file, or       *)
(* settle one of its own message that waits.                               *)
Touches(w) ==
    \A p \in Parts : part'[p].status # part[p].status =>
        \/ part[p].status = "none"
        \/ /\ Processing(w) /\ p \in PartsOf[pass[w].msg]
           /\ part[p].status \notin {"none", "SKIPPED", "PROCESSED"}
           /\ part'[p].status \in {"FAILED", "PROCESSED"}

LEMMA PartsInOrder ==
  ASSUME IngestInv, NEW w \in Passes
  PROVE  /\ pass \in [Passes -> PassStates] /\ pass[w] \in PassStates
         /\ part \in [Parts -> PartRows] /\ message \in [Messages -> Rows]
         /\ InOrder(pass[w], message)
         /\ pass[w].pc # "idle" => /\ pass[w].msg \in Messages
                                   /\ PartsOf[pass[w].msg] \subseteq Parts
                                   /\ pass[w].todo \subseteq PartsOf[pass[w].msg]
  <1>1. /\ pass \in [Passes -> PassStates] /\ part \in [Parts -> PartRows]
        /\ message \in [Messages -> Rows] /\ InOrder(pass[w], message)
    BY DEF IngestInv, Typed, PassesInOrder
  <1> QED
    BY <1>1, IngestAssumption DEF InOrder

(* The other passes are none the wiser, and none the worse.                *)
LEMMA OthersTrack ==
  ASSUME IngestInv, Calm, NEW w \in Passes, Touches(w), nature' = nature,
         NEW v \in Passes, v # w, pass'[v] = pass[v]
  PROVE  Tracks(pass'[v], part')
  <1>1. Tracks(pass[v], part)
    BY DEF Calm
  <1>2. CASE pass[v].pc \notin AtParts
    BY <1>1, <1>2 DEF Tracks, Fresh, SeenAsIs, Covers
  <1>3. CASE pass[v].pc \in AtParts
    <2>1. Processing(v) /\ pass[v].pc # "idle"
      BY <1>3 DEF Processing, AtParts
    <2>2. /\ pass[v].msg \in Messages /\ PartsOf[pass[v].msg] \subseteq Parts
          /\ pass[v].todo \subseteq PartsOf[pass[v].msg]
      BY <2>1, PartsInOrder
    <2>3. ASSUME Processing(w) PROVE PartsOf[pass[w].msg] \cap PartsOf[pass[v].msg] = {}
      <3>1. pass[w].msg # pass[v].msg
        BY <2>1, <2>3 DEF Calm, Alone
      <3>2. pass[w].msg \in Messages
        BY <2>3, PartsInOrder DEF Processing
      <3> QED
        BY <2>2, <3>1, <3>2, IngestAssumption
    <2>4. \A p \in PartsOf[pass[v].msg] :
             part[p].status # "none" => part'[p].status = part[p].status
      BY <2>2, <2>3 DEF Touches
    <2>5. SeenAsIs(pass[v], part) /\ Covers(pass[v], part) /\ Fresh(pass[v])
      BY <1>1 DEF Tracks
    <2>6. SeenAsIs(pass[v], part')
      <3>1. ASSUME pass[v].pc # "take"
            PROVE  part'[pass[v].cur].status = part[pass[v].cur].status
        <4>1. pass[v].cur \in pass[v].todo /\ pass[v].cur \in PartsOf[pass[v].msg]
          BY <1>3, <2>2, <2>5, <3>1 DEF SeenAsIs
        <4>2. part[pass[v].cur].status # "none"
          BY <1>3, <2>5, <3>1, <4>1 DEF SeenAsIs, AtParts
        <4> QED
          BY <2>4, <4>1, <4>2
      <3> QED
        BY <2>2, <2>4, <2>5, <3>1 DEF SeenAsIs
    <2>7. Covers(pass[v], part')
      BY <1>3, <2>2, <2>4, <2>5 DEF Covers
    <2> QED
      BY <2>5, <2>6, <2>7 DEF Tracks
  <1> QED
    BY <1>2, <1>3

(* A step of a pass that puts no attachment on file, and takes up none.    *)
LEMMA CalmStep ==
  ASSUME IngestInv, Calm, NEW w \in Passes, Touches(w), nature' = nature,
         \A v \in Passes : v # w => pass'[v] = pass[v],
         \A p \in Parts : part'[p].status = "none" <=> part[p].status = "none",
         Processing(w)' => Processing(w) /\ pass'[w].msg = pass[w].msg,
         Tracks(pass'[w], part'),
         \A m \in Messages : message'[m].ingest = "PROCESSED" =>
            \/ message[m].ingest = "PROCESSED"
            \/ \A p \in PartsOf[m] \cap Pdfs : part[p].status = "PROCESSED"
  PROVE  Calm'
  <1>0. \A m \in Messages : PartsOf[m] \subseteq Parts
    BY IngestAssumption
  <1>1. Alone'
    BY DEF Calm, Alone, Processing
  <1>2. ListedWhole'
    BY <1>0 DEF Calm, ListedWhole
  <1>3. ListedByNature'
    <2> SUFFICES ASSUME NEW m \in Messages, NEW p \in PartsOf[m]
                 PROVE  IF nature[m] = "IRRELEVANT" THEN part'[p].status \in {"none", "SKIPPED"}
                        ELSE p \in Pdfs => part'[p].status # "SKIPPED"
      BY DEF ListedByNature
    <2>1. IF nature[m] = "IRRELEVANT" THEN part[p].status \in {"none", "SKIPPED"}
          ELSE p \in Pdfs => part[p].status # "SKIPPED"
      BY DEF Calm, ListedByNature
    <2> QED
      BY <1>0, <2>1 DEF Touches
  <1>4. \A v \in Passes : Tracks(pass'[v], part')
    BY OthersTrack
  <1>5. ProcessedWhole'
    BY <1>0 DEF Calm, ProcessedWhole, Touches
  <1> QED
    BY <1>1, <1>2, <1>3, <1>4, <1>5 DEF Calm, Tracks, Covers

(* One that is not at the attachments afterwards, and leaves them be.      *)
LEMMA CalmElsewhere ==
  ASSUME IngestInv, Calm, NEW w \in Passes, nature' = nature,
         \A p \in Parts : part'[p].status = part[p].status,
         \A v \in Passes : v # w => pass'[v] = pass[v],
         pass'[w].pc \in Elsewhere, pass'[w].pc # "mark" => pass'[w].good = FALSE,
         \A m \in Messages : message'[m].ingest = "PROCESSED" =>
            \/ message[m].ingest = "PROCESSED"
            \/ \A p \in PartsOf[m] \cap Pdfs : part[p].status = "PROCESSED"
  PROVE  pass'[w].pc # "orphan" => Calm'
  <1> SUFFICES ASSUME pass'[w].pc # "orphan" PROVE Calm'
    OBVIOUS
  <1>1. Touches(w) /\ ~Processing(w)'
    BY DEF Touches, Processing, Elsewhere
  <1>2. Tracks(pass'[w], part')
    BY DEF Tracks, Fresh, SeenAsIs, Covers, AtParts, Elsewhere
  <1> QED
    BY <1>1, <1>2, CalmStep

LEMMA IngestingCalm ==
  ASSUME IngestInv, Calm, NEW w \in Passes,
         \/ \E m \in Messages : Fetch(w, m) \/ StartProcess(w, m)
         \/ Judge(w) \/ claim_incoming_message(w) \/ _record_failure(w)
         \/ _hold_attachments(w) \/ SettleQuarantined(w) \/ mark_handled(w)
  PROVE  Calm'
  <1>0. /\ pass \in [Passes -> PassStates] /\ part \in [Parts -> PartRows]
        /\ message \in [Messages -> Rows] /\ Fresh(pass[w])
    BY PartsInOrder DEF Calm, Tracks
  <1> DEFINE Moved == /\ \A v \in Passes : v # w => pass'[v] = pass[v]
                      /\ pass'[w].pc \in Elsewhere \ {"orphan"}
                      /\ pass'[w].pc # "mark" => pass'[w].good = FALSE
  <1>1. Moved
    <2> DEFINE Right(x) == x.pc \in Elsewhere \ {"orphan"} /\ (x.pc # "mark" => x.good = FALSE)
    <2>1. ASSUME NEW x, pass' = [pass EXCEPT ![w] = x], Right(x) PROVE Moved
      BY <1>0, <2>1
    <2>2. ASSUME NEW pc \in Elsewhere \ {"orphan"}, Go(w, pc),
                 pc = "mark" \/ pass[w].good = FALSE
          PROVE  Moved
      <3> DEFINE x == [pass[w] EXCEPT !.pc = pc]
      <3>1. pass' = [pass EXCEPT ![w] = x] /\ Right(x)
        BY <1>0, <2>2 DEF Go, PassStates
      <3> QED
        BY <2>1, <3>1
    <2>3. ASSUME Leave(w) PROVE Moved
      <3>1. pass' = [pass EXCEPT ![w] = Idle] /\ Right(Idle)
        BY <2>3 DEF Leave, Idle, Elsewhere
      <3> QED
        BY <2>1, <3>1
    <2>4. ASSUME NEW m \in Messages, Fetch(w, m) PROVE Moved
      <3> DEFINE x == [Idle EXCEPT !.pc = "lookup", !.msg = m, !.polled = TRUE]
      <3>1. pass' = [pass EXCEPT ![w] = x] /\ Right(x)
        BY <2>4 DEF Fetch, Idle, Elsewhere
      <3> QED
        BY <2>1, <3>1
    <2>5. ASSUME NEW m \in Messages, StartProcess(w, m) PROVE Moved
      <3> DEFINE x == [Idle EXCEPT !.pc = "gate", !.msg = m]
      <3>1. pass' = [pass EXCEPT ![w] = x] /\ Right(x)
        BY <2>5 DEF StartProcess, Idle, Elsewhere
      <3> QED
        BY <2>1, <3>1
    <2>6. CASE Judge(w)
      BY <1>0, <2>2, <2>6 DEF Judge, Elsewhere, Fresh, AtParts
    <2>7. CASE claim_incoming_message(w)
      BY <1>0, <2>2, <2>7 DEF claim_incoming_message, Elsewhere, Fresh, AtParts
    <2>8. CASE _record_failure(w) \/ SettleQuarantined(w) \/ mark_handled(w)
      BY <2>2, <2>3, <2>8 DEF _record_failure, SettleQuarantined, mark_handled, Elsewhere
    <2>9. CASE _hold_attachments(w)
      <3> DEFINE pc == IF StatusOf(pass[w].msg) = "ADMITTED" THEN "gate" ELSE "settle"
                 x == [pass[w] EXCEPT !.pc = pc, !.have = TRUE]
      <3>1. pass' = [pass EXCEPT ![w] = x]
        BY <1>0, <2>9 DEF _hold_attachments, PassStates
      <3>2. x.pc \in Elsewhere \ {"orphan"} /\ x.good = pass[w].good
        BY <1>0 DEF PassStates, Elsewhere
      <3>3. pass[w].good = FALSE
        BY <1>0, <2>9 DEF _hold_attachments, Fresh, AtParts
      <3> QED
        BY <2>1, <3>1, <3>2, <3>3
    <2> QED
      BY <2>4, <2>5, <2>6, <2>7, <2>8, <2>9
  <1>2. /\ nature' = nature /\ \A p \in Parts : part'[p].status = part[p].status
    <2>1. CASE _hold_attachments(w)
      <3>1. PICK saved : part' = [p \in Parts |->
                            IF p \in saved THEN [part[p] EXCEPT !.held = TRUE] ELSE part[p]]
        BY <2>1 DEF _hold_attachments
      <3>2. nature' = nature
        BY <2>1 DEF _hold_attachments
      <3> QED
        BY <1>0, <3>1, <3>2 DEF PartRows
    <2>2. CASE ~_hold_attachments(w)
      BY <2>2 DEF Fetch, StartProcess, Judge, claim_incoming_message, _record_failure,
                  SettleQuarantined, mark_handled
    <2> QED
      BY <2>1, <2>2
  <1>3. \A m \in Messages : message'[m].ingest = "PROCESSED" => message[m].ingest = "PROCESSED"
    <2>1. CASE claim_incoming_message(w)
      <3>1. message' = message \/ message' = [message EXCEPT ![pass[w].msg] = NewRow(pass[w].msg)]
        BY <2>1 DEF claim_incoming_message
      <3>2. NewRow(pass[w].msg).ingest # "PROCESSED"
        BY DEF NewRow
      <3> QED
        BY <1>0, <3>1, <3>2
    <2>2. CASE _record_failure(w)
      <3> DEFINE r == IF OnFile(pass[w].msg) THEN [message[pass[w].msg] EXCEPT !.ingest = "FAILED"]
                      ELSE [status |-> "QUARANTINED", ingest |-> "FAILED", run |-> NoPart]
      <3>1. message' = message \/ message' = [message EXCEPT ![pass[w].msg] = r]
        BY <1>0, <2>2 DEF _record_failure
      <3>2. pass[w].msg \in Messages
        BY <2>2, PartsInOrder DEF _record_failure
      <3>3. r.ingest = "FAILED"
        BY <1>0, <3>2 DEF Rows
      <3> QED
        BY <1>0, <3>1, <3>3
    <2>3. CASE SettleQuarantined(w)
      <3>1. message' = [message EXCEPT ![pass[w].msg].ingest = "QUARANTINED"]
        BY <2>3 DEF SettleQuarantined
      <3> QED
        BY <1>0, <3>1 DEF Rows
    <2>4. CASE \/ \E m \in Messages : Fetch(w, m) \/ StartProcess(w, m)
               \/ Judge(w) \/ _hold_attachments(w) \/ mark_handled(w)
      BY <2>4 DEF Fetch, StartProcess, Judge, _hold_attachments, mark_handled
    <2> QED
      BY <2>1, <2>2, <2>3, <2>4
  <1> QED
    BY <1>1, <1>2, <1>3, CalmElsewhere

(* The attachments go on file, all at once.                                *)
LEMMA RecordCalm ==
  ASSUME IngestInv, Calm, NEW w \in Passes, record_attachments(w)
  PROVE  Calm'
  <1> DEFINE m == pass[w].msg
  <1>0. /\ pass \in [Passes -> PassStates] /\ part \in [Parts -> PartRows]
        /\ m \in Messages /\ PartsOf[m] \subseteq Parts
        /\ pass[w].pc = "record" /\ Fresh(pass[w])
        /\ UNCHANGED <<nature, message>>
    BY PartsInOrder DEF Calm, Tracks, record_attachments
  <1>1. PICK candidates : /\ part' = Listed(m, candidates)
                          /\ candidates = IF nature[m] = "IRRELEVANT" THEN {} ELSE Pdfs
    BY DEF record_attachments
  <1>2. \A p \in Parts : part'[p].status =
           IF p \in PartsOf[m] /\ part[p].status = "none"
           THEN IF p \in candidates THEN "PENDING" ELSE "SKIPPED" ELSE part[p].status
    BY <1>1 DEF Listed
  <1>3. /\ \A v \in Passes : v # w => pass'[v] = pass[v]
        /\ pass'[w].pc \in {"mark", "hold"} /\ pass'[w].good = pass[w].good
    BY <1>0 DEF record_attachments, Go, PassStates
  <1>4. Touches(w)
    BY <1>2 DEF Touches
  <1>5. Tracks(pass'[w], part')
    BY <1>0, <1>3 DEF Tracks, Fresh, SeenAsIs, Covers, AtParts
  <1>6. Alone'
    BY <1>3 DEF Calm, Alone, Processing
  <1>7. ListedWhole'
    <2> SUFFICES ASSUME NEW n \in Messages, NEW p \in PartsOf[n], NEW q \in PartsOf[n],
                        part'[p].status = "none"
                 PROVE  part'[q].status = "none"
      BY DEF ListedWhole
    <2>1. p \in Parts /\ q \in Parts /\ (part[p].status = "none" => part[q].status = "none")
      BY IngestAssumption DEF Calm, ListedWhole
    <2>2. n # m /\ part[p].status = "none"
      BY <1>2, <2>1
    <2>3. q \notin PartsOf[m]
      BY <1>0, <2>2, IngestAssumption
    <2> QED
      BY <1>2, <2>1, <2>2, <2>3
  <1>8. ListedByNature'
    <2> SUFFICES ASSUME NEW n \in Messages, NEW p \in PartsOf[n]
                 PROVE  IF nature[n] = "IRRELEVANT" THEN part'[p].status \in {"none", "SKIPPED"}
                        ELSE p \in Pdfs => part'[p].status # "SKIPPED"
      BY <1>0 DEF ListedByNature
    <2>1. /\ p \in Parts
          /\ IF nature[n] = "IRRELEVANT" THEN part[p].status \in {"none", "SKIPPED"}
             ELSE p \in Pdfs => part[p].status # "SKIPPED"
      BY IngestAssumption DEF Calm, ListedByNature
    <2>2. p \in PartsOf[m] => n = m
      BY <1>0, IngestAssumption
    <2> QED
      BY <1>1, <1>2, <2>1, <2>2
  <1>9. \A v \in Passes : Tracks(pass'[v], part')
    BY <1>0, <1>3, <1>4, <1>5, OthersTrack
  <1>10. ProcessedWhole'
    <2>1. \A p \in Parts : part[p].status = "PROCESSED" => part'[p].status = "PROCESSED"
      BY <1>2
    <2>2. \A n \in Messages : PartsOf[n] \subseteq Parts
      BY IngestAssumption
    <2> QED
      BY <1>0, <2>1, <2>2 DEF Calm, ProcessedWhole
  <1> QED
    BY <1>0, <1>6, <1>7, <1>8, <1>9, <1>10 DEF Calm, Tracks, Covers

(* A pass that found nobody at work begins.                                *)
LEMMA GateCalm ==
  ASSUME IngestInv, Counted, Calm, NEW w \in Passes, Gate(w), overlaps' = overlaps
  PROVE  Calm'
  <1>0. /\ pass \in [Passes -> PassStates] /\ overlaps \in Nat
        /\ pass[w].pc = "gate" /\ Fresh(pass[w])
        /\ UNCHANGED <<nature, message, part>>
    BY PartsInOrder DEF Calm, Tracks, Gate, Counted
  <1>1. CASE Leave(w)
    <2>1. pass' = [pass EXCEPT ![w] = Idle] /\ Idle.pc = "idle" /\ Idle.good = FALSE
      BY <1>1 DEF Leave, Idle
    <2>2. /\ \A v \in Passes : v # w => pass'[v] = pass[v]
          /\ pass'[w].pc = "idle" /\ pass'[w].good = FALSE
      BY <1>0, <2>1
    <2> QED
      BY <1>0, <2>2, CalmElsewhere DEF Elsewhere
  <1>2. CASE ~Leave(w)
    <2>1. /\ Go(w, "read")
          /\ overlaps' = IF \E v \in Passes : pass[v].msg = pass[w].msg /\ Processing(v)
                         THEN overlaps + 1 ELSE overlaps
      BY <1>2 DEF Gate
    <2>2. ~\E v \in Passes : pass[v].msg = pass[w].msg /\ Processing(v)
      <3>1. overlaps + 1 # overlaps
        BY <1>0
      <3> QED
        BY <2>1, <3>1
    <2>3. /\ \A v \in Passes : v # w => pass'[v] = pass[v]
          /\ pass'[w].pc = "read" /\ pass'[w].msg = pass[w].msg /\ pass'[w].good = pass[w].good
      BY <1>0, <2>1 DEF Go, PassStates
    <2>4. Alone'
      BY <2>2, <2>3 DEF Calm, Alone, Processing
    <2>5. Touches(w) /\ Tracks(pass'[w], part')
      BY <1>0, <2>3 DEF Touches, Tracks, Fresh, SeenAsIs, Covers, AtParts
    <2>6. \A v \in Passes : Tracks(pass'[v], part')
      BY <1>0, <2>3, <2>5, OthersTrack
    <2> QED
      BY <1>0, <2>4, <2>6 DEF Calm, ListedWhole, ListedByNature, ProcessedWhole, Tracks, Covers
  <1> QED
    BY <1>1, <1>2

(* What a pass reads of the attachments is all of them, or none.           *)
LEMMA ReadCalm ==
  ASSUME IngestInv, Calm, NEW w \in Passes, ReadRows(w)
  PROVE  Calm'
  <1> DEFINE m == pass[w].msg
  <1>0. /\ pass \in [Passes -> PassStates] /\ part \in [Parts -> PartRows]
        /\ pass[w].pc = "read" /\ Fresh(pass[w]) /\ m \in Messages /\ PartsOf[m] \subseteq Parts
        /\ UNCHANGED <<nature, message, part>>
    BY PartsInOrder DEF Calm, Tracks, ReadRows
  <1>1. /\ \A v \in Passes : v # w => pass'[v] = pass[v]
        /\ pass'[w].pc = "take" /\ pass'[w].seen = part /\ pass'[w].msg = m
        /\ pass'[w].good = pass[w].good
        /\ pass'[w].todo = {p \in PartsOf[m] : part[p].status # "none"}
    <2> DEFINE listed == {q \in PartsOf[m] : part[q].status # "none"}
    <2>1. PICK recovered : pass' = [pass EXCEPT ![w].pc = "take", ![w].have = recovered,
                                                ![w].todo = listed, ![w].seen = part]
      BY DEF ReadRows
    <2> HIDE DEF listed
    <2>2. /\ \A v \in Passes : v # w => pass'[v] = pass[v]
          /\ pass'[w].pc = "take" /\ pass'[w].seen = part /\ pass'[w].msg = m
          /\ pass'[w].good = pass[w].good /\ pass'[w].todo = listed
      BY <1>0, <2>1 DEF PassStates
    <2> QED
      BY <2>2 DEF listed
  <1>2. Tracks(pass'[w], part')
    <2>1. pass'[w].good = FALSE
      BY <1>0, <1>1 DEF Fresh, AtParts
    <2>2. ASSUME pass'[w].todo # {} PROVE PartsOf[m] \subseteq pass'[w].todo
      <3>1. PICK q \in PartsOf[m] : part[q].status # "none"
        BY <1>1, <2>2
      <3> QED
        BY <1>0, <1>1, <3>1 DEF Calm, ListedWhole
    <2> QED
      BY <1>0, <1>1, <2>1, <2>2 DEF Tracks, Fresh, SeenAsIs, Covers, AtParts
  <1>3. Touches(w) /\ Processing(w)
    BY <1>0 DEF Touches, Processing
  <1> QED
    BY <1>0, <1>1, <1>2, <1>3, CalmStep

(* A pass that is done with an attachment has the others left.             *)
LEMMA FinishedTracks ==
  ASSUME IngestInv, Calm, NEW w \in Passes, NEW p \in Parts, NEW good \in BOOLEAN,
         NEW bad \in BOOLEAN, Finished(w, p, good, bad), nature' = nature,
         pass[w].pc \in {"take", "run", "drop"}, pass[w].pc # "take" => pass[w].cur = p,
         p \in pass[w].todo, \A q \in Parts : q # p => part'[q].status = part[q].status,
         good = TRUE => /\ bad = FALSE
                        /\ part[p].status = "PROCESSED" /\ part'[p].status = "PROCESSED",
         good = FALSE /\ bad = FALSE => part[p].status = "SKIPPED",
         part[p].status = "PROCESSED" => good = TRUE
  PROVE  Tracks(pass'[w], part')
  <1>0. /\ pass \in [Passes -> PassStates] /\ pass[w] \in PassStates
        /\ pass[w].msg \in Messages /\ PartsOf[pass[w].msg] \subseteq Parts
        /\ pass[w].todo \subseteq PartsOf[pass[w].msg]
        /\ Tracks(pass[w], part) /\ ListedByNature
    BY PartsInOrder DEF Calm
  <1>1. /\ pass'[w].pc = "take" /\ pass'[w].todo = pass[w].todo \ {p}
        /\ \A q \in Parts : q # p => pass'[w].seen[q] = pass[w].seen[q]
        /\ pass'[w].msg = pass[w].msg
        /\ pass'[w].good = (pass[w].good \/ good) /\ pass'[w].bad = (pass[w].bad \/ bad)
    BY <1>0 DEF Finished, PassStates
  <1>2. SeenAsIs(pass'[w], part')
    <2>1. SeenAsIs(pass[w], part)
      BY <1>0 DEF Tracks
    <2> QED
      BY <1>0, <1>1, <2>1 DEF SeenAsIs, AtParts
  <1>3. Covers(pass'[w], part')
    <2>0. pass[w].good \in BOOLEAN /\ pass[w].bad \in BOOLEAN /\ pass[w].pc \in AtParts
          /\ Covers(pass[w], part)
      BY <1>0 DEF PassStates, AtParts, Tracks
    <2>1. ASSUME nature[pass[w].msg] = "IRRELEVANT" PROVE pass'[w].good = FALSE
      <3>1. pass[w].good = FALSE /\ part[p].status \in {"none", "SKIPPED"}
        BY <1>0, <2>0, <2>1 DEF Covers, ListedByNature
      <3>2. good = FALSE
        BY <3>1
      <3> QED
        BY <1>1, <2>0, <3>1, <3>2
    <2>2. ASSUME nature[pass[w].msg] # "IRRELEVANT", pass'[w].bad = FALSE,
                 NEW q \in PartsOf[pass[w].msg] \cap Pdfs
          PROVE  q \in pass'[w].todo \/ part'[q].status = "PROCESSED"
      <3>1. pass[w].bad = FALSE /\ bad = FALSE
        BY <1>1, <2>0, <2>2
      <3>2. q \in pass[w].todo \/ part[q].status = "PROCESSED"
        BY <2>0, <2>2, <3>1 DEF Covers
      <3>3. CASE q = p
        <4>1. part[p].status # "SKIPPED"
          BY <1>0, <2>2, <3>3 DEF ListedByNature
        <4> QED
          BY <3>1, <3>3, <4>1
      <3>4. CASE q # p
        BY <1>0, <1>1, <3>2, <3>4
      <3> QED
        BY <3>3, <3>4
    <2> QED
      BY <1>1, <2>1, <2>2 DEF Covers
  <1> QED
    BY <1>1, <1>2, <1>3 DEF Tracks, Fresh, AtParts

LEMMA TakeCalm ==
  ASSUME IngestInv, Calm, NEW w \in Passes, NEW p \in Parts, Take(w, p)
  PROVE  Calm'
  <1>0. /\ pass \in [Passes -> PassStates] /\ pass[w] \in PassStates
        /\ part \in [Parts -> PartRows] /\ pass[w].pc = "take" /\ p \in pass[w].todo
        /\ pass[w].msg \in Messages /\ p \in PartsOf[pass[w].msg]
        /\ PartsOf[pass[w].msg] \subseteq Parts
        /\ UNCHANGED <<nature, message>>
    BY PartsInOrder DEF Take
  <1>1. /\ pass[w].seen[p].status = part[p].status /\ part[p].status # "none"
        /\ Tracks(pass[w], part)
    BY <1>0 DEF Calm, Tracks, SeenAsIs, AtParts
  <1>2. \A m \in Messages : message'[m].ingest = "PROCESSED" => message[m].ingest = "PROCESSED"
    BY <1>0
  <1>3. Processing(w)
    BY <1>0 DEF Processing
  <1>4. CASE /\ part' = part
             /\ \/ IsDone(part[p]) /\ Finished(w, p, TRUE, FALSE)
                \/ part[p].status = "SKIPPED" /\ Finished(w, p, FALSE, FALSE)
    <2>1. Tracks(pass'[w], part')
      BY <1>0, <1>4, FinishedTracks DEF IsDone
    <2>2. /\ \A v \in Passes : v # w => pass'[v] = pass[v]
          /\ pass'[w].msg = pass[w].msg
      BY <1>0, <1>4 DEF Finished, PassStates
    <2>3. Touches(w)
      BY <1>4 DEF Touches
    <2> QED
      BY <1>0, <1>2, <1>3, <1>4, <2>1, <2>2, <2>3, CalmStep
  <1>5. CASE /\ ~IsDone(part[p]) /\ part[p].status # "SKIPPED"
             /\ part' = [part EXCEPT ![p].status = "FAILED"] /\ Finished(w, p, FALSE, TRUE)
    <2>1. /\ part'[p].status = "FAILED"
          /\ \A q \in Parts : q # p => part'[q].status = part[q].status
      BY <1>0, <1>5 DEF PartRows
    <2>2. Tracks(pass'[w], part')
      BY <1>0, <1>5, <2>1, FinishedTracks DEF IsDone
    <2>3. /\ \A v \in Passes : v # w => pass'[v] = pass[v]
          /\ pass'[w].msg = pass[w].msg
      BY <1>0, <1>5 DEF Finished, PassStates
    <2>4. Touches(w)
      BY <1>0, <1>1, <1>3, <1>5, <2>1 DEF Touches, IsDone
    <2>5. \A q \in Parts : part'[q].status = "none" <=> part[q].status = "none"
      BY <1>1, <2>1
    <2> QED
      BY <1>0, <1>2, <1>3, <2>2, <2>3, <2>4, <2>5, CalmStep
  <1>6. CASE /\ ~IsDone(part[p]) /\ part[p].status # "SKIPPED" /\ part' = part
             /\ pass' = [pass EXCEPT ![w].pc = "run", ![w].cur = p]
    <2>1. /\ \A v \in Passes : v # w => pass'[v] = pass[v]
          /\ pass'[w].pc = "run" /\ pass'[w].cur = p /\ pass'[w].msg = pass[w].msg
          /\ pass'[w].todo = pass[w].todo /\ pass'[w].seen = pass[w].seen
          /\ pass'[w].good = pass[w].good /\ pass'[w].bad = pass[w].bad
      BY <1>0, <1>6 DEF PassStates
    <2>2. Tracks(pass'[w], part')
      BY <1>0, <1>1, <1>6, <2>1 DEF Tracks, Fresh, SeenAsIs, Covers, AtParts, IsDone
    <2>3. Touches(w)
      BY <1>6 DEF Touches
    <2> QED
      BY <1>0, <1>2, <1>3, <1>6, <2>1, <2>2, <2>3, CalmStep
  <1> QED
    BY <1>1, <1>4, <1>5, <1>6 DEF Take, IsDone

LEMMA PipelineCalm ==
  ASSUME IngestInv, Calm, NEW w \in Passes, _run_invoice_pipeline(w)
  PROVE  Calm'
  <1> DEFINE p == pass[w].cur
  <1>0. /\ pass \in [Passes -> PassStates] /\ pass[w] \in PassStates
        /\ part \in [Parts -> PartRows] /\ pass[w].pc = "run"
        /\ pass[w].msg \in Messages /\ PartsOf[pass[w].msg] \subseteq Parts
        /\ pass[w].todo \subseteq PartsOf[pass[w].msg]
        /\ UNCHANGED <<nature, message>>
    BY PartsInOrder DEF _run_invoice_pipeline
  <1>1. /\ p \in pass[w].todo /\ p \in Parts /\ p \in PartsOf[pass[w].msg]
        /\ part[p].status \notin {"none", "SKIPPED", "PROCESSED"}
        /\ Tracks(pass[w], part)
    BY <1>0 DEF Calm, Tracks, SeenAsIs, AtParts
  <1>2. \A m \in Messages : message'[m].ingest = "PROCESSED" => message[m].ingest = "PROCESSED"
    BY <1>0
  <1>3. Processing(w)
    BY <1>0 DEF Processing
  <1>4. CASE Go(w, "complete") /\ UNCHANGED part
    <2>1. /\ \A v \in Passes : v # w => pass'[v] = pass[v]
          /\ pass'[w].pc = "complete" /\ pass'[w].cur = p /\ pass'[w].msg = pass[w].msg
          /\ pass'[w].todo = pass[w].todo /\ pass'[w].seen = pass[w].seen
          /\ pass'[w].good = pass[w].good /\ pass'[w].bad = pass[w].bad
      BY <1>0, <1>4 DEF Go, PassStates
    <2>2. Tracks(pass'[w], part')
      BY <1>0, <1>1, <1>4, <2>1 DEF Tracks, Fresh, SeenAsIs, Covers, AtParts
    <2>3. Touches(w)
      BY <1>4 DEF Touches
    <2> QED
      BY <1>0, <1>2, <1>3, <1>4, <2>1, <2>2, <2>3, CalmStep
  <1>5. CASE part' = [part EXCEPT ![p].status = "FAILED"] /\ Finished(w, p, FALSE, TRUE)
    <2>1. /\ part'[p].status = "FAILED"
          /\ \A q \in Parts : q # p => part'[q].status = part[q].status
      BY <1>0, <1>1, <1>5 DEF PartRows
    <2>2. Tracks(pass'[w], part')
      BY <1>0, <1>1, <1>5, <2>1, FinishedTracks
    <2>3. /\ \A v \in Passes : v # w => pass'[v] = pass[v]
          /\ pass'[w].msg = pass[w].msg
      BY <1>0, <1>5 DEF Finished, PassStates
    <2>4. Touches(w)
      BY <1>0, <1>1, <1>3, <2>1 DEF Touches
    <2>5. \A q \in Parts : part'[q].status = "none" <=> part[q].status = "none"
      BY <1>1, <2>1
    <2> QED
      BY <1>0, <1>2, <1>3, <2>2, <2>3, <2>4, <2>5, CalmStep
  <1> QED
    BY <1>4, <1>5 DEF _run_invoice_pipeline

LEMMA CompleteCalm ==
  ASSUME IngestInv, Calm, NEW w \in Passes, complete_attachment(w)
  PROVE  Calm'
  <1> DEFINE p == pass[w].cur
  <1>0. /\ pass \in [Passes -> PassStates] /\ pass[w] \in PassStates
        /\ part \in [Parts -> PartRows] /\ message \in [Messages -> Rows]
        /\ pass[w].pc = "complete"
        /\ pass[w].msg \in Messages /\ PartsOf[pass[w].msg] \subseteq Parts
        /\ pass[w].todo \subseteq PartsOf[pass[w].msg]
        /\ part' = [part EXCEPT ![p].status = "PROCESSED"] /\ nature' = nature
    BY PartsInOrder DEF complete_attachment
  <1>1. /\ p \in pass[w].todo /\ p \in Parts /\ p \in PartsOf[pass[w].msg]
        /\ part[p].status \notin {"none", "SKIPPED", "PROCESSED"}
        /\ Tracks(pass[w], part)
    BY <1>0 DEF Calm, Tracks, SeenAsIs, AtParts
  <1>2. \A m \in Messages : message'[m].ingest = "PROCESSED" => message[m].ingest = "PROCESSED"
    <2>1. PICK r : message' = [message EXCEPT ![pass[w].msg].run = r]
      BY DEF complete_attachment
    <2> QED
      BY <1>0, <2>1 DEF Rows
  <1>3. /\ Processing(w) /\ part'[p].status = "PROCESSED"
        /\ \A q \in Parts : q # p => part'[q].status = part[q].status
    BY <1>0, <1>1 DEF Processing, PartRows
  <1>4. /\ \A v \in Passes : v # w => pass'[v] = pass[v]
        /\ pass'[w].pc = "drop" /\ pass'[w].cur = p /\ pass'[w].msg = pass[w].msg
        /\ pass'[w].todo = pass[w].todo /\ pass'[w].seen = pass[w].seen
        /\ pass'[w].good = pass[w].good /\ pass'[w].bad = pass[w].bad
    BY <1>0 DEF complete_attachment, Go, PassStates
  <1>5. Tracks(pass'[w], part')
    <2>1. SeenAsIs(pass'[w], part')
      BY <1>0, <1>1, <1>3, <1>4 DEF Tracks, SeenAsIs, AtParts
    <2>2. Covers(pass'[w], part')
      BY <1>0, <1>1, <1>3, <1>4 DEF Tracks, Covers, AtParts
    <2> QED
      BY <1>4, <2>1, <2>2 DEF Tracks, Fresh, AtParts
  <1>6. Touches(w)
    BY <1>1, <1>3 DEF Touches
  <1>7. \A q \in Parts : part'[q].status = "none" <=> part[q].status = "none"
    BY <1>1, <1>3
  <1> QED
    BY <1>0, <1>2, <1>3, <1>4, <1>5, <1>6, <1>7, CalmStep

LEMMA DropCalm ==
  ASSUME IngestInv, Calm, NEW w \in Passes, _release_held_bytes(w)
  PROVE  Calm'
  <1> DEFINE p == pass[w].cur
  <1>0. /\ pass \in [Passes -> PassStates] /\ pass[w] \in PassStates
        /\ part \in [Parts -> PartRows] /\ pass[w].pc = "drop"
        /\ pass[w].msg \in Messages /\ PartsOf[pass[w].msg] \subseteq Parts
        /\ pass[w].todo \subseteq PartsOf[pass[w].msg]
        /\ Finished(w, p, TRUE, FALSE) /\ UNCHANGED <<nature, message>>
    BY PartsInOrder DEF _release_held_bytes
  <1>1. p \in pass[w].todo /\ p \in Parts /\ part[p].status = "PROCESSED"
    BY <1>0 DEF Calm, Tracks, SeenAsIs, AtParts
  <1>2. part' = part \/ part' = [part EXCEPT ![p].held = FALSE]
    BY DEF _release_held_bytes
  <1>3. \A q \in Parts : part'[q].status = part[q].status
    BY <1>0, <1>1, <1>2 DEF PartRows
  <1>4. Tracks(pass'[w], part')
    BY <1>0, <1>1, <1>3, FinishedTracks
  <1>5. /\ \A v \in Passes : v # w => pass'[v] = pass[v]
        /\ pass'[w].msg = pass[w].msg
    BY <1>0 DEF Finished, PassStates
  <1>6. Touches(w) /\ Processing(w)
    BY <1>0, <1>3 DEF Touches, Processing
  <1>7. \A m \in Messages : message'[m].ingest = "PROCESSED" => message[m].ingest = "PROCESSED"
    BY <1>0
  <1> QED
    BY <1>0, <1>3, <1>4, <1>5, <1>6, <1>7, CalmStep

(* A pass calls its message processed on an account that is whole.         *)
LEMMA FinishCalm ==
  ASSUME IngestInv, Calm, NEW w \in Passes, Finish(w)
  PROVE  Calm'
  <1> DEFINE m == pass[w].msg
  <1>0. /\ pass \in [Passes -> PassStates] /\ pass[w] \in PassStates
        /\ message \in [Messages -> Rows] /\ m \in Messages /\ PartsOf[m] \subseteq Parts
        /\ pass[w].pc = "take" /\ pass[w].todo = {} /\ UNCHANGED <<nature, part>>
        /\ message' = [message EXCEPT ![m].ingest = Outcome(pass[w].good, pass[w].bad)]
    BY PartsInOrder DEF Finish
  <1>1. /\ \A v \in Passes : v # w => pass'[v] = pass[v]
        /\ pass'[w].pc = "mark" \/ (pass'[w].pc = "idle" /\ pass'[w].good = FALSE)
    <2>1. CASE Go(w, "mark")
      BY <1>0, <2>1 DEF Go, PassStates
    <2>2. CASE Leave(w)
      BY <1>0, <2>2 DEF Leave, Idle
    <2> QED
      BY <2>1, <2>2 DEF Finish
  <1>2. ASSUME NEW n \in Messages, message'[n].ingest = "PROCESSED"
        PROVE  \/ message[n].ingest = "PROCESSED"
               \/ \A p \in PartsOf[n] \cap Pdfs : part[p].status = "PROCESSED"
    <2>1. CASE n # m
      BY <1>0, <1>2, <2>1
    <2>2. CASE n = m
      <3>1. Outcome(pass[w].good, pass[w].bad) = "PROCESSED"
        BY <1>0, <1>2, <2>2 DEF Rows
      <3>2. pass[w].good = TRUE /\ pass[w].bad = FALSE
        BY <1>0, <3>1 DEF Outcome, OutcomeOfAny, PassStates
      <3>3. Covers(pass[w], part)
        BY DEF Calm, Tracks
      <3> QED
        BY <1>0, <2>2, <3>2, <3>3 DEF Covers, AtParts
    <2> QED
      BY <2>1, <2>2
  <1> QED
    BY <1>0, <1>1, <1>2, CalmElsewhere DEF Elsewhere

-----------------------------------------------------------------------------
LEMMA InitWhole == Init => WholeInv
  <1> SUFFICES ASSUME Init PROVE WholeInv
    OBVIOUS
  <1>1. IngestInv /\ Counted
    BY InitIngest, IngestAssumption DEF Init, Counted
  <1>2. Alone /\ \A w \in Passes : Tracks(pass[w], part)
    BY DEF Init, Alone, Processing, Tracks, Fresh, SeenAsIs, Covers, AtParts, Idle
  <1>3. ListedWhole /\ ListedByNature /\ ProcessedWhole
    BY IngestAssumption DEF Init, ListedWhole, ListedByNature, ProcessedWhole, Unlisted, NoRow
  <1> QED
    BY <1>1, <1>2, <1>3 DEF WholeInv, Calm

(* A ruling leaves the passes and the attachments alone.                   *)
LEMMA StillCalm ==
  ASSUME Calm, UNCHANGED <<nature, part, pass>>,
         \A m \in Messages : message'[m].ingest = "PROCESSED" => message[m].ingest = "PROCESSED"
  PROVE  Calm'
  BY DEF Calm, Alone, Processing, ListedWhole, ListedByNature, ProcessedWhole, Tracks, Fresh,
         SeenAsIs, Covers

LEMMA NextWhole == WholeInv /\ [Next]_vars => WholeInv'
  <1> SUFFICES ASSUME WholeInv, [Next]_vars PROVE WholeInv'
    OBVIOUS
  <1>1. IngestInv' /\ Counted' /\ upsets' >= upsets /\ overlaps' >= overlaps
    BY NextIngest, IngestCounts DEF WholeInv
  <1>2. upsets \in Nat /\ overlaps \in Nat /\ IngestInv /\ Counted
    BY ExcusesTyped, <1>1 DEF WholeInv
  <1>3. ASSUME Quiet' PROVE Calm'
    <2>0. upsets' = 0 /\ overlaps' = 0 /\ upsets = 0 /\ overlaps = 0 /\ Calm
      BY <1>1, <1>2, <1>3 DEF Quiet, WholeInv
    <2>1. CASE UNCHANGED vars
      BY <2>0, <2>1, StillCalm DEF vars
    <2>2. CASE Rule
      <3>1. PICK m \in Messages, ruling \in {"RELEASED", "DISCARDED"} : set_email_status(m, ruling)
        BY <2>2 DEF Rule
      <3>2. /\ UNCHANGED <<nature, part, pass>>
            /\ message' = [message EXCEPT ![m].status = ruling]
        BY <3>1 DEF set_email_status
      <3>3. \A n \in Messages : message'[n].ingest = message[n].ingest
        BY <1>2, <3>2 DEF IngestInv, Typed, Rows
      <3> QED
        BY <2>0, <3>2, <3>3, StillCalm
    <2>3. ASSUME NEW w \in Passes, Ingesting(w) \/ \E m \in Messages : StartProcess(w, m)
          PROVE  Calm'
      BY <1>2, <2>0, <2>3, IngestingCalm, RecordCalm DEF Ingesting
    <2>4. ASSUME NEW w \in Passes, process_message_attachments(w) PROVE Calm'
      <3>1. CASE CompleteOrphan(w)
        <4>1. /\ pass' = [pass EXCEPT ![w] = Idle] /\ Idle.pc = "idle" /\ Idle.good = FALSE
              /\ UNCHANGED <<nature, part, message>>
          BY <3>1 DEF CompleteOrphan, Leave, Idle
        <4>2. /\ \A v \in Passes : v # w => pass'[v] = pass[v]
              /\ pass'[w].pc = "idle" /\ pass'[w].good = FALSE
          BY <1>2, <4>1, PartsInOrder
        <4> QED
          BY <1>2, <2>0, <4>1, <4>2, CalmElsewhere DEF Elsewhere
      <3>2. CASE Gate(w)
        BY <1>2, <2>0, <3>2, GateCalm
      <3>3. CASE ReadRows(w) \/ (\E p \in Parts : Take(w, p)) \/ _run_invoice_pipeline(w)
        BY <1>2, <2>0, <3>3, ReadCalm, TakeCalm, PipelineCalm
      <3>4. CASE complete_attachment(w) \/ _release_held_bytes(w) \/ Finish(w)
        BY <1>2, <2>0, <3>4, CompleteCalm, DropCalm, FinishCalm
      <3> QED
        BY <2>4, <3>1, <3>2, <3>3, <3>4 DEF process_message_attachments
    <2>5. CASE ClearHistory \/ \E w \in Passes : Crash(w)
      <3>1. upsets' # 0
        <4>1. CASE ClearHistory
          <5>1. PICK lost \in SUBSET Parts : upsets' = upsets + 1 + Cardinality(lost)
            <6> DEFINE bare == {p \in {p \in Parts : part[p].status = "PROCESSED"} : ~part[p].held}
            <6>1. PICK lost \in SUBSET bare : upsets' = upsets + 1 + Cardinality(lost)
              BY <4>1 DEF ClearHistory
            <6> QED
              BY <6>1
          <5> QED
            BY <1>2, <5>1, PartsAreCounted
        <4>2. CASE \E w \in Passes : Crash(w)
          BY <1>2, <4>2 DEF Crash
        <4> QED
          BY <2>5, <4>1, <4>2
      <3> QED
        BY <2>0, <3>1
    <2> QED
      BY <2>1, <2>2, <2>3, <2>4, <2>5 DEF Next
  <1> QED
    BY <1>1, <1>3 DEF WholeInv

(* While nothing has gone wrong, the account a pass has of its message is  *)
(* whole.                                                                  *)
THEOREM WholeInvariant == Spec => []WholeInv
  BY InitWhole, NextWhole, PTL DEF Spec

(* With nothing gone wrong, a message that is called PROCESSED has every   *)
(* PDF of it processed (process_message_attachments, whoever calls it).    *)
THEOREM ProcessedIsWhole == Spec => []ProcessedMeansAll
  <1>1. WholeInv => ProcessedMeansAll
    BY DEF WholeInv, Quiet, Calm, ProcessedWhole, ProcessedMeansAll
  <1> QED
    BY <1>1, WholeInvariant, PTL
=============================================================================
