----------------------- MODULE InvoiceIdentityProofs -----------------------
(***************************************************************************)
(* For any number of submissions: of two copies of one invoice the later   *)
(* one is always rejected, although both may pass the duplicate check that *)
(* is made before the transaction opens.  With the budget this gives the   *)
(* refinement: the ledger implements IntakeClerk.                          *)
(***************************************************************************)
EXTENDS InvoiceLedgerProofs, LedgerClerk

(* Rows keep their identity, and their rejection if they were first judged *)
(* so, or are deleted; none appears.                                       *)
IdentityKept ==
    \A s \in Stored' :
        /\ s \in Stored
        /\ runs'[s].id = runs[s].id
        /\ runs[s].automated_decision = "REJECTED"
              => runs'[s].automated_decision = "REJECTED"

(* A step that leaves the runs alone disturbs no identity.                 *)
LEMMA SameRunsIdentity == UNCHANGED runs => IdentityKept
BY DEF IdentityKept, Stored

(* apply_status_transition keeps a run's id and automated decision.        *)
LEMMA TransitionIdentity ==
    ASSUME NEW run \in Run, NEW new, NEW event
    PROVE  /\ apply_status_transition(run, new, event).id = run.id
           /\ apply_status_transition(run, new, event).automated_decision
                  = run.automated_decision
BY DEF apply_status_transition, Run

(* People, the cascade and a reset disturb no identity.                    *)
LEMMA RulingsKeepIdentity ==
    ASSUME TypeOK, NEW r \in Requests
    PROVE  WalkQueue(r) \/ Rule(r) \/ clear_run_history => IdentityKept
<1>1. ASSUME NEW s \in Submissions, NEW decision \in Decisions, Review(r, s, decision)
      PROVE  IdentityKept
  <2> DEFINE moved == apply_status_transition(runs[s], Outcome(decision), decision)
  <2>1. runs[s] \in Run /\ s \in Stored
    BY <1>1 DEF TypeOK, Review, Stored
  <2>2. moved \in Run
    BY <2>1, TransitionType DEF Outcome, Statuses, Events
  <2>3. moved.id = runs[s].id /\ moved.automated_decision = runs[s].automated_decision
    BY <2>1, TransitionIdentity
  <2> HIDE DEF moved
  <2>4. runs' = [runs EXCEPT ![s] =
           [moved EXCEPT !.human_decision = decision,
                         !.final_decision = HumanOutcome(decision)]]
    BY <1>1 DEF Review, moved
  <2>5. runs'[s].id = runs[s].id /\ runs'[s].automated_decision = runs[s].automated_decision
    BY <2>2, <2>3, <2>4 DEF Run, TypeOK
  <2> QED
    BY <2>1, <2>4, <2>5 DEF IdentityKept, Stored, TypeOK
<1>2. ASSUME NEW s \in Submissions, NEW new \in Statuses, set_run_status(r, s, new)
      PROVE  IdentityKept
  <2>1. runs[s] \in Run /\ s \in Stored
    BY <1>2 DEF TypeOK, set_run_status, Stored
  <2>2. runs' = [runs EXCEPT ![s] = apply_status_transition(runs[s], new, "STATUS_OVERRIDDEN")]
    BY <1>2 DEF set_run_status
  <2> QED
    BY <2>1, <2>2, TransitionIdentity DEF IdentityKept, Stored, TypeOK
<1>3. ASSUME ListQueue(r) \/ CheckHead(r)
      PROVE  IdentityKept
  BY <1>3, SameRunsIdentity DEF ListQueue, CheckHead
<1>4. ASSUME ApplyApproval(r)
      PROVE  IdentityKept
  <2> DEFINE s == Current(r)
  <2>1. CASE s \in Stored \ ApprovedRuns
    <3>1. s \in Submissions /\ runs[s] \in Run
      BY <2>1, StoredRun
    <3>2. runs' = [runs EXCEPT ![s] =
                      apply_status_transition(runs[s], "APPROVED", "AUTO_APPROVED")]
      BY <1>4, <2>1 DEF ApplyApproval
    <3> HIDE DEF s
    <3> QED
      BY <2>1, <3>1, <3>2, TransitionIdentity DEF IdentityKept, Stored, TypeOK
  <2>2. CASE s \notin Stored \ ApprovedRuns
    BY <1>4, <2>2, SameRunsIdentity DEF ApplyApproval
  <2> QED
    BY <2>1, <2>2
<1>5. ASSUME clear_run_history
      PROVE  IdentityKept
  BY <1>5 DEF clear_run_history, IdentityKept, Stored
<1> QED
  BY <1>1, <1>2, <1>3, <1>4, <1>5 DEF WalkQueue, Rule

-----------------------------------------------------------------------------
(* Nothing is on file at first.                                            *)
LEMMA IdentityInit == Init => IdentityInv
BY DEF Init, NoDraft, IdentityInv, NothingWrittenEarly, KeysHeld, NoRepeatPending,
       IdsIssued, NoDuplicateAdmitted, InTransaction, Stored

(* What is on file keeps its identity, so what is known of it stays known. *)
LEMMA KeptIdentity ==
    ASSUME IdentityInv, IdentityKept, UNCHANGED <<doc, lastId>>
    PROVE  IdsIssued' /\ NoDuplicateAdmitted'
<1>1. IdsIssued'
  BY DEF IdentityInv, IdsIssued, IdentityKept
<1>2. NoDuplicateAdmitted'
  BY DEF IdentityInv, NoDuplicateAdmitted, IdentityKept, Repeats
<1> QED
  BY <1>1, <1>2

(* Transactions that neither open nor close, while no run appears.         *)
LEMMA KeptTransactions ==
    ASSUME IdentityInv, IdentityKept, UNCHANGED doc,
           \A s \in Submissions :
              InTransaction(s)' => /\ InTransaction(s)
                                   /\ draft'[s].key = draft[s].key
                                   /\ draft'[s].verdict # "REJECTED"
                                        => draft[s].verdict # "REJECTED"
    PROVE  KeysHeld' /\ NoRepeatPending'
<1>1. KeysHeld'
  BY DEF IdentityInv, KeysHeld, duplicate_lock_key
<1>2. NoRepeatPending'
  BY DEF IdentityInv, NoRepeatPending, IdentityKept, Repeats
<1> QED
  BY <1>1, <1>2

(* The identity lock is taken and find_duplicate asked under it.           *)
LEMMA RecheckKeepsIdentity ==
    ASSUME TypeOK, IdentityInv, NEW s \in Submissions, RecheckDuplicate(s)
    PROVE  KeysHeld' /\ NoRepeatPending'
<1> DEFINE locks == draft[s].verdict # "REJECTED" /\ doc[s].number # None
<1>1. /\ pc[s] = "decided" /\ pc'[s] = "keyed"
      /\ \A t \in Submissions \ {s} : pc'[t] = pc[t] /\ draft'[t] = draft[t]
      /\ UNCHANGED <<doc, runs>>
  BY DEF RecheckDuplicate, TypeOK
<1>2. draft'[s].key = locks /\ (locks => KeyFree(s))
  BY DEF RecheckDuplicate, TypeOK, Draft
<1>3. draft'[s].verdict # "REJECTED" =>
         /\ draft[s].verdict # "REJECTED"
         /\ locks => find_duplicate(doc[s]) = {}
  BY DEF RecheckDuplicate, TypeOK, Draft
<1>4. \A t \in Submissions \ {s} : InTransaction(t)' => InTransaction(t)
  BY <1>1 DEF InTransaction
<1> HIDE DEF locks
<1>5. KeysHeld'
  <2>1. \A t \in Submissions :
           InTransaction(t)' /\ draft'[t].verdict # "REJECTED" /\ doc'[t].number # None
              => draft'[t].key
    BY <1>1, <1>2, <1>3, <1>4 DEF IdentityInv, KeysHeld, locks
  <2>2. \A t, u \in Submissions :
           t # u /\ InTransaction(t)' /\ draft'[t].key /\ InTransaction(u)' /\ draft'[u].key
              => duplicate_lock_key(doc'[t]) # duplicate_lock_key(doc'[u])
    BY <1>1, <1>2, <1>4 DEF IdentityInv, KeysHeld, KeyFree
  <2> QED
    BY <2>1, <2>2 DEF KeysHeld, duplicate_lock_key
<1>6. NoRepeatPending'
  <2> SUFFICES ASSUME NEW t \in Submissions, NEW u \in Stored,
                      InTransaction(t)', draft'[t].verdict # "REJECTED",
                      Repeats(doc[t], doc[u])
               PROVE  runs[u].automated_decision = "REJECTED"
    BY <1>1 DEF NoRepeatPending, Stored, Repeats
  <2>1. CASE t = s
    BY <1>3, <2>1 DEF find_duplicate, Repeats, locks
  <2>2. CASE t # s
    BY <1>1, <1>4, <2>2 DEF IdentityInv, NoRepeatPending
  <2> QED
    BY <2>1, <2>2
<1> QED
  BY <1>5, <1>6

(* The new run takes the highest id, and either was rejected or found no   *)
(* admitted copy while it alone held the key of its invoice.               *)
LEMMA NewRunKeepsIdentity ==
    ASSUME TypeOK, IdentityInv, NEW s \in Submissions, runs[s] = None,
           NEW row \in Run, runs' = [runs EXCEPT ![s] = row],
           row.id = lastId + 1, lastId' = lastId + 1, UNCHANGED doc,
           row.automated_decision # "REJECTED" =>
              \A t \in Stored : Repeats(doc[s], doc[t])
                                   => runs[t].automated_decision = "REJECTED"
    PROVE  IdsIssued' /\ NoDuplicateAdmitted'
<1>1. Stored' = Stored \cup {s} /\ s \notin Stored
  BY LedgerAssumption DEF Stored, TypeOK
<1>2. runs'[s] = row /\ \A t \in Stored : runs'[t] = runs[t]
  BY <1>1 DEF TypeOK, Stored
<1>3. \A t \in Stored : runs[t].id \in Nat /\ runs[t].id <= lastId
  BY StoredRun DEF IdentityInv, IdsIssued, Run
<1>4. lastId \in Nat
  BY DEF TypeOK
<1>5. IdsIssued'
  BY <1>1, <1>2, <1>3, <1>4 DEF IdsIssued
<1>6. NoDuplicateAdmitted'
  <2> SUFFICES ASSUME NEW t \in Stored', NEW u \in Stored',
                      runs'[t].id < runs'[u].id,
                      runs'[t].automated_decision # "REJECTED",
                      Repeats(doc[u], doc[t])
               PROVE  runs'[u].automated_decision = "REJECTED"
    BY DEF NoDuplicateAdmitted, Repeats
  <2>1. t # s
    BY <1>1, <1>2, <1>3, <1>4
  <2>2. CASE u = s
    BY <1>1, <1>2, <2>1, <2>2
  <2>3. CASE u # s
    BY <1>1, <1>2, <2>1, <2>3 DEF IdentityInv, NoDuplicateAdmitted
  <2> QED
    BY <2>2, <2>3
<1> QED
  BY <1>5, <1>6

(* Under the lock the insert is the only one of its identity.              *)
LEMMA InsertKeepsIdentity ==
    ASSUME TypeOK, IdentityInv, NEW s \in Submissions, InsertRun(s)
    PROVE  IdentityInv'
<1> DEFINE row == NewRun(draft[s].verdict, draft[s].verdict, draft[s].reasons, draft[s].alloc)
<1>1. /\ pc[s] = "checked" /\ pc'[s] = "done"
      /\ \A t \in Submissions \ {s} :
            pc'[t] = pc[t] /\ draft'[t] = draft[t] /\ runs'[t] = runs[t]
      /\ UNCHANGED doc
  BY DEF InsertRun, TypeOK
<1>2. runs[s] = None
  BY <1>1 DEF IdentityInv, NothingWrittenEarly
<1>3. row \in Run
  BY NewRunType DEF TypeOK, Draft
<1>4. row.id = lastId + 1 /\ row.automated_decision = draft[s].verdict
  BY DEF NewRun
<1>5. runs' = [runs EXCEPT ![s] = row] /\ lastId' = lastId + 1
  BY DEF InsertRun
<1> HIDE DEF row
<1>6. IdsIssued' /\ NoDuplicateAdmitted'
  <2>1. row.automated_decision # "REJECTED" =>
           \A t \in Stored : Repeats(doc[s], doc[t])
                                => runs[t].automated_decision = "REJECTED"
    BY <1>1, <1>4 DEF IdentityInv, NoRepeatPending, InTransaction
  <2> QED
    BY <1>1, <1>2, <1>3, <1>4, <1>5, <2>1, NewRunKeepsIdentity
<1>7. NothingWrittenEarly'
  BY <1>1 DEF IdentityInv, NothingWrittenEarly
<1>8. \A t \in Submissions : InTransaction(t)' => t # s /\ InTransaction(t)
  BY <1>1 DEF InTransaction
<1>9. KeysHeld'
  BY <1>1, <1>8 DEF IdentityInv, KeysHeld, duplicate_lock_key
<1>10. NoRepeatPending'
  <2> SUFFICES ASSUME NEW t \in Submissions, NEW u \in Stored',
                      InTransaction(t)', draft'[t].verdict # "REJECTED",
                      Repeats(doc[t], doc[u])
               PROVE  runs'[u].automated_decision = "REJECTED"
    BY <1>1 DEF NoRepeatPending, Repeats
  <2>1. t # s /\ InTransaction(t) /\ draft[t] = draft'[t]
    BY <1>1, <1>8
  <2>2. CASE u = s
    <3>1. doc[t].number # None /\ duplicate_lock_key(doc[s]) = duplicate_lock_key(doc[t])
      BY <2>2 DEF Repeats, duplicate_lock_key
    <3>2. doc[s].number # None
      BY <2>2 DEF Repeats
    <3>3. draft[t].key
      BY <2>1, <3>1 DEF IdentityInv, KeysHeld
    <3>4. draft[s].verdict = "REJECTED"
      BY <1>1, <2>1, <3>1, <3>2, <3>3 DEF IdentityInv, KeysHeld, InTransaction
    <3>5. runs'[s] = row
      BY <1>5 DEF TypeOK
    <3> QED
      BY <1>4, <2>2, <3>4, <3>5
  <2>3. CASE u # s
    BY <1>1, <2>1, <2>3 DEF IdentityInv, NoRepeatPending, Stored
  <2> QED
    BY <2>2, <2>3
<1> QED
  BY <1>6, <1>7, <1>9, <1>10 DEF IdentityInv

(* A file that cannot be read has no number and repeats nothing.           *)
LEMMA AbortKeepsIdentity ==
    ASSUME TypeOK, IdentityInv, NEW s \in Submissions, AbortUnreadable(s)
    PROVE  IdentityInv'
<1> DEFINE row == NewRun("NEEDS_REVIEW", None, {"substantive"}, NoDraft.alloc)
<1>1. /\ pc[s] = "received" /\ pc'[s] = "done"
      /\ \A t \in Submissions \ {s} : pc'[t] = pc[t] /\ runs'[t] = runs[t]
      /\ UNCHANGED <<doc, draft>>
  BY DEF AbortUnreadable, TypeOK
<1>2. doc[s].number = None
  BY LedgerAssumption DEF AbortUnreadable, TypeOK
<1>3. runs[s] = None
  BY <1>1 DEF IdentityInv, NothingWrittenEarly
<1>4. row \in Run
  <2>1. NoDraft.alloc \in Allocation /\ {"substantive"} \in SUBSET Reasons
    BY NoDraftType DEF Draft, Reasons, Blockers
  <2> QED
    BY <2>1, NewRunType DEF TypeOK, Statuses
<1>5. row.id = lastId + 1
  BY DEF NewRun
<1>6. runs' = [runs EXCEPT ![s] = row] /\ lastId' = lastId + 1
  BY DEF AbortUnreadable
<1> HIDE DEF row
<1>7. IdsIssued' /\ NoDuplicateAdmitted'
  BY <1>1, <1>2, <1>3, <1>4, <1>5, <1>6, NewRunKeepsIdentity DEF Repeats
<1>8. NothingWrittenEarly'
  BY <1>1 DEF IdentityInv, NothingWrittenEarly
<1>9. \A t \in Submissions : InTransaction(t)' => t # s /\ InTransaction(t)
  BY <1>1 DEF InTransaction
<1>10. KeysHeld'
  BY <1>1, <1>9 DEF IdentityInv, KeysHeld, duplicate_lock_key
<1>11. NoRepeatPending'
  <2> SUFFICES ASSUME NEW t \in Submissions, NEW u \in Stored',
                      InTransaction(t)', draft[t].verdict # "REJECTED",
                      Repeats(doc[t], doc[u])
               PROVE  runs'[u].automated_decision = "REJECTED"
    BY <1>1 DEF NoRepeatPending, Repeats
  <2>1. u # s
    BY <1>2 DEF Repeats
  <2> QED
    BY <1>1, <1>9, <2>1 DEF IdentityInv, NoRepeatPending, Stored
<1> QED
  BY <1>7, <1>8, <1>10, <1>11 DEF IdentityInv

(* Every step of the ledger keeps the identity invariant.                  *)
LEMMA IdentityNext == TypeOK /\ IdentityInv /\ [Next]_vars => IdentityInv'
<1> SUFFICES ASSUME TypeOK, IdentityInv, [Next]_vars PROVE IdentityInv'
  OBVIOUS
<1>1. ASSUME UNCHANGED <<doc, lastId>>, IdentityKept,
             \A s \in Submissions : pc'[s] # "done" => pc[s] # "done",
             KeysHeld', NoRepeatPending'
      PROVE  IdentityInv'
  <2>1. NothingWrittenEarly'
    BY <1>1 DEF IdentityInv, NothingWrittenEarly, IdentityKept, Stored
  <2> QED
    BY <1>1, <2>1, KeptIdentity DEF IdentityInv
<1>2. ASSUME NEW s \in Submissions, Match(s) \/ Decide(s)
      PROVE  IdentityInv'
  <2>1. /\ UNCHANGED <<doc, runs, lastId>>
        /\ pc[s] \in {"received", "matched"} /\ pc'[s] \in {"matched", "decided"}
        /\ \A t \in Submissions \ {s} : pc'[t] = pc[t] /\ draft'[t] = draft[t]
    BY <1>2 DEF Match, Decide, TypeOK
  <2>2. IdentityKept
    BY <2>1, SameRunsIdentity
  <2>3. KeysHeld' /\ NoRepeatPending'
    BY <2>1, <2>2, KeptTransactions DEF InTransaction
  <2> QED
    BY <1>1, <2>1, <2>2, <2>3
<1>3. ASSUME NEW s \in Submissions, RecheckDuplicate(s)
      PROVE  IdentityInv'
  <2>1. /\ UNCHANGED <<doc, runs, lastId>>
        /\ \A t \in Submissions : pc'[t] # "done" => pc[t] # "done"
    BY <1>3 DEF RecheckDuplicate, TypeOK
  <2> QED
    BY <1>1, <1>3, <2>1, SameRunsIdentity, RecheckKeepsIdentity
<1>4. ASSUME NEW s \in Submissions, RecheckBalance(s)
      PROVE  IdentityInv'
  <2>1. /\ UNCHANGED <<doc, runs, lastId>>
        /\ pc[s] = "keyed" /\ pc'[s] = "checked"
        /\ \A t \in Submissions \ {s} : pc'[t] = pc[t] /\ draft'[t] = draft[t]
    BY <1>4 DEF RecheckBalance, TypeOK
  <2>2. /\ draft'[s].key = draft[s].key
        /\ draft'[s].verdict # "REJECTED" => draft[s].verdict # "REJECTED"
    BY <1>4 DEF RecheckBalance, TypeOK, Draft
  <2>3. IdentityKept
    BY <2>1, SameRunsIdentity
  <2>4. KeysHeld' /\ NoRepeatPending'
    BY <2>1, <2>2, <2>3, KeptTransactions DEF InTransaction
  <2> QED
    BY <1>1, <2>1, <2>3, <2>4
<1>5. ASSUME NEW r \in Requests, WalkQueue(r) \/ Rule(r)
      PROVE  IdentityInv'
  <2>1. UNCHANGED <<doc, pc, draft, lastId>>
    BY <1>5 DEF WalkQueue, Rule, ListQueue, CheckHead, ApplyApproval, Review, set_run_status
  <2>2. IdentityKept
    BY <1>5, RulingsKeepIdentity
  <2>3. KeysHeld' /\ NoRepeatPending'
    BY <2>1, <2>2, KeptTransactions DEF InTransaction
  <2> QED
    BY <1>1, <2>1, <2>2, <2>3
<1>6. ASSUME clear_run_history \/ UNCHANGED vars
      PROVE  IdentityInv'
  <2>1. UNCHANGED <<doc, pc, draft, lastId>>
    BY <1>6 DEF clear_run_history, vars
  <2>2. IdentityKept
    BY <1>6 DEF clear_run_history, vars, IdentityKept, Stored
  <2>3. KeysHeld' /\ NoRepeatPending'
    BY <2>1, <2>2, KeptTransactions DEF InTransaction
  <2> QED
    BY <1>1, <2>1, <2>2, <2>3
<1>7. ASSUME Restart
      PROVE  IdentityInv'
  <2>1. /\ UNCHANGED <<doc, lastId>>
        /\ \A s \in Submissions : pc'[s] # "done" => pc[s] # "done"
        /\ \A s \in Submissions : pc'[s] \in {"received", "done", "lost"}
    BY <1>7 DEF Restart, InFlight, Settled, TypeOK, Stages
  <2>2. IdentityKept
    BY <1>7, StoredRun, BackfilledKeeps, LedgerAssumption
    DEF Restart, IdentityKept, Stored, Statuses
  <2>3. KeysHeld' /\ NoRepeatPending'
    BY <2>1 DEF KeysHeld, NoRepeatPending, InTransaction
  <2> QED
    BY <1>1, <2>1, <2>2, <2>3
<1> QED
  BY <1>2, <1>3, <1>4, <1>5, <1>6, <1>7, AbortKeepsIdentity, InsertKeepsIdentity
  DEF Next, Pipeline

(* Open transactions that may still admit an invoice hold the key of its   *)
(* identity, and know of no admitted copy.                                 *)
THEOREM IdentityInvariant == Spec => []IdentityInv
<1>1. Init => IdentityInv
  BY IdentityInit
<1>2. TypeOK /\ IdentityInv /\ [Next]_vars => IdentityInv'
  BY IdentityNext
<1> QED
  BY <1>1, <1>2, TypeCorrect, PTL DEF Spec

(* The later copy of an invoice is never admitted, whoever else is in      *)
(* flight and whenever the duplicate check was first made.                 *)
THEOREM LaterCopyRejected == Spec => []NoDuplicateAdmitted
<1>1. IdentityInv => NoDuplicateAdmitted
  BY DEF IdentityInv
<1> QED
  BY <1>1, IdentityInvariant, PTL

-----------------------------------------------------------------------------
(* The ledger does what the clerk does.                                    *)

(* What a pass can be approved for charges a single order.                 *)
OneOrder(d) == d.primary # None /\ ~IsMulti(d)

(* What a pass has settled on before it commits ...                        *)
DraftReady(s) ==
    /\ pc[s] \in {"matched", "decided", "keyed", "checked"} =>
          /\ doc[s].readable
          /\ OneOrder(doc[s]) => draft[s].alloc = ClerkCost[s]
    /\ pc[s] = "matched" /\ ~OneOrder(doc[s]) => draft[s].reasons # {}
    /\ pc[s] \in {"decided", "keyed", "checked"} /\ draft[s].verdict = "APPROVED"
          => OneOrder(doc[s])

(* ... is what its row then says.                                          *)
RowReady(s) ==
    s \in Stored =>
        /\ doc[s].readable => runs[s].automated_decision # None
        /\ s \in ApprovedByPipeline => OneOrder(doc[s]) /\ runs[s].alloc = ClerkCost[s]

ClerkInv == \A s \in Submissions : DraftReady(s) /\ RowReady(s)

(* No pass has begun, and nothing is on file.                              *)
LEMMA ClerkInvInit == Init => ClerkInv
BY DEF Init, ClerkInv, DraftReady, RowReady, Stored

(* One order bears the whole invoice.                                      *)
LEMMA OneOrderCost ==
    ASSUME NEW s \in Submissions, OneOrder(doc[s])
    PROVE  split_across(doc[s]) = ClerkCost[s]
<1>1. ~IsMulti(doc[s]) /\ doc[s].secondary = None /\ None \notin POs
  BY LedgerAssumption DEF OneOrder, IsMulti
<1>2. split_across(doc[s]) = [p \in POs |-> IF p = doc[s].primary THEN doc[s].converted ELSE 0]
  BY <1>1 DEF split_across
<1>3. ClerkCost[s] = [p \in POs |-> IF p = doc[s].primary THEN doc[s].converted ELSE 0]
  BY <1>1 DEF ClerkCost, Bound
<1> QED
  BY <1>2, <1>3

(* What charges no single order is not approved outright.                  *)
LEMMA NotOneOrder ==
    ASSUME NEW d, ~OneOrder(d)
    PROVE  MatchReasons(d) # {}
BY DEF OneOrder, MatchReasons

(* A pass at work on its document.                                         *)
LEMMA DraftStep ==
    ASSUME TypeOK, NEW s \in Submissions, DraftReady(s), Pipeline(s)
    PROVE  DraftReady(s)'
<1>0. draft[s] \in Draft /\ doc' = doc /\ ClerkCost' = ClerkCost
  BY DEF TypeOK, Pipeline, AbortUnreadable, Match, Decide, RecheckDuplicate, RecheckBalance,
         InsertRun, ClerkCost, Bound
<1>1. CASE AbortUnreadable(s) \/ InsertRun(s)
  <2>1. pc'[s] = "done"
    BY <1>1 DEF AbortUnreadable, InsertRun, TypeOK
  <2> QED
    BY <2>1 DEF DraftReady
<1>2. CASE Match(s)
  <2>1. /\ pc'[s] = "matched" /\ doc[s].readable
        /\ draft'[s].alloc = split_across(doc[s])
        /\ MatchReasons(doc[s]) \subseteq draft'[s].reasons
    BY <1>0, <1>2 DEF Match, TypeOK, Draft
  <2> QED
    BY <1>0, <2>1, OneOrderCost, NotOneOrder DEF DraftReady
<1>3. CASE Decide(s)
  <2>1. PICK reasons : /\ draft[s].reasons \subseteq reasons
                       /\ draft'[s].verdict = Verdict(reasons)
    BY <1>0, <1>3 DEF Decide, TypeOK, Draft
  <2>2. pc[s] = "matched" /\ pc'[s] = "decided" /\ draft'[s].alloc = draft[s].alloc
    BY <1>0, <1>3 DEF Decide, TypeOK, Draft
  <2>3. reasons # {} => Verdict(reasons) # "APPROVED"
    BY DEF Verdict
  <2> QED
    BY <1>0, <2>1, <2>2, <2>3 DEF DraftReady
<1>4. CASE RecheckDuplicate(s)
  <2>1. /\ pc[s] = "decided" /\ pc'[s] = "keyed" /\ draft'[s].alloc = draft[s].alloc
        /\ draft'[s].verdict = "APPROVED" => draft[s].verdict = "APPROVED"
    BY <1>0, <1>4 DEF RecheckDuplicate, TypeOK, Draft
  <2> QED
    BY <1>0, <2>1 DEF DraftReady
<1>5. CASE RecheckBalance(s)
  <2>1. /\ pc[s] = "keyed" /\ pc'[s] = "checked" /\ draft'[s].alloc = draft[s].alloc
        /\ draft'[s].verdict = "APPROVED" => draft[s].verdict = "APPROVED"
    BY <1>0, <1>5 DEF RecheckBalance, TypeOK, Draft
  <2> QED
    BY <1>0, <2>1 DEF DraftReady
<1> QED
  BY <1>1, <1>2, <1>3, <1>4, <1>5 DEF Pipeline

(* A step of one pass leaves the others where they are.                    *)
LEMMA OthersStay ==
    ASSUME TypeOK, NEW t \in Submissions, Pipeline(t), NEW s \in Submissions \ {t}
    PROVE  pc'[s] = pc[s] /\ draft'[s] = draft[s] /\ runs'[s] = runs[s] /\ doc' = doc
BY DEF TypeOK, Pipeline, AbortUnreadable, Match, Decide, RecheckDuplicate, RecheckBalance,
       InsertRun

(* A pass writes down what it has settled on.                              *)
LEMMA RowWritten ==
    ASSUME TypeOK, StoredIsDone, NEW s \in Submissions, DraftReady(s), Pipeline(s)
    PROVE  RowReady(s)'
<1>1. runs[s] = None /\ doc' = doc /\ ClerkCost' = ClerkCost
  BY DEF StoredIsDone, Stored, Pipeline, AbortUnreadable, Match, Decide, RecheckDuplicate,
         RecheckBalance, InsertRun, ClerkCost, Bound
<1>2. CASE AbortUnreadable(s)
  <2>1. runs'[s].status = "NEEDS_REVIEW" /\ ~doc[s].readable
    BY <1>2 DEF AbortUnreadable, TypeOK, NewRun
  <2> QED
    BY <1>1, <2>1 DEF RowReady, ApprovedByPipeline, ApprovedRuns
<1>3. CASE InsertRun(s)
  <2>1. /\ runs'[s].status = draft[s].verdict
        /\ runs'[s].automated_decision = draft[s].verdict
        /\ runs'[s].alloc = draft[s].alloc
        /\ pc[s] = "checked" /\ draft[s].verdict # None
    BY <1>3, LedgerAssumption DEF InsertRun, TypeOK, NewRun, Draft
  <2> QED
    BY <1>1, <2>1 DEF RowReady, DraftReady, ApprovedByPipeline, ApprovedRuns
<1>4. CASE ~AbortUnreadable(s) /\ ~InsertRun(s)
  <2>1. runs' = runs
    BY <1>4 DEF Pipeline, Match, Decide, RecheckDuplicate, RecheckBalance
  <2> QED
    BY <1>1, <2>1 DEF RowReady, Stored
<1> QED
  BY <1>2, <1>3, <1>4

(* People, walks and a reset touch no pass; a restart ends those at work.  *)
LEMMA OutsidersShrink ==
    ASSUME TypeOK, [Next]_vars, \A t \in Submissions : ~Pipeline(t)
    PROVE  /\ Shrinks /\ doc' = doc
           /\ \A s \in Submissions :
                 \/ pc'[s] = pc[s] /\ draft'[s] = draft[s]
                 \/ pc'[s] \notin {"matched", "decided", "keyed", "checked"}
<1>1. ASSUME NEW r \in Requests, WalkQueue(r) \/ Rule(r)
      PROVE  Shrinks /\ UNCHANGED <<doc, pc, draft>>
  <2>1. UNCHANGED <<doc, pc, draft>>
    BY <1>1 DEF WalkQueue, Rule, ListQueue, CheckHead, ApplyApproval, Review, set_run_status
  <2> QED
    BY <1>1, <2>1, RulingsShrink
<1>2. CASE clear_run_history \/ UNCHANGED vars
  BY <1>2 DEF clear_run_history, vars, Shrinks, NoneAdded, ApprovedByPipeline, ApprovedRuns, Stored
<1>3. CASE Restart
  <2>1. doc' = doc /\ \A s \in Submissions : pc'[s] \in Settled \cup {"received"}
    BY <1>3 DEF Restart, InFlight, Settled
  <2>2. \A s \in Submissions : runs'[s] = IF s \in Stored THEN Backfilled(runs[s]) ELSE None
    BY <1>3 DEF Restart
  <2>3. \A s \in Stored : /\ Backfilled(runs[s]).status = runs[s].status
                          /\ Backfilled(runs[s]).event = runs[s].event
                          /\ Backfilled(runs[s]).alloc = runs[s].alloc
    BY StoredRun, BackfilledKeeps
  <2>4. Shrinks
    BY <2>2, <2>3 DEF Shrinks, NoneAdded, ApprovedByPipeline, ApprovedRuns, Stored
  <2> QED
    BY <2>1, <2>4 DEF Settled
<1> QED
  BY <1>1, <1>2, <1>3 DEF Next

(* Every step keeps drafts and rows fit for the clerk.                     *)
LEMMA ClerkInvNext == RecordInv /\ ClerkInv /\ [Next]_vars => ClerkInv'
<1> SUFFICES ASSUME RecordInv, ClerkInv, [Next]_vars, NEW s \in Submissions
             PROVE  DraftReady(s)' /\ RowReady(s)'
  BY DEF ClerkInv
<1>0. TypeOK /\ StoredIsDone /\ DraftReady(s) /\ RowReady(s)
  BY DEF RecordInv, ClerkInv
<1>1. CASE Pipeline(s)
  BY <1>0, <1>1, DraftStep, RowWritten
<1>2. ASSUME NEW t \in Submissions, Pipeline(t), s # t
      PROVE  DraftReady(s)' /\ RowReady(s)'
  <2>1. pc'[s] = pc[s] /\ draft'[s] = draft[s] /\ runs'[s] = runs[s] /\ doc' = doc
    BY <1>0, <1>2, OthersStay
  <2> QED
    BY <1>0, <2>1
    DEF DraftReady, RowReady, ClerkCost, Bound, Stored, ApprovedByPipeline, ApprovedRuns
<1>3. CASE \A t \in Submissions : ~Pipeline(t)
  <2>1. Shrinks /\ doc' = doc /\ ClerkCost' = ClerkCost
    BY <1>0, <1>3, OutsidersShrink DEF ClerkCost, Bound
  <2>2. DraftReady(s)'
    BY <1>0, <1>3, <2>1, OutsidersShrink DEF DraftReady
  <2>3. RowReady(s)'
    <3>1. runs'[s] # None => runs[s] # None /\ KeepsDecisions(runs[s], runs'[s])
      BY <2>1, RowStep DEF Shrinks, Stored
    <3> QED
      BY <1>0, <2>1, <3>1 DEF RowReady, Shrinks, NoneAdded, KeepsDecisions, Stored
  <2> QED
    BY <2>2, <2>3
<1> QED
  BY <1>1, <1>2, <1>3

-----------------------------------------------------------------------------
(* Reading the clerk's book off the runs.                                  *)

(* An entry has a verdict, and is an approval or not.                      *)
LEMMA EntryFields ==
    ASSUME NEW v, NEW b, NEW c
    PROVE  /\ [verdict |-> v, approved |-> b].approved = b
           /\ [[verdict |-> v, approved |-> b] EXCEPT !.approved = c]
                  = [verdict |-> v, approved |-> c]
OBVIOUS

(* What is on file is in the book, approved while nobody has touched it.   *)
LEMMA BookRead ==
    ASSUME RecordInv, ClerkInv
    PROVE  /\ Clerk!OnFile = Stored
           /\ Clerk!Granted = ApprovedByPipeline
           /\ \A s \in Stored : ClerkBook[s] = ClerkEntry(s) /\ ClerkEntry(s) \in Clerk!Entry
<1>1. ASSUME NEW s \in Stored
      PROVE  ClerkBook[s] = ClerkEntry(s) /\ ClerkEntry(s) \in Clerk!Entry
  <2>1. s \in Submissions /\ runs[s] \in Run /\ RowReady(s)
    BY StoredRun DEF RecordInv, ClerkInv
  <2>2. ClerkBook[s] = ClerkEntry(s)
    BY <2>1 DEF ClerkBook
  <2>3. doc[s].readable => runs[s].automated_decision \in Statuses
    BY <2>1 DEF RowReady, Run
  <2> QED
    BY <2>2, <2>3 DEF ClerkEntry, Clerk!Entry, Clerk!Verdicts, Statuses
<1>2. \A s \in Submissions \ Stored : ClerkBook[s] = None
  BY DEF ClerkBook
<1>3. Clerk!OnFile = Stored
  BY <1>1, <1>2, BlankAssumption DEF Clerk!OnFile, Stored
<1>4. Clerk!Granted = ApprovedByPipeline
  <2>1. ASSUME NEW s \in Stored
        PROVE  ClerkBook[s].approved <=> s \in ApprovedByPipeline
    <3>1. ClerkEntry(s).approved = (s \in ApprovedByPipeline)
      BY EntryFields, Zenon DEF ClerkEntry
    <3> QED
      BY <1>1, <3>1, Zenon
  <2> QED
    BY <1>3, <2>1 DEF Clerk!Granted, ApprovedByPipeline, ApprovedRuns, Stored
<1> QED
  BY <1>1, <1>3, <1>4

(* What a document costs and repeats is a matter of the document.          *)
LEMMA SameCosts == doc' = doc => UNCHANGED <<ClerkCost, ClerkRepeats>>
BY DEF ClerkCost, ClerkRepeats, Bound, Repeats

(* A step that moves no approval and no verdict leaves the book alone.     *)
LEMMA BookKept ==
    ASSUME doc' = doc, Stored' = Stored, ApprovedByPipeline' = ApprovedByPipeline,
           \A s \in Stored : doc[s].readable =>
              runs'[s].automated_decision = runs[s].automated_decision
    PROVE  ClerkBook' = ClerkBook
<1>1. \A s \in Stored : ClerkEntry(s)' = ClerkEntry(s)
  BY DEF ClerkEntry
<1> QED
  BY <1>1 DEF ClerkBook

(* A ruling, an override or a walk that moves one run touches one entry.   *)
LEMMA OneMoved ==
    ASSUME RecordInv, RecordInv', ClerkInv, [Next]_vars, NoneAdded, doc' = doc,
           NEW s \in Stored, Stored' = Stored,
           \A t \in Stored \ {s} : runs'[t] = runs[t]
    PROVE  [Clerk!ClerkNext]_<<ClerkCost, ClerkRepeats, ClerkBook>>
<1>1. \A t \in Stored : doc[t].readable =>
         runs'[t].automated_decision = runs[t].automated_decision
  <2> SUFFICES ASSUME NEW t \in Stored, doc[t].readable
               PROVE  runs'[t].automated_decision = runs[t].automated_decision
    OBVIOUS
  <2>1. t \in Submissions /\ runs'[t] # None /\ runs[t].automated_decision # None
    BY DEF ClerkInv, RowReady, Stored
  <2> QED
    BY <2>1, RowStep DEF KeepsDecisions
<1>2. UNCHANGED <<ClerkCost, ClerkRepeats>>
  BY SameCosts
<1>3. \A t \in Submissions \ {s} : t \in ApprovedByPipeline' <=> t \in ApprovedByPipeline
  BY DEF ApprovedByPipeline, ApprovedRuns
<1>4. CASE s \in ApprovedByPipeline' \/ s \notin ApprovedByPipeline
  <2>1. s \in ApprovedByPipeline' <=> s \in ApprovedByPipeline
    BY <1>4 DEF NoneAdded
  <2>2. ApprovedByPipeline' = ApprovedByPipeline
    BY <1>3, <2>1 DEF ApprovedByPipeline, ApprovedRuns, Stored
  <2> QED
    BY <1>1, <1>2, <2>2, BookKept
<1>5. CASE s \in ApprovedByPipeline /\ s \notin ApprovedByPipeline'
  <2>1. s \in Clerk!Granted /\ s \in Submissions
    BY <1>5, BookRead DEF Stored
  <2>2. ClerkBook' = [ClerkBook EXCEPT ![s].approved = FALSE]
    <3>1. \A t \in Stored \ {s} : ClerkEntry(t)' = ClerkEntry(t)
      BY <1>1, <1>3 DEF ClerkEntry, Stored
    <3>2. ClerkEntry(s)' = [ClerkEntry(s) EXCEPT !.approved = FALSE]
      <4> DEFINE verdict == IF doc[s].readable THEN runs[s].automated_decision ELSE "UNREAD"
      <4>1. ClerkEntry(s) = [verdict |-> verdict, approved |-> s \in ApprovedByPipeline]
        BY DEF ClerkEntry
      <4>2. ClerkEntry(s)' = [verdict |-> verdict', approved |-> s \in ApprovedByPipeline']
        BY DEF ClerkEntry
      <4>3. verdict' = verdict
        BY <1>1
      <4> HIDE DEF verdict
      <4>4. (s \in ApprovedByPipeline) = TRUE /\ (s \in ApprovedByPipeline') = FALSE
        BY <1>5, SMT
      <4>5. ClerkEntry(s)' = [verdict |-> verdict, approved |-> FALSE]
        BY <4>2, <4>3, <4>4, Zenon
      <4>6. [[verdict |-> verdict, approved |-> s \in ApprovedByPipeline] EXCEPT !.approved = FALSE]
                = [verdict |-> verdict, approved |-> FALSE]
        BY EntryFields
      <4>7. [ClerkEntry(s) EXCEPT !.approved = FALSE] = [verdict |-> verdict, approved |-> FALSE]
        BY <4>1, <4>6, Zenon
      <4> QED
        BY <4>5, <4>7, Zenon
    <3> QED
      BY <3>1, <3>2 DEF ClerkBook
  <2> QED
    BY <1>2, <2>1, <2>2 DEF Clerk!ClerkNext, Clerk!ClerkStep, Clerk!Touch
<1> QED
  BY <1>4, <1>5

(* A run that joins the others is filed, if the clerk may file it.         *)
LEMMA OneFiled ==
    ASSUME RecordInv, ClerkInv, doc' = doc,
           NEW s \in Submissions \ Stored, NEW verdict \in Clerk!Verdicts,
           Stored' = Stored \cup {s}, \A t \in Stored : runs'[t] = runs[t],
           (IF doc[s].readable THEN runs'[s].automated_decision ELSE "UNREAD") = verdict,
           s \in ApprovedByPipeline' <=> verdict = "APPROVED",
           verdict # "REJECTED" =>
              \A t \in Stored : Repeats(doc[s], doc[t])
                                   => runs[t].automated_decision = "REJECTED",
           verdict = "APPROVED" =>
              \E p \in POs :
                 /\ {q \in POs : ClerkCost[s][q] > 0} = {p}
                 /\ Clerk!Spent(ApprovedByPipeline \cup {s}, p) <= ClerkBudget[p]
    PROVE  Clerk!ClerkNext
<1>1. UNCHANGED <<ClerkCost, ClerkRepeats>>
  BY SameCosts
<1>2. Clerk!OnFile = Stored /\ Clerk!Granted = ApprovedByPipeline
  BY BookRead
<1>3. ClerkBook' = [ClerkBook EXCEPT
                       ![s] = [verdict |-> verdict, approved |-> verdict = "APPROVED"]]
  <2>1. \A t \in Stored : ClerkEntry(t)' = ClerkEntry(t)
    <3>1. \A t \in Stored : t \in ApprovedByPipeline' <=> t \in ApprovedByPipeline
      BY DEF ApprovedByPipeline, ApprovedRuns
    <3> QED
      BY <3>1 DEF ClerkEntry
  <2>2. ClerkEntry(s)' = [verdict |-> verdict, approved |-> verdict = "APPROVED"]
    BY DEF ClerkEntry
  <2> QED
    BY <2>1, <2>2 DEF ClerkBook
<1>4. verdict # "REJECTED" =>
         \A t \in ClerkRepeats[s] \cap Stored : ClerkBook[t].verdict = "REJECTED"
  <2> SUFFICES ASSUME verdict # "REJECTED", NEW t \in ClerkRepeats[s] \cap Stored
               PROVE  ClerkBook[t].verdict = "REJECTED"
    OBVIOUS
  <2>1. t \in Submissions /\ Repeats(doc[s], doc[t])
    BY DEF ClerkRepeats, Stored
  <2>2. doc[t].readable
    BY <2>1, LedgerAssumption DEF Repeats, RecordInv, TypeOK
  <2>3. runs[t].automated_decision = "REJECTED"
    BY <2>1
  <2> QED
    BY <2>1, <2>2, <2>3 DEF ClerkBook, ClerkEntry
<1>5. Clerk!File(s, verdict)
  BY <1>2, <1>3, <1>4 DEF Clerk!File
<1> QED
  BY <1>1, <1>5 DEF Clerk!ClerkNext, Clerk!ClerkStep

(* What the clerk counts against an order is what the runs are charged.    *)
LEMMA SpentIsCharged ==
    ASSUME ClerkInv', doc' = doc, NEW p \in POs
    PROVE  Clerk!Spent(ApprovedByPipeline', p) = Charged(ApprovedByPipeline, p)'
<1>1. \A s \in ApprovedByPipeline' : runs'[s].alloc = ClerkCost[s]
  BY DEF ClerkInv, RowReady, ApprovedByPipeline, ApprovedRuns, Stored, ClerkCost, Bound
<1>2. {u \in ApprovedByPipeline' \X (1..MaxCharge) : u[2] <= ClerkCost[u[1]][p]}
          = UnitsCharged(ApprovedByPipeline, p)'
  BY <1>1 DEF UnitsCharged
<1>3. \A S : Clerk!Cardinality(S) = Cardinality(S)
  BY DEF Clerk!Cardinality, Cardinality
<1> QED
  BY <1>2, <1>3 DEF Clerk!Spent, Charged

(* A file nobody could open is filed unread.                               *)
LEMMA AbortFiles ==
    ASSUME RecordInv, RecordInv', ClerkInv, NEW s \in Submissions, AbortUnreadable(s)
    PROVE  Clerk!ClerkNext
<1>1. /\ runs[s] = None /\ ~doc[s].readable /\ doc' = doc
      /\ \A t \in Submissions \ {s} : runs'[t] = runs[t]
      /\ runs'[s] = NewRun("NEEDS_REVIEW", None, {"substantive"}, NoDraft.alloc)
  BY DEF AbortUnreadable, RecordInv, TypeOK, StoredIsDone, Stored
<1>2. runs'[s] \in Run /\ runs'[s].status = "NEEDS_REVIEW"
  <2>1. NoDraft.alloc \in Allocation /\ {"substantive"} \in SUBSET Reasons
    BY NoDraftType DEF Draft, Reasons, Blockers
  <2>2. NewRun("NEEDS_REVIEW", None, {"substantive"}, NoDraft.alloc) \in Run
    BY <2>1, NewRunType DEF RecordInv, TypeOK, Statuses
  <2> QED
    BY <1>1, <2>2 DEF NewRun
<1>3. s \notin Stored /\ Stored' = Stored \cup {s} /\ \A t \in Stored : runs'[t] = runs[t]
  BY <1>1, <1>2, LedgerAssumption DEF Stored
<1>4. s \notin ApprovedByPipeline'
  BY <1>2 DEF ApprovedByPipeline, ApprovedRuns
<1>5. \A t : ~Repeats(doc[s], doc[t])
  BY <1>1, LedgerAssumption DEF Repeats, RecordInv, TypeOK
<1>6. "UNREAD" \in Clerk!Verdicts
  BY DEF Clerk!Verdicts
<1> QED
  BY <1>1, <1>3, <1>4, <1>5, <1>6, OneFiled

(* What commits is filed with the verdict it was given long before.        *)
LEMMA InsertFiles ==
    ASSUME RecordInv, ClerkInv, ClerkInv', IdentityInv, PipelineWithinBudget',
           NEW s \in Submissions, InsertRun(s)
    PROVE  Clerk!ClerkNext
<1> DEFINE verdict == draft[s].verdict
<1>1. /\ runs[s] = None /\ doc' = doc /\ pc[s] = "checked"
      /\ \A t \in Submissions \ {s} : runs'[t] = runs[t]
      /\ runs'[s] = NewRun(verdict, verdict, draft[s].reasons, draft[s].alloc)
  BY DEF InsertRun, RecordInv, TypeOK, StoredIsDone, Stored
<1>2. runs'[s] \in Run /\ verdict \in Statuses
  BY <1>1, NewRunType DEF RecordInv, TypeOK, Draft
<1>3. /\ runs'[s].status = verdict /\ runs'[s].automated_decision = verdict
      /\ runs'[s].event = "PROCESSING_COMPLETED"
  BY <1>1 DEF NewRun
<1>4. s \notin Stored /\ Stored' = Stored \cup {s} /\ \A t \in Stored : runs'[t] = runs[t]
  BY <1>1, <1>2, LedgerAssumption DEF Stored
<1>5. doc[s].readable /\ (verdict = "APPROVED" => OneOrder(doc[s]))
  BY <1>1 DEF ClerkInv, DraftReady
<1> HIDE DEF verdict
<1>6. s \in ApprovedByPipeline' <=> verdict = "APPROVED"
  BY <1>3, <1>4 DEF ApprovedByPipeline, ApprovedRuns
<1>7. ASSUME verdict # "REJECTED", NEW t \in Stored, Repeats(doc[s], doc[t])
      PROVE  runs[t].automated_decision = "REJECTED"
  BY <1>1, <1>7 DEF IdentityInv, NoRepeatPending, InTransaction, verdict
<1>8. ASSUME verdict = "APPROVED"
      PROVE  \E p \in POs :
                /\ {q \in POs : ClerkCost[s][q] > 0} = {p}
                /\ Clerk!Spent(ApprovedByPipeline \cup {s}, p) <= ClerkBudget[p]
  <2>1. PICK p \in POs : doc[s] \in Document /\ p = doc[s].primary /\ doc[s].secondary = None
    BY <1>5, <1>8, LedgerAssumption DEF OneOrder, IsMulti, RecordInv, TypeOK, Document
  <2>2. ClerkCost[s] = [q \in POs |-> IF q = p THEN doc[s].converted ELSE 0]
    BY <2>1, LedgerAssumption DEF ClerkCost, Bound
  <2>3. {q \in POs : ClerkCost[s][q] > 0} = {p}
    BY <2>1, <2>2 DEF Document
  <2>4. ApprovedByPipeline' = ApprovedByPipeline \cup {s}
    BY <1>4, <1>6, <1>8 DEF ApprovedByPipeline, ApprovedRuns
  <2>5. Charged(ApprovedByPipeline, p)' <= ClerkBudget[p]
    BY <2>1 DEF PipelineWithinBudget, ClerkBudget
  <2>6. Clerk!Spent(ApprovedByPipeline', p) <= ClerkBudget[p]
    BY <1>1, <2>1, <2>5, SpentIsCharged
  <2> QED
    BY <2>1, <2>3, <2>4, <2>6
<1>9. verdict \in Clerk!Verdicts
  BY <1>2 DEF Clerk!Verdicts, Statuses
<1> QED
  BY <1>1, <1>3, <1>4, <1>5, <1>6, <1>7, <1>8, <1>9, OneFiled

(* A request moves one run at a time.                                      *)
LEMMA OneRowMoves ==
    ASSUME TypeOK, NEW r \in Requests, WalkQueue(r) \/ Rule(r)
    PROVE  \/ runs' = runs
           \/ \E s \in Stored : runs'[s] \in Run /\ \A t \in Submissions \ {s} : runs'[t] = runs[t]
<1>1. ASSUME NEW s \in Submissions, NEW decision \in Decisions, Review(r, s, decision)
      PROVE  s \in Stored /\ runs'[s] \in Run /\ \A t \in Submissions \ {s} : runs'[t] = runs[t]
  <2> DEFINE moved == apply_status_transition(runs[s], Outcome(decision), decision)
  <2>1. s \in Stored /\ runs[s] \in Run
    BY <1>1 DEF Review, Stored, TypeOK
  <2>2. moved \in Run
    BY <2>1, TransitionType DEF Outcome, Statuses, Events
  <2>3. runs' = [runs EXCEPT ![s] = [moved EXCEPT !.human_decision = decision,
                                                 !.final_decision = HumanOutcome(decision)]]
    BY <1>1 DEF Review
  <2> HIDE DEF moved
  <2>4. HumanOutcome(decision) \in {"HUMAN_APPROVED", "HUMAN_REJECTED"}
    BY DEF HumanOutcome
  <2> QED
    BY <2>1, <2>2, <2>3, <2>4 DEF Run, TypeOK
<1>2. ASSUME NEW s \in Submissions, NEW new \in Statuses, set_run_status(r, s, new)
      PROVE  s \in Stored /\ runs'[s] \in Run /\ \A t \in Submissions \ {s} : runs'[t] = runs[t]
  <2>1. /\ s \in Stored /\ runs[s] \in Run
        /\ runs' = [runs EXCEPT ![s] = apply_status_transition(runs[s], new, "STATUS_OVERRIDDEN")]
    BY <1>2 DEF set_run_status, Stored, TypeOK
  <2> QED
    BY <2>1, TransitionType DEF Events, TypeOK
<1>3. ASSUME ApplyApproval(r), runs' # runs
      PROVE  \E s \in Stored : runs'[s] \in Run /\ \A t \in Submissions \ {s} : runs'[t] = runs[t]
  <2>1. PICK s \in Stored : runs' = [runs EXCEPT ![s] =
                                       apply_status_transition(@, "APPROVED", "AUTO_APPROVED")]
    BY <1>3 DEF ApplyApproval
  <2>2. s \in Submissions /\ runs[s] \in Run
    BY StoredRun
  <2> QED
    BY <2>1, <2>2, TransitionType DEF Events, Statuses, TypeOK
<1>4. ListQueue(r) \/ CheckHead(r) => runs' = runs
  BY DEF ListQueue, CheckHead
<1> QED
  BY <1>1, <1>2, <1>3, <1>4 DEF WalkQueue, Rule

(* Every other step moves one entry, or none, or shreds the book.          *)
LEMMA OthersMap ==
    ASSUME RecordInv, RecordInv', ClerkInv, [Next]_vars,
           \A s \in Submissions : ~AbortUnreadable(s) /\ ~InsertRun(s)
    PROVE  [Clerk!ClerkNext]_<<ClerkCost, ClerkRepeats, ClerkBook>>
<1>0. TypeOK
  BY DEF RecordInv
<1>1. ASSUME UNCHANGED <<doc, runs>>
      PROVE  UNCHANGED <<ClerkCost, ClerkRepeats, ClerkBook>>
  BY <1>1, SameCosts, BookKept DEF Stored, ApprovedByPipeline, ApprovedRuns
<1>2. ASSUME NEW s \in Submissions, Pipeline(s)
      PROVE  UNCHANGED <<doc, runs>>
  BY <1>2 DEF Pipeline, Match, Decide, RecheckDuplicate, RecheckBalance
<1>3. ASSUME NEW r \in Requests, WalkQueue(r) \/ Rule(r)
      PROVE  [Clerk!ClerkNext]_<<ClerkCost, ClerkRepeats, ClerkBook>>
  <2>1. doc' = doc
    BY <1>3 DEF WalkQueue, Rule, ListQueue, CheckHead, ApplyApproval, Review, set_run_status
  <2>2. NoneAdded
    BY <1>0, <1>3, RulingsShrink DEF Shrinks
  <2>3. CASE runs' = runs
    BY <1>1, <2>1, <2>3
  <2>4. CASE runs' # runs
    <3>1. PICK s \in Stored : runs'[s] \in Run /\ \A t \in Submissions \ {s} : runs'[t] = runs[t]
      BY <1>0, <1>3, <2>4, OneRowMoves
    <3>2. Stored' = Stored /\ \A t \in Stored \ {s} : runs'[t] = runs[t]
      BY <3>1, LedgerAssumption DEF Stored
    <3> QED
      BY <2>1, <2>2, <3>2, OneMoved
  <2> QED
    BY <2>3, <2>4
<1>4. CASE Restart
  <2>1. doc' = doc /\ \A s \in Submissions :
           runs'[s] = IF s \in Stored THEN Backfilled(runs[s]) ELSE None
    BY <1>4 DEF Restart
  <2>2. \A s \in Stored : /\ Backfilled(runs[s]) \in Run
                          /\ Backfilled(runs[s]).status = runs[s].status
                          /\ Backfilled(runs[s]).event = runs[s].event
                          /\ runs[s].automated_decision # None =>
                                Backfilled(runs[s]).automated_decision
                                    = runs[s].automated_decision
    BY <1>0, StoredRun, BackfilledKeeps
  <2>3. Stored' = Stored
    BY <2>1, <2>2, LedgerAssumption DEF Stored
  <2>4. ApprovedByPipeline' = ApprovedByPipeline
    BY <2>1, <2>2, <2>3 DEF ApprovedByPipeline, ApprovedRuns, Stored
  <2>5. \A s \in Stored : doc[s].readable =>
           runs'[s].automated_decision = runs[s].automated_decision
    BY <2>1, <2>2 DEF ClerkInv, RowReady, Stored
  <2> QED
    BY <2>1, <2>3, <2>4, <2>5, BookKept, SameCosts
<1>5. CASE clear_run_history
  <2>1. doc' = doc /\ Stored' = {}
    BY <1>5 DEF clear_run_history, Stored
  <2>2. ClerkBook' = [s \in Submissions |-> None]
    BY <2>1 DEF ClerkBook
  <2> QED
    BY <2>1, <2>2, SameCosts DEF Clerk!ClerkNext, Clerk!ClerkStep, Clerk!Shred
<1> QED
  BY <1>1, <1>2, <1>3, <1>4, <1>5 DEF Next, vars

(* The clerk starts with an empty book.                                    *)
LEMMA ClerkStarts == Init => Clerk!ClerkInit
<1> SUFFICES ASSUME Init PROVE Clerk!ClerkInit
  OBVIOUS
<1>1. \A s \in Submissions : doc[s] \in Document
  BY LedgerAssumption DEF Init
<1>2. ClerkCost \in [Submissions -> [POs -> 0..MaxCharge]]
  BY <1>1, LedgerAssumption DEF ClerkCost, Document
<1>3. ClerkRepeats \in [Submissions -> SUBSET Submissions]
  BY DEF ClerkRepeats
<1>4. ClerkBook = [s \in Submissions |-> None]
  BY DEF Init, ClerkBook, Stored
<1> QED
  BY <1>2, <1>3, <1>4 DEF Clerk!ClerkInit

(* The ledger implements the clerk: a verdict reached outside any          *)
(* transaction is right at the instant it commits, whatever other          *)
(* submissions, people, walks and restarts did meanwhile.                  *)
THEOREM LedgerImplementsClerk == Spec => ImplementsClerk
<1>1. RecordInv /\ RecordInv' /\ ClerkInv /\ ClerkInv' /\ IdentityInv /\ PipelineWithinBudget'
        /\ [Next]_vars => [Clerk!ClerkNext]_<<ClerkCost, ClerkRepeats, ClerkBook>>
  BY AbortFiles, InsertFiles, OthersMap
<1> QED
  BY <1>1, ClerkStarts, RecordInit, RecordNext, ClerkInvInit, ClerkInvNext, IdentityInvariant,
     PipelineNeverOverspends, PTL DEF Spec, ImplementsClerk, Clerk!ClerkSpec
=============================================================================
