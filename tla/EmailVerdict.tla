----------------------------- MODULE EmailVerdict -----------------------------
(***************************************************************************)
(* What the system makes of one message: email_triage.py's cheap signals,  *)
(* email_security.py's verdict on who sent it, and the rows it leaves when *)
(* it is submitted, perhaps twice at once, and polled.                     *)
(***************************************************************************)
EXTENDS Integers, Sequences, SequencesExt

CONSTANTS
    Mail,            \* the messages there may be
    Requests,        \* submissions of the message
    TrustedServers,  \* email_trusted_authserv_ids
    Organisation,    \* the registrable domain of each domain
    StrictDkim,      \* domains whose DMARC record asks for exact alignment of DKIM
    StrictSpf,       \* and of SPF
    SenderLists,     \* trusted_email_senders, as each startup may load it
    None

(* Signatures and results stand in the order of their headers, and a list  *)
(* of senders in its own.                                                  *)
MailAssumption ==
    /\ \A m \in Mail : /\ m.signatures \in Seq(ToSet(m.signatures))
                      /\ m.results \in Seq(ToSet(m.results))
    /\ \A list \in SenderLists : list \in Seq(ToSet(list))

VARIABLES message, senders, request, rows
(* rows: what is on file, oldest first, with the list it was judged by.    *)

vars == <<message, senders, request, rows>>

-----------------------------------------------------------------------------
(* Triage: what kind of sender, on whose list, and is there a PDF.         *)

Covers(entry, m) ==
    \/ entry.kind = "address" /\ entry.sender = m.address
    \/ /\ entry.kind = "domain" /\ m.domain # None
       /\ Organisation[entry.sender] = Organisation[m.domain]

(* The first entry that names the sender decides, refusals included.       *)
classify_sender(m, list) ==
    LET naming == {i \in DOMAIN list : Covers(list[i], m)}
    IN  IF naming = {} THEN "UNKNOWN"
        ELSE IF list[Min(naming)].status = "trusted" THEN "TRUSTED" ELSE "UNTRUSTED"

assess_relevance(m, trust) ==
    IF m.pdf THEN IF trust = "TRUSTED" \/ m.subject THEN "HIGH" ELSE "POSSIBLE"
    ELSE IF m.subject THEN "LOW" ELSE "IRRELEVANT"

triage(m, list) == assess_relevance(m, classify_sender(m, list)) \in {"HIGH", "POSSIBLE"}

-----------------------------------------------------------------------------
(* The evidence.  A result is a state and the domain it speaks for.        *)

StateOf(word) ==
    IF word = "pass" THEN "pass"
    ELSE IF word \in {"fail", "softfail", "policy"} THEN "fail" ELSE "unavailable"

(* One signature: what cannot be checked has not failed.                   *)
verify_dkim(s) ==
    IF ~s.supported THEN "unavailable"
    ELSE IF s.expired \/ ~s.intact \/ s.key = "revoked" THEN "fail"
    ELSE IF s.key = "missing" THEN "unavailable"
    ELSE IF s.verifies THEN "pass" ELSE "fail"

(* The headers to believe, by their places in the message.                 *)
(* Mutant of collect_authentication_results: whoever stamped them.         *)
collect_all_results(m) == DOMAIN m.results

collect_authentication_results(m) ==
    {i \in DOMAIN m.results : m.results[i].server \in TrustedServers}

Saying(m, mechanism) ==
    {i \in collect_authentication_results(m) : mechanism \in DOMAIN m.results[i].says}

(* What the topmost believed header that mentions a mechanism says of it.  *)
Relayed(m, mechanism) ==
    IF Saying(m, mechanism) = {} THEN [state |-> "unsaid", domain |-> None]
    ELSE LET said == m.results[Min(Saying(m, mechanism))].says[mechanism]
         IN  [state |-> StateOf(said.word), domain |-> said.domain]

Local(m) ==
    [i \in DOMAIN m.signatures |->
        [state |-> verify_dkim(m.signatures[i]), domain |-> m.signatures[i].domain]]

LocallyIn(m, state) == {i \in DOMAIN m.signatures : verify_dkim(m.signatures[i]) = state}

spf(m) ==
    LET said == Relayed(m, "spf")
    IN  [state  |-> IF said.state = "unsaid" THEN "unavailable" ELSE said.state,
         domain |-> IF said.domain = None THEN m.envelope ELSE said.domain]

(* The arithmetic done here outranks a relayed claim about it.             *)
dkim(m) ==
    IF LocallyIn(m, "pass") # {} THEN Local(m)[Min(LocallyIn(m, "pass"))]
    ELSE IF LocallyIn(m, "fail") # {} THEN Local(m)[Min(LocallyIn(m, "fail"))]
    ELSE IF Relayed(m, "dkim").state # "unsaid" THEN Relayed(m, "dkim")
    ELSE IF m.signatures # <<>> THEN Local(m)[1]
    ELSE [state |-> "unavailable", domain |-> None]

alignment(from, auth, strict) ==
    /\ from # None /\ auth # None
    /\ IF from \in strict THEN from = auth ELSE Organisation[from] = Organisation[auth]

Aligned(m) ==
    \/ dkim(m).state = "pass" /\ alignment(m.domain, dkim(m).domain, StrictDkim)
    \/ spf(m).state = "pass" /\ alignment(m.domain, spf(m).domain, StrictSpf)

LocalDmarc(m) ==
    IF Aligned(m) THEN "pass"
    ELSE IF \E r \in {dkim(m), spf(m)} : r.state # "unavailable" THEN "fail"
    ELSE "unavailable"

dmarc(m) ==
    IF LocalDmarc(m) = "unavailable" /\ Relayed(m, "dmarc").state # "unsaid"
    THEN Relayed(m, "dmarc").state ELSE LocalDmarc(m)

DmarcWords(m) == {m.results[i].says["dmarc"].word : i \in Saying(m, "dmarc")}

conflicts(m) ==
    \/ Relayed(m, "dkim").state = "fail" /\ LocallyIn(m, "pass") # {}
    \/ Relayed(m, "dkim").state = "pass" /\ LocallyIn(m, "fail") # {} /\ LocallyIn(m, "pass") = {}
    \/ \E a, b \in DmarcWords(m) : a # b
    \/ Relayed(m, "dmarc").state \notin {"unsaid", LocalDmarc(m)} /\ LocalDmarc(m) # "unavailable"

_trusted_sender_match(m, list) == \E e \in ToSet(list) : e.status = "trusted" /\ Covers(e, m)

structural_spoof(m) == m.froms # 1 \/ m.domain = None

classify(m, list) ==
    IF structural_spoof(m) \/ "fail" \in {dmarc(m), dkim(m).state, spf(m).state} THEN "FAILED"
    ELSE IF conflicts(m) THEN "SUSPICIOUS"
    ELSE IF dmarc(m) # "pass" THEN "UNVERIFIED"
    ELSE IF list # <<>> /\ ~_trusted_sender_match(m, list) THEN "SUSPICIOUS"
    ELSE "VERIFIED"

-----------------------------------------------------------------------------
Unjudged == [pc |-> "idle", verdict |-> None, list |-> <<>>]

Init ==
    /\ message \in Mail
    /\ senders \in SenderLists
    /\ request = [r \in Requests |-> Unjudged]
    /\ rows = <<>>

Status(verdict) == IF verdict = "VERIFIED" THEN "ADMITTED" ELSE "QUARANTINED"

Row(source, verdict, list) ==
    [source |-> source, classification |-> verdict, status |-> Status(verdict), list |-> list]

submit_email_message(r) ==
    /\ request[r].pc = "idle"
    /\ request' = [request EXCEPT ![r] =
          [pc |-> "look", verdict |-> classify(message, senders), list |-> senders]]
    /\ UNCHANGED <<message, senders, rows>>

find_email_by_sha256(r) ==
    /\ request[r].pc = "look"
    /\ request' = [request EXCEPT ![r].pc = IF rows = <<>> THEN "save" ELSE "done"]
    /\ UNCHANGED <<message, senders, rows>>

save_email_message(r) ==
    /\ request[r].pc = "save"
    /\ rows' = Append(rows, Row("SUBMITTED", request[r].verdict, request[r].list))
    /\ request' = [request EXCEPT ![r].pc = "done"]
    /\ UNCHANGED <<message, senders>>

(* The poller: once, by the provider's identifier, whatever was submitted. *)
ingest_message ==
    /\ \A i \in DOMAIN rows : rows[i].source # "POLLED"
    /\ LET verdict == IF triage(message, senders) THEN classify(message, senders) ELSE "UNVERIFIED"
       IN  rows' = Append(rows, Row("POLLED", verdict, senders))
    /\ UNCHANGED <<message, senders, request>>

(* The list is reference data: a process that starts loads it again.       *)
Restart ==
    /\ senders' \in SenderLists
    /\ request' = [r \in Requests |-> IF request[r].pc = "done" THEN request[r] ELSE Unjudged]
    /\ UNCHANGED <<message, rows>>

Next ==
    \/ \E r \in Requests : submit_email_message(r) \/ find_email_by_sha256(r) \/ save_email_message(r)
    \/ ingest_message
    \/ Restart

Spec == Init /\ [][Next]_vars
-----------------------------------------------------------------------------
TypeOK ==
    /\ message \in Mail /\ senders \in SenderLists
    /\ \A r \in Requests : request[r].pc \in {"idle", "look", "save", "done"}
    /\ \A i \in DOMAIN rows :
          rows[i].classification \in {"VERIFIED", "UNVERIFIED", "SUSPICIOUS", "FAILED"}

(* email_security.py, classify: VERIFIED takes evidence this process is    *)
(* entitled to believe.  Behind every admission there is one From, a       *)
(* signature that verifies here for the From's organisation or a passing   *)
(* result that a server of ours stamped, no such server that says DMARC    *)
(* failed, no broken signature without a good one, and a sender that the   *)
(* list in force names, when there is a list.                              *)
AdmittedIsAttributed ==
    \A i \in DOMAIN rows : rows[i].status = "ADMITTED" =>
        LET own == {m \in ToSet(message.results) : m.server \in TrustedServers}
            good == {s \in ToSet(message.signatures) : verify_dkim(s) = "pass"}
        IN  /\ message.froms = 1
            /\ \/ \E s \in good : Organisation[s.domain] = Organisation[message.domain]
               \/ \E h \in own : \E k \in DOMAIN h.says : h.says[k].word = "pass"
            /\ \A h \in own : "dmarc" \in DOMAIN h.says => StateOf(h.says["dmarc"].word) # "fail"
            /\ good # {} \/ \A s \in ToSet(message.signatures) : verify_dkim(s) # "fail"
            /\ \/ rows[i].list = <<>>
               \/ \E e \in ToSet(rows[i].list) : e.status = "trusted" /\ Covers(e, message)
=============================================================================
