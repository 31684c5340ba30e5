-------------------------------- MODULE Mail --------------------------------
(* The mail side: ingestion, the Gmail cursor and the Gmail grant.  They   *)
(* share no state, so their interleavings are not explored: each behaviour *)
(* has one of them at work.                                                *)
EXTENDS EmailIngest

CONSTANTS Pollers, LastDate, Overlap, PageCap, Batch, MaxSlips,
          States, Threads, NoGrant, MaxFailures

VARIABLES focus,
          arrived, stored, cursor, batch, at, cut, slipped, slips,
          live, disowned, pending, callback, exchanges, row, thread, leaving, crossed, failures

C == INSTANCE GmailCursor
G == INSTANCE GmailGrant

ASSUME CursorConstants == C!CursorAssumption
ASSUME GrantConstants  == G!GrantAssumption

cursorVars == <<arrived, stored, cursor, batch, at, cut, slipped, slips>>
grantVars  == <<live, disowned, pending, callback, exchanges, row, thread, leaving, crossed,
                failures>>

MailInit ==
    /\ focus \in {"ingest", "cursor", "grant"}
    /\ Init /\ C!Init /\ G!Init
    /\ focus # "ingest" => \A m \in Messages : nature[m] = "VERIFIED"

InIngest(A) == focus = "ingest" /\ A /\ UNCHANGED <<focus, cursorVars, grantVars>>
InCursor(A) == focus = "cursor" /\ A /\ UNCHANGED <<focus, vars, grantVars>>
InGrant(A)  == focus = "grant"  /\ A /\ UNCHANGED <<focus, vars, cursorVars>>

MailNext == InIngest(Next) \/ InCursor(C!Next) \/ InGrant(G!Next)

(* The fairness of EmailIngest, in the behaviours that are about it.       *)
MailFairness == \A w \in Passes :
    /\ WF_<<focus, vars>>(InIngest(Ingesting(w)))
    /\ WF_<<focus, vars>>(InIngest(process_message_attachments(w)))

MailSpec == MailInit /\ [][MailNext]_<<focus, vars, cursorVars, grantVars>> /\ MailFairness

-----------------------------------------------------------------------------
(* The types of the three: the tables, and how far each thread has got.    *)
MailTypes == TypeOK /\ C!TypeOK /\ G!TypeOK

(* EmailIngest: what the provider offers gets on file, so that a message   *)
(* is never lost between a poll, a failure and the next poll.              *)
OfferedGetsOnFile == focus = "ingest" => EveryMessageGetsOnFile

(* EmailIngest and GmailCursor: neither the mark on a message nor the      *)
(* cursor leaves anything behind that is not on file, unless a step of its *)
(* own failed or a page limit cut it off.                                  *)
NothingPassedBy == HandledIsOnFile /\ C!PassedIsOnFile

(* GmailGrant: the tokens on file belong together, and a mailbox shown as  *)
(* revoked is one whose own grant ended or could not be renewed for good,  *)
(* unless it was connected under a renewal of the one before.              *)
GrantIsWhole == G!TokensOfOneGrant /\ G!RevokedForGood

(* GmailGrant: a disconnected mailbox stays disconnected.                  *)
DisconnectedStays == G!DisconnectedStays
=============================================================================
