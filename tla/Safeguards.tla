------------------------------ MODULE Safeguards ------------------------------
(***************************************************************************)
(* The parts around the ledger that share no state with it or with one     *)
(* another, each at work in the behaviours of its own: the daily budget,   *)
(* the rate limiter, rejection notices, stored documents, the connection   *)
(* pool, the client portal, field extraction, the verdict and its trail,   *)
(* and the verdict on a message.                                           *)
(***************************************************************************)
EXTENDS DailyQuota, Sequences, FiniteSets

CONSTANTS
    Requests, None,
    WindowKeys, Asks, Ceiling, Window, MaxKeys, LastTime,             \* SlidingWindow
    MaxUpsets, MaxSends,                                              \* RejectionNotices
    Keys, Readers,                                                    \* DocumentCopies
    MaxOut, Patience,                                                 \* ConnectionPool
    Users, Clients, VendorRows, Ids, Names, MaxRuns, MaxEdits,        \* ClientPortal
    StartingAccounts,
    TextModels, VisionModels, TextBudget, VisionBudget,               \* Extraction
    LastDocument, Readings,
    Invoices, Orders, VendorList, Rates, Divisor, Floor, Slack,       \* InvoiceVerdict
    Mail, TrustedServers, Organisation, StrictDkim, StrictSpf, SenderLists           \* EmailVerdict

VARIABLES focus,
    now, hits, known, asker, granted, newest, late,                   \* SlidingWindow
    rejected, recorded, sender, unasked, asked, overlaps, upsets,     \* RejectionNotices
    saving, runs, durable, bytes, wiped, rows, doomed, reading, spoilt,     \* DocumentCopies
    current, named, made, closed, unmade, free, out, caller, lost, misses,  \* ConnectionPool
    idOf, nameOf, account, token, filed, page, edits,                 \* ClientPortal
    keys, spent, blinks, calls, unbudgeted, documents, doc, at, tried, read, info,  \* Extraction
    invoice, match, failed, grounds, status,                          \* InvoiceVerdict
    message, senders, submission, mailbox                             \* EmailVerdict

windowVars  == <<now, hits, known, asker, granted, newest, late>>
noticeVars  == <<rejected, recorded, sender, unasked, asked, overlaps, upsets>>
copyVars    == <<saving, runs, durable, bytes, wiped, rows, doomed, reading, spoilt>>
poolVars    == <<current, named, made, closed, unmade, free, out, caller, lost, misses>>
portalVars  == <<idOf, nameOf, account, token, filed, page, edits>>
readerVars  == <<keys, spent, blinks, calls, unbudgeted, documents, doc, at, tried, read, info>>
verdictVars == <<invoice, match, failed, grounds, status>>
mailVars    == <<message, senders, submission, mailbox>>

-----------------------------------------------------------------------------
W == INSTANCE SlidingWindow WITH Keys <- WindowKeys, Limit <- Ceiling, request <- asker

N == INSTANCE RejectionNotices WITH request <- sender

D == INSTANCE DocumentCopies WITH faults <- spoilt

P == INSTANCE ConnectionPool WITH faults <- misses, NoPool <- None

C == INSTANCE ClientPortal WITH NoClient <- None, Unreadable <- None, runs <- filed

X == INSTANCE Extraction WITH faults <- blinks, asked <- calls

V == INSTANCE InvoiceVerdict WITH VendorRows <- VendorList

E == INSTANCE EmailVerdict WITH request <- submission, rows <- mailbox

ASSUME WindowConstants  == W!WindowAssumption
ASSUME NoticeConstants  == N!NoticeAssumption
ASSUME CopiesConstants  == D!CopiesAssumption
ASSUME PoolConstants    == P!PoolAssumption
ASSUME PortalConstants  == C!PortalAssumption
ASSUME ReaderConstants  == X!ExtractionAssumption
ASSUME VerdictConstants == V!VerdictAssumption
ASSUME MailConstants    == E!MailAssumption

-----------------------------------------------------------------------------
Parts == {"quota", "window", "notice", "copies", "pool", "portal", "reader", "verdict", "mail"}

(* A part that is not looked at rests in one of its initial states.        *)
SafeInit ==
    /\ focus \in Parts
    /\ Init /\ W!Init /\ N!Init /\ D!Init /\ P!Init /\ V!Init
    /\ focus # "copies" => durable
    /\ account \in StartingAccounts /\ C!Init
    /\ X!Init /\ (focus # "reader" => keys.groq /\ keys.gemini)
    /\ E!Init /\ (focus # "mail" => message = (CHOOSE m \in Mail : TRUE) /\ senders = <<>>)
    /\ focus # "portal" =>
          /\ idOf = CHOOSE f \in [VendorRows -> Ids] : TRUE
          /\ nameOf = CHOOSE f \in [VendorRows -> Names] : TRUE

At(part) ==
    /\ focus = part /\ UNCHANGED focus
    /\ IF part = "quota"   THEN TRUE ELSE UNCHANGED vars
    /\ IF part = "window"  THEN TRUE ELSE UNCHANGED windowVars
    /\ IF part = "notice"  THEN TRUE ELSE UNCHANGED noticeVars
    /\ IF part = "copies"  THEN TRUE ELSE UNCHANGED copyVars
    /\ IF part = "pool"    THEN TRUE ELSE UNCHANGED poolVars
    /\ IF part = "portal"  THEN TRUE ELSE UNCHANGED portalVars
    /\ IF part = "reader"  THEN TRUE ELSE UNCHANGED readerVars
    /\ IF part = "verdict" THEN TRUE ELSE UNCHANGED verdictVars
    /\ IF part = "mail"    THEN TRUE ELSE UNCHANGED mailVars

SafeNext ==
    \/ At("quota")   /\ Next
    \/ At("window")  /\ W!Next
    \/ At("notice")  /\ N!Next
    \/ At("copies")  /\ D!Next
    \/ At("pool")    /\ P!Next
    \/ At("portal")  /\ C!Next
    \/ At("reader")  /\ X!Next
    \/ At("verdict") /\ V!Next
    \/ At("mail")    /\ E!Next

safeVars == <<focus, vars, windowVars, noticeVars, copyVars, poolVars,
              portalVars, readerVars, verdictVars, mailVars>>

SafeSpec == SafeInit /\ [][SafeNext]_safeVars
-----------------------------------------------------------------------------
(* The types of all the parts: their tables, and how far each caller is.   *)
SafeTypes ==
    /\ TypeOK /\ W!TypeOK /\ N!TypeOK /\ D!TypeOK /\ P!TypeOK
    /\ C!TypeOK /\ X!TypeOK /\ V!TypeOK /\ E!TypeOK

(* SlidingWindow: no window sees more hits than the limit, unless a later  *)
(* request was checked by an earlier time.                                 *)
WindowHolds == W!WindowHolds

(* RejectionNotices: a second notice nobody asked for takes a race or an upset. *)
SecondNoticeTakesARace == N!SecondNoticeTakesARace

(* DocumentCopies: a row of a document names bytes that are there, but for *)
(* what a store that does not outlive a restart has lost.                  *)
RowHasItsBytes == D!RowHasItsBytes

(* ConnectionPool: a connection that is out is held, or known to be lost,  *)
(* and a pool is closed only where two first callers cross.                *)
OutIsHeld == P!OutIsHeld

(* ClientPortal: clients that share no vendor see no invoice in common.    *)
ClientsAreIsolated == C!ClientsAreIsolated

(* Extraction: no model is asked more often than was charged.              *)
EachAskIsCharged == X!EachAskIsCharged

(* InvoiceVerdict: the trail says why, and what is charged fits its orders. *)
VerdictStands == V!TrailExplainsVerdict /\ V!ChargesFit

(* EmailVerdict: what is admitted is attributed by evidence of our own.    *)
AdmittedIsAttributed == E!AdmittedIsAttributed
=============================================================================
