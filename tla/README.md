# Invoice Processing: formal model

TLA+ specifications of the back end of *Invoice Processing — PDF to Decision*
(`src/backend`, FastAPI over PostgreSQL; the screens are in
`src/frontend-next`). An uploaded or mailed invoice is read, matched to a
purchase order, judged, and recorded as a *run* that is APPROVED, NEEDS_REVIEW or
REJECTED. People rule on the held ones, administrators move any of them, and a
reversal releases held invoices that now fit. No balance is stored: what an
order has consumed is the sum of the allocations of the runs that are APPROVED
now, so every property of money is a property of how those rows change.

To run: `tlc -config LedgerIntake.cfg MCInvoiceLedger.tla`,
`tlapm InvoiceLedgerProofs.tla`, and so on; `PROJECT.json` lists every run with
its module, the code lines each definition stands for, the hazards with the
properties that are about them, and the theorems.

## 1. Inventory

| Part | State | Operations | What is hard | What makes it correct |
|---|---|---|---|---|
| Ledger (`storage.py`, `main.py`) | `runs`, `run_allocations`, `purchase_orders`, advisory and row locks | `run_pipeline`, `save_run_checked`, `record_human_review`, `set_run_status`, `reevaluate_po_queue`, `clear_run_history`, `init_db` | a verdict is reached outside any transaction and committed later; the cascade is many transactions | approvals stay within the order; a copy is never admitted; rulings are kept; a walk ends |
| Verdict (`rules.py`, `matching.py`) | none | `decide`, `match_po`, `split_across`, the checks | many checks in turn, each able to hold or reject | the trail agrees with the verdict; what is approved fits one open order |
| Review claims (`storage.py`) | `review_claims`, `runs` | claim, renew, release, rule, transition | the lease runs out while somebody works; the clock is read before the lock is had | one open claim; exclusive while the lease runs; history kept |
| Processing jobs (`jobs.py`, `storage.py`) | `processing_jobs`, thread pool | create, claim, complete, fail, abandon | double upload, a crash, a reset beneath a worker, failing database calls | no upload read twice at once; no orphan; a completed job has a run |
| Email ingestion (`email_ingest.py`, `storage.py`) | `email_messages`, `email_attachments`, held copies | claim, hold, release, discard, process, poll | concurrent passes, a crash between two transactions, retries | nothing held becomes a run; retries alone make no second run; nothing is lost |
| Email verification (`email_security.py`, `email_triage.py`) | `trusted_email_senders`, rows of submitted messages | `triage`, `classify`, submit, poll | evidence that contradicts itself, from servers nobody trusts | an admission rests on evidence of our own |
| Gmail provider (`email_provider.py`) | cursor | list, fetch, mark handled | page cap, overlap, failures | the cursor passes nothing unrecorded |
| OAuth connection (`oauth_google.py`, `storage.py`) | `email_oauth_connections`, pending states | authorise, callback, refresh, disconnect | late answers, reconnection | a token belongs to the grant it was issued under; a disconnected mailbox stays so |
| Field extraction (`extraction.py`) | the day's budgets | `extract_text`, routes, model chains, patterns, screen | fallbacks of fallbacks | a model is asked no more than was charged |
| Daily quota (`quota.py`) | `extraction_quota` | `try_consume` | first request of a day | the excess is bounded by its causes |
| Rate limits (`ratelimit.py`) | in-memory windows | `check`, `_evict` | times read before the lock, two keys | at most the limit in any window |
| Rejection notices (`notifications.py`) | activity rows | send | check, send and record are separate | no second notice unasked |
| Accounts (`auth.py`), portal (`portal.py`) | users file, client records, vendor rows | authenticate, scope, resolve, submit, list | a token outlives a change of account; names collide | current state decides; clients are isolated |
| Documents (`documents.py`, `main.py`) | files, `documents` | store, read, delete | bytes and row written apart; the default store may not outlive a restart | a row has its bytes, as far as the store lasts |
| Connection pool (`storage.py`) | pool | get with a deadline, return | made, named and closed without a lock; a failed SET | what is out of an open pool is held |
| Analytics, logs, export, chat | none | read-only | — | — |

The parts meet in the database. The pipeline runs in a worker thread of the job
pool, in the email poller, or under a streaming request; reviewers and
administrators run in request threads. Each uses its own connection, PostgreSQL
is at READ COMMITTED, and the only mutual exclusion between them is a row lock,
an advisory lock of one transaction, or a unique index. The models therefore
make an action of each transaction, and several of a transaction whose statements
can see other transactions commit in between.

## 2. Modules

| Module | What it models |
|---|---|
| `InvoiceLedger` | the ledger: pipeline, commit, rulings, cascade, reset, restart |
| `IntakeClerk` | abstract specification of intake: one clerk, one stroke per invoice |
| `LedgerClerk` | the refinement mapping from `InvoiceLedger` to `IntakeClerk` |
| `MCInvoiceLedger` | instances for TLC |
| `LedgerPromises` | what comments say of the cascade and the restart, as properties that fail |
| `InvoiceLedgerProofs` | type correctness, the balance bound, labels and rulings, what the cascade releases, proved |
| `InvoiceIdentityProofs` | the duplicate check and the refinement, proved |
| `InvoiceVerdict` | the checks, the match and the verdict on one invoice, with its trail |
| `ReviewClaims`, `MCReviewClaims`, `ReviewClaimsProofs` | review claims, an instance, all its properties proved |
| `ProcessingJobs`, `MCProcessingJobs`, `ProcessingJobsProofs` | jobs, thread pool, crash and start-up, an instance, all its safety properties proved |
| `EmailIngest`, `EmailIngestProofs` | messages and attachments; all its safety properties proved |
| `GmailCursor` | the poll of a mailbox by high-water mark |
| `GmailGrant` | the OAuth connection |
| `Mail`, `MCMail`, `MailProofs` | the three above composed, an instance, the properties of the last two proved |
| `EmailVerdict` | triage and verification of one message, and its rows |
| `Extraction`, `MCExtraction` | routes, model chains and budgets of field extraction; an instance |
| `DailyQuota` | a day's budget |
| `SlidingWindow`, `RejectionNotices`, `DocumentCopies`, `ConnectionPool`, `ClientPortal` | one safeguard each |
| `Safeguards`, `MCSafeguards` | `DailyQuota`, the safeguards, `Extraction`, `InvoiceVerdict` and `EmailVerdict` composed, and an instance |
| `SafeguardsProofs` | the quota and the five safeguards, proved |
| `ReadingProofs` | `Extraction`, `EmailVerdict` and `InvoiceVerdict`, proved |

What composes with what. The ledger's submissions are what workers, pollers and
requests do with a document; `ProcessingJobs` and `EmailIngest` keep of it only
that a run was recorded or the pass failed before, and `InvoiceLedger` keeps of
a job or a message only that a document came. `InvoiceVerdict` and `Extraction` are the
inside of `Match` and `Decide`, at a finer grain than the ledger needs: there a
finding is a ground, here it is computed. `DailyQuota` is the inside of `Extraction`'s
`Spend`. The parts of `Mail`, and those of `Safeguards`, share no variable, and
no step of one is enabled or disabled by another; so their interleavings show nothing
that a behaviour of each alone does not, and a variable `focus`, chosen at the start,
says which of them moves while the rest stand still. This is a union of the
specifications under one state and not a composition that interacts. The first lemma about
each part says so (`CursorRuns`, `PoolRuns`, …): a behaviour of the union is one of the part.

### InvoiceLedger

A *submission* is one pass through `run_pipeline`; it writes at most one run, so
`runs[s]` is the row it wrote (`None` before, and after a reset). `draft[s]` is the
verdict it carries and the locks it holds, `pc[s]` how far it is, `cascade[r]` the
queue walk of request thread `r`.

| Action | Code |
|---|---|
| `Match(s)` | extraction, validation and `match_po`, reading balances with no lock |
| `Decide(s)` | `duplicate_check`, again with no lock, and `decide()` |
| `RecheckDuplicate(s)` | `save_run_checked` opens its transaction: advisory lock on (number, total), duplicate asked again, portal hold |
| `RecheckBalance(s)` | `SELECT … FOR UPDATE` on the orders charged, balances read again |
| `InsertRun(s)` | insert of run and allocations, commit |
| `AbortUnreadable(s)` | `_abort_unreadable` and `save_run`: no automated decision |
| `Review(r, s, d)` | `record_human_review`, after which the request walks the queue |
| `set_run_status(r, s, new)` | an administrator's override, likewise |
| `ListQueue`, `CheckHead`, `ApplyApproval` | `reevaluate_po_queue`: the list, each balance read and each approval are transactions of their own |
| `clear_run_history` | the demo reset |
| `Restart` | open transactions roll back, walks are forgotten, and `init_db` fills in the decisions of rows that lack them |

Abstractions. Money is in whole units, so a charge is a set of units and the sum
of charges a cardinality, which TLAPS can reason about without recursion. The
reasons of a run are kept by what they are grounds for: `WarnReasons` (level
"warn"), `RejectReasons`, the other `Blockers`, and `"balance"`, which the cascade
recognises by wording. `info` reasons hold nothing and are left out. What the
extractor reads, and what the checks that do not read the ledger make of it, is
part of the document (`findings`). An invoice names two orders at most; both
balances of such an invoice are read in one step, which makes no difference
because it is always held. An invoice in another currency without a pinned rate
is a foreign document that converts to its own total and has a "substantive"
finding. Totals are positive: zero and below is a finding, and what a person's acceptance
of a credit note does to a balance is left out. `CheckHead` passes over a run that
was deleted meanwhile; the code would fail to write it. A reset is one step: its
transaction fails as a whole if a run commits in the middle of it. Who holds the
claim only narrows who may `Review`, and is `ReviewClaims`.

### InvoiceVerdict

One action, `decide`: some invoice arrives and is judged against the orders as they
stand. Each check of `rules.py` is an operator of its name; `match_po` binds
references, or infers the one order of the vendor that is near, converts at the pinned
rates and fills each order in turn (`split_across`, any number of orders).
`line_item_check` answers the n-th line billed of an item to the n-th ordered. `Rejecting`
and `Holding` are the two flags of `decide()` with their grounds; `Checks` is the trail.
Rates are scaled to integers; the similarity of names and items, which the code computes
from strings, is equality here.

### ReviewClaims

`claims[r]` is the rows of `review_claims` of a run in id order, `run[r]` the
columns of `runs` the claim rules read. Every operation locks its run's row
first and is one action, but `claim_review` reads the clock before it asks for
the lock: `AskClaim` takes the time and `RefuseClaim`, `RenewClaim` or `TakeClaim`
uses it, however much later. `Restart` loses the requests and backfills.

### ProcessingJobs

`request`, `pool`, `worker` are the memory of the process and are lost with it;
`job`, `recorded`, `interrupted` are in the database. `CreateJob` is the `INSERT …
ON CONFLICT` against the partial unique index, `ReadExisting` the statement after
it. `Fault` is a database call that raises, at the three places where the worker
treats one differently; `RestartUnreconciled` a start-up whose reconciliation fails.

### EmailIngest, GmailCursor, GmailGrant

`EmailIngest`: a *pass* is one call of `ingest_message` or of
`process_message_attachments`; `pass[w].pc` is the statement or transaction it is at.
`Judge` is the look-up, parse, triage and verification; `claim_incoming_message` the
unique index; `record_attachments` the listing and the held copies; `Gate`, `ReadRows`, `Take`,
the pipeline, `complete_attachment` and `Finish` the processing. `seen` is the
attachment rows as the pass read them, which go stale. `_record_failure` writes over
whatever is there. `ClearHistory` sends attachments back to PENDING; `Crash` ends a pass at
any point. The copies of one message are held in one action, though each is a write and a
transaction: a crash among them leaves what failing copies leave. `upsets`, `overlaps` are history variables the properties are conditioned on.

`GmailCursor`: a message is its date. `Fetch` lists from the cursor less the overlap,
newest first and cut at a page cap, and takes the oldest of what is not on file; `Handle`,
then the mark, which moves the cursor, for each in turn; several pollers. `cut` and
`slipped` record what the code's own limits and failures leave out.

`GmailGrant`: a grant is named by the state it was authorised under. The callback
consumes its state under a row lock, exchanges the code and replaces the row; a thread
renews with the row it read, asks Google outside any transaction and writes with no
check whose row it is by then; a disconnection reads, revokes and deletes in three steps.
A renewal is granted; `gone`, because the grant has ended; `refused`, by any of the other
failures the code calls terminal, while the grant lives; or Google cannot be reached.
`disowned` is the grants so refused, `crossed` says that a mailbox was connected under a
renewal. Tokens are what grant they belong to; of their encryption at rest only that it may
fail to be undone.

### EmailVerdict

`triage` and `classify` as operators over a message's headers, signatures,
`Authentication-Results` and the sender list; `verify_dkim`, `spf`, `dkim`, `dmarc` and
`conflicts` follow the code's order of evidence. `submit_email_message`,
`find_email_by_sha256` and `save_email_message` are three steps, so two submissions of one
message may both be saved. A start may load another list.

### Extraction and the safeguards

`Extraction`: one document at a time through `extract_text`, the choice of route, the
chain of pinned models (`Decline` goes to the next, `Refuse` ends it, `Answer` reports
some set of fields) and the security screen; `asked` counts requests by model.
`DailyQuota`: `try_consume` statement by statement, across midnight; a day without a
row locks nothing. `SlidingWindow`: hits by key, times read before the lock, the sweep
of stale keys. `RejectionNotices`: history, send and record apart. `DocumentCopies`:
bytes, then row; the reset deletes rows, then bytes; at a restart rows stay, and bytes stay
if the store is `durable` (a bucket, the database, a disk of its own) and may all be lost if
it is not (`local`, the default, in a container). `ConnectionPool`: `_pool` line by line, so
that a first caller may come between another's pool and its name and close it; a pool that
cannot be made; a failed `SET search_path`. `ClientPortal`: token cut down to what the account
may do now, vendor ids resolved through rows and names that may collide, in a table that each
start loads anew.

## 3. What is checked

`CHECK_DEADLOCK FALSE` is in every configuration because each system may come to
rest: every document settled, nobody ruling, the clock at its bound.

| Run | Instance | Shows |
|---|---|---|
| `LedgerIntake` | 3 submissions, 1 request, 1 order of 4 units, tolerance a quarter | `TypeOK`; the pipeline's approvals never overspend (`PipelineWithinBudget`, by `BudgetInv`); of two copies the later is rejected (`NoDuplicateAdmitted`, by `IdentityInv`); rulings are not rewritten (`RulingsStand`) |
| `LedgerMixed` | 2 submissions of ten kinds, 2 requests, 2 orders | labels follow rulings (`FinalDecisionConsistent`); the cascade launders nothing (`NoLaundering`); the ledger implements the clerk (`ImplementsClerk`) |
| `LedgerLiveness` | 2 submissions, 1 request | each document settles (`EverySubmissionSettles`), each walk ends (`EveryWalkEnds`) |
| `ReviewClaims` | 1 run, 2 reviewers, 2 requests, lease 1, time to 3 | one open claim (`OneOpenClaim`), exclusive while its lease runs (`ClaimIsExclusive`); history kept (`ClosedClaimsStay`); a decided run has none (`ReviewEndsWithTheHold`) |
| `ProcessingJobs` | 3 uploads of 2 files, 2 threads, 1 fault | no file read twice at once, no orphan, a completed job has a run, settled jobs stay, every job settles |
| `Mail` | ingestion: 2 passes, 1 message of any nature with 2 PDFs, 1 upset, 1 request; cursor: 2 pollers, 4 messages, pages of 3, batches of 2, overlap 1, 1 slip; grant: 2 authorisations, 2 renewals, 1 failure | no held or discarded message becomes a run (`OnlyAdmittedBecomesRuns`); a second run takes an overlap or an upset (`SecondRunTakesAnOverlap`); PROCESSED means every PDF (`ProcessedMeansAll`); neither mark nor cursor passes what is not on file, but for failures and page limits (`NothingPassedBy`); the tokens on file belong together, and only its own grant, ended or not to be renewed, shows a mailbox as revoked (`GrantIsWhole`); a disconnected mailbox stays so (`DisconnectedStays`); what is offered gets on file (`OfferedGetsOnFile`) |
| `Safeguards` | 3 callers over 2 days with a budget of 2; 2 requests by two addresses of one user; 3 notices; 2 documents, 2 readers; 3 callers of a pool of 2; 2 clients over every table of 2 vendor rows; 2 documents through 2 + 2 models; 23,040 invoices against 3 orders; 200 messages under 3 lists, 2 submissions | `BudgetKept`, `WindowHolds`, `SecondNoticeTakesARace`, `RowHasItsBytes`, `OutIsHeld`, `ClientsAreIsolated`, `EachAskIsCharged`, `VerdictStands`, `AdmittedIsAttributed` |

Properties with a condition. Several parts are correct only up to a race the code
leaves open, and their property says how far: a day's budget is exceeded by at most one
call for each caller, after the first, that found the day without a row, and by
calls let through while the counter was out of order; a second notice or a second run of
one PDF takes an overlap or an upset, one for one; a window holds unless a later
request was checked by an earlier time; tokens belong together unless a mailbox was
connected under a renewal; a mailbox is shown as revoked only when its own grant ended or a
renewal of it failed in one of the ways the code calls terminal; a document of a run has its
bytes unless they were in a store that a restart emptied; a connection is held unless a
failed `SET` lost it or its pool was closed by another first caller. What each condition counts is a history variable of the
module; the unconditional claim is false in each case, and is listed under
"Read in the code" below where a comment makes it.

Why the bounds are enough. Three submissions are the least with a pair that races
while a third has already spent or freed the balance; two orders the least in which
an invoice names more than one; two requests the least in which a walk is overtaken
by another ruling. The order can pay any two of the
invoices, one pair only within its tolerance, and not all three. Runs do not share
claims, so one run is enough there, and two
requests let one overtake the other. Two uploads share a file and one does not, on
fewer threads than uploads. Messages share nothing but the passes, so one with two
attachments shows the staleness of rows read early; four dates let a list of three be
cut while an overlap is read again; two grants are the least in which a renewal of one
crosses the connection of the other. Three callers open a day together with a budget of two.
Two clients and two vendor rows give every collision of ids and of names.
Invoices and messages are chosen so that each check holds for one and fails for another.
Bounds by name: `MaxCharge` (largest amount), `MaxTime`
(end of the clock), `MaxClaims` (claims asked for per run), `MaxFaults`, `MaxFailures`,
`MaxUpsets`, `MaxSlips` (calls that fail, crashes and resets), `MaxRequests` (requests to
process a message), `MaxSends` (requests for a notice), `MaxEdits` (edits of the user store and reloads of
the vendor rows),
`MaxRuns` (invoices of the portal), `LastDate`, `LastDay`, `LastTime`, `LastDocument` (ends of
each sequence).

`PipelineWithinBudget` sums the runs that stand as the pipeline approved them. A
person's acceptance and an administrator's override may overspend, by design; the
bound says that whatever they do, the commit-time check does not add to it.

`ImplementsClerk`: the clerk files an invoice in one stroke, refuses a repeat of what
is on file, and approves only what one order still affords; the refinement mapping
(`ClerkEntry`) shows that a verdict reached long before it is committed is one the
clerk could have given at the instant of the commit.

Fairness (`FairSpec` only, and `MailSpec`, which has EmailIngest's): weak fairness of each
submission's pipeline and each request's walk, because a thread that has a document or a
queue in hand goes on with it; of handing a created job to the pool, of the pool's threads and of their
work, because model calls have timeouts; of each pass of ingestion, poll included, because the
poller's loop starts another round for ever. None of people, resets, restarts or faults, which
are bounded where a liveness property would otherwise have to survive an endless run of them.

### Where the code and its words differ

Each of these runs ends in a counterexample; `PROJECT.json` quotes the line.

| Run | What happens |
|---|---|
| `LedgerReleased` | the cascade approves runs held on a warning, and the very run an administrator has just taken back |
| `LedgerCascadeRace` | the cascade reads a balance and approves in two transactions with no lock, and overspends with a racing approval; in the same gap it approves a run a person has just rejected |
| `LedgerBackfill` | a restart records as automated the decision a person made of an unreadable file |
| `JobInterrupted` | a job closed out as "not recorded" has recorded its run |
| `TextSpendsGemini` | with both keys, a text document that arrives when the text budget is gone is sent to Gemini, charged to no budget |

Read in the code and not made a run of:

* Ledger. The cascade compares the total in the invoice's currency (`rules.py:420`) where
  `decide` compares the converted one. Budget freed on an invoice's second order, or just
  before a run that waits for it commits as held, reaches no queue (`main.py:1113`); a process
  dying between the status change and the walk (`main.py:1112`) leaves it unoffered too.
* Claims and jobs. `claim_review` accepts a claim on a run that is already decided, since it
  goes by the automated decision; a renewal that arrives late may shorten a lease. An upload
  whose twin settles between two statements of `create_processing_job` (`storage.py:2366`) is
  answered with an error (`ReadExisting`).
* Verdict. A hold whose only ground is a closed order or an inferred match has no failed check
  in the trail, the two exceptions of `TrailExplainsVerdict`. "Approving it to pay is meaningless"
  says `rules.py:78` of a total of zero, and checks the total before conversion: a small total in a weak
  currency converts to zero (`matching.py:160`) and is approved with a charge of nothing, which is
  why `ChargesFit` asks for a positive charge only where none was converted.
* Ingestion. `claim_attachment`'s row lock ends with its transaction and leaves the status as it
  was, so two passes at once do make two runs. A PROCESSED message can be overwritten as FAILED by
  another pass that fails late (`email_ingest.py:707`). A crash between the claim and
  `record_attachments` leaves an admitted message that is never processed. Processing a
  FILTERED_OUT message ends in NO_ATTACHMENTS. Two submissions of one message at once leave
  two rows (`main.py:1471`).
* Mailbox. "The cursor can never move past something not recorded" does not hold beyond the page
  cap or of a message that could not be read. A late renewal of an old grant writes over a
  mailbox reconnected meanwhile. The docstring of `oauth_google.py:27-32` says that
  "`invalid_grant` ... is the one answer that moves it to REVOKED", and the comment at 586-589
  that "Only Google saying the grant is gone disconnects the mailbox". Four other answers do:
  an unknown client (90), a stored token that cannot be decrypted (186-188), a reply without an
  access token (434-436), and a missing refresh token (558-561) are terminal as well, and
  595-596 writes REVOKED over a grant that may be as live as before; the comment at 147-152
  describes such a row. These are the `refused` of `GmailGrant`, and the `disowned` of
  `RevokedForGood`: the claim as worded is false there.
* Documents. With `local`, the default, in a container whose disk goes with it, a restart loses
  the bytes while the rows stay, and the download is a 404, as `documents.py:27-33` says. This
  is the `wiped` of `RowHasItsBytes`.
* Quota. "The last request cannot be handed to two concurrent runs" does not hold on the first
  request of a day, when there is no row to lock.
* Pool. A failed `SET search_path` (`storage.py:238`) keeps its connection out for good. `_pool`
  is run by all threads with no lock: a first caller that comes between the pool another has
  just made (110) and its name (111) sees a pool for no database and closes it (106-109), the
  connections in use included, whose `putconn` then raises; and two pools may be made, of which
  the first serves those who have it. If a closed pool's replacement cannot be made and the
  first caller goes on to name the database, every later caller is given the closed pool until
  the process is started again.
* Extraction. The model is put on record before its reply is parsed, so a document read by the patterns may
  name one; `_LLM_ROUTES` leaves out `gemini-text`, so a text that Gemini read is never found to be
  no invoice. The screen reads the first 20,000 characters of a text (`extraction.py:1133-1141`),
  a model the first 60,000 (520, 655).
* Verification. Of two signatures that pass, the first alone is used for alignment
  (`email_security.py:977`). A relayed `dmarc=pass` alone can verify a message, and with no sender
  list anybody can be verified. A sender refused by address whose domain is trusted is
  UNTRUSTED in triage and a trusted match in `classify`.

## 4. What is proved

For every value of the constants, under the named assumption of each module (`LedgerAssumption`,
`BlankAssumption`, `ClaimsAssumption`, `JobsAssumption`, `IngestAssumption`, `QuotaAssumption`;
those of the parts of `Mail` and `Safeguards` are operators there, assumed where the parts are
composed, as `CursorConstants`, `VerdictConstants`, …). They say that there are finitely many
submissions, passes, attachments or callers where these are counted; that amounts, bounds and
tolerances are natural numbers, amounts of orders and totals whole ones of either sign; that
documents, messages and orders have the declared shape, lists being lists; that a lease lasts a tick
at least, rates are positive, an attachment belongs to one message, and a blank value is not among
the real ones. TLC evaluates each in a run.

* `TypeCorrect`, then `BudgetInvariant` and `PipelineNeverOverspends`. The bound alone is not
  inductive: it does not say why the check of a transaction is still good when it commits.
  `BudgetInv` adds that a charge only names orders of its invoice (`ChargesOnlyBound`), that row
  locks of different transactions are disjoint (`RowsHeld`), and that the room found under a lock is
  still there (`Headroom`). Only an insert adds to the pipeline's approvals (`NoneAdded`,
  `ShrinkingCharge` for every other step); an insert spends its own headroom, and by the
  disjointness of the locks nobody else's. The arithmetic rests on `SumAdd`, `SumMonotone` and
  `ToleranceMonotone`.
* `LabelsFollowRulings` and `DecisionsAreKept`: every step that touches a row is a transition, a
  ruling, a backfill or an insert (`RowStep`); each keeps the label right and the decisions as they
  were (`TransitionLabels`, `ReviewLabels`, `BackfillLabels`). The strengthening is that a run is on
  file only once its pass is done (`StoredIsDone`), so no insert falls on a row that is there.
* `IdentityInvariant` and `LaterCopyRejected`: open transactions that may still admit an invoice
  hold the key of its number and total (`KeysHeld`) and know of no admitted copy
  (`NoRepeatPending`). That the key leaves the vendor out is what makes it work: an unreadable
  vendor matches every vendor.
* `NothingIsLaundered`: a walk looks at a run and approves it in two transactions, so what it saw
  must still be so. A run about to be approved was found fit (`ApplyingIsFit`, by `WalkStep`: a walk
  comes to that point only by looking), no step changes the reasons of a run on file, and a run that
  is deleted meanwhile does not come back under another's document (`DoneStays`).
* `LedgerImplementsClerk`, the refinement. `AbortUnreadable` and `InsertRun` map to `File`, a
  ruling, an override or an approval of the cascade to `Touch` or to nothing, the reset to `Shred`,
  and all else to a stutter. That the clerk may file at the instant of the commit is
  `NoRepeatPending` for repeats and `PipelineWithinBudget` after the step for the budget; `ClerkInv`
  ties the two together: a pass that can still be approved charges one order with its whole amount
  (`DraftReady`), and its row says so for as long as nobody moves it (`RowReady`).
* `ClaimsInvariant`, `ClaimsTyped`, `ClosedClaimsAreKept`, `NoReviewOutlivesItsHold`,
  `LeaseIsExclusive`. The strengthening is that a request was made in the past (`AskedInThePast`),
  so a lease that runs now ran when the request looked at the clock.
* `JobsInvariant`, then `JobsTyped`, `OneReader`, `EveryLiveJobIsOwned`, `CompletedHasItsRun` and
  `SettledIsFinal`. A job is in one place — with its request, in the queue, or with one thread — and
  its status is what that place takes it to be, or its row is gone (`HolderKnows`, `QueuedOnce`);
  active keys are unique (`KeysAreUnique`).
* `IngestInvariant`, then `HeldBecomesNoRun` and `MarkedIsOnFile`. A pass works on attachments of
  its own message only; from the claim on, the message is on file; and while its attachments are
  processed it is ADMITTED or RELEASED (`PassesInOrder`), from which no ruling takes it away.
* `RunsInvariant`, then `RerunsAreExcused`. The count of an attachment's runs is not inductive,
  because a run filed now was made possible by rows read long ago. `RunsBounded` therefore counts
  the runs to come with those on file: each pass whose rows show the attachment unprocessed
  (`AboutTo`), or that is yet to read them (`Chances`), may file one more, and must have been paid
  for by an overlap or an upset; while nobody is at work an unprocessed attachment has one to spare.
* `ProcessedIsWhole`: while nothing has gone wrong a pass is the only one at its message (`Alone`),
  so what it saw of the attachments is still so (`SeenAsIs`), and each PDF is still to do or done
  (`Covers`).
* `CursorInvariant`, then `NothingIsPassedBy`. A batch may not leave behind what its mark will pass:
  all that is older than one of its messages by more than the overlap is in it, on file, or excused
  (`BatchReaches`), which other pollers' marks cannot undo since what is on file stays.
* `GrantInvariant`, then `GrantStaysWhole` and `NothingReconnects`. A renewal under way is of the
  grant on file, unless that is gone or a mailbox was connected meanwhile, and an answer that ends
  the connection is of a grant that ended or was disowned (`RenewalIsOfTheRow`); a
  state is consumed before its callback does anything (`StateIsSpent`).
* `MailTyped`, the types of the three.
* `QuotaInvariant`, then `BudgetIsKept`. A locked row has one holder (`OneHolder`), the room it saw
  is there when it writes (`RoomIsLeft`), and a row exists only once somebody opened its day
  (`RowsAreOpened`).
* `WindowsHold`: the queue of a key is the end of the list of all hits it was ever granted
  (`EndOf`), those before it too old to share a window with any hit to come, and granted hits ascend
  unless one was checked late. Eviction and sweep keep both (`PoppedEndOf`, `SweptEndOf`), and a hit
  is granted only below the limit (`JoinedWindow`).
* `SecondNoticesAreRaces`: requests about to send are counted with the notices sent
  (`NoticesInHand`).
* `RowsHaveTheirBytes`: bytes are written before the row, and a row is deleted before its bytes
  (`BytesFirst`), while what a restart takes is counted as wiped, and from a store that does not
  last only (`RestartKeeps`); a reader's key was some row's, of a save long over (`ReadersHaveKeys`).
* `ConnectionsAreHeld`: what is out of an open pool is held or lost and, with what is free, fits its
  limit, and a closed one has nothing (`PoolsAddUp`), for each of the pools that racing first callers
  make (`PoolsAreMade`); one is closed only by another caller that has made its own since, is about
  to, or could not (`ClosedByAnother`).
* `ClientsStayIsolated`: each page shows invoices by a right its account had (`ShownByRight`): filed
  for its client, or of a vendor name that resolves to one id, which is its own (`NamesAreOwn`), by
  the table in force, since a start that loads another serves no page of the last (`ReloadKeeps`).
* `ReaderInvariant`, then `AsksAreCharged`. A charge is made per document and a request per model,
  so each model of the chain from the one being asked on must still be one request short of what was
  charged (`Left`).
* `MailInvariant`, then `AdmittedAreAttributed`. What a row was admitted on is what `classify` says
  of the message by the list the row was judged under, and the rest is about `classify`: behind
  VERIFIED is a `pass` of our own evidence (`PassIsEvidence`) and no `fail` of it (`NoneSaysFail`),
  by the order in which it consults local and relayed results (`LocalIsFirst`, `RelayedIsOurs`).
* `RecordInvariant`, then `TrailAgrees` and `VerdictsStand`. The record was made in one go from
  invoice and match; whatever rejects or holds has its check, but for a closed and an inferred order
  (`GroundsHaveChecks`), and the converse (`ChecksAreGrounds`). The match is about four recursive
  functions: that they exist and what they keep is proved once, by the least argument where it fails
  (`Recursion`, `Climb`), and then what is left of a total falls to nothing (`LeftFalls`), so that
  the charges add up to it (`SplitIsWhole`); references resolve to orders the invoice names
  (`ReferencesResolve`); and the lines billed of an item map one to one to lines ordered, because a
  later line has a higher number (`NoMoreThanOrdered`, `LaterCountsMore`).
* `SafeTyped`, the types of all parts of `Safeguards`.

Every safety property that a run checks is thus a theorem. Only model-checked: the four liveness
properties (`EverySubmissionSettles`, `EveryWalkEnds`, `EveryJobSettles`, `OfferedGetsOnFile`),
because fairness and ENABLED are out of the prover's reach; and the five counterexamples. That a
theorem's hypotheses can be met, and that its property is not idle, is what the runs add: each
property fails there under a plausible bug in the code it is about.

## 5. Not modelled

* Analytics, logs, audit export and the assistant's chat read the database and decide
  nothing. Configuration, schemas and translations are constants and text. The screens
  send requests in some order; the models accept them in any.
* The mail, HTTP and DNS protocols, MIME and its canonicalisation, hashing and
  signature arithmetic: what they find out about a message is a fact about it. Token
  encryption. The IMAP provider's `\Seen` flag (without `mark_seen` it marks nothing, and every
  poll offers everything again).
* What a language model or OCR reads, and the patterns over text: some set of fields,
  each with or without confidence. The similarity of names.
* Stored totals are four-byte floats (`storage.py:1563`); the models count whole units.
* Who gets a connection under a burst: the code promises only that nobody waits beyond a
  deadline, and under fair polling a waiter may still lose every race.

What would come next: an instance of `EmailIngest` whose runs are `InvoiceLedger`'s
submissions, which the size of the joint state has kept apart; and lemmas for the liveness properties, each
as a step that is enabled until it is taken and a measure that falls.
