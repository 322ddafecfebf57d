# Invoice-to-payment agent: TLA+ models and proofs

This directory is a verification project for the code under `src/` (paths below are relative to
the repository, so `src/invoice_agent/...` is the application package). It models the parts of the
agent in which a wrong *order* of correct steps, or a rounding or pairing rule applied to an input
nobody tried, costs money: the checkpointed accounts-payable workflow, and, module by module, the
decision procedures and services around it.

## 1. The system

An invoice arrives (upload or mailbox), is parsed, extracted by an LLM, stored, checked for
duplicates, matched against its purchase order and goods receipts, and then either posted to the
ERP straight through or parked for a human. A human decides through the API, which resumes the run
from a checkpoint. Remittances take a shorter graph that applies cash to receivables.

| Component | State it keeps | Operations | What makes it correct |
|---|---|---|---|
| AP graph (`agents/graph.py`, `agents/nodes/*`) | per run: the LangGraph thread (channels, next node), checkpointed when a node returns | `parse` ... `match`, `raise_exception` (interrupt), `post_journal`, `rejected`, `failed` | pays only what matched or was approved; pays once; says truthfully what it did |
| Runs, cases, rows (`db/models.py`, `db/repository.py`) | `workflow_runs`, `invoices`, `match_results`, `exception_cases`, `payment_journals` (unique per run), `remittances`, `audit_events` | one short transaction per call, committed at once | the rows agree with the ERP and with one another |
| Workflow service and API (`services/workflow.py`, `api/v1/*`) | none of its own | start, resume, release, decide, post by hand, poll, list | a decision takes effect exactly as given; a settled run stays settled |
| ERP client (`erp/client.py`) | none | requests with three attempts on transport errors | a failure is reported as what it is |
| ERP (`mock_erp/main.py` stands for it) | journal entries by reference, open AR items, orders, receipts, vendors, two counters | post (409 on a known reference), apply cash, lookups, reseed, each in a thread | numbers are unique, cash is conserved, a reference is booked once |
| Journal building (`post.py:34-103`, `schemas/erp.py`) | none: a function of the state | `build_journal`, `is_balanced` | debits equal credits |
| Matching engine (`matching/engine.py`, `schemas/matching.py`) | within one call: consumed order lines, per-line results | `match_invoice`, `match_remittance` | nothing is cleared beyond order, receipt and tolerance |
| AR graph (`nodes/receivable.py`) | the thread, remittance rows | `extract_remittance`, `fetch_ar_items`, `apply_cash` | cash is applied once, the residual goes to a human |
| Extraction (`nodes/extract.py`, `llm/*`, `ingestion/parser.py`, `ingestion/confidence.py`, `schemas/invoice.py`) | none | parse, structured LLM call with retry, coercions, confidence score, fingerprint | what clears the gate has evidence; what is booked is what was printed |
| Vendor resolution (`rag/retriever.py`, `rag/index.py`) | an embedding index | tax id, IBAN, name, index | an identifier outranks a similarity |
| Checkpointer and graphs (`agents/graph.py:104-154`) | three module globals, built by the first calls | build, fall back to memory, close | a parked run is found by its decision |
| Mailbox (`ingestion/mailbox/*`, `poll_mailbox`) | processed markers at the provider or in a folder | fetch, mark processed | a message is turned into runs, or a log entry, before it leaves the inbox; and once |
| Audit trail (`repository.append_audit`, `api/v1/audit.py`) | `audit_events`, sequence per run | append, list | no gap hides an event; what one coroutine did is in order |
| Policy retrieval (`rag/policies.py`) | an embedding index | index, retrieve | guidance text only: decides nothing |
| Evaluation and scripts (`evaluation/`, `scripts/`) | none | offline metrics, sample and deck generators | not part of the running system |

How they interact: the API process calls the service, which awaits `graph.ainvoke`; the nodes open
one database session per statement group, call the ERP over HTTP, and return; LangGraph writes the
checkpoint. Nothing holds a lock across two of these steps. Several API calls, and the mailbox
poller, drive graphs concurrently on one asyncio loop (and in several worker processes), so two
calls on the *same* run interleave at every `await`.

Behaviours that are hard to get right, and to test:

* a resumed node runs again **from its first line**; a run that died resumes at the checkpoint,
  not at the statement;
* the status row, the case row, the checkpoint and the ERP are four stores, written one after the
  other, with swallowed errors for the status (`_common.py:55-63`);
* the guard of a resume is read in a transaction that is over when the graph is entered;
* the ERP may have processed a request whose answer was lost;
* polls of the mailbox overlap, and a message is marked whatever became of its runs;
* what a process builds once is built by whoever comes first, across an `await`.

Every such place is listed, with its line, under `hazards` in `PROJECT.json`.

## 2. The modules

| Module | What it is | Status |
|---|---|---|
| `ApWorkflow` | the accounts-payable graph with its calls, tables, checkpoints and the ERP | modelled, checked, proved |
| `ApInvariants` | the inductive strengthening of its safety properties, as named parts; extends `ApWorkflow` | checked, proved |
| `PaymentLedger` | the abstract specification: what the workflow promises a controller | implemented by `ApWorkflow` |
| `ApWorkflowProofs` | the theorems about the three modules above | proved |
| `JournalBuilder` | `build_journal` and the two balance checks over rounded amounts | checked in `DocumentReading`, proved |
| `LineMatching`, `LineMatchingProofs` | `match_invoice`: header, lines one by one, footer, for the invoices of one order | modelled, checked, proved |
| `CashApplication`, `CashApplicationProofs` | the accounts-receivable graph with `match_remittance` and the ERP's open amounts | modelled, checked, proved |
| `DocumentReading`, `DocumentReadingProofs` | from a document to figures: parser, retry loop, schema, confidence, fingerprint; composes `VendorResolution` and `JournalBuilder`, whose theorems are here too | modelled, checked, proved |
| `VendorResolution` | `resolve_vendor` as operators over any vendor master, similarities and index | checked and proved in `DocumentReading` |
| `AuditTrail` | `append_audit`: read a number, commit an event | checked in `MailboxPoll`, proved |
| `MailboxPoll`, `MailboxPollProofs` | `poll_mailbox` with the three providers; extends `AuditTrail`, which it refines; the proofs are of both | modelled, checked, proved |
| `ErpService`, `ErpServiceProofs` | the mock ERP's writing handlers as threads | modelled, checked, proved |
| `ErpContract` | the abstract specification of an ERP that the workflow models assume | implemented by `ErpService` when requests come one by one (checked and proved) |
| `ServiceProcess`, `ServiceProcessProofs` | checkpointer, graphs, their stores, restarts and outages | modelled, checked, proved |
| `SumTheorems` | what a sum over a finite set is; the lemmas the theorems about money cite | proved |
| `MC...` | the instances TLC checks: sets of runs, calls, invoices, amounts | |

They meet where the code meets: `ApWorkflow` chooses whether an invoice "fits" its order, and
`LineMatching` says when it does; `ApWorkflow` branches on whether the journal of an invoice is
`Balanced`, and `JournalBuilder` says which are; `CashApplication` repeats the resume mechanism of
`ApWorkflow` for the shorter graph, with the ERP's amounts in place of its documents.
`DocumentReading` feeds the figures it read into the actions of `JournalBuilder`, so what is
booked can be compared with what was printed. `MailboxPoll` is `AuditTrail` with the writers the
polls and decisions are. What `ApWorkflow` and `CashApplication` take for granted of the ERP is
`ErpContract`, and what they take for granted of the checkpointer is the subject of
`ServiceProcess`.

### ApWorkflow

A *driver* is one call of `graph.ainvoke`: the background task of an upload, a decision, a release.
It starts one run (`StartRun`) or resumes one (`DecideException`, `ReleaseRun`, then `ResumeGate`
and `LoadCheckpoint`) and walks the nodes. Program points are the nodes' names; a node that does
several things which others can see between has dotted points inside it (`journal.call`,
`journal.save_posted`, ...). The checkpoint (`next`, `escalated` and the channels `invoice`,
`duplicate`, `vendor`, `order`) moves only when a node returns (`Return`); everything else a node
does (`Within`) is committed at once and stays when the call dies. That asymmetry is the subject of
the module.

| In the model | In the code |
|---|---|
| `runStatus`, `straightThrough` | `workflow_runs`, written by `set_run_status`, whose failure is swallowed (`StatusLossy`) |
| `invoiceRow`, `matchRow`, `journal` | `invoices`, `match_results`, `payment_journals` with `UNIQUE(run_id)` |
| `matchCase[d]`, `postingCase[d]` | the `exception_cases` row that call `d` opened; a run may own several |
| `erpDoc` | the ERP's journal entries by reference; a posting by hand takes one too (`PostDirect`) |
| `inFlight`, `attempt` | a request without an answer, which the ERP may still process; the client's retry |
| `pc`, `run`, `decision`, `armed`, `caseSeen` | where the coroutine is, and its copy of the state |
| `ResumeGate` then `LoadCheckpoint` | `resume_run`: a status read in a closed transaction, then the checkpoint |
| `Abort` | the process dies, or an exception nobody catches leaves `ainvoke` |

`RaiseCase`, `AwaitApproval`, `ResolveCase` and `RouteAfterApproval` are the node
`raise_exception`: on a resume it begins again at its first line, because `interrupt()` returns a
value only the second time through. What the parser, the LLM, the vendor lookup and the order
lookup find is a choice between their outcomes.

### PaymentLedger

No graph, no status, no checkpoint: an invoice is registered; it may be cleared if no other run
over the same fingerprint was cleared; a registered run may be released by a human; only cleared or
released runs are paid, a reference once, never reversed. `Ledger` in `ApWorkflow` reads this state
off the tables and the ERP, and `ImplementsLedger` says every step, faulty or not, is one of these.

### JournalBuilder

One invoice, whose total, net and tax are printed or `Missing`, in tenths of a cent so that
rounding is visible; `BuildJournal` is `build_journal` with its quantisation, `RefuseUnbalanced` and
`Send` the node's check and the ERP's.

### LineMatching

One purchase order and the invoices that arrive for it. `MatchHeader` checks receipts, currency,
total and tax; each `MatchLine` pairs one item (`PairLine`: line number, material code, description,
in that order, among the order lines not `consumed`) and adds the exceptions of the pair; `Report`
adds confidence and ceiling and decides. Amounts are integers of a unit as fine as the documents'
decimals need, prices and quantities in units of their own: `Scale` units of price times quantity
make a cent, so that broken quantities and unit prices below a cent are covered, and they may be
negative, as the schema allows. `Rounded` is `_q`: it rounds the percentages (`PctDelta`) and the
value at risk (`Impact`) before they are compared, as the code does. The similarity of a text to an
order line is a constant.

### CashApplication

The calls, crashes and checkpoints of `ApWorkflow`, for `build_ar_graph`. `fetch_ar_items` takes a
`snapshot` of open amounts, in one request if the customer is known by an id or by a name that
`get_vendors` resolves, and in one for each advice line otherwise (`UnknownCustomer`: no customer,
a name nobody has, or a list of vendors that ended in an ERP error); `Unresolved`, `Requested`,
`Declared` and `Residual` are `match_remittance` over the snapshot. Amounts may be finer than a cent
(`Cent` units make one): lines are compared as they are, the residual and what is posted (`Posted`)
are rounded to cents. Then each application is a request of its own (`ErpApplies`, `ErpRefuses`, `ErpTimesOut`, `ErpProcessesLate`) against `openAmount`, which other
runs move. `credited` is what the ERP cleared on behalf of a call, `confirmed` what the call was told,
and `applied` whether it was told of any application, which is what the code branches on.

### DocumentReading and VendorResolution

One document. `pc` walks parse, extract, score, resolve, post. `ReadText`, `ReadLayout` and
`Unreadable` are the outcomes of `parse_document`; `AnswerUnusable`, `AnswerUsable` and
`ModelRaises` are what an attempt of `extract_structured` comes to, and `Amount`, `LineAmount` and
`Identifier` the coercions of `ExtractedInvoice`, the lost decimal comma included (119,00 becomes 11900, and 1.190,00 becomes 1.19).
`Score` is `score_extraction` in ten-thousandths, to which it is rounded, `Fingerprint` and `Reference` the two keys that
stand between a re-issued invoice and its second payment. `Resolve` keeps the four stages of
`resolve_vendor` and their order; ratios and index hits are constants, so any scorer and any
embedding is covered. `Post` is a step of `JournalBuilder`.

### MailboxPoll and AuditTrail

A poll fetches a `batch`, and for each attachment goes through `CreateRun`, the receipt
(`NumberReceipt`, `CommitReceipt`), `EnterGraph`, an event of the graph (`NumberEvent`,
`EventDone`), and back; `LogFailure` is the `except` of the loop, shared by everything that can
fail in it. Then `MarkProcessed`, `MarkRefused` or `MarkRaises`. The providers differ where the code
does: the folder moves files, and another poll's file with them; Graph may fail to list the
attachments of one message; the Gmail query does not ask for unread messages; only the Gmail client
catches what a mark raises. Of the graph this module keeps that it appends events, may come to wait
for an approver, and returns or raises. `append_audit` is two steps, because its two statements are.

### ErpService and ErpContract

FastAPI runs the handlers, which are plain functions, in a pool of threads. A step is the stretch
between two calls, where the interpreter may switch threads: searching a reference, drawing a
number from `itertools.count`, appending, finding an order or an item (or none of that name),
`min`, lowering, setting the status. `seeding` and `held` say which deep copy of the orders and receivables a handler holds, so
that a reseed in the middle leaves it with objects nobody else sees. With `serial` one request is
handled at a time.

### ServiceProcess

The module globals of `agents/graph.py`. `Enter` is what a call does up to its first real await,
`Connected`, `SetUp` and `FallBack` are `get_checkpointer` after its awaits, `Forgotten` is the
context manager that the next caller overwrote: it is collected, and with it goes the connection.
`Park` and `Decide` are `ainvoke` as far as the store of the thread is concerned: all savers on
Postgres share one, a `MemorySaver` is its own. `outage` and `overlapped` remember whether Postgres
has failed and whether a call came into another's building.

### Assumptions about what is outside `src/`

LangGraph (as pinned by the repository) is modelled by what the code relies on: a checkpoint is
durable when a node returns; a resume value reaches the first superstep only; a finished thread runs
nothing; two calls on one thread are not excluded. In `ApWorkflow` and `CashApplication` the ERP
handles one request atomically, answers 409 for a reference it has and clears no more than is open;
`ErpService` shows that the mock does so for requests that come one by one (`SerialKeepsContract`).
In `ErpService` threads switch between calls only. For most of its steps that is no assumption, since
they touch one shared object once. `Lower` is the exception: `mock_erp/main.py:243` reads the open
amount and writes it back, and is one step only because CPython does not switch threads inside that
statement. On an interpreter that does, two payments could overwrite one another, and
`CashIsConserved` would not hold. The database commits a
statement group atomically and enforces its unique constraints.

## 3. What is checked

All runs disable the deadlock check: a model has a fixed number of calls, invoices or receivables,
and when they are used up nothing has to happen any more, as in the program.

| Run | Instance | Shows |
|---|---|---|
| `ApFaults` | 2 runs, 3 overlapping calls, 2 invoices with one reference and different fingerprints; crashes, ERP errors, time-outs, late requests | `TypeOK`, `PaymentAuthorised`, `JournalTruthful`, `CompletedIsPaid`, `StraightThroughUnassisted`, `DuplicateGate`, `ImplementsLedger` |
| `ApSerialized` | 1 run, 4 calls one after the other, an invoice with and one without vendor and number, 2 attempts; all faults and lost status writes | `RejectedMeansUnpaid`, `SettledStaysSettled` |
| `ApLiveness` | 1 run, 3 calls one after the other, a balanced and an unbalanced invoice, no faults, fair calls | `DecisionTakesEffect`, `RunSettles`, `PostingIsRecorded`, and `PaidIsNotPending`, which section 5 shows under crashes and ERP faults too |
| `ApRejectRace` | two decisions on one case at once | `RejectedMeansUnpaid` fails |
| `MatchOrder` | some 3 200 invoices, whole and broken quantities among them, against an order of three lines, with a small quantity tolerance | `BilledWithinReceipt`, `NamedLinesArePaired`, `LeakageBounded` |
| `MatchTwice` | the expected invoice twice, under two numbers, with the default tolerances | `OrderBilledOnce` fails |
| `CashFaults` | 2 runs, 2 concurrent calls, 2 receivables, amounts in quarters of a cent, customers known by id, by name or not at all, 2 attempts, every fault | `RowsBackedByErp`, `WaitingIsQueued` |
| `CashResumed` | 2 runs, 3 calls one after the other, one of which may be killed, ERP errors, fair calls | `LeakBounded`, `CreditedWithinRemittance`, `RunEnds`, `LeftoverQueued` |
| `Documents` | some 17 000 answers: totals, nets and taxes of fourteen forms each with six sets of lines; and any spelling of vendor, number, order and identifiers, over three vendors, two of which share an alias and two a close name | `DocTypeOK`, `BalancedUnlessTaxNegative`, `PrintedFiguresAreBooked`, `ClearedOnEvidence`, `ReconciledIsBooked`, `IdentifierOutranksName`, `ReissueMeetsAGate` |
| `MailboxIntake` | 2 polls, one of which may die, 3 messages of which one has two attachments and one none, a limit of 2, any provider, one failure of anything, one decision; fair calls | `MarkedIsAccountedFor`, `ReceiptFirst`, `NoReprocessing`, `SequencesDense`, `WriterOrdered`, `BatchIsSettled` |
| `ErpRequests` | 4 requests at once, any mix of postings (2 references, one order), payments (of one receivable or of one the ERP does not have, too small, exact, negative) and reseeds | `NumbersAreUnique`, `CashIsConserved`, `SerialKeepsContract` |
| `ServiceStart` | 4 calls, 2 runs of any kind, any number of restarts and outages | `DecisionsFindTheirRun`, `SaversWork` |

Why these bounds. A run is touched by at most a start, a decision and a second decision or release
before its behaviours repeat, so three calls show every race on one run, and a fourth shows what a
later call does after two that crashed. Two runs are enough for anything about pairs (duplicates,
one reference, one receivable). A second attempt already differs from the last one; more attempts
only repeat it. Two or three order lines and two
items are what it takes for items to compete for a line. Amounts are chosen on both sides of each
limit: half a cent, a deviation of exactly 0.05 and one beyond, a ratio that just reaches the
threshold. Two polls and one that starts when the other is done are what it takes for a message to
be seen twice; a message with two attachments shows one failing and the other not. Four requests to
the ERP are a pair that races with a reseed and a latecomer. Two calls may start two runs on a
process, two more decide them. For the safety properties the theorems of section 5 remove the
bounds, under the conditions named there. Runs and drivers, requests and calls are interchangeable in the safety runs that use symmetry; the runs with
liveness properties use none.

`Overlap = FALSE` and `Concurrent = FALSE` are not facts about the program. They are the condition
under which the properties of these runs hold (no second call while one drives the run), and
`ApRejectRace` shows what is lost without it.

**Fairness.** `FairSpec` asks weak fairness of `Drive` for each call: asyncio keeps scheduling a
coroutine that can continue, and every await of the nodes either returns or raises. No human is
obliged to decide, no request to be processed late, no process to die or to be restarted. In
`CashApplication` only the calls outside `Crashable` are promised anything, in `MailboxPoll` only the
polls outside `Mortal`, and only once somebody has asked for the poll.

Every property of a passing run has, in `PROJECT.json`, a mutant: a slip in the mapped definition,
such as a route that ignores the decision or a loop that does not consume its order line, under
which TLC finds the property violated. The mutated operators stand next to the originals and are
marked *Mutant*.

## 4. Where the code and its promises part

Two runs are expected to fail; each refutes a sentence of the repository, quoted under `findings`.

* `ApRejectRace`: an approval and a rejection of the same case that arrive together both pass
  `decide_exception` and `resume_run`; the journal is posted and the run ends `REJECTED`.
* `MatchTwice`: each invoice is compared with the whole receipt, so an order can be billed again
  under another number.

Others were seen while modelling and are in the models, without a run of their own:

* `raise_exception` runs again from its first line, so every decision opens, and resolves, a second
  case, and the one the approver decided on stays open (`nodes/decide.py:160`: the guard reads a
  channel that the interrupted node never returned). `RaiseCase` does so.
* The transport error of the last attempt is not an `ERPError` (`erp/client.py:59-72`, raised again
  by the retry), so no journal row and no case are written and the run stays `POSTING`, which cannot
  be resumed; `ErpTimesOut` and `Abort` do so. `docs/architecture.md:185` says of an ERP that is
  unreachable "Retried with backoff; then `erp_posting_failed` with the run preserved". Hence
  `PostingIsRecorded` is stated for an ERP that answers: with `ErpFaulty` in the instance of
  `ApLiveness` TLC finds the run that ends there.
* A transport error that is not retried becomes an `ERPError` although the ERP may have posted
  (`erp/client.py:70-71`): the run fails with the payment made, as after a 409 on its own document
  (`ErpErrors`). The reference is cut at 80 characters (`nodes/post.py:92`): a long vendor name takes
  the invoice number with it, and the vendor's next invoice meets a 409 (`Overlong`).
* A waiting remittance run has no interrupt (`nodes/receivable.py:151`): the decision is accepted, no
  node runs, and the case stays open, against `api/v1/exceptions.py:74-75`. `EndThread` does so.
* After an approval was checkpointed and before `POSTING` is written, the run is still resumable; a
  rejection that comes then, after a crash, drives the thread into the posting
  (`services/workflow.py:150`, against `api/v1/exceptions.py:74-75`).
* An `erp_posting_failed` case asks to "retry the run" (`nodes/post.py:153-156`), but the run is
  `FAILED`, which `resume_run` refuses.
* An invoice without a vendor name skips the unresolved-vendor exception (`nodes/decide.py:53`,
  against `rag/policies.py:74-75`); `Postable` says so.
* A net printed above the total derives a negative tax, which gets no line, and the entry is
  lopsided (`nodes/post.py:59` and `:74`, against the comment at `:41-42`); the exact condition is
  `BalancedUnlessTaxNegative`.
* An invoice of which no line was extracted passes on its total alone, and a missing currency takes
  the order's (`matching/engine.py:163` and `:280`); a quantity that is off by less than 0.005
  percent passes the "exact" quantity check (`:39`), and a value at risk of less than half a cent
  above the limit passes it (`:77`). A line with a negative quantity has a negative value at risk,
  so any price of it passes; `LeakageBounded` says nothing of the price of such a line.
* A negative amount on a remittance line is accepted (`schemas/invoice.py:137`): the line is reported as
  unresolved and applied all the same (`matching/engine.py:394-399`), and the ERP adds it to what is
  open (`mock_erp/main.py:242-243`). The model leaves such remittances out (`PaymentsAssumption`).
* A residual is computed from requested, not applied, amounts (`matching/engine.py:400`): overpaid
  lines, or a second remittance working from an older snapshot, leave money applied nowhere and no
  case; `LeakBounded` gives the bound that does hold without concurrency.
* Two advice lines that name one receivable, each a little short of all that is open of it, are both
  matched before either is applied (`matching/engine.py:375` says that a residual above the tolerance
  becomes an exception): the first leaves a few cents, so the ERP takes the second too and clears
  those, and the remittance completes straight through with half its money applied nowhere.
  `NamedOnce` excludes it; if the first pays the receivable in full, the ERP refuses the second and
  a case is opened.
* After a crash between the waiting status and the checkpoint, a decision runs `apply_cash` again and
  saves a second `remittances` row and case. No money moves twice: a run waits only if nothing was
  applied, which is what `CreditedWithinRemittance` shows.
* `tests/test_confidence.py` says "A model claiming 1.0 confidence on numbers that do not add up must
  not clear the gate". With the default gate of 0.75 an invoice whose totals do not reconcile, and
  nothing else, scores 0.80 and clears; `ClearedOnEvidence` is what does hold.
* `rag/policies.py` counts an invoice with the same vendor, number and gross amount as a duplicate;
  the fingerprint takes the amount as it is written, so 100.0 and 100.00 differ
  (`schemas/invoice.py:125`). The ERP's reference is then what stops the second; it differs too if
  vendor or number are spelled otherwise, which `ReissueMeetsAGate` states.
* The policies escalate bank details that differ from the vendor master, and nothing compares them;
  `Vendor.blocked` is never read. A blank tax id or IBAN matches the first vendor that has none
  (`rag/retriever.py:40`).
* A decimal comma is taken out (`schemas/invoice.py:32` and `:74`): 119,00 is read as 11900, and a
  page read that way throughout adds up.
* The emptiness check is not made for text files (`ingestion/parser.py:79-83`), and a document is cut
  at 24 000 characters without a trace downstream.
* An exception of the model itself is not caught (`llm/structured.py:66`): the run stays
  `EXTRACTING`. One failed insert makes the knowledge base unavailable until the process ends
  (`rag/index.py:106`).
* Attachments of one name are written to one file before any is read (`mailbox/graph.py:122`,
  `mailbox/gmail.py:117`), against `api/v1/ingest.py:103` "process every attachment found"; and two
  files of the folder that share a sidecar share an id, so that the mark may move the other one
  (`mailbox/local.py:72`).
* A run whose receipt could not be written stays `RECEIVED` and is never driven
  (`services/workflow.py:101`), and its message is marked; only the log tells.
* Two threads of the mock can book one reference twice, and two payments that race take a receivable
  below zero, after which the next one is booked with a negative amount (`mock_erp/main.py:171`,
  `:242`). That the sums are right all the same is `CashIsConserved`.
* The second of two first calls overwrites the context manager of the first, whose connection is
  closed when it is collected, and may fall back to memory where the other uses Postgres
  (`agents/graph.py:114-128`); an outage of a moment leaves a process in memory for good, and its
  parked runs are lost with it.

## 5. What is proved

Every safety invariant and action property of a passing run is the subject of a theorem. The
theorems hold for every value of the constants that satisfies the named `ASSUME`s. With one
exception these say only what the code guarantees (the tables of fingerprints and references are
functions, order line numbers are unique, similarities are between 0 and 100, the configured
percentages are not negative, the null values are distinct). The exception is `PaymentsAssumption` in
`CashApplication`: no amount of a remittance is negative, which the schema does not check. TLC
evaluates them in every run. A theorem that needs more says so in
an `ASSUME` of its own, and those are:

| Hypothesis | Theorems | What it means |
|---|---|---|
| `~Overlap` | `SerialInvariant`, `RejectedRunsAreUnpaid`, `SettledRunsStaySettled` | no call on a run while another drives it; `ApRejectRace` shows what happens otherwise |
| `~Overlap`, `~StatusLossy` | `PendingRunsAreUnpaid` | and `set_run_status` does not fail: a lost `POSTING` leaves a paid run waiting |
| `~Concurrent`, `~Timeouts`, `~StatusLossy` | `ResumedRunsStayWithin`, `CompletedRunsLeakLittle` | remittances one call after the other, every answer arrives; calls may die, the ERP may refuse |
| `IdsAreUnique` | `MarkedMessagesAreSettled`, `NothingIsReprocessed` | true of Gmail and Graph, and of a folder without shared sidecars |
| a price, a quantity and a total tolerance below 100 % | `LeakageStaysBounded` | the defaults are 2 %, 0 % and 1 %; 100 % accepts any price of a line that is free of charge |
| a confidence gate above 0.70 | `ClearedInvoicesAddUp` | the default is 0.75; an invoice that fails two checks can reach 0.70 |
| no vendor of the master has an empty name | `IdentifiersComeFirst` | an empty name is equal to a missing one |

**`ApWorkflowProofs`.** `IInv` (module `ApInvariants`) is inductive under all faults and overlaps:
`InitInv`, one lemma for each group of conjuncts with a step for each action (`TypeStep`,
`ControlStep`, `DataStep`, `CaseStep`, `AuthorisedStep`, `UnassistedStep`, `BooksStep`), `StepInv`,
then `InductiveInvariant`. None of the properties is inductive alone. The argument:

1. *Control.* Before `match`, a run has one driver, at the node of its checkpoint; all other calls
   on it are at the gate, which a status before `MATCHING` does not open (`FreshInv`,
   `UntouchedInv`, `AloneInv`). Lost status writes do not hurt: they leave an earlier status.
2. *Data.* So what that driver writes to channels and rows no longer changes afterwards
   (`InvoiceInv`, `CheckedInv`), and the match row is the verdict on the channels as they still are
   (`VerdictInv`). Each run commits its invoice before it looks for a twin, so two runs that both
   found none have different fingerprints (`NoTwinInv`); `DuplicateGate` follows.
3. *Posting.* An approved case stays approved (`CaseInv`); whoever is at the ERP call, or has left a
   request behind, was authorised when it got there (`AuthorisedInv`), whichever checkpoint it came
   from; a call that has seen no case posts a run whose match passed (`UnassistedInv`); the rows are
   written after the ERP's answer to this very run (`BooksInv`).

`PaymentsAuthorised`, `DuplicatesGated`, `JournalsTruthful`, `CompletedArePaid`,
`StraightThroughsUnassisted` and `TypeCorrect` follow, and `WorkflowImplementsLedger` shows each
action to be a step of `PaymentLedger` or a stutter, under the invariant.

What holds only when calls do not overlap needs a second layer, `SerialInv`, proved over `IInv`: one
call drives a run and is at the node its checkpoint names (`Aligned`); as long as the checkpoint is
before the posting the ERP has no document of the run and no request that may become one
(`UnpostedInv`), which is why a rejection, which moves the checkpoint to `rejected`, is final
(`RejectedInv`); of a settled run nobody is at work (`SettledInv`). `RejectedRunsAreUnpaid` and the
action property `SettledRunsStaySettled` follow, under crashes, late requests and lost status writes
alike. `PaidIsNotPending` is about the status and not the checkpoint: it needs `PendingInv`, that a
resumable status names an unposted run, and that is where a lost status write hurts.

**`DocumentReadingProofs`.** *The journal.* For any integers at all as printed amounts: the entry
balances exactly when the total is positive and the tax is not negative (`BalancedExactly`), the ERP
never rejects what the node sends (`ErpNeverRejects`), and what is booked is what is printed unless
the three figures contradict one another (`PrintedIsBooked`). All three hold of `JournalBuilder`
alone and of what was read from a document.

*The reading.* `DocInv` says what a run still knows when it gets to the posting: the score is that of
the answer that was taken, the vendor is one that `resolve_vendor` may return for it, and nothing is
booked before (`ReadingInvariant`). The rest is about pure functions, for any arguments.
`ClearedInvoicesAddUp`: the weights of the failed checks add up, so a score that reaches a gate above
0.70 has failed at most one of the three arithmetic checks, and if there are no lines none.
`ReconciledNetsAreBooked`: rounding halves to even moves a figure by at most half a cent, three of them
and the tolerance of 0.05 make six cents. `IdentifiersComeFirst`: `Resolve` stops at the first stage
that finds somebody, and the fuzzy stage never scores an equal name below another.
`ReissuesMeetAGate`: fingerprint and reference are made of the same fields, so an invoice that
differs in both from the one before differs in the decimals of its total and in the spelling of
vendor or number.

**`LineMatchingProofs`.** The loop invariant of `_match_lines`: the consumed lines are exactly the
paired ones, no two items share a line, nothing beyond the current item is paired, and as long as
there is no exception every pair behind the loop is within its receipt and its price and quantity
tolerances and the total within its own. From it `MatchesStayWithinReceipt` and `NamesDecide`, for orders and
invoices of any size. That `CHOOSE` picks a free line needs the order to be finite
(`WellFoundedInduction` gives the best score). `LeakageStaysBounded` turns the percentages the code
compares, rounded half up to two decimals, back into money (`PctBounds`: a quotient of at most *q*
bounds its dividend by *q* + 1 divisors) and adds the half cent by which the rounded value at risk may
exceed its limit: 0.05 on a quantity of 100.09 is 5.0045, which passes a limit of 5.00. An item
without a quantity is compared by the quantity ordered; one with a negative quantity has its total and
quantity bounded, not its price.

**`MailboxPollProofs`.** *The trail.* For any runs and writers: a number that was read and not yet
written has its predecessor in the trail, or is 1, and is above what its writer has committed to
that run. Both survive the others' appends because a trail only grows (`AuditInvariant`); so a run's
numbers are 1..k (`NumbersAreDense`), and what one coroutine did is in order (`WritersAreOrdered`).
That the next number is the successor of the highest is the lemma `NextIsAbove`: `Max` is a
`CHOOSE`, and density is what gives it something to choose.

*The polls.* For any inbox, any number of polls and decisions, any attachments and faults: the loop
invariant of `poll_mailbox`. Every attachment before the current one is settled, that is, in the log
of failures or driven as far as the graph's end; what was driven stays so; a message is marked only
by a poll that has been through all its attachments (`MailboxInvariant`). From it
`MarkedMessagesAreSettled`, and `MailboxImplementsAudit`: whatever the polls and decisions do is a
behaviour of `AuditTrail`, so that the theorems on numbers hold of the composed system
(`PolledNumbersAreDense`, `PollsAreOrdered`). `ReceiptInv` follows a trail from its first event: a
run that is about to get its receipt has an empty trail, and whoever has numbered anything else for
it has read a trail that begins with the receipt, hence `ReceiptComesFirst`. For
`NothingIsReprocessed`, `BatchInv` and `LaterBatches`: a poll that fetches when another has ended
finds none of its messages listed, unless the mark was refused or the provider lists what is marked.

**`CashApplicationProofs`.** For any runs, calls, remittances and retries, under crashes, lost status
writes, late requests and calls that overlap: until `apply_cash` is next a run has one driver, at
the node of its checkpoint, and does not wait (`EarlyInv`), so remittance and snapshot do not change
any more, and the verdict of `match_remittance` is the one a call found (`ReadInv`, `VerdictKept`).
A call counts as confirmed only what the ERP cleared in the same step, and a late request only
adds to what it cleared (`BackedInv`): `RowsAreBacked`. A call with nothing unresolved had a receivable for
every line and an answer of the ERP for each it passed (`AccountedInv`); hence one that
ends with nothing applied has opened a case, or had nothing to do: `WaitingRunsAreQueued`.

The second half bounds what a run resumed by one call after the other clears. From above: a run
waits only if nothing was confirmed, and nothing is in flight, so at most one of its calls has
cleared anything, and that one no more than the lines before its position ask for (`ResumeInv`:
`QuietInv`, `PayerInv`); hence `ResumedRunsStayWithin`. From below, `LeakInv`: while no case is open
and each receivable is named once, the lines ahead still find their snapshot up to date, each line
passed leaves at most one tolerance and the half cent its rounding may take (`At`, `Meant`,
`Payable`, `Slack`), and the call that completes the run has passed them all; hence
`CompletedRunsLeakLittle`, for any number of lines. `ResumedRunsStayWithin` counts what the lines ask for
in whole cents, as it is posted.

**`ErpServiceProofs`.** Over any requests and threads, racing or not: both counters are above every
number drawn or booked, and no two handlers hold the same one (`ErpInvariant`), which is
`NumbersStayUnique`. For the contract (`SerialRequestsKeepContract`) a second invariant holds as long
as `serial` has held throughout: one handler is under way, so what it read is still so when it
writes, and what it has changed of a receivable is what the abstract step changes at once. Each
step of a thread is then a step of `ErpContract` or a stutter. `CashConserved` needs neither: what
is open of a receivable, what its applications say and what handlers took and have not yet booked are
three sums, and whichever handler moves, a term goes from one to the next; a reseed sets all three.

**`ServiceProcessProofs`.** Unless Postgres has been out or a call came into another's building
(`Sound`): at most one call builds, at most one saver exists on Postgres, it is the one the kept
context manager holds open, its tables are there before any graph is compiled around it, and a
parked run is where every later graph looks (`ServiceInvariant`). `DecisionsAreNotMissed` and
`SaversAreUsable` follow, for any calls, runs and restarts.

**`SumTheorems`.** The library's `SumFunctionOnSet` is a recursive function on the subsets of a set
that takes elements in an order of `CHOOSE`'s. Induction is over a *set* of subsets
(`SubsetInduction`, from the well-foundedness of strict inclusion), because a theorem with an operator
as parameter cannot be instantiated here. From the existence and uniqueness of the recursion
(`SumsExist`, `SumsAgree`): any element can be taken out or in (`SumTakesOut`, `SumTakesIn`), a sum
depends on the terms only (`SumDependsOnSet`), and a part of a sum of naturals is no more than the
whole (`SumOfPart`).

**Only model-checked.** Liveness: `DecisionTakesEffect`, `RunSettles` and `PostingIsRecorded` of
`ApLiveness`, `RunEnds` and `LeftoverQueued` of `CashResumed`, `BatchIsSettled` of `MailboxIntake`.
These need fairness and `ENABLED`, which are out of this prover's reach. The two runs that are
expected to fail have nothing to prove.

## 6. Plan

Done, the most important behaviour first: `ApWorkflow` with `PaymentLedger` and its proofs;
`JournalBuilder`; `LineMatching`; `CashApplication`; `MailboxPoll` with `AuditTrail`, their proofs
and the refinement between them; `ErpService` with `ErpContract`, and `ServiceProcess`, with theirs;
`VendorResolution` in `DocumentReading`; the proofs about `CashApplication`; what holds when calls do
not overlap; the sums of money, with `SumTheorems`; the gates of `DocumentReading`.

The safety properties are proved. What could still be proved: `CreditedWithinRemittance` and
`LeakBounded` with answers that get lost, under the bounds that hold then; what `match_remittance` and
the receipts give for the whole of an order's invoices, once the code compares them.

Not modelled, and not planned:

* Document libraries (PDF, DOCX, spreadsheets, OCR) and the SDKs of the model and mailbox providers:
  I/O of third parties, present only as the outcomes the code distinguishes.
* Policy retrieval (`rag/policies.py`): text for the approver; no state depends on it.
* Configuration, logging, observability and the application shell: no state of their own beyond the
  process globals of `ServiceProcess`.
* The read-only endpoints (metrics, lists, health, on-demand matching): they read committed rows and
  change nothing; on-demand matching runs `match_invoice`, which `LineMatching` is.
* The schema migration: it runs while the service is down. What the models need of it, the unique
  constraints and the missing one on `audit_events`, is in the tables they describe.
* The offline evaluation, the sample and deck generators, the tests.
