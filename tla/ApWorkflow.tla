----------------------------- MODULE ApWorkflow -----------------------------
(***************************************************************************)
(* The accounts-payable workflow: the LangGraph graph of agents/graph.py,  *)
(* its nodes, the API calls that start, resume and bypass it, the database *)
(* rows it commits, the checkpoint it resumes from, and the ERP it posts   *)
(* to.  One driver is one call of graph.ainvoke: it walks the graph node   *)
(* by node, each commit and each ERP request being a step of its own, so   *)
(* every interleaving of several API calls on the same run is a behaviour. *)
(*                                                                         *)
(* A checkpoint is written when a node returns.  Program points inside a   *)
(* node carry a dotted name; the others are the names of the graph's nodes *)
(* and are what the checkpoint can hold.                                   *)
(***************************************************************************)
EXTENDS Naturals, FiniteSets

CONSTANTS
  Runs,          \* workflow_runs rows that may be created
  Drivers,       \* calls of graph.ainvoke; each starts or resumes one run once
  Invoices,      \* what the extractor may read from a document
  Fingerprints, FingerprintOf,  \* ExtractedInvoice.fingerprint()
  References, ReferenceOf,      \* the journal's reference but for the run id
  Named,         \* invoices with a vendor_name
  Numbered,      \* invoices with an invoice_number
  Overlong,      \* invoices whose vendor_name alone fills the 80 characters
  Balanced,      \* invoices whose journal is_balanced()
  MaxAttempts,   \* stop_after_attempt of the ERP client
  Crashes,       \* processes die, and exceptions escape a node
  ErpFaulty,     \* ERP calls time out, fail, or are processed late
  StatusLossy,   \* a set_run_status write may be lost: the failure is logged
  Overlap,       \* a decision may arrive while another call drives the run
  NoInvoice, NoRun, Free, Manual   \* null values and the two non-run owners

ASSUME ConstantsAssumption ==
  /\ FingerprintOf \in [Invoices -> Fingerprints]
  /\ ReferenceOf \in [Invoices -> References]
  /\ Named \subseteq Invoices /\ Numbered \subseteq Invoices
  /\ Overlong \subseteq Invoices
  /\ Balanced \subseteq Invoices
  /\ MaxAttempts \in Nat \ {0}
  /\ {Crashes, ErpFaulty, StatusLossy, Overlap} \subseteq BOOLEAN
  /\ NoInvoice \notin Invoices /\ NoRun \notin Runs
  /\ Free \notin Runs /\ Manual \notin Runs /\ Free # Manual

VARIABLES
  runStatus,        \* workflow_runs.status, "absent" before the row exists
  straightThrough,  \* workflow_runs.straight_through
  invoiceRow,       \* the committed invoices row
  matchRow,         \* the latest match_results row: none, postable, exception
  matchCase,        \* the exception_cases row a driver's raise_exception opened
  postingCase,      \* the erp_posting_failed row a driver opened
  journal,          \* payment_journals row, UNIQUE(run_id)
  next,             \* checkpoint: the node the thread continues at
  escalated,        \* checkpoint: exception_case_id is in the state
  invoice, duplicate, vendor, order,   \* checkpoint: the channels of the state
  erpDoc,           \* ERP: who posted the document with this reference
  inFlight,         \* drivers with a timed-out request the ERP may still process
  pc,               \* where a driver is
  run,              \* the run it drives
  decision,         \* what the API call that created it decided
  armed,            \* the resume value has not been consumed yet
  caseSeen,         \* exception_case_id in the driver's copy of the state
  attempt           \* attempt number of the ERP request in progress

runVars == <<runStatus, straightThrough>>
caseVars == <<matchCase, postingCase>>
tableVars == <<invoiceRow, matchRow, journal>>
channelVars == <<invoice, duplicate, vendor, order>>
checkpointVars == <<next, escalated>>
erpVars == <<erpDoc, inFlight>>
callVars == <<run, decision>>
localVars == <<armed, caseSeen, attempt>>
vars == <<runVars, caseVars, tableVars, channelVars, checkpointVars, erpVars,
          pc, callVars, localVars>>

PreMatchNodes == {"parse", "extract_invoice", "persist_invoice",
                  "duplicate_check", "resolve_vendor", "fetch_po"}
Nodes == PreMatchNodes \cup {"match", "raise_exception", "post_journal",
                             "rejected", "failed"}
InsideException == {"exception.status", "exception.resolve", "exception.return"}
InsidePosting == {"journal.unbalanced", "journal.call", "journal.save_posted",
                  "journal.complete", "journal.save_failed",
                  "journal.open_case", "journal.mark_failed"}
Points == Nodes \cup {"match.save", "return"} \cup InsideException \cup InsidePosting
Idle(d) == pc[d] = "idle"
Active(d) == pc[d] \notin {"idle", "done"}

Statuses == {"absent", "RECEIVED", "PARSING", "EXTRACTING", "MATCHING",
             "AWAITING_APPROVAL", "POSTING", "COMPLETED", "REJECTED", "FAILED"}
Terminal == {"COMPLETED", "REJECTED", "FAILED"}
Resumable == {"AWAITING_APPROVAL", "MATCHING"}

(* build_journal's reference, "vendor/number" cut to 80 characters, so     *)
(* that two invoices may share one.  The run id stands in for a missing    *)
(* number, and is cut off too where the vendor's name leaves no room.      *)
JournalReference(i, r) ==
  IF i \in Numbered \cup Overlong THEN ReferenceOf[i] ELSE r

Init ==
  /\ runStatus = [r \in Runs |-> "absent"]
  /\ straightThrough = [r \in Runs |-> FALSE]
  /\ invoiceRow = [r \in Runs |-> NoInvoice]
  /\ matchRow = [r \in Runs |-> "none"]
  /\ matchCase = [d \in Drivers |-> "none"]
  /\ postingCase = [d \in Drivers |-> "none"]
  /\ journal = [r \in Runs |-> "none"]
  /\ next = [r \in Runs |-> "parse"]
  /\ escalated = [r \in Runs |-> FALSE]
  /\ invoice = [r \in Runs |-> NoInvoice]
  /\ duplicate = [r \in Runs |-> "unchecked"]
  /\ vendor = [r \in Runs |-> "unchecked"]
  /\ order = [r \in Runs |-> "unchecked"]
  /\ erpDoc = [ref \in References \cup Runs |-> Free]
  /\ inFlight = {}
  /\ pc = [d \in Drivers |-> "idle"]
  /\ run = [d \in Drivers |-> NoRun]
  /\ decision = [d \in Drivers |-> "none"]
  /\ armed = [d \in Drivers |-> FALSE]
  /\ caseSeen = [d \in Drivers |-> FALSE]
  /\ attempt = [d \in Drivers |-> 1]
-----------------------------------------------------------------------------
(* A step inside a node, a node that returns, a call that ends.            *)

Within(d, point) ==
  /\ pc' = [pc EXCEPT ![d] = point]
  /\ UNCHANGED next

Return(d, node) ==
  /\ pc' = [pc EXCEPT ![d] = node]
  /\ next' = [next EXCEPT ![run[d]] = node]

SetStatus(r, status) ==
  \/ runStatus' = [runStatus EXCEPT ![r] = status]
  \/ StatusLossy /\ UNCHANGED runStatus
-----------------------------------------------------------------------------
(* The nodes from parse to match.                                          *)

StartRun(d, r) ==
  /\ Idle(d) /\ runStatus[r] = "absent"
  /\ runStatus' = [runStatus EXCEPT ![r] = "RECEIVED"]
  /\ pc' = [pc EXCEPT ![d] = "parse"]
  /\ run' = [run EXCEPT ![d] = r]
  /\ UNCHANGED <<straightThrough, caseVars, tableVars, channelVars,
                 checkpointVars, erpVars, decision, localVars>>

Parse(d) ==
  /\ pc[d] = "parse"
  /\ SetStatus(run[d], "PARSING")
  /\ Return(d, "extract_invoice") \/ Return(d, "failed")
  /\ UNCHANGED <<straightThrough, caseVars, tableVars, channelVars, escalated,
                 erpVars, callVars, localVars>>

ExtractInvoice(d) ==
  /\ pc[d] = "extract_invoice"
  /\ SetStatus(run[d], "EXTRACTING")
  /\ \/ /\ \E i \in Invoices : invoice' = [invoice EXCEPT ![run[d]] = i]
        /\ Return(d, "persist_invoice")
     \/ /\ Return(d, "failed")
        /\ UNCHANGED invoice
  /\ UNCHANGED <<straightThrough, caseVars, tableVars, duplicate, vendor, order,
                 escalated, erpVars, callVars, localVars>>

PersistInvoice(d) ==
  /\ pc[d] = "persist_invoice"
  /\ invoiceRow' = [invoiceRow EXCEPT ![run[d]] = invoice[run[d]]]
  /\ Return(d, "duplicate_check")
  /\ UNCHANGED <<runVars, caseVars, matchRow, journal, channelVars, escalated,
                 erpVars, callVars, localVars>>

(* Mutant: only invoices that were matched count as seen before.           *)
SameFingerprintOfMatched(i, r) ==
  /\ matchRow[r] # "none"
  /\ FingerprintOf[invoiceRow[r]] = FingerprintOf[i]

(* find_duplicate: an invoices row of another run with this fingerprint.   *)
SameFingerprint(i, r) ==
  /\ invoiceRow[r] # NoInvoice
  /\ FingerprintOf[invoiceRow[r]] = FingerprintOf[i]

DuplicateCheck(d) ==
  /\ pc[d] = "duplicate_check"
  /\ duplicate' = [duplicate EXCEPT ![run[d]] =
       IF \E r \in Runs \ {run[d]} : SameFingerprint(invoice[run[d]], r)
       THEN "yes" ELSE "no"]
  /\ Return(d, "resolve_vendor")
  /\ UNCHANGED <<runVars, caseVars, tableVars, invoice, vendor, order,
                 escalated, erpVars, callVars, localVars>>

ResolveVendor(d) ==
  /\ pc[d] = "resolve_vendor"
  /\ \E found \in {"resolved", "unresolved"} :
       vendor' = [vendor EXCEPT ![run[d]] = found]
  /\ Return(d, "fetch_po")
  /\ UNCHANGED <<runVars, caseVars, tableVars, invoice, duplicate, order,
                 escalated, erpVars, callVars, localVars>>

(* "fits" and "misfit" are what match_invoice will say of the order and    *)
(* the receipts; "error" is the ERPError branch.                           *)
FetchPo(d) ==
  /\ pc[d] = "fetch_po"
  /\ \E found \in {"fits", "misfit", "error"} :
       /\ found = "error" => ErpFaulty
       /\ order' = [order EXCEPT ![run[d]] = found]
  /\ Return(d, "match")
  /\ UNCHANGED <<runVars, caseVars, tableVars, invoice, duplicate, vendor,
                 escalated, erpVars, callVars, localVars>>

MatchBegin(d) ==
  /\ pc[d] = "match"
  /\ SetStatus(run[d], "MATCHING")
  /\ Within(d, "match.save")
  /\ UNCHANGED <<straightThrough, caseVars, tableVars, channelVars, escalated,
                 erpVars, callVars, localVars>>

(* is_postable after match_node's two overrides: a duplicate and a named   *)
(* vendor that could not be resolved turn the report into an exception.    *)
Postable(r) ==
  /\ order[r] = "fits"
  /\ duplicate[r] = "no"
  /\ vendor[r] = "unresolved" => invoice[r] \notin Named

(* Mutant: routes on the engine's report and forgets the two overrides.    *)
RouteOnReport(r) ==
  IF order[r] = "error" THEN "failed"
  ELSE IF order[r] = "fits" THEN "post_journal" ELSE "raise_exception"

RouteAfterMatch(r) ==
  IF order[r] = "error" THEN "failed"
  ELSE IF Postable(r) THEN "post_journal" ELSE "raise_exception"

MatchSave(d) ==
  /\ pc[d] = "match.save"
  /\ matchRow' = [matchRow EXCEPT ![run[d]] =
                    IF Postable(run[d]) THEN "postable" ELSE "exception"]
  /\ Return(d, RouteAfterMatch(run[d]))
  /\ UNCHANGED <<runVars, caseVars, invoiceRow, journal, channelVars, escalated,
                 erpVars, callVars, localVars>>
-----------------------------------------------------------------------------
(* raise_exception: open a case, park at interrupt(), and on a resume run  *)
(* the node again from its first line.                                     *)

RaiseCase(d) ==
  /\ pc[d] = "raise_exception"
  /\ ~caseSeen[d]
  /\ matchCase' = [matchCase EXCEPT ![d] = "open"]
  /\ Within(d, "exception.status")
  /\ UNCHANGED <<runVars, postingCase, tableVars, channelVars, escalated,
                 erpVars, callVars, localVars>>

(* Mutant: parks again instead of taking the resume value.                 *)
AwaitApprovalAgain(d) ==
  /\ pc[d] = "exception.status"
  /\ SetStatus(run[d], "AWAITING_APPROVAL")
  /\ Within(d, "done")
  /\ UNCHANGED <<straightThrough, caseVars, tableVars, channelVars, escalated,
                 erpVars, callVars, localVars>>

AwaitApproval(d) ==
  /\ pc[d] = "exception.status"
  /\ SetStatus(run[d], "AWAITING_APPROVAL")
  /\ Within(d, IF armed[d] THEN "exception.resolve" ELSE "done")
  /\ UNCHANGED <<straightThrough, caseVars, tableVars, channelVars, escalated,
                 erpVars, callVars, localVars>>

ResolveCase(d) ==
  /\ pc[d] = "exception.resolve"
  /\ matchCase' = [matchCase EXCEPT ![d] =
                     IF decision[d] = "approve" THEN "approved" ELSE "rejected"]
  /\ Within(d, "exception.return")
  /\ UNCHANGED <<runVars, postingCase, tableVars, channelVars, escalated,
                 erpVars, callVars, localVars>>

(* Mutant: whatever was decided releases the payment.                      *)
RouteAnyDecision(d) ==
  /\ pc[d] = "exception.return"
  /\ Return(d, "post_journal")
  /\ escalated' = [escalated EXCEPT ![run[d]] = TRUE]
  /\ caseSeen' = [caseSeen EXCEPT ![d] = TRUE]
  /\ armed' = [armed EXCEPT ![d] = FALSE]
  /\ UNCHANGED <<runVars, caseVars, tableVars, channelVars, erpVars, callVars,
                 attempt>>

RouteAfterApproval(d) ==
  /\ pc[d] = "exception.return"
  /\ Return(d, IF decision[d] = "approve" THEN "post_journal" ELSE "rejected")
  /\ escalated' = [escalated EXCEPT ![run[d]] = TRUE]
  /\ caseSeen' = [caseSeen EXCEPT ![d] = TRUE]
  /\ armed' = [armed EXCEPT ![d] = FALSE]
  /\ UNCHANGED <<runVars, caseVars, tableVars, channelVars, erpVars, callVars,
                 attempt>>
-----------------------------------------------------------------------------
(* post_journal, rejected and failed.                                      *)

(* Mutant: calls the ERP before the status says so.                        *)
PostUnannounced(d) ==
  /\ pc[d] = "post_journal"
  /\ Within(d, IF invoice[run[d]] \in Balanced THEN "journal.call"
               ELSE "journal.unbalanced")
  /\ UNCHANGED <<runVars, caseVars, tableVars, channelVars, escalated,
                 erpVars, callVars, localVars>>

PostBegin(d) ==
  /\ pc[d] = "post_journal"
  /\ SetStatus(run[d], "POSTING")
  /\ Within(d, IF invoice[run[d]] \in Balanced THEN "journal.call"
               ELSE "journal.unbalanced")
  /\ UNCHANGED <<straightThrough, caseVars, tableVars, channelVars, escalated,
                 erpVars, callVars, localVars>>

RefuseUnbalanced(d) ==
  /\ pc[d] = "journal.unbalanced"
  /\ SetStatus(run[d], "FAILED")
  /\ Within(d, "return")
  /\ UNCHANGED <<straightThrough, caseVars, tableVars, channelVars, escalated,
                 erpVars, callVars, localVars>>

(* Mutant: a 409 is taken for the answer to an earlier attempt.            *)
ErpAnswersIdempotent(d) ==
  LET ref == JournalReference(invoice[run[d]], run[d]) IN
  /\ pc[d] = "journal.call"
  /\ erpDoc' = IF erpDoc[ref] = Free THEN [erpDoc EXCEPT ![ref] = run[d]]
               ELSE erpDoc
  /\ Within(d, "journal.save_posted")
  /\ UNCHANGED <<runVars, caseVars, tableVars, channelVars, escalated, inFlight,
                 callVars, localVars>>

(* The ERP answers the request in time: a new document, or 409.            *)
ErpAnswers(d) ==
  LET ref == JournalReference(invoice[run[d]], run[d]) IN
  /\ pc[d] = "journal.call"
  /\ \/ /\ erpDoc[ref] = Free
        /\ erpDoc' = [erpDoc EXCEPT ![ref] = run[d]]
        /\ Within(d, "journal.save_posted")
     \/ /\ erpDoc[ref] # Free
        /\ Within(d, "journal.save_failed")
        /\ UNCHANGED erpDoc
  /\ UNCHANGED <<runVars, caseVars, tableVars, channelVars, escalated, inFlight,
                 callVars, localVars>>

(* Any other error response is raised as ERPError, and so is a transport   *)
(* error that is not retried: a connection that breaks, after which the    *)
(* ERP may still process the request it has.                               *)
ErpErrors(d) ==
  /\ ErpFaulty /\ pc[d] = "journal.call"
  /\ Within(d, "journal.save_failed")
  /\ inFlight' \in {inFlight, inFlight \cup {d}}
  /\ UNCHANGED <<runVars, caseVars, tableVars, channelVars, escalated, erpDoc,
                 callVars, localVars>>

(* Mutant: one attempt too many.                                           *)
ErpTimesOutOnceMore(d) ==
  /\ ErpFaulty /\ pc[d] = "journal.call"
  /\ inFlight' = inFlight \cup {d}
  /\ \/ /\ attempt[d] <= MaxAttempts
        /\ attempt' = [attempt EXCEPT ![d] = @ + 1]
        /\ UNCHANGED pc
     \/ /\ attempt[d] > MaxAttempts
        /\ pc' = [pc EXCEPT ![d] = "done"]
        /\ UNCHANGED attempt
  /\ UNCHANGED <<runVars, caseVars, tableVars, channelVars, checkpointVars,
                 erpDoc, callVars, armed, caseSeen>>

(* No answer in time: the client retries, and after the last attempt the   *)
(* raw httpx exception, which is no ERPError, escapes the node.  The ERP   *)
(* may still process the abandoned request.                                *)
ErpTimesOut(d) ==
  /\ ErpFaulty /\ pc[d] = "journal.call"
  /\ inFlight' = inFlight \cup {d}
  /\ \/ /\ attempt[d] < MaxAttempts
        /\ attempt' = [attempt EXCEPT ![d] = @ + 1]
        /\ UNCHANGED pc
     \/ /\ attempt[d] = MaxAttempts
        /\ pc' = [pc EXCEPT ![d] = "done"]
        /\ UNCHANGED attempt
  /\ UNCHANGED <<runVars, caseVars, tableVars, channelVars, checkpointVars,
                 erpDoc, callVars, armed, caseSeen>>

ErpProcessesLate(d) ==
  LET ref == JournalReference(invoice[run[d]], run[d]) IN
  /\ d \in inFlight
  /\ inFlight' = inFlight \ {d}
  /\ erpDoc' = IF erpDoc[ref] = Free THEN [erpDoc EXCEPT ![ref] = run[d]]
               ELSE erpDoc
  /\ UNCHANGED <<runVars, caseVars, tableVars, channelVars, checkpointVars,
                 pc, callVars, localVars>>

(* Mutant: an existing row is kept and the node goes on.                   *)
SaveJournalOnce(d, status, point) ==
  /\ journal' = [journal EXCEPT ![run[d]] = IF @ = "none" THEN status ELSE @]
  /\ Within(d, point)
  /\ UNCHANGED <<runVars, caseVars, invoiceRow, matchRow, channelVars,
                 escalated, erpVars, callVars, localVars>>

(* A second row for the run violates UNIQUE(run_id): IntegrityError        *)
(* escapes the node.                                                       *)
SaveJournal(d, status, point) ==
  /\ \/ /\ journal[run[d]] = "none"
        /\ journal' = [journal EXCEPT ![run[d]] = status]
        /\ Within(d, point)
     \/ /\ journal[run[d]] # "none"
        /\ Within(d, "done")
        /\ UNCHANGED journal
  /\ UNCHANGED <<runVars, caseVars, invoiceRow, matchRow, channelVars,
                 escalated, erpVars, callVars, localVars>>

SavePosted(d) ==
  /\ pc[d] = "journal.save_posted"
  /\ SaveJournal(d, "posted", "journal.complete")

Complete(d) ==
  /\ pc[d] = "journal.complete"
  /\ \/ /\ runStatus' = [runStatus EXCEPT ![run[d]] = "COMPLETED"]
        /\ straightThrough' = [straightThrough EXCEPT ![run[d]] = ~caseSeen[d]]
     \/ StatusLossy /\ UNCHANGED runVars
  /\ Within(d, "return")
  /\ UNCHANGED <<caseVars, tableVars, channelVars, escalated, erpVars, callVars,
                 localVars>>

(* Mutant: marks the run failed and opens no case.                         *)
SaveFailedSilently(d) ==
  /\ pc[d] = "journal.save_failed"
  /\ SaveJournal(d, "failed", "journal.mark_failed")

SaveFailed(d) ==
  /\ pc[d] = "journal.save_failed"
  /\ SaveJournal(d, "failed", "journal.open_case")

OpenPostingCase(d) ==
  /\ pc[d] = "journal.open_case"
  /\ postingCase' = [postingCase EXCEPT ![d] = "open"]
  /\ Within(d, "journal.mark_failed")
  /\ UNCHANGED <<runVars, matchCase, tableVars, channelVars, escalated, erpVars,
                 callVars, localVars>>

MarkFailed(d) ==
  /\ pc[d] = "journal.mark_failed"
  /\ SetStatus(run[d], "FAILED")
  /\ Within(d, "return")
  /\ UNCHANGED <<straightThrough, caseVars, tableVars, channelVars, escalated,
                 erpVars, callVars, localVars>>

Rejected(d) ==
  /\ pc[d] = "rejected"
  /\ SetStatus(run[d], "REJECTED")
  /\ Within(d, "return")
  /\ UNCHANGED <<straightThrough, caseVars, tableVars, channelVars, escalated,
                 erpVars, callVars, localVars>>

(* Mutant: reports the failure and leaves the status as it was.            *)
FailedUnmarked(d) ==
  /\ pc[d] = "failed"
  /\ Within(d, "return")
  /\ UNCHANGED <<runVars, caseVars, tableVars, channelVars, escalated,
                 erpVars, callVars, localVars>>

Failed(d) ==
  /\ pc[d] = "failed"
  /\ SetStatus(run[d], "FAILED")
  /\ Within(d, "return")
  /\ UNCHANGED <<straightThrough, caseVars, tableVars, channelVars, escalated,
                 erpVars, callVars, localVars>>

(* The last node returned: the thread is at END.                           *)
EndThread(d) ==
  /\ pc[d] = "return"
  /\ pc' = [pc EXCEPT ![d] = "done"]
  /\ next' = [next EXCEPT ![run[d]] = "END"]
  /\ UNCHANGED <<runVars, caseVars, tableVars, channelVars, escalated, erpVars,
                 callVars, localVars>>
-----------------------------------------------------------------------------
(* The API: a decision on a case, the release of a parked run, a journal   *)
(* posted by hand.  resume_run reads the status, then ainvoke loads the    *)
(* checkpoint: two steps, with nothing held in between.                    *)

Call(d, r, verdict) ==
  /\ Idle(d)
  /\ Overlap \/ \A e \in Drivers : run[e] = r => ~Active(e)
  /\ pc' = [pc EXCEPT ![d] = "gate"]
  /\ run' = [run EXCEPT ![d] = r]
  /\ decision' = [decision EXCEPT ![d] = verdict]
  /\ UNCHANGED <<runVars, caseVars, tableVars, channelVars, checkpointVars,
                 erpVars, localVars>>

DecideException(d, c) ==
  /\ run[c] # NoRun
  /\ matchCase[c] = "open" \/ postingCase[c] = "open"
  /\ \E verdict \in {"approve", "reject"} : Call(d, run[c], verdict)

ReleaseRun(d, r) ==
  /\ runStatus[r] # "absent"
  /\ ~(runStatus[r] = "COMPLETED" /\ journal[r] # "none")
  /\ Call(d, r, "approve")

(* Mutant: resumes whatever the status.                                    *)
ResumeUngated(d) ==
  /\ pc[d] = "gate"
  /\ Within(d, "load")
  /\ UNCHANGED <<runVars, caseVars, tableVars, channelVars, escalated, erpVars,
                 callVars, localVars>>

ResumeGate(d) ==
  /\ pc[d] = "gate"
  /\ Within(d, IF runStatus[run[d]] \in Resumable THEN "load" ELSE "done")
  /\ UNCHANGED <<runVars, caseVars, tableVars, channelVars, escalated, erpVars,
                 callVars, localVars>>

(* Mutant: a resumed call has not seen the case the checkpoint names.      *)
LoadWithoutCase(d) ==
  /\ pc[d] = "load"
  /\ Within(d, IF next[run[d]] = "END" THEN "done" ELSE next[run[d]])
  /\ armed' = [armed EXCEPT ![d] = next[run[d]] = "raise_exception"]
  /\ UNCHANGED <<runVars, caseVars, tableVars, channelVars, escalated, erpVars,
                 callVars, caseSeen, attempt>>

(* Mutant: every resume starts at the approval, wherever the thread was.   *)
LoadAtApproval(d) ==
  /\ pc[d] = "load"
  /\ Within(d, "raise_exception")
  /\ armed' = [armed EXCEPT ![d] = TRUE]
  /\ UNCHANGED <<runVars, caseVars, tableVars, channelVars, escalated, erpVars,
                 callVars, caseSeen, attempt>>

(* The resume value reaches interrupt() only if the first node executed is *)
(* the interrupted one; a finished thread is left as it is.                *)
LoadCheckpoint(d) ==
  /\ pc[d] = "load"
  /\ Within(d, IF next[run[d]] = "END" THEN "done" ELSE next[run[d]])
  /\ armed' = [armed EXCEPT ![d] = next[run[d]] = "raise_exception"]
  /\ caseSeen' = [caseSeen EXCEPT ![d] = escalated[run[d]]]
  /\ UNCHANGED <<runVars, caseVars, tableVars, channelVars, escalated, erpVars,
                 callVars, attempt>>

PostDirect(ref) ==
  /\ erpDoc[ref] = Free
  /\ erpDoc' = [erpDoc EXCEPT ![ref] = Manual]
  /\ UNCHANGED <<runVars, caseVars, tableVars, channelVars, checkpointVars,
                 inFlight, pc, callVars, localVars>>

(* The process dies, or an exception nobody catches ends the call.         *)
Abort(d) ==
  /\ Crashes /\ Active(d)
  /\ Within(d, "done")
  /\ UNCHANGED <<runVars, caseVars, tableVars, channelVars, escalated, erpVars,
                 callVars, localVars>>
-----------------------------------------------------------------------------
Drive(d) ==
  \/ Parse(d) \/ ExtractInvoice(d) \/ PersistInvoice(d) \/ DuplicateCheck(d)
  \/ ResolveVendor(d) \/ FetchPo(d) \/ MatchBegin(d) \/ MatchSave(d)
  \/ RaiseCase(d) \/ AwaitApproval(d) \/ ResolveCase(d) \/ RouteAfterApproval(d)
  \/ PostBegin(d) \/ RefuseUnbalanced(d)
  \/ ErpAnswers(d) \/ ErpErrors(d) \/ ErpTimesOut(d)
  \/ SavePosted(d) \/ Complete(d)
  \/ SaveFailed(d) \/ OpenPostingCase(d) \/ MarkFailed(d)
  \/ Rejected(d) \/ Failed(d) \/ EndThread(d)
  \/ ResumeGate(d) \/ LoadCheckpoint(d)

Next ==
  \/ \E d \in Drivers : Drive(d) \/ ErpProcessesLate(d) \/ Abort(d)
  \/ \E d \in Drivers, r \in Runs : StartRun(d, r) \/ ReleaseRun(d, r)
  \/ \E d, c \in Drivers : DecideException(d, c)
  \/ \E ref \in References : PostDirect(ref)

Spec == Init /\ [][Next]_vars

(* A call in progress goes on: asyncio keeps scheduling it.  No human and  *)
(* no ERP fault is obliged to act.                                         *)
Fairness == \A d \in Drivers : WF_vars(Drive(d))
FairSpec == Spec /\ Fairness
-----------------------------------------------------------------------------
(* What holds whatever the faults and however calls overlap.               *)

RunOrNone == Runs \cup {NoRun}

TypeOK ==
  /\ runStatus \in [Runs -> Statuses]
  /\ straightThrough \in [Runs -> BOOLEAN]
  /\ invoiceRow \in [Runs -> Invoices \cup {NoInvoice}]
  /\ matchRow \in [Runs -> {"none", "postable", "exception"}]
  /\ matchCase \in [Drivers -> {"none", "open", "approved", "rejected"}]
  /\ postingCase \in [Drivers -> {"none", "open"}]
  /\ journal \in [Runs -> {"none", "posted", "failed"}]
  /\ next \in [Runs -> Nodes \cup {"END"}]
  /\ escalated \in [Runs -> BOOLEAN]
  /\ invoice \in [Runs -> Invoices \cup {NoInvoice}]
  /\ duplicate \in [Runs -> {"unchecked", "yes", "no"}]
  /\ vendor \in [Runs -> {"unchecked", "resolved", "unresolved"}]
  /\ order \in [Runs -> {"unchecked", "fits", "misfit", "error"}]
  /\ erpDoc \in [References \cup Runs -> Runs \cup {Free, Manual}]
  /\ inFlight \in SUBSET Drivers
  /\ pc \in [Drivers -> Points \cup {"idle", "gate", "load", "done"}]
  /\ run \in [Drivers -> RunOrNone]
  /\ decision \in [Drivers -> {"none", "approve", "reject"}]
  /\ armed \in [Drivers -> BOOLEAN]
  /\ caseSeen \in [Drivers -> BOOLEAN]
  /\ attempt \in [Drivers -> 1..MaxAttempts]

Paid(r) == erpDoc[JournalReference(invoice[r], r)] = r
Approved(r) == \E d \in Drivers : run[d] = r /\ matchCase[d] = "approved"

(* persist_invoice runs before duplicate_check so that of two runs over    *)
(* the same invoice at least one sees the other: they can never both be    *)
(* cleared for posting without a human.                                    *)
DuplicateGate ==
  \A r, s \in Runs :
    /\ r # s
    /\ matchRow[r] = "postable" /\ matchRow[s] = "postable"
    => FingerprintOf[invoiceRow[r]] # FingerprintOf[invoiceRow[s]]

(* The ERP holds a document of a run only if the run's match passed or an  *)
(* approver released it: no crash, retry, late request or second call gets *)
(* an exception paid.                                                      *)
PaymentAuthorised ==
  \A ref \in References \cup Runs, r \in Runs :
    erpDoc[ref] = r => matchRow[r] = "postable" \/ Approved(r)

(* A payment_journals row that says posted is backed by the ERP document   *)
(* this very run created, not by somebody else's with the same reference.  *)
JournalTruthful == \A r \in Runs : journal[r] = "posted" => Paid(r)

(* A run reported COMPLETED has its posted journal row and its document.   *)
CompletedIsPaid ==
  \A r \in Runs :
    runStatus[r] = "COMPLETED" => journal[r] = "posted" /\ Paid(r)

(* straight_through, which the metrics count as no human touch, is never   *)
(* set for a run that needed an approver, also when the posting happens in *)
(* a later call, after a crash, from the checkpoint.                       *)
StraightThroughUnassisted ==
  \A r \in Runs : straightThrough[r] => matchRow[r] = "postable"
-----------------------------------------------------------------------------
(* What holds when the calls on one run do not overlap.                    *)

(* A run closed as rejected was not paid and is not paid later.            *)
RejectedMeansUnpaid ==
  \A r \in Runs : runStatus[r] = "REJECTED" => ~Paid(r)

(* COMPLETED, REJECTED and FAILED are final.                               *)
SettledStaysSettled ==
  [][\A r \in Runs : runStatus[r] \in Terminal => runStatus'[r] = runStatus[r]]_vars

(* A run the queue shows as waiting for a decision has not been paid, also *)
(* when a call died between the ERP, the journal row and the status; not   *)
(* so if calls overlap or status writes are lost.                          *)
PaidIsNotPending ==
  \A r \in Runs : runStatus[r] \in Resumable => ~Paid(r)

(* A posting that reached the ERP client ends with a posted journal or     *)
(* with an erp_posting_failed case in the queue; not so if the ERP does    *)
(* not answer the last attempt either.                                     *)
PostingIsRecorded ==
  \A d \in Drivers, r \in Runs :
    (pc[d] = "journal.call" /\ run[d] = r) ~>
      (journal[r] = "posted" \/ postingCase[d] = "open")

(* A decision that was accepted takes effect: a rejection closes the run   *)
(* as rejected, an approval ends it as paid or as failed.                  *)
DecisionTakesEffect ==
  \A d \in Drivers, r \in Runs :
    /\ (pc[d] = "load" /\ run[d] = r /\ decision[d] = "reject")
         ~> (runStatus[r] = "REJECTED" /\ ~Paid(r))
    /\ (pc[d] = "load" /\ run[d] = r /\ decision[d] = "approve")
         ~> runStatus[r] \in {"COMPLETED", "FAILED"}

(* Every run that was received ends up settled or in the approval queue.   *)
RunSettles ==
  \A r \in Runs :
    runStatus[r] # "absent" ~>
      \/ runStatus[r] \in Terminal
      \/ /\ runStatus[r] = "AWAITING_APPROVAL"
         /\ \E c \in Drivers : run[c] = r /\ matchCase[c] = "open"
-----------------------------------------------------------------------------
(* The refinement: the ledger's state read off the tables and the ERP.     *)

Ledger == INSTANCE PaymentLedger WITH
  Documents <- References \cup Runs,
  registered <- invoiceRow,
  cleared <- {r \in Runs : matchRow[r] = "postable"},
  released <- {r \in Runs : Approved(r)},
  ledger <- erpDoc

(* Every step of the workflow, under all faults and overlaps, is a step of *)
(* the payment ledger or leaves it alone.                                  *)
ImplementsLedger == Ledger!Spec
=============================================================================
