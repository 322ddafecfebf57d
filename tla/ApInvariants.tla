---------------------------- MODULE ApInvariants ----------------------------
(***************************************************************************)
(* The inductive strengthening behind the safety properties of ApWorkflow, *)
(* as named parts.  Four facts carry it: before match a run has exactly    *)
(* one driver; what that driver put into the channels no longer changes    *)
(* afterwards; an approved case stays approved; and whoever is at the ERP  *)
(* call got there with an authorisation that is already committed.  Where  *)
(* calls do not overlap, two more hold: the run of the call in progress is *)
(* where its checkpoint says, and one rejected, settled or still waiting   *)
(* for a decision carries no posting.                                      *)
(***************************************************************************)
EXTENDS ApWorkflow

(* A driver that has begun drives a run; one that has not holds nothing.   *)
Started(d) ==
  /\ Idle(d) => /\ run[d] = NoRun /\ matchCase[d] = "none" /\ d \notin inFlight
                /\ decision[d] = "none"
  /\ ~Idle(d) => run[d] \in Runs
StartedInv == \A d \in Drivers : Started(d)

(* Before match: one driver, at the node of the checkpoint; everybody else *)
(* on the run is at the gate, which such a run does not pass, or gone.     *)
Fresh(r) ==
  /\ runStatus[r] \in {"absent", "RECEIVED", "PARSING", "EXTRACTING"}
  /\ matchRow[r] = "none" /\ journal[r] = "none"
FreshInv == \A r \in Runs : next[r] \in PreMatchNodes => Fresh(r)

UntouchedInv ==
  \A r \in Runs : runStatus[r] = "absent" =>
    /\ next[r] = "parse"
    /\ \A d \in Drivers : run[d] # r

AloneInv ==
  \A d \in Drivers : ~Idle(d) =>
    /\ pc[d] \in PreMatchNodes => next[run[d]] = pc[d]
    /\ next[run[d]] \in PreMatchNodes =>
         pc[d] \in PreMatchNodes \cup {"gate", "done"}
    /\ pc[d] \in PreMatchNodes =>
         \A e \in Drivers : run[e] = run[d] /\ pc[e] \in PreMatchNodes => e = d

(* How far the invoice of a run has got.                                   *)
Registered(r) ==
  /\ duplicate[r] # "unchecked"
  /\ invoice[r] \in Invoices
  /\ invoiceRow[r] = invoice[r]

AfterCheck == {"resolve_vendor", "fetch_po", "match", "raise_exception",
               "post_journal", "rejected"}

InvoiceInv ==
  \A r \in Runs :
    /\ next[r] \in {"parse", "extract_invoice", "persist_invoice"} =>
         duplicate[r] = "unchecked" /\ invoiceRow[r] = NoInvoice
    /\ next[r] = "persist_invoice" => invoice[r] \in Invoices
    /\ next[r] = "duplicate_check" =>
         /\ duplicate[r] = "unchecked"
         /\ invoice[r] \in Invoices /\ invoiceRow[r] = invoice[r]
    /\ next[r] \in AfterCheck => Registered(r)
    /\ duplicate[r] # "unchecked" => Registered(r)

CheckedInv ==
  \A d \in Drivers :
    pc[d] \in AfterCheck \cup {"match.save"} \cup InsideException \cup InsidePosting
      => Registered(run[d])

(* Of two runs that found no duplicate, neither saw the other's row, so    *)
(* the invoices differ: each had committed its row before it looked.       *)
NoTwinInv ==
  \A r, s \in Runs :
    /\ r # s /\ duplicate[r] = "no" /\ duplicate[s] = "no"
    => FingerprintOf[invoice[r]] # FingerprintOf[invoice[s]]

(* The match row is the verdict on channels that no longer change.         *)
VerdictInv ==
  \A r \in Runs :
    /\ matchRow[r] = "postable" => Postable(r)
    /\ matchRow[r] = "exception" => ~Postable(r)
    /\ matchRow[r] # "none" => Registered(r)

CaseInv ==
  \A d \in Drivers :
    /\ matchCase[d] = "approved" =>
         /\ decision[d] = "approve"
         /\ pc[d] \in {"exception.return", "post_journal", "return", "done"}
                        \cup InsidePosting
         /\ Registered(run[d])
    /\ pc[d] = "exception.return" /\ decision[d] = "approve" =>
         matchCase[d] = "approved"

AtPosting == {"post_journal"} \cup InsidePosting
Authorised(r) == matchRow[r] = "postable" \/ Approved(r)

AuthorisedInv ==
  /\ \A r \in Runs : next[r] = "post_journal" => Authorised(r)
  /\ \A d \in Drivers : pc[d] \in AtPosting \/ d \in inFlight => Authorised(run[d])
  /\ PaymentAuthorised

(* Who posts without having seen a case posts a run whose match passed.    *)
UnassistedInv ==
  /\ \A r \in Runs : next[r] = "post_journal" /\ ~escalated[r] => matchRow[r] = "postable"
  /\ \A d \in Drivers : pc[d] \in AtPosting /\ ~caseSeen[d] => matchRow[run[d]] = "postable"
  /\ StraightThroughUnassisted

BooksInv ==
  /\ \A d \in Drivers : pc[d] = "journal.save_posted" => Paid(run[d])
  /\ \A d \in Drivers : pc[d] = "journal.complete" => journal[run[d]] = "posted"
  /\ \A r \in Runs : runStatus[r] = "COMPLETED" => journal[r] = "posted"
  /\ JournalTruthful

ControlInv == StartedInv /\ FreshInv /\ UntouchedInv /\ AloneInv
DataInv == InvoiceInv /\ CheckedInv /\ NoTwinInv /\ VerdictInv
PostingInv == CaseInv /\ AuthorisedInv /\ UnassistedInv /\ BooksInv
IInv == TypeOK /\ ControlInv /\ DataInv /\ PostingInv
-----------------------------------------------------------------------------
(* What the calls on one run add when they do not overlap: the checkpoint  *)
(* names the node the driver is in, so whatever was posted, or may still   *)
(* be, was posted from a thread that will not see the approval again.      *)
OneDriver ==
  \A d, e \in Drivers : Active(d) /\ Active(e) /\ run[d] = run[e] => d = e

Aligned ==
  \A d \in Drivers :
    /\ pc[d] \in Nodes => next[run[d]] = pc[d]
    /\ pc[d] = "match.save" => next[run[d]] = "match"
    /\ pc[d] \in InsideException => next[run[d]] = "raise_exception"
    /\ pc[d] \in InsidePosting => next[run[d]] = "post_journal"
    /\ pc[d] = "return" => next[run[d]] \in {"post_journal", "rejected", "failed"}

(* The ERP holds no document of the run and no request that may become one.*)
Unposted(r) ==
  /\ \A ref \in References \cup Runs : erpDoc[ref] # r
  /\ \A d \in inFlight : run[d] # r

UnpostedInv ==
  \A r \in Runs : next[r] \notin {"post_journal", "END"} => Unposted(r)

RejectedInv ==
  \A r \in Runs : runStatus[r] = "REJECTED" =>
    Unposted(r) /\ next[r] \in {"rejected", "END"}

(* Of a settled run nobody is at work; a resume in progress is of a run    *)
(* that can still be resumed.                                              *)
SettledInv ==
  \A d \in Drivers :
    /\ Active(d) /\ runStatus[run[d]] \in Terminal => pc[d] \in {"gate", "return"}
    /\ pc[d] = "load" => runStatus[run[d]] \in Resumable

SerialInv ==
  OneDriver /\ Aligned /\ UnpostedInv /\ RejectedInv /\ SettledInv

(* Where no status write is lost, the status names the posting, too.       *)
PendingInv ==
  /\ \A r \in Runs : runStatus[r] \in Resumable => Unposted(r)
  /\ \A d \in Drivers : pc[d] \in InsidePosting => runStatus[run[d]] \notin Resumable
=============================================================================
