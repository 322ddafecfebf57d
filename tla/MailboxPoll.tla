---------------------------- MODULE MailboxPoll ----------------------------
(***************************************************************************)
(* poll_mailbox with the three mailbox clients, start_run, and the audit   *)
(* events of the runs it starts.  A poll fetches a batch of messages,      *)
(* turns every attachment into a run, logs what goes wrong with one of     *)
(* them, and marks the message processed.  Polls overlap (the endpoint has *)
(* no lock), die, and meet failures of the database, the graph and the     *)
(* mail provider; approvers decide on the runs meanwhile.                  *)
(*                                                                         *)
(* Of the graph this module keeps that it appends an event, that the run   *)
(* may come to wait for an approver before that event is written, and that *)
(* ainvoke returns or raises.  ApWorkflow has the rest.                    *)
(***************************************************************************)
EXTENDS AuditTrail

CONSTANTS
  Messages, Polls, Decisions,
  Inbox,       \* the messages in the order in which the provider lists them
  Names,       \* names of the file attachments of a message, in their order
  MessageId,   \* the id a message is marked by; a sidecar file may give it
  Providers,   \* values of mailbox.provider
  MaxAttachments,
  Limit,       \* max_messages_per_poll
  Mortal,      \* polls whose process may die
  MaxFaults    \* bound on what fails: transactions, ainvoke, requests, processes

ASSUME MailboxAssumption ==
  /\ Runs = Polls \X Messages \X (1 .. MaxAttachments)
  /\ Writers = Polls \cup Decisions /\ Polls \cap Decisions = {}
  /\ Inbox \in Seq(Messages)
  /\ \A i, j \in DOMAIN Inbox : Inbox[i] = Inbox[j] => i = j
  /\ Names \in [Messages -> Seq(STRING)] /\ MaxAttachments \in Nat
  /\ \A m \in Messages : Len(Names[m]) <= MaxAttachments
  /\ DOMAIN MessageId = Messages
  /\ Providers \subseteq {"local", "graph", "gmail"}
  /\ Limit \in Nat \ {0}
  /\ Mortal \subseteq Polls
  /\ MaxFaults \in Nat

VARIABLES
  provider,   \* mailbox.provider
  marked,     \* messages moved to processed/, or flagged as read
  reached,    \* workflow_runs, and how far each run got
  logged,     \* attachments of which a poll has logged that their run failed
  warned,     \* messages of which a poll has logged that it cannot mark them
  faults,     \* how much has failed
  pc,         \* where a poll or a decision is
  batch,      \* the messages a poll fetched, as positions in Inbox
  at,         \* the position and the attachment a poll is at
  seenDone    \* auxiliary: the polls that had ended when a poll fetched

mailVars == <<provider, marked>>
logVars == <<logged, warned>>
pollVars == <<batch, at, seenDone>>
vars == <<auditVars, mailVars, reached, logVars, faults, pc, pollVars>>

(* A file of the local folder is a message with one attachment.  Of the    *)
(* content of an attachment the model says nothing: Graph and Gmail write  *)
(* two of one name into one file before the first is read.                 *)
Attachments(m) ==
  IF provider = "local" /\ Names[m] # <<>> THEN <<Names[m][1]>> ELSE Names[m]

Message(p) == Inbox[at[p].message]

(* Where a poll is.  It starts one run there, whose id is new (uuid4): the *)
(* model names the run by this triple.                                     *)
Here(p) == <<p, Message(p), at[p].attachment>>
Fault == faults < MaxFaults /\ faults' = faults + 1
NoFault == UNCHANGED faults


MailInit ==
  /\ AuditInit
  /\ provider \in Providers
  /\ marked = {}
  /\ reached = [r \in Runs |-> "absent"]
  /\ logged = {} /\ warned = {}
  /\ faults = 0
  /\ pc = [w \in Writers |-> "idle"]
  /\ batch = [p \in Polls |-> {}]
  /\ at = [p \in Polls |-> [message |-> 0, attachment |-> 1]]
  /\ seenDone = [p \in Polls |-> {}]
-----------------------------------------------------------------------------
(* Fetching.  Nothing that happens between the listing and the last        *)
(* download changes what a poll downloads, so fetch_messages is one step.  *)

(* Mutant: the filter of the listing is lost.                              *)
UnfilteredListable(m) == provider = "local" => Attachments(m) # <<>>

(* Graph lists unread messages that have attachments, usable or not; the   *)
(* folder its supported files; the default Gmail query does not ask        *)
(* whether a message was read.                                             *)
Listable(m) ==
  /\ m \in marked => provider = "gmail"
  /\ provider = "local" => Attachments(m) # <<>>

(* The first Limit of them.                                                *)
Window ==
  LET listed == {i \in DOMAIN Inbox : Listable(Inbox[i])}
  IN {i \in listed : Cardinality({j \in listed : j < i}) < Limit}

(* The loop goes to the first message behind a position, or ends.          *)
GoBehind(p, i, fetched) ==
  LET later == {j \in fetched : j > i} IN
  \/ /\ later = {}
     /\ pc' = [pc EXCEPT ![p] = "done"]
     /\ UNCHANGED at
  \/ \E j \in later :
       /\ \A k \in later : j <= k
       /\ pc' = [pc EXCEPT ![p] = "attachment"]
       /\ at' = [at EXCEPT ![p] = [message |-> j, attachment |-> 1]]

(* The messages in skipped are those whose attachments Graph did not list. *)
Fetch(p) ==
  /\ pc[p] = "idle"
  /\ \E skipped \in SUBSET Window :
       LET usable == {i \in Window \ skipped : Attachments(Inbox[i]) # <<>>} IN
       /\ IF skipped = {} THEN NoFault ELSE provider = "graph" /\ Fault
       /\ batch' = [batch EXCEPT ![p] = usable]
       /\ GoBehind(p, 0, usable)
  /\ seenDone' = [seenDone EXCEPT ![p] = {q \in Polls : pc[q] = "done"}]
  /\ UNCHANGED <<auditVars, mailVars, reached, logVars>>

FetchFails(p) ==
  /\ pc[p] = "idle" /\ Fault
  /\ pc' = [pc EXCEPT ![p] = "failed"]
  /\ UNCHANGED <<auditVars, mailVars, reached, logVars, pollVars>>
-----------------------------------------------------------------------------
(* start_run for one attachment, and the loop around it.                   *)

NextAttachment(p) ==
  /\ at' = [at EXCEPT ![p].attachment = @ + 1]
  /\ pc' = [pc EXCEPT ![p] = "attachment"]
  /\ UNCHANGED <<batch, seenDone>>

(* Mutant: the exception leaves the loop, and with it the poll.            *)
LogFailureAndStop(p) ==
  /\ logged' = logged \cup {Here(p)}
  /\ pc' = [pc EXCEPT ![p] = "dead"]
  /\ UNCHANGED <<warned, pollVars>>

(* Mutant: the attachment is passed over without a word.                   *)
PassOver(p) == NextAttachment(p) /\ UNCHANGED logVars

LogFailure(p) ==
  /\ logged' = logged \cup {Here(p)}
  /\ UNCHANGED warned
  /\ NextAttachment(p)

AtAttachment(p) ==
  pc[p] = "attachment" /\ at[p].attachment \in DOMAIN Attachments(Message(p))

DocumentMissing(p) ==
  /\ AtAttachment(p)
  /\ provider = "local" /\ Message(p) \in marked
  /\ LogFailure(p) /\ NoFault
  /\ UNCHANGED <<auditVars, mailVars, reached>>

CreateRun(p) ==
  /\ AtAttachment(p) /\ NoFault
  /\ ~(provider = "local" /\ Message(p) \in marked)
  /\ reached[Here(p)] = "absent"
  /\ reached' = [reached EXCEPT ![Here(p)] = "received"]
  /\ pc' = [pc EXCEPT ![p] = "receipt"]
  /\ UNCHANGED <<auditVars, mailVars, logVars, pollVars>>

CreateFails(p) ==
  /\ AtAttachment(p) /\ Fault
  /\ ~(provider = "local" /\ Message(p) \in marked)
  /\ LogFailure(p)
  /\ UNCHANGED <<auditVars, mailVars, reached>>

NumberReceipt(p) ==
  /\ pc[p] = "receipt" /\ NoFault
  /\ ReadSequence(p, Here(p), "email_received")
  /\ UNCHANGED <<mailVars, reached, logVars, pc, pollVars>>

CommitReceipt(p) ==
  /\ pc[p] = "receipt" /\ CommitEvent(p) /\ NoFault
  /\ pc' = [pc EXCEPT ![p] = "graph"]
  /\ UNCHANGED <<mailVars, reached, logVars, pollVars>>

(* Mutant: the receipt is appended as the nodes append, failures ignored.  *)
ReceiptIgnored(p) ==
  /\ pc[p] = "receipt" /\ pending[p] # NoAppend /\ Fault
  /\ LoseEvent(p)
  /\ pc' = [pc EXCEPT ![p] = "graph"]
  /\ UNCHANGED <<mailVars, reached, logVars, pollVars>>

(* The run stays RECEIVED and is never driven; only the log tells of it.   *)
ReceiptFails(p) ==
  /\ pc[p] = "receipt" /\ pending[p] # NoAppend /\ Fault
  /\ LoseEvent(p)
  /\ LogFailure(p)
  /\ UNCHANGED <<mailVars, reached>>

(* The run is driven; it may come to wait for an approver, which           *)
(* raise_exception commits before it appends its event.                    *)
EnterGraph(p) ==
  /\ pc[p] = "graph" /\ NoFault
  /\ \E point \in {"driven", "waiting"} :
       reached' = [reached EXCEPT ![Here(p)] = point]
  /\ pc' = [pc EXCEPT ![p] = "node"]
  /\ UNCHANGED <<auditVars, mailVars, logVars, pollVars>>

NumberEvent(p) ==
  /\ pc[p] = "node" /\ NoFault
  /\ ReadSequence(p, Here(p), "node")
  /\ UNCHANGED <<mailVars, reached, logVars, pc, pollVars>>

(* _common.audit: a lost event is logged and the node goes on.  After its  *)
(* last event ainvoke returns.                                             *)
EventDone(p) ==
  /\ pc[p] = "node" /\ pending[p] # NoAppend
  /\ (CommitEvent(p) /\ NoFault) \/ (LoseEvent(p) /\ Fault)
  /\ NextAttachment(p)
  /\ UNCHANGED <<mailVars, reached, logVars>>

GraphRaises(p) ==
  /\ pc[p] \in {"graph", "node"} /\ pending[p] = NoAppend /\ Fault
  /\ LogFailure(p)
  /\ UNCHANGED <<auditVars, mailVars, reached>>
-----------------------------------------------------------------------------
(* mark_processed, whatever became of the runs.                            *)

AtMark(p) ==
  pc[p] = "attachment" /\ at[p].attachment \notin DOMAIN Attachments(Message(p))

NextMessage(p) ==
  /\ GoBehind(p, at[p].message, batch[p])
  /\ UNCHANGED <<batch, seenDone>>

(* The folder moves the first file with that id, in no particular order.   *)
MovedBy(id) ==
  LET found == {m \in Messages \ marked : MessageId[m] = id}
  IN IF found = {} THEN {{}} ELSE {{m} : m \in found}

MarkProcessed(p) ==
  /\ AtMark(p) /\ NoFault
  /\ IF provider = "local"
     THEN \E moved \in MovedBy(MessageId[Message(p)]) : marked' = marked \cup moved
     ELSE marked' = marked \cup {Message(p)}
  /\ NextMessage(p)
  /\ UNCHANGED <<auditVars, provider, reached, logVars>>

MarkRefused(p) ==
  /\ AtMark(p) /\ Fault /\ provider # "local"
  /\ warned' = warned \cup {<<p, Message(p)>>}
  /\ NextMessage(p)
  /\ UNCHANGED <<auditVars, mailVars, reached, logged>>

(* Only the Gmail client catches what the request, or the move, raises.    *)
MarkRaises(p) ==
  /\ AtMark(p) /\ Fault /\ provider # "gmail"
  /\ pc' = [pc EXCEPT ![p] = "failed"]
  /\ UNCHANGED <<auditVars, mailVars, reached, logVars, pollVars>>
-----------------------------------------------------------------------------
Die(p) ==
  /\ p \in Mortal /\ pc[p] \notin {"idle", "done", "failed", "dead"} /\ Fault
  /\ LoseEvent(p)
  /\ pc' = [pc EXCEPT ![p] = "dead"]
  /\ UNCHANGED <<mailVars, reached, logVars, pollVars>>

(* A decision drives a waiting run, which appends an event of its own.     *)
Decide(d) ==
  /\ pc[d] = "idle" /\ NoFault
  /\ \E r \in Runs :
       /\ reached[r] = "waiting"
       /\ ReadSequence(d, r, "human_decision")
  /\ pc' = [pc EXCEPT ![d] = "append"]
  /\ UNCHANGED <<mailVars, reached, logVars, pollVars>>

DecisionDone(d) ==
  /\ pc[d] = "append"
  /\ (CommitEvent(d) /\ NoFault) \/ (LoseEvent(d) /\ Fault)
  /\ pc' = [pc EXCEPT ![d] = "done"]
  /\ UNCHANGED <<mailVars, reached, logVars, pollVars>>

Poll(p) ==
  \/ Fetch(p) \/ FetchFails(p)
  \/ DocumentMissing(p) \/ CreateRun(p) \/ CreateFails(p)
  \/ NumberReceipt(p) \/ CommitReceipt(p) \/ ReceiptFails(p)
  \/ EnterGraph(p) \/ NumberEvent(p) \/ EventDone(p) \/ GraphRaises(p)
  \/ MarkProcessed(p) \/ MarkRefused(p) \/ MarkRaises(p)

MailNext ==
  \/ \E p \in Polls : Poll(p) \/ Die(p)
  \/ \E d \in Decisions : Decide(d) \/ DecisionDone(d)

MailSpec == MailInit /\ [][MailNext]_vars

(* asyncio keeps scheduling a poll that can continue.                      *)
FairMailSpec ==
  MailSpec /\ \A p \in Polls \ Mortal : WF_vars(Poll(p) /\ pc[p] # "idle")
-----------------------------------------------------------------------------
EventType == [sequence : Nat \ {0}, action : Actions, writer : Writers]

MailTypeOK ==
  /\ trail \in [Runs -> Seq(EventType)]
  /\ pending \in [Writers ->
       [run : Runs, sequence : Nat \ {0}, action : Actions] \cup {NoAppend}]
  /\ provider \in Providers
  /\ marked \subseteq Messages
  /\ reached \in [Runs -> {"absent", "received", "driven", "waiting"}]
  /\ logged \subseteq Polls \X Messages \X Nat
  /\ warned \subseteq Polls \X Messages
  /\ faults \in 0 .. MaxFaults
  /\ pc \in [Writers -> {"idle", "attachment", "receipt", "graph", "node", "append",
                         "done", "failed", "dead"}]
  /\ batch \in [Polls -> SUBSET DOMAIN Inbox]
  /\ at \in [Polls -> [message : Nat, attachment : Nat]]
  /\ seenDone \in [Polls -> SUBSET Polls]

Settled(m, n) ==
  \E p \in Polls :
    <<p, m, n>> \in logged \/ reached[<<p, m, n>>] \in {"driven", "waiting"}

(* No two messages share an id, as two files of one stem would that share  *)
(* a sidecar.                                                              *)
IdsAreUnique == \A m, o \in Messages : MessageId[m] = MessageId[o] => m = o

(* A message leaves the inbox only when each of its attachments has been   *)
(* through the graph or has a logged failure: neither a second poll nor a  *)
(* crash, nor a failing database, makes a message disappear unprocessed.   *)
MarkedIsAccountedFor ==
  \A m \in marked : \A n \in DOMAIN Attachments(m) : Settled(m, n)

(* The trail of a run begins with the receipt of its message, written by   *)
(* the poll that created it, and no run is driven without one: start_run   *)
(* lets that failure through, unlike the nodes.                            *)
ReceiptFirst ==
  \A r \in Runs :
    reached[r] \in {"driven", "waiting"} \/ trail[r] # <<>> =>
      /\ trail[r] # <<>>
      /\ trail[r][1].action = "email_received"
      /\ trail[r][1].writer = r[1]
      /\ \A i \in 2 .. Len(trail[r]) :
           /\ trail[r][i].action # "email_received"
           /\ trail[r][i].sequence > trail[r][1].sequence

(* An attachment runs again in a later poll, one that fetched after the    *)
(* earlier had ended, only if the provider refused the mark, or if it is   *)
(* Gmail, whose listing does not look at it.                               *)
NoReprocessing ==
  \A p, q \in Polls, m \in Messages, n \in 1 .. MaxAttachments :
    reached[<<p, m, n>>] # "absent" /\ reached[<<q, m, n>>] # "absent" /\ p \in seenDone[q]
      => provider = "gmail" \/ <<p, m>> \in warned

(* What a poll has fetched it settles and marks, unless its process dies   *)
(* or the provider fails: no failing run stops the loop.                   *)
BatchIsSettled ==
  \A p \in Polls \ Mortal, i \in DOMAIN Inbox :
    i \in batch[p] ~>
      \/ pc[p] = "failed"
      \/ /\ \A n \in DOMAIN Attachments(Inbox[i]) : Settled(Inbox[i], n)
         /\ Inbox[i] \in marked \/ <<p, Inbox[i]>> \in warned
=============================================================================
