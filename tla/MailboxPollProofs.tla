------------------------- MODULE MailboxPollProofs -------------------------
(***************************************************************************)
(* Proofs about AuditTrail, for any runs and writers, and about            *)
(* MailboxPoll, for any inbox, polls, decisions and number of failures.    *)
(*                                                                         *)
(* A number that was read and not yet written has a predecessor in the     *)
(* trail (or is the first), and what its writer has committed is below it; *)
(* both survive whatever the other writers do, because a trail only grows. *)
(* MailboxPoll refines AuditTrail, so what is proved of a trail holds of   *)
(* the trails of the runs.  For the messages, the argument is the loop     *)
(* invariant of poll_mailbox: behind the position of a poll every          *)
(* attachment is settled and every message is handled.                     *)
(***************************************************************************)
EXTENDS MailboxPoll, TLAPS

Event == [sequence : Nat \ {0}, action : Actions, writer : Writers]
Numbered == [run : Runs, sequence : Nat \ {0}, action : Actions]

AuditTypeOK ==
  /\ trail \in [Runs -> Seq(Event)]
  /\ pending \in [Writers -> Numbered \cup {NoAppend}]

(* A pending number is next to one in use, or the first.                   *)
PendingInv ==
  \A w \in Writers : pending[w] # NoAppend =>
    \/ pending[w].sequence = 1
    \/ \E i \in DOMAIN trail[pending[w].run] :
         trail[pending[w].run][i].sequence + 1 = pending[w].sequence

(* It is above everything its writer has committed to that run.            *)
OwnInv ==
  \A w \in Writers : pending[w] # NoAppend =>
    \A i \in DOMAIN trail[pending[w].run] :
      trail[pending[w].run][i].writer = w =>
        trail[pending[w].run][i].sequence < pending[w].sequence

AuditInv ==
  AuditTypeOK /\ SequencesDense /\ PendingInv /\ WriterOrdered /\ OwnInv
-----------------------------------------------------------------------------
(* With the numbers 1..k in use, the next one is k + 1.                    *)
LEMMA NextIsAbove ==
  ASSUME NEW r \in Runs, NEW k \in Nat, Numbers(r) = 1 .. k
  PROVE  NextSequence(r) = k + 1
  <1> DEFINE S == Numbers(r) \cup {0}
  <1>1. S = 0 .. k
    OBVIOUS
  <1>2. k \in S /\ \A y \in S : k >= y
    BY <1>1
  <1>3. \A x \in S : (\A y \in S : x >= y) => x = k
    BY <1>1
  <1>4. Max(S) = k
    <2> HIDE DEF S
    <2> QED BY <1>2, <1>3 DEF Max
  <1> QED BY <1>4 DEF NextSequence

LEMMA AuditInitInv ==
  ASSUME AuditInit
  PROVE  AuditInv
  <1>1. AuditTypeOK
    BY DEF AuditInit, AuditTypeOK
  <1>2. SequencesDense
    BY DEF AuditInit, SequencesDense, Numbers
  <1> QED BY <1>1, <1>2 DEF AuditInit, AuditInv, PendingInv, WriterOrdered, OwnInv

(* Numbering an event changes no trail, and the number has what PendingInv *)
(* and OwnInv ask of it.                                                   *)
LEMMA ReadStep ==
  ASSUME AuditInv, NEW w \in Writers, NEW r \in Runs, NEW action \in Actions,
         ReadSequence(w, r, action)
  PROVE  AuditInv'
  <1> USE DEF AuditInv
  <1>1. PICK k \in 0 .. Len(trail[r]) : Numbers(r) = 1 .. k
    BY DEF SequencesDense
  <1>2. k \in Nat /\ NextSequence(r) = k + 1
    <2>1. trail[r] \in Seq(Event)
      BY DEF AuditTypeOK
    <2>2. k \in Nat
      BY <1>1, <2>1
    <2> QED BY <1>1, <2>2, NextIsAbove
  <1>3. /\ pending' = [pending EXCEPT ![w] =
             [run |-> r, sequence |-> k + 1, action |-> action]]
        /\ UNCHANGED trail
    BY <1>2 DEF ReadSequence
  <1>4. [run |-> r, sequence |-> k + 1, action |-> action] \in Numbered
    BY <1>2 DEF Numbered
  <1>5. AuditTypeOK'
    BY <1>3, <1>4 DEF AuditTypeOK
  <1>6. SequencesDense' /\ WriterOrdered'
    BY <1>3 DEF SequencesDense, WriterOrdered, Numbers
  <1>7. \A i \in DOMAIN trail[r] : trail[r][i].sequence \in 1 .. k
    BY <1>1 DEF Numbers
  <1>8. k # 0 => \E i \in DOMAIN trail[r] : trail[r][i].sequence = k
    <2>1. k # 0 => k \in 1 .. k
      BY <1>2
    <2> QED BY <1>1, <2>1 DEF Numbers
  <1>9. PendingInv'
    <2> SUFFICES ASSUME NEW v \in Writers, pending'[v] # NoAppend
                 PROVE  \/ pending'[v].sequence = 1
                        \/ \E i \in DOMAIN trail[pending'[v].run] :
                             trail[pending'[v].run][i].sequence + 1 = pending'[v].sequence
      BY <1>3 DEF PendingInv
    <2>1. CASE v = w
      <3>1. pending'[v] = [run |-> r, sequence |-> k + 1, action |-> action]
        BY <1>3, <2>1 DEF AuditTypeOK
      <3> QED BY <1>2, <1>8, <3>1
    <2>2. CASE v # w
      <3>1. pending'[v] = pending[v]
        BY <1>3, <2>2 DEF AuditTypeOK
      <3> QED BY <3>1 DEF PendingInv
    <2> QED BY <2>1, <2>2
  <1>10. OwnInv'
    <2> SUFFICES ASSUME NEW v \in Writers, pending'[v] # NoAppend,
                        NEW i \in DOMAIN trail[pending'[v].run],
                        trail[pending'[v].run][i].writer = v
                 PROVE  trail[pending'[v].run][i].sequence < pending'[v].sequence
      BY <1>3 DEF OwnInv
    <2>1. CASE v = w
      <3>1. pending'[v] = [run |-> r, sequence |-> k + 1, action |-> action]
        BY <1>3, <2>1 DEF AuditTypeOK
      <3> QED BY <1>2, <1>7, <3>1
    <2>2. CASE v # w
      <3>1. pending'[v] = pending[v]
        BY <1>3, <2>2 DEF AuditTypeOK
      <3> QED BY <3>1 DEF OwnInv
    <2> QED BY <2>1, <2>2
  <1> QED BY <1>5, <1>6, <1>9, <1>10

(* A committed event fills in the next number, or repeats one in use.      *)
LEMMA CommitStep ==
  ASSUME AuditInv, NEW w \in Writers, CommitEvent(w)
  PROVE  AuditInv'
  <1> DEFINE r == pending[w].run
             new == [sequence |-> pending[w].sequence, action |-> pending[w].action,
                     writer |-> w]
             last == Len(trail[r]) + 1
             Used(q) == {trail'[q][i].sequence : i \in DOMAIN trail'[q]}
  <1> USE DEF AuditInv
  <1>1. pending[w] \in Numbered /\ r \in Runs
    BY DEF CommitEvent, AuditTypeOK, Numbered
  <1>2. new \in Event
    BY <1>1 DEF Numbered, Event
  <1>3. /\ trail' = [trail EXCEPT ![r] = Append(@, new)]
        /\ pending' = [pending EXCEPT ![w] = NoAppend]
    BY DEF CommitEvent
  <1>4. trail[r] \in Seq(Event)
    BY <1>1 DEF AuditTypeOK
  <1> HIDE DEF new, r
  <1>5. /\ trail'[r] = Append(trail[r], new)
        /\ \A q \in Runs \ {r} : trail'[q] = trail[q]
    BY <1>1, <1>3 DEF AuditTypeOK
  <1>6. /\ Len(trail[r]) \in Nat
        /\ DOMAIN trail[r] = 1 .. Len(trail[r])
        /\ DOMAIN trail'[r] = 1 .. last
        /\ \A i \in DOMAIN trail[r] : trail'[r][i] = trail[r][i]
        /\ trail'[r][last] = new
    BY <1>2, <1>4, <1>5
  <1>7. \A i \in DOMAIN trail'[r] : i = last \/ i \in DOMAIN trail[r]
    BY <1>6
  <1>8. \A q \in Runs : \A i \in DOMAIN trail[q] :
          i \in DOMAIN trail'[q] /\ trail'[q][i] = trail[q][i]
    BY <1>5, <1>6
  <1>9. \A v \in Writers : pending'[v] # NoAppend =>
          v # w /\ pending'[v] = pending[v] /\ pending[v].run \in Runs
                /\ pending[v].sequence \in Nat \ {0}
    BY <1>3 DEF AuditTypeOK, Numbered
  <1>10. AuditTypeOK'
    <2>1. Append(trail[r], new) \in Seq(Event)
      BY <1>2, <1>4
    <2>2. trail' \in [Runs -> Seq(Event)]
      BY <1>3, <2>1 DEF AuditTypeOK
    <2>3. pending' \in [Writers -> Numbered \cup {NoAppend}]
      BY <1>3 DEF AuditTypeOK
    <2> QED BY <2>2, <2>3 DEF AuditTypeOK
  <1>11. SequencesDense'
    <2> SUFFICES ASSUME NEW q \in Runs
                 PROVE  \E k \in 0 .. Len(trail'[q]) : Used(q) = 1 .. k
      BY DEF SequencesDense, Numbers
    <2>1. PICK k \in 0 .. Len(trail[q]) : Numbers(q) = 1 .. k
      BY DEF SequencesDense
    <2>2. CASE q # r
      <3>1. trail'[q] = trail[q]
        BY <1>5, <2>2
      <3> QED BY <2>1, <3>1 DEF Numbers
    <2>3. CASE q = r
      <3>1. Len(trail'[q]) = Len(trail[q]) + 1 /\ Len(trail[q]) \in Nat
        BY <1>2, <1>4, <1>5, <2>3
      <3>2. Used(q) = Numbers(q) \cup {new.sequence}
        <4>1. DOMAIN trail'[q] = DOMAIN trail[q] \cup {last}
          BY <1>6, <1>7, <2>3
        <4>2. \A i \in DOMAIN trail[q] : trail'[q][i].sequence = trail[q][i].sequence
          BY <1>6, <2>3
        <4>3. trail'[q][last].sequence = new.sequence
          BY <1>6, <2>3
        <4> HIDE DEF last
        <4> QED BY <4>1, <4>2, <4>3 DEF Numbers
      <3> HIDE DEF Used
      <3>3. new.sequence \in Nat \ {0}
        BY <1>2 DEF Event
      <3>4. new.sequence = 1 \/ new.sequence - 1 \in Numbers(q)
        <4>1. new.sequence = pending[w].sequence
          BY DEF new
        <4>2. \/ pending[w].sequence = 1
              \/ \E i \in DOMAIN trail[r] : trail[r][i].sequence + 1 = pending[w].sequence
          BY DEF PendingInv, CommitEvent, r
        <4>3. \A i \in DOMAIN trail[r] : trail[r][i].sequence \in Nat
          <5>1. \A i \in DOMAIN trail[r] : trail[r][i] \in Event
            BY <1>4
          <5> QED BY <5>1 DEF Event
        <4>4. CASE pending[w].sequence = 1
          BY <4>1, <4>4
        <4>5. ASSUME NEW i \in DOMAIN trail[r],
                     trail[r][i].sequence + 1 = pending[w].sequence
              PROVE  new.sequence - 1 \in Numbers(q)
          <5>1. new.sequence - 1 = trail[r][i].sequence
            BY <4>1, <4>3, <4>5
          <5> QED BY <2>3, <5>1 DEF Numbers
        <4> QED BY <4>2, <4>4, <4>5
      <3>5. /\ k \in Nat
            /\ new.sequence \in 1 .. k \/ new.sequence = k + 1
        BY <2>1, <3>1, <3>3, <3>4
      <3>6. CASE new.sequence \in 1 .. k
        BY <2>1, <3>1, <3>2, <3>6
      <3>7. CASE new.sequence = k + 1
        <4>1. Used(q) = 1 .. k + 1
          BY <2>1, <3>2, <3>5, <3>7
        <4> QED BY <2>1, <3>1, <3>5, <4>1
      <3> QED BY <3>5, <3>6, <3>7
    <2> QED BY <2>2, <2>3
  <1>12. PendingInv'
    BY <1>8, <1>9 DEF PendingInv
  <1>13. WriterOrdered'
    <2> SUFFICES ASSUME NEW q \in Runs, NEW i \in DOMAIN trail'[q],
                        NEW j \in DOMAIN trail'[q], i < j,
                        trail'[q][i].writer = trail'[q][j].writer
                 PROVE  trail'[q][i].sequence < trail'[q][j].sequence
      BY DEF WriterOrdered
    <2>1. CASE q # r
      BY <1>5, <2>1 DEF WriterOrdered
    <2>2. CASE q = r /\ j \in DOMAIN trail[r]
      <3>1. i \in DOMAIN trail[r]
        BY <1>6, <1>7, <2>2
      <3> QED BY <1>1, <1>6, <2>2, <3>1 DEF WriterOrdered
    <2>3. CASE q = r /\ j = last
      <3>1. i \in DOMAIN trail[r]
        BY <1>6, <1>7, <2>3
      <3>2. trail[r][i].writer = w
        BY <1>6, <2>3, <3>1 DEF new
      <3>3. trail[r][i].sequence < pending[w].sequence
        BY <3>1, <3>2 DEF OwnInv, CommitEvent, r
      <3> QED BY <1>6, <2>3, <3>1, <3>3 DEF new
    <2> QED BY <1>7, <2>1, <2>2, <2>3
  <1>14. OwnInv'
    <2> SUFFICES ASSUME NEW v \in Writers, pending'[v] # NoAppend,
                        NEW i \in DOMAIN trail'[pending'[v].run],
                        trail'[pending'[v].run][i].writer = v
                 PROVE  trail'[pending'[v].run][i].sequence < pending'[v].sequence
      BY DEF OwnInv
    <2>1. v # w /\ pending'[v] = pending[v] /\ pending[v].run \in Runs
      BY <1>9
    <2>2. i \in DOMAIN trail[pending[v].run]
      BY <1>5, <1>6, <1>7, <2>1 DEF new
    <2> QED BY <1>8, <2>1, <2>2 DEF OwnInv
  <1> QED BY <1>10, <1>11, <1>12, <1>13, <1>14

LEMMA LoseStep ==
  ASSUME AuditInv, NEW w \in Writers, LoseEvent(w)
  PROVE  AuditInv'
  <1> USE DEF AuditInv, LoseEvent
  <1>1. /\ AuditTypeOK' /\ SequencesDense' /\ WriterOrdered'
    BY DEF AuditTypeOK, SequencesDense, WriterOrdered, Numbers
  <1>2. \A v \in Writers : pending'[v] # NoAppend => pending'[v] = pending[v]
    BY DEF AuditTypeOK
  <1> QED BY <1>1, <1>2 DEF PendingInv, OwnInv

LEMMA AuditStep ==
  ASSUME AuditInv, [AuditNext]_auditVars
  PROVE  AuditInv'
  <1>1. CASE AuditNext
    BY <1>1, ReadStep, CommitStep, LoseStep DEF AuditNext
  <1>2. CASE UNCHANGED auditVars
    BY <1>2 DEF AuditInv, AuditTypeOK, SequencesDense, PendingInv, WriterOrdered,
                OwnInv, Numbers, auditVars
  <1> QED BY <1>1, <1>2

(* The invariant of the trail, under any overlap and loss of appends.      *)
THEOREM AuditInvariant == AuditSpec => []AuditInv
  BY AuditInitInv, AuditStep, PTL DEF AuditSpec

(* The numbers of a run are 1..k: what append_audit reads before it writes *)
(* is never stale enough to leave a gap.                                   *)
THEOREM NumbersAreDense == AuditSpec => []SequencesDense
  <1>1. AuditInv => SequencesDense
    BY DEF AuditInv
  <1> QED BY <1>1, AuditInvariant, PTL

(* The events one coroutine appends to a run are numbered in their order.  *)
THEOREM WritersAreOrdered == AuditSpec => []WriterOrdered
  <1>1. AuditInv => WriterOrdered
    BY DEF AuditInv
  <1> QED BY <1>1, AuditInvariant, PTL
-----------------------------------------------------------------------------
(* Where a poll is, and what it has behind it.                             *)
InRun == {"receipt", "graph", "node"}
Walking == InRun \cup {"attachment"}
Driven == {"driven", "waiting"}

(* A poll that walks is at a message of its batch, and one that is in a    *)
(* run at an attachment of that message.                                   *)
PlaceInv ==
  \A p \in Polls :
    /\ pc[p] \in Walking => at[p].message \in batch[p] /\ at[p].attachment # 0
    /\ pc[p] \in InRun => at[p].attachment \in DOMAIN Attachments(Message(p))

(* The attachments a poll has passed are settled.                          *)
PassedInv ==
  \A p \in Polls : pc[p] \in Walking =>
    \A n \in DOMAIN Attachments(Message(p)) :
      n < at[p].attachment => Settled(Message(p), n)

(* A poll in the graph drives a run, and a run is driven from there on.    *)
DrivenInv ==
  \A p \in Polls : pc[p] = "node" => reached[Here(p)] \in Driven
-----------------------------------------------------------------------------
LEMMA AttachmentsFit ==
  ASSUME NEW m \in Messages
  PROVE  /\ DOMAIN Attachments(m) = 1 .. Len(Attachments(m))
         /\ Len(Attachments(m)) \in 0 .. MaxAttachments
  <1>1. Names[m] \in Seq(STRING) /\ MaxAttachments \in Nat /\ Len(Names[m]) <= MaxAttachments
    BY MailboxAssumption
  <1>2. CASE Attachments(m) = Names[m]
    BY <1>1, <1>2
  <1>3. CASE Names[m] # <<>> /\ Attachments(m) = <<Names[m][1]>>
    <2>1. Len(Names[m]) \in Nat \ {0}
      BY <1>1, <1>3
    <2>2. Len(Attachments(m)) = 1 /\ DOMAIN Attachments(m) = 1 .. 1
      BY <1>3
    <2> QED BY <1>1, <2>1, <2>2
  <1> QED BY <1>2, <1>3 DEF Attachments

(* A poll that walks is at a message, and the run it starts, or drives, is *)
(* one of Runs.                                                            *)
LEMMA MessageIsOne ==
  ASSUME MailTypeOK, PlaceInv, NEW p \in Polls, pc[p] \in Walking
  PROVE  Message(p) \in Messages /\ at[p].message \in DOMAIN Inbox
  <1>1. at[p].message \in DOMAIN Inbox
    BY DEF MailTypeOK, PlaceInv
  <1> QED BY <1>1, MailboxAssumption DEF Message

LEMMA HereIsRun ==
  ASSUME MailTypeOK, PlaceInv, NEW p \in Polls,
         AtAttachment(p) \/ pc[p] \in InRun
  PROVE  Here(p) \in Runs /\ Here(p)[1] = p
  <1>1. pc[p] \in Walking /\ at[p].attachment \in DOMAIN Attachments(Message(p))
    BY DEF AtAttachment, PlaceInv, Walking
  <1>2. Message(p) \in Messages
    BY <1>1, MessageIsOne
  <1>3. at[p].attachment \in 1 .. MaxAttachments
    BY <1>1, <1>2, AttachmentsFit, MailboxAssumption
  <1> QED BY <1>2, <1>3, MailboxAssumption DEF Here

(* Every step is a step of the audit trail, or leaves it alone.            *)
LEMMA AuditFrame ==
  ASSUME MailTypeOK, PlaceInv, [MailNext]_vars
  PROVE  [AuditNext]_auditVars
  <1> USE DEF auditVars
  <1>1. Polls \subseteq Writers /\ Decisions \subseteq Writers
    BY MailboxAssumption
  <1>2. ASSUME NEW p \in Polls, Poll(p)
        PROVE  [AuditNext]_auditVars
    <2>1. CASE NumberReceipt(p)
      <3>1. Here(p) \in Runs
        BY <2>1, HereIsRun DEF NumberReceipt, InRun
      <3> QED BY <1>1, <2>1, <3>1 DEF NumberReceipt, AuditNext, Actions
    <2>2. CASE NumberEvent(p)
      <3>1. Here(p) \in Runs
        BY <2>2, HereIsRun DEF NumberEvent, InRun
      <3> QED BY <1>1, <2>2, <3>1 DEF NumberEvent, AuditNext, Actions
    <2>3. CASE CommitReceipt(p) \/ ReceiptFails(p) \/ EventDone(p)
      BY <1>1, <2>3 DEF CommitReceipt, ReceiptFails, EventDone, AuditNext
    <2>4. CASE Fetch(p) \/ FetchFails(p)
      BY <2>4 DEF Fetch, FetchFails
    <2>5. CASE DocumentMissing(p) \/ CreateRun(p) \/ CreateFails(p)
      BY <2>5 DEF DocumentMissing, CreateRun, CreateFails
    <2>6. CASE EnterGraph(p) \/ GraphRaises(p)
      BY <2>6 DEF EnterGraph, GraphRaises
    <2>7. CASE MarkProcessed(p) \/ MarkRefused(p) \/ MarkRaises(p)
      BY <2>7 DEF MarkProcessed, MarkRefused, MarkRaises
    <2> QED BY <1>2, <2>1, <2>2, <2>3, <2>4, <2>5, <2>6, <2>7 DEF Poll
  <1>3. ASSUME NEW p \in Polls, Die(p)
        PROVE  [AuditNext]_auditVars
    BY <1>1, <1>3 DEF Die, AuditNext
  <1>4. ASSUME NEW d \in Decisions, Decide(d) \/ DecisionDone(d)
        PROVE  [AuditNext]_auditVars
    BY <1>1, <1>4 DEF Decide, DecisionDone, AuditNext, Actions
  <1>5. CASE UNCHANGED vars
    BY <1>5 DEF vars
  <1> QED BY <1>2, <1>3, <1>4, <1>5 DEF MailNext
-----------------------------------------------------------------------------
LEMMA GoBehindStep ==
  ASSUME MailTypeOK, NEW p \in Polls, NEW i, NEW S \in SUBSET DOMAIN Inbox,
         GoBehind(p, i, S)
  PROVE  /\ pc' \in [Writers -> {"idle", "attachment", "receipt", "graph", "node", "append",
                                 "done", "failed", "dead"}]
         /\ at' \in [Polls -> [message : Nat, attachment : Nat]]
         /\ \A q \in Writers \ {p} : pc'[q] = pc[q]
         /\ \A q \in Polls \ {p} : at'[q] = at[q]
         /\ \/ pc'[p] = "done" /\ \A j \in S : ~(j > i)
            \/ /\ pc'[p] = "attachment"
               /\ at'[p].message \in S /\ at'[p].message > i /\ at'[p].attachment = 1
               /\ \A j \in S : j > i => at'[p].message <= j
  <1>1. p \in Writers
    BY MailboxAssumption
  <1>2. \A j \in DOMAIN Inbox : j \in Nat
    BY MailboxAssumption
  <1>3. CASE pc' = [pc EXCEPT ![p] = "done"] /\ UNCHANGED at /\ {j \in S : j > i} = {}
    BY <1>1, <1>3 DEF MailTypeOK
  <1>4. ASSUME NEW j \in S, j > i, \A k \in S : k > i => j <= k,
               pc' = [pc EXCEPT ![p] = "attachment"],
               at' = [at EXCEPT ![p] = [message |-> j, attachment |-> 1]]
        PROVE  /\ pc' \in [Writers -> {"idle", "attachment", "receipt", "graph", "node",
                                       "append", "done", "failed", "dead"}]
               /\ at' \in [Polls -> [message : Nat, attachment : Nat]]
               /\ \A q \in Writers \ {p} : pc'[q] = pc[q]
               /\ \A q \in Polls \ {p} : at'[q] = at[q]
               /\ pc'[p] = "attachment"
               /\ at'[p].message \in S /\ at'[p].message > i /\ at'[p].attachment = 1
               /\ \A k \in S : k > i => at'[p].message <= k
    <2>1. [message |-> j, attachment |-> 1] \in [message : Nat, attachment : Nat]
      BY <1>2
    <2>2. at'[p] = [message |-> j, attachment |-> 1]
      BY <1>4 DEF MailTypeOK
    <2>3. /\ at' \in [Polls -> [message : Nat, attachment : Nat]]
          /\ \A q \in Polls \ {p} : at'[q] = at[q]
      BY <1>4, <2>1 DEF MailTypeOK
    <2> QED BY <1>1, <1>4, <2>2, <2>3 DEF MailTypeOK
  <1> QED BY <1>3, <1>4 DEF GoBehind

(* What a step of one poll, or of a decision, leaves alone; runs, logs and *)
(* marks only gain.                                                        *)
LEMMA PollFrame ==
  ASSUME MailTypeOK, PlaceInv, DrivenInv, NEW p \in Polls, Poll(p) \/ Die(p)
  PROVE  /\ provider' = provider
         /\ \A q \in Writers \ {p} : pc'[q] = pc[q]
         /\ \A q \in Polls \ {p} : /\ at'[q] = at[q] /\ batch'[q] = batch[q]
                                   /\ seenDone'[q] = seenDone[q]
         /\ \A q \in Writers \ {p} : pending'[q] = pending[q]
         /\ marked \subseteq marked' /\ logged \subseteq logged' /\ warned \subseteq warned'
         /\ \A r \in Runs : r[1] # p => reached'[r] = reached[r]
         /\ \A r \in Runs : reached[r] # "absent" => reached'[r] # "absent"
         /\ \A r \in Runs : reached[r] \in Driven => reached'[r] \in Driven
         /\ \A r \in Runs : r # Here(p) => reached'[r] = reached[r]
  <1>1. p \in Writers
    BY MailboxAssumption
  <1> DEFINE Others == /\ \A q \in Writers \ {p} : pc'[q] = pc[q]
                       /\ \A q \in Polls \ {p} : /\ at'[q] = at[q] /\ batch'[q] = batch[q]
                                                 /\ seenDone'[q] = seenDone[q]
                       /\ \A q \in Writers \ {p} : pending'[q] = pending[q]
  <1> USE DEF mailVars, logVars, auditVars, pollVars, LogFailure, NextAttachment
  <1>2. CASE Fetch(p)
    <2>1. PICK S \in SUBSET DOMAIN Inbox :
             batch' = [batch EXCEPT ![p] = S] /\ GoBehind(p, 0, S)
      <3>1. Window \subseteq DOMAIN Inbox
        BY DEF Window
      <3> QED BY <1>2, <3>1 DEF Fetch
    <2>2. Others
      BY <1>2, <2>1, GoBehindStep DEF Fetch, MailTypeOK
    <2> QED BY <1>2, <2>2 DEF Fetch, Driven
  <1>3. CASE FetchFails(p) \/ MarkRaises(p)
    BY <1>1, <1>3 DEF FetchFails, MarkRaises, MailTypeOK, Driven
  <1>4. CASE DocumentMissing(p) \/ CreateFails(p) \/ GraphRaises(p)
    BY <1>1, <1>4 DEF DocumentMissing, CreateFails, GraphRaises, MailTypeOK, Driven
  <1>5. CASE CreateRun(p)
    <2>1. Here(p) \in Runs /\ Here(p)[1] = p
      BY <1>5, HereIsRun DEF CreateRun
    <2> QED BY <1>1, <1>5, <2>1 DEF CreateRun, MailTypeOK, Driven
  <1>6. CASE NumberReceipt(p) \/ NumberEvent(p)
    BY <1>1, <1>6 DEF NumberReceipt, NumberEvent, ReadSequence, MailTypeOK, Driven
  <1>7. CASE CommitReceipt(p) \/ ReceiptFails(p) \/ EventDone(p)
    BY <1>1, <1>7 DEF CommitReceipt, ReceiptFails, EventDone, CommitEvent, LoseEvent,
                      MailTypeOK, Driven
  <1>8. CASE EnterGraph(p)
    <2>1. Here(p) \in Runs /\ Here(p)[1] = p
      BY <1>8, HereIsRun DEF EnterGraph, InRun
    <2>2. PICK point \in {"driven", "waiting"} : reached' = [reached EXCEPT ![Here(p)] = point]
      BY <1>8 DEF EnterGraph
    <2>3. reached'[Here(p)] = point /\ \A r \in Runs : r # Here(p) => reached'[r] = reached[r]
      BY <2>1, <2>2 DEF MailTypeOK
    <2> QED BY <1>1, <1>8, <2>1, <2>3 DEF EnterGraph, MailTypeOK, Driven
  <1>9. CASE MarkProcessed(p) \/ MarkRefused(p)
    <2>1. Others
      <3>1. GoBehind(p, at[p].message, batch[p]) /\ UNCHANGED <<batch, seenDone, auditVars>>
        BY <1>9 DEF MarkProcessed, MarkRefused, NextMessage
      <3>2. batch[p] \in SUBSET DOMAIN Inbox
        BY DEF MailTypeOK
      <3> QED BY <3>1, <3>2, GoBehindStep
    <2> QED BY <1>9, <2>1 DEF MarkProcessed, MarkRefused, Driven
  <1>10. CASE Die(p)
    BY <1>1, <1>10 DEF Die, LoseEvent, MailTypeOK, Driven
  <1> QED BY <1>2, <1>3, <1>4, <1>5, <1>6, <1>7, <1>8, <1>9, <1>10 DEF Poll

LEMMA DecisionFrame ==
  ASSUME MailTypeOK, NEW d \in Decisions, Decide(d) \/ DecisionDone(d)
  PROVE  /\ UNCHANGED <<mailVars, reached, logVars, pollVars>>
         /\ \A q \in Polls : pc'[q] = pc[q] /\ pending'[q] = pending[q]
         /\ \A q \in Writers \ {d} : pending'[q] = pending[q]
  <1>1. d \in Writers /\ d \notin Polls /\ Polls \subseteq Writers
    BY MailboxAssumption
  <1> QED BY <1>1 DEF Decide, DecisionDone, ReadSequence, CommitEvent, LoseEvent, MailTypeOK
-----------------------------------------------------------------------------
(* Settled after the step; settled is for good.                                                    *)
SettledNext(m, n) ==
  \E p \in Polls : <<p, m, n>> \in logged' \/ reached'[<<p, m, n>>] \in Driven

LEMMA SettledStays ==
  ASSUME MailTypeOK, PlaceInv, DrivenInv, [MailNext]_vars,
         NEW m, NEW n, Settled(m, n), NEW i \in 1 .. MaxAttachments, m \in Messages, n = i
  PROVE  SettledNext(m, n)
  <1>1. PICK p \in Polls : <<p, m, n>> \in logged \/ reached[<<p, m, n>>] \in Driven
    BY DEF Settled, Driven
  <1>2. <<p, m, n>> \in Runs
    BY MailboxAssumption
  <1>3. <<p, m, n>> \in logged' \/ reached'[<<p, m, n>>] \in Driven
    <2>1. CASE \E q \in Polls : Poll(q) \/ Die(q)
      BY <1>1, <1>2, <2>1, PollFrame
    <2>2. CASE \E d \in Decisions : Decide(d) \/ DecisionDone(d)
      BY <1>1, <1>2, <2>2, DecisionFrame DEF logVars
    <2>3. CASE UNCHANGED vars
      BY <1>1, <2>3 DEF vars, logVars
    <2> QED BY <2>1, <2>2, <2>3 DEF MailNext
  <1> QED BY <1>3 DEF SettledNext

LEMMA TypeStep ==
  ASSUME MailTypeOK, PlaceInv, DrivenInv, AuditInv, [MailNext]_vars
  PROVE  MailTypeOK'
  <1> USE DEF mailVars, logVars, auditVars, pollVars, LogFailure, NextAttachment
  <1>1. trail' \in [Runs -> Seq(EventType)] /\
        pending' \in [Writers ->
           [run : Runs, sequence : Nat \ {0}, action : Actions] \cup {NoAppend}]
    <2>1. AuditInv'
      BY AuditFrame, AuditStep
    <2> QED BY <2>1 DEF AuditInv, AuditTypeOK, Event, Numbered, EventType
  <1> DEFINE Rest ==
        /\ provider' \in Providers
        /\ marked' \subseteq Messages
        /\ reached' \in [Runs -> {"absent", "received", "driven", "waiting"}]
        /\ logged' \subseteq Polls \X Messages \X Nat
        /\ warned' \subseteq Polls \X Messages
        /\ faults' \in 0 .. MaxFaults
        /\ pc' \in [Writers -> {"idle", "attachment", "receipt", "graph", "node", "append",
                                "done", "failed", "dead"}]
        /\ batch' \in [Polls -> SUBSET DOMAIN Inbox]
        /\ at' \in [Polls -> [message : Nat, attachment : Nat]]
        /\ seenDone' \in [Polls -> SUBSET Polls]
  <1>2. Polls \subseteq Writers /\ Decisions \subseteq Writers /\ MaxFaults \in Nat
    BY MailboxAssumption
  <1>3. faults' = faults \/ (faults < MaxFaults /\ faults' = faults + 1)
          => faults' \in 0 .. MaxFaults
    BY <1>2 DEF MailTypeOK
  <1>4. ASSUME NEW p \in Polls, LogFailure(p), pc[p] \in Walking
        PROVE  /\ logged' \subseteq Polls \X Messages \X Nat
               /\ pc' \in [Writers -> {"idle", "attachment", "receipt", "graph", "node",
                                       "append", "done", "failed", "dead"}]
               /\ at' \in [Polls -> [message : Nat, attachment : Nat]]
    <2>1. Message(p) \in Messages
      BY <1>4, MessageIsOne
    <2>2. at[p] \in [message : Nat, attachment : Nat]
      BY DEF MailTypeOK
    <2>3. Here(p) \in Polls \X Messages \X Nat
      BY <2>1, <2>2 DEF Here
    <2>4. [at[p] EXCEPT !.attachment = @ + 1] \in [message : Nat, attachment : Nat]
      BY <2>2
    <2> QED BY <1>2, <1>4, <2>3, <2>4 DEF MailTypeOK
  <1>5. ASSUME NEW p \in Polls, Poll(p) \/ Die(p)
        PROVE  Rest
    <2>1. CASE Fetch(p)
      <3>1. PICK S \in SUBSET DOMAIN Inbox :
               batch' = [batch EXCEPT ![p] = S] /\ GoBehind(p, 0, S)
        <4>1. Window \subseteq DOMAIN Inbox
          BY DEF Window
        <4> QED BY <2>1, <4>1 DEF Fetch
      <3> HIDE DEF Rest
      <3>2. /\ pc' \in [Writers -> {"idle", "attachment", "receipt", "graph", "node", "append",
                                    "done", "failed", "dead"}]
            /\ at' \in [Polls -> [message : Nat, attachment : Nat]]
        BY <3>1, GoBehindStep
      <3>3. faults' \in 0 .. MaxFaults
        BY <1>3, <2>1 DEF Fetch, Fault, NoFault
      <3> QED BY <2>1, <3>1, <3>2, <3>3 DEF Fetch, MailTypeOK, Rest
    <2>2. CASE FetchFails(p) \/ MarkRaises(p)
      BY <1>2, <1>3, <2>2 DEF FetchFails, MarkRaises, Fault, MailTypeOK
    <2>3. CASE DocumentMissing(p) \/ CreateFails(p) \/ GraphRaises(p)
      <3>1. LogFailure(p) /\ pc[p] \in Walking
        BY <2>3 DEF DocumentMissing, CreateFails, GraphRaises, AtAttachment, Walking, InRun
      <3> QED BY <1>3, <1>4, <2>3, <3>1 DEF DocumentMissing, CreateFails, GraphRaises,
                                           Fault, NoFault, MailTypeOK
    <2>4. CASE CreateRun(p)
      BY <1>2, <1>3, <2>4 DEF CreateRun, NoFault, MailTypeOK
    <2>5. CASE NumberReceipt(p) \/ NumberEvent(p)
      BY <1>2, <1>3, <2>5 DEF NumberReceipt, NumberEvent, NoFault, MailTypeOK
    <2>6. CASE CommitReceipt(p)
      BY <1>2, <1>3, <2>6 DEF CommitReceipt, NoFault, MailTypeOK
    <2>7. CASE ReceiptFails(p)
      <3>1. LogFailure(p) /\ pc[p] \in Walking
        BY <2>7 DEF ReceiptFails, Walking, InRun
      <3> QED BY <1>3, <1>4, <2>7, <3>1 DEF ReceiptFails, Fault, MailTypeOK
    <2>8. CASE EventDone(p)
      <3>1. at[p] \in [message : Nat, attachment : Nat]
        BY DEF MailTypeOK
      <3>2. [at[p] EXCEPT !.attachment = @ + 1] \in [message : Nat, attachment : Nat]
        BY <3>1
      <3> QED BY <1>2, <1>3, <2>8, <3>2 DEF EventDone, Fault, NoFault, MailTypeOK
    <2>9. CASE EnterGraph(p)
      BY <1>2, <1>3, <2>9 DEF EnterGraph, NoFault, MailTypeOK
    <2>10. CASE MarkProcessed(p) \/ MarkRefused(p)
      <3>1. GoBehind(p, at[p].message, batch[p]) /\ UNCHANGED <<batch, seenDone>>
        BY <2>10 DEF MarkProcessed, MarkRefused, NextMessage
      <3>2. batch[p] \in SUBSET DOMAIN Inbox
        BY DEF MailTypeOK
      <3>3. /\ pc' \in [Writers -> {"idle", "attachment", "receipt", "graph", "node", "append",
                                    "done", "failed", "dead"}]
            /\ at' \in [Polls -> [message : Nat, attachment : Nat]]
        BY <3>1, <3>2, GoBehindStep
      <3>4. Message(p) \in Messages
        BY <2>10, MessageIsOne DEF MarkProcessed, MarkRefused, AtMark, Walking
      <3>5. marked' \subseteq Messages /\ warned' \subseteq Polls \X Messages
        BY <2>10, <3>4 DEF MarkProcessed, MarkRefused, MovedBy, MailTypeOK
      <3> QED BY <1>3, <2>10, <3>1, <3>3, <3>5 DEF MarkProcessed, MarkRefused, Fault,
                                                  NoFault, MailTypeOK
    <2>11. CASE Die(p)
      BY <1>2, <1>3, <2>11 DEF Die, Fault, MailTypeOK
    <2> QED BY <1>5, <2>1, <2>2, <2>3, <2>4, <2>5, <2>6, <2>7, <2>8, <2>9, <2>10, <2>11
            DEF Poll
  <1>6. ASSUME NEW d \in Decisions, Decide(d) \/ DecisionDone(d)
        PROVE  Rest
    BY <1>2, <1>3, <1>6 DEF Decide, DecisionDone, Fault, NoFault, MailTypeOK
  <1>7. CASE UNCHANGED vars
    BY <1>7 DEF vars, MailTypeOK
  <1> QED BY <1>1, <1>5, <1>6, <1>7 DEF MailNext, MailTypeOK
-----------------------------------------------------------------------------
(* The step of a poll as its own loop sees it: it stays inside a run, it   *)
(* goes to the next attachment with the present one settled, it goes to    *)
(* the next message with the present one handled, or it ends.              *)
Stays(p) == at'[p] = at[p] /\ batch'[p] = batch[p] /\ pc[p] \in Walking

EntersRun(p) ==
  /\ Stays(p) /\ pc'[p] \in InRun
  /\ at[p].attachment \in DOMAIN Attachments(Message(p))
  /\ pc'[p] = "node" => reached'[Here(p)] \in Driven

GoesOn(p) ==
  /\ pc[p] \in Walking /\ pc'[p] = "attachment" /\ batch'[p] = batch[p]
  /\ at'[p] = [at[p] EXCEPT !.attachment = @ + 1]
  /\ SettledNext(Message(p), at[p].attachment)

Handled(p, i) == Inbox[i] \in marked \/ <<p, Inbox[i]>> \in warned
HandledNext(p, i) == Inbox[i] \in marked' \/ <<p, Inbox[i]>> \in warned'

Turns(p) ==
  /\ AtMark(p) /\ batch'[p] = batch[p]
  /\ IdsAreUnique => HandledNext(p, at[p].message)
  /\ \/ pc'[p] = "done" /\ \A j \in batch[p] : ~(j > at[p].message)
     \/ /\ pc'[p] = "attachment"
        /\ at'[p].message \in batch[p] /\ at'[p].message > at[p].message
        /\ at'[p].attachment = 1
        /\ \A j \in batch[p] : j > at[p].message => at'[p].message <= j

Begins(p) ==
  /\ pc[p] = "idle"
  /\ \/ pc'[p] = "done" /\ batch'[p] = {}
     \/ /\ pc'[p] = "attachment"
        /\ at'[p].message \in batch'[p] /\ at'[p].attachment = 1
        /\ \A j \in batch'[p] : at'[p].message <= j

Stops(p) == pc'[p] \in {"failed", "dead"} /\ at'[p] = at[p] /\ batch'[p] = batch[p]

LEMMA PollMoves ==
  ASSUME MailTypeOK, PlaceInv, DrivenInv, NEW p \in Polls, Poll(p) \/ Die(p)
  PROVE  EntersRun(p) \/ GoesOn(p) \/ Turns(p) \/ Begins(p) \/ Stops(p)
  <1>1. p \in Writers
    BY MailboxAssumption
  <1> USE DEF mailVars, logVars, auditVars, pollVars
  <1>2. ASSUME LogFailure(p), pc[p] \in Walking
        PROVE  GoesOn(p)
    <2>1. <<p, Message(p), at[p].attachment>> \in logged'
      BY <1>2 DEF LogFailure, Here
    <2>2. SettledNext(Message(p), at[p].attachment)
      BY <2>1 DEF SettledNext
    <2> QED BY <1>1, <1>2, <2>2 DEF LogFailure, NextAttachment, GoesOn, MailTypeOK
  <1>3. CASE Fetch(p)
    <2>1. PICK S \in SUBSET DOMAIN Inbox :
             batch' = [batch EXCEPT ![p] = S] /\ GoBehind(p, 0, S)
      <3>1. Window \subseteq DOMAIN Inbox
        BY DEF Window
      <3> QED BY <1>3, <3>1 DEF Fetch
    <2>2. batch'[p] = S
      BY <2>1 DEF MailTypeOK
    <2>3. \A j \in S : j > 0
      BY MailboxAssumption
    <2>4. \/ pc'[p] = "done" /\ \A j \in S : ~(j > 0)
          \/ /\ pc'[p] = "attachment"
             /\ at'[p].message \in S /\ at'[p].message > 0 /\ at'[p].attachment = 1
             /\ \A j \in S : j > 0 => at'[p].message <= j
      BY <2>1, GoBehindStep
    <2> QED BY <1>3, <2>2, <2>3, <2>4 DEF Fetch, Begins
  <1>4. CASE FetchFails(p) \/ MarkRaises(p) \/ Die(p)
    BY <1>1, <1>4 DEF FetchFails, MarkRaises, Die, Stops, MailTypeOK
  <1>5. CASE DocumentMissing(p) \/ CreateFails(p) \/ GraphRaises(p) \/ ReceiptFails(p)
    BY <1>2, <1>5 DEF DocumentMissing, CreateFails, GraphRaises, ReceiptFails, AtAttachment,
                      Walking, InRun
  <1>6. CASE CreateRun(p)
    BY <1>1, <1>6 DEF CreateRun, AtAttachment, EntersRun, Stays, Walking, InRun, MailTypeOK
  <1>7. CASE NumberReceipt(p) \/ CommitReceipt(p)
    BY <1>1, <1>7 DEF NumberReceipt, CommitReceipt, EntersRun, Stays, Walking, InRun,
                      MailTypeOK, PlaceInv
  <1>8. CASE NumberEvent(p)
    BY <1>1, <1>8 DEF NumberEvent, EntersRun, Stays, Walking, InRun, MailTypeOK, PlaceInv,
                      DrivenInv
  <1>9. CASE EnterGraph(p)
    <2>1. Here(p) \in Runs
      BY <1>9, HereIsRun DEF EnterGraph, InRun
    <2>2. reached'[Here(p)] \in Driven
      BY <1>9, <2>1 DEF EnterGraph, MailTypeOK, Driven
    <2> QED BY <1>1, <1>9, <2>2 DEF EnterGraph, EntersRun, Stays, Walking, InRun,
                                    MailTypeOK, PlaceInv
  <1>10. CASE EventDone(p)
    <2>1. reached'[Here(p)] \in Driven /\ Here(p) = <<p, Message(p), at[p].attachment>>
      BY <1>10 DEF EventDone, DrivenInv, Here
    <2>2. SettledNext(Message(p), at[p].attachment)
      BY <2>1 DEF SettledNext
    <2> QED BY <1>1, <1>10, <2>2 DEF EventDone, NextAttachment, GoesOn, Walking, InRun,
                                     MailTypeOK
  <1>11. CASE MarkProcessed(p) \/ MarkRefused(p)
    <2>1. GoBehind(p, at[p].message, batch[p]) /\ UNCHANGED <<batch, seenDone>> /\ AtMark(p)
      BY <1>11 DEF MarkProcessed, MarkRefused, NextMessage
    <2>2. batch[p] \in SUBSET DOMAIN Inbox
      BY DEF MailTypeOK
    <2>3. Message(p) \in Messages
      BY <2>1, MessageIsOne DEF AtMark, Walking
    <2>4. ASSUME IdsAreUnique PROVE HandledNext(p, at[p].message)
      <3>1. CASE MarkRefused(p)
        BY <3>1 DEF MarkRefused, HandledNext, Message
      <3>2. CASE MarkProcessed(p) /\ provider # "local"
        BY <3>2 DEF MarkProcessed, HandledNext, Message
      <3>3. CASE MarkProcessed(p) /\ provider = "local"
        <4>1. PICK moved \in MovedBy(MessageId[Message(p)]) : marked' = marked \cup moved
          BY <3>3 DEF MarkProcessed
        <4>2. Message(p) \in marked \/ Message(p) \in moved
          BY <2>3, <2>4, <4>1 DEF MovedBy, IdsAreUnique
        <4>3. Message(p) \in marked'
          BY <4>1, <4>2
        <4> QED BY <4>3 DEF HandledNext, Message
      <3> QED BY <1>11, <3>1, <3>2, <3>3
    <2> QED BY <2>1, <2>2, <2>4, GoBehindStep DEF Turns
  <1> QED BY <1>3, <1>4, <1>5, <1>6, <1>7, <1>8, <1>9, <1>10, <1>11 DEF Poll
-----------------------------------------------------------------------------
(* Every message of its batch that a poll has passed is handled.  Where    *)
(* two messages share an id, the folder may move the other one.            *)
HandledInv ==
  IdsAreUnique => \A p \in Polls : \A i \in batch[p] :
    pc[p] = "done" \/ (pc[p] \in Walking /\ i < at[p].message) => Handled(p, i)

LoopInv ==
  MailTypeOK /\ AuditInv /\ PlaceInv /\ DrivenInv /\ PassedInv /\ HandledInv
    /\ (IdsAreUnique => MarkedIsAccountedFor)

LEMMA LoopInitInv ==
  ASSUME MailInit
  PROVE  LoopInv
  <1> USE DEF MailInit, AuditInit, Walking, InRun
  <1>1. AuditInv
    BY AuditInitInv
  <1>2. MailTypeOK
    BY <1>1, MailboxAssumption DEF MailTypeOK, EventType, AuditInv, AuditTypeOK
  <1>3. PlaceInv /\ DrivenInv /\ PassedInv /\ HandledInv
    BY MailboxAssumption DEF PlaceInv, DrivenInv, PassedInv, HandledInv
  <1>4. MarkedIsAccountedFor
    BY DEF MarkedIsAccountedFor
  <1> QED BY <1>1, <1>2, <1>3, <1>4 DEF LoopInv

(* A step of poll p, seen by p.                                            *)
LEMMA OwnStep ==
  ASSUME LoopInv, NEW p \in Polls, Poll(p) \/ Die(p)
  PROVE  /\ pc'[p] \in Walking => at'[p].message \in batch'[p] /\ at'[p].attachment # 0
         /\ pc'[p] \in InRun =>
              at'[p].attachment \in DOMAIN Attachments(Inbox[at'[p].message])
         /\ pc'[p] = "node" =>
              reached'[<<p, Inbox[at'[p].message], at'[p].attachment>>] \in Driven
         /\ pc'[p] \in Walking =>
              \A n \in DOMAIN Attachments(Inbox[at'[p].message]) :
                n < at'[p].attachment => SettledNext(Inbox[at'[p].message], n)
         /\ IdsAreUnique => \A i \in batch'[p] :
              pc'[p] = "done" \/ (pc'[p] \in Walking /\ i < at'[p].message)
                => HandledNext(p, i)
  <1> USE DEF LoopInv
  <1>1. [MailNext]_vars
    BY DEF MailNext
  <1>2. marked \subseteq marked' /\ warned \subseteq warned'
    BY PollFrame
  <1>3. \A i \in batch[p] : Handled(p, i) => HandledNext(p, i)
    BY <1>2 DEF Handled, HandledNext
  <1>4. ASSUME pc[p] \in Walking, NEW n \in DOMAIN Attachments(Message(p)),
               Settled(Message(p), n)
        PROVE  SettledNext(Message(p), n)
    <2>1. Message(p) \in Messages
      BY <1>4, MessageIsOne
    <2>2. n \in 1 .. MaxAttachments
      BY <2>1, AttachmentsFit, MailboxAssumption
    <2> QED BY <1>1, <1>4, <2>1, <2>2, SettledStays
  <1>5. at[p] \in [message : Nat, attachment : Nat] /\ batch[p] \subseteq DOMAIN Inbox
    BY DEF MailTypeOK
  <1>6. \A i \in DOMAIN Inbox : i \in Nat
    BY MailboxAssumption
  <1>7. CASE EntersRun(p)
    <2>1. at'[p] = at[p] /\ batch'[p] = batch[p] /\ pc[p] \in Walking /\ pc'[p] # "done"
      BY <1>7 DEF EntersRun, Stays, InRun
    <2>2. /\ at[p].message \in batch[p] /\ at[p].attachment # 0
          /\ at[p].attachment \in DOMAIN Attachments(Inbox[at[p].message])
          /\ pc'[p] = "node" =>
               reached'[<<p, Inbox[at[p].message], at[p].attachment>>] \in Driven
      BY <1>7, <2>1 DEF EntersRun, Message, Here, PlaceInv
    <2>3. \A n \in DOMAIN Attachments(Inbox[at[p].message]) :
            n < at[p].attachment => SettledNext(Inbox[at[p].message], n)
      BY <1>4, <2>1 DEF PassedInv, Message
    <2>4. IdsAreUnique => \A i \in batch[p] : i < at[p].message => HandledNext(p, i)
      BY <1>3, <2>1 DEF HandledInv
    <2> QED BY <2>1, <2>2, <2>3, <2>4
  <1>8. CASE GoesOn(p)
    <2>1. /\ at'[p].message = at[p].message /\ at'[p].attachment = at[p].attachment + 1
          /\ batch'[p] = batch[p] /\ pc[p] \in Walking /\ pc'[p] = "attachment"
      BY <1>5, <1>8 DEF GoesOn
    <2>2. at[p].message \in batch[p]
      BY <2>1 DEF PlaceInv
    <2>3. \A n \in DOMAIN Attachments(Inbox[at[p].message]) :
            n < at[p].attachment + 1 => SettledNext(Inbox[at[p].message], n)
      <3>1. ASSUME NEW n \in DOMAIN Attachments(Inbox[at[p].message]),
                   n < at[p].attachment + 1
            PROVE  SettledNext(Inbox[at[p].message], n)
        <4>1. Message(p) \in Messages
          BY <2>1, MessageIsOne
        <4>2. n \in Nat
          BY <3>1, <4>1, AttachmentsFit DEF Message
        <4>3. n = at[p].attachment \/ n < at[p].attachment
          BY <1>5, <3>1, <4>2
        <4>4. CASE n = at[p].attachment
          BY <1>8, <4>4 DEF GoesOn, Message
        <4>5. CASE n < at[p].attachment
          BY <1>4, <2>1, <4>5 DEF PassedInv, Message
        <4> QED BY <4>3, <4>4, <4>5
      <3> QED BY <3>1
    <2>4. IdsAreUnique => \A i \in batch[p] : i < at[p].message => HandledNext(p, i)
      BY <1>3, <2>1 DEF HandledInv
    <2> QED BY <1>5, <2>1, <2>2, <2>3, <2>4 DEF InRun
  <1>9. CASE Turns(p)
    <2>1. pc[p] \in Walking /\ batch'[p] = batch[p] /\ at[p].message \in batch[p]
      BY <1>9 DEF Turns, AtMark, PlaceInv, Walking
    <2>2. IdsAreUnique => \A i \in batch[p] : i <= at[p].message => HandledNext(p, i)
      <3>1. ASSUME IdsAreUnique, NEW i \in batch[p], i <= at[p].message
            PROVE  HandledNext(p, i)
        <4>1. i \in Nat
          BY <1>5, <1>6
        <4>2. CASE i = at[p].message
          BY <1>9, <3>1, <4>2 DEF Turns
        <4>3. CASE i < at[p].message
          BY <1>3, <2>1, <3>1, <4>3 DEF HandledInv
        <4> QED BY <1>5, <3>1, <4>1, <4>2, <4>3
      <3> QED BY <3>1
    <2>3. \A i \in batch[p] : i \in Nat
      BY <1>5, <1>6
    <2>4. CASE pc'[p] = "done" /\ \A j \in batch[p] : ~(j > at[p].message)
      BY <1>5, <2>1, <2>2, <2>3, <2>4 DEF Walking, InRun
    <2>5. CASE /\ pc'[p] = "attachment"
               /\ at'[p].message \in batch[p] /\ at'[p].message > at[p].message
               /\ at'[p].attachment = 1
               /\ \A j \in batch[p] : j > at[p].message => at'[p].message <= j
      <3>1. \A i \in batch[p] : i < at'[p].message => i <= at[p].message
        BY <1>5, <2>3, <2>5
      <3>2. Inbox[at'[p].message] \in Messages
        BY <1>5, <2>5, MailboxAssumption
      <3>3. \A n \in DOMAIN Attachments(Inbox[at'[p].message]) : ~(n < at'[p].attachment)
        BY <2>5, <3>2, AttachmentsFit
      <3> QED BY <2>1, <2>2, <2>5, <3>1, <3>3 DEF InRun
    <2> QED BY <1>9, <2>4, <2>5 DEF Turns
  <1>10. CASE Begins(p)
    <2>1. batch'[p] \subseteq DOMAIN Inbox
      BY <1>1, TypeStep DEF MailTypeOK
    <2>2. CASE pc'[p] = "done" /\ batch'[p] = {}
      BY <2>2 DEF Walking, InRun
    <2>3. CASE /\ pc'[p] = "attachment"
               /\ at'[p].message \in batch'[p] /\ at'[p].attachment = 1
               /\ \A j \in batch'[p] : at'[p].message <= j
      <3>1. \A i \in batch'[p] : ~(i < at'[p].message)
        BY <1>6, <2>1, <2>3
      <3>2. Inbox[at'[p].message] \in Messages
        BY <2>1, <2>3, MailboxAssumption
      <3>3. \A n \in DOMAIN Attachments(Inbox[at'[p].message]) : ~(n < at'[p].attachment)
        BY <2>3, <3>2, AttachmentsFit
      <3> QED BY <2>3, <3>1, <3>3 DEF InRun
    <2> QED BY <1>10, <2>2, <2>3 DEF Begins
  <1>11. CASE Stops(p)
    BY <1>11 DEF Stops, Walking, InRun
  <1> QED BY <1>7, <1>8, <1>9, <1>10, <1>11, PollMoves

LEMMA MarkedStep ==
  ASSUME LoopInv, IdsAreUnique, [MailNext]_vars,
         NEW m \in Messages, m \in marked', NEW n \in DOMAIN Attachments(m)
  PROVE  SettledNext(m, n)
  <1> USE DEF LoopInv
  <1>1. n \in 1 .. MaxAttachments
    BY AttachmentsFit, MailboxAssumption
  <1>2. CASE m \in marked
    <2>1. Settled(m, n)
      BY <1>2 DEF MarkedIsAccountedFor
    <2> QED BY <1>1, <2>1, SettledStays
  <1>3. CASE m \notin marked
    <2>1. PICK p \in Polls : MarkProcessed(p)
      <3>1. marked' # marked
        BY <1>3
      <3> QED BY <3>1 DEF MailNext, Poll, Fetch, FetchFails, DocumentMissing, CreateRun,
              CreateFails, NumberReceipt, CommitReceipt, ReceiptFails, EnterGraph,
              NumberEvent, EventDone, GraphRaises, MarkRefused, MarkRaises, Die, Decide,
              DecisionDone, mailVars, vars
    <2>2. AtMark(p) /\ pc[p] \in Walking
      BY <2>1 DEF MarkProcessed, AtMark, Walking
    <2>3. Message(p) \in Messages
      BY <2>2, MessageIsOne
    <2>4. m = Message(p)
      <3>1. CASE provider # "local"
        BY <1>3, <2>1, <3>1 DEF MarkProcessed
      <3>2. CASE provider = "local"
        <4>1. PICK moved \in MovedBy(MessageId[Message(p)]) : marked' = marked \cup moved
          BY <2>1, <3>2 DEF MarkProcessed
        <4>2. \A o \in moved : MessageId[o] = MessageId[Message(p)]
          BY <4>1 DEF MovedBy
        <4> QED BY <1>3, <2>3, <4>1, <4>2 DEF IdsAreUnique
      <3> QED BY <3>1, <3>2
    <2>5. at[p].attachment \in Nat \ {0}
      BY <2>2 DEF PlaceInv, MailTypeOK
    <2>6. at[p].attachment > Len(Attachments(m)) /\ n <= Len(Attachments(m)) /\ n \in Nat
      BY <2>2, <2>4, <2>5, AttachmentsFit DEF AtMark
    <2>7. n < at[p].attachment
      BY <2>5, <2>6, AttachmentsFit
    <2>8. Settled(m, n)
      BY <2>2, <2>4, <2>7 DEF PassedInv
    <2> QED BY <1>1, <2>8, SettledStays
  <1> QED BY <1>2, <1>3

LEMMA LoopStep ==
  ASSUME LoopInv, [MailNext]_vars
  PROVE  LoopInv'
  <1> USE DEF LoopInv
  <1>1. MailTypeOK'
    BY TypeStep
  <1>2. AuditInv'
    BY AuditFrame, AuditStep
  <1>3. \A q \in Polls : q \in Writers /\ q \notin Decisions
    BY MailboxAssumption
  <1>4. provider' = provider
    <2>1. CASE \E p \in Polls : Poll(p) \/ Die(p)
      BY <2>1, PollFrame
    <2>2. CASE \E d \in Decisions : Decide(d) \/ DecisionDone(d)
      BY <2>2, DecisionFrame DEF mailVars
    <2>3. CASE UNCHANGED vars
      BY <2>3 DEF vars, mailVars
    <2> QED BY <2>1, <2>2, <2>3 DEF MailNext
  <1>5. ASSUME NEW m PROVE Attachments(m)' = Attachments(m)
    BY <1>4 DEF Attachments
  <1>6. (IdsAreUnique => MarkedIsAccountedFor)'
    <2> SUFFICES ASSUME IdsAreUnique, NEW m \in Messages, m \in marked', NEW n \in DOMAIN Attachments(m)
                 PROVE  SettledNext(m, n)
      BY <1>1, <1>5 DEF MarkedIsAccountedFor, Settled, SettledNext, Driven, MailTypeOK, IdsAreUnique
    <2> QED BY MarkedStep
  <1>7. /\ \A q \in Polls :
           /\ pc'[q] \in Walking => at'[q].message \in batch'[q] /\ at'[q].attachment # 0
           /\ pc'[q] \in InRun =>
                at'[q].attachment \in DOMAIN Attachments(Inbox[at'[q].message])
           /\ pc'[q] = "node" =>
                reached'[<<q, Inbox[at'[q].message], at'[q].attachment>>] \in Driven
           /\ pc'[q] \in Walking =>
                \A n \in DOMAIN Attachments(Inbox[at'[q].message]) :
                  n < at'[q].attachment => SettledNext(Inbox[at'[q].message], n)
           /\ IdsAreUnique => \A i \in batch'[q] :
                pc'[q] = "done" \/ (pc'[q] \in Walking /\ i < at'[q].message)
                  => HandledNext(q, i)
    <2> SUFFICES ASSUME NEW q \in Polls
                 PROVE  /\ pc'[q] \in Walking =>
                             at'[q].message \in batch'[q] /\ at'[q].attachment # 0
                        /\ pc'[q] \in InRun =>
                             at'[q].attachment \in DOMAIN Attachments(Inbox[at'[q].message])
                        /\ pc'[q] = "node" =>
                             reached'[<<q, Inbox[at'[q].message], at'[q].attachment>>]
                               \in Driven
                        /\ pc'[q] \in Walking =>
                             \A n \in DOMAIN Attachments(Inbox[at'[q].message]) :
                               n < at'[q].attachment => SettledNext(Inbox[at'[q].message], n)
                        /\ IdsAreUnique => \A i \in batch'[q] :
                             pc'[q] = "done" \/ (pc'[q] \in Walking /\ i < at'[q].message)
                               => HandledNext(q, i)
      OBVIOUS
    <2>1. CASE Poll(q) \/ Die(q)
      BY <2>1, OwnStep
    <2>2. CASE ~(Poll(q) \/ Die(q))
      <3>1. /\ pc'[q] = pc[q] /\ at'[q] = at[q] /\ batch'[q] = batch[q]
            /\ marked \subseteq marked' /\ warned \subseteq warned'
            /\ \A r \in Runs : reached[r] \in Driven => reached'[r] \in Driven
        <4>1. ASSUME NEW p \in Polls \ {q}, Poll(p) \/ Die(p)
              PROVE  /\ pc'[q] = pc[q] /\ at'[q] = at[q] /\ batch'[q] = batch[q]
                     /\ marked \subseteq marked' /\ warned \subseteq warned'
                     /\ \A r \in Runs : reached[r] \in Driven => reached'[r] \in Driven
          BY <1>3, <4>1, PollFrame
        <4>2. CASE \E d \in Decisions : Decide(d) \/ DecisionDone(d)
          BY <4>2, DecisionFrame DEF mailVars, logVars, pollVars
        <4>3. CASE UNCHANGED vars
          BY <4>3 DEF vars, mailVars, logVars, pollVars
        <4> QED BY <2>2, <4>1, <4>2, <4>3 DEF MailNext
      <3>2. /\ pc[q] \in Walking => at[q].message \in batch[q] /\ at[q].attachment # 0
            /\ pc[q] \in InRun => at[q].attachment \in DOMAIN Attachments(Inbox[at[q].message])
        BY DEF PlaceInv, Message
      <3>3. pc[q] = "node" =>
              reached'[<<q, Inbox[at[q].message], at[q].attachment>>] \in Driven
        <4>1. pc[q] = "node" => Here(q) \in Runs
          BY HereIsRun DEF InRun
        <4> QED BY <3>1, <4>1 DEF DrivenInv, Here, Message
      <3>4. ASSUME pc[q] \in Walking, NEW n \in DOMAIN Attachments(Inbox[at[q].message]),
                   n < at[q].attachment
            PROVE  SettledNext(Inbox[at[q].message], n)
        <4>1. Message(q) \in Messages /\ Message(q) = Inbox[at[q].message]
          BY <3>4, MessageIsOne DEF Message
        <4>2. Settled(Message(q), n)
          BY <3>4, <4>1 DEF PassedInv
        <4>3. n \in 1 .. MaxAttachments
          BY <3>4, <4>1, AttachmentsFit, MailboxAssumption
        <4> QED BY <4>1, <4>2, <4>3, SettledStays
      <3>5. IdsAreUnique => \A i \in batch[q] :
              pc[q] = "done" \/ (pc[q] \in Walking /\ i < at[q].message) => HandledNext(q, i)
        BY <3>1 DEF HandledInv, Handled, HandledNext
      <3> QED BY <3>1, <3>2, <3>3, <3>4, <3>5
    <2> QED BY <2>1, <2>2
  <1>8. PlaceInv'
    BY <1>5, <1>7 DEF PlaceInv, Message
  <1>9. DrivenInv' /\ HandledInv'
    BY <1>7 DEF DrivenInv, Here, Message, HandledInv, Handled, HandledNext, IdsAreUnique
  <1>10. PassedInv'
    BY <1>5, <1>7 DEF PassedInv, Message, Settled, SettledNext, Driven
  <1> QED BY <1>1, <1>2, <1>6, <1>8, <1>9, <1>10

(* The loop invariant of poll_mailbox, however polls overlap, die and fail. *)
THEOREM MailboxInvariant == MailSpec => []LoopInv
  BY LoopInitInv, LoopStep, PTL DEF MailSpec

(* A marked message is settled, for any inbox whose ids are unique.        *)
THEOREM MarkedMessagesAreSettled ==
  ASSUME IdsAreUnique PROVE MailSpec => []MarkedIsAccountedFor
  <1>1. LoopInv => MarkedIsAccountedFor
    BY DEF LoopInv
  <1> QED BY <1>1, MailboxInvariant, PTL

(* The runs' trails are one AuditTrail: appends of polls and decisions on  *)
(* one run overlap as that module lets them.                               *)
THEOREM MailboxImplementsAudit == MailSpec => AuditSpec
  <1>1. MailInit => AuditInit
    BY DEF MailInit
  <1>2. LoopInv /\ [MailNext]_vars => [AuditNext]_auditVars
    BY AuditFrame DEF LoopInv
  <1> QED BY <1>1, <1>2, MailboxInvariant, PTL DEF MailSpec, AuditSpec

(* The trails of the runs a poll drives and people decide have no gaps.    *)
THEOREM PolledNumbersAreDense == MailSpec => []SequencesDense
  BY MailboxImplementsAudit, NumbersAreDense, PTL

(* Each poll's and each decision's events on a run are in their order.     *)
THEOREM PollsAreOrdered == MailSpec => []WriterOrdered
  BY MailboxImplementsAudit, WritersAreOrdered, PTL
-----------------------------------------------------------------------------
(* The trail of a run is empty until its poll commits the receipt;         *)
(* whatever else is numbered for the run is numbered after that.           *)
Opened(r) ==
  /\ trail[r] # <<>>
  /\ trail[r][1].action = "email_received"
  /\ trail[r][1].writer = r[1]
  /\ \A i \in 2 .. Len(trail[r]) :
       /\ trail[r][i].action # "email_received"
       /\ trail[r][i].sequence > trail[r][1].sequence

OpenedInv ==
  \A r \in Runs : trail[r] # <<>> => Opened(r) /\ reached[r] # "absent"

DrivenHasTrail == \A r \in Runs : reached[r] \in Driven => trail[r] # <<>>

(* What each writer has numbered, and at which of its places.              *)
NumbersReceipt(w) ==
  /\ w \in Polls /\ pc[w] = "receipt" /\ pending[w].run = Here(w)
  /\ pending[w].action = "email_received"

NumbersLater(w) ==
  /\ pending[w].action # "email_received"
  /\ trail[pending[w].run] # <<>>
  /\ pending[w].sequence > trail[pending[w].run][1].sequence
  /\ w \in Polls => pc[w] = "node"

AppendInv ==
  \A w \in Writers : pending[w] # NoAppend => NumbersReceipt(w) \/ NumbersLater(w)

(* A poll that has created a run has not recorded its receipt; one that    *)
(* goes on to the graph has.                                               *)
CreatedInv ==
  \A p \in Polls :
    /\ pc[p] = "receipt" => trail[Here(p)] = <<>> /\ reached[Here(p)] = "received"
    /\ pc[p] = "graph" => trail[Here(p)] # <<>>

ReceiptInv == AppendInv /\ DrivenHasTrail /\ OpenedInv /\ CreatedInv

(* Nobody but writer v moves.                                              *)
Alone(v) ==
  /\ \A q \in Polls \ {v} : pc'[q] = pc[q] /\ at'[q] = at[q]
  /\ \A w \in Writers \ {v} : pending'[w] = pending[w]

LEMMA AloneInRun ==
  ASSUME MailTypeOK, PlaceInv, DrivenInv, NEW p \in Polls, Poll(p) \/ Die(p)
  PROVE  Alone(p)
  <1>1. Polls \subseteq Writers
    BY MailboxAssumption
  <1> QED BY <1>1, PollFrame DEF Alone

(* A poll does not leave its place with an event numbered.                 *)
LEMMA NothingPending ==
  ASSUME AppendInv, NEW p \in Polls, pc[p] \notin {"receipt", "node"}
  PROVE  pending[p] = NoAppend
  <1>1. p \in Writers
    BY MailboxAssumption
  <1> QED BY <1>1 DEF AppendInv, NumbersReceipt, NumbersLater

(* Steps that commit nothing and leave no event numbered.                  *)
LEMMA QuietStep ==
  ASSUME ReceiptInv, MailTypeOK, NEW v \in Writers, Alone(v),
         trail' = trail, reached' = reached, pending'[v] = NoAppend,
         v \in Polls => pc'[v] \notin InRun
  PROVE  ReceiptInv'
  <1>1. DrivenHasTrail' /\ OpenedInv'
    BY DEF ReceiptInv, DrivenHasTrail, OpenedInv, Opened
  <1>2. AppendInv'
    <2> SUFFICES ASSUME NEW w \in Writers, w # v, pending'[w] # NoAppend
                 PROVE  NumbersReceipt(w)' \/ NumbersLater(w)'
      BY DEF AppendInv
    <2>1. pending'[w] = pending[w] /\ (w \in Polls => pc'[w] = pc[w] /\ at'[w] = at[w])
      BY DEF Alone
    <2>2. NumbersReceipt(w) \/ NumbersLater(w)
      BY <2>1 DEF ReceiptInv, AppendInv
    <2> QED BY <2>1, <2>2 DEF NumbersReceipt, NumbersLater, Here, Message
  <1>3. CreatedInv'
    <2> SUFFICES ASSUME NEW q \in Polls, q # v
                 PROVE  /\ pc'[q] = "receipt" =>
                             trail[Here(q)'] = <<>> /\ reached[Here(q)'] = "received"
                        /\ pc'[q] = "graph" => trail[Here(q)'] # <<>>
      BY DEF CreatedInv, InRun
    <2>1. pc'[q] = pc[q] /\ Here(q)' = Here(q)
      BY DEF Alone, Here, Message
    <2> QED BY <2>1 DEF ReceiptInv, CreatedInv
  <1> QED BY <1>1, <1>2, <1>3 DEF ReceiptInv

(* Commits of what was numbered after the receipt.                         *)
LEMMA LaterCommit ==
  ASSUME ReceiptInv, MailTypeOK, PlaceInv, NEW v \in Writers, Alone(v), CommitEvent(v),
         reached' = reached, NumbersLater(v),
         v \in Polls => pc'[v] \notin InRun
  PROVE  ReceiptInv'
  <1> DEFINE r == pending[v].run
             e == [sequence |-> pending[v].sequence, action |-> pending[v].action,
                   writer |-> v]
  <1>1. /\ pending[v] # NoAppend /\ r \in Runs /\ pending'[v] = NoAppend
        /\ e \in EventType /\ trail[r] \in Seq(EventType) /\ trail[r] # <<>>
    BY DEF CommitEvent, MailTypeOK, EventType, NumbersLater
  <1>2. /\ trail'[r] = Append(trail[r], e)
        /\ \A s \in Runs \ {r} : trail'[s] = trail[s]
    BY <1>1 DEF CommitEvent, MailTypeOK
  <1>3. /\ trail'[r] # <<>> /\ trail'[r][1] = trail[r][1]
        /\ Len(trail'[r]) = Len(trail[r]) + 1 /\ trail'[r][Len(trail'[r])] = e
        /\ \A i \in 1 .. Len(trail[r]) : trail'[r][i] = trail[r][i]
        /\ Len(trail[r]) \in Nat \ {0}
    <2> HIDE DEF e, r
    <2> QED BY <1>1, <1>2
  <1>4. \A s \in Runs : trail[s] # <<>> => trail'[s] # <<>> /\ trail'[s][1] = trail[s][1]
    BY <1>2, <1>3
  <1>5. \A s \in Runs : trail[s] = <<>> => trail'[s] = <<>>
    BY <1>1, <1>2
  <1>6. DrivenHasTrail'
    BY <1>4 DEF ReceiptInv, DrivenHasTrail
  <1>7. OpenedInv'
    <2> SUFFICES ASSUME NEW s \in Runs, trail'[s] # <<>>
                 PROVE  Opened(s)' /\ reached[s] # "absent"
      BY DEF OpenedInv
    <2>1. trail[s] # <<>> /\ Opened(s) /\ reached[s] # "absent"
      BY <1>5 DEF ReceiptInv, OpenedInv
    <2>2. CASE s # r
      BY <1>2, <2>1, <2>2 DEF Opened
    <2>3. CASE s = r
      <3>1. e.action # "email_received" /\ e.sequence > trail[r][1].sequence
        BY DEF NumbersLater
      <3>2. ASSUME NEW i \in 2 .. Len(trail'[r])
            PROVE  /\ trail'[r][i].action # "email_received"
                   /\ trail'[r][i].sequence > trail'[r][1].sequence
        <4>1. CASE i = Len(trail'[r])
          BY <1>3, <3>1, <4>1
        <4>2. CASE i # Len(trail'[r])
          <5>1. i \in 2 .. Len(trail[r])
            BY <1>3, <4>2
          <5>2. trail'[r][i] = trail[r][i]
            BY <1>3, <5>1
          <5> QED BY <1>3, <2>1, <2>3, <5>1, <5>2 DEF Opened
        <4> QED BY <4>1, <4>2
      <3> HIDE DEF e, r
      <3> QED BY <1>3, <2>1, <2>3, <3>2 DEF Opened
    <2> QED BY <2>2, <2>3
  <1>8. AppendInv'
    <2> SUFFICES ASSUME NEW w \in Writers, w # v, pending'[w] # NoAppend
                 PROVE  NumbersReceipt(w)' \/ NumbersLater(w)'
      BY <1>1 DEF AppendInv
    <2>1. pending'[w] = pending[w] /\ (w \in Polls => pc'[w] = pc[w] /\ at'[w] = at[w])
      BY DEF Alone
    <2>2. NumbersReceipt(w) \/ NumbersLater(w)
      BY <2>1 DEF ReceiptInv, AppendInv
    <2>3. pending[w].run \in Runs
      BY <2>1 DEF MailTypeOK
    <2> QED BY <1>4, <2>1, <2>2, <2>3 DEF NumbersReceipt, NumbersLater, Here, Message
  <1>9. CreatedInv'
    <2> SUFFICES ASSUME NEW q \in Polls, q # v, pc'[q] \in {"receipt", "graph"}
                 PROVE  /\ pc'[q] = "receipt" =>
                             trail'[Here(q)'] = <<>> /\ reached[Here(q)'] = "received"
                        /\ pc'[q] = "graph" => trail'[Here(q)'] # <<>>
      BY DEF CreatedInv, InRun
    <2>1. pc'[q] = pc[q] /\ Here(q)' = Here(q)
      BY DEF Alone, Here, Message
    <2>2. Here(q) \in Runs
      BY <2>1, HereIsRun DEF InRun
    <2> QED BY <1>4, <1>5, <2>1, <2>2 DEF ReceiptInv, CreatedInv
  <1> QED BY <1>6, <1>7, <1>8, <1>9 DEF ReceiptInv

(* The commit of the receipt itself.                                       *)
LEMMA ReceiptCommit ==
  ASSUME LoopInv, ReceiptInv, NEW p \in Polls, CommitReceipt(p)
  PROVE  ReceiptInv'
  <1> USE DEF LoopInv
  <1> DEFINE r == Here(p)
             e == [sequence |-> pending[p].sequence, action |-> pending[p].action,
                   writer |-> p]
  <1>1. /\ p \in Writers /\ pc[p] = "receipt" /\ pc'[p] = "graph" /\ at' = at
        /\ reached' = reached /\ Here(p)' = r
    BY MailboxAssumption DEF CommitReceipt, MailTypeOK, pollVars, Here, Message
  <1>2. r \in Runs /\ r[1] = p
    BY <1>1, HereIsRun DEF InRun
  <1>3. Alone(p)
    BY AloneInRun DEF Poll
  <1>4. pending[p] # NoAppend /\ NumbersReceipt(p)
    BY <1>1 DEF CommitReceipt, CommitEvent, ReceiptInv, AppendInv, NumbersLater
  <1>5. trail[r] = <<>> /\ reached[r] = "received"
    BY <1>1 DEF ReceiptInv, CreatedInv
  <1>6. /\ trail'[r] = Append(<<>>, e) /\ \A s \in Runs \ {r} : trail'[s] = trail[s]
        /\ pending'[p] = NoAppend
    BY <1>1, <1>2, <1>4, <1>5 DEF CommitReceipt, CommitEvent, NumbersReceipt, MailTypeOK
  <1>7. trail'[r] = <<e>> /\ e.action = "email_received" /\ e.writer = p
    BY <1>4, <1>6 DEF NumbersReceipt
  <1> HIDE DEF e, r
  <1>8. trail'[r] # <<>> /\ trail'[r][1] = e /\ Len(trail'[r]) = 1
    BY <1>7
  <1>9. DrivenHasTrail'
    BY <1>1, <1>6, <1>8 DEF ReceiptInv, DrivenHasTrail
  <1>10. OpenedInv'
    <2> SUFFICES ASSUME NEW s \in Runs, trail'[s] # <<>>
                 PROVE  Opened(s)' /\ reached[s] # "absent"
      BY <1>1 DEF OpenedInv
    <2>1. CASE s = r
      BY <1>2, <1>5, <1>7, <1>8, <2>1 DEF Opened
    <2>2. CASE s # r
      BY <1>6, <2>2 DEF ReceiptInv, OpenedInv, Opened
    <2> QED BY <2>1, <2>2
  <1>11. AppendInv'
    <2> SUFFICES ASSUME NEW w \in Writers, w # p, pending'[w] # NoAppend
                 PROVE  NumbersReceipt(w)' \/ NumbersLater(w)'
      BY <1>6 DEF AppendInv
    <2>1. pending'[w] = pending[w] /\ (w \in Polls => pc'[w] = pc[w] /\ at'[w] = at[w])
      BY <1>3 DEF Alone
    <2>2. NumbersReceipt(w) \/ NumbersLater(w)
      BY <2>1 DEF ReceiptInv, AppendInv
    <2>3. pending[w].run \in Runs
      BY <2>1 DEF MailTypeOK
    <2>4. NumbersLater(w) => trail'[pending[w].run] = trail[pending[w].run]
      BY <1>5, <1>6, <2>3 DEF NumbersLater
    <2> QED BY <2>1, <2>2, <2>4 DEF NumbersReceipt, NumbersLater, Here, Message
  <1>12. CreatedInv'
    <2> SUFFICES ASSUME NEW q \in Polls, q # p, pc'[q] \in {"receipt", "graph"}
                 PROVE  /\ pc'[q] = "receipt" =>
                             trail'[Here(q)'] = <<>> /\ reached[Here(q)'] = "received"
                        /\ pc'[q] = "graph" => trail'[Here(q)'] # <<>>
      BY <1>1, <1>8 DEF CreatedInv
    <2>1. pc'[q] = pc[q] /\ Here(q)' = Here(q)
      BY <1>1, <1>3 DEF Alone, Here, Message
    <2>2. Here(q) \in Runs /\ Here(q)[1] = q
      BY <2>1, HereIsRun DEF InRun
    <2> QED BY <1>2, <1>6, <2>1, <2>2 DEF ReceiptInv, CreatedInv
  <1> QED BY <1>9, <1>10, <1>11, <1>12 DEF ReceiptInv

(* A number read for a run is above every number in its trail.             *)
LEMMA NumberIsNew ==
  ASSUME AuditInv, NEW r \in Runs, NEW i \in DOMAIN trail[r]
  PROVE  NextSequence(r) > trail[r][i].sequence
  <1>1. PICK k \in 0 .. Len(trail[r]) : Numbers(r) = 1 .. k
    BY DEF AuditInv, SequencesDense
  <1>2. k \in Nat
    BY <1>1 DEF AuditInv, AuditTypeOK
  <1>3. NextSequence(r) = k + 1
    BY <1>1, <1>2, NextIsAbove
  <1>4. trail[r][i].sequence \in 1 .. k
    BY <1>1 DEF Numbers
  <1> QED BY <1>2, <1>3, <1>4

(* Numbering an event of a run that has its receipt.                       *)
LEMMA LaterNumber ==
  ASSUME LoopInv, ReceiptInv, NEW v \in Writers, NEW r \in Runs, NEW action,
         action # "email_received", trail[r] # <<>>, ReadSequence(v, r, action),
         UNCHANGED <<reached, at>>, \A q \in Polls : pc'[q] = pc[q],
         v \in Polls => pc[v] = "node"
  PROVE  ReceiptInv'
  <1> USE DEF LoopInv
  <1>1. DrivenHasTrail' /\ OpenedInv' /\ trail' = trail
    BY DEF ReadSequence, ReceiptInv, DrivenHasTrail, OpenedInv, Opened
  <1>2. /\ pending'[v] = [run |-> r, sequence |-> NextSequence(r), action |-> action]
        /\ \A w \in Writers \ {v} : pending'[w] = pending[w]
    BY DEF ReadSequence, MailTypeOK
  <1>3. NextSequence(r) > trail[r][1].sequence
    <2>1. trail[r] \in Seq(EventType)
      BY DEF MailTypeOK
    <2>2. 1 \in DOMAIN trail[r]
      BY <2>1
    <2> QED BY <2>2, NumberIsNew
  <1>4. AppendInv'
    <2> SUFFICES ASSUME NEW w \in Writers, pending'[w] # NoAppend
                 PROVE  NumbersReceipt(w)' \/ NumbersLater(w)'
      BY DEF AppendInv
    <2>1. CASE w = v
      BY <1>1, <1>2, <1>3, <2>1 DEF NumbersLater
    <2>2. CASE w # v
      <3>1. pending'[w] = pending[w] /\ (w \in Polls => pc'[w] = pc[w])
        BY <1>2, <2>2
      <3>2. NumbersReceipt(w) \/ NumbersLater(w)
        BY <3>1 DEF ReceiptInv, AppendInv
      <3> QED BY <1>1, <3>1, <3>2 DEF NumbersReceipt, NumbersLater, Here, Message
    <2> QED BY <2>1, <2>2
  <1>5. CreatedInv'
    BY <1>1 DEF ReceiptInv, CreatedInv, Here, Message
  <1> QED BY <1>1, <1>4, <1>5 DEF ReceiptInv

LEMMA ReceiptNumber ==
  ASSUME LoopInv, ReceiptInv, NEW p \in Polls, NumberReceipt(p)
  PROVE  ReceiptInv'
  <1> USE DEF LoopInv
  <1>1. p \in Writers /\ trail' = trail /\ pc' = pc /\ at' = at /\ reached' = reached
    BY MailboxAssumption DEF NumberReceipt, ReadSequence, pollVars
  <1>2. /\ pending'[p].run = Here(p) /\ pending'[p].action = "email_received"
        /\ pc[p] = "receipt"
        /\ \A w \in Writers \ {p} : pending'[w] = pending[w]
    BY <1>1 DEF NumberReceipt, ReadSequence, MailTypeOK
  <1>3. AppendInv'
    <2> SUFFICES ASSUME NEW w \in Writers, pending'[w] # NoAppend
                 PROVE  NumbersReceipt(w)' \/ NumbersLater(w)'
      BY DEF AppendInv
    <2>1. CASE w = p
      BY <1>1, <1>2, <2>1 DEF NumbersReceipt, Here, Message
    <2>2. CASE w # p
      BY <1>1, <1>2, <2>2 DEF ReceiptInv, AppendInv, NumbersReceipt, NumbersLater, Here,
                              Message
    <2> QED BY <2>1, <2>2
  <1>4. DrivenHasTrail' /\ OpenedInv' /\ CreatedInv'
    BY <1>1 DEF ReceiptInv, DrivenHasTrail, OpenedInv, Opened, CreatedInv, Here, Message
  <1> QED BY <1>3, <1>4 DEF ReceiptInv

(* A run that is created has no trail yet; one that is driven has.         *)
LEMMA CreateOrEnter ==
  ASSUME LoopInv, ReceiptInv, NEW p \in Polls, CreateRun(p) \/ EnterGraph(p)
  PROVE  ReceiptInv'
  <1> USE DEF LoopInv
  <1> DEFINE r == Here(p)
  <1>1. /\ p \in Writers /\ trail' = trail /\ pending' = pending /\ at' = at
        /\ \A q \in Polls : Here(q)' = Here(q)
    BY MailboxAssumption DEF CreateRun, EnterGraph, pollVars, auditVars, Here, Message
  <1>2. r \in Runs /\ r[1] = p
    BY HereIsRun DEF CreateRun, EnterGraph, InRun
  <1>3. Alone(p) /\ \A s \in Runs \ {r} : reached'[s] = reached[s]
    BY AloneInRun, PollFrame DEF Poll
  <1>4. pending[p] = NoAppend
    BY NothingPending DEF CreateRun, EnterGraph, AtAttachment, ReceiptInv
  <1>5. \/ /\ pc'[p] = "receipt" /\ trail[r] = <<>> /\ reached'[r] = "received"
        \/ /\ pc'[p] = "node" /\ trail[r] # <<>> /\ reached'[r] \in Driven
    <2>1. CASE CreateRun(p)
      BY <1>1, <1>2, <2>1 DEF CreateRun, MailTypeOK, ReceiptInv, OpenedInv
    <2>2. CASE EnterGraph(p)
      <3>1. trail[r] # <<>>
        BY <2>2 DEF EnterGraph, ReceiptInv, CreatedInv
      <3>2. PICK point \in {"driven", "waiting"} : reached' = [reached EXCEPT ![r] = point]
        BY <2>2 DEF EnterGraph
      <3> QED BY <1>1, <1>2, <2>2, <3>1, <3>2 DEF EnterGraph, MailTypeOK, Driven
    <2> QED BY <2>1, <2>2
  <1>6. AppendInv'
    <2> SUFFICES ASSUME NEW w \in Writers, w # p, pending[w] # NoAppend
                 PROVE  NumbersReceipt(w)' \/ NumbersLater(w)'
      BY <1>1, <1>4 DEF AppendInv
    <2>1. w \in Polls => pc'[w] = pc[w]
      BY <1>3 DEF Alone
    <2>2. NumbersReceipt(w) \/ NumbersLater(w)
      BY DEF ReceiptInv, AppendInv
    <2> QED BY <1>1, <2>1, <2>2 DEF NumbersReceipt, NumbersLater
  <1>7. DrivenHasTrail'
    BY <1>1, <1>3, <1>5 DEF ReceiptInv, DrivenHasTrail, Driven
  <1>8. OpenedInv'
    BY <1>1, <1>3, <1>5 DEF ReceiptInv, OpenedInv, Opened, Driven
  <1>9. CreatedInv'
    <2> SUFFICES ASSUME NEW q \in Polls, pc'[q] \in {"receipt", "graph"}
                 PROVE  /\ pc'[q] = "receipt" =>
                             trail[Here(q)] = <<>> /\ reached'[Here(q)] = "received"
                        /\ pc'[q] = "graph" => trail[Here(q)] # <<>>
      BY <1>1 DEF CreatedInv
    <2>1. CASE q = p
      BY <1>5, <2>1
    <2>2. CASE q # p
      <3>1. pc'[q] = pc[q]
        BY <1>3, <2>2 DEF Alone
      <3>2. Here(q) \in Runs /\ Here(q)[1] = q
        BY <3>1, HereIsRun DEF InRun
      <3> QED BY <1>2, <1>3, <2>2, <3>1, <3>2 DEF ReceiptInv, CreatedInv
    <2> QED BY <2>1, <2>2
  <1> QED BY <1>6, <1>7, <1>8, <1>9 DEF ReceiptInv

LEMMA ReceiptStep ==
  ASSUME LoopInv, ReceiptInv, [MailNext]_vars
  PROVE  ReceiptInv'
  <1> USE DEF LoopInv
  <1>1. Polls \subseteq Writers /\ Decisions \subseteq Writers /\ Polls \cap Decisions = {}
    BY MailboxAssumption
  <1>2. ASSUME NEW p \in Polls, Poll(p) \/ Die(p)
        PROVE  ReceiptInv'
    <2>1. Alone(p)
      BY <1>2, AloneInRun
    <2>2. CASE CreateRun(p) \/ EnterGraph(p)
      BY <2>2, CreateOrEnter
    <2>3. CASE NumberReceipt(p)
      BY <2>3, ReceiptNumber
    <2>4. CASE CommitReceipt(p)
      BY <2>4, ReceiptCommit
    <2>5. CASE NumberEvent(p)
      <3>1. Here(p) \in Runs /\ reached[Here(p)] \in Driven
        BY <2>5, HereIsRun DEF NumberEvent, DrivenInv, InRun
      <3>2. trail[Here(p)] # <<>>
        BY <3>1 DEF ReceiptInv, DrivenHasTrail
      <3> QED BY <1>1, <2>5, <3>1, <3>2, LaterNumber DEF NumberEvent, pollVars
    <2>6. CASE EventDone(p) /\ CommitEvent(p)
      <3>1. NumbersLater(p)
        BY <1>1, <2>6 DEF EventDone, ReceiptInv, AppendInv, NumbersReceipt
      <3>2. pc'[p] \notin InRun /\ reached' = reached
        BY <1>1, <2>6 DEF EventDone, NextAttachment, MailTypeOK, InRun
      <3> QED BY <1>1, <2>1, <2>6, <3>1, <3>2, LaterCommit
    <2>7. CASE /\ ~(EventDone(p) /\ CommitEvent(p))
               /\ ~(CreateRun(p) \/ EnterGraph(p)) /\ ~NumberReceipt(p)
               /\ ~CommitReceipt(p) /\ ~NumberEvent(p)
      <3>1. trail' = trail /\ reached' = reached /\ pending'[p] = NoAppend
        <4>1. CASE ReceiptFails(p) \/ EventDone(p) \/ Die(p)
          BY <1>1, <2>7, <4>1 DEF ReceiptFails, EventDone, Die, LoseEvent, MailTypeOK
        <4>2. CASE GraphRaises(p)
          BY <4>2 DEF GraphRaises, auditVars
        <4>3. CASE Fetch(p) \/ FetchFails(p) \/ DocumentMissing(p) \/ CreateFails(p)
          BY <4>3, NothingPending DEF Fetch, FetchFails, DocumentMissing, CreateFails,
             AtAttachment, auditVars, ReceiptInv
        <4>4. CASE MarkProcessed(p) \/ MarkRefused(p) \/ MarkRaises(p)
          BY <4>4, NothingPending DEF MarkProcessed, MarkRefused, MarkRaises, AtMark,
             auditVars, ReceiptInv
        <4> QED BY <1>2, <2>7, <4>1, <4>2, <4>3, <4>4 DEF Poll
      <3>2. pc'[p] \notin InRun
        <4>1. CASE \/ DocumentMissing(p) \/ CreateFails(p) \/ GraphRaises(p)
                   \/ ReceiptFails(p) \/ EventDone(p)
          BY <1>1, <4>1 DEF DocumentMissing, CreateFails, GraphRaises, ReceiptFails,
             EventDone, LogFailure, NextAttachment, MailTypeOK, InRun
        <4>2. CASE FetchFails(p) \/ MarkRaises(p) \/ Die(p)
          BY <1>1, <4>2 DEF FetchFails, MarkRaises, Die, MailTypeOK, InRun
        <4>3. CASE Fetch(p) \/ MarkProcessed(p) \/ MarkRefused(p)
          <5>1. \E i, fetched : GoBehind(p, i, fetched)
            BY <4>3 DEF Fetch, MarkProcessed, MarkRefused, NextMessage
          <5> QED BY <1>1, <5>1 DEF GoBehind, MailTypeOK, InRun
        <4> QED BY <1>2, <2>7, <4>1, <4>2, <4>3 DEF Poll
      <3> QED BY <1>1, <2>1, <3>1, <3>2, QuietStep
    <2> QED BY <2>2, <2>3, <2>4, <2>5, <2>6, <2>7
  <1>3. ASSUME NEW d \in Decisions, Decide(d)
        PROVE  ReceiptInv'
    <2>1. PICK r \in Runs : reached[r] = "waiting" /\ ReadSequence(d, r, "human_decision")
      BY <1>3 DEF Decide
    <2>2. trail[r] # <<>>
      BY <2>1 DEF ReceiptInv, DrivenHasTrail, Driven
    <2>3. \A q \in Polls : pc'[q] = pc[q]
      BY <1>3, DecisionFrame
    <2> QED BY <1>1, <1>3, <2>1, <2>2, <2>3, LaterNumber DEF Decide, pollVars
  <1>4. ASSUME NEW d \in Decisions, DecisionDone(d)
        PROVE  ReceiptInv'
    <2>1. Alone(d) /\ reached' = reached /\ d \notin Polls
      BY <1>1, <1>4, DecisionFrame DEF Alone, pollVars
    <2>2. CASE CommitEvent(d)
      <3>1. NumbersLater(d)
        BY <1>1, <2>2 DEF CommitEvent, ReceiptInv, AppendInv, NumbersReceipt
      <3> QED BY <1>1, <2>1, <2>2, <3>1, LaterCommit
    <2>3. CASE LoseEvent(d)
      <3>1. trail' = trail /\ pending'[d] = NoAppend
        BY <1>1, <2>3 DEF LoseEvent, MailTypeOK
      <3> QED BY <1>1, <2>1, <3>1, QuietStep
    <2> QED BY <1>4, <2>2, <2>3 DEF DecisionDone
  <1>5. CASE UNCHANGED vars
    BY <1>5 DEF vars, auditVars, pollVars, ReceiptInv, AppendInv, NumbersReceipt,
       NumbersLater, DrivenHasTrail, OpenedInv, Opened, CreatedInv, Here, Message
  <1> QED BY <1>2, <1>3, <1>4, <1>5 DEF MailNext

(* No run is driven, and nothing is written to its trail, before the poll  *)
(* that created it has committed the receipt: for every inbox, however     *)
(* polls and decisions interleave, fail and die.                           *)
THEOREM ReceiptComesFirst == MailSpec => []ReceiptFirst
  <1>1. MailInit => ReceiptInv
    BY MailboxAssumption DEF MailInit, AuditInit, ReceiptInv, AppendInv, DrivenHasTrail,
       OpenedInv, CreatedInv, Driven
  <1>2. ReceiptInv => ReceiptFirst
    BY DEF ReceiptInv, DrivenHasTrail, OpenedInv, Opened, ReceiptFirst, Driven
  <1> QED BY <1>1, <1>2, ReceiptStep, MailboxInvariant, PTL DEF MailSpec
-----------------------------------------------------------------------------
(* A run belongs to a message of its poll's batch.  A poll that has ended  *)
(* has handled its batch, and a poll that fetches later does not list what *)
(* was marked.                                                             *)
BatchInv ==
  /\ \A p \in Polls : pc[p] = "idle" => batch[p] = {}
  /\ \A r \in Runs : reached[r] # "absent" => \E i \in batch[r[1]] : Inbox[i] = r[2]
  /\ \A p, q \in Polls : p \in seenDone[q] => pc[p] = "done"

LaterBatches ==
  \A p, q \in Polls : p \in seenDone[q] =>
    \A i \in batch[p], j \in batch[q] :
      Inbox[i] = Inbox[j] => provider = "gmail" \/ <<p, Inbox[i]>> \in warned

(* What a fetch does.                                                      *)
LEMMA FetchStep ==
  ASSUME LoopInv, NEW p \in Polls, Fetch(p)
  PROVE  /\ pc[p] = "idle" /\ pc'[p] \in {"done", "attachment"}
         /\ reached' = reached /\ provider' = provider /\ warned' = warned
         /\ seenDone'[p] = {q \in Polls : pc[q] = "done"}
         /\ \A j \in batch'[p] : Listable(Inbox[j])
  <1> USE DEF LoopInv
  <1>1. PICK S \in SUBSET Window : batch' = [batch EXCEPT ![p] = S] /\ GoBehind(p, 0, S)
    BY DEF Fetch
  <1>2. p \in Writers
    BY MailboxAssumption
  <1>3. batch'[p] = S /\ pc'[p] \in {"done", "attachment"}
    BY <1>1, <1>2 DEF GoBehind, MailTypeOK
  <1> QED BY <1>1, <1>3 DEF Fetch, Window, MailTypeOK, mailVars, logVars

(* What any other step of a poll does to its batch.                        *)
LEMMA OtherStep ==
  ASSUME LoopInv, NEW p \in Polls, Poll(p) \/ Die(p), ~Fetch(p)
  PROVE  /\ batch'[p] = batch[p] /\ seenDone'[p] = seenDone[p]
         /\ pc[p] # "done" /\ pc'[p] # "idle"
         /\ \A r \in Runs : reached'[r] # "absent" =>
              reached[r] # "absent" \/ (r = Here(p) /\ pc[p] \in Walking)
  <1> USE DEF LoopInv
  <1>1. p \in Writers
    BY MailboxAssumption
  <1> USE DEF pollVars, Walking, InRun
  <1>2. CASE FetchFails(p) \/ MarkRaises(p) \/ Die(p)
    BY <1>1, <1>2 DEF FetchFails, MarkRaises, Die, MailTypeOK, AtMark
  <1>3. CASE DocumentMissing(p) \/ CreateFails(p) \/ GraphRaises(p) \/ ReceiptFails(p)
    BY <1>1, <1>3 DEF DocumentMissing, CreateFails, GraphRaises, ReceiptFails, LogFailure,
       NextAttachment, MailTypeOK, AtAttachment
  <1>4. CASE CreateRun(p) \/ EnterGraph(p)
    <2>1. \A r \in Runs : r # Here(p) => reached'[r] = reached[r]
      BY PollFrame, <1>4 DEF Poll
    <2> QED BY <1>1, <1>4, <2>1 DEF CreateRun, EnterGraph, MailTypeOK, AtAttachment
  <1>5. CASE NumberReceipt(p) \/ NumberEvent(p) \/ CommitReceipt(p)
    BY <1>1, <1>5 DEF NumberReceipt, NumberEvent, CommitReceipt, MailTypeOK
  <1>6. CASE EventDone(p)
    BY <1>1, <1>6 DEF EventDone, NextAttachment, MailTypeOK
  <1>7. CASE MarkProcessed(p) \/ MarkRefused(p)
    BY <1>1, <1>7 DEF MarkProcessed, MarkRefused, NextMessage, GoBehind, AtMark, MailTypeOK
  <1> QED BY <1>2, <1>3, <1>4, <1>5, <1>6, <1>7 DEF Poll

LEMMA BatchStep ==
  ASSUME LoopInv, BatchInv, [MailNext]_vars
  PROVE  BatchInv'
  <1> USE DEF LoopInv
  <1>1. \A r \in Runs : r[1] \in Polls
    BY MailboxAssumption
  <1>2. ASSUME NEW p \in Polls, Poll(p) \/ Die(p)
        PROVE  BatchInv'
    <2>1. /\ \A q \in Polls \ {p} : /\ pc'[q] = pc[q] /\ batch'[q] = batch[q]
                                    /\ seenDone'[q] = seenDone[q]
          /\ \A r \in Runs : r[1] # p => reached'[r] = reached[r]
      BY <1>2, PollFrame, MailboxAssumption
    <2>2. CASE Fetch(p)
      <3>1. /\ pc[p] = "idle" /\ pc'[p] # "idle" /\ reached' = reached
            /\ seenDone'[p] = {q \in Polls : pc[q] = "done"}
        BY <2>2, FetchStep
      <3>2. \A r \in Runs : r[1] = p => reached[r] = "absent"
        BY <3>1 DEF BatchInv
      <3> QED BY <1>1, <2>1, <3>1, <3>2 DEF BatchInv
    <2>3. CASE ~Fetch(p)
      <3>1. /\ batch'[p] = batch[p] /\ seenDone'[p] = seenDone[p]
            /\ pc[p] # "done" /\ pc'[p] # "idle"
            /\ \A r \in Runs : reached'[r] # "absent" =>
                 reached[r] # "absent" \/ (r = Here(p) /\ pc[p] \in Walking)
        BY <1>2, <2>3, OtherStep
      <3>2. pc[p] \in Walking => /\ Here(p)[1] = p /\ Here(p)[2] = Inbox[at[p].message]
                                 /\ at[p].message \in batch[p]
        BY DEF Here, Message, PlaceInv
      <3>3. \A r \in Runs : reached'[r] # "absent" => \E i \in batch[r[1]] : Inbox[i] = r[2]
        BY <3>1, <3>2 DEF BatchInv
      <3> QED BY <1>1, <2>1, <3>1, <3>3 DEF BatchInv
    <2> QED BY <2>2, <2>3
  <1>3. CASE \E d \in Decisions : Decide(d) \/ DecisionDone(d)
    BY <1>3, DecisionFrame DEF pollVars, BatchInv
  <1>4. CASE UNCHANGED vars
    BY <1>4 DEF vars, pollVars, BatchInv
  <1> QED BY <1>2, <1>3, <1>4 DEF MailNext

LEMMA LaterStep ==
  ASSUME IdsAreUnique, LoopInv, BatchInv, LaterBatches, [MailNext]_vars
  PROVE  LaterBatches'
  <1> USE DEF LoopInv
  <1>1. ASSUME NEW p \in Polls, Poll(p) \/ Die(p)
        PROVE  LaterBatches'
    <2>1. /\ \A q \in Polls \ {p} : batch'[q] = batch[q] /\ seenDone'[q] = seenDone[q]
          /\ warned \subseteq warned' /\ provider' = provider
      BY <1>1, PollFrame
    <2>2. CASE Fetch(p)
      <3>1. /\ pc[p] = "idle" /\ warned' = warned
            /\ seenDone'[p] = {q \in Polls : pc[q] = "done"}
            /\ \A j \in batch'[p] : Listable(Inbox[j])
        BY <2>2, FetchStep
      <3>2. \A q \in Polls : p \notin seenDone'[q]
        BY <2>1, <3>1 DEF BatchInv
      <3>3. ASSUME NEW o \in Polls \ {p}, o \in seenDone'[p],
                   NEW i \in batch[o], NEW j \in batch'[p], Inbox[i] = Inbox[j]
            PROVE  provider = "gmail" \/ <<o, Inbox[i]>> \in warned
        <4>1. Inbox[i] \in marked \/ <<o, Inbox[i]>> \in warned
          BY <3>1, <3>3 DEF HandledInv, Handled
        <4> QED BY <3>1, <3>3, <4>1 DEF Listable
      <3> QED BY <2>1, <3>1, <3>2, <3>3 DEF LaterBatches
    <2>3. CASE ~Fetch(p)
      <3>1. batch'[p] = batch[p] /\ seenDone'[p] = seenDone[p]
        BY <1>1, <2>3, OtherStep
      <3> QED BY <2>1, <3>1 DEF LaterBatches
    <2> QED BY <2>2, <2>3
  <1>2. CASE \E d \in Decisions : Decide(d) \/ DecisionDone(d)
    BY <1>2, DecisionFrame DEF mailVars, logVars, pollVars, LaterBatches
  <1>3. CASE UNCHANGED vars
    BY <1>3 DEF vars, mailVars, logVars, pollVars, LaterBatches
  <1> QED BY <1>1, <1>2, <1>3 DEF MailNext

(* What a poll has handled a later poll does not run again, unless the     *)
(* provider refused the mark or is Gmail, whose query does not look at it. *)
THEOREM NothingIsReprocessed ==
  ASSUME IdsAreUnique PROVE MailSpec => []NoReprocessing
  <1>1. MailInit => BatchInv /\ LaterBatches
    BY MailboxAssumption DEF MailInit, BatchInv, LaterBatches
  <1>2. LoopInv /\ BatchInv /\ LaterBatches => NoReprocessing
    <2> SUFFICES ASSUME BatchInv, LaterBatches,
                        NEW p \in Polls, NEW q \in Polls, NEW m \in Messages,
                        NEW n \in 1 .. MaxAttachments,
                        reached[<<p, m, n>>] # "absent", reached[<<q, m, n>>] # "absent",
                        p \in seenDone[q]
                 PROVE  provider = "gmail" \/ <<p, m>> \in warned
      BY DEF NoReprocessing
    <2>1. <<p, m, n>> \in Runs /\ <<q, m, n>> \in Runs
      BY MailboxAssumption
    <2>2. (\E i \in batch[p] : Inbox[i] = m) /\ (\E j \in batch[q] : Inbox[j] = m)
      BY <2>1 DEF BatchInv
    <2> QED BY <2>2 DEF LaterBatches
  <1> QED BY <1>1, <1>2, BatchStep, LaterStep, MailboxInvariant, PTL DEF MailSpec
=============================================================================
