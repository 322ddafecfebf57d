-------------------------- MODULE CashApplication --------------------------
(***************************************************************************)
(* The accounts-receivable graph (build_ar_graph and nodes/receivable.py): *)
(* a remittance is extracted, the open receivables are read from the ERP,  *)
(* match_remittance turns the advice lines into applications, and each is  *)
(* posted to the ERP by a request of its own.  Several remittances may be  *)
(* handled at once, and the ERP's open amounts move under the snapshot a   *)
(* run has taken.  A call is one graph.ainvoke, as in ApWorkflow.          *)
(*                                                                         *)
(* Amounts are integers of a fraction of a cent, as fine as the documents' *)
(* decimals need; an open receivable has a positive open amount.           *)
(***************************************************************************)
EXTENDS Integers, Sequences, FiniteSetsExt

CONSTANTS
  Runs, Calls,
  Items,          \* receivables of one customer, each known by its invoice number
  OpenAmount,     \* what is open in the ERP at the beginning
  Remittances,    \* what the extractor may read: customer, advices, total
  Tolerance,      \* remittance_tolerance_abs
  Cent,           \* units of an amount in a cent
  MaxAttempts,    \* stop_after_attempt of the ERP client
  Concurrent,     \* a call may begin while another is in progress
  Crashable,      \* calls whose process may die between two steps
  ErpErrors,      \* the ERP answers with an error
  Timeouts,       \* answers are lost and requests processed late
  StatusLossy,    \* a set_run_status write may be lost
  None

(* The customer is known by an id, by a name to be resolved, or not at all.*)
Advices == [item : Items \cup {None}, amount : Int \cup {None}]
RemittanceType == [customer : {"id", "name", "none"}, advices : Seq(Advices),
                   total : Int \cup {None}]

ASSUME ConstantsAssumption ==
  /\ OpenAmount \in [Items -> Nat]
  /\ Remittances \subseteq RemittanceType
  /\ Tolerance \in Nat /\ MaxAttempts \in Nat \ {0} /\ Cent \in Nat \ {0}
  /\ Crashable \subseteq Calls
  /\ {Concurrent, ErpErrors, Timeouts, StatusLossy} \subseteq BOOLEAN
  /\ None \notin Items /\ None \notin Int /\ None \notin Runs
  /\ None \notin Remittances

(* Nobody pays a negative amount.  The schema does not say so: this is a   *)
(* limit of what is modelled, not something the code guarantees.           *)
ASSUME PaymentsAssumption ==
  \A m \in Remittances :
    /\ m.total \in Nat \cup {None}
    /\ \A n \in DOMAIN m.advices : m.advices[n].amount \in Nat \cup {None}

VARIABLES
  status,           \* workflow_runs.status
  straightThrough,  \* workflow_runs.straight_through
  remittance,       \* checkpoint: the channel of this name
  snapshot,         \* checkpoint: open_ar_items, 0 for an item not listed
  next,             \* checkpoint: the node the thread continues at
  openAmount,       \* ERP: open amount of a receivable
  credited,         \* ERP: what it has cleared on request of a call
  inFlight,         \* requests without an answer the ERP may still process
  pc,               \* where a call is
  run,              \* the run it drives
  answered,         \* a decision was accepted by this call
  position,         \* advice or application the call is at
  attempt,          \* attempt number of the request in progress
  applied,          \* the ERP confirmed an application to the call
  confirmed,        \* sum of the applications it confirmed
  unresolved,       \* the call has unresolved reasons
  row,              \* the remittances row the call saved
  case              \* the unapplied_remittance case the call opened

runVars == <<status, straightThrough>>
checkpointVars == <<remittance, snapshot, next>>
erpVars == <<openAmount, credited, inFlight>>
callVars == <<run, answered>>
localVars == <<position, attempt, applied, confirmed, unresolved>>
tableVars == <<row, case>>
vars == <<runVars, checkpointVars, erpVars, pc, callVars, localVars, tableVars>>

Nodes == {"parse", "extract_remittance", "fetch_ar_items", "apply_cash", "failed"}
Points == Nodes \cup {"gate", "load", "fetch.by_advice", "cash.call",
                       "cash.open_case", "cash.finish", "cash.return"}
Active(c) == pc[c] \notin {"idle", "done"}
MayBegin(c) == pc[c] = "idle" /\ (Concurrent \/ \A e \in Calls : ~Active(e))

NoRow == [applied |-> FALSE, total |-> 0, saved |-> FALSE]

Init ==
  /\ status = [r \in Runs |-> "absent"]
  /\ straightThrough = [r \in Runs |-> FALSE]
  /\ remittance = [r \in Runs |-> None]
  /\ snapshot = [r \in Runs |-> [i \in Items |-> 0]]
  /\ next = [r \in Runs |-> "parse"]
  /\ openAmount = OpenAmount
  /\ credited = [c \in Calls |-> 0]
  /\ inFlight = {}
  /\ pc = [c \in Calls |-> "idle"]
  /\ run = [c \in Calls |-> None]
  /\ answered = [c \in Calls |-> FALSE]
  /\ position = [c \in Calls |-> 1]
  /\ attempt = [c \in Calls |-> 1]
  /\ applied = [c \in Calls |-> FALSE]
  /\ confirmed = [c \in Calls |-> 0]
  /\ unresolved = [c \in Calls |-> FALSE]
  /\ row = [c \in Calls |-> NoRow]
  /\ case = [c \in Calls |-> "none"]
-----------------------------------------------------------------------------
(* match_remittance, over the snapshot of a run.                           *)

Abs(x) == IF x < 0 THEN -x ELSE x

(* An amount that is not negative, rounded half up to whole cents.         *)
Cents(x) == Cent * ((2 * x + Cent) \div (2 * Cent))
Advised(r) == remittance[r].advices
Open(r, a) == IF a.item \in Items THEN snapshot[r][a.item] ELSE 0
Found(r, a) == Open(r, a) > 0

(* amount_paid or open_amount: a printed zero counts as not printed.       *)
Amount(r, a) == IF a.amount \in {None, 0} THEN Open(r, a) ELSE a.amount

(* What is posted of an application: its amount in whole cents.            *)
Posted(r, a) == Cents(Amount(r, a))

(* The positions of the advice lines that become applications.             *)
Applicable(r) == {n \in DOMAIN Advised(r) : Found(r, Advised(r)[n])}
Amounts(r) == [n \in DOMAIN Advised(r) |-> Amount(r, Advised(r)[n])]
Requested(r) == SumFunctionOnSet(Amounts(r), Applicable(r))
Declared(r) ==
  IF remittance[r].total \in {None, 0} THEN Requested(r) ELSE remittance[r].total
Residual(r) == Cents(Abs(Declared(r) - Requested(r)))

(* Mutant: an advice line without a receivable is passed over in silence.  *)
UnresolvedFound(r) ==
  \/ \E n \in Applicable(r) :
       LET a == Advised(r)[n] IN Abs(Amount(r, a) - Open(r, a)) > Tolerance
  \/ Residual(r) > Tolerance

Unresolved(r) ==
  \/ Applicable(r) # DOMAIN Advised(r)
  \/ \E n \in Applicable(r) :
       LET a == Advised(r)[n] IN Abs(Amount(r, a) - Open(r, a)) > Tolerance
  \/ Residual(r) > Tolerance
-----------------------------------------------------------------------------
(* A step inside a node, a node that returns.                              *)

Within(c, point) ==
  /\ pc' = [pc EXCEPT ![c] = point]
  /\ UNCHANGED next

Return(c, node) ==
  /\ pc' = [pc EXCEPT ![c] = node]
  /\ next' = [next EXCEPT ![run[c]] = node]

SetStatus(r, s) ==
  \/ status' = [status EXCEPT ![r] = s]
  \/ StatusLossy /\ UNCHANGED status

StartRun(c, r) ==
  /\ MayBegin(c) /\ status[r] = "absent"
  /\ status' = [status EXCEPT ![r] = "RECEIVED"]
  /\ pc' = [pc EXCEPT ![c] = "parse"]
  /\ run' = [run EXCEPT ![c] = r]
  /\ UNCHANGED <<straightThrough, checkpointVars, erpVars, answered, localVars, tableVars>>

Parse(c) ==
  /\ pc[c] = "parse"
  /\ SetStatus(run[c], "PARSING")
  /\ Return(c, "extract_remittance") \/ Return(c, "failed")
  /\ UNCHANGED <<straightThrough, remittance, snapshot, erpVars, callVars, localVars, tableVars>>

ExtractRemittance(c) ==
  /\ pc[c] = "extract_remittance"
  /\ SetStatus(run[c], "EXTRACTING")
  /\ \/ /\ \E m \in Remittances : remittance' = [remittance EXCEPT ![run[c]] = m]
        /\ Return(c, "fetch_ar_items")
     \/ /\ Return(c, "failed")
        /\ UNCHANGED remittance
  /\ UNCHANGED <<straightThrough, snapshot, erpVars, callVars, localVars, tableVars>>

(* Mutant: the run is left in the status it had.                           *)
FailedUnmarked(c) ==
  /\ pc[c] = "failed"
  /\ Return(c, "done")
  /\ UNCHANGED <<runVars, remittance, snapshot, erpVars, callVars, localVars, tableVars>>

Failed(c) ==
  /\ pc[c] = "failed"
  /\ SetStatus(run[c], "FAILED")
  /\ Return(c, "done")
  /\ UNCHANGED <<straightThrough, remittance, snapshot, erpVars, callVars, localVars, tableVars>>
-----------------------------------------------------------------------------
(* fetch_ar_items: one request when the customer is known, otherwise one   *)
(* for each advice line.  A customer's name is known if get_vendors lists  *)
(* it, and not known if that request ends in an ERPError.  The list is not *)
(* read before the node returns.                                           *)

FetchByCustomer(c) ==
  /\ pc[c] = "fetch_ar_items" /\ remittance[run[c]].customer # "none"
  /\ snapshot' = [snapshot EXCEPT ![run[c]] = openAmount]
  /\ Return(c, "apply_cash")
  /\ UNCHANGED <<runVars, remittance, erpVars, callVars, localVars, tableVars>>

UnknownCustomer(c) ==
  /\ pc[c] = "fetch_ar_items" /\ remittance[run[c]].customer # "id"
  /\ snapshot' = [snapshot EXCEPT ![run[c]] = [i \in Items |-> 0]]
  /\ Within(c, "fetch.by_advice")
  /\ UNCHANGED <<runVars, remittance, erpVars, callVars, localVars, tableVars>>

FetchByAdvice(c) ==
  LET r == run[c] IN
  /\ pc[c] = "fetch.by_advice"
  /\ position[c] <= Len(Advised(r))
  /\ LET i == Advised(r)[position[c]].item IN
       snapshot' = IF i \in Items /\ openAmount[i] > 0
                   THEN [snapshot EXCEPT ![r][i] = openAmount[i]] ELSE snapshot
  /\ position' = [position EXCEPT ![c] = @ + 1]
  /\ UNCHANGED <<runVars, remittance, next, erpVars, pc, callVars, attempt, applied,
                 confirmed, unresolved, tableVars>>

Fetched(c) ==
  /\ pc[c] = "fetch.by_advice"
  /\ position[c] > Len(Advised(run[c]))
  /\ Return(c, "apply_cash")
  /\ UNCHANGED <<runVars, remittance, snapshot, erpVars, callVars, localVars, tableVars>>

(* An ERPError empties the list; the graph goes on all the same.           *)
FetchFails(c) ==
  /\ ErpErrors /\ pc[c] \in {"fetch_ar_items", "fetch.by_advice"}
  /\ snapshot' = [snapshot EXCEPT ![run[c]] = [i \in Items |-> 0]]
  /\ Return(c, "apply_cash")
  /\ UNCHANGED <<runVars, remittance, erpVars, callVars, localVars, tableVars>>
-----------------------------------------------------------------------------
(* apply_cash.                                                             *)

ApplyBegin(c) ==
  /\ pc[c] = "apply_cash"
  /\ SetStatus(run[c], "POSTING")
  /\ position' = [position EXCEPT ![c] = 1]
  /\ unresolved' = [unresolved EXCEPT ![c] = Unresolved(run[c])]
  /\ Within(c, "cash.call")
  /\ UNCHANGED <<straightThrough, remittance, snapshot, erpVars, callVars,
                 attempt, applied, confirmed, tableVars>>

AtApplication(c) == pc[c] = "cash.call" /\ position[c] \in Applicable(run[c])
Line(c) == Advised(run[c])[position[c]]

(* What the ERP clears of a requested amount.                              *)
Cleared(i, amount) == IF amount <= openAmount[i] THEN amount ELSE openAmount[i]
Clear(c, i, amount) ==
  /\ openAmount' = [openAmount EXCEPT ![i] = @ - Cleared(i, amount)]
  /\ credited' = [credited EXCEPT ![c] = @ + Cleared(i, amount)]

NextLine(c) ==
  /\ position' = [position EXCEPT ![c] = @ + 1]
  /\ attempt' = [attempt EXCEPT ![c] = 1]

(* An advice line without an application: the loop is over the others.     *)
SkipLine(c) ==
  /\ pc[c] = "cash.call"
  /\ position[c] \in DOMAIN Advised(run[c]) \ Applicable(run[c])
  /\ NextLine(c)
  /\ UNCHANGED <<runVars, checkpointVars, erpVars, pc, callVars, applied, confirmed,
                 unresolved, tableVars>>

(* Mutant: the requested amount is recorded, not the one applied.          *)
ErpAppliesAsRequested(c) ==
  LET i == Line(c).item
      amount == Posted(run[c], Line(c))
  IN /\ AtApplication(c) /\ openAmount[i] > 0
     /\ Clear(c, i, amount)
     /\ applied' = [applied EXCEPT ![c] = TRUE]
     /\ confirmed' = [confirmed EXCEPT ![c] = @ + amount]
     /\ NextLine(c)
     /\ UNCHANGED <<runVars, checkpointVars, inFlight, pc, callVars, unresolved, tableVars>>

ErpApplies(c) ==
  LET i == Line(c).item
      amount == Posted(run[c], Line(c))
  IN /\ AtApplication(c) /\ openAmount[i] > 0
     /\ Clear(c, i, amount)
     /\ applied' = [applied EXCEPT ![c] = TRUE]
     /\ confirmed' = [confirmed EXCEPT ![c] = @ + Cleared(i, amount)]
     /\ NextLine(c)
     /\ UNCHANGED <<runVars, checkpointVars, inFlight, pc, callVars, unresolved, tableVars>>

(* Mutant: an error of the ERP is not noted.                               *)
ErpRefusesUnnoted(c) ==
  /\ AtApplication(c)
  /\ ErpErrors \/ openAmount[Line(c).item] = 0
  /\ NextLine(c)
  /\ UNCHANGED <<runVars, checkpointVars, erpVars, pc, callVars, applied, confirmed,
                 unresolved, tableVars>>

(* 409 for a receivable that is not open any more, or any other error.     *)
ErpRefuses(c) ==
  /\ AtApplication(c)
  /\ ErpErrors \/ openAmount[Line(c).item] = 0
  /\ unresolved' = [unresolved EXCEPT ![c] = TRUE]
  /\ NextLine(c)
  /\ UNCHANGED <<runVars, checkpointVars, erpVars, pc, callVars, applied, confirmed,
                 tableVars>>

(* No answer in time.  The client retries; after the last attempt the      *)
(* httpx exception escapes the node.  The ERP may process the request yet. *)
ErpTimesOut(c) ==
  /\ Timeouts /\ AtApplication(c)
  /\ inFlight' = inFlight \cup
       {[call |-> c, line |-> position[c], attempt |-> attempt[c],
         item |-> Line(c).item, amount |-> Posted(run[c], Line(c))]}
  /\ \/ /\ attempt[c] < MaxAttempts
        /\ attempt' = [attempt EXCEPT ![c] = @ + 1]
        /\ UNCHANGED pc
     \/ /\ attempt[c] = MaxAttempts
        /\ pc' = [pc EXCEPT ![c] = "done"]
        /\ UNCHANGED attempt
  /\ UNCHANGED <<runVars, checkpointVars, openAmount, credited, callVars,
                 position, applied, confirmed, unresolved, tableVars>>

(* The apply-cash endpoint has no way to tell a repeated request.          *)
ErpProcessesLate(q) ==
  /\ q \in inFlight
  /\ inFlight' = inFlight \ {q}
  /\ IF openAmount[q.item] > 0 THEN Clear(q.call, q.item, q.amount)
     ELSE UNCHANGED <<openAmount, credited>>
  /\ UNCHANGED <<runVars, checkpointVars, pc, callVars, localVars, tableVars>>

(* Mutant: the case waits for another day.                                 *)
SaveRemittanceOnly(c) ==
  /\ pc[c] = "cash.call" /\ position[c] > Len(Advised(run[c]))
  /\ row' = [row EXCEPT ![c] =
       [applied |-> applied[c] /\ ~unresolved[c], total |-> confirmed[c], saved |-> TRUE]]
  /\ Within(c, "cash.finish")
  /\ UNCHANGED <<runVars, remittance, snapshot, erpVars, callVars, localVars, case>>

SaveRemittance(c) ==
  /\ pc[c] = "cash.call" /\ position[c] > Len(Advised(run[c]))
  /\ row' = [row EXCEPT ![c] =
       [applied |-> applied[c] /\ ~unresolved[c], total |-> confirmed[c], saved |-> TRUE]]
  /\ Within(c, IF unresolved[c] THEN "cash.open_case" ELSE "cash.finish")
  /\ UNCHANGED <<runVars, remittance, snapshot, erpVars, callVars, localVars, case>>

OpenCase(c) ==
  /\ pc[c] = "cash.open_case"
  /\ case' = [case EXCEPT ![c] = "open"]
  /\ Within(c, "cash.finish")
  /\ UNCHANGED <<runVars, remittance, snapshot, erpVars, callVars, localVars, row>>

(* Mutant: anything unresolved keeps the run waiting.                      *)
FinishWaiting(c) ==
  /\ pc[c] = "cash.finish"
  /\ \/ /\ status' = [status EXCEPT ![run[c]] =
             IF applied[c] /\ ~unresolved[c] THEN "COMPLETED" ELSE "AWAITING_APPROVAL"]
        /\ straightThrough' = [straightThrough EXCEPT ![run[c]] =
             applied[c] /\ ~unresolved[c]]
     \/ StatusLossy /\ UNCHANGED runVars
  /\ Within(c, "cash.return")
  /\ UNCHANGED <<remittance, snapshot, erpVars, callVars, localVars, tableVars>>

Finish(c) ==
  /\ pc[c] = "cash.finish"
  /\ \/ /\ status' = [status EXCEPT ![run[c]] =
             IF applied[c] THEN "COMPLETED" ELSE "AWAITING_APPROVAL"]
        /\ straightThrough' = [straightThrough EXCEPT ![run[c]] =
             applied[c] /\ ~unresolved[c]]
     \/ StatusLossy /\ UNCHANGED runVars
  /\ Within(c, "cash.return")
  /\ UNCHANGED <<remittance, snapshot, erpVars, callVars, localVars, tableVars>>

EndThread(c) ==
  /\ pc[c] = "cash.return"
  /\ Return(c, "done")
  /\ UNCHANGED <<runVars, remittance, snapshot, erpVars, callVars, localVars, tableVars>>
-----------------------------------------------------------------------------
(* A decision on the case, or a release of the run.                        *)

Decide(c, r) ==
  /\ MayBegin(c) /\ status[r] # "absent"
  /\ pc' = [pc EXCEPT ![c] = "gate"]
  /\ run' = [run EXCEPT ![c] = r]
  /\ UNCHANGED <<runVars, checkpointVars, erpVars, answered, localVars, tableVars>>

ResumeGate(c) ==
  /\ pc[c] = "gate"
  /\ pc' = [pc EXCEPT ![c] = IF status[run[c]] = "AWAITING_APPROVAL" THEN "load" ELSE "done"]
  /\ UNCHANGED <<runVars, checkpointVars, erpVars, callVars, localVars, tableVars>>

(* A finished thread has nothing to resume: ainvoke returns its state.     *)
LoadCheckpoint(c) ==
  /\ pc[c] = "load"
  /\ pc' = [pc EXCEPT ![c] = next[run[c]]]
  /\ answered' = [answered EXCEPT ![c] = TRUE]
  /\ UNCHANGED <<runVars, checkpointVars, erpVars, run, localVars, tableVars>>

Abort(c) ==
  /\ c \in Crashable /\ Active(c)
  /\ pc' = [pc EXCEPT ![c] = "done"]
  /\ UNCHANGED <<runVars, checkpointVars, erpVars, callVars, localVars, tableVars>>
-----------------------------------------------------------------------------
Drive(c) ==
  \/ Parse(c) \/ ExtractRemittance(c) \/ Failed(c)
  \/ FetchByCustomer(c) \/ UnknownCustomer(c) \/ FetchByAdvice(c) \/ Fetched(c)
  \/ FetchFails(c)
  \/ ApplyBegin(c) \/ SkipLine(c)
  \/ ErpApplies(c) \/ ErpRefuses(c) \/ ErpTimesOut(c)
  \/ SaveRemittance(c) \/ OpenCase(c) \/ Finish(c) \/ EndThread(c)
  \/ ResumeGate(c) \/ LoadCheckpoint(c)

Next ==
  \/ \E c \in Calls : Drive(c) \/ Abort(c)
  \/ \E c \in Calls, r \in Runs : StartRun(c, r) \/ Decide(c, r)
  \/ \E q \in inFlight : ErpProcessesLate(q)

Spec == Init /\ [][Next]_vars

(* asyncio keeps scheduling a call in progress; nobody must call or err.   *)
Fairness == \A c \in Calls : WF_vars(Drive(c))
FairSpec == Spec /\ Fairness
-----------------------------------------------------------------------------
Requests == [call : Calls, line : Nat, attempt : 1..MaxAttempts,
             item : Items, amount : Nat]

TypeOK ==
  /\ status \in [Runs -> {"absent", "RECEIVED", "PARSING", "EXTRACTING", "POSTING",
                          "COMPLETED", "AWAITING_APPROVAL", "FAILED"}]
  /\ straightThrough \in [Runs -> BOOLEAN]
  /\ remittance \in [Runs -> Remittances \cup {None}]
  /\ snapshot \in [Runs -> [Items -> Nat]]
  /\ next \in [Runs -> Nodes \cup {"done"}]
  /\ openAmount \in [Items -> Nat]
  /\ credited \in [Calls -> Nat]
  /\ inFlight \subseteq Requests
  /\ pc \in [Calls -> Points \cup {"idle", "done"}]
  /\ run \in [Calls -> Runs \cup {None}]
  /\ answered \in [Calls -> BOOLEAN]
  /\ position \in [Calls -> Nat \ {0}]
  /\ attempt \in [Calls -> 1..MaxAttempts]
  /\ applied \in [Calls -> BOOLEAN]
  /\ confirmed \in [Calls -> Nat]
  /\ unresolved \in [Calls -> BOOLEAN]
  /\ row \in [Calls -> [applied : BOOLEAN, total : Nat, saved : BOOLEAN]]
  /\ case \in [Calls -> {"none", "open"}]

Queued(r) == \E c \in Calls : run[c] = r /\ case[c] = "open"
Credited(r) == SumFunctionOnSet(credited, {c \in Calls : run[c] = r})

(* What a remittances row says was applied has been cleared in the ERP.    *)
RowsBackedByErp == \A c \in Calls : row[c].total <= credited[c]

(* A run waits for a human only if there is a case to decide, unless the   *)
(* remittance had no line and declared nothing to speak of.                *)
Bare(r) == Advised(r) = <<>> /\ Residual(r) <= Tolerance
WaitingIsQueued ==
  \A r \in Runs : status[r] = "AWAITING_APPROVAL" => Queued(r) \/ Bare(r)

(* What comes straight through, without a case, is the declared money, up  *)
(* to the tolerance and half a cent for each advice line and for the       *)
(* total.  Not so if two lines name one receivable: each is compared with  *)
(* the open amount before either is applied.                               *)
NamedOnce(r) ==
  \A m, n \in DOMAIN Advised(r) : m # n => Advised(r)[m].item # Advised(r)[n].item
LeakBounded ==
  \A r \in Runs : status[r] = "COMPLETED" /\ ~Queued(r) /\ NamedOnce(r) =>
    2 * Abs(Declared(r) - Credited(r)) <= (2 * Tolerance + Cent) * (1 + Len(Advised(r)))

(* A remittance clears no more than its lines asked for, each in whole     *)
(* cents, however often its run is resumed.                                *)
Postings(r) == [n \in DOMAIN Advised(r) |-> Posted(r, Advised(r)[n])]
CreditedWithinRemittance ==
  \A r \in Runs : remittance[r] # None =>
    Credited(r) <= SumFunctionOnSet(Postings(r), Applicable(r))

(* A call that is not killed brings the remittance it started to an end,   *)
(* whatever the ERP answers and whichever other calls die.                 *)
RunEnds ==
  \A c \in Calls \ Crashable, r \in Runs :
    pc[c] = "parse" /\ run[c] = r ~>
      status[r] \in {"COMPLETED", "AWAITING_APPROVAL", "FAILED"}

(* What the matching or the ERP left open reaches the queue, unless the    *)
(* process dies before the case is opened.                                 *)
LeftoverQueued ==
  \A c \in Calls \ Crashable : unresolved[c] ~> case[c] = "open"
=============================================================================
