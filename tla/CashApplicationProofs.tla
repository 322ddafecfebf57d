------------------------ MODULE CashApplicationProofs ------------------------
(***************************************************************************)
(* Proofs about the accounts-receivable graph.  The inductive invariant    *)
(* says where the driver of a run may be while the run is still being      *)
(* read, that a run at apply_cash has a remittance which nobody changes    *)
(* any more, that what a call counts as confirmed the ERP has cleared, and *)
(* that a call without an unresolved reason has applied something for each *)
(* line it has passed.  A step of a call is taken apart action by action;  *)
(* a late request changes only what the ERP has.  The second half is about *)
(* runs driven by one call after the other: what a run has cleared one     *)
(* call has cleared, line by line, which bounds it by what the lines asked *)
(* for and keeps it close to what the remittance declares.                 *)
(***************************************************************************)
EXTENDS CashApplication, SumTheorems, TLAPS

Early == {"parse", "extract_remittance", "fetch_ar_items", "failed"}
Cash == {"cash.call", "cash.open_case", "cash.finish", "cash.return"}

CallStep(c) == Drive(c) \/ Abort(c) \/ \E r \in Runs : StartRun(c, r) \/ Decide(c, r)

ChannelTypes ==
  /\ status \in [Runs -> {"absent", "RECEIVED", "PARSING", "EXTRACTING", "POSTING",
                          "COMPLETED", "AWAITING_APPROVAL", "FAILED"}]
  /\ straightThrough \in [Runs -> BOOLEAN]
  /\ remittance \in [Runs -> Remittances \cup {None}]
  /\ snapshot \in [Runs -> [Items -> Nat]]
  /\ next \in [Runs -> Nodes \cup {"done"}]

ErpTypes ==
  /\ openAmount \in [Items -> Nat]
  /\ credited \in [Calls -> Nat]
  /\ inFlight \subseteq Requests

CallTypes ==
  /\ pc \in [Calls -> Points \cup {"idle", "done"}]
  /\ run \in [Calls -> Runs \cup {None}]
  /\ answered \in [Calls -> BOOLEAN]
  /\ position \in [Calls -> Nat \ {0}]
  /\ attempt \in [Calls -> 1..MaxAttempts]
  /\ applied \in [Calls -> BOOLEAN]
  /\ confirmed \in [Calls -> Nat]
  /\ unresolved \in [Calls -> BOOLEAN]
  /\ row \in [Calls -> [applied : BOOLEAN, total : Nat, saved : BOOLEAN]]
  /\ case \in [Calls -> {"none", "open"}]

(* A call that has begun has a run, and the run a row.                     *)
PlacedInv ==
  \A c \in Calls :
    /\ pc[c] = "idle" => run[c] = None /\ case[c] = "none"
    /\ pc[c] # "idle" => run[c] \in Runs /\ status[run[c]] # "absent"

(* The node a call is in: it asks for line after line within fetch_ar_items. *)
At(c) == IF pc[c] = "fetch.by_advice" THEN "fetch_ar_items" ELSE pc[c]

(* Before apply_cash a run has one driver, at the node of its checkpoint.  *)
IsEarly(r) ==
  /\ next[r] \in Early =>
       /\ status[r] # "AWAITING_APPROVAL"
       /\ \A c \in Calls : run[c] = r => At(c) \in {next[r], "gate", "done"}
       /\ \A c, d \in Calls :
            run[c] = r /\ run[d] = r /\ At(c) = next[r] /\ At(d) = next[r] => c = d
  /\ next[r] \notin Early => \A c \in Calls : run[c] = r => At(c) \notin Early
  /\ status[r] = "absent" => next[r] = "parse"

EarlyInv == \A r \in Runs : IsEarly(r)

(* From there on it has a remittance.                                      *)
ReadInv ==
  /\ \A r \in Runs : next[r] \in {"fetch_ar_items", "apply_cash"} => remittance[r] # None
  /\ \A c \in Calls : pc[c] \in {"apply_cash"} \cup Cash => remittance[run[c]] # None

(* A row says what was confirmed, and what was confirmed was cleared.      *)
BackedInv ==
  \A c \in Calls : row[c].total <= confirmed[c] /\ confirmed[c] <= credited[c]

Types == ChannelTypes /\ ErpTypes /\ CallTypes
Control == Types /\ PlacedInv /\ EarlyInv /\ ReadInv

(* The program starts in order.                                            *)
LEMMA InitControl ==
  ASSUME Init
  PROVE  Control /\ BackedInv
  <1> USE ConstantsAssumption DEF Init
  <1>1. Types
    BY DEF Types, ChannelTypes, ErpTypes, CallTypes, Nodes, Points, NoRow
  <1>2. PlacedInv /\ EarlyInv /\ ReadInv /\ BackedInv
    BY DEF PlacedInv, EarlyInv, IsEarly, At, ReadInv, BackedInv, Early, Cash, NoRow
  <1> QED BY <1>1, <1>2 DEF Control

(* The advices of a run that has a remittance are a sequence of advices,   *)
(* and nobody pays a negative amount.                                      *)
LEMMA AdvicesFit ==
  ASSUME ChannelTypes, NEW r \in Runs, remittance[r] # None
  PROVE  /\ Advised(r) \in Seq(Advices)
         /\ Len(Advised(r)) \in Nat /\ DOMAIN Advised(r) = 1 .. Len(Advised(r))
         /\ \A n \in DOMAIN Advised(r) : Advised(r)[n].amount \in Nat \cup {None}
         /\ remittance[r].total \in Nat \cup {None}
  <1>1. remittance[r] \in Remittances /\ remittance[r] \in RemittanceType
    BY ConstantsAssumption DEF ChannelTypes
  <1>2. Advised(r) \in Seq(Advices)
    BY <1>1 DEF RemittanceType, Advised
  <1>3. /\ remittance[r].total \in Nat \cup {None}
        /\ \A n \in DOMAIN Advised(r) : Advised(r)[n].amount \in Nat \cup {None}
    BY <1>1, PaymentsAssumption DEF Advised
  <1> QED BY <1>2, <1>3

(* A multiple of a unit, between two divisors.                             *)
LEMMA DivFits ==
  ASSUME NEW x \in Nat, NEW y \in Nat, y > 0
  PROVE  /\ x \div y \in Nat
         /\ (x \div y) * y <= x /\ x < (x \div y) * y + y
  <1> DEFINE z == x \div y
  <1>1. z \in Nat /\ z * y <= x /\ x < (z + 1) * y
    OBVIOUS
  <1> HIDE DEF z
  <1>2. (z + 1) * y = z * y + y
    BY <1>1
  <1> QED BY <1>1, <1>2 DEF z

(* Rounding to cents moves an amount by half a cent at most.               *)
LEMMA CentsFit ==
  ASSUME NEW x \in Nat
  PROVE  Cents(x) \in Nat /\ 2 * Cents(x) <= 2 * x + Cent /\ 2 * x <= 2 * Cents(x) + Cent
  <1> DEFINE q == (2 * x + Cent) \div (2 * Cent)
             y == Cent * q
  <1>1. Cent \in Nat /\ Cent > 0
    BY ConstantsAssumption
  <1>2. 2 * x + Cent \in Nat /\ 2 * Cent \in Nat /\ 2 * Cent > 0
    BY <1>1
  <1>3. q \in Nat /\ q * (2 * Cent) <= 2 * x + Cent /\ 2 * x + Cent < q * (2 * Cent) + 2 * Cent
    BY <1>2, DivFits
  <1>4. Cents(x) = y
    BY DEF Cents
  <1> HIDE DEF q
  <1>5. q * (2 * Cent) = 2 * y /\ y \in Nat
    BY <1>1, <1>3
  <1> HIDE DEF y
  <1>6. 2 * y <= 2 * x + Cent /\ 2 * x + Cent < 2 * y + 2 * Cent
    BY <1>3, <1>5
  <1> QED BY <1>1, <1>4, <1>5, <1>6

(* A line that found its receivable asks for an amount.                    *)
LEMMA AmountFits ==
  ASSUME ChannelTypes, NEW r \in Runs, remittance[r] # None, NEW n \in DOMAIN Advised(r)
  PROVE  /\ Open(r, Advised(r)[n]) \in Nat /\ Amount(r, Advised(r)[n]) \in Nat
         /\ Posted(r, Advised(r)[n]) \in Nat
  <1>1. snapshot[r] \in [Items -> Nat]
    BY DEF ChannelTypes
  <1>2. Open(r, Advised(r)[n]) \in Nat
    BY <1>1 DEF Open
  <1>3. Advised(r)[n].amount \in Nat \cup {None}
    BY AdvicesFit
  <1>4. Amount(r, Advised(r)[n]) \in Nat
    BY <1>2, <1>3 DEF Amount
  <1> QED BY <1>2, <1>4, CentsFit DEF Posted

(* An application names a receivable and asks for an amount.               *)
LEMMA LineFits ==
  ASSUME Control, NEW c \in Calls, AtApplication(c)
  PROVE  /\ Line(c).item \in Items
         /\ Amount(run[c], Line(c)) \in Nat /\ Posted(run[c], Line(c)) \in Nat
         /\ run[c] \in Runs /\ remittance[run[c]] # None
  <1> USE DEF Control, Types
  <1>1. pc[c] = "cash.call" /\ position[c] \in Applicable(run[c])
    BY DEF AtApplication
  <1>2. run[c] \in Runs /\ remittance[run[c]] # None
    BY <1>1 DEF PlacedInv, ReadInv, Cash
  <1>3. position[c] \in DOMAIN Advised(run[c]) /\ Open(run[c], Line(c)) > 0
    BY <1>1 DEF Applicable, Found, Line
  <1>4. Line(c).item \in Items
    BY <1>3 DEF Open
  <1>5. Amount(run[c], Line(c)) \in Nat /\ Posted(run[c], Line(c)) \in Nat
    BY <1>2, <1>3, AmountFits DEF Line
  <1> QED BY <1>2, <1>4, <1>5

(* The ERP clears at most what is open.                                    *)
LEMMA ClearedFits ==
  ASSUME Control, NEW c \in Calls, AtApplication(c)
  PROVE  /\ Cleared(Line(c).item, Posted(run[c], Line(c))) \in Nat
         /\ Cleared(Line(c).item, Posted(run[c], Line(c))) <= openAmount[Line(c).item]
  <1>1. openAmount[Line(c).item] \in Nat
    BY LineFits DEF Control, Types, ErpTypes
  <1> QED BY <1>1, LineFits DEF Cleared

Same(d) ==
  /\ pc'[d] = pc[d] /\ run'[d] = run[d] /\ position'[d] = position[d]
  /\ applied'[d] = applied[d] /\ confirmed'[d] = confirmed[d]
  /\ credited'[d] = credited[d]
  /\ unresolved'[d] = unresolved[d] /\ row'[d] = row[d] /\ case'[d] = case[d]

(* A step of c leaves the other calls where they are.                      *)
LEMMA FrameStep ==
  ASSUME Control, NEW c \in Calls, CallStep(c)
  PROVE  \A d \in Calls \ {c} : Same(d)
  <1> SUFFICES ASSUME NEW d \in Calls \ {c} PROVE Same(d)
    OBVIOUS
  <1>t. CallTypes /\ credited \in [Calls -> Nat]
    BY DEF Control, Types, ErpTypes
  <1> USE DEF CallTypes, callVars, localVars, tableVars, erpVars, Within, Return, Same
  <1>1. CASE Parse(c)
    BY <1>1, <1>t DEF Parse
  <1>2. CASE ExtractRemittance(c)
    BY <1>2, <1>t DEF ExtractRemittance
  <1>3. CASE Failed(c)
    BY <1>3, <1>t DEF Failed
  <1>4. CASE FetchByCustomer(c)
    BY <1>4, <1>t DEF FetchByCustomer
  <1>5. CASE FetchByAdvice(c)
    BY <1>5, <1>t DEF FetchByAdvice
  <1>6. CASE Fetched(c)
    BY <1>6, <1>t DEF Fetched
  <1>7. CASE FetchFails(c)
    BY <1>7, <1>t DEF FetchFails
  <1>8. CASE ApplyBegin(c)
    BY <1>8, <1>t DEF ApplyBegin
  <1>9. CASE SkipLine(c)
    BY <1>9, <1>t DEF SkipLine, NextLine, Clear
  <1>10. CASE ErpApplies(c)
    BY <1>10, <1>t DEF ErpApplies, NextLine, Clear
  <1>11. CASE ErpRefuses(c)
    BY <1>11, <1>t DEF ErpRefuses, NextLine, Clear
  <1>12. CASE ErpTimesOut(c)
    BY <1>12, <1>t DEF ErpTimesOut, NextLine, Clear
  <1>13. CASE SaveRemittance(c)
    BY <1>13, <1>t DEF SaveRemittance
  <1>14. CASE OpenCase(c)
    BY <1>14, <1>t DEF OpenCase
  <1>15. CASE Finish(c)
    BY <1>15, <1>t DEF Finish
  <1>16. CASE EndThread(c)
    BY <1>16, <1>t DEF EndThread
  <1>17. CASE ResumeGate(c)
    BY <1>17, <1>t DEF ResumeGate
  <1>18. CASE LoadCheckpoint(c)
    BY <1>18, <1>t DEF LoadCheckpoint
  <1>19. CASE Abort(c)
    BY <1>19, <1>t DEF Abort
  <1>20. CASE \E r \in Runs : StartRun(c, r)
    BY <1>20, <1>t DEF StartRun
  <1>21. CASE \E r \in Runs : Decide(c, r)
    BY <1>21, <1>t DEF Decide
  <1>22. CASE UnknownCustomer(c)
    BY <1>22, <1>t DEF UnknownCustomer
  <1> QED BY <1>1, <1>2, <1>3, <1>4, <1>5, <1>6, <1>7, <1>8, <1>9, <1>10, <1>11, <1>12,
             <1>13, <1>14, <1>15, <1>16, <1>17, <1>18, <1>19, <1>20, <1>21, <1>22
          DEF CallStep, Drive

(* What a call keeps to itself keeps its type.                             *)
LEMMA CallTypesStep ==
  ASSUME Control, NEW c \in Calls, CallStep(c)
  PROVE  CallTypes'
  <1>t. Types /\ CallTypes
    BY DEF Control, Types
  <1> USE ConstantsAssumption DEF CallTypes, callVars, localVars, tableVars, Within,
          Return, Nodes, Points
  <1>1. CASE Parse(c)
    <2>1. \/ pc' = [pc EXCEPT ![c] = "extract_remittance"]
          \/ pc' = [pc EXCEPT ![c] = "failed"]
      BY <1>1 DEF Parse
    <2>2. pc' \in [Calls -> Points \cup {"idle", "done"}]
      BY <1>t, <2>1
    <2> QED BY <1>1, <1>t, <2>2 DEF Parse
  <1>2. CASE ExtractRemittance(c)
    <2>1. \/ pc' = [pc EXCEPT ![c] = "fetch_ar_items"]
          \/ pc' = [pc EXCEPT ![c] = "failed"]
      BY <1>2 DEF ExtractRemittance
    <2>2. pc' \in [Calls -> Points \cup {"idle", "done"}]
      BY <1>t, <2>1
    <2> QED BY <1>2, <1>t, <2>2 DEF ExtractRemittance
  <1>3. CASE Failed(c)
    BY <1>3, <1>t DEF Failed
  <1>4. CASE FetchByCustomer(c)
    BY <1>4, <1>t DEF FetchByCustomer
  <1>5. CASE FetchByAdvice(c)
    <2>1. position' \in [Calls -> Nat \ {0}]
      BY <1>5, <1>t DEF FetchByAdvice
    <2>2. UNCHANGED <<pc, run, answered, attempt, applied, confirmed,
                     unresolved, row, case>>
      BY <1>5 DEF FetchByAdvice
    <2> QED BY <1>t, <2>1, <2>2
  <1>6. CASE Fetched(c)
    BY <1>6, <1>t DEF Fetched
  <1>7. CASE FetchFails(c)
    BY <1>7, <1>t DEF FetchFails
  <1>8. CASE ApplyBegin(c)
    <2>1. Unresolved(run[c]) \in BOOLEAN
      BY DEF Unresolved
    <2> QED BY <1>8, <1>t, <2>1 DEF ApplyBegin
  <1>9. CASE SkipLine(c)
    BY <1>9, <1>t DEF SkipLine, NextLine
  <1>10. CASE ErpApplies(c)
    <2>1. Cleared(Line(c).item, Posted(run[c], Line(c))) \in Nat
      BY <1>10, ClearedFits DEF ErpApplies
    <2> QED BY <1>10, <1>t, <2>1 DEF ErpApplies, NextLine
  <1>11. CASE ErpRefuses(c)
    BY <1>11, <1>t DEF ErpRefuses, NextLine
  <1>12. CASE ErpTimesOut(c)
    <2>1. attempt' \in [Calls -> 1 .. MaxAttempts]
      BY <1>12, <1>t DEF ErpTimesOut
    <2>2. pc' \in [Calls -> Points \cup {"idle", "done"}]
      BY <1>12, <1>t DEF ErpTimesOut
    <2> QED BY <1>12, <1>t, <2>1, <2>2 DEF ErpTimesOut
  <1>13. CASE SaveRemittance(c)
    BY <1>13, <1>t DEF SaveRemittance
  <1>14. CASE OpenCase(c)
    BY <1>14, <1>t DEF OpenCase
  <1>15. CASE Finish(c)
    BY <1>15, <1>t DEF Finish
  <1>16. CASE EndThread(c)
    BY <1>16, <1>t DEF EndThread
  <1>17. CASE ResumeGate(c)
    BY <1>17, <1>t DEF ResumeGate
  <1>18. CASE LoadCheckpoint(c)
    <2>1. next[run[c]] \in Points \cup {"done"}
      BY <1>18, <1>t DEF LoadCheckpoint, Control, PlacedInv, ChannelTypes, Types
    <2> QED BY <1>18, <1>t, <2>1 DEF LoadCheckpoint
  <1>19. CASE Abort(c)
    BY <1>19, <1>t DEF Abort
  <1>20. CASE \E r \in Runs : StartRun(c, r)
    BY <1>20, <1>t DEF StartRun
  <1>21. CASE \E r \in Runs : Decide(c, r)
    BY <1>21, <1>t DEF Decide
  <1>22. CASE UnknownCustomer(c)
    BY <1>22, <1>t DEF UnknownCustomer
  <1> QED BY <1>1, <1>2, <1>3, <1>4, <1>5, <1>6, <1>7, <1>8, <1>9, <1>10, <1>11, <1>12,
             <1>13, <1>14, <1>15, <1>16, <1>17, <1>18, <1>19, <1>20, <1>21, <1>22
          DEF CallStep, Drive

(* So do the run's row and its checkpoint,                                 *)
LEMMA ChannelTypesStep ==
  ASSUME Control, NEW c \in Calls, CallStep(c)
  PROVE  ChannelTypes'
  <1>t. ChannelTypes
    BY DEF Control, Types
  <1>r. pc[c] # "idle" => run[c] \in Runs
    BY DEF Control, PlacedInv
  <1> USE ConstantsAssumption DEF ChannelTypes, runVars, checkpointVars, Within,
          Return, Nodes,
          SetStatus
  <1>1. CASE Parse(c)
    BY <1>1, <1>r, <1>t DEF Parse
  <1>2. CASE ExtractRemittance(c)
    <2>1. remittance' \in [Runs -> Remittances \cup {None}]
      BY <1>2, <1>r, <1>t DEF ExtractRemittance
    <2>2. next' \in [Runs -> {"parse", "extract_remittance", "fetch_ar_items", "apply_cash",
                              "failed", "done"}]
      BY <1>2, <1>r, <1>t DEF ExtractRemittance
    <2> QED BY <1>2, <1>r, <1>t, <2>1, <2>2 DEF ExtractRemittance
  <1>3. CASE Failed(c)
    BY <1>3, <1>r, <1>t DEF Failed
  <1>4. CASE FetchByCustomer(c)
    <2>1. openAmount \in [Items -> Nat]
      BY DEF Control, Types, ErpTypes
    <2> QED BY <1>4, <1>r, <1>t, <2>1 DEF FetchByCustomer
  <1>5. CASE FetchByAdvice(c)
    <2>1. openAmount \in [Items -> Nat] /\ run[c] \in Runs
      BY <1>5, <1>r DEF Control, Types, ErpTypes, FetchByAdvice
    <2>2. PICK i : snapshot' = IF i \in Items /\ openAmount[i] > 0
                               THEN [snapshot EXCEPT ![run[c]][i] = openAmount[i]] ELSE snapshot
      BY <1>5 DEF FetchByAdvice
    <2>3. ASSUME i \in Items PROVE [snapshot[run[c]] EXCEPT ![i] = openAmount[i]] \in [Items -> Nat]
      BY <1>t, <2>1, <2>3
    <2>4. snapshot' \in [Runs -> [Items -> Nat]]
      BY <1>t, <2>1, <2>2, <2>3
    <2> QED BY <1>5, <1>t, <2>4 DEF FetchByAdvice
  <1>6. CASE Fetched(c)
    BY <1>6, <1>r, <1>t DEF Fetched
  <1>7. CASE FetchFails(c)
    BY <1>7, <1>r, <1>t DEF FetchFails
  <1>8. CASE ApplyBegin(c)
    BY <1>8, <1>r, <1>t DEF ApplyBegin
  <1>9. CASE SkipLine(c)
    BY <1>9, <1>r, <1>t DEF SkipLine
  <1>10. CASE ErpApplies(c)
    BY <1>10, <1>r, <1>t DEF ErpApplies
  <1>11. CASE ErpRefuses(c)
    BY <1>11, <1>r, <1>t DEF ErpRefuses
  <1>12. CASE ErpTimesOut(c)
    BY <1>12, <1>r, <1>t DEF ErpTimesOut
  <1>13. CASE SaveRemittance(c)
    BY <1>13, <1>r, <1>t DEF SaveRemittance
  <1>14. CASE OpenCase(c)
    BY <1>14, <1>r, <1>t DEF OpenCase
  <1>15. CASE Finish(c)
    BY <1>15, <1>r, <1>t DEF Finish
  <1>16. CASE EndThread(c)
    BY <1>16, <1>r, <1>t DEF EndThread
  <1>17. CASE ResumeGate(c)
    BY <1>17, <1>r, <1>t DEF ResumeGate
  <1>18. CASE LoadCheckpoint(c)
    BY <1>18, <1>r, <1>t DEF LoadCheckpoint
  <1>19. CASE Abort(c)
    BY <1>19, <1>r, <1>t DEF Abort
  <1>20. CASE \E r \in Runs : StartRun(c, r)
    BY <1>20, <1>r, <1>t DEF StartRun
  <1>21. CASE \E r \in Runs : Decide(c, r)
    BY <1>21, <1>r, <1>t DEF Decide
  <1>22. CASE UnknownCustomer(c)
    BY <1>22, <1>r, <1>t DEF UnknownCustomer
  <1> QED BY <1>1, <1>2, <1>3, <1>4, <1>5, <1>6, <1>7, <1>8, <1>9, <1>10, <1>11, <1>12,
             <1>13, <1>14, <1>15, <1>16, <1>17, <1>18, <1>19, <1>20, <1>21, <1>22
          DEF CallStep, Drive

(* and what the ERP has.                                                   *)
LEMMA ErpTypesStep ==
  ASSUME Control, NEW c \in Calls, CallStep(c)
  PROVE  ErpTypes'
  <1>t. ErpTypes
    BY DEF Control, Types
  <1> USE DEF ErpTypes, erpVars
  <1>1. CASE Parse(c)
    BY <1>1, <1>t DEF Parse
  <1>2. CASE ExtractRemittance(c)
    BY <1>2, <1>t DEF ExtractRemittance
  <1>3. CASE Failed(c)
    BY <1>3, <1>t DEF Failed
  <1>4. CASE FetchByCustomer(c)
    BY <1>4, <1>t DEF FetchByCustomer
  <1>5. CASE FetchByAdvice(c)
    BY <1>5, <1>t DEF FetchByAdvice
  <1>6. CASE Fetched(c)
    BY <1>6, <1>t DEF Fetched
  <1>7. CASE FetchFails(c)
    BY <1>7, <1>t DEF FetchFails
  <1>8. CASE ApplyBegin(c)
    BY <1>8, <1>t DEF ApplyBegin
  <1>9. CASE SkipLine(c)
    BY <1>9, <1>t DEF SkipLine
  <1>10. CASE ErpApplies(c)
    <2> DEFINE i == Line(c).item
               a == Cleared(i, Posted(run[c], Line(c)))
    <2>1. i \in Items /\ a \in Nat /\ a <= openAmount[i]
      BY <1>10, LineFits, ClearedFits DEF ErpApplies
    <2>2. /\ openAmount' = [openAmount EXCEPT ![i] = openAmount[i] - a]
          /\ credited' = [credited EXCEPT ![c] = credited[c] + a]
          /\ inFlight' = inFlight
      <3>1. Clear(c, i, Posted(run[c], Line(c))) /\ inFlight' = inFlight
        BY <1>10 DEF ErpApplies
      <3> QED BY <3>1 DEF Clear
    <2> HIDE DEF i, a
    <2>3. openAmount[i] \in Nat /\ credited[c] \in Nat
      BY <1>t, <2>1
    <2>4. openAmount[i] - a \in Nat /\ credited[c] + a \in Nat
      BY <2>1, <2>3
    <2> QED BY <1>t, <2>1, <2>2, <2>4
  <1>11. CASE ErpRefuses(c)
    BY <1>11, <1>t DEF ErpRefuses
  <1>12. CASE ErpTimesOut(c)
    <2> DEFINE q == [call |-> c, line |-> position[c], attempt |-> attempt[c],
                     item |-> Line(c).item, amount |-> Posted(run[c], Line(c))]
    <2>1. Line(c).item \in Items /\ Posted(run[c], Line(c)) \in Nat
      BY <1>12, LineFits DEF ErpTimesOut
    <2>2. position[c] \in Nat /\ attempt[c] \in 1 .. MaxAttempts
      BY DEF Control, Types, CallTypes
    <2>3. q \in Requests
      BY <2>1, <2>2 DEF Requests
    <2>4. inFlight' = inFlight \cup {q} /\ UNCHANGED <<openAmount, credited>>
      BY <1>12 DEF ErpTimesOut
    <2> HIDE DEF q
    <2> QED BY <1>t, <2>3, <2>4
  <1>13. CASE SaveRemittance(c)
    BY <1>13, <1>t DEF SaveRemittance
  <1>14. CASE OpenCase(c)
    BY <1>14, <1>t DEF OpenCase
  <1>15. CASE Finish(c)
    BY <1>15, <1>t DEF Finish
  <1>16. CASE EndThread(c)
    BY <1>16, <1>t DEF EndThread
  <1>17. CASE ResumeGate(c)
    BY <1>17, <1>t DEF ResumeGate
  <1>18. CASE LoadCheckpoint(c)
    BY <1>18, <1>t DEF LoadCheckpoint
  <1>19. CASE Abort(c)
    BY <1>19, <1>t DEF Abort
  <1>20. CASE \E r \in Runs : StartRun(c, r)
    BY <1>20, <1>t DEF StartRun
  <1>21. CASE \E r \in Runs : Decide(c, r)
    BY <1>21, <1>t DEF Decide
  <1>22. CASE UnknownCustomer(c)
    BY <1>22, <1>t DEF UnknownCustomer
  <1> QED BY <1>1, <1>2, <1>3, <1>4, <1>5, <1>6, <1>7, <1>8, <1>9, <1>10, <1>11, <1>12,
             <1>13, <1>14, <1>15, <1>16, <1>17, <1>18, <1>19, <1>20, <1>21, <1>22
          DEF CallStep, Drive

(* A begun run is never absent again, and only a call at the end of        *)
(* apply_cash leaves one waiting.                                          *)
StatusMoves(c) ==
  \A r \in Runs :
    /\ status[r] # "absent" => status'[r] # "absent"
    /\ status'[r] = "AWAITING_APPROVAL" =>
         \/ status[r] = "AWAITING_APPROVAL"
         \/ pc[c] = "cash.finish" /\ pc'[c] = "cash.return" /\ run[c] = r /\ ~applied[c]

(* Every step of a call moves the status of its run so.                    *)
LEMMA StatusStep ==
  ASSUME Control, NEW c \in Calls, CallStep(c)
  PROVE  StatusMoves(c)
  <1>t. /\ DOMAIN status = Runs /\ DOMAIN pc = Calls
        /\ applied \in [Calls -> BOOLEAN]
    BY DEF Control, Types, ChannelTypes, CallTypes
  <1> USE DEF StatusMoves, runVars, SetStatus
  <1>1. CASE Parse(c)
    BY <1>1, <1>t DEF Parse
  <1>2. CASE ExtractRemittance(c)
    BY <1>2, <1>t DEF ExtractRemittance
  <1>3. CASE Failed(c)
    BY <1>3, <1>t DEF Failed
  <1>4. CASE FetchByCustomer(c)
    BY <1>4, <1>t DEF FetchByCustomer
  <1>5. CASE FetchByAdvice(c)
    BY <1>5, <1>t DEF FetchByAdvice
  <1>6. CASE Fetched(c)
    BY <1>6, <1>t DEF Fetched
  <1>7. CASE FetchFails(c)
    BY <1>7, <1>t DEF FetchFails
  <1>8. CASE ApplyBegin(c)
    BY <1>8, <1>t DEF ApplyBegin
  <1>9. CASE SkipLine(c)
    BY <1>9, <1>t DEF SkipLine
  <1>10. CASE ErpApplies(c)
    BY <1>10, <1>t DEF ErpApplies
  <1>11. CASE ErpRefuses(c)
    BY <1>11, <1>t DEF ErpRefuses
  <1>12. CASE ErpTimesOut(c)
    BY <1>12, <1>t DEF ErpTimesOut
  <1>13. CASE SaveRemittance(c)
    BY <1>13, <1>t DEF SaveRemittance
  <1>14. CASE OpenCase(c)
    BY <1>14, <1>t DEF OpenCase
  <1>15. CASE Finish(c)
    BY <1>15, <1>t DEF Finish, Within
  <1>16. CASE EndThread(c)
    BY <1>16, <1>t DEF EndThread
  <1>17. CASE ResumeGate(c)
    BY <1>17, <1>t DEF ResumeGate
  <1>18. CASE LoadCheckpoint(c)
    BY <1>18, <1>t DEF LoadCheckpoint
  <1>19. CASE Abort(c)
    BY <1>19, <1>t DEF Abort
  <1>20. CASE \E r \in Runs : StartRun(c, r)
    BY <1>20, <1>t DEF StartRun
  <1>21. CASE \E r \in Runs : Decide(c, r)
    BY <1>21, <1>t DEF Decide
  <1>22. CASE UnknownCustomer(c)
    BY <1>22, <1>t DEF UnknownCustomer
  <1> QED BY <1>1, <1>2, <1>3, <1>4, <1>5, <1>6, <1>7, <1>8, <1>9, <1>10, <1>11, <1>12,
             <1>13, <1>14, <1>15, <1>16, <1>17, <1>18, <1>19, <1>20, <1>21, <1>22
          DEF CallStep, Drive

(* A call keeps its run, which it takes when it begins.                    *)
LEMMA RunStep ==
  ASSUME Control, NEW c \in Calls, CallStep(c)
  PROVE  /\ pc'[c] # "idle"
         /\ \/ pc[c] # "idle" /\ run'[c] = run[c]
            \/ pc[c] = "idle" /\ run'[c] \in Runs /\ status'[run'[c]] # "absent"
  <1>t. ChannelTypes /\ CallTypes /\ PlacedInv
    BY DEF Control, Types
  <1> USE DEF ChannelTypes, CallTypes, callVars, runVars, Within, Return, MayBegin,
          AtApplication
  <1>1. CASE Parse(c)
    BY <1>1, <1>t DEF Parse
  <1>2. CASE ExtractRemittance(c)
    BY <1>2, <1>t DEF ExtractRemittance
  <1>3. CASE Failed(c)
    BY <1>3, <1>t DEF Failed
  <1>4. CASE FetchByCustomer(c)
    BY <1>4, <1>t DEF FetchByCustomer
  <1>5. CASE FetchByAdvice(c)
    BY <1>5, <1>t DEF FetchByAdvice
  <1>6. CASE Fetched(c)
    BY <1>6, <1>t DEF Fetched
  <1>7. CASE FetchFails(c)
    BY <1>7, <1>t DEF FetchFails
  <1>8. CASE ApplyBegin(c)
    BY <1>8, <1>t DEF ApplyBegin
  <1>9. CASE SkipLine(c)
    BY <1>9, <1>t DEF SkipLine
  <1>10. CASE ErpApplies(c)
    BY <1>10, <1>t DEF ErpApplies
  <1>11. CASE ErpRefuses(c)
    BY <1>11, <1>t DEF ErpRefuses
  <1>12. CASE ErpTimesOut(c)
    BY <1>12, <1>t DEF ErpTimesOut
  <1>13. CASE SaveRemittance(c)
    BY <1>13, <1>t DEF SaveRemittance
  <1>14. CASE OpenCase(c)
    BY <1>14, <1>t DEF OpenCase
  <1>15. CASE Finish(c)
    BY <1>15, <1>t DEF Finish
  <1>16. CASE EndThread(c)
    BY <1>16, <1>t DEF EndThread
  <1>17. CASE ResumeGate(c)
    BY <1>17, <1>t DEF ResumeGate
  <1>18. CASE LoadCheckpoint(c)
    BY <1>18, <1>t DEF LoadCheckpoint, PlacedInv, Nodes
  <1>19. CASE Abort(c)
    BY <1>19, <1>t DEF Abort, Active
  <1>20. CASE \E r \in Runs : StartRun(c, r)
    BY <1>20, <1>t DEF StartRun
  <1>21. CASE \E r \in Runs : Decide(c, r)
    BY <1>21, <1>t DEF Decide
  <1>22. CASE UnknownCustomer(c)
    BY <1>22, <1>t DEF UnknownCustomer
  <1> QED BY <1>1, <1>2, <1>3, <1>4, <1>5, <1>6, <1>7, <1>8, <1>9, <1>10, <1>11, <1>12,
             <1>13, <1>14, <1>15, <1>16, <1>17, <1>18, <1>19, <1>20, <1>21, <1>22
          DEF CallStep, Drive

(* A step keeps every begun call with a run that exists.                   *)
LEMMA PlacedStep ==
  ASSUME Control, NEW c \in Calls, CallStep(c)
  PROVE  PlacedInv'
  <1>t. ChannelTypes /\ CallTypes /\ PlacedInv
    BY DEF Control, Types
  <1>f. \A d \in Calls \ {c} : pc'[d] = pc[d] /\ run'[d] = run[d] /\ case'[d] = case[d]
    BY FrameStep DEF Same
  <1>g. \A r \in Runs : status[r] # "absent" => status'[r] # "absent"
    BY StatusStep DEF StatusMoves
  <1>h. pc'[c] # "idle" /\ run'[c] \in Runs /\ status'[run'[c]] # "absent"
    BY <1>g, <1>t, RunStep DEF PlacedInv
  <1> QED BY <1>f, <1>g, <1>h, <1>t DEF PlacedInv

(* How a step of c moves the thread of the run it has.                     *)
Starts(c) == /\ pc[c] = "idle" /\ pc'[c] = "parse"
             /\ status[run'[c]] = "absent" /\ next' = next
Waits(c) == pc'[c] \in {"gate", "done"} /\ next' = next
Wakes(c) == /\ pc[c] = "gate" /\ pc'[c] = "load"
            /\ status[run'[c]] = "AWAITING_APPROVAL" /\ next' = next
Loads(c) == pc[c] = "load" /\ pc'[c] = next[run'[c]] /\ next' = next
Walks(c) == /\ At(c) \in Early /\ At(c)' = next'[run'[c]] /\ pc'[c] \notin Cash
            /\ At(c)' \in {"fetch_ar_items", "apply_cash"} => remittance'[run'[c]] # None
Applies(c) == /\ pc[c] \in {"apply_cash"} \cup Cash /\ pc'[c] \in Cash \cup {"done"}
              /\ next'[run'[c]] \in {next[run'[c]], "done"}

(* Every step of a call moves its thread in one of these six ways.         *)
LEMMA MoveStep ==
  ASSUME Control, NEW c \in Calls, CallStep(c)
  PROVE  /\ \A q \in Runs \ {run'[c]} : next'[q] = next[q] /\ status'[q] = status[q]
         /\ Starts(c) \/ Waits(c) \/ Wakes(c) \/ Loads(c) \/ Walks(c) \/ Applies(c)
  <1>t. /\ DOMAIN status = Runs /\ DOMAIN next = Runs /\ DOMAIN pc = Calls /\ DOMAIN run = Calls
        /\ pc[c] # "idle" => run[c] \in Runs
        /\ pc[c] # "idle" => IsEarly(run[c])
        /\ At(c) = "fetch_ar_items" => remittance[run[c]] # None
        /\ DOMAIN remittance = Runs /\ None \notin Remittances
    <2>1. /\ DOMAIN status = Runs /\ DOMAIN next = Runs /\ DOMAIN pc = Calls /\ DOMAIN run = Calls
          /\ DOMAIN remittance = Runs
          /\ PlacedInv /\ EarlyInv /\ ReadInv
      BY DEF Control, Types, ChannelTypes, CallTypes
    <2>2. At(c) # "idle" => pc[c] # "idle"
      BY DEF At
    <2>2a. pc[c] # "idle" => run[c] \in Runs /\ IsEarly(run[c])
      BY <2>1 DEF PlacedInv, EarlyInv
    <2>3. ASSUME At(c) = "fetch_ar_items" PROVE remittance[run[c]] # None
      <3>1. next[run[c]] = "fetch_ar_items"
        BY <2>2, <2>2a, <2>3 DEF IsEarly, Early
      <3> QED BY <2>1, <2>2, <2>2a, <2>3, <3>1 DEF ReadInv
    <2> QED BY <2>1, <2>2a, <2>3, ConstantsAssumption
  <1> USE DEF Starts, Waits, Wakes, Loads, Walks, Applies, At, Early, Cash, callVars,
          runVars, Nodes,
          checkpointVars, Within, Return, SetStatus, AtApplication
  <1>1. CASE Parse(c)
    BY <1>1, <1>t DEF Parse
  <1>2. CASE ExtractRemittance(c)
    BY <1>2, <1>t DEF ExtractRemittance
  <1>3. CASE Failed(c)
    BY <1>3, <1>t DEF Failed
  <1>4. CASE FetchByCustomer(c)
    BY <1>4, <1>t DEF FetchByCustomer
  <1>5. CASE FetchByAdvice(c)
    BY <1>5, <1>t DEF FetchByAdvice, IsEarly
  <1>6. CASE Fetched(c)
    BY <1>6, <1>t DEF Fetched
  <1>7. CASE FetchFails(c)
    BY <1>7, <1>t DEF FetchFails
  <1>8. CASE ApplyBegin(c)
    BY <1>8, <1>t DEF ApplyBegin
  <1>9. CASE SkipLine(c)
    BY <1>9, <1>t DEF SkipLine
  <1>10. CASE ErpApplies(c)
    BY <1>10, <1>t DEF ErpApplies
  <1>11. CASE ErpRefuses(c)
    BY <1>11, <1>t DEF ErpRefuses
  <1>12. CASE ErpTimesOut(c)
    BY <1>12, <1>t DEF ErpTimesOut
  <1>13. CASE SaveRemittance(c)
    BY <1>13, <1>t DEF SaveRemittance
  <1>14. CASE OpenCase(c)
    BY <1>14, <1>t DEF OpenCase
  <1>15. CASE Finish(c)
    BY <1>15, <1>t DEF Finish
  <1>16. CASE EndThread(c)
    BY <1>16, <1>t DEF EndThread
  <1>17. CASE ResumeGate(c)
    BY <1>17, <1>t DEF ResumeGate
  <1>18. CASE LoadCheckpoint(c)
    BY <1>18, <1>t DEF LoadCheckpoint
  <1>19. CASE Abort(c)
    BY <1>19, <1>t DEF Abort
  <1>20. CASE \E r \in Runs : StartRun(c, r)
    BY <1>20, <1>t DEF StartRun, MayBegin
  <1>21. CASE \E r \in Runs : Decide(c, r)
    BY <1>21, <1>t DEF Decide
  <1>22. CASE UnknownCustomer(c)
    BY <1>22, <1>t DEF UnknownCustomer, IsEarly
  <1> QED BY <1>1, <1>2, <1>3, <1>4, <1>5, <1>6, <1>7, <1>8, <1>9, <1>10, <1>11, <1>12,
             <1>13, <1>14, <1>15, <1>16, <1>17, <1>18, <1>19, <1>20, <1>21, <1>22
          DEF CallStep, Drive

(* So a run that is still being read has one driver, where its checkpoint  *)
(* is.                                                                     *)
LEMMA EarlyStep ==
  ASSUME Control, NEW c \in Calls, CallStep(c)
  PROVE  EarlyInv'
  <1>t. PlacedInv /\ EarlyInv /\ ConstantsAssumption
    BY ConstantsAssumption DEF Control
  <1>f. \A d \in Calls \ {c} : pc'[d] = pc[d] /\ run'[d] = run[d]
    BY FrameStep DEF Same
  <1>g. /\ \A r \in Runs : status[r] # "absent" => status'[r] # "absent"
        /\ \A r \in Runs : status'[r] = "AWAITING_APPROVAL" =>
             status[r] = "AWAITING_APPROVAL" \/ pc[c] = "cash.finish"
    BY StatusStep DEF StatusMoves
  <1>h. /\ pc'[c] # "idle" /\ run'[c] \in Runs
        /\ pc[c] # "idle" => run'[c] = run[c]
        /\ status'[run'[c]] # "absent"
    BY RunStep, PlacedStep DEF PlacedInv
  <1>n. \A q \in Runs \ {run'[c]} : next'[q] = next[q] /\ status'[q] = status[q]
    BY MoveStep
  <1> SUFFICES ASSUME NEW r \in Runs
               PROVE  IsEarly(r)'
    BY DEF EarlyInv
  <1>1. IsEarly(r)
    BY <1>t DEF EarlyInv
  <1>2. CASE r # run'[c]
    <2>1. next'[r] = next[r] /\ status'[r] = status[r]
      BY <1>2, <1>n
    <2>2. \A d \in Calls : run'[d] = r => d # c /\ At(d)' = At(d) /\ run[d] = r
      BY <1>2, <1>f DEF At
    <2> QED BY <1>1, <2>1, <2>2 DEF IsEarly
  <1>3. CASE r = run'[c]
    <2>s. status'[r] # "absent"
      BY <1>3, <1>h
    <2>o. \A d \in Calls \ {c} : At(d)' = At(d) /\ (run'[d] = r <=> run[d] = r)
      BY <1>f DEF At
    <2>1. CASE Starts(c)
      <3>1. \A d \in Calls : run[d] # r
        BY <1>3, <1>t, <2>1 DEF Starts, PlacedInv
      <3>2. next'[r] = "parse" /\ At(c)' = "parse" /\ status'[r] # "AWAITING_APPROVAL"
        BY <1>1, <1>3, <1>g, <2>1 DEF Starts, IsEarly, At
      <3> QED BY <1>3, <2>s, <2>o, <3>1, <3>2 DEF IsEarly, Early
    <2>2. CASE Waits(c)
      <3>1. next'[r] = next[r] /\ At(c)' \in {"gate", "done"}
        BY <2>2 DEF Waits, At
      <3>2. next[r] \in Early => status'[r] # "AWAITING_APPROVAL"
        BY <1>1, <1>3, <1>g, <1>h DEF IsEarly, Early, At
      <3> QED BY <1>1, <1>3, <2>s, <2>o, <3>1, <3>2 DEF IsEarly, Early
    <2>3. CASE Wakes(c)
      <3>1. next'[r] = next[r] /\ At(c)' = "load" /\ next[r] \notin Early
        BY <1>1, <1>3, <2>3 DEF Wakes, IsEarly, At
      <3> QED BY <1>1, <1>3, <2>s, <2>o, <3>1 DEF IsEarly, Early
    <2>4. CASE Loads(c)
      <3>1. run[c] = r /\ pc[c] = "load"
        BY <1>3, <1>h, <2>4 DEF Loads
      <3>2. next[r] \notin Early
        BY <1>1, <3>1 DEF IsEarly, Early, At
      <3>3. next'[r] = next[r] /\ At(c)' \notin Early
        <4>1. next[r] \in Nodes \cup {"done"}
          BY DEF Control, Types, ChannelTypes
        <4> QED BY <1>3, <2>4, <3>2, <4>1 DEF Loads, At, Nodes
      <3> QED BY <1>1, <1>3, <2>s, <2>o, <3>2, <3>3 DEF IsEarly
    <2>5. CASE Walks(c)
      <3>1. run[c] = r /\ At(c) \in Early /\ At(c)' = next'[r]
        BY <1>3, <1>h, <2>5 DEF Walks, Early, At
      <3>2. next[r] = At(c) /\ next[r] \in Early
        BY <1>1, <3>1 DEF IsEarly, Early
      <3>3. \A d \in Calls \ {c} : run[d] = r => At(d) \in {"gate", "done"}
        BY <1>1, <3>1, <3>2 DEF IsEarly
      <3>4. status'[r] # "AWAITING_APPROVAL"
        BY <1>1, <1>g, <3>1, <3>2 DEF IsEarly, Early, At
      <3> QED BY <1>3, <2>s, <2>o, <3>1, <3>3, <3>4 DEF IsEarly, Early
    <2>6. CASE Applies(c)
      <3>1. run[c] = r
        BY <1>3, <1>h, <2>6 DEF Applies, Cash
      <3>2. next[r] \notin Early
        BY <1>1, <2>6, <3>1 DEF Applies, IsEarly, Early, Cash, At
      <3>3. next'[r] \notin Early /\ At(c)' \notin Early
        BY <1>3, <2>6, <3>2 DEF Applies, Early, Cash, At
      <3> QED BY <1>1, <1>3, <2>s, <2>o, <3>2, <3>3 DEF IsEarly
    <2> QED BY <2>1, <2>2, <2>3, <2>4, <2>5, <2>6, MoveStep
  <1> QED BY <1>2, <1>3

(* What a run has read it keeps once apply_cash is next.                   *)
DataKept ==
  /\ \A r \in Runs : remittance[r] # None => remittance'[r] # None
  /\ \A r \in Runs : next[r] \notin Early =>
       remittance'[r] = remittance[r] /\ snapshot'[r] = snapshot[r] /\ next'[r] \notin Early

(* Nothing is read again once apply_cash is next.                          *)
LEMMA DataStep ==
  ASSUME Control, NEW c \in Calls, CallStep(c)
  PROVE  DataKept
  <1>t. /\ DOMAIN remittance = Runs /\ DOMAIN snapshot = Runs /\ DOMAIN next = Runs
        /\ pc[c] # "idle" => run[c] \in Runs /\ IsEarly(run[c])
        /\ None \notin Remittances
    BY ConstantsAssumption DEF Control, Types, ChannelTypes, PlacedInv, EarlyInv
  <1> USE DEF DataKept, checkpointVars, Within, Return, Early, IsEarly, At
  <1>1. CASE Parse(c)
    BY <1>1, <1>t DEF Parse
  <1>2. CASE ExtractRemittance(c)
    BY <1>2, <1>t DEF ExtractRemittance
  <1>3. CASE Failed(c)
    BY <1>3, <1>t DEF Failed
  <1>4. CASE FetchByCustomer(c)
    BY <1>4, <1>t DEF FetchByCustomer
  <1>5. CASE FetchByAdvice(c)
    BY <1>5, <1>t DEF FetchByAdvice
  <1>6. CASE Fetched(c)
    BY <1>6, <1>t DEF Fetched
  <1>7. CASE FetchFails(c)
    BY <1>7, <1>t DEF FetchFails
  <1>8. CASE ApplyBegin(c)
    BY <1>8, <1>t DEF ApplyBegin
  <1>9. CASE SkipLine(c)
    BY <1>9, <1>t DEF SkipLine
  <1>10. CASE ErpApplies(c)
    BY <1>10, <1>t DEF ErpApplies
  <1>11. CASE ErpRefuses(c)
    BY <1>11, <1>t DEF ErpRefuses
  <1>12. CASE ErpTimesOut(c)
    BY <1>12, <1>t DEF ErpTimesOut
  <1>13. CASE SaveRemittance(c)
    BY <1>13, <1>t DEF SaveRemittance
  <1>14. CASE OpenCase(c)
    BY <1>14, <1>t DEF OpenCase
  <1>15. CASE Finish(c)
    BY <1>15, <1>t DEF Finish
  <1>16. CASE EndThread(c)
    BY <1>16, <1>t DEF EndThread
  <1>17. CASE ResumeGate(c)
    BY <1>17, <1>t DEF ResumeGate
  <1>18. CASE LoadCheckpoint(c)
    BY <1>18, <1>t DEF LoadCheckpoint
  <1>19. CASE Abort(c)
    BY <1>19, <1>t DEF Abort
  <1>20. CASE \E r \in Runs : StartRun(c, r)
    BY <1>20, <1>t DEF StartRun
  <1>21. CASE \E r \in Runs : Decide(c, r)
    BY <1>21, <1>t DEF Decide
  <1>22. CASE UnknownCustomer(c)
    BY <1>22, <1>t DEF UnknownCustomer
  <1> QED BY <1>1, <1>2, <1>3, <1>4, <1>5, <1>6, <1>7, <1>8, <1>9, <1>10, <1>11, <1>12,
             <1>13, <1>14, <1>15, <1>16, <1>17, <1>18, <1>19, <1>20, <1>21, <1>22
          DEF CallStep, Drive

(* A run at apply_cash has a remittance.                                   *)
LEMMA ReadStep ==
  ASSUME Control, NEW c \in Calls, CallStep(c)
  PROVE  ReadInv'
  <1>t. /\ DOMAIN remittance = Runs /\ DOMAIN next = Runs /\ DOMAIN pc = Calls
        /\ pc[c] # "idle" => run[c] \in Runs /\ IsEarly(run[c])
        /\ None \notin Remittances
        /\ PlacedInv /\ ReadInv
    BY ConstantsAssumption DEF Control, Types, ChannelTypes, CallTypes, PlacedInv,
       EarlyInv
  <1>f. \A d \in Calls \ {c} : pc'[d] = pc[d] /\ run'[d] = run[d]
    BY FrameStep DEF Same
  <1>d. \A r \in Runs : remittance[r] # None => remittance'[r] # None
    BY DataStep DEF DataKept
  <1>n. \A r \in Runs \ {run'[c]} : next'[r] = next[r]
    BY MoveStep
  <1>h. /\ run'[c] \in Runs
        /\ pc[c] # "idle" => run'[c] = run[c]
    BY RunStep, PlacedStep DEF PlacedInv
  <1> DEFINE Mine ==
        /\ next'[run'[c]] \in {"fetch_ar_items", "apply_cash"} => remittance'[run'[c]] # None
        /\ pc'[c] \in {"apply_cash"} \cup Cash => remittance'[run'[c]] # None
  <1>m. Mine
    <2>1. CASE Starts(c) \/ Waits(c) \/ Wakes(c) \/ Loads(c)
      <3>1. next' = next /\ pc'[c] \in {"parse", "gate", "done", "load", next[run'[c]]}
        BY <2>1 DEF Starts, Waits, Wakes, Loads
      <3>2. next[run'[c]] \in Nodes \cup {"done"}
        BY <1>h DEF Control, Types, ChannelTypes
      <3> QED BY <1>d, <1>h, <1>t, <3>1, <3>2 DEF ReadInv, Cash, Nodes
    <2>2. CASE Walks(c)
      <3>1. At(c) \in Early /\ At(c)' = next'[run'[c]] /\ run'[c] = run[c]
        BY <1>h, <2>2 DEF Walks, Early, At
      <3> QED BY <2>2, <3>1 DEF Walks, At
    <2>3. CASE Applies(c)
      <3>1. /\ run'[c] = run[c] /\ remittance[run[c]] # None
            /\ remittance'[run[c]] # None
        BY <1>d, <1>h, <1>t, <2>3 DEF Applies, ReadInv, Cash
      <3> QED BY <3>1
    <2> QED BY <2>1, <2>2, <2>3, MoveStep
  <1> QED BY <1>d, <1>f, <1>h, <1>m, <1>n, <1>t DEF ReadInv, PlacedInv, Cash

(* A step confirms no more than the ERP clears.                            *)
LEMMA BackedStep ==
  ASSUME Control, BackedInv, NEW c \in Calls, CallStep(c)
  PROVE  BackedInv'
  <1>f. \A d \in Calls \ {c} :
          row'[d] = row[d] /\ confirmed'[d] = confirmed[d] /\ credited'[d] = credited[d]
    BY FrameStep DEF Same
  <1>t. /\ DOMAIN row = Calls /\ confirmed[c] \in Nat /\ credited[c] \in Nat /\ row[c].total \in Nat
        /\ DOMAIN confirmed = Calls /\ DOMAIN credited = Calls
        /\ row[c].total <= confirmed[c] /\ confirmed[c] <= credited[c]
    BY DEF Control, Types, CallTypes, ErpTypes, BackedInv
  <1> DEFINE Mine == row'[c].total <= confirmed'[c] /\ confirmed'[c] <= credited'[c]
  <1>m. Mine
    <2>1. CASE ErpApplies(c)
      <3> DEFINE a == Cleared(Line(c).item, Posted(run[c], Line(c)))
      <3>1. a \in Nat
        BY <2>1, ClearedFits DEF ErpApplies
      <3>2. /\ credited' = [credited EXCEPT ![c] = credited[c] + a]
            /\ confirmed' = [confirmed EXCEPT ![c] = confirmed[c] + a]
            /\ row' = row
        BY <2>1 DEF ErpApplies, Clear, tableVars
      <3> HIDE DEF a
      <3>3. credited'[c] = credited[c] + a /\ confirmed'[c] = confirmed[c] + a
        BY <1>t, <3>2
      <3> QED BY <1>t, <3>1, <3>2, <3>3
    <2>2. CASE SaveRemittance(c)
      <3>1. /\ row'[c].total = confirmed[c]
            /\ UNCHANGED <<confirmed, credited>>
        BY <1>t, <2>2 DEF SaveRemittance, localVars, erpVars
      <3> QED BY <1>t, <3>1
    <2>3. CASE ~ErpApplies(c) /\ ~SaveRemittance(c)
      <3>1. UNCHANGED <<row, confirmed, credited>>
        BY <2>3 DEF CallStep, Drive, localVars, tableVars, erpVars, Parse,
           ExtractRemittance, Failed,
               FetchByCustomer, UnknownCustomer, FetchByAdvice, Fetched, FetchFails,
               ApplyBegin, SkipLine, ErpRefuses, ErpTimesOut, OpenCase, Finish, EndThread,
               ResumeGate, LoadCheckpoint, Abort, StartRun,
               Decide
      <3> QED BY <1>t, <3>1
    <2> QED BY <2>1, <2>2, <2>3
  <1> QED BY <1>f, <1>m DEF BackedInv

(* A call that saw nothing unresolved has applied what it has passed, and  *)
(* one that is about to report has money, a case or nothing to do.         *)
IsAccounted(c) ==
  /\ pc[c] = "cash.call" /\ ~unresolved[c] =>
       ~Unresolved(run[c]) /\ (position[c] > 1 => applied[c])
  /\ pc[c] = "cash.open_case" => unresolved[c]
  /\ pc[c] = "cash.finish" => case[c] = "open" \/ applied[c] \/ Bare(run[c])

AccountedInv == \A c \in Calls : IsAccounted(c)

(* A remittance without lines that matched declares next to nothing.       *)
LEMMA NothingIsBare ==
  ASSUME ChannelTypes, NEW r \in Runs, remittance[r] # None, ~Unresolved(r), Len(Advised(r)) = 0
  PROVE  Bare(r)
  <1>1. Advised(r) = <<>> /\ DOMAIN Advised(r) = {}
    BY AdvicesFit
  <1>2. Requested(r) = 0
    BY <1>1, SumOfNothing DEF Requested, Amounts, Applicable
  <1>3. Declared(r) \in Nat
    BY <1>2, AdvicesFit DEF Declared
  <1>4. Residual(r) <= Tolerance
    <2>1. ~(Residual(r) > Tolerance)
      BY DEF Unresolved
    <2>2. Abs(Declared(r) - Requested(r)) \in Nat
      BY <1>2, <1>3 DEF Abs
    <2>3. Residual(r) \in Nat /\ Tolerance \in Nat
      BY <2>2, CentsFit, ConstantsAssumption DEF Residual
    <2> QED BY <2>1, <2>3
  <1> QED BY <1>1, <1>4 DEF Bare

(* What match_remittance computes is a function of what the run has read.  *)
LEMMA ViewKept ==
  ASSUME NEW r \in Runs, remittance'[r] = remittance[r], snapshot'[r] = snapshot[r]
  PROVE  /\ Advised(r)' = Advised(r) /\ Amounts(r)' = Amounts(r)
         /\ Postings(r)' = Postings(r)
         /\ Applicable(r)' = Applicable(r) /\ Requested(r)' = Requested(r)
         /\ Unresolved(r)' <=> Unresolved(r)
         /\ Bare(r)' <=> Bare(r)
         /\ NamedOnce(r)' <=> NamedOnce(r)
  <1>1. Advised(r)' = Advised(r)
    BY DEF Advised
  <1>2. \A a : Open(r, a)' = Open(r, a)
    BY DEF Open
  <1>3. \A a : Amount(r, a)' = Amount(r, a)
    BY <1>2 DEF Amount
  <1>4. Applicable(r)' = Applicable(r)
    BY <1>1, <1>2 DEF Applicable, Found
  <1>5. Amounts(r)' = Amounts(r)
    BY <1>1, <1>3 DEF Amounts
  <1>6. Requested(r)' = Requested(r)
    BY <1>4, <1>5 DEF Requested
  <1>7. NamedOnce(r)' <=> NamedOnce(r)
    BY <1>1 DEF NamedOnce
  <1>8. Declared(r)' = Declared(r)
    BY <1>6 DEF Declared
  <1>9. Postings(r)' = Postings(r)
    BY <1>1, <1>3 DEF Postings, Posted, Cents
  <1>10. Residual(r)' = Residual(r)
    BY <1>6, <1>8 DEF Residual, Cents, Abs
  <1>11. Unresolved(r)' <=> Unresolved(r)
    BY <1>1, <1>2, <1>3, <1>4, <1>10 DEF Unresolved, Abs
  <1> QED BY <1>1, <1>4, <1>5, <1>6, <1>7, <1>9, <1>10, <1>11 DEF Bare

(* In apply_cash, what a run has read is settled.                          *)
LEMMA SettledStep ==
  ASSUME Control, NEW c \in Calls, CallStep(c), NEW d \in Calls, pc[d] \in {"apply_cash"} \cup Cash
  PROVE  /\ run[d] \in Runs /\ remittance[run[d]] # None
         /\ Unresolved(run[d])' <=> Unresolved(run[d])
         /\ Bare(run[d])' <=> Bare(run[d])
         /\ run'[d] = run[d]
  <1>1. run[d] \in Runs /\ next[run[d]] \notin Early /\ remittance[run[d]] # None
    BY DEF Control, PlacedInv, EarlyInv, IsEarly, At, ReadInv, Early, Cash
  <1>2. remittance'[run[d]] = remittance[run[d]] /\ snapshot'[run[d]] = snapshot[run[d]]
    BY <1>1, DataStep DEF DataKept
  <1>3. \A r \in Runs : remittance'[r] = remittance[r] /\ snapshot'[r] = snapshot[r] =>
          (Unresolved(r)' <=> Unresolved(r)) /\ (Bare(r)' <=> Bare(r))
    BY ViewKept
  <1>4. run'[d] = run[d]
    <2>1. CASE d = c
      BY <2>1, RunStep DEF Cash
    <2>2. CASE d # c
      BY <2>2, FrameStep DEF Same
    <2> QED BY <2>1, <2>2
  <1>5. (Unresolved(run[d])' <=> Unresolved(run[d])) /\ (Bare(run[d])' <=> Bare(run[d]))
    <2>1. PICK r \in Runs : r = run[d]
      BY <1>1
    <2>2. (Unresolved(r)' <=> Unresolved(r)) /\ (Bare(r)' <=> Bare(r))
      BY <1>2, <1>3, <2>1
    <2> QED BY <1>4, <2>1, <2>2, ZenonT(60) DEF Unresolved, Bare, Residual, Cents, Abs,
               Applicable, Found, Declared,
               Requested, Amounts, Amount, Open, Advised
  <1> QED BY <1>1, <1>4, <1>5

(* A step keeps account of what a call leaves open.                        *)
LEMMA AccountedStep ==
  ASSUME Control, AccountedInv, NEW c \in Calls, CallStep(c)
  PROVE  AccountedInv'
  <1> SUFFICES ASSUME NEW d \in Calls
               PROVE  IsAccounted(d)'
    BY DEF AccountedInv
  <1>i. IsAccounted(d)
    BY DEF AccountedInv
  <1>1. CASE d # c
    <2>1. Same(d)
      BY <1>1, FrameStep
    <2>2. pc[d] \in Cash => /\ Unresolved(run[d])' <=> Unresolved(run[d])
                            /\ Bare(run[d])' <=> Bare(run[d])
      BY SettledStep
    <2>3. pc[d] \in {"cash.call", "cash.open_case", "cash.finish"} => pc[d] \in Cash
      BY DEF Cash
    <2> QED BY <1>i, <2>1, <2>2, <2>3 DEF IsAccounted, Same
  <1>2. CASE d = c
    <2> SUFFICES IsAccounted(c)'
      BY <1>2
    <2>c. IsAccounted(c)
      BY <1>2, <1>i
    <2>t. /\ CallTypes /\ ChannelTypes /\ DOMAIN pc = Calls
          /\ position[c] \in Nat \ {0} /\ unresolved[c] \in BOOLEAN
      BY DEF Control, Types, CallTypes
    <2>s. pc[c] \in {"apply_cash", "cash.call", "cash.open_case", "cash.finish"} =>
            /\ run[c] \in Runs /\ remittance[run[c]] # None /\ run'[c] = run[c]
            /\ Unresolved(run[c])' <=> Unresolved(run[c])
            /\ Bare(run[c])' <=> Bare(run[c])
      BY SettledStep DEF Cash
    <2>1. CASE ApplyBegin(c)
      <3>1. /\ pc[c] = "apply_cash" /\ pc'[c] = "cash.call" /\ position'[c] = 1
            /\ unresolved'[c] = Unresolved(run[c])
        BY <2>1, <2>t DEF ApplyBegin, Within, CallTypes
      <3> QED BY <2>s, <3>1 DEF IsAccounted
    <2>2. CASE SkipLine(c)
      <3>1. /\ pc[c] = "cash.call" /\ pc'[c] = "cash.call" /\ unresolved'[c] = unresolved[c]
            /\ position[c] \in DOMAIN Advised(run[c]) \ Applicable(run[c])
        BY <2>2, <2>t DEF SkipLine
      <3>2. Unresolved(run[c])
        BY <3>1 DEF Unresolved
      <3> QED BY <2>c, <3>1, <3>2 DEF IsAccounted
    <2>3. CASE ErpApplies(c)
      <3>1. /\ pc' = pc /\ applied'[c]
            /\ unresolved' = unresolved /\ pc[c] = "cash.call"
        BY <2>3, <2>t DEF ErpApplies, AtApplication, CallTypes
      <3> QED BY <2>c, <2>s, <3>1 DEF IsAccounted
    <2>4. CASE ErpRefuses(c)
      <3>1. pc'[c] = "cash.call" /\ unresolved'[c] = TRUE
        BY <2>4, <2>t DEF ErpRefuses, AtApplication, CallTypes
      <3> QED BY <3>1 DEF IsAccounted
    <2>5. CASE ErpTimesOut(c)
      <3>1. /\ pc[c] = "cash.call" /\ pc'[c] \in {"cash.call", "done"}
            /\ UNCHANGED <<position, applied, unresolved>>
        BY <2>5, <2>t DEF ErpTimesOut, AtApplication
      <3> QED BY <2>c, <2>s, <3>1 DEF IsAccounted
    <2>6. CASE SaveRemittance(c)
      <3>1. /\ pc[c] = "cash.call" /\ position[c] > Len(Advised(run[c]))
            /\ pc'[c] = IF unresolved[c] THEN "cash.open_case" ELSE "cash.finish"
            /\ UNCHANGED <<applied, unresolved, case>>
        BY <2>6, <2>t DEF SaveRemittance, Within, localVars
      <3>2. CASE unresolved[c]
        BY <3>1, <3>2 DEF IsAccounted
      <3>3. CASE ~unresolved[c]
        <4>1. ~Unresolved(run[c]) /\ (position[c] > 1 => applied[c])
          BY <2>c, <3>1, <3>3 DEF IsAccounted
        <4>2. CASE position[c] > 1
          BY <3>1, <3>3, <4>1, <4>2 DEF IsAccounted
        <4>3. CASE position[c] = 1
          <5>1. Len(Advised(run[c])) = 0
            BY <2>s, <2>t, <3>1, <4>3, AdvicesFit
          <5>2. Bare(run[c])
            BY <2>s, <2>t, <3>1, <4>1, <5>1, NothingIsBare
          <5> QED BY <2>s, <3>1, <3>3, <5>2 DEF IsAccounted
        <4> QED BY <2>t, <4>2, <4>3
      <3> QED BY <3>2, <3>3
    <2>7. CASE OpenCase(c)
      <3>1. pc'[c] = "cash.finish" /\ case'[c] = "open"
        BY <2>7, <2>t DEF OpenCase, Within, CallTypes
      <3> QED BY <3>1 DEF IsAccounted
    <2>8. CASE ~(\/ ApplyBegin(c) \/ SkipLine(c) \/ ErpApplies(c) \/ ErpRefuses(c)
                 \/ ErpTimesOut(c) \/ SaveRemittance(c) \/ OpenCase(c))
      <3>1. pc'[c] \notin {"cash.call", "cash.open_case", "cash.finish"}
        <4>1. CASE Finish(c)
          BY <2>t, <4>1 DEF Finish, Within
        <4>2. CASE LoadCheckpoint(c)
          <5>1. run[c] \in Runs
            BY <4>2 DEF LoadCheckpoint, Control, PlacedInv
          <5> QED BY <2>t, <4>2, <5>1 DEF LoadCheckpoint, ChannelTypes, Nodes
        <4>3. CASE FetchByAdvice(c)
          BY <4>3 DEF FetchByAdvice
        <4>4. CASE \/ Parse(c) \/ ExtractRemittance(c) \/ Failed(c) \/ FetchByCustomer(c)
                   \/ UnknownCustomer(c) \/ Fetched(c) \/ FetchFails(c)
                   \/ EndThread(c) \/ ResumeGate(c) \/ Abort(c)
          BY <2>t, <4>4 DEF Parse, ExtractRemittance, Failed, FetchByCustomer,
             UnknownCustomer, Within, Fetched, FetchFails,
             EndThread, ResumeGate, Abort, Return
        <4>5. CASE \E r \in Runs : StartRun(c, r) \/ Decide(c, r)
          BY <2>t, <4>5 DEF StartRun, Decide
        <4> QED BY <2>8, <4>1, <4>2, <4>3, <4>4, <4>5 DEF CallStep, Drive
      <3> QED BY <3>1 DEF IsAccounted
    <2> QED BY <2>1, <2>2, <2>3, <2>4, <2>5, <2>6, <2>7, <2>8
  <1> QED BY <1>1, <1>2

(* A case stays in the queue.                                              *)
LEMMA QueuedStep ==
  ASSUME Control, NEW c \in Calls, CallStep(c), NEW r \in Runs, Queued(r)
  PROVE  Queued(r)'
  <1>p. PlacedInv /\ CallTypes
    BY DEF Control, Types
  <1>1. SUFFICES ASSUME NEW d \in Calls, run[d] = r, case[d] = "open"
                 PROVE  run'[d] = r /\ case'[d] = "open"
    BY DEF Queued
  <1>2. CASE d # c
    BY <1>1, <1>2, FrameStep DEF Same
  <1>3. CASE d = c
    <2>1. run'[c] = r
      BY <1>p, <1>1, <1>3, RunStep DEF PlacedInv
    <2>2. case'[c] = "open"
      <3>1. case' = case \/ OpenCase(c)
        BY DEF CallStep, Drive, tableVars, Parse, ExtractRemittance, Failed,
           FetchByCustomer, UnknownCustomer,
           FetchByAdvice, Fetched, FetchFails, ApplyBegin, SkipLine, ErpApplies, ErpRefuses,
           ErpTimesOut, SaveRemittance, Finish, EndThread, ResumeGate, LoadCheckpoint, Abort,
           StartRun, Decide
      <3> QED BY <1>p, <1>1, <1>3, <3>1 DEF OpenCase, CallTypes
    <2> QED BY <1>3, <2>1, <2>2
  <1> QED BY <1>2, <1>3

(* A run begins to wait only with its case in the queue, and keeps it      *)
(* there.                                                                  *)
LEMMA WaitingStep ==
  ASSUME Control, AccountedInv, WaitingIsQueued, NEW c \in Calls, CallStep(c)
  PROVE  WaitingIsQueued'
  <1> SUFFICES ASSUME NEW r \in Runs, status'[r] = "AWAITING_APPROVAL"
               PROVE  Queued(r)' \/ Bare(r)'
    BY DEF WaitingIsQueued
  <1>p. PlacedInv /\ EarlyInv /\ CallTypes
    BY DEF Control, Types
  <1>q. Queued(r) => Queued(r)'
    BY QueuedStep
  <1>1. CASE status[r] = "AWAITING_APPROVAL"
    <2>1. Queued(r) \/ Bare(r)
      BY <1>1 DEF WaitingIsQueued
    <2>2. next[r] \notin Early
      BY <1>1, <1>p DEF EarlyInv, IsEarly
    <2>3. remittance'[r] = remittance[r] /\ snapshot'[r] = snapshot[r]
      BY <2>2, DataStep DEF DataKept
    <2>4. Bare(r) => Bare(r)'
      BY <2>3, ViewKept
    <2> QED BY <1>q, <2>1, <2>4
  <1>2. CASE status[r] # "AWAITING_APPROVAL"
    <2>1. /\ pc[c] = "cash.finish" /\ run[c] = r /\ ~applied[c]
      BY <1>2, StatusStep DEF StatusMoves
    <2>2. case[c] = "open" \/ Bare(r)
      BY <2>1 DEF AccountedInv, IsAccounted
    <2>3. next[r] \notin Early
      BY <1>p, <2>1 DEF EarlyInv, IsEarly, Early, At
    <2>4. remittance'[r] = remittance[r] /\ snapshot'[r] = snapshot[r]
      BY <2>3, DataStep DEF DataKept
    <2>5. Bare(r) => Bare(r)'
      BY <2>4, ViewKept
    <2>6. case[c] = "open" => Queued(r)
      BY <2>1 DEF Queued
    <2> QED BY <1>q, <2>2, <2>5, <2>6
  <1> QED BY <1>1, <1>2

(* A late request moves only what the ERP has.                             *)
LEMMA LateStep ==
  ASSUME Control, NEW q \in inFlight, ErpProcessesLate(q)
  PROVE  /\ ErpTypes' /\ \A d \in Calls : credited'[d] >= credited[d]
         /\ UNCHANGED <<runVars, checkpointVars, pc, callVars, localVars, tableVars>>
  <1>t. openAmount \in [Items -> Nat] /\ credited \in [Calls -> Nat] /\ inFlight \subseteq Requests
    BY DEF Control, Types, ErpTypes
  <1>q. q.call \in Calls /\ q.item \in Items /\ q.amount \in Nat
    BY <1>t DEF Requests
  <1> DEFINE a == Cleared(q.item, q.amount)
  <1>a. a \in Nat /\ a <= openAmount[q.item] /\ openAmount[q.item] \in Nat
    BY <1>q, <1>t DEF Cleared
  <1>s. /\ inFlight' = inFlight \ {q}
        /\ \/ /\ openAmount' = [openAmount EXCEPT ![q.item] = openAmount[q.item] - a]
              /\ credited' = [credited EXCEPT ![q.call] = credited[q.call] + a]
           \/ UNCHANGED <<openAmount, credited>>
        /\ UNCHANGED <<runVars, checkpointVars, pc, callVars, localVars, tableVars>>
    BY DEF ErpProcessesLate, Clear
  <1> HIDE DEF a
  <1>1. openAmount[q.item] - a \in Nat /\ credited[q.call] + a \in Nat
    BY <1>a, <1>q, <1>t
  <1>2. openAmount' \in [Items -> Nat] /\ credited' \in [Calls -> Nat] /\ inFlight' \subseteq Requests
    BY <1>1, <1>q, <1>s, <1>t
  <1>3. \A d \in Calls : credited'[d] >= credited[d]
    BY <1>a, <1>q, <1>s, <1>t
  <1> QED BY <1>2, <1>3, <1>s DEF ErpTypes

CashInv == Control /\ BackedInv /\ AccountedInv /\ WaitingIsQueued

(* Whoever moves, the invariant is kept.                                   *)
LEMMA CashStep ==
  ASSUME CashInv, [Next]_vars
  PROVE  CashInv'
  <1> USE DEF CashInv
  <1>1. ASSUME NEW c \in Calls, CallStep(c) PROVE CashInv'
    <2>1. Control'
      BY <1>1, CallTypesStep, ChannelTypesStep, ErpTypesStep, PlacedStep, EarlyStep,
         ReadStep
         DEF Control, Types
    <2>2. BackedInv' /\ AccountedInv' /\ WaitingIsQueued'
      BY <1>1, BackedStep, AccountedStep, WaitingStep
    <2> QED BY <2>1, <2>2
  <1>2. ASSUME UNCHANGED <<runVars, checkpointVars, pc, callVars, localVars, tableVars>>,
               ErpTypes', \A d \in Calls : credited'[d] >= credited[d]
        PROVE  CashInv'
    <2> USE <1>2 DEF runVars, checkpointVars, callVars, localVars, tableVars
    <2>1. ChannelTypes' /\ CallTypes'
      BY DEF Control, Types, ChannelTypes, CallTypes
    <2>2. PlacedInv' /\ EarlyInv' /\ ReadInv'
      BY DEF Control, PlacedInv, EarlyInv, IsEarly, At, ReadInv
    <2>3. BackedInv'
      <3>1. \A c \in Calls : /\ row[c].total \in Nat /\ confirmed[c] \in Nat
                             /\ credited[c] \in Nat /\ credited'[c] \in Nat
        BY DEF Control, Types, CallTypes, ErpTypes
      <3> QED BY <3>1 DEF BackedInv
    <2>4. AccountedInv' /\ WaitingIsQueued'
      <3>1. \A r : (Unresolved(r)' <=> Unresolved(r)) /\ (Bare(r)' <=> Bare(r))
        BY DEF Unresolved, Bare, Residual, Cents, Abs, Applicable, Found, Declared,
             Requested, Amounts, Amount, Open, Advised
      <3>2. AccountedInv'
        <4> SUFFICES ASSUME NEW c \in Calls PROVE IsAccounted(c)'
          BY DEF AccountedInv
        <4>1. IsAccounted(c)
          BY DEF AccountedInv
        <4>2. (Unresolved(run[c])' <=> Unresolved(run[c])) /\ (Bare(run[c])' <=> Bare(run[c]))
          BY DEF Unresolved, Bare, Residual, Cents, Abs, Applicable, Found, Declared,
             Requested, Amounts, Amount, Open, Advised
        <4> QED BY <4>1, <4>2 DEF IsAccounted
      <3>3. WaitingIsQueued'
        BY <3>1 DEF WaitingIsQueued, Queued
      <3> QED BY <3>2, <3>3
    <2> QED BY <2>1, <2>2, <2>3, <2>4 DEF Control, Types
  <1>3. ASSUME NEW q \in inFlight, ErpProcessesLate(q) PROVE CashInv'
    BY <1>2, <1>3, LateStep
  <1>4. CASE UNCHANGED vars
    <2>1. UNCHANGED <<runVars, checkpointVars, pc, callVars, localVars, tableVars>> /\ UNCHANGED erpVars
      BY <1>4 DEF vars
    <2>2. ErpTypes' /\ \A d \in Calls : credited'[d] >= credited[d]
      BY <2>1 DEF erpVars, Control, Types, ErpTypes
    <2> QED BY <1>2, <2>1, <2>2
  <1>5. CASE Next
    <2>1. (\E c \in Calls : CallStep(c)) \/ \E q \in inFlight : ErpProcessesLate(q)
      BY <1>5 DEF Next, CallStep
    <2> QED BY <1>1, <1>3, <2>1
  <1> QED BY <1>4, <1>5

(* The invariant holds at the beginning.                                   *)
LEMMA CashStart ==
  ASSUME Init
  PROVE  CashInv
  <1>1. Control /\ BackedInv
    BY InitControl
  <1>2. AccountedInv /\ WaitingIsQueued
    BY DEF Init, AccountedInv, IsAccounted, WaitingIsQueued
  <1> QED BY <1>1, <1>2 DEF CashInv

(* The inductive invariant holds in every reachable state of the graph,    *)
(* for any number of runs, calls, receivables and retries.                 *)
THEOREM CashInvariant == Spec => []CashInv
  BY CashStart, CashStep, PTL DEF Spec

(* Every variable keeps its type: no amount becomes negative, no call is   *)
(* at a node the graph does not have.                                      *)
THEOREM CashTypeCorrect == Spec => []TypeOK
  <1>1. CashInv => TypeOK
    BY DEF CashInv, Control, Types, ChannelTypes, ErpTypes, CallTypes, TypeOK
  <1> QED BY <1>1, CashInvariant, PTL

(* What a remittances row says was applied, the ERP has cleared on request *)
(* of that call: save_remittance records confirmed amounts, and a lost     *)
(* answer or a late request only ever makes the ERP clear more.            *)
THEOREM RowsAreBacked == Spec => []RowsBackedByErp
  <1>1. ASSUME CashInv PROVE RowsBackedByErp
    <2> SUFFICES ASSUME NEW c \in Calls PROVE row[c].total <= credited[c]
      BY DEF RowsBackedByErp
    <2>1. row[c].total \in Nat /\ confirmed[c] \in Nat /\ credited[c] \in Nat
      BY <1>1 DEF CashInv, Control, Types, CallTypes, ErpTypes
    <2>2. row[c].total <= confirmed[c] /\ confirmed[c] <= credited[c]
      BY <1>1 DEF CashInv, BackedInv
    <2> QED BY <2>1, <2>2
  <1> QED BY <1>1, CashInvariant, PTL

(* A run that waits for a human has a case in the queue, unless the        *)
(* remittance had no line and declared nothing to speak of: apply_cash     *)
(* opens the case before it sets the status.                               *)
THEOREM WaitingRunsAreQueued == Spec => []WaitingIsQueued
  <1>1. CashInv => WaitingIsQueued
    BY DEF CashInv
  <1> QED BY <1>1, CashInvariant, PTL
-----------------------------------------------------------------------------
(* What a remittance has cleared, when its run is driven by one call after *)
(* the other.                                                              *)

(* One call at a time, and every answer and every write arrives; calls may *)
(* die, the ERP may refuse, and any number of runs, calls and lines.       *)
OneByOne == ~Concurrent /\ ~Timeouts /\ ~StatusLossy

Reading == {"load", "parse", "extract_remittance", "fetch_ar_items", "fetch.by_advice",
            "apply_cash", "failed"}
Paying == {"cash.call", "cash.open_case", "cash.finish"}

OneActive == \A c, d \in Calls : Active(c) /\ Active(d) => c = d

(* Nothing is in flight: what the ERP cleared it has confirmed.            *)
QuietInv ==
  /\ inFlight = {}
  /\ IsFiniteSet({c \in Calls : pc[c] # "idle"})
  /\ \A c \in Calls : confirmed[c] = credited[c] /\ (credited[c] > 0 => applied[c])

(* The applications before line p, what is posted of them all and of those *)
(* before p, and what the latter come to before they are rounded to cents. *)
Passed(r, p) == {n \in Applicable(r) : n < p}
Payable(r) == SumFunctionOnSet(Postings(r), Applicable(r))
Asked(r, p) == SumFunctionOnSet(Postings(r), Passed(r, p))
Meant(r, p) == SumFunctionOnSet(Amounts(r), Passed(r, p))

(* The only call of the run to which the ERP has confirmed anything.       *)
IsSole(c, r) == \A d \in Calls \ {c} : run[d] = r => ~applied[d]

IsPayer(c, r) ==
  /\ pc[c] \in Reading \cup Cash => IsSole(c, r)
  /\ pc[c] = "load" => status[r] = "AWAITING_APPROVAL"
  /\ pc[c] \in Paying => status[r] = "POSTING"
  /\ applied[c] =>
       /\ IsSole(c, r)
       /\ status[r] \in {"POSTING", "COMPLETED"}
       /\ next[r] \notin Early /\ remittance[r] # None
       /\ credited[c] <= Asked(r, position[c])

PayerInv ==
  \A c \in Calls :
    /\ pc[c] \in {"idle", "gate"} \cup Reading => ~applied[c]
    /\ \A r \in Runs : run[c] = r => IsPayer(c, r)

(* Outside the nodes of the graph a call is asleep.                        *)
Asleep(c) == pc[c] \in {"idle", "done"}

(* Whoever takes a step, all the others are asleep.                        *)
LEMMA OthersSleep ==
  ASSUME OneByOne, OneActive, NEW c \in Calls, CallStep(c)
  PROVE  /\ \A d \in Calls \ {c} : Asleep(d)
         /\ pc[c] # "done"
  <1>1. Active(c) \/ MayBegin(c)
    <2> USE DEF Active, AtApplication
    <2>1. CASE \E r \in Runs : StartRun(c, r) \/ Decide(c, r)
      BY <2>1 DEF StartRun, Decide
    <2>2. CASE Parse(c) \/ ExtractRemittance(c) \/ Failed(c) \/ FetchByCustomer(c)
      BY <2>2 DEF Parse, ExtractRemittance, Failed, FetchByCustomer
    <2>3. CASE \/ UnknownCustomer(c) \/ FetchByAdvice(c) \/ Fetched(c) \/ FetchFails(c)
             \/ ApplyBegin(c) \/ SkipLine(c)
      BY <2>3 DEF UnknownCustomer, FetchByAdvice, Fetched, FetchFails, ApplyBegin,
           SkipLine
    <2>4. CASE ErpApplies(c) \/ ErpRefuses(c) \/ ErpTimesOut(c) \/ SaveRemittance(c)
      BY <2>4 DEF ErpApplies, ErpRefuses, ErpTimesOut, SaveRemittance
    <2>5. CASE OpenCase(c) \/ Finish(c) \/ EndThread(c) \/ ResumeGate(c) \/ LoadCheckpoint(c)
      BY <2>5 DEF OpenCase, Finish, EndThread, ResumeGate, LoadCheckpoint
    <2>6. CASE Abort(c)
      BY <2>6 DEF Abort
    <2> QED BY <2>1, <2>2, <2>3, <2>4, <2>5, <2>6 DEF CallStep, Drive
  <1>2. CASE Active(c)
    BY <1>2 DEF OneActive, Active, Asleep
  <1>3. CASE MayBegin(c)
    BY <1>3 DEF MayBegin, OneByOne, Active, Asleep
  <1> QED BY <1>1, <1>2, <1>3

(* So one call at a time is on its way.                                    *)
LEMMA OneActiveStep ==
  ASSUME OneByOne, Control, OneActive, NEW c \in Calls, CallStep(c)
  PROVE  OneActive'
  <1>1. \A d \in Calls \ {c} : pc'[d] = pc[d] /\ Asleep(d)
    BY OthersSleep, FrameStep DEF Same
  <1> QED BY <1>1 DEF OneActive, Active, Asleep

(* What a step does at the ERP.                                            *)
LEMMA ErpStep ==
  ASSUME OneByOne, Control, NEW c \in Calls, CallStep(c)
  PROVE  /\ inFlight' = inFlight
         /\ \/ UNCHANGED <<openAmount, credited, applied, confirmed>>
            \/ ErpApplies(c)
  <1> USE DEF OneByOne, erpVars, localVars
  <1>1. CASE \E r \in Runs : StartRun(c, r) \/ Decide(c, r)
    BY <1>1 DEF StartRun, Decide
  <1>2. CASE Parse(c) \/ ExtractRemittance(c) \/ Failed(c) \/ FetchByCustomer(c)
    BY <1>2 DEF Parse, ExtractRemittance, Failed, FetchByCustomer
  <1>3. CASE \/ UnknownCustomer(c) \/ FetchByAdvice(c) \/ Fetched(c) \/ FetchFails(c)
             \/ ApplyBegin(c) \/ SkipLine(c)
    BY <1>3 DEF UnknownCustomer, FetchByAdvice, Fetched, FetchFails, ApplyBegin,
           SkipLine
  <1>4. CASE ErpRefuses(c) \/ ErpTimesOut(c) \/ SaveRemittance(c)
    BY <1>4 DEF ErpRefuses, ErpTimesOut, SaveRemittance
  <1>5. CASE OpenCase(c) \/ Finish(c) \/ EndThread(c) \/ ResumeGate(c) \/ LoadCheckpoint(c)
    BY <1>5 DEF OpenCase, Finish, EndThread, ResumeGate, LoadCheckpoint
  <1>6. CASE Abort(c)
    BY <1>6 DEF Abort
  <1>7. CASE ErpApplies(c)
    BY <1>7 DEF ErpApplies
  <1> QED BY <1>1, <1>2, <1>3, <1>4, <1>5, <1>6, <1>7 DEF CallStep, Drive

(* An application the ERP confirms adds what it cleared, here and there.   *)
LEMMA ApplyStep ==
  ASSUME Control, NEW c \in Calls, ErpApplies(c)
  PROVE  LET i == Line(c).item
             a == Cleared(i, Posted(run[c], Line(c)))
         IN /\ a \in Nat
            /\ credited'[c] = credited[c] + a /\ confirmed'[c] = confirmed[c] + a
            /\ applied'[c]
            /\ openAmount'[i] = openAmount[i] - a
            /\ \A j \in Items \ {i} : openAmount'[j] = openAmount[j]
            /\ position'[c] = position[c] + 1
            /\ UNCHANGED <<runVars, checkpointVars, inFlight, pc, callVars, unresolved, tableVars>>
  <1> DEFINE i == Line(c).item
             a == Cleared(i, Posted(run[c], Line(c)))
  <1>1. i \in Items /\ a \in Nat
    BY LineFits, ClearedFits DEF ErpApplies
  <1>2. /\ credited' = [credited EXCEPT ![c] = credited[c] + a]
        /\ confirmed' = [confirmed EXCEPT ![c] = confirmed[c] + a]
        /\ applied' = [applied EXCEPT ![c] = TRUE]
        /\ openAmount' = [openAmount EXCEPT ![i] = openAmount[i] - a]
        /\ position' = [position EXCEPT ![c] = position[c] + 1]
        /\ UNCHANGED <<runVars, checkpointVars, inFlight, pc, callVars, unresolved, tableVars>>
    BY DEF ErpApplies, Clear, NextLine
  <1>3. /\ DOMAIN credited = Calls /\ DOMAIN confirmed = Calls /\ DOMAIN openAmount = Items
        /\ DOMAIN position = Calls /\ DOMAIN applied = Calls
    BY DEF Control, Types, ErpTypes, CallTypes
  <1> HIDE DEF i, a
  <1>4. /\ a \in Nat
        /\ credited'[c] = credited[c] + a /\ confirmed'[c] = confirmed[c] + a
        /\ applied'[c]
        /\ openAmount'[i] = openAmount[i] - a
        /\ \A j \in Items \ {i} : openAmount'[j] = openAmount[j]
        /\ position'[c] = position[c] + 1
    BY <1>1, <1>2, <1>3
  <1> QED BY <1>2, <1>4 DEF i, a

(* With every answer arriving nothing is in flight.                        *)
LEMMA QuietStep ==
  ASSUME OneByOne, Control, QuietInv, NEW c \in Calls, CallStep(c)
  PROVE  QuietInv'
  <1>1. inFlight' = {}
    BY ErpStep DEF QuietInv
  <1>2. IsFiniteSet({d \in Calls : pc'[d] # "idle"})
    <2> DEFINE Begun == {d \in Calls : pc[d] # "idle"}
    <2>1. IsFiniteSet(Begun \cup {c})
      BY FS_AddElement DEF QuietInv
    <2>2. {d \in Calls : pc'[d] # "idle"} \subseteq Begun \cup {c}
      BY FrameStep DEF Same
    <2> QED BY <2>1, <2>2, FS_Subset
  <1>3. ASSUME NEW d \in Calls
        PROVE  confirmed'[d] = credited'[d] /\ (credited'[d] > 0 => applied'[d])
    <2>1. CASE d # c
      BY <2>1, FrameStep DEF Same, QuietInv
    <2>2. CASE d = c /\ ErpApplies(c)
      BY <2>2, ApplyStep DEF QuietInv
    <2>3. CASE d = c /\ ~ErpApplies(c)
      BY <2>3, ErpStep DEF QuietInv
    <2> QED BY <2>1, <2>2, <2>3
  <1> QED BY <1>1, <1>2, <1>3 DEF QuietInv

(* The applications are finitely many, and each asks for an amount.        *)
LEMMA AmountsFit ==
  ASSUME ChannelTypes, NEW r \in Runs, remittance[r] # None
  PROVE  /\ IsFiniteSet(Applicable(r)) /\ Applicable(r) \subseteq DOMAIN Advised(r)
         /\ \A n \in Applicable(r) : Amounts(r)[n] \in Nat /\ Postings(r)[n] \in Nat
         /\ \A p : Passed(r, p) \subseteq Applicable(r) /\ IsFiniteSet(Passed(r, p))
         /\ \A p : Asked(r, p) \in Nat /\ Asked(r, p) <= Payable(r) /\ Meant(r, p) \in Nat
         /\ Requested(r) \in Nat /\ Payable(r) \in Nat
  <1>1. DOMAIN Advised(r) = 1 .. Len(Advised(r)) /\ Len(Advised(r)) \in Nat
    BY AdvicesFit
  <1>2. Applicable(r) \subseteq DOMAIN Advised(r)
    BY DEF Applicable
  <1>3. IsFiniteSet(Applicable(r))
    <2>1. IsFiniteSet(1 .. Len(Advised(r)))
      BY <1>1, FS_Interval
    <2> QED BY <1>1, <1>2, <2>1, FS_Subset
  <1>4. ASSUME NEW n \in Applicable(r) PROVE Amounts(r)[n] \in Nat /\ Postings(r)[n] \in Nat
    BY <1>2, AmountFits DEF Amounts, Postings
  <1>5. ASSUME NEW p PROVE Passed(r, p) \subseteq Applicable(r) /\ IsFiniteSet(Passed(r, p))
    <2>1. Passed(r, p) \subseteq Applicable(r)
      BY DEF Passed
    <2> QED BY <1>3, <2>1, FS_Subset
  <1>6. ASSUME NEW p
        PROVE  Asked(r, p) \in Nat /\ Asked(r, p) <= Payable(r) /\ Meant(r, p) \in Nat
    <2>1. Asked(r, p) \in Nat
      BY <1>4, <1>5, SumIsNat DEF Asked
    <2>2. Meant(r, p) \in Nat
      BY <1>4, <1>5, SumIsNat DEF Meant
    <2>3. Passed(r, p) \in SUBSET Applicable(r)
      BY <1>5
    <2>4. Asked(r, p) <= Payable(r)
      BY <1>3, <1>4, <2>3, SumOfPart DEF Asked, Payable
    <2> QED BY <2>1, <2>2, <2>4
  <1>7. Requested(r) \in Nat
    BY <1>3, <1>4, SumIsNat DEF Requested
  <1>8. Payable(r) \in Nat
    BY <1>3, <1>4, SumIsNat DEF Payable
  <1> QED BY <1>2, <1>3, <1>4, <1>5, <1>6, <1>7, <1>8

(* Going past a line adds what it asks for, if it is an application.       *)
LEMMA AskedGrows ==
  ASSUME ChannelTypes, NEW r \in Runs, remittance[r] # None, NEW p \in Nat
  PROVE  /\ p \in Applicable(r) => /\ Asked(r, p + 1) = Asked(r, p) + Postings(r)[p]
                                   /\ Meant(r, p + 1) = Meant(r, p) + Amounts(r)[p]
         /\ p \notin Applicable(r) => Asked(r, p + 1) = Asked(r, p)
         /\ Meant(r, 1) = 0
  <1>1. Applicable(r) \subseteq Nat \ {0}
    BY AmountsFit, AdvicesFit
  <1>2. ASSUME p \in Applicable(r)
        PROVE  /\ Asked(r, p + 1) = Asked(r, p) + Postings(r)[p]
               /\ Meant(r, p + 1) = Meant(r, p) + Amounts(r)[p]
    <2>1. Passed(r, p + 1) = Passed(r, p) \cup {p} /\ p \notin Passed(r, p)
      BY <1>1, <1>2 DEF Passed
    <2>2. \A n \in Passed(r, p) \cup {p} : Amounts(r)[n] \in Int /\ Postings(r)[n] \in Int
      <3>1. \A n \in Applicable(r) : Amounts(r)[n] \in Nat /\ Postings(r)[n] \in Nat
        BY AmountsFit
      <3> QED BY <1>2, <3>1 DEF Passed
    <2>3. IsFiniteSet(Passed(r, p))
      BY AmountsFit
    <2>4. \A f, T : IsFiniteSet(T) /\ p \notin T /\ (\A n \in T \cup {p} : f[n] \in Int) =>
            SumFunctionOnSet(f, T \cup {p}) = SumFunctionOnSet(f, T) + f[p]
      BY SumTakesIn
    <2>5. Asked(r, p + 1) = Asked(r, p) + Postings(r)[p]
      BY <2>1, <2>2, <2>3, <2>4 DEF Asked
    <2>6. Meant(r, p + 1) = Meant(r, p) + Amounts(r)[p]
      BY <2>1, <2>2, <2>3, <2>4 DEF Meant
    <2> QED BY <2>5, <2>6
  <1>3. ASSUME p \notin Applicable(r) PROVE Asked(r, p + 1) = Asked(r, p)
    <2>1. Passed(r, p + 1) = Passed(r, p)
      BY <1>1, <1>3 DEF Passed
    <2> QED BY <2>1 DEF Asked
  <1>4. Meant(r, 1) = 0
    <2>1. Passed(r, 1) = {}
      BY <1>1 DEF Passed
    <2> QED BY <2>1, SumOfNothing DEF Meant
  <1> QED BY <1>2, <1>3, <1>4

(* The way of a call through the graph, and the status it leaves its run.  *)
Path(c, r) ==
  /\ pc[c] = "idle" => \/ pc'[c] = "parse" /\ status[r] = "absent"
                       \/ pc'[c] = "gate" /\ status' = status
  /\ pc[c] = "gate" => /\ status' = status
                       /\ \/ pc'[c] = "done"
                          \/ pc'[c] = "load" /\ status[r] = "AWAITING_APPROVAL"
  /\ pc[c] \in Reading => \/ pc'[c] \in (Reading \ {"load"}) \cup {"done"}
                          \/ pc'[c] = "cash.call" /\ status'[r] = "POSTING"
  /\ pc[c] \in Paying =>
       \/ status' = status /\ pc'[c] \in Paying \cup {"done"}
       \/ /\ pc[c] = "cash.finish" /\ pc'[c] = "cash.return"
          /\ status'[r] = IF applied[c] THEN "COMPLETED" ELSE "AWAITING_APPROVAL"
  /\ pc[c] = "cash.return" => status' = status /\ pc'[c] = "done"
  /\ pc[c] \in Cash => position'[c] \in {position[c], position[c] + 1}
  /\ status'[r] = "COMPLETED" => status[r] = "COMPLETED" \/ pc[c] = "cash.finish"

(* Every step is on that way.                                              *)
LEMMA PathStep ==
  ASSUME OneByOne, Control, NEW c \in Calls, CallStep(c), NEW r \in Runs, run'[c] = r
  PROVE  Path(c, r)
  <1>t. /\ DOMAIN pc = Calls /\ DOMAIN run = Calls /\ DOMAIN status = Runs
        /\ DOMAIN position = Calls
        /\ run[c] \in Runs => next[run[c]] \in Nodes \cup {"done"}
        /\ pc[c] # "idle" => run[c] = r
        /\ ~StatusLossy
    BY RunStep DEF Control, Types, ChannelTypes, CallTypes, OneByOne
  <1> USE DEF Path, Reading, Paying, Cash, Nodes, SetStatus, Within, Return, AtApplication,
          NextLine, runVars, localVars, callVars
  <1>1. CASE Parse(c)
    BY <1>1, <1>t DEF Parse
  <1>2. CASE ExtractRemittance(c)
    BY <1>2, <1>t DEF ExtractRemittance
  <1>3. CASE Failed(c)
    BY <1>3, <1>t DEF Failed
  <1>4. CASE FetchByCustomer(c)
    BY <1>4, <1>t DEF FetchByCustomer
  <1>5. CASE FetchByAdvice(c)
    BY <1>5, <1>t DEF FetchByAdvice
  <1>6. CASE Fetched(c)
    BY <1>6, <1>t DEF Fetched
  <1>7. CASE FetchFails(c)
    BY <1>7, <1>t DEF FetchFails
  <1>8. CASE ApplyBegin(c)
    BY <1>8, <1>t DEF ApplyBegin
  <1>9. CASE SkipLine(c)
    BY <1>9, <1>t DEF SkipLine
  <1>10. CASE ErpApplies(c)
    BY <1>10, <1>t DEF ErpApplies
  <1>11. CASE ErpRefuses(c)
    BY <1>11, <1>t DEF ErpRefuses
  <1>12. CASE ErpTimesOut(c)
    BY <1>12, <1>t DEF ErpTimesOut
  <1>13. CASE SaveRemittance(c)
    BY <1>13, <1>t DEF SaveRemittance
  <1>14. CASE OpenCase(c)
    BY <1>14, <1>t DEF OpenCase
  <1>15. CASE Finish(c)
    BY <1>15, <1>t DEF Finish
  <1>16. CASE EndThread(c)
    BY <1>16, <1>t DEF EndThread
  <1>17. CASE ResumeGate(c)
    BY <1>17, <1>t DEF ResumeGate
  <1>18. CASE LoadCheckpoint(c)
    BY <1>18, <1>t DEF LoadCheckpoint
  <1>19. CASE Abort(c)
    BY <1>19, <1>t DEF Abort, Active
  <1>20. CASE \E q \in Runs : StartRun(c, q)
    BY <1>20, <1>t DEF StartRun, MayBegin
  <1>21. CASE \E q \in Runs : Decide(c, q)
    BY <1>21, <1>t DEF Decide, MayBegin
  <1>22. CASE UnknownCustomer(c)
    BY <1>22, <1>t DEF UnknownCustomer
  <1> QED BY <1>1, <1>2, <1>3, <1>4, <1>5, <1>6, <1>7, <1>8, <1>9, <1>10, <1>11, <1>12,
             <1>13, <1>14, <1>15, <1>16, <1>17, <1>18, <1>19, <1>20, <1>21, <1>22
          DEF CallStep, Drive

(* What the ERP has cleared for a call stays covered by the lines it has   *)
(* passed.                                                                 *)
LEMMA CoveredStep ==
  ASSUME OneByOne, OneActive, QuietInv, Control, PayerInv, NEW c \in Calls, CallStep(c),
         NEW r \in Runs, run'[c] = r, applied'[c]
  PROVE  /\ pc[c] \in Cash /\ run[c] = r
         /\ next'[r] \notin Early /\ remittance'[r] # None
         /\ credited'[c] <= Asked(r, position[c])' /\ IsPayer(c, r)
  <1>t. /\ ChannelTypes /\ credited[c] \in Nat /\ position[c] \in Nat
        /\ pc[c] \in Points \cup {"idle", "done"}
    BY DEF Control, Types, ErpTypes, CallTypes
  <1>p. Path(c, r)
    BY PathStep
  <1>d. pc[c] # "done"
    BY OthersSleep
  <1>1. pc[c] \in Cash /\ (ErpApplies(c) \/ credited'[c] = credited[c])
    <2>1. CASE ErpApplies(c)
      BY <2>1 DEF ErpApplies, AtApplication, Cash
    <2>2. CASE ~ErpApplies(c)
      <3>1. credited'[c] = credited[c] /\ applied'[c] = applied[c]
        BY <2>2, ErpStep
      <3>2. pc[c] \notin {"idle", "gate"} \cup Reading
        BY <3>1 DEF PayerInv
      <3> QED BY <1>t, <3>1, <3>2, <1>d DEF Points, Nodes, Reading, Cash
    <2> QED BY <2>1, <2>2
  <1>2. run[c] = r /\ IsPayer(c, r)
    BY <1>1, RunStep DEF Cash, PayerInv
  <1>3. next[r] \notin Early /\ remittance[r] # None
    BY <1>1, <1>2 DEF Control, EarlyInv, IsEarly, At, ReadInv, Early, Cash
  <1>4. /\ next'[r] \notin Early /\ remittance'[r] = remittance[r] /\ snapshot'[r] = snapshot[r]
    BY <1>3, DataStep DEF DataKept
  <1>5. \A p : Asked(r, p)' = Asked(r, p)
    BY <1>4, ViewKept DEF Asked, Passed
  <1>6. credited'[c] <= Asked(r, position'[c])
    <2>a. Asked(r, position[c]) \in Nat /\ Asked(r, position[c] + 1) \in Nat
      BY <1>t, <1>3, AmountsFit
    <2>b. credited[c] <= Asked(r, position[c])
      <3>1. ~applied[c] => credited[c] = 0
        BY <1>t DEF QuietInv
      <3> QED BY <1>2, <1>t, <2>a, <3>1 DEF IsPayer
    <2>c. Asked(r, position[c]) <= Asked(r, position[c] + 1)
      <3>1. Asked(r, position[c] + 1) \in
              {Asked(r, position[c]), Asked(r, position[c]) + Postings(r)[position[c]]}
        BY <1>t, <1>3, AskedGrows
      <3>2. position[c] \in Applicable(r) => Postings(r)[position[c]] \in Nat
        BY <1>t, <1>3, AmountsFit
      <3>3. position[c] \notin Applicable(r) => Asked(r, position[c] + 1) = Asked(r, position[c])
        BY <1>t, <1>3, AskedGrows
      <3> QED BY <2>a, <3>1, <3>2, <3>3
    <2>1. CASE ErpApplies(c)
      <3> DEFINE a == Cleared(Line(c).item, Posted(run[c], Line(c)))
      <3>1. /\ a \in Nat /\ credited'[c] = credited[c] + a
            /\ position'[c] = position[c] + 1
        BY <2>1, ApplyStep
      <3>2. position[c] \in Applicable(r) /\ AtApplication(c)
        BY <1>2, <2>1 DEF ErpApplies, AtApplication
      <3>3. /\ Postings(r)[position[c]] = Posted(run[c], Line(c))
            /\ Posted(run[c], Line(c)) \in Nat
            /\ openAmount[Line(c).item] \in Nat
        BY <1>2, <3>2, LineFits DEF Postings, Line, Applicable, Control, Types, ErpTypes
      <3>4. a <= Postings(r)[position[c]]
        BY <3>3 DEF Cleared
      <3>5. Asked(r, position[c] + 1) = Asked(r, position[c]) + Postings(r)[position[c]]
        BY <1>t, <1>3, <3>2, AskedGrows
      <3> HIDE DEF a
      <3> QED BY <1>t, <2>a, <2>b, <3>1, <3>3, <3>4, <3>5
    <2>2. CASE ~ErpApplies(c)
      <3>1. credited'[c] = credited[c] /\ position'[c] \in {position[c], position[c] + 1}
        BY <1>1, <1>p, <2>2 DEF Path
      <3> QED BY <1>t, <2>a, <2>b, <2>c, <3>1
    <2> QED BY <2>1, <2>2
  <1>7. credited'[c] <= Asked(r, position[c])'
    BY <1>4, <1>6, ViewKept DEF Asked, Passed
  <1> QED BY <1>1, <1>2, <1>3, <1>4, <1>7

(* A sleeping call's claim on its run is left alone: what another call     *)
(* clears, it clears for a run of its own.                                 *)
LEMMA SleeperStep ==
  ASSUME OneByOne, OneActive, Control, PayerInv, NEW c \in Calls, CallStep(c),
         NEW d \in Calls \ {c}, NEW r \in Runs, run[d] = r
  PROVE  IsPayer(d, r)'
  <1>1. /\ Same(d) /\ Asleep(d) /\ pc[c] # "done"
        /\ \A e \in Calls \ {c} : Same(e)
    BY FrameStep, OthersSleep
  <1>2. pc'[d] \notin Reading \cup Cash \cup Paying
    BY <1>1 DEF Same, Asleep, Reading, Cash, Paying
  <1>3. CASE ~applied[d]
    BY <1>1, <1>2, <1>3 DEF Same, IsPayer, Reading
  <1>4. CASE applied[d]
    <2>t. pc[c] \in Points \cup {"idle", "done"}
      BY DEF Control, Types, CallTypes
    <2>1. applied[d] /\ IsPayer(d, r)
      BY <1>4 DEF PayerInv
    <2>2. ASSUME run'[c] = r
          PROVE  status'[r] = status[r] /\ ~applied'[c]
      <3>1. CASE pc[c] \in {"idle", "gate"}
        <4>1. ~ErpApplies(c) /\ ~applied[c]
          BY <3>1 DEF ErpApplies, AtApplication, PayerInv
        <4>2. ~applied'[c]
          BY <4>1, ErpStep
        <4>3. Path(c, r) /\ status[r] # "absent"
          BY <2>1, <2>2, PathStep DEF IsPayer
        <4> QED BY <3>1, <4>2, <4>3 DEF Path
      <3>2. CASE pc[c] \notin {"idle", "gate"}
        <4>1. pc[c] \in Reading \cup Cash
          BY <1>1, <2>t, <3>2 DEF Points, Nodes, Reading, Cash
        <4>2. run[c] = r /\ IsPayer(c, r)
          BY <2>2, <3>2, RunStep DEF PayerInv
        <4>3. ~applied[d]
          BY <4>1, <4>2 DEF IsPayer, IsSole
        <4> QED BY <1>4, <4>3
      <3> QED BY <3>1, <3>2
    <2>3. status'[r] = status[r]
      BY <2>2, MoveStep
    <2>4. IsSole(d, r)'
      <3>1. \A e \in Calls \ {d} : run'[e] = r => ~applied'[e]
        BY <1>1, <2>1, <2>2 DEF Same, IsPayer, IsSole
      <3> QED BY <3>1 DEF IsSole
    <2>5. /\ next'[r] \notin Early /\ remittance'[r] = remittance[r]
          /\ snapshot'[r] = snapshot[r] /\ remittance[r] # None
      BY <2>1, DataStep DEF DataKept, IsPayer
    <2>6. credited'[d] <= Asked(r, position[d])'
      <3>1. credited[d] <= Asked(r, position[d])
        BY <2>1 DEF IsPayer
      <3> QED BY <1>1, <2>5, <3>1, ViewKept DEF Same, Asked, Passed
    <2> QED BY <1>1, <1>2, <2>1, <2>3, <2>4, <2>5, <2>6 DEF Same, IsPayer, Reading
  <1> QED BY <1>3, <1>4

(* And the call that moves keeps, gives up or takes over the claim.        *)
LEMMA MoverStep ==
  ASSUME OneByOne, OneActive, QuietInv, Control, PayerInv, NEW c \in Calls, CallStep(c),
         NEW r \in Runs, run'[c] = r
  PROVE  /\ IsPayer(c, r)'
         /\ pc'[c] \in {"idle", "gate"} \cup Reading => ~applied'[c]
  <1>t. /\ pc[c] \in Points \cup {"idle", "done"}
        /\ pc[c] # "done" /\ pc'[c] # "idle"
        /\ pc[c] # "idle" => run[c] = r
    BY OthersSleep, RunStep DEF Control, Types, CallTypes
  <1>f. \A d \in Calls \ {c} : run'[d] = run[d] /\ applied'[d] = applied[d]
    BY FrameStep DEF Same
  <1>p. Path(c, r)
    BY PathStep
  <1>i. pc[c] # "idle" => IsPayer(c, r)
    BY <1>t DEF PayerInv
  <1>e. pc[c] # "cash.call" => applied'[c] = applied[c]
    BY ErpStep DEF ErpApplies, AtApplication
  <1>z. pc[c] \in {"idle", "gate"} \cup Reading => ~applied'[c]
    BY <1>e DEF PayerInv, Reading
  <1>1. pc'[c] \in {"idle", "gate"} \cup Reading => pc[c] \in {"idle", "gate"} \cup Reading
    BY <1>p, <1>t DEF Path, Reading, Paying, Cash, Points, Nodes
  <1>2. ASSUME pc'[c] \in Reading \cup Cash \/ applied'[c] PROVE IsSole(c, r)'
    <2>1. \A d \in Calls \ {c} : run[d] = r => ~applied[d]
      <3>1. CASE pc[c] \in Reading \cup Cash
        BY <1>i, <3>1 DEF IsPayer, IsSole, Reading, Cash
      <3>2. CASE pc[c] \in {"idle", "gate"}
        <4>1. status[r] \in {"absent", "AWAITING_APPROVAL"}
          BY <1>2, <1>p, <1>z, <3>2 DEF Path, Reading, Cash
        <4> QED BY <4>1 DEF PayerInv, IsPayer
      <3> QED BY <1>t, <3>1, <3>2 DEF Points, Nodes, Reading, Cash
    <2> QED BY <1>f, <2>1 DEF IsSole
  <1>3. pc'[c] = "load" => status'[r] = "AWAITING_APPROVAL"
    BY <1>p, <1>t DEF Path, Reading, Paying, Cash, Points, Nodes
  <1>4. pc'[c] \in Paying => status'[r] = "POSTING"
    BY <1>i, <1>p, <1>t DEF Path, Reading, Paying, Cash, Points, Nodes, IsPayer
  <1>5. ASSUME applied'[c] PROVE status'[r] \in {"POSTING", "COMPLETED"}
    <2>1. pc[c] \in Cash
      BY <1>5, CoveredStep
    <2>2. pc[c] # "cash.call" => applied[c]
      BY <1>5, <1>e
    <2> QED BY <1>i, <1>p, <2>1, <2>2 DEF Path, Paying, Cash, IsPayer
  <1>6. ASSUME applied'[c]
        PROVE  /\ next'[r] \notin Early /\ remittance'[r] # None
               /\ credited'[c] <= Asked(r, position[c])'
    BY <1>6, CoveredStep
  <1>7. IsPayer(c, r)'
    BY <1>2, <1>3, <1>4, <1>5, <1>6 DEF IsPayer
  <1> QED BY <1>1, <1>7, <1>z

(* So what has been cleared stays within what the lines asked for.         *)
LEMMA PayerStep ==
  ASSUME OneByOne, OneActive, QuietInv, Control, PayerInv, NEW c \in Calls, CallStep(c)
  PROVE  PayerInv'
  <1>1. ASSUME NEW d \in Calls
        PROVE  /\ pc'[d] \in {"idle", "gate"} \cup Reading => ~applied'[d]
               /\ \A r \in Runs : run'[d] = r => IsPayer(d, r)'
    <2>1. CASE d = c
      <3>1. run'[c] \in Runs
        BY PlacedStep, RunStep DEF PlacedInv
      <3> QED BY <2>1, <3>1, MoverStep
    <2>2. CASE d # c
      <3>1. Same(d)
        BY <2>2, FrameStep
      <3>2. pc'[d] \in {"idle", "gate"} \cup Reading => ~applied'[d]
        BY <3>1 DEF Same, PayerInv
      <3>3. ASSUME NEW r \in Runs, run'[d] = r PROVE IsPayer(d, r)'
        BY <2>2, <3>1, <3>3, SleeperStep DEF Same
      <3> QED BY <3>2, <3>3
    <2> QED BY <2>1, <2>2
  <1> QED BY <1>1 DEF PayerInv

ResumeInv == CashInv /\ OneActive /\ QuietInv /\ PayerInv

(* Nothing has been cleared at the beginning.                              *)
LEMMA ResumeStart ==
  ASSUME Init
  PROVE  ResumeInv
  <1>1. OneActive /\ PayerInv
    BY ConstantsAssumption DEF Init, OneActive, Active, PayerInv
  <1>2. {c \in Calls : pc[c] # "idle"} = {}
    BY DEF Init
  <1>3. QuietInv
    <2>1. \A c \in Calls : confirmed[c] = 0 /\ credited[c] = 0
      BY DEF Init
    <2>2. inFlight = {} /\ IsFiniteSet({c \in Calls : pc[c] # "idle"})
      BY <1>2, FS_EmptySet DEF Init
    <2> QED BY <2>1, <2>2 DEF QuietInv
  <1> QED BY <1>1, <1>3, CashStart DEF ResumeInv

(* Every step is the step of one call.                                     *)
LEMMA OneSteps ==
  ASSUME QuietInv, [Next]_vars
  PROVE  (\E c \in Calls : CallStep(c)) \/ UNCHANGED vars
  <1>1. CASE Next
    <2>1. (\E c \in Calls : CallStep(c)) \/ \E q \in inFlight : ErpProcessesLate(q)
      BY <1>1 DEF Next, CallStep
    <2> QED BY <2>1 DEF QuietInv
  <1> QED BY <1>1

(* Every step keeps it.                                                    *)
LEMMA ResumeStep ==
  ASSUME OneByOne, ResumeInv, [Next]_vars
  PROVE  ResumeInv'
  <1>1. CashInv'
    BY CashStep DEF ResumeInv
  <1>2. ASSUME NEW c \in Calls, CallStep(c) PROVE OneActive' /\ QuietInv' /\ PayerInv'
    BY <1>2, OneActiveStep, QuietStep, PayerStep DEF ResumeInv, CashInv
  <1>3. ASSUME UNCHANGED vars PROVE OneActive' /\ QuietInv' /\ PayerInv'
    <2> USE <1>3 DEF vars, runVars, checkpointVars, erpVars, callVars, localVars, tableVars
    <2>1. OneActive' /\ QuietInv'
      BY DEF ResumeInv, OneActive, Active, QuietInv
    <2>2. ASSUME NEW c \in Calls, NEW r \in Runs, IsPayer(c, r) PROVE IsPayer(c, r)'
      <3>1. Postings(r)' = Postings(r) /\ Applicable(r)' = Applicable(r)
        BY ViewKept
      <3> QED BY <2>2, <3>1 DEF IsPayer, IsSole, Asked, Passed
    <2>3. PayerInv'
      BY <2>2 DEF ResumeInv, PayerInv
    <2> QED BY <2>1, <2>3
  <1> QED BY <1>1, <1>2, <1>3, OneSteps DEF ResumeInv

(* The resume invariant holds in every reachable state: of all the calls   *)
(* of a run at most one has cleared anything, and that one has walked past *)
(* the lines it cleared.                                                   *)
THEOREM ResumeInvariant ==
  ASSUME OneByOne
  PROVE  Spec => []ResumeInv
  BY ResumeStart, ResumeStep, PTL DEF Spec

(* What the ERP has cleared for a run is what one call has cleared.        *)
LEMMA CreditedIsOnes ==
  ASSUME ResumeInv, NEW r \in Runs
  PROVE  /\ \/ Credited(r) = 0
            \/ \E c \in Calls : run[c] = r /\ applied[c]
         /\ \A c \in Calls : run[c] = r /\ applied[c] => Credited(r) = credited[c]
  <1> DEFINE Mine == {c \in Calls : run[c] = r}
  <1>1. IsFiniteSet(Mine)
    <2>1. Mine \subseteq {c \in Calls : pc[c] # "idle"}
      BY ConstantsAssumption DEF ResumeInv, CashInv, Control, PlacedInv
    <2> QED BY <2>1, FS_Subset DEF ResumeInv, QuietInv
  <1>2. /\ credited \in [Calls -> Nat]
        /\ \A c \in Calls : ~applied[c] => credited[c] = 0
    <2>1. credited \in [Calls -> Nat]
      BY DEF ResumeInv, CashInv, Control, Types, ErpTypes
    <2> QED BY <2>1 DEF ResumeInv, QuietInv
  <1>3. CASE \A c \in Mine : ~applied[c]
    BY <1>1, <1>2, <1>3, SumOfZeros DEF Credited
  <1>4. ASSUME NEW c \in Mine, applied[c]
        PROVE  Credited(r) = credited[c]
    <2>1. credited[c] \in Int
      BY <1>2
    <2>2. \A d \in Mine \ {c} : credited[d] = 0
      BY <1>2, <1>4 DEF ResumeInv, PayerInv, IsPayer, IsSole
    <2>3. Credited(r) = SumFunctionOnSet(credited, Mine)
      BY DEF Credited
    <2> HIDE DEF Mine
    <2> QED BY <1>1, <2>1, <2>2, <2>3, SumOfOne
  <1> QED BY <1>3, <1>4

(* A remittance clears no more than its lines asked for, each in whole     *)
(* cents, however often its run is decided on, released or abandoned in    *)
(* the middle of apply_cash, for any number of runs, calls, lines and      *)
(* refusals of the ERP: a thread that has returned from apply_cash has no  *)
(* node left to resume.                                                    *)
THEOREM ResumedRunsStayWithin ==
  ASSUME ~Concurrent, ~Timeouts, ~StatusLossy
  PROVE  Spec => []CreditedWithinRemittance
  <1>1. ASSUME ResumeInv PROVE CreditedWithinRemittance
    <2> SUFFICES ASSUME NEW r \in Runs, remittance[r] # None
                 PROVE  Credited(r) <= Payable(r)
      BY DEF CreditedWithinRemittance, Payable
    <2>1. ChannelTypes
      BY <1>1 DEF ResumeInv, CashInv, Control, Types
    <2>2. Payable(r) \in Nat
      BY <2>1, AmountsFit
    <2>3. ASSUME NEW c \in Calls, run[c] = r, applied[c] PROVE credited[c] <= Payable(r)
      <3>1. credited[c] <= Asked(r, position[c]) /\ credited[c] \in Nat
        BY <1>1, <2>3 DEF ResumeInv, PayerInv, IsPayer, CashInv, Control, Types, ErpTypes
      <3>2. Asked(r, position[c]) \in Nat /\ Asked(r, position[c]) <= Payable(r)
        BY <2>1, AmountsFit
      <3> QED BY <2>2, <3>1, <3>2
    <2> QED BY <1>1, <2>2, <2>3, CreditedIsOnes
  <1>2. OneByOne
    BY DEF OneByOne
  <1> QED BY <1>1, <1>2, ResumeInvariant, PTL

(* What the snapshot has of a line's receivable is open in the ERP.        *)
UpToDate(r, n) ==
  LET i == Advised(r)[n].item IN i \in Items => snapshot[r][i] \in {0, openAmount[i]}

(* Twice what one line may leave: the tolerance and half a cent.           *)
Slack == 2 * Tolerance + Cent

(* Nothing is left to look at but the tolerances.                          *)
Tolerated(r, amount) ==
  ~Unresolved(r) /\ 2 * Abs(Requested(r) - amount) <= Slack * Len(Advised(r))

(* Nobody will look, and nothing hides one line behind another.            *)
Trusted(r) == ~Queued(r) /\ NamedOnce(r)

(* Where the list of open receivables is awaited, or read and not yet used.*)
Listing == {"load", "fetch_ar_items", "fetch.by_advice", "apply_cash"}

IsCovered(c, r) ==
  /\ pc[c] \in {"parse", "extract_remittance"} => \A i \in Items : snapshot[r][i] = 0
  /\ pc[c] \in Listing /\ ~Queued(r) =>
       \A n \in DOMAIN Advised(r) : UpToDate(r, n)
  /\ pc[c] = "cash.call" /\ ~unresolved[c] /\ Trusted(r) =>
       /\ position[c] <= Len(Advised(r)) + 1
       /\ \A n \in DOMAIN Advised(r) : n >= position[c] => UpToDate(r, n)
       /\ 2 * Abs(Meant(r, position[c]) - credited[c]) <= Slack * (position[c] - 1)
  /\ pc[c] = "cash.finish" /\ Trusted(r) => Tolerated(r, credited[c])

IsComplete(r) ==
  /\ status[r] = "absent" => \A i \in Items : snapshot[r][i] = 0
  /\ status[r] = "COMPLETED" =>
       \E c \in Calls : /\ run[c] = r /\ applied[c]
                        /\ Trusted(r) => Tolerated(r, credited[c])

LeakInv ==
  /\ \A c \in Calls, r \in Runs : run[c] = r => IsCovered(c, r)
  /\ \A r \in Runs : IsComplete(r)

(* Where a call can come from.                                             *)
Arrives(c, r) ==
  /\ pc'[c] \in {"parse", "extract_remittance"} =>
       \/ LoadCheckpoint(c)
       \/ /\ snapshot' = snapshot
          /\ pc[c] = "parse" \/ (pc[c] = "idle" /\ status[r] = "absent")
  /\ pc'[c] \in Listing =>
       \/ ResumeGate(c) \/ LoadCheckpoint(c) \/ ExtractRemittance(c) \/ FetchByCustomer(c)
       \/ UnknownCustomer(c) \/ FetchByAdvice(c) \/ Fetched(c) \/ FetchFails(c)
  /\ pc'[c] = "cash.call" => ApplyBegin(c) \/ SkipLine(c) \/ ErpApplies(c) \/ ErpRefuses(c)
  /\ pc'[c] = "cash.finish" => SaveRemittance(c) \/ OpenCase(c)
  /\ snapshot' = snapshot \/ \E s : snapshot' = [snapshot EXCEPT ![r] = s]

(* Every step arrives from there.                                          *)
LEMMA ArrivalStep ==
  ASSUME OneByOne, Control, NEW c \in Calls, CallStep(c), NEW r \in Runs, run'[c] = r
  PROVE  Arrives(c, r)
  <1>t. /\ DOMAIN pc = Calls /\ DOMAIN run = Calls
        /\ pc[c] # "idle" => run[c] = r
        /\ run[c] \in Runs => next[run[c]] \in Nodes \cup {"done"}
        /\ ~Timeouts
    BY RunStep DEF Control, Types, ChannelTypes, CallTypes, OneByOne
  <1> USE DEF Arrives, Listing, Nodes, Within, Return, AtApplication, checkpointVars, callVars
  <1>1. CASE Parse(c)
    BY <1>1, <1>t DEF Parse
  <1>2. CASE ExtractRemittance(c)
    BY <1>2, <1>t DEF ExtractRemittance
  <1>3. CASE Failed(c)
    BY <1>3, <1>t DEF Failed
  <1>4. CASE FetchByCustomer(c)
    BY <1>4, <1>t DEF FetchByCustomer
  <1>5. CASE FetchByAdvice(c)
    BY <1>5, <1>t DEF FetchByAdvice
  <1>6. CASE Fetched(c)
    BY <1>6, <1>t DEF Fetched
  <1>7. CASE FetchFails(c)
    BY <1>7, <1>t DEF FetchFails
  <1>8. CASE ApplyBegin(c)
    BY <1>8, <1>t DEF ApplyBegin
  <1>9. CASE SkipLine(c)
    BY <1>9, <1>t DEF SkipLine
  <1>10. CASE ErpApplies(c)
    BY <1>10, <1>t DEF ErpApplies
  <1>11. CASE ErpRefuses(c)
    BY <1>11, <1>t DEF ErpRefuses
  <1>12. CASE ErpTimesOut(c)
    BY <1>12, <1>t DEF ErpTimesOut
  <1>13. CASE SaveRemittance(c)
    BY <1>13, <1>t DEF SaveRemittance
  <1>14. CASE OpenCase(c)
    BY <1>14, <1>t DEF OpenCase
  <1>15. CASE Finish(c)
    BY <1>15, <1>t DEF Finish
  <1>16. CASE EndThread(c)
    BY <1>16, <1>t DEF EndThread
  <1>17. CASE ResumeGate(c)
    BY <1>17, <1>t DEF ResumeGate
  <1>18. CASE LoadCheckpoint(c)
    BY <1>18, <1>t DEF LoadCheckpoint
  <1>19. CASE Abort(c)
    BY <1>19, <1>t DEF Abort, Active
  <1>20. CASE \E q \in Runs : StartRun(c, q)
    BY <1>20, <1>t DEF StartRun, MayBegin
  <1>21. CASE \E q \in Runs : Decide(c, q)
    BY <1>21, <1>t DEF Decide, MayBegin
  <1>22. CASE UnknownCustomer(c)
    BY <1>22, <1>t DEF UnknownCustomer
  <1> QED BY <1>1, <1>2, <1>3, <1>4, <1>5, <1>6, <1>7, <1>8, <1>9, <1>10, <1>11, <1>12,
             <1>13, <1>14, <1>15, <1>16, <1>17, <1>18, <1>19, <1>20, <1>21, <1>22
          DEF CallStep, Drive

(* A thread that waits is never read again.                                *)
LEMMA LoadedStep ==
  ASSUME ResumeInv, NEW c \in Calls, LoadCheckpoint(c), NEW r \in Runs, run[c] = r
  PROVE  pc[c] = "load" /\ pc'[c] \in {"apply_cash", "done"}
  <1>1. pc[c] = "load" /\ pc' = [pc EXCEPT ![c] = next[r]]
    BY DEF LoadCheckpoint
  <1>2. next[r] \notin Early
    BY <1>1 DEF ResumeInv, PayerInv, IsPayer, Reading, CashInv, Control, EarlyInv, IsEarly
  <1>3. next[r] \in Nodes \cup {"done"} /\ DOMAIN pc = Calls
    BY DEF ResumeInv, CashInv, Control, Types, ChannelTypes, CallTypes
  <1> QED BY <1>1, <1>2, <1>3 DEF Nodes, Early

(* Until apply_cash begins, the snapshot is what the ERP has open: nobody  *)
(* else is clearing.                                                       *)
LEMMA SnapshotStep ==
  ASSUME OneByOne, ResumeInv, LeakInv, NEW c \in Calls, CallStep(c), NEW r \in Runs, run'[c] = r
  PROVE  /\ pc'[c] \in {"parse", "extract_remittance"} => \A i \in Items : snapshot'[r][i] = 0
         /\ pc'[c] \in Listing /\ ~Queued(r)' =>
              \A n \in DOMAIN Advised(r)' : UpToDate(r, n)'
  <1>t. Control /\ ChannelTypes /\ CallTypes /\ WaitingIsQueued
    BY DEF ResumeInv, CashInv, Control, Types
  <1>a. Arrives(c, r) /\ Path(c, r)
    BY <1>t, ArrivalStep, PathStep
  <1>r. pc[c] # "idle" => run[c] = r /\ IsCovered(c, r)
    BY <1>t, RunStep DEF LeakInv
  <1>1. ASSUME pc'[c] \in {"parse", "extract_remittance"}
        PROVE  \A i \in Items : snapshot'[r][i] = 0
    <2>1. ~LoadCheckpoint(c)
      BY <1>1, <1>r, LoadedStep DEF LoadCheckpoint
    <2>2. snapshot' = snapshot /\ (pc[c] = "parse" \/ (pc[c] = "idle" /\ status[r] = "absent"))
      BY <1>1, <1>a, <2>1 DEF Arrives
    <2> QED BY <1>r, <2>2 DEF IsCovered, LeakInv, IsComplete
  <1>2. ASSUME pc'[c] \in Listing, ~Queued(r)'
        PROVE  \A n \in DOMAIN Advised(r)' : UpToDate(r, n)'
    <2>q. ~Queued(r)
      BY <1>2, <1>t, QueuedStep
    <2>e. openAmount' = openAmount
      <3>1. ~ErpApplies(c)
        BY <1>2, <1>t DEF ErpApplies, AtApplication, Listing
      <3> QED BY <1>t, <3>1, ErpStep
    <2>1. CASE ResumeGate(c)
      <3>1. pc[c] = "gate" /\ remittance' = remittance /\ pc'[c] \in {"load", "done"}
        BY <1>t, <2>1 DEF ResumeGate, checkpointVars, CallTypes
      <3>2. status[r] = "AWAITING_APPROVAL"
        BY <1>2, <1>a, <3>1 DEF Path, Listing
      <3>3. Advised(r) = <<>>
        BY <1>t, <2>q, <3>2 DEF WaitingIsQueued, Bare
      <3>4. Advised(r)' = <<>>
        BY <3>1, <3>3 DEF Advised
      <3> QED BY <3>4
    <2>2. CASE LoadCheckpoint(c) \/ Fetched(c)
      <3>1. pc[c] \in Listing /\ remittance' = remittance /\ snapshot' = snapshot
        BY <2>2 DEF LoadCheckpoint, Fetched, checkpointVars, Listing
      <3>2. \A n \in DOMAIN Advised(r) : UpToDate(r, n)
        BY <1>r, <2>q, <3>1 DEF IsCovered, Listing
      <3> QED BY <2>e, <3>1, <3>2 DEF UpToDate, Advised
    <2>3. CASE ExtractRemittance(c)
      <3>1. pc[c] = "extract_remittance" /\ snapshot' = snapshot
        BY <2>3 DEF ExtractRemittance
      <3>2. \A i \in Items : snapshot'[r][i] = 0
        BY <1>r, <3>1 DEF IsCovered
      <3> QED BY <3>2 DEF UpToDate
    <2>4. CASE FetchByCustomer(c) \/ UnknownCustomer(c) \/ FetchFails(c)
      <3>1. run[c] = r /\ snapshot'[r] \in {openAmount, [i \in Items |-> 0]}
        BY <1>r, <1>t, <2>4 DEF FetchByCustomer, UnknownCustomer, FetchFails, ChannelTypes
      <3> QED BY <2>e, <3>1 DEF UpToDate
    <2>5. CASE FetchByAdvice(c)
      <3>1. pc[c] \in Listing /\ run[c] = r /\ remittance' = remittance
        BY <1>r, <2>5 DEF FetchByAdvice, Listing
      <3>2. PICK i : snapshot' = IF i \in Items /\ openAmount[i] > 0
                                 THEN [snapshot EXCEPT ![r][i] = openAmount[i]] ELSE snapshot
        BY <2>5, <3>1 DEF FetchByAdvice
      <3>3. \A j \in Items : snapshot'[r][j] \in {snapshot[r][j], openAmount[j]}
        BY <1>t, <3>2 DEF ChannelTypes
      <3>4. \A n \in DOMAIN Advised(r) : UpToDate(r, n)
        BY <1>r, <2>q, <3>1 DEF IsCovered, Listing
      <3> QED BY <2>e, <3>1, <3>3, <3>4 DEF UpToDate, Advised
    <2> QED BY <1>2, <1>a, <2>1, <2>2, <2>3, <2>4, <2>5 DEF Arrives
  <1> QED BY <1>1, <1>2

(* What an application leaves uncleared is within the tolerance, or half a *)
(* cent: the line asks for what is open, give or take.                     *)
LEMMA ApplicationIsClose ==
  ASSUME Control, NEW c \in Calls, AtApplication(c), NEW r \in Runs, run[c] = r,
         ~Unresolved(r), UpToDate(r, position[c])
  PROVE  2 * Abs(Amounts(r)[position[c]] - Cleared(Line(c).item, Posted(r, Line(c)))) <= Slack
  <1> DEFINE i == Line(c).item
             m == Amount(r, Line(c))
             s == Posted(r, Line(c))
             o == Open(r, Line(c))
  <1>1. /\ i \in Items /\ m \in Nat /\ s \in Nat /\ openAmount[i] \in Nat
        /\ Tolerance \in Nat /\ Cent \in Nat
        /\ position[c] \in Applicable(r)
    BY LineFits, ConstantsAssumption DEF Control, Types, ErpTypes, AtApplication
  <1>2. Line(c) = Advised(r)[position[c]] /\ Amounts(r)[position[c]] = m
    BY <1>1 DEF Line, Amounts, Applicable
  <1>3. o > 0 /\ o = openAmount[i]
    <2>1. Open(r, Advised(r)[position[c]]) > 0
      BY <1>1 DEF Applicable, Found
    <2>2. o = snapshot[r][i]
      BY <1>1 DEF Open
    <2> QED BY <1>1, <1>2, <2>1, <2>2 DEF UpToDate
  <1>4. ~(Abs(m - o) > Tolerance)
    BY <1>1, <1>2 DEF Unresolved
  <1>5. Cleared(i, s) = IF s <= openAmount[i] THEN s ELSE openAmount[i]
    BY DEF Cleared
  <1>6. 2 * s <= 2 * m + Cent /\ 2 * m <= 2 * s + Cent
    BY <1>1, CentsFit DEF Posted
  <1> HIDE DEF i, m, s, o
  <1>7. 2 * Abs(m - Cleared(i, s)) <= 2 * Tolerance + Cent
    BY <1>1, <1>3, <1>4, <1>5, <1>6 DEF Abs
  <1> QED BY <1>2, <1>7 DEF i, m, s, Slack

(* In the loop, each line that has been passed costs one tolerance and half *)
(* a cent.                                                                 *)
LEMMA LoopStep ==
  ASSUME OneByOne, ResumeInv, LeakInv, NEW c \in Calls, CallStep(c), NEW r \in Runs, run'[c] = r,
         pc'[c] = "cash.call", ~unresolved'[c], Trusted(r)'
  PROVE  /\ position'[c] <= Len(Advised(r)') + 1
         /\ \A n \in DOMAIN Advised(r)' : n >= position'[c] => UpToDate(r, n)'
         /\ 2 * Abs(Meant(r, position[c])' - credited'[c]) <= Slack * (position'[c] - 1)
  <1>t. /\ Control /\ ChannelTypes /\ AccountedInv /\ CallTypes
        /\ credited[c] \in Nat /\ position[c] \in Nat \ {0} /\ Slack \in Nat
        /\ openAmount \in [Items -> Nat]
    BY ConstantsAssumption DEF ResumeInv, CashInv, Control, Types, CallTypes, ErpTypes, Slack
  <1>a. ApplyBegin(c) \/ SkipLine(c) \/ ErpApplies(c) \/ ErpRefuses(c)
    BY <1>t, ArrivalStep DEF Arrives
  <1>r. /\ pc[c] \in {"apply_cash", "cash.call"} /\ run[c] = r
        /\ IsCovered(c, r) /\ IsPayer(c, r) /\ IsAccounted(c)
    <2>1. pc[c] \in {"apply_cash", "cash.call"}
      BY <1>a DEF ApplyBegin, SkipLine, ErpApplies, ErpRefuses, AtApplication
    <2>2. run[c] = r
      BY <1>t, <2>1, RunStep
    <2> QED BY <1>t, <2>1, <2>2 DEF LeakInv, ResumeInv, PayerInv, AccountedInv
  <1>n. next[r] \notin Early /\ remittance[r] # None
    BY <1>r, <1>t DEF Control, EarlyInv, IsEarly, At, ReadInv, Early, Cash
  <1>k. remittance'[r] = remittance[r] /\ snapshot'[r] = snapshot[r]
    BY <1>n, <1>t, DataStep DEF DataKept
  <1>v. /\ Advised(r)' = Advised(r) /\ Amounts(r)' = Amounts(r) /\ Applicable(r)' = Applicable(r)
        /\ NamedOnce(r)' <=> NamedOnce(r)
    BY <1>k, ViewKept
  <1>q. Trusted(r)
    <2>1. ~Queued(r)
      BY <1>t, QueuedStep DEF Trusted
    <2> QED BY <1>v, <2>1 DEF Trusted
  <1>d. DOMAIN Advised(r) = 1 .. Len(Advised(r)) /\ Len(Advised(r)) \in Nat
    BY <1>n, <1>t, AdvicesFit
  <1>s. Meant(r, position[c]) \in Nat /\ Meant(r, position[c] + 1) \in Nat
    BY <1>n, <1>t, AmountsFit
  <1> DEFINE Goal == /\ position'[c] <= Len(Advised(r)) + 1
                     /\ \A n \in DOMAIN Advised(r) : n >= position'[c] => UpToDate(r, n)'
                     /\ 2 * Abs(Meant(r, position'[c]) - credited'[c]) <= Slack * (position'[c] - 1)
  <1>1. ASSUME ApplyBegin(c) PROVE Goal
    <2>1. /\ pc[c] = "apply_cash" /\ position'[c] = 1
          /\ UNCHANGED <<openAmount, credited>>
      BY <1>1, <1>t DEF ApplyBegin, CallTypes, erpVars
    <2>2. credited'[c] = 0 /\ Meant(r, 1) = 0
      <3>1. ~applied[c]
        BY <2>1 DEF ResumeInv, PayerInv, Reading
      <3>2. credited[c] = 0
        BY <1>t, <3>1 DEF ResumeInv, QuietInv
      <3> QED BY <1>n, <1>t, <2>1, <3>2, AskedGrows
    <2>3. \A n \in DOMAIN Advised(r) : UpToDate(r, n)
      BY <1>q, <1>r, <2>1 DEF IsCovered, Trusted, Listing
    <2>4. \A n \in DOMAIN Advised(r) : UpToDate(r, n)'
      BY <1>k, <2>1, <2>3, <1>v DEF UpToDate
    <2>5. Slack * (1 - 1) = 0 /\ 2 * Abs(0 - 0) = 0
      BY <1>t DEF Abs
    <2> QED BY <1>d, <1>t, <2>1, <2>2, <2>4, <2>5
  <1>2. ASSUME SkipLine(c) PROVE Goal
    <2>1. /\ pc[c] = "cash.call" /\ unresolved' = unresolved
          /\ position[c] \in DOMAIN Advised(r) \ Applicable(r)
      BY <1>2, <1>r DEF SkipLine
    <2>2. ~Unresolved(r)
      BY <1>r, <2>1 DEF IsAccounted
    <2> QED BY <2>1, <2>2 DEF Unresolved
  <1>3. ASSUME ErpApplies(c) PROVE Goal
    <2> DEFINE p == position[c]
               i == Line(c).item
               a == Cleared(i, Posted(r, Line(c)))
    <2>1. AtApplication(c) /\ pc[c] = "cash.call" /\ p \in Applicable(r) /\ p \in DOMAIN Advised(r)
      BY <1>3, <1>r DEF ErpApplies, AtApplication, Applicable
    <2>2. /\ a \in Nat /\ credited'[c] = credited[c] + a /\ position'[c] = p + 1
          /\ unresolved' = unresolved /\ i \in Items
          /\ \A j \in Items \ {i} : openAmount'[j] = openAmount[j]
      BY <1>3, <1>r, <1>t, <2>1, ApplyStep, LineFits
    <2>3. /\ p <= Len(Advised(r)) + 1
          /\ \A n \in DOMAIN Advised(r) : n >= p => UpToDate(r, n)
          /\ 2 * Abs(Meant(r, p) - credited[c]) <= Slack * (p - 1)
      BY <1>q, <1>r, <2>1, <2>2 DEF IsCovered
    <2>4. ~Unresolved(r)
      BY <1>r, <2>1, <2>2 DEF IsAccounted
    <2>5. 2 * Abs(Amounts(r)[p] - a) <= Slack
      BY <1>r, <1>t, <2>1, <2>3, <2>4, ApplicationIsClose
    <2>6. Meant(r, p + 1) = Meant(r, p) + Amounts(r)[p] /\ Amounts(r)[p] \in Nat
      BY <1>n, <1>t, <2>1, AskedGrows, AmountsFit
    <2>7. ASSUME NEW n \in DOMAIN Advised(r), n >= p + 1 PROVE UpToDate(r, n)'
      <3>n. n \in Nat /\ p \in Nat
        BY <1>d, <1>t
      <3>p. n >= p /\ n # p
        BY <2>7, <3>n
      <3>1. UpToDate(r, n) /\ n # p
        BY <2>3, <3>p
      <3>2. Advised(r)[n].item # i
        BY <1>q, <1>r, <2>1, <3>1 DEF Trusted, NamedOnce, Line
      <3> HIDE DEF i
      <3> QED BY <1>k, <1>v, <2>2, <3>1, <3>2 DEF UpToDate
    <2> HIDE DEF a, i, p
    <2>8. p \in Nat \ {0}
      BY <1>t DEF p
    <2>9. Slack * (p - 1) + Slack = Slack * ((p + 1) - 1)
      BY <1>t, <2>8
    <2>10. Slack * (p - 1) \in Int /\ Slack * ((p + 1) - 1) \in Int
      BY <1>t, <2>8
    <2>11. Meant(r, p) \in Nat
      BY <1>s DEF p
    <2>12. 2 * Abs(Meant(r, p + 1) - credited'[c]) <= Slack * ((p + 1) - 1)
      <3> DEFINE x == Slack * (p - 1)
                 y == Slack * ((p + 1) - 1)
      <3>1. /\ x \in Int /\ y \in Int /\ x + Slack = y
            /\ 2 * Abs(Meant(r, p) - credited[c]) <= x
        BY <2>3, <2>9, <2>10
      <3> HIDE DEF x, y
      <3>2. 2 * Abs(Meant(r, p + 1) - credited'[c]) <= y
        BY <1>t, <2>2, <2>5, <2>6, <2>11, <3>1 DEF Abs
      <3> QED BY <3>2 DEF y
    <2>13. p + 1 <= Len(Advised(r)) + 1
      BY <1>d, <2>1, <2>8
    <2> QED BY <2>2, <2>7, <2>12, <2>13
  <1>4. ASSUME ErpRefuses(c) PROVE Goal
    <2>1. unresolved'[c] = TRUE
      BY <1>4, <1>t DEF ErpRefuses, CallTypes
    <2> QED BY <2>1
  <1>5. Goal
    BY <1>1, <1>2, <1>3, <1>4, <1>a
  <1> QED BY <1>5, <1>v DEF Meant, Passed

(* A call that reports without a case has passed every line.               *)
LEMMA ReportStep ==
  ASSUME OneByOne, ResumeInv, LeakInv, NEW c \in Calls, CallStep(c), NEW r \in Runs, run'[c] = r,
         pc'[c] = "cash.finish", Trusted(r)'
  PROVE  Tolerated(r, credited[c])'
  <1>t. /\ Control /\ ChannelTypes /\ AccountedInv /\ CallTypes
        /\ credited[c] \in Nat /\ position[c] \in Nat \ {0}
    BY DEF ResumeInv, CashInv, Control, Types, CallTypes, ErpTypes
  <1>a. SaveRemittance(c) \/ OpenCase(c)
    BY <1>t, ArrivalStep DEF Arrives
  <1>r. /\ pc[c] \in {"cash.call", "cash.open_case"} /\ run[c] = r
        /\ IsCovered(c, r) /\ IsAccounted(c)
    <2>1. pc[c] \in {"cash.call", "cash.open_case"}
      BY <1>a DEF SaveRemittance, OpenCase
    <2>2. run[c] = r
      BY <1>t, <2>1, RunStep
    <2> QED BY <1>t, <2>1, <2>2 DEF LeakInv, AccountedInv
  <1>n. next[r] \notin Early /\ remittance[r] # None
    BY <1>r, <1>t DEF Control, EarlyInv, IsEarly, At, ReadInv, Early, Cash
  <1>k. remittance'[r] = remittance[r] /\ snapshot'[r] = snapshot[r]
    BY <1>n, <1>t, DataStep DEF DataKept
  <1>v. /\ Advised(r)' = Advised(r) /\ Requested(r)' = Requested(r)
        /\ Unresolved(r)' <=> Unresolved(r)
        /\ NamedOnce(r)' <=> NamedOnce(r)
    BY <1>k, ViewKept
  <1>1. CASE OpenCase(c)
    <2>1. run'[c] = r /\ case'[c] = "open"
      BY <1>1, <1>t DEF OpenCase, CallTypes
    <2>2. Queued(r)'
      BY <2>1 DEF Queued
    <2> QED BY <2>2 DEF Trusted
  <1>2. CASE SaveRemittance(c)
    <2>1. /\ pc[c] = "cash.call" /\ position[c] > Len(Advised(r)) /\ ~unresolved[c]
          /\ UNCHANGED credited
      BY <1>2, <1>r, <1>t DEF SaveRemittance, Within, CallTypes, erpVars
    <2>2. Trusted(r)
      <3>1. ~Queued(r)
        BY <1>t, QueuedStep DEF Trusted
      <3> QED BY <1>v, <3>1 DEF Trusted
    <2>3. /\ position[c] <= Len(Advised(r)) + 1 /\ ~Unresolved(r)
          /\ 2 * Abs(Meant(r, position[c]) - credited[c]) <= Slack * (position[c] - 1)
      BY <1>r, <2>1, <2>2 DEF IsCovered, IsAccounted
    <2>4. Len(Advised(r)) \in Nat /\ DOMAIN Advised(r) = 1 .. Len(Advised(r))
      BY <1>n, <1>t, AdvicesFit
    <2>5. position[c] = Len(Advised(r)) + 1 /\ position[c] - 1 = Len(Advised(r))
      BY <1>t, <2>1, <2>3, <2>4
    <2>6. Passed(r, position[c]) = Applicable(r)
      <3>1. \A n \in Applicable(r) : n < position[c]
        BY <2>4, <2>5 DEF Applicable
      <3> QED BY <3>1 DEF Passed
    <2>7. 2 * Abs(Requested(r) - credited[c]) <= Slack * Len(Advised(r))
      BY <2>3, <2>5, <2>6 DEF Meant, Requested
    <2>8. Tolerated(r, credited[c])
      BY <2>3, <2>7 DEF Tolerated
    <2> QED BY <1>v, <2>1, <2>8 DEF Tolerated, Abs
  <1> QED BY <1>1, <1>2, <1>a

(* A completed run keeps the call that completed it, and what it cleared.  *)
LEMMA CompleteStep ==
  ASSUME OneByOne, ResumeInv, LeakInv, NEW c \in Calls, CallStep(c), NEW r \in Runs
  PROVE  IsComplete(r)'
  <1>t. /\ Control /\ ChannelTypes /\ CallTypes /\ PayerInv /\ OneActive
        /\ DOMAIN snapshot = Runs
    BY DEF ResumeInv, CashInv, Control, Types, ChannelTypes
  <1>c. IsComplete(r)
    BY DEF LeakInv
  <1>w. run'[c] \in Runs /\ status'[run'[c]] # "absent" /\ pc'[c] # "idle"
    BY <1>t, PlacedStep, RunStep DEF PlacedInv
  <1>f. \A d \in Calls \ {c} :
          run'[d] = run[d] /\ credited'[d] = credited[d] /\ applied'[d] = applied[d]
    BY <1>t, FrameStep DEF Same
  <1>1. ASSUME status'[r] = "absent" PROVE \A i \in Items : snapshot'[r][i] = 0
    <2>1. PICK q \in Runs : q = run'[c] /\ q # r
      BY <1>1, <1>w
    <2>2. snapshot'[r] = snapshot[r]
      BY <1>t, <2>1, ArrivalStep DEF Arrives
    <2>3. status[r] = "absent"
      BY <1>1, <1>t, StatusStep DEF StatusMoves
    <2> QED BY <1>c, <2>2, <2>3 DEF IsComplete
  <1>2. ASSUME NEW d \in Calls, run[d] = r, applied[d], ~ErpApplies(c),
               Trusted(r) => Tolerated(r, credited[d])
        PROVE  /\ run'[d] = r /\ applied'[d]
               /\ Trusted(r)' => Tolerated(r, credited[d])'
    <2>1. credited'[d] = credited[d] /\ applied'[d] = applied[d] /\ run'[d] = r
      <3>1. pc[d] # "idle"
        BY <1>2, <1>t DEF PayerInv
      <3>2. credited' = credited /\ applied' = applied
        BY <1>2, <1>t, ErpStep
      <3>3. CASE d = c
        BY <1>2, <1>t, <3>1, <3>2, <3>3, RunStep
      <3>4. CASE d # c
        BY <1>2, <1>f, <3>4
      <3> QED BY <3>3, <3>4
    <2>2. remittance'[r] = remittance[r] /\ snapshot'[r] = snapshot[r]
      BY <1>2, <1>t, DataStep DEF PayerInv, IsPayer, DataKept
    <2>3. /\ Advised(r)' = Advised(r) /\ Requested(r)' = Requested(r)
          /\ Unresolved(r)' <=> Unresolved(r)
          /\ NamedOnce(r)' <=> NamedOnce(r)
      BY <2>2, ViewKept
    <2>4. Trusted(r)' => Trusted(r)
      <3>1. Queued(r) => Queued(r)'
        BY <1>t, QueuedStep
      <3> QED BY <2>3, <3>1 DEF Trusted
    <2> QED BY <1>2, <2>1, <2>3, <2>4 DEF Tolerated, Abs
  <1>3. ASSUME status'[r] = "COMPLETED"
        PROVE  \E d \in Calls : /\ run'[d] = r /\ applied'[d]
                                /\ Trusted(r)' => Tolerated(r, credited[d])'
    <2>1. CASE status[r] = "COMPLETED"
      <3>1. PICK d \in Calls : /\ run[d] = r /\ applied[d]
                               /\ Trusted(r) => Tolerated(r, credited[d])
        BY <1>c, <2>1 DEF IsComplete
      <3>2. CASE ~ErpApplies(c)
        BY <1>2, <3>1, <3>2
      <3>3. CASE ErpApplies(c)
        <4>1. pc[c] = "cash.call"
          BY <3>3 DEF ErpApplies, AtApplication
        <4>2. PICK q \in Runs : q = run[c]
          BY <1>t, <4>1 DEF Control, PlacedInv
        <4>3. status[q] = "POSTING" /\ IsSole(c, q)
          BY <1>t, <4>1, <4>2 DEF PayerInv, IsPayer, Paying, Cash
        <4>4. q # r /\ d # c
          BY <2>1, <3>1, <4>2, <4>3
        <4>5. run'[d] = r /\ credited'[d] = credited[d] /\ applied'[d] = applied[d]
          BY <1>f, <3>1, <4>4
        <4>6. remittance' = remittance /\ snapshot' = snapshot
          BY <3>3 DEF ErpApplies, checkpointVars
        <4>7. /\ Advised(r)' = Advised(r) /\ Requested(r)' = Requested(r)
              /\ Unresolved(r)' <=> Unresolved(r)
              /\ NamedOnce(r)' <=> NamedOnce(r)
          BY <4>6, ViewKept
        <4>8. Trusted(r)' => Trusted(r)
          <5>1. Queued(r) => Queued(r)'
            BY <1>t, QueuedStep
          <5> QED BY <4>7, <5>1 DEF Trusted
        <4> QED BY <3>1, <4>5, <4>7, <4>8 DEF Tolerated, Abs
      <3> QED BY <3>2, <3>3
    <2>2. CASE status[r] # "COMPLETED"
      <3>1. run'[c] = r
        BY <1>3, <1>t, <2>2, MoveStep
      <3>2. Path(c, r)
        BY <1>t, <3>1, PathStep
      <3>3. pc[c] = "cash.finish" /\ applied[c]
        BY <1>3, <2>2, <3>2 DEF Path, Paying
      <3>4. run[c] = r /\ applied[c] /\ ~ErpApplies(c)
        BY <1>t, <3>1, <3>3, RunStep DEF ResumeInv, QuietInv, ErpApplies, AtApplication
      <3>5. Trusted(r) => Tolerated(r, credited[c])
        BY <3>3, <3>4 DEF LeakInv, IsCovered
      <3> QED BY <1>2, <3>4, <3>5
    <2> QED BY <2>1, <2>2
  <1> QED BY <1>1, <1>3 DEF IsComplete

(* Nothing has leaked at the beginning.                                    *)
LEMMA LeakStart ==
  ASSUME Init
  PROVE  LeakInv
  <1>1. \A c \in Calls, r \in Runs : run[c] # r
    BY ConstantsAssumption DEF Init
  <1>2. \A r \in Runs : IsComplete(r)
    BY DEF Init, IsComplete
  <1> QED BY <1>1, <1>2 DEF LeakInv

(* Every step keeps account of what leaks.                                 *)
LEMMA LeakStep ==
  ASSUME OneByOne, ResumeInv, LeakInv, [Next]_vars
  PROVE  LeakInv'
  <1>1. ASSUME NEW c \in Calls, CallStep(c) PROVE LeakInv'
    <2>t. Control /\ OneActive
      BY DEF ResumeInv, CashInv
    <2>1. ASSUME NEW d \in Calls, NEW r \in Runs, run'[d] = r PROVE IsCovered(d, r)'
      <3>1. CASE d = c
        <4>1. run'[c] = r
          BY <2>1, <3>1
        <4>2. /\ pc'[c] \in {"parse", "extract_remittance"} => \A i \in Items : snapshot'[r][i] = 0
              /\ pc'[c] \in Listing /\ ~Queued(r)' =>
                   \A n \in DOMAIN Advised(r)' : UpToDate(r, n)'
          BY <1>1, <4>1, SnapshotStep
        <4>3. pc'[c] = "cash.call" /\ ~unresolved'[c] /\ Trusted(r)' =>
                /\ position'[c] <= Len(Advised(r)') + 1
                /\ \A n \in DOMAIN Advised(r)' : n >= position'[c] => UpToDate(r, n)'
                /\ 2 * Abs(Meant(r, position[c])' - credited'[c]) <= Slack * (position'[c] - 1)
          BY <1>1, <4>1, LoopStep
        <4>4. pc'[c] = "cash.finish" /\ Trusted(r)' => Tolerated(r, credited[c])'
          BY <1>1, <4>1, ReportStep
        <4> QED BY <3>1, <4>2, <4>3, <4>4 DEF IsCovered
      <3>2. CASE d # c
        <4>1. pc'[d] \in {"idle", "done"}
          BY <1>1, <2>t, <3>2, OthersSleep, FrameStep DEF Same, Asleep
        <4> QED BY <4>1 DEF IsCovered, Listing
      <3> QED BY <3>1, <3>2
    <2>2. \A r \in Runs : IsComplete(r)'
      BY <1>1, CompleteStep
    <2> QED BY <2>1, <2>2 DEF LeakInv
  <1>2. ASSUME UNCHANGED vars PROVE LeakInv'
    <2> USE <1>2 DEF vars, runVars, checkpointVars, erpVars, callVars, localVars, tableVars
    <2>1. ASSUME NEW r \in Runs
          PROVE  /\ Advised(r)' = Advised(r) /\ Requested(r)' = Requested(r)
                 /\ Unresolved(r)' <=> Unresolved(r)
                 /\ Queued(r)' <=> Queued(r)
                 /\ Trusted(r)' <=> Trusted(r)
                 /\ \A p : Passed(r, p)' = Passed(r, p)
                 /\ Amounts(r)' = Amounts(r) /\ Applicable(r)' = Applicable(r)
      BY ViewKept DEF Queued, Trusted, Passed
    <2>2. ASSUME NEW r \in Runs, NEW c \in Calls, IsCovered(c, r) PROVE IsCovered(c, r)'
      BY <2>1, <2>2 DEF IsCovered, UpToDate, Tolerated, Meant, Passed, Abs
    <2>3. ASSUME NEW r \in Runs, IsComplete(r) PROVE IsComplete(r)'
      BY <2>1, <2>3 DEF IsComplete, Tolerated, Abs
    <2> QED BY <2>2, <2>3 DEF LeakInv
  <1> QED BY <1>1, <1>2, OneSteps DEF ResumeInv

(* The leak invariant holds in every reachable state: without a case, each *)
(* line a call has passed leaves at most one tolerance and half a cent     *)
(* uncleared.                                                              *)
THEOREM LeakInvariant ==
  ASSUME OneByOne
  PROVE  Spec => [](ResumeInv /\ LeakInv)
  <1>1. Init => ResumeInv /\ LeakInv
    BY ResumeStart, LeakStart
  <1>2. ResumeInv /\ LeakInv /\ [Next]_vars => ResumeInv' /\ LeakInv'
    BY ResumeStep, LeakStep
  <1> QED BY <1>1, <1>2, PTL DEF Spec

(* What two amounts differ by, by way of a third.                          *)
LEMMA AbsOfSum ==
  ASSUME NEW x \in Int, NEW y \in Int, NEW z \in Int
  PROVE  /\ Abs(x - y) \in Nat /\ Abs(y - z) \in Nat /\ Abs(x - z) \in Nat
         /\ Abs(x - z) <= Abs(x - y) + Abs(y - z)
  BY DEF Abs

(* What completes without a case is the declared money up to one tolerance *)
(* and half a cent for the total and as much for each line, if no two      *)
(* lines name one receivable; for any number of lines, any amounts finer   *)
(* or coarser than a cent, any tolerance, and however often a run is       *)
(* resumed.                                                                *)
THEOREM CompletedRunsLeakLittle ==
  ASSUME ~Concurrent, ~Timeouts, ~StatusLossy
  PROVE  Spec => []LeakBounded
  <1>1. ASSUME ResumeInv, LeakInv PROVE LeakBounded
    <2> SUFFICES ASSUME NEW r \in Runs, status[r] = "COMPLETED", Trusted(r)
                 PROVE  2 * Abs(Declared(r) - Credited(r)) <= Slack * (1 + Len(Advised(r)))
      BY DEF LeakBounded, Trusted, Slack
    <2> USE <1>1
    <2>1. PICK c \in Calls : run[c] = r /\ applied[c] /\ Tolerated(r, credited[c])
      BY DEF LeakInv, IsComplete
    <2>2. remittance[r] # None /\ credited[c] \in Nat /\ ChannelTypes
      BY <2>1 DEF ResumeInv, PayerInv, IsPayer, CashInv, Control, Types, ErpTypes
    <2>3. Requested(r) \in Nat
      BY <2>2, AmountsFit
    <2>4. Credited(r) = credited[c]
      BY <2>1, CreditedIsOnes
    <2>5. /\ Declared(r) \in Nat /\ Len(Advised(r)) \in Nat
          /\ Tolerance \in Nat /\ Cent \in Nat /\ Slack \in Nat
      BY <2>2, <2>3, AdvicesFit, ConstantsAssumption DEF Declared, Slack
    <2>6. 2 * Abs(Declared(r) - Requested(r)) <= Slack
      <3> DEFINE d == Abs(Declared(r) - Requested(r))
      <3>1. d \in Nat
        BY <2>3, <2>5 DEF Abs
      <3>2. ~(Cents(d) > Tolerance)
        BY <2>1 DEF Tolerated, Unresolved, Residual
      <3> HIDE DEF d
      <3>3. Cents(d) \in Nat /\ 2 * d <= 2 * Cents(d) + Cent
        BY <3>1, CentsFit
      <3>4. 2 * d <= Slack
        BY <2>5, <3>1, <3>2, <3>3 DEF Slack
      <3> QED BY <3>4 DEF d
    <2> DEFINE x == Slack * Len(Advised(r))
    <2>7. x \in Int /\ 2 * Abs(Requested(r) - credited[c]) <= x
      BY <2>1, <2>5 DEF Tolerated
    <2>8. Slack * (1 + Len(Advised(r))) = Slack + x
      BY <2>5
    <2> HIDE DEF x
    <2>9. 2 * Abs(Declared(r) - credited[c]) <= Slack + x
      <3>i. Declared(r) \in Int /\ Requested(r) \in Int /\ credited[c] \in Int
        BY <2>2, <2>3, <2>5
      <3>1. Abs(Declared(r) - credited[c])
              <= Abs(Declared(r) - Requested(r)) + Abs(Requested(r) - credited[c])
        BY <3>i, AbsOfSum
      <3>2. /\ Abs(Declared(r) - Requested(r)) \in Nat /\ Abs(Requested(r) - credited[c]) \in Nat
            /\ Abs(Declared(r) - credited[c]) \in Nat
        BY <3>i, AbsOfSum
      <3> QED BY <2>5, <2>6, <2>7, <3>1, <3>2
    <2> QED BY <2>4, <2>8, <2>9
  <1>2. OneByOne
    BY DEF OneByOne
  <1> QED BY <1>1, <1>2, LeakInvariant, PTL
=============================================================================
