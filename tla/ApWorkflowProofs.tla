-------------------------- MODULE ApWorkflowProofs --------------------------
(***************************************************************************)
(* The safety properties of ApWorkflow, for any number of runs, calls and  *)
(* invoices and under every fault.  IInv of ApInvariants is inductive; its *)
(* parts are preserved by a lemma each, which names the other parts it     *)
(* needs, and the properties follow from it.                               *)
(***************************************************************************)
EXTENDS ApInvariants, TLAPS

(* Setting an entry of a Boolean array to a negation keeps it Boolean:     *)
(* stated alone, because the solver loses it among the set-typed variables.*)
LEMMA NegatedEntry ==
  ASSUME NEW S, NEW f \in [S -> BOOLEAN], NEW s \in S, NEW x \in BOOLEAN
  PROVE  [f EXCEPT ![s] = ~x] \in [S -> BOOLEAN]
  <1>1. (~x) \in BOOLEAN
    OBVIOUS
  <1> QED BY <1>1

(* A journal's reference is an ERP key: one of the shared references or the *)
(* run's own.                                                              *)
LEMMA ReferenceType ==
  ASSUME TypeOK, NEW r \in Runs
  PROVE  JournalReference(invoice[r], r) \in References \cup Runs
  BY ConstantsAssumption DEF ConstantsAssumption, JournalReference, TypeOK

(***************************************************************************)
(* Type correctness is preserved.  StartedInv gives the range of run[d].   *)
(***************************************************************************)
LEMMA TypeStep ==
  ASSUME TypeOK, StartedInv, [Next]_vars
  PROVE  TypeOK'
  <1> USE DEF TypeOK, StartedInv, Started, Idle, Statuses, RunOrNone, Points,
     Nodes, PreMatchNodes, InsideException, InsidePosting, SetStatus, Return,
     Within, vars, runVars, caseVars, tableVars, channelVars, checkpointVars,
     erpVars, callVars, localVars
  <1>1. ASSUME NEW d \in Drivers, Drive(d) PROVE TypeOK'
    <2>1. CASE Parse(d)
      BY <2>1, SMTT(30) DEF Parse
    <2>2. CASE ExtractInvoice(d)
      <3>1. runStatus' \in [Runs -> Statuses]
        BY <2>2 DEF ExtractInvoice
      <3>2. invoice' \in [Runs -> Invoices \cup {NoInvoice}]
        BY <2>2 DEF ExtractInvoice
      <3>3. next' \in [Runs -> Nodes \cup {"END"}]
        BY <2>2 DEF ExtractInvoice
      <3>4. pc' \in [Drivers -> Points \cup {"idle", "gate", "load", "done"}]
        BY <2>2 DEF ExtractInvoice
      <3> QED BY <2>2, <3>1, <3>2, <3>3, <3>4 DEF ExtractInvoice
    <2>3. CASE PersistInvoice(d)
      BY <2>3 DEF PersistInvoice
    <2>4. CASE DuplicateCheck(d)
      BY <2>4 DEF DuplicateCheck
    <2>5. CASE ResolveVendor(d)
      BY <2>5 DEF ResolveVendor
    <2>6. CASE FetchPo(d)
      BY <2>6 DEF FetchPo
    <2>7. CASE MatchBegin(d)
      BY <2>7 DEF MatchBegin
    <2>8. CASE MatchSave(d)
      BY <2>8 DEF MatchSave, RouteAfterMatch
    <2>9. CASE RaiseCase(d)
      BY <2>9 DEF RaiseCase
    <2>10. CASE AwaitApproval(d)
      BY <2>10 DEF AwaitApproval
    <2>11. CASE ResolveCase(d)
      BY <2>11 DEF ResolveCase
    <2>12. CASE RouteAfterApproval(d)
      BY <2>12 DEF RouteAfterApproval
    <2>13. CASE PostBegin(d)
      BY <2>13 DEF PostBegin
    <2>14. CASE RefuseUnbalanced(d)
      BY <2>14 DEF RefuseUnbalanced
    <2>15. CASE ErpAnswers(d)
      BY <2>15 DEF ErpAnswers
    <2>16. CASE ErpErrors(d)
      BY <2>16 DEF ErpErrors
    <2>17. CASE ErpTimesOut(d)
      <3>1. pc' \in [Drivers -> Points \cup {"idle", "gate", "load", "done"}]
        BY <2>17 DEF ErpTimesOut
      <3>2. attempt' \in [Drivers -> 1..MaxAttempts]
        BY <2>17, ConstantsAssumption DEF ConstantsAssumption, ErpTimesOut
      <3> QED BY <2>17, <3>1, <3>2 DEF ErpTimesOut
    <2>18. CASE SavePosted(d)
      BY <2>18, SMTT(30) DEF SavePosted, SaveJournal
    <2>19. CASE Complete(d)
      <3>1. /\ straightThrough \in [Runs -> BOOLEAN]
            /\ run[d] \in Runs /\ caseSeen[d] \in BOOLEAN
        BY <2>19 DEF Complete
      <3>2. [straightThrough EXCEPT ![run[d]] = ~caseSeen[d]] \in [Runs -> BOOLEAN]
        BY ONLY <3>1, NegatedEntry
      <3>3. straightThrough' \in [Runs -> BOOLEAN]
        <4>1. \/ straightThrough' = [straightThrough EXCEPT ![run[d]] = ~caseSeen[d]]
              \/ straightThrough' = straightThrough
          BY ONLY <2>19 DEF Complete, runVars
        <4> QED BY ONLY <3>1, <3>2, <4>1
      <3> QED BY <2>19, <3>3, SMTT(30) DEF Complete
    <2>20. CASE SaveFailed(d)
      <3>1. pc' \in [Drivers -> Points \cup {"idle", "gate", "load", "done"}]
        BY <2>20 DEF SaveFailed, SaveJournal
      <3>2. journal' \in [Runs -> {"none", "posted", "failed"}]
        BY <2>20, ConstantsAssumption DEF ConstantsAssumption, SaveFailed, SaveJournal
      <3> QED BY <2>20, <3>1, <3>2 DEF SaveFailed, SaveJournal
    <2>21. CASE OpenPostingCase(d)
      BY <2>21 DEF OpenPostingCase
    <2>22. CASE MarkFailed(d)
      BY <2>22 DEF MarkFailed
    <2>23. CASE Rejected(d)
      BY <2>23 DEF Rejected
    <2>24. CASE Failed(d)
      BY <2>24 DEF Failed
    <2>25. CASE EndThread(d)
      BY <2>25 DEF EndThread
    <2>26. CASE ResumeGate(d)
      BY <2>26 DEF ResumeGate
    <2>27. CASE LoadCheckpoint(d)
      BY <2>27 DEF LoadCheckpoint
    <2> QED BY <1>1, <2>1, <2>2, <2>3, <2>4, <2>5, <2>6, <2>7, <2>8, <2>9,
       <2>10, <2>11, <2>12, <2>13, <2>14, <2>15, <2>16, <2>17, <2>18, <2>19,
       <2>20, <2>21, <2>22, <2>23, <2>24, <2>25, <2>26, <2>27 DEF Drive
  <1>2. ASSUME NEW d \in Drivers, ErpProcessesLate(d) PROVE TypeOK'
    BY <1>2 DEF ErpProcessesLate
  <1>3. ASSUME NEW d \in Drivers, Abort(d) PROVE TypeOK'
    BY <1>3 DEF Abort
  <1>4. ASSUME NEW d \in Drivers, NEW r \in Runs, StartRun(d, r) PROVE TypeOK'
    BY <1>4 DEF StartRun
  <1>5. ASSUME NEW d \in Drivers, NEW r \in Runs, ReleaseRun(d, r) PROVE TypeOK'
    BY <1>5 DEF ReleaseRun, Call
  <1>6. ASSUME NEW d \in Drivers, NEW c \in Drivers, DecideException(d, c) PROVE TypeOK'
    BY <1>6 DEF DecideException, Call
  <1>7. ASSUME NEW ref \in References, PostDirect(ref) PROVE TypeOK'
    BY <1>7 DEF PostDirect
  <1>8. CASE UNCHANGED vars
    BY <1>8
  <1> QED BY <1>1, <1>2, <1>3, <1>4, <1>5, <1>6, <1>7, <1>8 DEF Next

(***************************************************************************)
(* The control part of the invariant is preserved: it needs nothing but    *)
(* itself, so no fault and no overlap can give a run two drivers before    *)
(* the match.                                                              *)
(***************************************************************************)
LEMMA ControlStep ==
  ASSUME TypeOK, ControlInv, [Next]_vars
  PROVE  ControlInv'
  <1> USE DEF TypeOK, ControlInv, StartedInv, Started, Idle, FreshInv, Fresh,
     UntouchedInv, AloneInv, Resumable, Statuses, RunOrNone, Points, Nodes,
     PreMatchNodes, InsideException, InsidePosting, SetStatus, Return, Within,
     vars, runVars, caseVars, tableVars, channelVars, checkpointVars, erpVars,
     callVars, localVars
  <1>1. ASSUME NEW d \in Drivers, Drive(d) PROVE ControlInv'
    <2>1. CASE Parse(d)
      <3>1. StartedInv'
        BY <2>1 DEF Parse
      <3>2. FreshInv'
        BY <2>1 DEF Parse
      <3>3. UntouchedInv'
        BY <2>1 DEF Parse
      <3>4. AloneInv'
        BY <2>1 DEF Parse
      <3> QED BY <3>1, <3>2, <3>3, <3>4
    <2>2. CASE ExtractInvoice(d)
      <3>1. StartedInv'
        BY <2>2 DEF ExtractInvoice
      <3>2. FreshInv'
        BY <2>2 DEF ExtractInvoice
      <3>3. UntouchedInv'
        BY <2>2 DEF ExtractInvoice
      <3>4. AloneInv'
        BY <2>2 DEF ExtractInvoice
      <3> QED BY <3>1, <3>2, <3>3, <3>4
    <2>3. CASE PersistInvoice(d)
      BY <2>3 DEF PersistInvoice
    <2>4. CASE DuplicateCheck(d)
      BY <2>4 DEF DuplicateCheck
    <2>5. CASE ResolveVendor(d)
      BY <2>5 DEF ResolveVendor
    <2>6. CASE FetchPo(d)
      BY <2>6 DEF FetchPo
    <2>7. CASE MatchBegin(d)
      <3>1. StartedInv'
        BY <2>7 DEF MatchBegin
      <3>2. FreshInv'
        BY <2>7 DEF MatchBegin
      <3>3. UntouchedInv'
        BY <2>7 DEF MatchBegin
      <3>4. AloneInv'
        BY <2>7 DEF MatchBegin
      <3> QED BY <3>1, <3>2, <3>3, <3>4
    <2>8. CASE MatchSave(d)
      BY <2>8 DEF MatchSave, RouteAfterMatch
    <2>9. CASE RaiseCase(d)
      BY <2>9 DEF RaiseCase
    <2>10. CASE AwaitApproval(d)
      <3>1. StartedInv'
        BY <2>10 DEF AwaitApproval
      <3>2. FreshInv'
        BY <2>10 DEF AwaitApproval
      <3>3. UntouchedInv'
        BY <2>10 DEF AwaitApproval
      <3>4. AloneInv'
        BY <2>10 DEF AwaitApproval
      <3> QED BY <3>1, <3>2, <3>3, <3>4
    <2>11. CASE ResolveCase(d)
      BY <2>11 DEF ResolveCase
    <2>12. CASE RouteAfterApproval(d)
      BY <2>12 DEF RouteAfterApproval
    <2>13. CASE PostBegin(d)
      <3>1. StartedInv'
        BY <2>13 DEF PostBegin
      <3>2. FreshInv'
        BY <2>13 DEF PostBegin
      <3>3. UntouchedInv'
        BY <2>13 DEF PostBegin
      <3>4. AloneInv'
        BY <2>13 DEF PostBegin
      <3> QED BY <3>1, <3>2, <3>3, <3>4
    <2>14. CASE RefuseUnbalanced(d)
      BY <2>14 DEF RefuseUnbalanced
    <2>15. CASE ErpAnswers(d)
      BY <2>15 DEF ErpAnswers
    <2>16. CASE ErpErrors(d)
      BY <2>16 DEF ErpErrors
    <2>17. CASE ErpTimesOut(d)
      BY <2>17 DEF ErpTimesOut
    <2>18. CASE SavePosted(d)
      <3>1. StartedInv'
        BY <2>18 DEF SavePosted, SaveJournal
      <3>2. FreshInv'
        BY <2>18 DEF SavePosted, SaveJournal
      <3>3. UntouchedInv'
        BY <2>18 DEF SavePosted, SaveJournal
      <3>4. AloneInv'
        BY <2>18 DEF SavePosted, SaveJournal
      <3> QED BY <3>1, <3>2, <3>3, <3>4
    <2>19. CASE Complete(d)
      BY <2>19 DEF Complete
    <2>20. CASE SaveFailed(d)
      BY <2>20 DEF SaveFailed, SaveJournal
    <2>21. CASE OpenPostingCase(d)
      BY <2>21 DEF OpenPostingCase
    <2>22. CASE MarkFailed(d)
      BY <2>22 DEF MarkFailed
    <2>23. CASE Rejected(d)
      BY <2>23 DEF Rejected
    <2>24. CASE Failed(d)
      BY <2>24 DEF Failed
    <2>25. CASE EndThread(d)
      BY <2>25 DEF EndThread
    <2>26. CASE ResumeGate(d)
      BY <2>26 DEF ResumeGate
    <2>27. CASE LoadCheckpoint(d)
      <3>1. StartedInv'
        BY <2>27, SMTT(20) DEF LoadCheckpoint
      <3>2. FreshInv'
        BY <2>27 DEF LoadCheckpoint
      <3>3. UntouchedInv'
        BY <2>27 DEF LoadCheckpoint
      <3>4. AloneInv'
        BY <2>27 DEF LoadCheckpoint
      <3> QED BY <3>1, <3>2, <3>3, <3>4
    <2> QED BY <1>1, <2>1, <2>2, <2>3, <2>4, <2>5, <2>6, <2>7, <2>8, <2>9,
       <2>10, <2>11, <2>12, <2>13, <2>14, <2>15, <2>16, <2>17, <2>18, <2>19,
       <2>20, <2>21, <2>22, <2>23, <2>24, <2>25, <2>26, <2>27 DEF Drive
  <1>2. ASSUME NEW d \in Drivers, ErpProcessesLate(d) PROVE ControlInv'
    BY <1>2 DEF ErpProcessesLate
  <1>3. ASSUME NEW d \in Drivers, Abort(d) PROVE ControlInv'
    <2>1. StartedInv'
      BY <1>3 DEF Abort, Active
    <2>2. FreshInv'
      BY <1>3 DEF Abort, Active
    <2>3. UntouchedInv'
      BY <1>3 DEF Abort, Active
    <2>4. AloneInv'
      BY <1>3 DEF Abort, Active
    <2> QED BY <2>1, <2>2, <2>3, <2>4
  <1>4. ASSUME NEW d \in Drivers, NEW r \in Runs, StartRun(d, r) PROVE ControlInv'
    BY <1>4 DEF StartRun
  <1>5. ASSUME NEW d \in Drivers, NEW r \in Runs, ReleaseRun(d, r) PROVE ControlInv'
    BY <1>5 DEF ReleaseRun, Call
  <1>6. ASSUME NEW d \in Drivers, NEW c \in Drivers, DecideException(d, c) PROVE ControlInv'
    BY <1>6 DEF DecideException, Call
  <1>7. ASSUME NEW ref \in References, PostDirect(ref) PROVE ControlInv'
    BY <1>7 DEF PostDirect
  <1>8. CASE UNCHANGED vars
    BY <1>8
  <1> QED BY <1>1, <1>2, <1>3, <1>4, <1>5, <1>6, <1>7, <1>8 DEF Next

(***************************************************************************)
(* What the nodes before the match wrote is preserved.  NoTwinInv is the   *)
(* heart: when a run looks for duplicates it has committed its own row,    *)
(* and whoever looked before it had committed theirs.                      *)
(***************************************************************************)
LEMMA DataStep ==
  ASSUME TypeOK, ControlInv, DataInv, [Next]_vars
  PROVE  DataInv'
  <1> USE DEF TypeOK, ControlInv, StartedInv, Started, Idle, FreshInv, Fresh,
     UntouchedInv, AloneInv, DataInv, InvoiceInv, CheckedInv, NoTwinInv,
     VerdictInv, Postable, Registered, AfterCheck, Statuses, RunOrNone, Points,
     Nodes, PreMatchNodes, InsideException, InsidePosting, SetStatus, Return,
     Within, vars, runVars, caseVars, tableVars, channelVars, checkpointVars,
     erpVars, callVars, localVars
  <1>1. ASSUME NEW d \in Drivers, Drive(d) PROVE DataInv'
    <2>1. CASE Parse(d)
      BY <2>1 DEF Parse
    <2>2. CASE ExtractInvoice(d)
      <3>1. /\ run[d] \in Runs /\ duplicate[run[d]] = "unchecked"
            /\ matchRow[run[d]] = "none" /\ invoiceRow[run[d]] = NoInvoice
        BY <2>2 DEF ExtractInvoice
      <3>2. /\ next'[run[d]] \in {"persist_invoice", "failed"}
            /\ pc'[d] \in {"persist_invoice", "failed"}
            /\ next'[run[d]] = "persist_invoice" => invoice'[run[d]] \in Invoices
            /\ \A r \in Runs : r # run[d] => /\ next'[r] = next[r]
                                           /\ invoice'[r] = invoice[r]
            /\ \A e \in Drivers : e # d => pc'[e] = pc[e]
            /\ UNCHANGED <<duplicate, vendor, order, invoiceRow, matchRow, run>>
        BY <2>2, <3>1 DEF ExtractInvoice
      <3>3. \A e \in Drivers : run[e] = run[d] => pc[e] \in PreMatchNodes \cup {"gate", "done"}
        BY <2>2, <3>1, ConstantsAssumption DEF ExtractInvoice, ConstantsAssumption
      <3>4. InvoiceInv'
        BY <3>1, <3>2
      <3>5. CheckedInv'
        BY <3>1, <3>2, <3>3
      <3>6. NoTwinInv'
        BY <3>1, <3>2
      <3>7. VerdictInv'
        BY <3>1, <3>2
      <3> QED BY <3>4, <3>5, <3>6, <3>7
    <2>3. CASE PersistInvoice(d)
      BY <2>3 DEF PersistInvoice
    <2>4. CASE DuplicateCheck(d)
      <3>1. /\ run[d] \in Runs /\ duplicate[run[d]] = "unchecked"
            /\ matchRow[run[d]] = "none"
            /\ invoice[run[d]] \in Invoices
            /\ invoiceRow[run[d]] = invoice[run[d]]
        BY <2>4 DEF DuplicateCheck
      <3>2. InvoiceInv' /\ CheckedInv'
        BY <2>4, <3>1 DEF DuplicateCheck
      <3>3. VerdictInv'
        BY <2>4, <3>1 DEF DuplicateCheck
      <3>4. ASSUME NEW r \in Runs, NEW s \in Runs, r # s,
                   duplicate'[r] = "no", duplicate'[s] = "no"
            PROVE  FingerprintOf[invoice[r]] # FingerprintOf[invoice[s]]
        <4>1. ASSUME NEW t \in Runs, t # run[d], duplicate[t] = "no",
                     duplicate'[run[d]] = "no"
              PROVE  FingerprintOf[invoice[t]] # FingerprintOf[invoice[run[d]]]
          <5>1. ~SameFingerprint(invoice[run[d]], t)
            BY <2>4, <3>1, <4>1 DEF DuplicateCheck
          <5>2. invoiceRow[t] = invoice[t] /\ invoice[t] \in Invoices
            BY <4>1
          <5> QED BY <5>1, <5>2, ConstantsAssumption
                  DEF SameFingerprint, ConstantsAssumption
        <4>2. \A t \in Runs : t # run[d] => duplicate'[t] = duplicate[t]
          BY <2>4, <3>1 DEF DuplicateCheck
        <4> QED BY <3>4, <4>1, <4>2
      <3>5. NoTwinInv'
        BY <2>4, <3>4 DEF DuplicateCheck
      <3> QED BY <3>2, <3>3, <3>5
    <2>5. CASE ResolveVendor(d)
      BY <2>5 DEF ResolveVendor
    <2>6. CASE FetchPo(d)
      BY <2>6 DEF FetchPo
    <2>7. CASE MatchBegin(d)
      BY <2>7 DEF MatchBegin
    <2>8. CASE MatchSave(d)
      BY <2>8 DEF MatchSave, RouteAfterMatch
    <2>9. CASE RaiseCase(d)
      BY <2>9 DEF RaiseCase
    <2>10. CASE AwaitApproval(d)
      BY <2>10 DEF AwaitApproval
    <2>11. CASE ResolveCase(d)
      BY <2>11 DEF ResolveCase
    <2>12. CASE RouteAfterApproval(d)
      BY <2>12 DEF RouteAfterApproval
    <2>13. CASE PostBegin(d)
      BY <2>13 DEF PostBegin
    <2>14. CASE RefuseUnbalanced(d)
      BY <2>14 DEF RefuseUnbalanced
    <2>15. CASE ErpAnswers(d)
      BY <2>15 DEF ErpAnswers
    <2>16. CASE ErpErrors(d)
      BY <2>16 DEF ErpErrors
    <2>17. CASE ErpTimesOut(d)
      BY <2>17 DEF ErpTimesOut
    <2>18. CASE SavePosted(d)
      BY <2>18 DEF SavePosted, SaveJournal
    <2>19. CASE Complete(d)
      BY <2>19 DEF Complete
    <2>20. CASE SaveFailed(d)
      BY <2>20 DEF SaveFailed, SaveJournal
    <2>21. CASE OpenPostingCase(d)
      BY <2>21 DEF OpenPostingCase
    <2>22. CASE MarkFailed(d)
      BY <2>22 DEF MarkFailed
    <2>23. CASE Rejected(d)
      BY <2>23 DEF Rejected
    <2>24. CASE Failed(d)
      BY <2>24 DEF Failed
    <2>25. CASE EndThread(d)
      BY <2>25 DEF EndThread
    <2>26. CASE ResumeGate(d)
      BY <2>26 DEF ResumeGate
    <2>27. CASE LoadCheckpoint(d)
      BY <2>27 DEF LoadCheckpoint
    <2> QED BY <1>1, <2>1, <2>2, <2>3, <2>4, <2>5, <2>6, <2>7, <2>8, <2>9,
       <2>10, <2>11, <2>12, <2>13, <2>14, <2>15, <2>16, <2>17, <2>18, <2>19,
       <2>20, <2>21, <2>22, <2>23, <2>24, <2>25, <2>26, <2>27 DEF Drive
  <1>2. ASSUME NEW d \in Drivers, ErpProcessesLate(d) PROVE DataInv'
    BY <1>2 DEF ErpProcessesLate
  <1>3. ASSUME NEW d \in Drivers, Abort(d) PROVE DataInv'
    BY <1>3 DEF Abort
  <1>4. ASSUME NEW d \in Drivers, NEW r \in Runs, StartRun(d, r) PROVE DataInv'
    BY <1>4 DEF StartRun
  <1>5. ASSUME NEW d \in Drivers, NEW r \in Runs, ReleaseRun(d, r) PROVE DataInv'
    BY <1>5 DEF ReleaseRun, Call
  <1>6. ASSUME NEW d \in Drivers, NEW c \in Drivers, DecideException(d, c) PROVE DataInv'
    BY <1>6 DEF DecideException, Call
  <1>7. ASSUME NEW ref \in References, PostDirect(ref) PROVE DataInv'
    BY <1>7 DEF PostDirect
  <1>8. CASE UNCHANGED vars
    BY <1>8
  <1> QED BY <1>1, <1>2, <1>3, <1>4, <1>5, <1>6, <1>7, <1>8 DEF Next

(***************************************************************************)
(* An approval is recorded by the driver that carried it, stays recorded,  *)
(* and concerns a registered run.                                          *)
(***************************************************************************)
LEMMA CaseStep ==
  ASSUME TypeOK, ControlInv, DataInv, CaseInv, [Next]_vars
  PROVE  CaseInv'
  <1> USE DEF TypeOK, ControlInv, StartedInv, Started, Idle, FreshInv, Fresh,
     UntouchedInv, AloneInv, DataInv, InvoiceInv, CheckedInv, Registered,
     AfterCheck, CaseInv, Points, Nodes, PreMatchNodes, InsideException,
     InsidePosting, SetStatus, Return, Within, vars, runVars, caseVars,
     tableVars, channelVars, checkpointVars, erpVars, callVars, localVars
  <1>1. ASSUME NEW d \in Drivers, Drive(d) PROVE CaseInv'
    <2>1. CASE Parse(d)
      BY <2>1 DEF Parse
    <2>2. CASE ExtractInvoice(d)
      BY <2>2 DEF ExtractInvoice
    <2>3. CASE PersistInvoice(d)
      BY <2>3 DEF PersistInvoice
    <2>4. CASE DuplicateCheck(d)
      BY <2>4 DEF DuplicateCheck
    <2>5. CASE ResolveVendor(d)
      BY <2>5 DEF ResolveVendor
    <2>6. CASE FetchPo(d)
      BY <2>6 DEF FetchPo
    <2>7. CASE MatchBegin(d)
      BY <2>7 DEF MatchBegin
    <2>8. CASE MatchSave(d)
      BY <2>8 DEF MatchSave, RouteAfterMatch
    <2>9. CASE RaiseCase(d)
      BY <2>9 DEF RaiseCase
    <2>10. CASE AwaitApproval(d)
      BY <2>10 DEF AwaitApproval
    <2>11. CASE ResolveCase(d)
      BY <2>11 DEF ResolveCase
    <2>12. CASE RouteAfterApproval(d)
      BY <2>12 DEF RouteAfterApproval
    <2>13. CASE PostBegin(d)
      BY <2>13 DEF PostBegin
    <2>14. CASE RefuseUnbalanced(d)
      BY <2>14 DEF RefuseUnbalanced
    <2>15. CASE ErpAnswers(d)
      BY <2>15 DEF ErpAnswers
    <2>16. CASE ErpErrors(d)
      BY <2>16 DEF ErpErrors
    <2>17. CASE ErpTimesOut(d)
      BY <2>17 DEF ErpTimesOut
    <2>18. CASE SavePosted(d)
      BY <2>18 DEF SavePosted, SaveJournal
    <2>19. CASE Complete(d)
      BY <2>19 DEF Complete
    <2>20. CASE SaveFailed(d)
      BY <2>20 DEF SaveFailed, SaveJournal
    <2>21. CASE OpenPostingCase(d)
      BY <2>21 DEF OpenPostingCase
    <2>22. CASE MarkFailed(d)
      BY <2>22 DEF MarkFailed
    <2>23. CASE Rejected(d)
      BY <2>23 DEF Rejected
    <2>24. CASE Failed(d)
      BY <2>24 DEF Failed
    <2>25. CASE EndThread(d)
      BY <2>25 DEF EndThread
    <2>26. CASE ResumeGate(d)
      BY <2>26 DEF ResumeGate
    <2>27. CASE LoadCheckpoint(d)
      BY <2>27 DEF LoadCheckpoint
    <2> QED BY <1>1, <2>1, <2>2, <2>3, <2>4, <2>5, <2>6, <2>7, <2>8, <2>9,
       <2>10, <2>11, <2>12, <2>13, <2>14, <2>15, <2>16, <2>17, <2>18, <2>19,
       <2>20, <2>21, <2>22, <2>23, <2>24, <2>25, <2>26, <2>27 DEF Drive
  <1>2. ASSUME NEW d \in Drivers, ErpProcessesLate(d) PROVE CaseInv'
    BY <1>2 DEF ErpProcessesLate
  <1>3. ASSUME NEW d \in Drivers, Abort(d) PROVE CaseInv'
    BY <1>3 DEF Abort
  <1>4. ASSUME NEW d \in Drivers, NEW r \in Runs, StartRun(d, r) PROVE CaseInv'
    BY <1>4 DEF StartRun
  <1>5. ASSUME NEW d \in Drivers, NEW r \in Runs, ReleaseRun(d, r) PROVE CaseInv'
    BY <1>5 DEF ReleaseRun, Call
  <1>6. ASSUME NEW d \in Drivers, NEW c \in Drivers, DecideException(d, c) PROVE CaseInv'
    BY <1>6 DEF DecideException, Call
  <1>7. ASSUME NEW ref \in References, PostDirect(ref) PROVE CaseInv'
    BY <1>7 DEF PostDirect
  <1>8. CASE UNCHANGED vars
    BY <1>8
  <1> QED BY <1>1, <1>2, <1>3, <1>4, <1>5, <1>6, <1>7, <1>8 DEF Next

(***************************************************************************)
(* Whoever is about to pay, has a request on its way to the ERP, or is in  *)
(* the ERP's books, is authorised.                                         *)
(***************************************************************************)
LEMMA AuthorisedStep ==
  ASSUME TypeOK, StartedInv, VerdictInv, CaseInv, AuthorisedInv, [Next]_vars
  PROVE  AuthorisedInv'
  <1> USE DEF TypeOK, StartedInv, Started, Idle, AuthorisedInv, Authorised,
     Approved, PaymentAuthorised, AtPosting, Points, Nodes, PreMatchNodes,
     InsideException, InsidePosting, SetStatus, Return, Within, vars, runVars,
     caseVars, tableVars, channelVars, checkpointVars, erpVars, callVars,
     localVars
  <1>1. ASSUME NEW d \in Drivers, Drive(d) PROVE AuthorisedInv'
    <2>1. CASE Parse(d)
      BY <2>1 DEF Parse
    <2>2. CASE ExtractInvoice(d)
      <3>1. (\A r \in Runs : next[r] = "post_journal" => Authorised(r))'
        BY <2>2 DEF ExtractInvoice
      <3>2. (\A e \in Drivers :
               pc[e] \in AtPosting \/ e \in inFlight => Authorised(run[e]))'
        BY <2>2 DEF ExtractInvoice
      <3>3. PaymentAuthorised'
        BY <2>2 DEF ExtractInvoice
      <3> QED BY <3>1, <3>2, <3>3
    <2>3. CASE PersistInvoice(d)
      <3>1. (\A r \in Runs : next[r] = "post_journal" => Authorised(r))'
        BY <2>3 DEF PersistInvoice
      <3>2. (\A e \in Drivers :
               pc[e] \in AtPosting \/ e \in inFlight => Authorised(run[e]))'
        BY <2>3 DEF PersistInvoice
      <3>3. PaymentAuthorised'
        BY <2>3 DEF PersistInvoice
      <3> QED BY <3>1, <3>2, <3>3
    <2>4. CASE DuplicateCheck(d)
      BY <2>4 DEF DuplicateCheck
    <2>5. CASE ResolveVendor(d)
      BY <2>5 DEF ResolveVendor
    <2>6. CASE FetchPo(d)
      <3>1. (\A r \in Runs : next[r] = "post_journal" => Authorised(r))'
        BY <2>6 DEF FetchPo
      <3>2. (\A e \in Drivers :
               pc[e] \in AtPosting \/ e \in inFlight => Authorised(run[e]))'
        BY <2>6 DEF FetchPo
      <3>3. PaymentAuthorised'
        BY <2>6 DEF FetchPo
      <3> QED BY <3>1, <3>2, <3>3
    <2>7. CASE MatchBegin(d)
      BY <2>7 DEF MatchBegin
    <2>8. CASE MatchSave(d)
      BY <2>8 DEF MatchSave, VerdictInv, Postable, RouteAfterMatch
    <2>9. CASE RaiseCase(d)
      BY <2>9 DEF RaiseCase, CaseInv
    <2>10. CASE AwaitApproval(d)
      BY <2>10 DEF AwaitApproval
    <2>11. CASE ResolveCase(d)
      <3>1. (\A r \in Runs : next[r] = "post_journal" => Authorised(r))'
        BY <2>11 DEF ResolveCase, CaseInv
      <3>2. (\A e \in Drivers :
               pc[e] \in AtPosting \/ e \in inFlight => Authorised(run[e]))'
        BY <2>11 DEF ResolveCase, CaseInv
      <3>3. PaymentAuthorised'
        BY <2>11 DEF ResolveCase, CaseInv
      <3> QED BY <3>1, <3>2, <3>3
    <2>12. CASE RouteAfterApproval(d)
      BY <2>12 DEF RouteAfterApproval, CaseInv
    <2>13. CASE PostBegin(d)
      BY <2>13 DEF PostBegin
    <2>14. CASE RefuseUnbalanced(d)
      BY <2>14 DEF RefuseUnbalanced
    <2>15. CASE ErpAnswers(d)
      <3>1. (\A r \in Runs : next[r] = "post_journal" => Authorised(r))'
        BY <2>15 DEF ErpAnswers
      <3>2. (\A e \in Drivers :
               pc[e] \in AtPosting \/ e \in inFlight => Authorised(run[e]))'
        BY <2>15 DEF ErpAnswers
      <3>3. \A ref \in References \cup Runs :
              erpDoc'[ref] = erpDoc[ref] \/ erpDoc'[ref] = run[d]
        BY <2>15, ReferenceType DEF ErpAnswers
      <3>4. Authorised(run[d]) /\ UNCHANGED <<matchRow, matchCase, run>>
        BY <2>15 DEF ErpAnswers
      <3>5. PaymentAuthorised'
        BY <3>3, <3>4
      <3> QED BY <3>1, <3>2, <3>5
    <2>16. CASE ErpErrors(d)
      BY <2>16 DEF ErpErrors
    <2>17. CASE ErpTimesOut(d)
      BY <2>17 DEF ErpTimesOut
    <2>18. CASE SavePosted(d)
      BY <2>18 DEF SavePosted, SaveJournal
    <2>19. CASE Complete(d)
      BY <2>19 DEF Complete
    <2>20. CASE SaveFailed(d)
      BY <2>20 DEF SaveFailed, SaveJournal
    <2>21. CASE OpenPostingCase(d)
      BY <2>21 DEF OpenPostingCase
    <2>22. CASE MarkFailed(d)
      BY <2>22 DEF MarkFailed
    <2>23. CASE Rejected(d)
      BY <2>23 DEF Rejected
    <2>24. CASE Failed(d)
      BY <2>24 DEF Failed
    <2>25. CASE EndThread(d)
      BY <2>25 DEF EndThread
    <2>26. CASE ResumeGate(d)
      BY <2>26 DEF ResumeGate
    <2>27. CASE LoadCheckpoint(d)
      BY <2>27 DEF LoadCheckpoint
    <2> QED BY <1>1, <2>1, <2>2, <2>3, <2>4, <2>5, <2>6, <2>7, <2>8, <2>9,
       <2>10, <2>11, <2>12, <2>13, <2>14, <2>15, <2>16, <2>17, <2>18, <2>19,
       <2>20, <2>21, <2>22, <2>23, <2>24, <2>25, <2>26, <2>27 DEF Drive
  <1>2. ASSUME NEW d \in Drivers, ErpProcessesLate(d) PROVE AuthorisedInv'
    BY <1>2 DEF ErpProcessesLate
  <1>3. ASSUME NEW d \in Drivers, Abort(d) PROVE AuthorisedInv'
    BY <1>3 DEF Abort
  <1>4. ASSUME NEW d \in Drivers, NEW r \in Runs, StartRun(d, r) PROVE AuthorisedInv'
    <2>1. (\A s \in Runs : next[s] = "post_journal" => Authorised(s))'
      BY <1>4 DEF StartRun
    <2>2. (\A e \in Drivers :
             pc[e] \in AtPosting \/ e \in inFlight => Authorised(run[e]))'
      BY <1>4 DEF StartRun
    <2>3. PaymentAuthorised'
      BY <1>4 DEF StartRun
    <2> QED BY <2>1, <2>2, <2>3
  <1>5. ASSUME NEW d \in Drivers, NEW r \in Runs, ReleaseRun(d, r) PROVE AuthorisedInv'
    BY <1>5 DEF ReleaseRun, Call, CaseInv
  <1>6. ASSUME NEW d \in Drivers, NEW c \in Drivers, DecideException(d, c) PROVE AuthorisedInv'
    BY <1>6 DEF DecideException, Call, CaseInv
  <1>7. ASSUME NEW ref \in References, PostDirect(ref) PROVE AuthorisedInv'
    <2>1. (\A r \in Runs : next[r] = "post_journal" => Authorised(r))'
      BY <1>7, ConstantsAssumption DEF ConstantsAssumption, PostDirect
    <2>2. (\A e \in Drivers :
             pc[e] \in AtPosting \/ e \in inFlight => Authorised(run[e]))'
      BY <1>7, ConstantsAssumption DEF ConstantsAssumption, PostDirect
    <2>3. PaymentAuthorised'
      BY <1>7, ConstantsAssumption DEF ConstantsAssumption, PostDirect
    <2> QED BY <2>1, <2>2, <2>3
  <1>8. CASE UNCHANGED vars
    BY <1>8
  <1> QED BY <1>1, <1>2, <1>3, <1>4, <1>5, <1>6, <1>7, <1>8 DEF Next

(***************************************************************************)
(* Who posts without a case in its state posts a run whose match passed,   *)
(* also from the checkpoint.                                               *)
(***************************************************************************)
LEMMA UnassistedStep ==
  ASSUME TypeOK, ControlInv, VerdictInv, UnassistedInv, [Next]_vars
  PROVE  UnassistedInv'
  <1> USE DEF TypeOK, ControlInv, StartedInv, Started, Idle, FreshInv, Fresh,
     AloneInv, VerdictInv, UnassistedInv, StraightThroughUnassisted, AtPosting,
     Points, Nodes, PreMatchNodes, InsideException, InsidePosting, SetStatus,
     Return, Within, vars, runVars, caseVars, tableVars, channelVars,
     checkpointVars, erpVars, callVars, localVars
  <1>1. ASSUME NEW d \in Drivers, Drive(d) PROVE UnassistedInv'
    <2>1. CASE Parse(d)
      BY <2>1 DEF Parse
    <2>2. CASE ExtractInvoice(d)
      BY <2>2 DEF ExtractInvoice
    <2>3. CASE PersistInvoice(d)
      BY <2>3 DEF PersistInvoice
    <2>4. CASE DuplicateCheck(d)
      BY <2>4 DEF DuplicateCheck
    <2>5. CASE ResolveVendor(d)
      BY <2>5 DEF ResolveVendor
    <2>6. CASE FetchPo(d)
      BY <2>6 DEF FetchPo
    <2>7. CASE MatchBegin(d)
      BY <2>7 DEF MatchBegin
    <2>8. CASE MatchSave(d)
      BY <2>8 DEF MatchSave, Postable, RouteAfterMatch
    <2>9. CASE RaiseCase(d)
      BY <2>9 DEF RaiseCase
    <2>10. CASE AwaitApproval(d)
      BY <2>10 DEF AwaitApproval
    <2>11. CASE ResolveCase(d)
      BY <2>11 DEF ResolveCase
    <2>12. CASE RouteAfterApproval(d)
      BY <2>12 DEF RouteAfterApproval
    <2>13. CASE PostBegin(d)
      BY <2>13 DEF PostBegin
    <2>14. CASE RefuseUnbalanced(d)
      BY <2>14 DEF RefuseUnbalanced
    <2>15. CASE ErpAnswers(d)
      BY <2>15 DEF ErpAnswers
    <2>16. CASE ErpErrors(d)
      BY <2>16 DEF ErpErrors
    <2>17. CASE ErpTimesOut(d)
      BY <2>17 DEF ErpTimesOut
    <2>18. CASE SavePosted(d)
      BY <2>18 DEF SavePosted, SaveJournal
    <2>19. CASE Complete(d)
      <3>1. (\A r \in Runs : next[r] = "post_journal" /\ ~escalated[r] => matchRow[r] = "postable")'
        BY <2>19 DEF Complete
      <3>2. (\A e \in Drivers :
               pc[e] \in AtPosting /\ ~caseSeen[e] => matchRow[run[e]] = "postable")'
        BY <2>19 DEF Complete
      <3>3. StraightThroughUnassisted'
        BY <2>19 DEF Complete
      <3> QED BY <3>1, <3>2, <3>3
    <2>20. CASE SaveFailed(d)
      BY <2>20 DEF SaveFailed, SaveJournal
    <2>21. CASE OpenPostingCase(d)
      BY <2>21 DEF OpenPostingCase
    <2>22. CASE MarkFailed(d)
      BY <2>22 DEF MarkFailed
    <2>23. CASE Rejected(d)
      BY <2>23 DEF Rejected
    <2>24. CASE Failed(d)
      BY <2>24 DEF Failed
    <2>25. CASE EndThread(d)
      BY <2>25 DEF EndThread
    <2>26. CASE ResumeGate(d)
      BY <2>26 DEF ResumeGate
    <2>27. CASE LoadCheckpoint(d)
      BY <2>27 DEF LoadCheckpoint
    <2> QED BY <1>1, <2>1, <2>2, <2>3, <2>4, <2>5, <2>6, <2>7, <2>8, <2>9,
       <2>10, <2>11, <2>12, <2>13, <2>14, <2>15, <2>16, <2>17, <2>18, <2>19,
       <2>20, <2>21, <2>22, <2>23, <2>24, <2>25, <2>26, <2>27 DEF Drive
  <1>2. ASSUME NEW d \in Drivers, ErpProcessesLate(d) PROVE UnassistedInv'
    BY <1>2 DEF ErpProcessesLate
  <1>3. ASSUME NEW d \in Drivers, Abort(d) PROVE UnassistedInv'
    BY <1>3 DEF Abort
  <1>4. ASSUME NEW d \in Drivers, NEW r \in Runs, StartRun(d, r) PROVE UnassistedInv'
    BY <1>4 DEF StartRun
  <1>5. ASSUME NEW d \in Drivers, NEW r \in Runs, ReleaseRun(d, r) PROVE UnassistedInv'
    BY <1>5 DEF ReleaseRun, Call
  <1>6. ASSUME NEW d \in Drivers, NEW c \in Drivers, DecideException(d, c) PROVE UnassistedInv'
    BY <1>6 DEF DecideException, Call
  <1>7. ASSUME NEW ref \in References, PostDirect(ref) PROVE UnassistedInv'
    BY <1>7 DEF PostDirect
  <1>8. CASE UNCHANGED vars
    BY <1>8
  <1> QED BY <1>1, <1>2, <1>3, <1>4, <1>5, <1>6, <1>7, <1>8 DEF Next

(***************************************************************************)
(* The journal row, the status and the ERP agree.                          *)
(***************************************************************************)
LEMMA BooksStep ==
  ASSUME TypeOK, StartedInv, FreshInv, AloneInv, BooksInv, [Next]_vars
  PROVE  BooksInv'
  <1> USE DEF TypeOK, StartedInv, Started, Idle, BooksInv, JournalTruthful,
     Points, Nodes, PreMatchNodes, InsideException, InsidePosting, SetStatus,
     Return, Within, vars, runVars, caseVars, tableVars, channelVars,
     checkpointVars, erpVars, callVars, localVars
  <1>1. ASSUME NEW d \in Drivers, Drive(d) PROVE BooksInv'
    <2>1. CASE Parse(d)
      BY <2>1 DEF Parse, Paid
    <2>2. CASE ExtractInvoice(d)
      <3>1. run[d] \in Runs /\ next[run[d]] = "extract_invoice"
        BY <2>2 DEF AloneInv, ExtractInvoice
      <3>2. journal[run[d]] = "none"
        BY <3>1 DEF FreshInv, Fresh
      <3>3. \A e \in Drivers :
              pc'[e] \in {"journal.save_posted", "journal.complete"} =>
                /\ pc'[e] = pc[e] /\ run'[e] = run[e]
                /\ run[e] \in Runs /\ run[e] # run[d]
        BY <2>2, <3>1 DEF AloneInv, ExtractInvoice
      <3>4. \A r \in Runs : r # run[d] => invoice'[r] = invoice[r]
        BY <2>2 DEF ExtractInvoice
      <3>5. (\A e \in Drivers : pc[e] = "journal.save_posted" => Paid(run[e]))'
        BY <2>2, <3>3, <3>4 DEF Paid, ExtractInvoice
      <3>6. (\A e \in Drivers :
               pc[e] = "journal.complete" => journal[run[e]] = "posted")'
        BY <2>2, <3>3 DEF ExtractInvoice
      <3>7. (\A r \in Runs : runStatus[r] = "COMPLETED" => journal[r] = "posted")'
        BY <2>2 DEF ExtractInvoice
      <3>8. JournalTruthful'
        BY <2>2, <3>1, <3>2, <3>4 DEF Paid, ExtractInvoice
      <3> QED BY <3>5, <3>6, <3>7, <3>8
    <2>3. CASE PersistInvoice(d)
      <3>1. (\A e \in Drivers : pc[e] = "journal.save_posted" => Paid(run[e]))'
        BY <2>3 DEF PersistInvoice, Paid
      <3>2. (\A e \in Drivers :
               pc[e] = "journal.complete" => journal[run[e]] = "posted")'
        BY <2>3 DEF PersistInvoice
      <3>3. (\A r \in Runs : runStatus[r] = "COMPLETED" => journal[r] = "posted")'
        BY <2>3 DEF PersistInvoice
      <3>4. JournalTruthful'
        BY <2>3 DEF PersistInvoice, Paid
      <3> QED BY <3>1, <3>2, <3>3, <3>4
    <2>4. CASE DuplicateCheck(d)
      BY <2>4 DEF DuplicateCheck, Paid
    <2>5. CASE ResolveVendor(d)
      BY <2>5 DEF ResolveVendor, Paid
    <2>6. CASE FetchPo(d)
      BY <2>6 DEF FetchPo, Paid
    <2>7. CASE MatchBegin(d)
      BY <2>7 DEF MatchBegin, Paid
    <2>8. CASE MatchSave(d)
      <3>1. (\A e \in Drivers : pc[e] = "journal.save_posted" => Paid(run[e]))'
        BY <2>8 DEF Paid, MatchSave, RouteAfterMatch
      <3>2. (\A e \in Drivers :
               pc[e] = "journal.complete" => journal[run[e]] = "posted")'
        BY <2>8 DEF MatchSave, RouteAfterMatch
      <3>3. (\A r \in Runs : runStatus[r] = "COMPLETED" => journal[r] = "posted")'
        BY <2>8 DEF MatchSave, RouteAfterMatch
      <3>4. JournalTruthful'
        BY <2>8 DEF Paid, MatchSave, RouteAfterMatch
      <3> QED BY <3>1, <3>2, <3>3, <3>4
    <2>9. CASE RaiseCase(d)
      BY <2>9 DEF RaiseCase, Paid
    <2>10. CASE AwaitApproval(d)
      BY <2>10 DEF AwaitApproval, Paid
    <2>11. CASE ResolveCase(d)
      BY <2>11 DEF ResolveCase, Paid
    <2>12. CASE RouteAfterApproval(d)
      BY <2>12 DEF RouteAfterApproval, Paid
    <2>13. CASE PostBegin(d)
      BY <2>13 DEF PostBegin, Paid
    <2>14. CASE RefuseUnbalanced(d)
      BY <2>14 DEF RefuseUnbalanced, Paid
    <2>15. CASE ErpAnswers(d)
      <3>1. (\A e \in Drivers : pc[e] = "journal.save_posted" => Paid(run[e]))'
        BY <2>15, ReferenceType, ConstantsAssumption DEF ConstantsAssumption, Paid, ErpAnswers
      <3>2. (\A e \in Drivers :
               pc[e] = "journal.complete" => journal[run[e]] = "posted")'
        BY <2>15, ReferenceType, ConstantsAssumption DEF ConstantsAssumption, ErpAnswers
      <3>3. (\A r \in Runs : runStatus[r] = "COMPLETED" => journal[r] = "posted")'
        BY <2>15, ReferenceType, ConstantsAssumption DEF ConstantsAssumption, ErpAnswers
      <3>4. JournalTruthful'
        BY <2>15, ReferenceType, ConstantsAssumption DEF ConstantsAssumption, Paid, ErpAnswers
      <3> QED BY <3>1, <3>2, <3>3, <3>4
    <2>16. CASE ErpErrors(d)
      BY <2>16 DEF ErpErrors, Paid
    <2>17. CASE ErpTimesOut(d)
      BY <2>17 DEF ErpTimesOut, Paid
    <2>18. CASE SavePosted(d)
      BY <2>18 DEF SavePosted, SaveJournal, Paid
    <2>19. CASE Complete(d)
      BY <2>19 DEF Complete, Paid
    <2>20. CASE SaveFailed(d)
      BY <2>20 DEF SaveFailed, SaveJournal, Paid
    <2>21. CASE OpenPostingCase(d)
      BY <2>21 DEF OpenPostingCase, Paid
    <2>22. CASE MarkFailed(d)
      BY <2>22 DEF MarkFailed, Paid
    <2>23. CASE Rejected(d)
      BY <2>23 DEF Rejected, Paid
    <2>24. CASE Failed(d)
      BY <2>24 DEF Failed, Paid
    <2>25. CASE EndThread(d)
      <3>1. (\A e \in Drivers : pc[e] = "journal.save_posted" => Paid(run[e]))'
        BY <2>25 DEF EndThread, Paid
      <3>2. (\A e \in Drivers :
               pc[e] = "journal.complete" => journal[run[e]] = "posted")'
        BY <2>25 DEF EndThread
      <3>3. (\A r \in Runs : runStatus[r] = "COMPLETED" => journal[r] = "posted")'
        BY <2>25 DEF EndThread
      <3>4. JournalTruthful'
        BY <2>25 DEF EndThread, Paid
      <3> QED BY <3>1, <3>2, <3>3, <3>4
    <2>26. CASE ResumeGate(d)
      BY <2>26 DEF ResumeGate, Paid
    <2>27. CASE LoadCheckpoint(d)
      BY <2>27 DEF LoadCheckpoint, Paid
    <2> QED BY <1>1, <2>1, <2>2, <2>3, <2>4, <2>5, <2>6, <2>7, <2>8, <2>9,
       <2>10, <2>11, <2>12, <2>13, <2>14, <2>15, <2>16, <2>17, <2>18, <2>19,
       <2>20, <2>21, <2>22, <2>23, <2>24, <2>25, <2>26, <2>27 DEF Drive
  <1>2. ASSUME NEW d \in Drivers, ErpProcessesLate(d) PROVE BooksInv'
    <2>1. (\A e \in Drivers : pc[e] = "journal.save_posted" => Paid(run[e]))'
      BY <1>2, ReferenceType, ConstantsAssumption DEF ConstantsAssumption, Paid, ErpProcessesLate
    <2>2. (\A e \in Drivers :
             pc[e] = "journal.complete" => journal[run[e]] = "posted")'
      BY <1>2, ReferenceType, ConstantsAssumption DEF ConstantsAssumption, ErpProcessesLate
    <2>3. (\A r \in Runs : runStatus[r] = "COMPLETED" => journal[r] = "posted")'
      BY <1>2, ReferenceType, ConstantsAssumption DEF ConstantsAssumption, ErpProcessesLate
    <2>4. JournalTruthful'
      BY <1>2, ReferenceType, ConstantsAssumption DEF ConstantsAssumption, Paid, ErpProcessesLate
    <2> QED BY <2>1, <2>2, <2>3, <2>4
  <1>3. ASSUME NEW d \in Drivers, Abort(d) PROVE BooksInv'
    BY <1>3 DEF Abort, Paid
  <1>4. ASSUME NEW d \in Drivers, NEW r \in Runs, StartRun(d, r) PROVE BooksInv'
    BY <1>4 DEF StartRun, Paid
  <1>5. ASSUME NEW d \in Drivers, NEW r \in Runs, ReleaseRun(d, r) PROVE BooksInv'
    BY <1>5 DEF ReleaseRun, Call, Paid
  <1>6. ASSUME NEW d \in Drivers, NEW c \in Drivers, DecideException(d, c) PROVE BooksInv'
    <2>1. (\A e \in Drivers : pc[e] = "journal.save_posted" => Paid(run[e]))'
      BY <1>6 DEF Paid, DecideException, Call
    <2>2. (\A e \in Drivers :
             pc[e] = "journal.complete" => journal[run[e]] = "posted")'
      BY <1>6 DEF DecideException, Call
    <2>3. (\A r \in Runs : runStatus[r] = "COMPLETED" => journal[r] = "posted")'
      BY <1>6 DEF DecideException, Call
    <2>4. JournalTruthful'
      BY <1>6 DEF Paid, DecideException, Call
    <2> QED BY <2>1, <2>2, <2>3, <2>4
  <1>7. ASSUME NEW ref \in References, PostDirect(ref) PROVE BooksInv'
    <2>1. (\A e \in Drivers : pc[e] = "journal.save_posted" => Paid(run[e]))'
      BY <1>7, ConstantsAssumption DEF Paid, PostDirect, ConstantsAssumption
    <2>2. (\A e \in Drivers :
             pc[e] = "journal.complete" => journal[run[e]] = "posted")'
      BY <1>7, ConstantsAssumption DEF PostDirect, ConstantsAssumption
    <2>3. (\A r \in Runs : runStatus[r] = "COMPLETED" => journal[r] = "posted")'
      BY <1>7, ConstantsAssumption DEF PostDirect, ConstantsAssumption
    <2>4. JournalTruthful'
      BY <1>7, ConstantsAssumption DEF Paid, PostDirect, ConstantsAssumption
    <2> QED BY <2>1, <2>2, <2>3, <2>4
  <1>8. CASE UNCHANGED vars
    BY <1>8 DEF Paid
  <1> QED BY <1>1, <1>2, <1>3, <1>4, <1>5, <1>6, <1>7, <1>8 DEF Next

-----------------------------------------------------------------------------
LEMMA InitInv ==
  ASSUME Init
  PROVE  IInv
  <1> USE ConstantsAssumption DEF ConstantsAssumption, Init, Idle
  <1>1. TypeOK
    BY DEF TypeOK, Statuses, RunOrNone, Points, Nodes, PreMatchNodes,
           InsideException, InsidePosting
  <1>2. ControlInv
    BY DEF ControlInv, StartedInv, Started, FreshInv, Fresh, UntouchedInv,
           AloneInv, PreMatchNodes
  <1>3. DataInv
    BY DEF DataInv, InvoiceInv, CheckedInv, NoTwinInv, VerdictInv, AfterCheck,
           Registered, InsideException, InsidePosting
  <1>4. CaseInv
    BY DEF CaseInv
  <1>5. AuthorisedInv
    BY DEF AuthorisedInv, PaymentAuthorised, AtPosting, InsidePosting
  <1>6. UnassistedInv
    BY DEF UnassistedInv, StraightThroughUnassisted, AtPosting, InsidePosting
  <1>7. BooksInv
    BY DEF BooksInv, JournalTruthful
  <1> QED BY <1>1, <1>2, <1>3, <1>4, <1>5, <1>6, <1>7 DEF IInv, PostingInv

LEMMA StepInv ==
  ASSUME IInv, [Next]_vars
  PROVE  IInv'
  <1> USE DEF IInv, ControlInv, DataInv, PostingInv
  <1>1. TypeOK'
    BY TypeStep
  <1>2. ControlInv'
    BY ControlStep
  <1>3. DataInv'
    BY DataStep
  <1>4. CaseInv'
    BY CaseStep
  <1>5. AuthorisedInv'
    BY AuthorisedStep
  <1>6. UnassistedInv'
    BY UnassistedStep
  <1>7. BooksInv'
    BY BooksStep
  <1> QED BY <1>1, <1>2, <1>3, <1>4, <1>5, <1>6, <1>7

(* The strengthening holds in every reachable state.                       *)
THEOREM InductiveInvariant == Spec => []IInv
  <1>1. Init => IInv
    BY InitInv
  <1>2. IInv /\ [Next]_vars => IInv'
    BY StepInv
  <1> QED BY <1>1, <1>2, PTL DEF Spec

(* Every variable stays in its type: no node routes to a node that does    *)
(* not exist, and every ERP document has an owner that exists.             *)
THEOREM TypeCorrect == Spec => []TypeOK
  <1>1. IInv => TypeOK
    BY DEF IInv
  <1> QED BY <1>1, InductiveInvariant, PTL

(* Two runs over the same invoice are never both cleared without a human.  *)
THEOREM DuplicatesGated == Spec => []DuplicateGate
  <1>1. IInv => DuplicateGate
    BY DEF IInv, DataInv, VerdictInv, NoTwinInv, Postable, Registered,
           DuplicateGate
  <1> QED BY <1>1, InductiveInvariant, PTL

(* Whatever the ERP holds for a run was cleared by the match or released   *)
(* by an approver.                                                         *)
THEOREM PaymentsAuthorised == Spec => []PaymentAuthorised
  <1>1. IInv => PaymentAuthorised
    BY DEF IInv, PostingInv, AuthorisedInv
  <1> QED BY <1>1, InductiveInvariant, PTL

(* A journal row that says posted has its own ERP document.                *)
THEOREM JournalsTruthful == Spec => []JournalTruthful
  <1>1. IInv => JournalTruthful
    BY DEF IInv, PostingInv, BooksInv
  <1> QED BY <1>1, InductiveInvariant, PTL

(* A COMPLETED run has its journal row and its ERP document.               *)
THEOREM CompletedArePaid == Spec => []CompletedIsPaid
  <1>1. IInv => CompletedIsPaid
    BY DEF IInv, PostingInv, BooksInv, JournalTruthful, CompletedIsPaid
  <1> QED BY <1>1, InductiveInvariant, PTL

(* straight_through is only ever set for a run no human had to touch.      *)
THEOREM StraightThroughsUnassisted == Spec => []StraightThroughUnassisted
  <1>1. IInv => StraightThroughUnassisted
    BY DEF IInv, PostingInv, UnassistedInv
  <1> QED BY <1>1, InductiveInvariant, PTL

-----------------------------------------------------------------------------
(* The refinement.  Quiet steps leave the ledger alone.                    *)
LEMMA QuietStep ==
  ASSUME UNCHANGED <<invoiceRow, matchRow, matchCase, run, erpDoc>>
  PROVE  UNCHANGED Ledger!ledgerVars
  BY DEF Ledger!ledgerVars, Approved

(* A call that takes an idle driver releases nothing: the driver has no    *)
(* case yet.                                                               *)
LEMMA CallStep ==
  ASSUME TypeOK, StartedInv, NEW d \in Drivers, Idle(d), NEW r \in Runs,
         run' = [run EXCEPT ![d] = r],
         UNCHANGED <<invoiceRow, matchRow, matchCase, erpDoc>>
  PROVE  UNCHANGED Ledger!ledgerVars
  <1>1. matchCase[d] = "none"
    BY DEF StartedInv, Started
  <1>2. \A s \in Runs : Approved(s)' <=> Approved(s)
    BY <1>1 DEF Approved, TypeOK
  <1> QED BY <1>2 DEF Ledger!ledgerVars

(* A driver that is not at an approved case and does not approve one       *)
(* releases nothing.                                                       *)
LEMMA CaseTouched ==
  ASSUME TypeOK, NEW d \in Drivers, matchCase[d] # "approved",
         NEW verdict \in {"open", "rejected"},
         matchCase' = [matchCase EXCEPT ![d] = verdict],
         UNCHANGED <<invoiceRow, matchRow, run, erpDoc>>
  PROVE  UNCHANGED Ledger!ledgerVars
  <1>1. \A s \in Runs : Approved(s)' <=> Approved(s)
    BY DEF Approved, TypeOK
  <1> QED BY <1>1 DEF Ledger!ledgerVars

(* Whoever is at the ERP call may pay.                                     *)
LEMMA PayStep ==
  ASSUME IInv, NEW d \in Drivers, run[d] \in Runs, Authorised(run[d]),
         erpDoc[JournalReference(invoice[run[d]], run[d])] = Free,
         erpDoc' = [erpDoc EXCEPT
                      ![JournalReference(invoice[run[d]], run[d])] = run[d]],
         UNCHANGED <<invoiceRow, matchRow, matchCase, run>>
  PROVE  Ledger!Next
  <1> DEFINE doc == JournalReference(invoice[run[d]], run[d])
  <1>1. doc \in References \cup Runs
    BY ReferenceType DEF IInv
  <1>2. Ledger!Pay(run[d], doc)
    BY DEF Ledger!Pay, Authorised, Approved
  <1> QED BY <1>1, <1>2 DEF Ledger!Next

LEMMA LedgerStep ==
  ASSUME IInv, [Next]_vars
  PROVE  [Ledger!Next]_(Ledger!ledgerVars)
  <1> USE DEF IInv, Within, Return, vars, runVars, caseVars, tableVars,
     channelVars, checkpointVars, erpVars, callVars, localVars
  <1>0. TypeOK /\ StartedInv
    BY DEF ControlInv
  <1>1. ASSUME NEW d \in Drivers, Drive(d)
        PROVE  [Ledger!Next]_(Ledger!ledgerVars)
    <2>1. CASE PersistInvoice(d)
      <3>1. /\ run[d] \in Runs /\ invoiceRow[run[d]] = NoInvoice
            /\ invoice[run[d]] \in Invoices
        BY <1>0, <2>1 DEF PersistInvoice, ControlInv, AloneInv, StartedInv,
           Started, Idle, DataInv, InvoiceInv, PreMatchNodes
      <3>2. Ledger!Register(run[d], invoice[run[d]])
        BY <2>1, <3>1 DEF PersistInvoice, Ledger!Register, Approved
      <3> QED BY <3>1, <3>2 DEF Ledger!Next
    <2>2. CASE MatchSave(d)
      <3>1. run[d] \in Runs /\ Registered(run[d])
        BY <1>0, <2>2 DEF MatchSave, StartedInv, Started, Idle, DataInv,
           CheckedInv
      <3>2. UNCHANGED <<invoiceRow, matchCase, run, erpDoc>>
        BY <2>2 DEF MatchSave
      <3>3. CASE Postable(run[d])
        <4>1. \A s \in Runs \ {run[d]} : matchRow[s] = "postable" =>
                FingerprintOf[invoiceRow[s]] # FingerprintOf[invoiceRow[run[d]]]
          BY <3>1, <3>3 DEF DataInv, NoTwinInv, VerdictInv, Postable, Registered
        <4>2. matchRow' = [matchRow EXCEPT ![run[d]] = "postable"]
          BY <2>2, <3>3 DEF MatchSave
        <4>3. invoiceRow[run[d]] # NoInvoice
          BY <3>1, ConstantsAssumption DEF ConstantsAssumption, Registered
        <4>4. {r \in Runs : matchRow'[r] = "postable"}
                = {r \in Runs : matchRow[r] = "postable"} \cup {run[d]}
          BY <1>0, <3>1, <4>2 DEF TypeOK
        <4>5. \A s \in {r \in Runs : matchRow[r] = "postable"} \ {run[d]} :
                FingerprintOf[invoiceRow[s]] # FingerprintOf[invoiceRow[run[d]]]
          BY <4>1
        <4>6. {r \in Runs : Approved(r)}' = {r \in Runs : Approved(r)}
          BY <3>2 DEF Approved
        <4>7. Ledger!Clear(run[d])
          BY ONLY <3>2, <4>3, <4>4, <4>5, <4>6 DEF Ledger!Clear
        <4>8. run[d] \in Runs
          BY <3>1
        <4> QED BY ONLY <4>7, <4>8 DEF Ledger!Next, Ledger!Clear
      <3>4. CASE ~Postable(run[d])
        <4>1. matchRow[run[d]] # "postable"
          BY <3>1, <3>4 DEF DataInv, VerdictInv
        <4>2. matchRow' = [matchRow EXCEPT ![run[d]] = "exception"]
          BY <2>2, <3>4 DEF MatchSave
        <4>3. {r \in Runs : matchRow'[r] = "postable"}
                = {r \in Runs : matchRow[r] = "postable"}
          BY <1>0, <3>1, <4>1, <4>2 DEF TypeOK
        <4> QED BY <3>2, <4>3 DEF Ledger!ledgerVars, Approved
      <3> QED BY <3>3, <3>4
    <2>3. CASE RaiseCase(d)
      <3>1. matchCase[d] # "approved"
        BY <2>3 DEF RaiseCase, PostingInv, CaseInv, InsidePosting
      <3> QED BY <1>0, <2>3, <3>1, CaseTouched DEF RaiseCase
    <2>4. CASE ResolveCase(d)
      <3>1. matchCase[d] # "approved"
        BY <2>4 DEF ResolveCase, PostingInv, CaseInv, InsidePosting
      <3>2. CASE decision[d] = "approve"
        <4>1. run[d] \in Runs /\ invoiceRow[run[d]] # NoInvoice
          BY <1>0, <2>4, ConstantsAssumption
          DEF ConstantsAssumption, ResolveCase, StartedInv, Started, Idle,
              DataInv, CheckedInv, InsideException, Registered
        <4>2. matchCase' = [matchCase EXCEPT ![d] = "approved"]
          BY <2>4, <3>2 DEF ResolveCase
        <4>3. UNCHANGED <<invoiceRow, matchRow, run, erpDoc>>
          BY <2>4 DEF ResolveCase
        <4>4. \A r \in Runs : Approved(r)' <=> Approved(r) \/ r = run[d]
          BY <1>0, <3>1, <4>2, <4>3 DEF Approved, TypeOK
        <4>5. Ledger!Release(run[d])
          BY <4>1, <4>3, <4>4 DEF Ledger!Release
        <4> QED BY <4>1, <4>5 DEF Ledger!Next
      <3>3. CASE decision[d] # "approve"
        BY <1>0, <2>4, <3>1, <3>3, CaseTouched DEF ResolveCase
      <3> QED BY <3>2, <3>3
    <2>5. CASE ErpAnswers(d)
      <3>1. run[d] \in Runs /\ Authorised(run[d])
        BY <1>0, <2>5 DEF ErpAnswers, StartedInv, Started, Idle, PostingInv,
           AuthorisedInv, AtPosting, InsidePosting
      <3> QED BY <2>5, <3>1, PayStep, QuietStep DEF ErpAnswers
    <2>6. CASE Parse(d)
      BY <2>6, QuietStep DEF Parse
    <2>7. CASE ExtractInvoice(d)
      BY <2>7, QuietStep DEF ExtractInvoice
    <2>8. CASE DuplicateCheck(d)
      BY <2>8, QuietStep DEF DuplicateCheck
    <2>9. CASE ResolveVendor(d)
      BY <2>9, QuietStep DEF ResolveVendor
    <2>10. CASE FetchPo(d)
      BY <2>10, QuietStep DEF FetchPo
    <2>11. CASE MatchBegin(d)
      BY <2>11, QuietStep DEF MatchBegin
    <2>12. CASE AwaitApproval(d)
      BY <2>12, QuietStep DEF AwaitApproval
    <2>13. CASE RouteAfterApproval(d)
      BY <2>13, QuietStep DEF RouteAfterApproval
    <2>14. CASE PostBegin(d)
      BY <2>14, QuietStep DEF PostBegin
    <2>15. CASE RefuseUnbalanced(d)
      BY <2>15, QuietStep DEF RefuseUnbalanced
    <2>16. CASE ErpErrors(d)
      BY <2>16, QuietStep DEF ErpErrors
    <2>17. CASE ErpTimesOut(d)
      BY <2>17, QuietStep DEF ErpTimesOut
    <2>18. CASE SavePosted(d)
      BY <2>18, QuietStep DEF SavePosted, SaveJournal
    <2>19. CASE Complete(d)
      BY <2>19, QuietStep DEF Complete
    <2>20. CASE SaveFailed(d)
      BY <2>20, QuietStep DEF SaveFailed, SaveJournal
    <2>21. CASE OpenPostingCase(d)
      BY <2>21, QuietStep DEF OpenPostingCase
    <2>22. CASE MarkFailed(d)
      BY <2>22, QuietStep DEF MarkFailed
    <2>23. CASE Rejected(d)
      BY <2>23, QuietStep DEF Rejected
    <2>24. CASE Failed(d)
      BY <2>24, QuietStep DEF Failed
    <2>25. CASE EndThread(d)
      BY <2>25, QuietStep DEF EndThread
    <2>26. CASE ResumeGate(d)
      BY <2>26, QuietStep DEF ResumeGate
    <2>27. CASE LoadCheckpoint(d)
      BY <2>27, QuietStep DEF LoadCheckpoint
    <2> QED BY <1>1, <2>1, <2>2, <2>3, <2>4, <2>5, <2>6, <2>7, <2>8, <2>9,
       <2>10, <2>11, <2>12, <2>13, <2>14, <2>15, <2>16, <2>17, <2>18, <2>19,
       <2>20, <2>21, <2>22, <2>23, <2>24, <2>25, <2>26, <2>27 DEF Drive
  <1>2. ASSUME NEW d \in Drivers, ErpProcessesLate(d)
        PROVE  [Ledger!Next]_(Ledger!ledgerVars)
    <2>1. run[d] \in Runs /\ Authorised(run[d])
      BY <1>0, <1>2 DEF ErpProcessesLate, StartedInv, Started, Idle, PostingInv,
         AuthorisedInv
    <2> QED BY <1>2, <2>1, PayStep, QuietStep DEF ErpProcessesLate
  <1>3. ASSUME NEW d \in Drivers, Abort(d)
        PROVE  [Ledger!Next]_(Ledger!ledgerVars)
    BY <1>3, QuietStep DEF Abort
  <1>4. ASSUME NEW d \in Drivers, NEW r \in Runs, StartRun(d, r)
        PROVE  [Ledger!Next]_(Ledger!ledgerVars)
    BY <1>0, <1>4, CallStep DEF StartRun
  <1>5. ASSUME NEW d \in Drivers, NEW r \in Runs, ReleaseRun(d, r)
        PROVE  [Ledger!Next]_(Ledger!ledgerVars)
    BY <1>0, <1>5, CallStep DEF ReleaseRun, Call
  <1>6. ASSUME NEW d \in Drivers, NEW c \in Drivers, DecideException(d, c)
        PROVE  [Ledger!Next]_(Ledger!ledgerVars)
    <2>1. run[c] \in Runs
      BY <1>0, <1>6 DEF DecideException, TypeOK, RunOrNone
    <2> QED BY <1>0, <1>6, <2>1, CallStep DEF DecideException, Call
  <1>7. ASSUME NEW ref \in References, PostDirect(ref)
        PROVE  [Ledger!Next]_(Ledger!ledgerVars)
    <2>1. Ledger!BookByHand(ref)
      BY <1>7 DEF PostDirect, Ledger!BookByHand, Approved
    <2> QED BY <2>1 DEF Ledger!Next
  <1>8. CASE UNCHANGED vars
    BY <1>8, QuietStep
  <1> QED BY <1>1, <1>2, <1>3, <1>4, <1>5, <1>6, <1>7, <1>8 DEF Next

(* The workflow implements the payment ledger: duplicates, authorisation   *)
(* and pay-once, under every fault and overlap.                            *)
THEOREM WorkflowImplementsLedger == Spec => ImplementsLedger
  <1>1. Init => Ledger!Init
    BY DEF Init, Ledger!Init, Approved
  <1>2. IInv /\ [Next]_vars => [Ledger!Next]_(Ledger!ledgerVars)
    BY LedgerStep
  <1> QED BY <1>1, <1>2, InductiveInvariant, PTL DEF Spec, ImplementsLedger, Ledger!Spec
-----------------------------------------------------------------------------
(***************************************************************************)
(* Calls that do not overlap.  Whoever is active on a run is alone with    *)
(* it, so a step of a driver moves the checkpoint and the status of its    *)
(* run under nobody else's feet.                                           *)
(***************************************************************************)
(* Where a driver is agrees with the checkpoint and the status of its run. *)
InStep(point, node, status) ==
  /\ point \in Nodes => node = point
  /\ point = "match.save" => node = "match"
  /\ point \in InsideException => node = "raise_exception"
  /\ point \in InsidePosting => node = "post_journal"
  /\ point = "return" => node \in {"post_journal", "rejected", "failed"}
  /\ status \in Terminal => point \in {"idle", "gate", "return", "done"}
  /\ point = "load" => status \in Resumable
  /\ status = "REJECTED" => node \in {"rejected", "END"}

(* A step of driver d moves nothing that belongs to another driver or run. *)
MovesAlone(d) ==
  /\ run' = run
  /\ \A e \in Drivers \ {d} : pc'[e] = pc[e]
  /\ \A r \in Runs \ {run[d]} : next'[r] = next[r] /\ runStatus'[r] = runStatus[r]
  /\ inFlight' \subseteq inFlight \cup {d}
  /\ \A ref \in References \cup Runs : erpDoc'[ref] \in {erpDoc[ref], run[d]}

(* It stays in step, and it reaches the ERP only from a run whose status   *)
(* and checkpoint say so, before and after.                                *)
OutOfReach(node, status) == node \notin {"post_journal", "END"} \/ status = "REJECTED"
StaysInStep(d) ==
  /\ InStep(pc'[d], next'[run[d]], runStatus'[run[d]])
  /\ OutOfReach(next'[run[d]], runStatus'[run[d]]) =>
       erpDoc' = erpDoc /\ inFlight' = inFlight
         /\ OutOfReach(next[run[d]], runStatus[run[d]])

(* Every step of a driver does both, whatever the others do.               *)
LEMMA DriverMoves ==
  ASSUME TypeOK, NEW d \in Drivers, run[d] \in Runs, Drive(d),
         InStep(pc[d], next[run[d]], runStatus[run[d]])
  PROVE  Active(d) /\ MovesAlone(d) /\ StaysInStep(d)
  <1>0. /\ DOMAIN pc = Drivers /\ pc = [e \in Drivers |-> pc[e]]
        /\ DOMAIN next = Runs /\ next = [r \in Runs |-> next[r]]
        /\ DOMAIN runStatus = Runs /\ runStatus = [r \in Runs |-> runStatus[r]]
        /\ erpDoc = [ref \in References \cup Runs |-> erpDoc[ref]]
        /\ next[run[d]] \in Nodes \cup {"END"}
        /\ inFlight \subseteq Drivers
    BY DEF TypeOK
  <1> USE DEF Active, MovesAlone, StaysInStep, InStep, OutOfReach, Terminal, Resumable,
     Nodes, PreMatchNodes, InsideException, InsidePosting, SetStatus, Return, Within,
     runVars, erpVars, callVars, checkpointVars
  <1>1. CASE Parse(d)
    BY <1>0, <1>1 DEF Parse
  <1>2. CASE ExtractInvoice(d)
    BY <1>0, <1>2 DEF ExtractInvoice
  <1>3. CASE PersistInvoice(d)
    BY <1>0, <1>3 DEF PersistInvoice
  <1>4. CASE DuplicateCheck(d)
    BY <1>0, <1>4 DEF DuplicateCheck
  <1>5. CASE ResolveVendor(d)
    BY <1>0, <1>5 DEF ResolveVendor
  <1>6. CASE FetchPo(d)
    BY <1>0, <1>6 DEF FetchPo
  <1>7. CASE MatchBegin(d)
    BY <1>0, <1>7 DEF MatchBegin
  <1>8. CASE MatchSave(d)
    BY <1>0, <1>8 DEF MatchSave, RouteAfterMatch
  <1>9. CASE RaiseCase(d)
    BY <1>0, <1>9 DEF RaiseCase
  <1>10. CASE AwaitApproval(d)
    BY <1>0, <1>10 DEF AwaitApproval
  <1>11. CASE ResolveCase(d)
    BY <1>0, <1>11 DEF ResolveCase
  <1>12. CASE RouteAfterApproval(d)
    BY <1>0, <1>12 DEF RouteAfterApproval
  <1>13. CASE PostBegin(d)
    BY <1>0, <1>13 DEF PostBegin
  <1>14. CASE RefuseUnbalanced(d)
    BY <1>0, <1>14 DEF RefuseUnbalanced
  <1>15. CASE ErpAnswers(d)
    BY <1>0, <1>15 DEF ErpAnswers
  <1>16. CASE ErpErrors(d)
    BY <1>0, <1>16 DEF ErpErrors
  <1>17. CASE ErpTimesOut(d)
    BY <1>0, <1>17 DEF ErpTimesOut
  <1>18. CASE SavePosted(d)
    BY <1>0, <1>18 DEF SavePosted, SaveJournal
  <1>19. CASE Complete(d)
    BY <1>0, <1>19 DEF Complete
  <1>20. CASE SaveFailed(d)
    BY <1>0, <1>20 DEF SaveFailed, SaveJournal
  <1>21. CASE OpenPostingCase(d)
    BY <1>0, <1>21 DEF OpenPostingCase
  <1>22. CASE MarkFailed(d)
    BY <1>0, <1>22 DEF MarkFailed
  <1>23. CASE Rejected(d)
    BY <1>0, <1>23 DEF Rejected
  <1>24. CASE Failed(d)
    BY <1>0, <1>24 DEF Failed
  <1>25. CASE EndThread(d)
    BY <1>0, <1>25 DEF EndThread
  <1>26. CASE ResumeGate(d)
    BY <1>0, <1>26 DEF ResumeGate
  <1>27. CASE LoadCheckpoint(d)
    BY <1>0, <1>27 DEF LoadCheckpoint
  <1> QED BY <1>1, <1>2, <1>3, <1>4, <1>5, <1>6, <1>7, <1>8, <1>9,
     <1>10, <1>11, <1>12, <1>13, <1>14, <1>15, <1>16, <1>17, <1>18, <1>19,
     <1>20, <1>21, <1>22, <1>23, <1>24, <1>25, <1>26, <1>27 DEF Drive

(* Alone on its run, a driver keeps checkpoint, status and ERP in step.    *)
LEMMA DriverKeepsSerial ==
  ASSUME StartedInv, SerialInv, NEW d \in Drivers, run[d] \in Runs,
         Active(d), MovesAlone(d), StaysInStep(d)
  PROVE  SerialInv'
  <1>0. /\ run' = run
        /\ \A e \in Drivers \ {d} : pc'[e] = pc[e]
        /\ \A r \in Runs \ {run[d]} : next'[r] = next[r] /\ runStatus'[r] = runStatus[r]
        /\ InStep(pc'[d], next'[run[d]], runStatus'[run[d]])
    BY DEF MovesAlone, StaysInStep
  <1>1. OneDriver /\ Aligned /\ UnpostedInv /\ RejectedInv /\ SettledInv
    BY DEF SerialInv
  <1>2. \A e \in Drivers \ {d} : run[e] = run[d] => pc[e] \in {"idle", "done"}
    BY <1>1 DEF OneDriver, Active
  <1>3. OneDriver'
    BY <1>0, <1>1 DEF OneDriver, Active
  <1>4. Aligned'
    <2> SUFFICES ASSUME NEW e \in Drivers
                 PROVE  InStep(pc'[e], next'[run[e]], "MATCHING")
      BY <1>0 DEF Aligned, InStep
    <2>1. CASE e = d
      BY <1>0, <2>1 DEF InStep, Terminal, Resumable
    <2>2. CASE e # d /\ run[e] = run[d]
      BY <1>0, <1>2, <2>2
      DEF InStep, Terminal, Resumable, Nodes, PreMatchNodes, InsideException,
          InsidePosting
    <2>3. CASE e # d /\ run[e] # run[d]
      <3>1. pc'[e] = pc[e]
        BY <1>0, <2>3
      <3>2. run[e] \in Runs => next'[run[e]] = next[run[e]]
        BY <1>0, <2>3
      <3>3. pc[e] \notin {"idle", "done"} => run[e] \in Runs
        BY DEF StartedInv, Started, Idle
      <3>4. InStep(pc[e], next[run[e]], "MATCHING")
        BY <1>1 DEF Aligned, InStep, Terminal, Resumable
      <3> QED BY <3>1, <3>2, <3>3, <3>4
        DEF InStep, Terminal, Resumable, Nodes, PreMatchNodes, InsideException,
            InsidePosting
    <2> QED BY <2>1, <2>2, <2>3
  <1>5. ASSUME NEW r \in Runs, OutOfReach(next'[r], runStatus'[r])
        PROVE  Unposted(r)'
    <2>1. OutOfReach(next[r], runStatus[r])
      BY <1>0, <1>5 DEF StaysInStep
    <2>2. Unposted(r)
      BY <1>1, <2>1 DEF UnpostedInv, RejectedInv, OutOfReach
    <2>3. CASE r = run[d]
      BY <1>0, <1>5, <2>2, <2>3 DEF StaysInStep, Unposted
    <2>4. CASE r # run[d]
      BY <1>0, <2>2, <2>4 DEF MovesAlone, Unposted
    <2> QED BY <2>3, <2>4
  <1>6. UnpostedInv'
    BY <1>5 DEF UnpostedInv, OutOfReach, Unposted
  <1>7. RejectedInv'
    <2>1. \A r \in Runs : runStatus'[r] = "REJECTED" => next'[r] \in {"rejected", "END"}
      BY <1>0, <1>1 DEF RejectedInv, InStep
    <2> QED BY <1>5, <2>1 DEF RejectedInv, OutOfReach, Unposted
  <1>8. SettledInv'
    <2> SUFFICES ASSUME NEW e \in Drivers
                 PROVE  /\ Active(e)' /\ runStatus'[run[e]] \in Terminal =>
                             pc'[e] \in {"gate", "return"}
                        /\ pc'[e] = "load" => runStatus'[run[e]] \in Resumable
      BY <1>0 DEF SettledInv, Active
    <2>1. CASE e = d
      BY <1>0, <2>1 DEF InStep, Active
    <2>2. CASE e # d /\ run[e] = run[d]
      BY <1>0, <1>2, <2>2 DEF Active
    <2>3. CASE e # d /\ run[e] # run[d]
      <3>1. pc'[e] = pc[e] /\ (run[e] \in Runs => runStatus'[run[e]] = runStatus[run[e]])
        BY <1>0, <2>3
      <3>2. pc[e] \notin {"idle", "done"} => run[e] \in Runs
        BY DEF StartedInv, Started, Idle
      <3> QED BY <1>1, <3>1, <3>2 DEF SettledInv, Active
    <2> QED BY <2>1, <2>2, <2>3
  <1> QED BY <1>3, <1>4, <1>6, <1>7, <1>8 DEF SerialInv

(* Calls that do not overlap keep checkpoint, status and ERP in step.      *)
LEMMA SerialStep ==
  ASSUME ~Overlap, TypeOK, StartedInv, UntouchedInv, SerialInv, [Next]_vars
  PROVE  SerialInv'
  <1>1. ASSUME NEW d \in Drivers, Drive(d) PROVE SerialInv'
    <2>1. run[d] \in Runs
      <3>1. pc[d] # "idle"
        BY <1>1 DEF Drive, Parse, ExtractInvoice, PersistInvoice, DuplicateCheck,
           ResolveVendor, FetchPo, MatchBegin, MatchSave, RaiseCase, AwaitApproval,
           ResolveCase, RouteAfterApproval, PostBegin, RefuseUnbalanced, ErpAnswers,
           ErpErrors, ErpTimesOut, SavePosted, Complete, SaveFailed, OpenPostingCase,
           MarkFailed, Rejected, Failed, EndThread, ResumeGate, LoadCheckpoint
      <3> QED BY <3>1 DEF StartedInv, Started, Idle
    <2>2. InStep(pc[d], next[run[d]], runStatus[run[d]])
      BY <2>1 DEF SerialInv, Aligned, SettledInv, RejectedInv, InStep, Active
    <2> QED BY <1>1, <2>1, <2>2, DriverMoves, DriverKeepsSerial
  <1> USE DEF TypeOK, StartedInv, Started, UntouchedInv, Idle, Active, SerialInv,
     OneDriver, Aligned, UnpostedInv, Unposted, RejectedInv, SettledInv, Terminal,
     Resumable, Statuses, RunOrNone, Points, Nodes, PreMatchNodes, InsideException,
     InsidePosting, Within, vars, runVars, caseVars, tableVars,
     channelVars, checkpointVars, erpVars, callVars, localVars
  <1>2. ASSUME NEW d \in Drivers, ErpProcessesLate(d) PROVE SerialInv'
    BY <1>2 DEF ErpProcessesLate
  <1>3. ASSUME NEW d \in Drivers, Abort(d) PROVE SerialInv'
    BY <1>3 DEF Abort
  <1>4. ASSUME NEW d \in Drivers, NEW r \in Runs, StartRun(d, r) PROVE SerialInv'
    BY <1>4 DEF StartRun
  <1>5. ASSUME NEW d \in Drivers, NEW r \in Runs, ReleaseRun(d, r) PROVE SerialInv'
    BY <1>5 DEF ReleaseRun, Call
  <1>6. ASSUME NEW d \in Drivers, NEW c \in Drivers, DecideException(d, c) PROVE SerialInv'
    BY <1>6 DEF DecideException, Call
  <1>7. ASSUME NEW ref \in References, PostDirect(ref) PROVE SerialInv'
    BY <1>7, ConstantsAssumption DEF PostDirect
  <1>8. CASE UNCHANGED vars
    BY <1>8
  <1> QED BY <1>1, <1>2, <1>3, <1>4, <1>5, <1>6, <1>7, <1>8 DEF Next

(* A status that is settled is not written again: the only call at work on *)
(* the run has written it as the last thing it did.                        *)
LEMMA SettledStep ==
  ASSUME TypeOK, StartedInv, SerialInv, [Next]_vars,
         NEW r \in Runs, runStatus[r] \in Terminal
  PROVE  runStatus'[r] = runStatus[r]
  <1> USE DEF TypeOK, StartedInv, Started, Idle, Active, SerialInv, SettledInv, Terminal,
     Resumable, SetStatus, vars, runVars
  <1>1. ASSUME NEW d \in Drivers, Drive(d) PROVE runStatus'[r] = runStatus[r]
    <2>1. CASE Parse(d) \/ ExtractInvoice(d) \/ MatchBegin(d)
      BY <2>1 DEF Parse, ExtractInvoice, MatchBegin
    <2>2. CASE AwaitApproval(d) \/ PostBegin(d) \/ RefuseUnbalanced(d)
      BY <2>2 DEF AwaitApproval, PostBegin, RefuseUnbalanced
    <2>3. CASE Complete(d) \/ MarkFailed(d) \/ Rejected(d) \/ Failed(d)
      BY <2>3 DEF Complete, MarkFailed, Rejected, Failed
    <2>4. CASE \/ PersistInvoice(d) \/ DuplicateCheck(d) \/ ResolveVendor(d)
               \/ FetchPo(d) \/ MatchSave(d) \/ RaiseCase(d) \/ ResolveCase(d)
               \/ RouteAfterApproval(d) \/ ErpAnswers(d) \/ ErpErrors(d)
               \/ ErpTimesOut(d) \/ SavePosted(d) \/ SaveFailed(d)
               \/ OpenPostingCase(d) \/ EndThread(d) \/ ResumeGate(d)
               \/ LoadCheckpoint(d)
      BY ONLY <2>4 DEF PersistInvoice, DuplicateCheck, ResolveVendor, FetchPo, MatchSave,
         RaiseCase, ResolveCase, RouteAfterApproval, ErpAnswers, ErpErrors, ErpTimesOut,
         SavePosted, SaveFailed, SaveJournal, OpenPostingCase, EndThread, ResumeGate,
         LoadCheckpoint, runVars
    <2> QED BY <1>1, <2>1, <2>2, <2>3, <2>4 DEF Drive
  <1>2. ASSUME NEW d \in Drivers, ErpProcessesLate(d) \/ Abort(d)
        PROVE  runStatus'[r] = runStatus[r]
    BY <1>2 DEF ErpProcessesLate, Abort
  <1>3. ASSUME NEW d \in Drivers, NEW s \in Runs, StartRun(d, s) \/ ReleaseRun(d, s)
        PROVE  runStatus'[r] = runStatus[r]
    BY <1>3 DEF StartRun, ReleaseRun, Call
  <1>4. ASSUME NEW d \in Drivers, NEW c \in Drivers, DecideException(d, c)
        PROVE  runStatus'[r] = runStatus[r]
    BY <1>4 DEF DecideException, Call
  <1>5. ASSUME NEW ref \in References, PostDirect(ref)
        PROVE  runStatus'[r] = runStatus[r]
    BY <1>5 DEF PostDirect
  <1>6. CASE UNCHANGED vars
    BY <1>6
  <1> QED BY <1>1, <1>2, <1>3, <1>4, <1>5, <1>6 DEF Next

(* Where every status write succeeds, POSTING is written before the ERP is *)
(* called, and no step leads from there back to a status that waits.       *)
LEMMA PendingStep ==
  ASSUME ~StatusLossy, TypeOK, StartedInv, SerialInv, PendingInv, [Next]_vars
  PROVE  PendingInv'
  <1> USE DEF TypeOK, StartedInv, Started, Idle, Active, SerialInv,
     OneDriver, Aligned, UnpostedInv, Unposted, PendingInv, Resumable,
     Statuses, RunOrNone, Points, Nodes, PreMatchNodes, InsideException,
     InsidePosting, SetStatus, Return, Within, vars, runVars, caseVars, tableVars,
     channelVars, checkpointVars, erpVars, callVars, localVars
  <1>1. ASSUME NEW d \in Drivers, Drive(d) PROVE PendingInv'
    <2>0. \A e \in Drivers \ {d} : run[e] = run[d] /\ Active(d) => pc[e] \in {"idle", "done"}
      OBVIOUS
    <2>1. CASE Parse(d)
      <3>1. run[d] \in Runs /\ UNCHANGED <<run, erpDoc, inFlight>>
        BY <2>1 DEF Parse
      <3>2. pc'[d] \notin InsidePosting /\ \A e \in Drivers \ {d} : pc'[e] = pc[e]
        BY <2>1 DEF Parse
      <3>3. runStatus' = runStatus \/ runStatus' = [runStatus EXCEPT ![run[d]] = "PARSING"]
        BY <2>1 DEF Parse
      <3>4. \A r \in Runs : runStatus'[r] \in Resumable => runStatus'[r] = runStatus[r]
        BY <3>1, <3>3
      <3>5. \A e \in Drivers : pc'[e] \in InsidePosting => pc[e] \in InsidePosting /\ run[e] \in Runs
        BY <3>2
      <3> QED BY <3>1, <3>4, <3>5
    <2>2. CASE ExtractInvoice(d)
      <3>1. run[d] \in Runs /\ UNCHANGED <<run, erpDoc, inFlight>>
        BY <2>2 DEF ExtractInvoice
      <3>2. pc'[d] \notin InsidePosting /\ \A e \in Drivers \ {d} : pc'[e] = pc[e]
        BY <2>2 DEF ExtractInvoice
      <3>3. runStatus' = runStatus \/ runStatus' = [runStatus EXCEPT ![run[d]] = "EXTRACTING"]
        BY <2>2 DEF ExtractInvoice
      <3>4. \A r \in Runs : runStatus'[r] \in Resumable => runStatus'[r] = runStatus[r]
        BY <3>1, <3>3
      <3>5. \A e \in Drivers : pc'[e] \in InsidePosting => pc[e] \in InsidePosting /\ run[e] \in Runs
        BY <3>2
      <3> QED BY <3>1, <3>4, <3>5
    <2>3. CASE PersistInvoice(d)
      BY <2>0, <2>3 DEF PersistInvoice
    <2>4. CASE DuplicateCheck(d)
      BY <2>0, <2>4 DEF DuplicateCheck
    <2>5. CASE ResolveVendor(d)
      BY <2>0, <2>5 DEF ResolveVendor
    <2>6. CASE FetchPo(d)
      BY <2>0, <2>6 DEF FetchPo
    <2>7. CASE MatchBegin(d)
      BY <2>0, <2>7 DEF MatchBegin
    <2>8. CASE MatchSave(d)
      BY <2>0, <2>8 DEF MatchSave, RouteAfterMatch
    <2>9. CASE RaiseCase(d)
      BY <2>0, <2>9 DEF RaiseCase
    <2>10. CASE AwaitApproval(d)
      BY <2>0, <2>10 DEF AwaitApproval
    <2>11. CASE ResolveCase(d)
      BY <2>0, <2>11 DEF ResolveCase
    <2>12. CASE RouteAfterApproval(d)
      BY <2>0, <2>12 DEF RouteAfterApproval
    <2>13. CASE PostBegin(d)
      BY <2>0, <2>13 DEF PostBegin
    <2>14. CASE RefuseUnbalanced(d)
      BY <2>0, <2>14 DEF RefuseUnbalanced
    <2>15. CASE ErpAnswers(d)
      BY <2>0, <2>15 DEF ErpAnswers
    <2>16. CASE ErpErrors(d)
      BY <2>0, <2>16 DEF ErpErrors
    <2>17. CASE ErpTimesOut(d)
      BY <2>0, <2>17 DEF ErpTimesOut
    <2>18. CASE SavePosted(d)
      BY <2>0, <2>18 DEF SavePosted, SaveJournal
    <2>19. CASE Complete(d)
      BY <2>0, <2>19 DEF Complete
    <2>20. CASE SaveFailed(d)
      BY <2>0, <2>20 DEF SaveFailed, SaveJournal
    <2>21. CASE OpenPostingCase(d)
      BY <2>0, <2>21 DEF OpenPostingCase
    <2>22. CASE MarkFailed(d)
      BY <2>0, <2>22 DEF MarkFailed
    <2>23. CASE Rejected(d)
      BY <2>0, <2>23 DEF Rejected
    <2>24. CASE Failed(d)
      BY <2>0, <2>24 DEF Failed
    <2>25. CASE EndThread(d)
      BY <2>0, <2>25 DEF EndThread
    <2>26. CASE ResumeGate(d)
      BY <2>0, <2>26 DEF ResumeGate
    <2>27. CASE LoadCheckpoint(d)
      <3>1. run[d] \in Runs /\ UNCHANGED <<runStatus, run, erpDoc, inFlight>>
        BY <2>27 DEF LoadCheckpoint
      <3>2. next[run[d]] \in Nodes \cup {"END"}
        BY <3>1
      <3>3. pc' = [pc EXCEPT ![d] = IF next[run[d]] = "END" THEN "done" ELSE next[run[d]]]
        BY <2>27 DEF LoadCheckpoint
      <3>4. pc'[d] \notin InsidePosting /\ \A e \in Drivers \ {d} : pc'[e] = pc[e]
        BY <3>2, <3>3
      <3> QED BY <3>1, <3>4
    <2> QED BY <1>1, <2>1, <2>2, <2>3, <2>4, <2>5, <2>6, <2>7, <2>8, <2>9,
       <2>10, <2>11, <2>12, <2>13, <2>14, <2>15, <2>16, <2>17, <2>18, <2>19,
       <2>20, <2>21, <2>22, <2>23, <2>24, <2>25, <2>26, <2>27 DEF Drive
  <1>2. ASSUME NEW d \in Drivers, ErpProcessesLate(d) PROVE PendingInv'
    BY <1>2 DEF ErpProcessesLate
  <1>3. ASSUME NEW d \in Drivers, Abort(d) PROVE PendingInv'
    BY <1>3 DEF Abort
  <1>4. ASSUME NEW d \in Drivers, NEW r \in Runs, StartRun(d, r) PROVE PendingInv'
    BY <1>4 DEF StartRun
  <1>5. ASSUME NEW d \in Drivers, NEW r \in Runs, ReleaseRun(d, r) PROVE PendingInv'
    BY <1>5 DEF ReleaseRun, Call
  <1>6. ASSUME NEW d \in Drivers, NEW c \in Drivers, DecideException(d, c) PROVE PendingInv'
    BY <1>6 DEF DecideException, Call
  <1>7. ASSUME NEW ref \in References, PostDirect(ref) PROVE PendingInv'
    BY <1>7, ConstantsAssumption DEF PostDirect
  <1>8. CASE UNCHANGED vars
    BY <1>8
  <1> QED BY <1>1, <1>2, <1>3, <1>4, <1>5, <1>6, <1>7, <1>8 DEF Next

(* The checkpoint, the status and the ERP agree on how far a run has got,  *)
(* if no two calls drive it at once; crashes and faults are allowed.       *)
THEOREM SerialInvariant ==
  ASSUME ~Overlap PROVE Spec => []SerialInv
  <1>1. Init => SerialInv
    BY ConstantsAssumption
    DEF ConstantsAssumption, Init, SerialInv, OneDriver, Aligned, UnpostedInv, Unposted,
        RejectedInv, SettledInv, Active, Nodes, PreMatchNodes, InsideException, InsidePosting
  <1>2. IInv /\ SerialInv /\ [Next]_vars => SerialInv'
    BY SerialStep DEF IInv, ControlInv
  <1> QED BY <1>1, <1>2, InductiveInvariant, PTL DEF Spec

(* A run closed as rejected is not paid, then or later: neither by a late  *)
(* ERP request, nor by a resume after a crash, nor by a second decision.   *)
THEOREM RejectedRunsAreUnpaid ==
  ASSUME ~Overlap PROVE Spec => []RejectedMeansUnpaid
  <1>1. TypeOK /\ SerialInv => RejectedMeansUnpaid
    BY ReferenceType DEF SerialInv, RejectedInv, Unposted, RejectedMeansUnpaid, Paid
  <1>2. IInv => TypeOK
    BY DEF IInv
  <1> QED BY <1>1, <1>2, InductiveInvariant, SerialInvariant, PTL

(* COMPLETED, REJECTED and FAILED are final if calls do not overlap.       *)
THEOREM SettledRunsStaySettled ==
  ASSUME ~Overlap PROVE Spec => SettledStaysSettled
  <1>1. IInv /\ SerialInv /\ [Next]_vars =>
          [\A r \in Runs : runStatus[r] \in Terminal => runStatus'[r] = runStatus[r]]_vars
    BY SettledStep DEF IInv, ControlInv
  <1> QED BY <1>1, InductiveInvariant, SerialInvariant, PTL DEF Spec, SettledStaysSettled

(* What a decision could still resume has not been paid, if calls do not   *)
(* overlap and no status write is lost, whatever crashes and ERP faults.   *)
THEOREM PendingRunsAreUnpaid ==
  ASSUME ~Overlap, ~StatusLossy PROVE Spec => []PaidIsNotPending
  <1>1. Init => PendingInv
    BY DEF Init, PendingInv, Resumable, InsidePosting
  <1>2. IInv /\ SerialInv /\ PendingInv /\ [Next]_vars => PendingInv'
    BY PendingStep DEF IInv, ControlInv
  <1>3. TypeOK /\ PendingInv => PaidIsNotPending
    BY ReferenceType DEF PendingInv, Unposted, PaidIsNotPending, Paid
  <1>4. IInv => TypeOK
    BY DEF IInv
  <1> QED BY <1>1, <1>2, <1>3, <1>4, InductiveInvariant, SerialInvariant, PTL DEF Spec
=============================================================================
