------------------------ MODULE ServiceProcessProofs ------------------------
(***************************************************************************)
(* Proofs about ServiceProcess, for any calls and runs and any number of   *)
(* restarts.  As long as Postgres has not failed and nobody came into the  *)
(* building of the checkpointer, there is one saver in the process, that   *)
(* of the call whose context manager is kept, and it has its tables before *)
(* anybody runs a graph on it; so no connection is closed under a graph    *)
(* and every thread is in the one store that outlives the process.         *)
(***************************************************************************)
EXTENDS ServiceProcess, TLAPS

Active(c) == pc[c] \in {"connect", "setup", "invoke"}
Kept == <<"postgres", manager>>

Typed ==
  /\ pc \in [Calls -> Points]
  /\ DOMAIN request = Calls
  /\ saver \in [Calls -> Savers \cup {Nothing}]
  /\ graphs \in [Kinds -> Savers \cup {Nothing}]
  /\ DOMAIN parked = Runs
  /\ DOMAIN kindOf = Runs

(* A call under way knows its run, and a decision was asked of a run whose *)
(* thread is in Postgres.                                                  *)
Asked ==
  \A c \in Calls : Active(c) =>
    /\ request[c].run \in Runs
    /\ request[c].kind \in Kinds /\ kindOf[request[c].run] \in Kinds
    /\ request[c].resume \in BOOLEAN
    /\ request[c].resume => parked[request[c].run] = Shared

Durable ==
  \A r \in Runs :
    /\ parked[r] \in {Nothing, Shared}
    /\ parked[r] # Nothing => kindOf[r] \in Kinds

(* Whoever builds is the one whose context manager is kept, and before     *)
(* that is done nobody has a graph.                                        *)
OneBuilder ==
  \A c \in Building :
    /\ manager = c
    /\ checkpointer = IF pc[c] = "connect" THEN Nothing ELSE Kept
    /\ graphs = [k \in Kinds |-> Nothing]
    /\ \A d \in Calls : pc[d] # "invoke"

OneSaver ==
  /\ checkpointer \in {Nothing, Kept}
  /\ checkpointer = Kept => manager \in Calls
  /\ checkpointer = Kept /\ Building = {} => tables
  /\ \A k \in Kinds : graphs[k] \in {Nothing, checkpointer}
  /\ \A c \in Calls : pc[c] = "invoke" => checkpointer = Kept /\ saver[c] = Kept
  /\ closed = {}

Served == \A c \in Calls : pc[c] \notin {"missed", "failed"}

Sound == Typed /\ Asked /\ Durable /\ OneBuilder /\ OneSaver /\ Served

ServiceInv ==
  /\ outage \in BOOLEAN /\ overlapped \in BOOLEAN
  /\ outage \/ overlapped \/ Sound
-----------------------------------------------------------------------------
LEMMA NothingIsNothing ==
  /\ Shared \notin Savers /\ Shared # Nothing
  /\ Nothing \notin Savers
  /\ \A c \in Calls : <<"postgres", c>> \in Savers /\ <<"memory", c>> \in Savers
  BY NothingAssumption DEF Shared, Savers

LEMMA ServiceInitInv ==
  ASSUME ServiceInit
  PROVE  ServiceInv
  <1> USE NothingAssumption DEF ServiceInit, Points, Building
  <1>1. Typed
    BY DEF Typed
  <1>2. Asked /\ Durable /\ OneBuilder /\ OneSaver /\ Served
    BY DEF Asked, Active, Durable, OneBuilder, OneSaver, Served, Kept
  <1> QED BY <1>1, <1>2 DEF ServiceInv, Sound

(* A call that needs a graph takes the one there is, compiles it with the  *)
(* checkpointer that was set up, or is the one to build it.                *)
LEMMA EnterStep ==
  ASSUME Sound, NEW c \in Calls, pc[c] = "idle", Enter(c),
         request'[c].kind \in Kinds, ~overlapped'
  PROVE  /\ pc'[c] \in {"connect", "invoke"} /\ pc' = [pc EXCEPT ![c] = pc'[c]]
         /\ UNCHANGED <<checkpointer, tables, closed>>
         /\ saver' \in [Calls -> Savers \cup {Nothing}]
         /\ graphs' \in [Kinds -> Savers \cup {Nothing}]
         /\ \A d \in Calls \ {c} : saver'[d] = saver[d]
         /\ pc'[c] = "invoke" => /\ manager' = manager /\ checkpointer = Kept /\ saver'[c] = Kept
                                 /\ Building = {}
                                 /\ \A k \in Kinds : graphs'[k] \in {Nothing, Kept}
         /\ pc'[c] = "connect" => /\ manager' = c /\ checkpointer = Nothing
                                  /\ Building = {} /\ graphs' = graphs
                                  /\ graphs = [k \in Kinds |-> Nothing]
  <1> DEFINE kind == request'[c].kind
  <1> USE DEF Sound
  <1>1. /\ graphs[kind] \in {Nothing, checkpointer} /\ checkpointer \in {Nothing, Kept}
        /\ checkpointer = Kept => Kept \in Savers /\ Kept # Nothing
    BY NothingIsNothing DEF OneSaver, Kept
  <1>2. CASE graphs[kind] # Nothing
    <2>1. /\ saver' = [saver EXCEPT ![c] = graphs[kind]]
          /\ pc' = [pc EXCEPT ![c] = "invoke"]
          /\ UNCHANGED processVars
      BY <1>2 DEF Enter
    <2>2. graphs[kind] = Kept /\ checkpointer = Kept
      BY <1>1, <1>2
    <2>3. Building = {}
      BY <1>2 DEF OneBuilder
    <2> QED BY <1>1, <2>1, <2>2, <2>3 DEF processVars, Typed, OneSaver
  <1>3. CASE graphs[kind] = Nothing /\ checkpointer # Nothing
    <2>1. /\ graphs' = [graphs EXCEPT ![kind] = checkpointer]
          /\ saver' = [saver EXCEPT ![c] = checkpointer]
          /\ pc' = [pc EXCEPT ![c] = "invoke"]
          /\ UNCHANGED <<checkpointer, manager, tables, closed>>
          /\ Building = {}
      BY <1>3 DEF Enter, Compile
    <2>2. checkpointer = Kept
      BY <1>1, <1>3
    <2> QED BY <1>1, <2>1, <2>2 DEF Typed, OneSaver
  <1>4. CASE graphs[kind] = Nothing /\ checkpointer = Nothing
    <2>1. /\ manager' = c
          /\ pc' = [pc EXCEPT ![c] = "connect"]
          /\ Building = {}
          /\ UNCHANGED <<checkpointer, graphs, tables, closed, saver>>
      BY <1>4 DEF Enter
    <2>2. graphs = [k \in Kinds |-> Nothing]
      BY <1>4 DEF OneSaver, Typed
    <2> QED BY <1>4, <2>1, <2>2 DEF Typed
  <1> QED BY <1>2, <1>3, <1>4

(* After it, the process is sound again if what was asked is.              *)
LEMMA EnterKeeps ==
  ASSUME Sound, NEW c \in Calls, pc[c] = "idle", Enter(c), ~overlapped',
         NEW q \in [kind : Kinds, run : Runs, resume : BOOLEAN],
         request' = [request EXCEPT ![c] = q],
         parked' = parked,
         DOMAIN kindOf' = Runs,
         \A r \in Runs : kindOf[r] \in Kinds => kindOf'[r] \in Kinds,
         kindOf'[q.run] \in Kinds,
         q.resume => parked[q.run] = Shared
  PROVE  Sound'
  <1> USE DEF Sound
  <1>1. request'[c] = q /\ DOMAIN request' = Calls
        /\ \A d \in Calls \ {c} : request'[d] = request[d]
    BY DEF Typed
  <1>2. /\ pc'[c] \in {"connect", "invoke"} /\ pc' = [pc EXCEPT ![c] = pc'[c]]
        /\ UNCHANGED <<checkpointer, tables, closed>>
        /\ saver' \in [Calls -> Savers \cup {Nothing}]
        /\ graphs' \in [Kinds -> Savers \cup {Nothing}]
        /\ \A d \in Calls \ {c} : saver'[d] = saver[d]
        /\ pc'[c] = "invoke" => /\ manager' = manager /\ checkpointer = Kept /\ saver'[c] = Kept
                                /\ Building = {}
                                /\ \A k \in Kinds : graphs'[k] \in {Nothing, Kept}
        /\ pc'[c] = "connect" => /\ manager' = c /\ checkpointer = Nothing
                                 /\ Building = {} /\ graphs' = graphs
                                 /\ graphs = [k \in Kinds |-> Nothing]
    BY <1>1, EnterStep
  <1>3. \A d \in Calls \ {c} : pc'[d] = pc[d]
    BY <1>2 DEF Typed
  <1>4. Typed'
    BY <1>1, <1>2 DEF Typed, Points
  <1>5. Asked'
    BY <1>1, <1>2, <1>3 DEF Asked, Active
  <1>6. Durable' /\ Served'
    BY <1>2, <1>3 DEF Durable, Served
  <1>7. CASE pc'[c] = "invoke"
    <2>1. Building' = {}
      BY <1>2, <1>3, <1>7 DEF Building
    <2>2. Kept' = Kept
      BY <1>2, <1>7 DEF Kept
    <2>3. OneBuilder' /\ OneSaver'
      BY <1>2, <1>3, <1>7, <2>1, <2>2 DEF OneBuilder, OneSaver
    <2> QED BY <1>4, <1>5, <1>6, <2>3
  <1>8. CASE pc'[c] = "connect"
    <2>1. Building' = {c}
      BY <1>2, <1>3, <1>8 DEF Building
    <2>2. checkpointer' = Nothing /\ \A d \in Calls : pc'[d] # "invoke"
      <3>1. Kept # Nothing \/ manager \notin Calls
        BY NothingAssumption DEF Kept
      <3> QED BY <1>2, <1>3, <1>8, <3>1 DEF OneSaver
    <2>3. OneBuilder'
      BY <1>2, <1>8, <2>1, <2>2 DEF OneBuilder
    <2>4. OneSaver'
      <3>1. Kept' # Nothing
        BY <1>2, <1>8, NothingAssumption DEF Kept
      <3> QED BY <1>2, <1>8, <2>1, <2>2, <3>1 DEF OneSaver
    <2> QED BY <1>4, <1>5, <1>6, <2>3, <2>4
  <1> QED BY <1>2, <1>7, <1>8

(* Every other step of a call, and a restart.                              *)
LEMMA ServeStep ==
  ASSUME ServiceInv, NEW c \in Calls, Serve(c)
  PROVE  ServiceInv'
  <1>1. outage' \in BOOLEAN /\ overlapped' \in BOOLEAN
        /\ (outage \/ overlapped => outage' \/ overlapped')
    BY DEF ServiceInv, Serve, StartRun, ResumeRun, Enter, Connected, SetUp, FallBack, Forgotten,
           Park, Decide, InvokeFails, history
  <1> SUFFICES ASSUME Sound, ~outage', ~overlapped' PROVE Sound'
    BY <1>1 DEF ServiceInv
  <1> USE DEF Sound
  <1>4. CASE StartRun(c)
    <2>1. PICK r \in Runs, k \in Kinds :
            /\ kindOf[r] = Nothing
            /\ kindOf' = [kindOf EXCEPT ![r] = k]
            /\ request' = [request EXCEPT ![c] = [kind |-> k, run |-> r, resume |-> FALSE]]
      BY <1>4 DEF StartRun
    <2> DEFINE q == [kind |-> k, run |-> r, resume |-> FALSE]
    <2>2. q \in [kind : Kinds, run : Runs, resume : BOOLEAN] /\ q.run = r /\ ~q.resume
      OBVIOUS
    <2>3. pc[c] = "idle" /\ Enter(c) /\ parked' = parked
      BY <1>4 DEF StartRun
    <2>4. /\ DOMAIN kindOf' = Runs /\ kindOf'[r] = k
          /\ \A s \in Runs : kindOf[s] \in Kinds => kindOf'[s] \in Kinds
      BY <2>1 DEF Typed
    <2> HIDE DEF q
    <2> QED BY <2>1, <2>2, <2>3, <2>4, EnterKeeps DEF q
  <1>5. CASE ResumeRun(c)
    <2>1. PICK r \in Runs :
            /\ parked[r] # Nothing
            /\ request' = [request EXCEPT ![c] = [kind |-> kindOf[r], run |-> r, resume |-> TRUE]]
      BY <1>5 DEF ResumeRun
    <2> DEFINE q == [kind |-> kindOf[r], run |-> r, resume |-> TRUE]
    <2>2. kindOf[r] \in Kinds /\ parked[r] = Shared
      BY <2>1 DEF Durable
    <2>3. q \in [kind : Kinds, run : Runs, resume : BOOLEAN] /\ q.run = r
      BY <2>2
    <2>4. pc[c] = "idle" /\ Enter(c) /\ parked' = parked /\ kindOf' = kindOf
      BY <1>5 DEF ResumeRun
    <2>5. DOMAIN kindOf' = Runs
      BY <2>4 DEF Typed
    <2> HIDE DEF q
    <2> QED BY <2>1, <2>2, <2>3, <2>4, <2>5, EnterKeeps DEF q
  <1>6. CASE Connected(c)
    <2>1. /\ pc[c] = "connect" /\ pc' = [pc EXCEPT ![c] = "setup"]
          /\ checkpointer' = Kept /\ manager = c
          /\ UNCHANGED <<manager, graphs, tables, closed, request, saver, parked, kindOf>>
      BY <1>6 DEF Connected, OneBuilder, Building, Kept
    <2>2. \A d \in Calls : pc'[d] = IF d = c THEN "setup" ELSE pc[d]
      BY <2>1 DEF Typed
    <2>3. Building' = Building /\ Building = {c}
      BY <2>1, <2>2 DEF Building, OneBuilder
    <2>4. Kept' = Kept
      BY <2>1 DEF Kept
    <2>5. Typed' /\ Asked' /\ Durable' /\ Served'
      BY <2>1, <2>2 DEF Typed, Asked, Active, Durable, Served, Points
    <2>6. graphs = [k \in Kinds |-> Nothing] /\ \A d \in Calls : pc[d] # "invoke"
      BY <2>3 DEF OneBuilder
    <2>7. OneBuilder'
      BY <2>1, <2>2, <2>3, <2>4, <2>6 DEF OneBuilder
    <2>8. OneSaver'
      BY <2>1, <2>2, <2>3, <2>4, <2>6 DEF OneSaver
    <2> QED BY <2>5, <2>7, <2>8
  <1>7. CASE SetUp(c)
    <2>1. /\ pc[c] = "setup" /\ pc' = [pc EXCEPT ![c] = "invoke"]
          /\ checkpointer = Kept /\ manager = c /\ tables'
          /\ graphs' = [graphs EXCEPT ![request[c].kind] = Kept]
          /\ saver' = [saver EXCEPT ![c] = Kept]
          /\ UNCHANGED <<checkpointer, manager, closed, request, parked, kindOf>>
      BY <1>7 DEF SetUp, Compile, OneBuilder, Building
    <2>2. \A d \in Calls : pc'[d] = IF d = c THEN "invoke" ELSE pc[d]
      BY <2>1 DEF Typed
    <2>3. Kept' = Kept /\ Kept \in Savers
      BY <2>1, NothingIsNothing DEF Kept
    <2>4. Building = {c} /\ Building' = {}
      BY <2>1, <2>2 DEF Building, OneBuilder
    <2>5. Typed'
      BY <2>1, <2>3 DEF Typed, Points
    <2>6. Asked' /\ Durable' /\ Served'
      BY <2>1, <2>2 DEF Asked, Active, Durable, Served
    <2>7. OneBuilder'
      BY <2>4 DEF OneBuilder
    <2>8. OneSaver'
      <3>1. \A d \in Calls \ {c} : pc'[d] # "invoke"
        BY <2>2, <2>4 DEF OneBuilder
      <3>2. saver'[c] = Kept /\ \A k \in Kinds : graphs'[k] \in {Nothing, Kept}
        BY <2>1 DEF Typed, OneSaver
      <3> QED BY <2>1, <2>3, <3>1, <3>2 DEF OneSaver
    <2> QED BY <2>5, <2>6, <2>7, <2>8
  <1>8. CASE FallBack(c)
    <2>1. outage'
      BY <1>8 DEF FallBack, OneSaver
    <2> QED BY <2>1
  <1>9. CASE Forgotten(c)
    <2>1. <<"postgres", c>> = Kept
      <3>1. CASE pc[c] = "setup"
        BY <1>9, <3>1 DEF Forgotten, OneBuilder, Building
      <3>2. CASE \/ <<"postgres", c>> \in {checkpointer} \cup {graphs[k] : k \in Kinds}
                 \/ \E d \in Calls : pc[d] = "invoke" /\ saver[d] = <<"postgres", c>>
        BY <3>2, NothingAssumption DEF OneSaver
      <3> QED BY <1>9, <3>1, <3>2 DEF Forgotten
    <2> QED BY <1>9, <2>1 DEF Forgotten, Kept
  <1>10. CASE Park(c)
    <2>1. /\ pc[c] = "invoke" /\ pc' = [pc EXCEPT ![c] = "done"] /\ ~request[c].resume
          /\ parked' = [parked EXCEPT ![request[c].run] = Shared]
          /\ UNCHANGED <<checkpointer, manager, graphs, tables, closed, request, saver, kindOf>>
      <3>1. pc[c] = "invoke" /\ saver[c] = Kept
        BY <1>10 DEF Park, OneSaver
      <3>2. Store(saver[c]) = Shared
        BY <3>1 DEF Store, Kept
      <3> QED BY <1>10, <3>1, <3>2 DEF Park, processVars
    <2>2. /\ \A d \in Calls : pc'[d] = IF d = c THEN "done" ELSE pc[d]
          /\ Building' = Building /\ Kept' = Kept
      <3>1. \A d \in Calls : pc'[d] = IF d = c THEN "done" ELSE pc[d]
        BY <2>1 DEF Typed
      <3> QED BY <2>1, <3>1 DEF Building, Kept
    <2>3. request[c].run \in Runs /\ kindOf[request[c].run] \in Kinds
      BY <2>1 DEF Asked, Active
    <2>4. \A r \in Runs : parked'[r] = IF r = request[c].run THEN Shared ELSE parked[r]
      BY <2>1 DEF Typed
    <2>5. Typed' /\ Asked' /\ Durable' /\ Served'
      BY <2>1, <2>2, <2>3, <2>4 DEF Typed, Asked, Active, Durable, Served, Points
    <2>6. OneBuilder' /\ OneSaver'
      BY <2>1, <2>2 DEF OneBuilder, OneSaver
    <2> QED BY <2>5, <2>6
  <1>11. CASE Decide(c)
    <2>1. /\ pc[c] = "invoke" /\ pc' = [pc EXCEPT ![c] = "done"]
          /\ UNCHANGED <<checkpointer, manager, graphs, tables, closed, request, saver, parked,
                         kindOf>>
      <3>1. pc[c] = "invoke" /\ request[c].resume /\ saver[c] = Kept
        BY <1>11 DEF Decide, OneSaver
      <3>2. Store(saver[c]) = Shared
        BY <3>1 DEF Store, Kept
      <3>3. parked[request[c].run] = Shared
        BY <3>1 DEF Asked, Active
      <3> QED BY <1>11, <3>1, <3>2, <3>3 DEF Decide, processVars
    <2>2. /\ \A d \in Calls : pc'[d] = IF d = c THEN "done" ELSE pc[d]
          /\ Building' = Building /\ Kept' = Kept
      <3>1. \A d \in Calls : pc'[d] = IF d = c THEN "done" ELSE pc[d]
        BY <2>1 DEF Typed
      <3> QED BY <2>1, <3>1 DEF Building, Kept
    <2>3. Typed' /\ Asked' /\ Durable' /\ Served'
      BY <2>1, <2>2 DEF Typed, Asked, Active, Durable, Served, Points
    <2>4. OneBuilder' /\ OneSaver'
      BY <2>1, <2>2 DEF OneBuilder, OneSaver
    <2> QED BY <2>3, <2>4
  <1>12. CASE InvokeFails(c)
    <2>1. checkpointer = Kept /\ saver[c] = Kept /\ closed = {} /\ pc[c] = "invoke"
      BY <1>12 DEF InvokeFails, OneSaver
    <2>2. tables
      BY <2>1 DEF OneSaver, OneBuilder
    <2>3. outage'
      BY <1>12, <2>1, <2>2 DEF InvokeFails, Usable
    <2> QED BY <2>3
  <1> QED BY <1>4, <1>5, <1>6, <1>7, <1>8, <1>9, <1>10, <1>11, <1>12 DEF Serve

(* A restart forgets the process, and no thread: none was in memory.       *)
LEMMA RestartStep ==
  ASSUME ServiceInv, Restart
  PROVE  ServiceInv'
  <1>1. outage' = outage /\ overlapped' = overlapped
    BY DEF Restart, history
  <1> SUFFICES ASSUME Sound PROVE Sound'
    BY <1>1 DEF ServiceInv
  <1> USE DEF Sound, Restart
  <1>2. \A d \in Calls : /\ pc'[d] \notin {"connect", "setup", "invoke"}
                         /\ pc'[d] \in {pc[d], "dead"}
    OBVIOUS
  <1>3. \A r \in Runs : parked'[r] = parked[r]
    BY NothingIsNothing DEF Durable
  <1>4. Typed'
    BY DEF Typed, Points
  <1>5. Building' = {} /\ Kept' # Nothing
    BY <1>2, NothingAssumption DEF Building, Kept
  <1>6. Asked' /\ Durable' /\ Served'
    BY <1>2, <1>3 DEF Asked, Active, Durable, Served
  <1>7. OneBuilder' /\ OneSaver'
    BY <1>2, <1>5 DEF OneBuilder, OneSaver
  <1> QED BY <1>4, <1>6, <1>7

LEMMA ServiceStep ==
  ASSUME ServiceInv, [ServiceNext]_serviceVars
  PROVE  ServiceInv'
  <1>1. CASE ServiceNext
    BY <1>1, ServeStep, RestartStep DEF ServiceNext
  <1>2. CASE UNCHANGED serviceVars
    BY <1>2 DEF serviceVars, processVars, callVars, history, ServiceInv, Sound, Typed, Asked,
                Active, Durable, OneBuilder, Building, OneSaver, Kept, Served
  <1> QED BY <1>1, <1>2

(* The invariant of the process, over restarts and outages.                *)
THEOREM ServiceInvariant == ServiceSpec => []ServiceInv
  BY ServiceInitInv, ServiceStep, PTL DEF ServiceSpec

(* A decision finds the thread of its run in the store (resume_run): the   *)
(* claim that an interrupted run survives a restart, and its condition.    *)
THEOREM DecisionsAreNotMissed == ServiceSpec => []DecisionsFindTheirRun
  <1>1. ServiceInv => DecisionsFindTheirRun
    BY DEF ServiceInv, Sound, Served, DecisionsFindTheirRun
  <1> QED BY <1>1, ServiceInvariant, PTL

(* get_checkpointer hands out no saver without tables and none whose       *)
(* connection was closed, under the same condition.                        *)
THEOREM SaversAreUsable == ServiceSpec => []SaversWork
  <1>1. ServiceInv => SaversWork
    BY DEF ServiceInv, Sound, Served, SaversWork
  <1> QED BY <1>1, ServiceInvariant, PTL
=============================================================================
