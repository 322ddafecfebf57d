--------------------------- MODULE ServiceProcess ---------------------------
(***************************************************************************)
(* What a process of the service builds once and keeps: the checkpointer   *)
(* and the two graphs, built by whichever calls come first.  Between two   *)
(* awaits nothing else runs; while a call connects or sets up, others may  *)
(* begin.  A saver is named after its store and the call that made it.     *)
(***************************************************************************)
EXTENDS Naturals, FiniteSets

CONSTANTS Calls, Runs, Nothing

ASSUME NothingAssumption ==
  /\ Nothing \notin Calls
  /\ \A c \in Calls \cup {Nothing} : Nothing # <<"postgres", c>> /\ Nothing # <<"memory", c>>

VARIABLES
  checkpointer,   \* _checkpointer
  manager,        \* the call whose context manager _checkpointer_cm is
  graphs,         \* _ap_graph and _ar_graph: the saver each was compiled with
  tables,         \* the checkpoint tables exist in Postgres
  closed,         \* connections that were closed
  pc,             \* where a call is
  request,        \* what it was asked for: [kind, run, resume]
  saver,          \* the saver of the graph it runs
  parked,         \* where the checkpoint of a waiting run is
  kindOf,         \* workflow_runs.kind
  outage,         \* some access to Postgres has failed
  overlapped      \* a call came while the checkpointer was being built

processVars == <<checkpointer, manager, graphs, tables, closed>>
callVars == <<pc, request, saver>>
history == <<outage, overlapped>>
serviceVars == <<processVars, callVars, parked, kindOf, history>>

Kinds == {"ap", "ar"}
Savers == {"postgres", "memory"} \X Calls
Points == {"idle", "connect", "setup", "invoke", "done", "missed", "failed", "dead"}
Building == {c \in Calls : pc[c] \in {"connect", "setup"}}

(* All savers on Postgres share its tables; one in memory is on its own.   *)
Shared == <<"postgres", Nothing>>
Lost == <<"memory", Nothing>>
Store(s) == IF s[1] = "postgres" THEN Shared ELSE s

ServiceInit ==
  /\ checkpointer = Nothing /\ manager = Nothing
  /\ graphs = [k \in Kinds |-> Nothing]
  /\ tables \in BOOLEAN
  /\ closed = {}
  /\ pc = [c \in Calls |-> "idle"]
  /\ request = [c \in Calls |-> Nothing]
  /\ saver = [c \in Calls |-> Nothing]
  /\ parked = [r \in Runs |-> Nothing]
  /\ kindOf = [r \in Runs |-> Nothing]
  /\ outage = FALSE /\ overlapped = FALSE

(* `_ap_graph = build_ap_graph(await get_checkpointer())`, with what is    *)
(* the checkpointer by then.                                               *)
Compile(c, s) ==
  /\ graphs' = [graphs EXCEPT ![request'[c].kind] = s]
  /\ saver' = [saver EXCEPT ![c] = s]
  /\ pc' = [pc EXCEPT ![c] = "invoke"]

(* A call needs its graph: it is there, or the checkpointer is, or the     *)
(* call begins to connect.                                                 *)
Enter(c) ==
  LET kind == request'[c].kind
  IN \/ /\ graphs[kind] # Nothing
        /\ saver' = [saver EXCEPT ![c] = graphs[kind]]
        /\ pc' = [pc EXCEPT ![c] = "invoke"]
        /\ UNCHANGED <<processVars, overlapped>>
     \/ /\ graphs[kind] = Nothing /\ checkpointer # Nothing
        /\ Compile(c, checkpointer)
        /\ overlapped' = (overlapped \/ Building # {})
        /\ UNCHANGED <<checkpointer, manager, tables, closed>>
     \/ /\ graphs[kind] = Nothing /\ checkpointer = Nothing
        /\ manager' = c
        /\ pc' = [pc EXCEPT ![c] = "connect"]
        /\ overlapped' = (overlapped \/ Building # {})
        /\ UNCHANGED <<checkpointer, graphs, tables, closed, saver>>

StartRun(c) ==
  /\ pc[c] = "idle"
  /\ \E r \in Runs, k \in Kinds :
       /\ kindOf[r] = Nothing
       /\ kindOf' = [kindOf EXCEPT ![r] = k]
       /\ request' = [request EXCEPT ![c] = [kind |-> k, run |-> r, resume |-> FALSE]]
  /\ Enter(c)
  /\ UNCHANGED <<parked, outage>>

(* The row says that the run awaits a decision; which store its thread is  *)
(* in, no row says.                                                        *)
ResumeRun(c) ==
  /\ pc[c] = "idle"
  /\ \E r \in Runs :
       /\ parked[r] # Nothing
       /\ request' = [request EXCEPT ![c] = [kind |-> kindOf[r], run |-> r, resume |-> TRUE]]
  /\ Enter(c)
  /\ UNCHANGED <<parked, kindOf, outage>>

(* Mutant: the saver that needs no database stays the default.             *)
ConnectedToNothing(c) ==
  /\ pc[c] = "connect"
  /\ checkpointer' = <<"memory", c>>
  /\ pc' = [pc EXCEPT ![c] = "setup"]
  /\ UNCHANGED <<manager, graphs, tables, closed, request, saver, parked, kindOf, history>>

(* __aenter__() returned: the checkpointer is there for all, setup() is    *)
(* still to come.                                                          *)
Connected(c) ==
  /\ pc[c] = "connect"
  /\ checkpointer' = <<"postgres", c>>
  /\ pc' = [pc EXCEPT ![c] = "setup"]
  /\ UNCHANGED <<manager, graphs, tables, closed, request, saver, parked, kindOf, history>>

(* Mutant: setup() is left to the operator.                                *)
NothingSetUp(c) ==
  /\ pc[c] = "setup" /\ <<"postgres", c>> \notin closed
  /\ UNCHANGED <<checkpointer, manager, tables, closed, request, parked, kindOf, history>>
  /\ Compile(c, checkpointer)

SetUp(c) ==
  /\ pc[c] = "setup" /\ <<"postgres", c>> \notin closed
  /\ tables' = TRUE
  /\ UNCHANGED <<checkpointer, manager, closed, request, parked, kindOf, history>>
  /\ Compile(c, checkpointer)

(* Any exception of the two: a saver in memory, in place of whatever       *)
(* checkpointer there is.                                                  *)
FallBack(c) ==
  /\ pc[c] \in {"connect", "setup"}
  /\ checkpointer' = <<"memory", c>>
  /\ outage' = (outage \/ <<"postgres", c>> \notin closed)
  /\ UNCHANGED <<manager, tables, closed, request, parked, kindOf, overlapped>>
  /\ Compile(c, checkpointer')

(* A context manager that _checkpointer_cm no longer holds is collected    *)
(* once it was entered, and its generator closes the connection, whoever   *)
(* has the saver still.                                                    *)
Forgotten(c) ==
  /\ \/ pc[c] = "setup"
     \/ <<"postgres", c>> \in {checkpointer} \cup {graphs[k] : k \in Kinds}
     \/ \E d \in Calls : pc[d] = "invoke" /\ saver[d] = <<"postgres", c>>
  /\ manager # c
  /\ <<"postgres", c>> \notin closed
  /\ closed' = closed \cup {<<"postgres", c>>}
  /\ UNCHANGED <<checkpointer, manager, graphs, tables, callVars, parked, kindOf, history>>

Usable(s) == s[1] = "memory" \/ (tables /\ s \notin closed)

(* ainvoke() of a new run, as far as the interrupt (or the end, for a      *)
(* remittance that waits in the queue).                                    *)
Park(c) ==
  /\ pc[c] = "invoke" /\ ~request[c].resume
  /\ Usable(saver[c])
  /\ parked' = [parked EXCEPT ![request[c].run] = Store(saver[c])]
  /\ pc' = [pc EXCEPT ![c] = "done"]
  /\ UNCHANGED <<processVars, request, saver, kindOf, history>>

(* ainvoke() of a decision: the thread is in this saver's store, or it is  *)
(* unknown there and the decision is for nothing.                          *)
Decide(c) ==
  /\ pc[c] = "invoke" /\ request[c].resume
  /\ Usable(saver[c])
  /\ pc' = [pc EXCEPT ![c] = IF parked[request[c].run] = Store(saver[c]) THEN "done" ELSE "missed"]
  /\ UNCHANGED <<processVars, request, saver, parked, kindOf, history>>

(* The saver raises: there is no table yet, its connection is closed, or   *)
(* Postgres cannot be reached.                                             *)
InvokeFails(c) ==
  /\ pc[c] = "invoke" /\ saver[c][1] = "postgres"
  /\ pc' = [pc EXCEPT ![c] = "failed"]
  /\ outage' = (outage \/ Usable(saver[c]))
  /\ UNCHANGED <<processVars, request, saver, parked, kindOf, overlapped>>

(* The process ends, by a crash or by lifespan(), and another starts: what *)
(* was in memory is gone, the rows still say that the runs wait.           *)
Restart ==
  /\ checkpointer' = Nothing /\ manager' = Nothing
  /\ graphs' = [k \in Kinds |-> Nothing]
  /\ closed' = {}
  /\ pc' = [c \in Calls |-> IF pc[c] \in {"connect", "setup", "invoke"} THEN "dead" ELSE pc[c]]
  /\ parked' = [r \in Runs |-> IF parked[r] \in Savers THEN Lost ELSE parked[r]]
  /\ UNCHANGED <<tables, request, saver, kindOf, history>>

Serve(c) ==
  \/ StartRun(c) \/ ResumeRun(c)
  \/ Connected(c) \/ SetUp(c) \/ FallBack(c) \/ Forgotten(c)
  \/ Park(c) \/ Decide(c) \/ InvokeFails(c)

ServiceNext == (\E c \in Calls : Serve(c)) \/ Restart

ServiceSpec == ServiceInit /\ [][ServiceNext]_serviceVars

-----------------------------------------------------------------------------
(* Properties                                                              *)

(* "Postgres-backed so an interrupted run survives a restart": a decision  *)
(* finds the thread of its run, through any number of restarts, unless     *)
(* Postgres has failed once or a call came into another's building of the  *)
(* checkpointer (get_checkpointer).                                        *)
DecisionsFindTheirRun ==
  outage \/ overlapped \/ \A c \in Calls : pc[c] # "missed"

(* The saver of a graph works whenever Postgres does: no run fails on      *)
(* tables that setup() has not made or on a closed connection, unless a    *)
(* call came into another's building of the checkpointer.                  *)
SaversWork ==
  outage \/ overlapped \/ \A c \in Calls : pc[c] # "failed"
=============================================================================
