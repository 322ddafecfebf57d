---------------------------- MODULE ErpService ----------------------------
(***************************************************************************)
(* The mock ERP's writing handlers, which FastAPI runs in a pool of        *)
(* threads.  A step is a stretch of Python between two places where the    *)
(* interpreter may switch threads, which are its calls: the search for a   *)
(* reference and the append are two steps, the statement that lowers an    *)
(* open amount, which reads and writes it, is one because CPython does not *)
(* switch inside it.  An order or a receivable found before a reseed is  *)
(* an object that nobody else sees any more: each seeding has its own.     *)
(***************************************************************************)
EXTENDS Integers, Sequences, FiniteSets, Functions

CONSTANTS
  Handlers,             \* the requests that arrive, each handled once
  References, Orders, Items, Amounts,
  Original,             \* AR_ITEMS: item -> original_amount
  NoOrder, UnknownOrder, UnknownItem

ASSUME ErpAssumption ==
  /\ Amounts \subseteq Int
  /\ Original \in [Items -> Nat \ {0}]
  /\ Orders \cap {NoOrder, UnknownOrder} = {} /\ UnknownItem \notin Items

VARIABLES
  serial,               \* one request at a time, as if there were no pool
  journals,             \* _state["journals"]
  seeding,              \* how often _state["purchase_orders"] was seeded
  invoiced,             \* the orders whose status is "invoiced"
  openAmount,           \* what is open of the receivables, seeding by seeding
  cleared,              \* those whose status is "cleared"
  applications,         \* _state["applications"]
  docCounter, appCounter,
  pc, request,          \* the handler, and what was asked of it
  held,                 \* the seeding it has its order or its item from
  applied, number       \* its locals

orders == <<seeding, invoiced>>
stores == <<journals, orders, openAmount, cleared, applications>>
counters == <<docCounter, appCounter>>
handlers == <<pc, request, held, applied, number>>
erpVars == <<serial, stores, counters, handlers>>

(* A request may name an order or a receivable the ERP does not have.      *)
PostRequests ==
  [kind : {"post"}, reference : References, order : Orders \cup {NoOrder, UnknownOrder}]
CashRequests == [kind : {"cash"}, item : Items \cup {UnknownItem}, amount : Amounts]
NoRequest == [kind |-> "none"]

PostPoints == {"post.search", "post.number", "post.append", "post.find", "post.mark"}
CashPoints == {"cash.find", "cash.min", "cash.lower", "cash.status", "cash.number", "cash.append"}
Points == PostPoints \cup CashPoints \cup {"idle", "reseed", "done", "refused"}
-----------------------------------------------------------------------------
ErpInit ==
  /\ serial \in BOOLEAN
  /\ journals = {} /\ applications = {}
  /\ seeding = 1 /\ invoiced = {}
  /\ openAmount = <<Original>> /\ cleared = {}
  /\ docCounter = 1 /\ appCounter = 1
  /\ pc = [h \in Handlers |-> "idle"]
  /\ request = [h \in Handlers |-> NoRequest]
  /\ held = [h \in Handlers |-> 0]
  /\ applied = [h \in Handlers |-> 0]
  /\ number = [h \in Handlers |-> 0]

Running == {h \in Handlers : pc[h] \in PostPoints \cup CashPoints \cup {"reseed"}}

Go(h, point) == pc' = [pc EXCEPT ![h] = point]

(* POST /erp/v1/journal-entries; an entry that does not balance is refused *)
(* before anything else.                                                   *)
AcceptPosting(h) ==
  /\ pc[h] = "idle"
  /\ serial => Running = {}
  /\ \E r \in PostRequests, balanced \in BOOLEAN :
       /\ request' = [request EXCEPT ![h] = r]
       /\ Go(h, IF balanced THEN "post.search" ELSE "refused")
  /\ UNCHANGED <<serial, stores, counters, held, applied, number>>

SearchReference(h) ==
  /\ pc[h] = "post.search"
  /\ Go(h, IF \E j \in journals : j.reference = request[h].reference THEN "refused" ELSE "post.number")
  /\ UNCHANGED <<serial, stores, counters, request, held, applied, number>>

(* Mutant: documents are numbered by how many there are.                   *)
NumberByCount(h) ==
  /\ pc[h] = "post.number"
  /\ number' = [number EXCEPT ![h] = Cardinality(journals) + 1]
  /\ docCounter' = docCounter + 1
  /\ Go(h, "post.append")
  /\ UNCHANGED <<serial, stores, appCounter, request, held, applied>>

(* next(_doc_counter)                                                      *)
TakeNumber(h) ==
  /\ pc[h] = "post.number"
  /\ number' = [number EXCEPT ![h] = docCounter]
  /\ docCounter' = docCounter + 1
  /\ Go(h, "post.append")
  /\ UNCHANGED <<serial, stores, appCounter, request, held, applied>>

AppendDocument(h) ==
  /\ pc[h] = "post.append"
  /\ journals' = journals \cup
       {[number |-> number[h], reference |-> request[h].reference, order |-> request[h].order]}
  /\ Go(h, IF request[h].order = NoOrder THEN "done" ELSE "post.find")
  /\ UNCHANGED <<serial, orders, openAmount, cleared, applications, counters,
                 request, held, applied, number>>

(* The order the entry names, if there is one of that number.              *)
FindOrder(h) ==
  /\ pc[h] = "post.find"
  /\ held' = [held EXCEPT ![h] = seeding]
  /\ Go(h, IF request[h].order \in Orders THEN "post.mark" ELSE "done")
  /\ UNCHANGED <<serial, stores, counters, request, applied, number>>

(* Every line of it counts as invoiced.                                    *)
ConsumeOrder(h) ==
  /\ pc[h] = "post.mark"
  /\ invoiced' = IF held[h] = seeding THEN invoiced \cup {request[h].order} ELSE invoiced
  /\ Go(h, "done")
  /\ UNCHANGED <<serial, journals, seeding, openAmount, cleared, applications, counters,
                 request, held, applied, number>>

(* POST /erp/v1/ar-items/{id}/apply-cash                                   *)
AcceptCash(h) ==
  /\ pc[h] = "idle"
  /\ serial => Running = {}
  /\ \E r \in CashRequests : request' = [request EXCEPT ![h] = r]
  /\ Go(h, "cash.find")
  /\ UNCHANGED <<serial, stores, counters, held, applied, number>>

(* The item is found, if there is one of that id, and refused unless its   *)
(* status is "open".                                                       *)
FindItem(h) ==
  /\ pc[h] = "cash.find"
  /\ held' = [held EXCEPT ![h] = Len(openAmount)]
  /\ Go(h, IF request[h].item \in Items \ cleared THEN "cash.min" ELSE "refused")
  /\ UNCHANGED <<serial, stores, counters, request, applied, number>>

(* min(payload.amount, item["open_amount"])                                *)
LimitAmount(h) ==
  /\ pc[h] = "cash.min"
  /\ LET asked == request[h].amount
         rest == openAmount[held[h]][request[h].item]
     IN applied' = [applied EXCEPT ![h] = IF asked < rest THEN asked ELSE rest]
  /\ Go(h, "cash.lower")
  /\ UNCHANGED <<serial, stores, counters, request, held, number>>

Lower(h) ==
  /\ pc[h] = "cash.lower"
  /\ openAmount' = [openAmount EXCEPT ![held[h]][request[h].item] = @ - applied[h]]
  /\ Go(h, "cash.status")
  /\ UNCHANGED <<serial, journals, orders, cleared, applications, counters,
                 request, held, applied, number>>

Current == openAmount[Len(openAmount)]
IsCurrent(h) == held[h] = Len(openAmount)

(* Mutant: an item is cleared only when it is paid too much.               *)
ClearBelowZero(h) ==
  /\ pc[h] = "cash.status"
  /\ cleared' = IF IsCurrent(h) /\ Current[request[h].item] < 0
                THEN cleared \cup {request[h].item} ELSE cleared
  /\ Go(h, "cash.number")
  /\ UNCHANGED <<serial, journals, orders, openAmount, applications, counters,
                 request, held, applied, number>>

ClearItem(h) ==
  /\ pc[h] = "cash.status"
  /\ cleared' = IF IsCurrent(h) /\ Current[request[h].item] <= 0
                THEN cleared \cup {request[h].item} ELSE cleared
  /\ Go(h, "cash.number")
  /\ UNCHANGED <<serial, journals, orders, openAmount, applications, counters,
                 request, held, applied, number>>

(* next(_app_counter)                                                      *)
NumberApplication(h) ==
  /\ pc[h] = "cash.number"
  /\ number' = [number EXCEPT ![h] = appCounter]
  /\ appCounter' = appCounter + 1
  /\ Go(h, "cash.append")
  /\ UNCHANGED <<serial, stores, docCounter, request, held, applied>>

(* Mutant: the application says what was asked for.                        *)
AppendAsked(h) ==
  /\ pc[h] = "cash.append"
  /\ applications' = applications \cup
       {[number |-> number[h], item |-> request[h].item, applied |-> request[h].amount, of |-> held[h]]}
  /\ Go(h, "done")
  /\ UNCHANGED <<serial, journals, orders, openAmount, cleared, counters,
                 request, held, applied, number>>

(* `of` is not in the code: it says which seeding's item was lowered.      *)
AppendApplication(h) ==
  /\ pc[h] = "cash.append"
  /\ applications' = applications \cup
       {[number |-> number[h], item |-> request[h].item, applied |-> applied[h], of |-> held[h]]}
  /\ Go(h, "done")
  /\ UNCHANGED <<serial, journals, orders, openAmount, cleared, counters,
                 request, held, applied, number>>

(* POST /admin/reseed and the start: the orders are replaced before the    *)
(* rest is copied; the counters go on.                                     *)
ReseedOrders(h) ==
  /\ pc[h] = "idle"
  /\ serial => Running = {}
  /\ seeding' = seeding + 1 /\ invoiced' = {}
  /\ Go(h, "reseed")
  /\ UNCHANGED <<serial, journals, openAmount, cleared, applications, counters,
                 request, held, applied, number>>

ReseedLedgers(h) ==
  /\ pc[h] = "reseed"
  /\ openAmount' = Append(openAmount, Original) /\ cleared' = {}
  /\ journals' = {} /\ applications' = {}
  /\ Go(h, "done")
  /\ UNCHANGED <<serial, orders, counters, request, held, applied, number>>

Handle(h) ==
  \/ AcceptPosting(h) \/ SearchReference(h) \/ TakeNumber(h) \/ AppendDocument(h)
  \/ FindOrder(h) \/ ConsumeOrder(h)
  \/ AcceptCash(h) \/ FindItem(h) \/ LimitAmount(h) \/ Lower(h) \/ ClearItem(h)
  \/ NumberApplication(h) \/ AppendApplication(h)
  \/ ReseedOrders(h) \/ ReseedLedgers(h)

ErpNext == \E h \in Handlers : Handle(h)

ErpSpec == ErpInit /\ [][ErpNext]_erpVars
-----------------------------------------------------------------------------
ErpTypeOK ==
  /\ serial \in BOOLEAN
  /\ journals \subseteq [number : Nat \ {0}, reference : References, order : Orders \cup {NoOrder, UnknownOrder}]
  /\ seeding \in Nat \ {0} /\ invoiced \subseteq Orders
  /\ openAmount \in Seq([Items -> Int]) /\ openAmount # <<>> /\ cleared \subseteq Items
  /\ applications \subseteq [number : Nat \ {0}, item : Items, applied : Int, of : Nat]
  /\ docCounter \in Nat \ {0} /\ appCounter \in Nat \ {0}
  /\ pc \in [Handlers -> Points]
  /\ \A h \in Handlers :
       /\ pc[h] \in PostPoints => request[h] \in PostRequests
       /\ pc[h] \in CashPoints => request[h] \in CashRequests
       /\ pc[h] \in CashPoints \ {"cash.find"} => request[h].item \in Items
  /\ held \in [Handlers -> Nat] /\ \A h \in Handlers : pc[h] \in CashPoints => held[h] <= Len(openAmount)
  /\ applied \in [Handlers -> Int] /\ number \in [Handlers -> Nat]

(* The two counters: no document and no application ever gets a number     *)
(* that another has, whichever threads ask at once, and a reseed in        *)
(* between does not make one come back.                                    *)
NumbersAreUnique ==
  /\ \A j \in journals : j.number < docCounter
  /\ \A j, k \in journals : j.number = k.number => j = k
  /\ \A a, b \in applications : a.number = b.number => a = b
  /\ \A h \in Handlers : pc[h] = "post.append" =>
       number[h] < docCounter /\ \A j \in journals : j.number # number[h]
  /\ \A h \in Handlers : pc[h] = "cash.append" =>
       number[h] < appCounter /\ \A a \in applications : a.number # number[h]

(* What the applications to the item's present seeding say, and what the   *)
(* handlers that have lowered it and not said so yet took.                 *)
Booked(item) == {a \in applications : a.item = item /\ a.of = Len(openAmount)}
Lowered(item) ==
  {h \in Handlers : /\ pc[h] \in {"cash.status", "cash.number", "cash.append"}
                    /\ request[h].item = item /\ IsCurrent(h)}

(* Cash does not come from nowhere: what is open of a receivable and what  *)
(* was applied to it since it was seeded make what it was issued over,     *)
(* also while threads race; the race only shows in the sign.               *)
CashIsConserved ==
  \A item \in Items :
    Current[item] + SumFunction([a \in Booked(item) |-> a.applied])
                  + SumFunctionOnSet(applied, Lowered(item))
    = Original[item]

Contract == INSTANCE ErpContract WITH
  documents <- {<<j.number, j.reference>> : j \in journals},
  receivable <- Current

(* What ApWorkflow and CashApplication assume of the ERP is true of it     *)
(* when requests come one by one: every step is one of the contract's, or  *)
(* invisible to it.                                                        *)
SerialKeepsContract == [][serial => Contract!Next]_<<journals, Current>>
=============================================================================
