-------------------------- MODULE ErpServiceProofs --------------------------
(***************************************************************************)
(* Proofs about ErpService, for any requests, references, orders and       *)
(* receivables.  Numbers: a counter is above every number drawn from it,   *)
(* and no two threads hold the same one; no lock is needed for that, since *)
(* drawing is one step.  The contract: while one request is handled at a   *)
(* time, what its handler has read (that a reference is free, that an item *)
(* is open and how much of it) is still so when it writes.  The cash: a    *)
(* step moves one term from one part of an equation of sums to another.    *)
(***************************************************************************)
EXTENDS ErpService, SumTheorems, TLAPS

(* The type invariant in two halves, what is shared and what is local.     *)
StoresOK ==
  /\ serial \in BOOLEAN
  /\ journals \subseteq
       [number : Nat \ {0}, reference : References, order : Orders \cup {NoOrder, UnknownOrder}]
  /\ seeding \in Nat \ {0} /\ invoiced \subseteq Orders
  /\ openAmount \in Seq([Items -> Int]) /\ openAmount # <<>> /\ cleared \subseteq Items
  /\ applications \subseteq [number : Nat \ {0}, item : Items, applied : Int, of : Nat]
  /\ docCounter \in Nat \ {0} /\ appCounter \in Nat \ {0}

LocalsOK ==
  /\ DOMAIN request = Handlers
  /\ pc \in [Handlers -> Points]
  /\ held \in [Handlers -> Nat]
  /\ applied \in [Handlers -> Int]
  /\ number \in [Handlers -> Nat]

(* At each point a handler has a request of the kind that point is for.    *)
RequestOK(h) ==
  /\ pc[h] \in PostPoints => request[h] \in PostRequests
  /\ pc[h] \in CashPoints => request[h] \in CashRequests
  /\ pc[h] \in CashPoints \ {"cash.find"} => request[h].item \in Items
  /\ pc[h] \in {"post.append", "cash.append"} => number[h] # 0
  /\ pc[h] = "post.mark" => request[h].order \in Orders

RequestsOK == \A h \in Handlers : RequestOK(h)

(* A handler holds a seeding only once it has looked for its item.         *)
HeldOK(h) ==
  /\ pc[h] \in {"idle", "cash.find"} => held[h] = 0
  /\ pc[h] \in CashPoints \ {"cash.find"} => held[h] \in 1 .. Len(openAmount)

HeldInv == \A h \in Handlers : HeldOK(h)

(* A counter is above what was drawn from it, and nothing is drawn twice.  *)
NumberInv ==
  /\ \A a \in applications : a.number < appCounter
  /\ \A g, h \in Handlers :
       g # h /\ pc[g] = pc[h] /\ pc[g] \in {"post.append", "cash.append"} =>
         number[g] # number[h]

TypeInv == StoresOK /\ LocalsOK /\ RequestsOK /\ HeldInv
ErpInv == TypeInv /\ NumbersAreUnique /\ NumberInv

-----------------------------------------------------------------------------
LEMMA ErpInitInv ==
  ASSUME ErpInit
  PROVE  ErpInv
  <1> USE DEF ErpInit, PostPoints, CashPoints, Points
  <1>1. StoresOK /\ LocalsOK
    BY ErpAssumption DEF StoresOK, LocalsOK
  <1>2. RequestsOK /\ HeldInv /\ NumbersAreUnique /\ NumberInv
    BY DEF RequestsOK, RequestOK, HeldInv, HeldOK, NumbersAreUnique, NumberInv
  <1> QED BY <1>1, <1>2 DEF ErpInv, TypeInv

(* The invariant implies the type invariant that the runs check.           *)
LEMMA TypeImplied == TypeInv => ErpTypeOK
  <1> SUFFICES ASSUME TypeInv PROVE ErpTypeOK
    OBVIOUS
  <1>1. \A h \in Handlers : pc[h] \in CashPoints => held[h] <= Len(openAmount)
    BY DEF TypeInv, HeldInv, HeldOK, StoresOK
  <1> QED BY <1>1 DEF TypeInv, StoresOK, LocalsOK, RequestsOK, RequestOK, ErpTypeOK

(* What a request names is what its handler uses.                          *)
LEMMA RequestFits ==
  ASSUME RequestsOK, NEW h \in Handlers
  PROVE  /\ pc[h] \in PostPoints =>
              /\ request[h].reference \in References
              /\ request[h].order \in Orders \cup {NoOrder, UnknownOrder}
         /\ pc[h] \in CashPoints \ {"cash.find"} =>
              /\ request[h].item \in Items
              /\ request[h].amount \in Int
  BY ErpAssumption DEF RequestsOK, RequestOK, PostRequests, CashRequests

(* A step keeps the shared state typed, and a seeding is only ever added.  *)
LEMMA StoreStep ==
  ASSUME TypeInv, NEW h \in Handlers, Handle(h)
  PROVE  /\ StoresOK'
         /\ Len(openAmount) \in Nat \ {0}
         /\ Len(openAmount') \in {Len(openAmount), Len(openAmount) + 1}
  <1> USE DEF stores, orders, counters, TypeInv
  <1>0. Len(openAmount) \in Nat \ {0}
    BY DEF StoresOK
  <1>1. CASE AcceptPosting(h)
    BY <1>1, <1>0 DEF AcceptPosting, StoresOK
  <1>2. CASE SearchReference(h)
    BY <1>2, <1>0 DEF SearchReference, StoresOK
  <1>3. CASE TakeNumber(h)
    BY <1>3, <1>0 DEF TakeNumber, StoresOK
  <1>4. CASE AppendDocument(h)
    <2> DEFINE d == [number |-> number[h], reference |-> request[h].reference,
                     order |-> request[h].order]
    <2>1. d \in [number : Nat \ {0}, reference : References,
                order : Orders \cup {NoOrder, UnknownOrder}]
      BY <1>4, RequestFits DEF AppendDocument, LocalsOK, RequestsOK, RequestOK,
         PostPoints
    <2>2. journals' = journals \cup {d}
      BY <1>4 DEF AppendDocument
    <2> HIDE DEF d
    <2> QED BY <1>4, <1>0, <2>1, <2>2 DEF AppendDocument, StoresOK
  <1>5. CASE FindOrder(h)
    BY <1>5, <1>0 DEF FindOrder, StoresOK
  <1>6. CASE ConsumeOrder(h)
    <2>1. invoiced' \subseteq Orders
      BY <1>6 DEF ConsumeOrder, StoresOK, RequestsOK, RequestOK
    <2> QED BY <1>6, <1>0, <2>1 DEF ConsumeOrder, StoresOK
  <1>7. CASE AcceptCash(h)
    BY <1>7, <1>0 DEF AcceptCash, StoresOK
  <1>8. CASE FindItem(h)
    BY <1>8, <1>0 DEF FindItem, StoresOK
  <1>9. CASE LimitAmount(h)
    BY <1>9, <1>0 DEF LimitAmount, StoresOK
  <1>10. CASE Lower(h)
    <2> DEFINE k == held[h]
               i == request[h].item
    <2>1. k \in DOMAIN openAmount /\ i \in Items
      BY <1>10, RequestFits DEF Lower, HeldInv, HeldOK, CashPoints, StoresOK
    <2>2. openAmount[k] \in [Items -> Int] /\ applied[h] \in Int
      BY <2>1 DEF StoresOK, LocalsOK
    <2>3. openAmount' = [openAmount EXCEPT ![k][i] = openAmount[k][i] - applied[h]]
      BY <1>10, <2>1 DEF Lower
    <2> HIDE DEF k, i
    <2>4. [openAmount[k] EXCEPT ![i] = openAmount[k][i] - applied[h]] \in [Items -> Int]
      BY <2>1, <2>2
    <2>5. openAmount' \in Seq([Items -> Int]) /\ Len(openAmount') = Len(openAmount)
      BY <2>1, <2>3, <2>4 DEF StoresOK
    <2> QED BY <1>10, <1>0, <2>5 DEF Lower, StoresOK
  <1>11. CASE ClearItem(h)
    <2>1. cleared' \subseteq Items
      BY <1>11, RequestFits DEF ClearItem, StoresOK, CashPoints
    <2> QED BY <1>11, <1>0, <2>1 DEF ClearItem, StoresOK
  <1>12. CASE NumberApplication(h)
    BY <1>12, <1>0 DEF NumberApplication, StoresOK
  <1>13. CASE AppendApplication(h)
    <2> DEFINE a == [number |-> number[h], item |-> request[h].item, applied |-> applied[h],
                     of |-> held[h]]
    <2>1. a \in [number : Nat \ {0}, item : Items, applied : Int, of : Nat]
      BY <1>13, RequestFits DEF AppendApplication, LocalsOK, RequestsOK, RequestOK,
         CashPoints
    <2>2. applications' = applications \cup {a}
      BY <1>13 DEF AppendApplication
    <2> HIDE DEF a
    <2> QED BY <1>13, <1>0, <2>1, <2>2 DEF AppendApplication, StoresOK
  <1>14. CASE ReseedOrders(h)
    BY <1>14, <1>0 DEF ReseedOrders, StoresOK
  <1>15. CASE ReseedLedgers(h)
    <2>1. /\ openAmount' \in Seq([Items -> Int]) /\ openAmount' # <<>>
          /\ Len(openAmount') = Len(openAmount) + 1
      <3>1. Original \in [Items -> Int]
        BY ErpAssumption
      <3>2. openAmount' = Append(openAmount, Original) /\ openAmount \in Seq([Items -> Int])
        BY <1>15 DEF ReseedLedgers, StoresOK
      <3> QED BY <3>1, <3>2
    <2>2. Len(openAmount') \in {Len(openAmount), Len(openAmount) + 1}
      BY <2>1
    <2> QED BY <1>15, <2>1, <2>2 DEF ReseedLedgers, StoresOK
  <1> QED BY <1>0, <1>1, <1>2, <1>3, <1>4, <1>5, <1>6, <1>7, <1>8, <1>9, <1>10, <1>11,
             <1>12, <1>13, <1>14, <1>15 DEF Handle

(* A step of h leaves the other handlers where they are.                   *)
LEMMA FrameStep ==
  ASSUME TypeInv, NEW h \in Handlers, Handle(h)
  PROVE  /\ LocalsOK'
         /\ serial' = serial
         /\ \A g \in Handlers \ {h} :
              /\ pc'[g] = pc[g] /\ request'[g] = request[g] /\ held'[g] = held[g]
              /\ applied'[g] = applied[g] /\ number'[g] = number[g]
  <1> USE DEF stores, orders, counters, LocalsOK, Go, Points, PostPoints, CashPoints, TypeInv
  <1>1. CASE AcceptPosting(h)
    BY <1>1 DEF AcceptPosting, StoresOK
  <1>2. CASE SearchReference(h)
    BY <1>2 DEF SearchReference, StoresOK
  <1>3. CASE TakeNumber(h)
    BY <1>3 DEF TakeNumber, StoresOK
  <1>4. CASE AppendDocument(h)
    BY <1>4 DEF AppendDocument, StoresOK
  <1>5. CASE FindOrder(h)
    BY <1>5 DEF FindOrder, StoresOK
  <1>6. CASE ConsumeOrder(h)
    BY <1>6 DEF ConsumeOrder, StoresOK
  <1>7. CASE AcceptCash(h)
    BY <1>7 DEF AcceptCash, StoresOK
  <1>8. CASE FindItem(h)
    BY <1>8 DEF FindItem, StoresOK
  <1>9. CASE LimitAmount(h)
    <2>1. openAmount[held[h]][request[h].item] \in Int /\ request[h].amount \in Int
      <3>1. request[h].item \in Items /\ request[h].amount \in Int
        BY <1>9, RequestFits DEF LimitAmount
      <3>2. held[h] \in DOMAIN openAmount
        <4>1. held[h] \in 1 .. Len(openAmount)
          BY <1>9 DEF LimitAmount, HeldInv, HeldOK
        <4>2. openAmount \in Seq([Items -> Int])
          BY DEF StoresOK
        <4> QED BY <4>1, <4>2
      <3>3. openAmount[held[h]] \in [Items -> Int]
        BY <3>2 DEF StoresOK
      <3> QED BY <3>1, <3>3
    <2> QED BY <1>9, <2>1 DEF LimitAmount
  <1>10. CASE Lower(h)
    BY <1>10 DEF Lower, StoresOK
  <1>11. CASE ClearItem(h)
    BY <1>11 DEF ClearItem, StoresOK
  <1>12. CASE NumberApplication(h)
    BY <1>12 DEF NumberApplication, StoresOK
  <1>13. CASE AppendApplication(h)
    BY <1>13 DEF AppendApplication, StoresOK
  <1>14. CASE ReseedOrders(h)
    BY <1>14 DEF ReseedOrders, StoresOK
  <1>15. CASE ReseedLedgers(h)
    BY <1>15 DEF ReseedLedgers, StoresOK
  <1> QED BY <1>1, <1>2, <1>3, <1>4, <1>5, <1>6, <1>7, <1>8, <1>9, <1>10, <1>11, <1>12,
             <1>13, <1>14, <1>15 DEF Handle

(* It keeps the locals of h within their program points.                   *)
LEMMA LocalStep ==
  ASSUME TypeInv, NEW h \in Handlers, Handle(h)
  PROVE  TypeInv'
  <1> USE DEF stores, orders, counters, Go, PostPoints, CashPoints
  <1> DEFINE len == Len(openAmount)
             Mine == RequestOK(h)' /\ HeldOK(h)'
  <1> USE DEF RequestsOK, RequestOK, HeldInv, HeldOK
  <1>s. /\ StoresOK' /\ LocalsOK'
        /\ len \in Nat \ {0} /\ Len(openAmount') \in {len, len + 1}
    BY StoreStep, FrameStep
  <1>r. DOMAIN request = Handlers
    BY DEF TypeInv, LocalsOK
  <1>t. StoresOK /\ LocalsOK /\ RequestsOK /\ HeldInv
    BY DEF TypeInv
  <1>1. ASSUME AcceptPosting(h) PROVE Mine
    <2>1. PICK r \in PostRequests : request' = [request EXCEPT ![h] = r]
      BY <1>1 DEF AcceptPosting
    <2>2. pc'[h] \in {"post.search", "refused"}
      BY <1>1, <1>t, <2>1 DEF AcceptPosting, LocalsOK
    <2>3. request'[h] = r
      BY <1>r, <2>1
    <2> QED BY <2>2, <2>3
  <1>2. ASSUME SearchReference(h) PROVE Mine
    BY <1>2, <1>s, <1>t DEF SearchReference, LocalsOK, StoresOK
  <1>3. ASSUME TakeNumber(h) PROVE Mine
    BY <1>3, <1>s, <1>t DEF TakeNumber, LocalsOK, StoresOK
  <1>4. ASSUME AppendDocument(h) PROVE Mine
    BY <1>4, <1>s, <1>t DEF AppendDocument, LocalsOK, StoresOK
  <1>5. ASSUME FindOrder(h) PROVE Mine
    BY <1>5, <1>s, <1>t DEF FindOrder, LocalsOK, StoresOK
  <1>6. ASSUME ConsumeOrder(h) PROVE Mine
    BY <1>6, <1>s, <1>t DEF ConsumeOrder, LocalsOK, StoresOK
  <1>7. ASSUME AcceptCash(h) PROVE Mine
    <2>1. PICK r \in CashRequests : request' = [request EXCEPT ![h] = r]
      BY <1>7 DEF AcceptCash
    <2>2. pc'[h] = "cash.find" /\ held'[h] = 0
      BY <1>7, <1>t DEF AcceptCash, LocalsOK, HeldInv, HeldOK
    <2>3. request'[h] = r
      BY <1>r, <2>1
    <2> QED BY <2>2, <2>3
  <1>8. ASSUME FindItem(h) PROVE Mine
    BY <1>8, <1>s, <1>t DEF FindItem, LocalsOK, StoresOK
  <1>9. ASSUME LimitAmount(h) PROVE Mine
    BY <1>9, <1>s, <1>t DEF LimitAmount, LocalsOK, StoresOK
  <1>10. ASSUME Lower(h) PROVE Mine
    BY <1>10, <1>s, <1>t DEF Lower, LocalsOK, StoresOK
  <1>11. ASSUME ClearItem(h) PROVE Mine
    BY <1>11, <1>s, <1>t DEF ClearItem, LocalsOK, StoresOK
  <1>12. ASSUME NumberApplication(h) PROVE Mine
    BY <1>12, <1>s, <1>t DEF NumberApplication, LocalsOK, StoresOK
  <1>13. ASSUME AppendApplication(h) PROVE Mine
    BY <1>13, <1>s, <1>t DEF AppendApplication, LocalsOK, StoresOK
  <1>14. ASSUME ReseedOrders(h) PROVE Mine
    BY <1>14, <1>s, <1>t DEF ReseedOrders, LocalsOK, StoresOK
  <1>15. ASSUME ReseedLedgers(h) PROVE Mine
    BY <1>15, <1>s, <1>t DEF ReseedLedgers, LocalsOK, StoresOK
  <1>16. Mine
    BY <1>1, <1>2, <1>3, <1>4, <1>5, <1>6, <1>7, <1>8, <1>9, <1>10, <1>11, <1>12, <1>13,
       <1>14, <1>15 DEF Handle
  <1>17. RequestsOK' /\ HeldInv'
    <2> SUFFICES ASSUME NEW g \in Handlers
                 PROVE  RequestOK(g)' /\ HeldOK(g)'
      BY DEF RequestsOK, HeldInv
    <2>1. CASE g = h
      BY <1>16, <2>1
    <2>2. CASE g # h
      <3>1. /\ pc'[g] = pc[g] /\ request'[g] = request[g] /\ held'[g] = held[g]
            /\ number'[g] = number[g]
        BY <2>2, FrameStep
      <3> QED BY <1>s, <1>t, <3>1
    <2> QED BY <2>1, <2>2
  <1> QED BY <1>s, <1>17 DEF TypeInv

(* Drawing a number, and appending what carries it, keep numbers apart.    *)
LEMMA NumberStep ==
  ASSUME ErpInv, NEW h \in Handlers, Handle(h)
  PROVE  NumbersAreUnique' /\ NumberInv'
  <1> USE DEF stores, orders, counters, Go, ErpInv
  <1>t. TypeInv /\ StoresOK /\ LocalsOK
    BY DEF TypeInv
  <1>f. /\ LocalsOK'
        /\ \A g \in Handlers \ {h} : pc'[g] = pc[g] /\ number'[g] = number[g]
    BY FrameStep
  <1>m. /\ \A j \in journals : j.number \in Nat
        /\ \A a \in applications : a.number \in Nat
        /\ docCounter \in Nat /\ appCounter \in Nat
        /\ \A g \in Handlers : number[g] \in Nat /\ pc[g] \in Points
    BY <1>t DEF StoresOK, LocalsOK
  <1>1. CASE AcceptPosting(h)
    BY <1>1, <1>f, <1>m, <1>t DEF AcceptPosting, NumbersAreUnique, NumberInv, LocalsOK
  <1>2. CASE SearchReference(h)
    BY <1>2, <1>f, <1>m, <1>t DEF SearchReference, NumbersAreUnique, NumberInv, LocalsOK
  <1>3. CASE TakeNumber(h)
    BY <1>3, <1>f, <1>m, <1>t DEF TakeNumber, NumbersAreUnique, NumberInv, LocalsOK
  <1>4. CASE AppendDocument(h)
    BY <1>4, <1>f, <1>m, <1>t DEF AppendDocument, NumbersAreUnique, NumberInv, LocalsOK
  <1>5. CASE FindOrder(h)
    BY <1>5, <1>f, <1>m, <1>t DEF FindOrder, NumbersAreUnique, NumberInv, LocalsOK
  <1>6. CASE ConsumeOrder(h)
    BY <1>6, <1>f, <1>m, <1>t DEF ConsumeOrder, NumbersAreUnique, NumberInv, LocalsOK
  <1>7. CASE AcceptCash(h)
    BY <1>7, <1>f, <1>m, <1>t DEF AcceptCash, NumbersAreUnique, NumberInv, LocalsOK
  <1>8. CASE FindItem(h)
    BY <1>8, <1>f, <1>m, <1>t DEF FindItem, NumbersAreUnique, NumberInv, LocalsOK
  <1>9. CASE LimitAmount(h)
    BY <1>9, <1>f, <1>m, <1>t DEF LimitAmount, NumbersAreUnique, NumberInv, LocalsOK
  <1>10. CASE Lower(h)
    BY <1>10, <1>f, <1>m, <1>t DEF Lower, NumbersAreUnique, NumberInv, LocalsOK
  <1>11. CASE ClearItem(h)
    BY <1>11, <1>f, <1>m, <1>t DEF ClearItem, NumbersAreUnique, NumberInv, LocalsOK
  <1>12. CASE NumberApplication(h)
    BY <1>12, <1>f, <1>m, <1>t DEF NumberApplication, NumbersAreUnique, NumberInv,
       LocalsOK
  <1>13. CASE AppendApplication(h)
    BY <1>13, <1>f, <1>m, <1>t DEF AppendApplication, NumbersAreUnique, NumberInv,
       LocalsOK
  <1>14. CASE ReseedOrders(h)
    BY <1>14, <1>f, <1>m, <1>t DEF ReseedOrders, NumbersAreUnique, NumberInv, LocalsOK
  <1>15. CASE ReseedLedgers(h)
    BY <1>15, <1>f, <1>m, <1>t DEF ReseedLedgers, NumbersAreUnique, NumberInv, LocalsOK
  <1> QED BY <1>1, <1>2, <1>3, <1>4, <1>5, <1>6, <1>7, <1>8, <1>9, <1>10, <1>11, <1>12,
             <1>13, <1>14, <1>15 DEF Handle

-----------------------------------------------------------------------------
(* As long as requests come one by one, what a handler has read is still   *)
(* so when it writes.                                                      *)
OneByOne == \A g, h \in Running : g = h

IsFresh(h) ==
  /\ pc[h] \in {"post.number", "post.append"} =>
       \A j \in journals : j.reference # request[h].reference
  /\ pc[h] \in {"cash.min", "cash.lower"} =>
       held[h] = Len(openAmount) /\ request[h].item \notin cleared
  /\ pc[h] = "cash.lower" =>
       applied[h] = IF request[h].amount < Current[request[h].item]
                    THEN request[h].amount ELSE Current[request[h].item]
  /\ pc[h] = "cash.status" => held[h] = Len(openAmount)

FreshInv == \A h \in Handlers : IsFresh(h)

(* An item that is not cleared is open, but for the handler that is about  *)
(* to say that it is not.                                                  *)
OpenInv ==
  \A item \in Items \ cleared :
    \/ Current[item] > 0
    \/ \E h \in Handlers : pc[h] = "cash.status" /\ request[h].item = item

SerialInv == serial => OneByOne /\ FreshInv /\ OpenInv

(* The handler that moves is the only one under way, before and after.     *)
LEMMA OneByOneStep ==
  ASSUME TypeInv, OneByOne, serial, NEW h \in Handlers, Handle(h)
  PROVE  /\ OneByOne'
         /\ \A g \in Running : g = h
         /\ \A g \in Running' : g = h
  <1> USE DEF PostPoints, CashPoints, Go
  <1>1. \A g \in Running : g = h
    <2>1. pc[h] # "idle" => h \in Running
      BY DEF Handle, AcceptPosting, SearchReference, TakeNumber, AppendDocument,
         FindOrder,
             ConsumeOrder, AcceptCash, FindItem, LimitAmount, Lower, ClearItem,
             NumberApplication, AppendApplication, ReseedOrders, ReseedLedgers, Running
    <2>2. pc[h] = "idle" => Running = {}
      BY DEF Handle, AcceptPosting, SearchReference, TakeNumber, AppendDocument,
         FindOrder,
             ConsumeOrder, AcceptCash, FindItem, LimitAmount, Lower, ClearItem,
             NumberApplication, AppendApplication, ReseedOrders, ReseedLedgers
    <2> QED BY <2>1, <2>2 DEF OneByOne
  <1>2. \A g \in Running' : g = h
    BY <1>1, FrameStep DEF Running
  <1> QED BY <1>1, <1>2 DEF OneByOne

(* Only two steps move what is open, and a lowering what is open now.      *)
LEMMA CurrentStep ==
  ASSUME TypeInv, FreshInv, NEW h \in Handlers, Handle(h)
  PROVE  /\ Current \in [Items -> Int]
         /\ ~Lower(h) /\ ~ReseedLedgers(h) => Current' = Current
         /\ ReseedLedgers(h) => Current' = Original
         /\ Lower(h) => /\ request[h].item \in Items
                        /\ request[h].amount \in Amounts
                        /\ Current' = [Current EXCEPT ![request[h].item] = @ - applied[h]]
  <1> USE DEF stores, counters, Current
  <1>1. openAmount \in Seq([Items -> Int]) /\ Len(openAmount) \in DOMAIN openAmount
    BY DEF TypeInv, StoresOK
  <1>2. Current \in [Items -> Int]
    BY <1>1
  <1>3. ASSUME ~Lower(h), ~ReseedLedgers(h) PROVE Current' = Current
    <2>1. openAmount' = openAmount
      BY <1>3 DEF Handle, AcceptPosting, SearchReference, TakeNumber, AppendDocument,
         FindOrder,
             ConsumeOrder, AcceptCash, FindItem, LimitAmount, ClearItem,
             NumberApplication, AppendApplication, ReseedOrders
    <2> QED BY <2>1
  <1>4. ASSUME ReseedLedgers(h) PROVE Current' = Original
    <2>1. openAmount' = Append(openAmount, Original)
      BY <1>4 DEF ReseedLedgers
    <2>2. Original \in [Items -> Int]
      BY ErpAssumption
    <2>3. Len(openAmount') = Len(openAmount) + 1
      BY <1>1, <2>1, <2>2
    <2> QED BY <1>1, <2>1, <2>2, <2>3
  <1>5. ASSUME Lower(h)
        PROVE  /\ request[h].item \in Items
               /\ request[h].amount \in Amounts
               /\ Current' = [Current EXCEPT ![request[h].item] = @ - applied[h]]
    <2>1. request[h] \in CashRequests /\ request[h].item \in Items
      BY <1>5 DEF TypeInv, RequestsOK, RequestOK, Lower, CashPoints
    <2>2. held[h] = Len(openAmount)
      BY <1>5 DEF FreshInv, IsFresh, Lower
    <2> DEFINE item == request[h].item
               rest == [Current EXCEPT ![item] = Current[item] - applied[h]]
    <2>3. openAmount' = [openAmount EXCEPT ![Len(openAmount)] = rest]
      BY <1>5, <2>2, <1>1 DEF Lower
    <2>4. item \in Items /\ request[h].amount \in Amounts
      BY <2>1 DEF CashRequests
    <2>5. rest \in [Items -> Int]
      <3>1. applied[h] \in Int
        BY DEF TypeInv, LocalsOK
      <3> HIDE DEF item
      <3> QED BY <1>2, <2>4, <3>1
    <2> HIDE DEF rest
    <2>6. Current' = rest
      BY <1>1, <2>3, <2>5
    <2> QED BY <2>4, <2>6 DEF rest
  <1> QED BY <1>2, <1>3, <1>4, <1>5

LEMMA FreshStep ==
  ASSUME TypeInv, serial, OneByOne, FreshInv, NEW h \in Handlers, Handle(h)
  PROVE  FreshInv'
  <1> USE DEF stores, counters, orders, Go
  <1>t. StoresOK /\ LocalsOK /\ FreshInv
    BY DEF TypeInv
  <1>1. ASSUME AcceptPosting(h) PROVE IsFresh(h)'
    BY <1>1, <1>t DEF AcceptPosting, LocalsOK, FreshInv, IsFresh
  <1>2. ASSUME SearchReference(h) PROVE IsFresh(h)'
    BY <1>2, <1>t DEF SearchReference, LocalsOK, FreshInv, IsFresh
  <1>3. ASSUME TakeNumber(h) PROVE IsFresh(h)'
    BY <1>3, <1>t DEF TakeNumber, LocalsOK, FreshInv, IsFresh
  <1>4. ASSUME AppendDocument(h) PROVE IsFresh(h)'
    BY <1>4, <1>t DEF AppendDocument, LocalsOK, FreshInv, IsFresh
  <1>5. ASSUME FindOrder(h) PROVE IsFresh(h)'
    BY <1>5, <1>t DEF FindOrder, LocalsOK, FreshInv, IsFresh
  <1>6. ASSUME ConsumeOrder(h) PROVE IsFresh(h)'
    BY <1>6, <1>t DEF ConsumeOrder, LocalsOK, FreshInv, IsFresh
  <1>7. ASSUME AcceptCash(h) PROVE IsFresh(h)'
    BY <1>7, <1>t DEF AcceptCash, LocalsOK, FreshInv, IsFresh
  <1>8. ASSUME FindItem(h) PROVE IsFresh(h)'
    BY <1>8, <1>t DEF FindItem, LocalsOK, FreshInv, IsFresh
  <1>9. ASSUME LimitAmount(h) PROVE IsFresh(h)'
    <2>1. /\ pc'[h] = "cash.lower" /\ openAmount' = openAmount /\ request' = request
          /\ held' = held /\ cleared' = cleared /\ held[h] = Len(openAmount)
          /\ request[h].item \notin cleared
          /\ applied'[h] = IF request[h].amount < openAmount[held[h]][request[h].item]
                           THEN request[h].amount ELSE openAmount[held[h]][request[h].item]
      BY <1>9, <1>t DEF LimitAmount, LocalsOK, FreshInv, IsFresh
    <2> QED BY <2>1 DEF Current, IsFresh
  <1>10. ASSUME Lower(h) PROVE IsFresh(h)'
    <2>1. /\ pc'[h] = "cash.status" /\ held' = held /\ held[h] = Len(openAmount)
      BY <1>10, <1>t DEF Lower, LocalsOK, FreshInv, IsFresh
    <2>2. Len(openAmount') = Len(openAmount)
      BY <1>10, <1>t DEF Lower, StoresOK
    <2> QED BY <2>1, <2>2 DEF IsFresh
  <1>11. ASSUME ClearItem(h) PROVE IsFresh(h)'
    BY <1>11, <1>t DEF ClearItem, LocalsOK, FreshInv, IsFresh
  <1>12. ASSUME NumberApplication(h) PROVE IsFresh(h)'
    BY <1>12, <1>t DEF NumberApplication, LocalsOK, FreshInv, IsFresh
  <1>13. ASSUME AppendApplication(h) PROVE IsFresh(h)'
    BY <1>13, <1>t DEF AppendApplication, LocalsOK, FreshInv, IsFresh
  <1>14. ASSUME ReseedOrders(h) PROVE IsFresh(h)'
    BY <1>14, <1>t DEF ReseedOrders, LocalsOK, FreshInv, IsFresh
  <1>15. ASSUME ReseedLedgers(h) PROVE IsFresh(h)'
    BY <1>15, <1>t DEF ReseedLedgers, LocalsOK, FreshInv, IsFresh
  <1>16. IsFresh(h)'
    BY <1>1, <1>2, <1>3, <1>4, <1>5, <1>6, <1>7, <1>8, <1>9, <1>10, <1>11, <1>12, <1>13,
       <1>14, <1>15 DEF Handle
  <1>17. \A g \in Handlers \ {h} : pc'[g] \notin PostPoints \cup CashPoints
    BY OneByOneStep, FrameStep DEF Running
  <1>18. SUFFICES ASSUME NEW g \in Handlers
                  PROVE  IsFresh(g)'
    BY DEF FreshInv
  <1>19. CASE g = h
    BY <1>16, <1>19
  <1>20. CASE g # h
    BY <1>17, <1>20 DEF PostPoints, CashPoints, IsFresh
  <1> QED BY <1>19, <1>20

LEMMA OpenStep ==
  ASSUME TypeInv, serial, OneByOne, FreshInv, OpenInv, NEW h \in Handlers, Handle(h)
  PROVE  OpenInv'
  <1> USE DEF stores, counters, orders, Go
  <1>t. StoresOK /\ LocalsOK
    BY DEF TypeInv
  <1>1. SUFFICES ASSUME NEW item \in Items \ cleared'
                 PROVE  \/ Current'[item] > 0
                        \/ pc'[h] = "cash.status" /\ request'[h].item = item
    BY DEF OpenInv, Current
  <1>2. ASSUME item \notin cleared, ~(pc[h] = "cash.status" /\ request[h].item = item)
        PROVE  Current[item] > 0
    BY <1>2, OneByOneStep DEF OpenInv, Running, CashPoints
  <1>3. CASE Lower(h)
    <2>1. pc[h] = "cash.lower" /\ pc'[h] = "cash.status" /\ request' = request /\ cleared' = cleared
      BY <1>3, <1>t DEF Lower, LocalsOK
    <2>2. CASE request[h].item = item
      BY <2>1, <2>2
    <2>3. CASE request[h].item # item
      <3>1. Current'[item] = Current[item]
        BY <1>3, <2>3, CurrentStep
      <3> QED BY <1>2, <2>1, <2>3, <3>1
    <2> QED BY <2>2, <2>3
  <1>4. CASE ReseedLedgers(h)
    <2>1. Current' = Original
      BY <1>4, CurrentStep
    <2>2. Original[item] \in Nat \ {0}
      BY ErpAssumption
    <2> HIDE DEF Current
    <2> QED BY <2>1, <2>2
  <1>5. CASE ClearItem(h)
    <2>1. Current' = Current /\ Current \in [Items -> Int]
      BY <1>5, CurrentStep DEF ClearItem, Lower, ReseedLedgers
    <2>2. /\ pc[h] = "cash.status" /\ IsCurrent(h)
          /\ cleared' = IF Current[request[h].item] <= 0
                        THEN cleared \cup {request[h].item} ELSE cleared
      BY <1>5 DEF ClearItem, FreshInv, IsFresh, IsCurrent
    <2>3. item \notin cleared
      BY <2>2
    <2>4. CASE request[h].item = item
      <3>1. Current[item] \in Int /\ ~(Current[item] <= 0)
        BY <2>1, <2>2, <2>4
      <3> QED BY <2>1, <3>1
    <2>5. CASE request[h].item # item
      BY <1>2, <2>1, <2>3, <2>5
    <2> QED BY <2>4, <2>5
  <1>6. CASE ~Lower(h) /\ ~ReseedLedgers(h) /\ ~ClearItem(h)
    <2>1. Current' = Current
      BY <1>6, CurrentStep
    <2>2. cleared' = cleared /\ pc[h] # "cash.status"
      BY <1>6 DEF Handle, AcceptPosting, SearchReference, TakeNumber, AppendDocument,
         FindOrder,
             ConsumeOrder, AcceptCash, FindItem, LimitAmount,
             NumberApplication, AppendApplication, ReseedOrders
    <2> QED BY <1>2, <2>1, <2>2
  <1> QED BY <1>3, <1>4, <1>5, <1>6

Documents == {<<j.number, j.reference>> : j \in journals}

(* A step of one request at a time is a step of the contract.              *)
LEMMA ContractStep ==
  ASSUME ErpInv, serial, OneByOne, FreshInv, OpenInv, NEW h \in Handlers, Handle(h)
  PROVE  Contract!Next \/ UNCHANGED <<journals, Current>>
  <1> USE DEF stores, counters, orders, Go
  <1>t. TypeInv /\ StoresOK /\ LocalsOK
    BY DEF ErpInv, TypeInv
  <1>1. CASE AppendDocument(h)
    <2> DEFINE d == [number |-> number[h], reference |-> request[h].reference,
                     order |-> request[h].order]
               pair == <<number[h], request[h].reference>>
    <2>1. journals' = journals \cup {d} /\ pc[h] = "post.append"
      BY <1>1 DEF AppendDocument
    <2>2. Documents' = Documents \cup {pair}
      <3>1. d.number = number[h] /\ d.reference = request[h].reference
        OBVIOUS
      <3> HIDE DEF d
      <3> QED BY <2>1, <3>1 DEF Documents
    <2>3. \A e \in Documents : e[1] # pair[1] /\ e[2] # pair[2]
      BY <2>1 DEF Documents, ErpInv, NumbersAreUnique, FreshInv, IsFresh
    <2>4. request[h].reference \in References
      BY <1>t, <2>1, RequestFits DEF PostPoints, TypeInv
    <2>5. Current' = Current
      BY <1>t, <1>1, CurrentStep DEF AppendDocument, Lower, ReseedLedgers
    <2>6. pair \in Documents'
      BY <2>2
    <2>7. PICK reference \in References : reference = request[h].reference
      BY <2>4
    <2>8. Contract!Book(reference)
      BY <2>2, <2>3, <2>5, <2>6, <2>7 DEF Contract!Book, Documents
    <2> QED BY <2>8 DEF Contract!Next
  <1>2. CASE Lower(h)
    <2> DEFINE item == request[h].item
               amount == request[h].amount
    <2>1. /\ item \in Items /\ amount \in Amounts
          /\ Current \in [Items -> Int]
          /\ Current' = [Current EXCEPT ![item] = @ - applied[h]]
      BY <1>t, <1>2, CurrentStep
    <2>2. /\ pc[h] = "cash.lower" /\ journals' = journals
      BY <1>2 DEF Lower
    <2>3. applied[h] = IF amount < Current[item] THEN amount ELSE Current[item]
      BY <2>2 DEF FreshInv, IsFresh
    <2>4. Current[item] > 0
      <3>1. item \notin cleared
        BY <2>2 DEF FreshInv, IsFresh
      <3>2. \A g \in Handlers : pc[g] # "cash.status"
        BY <1>t, <2>2, OneByOneStep DEF Running, CashPoints
      <3> QED BY <2>1, <3>1, <3>2 DEF OpenInv
    <2>5. Current' = [Current EXCEPT ![item] = IF amount < @ THEN @ - amount ELSE 0]
      <3>1. Current[item] \in Int /\ amount \in Int
        BY <2>1, ErpAssumption
      <3>2. Current[item] - applied[h] =
              IF amount < Current[item] THEN Current[item] - amount ELSE 0
        BY <2>3, <3>1
      <3> HIDE DEF item, amount
      <3> QED BY <2>1, <3>2
    <2>6. Contract!Apply(item, amount)
      BY <2>2, <2>4, <2>5 DEF Contract!Apply
    <2> QED BY <2>1, <2>6 DEF Contract!Next
  <1>3. CASE ReseedLedgers(h)
    <2>1. journals' = {} /\ Current' = Original
      BY <1>t, <1>3, CurrentStep DEF ReseedLedgers
    <2> QED BY <2>1 DEF Contract!Next, Contract!Reseed
  <1>4. CASE ~AppendDocument(h) /\ ~Lower(h) /\ ~ReseedLedgers(h)
    <2>1. Current' = Current
      BY <1>t, <1>4, CurrentStep
    <2>2. journals' = journals
      BY <1>4 DEF Handle, AcceptPosting, SearchReference, TakeNumber, FindOrder,
             ConsumeOrder, AcceptCash, FindItem, LimitAmount, ClearItem,
             NumberApplication, AppendApplication, ReseedOrders
    <2> QED BY <2>1, <2>2
  <1> QED BY <1>1, <1>2, <1>3, <1>4

LEMMA ErpStep ==
  ASSUME ErpInv, SerialInv, [ErpNext]_erpVars
  PROVE  /\ ErpInv' /\ SerialInv'
         /\ serial => (Contract!Next \/ UNCHANGED <<journals, Current>>)
  <1>1. CASE UNCHANGED erpVars
    BY <1>1 DEF erpVars, stores, orders, counters, handlers, ErpInv, TypeInv, StoresOK,
       LocalsOK,
                RequestsOK, RequestOK, HeldInv, HeldOK, NumbersAreUnique, NumberInv, SerialInv,
                OneByOne, Running,
                FreshInv, IsFresh, OpenInv, Current
  <1>2. ASSUME NEW h \in Handlers, Handle(h)
        PROVE  /\ ErpInv' /\ SerialInv'
               /\ serial => (Contract!Next \/ UNCHANGED <<journals, Current>>)
    <2>1. TypeInv /\ serial' = serial
      BY <1>2, FrameStep DEF ErpInv
    <2>2. ErpInv'
      BY <1>2, <2>1, LocalStep, NumberStep DEF ErpInv
    <2>3. ASSUME serial
          PROVE  /\ OneByOne' /\ FreshInv' /\ OpenInv'
                 /\ Contract!Next \/ UNCHANGED <<journals, Current>>
      BY <1>2, <2>1, <2>3, OneByOneStep, FreshStep, OpenStep, ContractStep DEF SerialInv
    <2> QED BY <2>1, <2>2, <2>3 DEF SerialInv
  <1> QED BY <1>1, <1>2 DEF ErpNext

LEMMA SerialInitInv ==
  ASSUME ErpInit
  PROVE  SerialInv
  <1>1. \A item \in Items : Current[item] > 0
    BY ErpAssumption DEF ErpInit, Current
  <1> QED BY <1>1 DEF ErpInit, SerialInv, OneByOne, Running, FreshInv, IsFresh, OpenInv,
             PostPoints,
                      CashPoints

-----------------------------------------------------------------------------
(* Cash is conserved: finitely many handlers have begun and finitely many  *)
(* applications are booked, so the sums are over finite sets, and a step   *)
(* moves one term from one part of the equation to another.                *)
Begun == {h \in Handlers : pc[h] # "idle"}
Finite == IsFiniteSet(applications) /\ IsFiniteSet(Begun)
BookedSum(item) == SumFunction([a \in Booked(item) |-> a.applied])
LoweredSum(item) == SumFunctionOnSet(applied, Lowered(item))

(* The terms are integers and the sets finite.                             *)
LEMMA SumsTyped ==
  ASSUME TypeInv, Finite, NEW item \in Items
  PROVE  /\ IsFiniteSet(Booked(item)) /\ IsFiniteSet(Lowered(item))
         /\ \A a \in Booked(item) : a.applied \in Int
         /\ \A h \in Lowered(item) : applied[h] \in Int
         /\ BookedSum(item) \in Int /\ LoweredSum(item) \in Int
         /\ Current[item] \in Int /\ Original[item] \in Int
  <1>1. Booked(item) \in SUBSET applications /\ Lowered(item) \in SUBSET Begun
    BY DEF Booked, Lowered, Begun
  <1>2. IsFiniteSet(Booked(item)) /\ IsFiniteSet(Lowered(item))
    BY <1>1, FS_Subset DEF Finite
  <1>3. \A a \in Booked(item) : a.applied \in Int
    BY <1>1 DEF TypeInv, StoresOK
  <1>4. \A h \in Lowered(item) : applied[h] \in Int
    BY DEF TypeInv, LocalsOK, Lowered
  <1>5. BookedSum(item) \in Int
    <2> DEFINE f == [a \in Booked(item) |-> a.applied]
    <2>1. DOMAIN f = Booked(item) /\ \A a \in Booked(item) : f[a] \in Int
      BY <1>3
    <2> HIDE DEF f
    <2>2. SumFunctionOnSet(f, Booked(item)) \in Int
      BY <1>2, <2>1, SumIsInt
    <2> QED BY <2>1, <2>2 DEF BookedSum, SumFunction, f
  <1>6. LoweredSum(item) \in Int
    BY <1>2, <1>4, SumIsInt DEF LoweredSum
  <1>7. Current[item] \in Int /\ Original[item] \in Int
    <2>1. openAmount \in Seq([Items -> Int]) /\ Len(openAmount) \in DOMAIN openAmount
      BY DEF TypeInv, StoresOK
    <2>2. Current \in [Items -> Int]
      BY <2>1 DEF Current
    <2> QED BY <2>2, ErpAssumption
  <1> QED BY <1>2, <1>3, <1>4, <1>5, <1>6, <1>7

LEMMA FiniteStep ==
  ASSUME TypeInv, Finite, NEW h \in Handlers, Handle(h)
  PROVE  Finite'
  <1>1. Begun' \in SUBSET (Begun \cup {h})
    BY FrameStep DEF Begun
  <1>2. IsFiniteSet(Begun')
    BY <1>1, FS_AddElement, FS_Subset DEF Finite
  <1>3. IsFiniteSet(applications')
    <2>1. CASE AppendApplication(h)
      <3>1. PICK a : applications' = applications \cup {a}
        BY <2>1 DEF AppendApplication
      <3> QED BY <3>1, FS_AddElement DEF Finite
    <2>2. CASE ReseedLedgers(h)
      BY <2>2, FS_EmptySet DEF ReseedLedgers
    <2>3. CASE ~AppendApplication(h) /\ ~ReseedLedgers(h)
      <3>1. applications' = applications
        BY <2>3 DEF stores, orders, Handle, AcceptPosting, SearchReference, TakeNumber,
           AppendDocument, FindOrder, ConsumeOrder, AcceptCash, FindItem, LimitAmount, Lower,
           ClearItem, NumberApplication, ReseedOrders
      <3> QED BY <3>1 DEF Finite
    <2> QED BY <2>1, <2>2, <2>3
  <1> QED BY <1>2, <1>3 DEF Finite

(* The steps that move no cash, and keep who has lowered what.             *)
LEMMA IdleStep ==
  ASSUME TypeInv, Finite, NEW h \in Handlers, Handle(h), NEW item \in Items,
         ~Lower(h), ~AppendApplication(h), ~ReseedLedgers(h)
  PROVE  /\ Current' = Current
         /\ BookedSum(item)' = BookedSum(item) /\ LoweredSum(item)' = LoweredSum(item)
  <1> USE DEF stores, orders, counters, Go
  <1>1. openAmount' = openAmount /\ applications' = applications
    BY DEF Handle, AcceptPosting, SearchReference, TakeNumber,
       AppendDocument, FindOrder, ConsumeOrder, AcceptCash, FindItem, LimitAmount,
       ClearItem, NumberApplication, ReseedOrders
  <1>2. \/ /\ pc[h] \notin {"cash.status", "cash.number", "cash.append"}
           /\ pc'[h] \notin {"cash.status", "cash.number", "cash.append"}
        \/ /\ pc[h] \in {"cash.status", "cash.number", "cash.append"}
           /\ pc'[h] \in {"cash.status", "cash.number", "cash.append"}
           /\ request' = request /\ held' = held /\ applied' = applied
    BY DEF Handle, AcceptPosting, SearchReference, TakeNumber,
       AppendDocument, FindOrder, ConsumeOrder, AcceptCash, FindItem, LimitAmount,
       ClearItem, NumberApplication, ReseedOrders, TypeInv, LocalsOK
  <1>3. Lowered(item)' = Lowered(item)
    BY <1>1, <1>2, FrameStep DEF Lowered, IsCurrent
  <1>4. \A g \in Lowered(item) : applied'[g] = applied[g]
    BY <1>2, FrameStep DEF Lowered
  <1>5. SumFunctionOnSet(applied', Lowered(item)) = SumFunctionOnSet(applied, Lowered(item))
    BY <1>4, SumsTyped, SumDependsOnSet
  <1>6. LoweredSum(item)' = LoweredSum(item)
    BY <1>3, <1>5 DEF LoweredSum
  <1>7. Booked(item)' = Booked(item)
    BY <1>1 DEF Booked
  <1> QED BY <1>1, <1>6, <1>7 DEF BookedSum, Current

(* Lowering takes from what is open what it adds to what is not said yet.  *)
LEMMA LowerStep ==
  ASSUME TypeInv, Finite, NEW h \in Handlers, Lower(h), NEW item \in Items
  PROVE  /\ BookedSum(item)' = BookedSum(item)
         /\ Current'[item] \in Int /\ LoweredSum(item)' \in Int
         /\ Current'[item] + LoweredSum(item)' = Current[item] + LoweredSum(item)
  <1> USE DEF stores, orders, counters, Go
  <1> DEFINE mine == held[h] = Len(openAmount) /\ request[h].item = item
  <1>0. Handle(h)
    BY DEF Handle
  <1>1. /\ pc[h] = "cash.lower" /\ pc'[h] = "cash.status"
        /\ request' = request /\ held' = held /\ applied' = applied
        /\ applications' = applications
        /\ openAmount' = [openAmount EXCEPT ![held[h]][request[h].item]
                            = openAmount[held[h]][request[h].item] - applied[h]]
    BY DEF Lower, TypeInv, LocalsOK
  <1>2. /\ openAmount \in Seq([Items -> Int]) /\ Len(openAmount) \in DOMAIN openAmount
        /\ held[h] \in DOMAIN openAmount /\ request[h].item \in Items
        /\ Len(openAmount') = Len(openAmount)
    <2>1. openAmount \in Seq([Items -> Int]) /\ Len(openAmount) \in DOMAIN openAmount
      BY DEF TypeInv, StoresOK
    <2>2. held[h] \in 1 .. Len(openAmount)
      BY <1>1 DEF TypeInv, HeldInv, HeldOK, CashPoints
    <2>3. request[h].item \in Items
      BY <1>1, RequestFits DEF TypeInv, CashPoints
    <2>4. Len(openAmount') = Len(openAmount)
      BY <1>1, <2>1
    <2> QED BY <2>1, <2>2, <2>3, <2>4
  <1>3. Booked(item)' = Booked(item)
    BY <1>1, <1>2 DEF Booked
  <1>4. BookedSum(item)' = BookedSum(item)
    BY <1>3 DEF BookedSum
  <1>5. h \notin Lowered(item)
    BY <1>1 DEF Lowered
  <1>6. CASE mine
    <2>1. Lowered(item)' = Lowered(item) \cup {h}
      BY <1>0, <1>1, <1>2, <1>6, FrameStep DEF Lowered, IsCurrent
    <2>2. \A g \in Lowered(item) \cup {h} : applied[g] \in Int
      BY DEF TypeInv, LocalsOK, Lowered
    <2>3. LoweredSum(item)' = LoweredSum(item) + applied[h]
      BY <1>1, <1>5, <2>1, <2>2, SumsTyped, SumTakesIn DEF LoweredSum
    <2>4. Current'[item] = Current[item] - applied[h]
      BY <1>1, <1>2, <1>6 DEF Current
    <2> QED BY <1>4, <2>2, <2>3, <2>4, SumsTyped
  <1>7. CASE ~mine
    <2>1. Lowered(item)' = Lowered(item)
      BY <1>0, <1>1, <1>2, <1>7, FrameStep DEF Lowered, IsCurrent
    <2>2. Current'[item] = Current[item]
      BY <1>1, <1>2, <1>7 DEF Current
    <2> QED BY <1>1, <1>4, <2>1, <2>2, SumsTyped DEF LoweredSum
  <1> QED BY <1>6, <1>7

(* The application says what was taken, and its number is a new one.       *)
LEMMA AppendStep ==
  ASSUME ErpInv, Finite, NEW h \in Handlers, AppendApplication(h), NEW item \in Items
  PROVE  /\ Current' = Current
         /\ BookedSum(item)' \in Int /\ LoweredSum(item)' \in Int
         /\ BookedSum(item)' + LoweredSum(item)' = BookedSum(item) + LoweredSum(item)
  <1> USE DEF stores, orders, counters, Go
  <1> DEFINE mine == held[h] = Len(openAmount) /\ request[h].item = item
             b == [number |-> number[h], item |-> request[h].item,
                   applied |-> applied[h], of |-> held[h]]
             f == [a \in Booked(item) |-> a.applied]
  <1>0. Handle(h) /\ TypeInv
    BY DEF Handle, ErpInv
  <1>1. /\ pc[h] = "cash.append" /\ pc'[h] = "done"
        /\ request' = request /\ held' = held /\ applied' = applied
        /\ applications' = applications \cup {b} /\ openAmount' = openAmount
    BY <1>0 DEF AppendApplication, TypeInv, LocalsOK
  <1>2. /\ b.number = number[h] /\ b.item = request[h].item
        /\ b.applied = applied[h] /\ b.of = held[h]
    OBVIOUS
  <1>3. b \notin applications
    BY <1>1, <1>2 DEF ErpInv, NumbersAreUnique
  <1>4. Current' = Current
    BY <1>1 DEF Current
  <1>5. f = [a \in Booked(item) |-> a.applied] /\ DOMAIN f = Booked(item)
    OBVIOUS
  <1>6. BookedSum(item) = SumFunctionOnSet(f, Booked(item))
    BY <1>5 DEF BookedSum, SumFunction
  <1> HIDE DEF b, f
  <1>7. CASE mine
    <2> DEFINE B == Booked(item)
               g == [a \in B \cup {b} |-> a.applied]
    <2>1. Booked(item)' = B \cup {b} /\ b \notin B
      BY <1>1, <1>2, <1>3, <1>7 DEF Booked
    <2>2. Lowered(item) = Lowered(item)' \cup {h} /\ h \notin Lowered(item)'
      BY <1>0, <1>1, <1>7, FrameStep DEF Lowered, IsCurrent
    <2>3. /\ IsFiniteSet(B) /\ IsFiniteSet(Lowered(item))
          /\ applied[h] \in Int
          /\ \A a \in B : a.applied \in Int
          /\ \A k \in Lowered(item) : applied[k] \in Int
      BY <1>0, SumsTyped DEF TypeInv, LocalsOK
    <2>4. LoweredSum(item) = LoweredSum(item)' + applied[h]
      <3> DEFINE L == Lowered(item)'
      <3>1. IsFiniteSet(L) /\ h \notin L /\ \A k \in L \cup {h} : applied[k] \in Int
        BY <2>2, <2>3, FS_Subset
      <3>2. LoweredSum(item)' = SumFunctionOnSet(applied, L)
        BY <1>1 DEF LoweredSum
      <3>3. LoweredSum(item) = SumFunctionOnSet(applied, L \cup {h})
        BY <2>2 DEF LoweredSum
      <3> HIDE DEF L
      <3> QED BY <3>1, <3>2, <3>3, SumTakesIn
    <2>5. BookedSum(item)' = BookedSum(item) + applied[h]
      <3>1. BookedSum(item)' = SumFunctionOnSet(g, B \cup {b})
        <4>1. BookedSum(item)' = SumFunction(g)
          BY <2>1 DEF BookedSum
        <4>2. DOMAIN g = B \cup {b}
          OBVIOUS
        <4> HIDE DEF g
        <4> QED BY <4>1, <4>2 DEF SumFunction
      <3>2. /\ \A a \in B \cup {b} : g[a] \in Int
            /\ \A a \in B : g[a] = f[a]
            /\ g[b] = applied[h]
        BY <1>2, <2>3 DEF f
      <3> HIDE DEF g, B
      <3>3. SumFunctionOnSet(g, B \cup {b}) = SumFunctionOnSet(g, B) + g[b]
        BY <2>1, <2>3, <3>2, SumTakesIn
      <3>4. SumFunctionOnSet(g, B) = SumFunctionOnSet(f, B)
        BY <2>3, <3>2, SumDependsOnSet
      <3> QED BY <1>6, <3>1, <3>2, <3>3, <3>4 DEF B
    <2>6. LoweredSum(item)' \in Int /\ BookedSum(item) \in Int
      <3>1. IsFiniteSet(Lowered(item)') /\ \A k \in Lowered(item)' : applied[k] \in Int
        BY <2>2, <2>3, FS_Subset
      <3>2. SumFunctionOnSet(applied, Lowered(item)') \in Int
        BY <3>1, SumIsInt
      <3> QED BY <1>0, <1>1, <3>2, SumsTyped DEF LoweredSum
    <2> QED BY <1>4, <2>3, <2>4, <2>5, <2>6
  <1>8. CASE ~mine
    <2>1. Booked(item)' = Booked(item)
      BY <1>1, <1>2, <1>8 DEF Booked
    <2>2. Lowered(item)' = Lowered(item)
      BY <1>0, <1>1, <1>8, FrameStep DEF Lowered, IsCurrent
    <2>3. BookedSum(item)' = BookedSum(item) /\ LoweredSum(item)' = LoweredSum(item)
      BY <1>1, <2>1, <2>2 DEF BookedSum, LoweredSum
    <2> QED BY <1>0, <1>4, <2>3, SumsTyped
  <1> QED BY <1>7, <1>8

(* A reseed begins a new account of everything.                            *)
LEMMA ReseedStep ==
  ASSUME TypeInv, NEW h \in Handlers, ReseedLedgers(h), NEW item \in Items
  PROVE  /\ Current' = Original
         /\ BookedSum(item)' = 0 /\ LoweredSum(item)' = 0
  <1>1. /\ openAmount \in Seq([Items -> Int]) /\ Original \in [Items -> Int]
        /\ openAmount' = Append(openAmount, Original) /\ applications' = {}
        /\ held' = held /\ pc' = [pc EXCEPT ![h] = "done"]
    BY ErpAssumption DEF TypeInv, StoresOK, ReseedLedgers, Go
  <1>2. Len(openAmount') = Len(openAmount) + 1 /\ Current' = Original
    BY <1>1 DEF Current
  <1>3. Lowered(item)' = {}
    <2>1. \A g \in Handlers : pc'[g] \in CashPoints => pc[g] \in CashPoints
      BY <1>1 DEF CashPoints, TypeInv, LocalsOK
    <2>2. \A g \in Handlers : pc[g] \in CashPoints => held[g] <= Len(openAmount)
      BY <1>1 DEF TypeInv, HeldInv, HeldOK, CashPoints
    <2>3. \A g \in Handlers : held[g] \in Nat
      BY DEF TypeInv, LocalsOK
    <2>4. \A g \in Handlers : pc'[g] \in CashPoints => held'[g] # Len(openAmount')
      BY <1>1, <1>2, <2>1, <2>2, <2>3
    <2> QED BY <2>4 DEF Lowered, IsCurrent, CashPoints
  <1>4. Booked(item)' = {}
    BY <1>1 DEF Booked
  <1>5. BookedSum(item)' = 0
    <2> DEFINE g == [a \in {} |-> a.applied]
    <2>1. BookedSum(item)' = SumFunction(g)
      BY <1>4 DEF BookedSum
    <2>2. DOMAIN g = {}
      OBVIOUS
    <2> HIDE DEF g
    <2> QED BY <2>1, <2>2, SumOfNothing DEF SumFunction
  <1> QED BY <1>2, <1>3, <1>5, SumOfNothing DEF LoweredSum

LEMMA ConservedStep ==
  ASSUME ErpInv, Finite, CashIsConserved, [ErpNext]_erpVars
  PROVE  Finite' /\ CashIsConserved'
  <1>0. TypeInv
    BY DEF ErpInv
  <1>1. CASE UNCHANGED erpVars
    BY <1>1 DEF erpVars, stores, orders, counters, handlers, Finite, Begun,
       CashIsConserved, Booked, Lowered, IsCurrent, Current
  <1>2. ASSUME NEW h \in Handlers, Handle(h)
        PROVE  Finite' /\ CashIsConserved'
    <2>1. Finite'
      BY <1>0, <1>2, FiniteStep
    <2>2. ASSUME NEW item \in Items
          PROVE  Current'[item] + BookedSum(item)' + LoweredSum(item)' = Original[item]
      <3>1. Current[item] + BookedSum(item) + LoweredSum(item) = Original[item]
        BY DEF CashIsConserved, BookedSum, LoweredSum
      <3>2. /\ Current[item] \in Int /\ BookedSum(item) \in Int /\ LoweredSum(item) \in Int
            /\ Original[item] \in Int
        BY <1>0, SumsTyped
      <3>4. CASE Lower(h)
        <4>1. /\ BookedSum(item)' = BookedSum(item)
              /\ Current'[item] \in Int /\ LoweredSum(item)' \in Int
              /\ Current'[item] + LoweredSum(item)' = Current[item] + LoweredSum(item)
          BY <1>0, <3>4, LowerStep
        <4>2. BookedSum(item)' \in Int
          BY <3>2, <4>1
        <4> QED BY <3>1, <3>2, <4>1, <4>2
      <3>5. CASE AppendApplication(h)
        BY <3>1, <3>2, <3>5, AppendStep
      <3>6. CASE ReseedLedgers(h)
        BY <1>0, <3>2, <3>6, ReseedStep
      <3>7. CASE ~Lower(h) /\ ~AppendApplication(h) /\ ~ReseedLedgers(h)
        BY <1>0, <1>2, <3>1, <3>7, IdleStep
      <3> QED BY <3>4, <3>5, <3>6, <3>7
    <2>3. CashIsConserved'
      BY <2>2 DEF CashIsConserved, BookedSum, LoweredSum
    <2> QED BY <2>1, <2>3
  <1> QED BY <1>1, <1>2 DEF ErpNext

LEMMA ConservedInit ==
  ASSUME ErpInit
  PROVE  Finite /\ CashIsConserved
  <1>1. applications = {} /\ Begun = {} /\ Current = Original
    BY DEF ErpInit, Begun, Current
  <1>2. ASSUME NEW item \in Items
        PROVE  BookedSum(item) = 0 /\ LoweredSum(item) = 0
    <2>1. Booked(item) = {} /\ Lowered(item) = {}
      BY <1>1 DEF Booked, Lowered, Begun
    <2> DEFINE g == [a \in {} |-> a.applied]
    <2>2. BookedSum(item) = SumFunction(g) /\ DOMAIN g = {}
      BY <2>1 DEF BookedSum
    <2> HIDE DEF g
    <2> QED BY <2>1, <2>2, SumOfNothing DEF SumFunction, LoweredSum
  <1>3. \A item \in Items : Original[item] \in Int
    BY ErpAssumption
  <1>4. CashIsConserved
    BY <1>1, <1>2, <1>3 DEF CashIsConserved, BookedSum, LoweredSum
  <1> QED BY <1>1, <1>4, FS_EmptySet DEF Finite

-----------------------------------------------------------------------------
(* The inductive invariant of the ERP's handlers, racing or not.           *)
THEOREM ErpInvariant == ErpSpec => [](ErpInv /\ SerialInv)
  BY ErpInitInv, SerialInitInv, ErpStep, PTL DEF ErpSpec

(* Whatever races, every store and every local stays within its type: no   *)
(* handler uses an order or a seeding there is not.                        *)
THEOREM ErpTypeCorrect == ErpSpec => []ErpTypeOK
  <1>1. ErpInv => ErpTypeOK
    BY TypeImplied DEF ErpInv
  <1> QED BY <1>1, ErpInvariant, PTL

(* next() on the two counters is enough for unique numbers.                *)
THEOREM NumbersStayUnique == ErpSpec => []NumbersAreUnique
  <1>1. ErpInv => NumbersAreUnique
    BY DEF ErpInv
  <1> QED BY <1>1, ErpInvariant, PTL

(* Requests that come one by one see the ERP of ErpContract: post_journal  *)
(* books a reference once, apply_cash takes no more than is open.          *)
THEOREM SerialRequestsKeepContract == ErpSpec => SerialKeepsContract
  <1>1. ErpInv /\ SerialInv /\ [ErpNext]_erpVars
          => [serial => Contract!Next]_<<journals, Current>>
    BY ErpStep
  <1> QED BY <1>1, ErpInvariant, PTL DEF ErpSpec, SerialKeepsContract

(* No cent of a receivable is lost or comes from nowhere, whatever races:  *)
(* _apply_cash books exactly what it took, the sign of the rest aside.     *)
THEOREM CashConserved == ErpSpec => []CashIsConserved
  <1>1. ErpInit => Finite /\ CashIsConserved
    BY ConservedInit
  <1>2. ErpInv /\ Finite /\ CashIsConserved /\ [ErpNext]_erpVars
          => Finite' /\ CashIsConserved'
    BY ConservedStep
  <1> QED BY <1>1, <1>2, ErpInvariant, PTL DEF ErpSpec
=============================================================================
