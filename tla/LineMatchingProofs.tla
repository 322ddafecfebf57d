------------------------- MODULE LineMatchingProofs -------------------------
(***************************************************************************)
(* Proofs about LineMatching, for any order, invoices and tolerances.  The *)
(* argument is the loop invariant of _match_lines: consumed holds exactly  *)
(* the order lines paired so far, so no later item can take one of them,   *)
(* and an item that names its order line finds it still there.             *)
(***************************************************************************)
EXTENDS LineMatching, FiniteSetTheorems, WellFoundedInduction, TLAPS

(* A finite nonempty set of naturals has a least element: a minimal one    *)
(* among its initial segments is that of its least element.                *)
LEMMA LeastExists ==
  ASSUME NEW S \in SUBSET Nat, S # {}, IsFiniteSet(S)
  PROVE  \E p \in S : \A q \in S : p <= q
  <1> DEFINE Below(x) == {y \in S : y < x}
             Segments == {Below(x) : x \in S}
  <1>1. IsWellFoundedOn(StrictSubsetOrdering(S), SUBSET S)
    BY FS_StrictSubsetOrderingWellFounded, FS_FiniteSubsetsOfFinite
  <1>2. Segments \subseteq SUBSET S /\ Segments # {}
    OBVIOUS
  <1>3. PICK B \in Segments :
          \A C \in Segments : ~(<<C, B>> \in StrictSubsetOrdering(S))
    BY <1>1, <1>2, WFMin
  <1>4. PICK p \in S : B = Below(p)
    OBVIOUS
  <1>5. ASSUME NEW q \in S, ~(p <= q) PROVE FALSE
    <2>1. q < p
      BY <1>5
    <2>2. Below(q) \subseteq Below(p)
      <3>1. ASSUME NEW y \in S, y < q PROVE y < p
        <4>1. y \in Nat /\ q \in Nat /\ p \in Nat
          OBVIOUS
        <4> QED BY <2>1, <3>1, <4>1
      <3> QED BY <3>1
    <2>3. q \in Below(p) /\ q \notin Below(q)
      BY <2>1
    <2>4. <<Below(q), Below(p)>> \in StrictSubsetOrdering(S)
      BY <2>2, <2>3 DEF StrictSubsetOrdering
    <2> QED BY <1>3, <1>4, <2>4
  <1> QED BY <1>5

(* next(...) over a nonempty choice finds an element.                      *)
LEMMA FirstIsMember ==
  ASSUME NEW S \in SUBSET Nat, S # {}, IsFiniteSet(S)
  PROVE  First(S) \in S
  BY LeastExists DEF First

(* The best description score is reached, and by a first line.             *)
LEMMA BestIsMember ==
  ASSUME NEW S \in SUBSET Nat, S # {}, IsFiniteSet(S), NEW text,
         \A p \in S : Similarity[text][p] \in 0..100
  PROVE  Best(text, S) \in S
  <1> DEFINE Sim(p) == Similarity[text][p]
             Gaps == {100 - Sim(p) : p \in S}
  <1>1. Gaps \in SUBSET (0..100) /\ Gaps # {}
    <2>1. ASSUME NEW p \in S PROVE 100 - Sim(p) \in 0..100
      <3> DEFINE s == Sim(p)
      <3>1. s \in 0..100
        OBVIOUS
      <3> HIDE DEF s
      <3>2. 100 - s \in 0..100
        BY <3>1
      <3> QED BY <3>2 DEF s
    <2> HIDE DEF Sim
    <2> QED BY <2>1
  <1>2. IsFiniteSet(Gaps)
    <2>1. IsFiniteSet(0..100)
      <3>1. 0 \in Int /\ 100 \in Int
        OBVIOUS
      <3> QED BY ONLY <3>1, FS_Interval, Zenon
    <2> HIDE DEF Gaps
    <2> QED BY <1>1, <2>1, FS_Subset
  <1>3. \E h \in Gaps : \A k \in Gaps : h <= k
    <2> HIDE DEF Gaps
    <2>1. Gaps \in SUBSET Nat
      BY <1>1
    <2> QED BY <1>1, <1>2, <2>1, LeastExists
  <1>4. PICK g \in Gaps : \A h \in Gaps : g <= h
    BY <1>3
  <1> DEFINE Top == {p \in S : 100 - Sim(p) = g}
  <1>5. Top \in SUBSET Nat /\ Top # {} /\ Top \in SUBSET S
    BY <1>4
  <1>6. IsFiniteSet(Top)
    BY <1>5, FS_Subset
  <1>7. \E p \in Top : \A q \in Top : p <= q
    <2> HIDE DEF Top
    <2> QED BY <1>5, <1>6, LeastExists
  <1>8. PICK p \in Top : \A q \in Top : p <= q
    BY <1>7
  <1>9. ASSUME NEW q \in S
        PROVE  Sim(p) > Sim(q) \/ (Sim(p) = Sim(q) /\ p <= q)
    <2>1. 100 - Sim(p) = g /\ g <= 100 - Sim(q)
      BY <1>4, <1>8
    <2>2. Sim(p) \in 0..100 /\ Sim(q) \in 0..100
      BY <1>8
    <2> HIDE DEF Sim
    <2>3. Sim(p) >= Sim(q)
      <3>1. \A a, b, c \in Int : 100 - a = c /\ c <= 100 - b => a >= b
        OBVIOUS
      <3>2. Sim(p) \in Int /\ Sim(q) \in Int /\ g \in Int
        BY <2>1, <2>2
      <3> QED BY ONLY <2>1, <3>1, <3>2, Zenon
    <2>4. CASE Sim(p) = Sim(q)
      <3>1. q \in Top
        BY <2>1, <2>4
      <3> QED BY <1>8, <2>4, <3>1
    <2>5. CASE Sim(p) # Sim(q)
      <3>1. Sim(p) > Sim(q)
        <4>1. \A a, b \in 0..100 : a >= b /\ a # b => a > b
          OBVIOUS
        <4> QED BY ONLY <2>2, <2>3, <2>5, <4>1, Zenon
      <3> QED BY <3>1
    <2> QED BY <2>4, <2>5
  <1> QED BY <1>8, <1>9 DEF Best

(* What _pair_line returns is a free order line or nothing, and the line   *)
(* the item names if that one is free.                                     *)
LEMMA PairLineResult ==
  ASSUME NEW l \in Items, NEW free \in SUBSET Positions,
         l.text # None => \A p \in Positions : Similarity[l.text][p] \in 0..100
  PROVE  /\ PairLine(l, free) \in free \cup {0}
         /\ ByNumber(l, free) # {} =>
              PairLine(l, free) \in free /\ OrderLine[PairLine(l, free)].number = l.number
  <1>0. free \in SUBSET Nat /\ IsFiniteSet(free)
    BY OrderAssumption, FS_Subset
  <1>1. CASE ByNumber(l, free) # {}
    <2>1. ByNumber(l, free) \in SUBSET Nat /\ IsFiniteSet(ByNumber(l, free))
      BY <1>0, FS_Subset DEF ByNumber
    <2>2. First(ByNumber(l, free)) \in ByNumber(l, free)
      BY <1>1, <2>1, FirstIsMember
    <2>3. PairLine(l, free) = First(ByNumber(l, free))
      BY <1>1 DEF PairLine
    <2> QED BY <2>2, <2>3 DEF ByNumber
  <1>2. CASE ByNumber(l, free) = {} /\ ByCode(l, free) # {}
    <2>1. ByCode(l, free) \in SUBSET Nat /\ IsFiniteSet(ByCode(l, free))
      BY <1>0, FS_Subset DEF ByCode
    <2>2. First(ByCode(l, free)) \in ByCode(l, free)
      BY <1>2, <2>1, FirstIsMember
    <2>3. PairLine(l, free) = First(ByCode(l, free))
      BY <1>2 DEF PairLine
    <2> QED BY <1>2, <2>2, <2>3 DEF ByCode
  <1>3. CASE ByNumber(l, free) = {} /\ ByCode(l, free) = {} /\ ByText(l, free) # {}
    <2>1. ByText(l, free) \in SUBSET Nat /\ IsFiniteSet(ByText(l, free))
      BY <1>0, FS_Subset DEF ByText
    <2>2. \A p \in ByText(l, free) : Similarity[l.text][p] \in 0..100
      BY DEF ByText
    <2>3. Best(l.text, ByText(l, free)) \in ByText(l, free)
      BY <1>3, <2>1, <2>2, BestIsMember
    <2>4. PairLine(l, free) = Best(l.text, ByText(l, free))
      BY <1>3 DEF PairLine
    <2> QED BY <1>3, <2>3, <2>4 DEF ByText
  <1>4. CASE ByNumber(l, free) = {} /\ ByCode(l, free) = {} /\ ByText(l, free) = {}
    BY <1>4 DEF PairLine
  <1> QED BY <1>1, <1>2, <1>3, <1>4

-----------------------------------------------------------------------------
LEMMA InitInv == Init => IInv
  BY InvoicesAssumption DEF Init, IInv, TypeOK, NamedLinesArePaired

(* Prices and quantities of an order line are integers.                    *)
LEMMA OrderIsTyped ==
  ASSUME NEW p \in Positions
  PROVE  OrderLine[p].price \in Int /\ OrderLine[p].ordered \in Int
  <1> DEFINE T == [number : Int, code : STRING \cup {None},
                   ordered : Int, onOrder : Int, price : Int]
  <1>1. OrderLine \in [Positions -> T]
    BY OrderAssumption
  <1>2. \A r \in T : r.price \in Int /\ r.ordered \in Int
    OBVIOUS
  <1> HIDE DEF T
  <1> QED BY <1>1, <1>2

(* So are those of an item.                                                *)
LEMMA ItemIsTyped ==
  ASSUME NEW l \in Items
  PROVE  l.price \in Int /\ l.quantity \in Int
  BY DEF Items

(* What the type of an invoice says of its items.                          *)
LEMMA ItemsAreTyped ==
  ASSUME NEW i \in Invoices
  PROVE  Len(i.items) \in Nat /\ \A n \in 1..Len(i.items) : i.items[n] \in Items
  <1>1. i \in InvoiceType
    BY InvoicesAssumption
  <1> DEFINE s == i.items
  <1>2. s \in Seq(Items)
    BY <1>1 DEF InvoiceType
  <1> HIDE DEF s
  <1>3. Len(s) \in Nat /\ \A n \in 1..Len(s) : s[n] \in Items
    BY <1>2
  <1> QED BY <1>3 DEF s

(* And of the item the loop is at.                                         *)
LEMMA InvoiceIsTyped ==
  ASSUME NEW i \in Invoices
  PROVE  /\ Len(i.items) \in Nat
         /\ i.po \in BOOLEAN
         /\ \A n \in 1..Len(i.items) :
              /\ i.items[n] \in Items
              /\ i.items[n].text # None =>
                   \A p \in Positions : Similarity[i.items[n].text][p] \in 0..100
  <1>1. i \in InvoiceType
    BY InvoicesAssumption
  <1>2. i.po \in BOOLEAN
    BY <1>1 DEF InvoiceType
  <1>3. \A n \in 1..Len(i.items) :
          i.items[n].text # None =>
            \A p \in Positions : Similarity[i.items[n].text][p] \in 0..100
    BY OrderAssumption
  <1> QED BY <1>2, <1>3, ItemsAreTyped

(* Whether a line is clean is a matter of the line and its order line.     *)
LEMMA CleanNext ==
  ASSUME NEW n, NEW l, NEW p, l = invoice'.items[n], p = pairing'[n]
  PROVE  IsClean(invoice.items[n], pairing[n])' <=> IsClean(l, p)
  BY DEF IsClean, Received, PriceWithin, QuantityWithin, Within, PctDelta, Rounded,
         Impact, Quantity, Abs

LEMMA CleanSoFarNext ==
  ASSUME CleanSoFar, UNCHANGED <<invoice, line, pairing>>, exceptions \subseteq exceptions'
  PROVE  CleanSoFar'
  <1> SUFFICES ASSUME exceptions' = {}, NEW n \in 1..Len(invoice.items), n < line
               PROVE  IsClean(invoice.items[n], pairing[n])'
    BY DEF CleanSoFar
  <1>1. IsClean(invoice.items[n], pairing[n])
    BY DEF CleanSoFar
  <1> QED BY <1>1, CleanNext

(* A new invoice starts with nothing paired and nothing consumed.          *)
LEMMA ArriveInv ==
  ASSUME TypeOK, MayArrive, NEW i \in Invoices, Arrive(i)
  PROVE  /\ invoice' \in Invoices /\ line' = 1 /\ line' \in Nat \ {0}
         /\ consumed' = {} /\ arrived' \in 0..MaxInvoices
         /\ line' <= Len(invoice'.items) + 1
         /\ pairing' \in [1..Len(invoice'.items) -> Positions \cup {0}]
         /\ (Untouched /\ PairedAreConsumed /\ ConsumedArePaired /\ PairedOnce)'
         /\ CleanSoFar'
         /\ NamedLinesArePaired'
  <1>1. invoice' = i /\ line' = 1 /\ consumed' = {} /\ arrived' = arrived + 1
        /\ pairing' = [n \in 1..Len(i.items) |-> 0]
    BY DEF Arrive
  <1>2. Len(i.items) \in Nat
    BY InvoiceIsTyped
  <1>3. arrived' \in 0..MaxInvoices
    BY InvoicesAssumption DEF MayArrive, Arrive, TypeOK
  <1>4. (Untouched /\ PairedAreConsumed /\ ConsumedArePaired /\ PairedOnce)'
    BY <1>1 DEF Untouched, PairedAreConsumed, ConsumedArePaired, PairedOnce
  <1>5. \A n \in 1..Len(i.items) : ~(n < line')
    BY <1>1, <1>2
  <1>6. CleanSoFar' /\ NamedLinesArePaired'
    BY <1>1, <1>5 DEF CleanSoFar, NamedLinesArePaired
  <1> QED BY <1>1, <1>2, <1>3, <1>4, <1>6

LEMMA MatchNonPoInv ==
  ASSUME IInv, MayArrive, NEW i \in Invoices, MatchNonPo(i)
  PROVE  IInv'
  <1>1. TypeOK /\ Arrive(i)
    BY DEF IInv, MatchNonPo
  <1>2. invoice' = i /\ ~i.po /\ outcome' = "exception" /\ exceptions' = {"missing_po"}
    BY DEF MatchNonPo, Arrive
  <1>3. TypeOK'
    BY <1>1, <1>2, ArriveInv, InvoicesAssumption DEF TypeOK
  <1>4. invoice' # None
    BY <1>2, InvoicesAssumption
  <1> QED BY <1>1, <1>2, <1>3, <1>4, ArriveInv DEF IInv

LEMMA MatchHeaderInv ==
  ASSUME IInv, MayArrive, NEW i \in Invoices, MatchHeader(i)
  PROVE  IInv'
  <1>1. TypeOK /\ Arrive(i)
    BY DEF IInv, MatchHeader
  <1>2. invoice' = i /\ i.po /\ outcome' = "none" /\ exceptions' = HeaderExceptions(i)
    BY DEF MatchHeader, Arrive
  <1>3. TypeOK'
    BY <1>1, <1>2, ArriveInv, InvoicesAssumption DEF TypeOK, HeaderExceptions
  <1>4. invoice' # None
    BY <1>2, InvoicesAssumption
  <1>5. CleanTotal'
    BY <1>2 DEF CleanTotal, HeaderExceptions, TotalWithin, Total, Within, PctDelta, Rounded
  <1> QED BY <1>1, <1>2, <1>3, <1>4, <1>5, ArriveInv DEF IInv

LEMMA ReportInv ==
  ASSUME IInv, Report
  PROVE  IInv'
  <1>1. UNCHANGED <<invoice, line, consumed, pairing, arrived>>
    BY DEF Report
  <1>2. invoice # None /\ outcome = "none" /\ line > Len(invoice.items)
    BY DEF Report, Between
  <1>3. exceptions' = exceptions \cup FooterExceptions(invoice)
        /\ outcome' = IF exceptions' = {} THEN "matched" ELSE "exception"
    BY DEF Report
  <1>4. invoice.po
    BY <1>2 DEF IInv, TypeOK
  <1>5. TypeOK'
    BY <1>1, <1>3 DEF IInv, TypeOK, FooterExceptions
  <1>6. (Untouched /\ PairedAreConsumed /\ ConsumedArePaired /\ PairedOnce)'
    BY <1>1, <1>2, <1>4
    DEF IInv, Untouched, PairedAreConsumed, ConsumedArePaired, PairedOnce
  <1>7. CleanSoFar'
    <2>1. CleanSoFar /\ exceptions \subseteq exceptions'
      BY <1>2, <1>3, <1>4 DEF IInv
    <2> QED BY <1>1, <2>1, CleanSoFarNext
  <1>10. CleanTotal'
    <2>1. exceptions' = {} => FooterExceptions(invoice) = {} /\ TotalWithin(invoice)
      BY <1>2, <1>3, <1>4 DEF IInv, CleanTotal
    <2>2. FooterExceptions(invoice) = {} => ~(Total(invoice) > Tolerance.ceiling)
      BY DEF FooterExceptions
    <2>3. TotalWithin(invoice)' <=> TotalWithin(invoice)
      BY <1>1 DEF TotalWithin, Total, Within, PctDelta, Rounded
    <2> QED BY <1>1, <1>3, <2>1, <2>2, <2>3 DEF CleanTotal, Total
  <1>8. NamedLinesArePaired'
    BY <1>1 DEF IInv, NamedLinesArePaired, NamesDistinctLines, NamesLine
  <1>9. outcome' = "matched" => exceptions' = {} /\ line' > Len(invoice'.items)
    BY <1>1, <1>2, <1>3
  <1> QED BY <1>1, <1>2, <1>4, <1>5, <1>6, <1>7, <1>8, <1>9, <1>10 DEF IInv

(* The step that matters: an item takes a free order line or none.         *)
LEMMA MatchLineInv ==
  ASSUME IInv, MatchLine
  PROVE  IInv'
  <1> DEFINE l == invoice.items[line]
             p == PairLine(l, Positions \ consumed)
  <1>1. /\ invoice # None /\ outcome = "none" /\ line <= Len(invoice.items)
        /\ pairing' = [pairing EXCEPT ![line] = p]
        /\ consumed' = IF p # 0 THEN consumed \cup {p} ELSE consumed
        /\ exceptions' = exceptions \cup LineExceptions(l, p)
        /\ line' = line + 1
        /\ UNCHANGED <<invoice, outcome, billed, arrived>>
    BY DEF MatchLine, Between
  <1>2. /\ invoice \in Invoices /\ line \in 1..Len(invoice.items)
        /\ Len(invoice.items) \in Nat /\ invoice.po
        /\ pairing \in [1..Len(invoice.items) -> Positions \cup {0}]
        /\ consumed \subseteq Positions
    <2>1. invoice \in Invoices /\ line \in Nat \ {0} /\ invoice.po
      BY <1>1 DEF IInv, TypeOK
    <2>2. Len(invoice.items) \in Nat
      BY <2>1, InvoiceIsTyped
    <2> QED BY <1>1, <2>1, <2>2 DEF IInv, TypeOK
  <1>3. /\ p \in (Positions \ consumed) \cup {0}
        /\ ByNumber(l, Positions \ consumed) # {} =>
             p \in Positions /\ OrderLine[p].number = l.number
    <2>1. l \in Items /\ (l.text # None => \A q \in Positions : Similarity[l.text][q] \in 0..100)
      BY <1>2, InvoiceIsTyped
    <2> HIDE DEF l
    <2>2. Positions \ consumed \in SUBSET Positions
      OBVIOUS
    <2> QED BY <2>1, <2>2, PairLineResult
  <1>4. Untouched /\ PairedAreConsumed /\ ConsumedArePaired /\ PairedOnce /\ CleanSoFar
        /\ CleanTotal
    BY <1>1, <1>2 DEF IInv
  <1> HIDE DEF p
  <1>5. 0 \notin Positions
    BY OrderAssumption
  <1>6. pairing[line] = 0
    BY <1>2, <1>4 DEF Untouched
  <1>7. /\ pairing' \in [1..Len(invoice.items) -> Positions \cup {0}]
        /\ pairing'[line] = p
        /\ \A n \in 1..Len(invoice.items) : n # line => pairing'[n] = pairing[n]
    BY <1>1, <1>2, <1>3
  <1>8. TypeOK'
    <2>1. LineExceptions(l, p) \subseteq {"line_not_on_po", "price_variance",
                                         "quantity_variance", "missing_goods_receipt"}
      BY DEF LineExceptions
    <2>2. line' \in Nat \ {0} /\ line' <= Len(invoice.items) + 1
      BY <1>1, <1>2
    <2>3. consumed' \subseteq Positions
      BY <1>1, <1>2, <1>3
    <2> HIDE DEF l
    <2> QED BY <1>1, <1>7, <2>1, <2>2, <2>3 DEF IInv, TypeOK
  <1>9. Untouched'
    BY <1>1, <1>2, <1>4, <1>7 DEF Untouched
  <1>10. PairedAreConsumed'
    BY <1>1, <1>2, <1>4, <1>7 DEF PairedAreConsumed
  <1>11. ConsumedArePaired'
    <2> SUFFICES ASSUME NEW q \in consumed'
                 PROVE  \E n \in 1..Len(invoice.items) : pairing'[n] = q
      BY <1>1 DEF ConsumedArePaired
    <2>1. CASE q \in consumed
      <3>1. PICK n \in 1..Len(invoice.items) : pairing[n] = q
        BY <1>4, <2>1 DEF ConsumedArePaired
      <3>2. n # line
        BY <1>2, <1>5, <1>6, <2>1, <3>1
      <3> QED BY <1>7, <3>1, <3>2
    <2>2. CASE q = p
      BY <1>2, <1>7, <2>2
    <2> QED BY <1>1, <2>1, <2>2
  <1>12. PairedOnce'
    <2>1. \A n \in 1..Len(invoice.items) : pairing[n] = p => p = 0
      BY <1>3, <1>4 DEF PairedAreConsumed
    <2> QED BY <1>1, <1>2, <1>4, <1>7, <2>1 DEF PairedOnce
  <1>13. CleanSoFar'
    <2> SUFFICES ASSUME exceptions' = {}, NEW n \in 1..Len(invoice.items), n < line'
                 PROVE  IsClean(invoice.items[n], pairing[n])'
      BY <1>1 DEF CleanSoFar
    <2>1. exceptions = {} /\ LineExceptions(l, p) = {}
      BY <1>1
    <2>2. CASE n = line
      <3>1. p # 0
        BY <2>1 DEF LineExceptions
      <3>2. Order.threeWay => ~(l.quantity > Received(p))
        BY <2>1, <3>1 DEF LineExceptions
      <3>3. PriceWithin(l, OrderLine[p]) /\ QuantityWithin(l, OrderLine[p])
        BY <2>1, <3>1 DEF LineExceptions
      <3>4. IsClean(l, p)
        BY <3>1, <3>2, <3>3 DEF IsClean
      <3> QED BY <1>1, <1>7, <2>2, <3>4, CleanNext
    <2>3. CASE n # line
      <3>1. n < line
        BY <1>1, <1>2, <2>3
      <3>2. IsClean(invoice.items[n], pairing[n])
        BY <1>4, <2>1, <3>1 DEF CleanSoFar
      <3> QED BY <1>1, <1>7, <2>3, <3>2, CleanNext
    <2> QED BY <2>2, <2>3
  <1>14. NamedLinesArePaired'
    <2> SUFFICES ASSUME NamesDistinctLines, NEW n \in 1..Len(invoice.items), n < line'
                 PROVE  pairing'[n] # 0 /\ NamesLine(n, pairing'[n])
      BY <1>1 DEF NamedLinesArePaired, NamesDistinctLines, NamesLine
    <2>1. CASE n # line
      <3>1. n < line
        BY <1>1, <1>2, <2>1
      <3> QED BY <1>1, <1>7, <2>1, <3>1 DEF IInv, NamedLinesArePaired
    <2>2. CASE n = line
      <3>1. PICK q \in Positions : NamesLine(line, q)
        BY <1>2 DEF NamesDistinctLines
      <3>2. q \notin consumed
        <4> SUFFICES ASSUME q \in consumed PROVE FALSE
          OBVIOUS
        <4>1. PICK m \in 1..Len(invoice.items) : pairing[m] = q
          BY <1>4 DEF ConsumedArePaired
        <4>2. m # line /\ m < line
          BY <1>2, <1>4, <1>5, <1>6, <4>1 DEF Untouched
        <4>3. NamesLine(m, q)
          BY <1>1, <4>1, <4>2 DEF IInv, NamedLinesArePaired
        <4>4. invoice.items[m].number = invoice.items[line].number
          BY <3>1, <4>3 DEF NamesLine
        <4> QED BY <1>2, <4>2, <4>4 DEF NamesDistinctLines
      <3>3. q \in ByNumber(l, Positions \ consumed)
        BY <3>1, <3>2 DEF ByNumber, NamesLine
      <3>4. p \in Positions /\ OrderLine[p].number = l.number
        BY <1>3, <3>3
      <3> QED BY <1>5, <1>7, <2>2, <3>4 DEF NamesLine
    <2> QED BY <2>1, <2>2
  <1>15. CleanTotal'
    <2>1. TotalWithin(invoice)' <=> TotalWithin(invoice)
      BY <1>1 DEF TotalWithin, Total, Within, PctDelta, Rounded
    <2> QED BY <1>1, <1>4, <2>1 DEF CleanTotal
  <1> QED BY <1>1, <1>2, <1>8, <1>9, <1>10, <1>11, <1>12, <1>13, <1>14, <1>15 DEF IInv

(* The loop invariant holds in every reachable state.                      *)
THEOREM MatchingInvariant == Spec => []IInv
  <1>1. ASSUME IInv, UNCHANGED vars PROVE IInv'
    <2>1. CleanSoFar => CleanSoFar'
      BY <1>1, CleanSoFarNext DEF vars
    <2> QED BY <1>1, <2>1
        DEF vars, IInv, TypeOK, Untouched, PairedAreConsumed, ConsumedArePaired,
            PairedOnce, NamedLinesArePaired, NamesDistinctLines, NamesLine, CleanTotal,
            TotalWithin, Total, Within, PctDelta, Rounded
  <1>2. ASSUME IInv, [Next]_vars PROVE IInv'
    BY <1>1, <1>2, MatchNonPoInv, MatchHeaderInv, MatchLineInv, ReportInv DEF Next
  <1> QED BY InitInv, <1>2, PTL DEF Spec

(* Type correctness, for any order, invoices and tolerances.               *)
THEOREM MatchingTypes == Spec => []TypeOK
  <1>1. IInv => TypeOK
    BY DEF IInv
  <1> QED BY <1>1, MatchingInvariant, PTL

(* A match that passes bills every order line at most once and, on a       *)
(* three-way order, nothing beyond what was received: _match_lines gives   *)
(* each item an order line of its own.                                     *)
THEOREM MatchesStayWithinReceipt == Spec => []BilledWithinReceipt
  <1>1. IInv => BilledWithinReceipt
    <2> SUFFICES ASSUME IInv, outcome = "matched" PROVE BilledWithinReceipt
      BY DEF BilledWithinReceipt
    <2>1. invoice \in Invoices /\ invoice.po
      BY DEF IInv, TypeOK
    <2>2. Len(invoice.items) \in Nat /\ line \in Nat
      <3>1. Len(invoice.items) \in Nat
        BY <2>1, ItemsAreTyped
      <3>2. line \in Nat
        BY DEF IInv, TypeOK
      <3> QED BY <3>1, <3>2
    <2>3. \A n \in 1..Len(invoice.items) : n < line
      BY <2>2 DEF IInv
    <2>4. PairedOnce /\ CleanSoFar /\ exceptions = {}
      BY <2>1, InvoicesAssumption DEF IInv
    <2> QED BY <2>3, <2>4 DEF BilledWithinReceipt, PairedOnce, CleanSoFar, IsClean
  <1> QED BY <1>1, MatchingInvariant, PTL

(* An invoice that names the order lines, each once, is paired with those, *)
(* whatever its material codes and descriptions resemble (_pair_line).     *)
THEOREM NamesDecide == Spec => []NamedLinesArePaired
  <1>1. IInv => NamedLinesArePaired
    BY DEF IInv
  <1> QED BY <1>1, MatchingInvariant, PTL
-----------------------------------------------------------------------------
(* What a quotient is within bounds what was divided.                      *)
LEMMA DivBounds ==
  ASSUME NEW x \in Nat, NEW y \in Nat, NEW q \in Int, y > 0, x \div y <= q
  PROVE  x < (q + 1) * y
  <1> DEFINE z == x \div y
  <1>1. z \in Int /\ x < (z + 1) * y
    OBVIOUS
  <1>2. z <= q
    OBVIOUS
  <1> HIDE DEF z
  <1>3. (z + 1) * y <= (q + 1) * y
    BY <1>1, <1>2
  <1> QED BY <1>1, <1>3

(* A nonnegative value that rounds to at most a limit is below the limit   *)
(* and half a unit.                                                        *)
LEMMA RoundedBounds ==
  ASSUME NEW x \in Nat, NEW unit \in Nat, NEW limit \in Int, unit > 0,
         Rounded(x, unit) <= limit
  PROVE  2 * x < (2 * limit + 1) * unit
  <1>1. Abs(x) = x /\ ~(x < 0)
    BY DEF Abs
  <1>2. (2 * x + unit) \div (2 * unit) <= limit
    BY <1>1 DEF Rounded
  <1>3. 2 * x + unit \in Nat /\ 2 * unit \in Nat /\ 2 * unit > 0
    OBVIOUS
  <1>4. 2 * x + unit < (limit + 1) * (2 * unit)
    BY <1>2, <1>3, DivBounds
  <1>5. (limit + 1) * (2 * unit) = (2 * limit + 1) * unit + unit
    OBVIOUS
  <1> DEFINE t == (2 * limit + 1) * unit
  <1>6. t \in Int
    OBVIOUS
  <1>7. 2 * x + unit < t + unit
    BY <1>4, <1>5
  <1> HIDE DEF t
  <1>8. 2 * x < t
    BY <1>6, <1>7
  <1> QED BY <1>8 DEF t

(* A percentage that was rounded half up and is within a tolerance of less *)
(* than 100 percent bounds the deviation it was computed from.             *)
LEMMA PctBounds ==
  ASSUME NEW value \in Int, NEW reference \in Int, NEW pct \in Nat, pct < 10000,
         PctDelta(value, reference) <= pct
  PROVE  Near(value, reference, pct) \/ value = reference
  <1> DEFINE d == Abs(value - reference)
             r == Abs(reference)
  <1>1. d \in Nat /\ r \in Nat /\ (d = 0 => value = reference)
    BY DEF Abs
  <1>2. CASE reference = 0
    BY <1>1, <1>2 DEF PctDelta
  <1>3. CASE reference # 0
    <2>1. r > 0
      BY <1>3 DEF Abs
    <2>2. Rounded(10000 * d, r) <= pct
      BY <1>3 DEF PctDelta
    <2> HIDE DEF d, r
    <2>3. 10000 * d \in Nat
      BY <1>1
    <2>4. 2 * (10000 * d) < (2 * pct + 1) * r
      BY <1>1, <2>1, <2>2, <2>3, RoundedBounds
    <2>5. 20000 * d < (2 * pct + 1) * r
      <3>1. 2 * (10000 * d) = 20000 * d
        BY <1>1
      <3> QED BY <2>4, <3>1
    <2> QED BY <2>5 DEF Near, d, r
  <1> QED BY <1>2, <1>3

(* So a value that passes _build_variance is off by no more than it says.  *)
LEMMA WithinBounds ==
  ASSUME NEW value \in Int, NEW reference \in Int, NEW abs \in Int,
         NEW pct \in Nat, pct < 10000, Within(value, reference, abs, pct)
  PROVE  OffBy(value, reference, abs, pct)
  <1>1. CASE Abs(value - reference) <= abs
    BY <1>1 DEF OffBy
  <1>2. CASE PctDelta(value, reference) <= pct
    BY <1>2, PctBounds DEF OffBy
  <1> QED BY <1>1, <1>2 DEF Within

(* And a price that passes _price_variance, unless the line is a credit.   *)
LEMMA PriceIsBounded ==
  ASSUME Tolerance.price < 10000,
         NEW l, l.price \in Int, l.quantity \in Int,
         NEW o, o.price \in Int, PriceWithin(l, o)
  PROVE  PriceBounded(l, o)
  <1>1. Tolerance.price \in Nat /\ Tolerance.impact \in Int
    BY ToleranceAssumption
  <1>2. CASE PctDelta(l.price, o.price) <= Tolerance.price
    BY <1>1, <1>2, PctBounds DEF PriceBounded
  <1>3. CASE Impact(l, o) <= Tolerance.impact /\ l.quantity > 0
    <2> DEFINE d == Abs(l.price - o.price)
               q == l.quantity
               x == d * q
    <2>1. d \in Nat /\ q \in Nat
      BY <1>3 DEF Abs
    <2>2. Rounded(x, Scale) <= Tolerance.impact
      BY <1>3 DEF Impact, Quantity
    <2> HIDE DEF d, q
    <2>3. x \in Nat
      BY <2>1
    <2> HIDE DEF x
    <2>4. Scale \in Nat /\ Scale > 0
      BY ToleranceAssumption
    <2>5. 2 * x < (2 * Tolerance.impact + 1) * Scale
      BY <1>1, <2>2, <2>3, <2>4, RoundedBounds
    <2> QED BY <2>5 DEF PriceBounded, x, d, q
  <1>4. CASE ~(l.quantity > 0)
    BY <1>4 DEF PriceBounded
  <1> QED BY <1>2, <1>3, <1>4 DEF PriceWithin

(* The money at risk in a match that passes is bounded, line by line and   *)
(* over the invoice, whatever the order and the invoice are: what          *)
(* _price_variance and _build_variance let through is never more than      *)
(* their tolerances and their rounding say.  A tolerance of 100 percent or *)
(* more would accept anything against a reference of zero.                 *)
THEOREM LeakageStaysBounded ==
  ASSUME Tolerance.price < 10000, Tolerance.quantity < 10000, Tolerance.total < 10000
  PROVE  Spec => []LeakageBounded
  <1>1. IInv => LeakageBounded
    <2> SUFFICES ASSUME IInv, outcome = "matched" PROVE LeakageBounded
      BY DEF LeakageBounded
    <2>1. invoice \in Invoices /\ invoice.po /\ invoice # None
      BY DEF IInv, TypeOK
    <2>2. Len(invoice.items) \in Nat /\ line \in Nat
      <3>1. Len(invoice.items) \in Nat
        BY <2>1, ItemsAreTyped
      <3>2. line \in Nat
        BY DEF IInv, TypeOK
      <3> QED BY <3>1, <3>2
    <2>3. \A n \in 1..Len(invoice.items) : n < line
      BY <2>2 DEF IInv
    <2>4. CleanSoFar /\ CleanTotal /\ exceptions = {}
      BY <2>1, InvoicesAssumption DEF IInv
    <2>5. /\ Tolerance.quantity \in Nat /\ Tolerance.quantityAbs \in Int
          /\ Tolerance.total \in Nat /\ Tolerance.totalAbs \in Int
          /\ Tolerance.ceiling \in Int /\ Order.gross \in Int
      BY ToleranceAssumption
    <2>6. Total(invoice) \in Int
      <3>1. invoice.total \in Int \cup {None}
        BY <2>1, InvoicesAssumption DEF InvoiceType
      <3> QED BY <3>1 DEF Total
    <2>7. Total(invoice) <= Tolerance.ceiling
      BY <2>4, <2>5, <2>6 DEF CleanTotal
    <2>8. OffBy(Total(invoice), Order.gross, Tolerance.totalAbs, Tolerance.total)
      BY <2>4, <2>5, <2>6, WithinBounds DEF CleanTotal, TotalWithin
    <2>9. ASSUME NEW n \in 1..Len(invoice.items)
          PROVE  /\ PriceBounded(invoice.items[n], OrderLine[pairing[n]])
                 /\ OffBy(invoice.items[n].quantity, OrderLine[pairing[n]].ordered,
                          Tolerance.quantityAbs, Tolerance.quantity)
      <3> DEFINE l == invoice.items[n]
                 o == OrderLine[pairing[n]]
      <3>1. PriceWithin(l, o) /\ QuantityWithin(l, o) /\ pairing[n] # 0
        BY <2>3, <2>4 DEF CleanSoFar, IsClean
      <3>2. l.price \in Int /\ l.quantity \in Int
        <4>1. l \in Items
          BY <2>1, ItemsAreTyped
        <4> HIDE DEF l
        <4> QED BY <4>1, ItemIsTyped
      <3>3. pairing[n] \in Positions
        BY <2>1, <3>1 DEF IInv, TypeOK
      <3>4. o.price \in Int /\ o.ordered \in Int
        BY <3>3, OrderIsTyped
      <3> HIDE DEF l, o
      <3>5. PriceBounded(l, o)
        BY <3>1, <3>2, <3>4, PriceIsBounded
      <3>6. OffBy(l.quantity, o.ordered, Tolerance.quantityAbs, Tolerance.quantity)
        BY <2>5, <3>1, <3>2, <3>4, WithinBounds DEF QuantityWithin
      <3> QED BY <3>5, <3>6 DEF l, o
    <2> QED BY <2>7, <2>8, <2>9 DEF LeakageBounded
  <1> QED BY <1>1, MatchingInvariant, PTL
=============================================================================
