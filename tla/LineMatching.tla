---------------------------- MODULE LineMatching ----------------------------
(***************************************************************************)
(* The deterministic two-way / three-way match of matching/engine.py: the  *)
(* invoices that arrive for one purchase order are matched one by one, the *)
(* loop over the lines of an invoice being a step per line, because each   *)
(* line takes its order line away from the lines after it.                 *)
(*                                                                         *)
(* Order lines are known by their position.  Amounts are integers of a     *)
(* unit as fine as the documents' decimals need: totals, prices and        *)
(* quantities have one each, and Scale units of price times quantity make  *)
(* a cent.  Percentages are in hundredths of a percent.                    *)
(***************************************************************************)
EXTENDS Integers, Sequences, FiniteSets, FiniteSetsExt

CONSTANTS
  Invoices,       \* the invoices that may arrive for the order
  Positions,      \* the lines of the order, numbered from 1
  OrderLine,      \* OrderLine[p]: number, code, ordered, onOrder, price
  Similarity,     \* Similarity[text][p]: fuzz.token_set_ratio
  Receipted,      \* Receipted[p]: what the receipts add up to, or None
  Order,          \* gross, tax, threeWay, receipts (there are any)
  Tolerance,      \* price, impact (cents), quantity, quantityAbs, total,
                  \* totalAbs, taxAbs, ceiling
  Scale,          \* units of price times quantity in a cent
  Threshold,      \* _DESCRIPTION_MATCH_THRESHOLD
  MaxInvoices,    \* how many invoices arrive
  None

Items == [number : Int \cup {None}, code : STRING \cup {None},
          text : STRING \cup {None}, quantity : Int, price : Int]

(* An item without a price or a quantity has 0, and either may be negative *)
(* as on a credit line; a total, a tax or a currency may be missing; po    *)
(* says whether this order was resolved.                                   *)
InvoiceType == [items : Seq(Items), total : Int \cup {None}, tax : Int \cup {None},
                currency : {"same", "other", "missing"}, confident : BOOLEAN,
                po : BOOLEAN]

ASSUME InvoicesAssumption ==
  /\ Invoices \subseteq InvoiceType
  /\ None \notin Invoices /\ None \notin Int
  /\ MaxInvoices \in Nat \ {0}

ASSUME OrderAssumption ==
  /\ Positions \subseteq Nat \ {0} /\ IsFiniteSet(Positions)
  /\ OrderLine \in [Positions -> [number : Int, code : STRING \cup {None},
                                  ordered : Int, onOrder : Int, price : Int]]
  /\ \A p, q \in Positions : OrderLine[p].number = OrderLine[q].number => p = q
  /\ Receipted \in [Positions -> Int \cup {None}]
  /\ \A i \in Invoices : \A n \in 1..Len(i.items) :
       i.items[n].text # None =>
         \A p \in Positions : Similarity[i.items[n].text][p] \in 0..100

(* Of the configured tolerances only the percentages are validated.        *)
ASSUME ToleranceAssumption ==
  /\ Tolerance \in [price : Nat, impact : Int, quantity : Nat, quantityAbs : Int,
                    total : Nat, totalAbs : Int, taxAbs : Int, ceiling : Int]
  /\ Scale \in Nat \ {0}
  /\ Order \in [gross : Int, tax : Int, threeWay : BOOLEAN, receipts : BOOLEAN]

VARIABLES
  invoice,      \* the invoice being matched, None before the first
  line,         \* the line item _match_lines is at
  consumed,     \* order lines taken by earlier line items
  exceptions,   \* exceptions raised so far
  pairing,      \* pairing[n]: the order line of a line item, 0 for none
  outcome,      \* of the report: none, exception, matched
  billed,       \* quantity of each order line on invoices that matched
  arrived       \* how many invoices have arrived

vars == <<invoice, line, consumed, exceptions, pairing, outcome, billed, arrived>>

Init ==
  /\ invoice = None
  /\ line = 1
  /\ consumed = {}
  /\ exceptions = {}
  /\ pairing = <<>>
  /\ outcome = "none"
  /\ billed = [p \in Positions |-> 0]
  /\ arrived = 0
-----------------------------------------------------------------------------
(* Variances.                                                              *)

Abs(x) == IF x < 0 THEN -x ELSE x

(* Rounded to whole multiples of a unit; half a unit goes away from zero.  *)
Rounded(x, unit) ==
  LET r == (2 * Abs(x) + unit) \div (2 * unit) IN IF x < 0 THEN -r ELSE r

(* Delta in percent of the reference, rounded half up to two decimals.     *)
PctDelta(value, reference) ==
  LET d == Abs(value - reference) IN
  IF reference # 0 THEN Rounded(10000 * d, Abs(reference))
  ELSE IF d > 0 THEN 10000 ELSE 0

Within(value, reference, abs, pct) ==
  Abs(value - reference) <= abs \/ PctDelta(value, reference) <= pct

Quantity(l, o) == IF l.quantity # 0 THEN l.quantity ELSE o.ordered

(* The line's value at risk, in cents: rounded before it is compared.      *)
Impact(l, o) == Rounded(Abs(l.price - o.price) * Quantity(l, o), Scale)

(* Mutant: the absolute limit is applied to the unit price.                *)
PriceWithinPerUnit(l, o) ==
  PctDelta(l.price, o.price) <= Tolerance.price
    \/ Abs(l.price - o.price) <= Tolerance.impact

PriceWithin(l, o) ==
  PctDelta(l.price, o.price) <= Tolerance.price \/ Impact(l, o) <= Tolerance.impact

QuantityWithin(l, o) ==
  Within(l.quantity, o.ordered, Tolerance.quantityAbs, Tolerance.quantity)

(* What was received of an order line: its receipts, or without any the    *)
(* quantity the order itself carries.                                      *)
Received(p) == IF Receipted[p] # None THEN Receipted[p] ELSE OrderLine[p].onOrder
-----------------------------------------------------------------------------
(* Pairing a line item with an order line.                                 *)

First(S) == CHOOSE p \in S : \A q \in S : p <= q

(* The best description score; of equal scores the first line's.           *)
Best(text, S) ==
  CHOOSE p \in S : \A q \in S :
    \/ Similarity[text][p] > Similarity[text][q]
    \/ Similarity[text][p] = Similarity[text][q] /\ p <= q

ByNumber(l, free) == {p \in free : OrderLine[p].number = l.number}
ByCode(l, free) == {p \in free : l.code # None /\ OrderLine[p].code = l.code}
ByText(l, free) ==
  {p \in free : l.text # None /\ Similarity[l.text][p] >= Threshold}

(* Mutant: the material code goes before the line number.                  *)
PairByCodeFirst(l, free) ==
  IF ByCode(l, free) # {} THEN First(ByCode(l, free))
  ELSE IF ByNumber(l, free) # {} THEN First(ByNumber(l, free))
  ELSE IF ByText(l, free) # {} THEN Best(l.text, ByText(l, free))
  ELSE 0

PairLine(l, free) ==
  IF ByNumber(l, free) # {} THEN First(ByNumber(l, free))
  ELSE IF ByCode(l, free) # {} THEN First(ByCode(l, free))
  ELSE IF ByText(l, free) # {} THEN Best(l.text, ByText(l, free))
  ELSE 0

(* Mutant: two-way and three-way matches check the same things.            *)
LineExceptionsTwoWay(l, p) ==
  {e \in {"line_not_on_po", "price_variance", "quantity_variance"} :
     \/ p = 0 /\ e = "line_not_on_po"
     \/ p # 0 /\ e = "price_variance" /\ ~PriceWithin(l, OrderLine[p])
     \/ p # 0 /\ e = "quantity_variance" /\ ~QuantityWithin(l, OrderLine[p])}

LineExceptions(l, p) ==
  {e \in {"line_not_on_po", "price_variance", "quantity_variance",
          "missing_goods_receipt"} :
     \/ p = 0 /\ e = "line_not_on_po"
     \/ /\ p # 0
        /\ \/ e = "price_variance" /\ ~PriceWithin(l, OrderLine[p])
           \/ e = "quantity_variance" /\ ~QuantityWithin(l, OrderLine[p])
           \/ /\ e = "missing_goods_receipt"
              /\ Order.threeWay /\ l.quantity > Received(p)}
-----------------------------------------------------------------------------
(* The header and the footer of match_invoice.                             *)

Total(i) == IF i.total # None THEN i.total ELSE 0

TotalWithin(i) == Within(Total(i), Order.gross, Tolerance.totalAbs, Tolerance.total)

TaxWithin(i) ==
  i.tax # None /\ Order.tax # 0
    => Within(i.tax, Order.tax, Tolerance.taxAbs, Tolerance.total)

HeaderExceptions(i) ==
  {e \in {"missing_goods_receipt", "currency_mismatch", "total_variance",
          "tax_variance"} :
     \/ e = "missing_goods_receipt" /\ Order.threeWay /\ ~Order.receipts
     \/ e = "currency_mismatch" /\ i.currency = "other"
     \/ e = "total_variance" /\ ~TotalWithin(i)
     \/ e = "tax_variance" /\ ~TaxWithin(i)}

FooterExceptions(i) ==
  {e \in {"low_confidence_extraction", "over_auto_post_ceiling"} :
     \/ e = "low_confidence_extraction" /\ ~i.confident
     \/ e = "over_auto_post_ceiling" /\ Total(i) > Tolerance.ceiling}

Between == invoice = None \/ outcome # "none"
MayArrive == Between /\ arrived < MaxInvoices

Arrive(i) ==
  /\ invoice' = i
  /\ arrived' = arrived + 1
  /\ line' = 1
  /\ consumed' = {}
  /\ pairing' = [n \in 1..Len(i.items) |-> 0]
  /\ UNCHANGED billed

(* match_invoice without an order: an exception and nothing else.          *)
MatchNonPo(i) ==
  /\ Arrive(i) /\ ~i.po
  /\ exceptions' = {"missing_po"}
  /\ outcome' = "exception"

MatchHeader(i) ==
  /\ Arrive(i) /\ i.po
  /\ exceptions' = HeaderExceptions(i)
  /\ outcome' = "none"

MatchLine ==
  /\ ~Between /\ line <= Len(invoice.items)
  /\ LET l == invoice.items[line]
         p == PairLine(l, Positions \ consumed)
     IN /\ pairing' = [pairing EXCEPT ![line] = p]
        /\ consumed' = IF p # 0 THEN consumed \cup {p} ELSE consumed
        /\ exceptions' = exceptions \cup LineExceptions(l, p)
  /\ line' = line + 1
  /\ UNCHANGED <<invoice, outcome, billed, arrived>>

(* Billed by this invoice under its pairing.                               *)
BilledBy(p) ==
  MapThenSumSet(LAMBDA n : invoice.items[n].quantity,
                {n \in DOMAIN pairing : pairing[n] = p})

Report ==
  /\ ~Between /\ line > Len(invoice.items)
  /\ exceptions' = exceptions \cup FooterExceptions(invoice)
  /\ outcome' = IF exceptions' = {} THEN "matched" ELSE "exception"
  /\ billed' = IF outcome' = "matched"
               THEN [p \in Positions |-> billed[p] + BilledBy(p)] ELSE billed
  /\ UNCHANGED <<invoice, line, consumed, pairing, arrived>>

Next ==
  \/ MayArrive /\ \E i \in Invoices : MatchNonPo(i) \/ MatchHeader(i)
  \/ MatchLine
  \/ Report

Spec == Init /\ [][Next]_vars
-----------------------------------------------------------------------------
TypeOK ==
  /\ invoice \in InvoiceType \cup {None}
  /\ line \in Nat \ {0}
  /\ consumed \subseteq Positions
  /\ exceptions \subseteq {"missing_po", "missing_goods_receipt",
       "currency_mismatch", "total_variance", "tax_variance", "line_not_on_po",
       "price_variance", "quantity_variance", "low_confidence_extraction",
       "over_auto_post_ceiling"}
  /\ invoice # None =>
       /\ line <= Len(invoice.items) + 1
       /\ pairing \in [1..Len(invoice.items) -> Positions \cup {0}]
  /\ outcome \in {"none", "exception", "matched"}
  /\ arrived \in 0..MaxInvoices

(* A three-way match that passes bills no order line twice and none beyond *)
(* what was received of it: the line items cannot share a receipt.         *)
BilledWithinReceipt ==
  outcome = "matched" =>
    \A m, n \in 1..Len(invoice.items) :
      /\ pairing[n] # 0
      /\ pairing[m] = pairing[n] => m = n
      /\ Order.threeWay => ~(invoice.items[n].quantity > Received(pairing[n]))

(* An invoice that names the order lines, each once, is matched against    *)
(* exactly those, whatever its codes and descriptions resemble.            *)
NamesLine(n, p) == invoice.items[n].number = OrderLine[p].number
NamesDistinctLines ==
  \A n \in 1..Len(invoice.items) :
    /\ \E p \in Positions : NamesLine(n, p)
    /\ \A m \in 1..Len(invoice.items) :
         invoice.items[m].number = invoice.items[n].number => m = n
NamedLinesArePaired ==
  invoice # None /\ NamesDistinctLines =>
    \A n \in 1..Len(invoice.items) :
      n < line => pairing[n] # 0 /\ NamesLine(n, pairing[n])

(* What can be lost by posting a match unattended: each line's price is    *)
(* off by less than the percentage and its rounding, or its whole impact   *)
(* by less than the absolute limit and half a cent; its quantity is off by *)
(* no more than the quantity tolerances; the total is under the ceiling    *)
(* and off by no more than its own.  A line billed in the negative has a   *)
(* negative impact, which no limit stops: its price is not bounded.        *)
Near(value, reference, pct) ==
  20000 * Abs(value - reference) < (2 * pct + 1) * Abs(reference)
OffBy(value, reference, abs, pct) ==
  \/ Abs(value - reference) <= abs
  \/ Near(value, reference, pct)
  \/ value = reference
PriceBounded(l, o) ==
  \/ Near(l.price, o.price, Tolerance.price)
  \/ l.price = o.price
  \/ 2 * (Abs(l.price - o.price) * l.quantity) < (2 * Tolerance.impact + 1) * Scale
  \/ l.quantity <= 0
LeakageBounded ==
  outcome = "matched" =>
    /\ Total(invoice) <= Tolerance.ceiling
    /\ OffBy(Total(invoice), Order.gross, Tolerance.totalAbs, Tolerance.total)
    /\ \A n \in 1..Len(invoice.items) :
         LET l == invoice.items[n]
             o == OrderLine[pairing[n]]
         IN /\ PriceBounded(l, o)
            /\ OffBy(l.quantity, o.ordered, Tolerance.quantityAbs, Tolerance.quantity)

(* The quantity invoiced for the order does not exceed what was received,  *)
(* over all its invoices.                                                  *)
OrderBilledOnce ==
  Order.threeWay => \A p \in Positions : billed[p] <= Received(p)
-----------------------------------------------------------------------------
(* The loop invariant of _match_lines, which makes the properties of a     *)
(* match inductive: as long as no exception was raised, the total and      *)
(* every line behind the loop passed their checks.                         *)
Untouched == \A n \in 1..Len(invoice.items) : n >= line => pairing[n] = 0
PairedAreConsumed ==
  \A n \in 1..Len(invoice.items) : pairing[n] # 0 => pairing[n] \in consumed
ConsumedArePaired ==
  \A p \in consumed : \E n \in 1..Len(invoice.items) : pairing[n] = p
PairedOnce ==
  \A m, n \in 1..Len(invoice.items) : pairing[n] # 0 /\ pairing[m] = pairing[n] => m = n
IsClean(l, p) ==
  /\ p # 0
  /\ Order.threeWay => ~(l.quantity > Received(p))
  /\ PriceWithin(l, OrderLine[p])
  /\ QuantityWithin(l, OrderLine[p])
CleanSoFar ==
  exceptions = {} =>
    \A n \in 1..Len(invoice.items) : n < line => IsClean(invoice.items[n], pairing[n])
CleanTotal ==
  /\ exceptions = {} => TotalWithin(invoice)
  /\ outcome = "matched" => ~(Total(invoice) > Tolerance.ceiling)
IInv ==
  /\ TypeOK
  /\ invoice # None => invoice \in Invoices
  /\ invoice = None => outcome = "none"
  /\ invoice # None /\ invoice.po =>
       /\ Untouched /\ PairedAreConsumed /\ ConsumedArePaired
       /\ PairedOnce /\ CleanSoFar /\ CleanTotal
  /\ invoice # None /\ ~invoice.po => outcome = "exception" /\ line = 1
  /\ outcome = "matched" => exceptions = {} /\ line > Len(invoice.items)
  /\ NamedLinesArePaired
=============================================================================
