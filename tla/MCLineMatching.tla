--------------------------- MODULE MCLineMatching ---------------------------
(***************************************************************************)
(* Instances of LineMatching: an order of five lines and the invoices      *)
(* made of all combinations of a few line items and headers.               *)
(***************************************************************************)
EXTENDS LineMatching

(* Prices are in cents, quantities in hundredths.  Five goods: 2 at 100.00 *)
(* (line 10), 4 at 2.50 (line 20), 5 at 0.10 (line 30), of which only 3    *)
(* were received, and 100.09 and 100.10 at 1.00 (lines 40 and 50), on      *)
(* which 0.05 more a unit is 5.0045 and 5.005; texts that resemble two.    *)
FivePositions == 1..5
FiveLines ==
  <<[number |-> 10, code |-> "A", ordered |-> 200, onOrder |-> 200, price |-> 10000],
    [number |-> 20, code |-> "B", ordered |-> 400, onOrder |-> 400, price |-> 250],
    [number |-> 30, code |-> "C", ordered |-> 500, onOrder |-> 500, price |-> 10],
    [number |-> 40, code |-> "D", ordered |-> 10009, onOrder |-> 10009, price |-> 100],
    [number |-> 50, code |-> "E", ordered |-> 10010, onOrder |-> 10010, price |-> 100]>>
Texts == [plate |-> <<90, 80, 0, 0, 0>>, bolt |-> <<20, 75, 0, 0, 0>>]
ThirdShort == <<None, 400, 300, 10009, 10010>>
FullyReceived == <<200, 400, 500, 10009, 10010>>
Goods == [gross |-> 48872, tax |-> 7803, threeWay |-> TRUE, receipts |-> TRUE]

(* 2 percent on a price, 5.00 on its impact, nothing on a quantity, 1      *)
(* percent or 10.00 on the total, 1.00 on the tax, and a ceiling just      *)
(* above the order's total; or a quantity may be off by three.             *)
Limits ==
  [price |-> 200, impact |-> 500, quantity |-> 0, quantityAbs |-> 0,
   total |-> 100, totalAbs |-> 1000, taxAbs |-> 100, ceiling |-> 49500]
LooseQuantity == [Limits EXCEPT !.quantityAbs = 300]

Amounts == {<<200, 10000>>, <<400, 250>>}
AnyItem ==
  {[number |-> number, code |-> code, text |-> text, quantity |-> a[1], price |-> a[2]] :
     number \in {10, 20, None}, code \in {"A", "B", None},
     text \in {"plate", "bolt", None}, a \in Amounts}
Item(number, quantity, price) ==
  [number |-> number, code |-> None, text |-> None, quantity |-> quantity, price |-> price]
PricedItem ==
  {Item(10, q, p) : q \in {-200, -100, 0, 100, 200},
                    p \in {10000, 10200, 10201, 10250, 10251, 10500}}
SecondItem == {Item(20, q, p) : q \in {300, 400}, p \in {250, 255, 256}}
HalfCentItem == {Item(40, 10009, p) : p \in {105, 106}} \cup {Item(50, 10010, 105)}

Invoice(items, total, tax, currency, confident, po) ==
  [items |-> items, total |-> total, tax |-> tax, currency |-> currency,
   confident |-> confident, po |-> po]
Plain(items) == Invoice(items, 48872, 7803, "same", TRUE, TRUE)

PairingInvoices == {Plain(<<a, b>>) : a, b \in AnyItem}
PricedInvoices ==
  {Plain(<<a>>) : a \in PricedItem} \cup {Plain(<<a, b>>) : a \in PricedItem, b \in SecondItem}
    \cup {Plain(<<a>>) : a \in HalfCentItem \cup {Item(30, 500, 10)}}
HeaderInvoices ==
  {Invoice(<<>>, total, tax, currency, confident, po) :
     total \in {48872, 49500, 49501, 49872, 49873, None},
     tax \in {7803, 7903, 7904, None}, currency \in {"same", "other", "missing"},
     confident \in BOOLEAN, po \in BOOLEAN}
AllInvoices == PairingInvoices \cup PricedInvoices \cup HeaderInvoices

(* The invoice the order expects.                                          *)
ExpectedInvoice ==
  {Plain(<<Item(10, 200, 10000), Item(20, 400, 250), Item(30, 500, 10),
           Item(40, 10009, 100), Item(50, 10010, 100)>>)}
=============================================================================
