------------------------- MODULE MCDocumentReading -------------------------
(***************************************************************************)
(* An instance of DocumentReading.  The answers of the model vary in two   *)
(* ways: one invoice of a known vendor with any three totals, and lines    *)
(* that fit them or not; or one set of figures with identifiers that are   *)
(* missing, blank, spelled in two ways, or of different vendors.           *)
(***************************************************************************)
EXTENDS DocumentReading

(* Two vendors of mock_erp/data.py, and one without tax id or IBAN.        *)
Master == <<
  [id |-> "V-10001", tax_id |-> "DE811907980", iban |-> "DE89370400440532013000",
   names |-> <<"contoso supplies gmbh", "contoso">>],
  [id |-> "V-10002", tax_id |-> "DE114203847", iban |-> "DE02120300000000202051",
   names |-> <<"fabrikam industrial ag", "fabrikam ag">>],
  [id |-> "V-10006", tax_id |-> "", iban |-> "", names |-> <<"fabrikam gmbh", "contoso">>] >>

StripText ==
  [t \in {"INV-1", "inv-1 ", " ", "PO-1", "contoso", "CONTOSO ", "fabrikam agg", "litware", ""} |->
     CASE t = "inv-1 " -> "inv-1" [] t = "CONTOSO " -> "CONTOSO" [] t = " " -> "" [] OTHER -> t]
FoldText ==
  [t \in DOMAIN StripText \cup {"inv-1", "CONTOSO"} |->
     CASE t \in {"INV-1", "inv-1 "} -> "inv-1" [] t \in {"CONTOSO", "CONTOSO "} -> "contoso"
       [] t = " " -> "" [] OTHER -> t]

(* The close name is as close to two vendors.                              *)
Ratio(text, name) ==
  CASE FoldText[text] = name -> 100
    [] text = "fabrikam agg" /\ name \in {"fabrikam ag", "fabrikam gmbh"} -> 88
    [] OTHER -> 40
Ratios == [t \in DOMAIN FoldText |->
  [n \in {"contoso supplies gmbh", "contoso", "fabrikam industrial ag", "fabrikam ag", "fabrikam gmbh"} |->
     Ratio(t, n)]]

(* The index still knows a vendor that is gone.                            *)
Index == [t \in DOMAIN FoldText |->
  IF t = "litware" THEN <<[id |-> "V-09999", score |-> 90], [id |-> "V-10002", score |-> 75]>>
  ELSE <<[id |-> "V-10001", score |-> 74]>>]

Num(v) == [form |-> "number", value |-> v]
Comma(v) == [form |-> "decimal_comma", value |-> v]
PointComma(v) == [form |-> "point_comma", value |-> v]
Nothing == [form |-> "unreadable", value |-> 0]
Line(quantity, price, total) == [quantity |-> quantity, unit_price |-> price, line_total |-> total]

(* Half a cent, deviations of exactly 0.05 and one more (240, 241), signs. *)
Plain == {-5, 0, 5, 190, 195, 240, 241, 1000, 1190}
Totals == {Num(v) : v \in Plain} \cup {Comma(v) : v \in {190, 1000, 1190}}
          \cup {PointComma(v) : v \in {1190000}} \cup {Nothing}
Amounts == Plain \cup {19000, 100000, 119000}

LinesAndReport == {
  <<<<>>, 100>>,
  <<<<Line(2, Num(500), Num(1000))>>, 0>>,
  <<<<Line(2, Num(500), Num(1190))>>, 150>>,
  <<<<Line(1, Num(500), Num(500)), Line(1, Comma(500), Num(500))>>, 100>>,
  <<<<Line(1, Num(500), Num(500)), Line(1, Num(300), Num(400)), Line(1, Num(300), Num(300))>>, 60>>,
  <<<<Line(1, Num(1000), Nothing)>>, -50>>}

Clean == [invoice_number |-> "INV-1", invoice_date |-> "2026-01-01", purchase_order_number |-> "PO-1",
          vendor_name |-> "contoso", vendor_tax_id |-> Missing, vendor_iban |-> Missing,
          currency |-> "EUR", subtotal |-> Num(1000), tax_amount |-> Num(190),
          total_amount |-> Num(1190), decimals |-> 2,
          line_items |-> <<Line(2, Num(500), Num(1000))>>, confidence |-> 100]

ByFigures ==
  {[Clean EXCEPT !.subtotal = s, !.tax_amount = t, !.total_amount = g,
                 !.line_items = l[1], !.confidence = l[2]] :
     s \in Totals, t \in Totals, g \in Totals, l \in LinesAndReport}

ByIdentifiers ==
  {[Clean EXCEPT !.vendor_name = v, !.invoice_number = n, !.vendor_tax_id = x, !.vendor_iban = b,
                 !.purchase_order_number = c[1], !.currency = c[2], !.invoice_date = c[3], !.decimals = k] :
     v \in {Missing, " ", "contoso", "CONTOSO ", "fabrikam agg", "litware"},
     n \in {Missing, " ", "INV-1", "inv-1 "},
     x \in {Missing, " ", "DE114203847"},
     b \in {Missing, "DE89370400440532013000"},
     c \in {<<"PO-1", "EUR", "2026-01-01">>, <<Missing, Missing, "2026-02-02">>, <<" ", "", Missing>>},
     k \in {1, 2}}

SomeAnswers == ByFigures \cup ByIdentifiers
=============================================================================
