------------------------- MODULE MCCashApplication -------------------------
(***************************************************************************)
(* Instances of CashApplication: two receivables and remittances of every  *)
(* kind match_remittance tells apart.  Amounts are in quarters of a cent,  *)
(* so that they round up and down: ten cents are open and six.             *)
(***************************************************************************)
EXTENDS CashApplication, TLC

CONSTANTS r1, r2, c1, c2, c3, i1, i2
OneRun == {r1}
TwoRuns == {r1, r2}
TwoCalls == {c1, c2}
ThreeCalls == {c1, c2, c3}
OneCall == {c1}
NoCall == {}
TwoItems == {i1, i2}
TenAndSix == i1 :> 40 @@ i2 :> 24
AnonymousPair == Permutations(TwoRuns) \cup Permutations(TwoCalls)

Line1(amount) == [item |-> i1, amount |-> amount]
Line2(amount) == [item |-> i2, amount |-> amount]
Unreferenced == [item |-> None, amount |-> 20]
Remittance(customer, advices, total) ==
  [customer |-> customer, advices |-> advices, total |-> total]

ByReference == Remittance("none", <<Line1(37), Line2(0)>>, 70)
ShortPaid == Remittance("name", <<Line1(16)>>, 0)
Overpaid == Remittance("id", <<Line1(48)>>, 80)
Twice == Remittance("id", <<Line1(38), Line1(38)>>, 76)
Unknown == Remittance("id", <<Unreferenced, Line2(24)>>, 44)
NextToNothing == Remittance("name", <<Line2(1)>>, None)
Nothing == Remittance("id", <<>>, None)

ResumedKinds == {ByReference, Overpaid, Twice, NextToNothing}
SomeKinds == {ShortPaid, Unknown, NextToNothing, Nothing}
=============================================================================
