---------------------------- MODULE MCErpService ----------------------------
(***************************************************************************)
(* Instances of ErpService: postings under two references, one of them for *)
(* an order of mock_erp/data.py, and payments of the smallest receivable   *)
(* seeded there, in full, in larger part, and the wrong way round; the     *)
(* amounts are in units of 10 euros.                                       *)
(***************************************************************************)
EXTENDS ErpService, TLC

CONSTANTS h1, h2, h3, h4
FourRequests == {h1, h2, h3, h4}
Alike == Permutations(FourRequests)
SeededOrders == {"PO-4500001"}
SeededItems == {"AR-90003"}
SeededAmounts == [item \in SeededItems |-> 498]
Payments == {498, 300, -20}
References2 == {"contoso/1", "contoso/2"}
=============================================================================
