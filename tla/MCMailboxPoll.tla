--------------------------- MODULE MCMailboxPoll ---------------------------
(***************************************************************************)
(* An instance of MailboxPoll: a message with two attachments, one that   *)
(* the listing counts although it has none that is usable, and a third   *)
(* that comes up when the first is done.                                   *)
(***************************************************************************)
EXTENDS MailboxPoll, TLC

CONSTANTS p1, p2, d1, m1, m2, m3
Pair == {p1, p2}
OneDecision == {d1}
PairAndDecision == {p1, p2, d1}
FirstDies == {p1}
RunsOfPair == Pair \X {m1, m2, m3} \X (1 .. 2)
ThreeMessages == {m1, m2, m3}
BareBetween == <<m1, m2, m3>>
AllProviders == {"local", "graph", "gmail"}
OneBare == m1 :> <<"invoice", "annex">> @@ m2 :> <<>> @@ m3 :> <<"invoice">>
OwnIds == m1 :> 1 @@ m2 :> 2 @@ m3 :> 3
=============================================================================
