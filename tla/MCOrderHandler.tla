---------------------------- MODULE MCOrderHandler ----------------------------
(* From two tabs: buys of two quantities, a sell, a buy of another account *)
(* and a cancel and a modification of the one order that rests.            *)
EXTENDS OrderHandler, TLC

New(side, qty, price) ==
  [kind |-> "N", account |-> 1, org |-> 0, side |-> side, qty |-> qty, price |-> price]

AboutOne == { [kind |-> "C", account |-> 1, org |-> 1, side |-> "-", qty |-> 1, price |-> 1],
              [kind |-> "M", account |-> 1, org |-> 1, side |-> "B", qty |-> 1, price |-> 2] }

Several == AboutOne \cup
  {New("B", 2, 1), New("B", 1, 1), New("S", 1, 1), [New("B", 1, 1) EXCEPT !.account = 2]}

OneResting == {1}

(* The tabs do the same; the properties are safety properties.             *)
Tabs == Permutations(Conns)
=============================================================================
