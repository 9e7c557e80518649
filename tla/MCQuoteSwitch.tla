---------------------------- MODULE MCQuoteSwitch ----------------------------
(* Two gateways at two addresses, two Admins who call the route. *)
EXTENDS QuoteSwitch

CONSTANTS s1, s2

RowsAtStart == [primary |-> s1, address |-> [s \in Servers |-> 1]]
=============================================================================
