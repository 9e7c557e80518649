------------------------- MODULE MCQuoteSubscriptions -------------------------
(* Two users with one tab each: what they share is the key.  Three keys    *)
(* and room for two make one wait for the eviction of another; one slot    *)
(* makes the second key wait for the first.                                *)
EXTENDS QuoteSubscriptions

CONSTANTS alice, bob, a, b, k1, k2, k3

OwnerOfTab == [t \in {a, b} |-> IF t = a THEN alice ELSE bob]
WishesOfTab ==
  [t \in {a, b} |-> IF t = a THEN ({k1} \X Levels) \union {<<k2, "price">>}
                    ELSE {<<k1, "full">>, <<k3, "price">>}]
=============================================================================
