--------------------------- MODULE MCStrategySweep ---------------------------
(* One user with two accounts.  A is the default server.  x is set to A    *)
(* and known to B too, so that a login asks for its sweep at once; x, and  *)
(* then y, may be set to B; the users.toml of A may lose x while B gets y, *)
(* or both lose x.                                                         *)
EXTENDS StrategySweep, TLC

CONSTANTS A, B, x, y

Choice(sx, sy) == (x :> sx) @@ (y :> sy)
ChoicesDef == {Choice(A, None), Choice(B, None), Choice(B, B)}

Mapping(X, Y) == (A :> X) @@ (B :> Y)
MappingsDef == {Mapping({x, y}, {x}), Mapping({y}, {x, y}), Mapping({y}, {y})}

(* The run starts with a strategy of each account on at A. *)
MCInit ==
  Init /\ mapped = Mapping({x, y}, {x}) /\ choice = Choice(A, None) /\ armed = Owned
MCSpec == MCInit /\ [][Next]_vars /\ Fairness
=============================================================================
