---------------------------- MODULE MCAdminDispatch ----------------------------
(* Two servers and two accounts: one server has an account of other tools, *)
(* so a user is removed whole from the other only.  The two calls are      *)
(* alike.                                                                  *)
EXTENDS AdminDispatch

CONSTANTS s1, s2, a1, a2, r1, r2, v1, v2

AtFirst == {<<s1, a1>>, <<s2, a1>>}
AllAlike == [a \in Accounts |-> v1]
ForeignOnSecond == {<<s2, a2>>}
PutSome ==
  { [account |-> a1, value |-> v2, servers |-> {s1, s2}],
    [account |-> a1, value |-> v1, servers |-> {s2}],
    [account |-> a2, value |-> v1, servers |-> {s1}] }
CallsAlike == Permutations({r1, r2})
===============================================================================
