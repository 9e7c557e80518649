---------------------------- MODULE MCUserSessions ----------------------------
(* Two tabs and two order servers: one tab that sees the larger plan, one  *)
(* that authenticated before it, and a sweep on the server left behind.    *)
EXTENDS UserSessions
=============================================================================
