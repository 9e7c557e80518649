----------------------------- MODULE MCTailReload -----------------------------
(* Three overlapping calls and three versions: one call on the running     *)
(* read, one on its tail, and one that arrives while the tail reads.       *)
EXTENDS TailReload
=============================================================================
