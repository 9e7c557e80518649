---------------------------- MODULE MCDmaSession -----------------------------
(* Two accounts; the bounds on the faults and on the Admin's edits are in  *)
(* the cfg.                                                                *)
EXTENDS DmaSession
=============================================================================
