---------------------------- MODULE MCJournalFeed ----------------------------
(* OneThree: queues of two and frames of two, so that strategy events fill *)
(* the queue behind a call that hangs, leave a gap when retention drops    *)
(* one, and are batched.  OneTwo: queues of one, for the liveness.         *)
EXTENDS JournalFeed

OneThree == [order |-> 1, strategy |-> 3]
OneTwo == [order |-> 1, strategy |-> 2]
=============================================================================
