-------------------------- MODULE JournalReplication --------------------------
(***************************************************************************)
(* What the journal feed promises for one stream (relay/src/journal, "유실 *)
(* 0 · 이중 적용 0"): the database is a copy, in order and without         *)
(* repetition, of the events of the gateway.  Only an event the gateway no *)
(* longer keeps (retention, a reset store) may be missing from it.         *)
(***************************************************************************)
EXTENDS Integers, Sequences, SequencesExt

VARIABLES appended,   \* events 1..appended happened
          forgotten,  \* events the gateway no longer keeps
          copy        \* events projected into the database, in that order

vars == <<appended, forgotten, copy>>

Init == appended = 0 /\ forgotten = {} /\ copy = <<>>

Append1 == appended' = appended + 1 /\ UNCHANGED <<forgotten, copy>>

Forget ==
  /\ forgotten \subseteq forgotten' /\ forgotten' \subseteq 1..appended
  /\ UNCHANGED <<appended, copy>>

(* Some events arrive, each for the first time, in order, and no event the *)
(* gateway still keeps is left behind an arrived one.                      *)
Copied ==
  LET new == SubSeq(copy', Len(copy) + 1, Len(copy'))
  IN /\ IsPrefix(copy, copy') /\ new # <<>>
     /\ \A i \in DOMAIN new : new[i] \in (1..appended) \ ToSet(copy)
     /\ \A i, j \in DOMAIN new : i < j => new[i] < new[j]
     /\ \A i \in DOMAIN new : 1..new[i] \subseteq ToSet(copy') \cup forgotten
     /\ UNCHANGED <<appended, forgotten>>

Next == Append1 \/ Forget \/ Copied

Spec == Init /\ [][Next]_vars
=============================================================================
