--------------------------- MODULE SessionLifecycle ---------------------------
(***************************************************************************)
(* What a gateway session promises to the parts above it (SubscriptionHub, *)
(* WsFanout, the order route): the generation contract of                  *)
(* relay/src/dma/session.ts and dma-client.ts, without login, declarations *)
(* or timers.                                                              *)
(*                                                                         *)
(* A session is usable only after a ready event of the line it is on, a    *)
(* line gets at most one ready event, a lost line takes a new generation,  *)
(* and a session that is over stays over.                                  *)
(***************************************************************************)
EXTENDS Integers

VARIABLES phase,      \* "down", "booting", "ready", "over"
          epoch,      \* the generation of the line
          announced   \* the generation of the last ready event

vars == <<phase, epoch, announced>>

TypeOK ==
  /\ phase \in {"down", "booting", "ready", "over"}
  /\ epoch \in Nat
  /\ announced \in Nat

Init == phase = "down" /\ epoch = 0 /\ announced = 0

(* A line comes up; nothing is announced for it yet.                       *)
LineUp ==
  /\ phase = "down"
  /\ phase' = "booting"
  /\ epoch' = epoch + 1
  /\ UNCHANGED announced

(* The only way to be ready: one announcement, for the line that booted.   *)
BecomeReady ==
  /\ phase = "booting" /\ announced < epoch
  /\ phase' = "ready"
  /\ announced' = epoch
  /\ UNCHANGED epoch

(* The line, or an attempt to get one, is lost.                            *)
LineLost ==
  /\ phase \in {"down", "booting", "ready"}
  /\ phase' = "down"
  /\ epoch' = epoch + 1
  /\ UNCHANGED announced

(* Refused, failed before the first ready, deleted or closed.  A line that *)
(* came up and failed in one step counts twice.                            *)
End ==
  /\ phase' = "over"
  /\ epoch' \in {epoch + 1, epoch + 2}
  /\ UNCHANGED announced

Next == LineUp \/ BecomeReady \/ LineLost \/ End

Spec == Init /\ [][Next]_vars

(* Ready means announced on the line in use.                               *)
ReadyIsAnnounced == phase = "ready" => announced = epoch
=============================================================================
