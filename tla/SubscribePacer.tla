---------------------------- MODULE SubscribePacer ----------------------------
(***************************************************************************)
(* relay/src/hub/subscribe-pacer.ts: when the requests of the one quote    *)
(* connection go out.  At most Window keys wait for their answer; the      *)
(* others queue.  Every operation is an operator on the pacer's record,    *)
(* as it is one synchronous method, and the record also holds what the     *)
(* other end of the connection has been told, since sending is all a       *)
(* method does besides changing its own state.                             *)
(*                                                                         *)
(* Time: a key in flight is "fresh" until its deadline passes and          *)
(* "overdue" after it; the one timer is "due" when the deadline it is set  *)
(* to has passed.                                                          *)
(***************************************************************************)
EXTENDS Integers, Sequences, SequencesExt, FiniteSets

CONSTANTS Keys,      \* quote keys, market and exchange
          Users,     \* whose order sessions the gateway sends progress to
          Window     \* PACER_WINDOW

ASSUME WindowAssumption == Window \in Nat \ {0}

Levels == {"price", "full"}

Entries == [key : Keys, level : Levels]

Pacers ==
  [ ready    : BOOLEAN,                              \* isReady()
    queue    : Seq(Entries),                         \* #queue
    flying   : [Keys -> {"no", "fresh", "overdue"}], \* #inFlight
    timer    : {"off", "armed", "due"},              \* #timer
    tracking : BOOLEAN,                              \* #tracking
    sent     : [Keys -> {"none"} \union Levels],     \* the gateway's level
    declared : SUBSET Users,                         \* sessions ready
    resent   : [Keys -> SUBSET Users] ]              \* whom its progress reached

EmptyPacer ==
  [ ready |-> FALSE, queue |-> <<>>, flying |-> [k \in Keys |-> "no"],
    timer |-> "off", tracking |-> FALSE, sent |-> [k \in Keys |-> "none"],
    declared |-> {}, resent |-> [k \in Keys |-> {}] ]

(* The entries of a Map, in the order in which they came; a key has one.   *)
KeysIn(entries)    == {entries[i].key : i \in DOMAIN entries}
Delete(entries, k) ==
  IF k \in KeysIn(entries)
  THEN RemoveAt(entries, CHOOSE i \in DOMAIN entries : entries[i].key = k)
  ELSE entries

Queued(p)   == KeysIn(p.queue)
InFlight(p) == {k \in Keys : p.flying[k] # "no"}

(* The gateway handles the requests of a connection in order.  A           *)
(* subscription sets the level of the key and makes the gateway send the   *)
(* progress of the key again, to all sessions that declared accounts.      *)
SendSubscription(p, k, level) ==
  [p EXCEPT !.sent[k] = level, !.resent[k] = p.declared]

SendUnsubscription(p, k) == [p EXCEPT !.sent[k] = "none", !.resent[k] = {}]

(* The session of a user declares its accounts, or its line is given up.   *)
Declare(p, u) == [p EXCEPT !.declared = @ \union {u}]
Leave(p, u)   == [p EXCEPT !.declared = @ \ {u}, !.resent = [k \in Keys |-> @[k] \ {u}]]

(* #dispatch: a key that is in flight already keeps its slot.  Which       *)
(* answer frees the slot (58 or 69) is of no account: each is possible     *)
(* from the moment the request is sent.                                    *)
Dispatch(p, item) ==
  [SendSubscription(p, item.key, item.level) EXCEPT !.flying[item.key] = "fresh"]

(* #pump *)
Pump(p) ==
  LET free == Window - Cardinality(InFlight(p))
      n    == IF p.ready /\ free > 0
              THEN IF Len(p.queue) < free THEN Len(p.queue) ELSE free
              ELSE 0
  IN  FoldLeft(Dispatch, [p EXCEPT !.queue = SubSeq(p.queue, n + 1, Len(p.queue))],
               SubSeq(p.queue, 1, n))

(* #arm: only when someone waits for a slot or for the end. *)
Arm(p) ==
  [p EXCEPT !.timer =
     IF InFlight(p) = {} \/ (p.queue = <<>> /\ ~p.tracking) THEN "off"
     ELSE IF \E k \in Keys : p.flying[k] = "overdue" THEN "due" ELSE "armed"]

(* Mutant of Settle: the timer only tracks a resubscription. *)
SettleTracked(p) ==
  LET q == Pump(p)
  IN  IF q.queue = <<>> /\ InFlight(q) = {}
      THEN [q EXCEPT !.tracking = FALSE, !.timer = "off"]
      ELSE IF q.tracking THEN Arm(q) ELSE [q EXCEPT !.timer = "off"]

(* #settle *)
Settle(p) ==
  LET q == Pump(p)
  IN  IF q.queue = <<>> /\ InFlight(q) = {}
      THEN [q EXCEPT !.tracking = FALSE, !.timer = "off"]
      ELSE Arm(q)

(* #expireOverdue *)
ExpireOverdue(p) ==
  [p EXCEPT !.flying = [k \in Keys |-> IF @[k] = "overdue" THEN "no" ELSE @[k]]]

(* A key that waits keeps its place. *)
Relevel(p, k, level) ==
  [p EXCEPT !.queue = [i \in DOMAIN @ |->
                         IF @[i].key = k THEN [key |-> k, level |-> level] ELSE @[i]]]

(* subscribe() *)
PacerSubscribe(p, k, level) ==
  LET q    == ExpireOverdue(p)
      item == [key |-> k, level |-> level]
  IN  IF k \in Queued(q) THEN Relevel(q, k, level)
      ELSE IF k \in InFlight(q) /\ q.ready
      THEN Arm(Dispatch(q, item))
      ELSE Settle([q EXCEPT !.flying[k] = "no", !.queue = Append(@, item)])

(* control(): the requests without an answer.  A key that waits is never   *)
(* told to the gateway twice.                                              *)
ControlNudge(p, k, level) ==
  IF k \in Queued(p) THEN p ELSE SendSubscription(p, k, level)

ControlDemote(p, k) ==
  IF k \in Queued(p) THEN Relevel(p, k, "price") ELSE SendSubscription(p, k, "price")

ControlUnsubscribe(p, k) ==
  IF k \in Queued(p)
  THEN Settle([p EXCEPT !.queue = Delete(@, k)])
  ELSE IF k \in InFlight(p)
  THEN Settle([SendUnsubscription(p, k) EXCEPT !.flying[k] = "no"])
  ELSE SendUnsubscription(p, k)

(* The deadline of a key in flight passes, and the timer set to it.  *)
Overdue(p, k) ==
  [p EXCEPT !.flying[k] = "overdue", !.timer = IF @ = "armed" THEN "due" ELSE @]

(* onResponse(): the answer the key in flight waits for. *)
OnResponse(p, k) == Settle([p EXCEPT !.flying[k] = "no"])

(* trackUntilIdle(), reset() *)
TrackUntilIdle(p) == Settle([p EXCEPT !.tracking = TRUE])

Reset(p) ==
  [p EXCEPT !.timer = "off", !.flying = [k \in Keys |-> "no"],
            !.queue = <<>>, !.tracking = FALSE]

(* The callback of the timer. *)
OnTimer(p) == Settle(ExpireOverdue([p EXCEPT !.timer = "off"]))
=============================================================================
