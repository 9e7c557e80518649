----------------------------- MODULE JournalFeed -----------------------------
(***************************************************************************)
(* The journal feed of one gateway:                                        *)
(*   relay/src/journal/observer.ts   the observer connection, its login    *)
(*                                   and the batches of its two streams    *)
(*   relay/src/journal/writer.ts     one writer per stream (JournalWriter) *)
(*   supabase dma_journal_apply, dma_strategy_apply and their cursor row   *)
(* and, external, the gateway's two logs, which share an epoch and have a  *)
(* seq each.  The relay may crash at any step; a call it had sent may      *)
(* still commit after its successor has read the cursor.                   *)
(***************************************************************************)
EXTENDS JournalWriter

CONSTANTS MaxEvents,   \* per stream: bound on the events
          Poisons,     \* strategy events that may break the contract; 0: none does
          FrameSize,   \* records of one stream in one batch frame
          MaxFaults,   \* bound on faults of the line, the calls and the relay
          MaxLosses    \* bound on what the gateway's retention or a reset loses

Streams == {"order", "strategy"}

ASSUME FeedAssumption ==
  /\ MaxEvents \in [Streams -> Nat]
  /\ Poisons \subseteq Nat
  /\ FrameSize \in 1..MaxQueue
  /\ MaxFaults \in Nat /\ MaxLosses \in Nat

VARIABLES
  gw,         \* the gateway's store, see Gateway
  appended,   \* per stream: events so far
  forgotten,  \* per stream: events the gateway lost
  poison,     \* the strategy event that breaks the contract of required keys
  line,       \* the observer's connection, see Line
  obs,        \* observer.ts, see Observer
  writer,     \* per stream
  rows,       \* per stream: dma_journal_events, dma_strategy_events
  cursor,     \* the dma_journal_cursor row, per stream
  projected,  \* per stream: the events projected, in order
  late,       \* calls whose relay is gone or gave up on them
  faults, losses

relay == <<line, obs, writer>>
store == <<rows, cursor, projected>>
gateway == <<gw, appended, forgotten, poison>>
bounds == <<faults, losses>>
vars == <<gateway, relay, store, late, bounds>>

(* next: the seq of the next event, 0 when a restart has lost it and the   *)
(* next login has to tell.                                                 *)
Gateway == [ epoch : Nat, log : [Streams -> SUBSET Record],
             head : [Streams -> Nat], next : [Streams -> Nat] ]

(* asked: the login request not answered yet, with its epoch and since;    *)
(* head: the heads the answer told; sent: what the gateway has sent since. *)
Line == [ up : BOOLEAN, asked : BOOLEAN, epoch : Nat, since : [Streams -> Nat],
          head : [Streams -> Nat], sent : [Streams -> Nat] ]

(* boot: the cursor to read before connecting.                             *)
Observer == [ state : {"connecting", "logging_in", "replaying", "live", "rejected"},
              boot : {"order", "strategy", "done"}, cursorReady : BOOLEAN,
              pending : [Streams -> BOOLEAN],
              paused : {"no", "overflow", "contract", "cursor"} ]

Cursor == [epoch : Nat, seq : Nat]

TypeOK ==
  /\ gw \in Gateway
  /\ appended \in [Streams -> Nat]
  /\ forgotten \in [Streams -> SUBSET Nat]
  /\ poison \in Nat
  /\ line \in Line
  /\ obs \in Observer
  /\ writer \in [Streams -> Writer]
  /\ \A st \in Streams :
       /\ writer[st].busy <= Len(writer[st].queue) /\ Len(writer[st].queue) <= MaxQueue
       /\ writer[st].call \in {"sent", "done"} <=> writer[st].busy > 0
  /\ rows \in [Streams -> SUBSET Queued]
  /\ cursor \in [Streams -> Cursor]
  /\ projected \in [Streams -> Seq(Nat)]
  /\ late \in SUBSET [stream : Streams, batch : Seq(Queued)]
  /\ faults \in Nat /\ losses \in Nat

Zero == [st \in Streams |-> 0]
Down == [ up |-> FALSE, asked |-> FALSE, epoch |-> 0, since |-> Zero, head |-> Zero,
          sent |-> Zero ]
Booting == [ state |-> "connecting", boot |-> "order", cursorReady |-> FALSE,
             pending |-> [st \in Streams |-> FALSE], paused |-> "no" ]

Init ==
  /\ gw = [epoch |-> 1, log |-> [st \in Streams |-> {}], head |-> Zero,
           next |-> [st \in Streams |-> 1]]
  /\ appended = Zero
  /\ forgotten = [st \in Streams |-> {}]
  /\ poison \in Poisons
  /\ line = Down
  /\ obs = Booting
  /\ writer = [st \in Streams |-> NewWriter]
  /\ rows = [st \in Streams |-> {}]
  /\ cursor = [st \in Streams |-> [epoch |-> 0, seq |-> 0]]
  /\ projected = [st \in Streams |-> <<>>]
  /\ late = {}
  /\ faults = 0 /\ losses = 0

-----------------------------------------------------------------------------
Fault == faults < MaxFaults /\ faults' = faults + 1 /\ UNCHANGED losses

(* #dropTransport, or the down event: connecting again.                    *)
Dropped == line' = Down /\ obs' = [obs EXCEPT !.state = "connecting"]

(* #setState once a login or a batch is through.                           *)
Settled(o) ==
  obs' = [o EXCEPT !.state = IF \E st \in Streams : o.pending[st] THEN "replaying" ELSE "live"]

(* #pauseStrategy                                                          *)
Paused(reason) == [obs EXCEPT !.paused = reason, !.pending["strategy"] = FALSE]

-----------------------------------------------------------------------------
(* Boot: the order cursor, then the strategy cursor, then connect.         *)

ReadOrderCursor ==
  /\ obs.boot = "order"
  /\ writer' = [writer EXCEPT !["order"] = ReadCursor(@, cursor["order"])]
  /\ obs' = [obs EXCEPT !.boot = "strategy"]
  /\ UNCHANGED <<line, store, gateway, late, bounds>>

ReadStrategyCursor ==
  /\ obs.boot = "strategy"
  /\ writer' = [writer EXCEPT !["strategy"] = ReadCursor(@, cursor["strategy"])]
  /\ obs' = [obs EXCEPT !.boot = "done", !.cursorReady = TRUE]
  /\ UNCHANGED <<line, store, gateway, late, bounds>>

StrategyCursorFails ==
  /\ obs.boot = "strategy"
  /\ Fault
  /\ obs' = [Paused("cursor") EXCEPT !.boot = "done"]
  /\ UNCHANGED <<line, writer, store, gateway, late>>

(* #retryStrategyCursor: a logged-in connection is dropped, to take the    *)
(* strategy stream up from the cursor.                                     *)
RetryStrategyCursor ==
  /\ obs.boot = "done" /\ ~obs.cursorReady
  /\ writer' = [writer EXCEPT !["strategy"] = ReadCursor(@, cursor["strategy"])]
  /\ IF obs.state \in {"live", "replaying"}
       THEN line' = Down /\ obs' = [obs EXCEPT !.cursorReady = TRUE, !.state = "connecting"]
       ELSE line' = line /\ obs' = [obs EXCEPT !.cursorReady = TRUE]
  /\ UNCHANGED <<store, gateway, late, bounds>>

(* Mutant of Since: only the orders are taken up from where they were.     *)
SinceOrderOnly ==
  [st \in Streams |->
     IF writer[st].received = Null \/ st = "strategy" THEN 0 ELSE writer[st].received]

(* The since of the login: the epoch of the request is the order writer's, *)
(* so the strategy seq counts only when it is of the same epoch.           *)
Since ==
  [st \in Streams |->
     IF \/ writer[st].received = Null
        \/ st = "strategy" /\ (~obs.cursorReady \/ writer[st].epoch # writer["order"].epoch)
       THEN 0 ELSE writer[st].received]

(* #handleUp                                                               *)
LineUp ==
  /\ obs.boot = "done" /\ obs.state = "connecting" /\ ~line.up
  /\ line' = [Down EXCEPT !.up = TRUE, !.asked = TRUE,
                          !.epoch = writer["order"].epoch, !.since = Since]
  /\ obs' = [obs EXCEPT !.state = "logging_in"]
  /\ UNCHANGED <<writer, store, gateway, late, bounds>>

(* The line is lost, a login times out, a frame is malformed.              *)
LineBreaks ==
  /\ line.up
  /\ Fault
  /\ Dropped
  /\ UNCHANGED <<writer, store, gateway, late>>

-----------------------------------------------------------------------------
(* Login.                                                                  *)

Retained(st) == {r.seq : r \in gw.log[st]}
Oldest(st) == IF Retained(st) = {} THEN 0 ELSE Min(Retained(st))

(* DecideResync (external): another epoch, a since ahead of the head, or   *)
(* records after since that are not kept.                                  *)
Resync(st) ==
  \/ line.epoch # gw.epoch
  \/ line.since[st] > gw.head[st]
  \/ line.since[st] < gw.head[st] /\ (Retained(st) = {} \/ line.since[st] + 1 < Oldest(st))

(* A gateway that lost its newest records goes on after the seq the relay  *)
(* has (external, the agreement writer.ts names).                          *)
Raised ==
  [st \in Streams |->
     IF gw.next[st] # 0 THEN gw.next[st]
     ELSE Max({gw.head[st], IF line.epoch = gw.epoch THEN line.since[st] ELSE 0}) + 1]

Active(st) == st = "order" \/ obs.cursorReady

(* Mutant of LoggedIn: the replay is not waited for.                       *)
LoggedInIsLive(w) ==
  [obs EXCEPT !.paused = IF obs.cursorReady THEN "no" ELSE @,
              !.pending = [st \in Streams |-> FALSE]]

(* #onLogin: which streams still have something to replay.                 *)
LoggedIn(w) ==
  [obs EXCEPT !.paused = IF obs.cursorReady THEN "no" ELSE @,
              !.pending = [st \in Streams |->
                 /\ Active(st)
                 /\ ~(Resync(st) /\ Oldest(st) = 0)
                 /\ gw.head[st] > (IF w[st].received = Null THEN 0 ELSE w[st].received)]]

LoginAnswered ==
  /\ line.asked
  /\ writer' = [st \in Streams |->
       IF Active(st) THEN BeginEpoch(writer[st], gw.epoch, Resync(st), gw.head[st])
                     ELSE writer[st]]
  /\ Settled(LoggedIn(writer'))
  /\ line' = [line EXCEPT !.asked = FALSE, !.head = gw.head,
       !.sent = [st \in Streams |-> IF Resync(st) THEN 0 ELSE line.since[st]]]
  /\ gw' = [gw EXCEPT !.next = Raised]
  /\ UNCHANGED <<appended, forgotten, poison, store, late, bounds>>

(* A refusal, an empty epoch, the broker of another server: the observer   *)
(* stops until the relay restarts.                                         *)
LoginRejected ==
  /\ line.asked
  /\ Fault
  /\ line' = Down
  /\ obs' = [obs EXCEPT !.state = "rejected"]
  /\ UNCHANGED <<writer, store, gateway, late>>

-----------------------------------------------------------------------------
(* Batches.  A frame carries the next records of both streams.             *)

Unsent(st) ==
  LET seqs == {seq \in Retained(st) : seq > line.sent[st]}
  IN [n \in 1..Cardinality(seqs) |-> CHOOSE r \in gw.log[st] : r.seq = Nth(seqs, n)]

FrameParts(st) == {SubSeq(Unsent(st), 1, n) : n \in 0..Min({FrameSize, Len(Unsent(st))})}
Frames == [order : FrameParts("order"), strategy : FrameParts("strategy")]

Violates(records) == poison \in {records[i].event : i \in DOMAIN records}

(* The parser passes only the events before the one that violates.         *)
Parsed(records) ==
  IF Violates(records) THEN Picked(records, {i \in DOMAIN records : records[i].event < poison})
  ELSE records

Sent(frame) ==
  [st \in Streams |-> IF frame[st] = <<>> THEN line.sent[st] ELSE Last(frame[st]).seq]

CaughtUp(frame, st) == \A seq \in Retained(st) : seq <= Sent(frame)[st]

OrderFrame(frame) ==
  /\ obs.state \in {"replaying", "live"}
  /\ frame.order \o frame.strategy # <<>>

(* The order records do not fit: the line is dropped before the strategy   *)
(* events are looked at.                                                   *)
OrderRefused(frame) ==
  /\ OrderFrame(frame)
  /\ PushResult(writer["order"], frame.order) # "ok"
  /\ writer' = [writer EXCEPT !["order"] = Push(@, frame.order)]
  /\ Dropped

OrderTaken(frame) ==
  /\ OrderFrame(frame)
  /\ PushResult(writer["order"], frame.order) = "ok"

(* The order part of the frame is in; o is the observer after the strategy *)
(* part.                                                                   *)
Through(frame, o) ==
  /\ line' = [line EXCEPT !.sent = Sent(frame)]
  /\ Settled([o EXCEPT !.pending["order"] = @ /\ ~CaughtUp(frame, "order")])

OnlyOrders(frame) == writer' = [writer EXCEPT !["order"] = Push(@, frame.order)]

Both(frame) ==
  writer' = [writer EXCEPT !["order"] = Push(@, frame.order),
                           !["strategy"] = Push(@, Parsed(frame.strategy))]

(* Strategy reception is paused; when it was for the queue and the queue   *)
(* is empty now, the line is dropped to take the stream up again.          *)
StrategyPaused(frame) ==
  /\ OrderTaken(frame) /\ obs.paused # "no"
  /\ OnlyOrders(frame)
  /\ IF obs.paused = "overflow" /\ writer["strategy"].queue = <<>>
       THEN Dropped ELSE Through(frame, obs)

StrategyGap(frame) ==
  /\ OrderTaken(frame) /\ obs.paused = "no"
  /\ PushResult(writer["strategy"], Parsed(frame.strategy)) = "gap"
  /\ Both(frame)
  /\ Dropped

(* Mutant of StrategyOverflow: the strategy stream drops the line, as the  *)
(* order stream does.                                                      *)
StrategyOverflowDrops(frame) ==
  /\ OrderTaken(frame) /\ obs.paused = "no"
  /\ PushResult(writer["strategy"], Parsed(frame.strategy)) = "overflow"
  /\ UNCHANGED writer
  /\ Dropped

StrategyOverflow(frame) ==
  /\ OrderTaken(frame) /\ obs.paused = "no"
  /\ PushResult(writer["strategy"], Parsed(frame.strategy)) = "overflow"
  /\ Both(frame)
  /\ Through(frame, Paused("overflow"))

StrategyViolation(frame) ==
  /\ OrderTaken(frame) /\ obs.paused = "no"
  /\ PushResult(writer["strategy"], Parsed(frame.strategy)) = "ok"
  /\ Violates(frame.strategy)
  /\ Both(frame)
  /\ Through(frame, Paused("contract"))

StrategyTaken(frame) ==
  /\ OrderTaken(frame) /\ obs.paused = "no"
  /\ PushResult(writer["strategy"], Parsed(frame.strategy)) = "ok"
  /\ ~Violates(frame.strategy)
  /\ Both(frame)
  /\ Through(frame, [obs EXCEPT !.pending["strategy"] = @ /\ ~CaughtUp(frame, "strategy")])

BatchReceived ==
  /\ \E frame \in Frames :
       \/ OrderRefused(frame) \/ StrategyPaused(frame) \/ StrategyGap(frame)
       \/ StrategyOverflow(frame) \/ StrategyViolation(frame) \/ StrategyTaken(frame)
  /\ UNCHANGED <<store, gateway, late, bounds>>

-----------------------------------------------------------------------------
(* The workers' calls.                                                     *)

(* The transaction of one call.  dma_strategy_apply that creates the       *)
(* cursor row fills the order columns with its epoch and seq 0.            *)
Applied(st, batch) ==
  /\ rows' = [rows EXCEPT ![st] = Rows(@, batch)]
  /\ projected' = [projected EXCEPT ![st] =
       LET new == Inserted(rows[st], batch) IN @ \o [i \in DOMAIN new |-> new[i].event]]
  /\ LET moved == [cursor EXCEPT ![st] = Advanced(@, batch)]
     IN cursor' = IF \A x \in Streams : cursor[x].epoch = 0
                    THEN [moved EXCEPT !["order"].epoch = batch[1].epoch] ELSE moved

CallCommits(st) ==
  /\ writer[st].call = "sent"
  /\ Applied(st, Batch(writer[st]))
  /\ writer' = [writer EXCEPT ![st].call = "done"]
  /\ UNCHANGED <<line, obs, gateway, late, bounds>>

CallSucceeds(st) ==
  /\ writer[st].call = "done"
  /\ writer' = [writer EXCEPT ![st] = Succeeded(@)]
  /\ UNCHANGED <<line, obs, store, gateway, late, bounds>>

Call(st) == [stream |-> st, batch |-> Batch(writer[st])]

(* The database refuses the call, its answer is lost, or the relay gives   *)
(* up on a call that may still commit.                                     *)
CallFails(st) ==
  /\ writer[st].call \in {"sent", "done"}
  /\ Fault
  /\ writer' = [writer EXCEPT ![st] = Failed(@)]
  /\ late' \in IF writer[st].call = "sent" THEN {late, late \cup {Call(st)}} ELSE {late}
  /\ UNCHANGED <<line, obs, store, gateway>>

RetryTimer(st) ==
  /\ writer[st].call = "retry"
  /\ writer' = [writer EXCEPT ![st] = Retried(@)]
  /\ UNCHANGED <<line, obs, store, gateway, late, bounds>>

LateCallCommits ==
  /\ \E c \in late : Applied(c.stream, c.batch) /\ late' = late \ {c}
  /\ UNCHANGED <<relay, gateway, bounds>>

(* The relay is killed and started again; nothing but the database is      *)
(* left, and the calls it had sent.                                        *)
RelayRestarts ==
  /\ Fault
  /\ line' = Down
  /\ obs' = Booting
  /\ writer' = [st \in Streams |-> NewWriter]
  /\ late' \in {late \cup C : C \in SUBSET {Call(st) : st \in {x \in Streams : writer[x].call = "sent"}}}
  /\ UNCHANGED <<store, gateway>>

-----------------------------------------------------------------------------
(* The gateway (external).                                                 *)

EventHappens(st) ==
  /\ appended[st] < MaxEvents[st] /\ gw.next[st] # 0
  /\ appended' = [appended EXCEPT ![st] = @ + 1]
  /\ gw' = [gw EXCEPT !.log[st] = @ \cup {[seq |-> gw.next[st], event |-> appended'[st]]},
                      !.head[st] = gw.next[st], !.next[st] = @ + 1]
  /\ UNCHANGED <<forgotten, poison, relay, store, late, bounds>>

Loss == losses < MaxLosses /\ losses' = losses + 1 /\ UNCHANGED faults

Forgets(st, records) == forgotten' = [forgotten EXCEPT ![st] = @ \cup {r.event : r \in records}]

(* Retention drops the oldest records.                                     *)
RetentionDrops(st) ==
  /\ Loss
  /\ \E cut \in Retained(st) :
       LET dropped == {r \in gw.log[st] : r.seq <= cut}
       IN /\ gw' = [gw EXCEPT !.log[st] = @ \ dropped]
          /\ Forgets(st, dropped)
  /\ UNCHANGED <<appended, poison, relay, store, late>>

(* The store is initialised: a new epoch, both logs empty.                 *)
StoreReset ==
  /\ Loss
  /\ gw' = [epoch |-> gw.epoch + 1, log |-> [st \in Streams |-> {}], head |-> Zero,
            next |-> [st \in Streams |-> 1]]
  /\ forgotten' = [st \in Streams |-> forgotten[st] \cup {r.event : r \in gw.log[st]}]
  /\ IF line.up THEN Dropped ELSE UNCHANGED <<line, obs>>
  /\ UNCHANGED <<appended, poison, writer, store, late>>

(* A gateway restart brings the epoch back without its newest record.  It  *)
(* counts for all the faults of a behaviour: the agreement on it does not  *)
(* cover a call of a dead relay that commits after its successor's login.  *)
TailLost(st) ==
  /\ faults = 0 /\ MaxFaults > 0 /\ faults' = MaxFaults
  /\ \E r \in gw.log[st] :
       /\ r.seq = gw.head[st]
       /\ gw' = [gw EXCEPT !.log[st] = @ \ {r}, !.head[st] = @ - 1, !.next[st] = 0]
       /\ Forgets(st, {r})
  /\ IF line.up THEN Dropped ELSE UNCHANGED <<line, obs>>
  /\ UNCHANGED <<appended, poison, writer, store, late, losses>>
-----------------------------------------------------------------------------
Next ==
  \/ ReadOrderCursor \/ ReadStrategyCursor \/ StrategyCursorFails \/ RetryStrategyCursor
  \/ LineUp \/ LineBreaks \/ LoginAnswered \/ LoginRejected \/ BatchReceived
  \/ LateCallCommits \/ RelayRestarts \/ StoreReset
  \/ \E st \in Streams :
       \/ CallCommits(st) \/ CallSucceeds(st) \/ CallFails(st) \/ RetryTimer(st)
       \/ EventHappens(st) \/ RetentionDrops(st) \/ TailLost(st)

(* Node runs its timers and reconnects; the gateway answers and sends; the *)
(* database answers the calls of a stream.                                 *)
Connects == WF_vars(ReadOrderCursor) /\ WF_vars(ReadStrategyCursor)
              /\ WF_vars(LineUp) /\ WF_vars(LoginAnswered) /\ WF_vars(BatchReceived)
Answers(st) == WF_vars(CallCommits(st)) /\ WF_vars(CallSucceeds(st)) /\ WF_vars(RetryTimer(st))

(* The database never has to answer for the strategy stream.               *)
OrderFairness == Connects /\ Answers("order")

Spec == Init /\ [][Next]_vars /\ OrderFairness
-----------------------------------------------------------------------------
Events(st) == ToSet(projected[st])

OrderCopy == INSTANCE JournalReplication WITH
  appended <- appended["order"], forgotten <- forgotten["order"], copy <- projected["order"]

StrategyCopy == INSTANCE JournalReplication WITH
  appended <- appended["strategy"], forgotten <- forgotten["strategy"],
  copy <- projected["strategy"]

(* Orders reach the database in order, once each, and none is passed over, *)
(* whatever crashes, is lost or is sent again (writer.ts D-12).            *)
OrdersReplicated == OrderCopy!Spec

(* The same for the strategy stream, whose reception is paused and resumed *)
(* apart from the orders (observer.ts WR-01).                              *)
StrategyReplicated == StrategyCopy!Spec

(* Both streams are replicated. *)
Replicated == OrdersReplicated /\ StrategyReplicated

(* The cursor a relay starts from has no hole behind it: what the gateway  *)
(* keeps up to the cursor was projected.                                   *)
CursorHasNoHole ==
  \A st \in Streams : cursor[st].epoch = gw.epoch =>
    \A r \in gw.log[st] : r.seq <= cursor[st].seq => r.event \in Events(st)

(* What a running relay will not ask for again is in the database or in    *)
(* the queue, the poison event and those after it excepted by not being    *)
(* received.                                                               *)
ReceivedIsKept ==
  \A st \in Streams : writer[st].epoch = gw.epoch =>
    \A r \in gw.log[st] : r.seq <= writer[st].received =>
      \/ r.event \in Events(st)
      \/ \E i \in DOMAIN writer[st].queue : writer[st].queue[i].event = r.event

(* Together: no record the gateway keeps is passed over, neither by a relay *)
(* that runs nor by the one that comes after it.                           *)
NothingIsSkipped == CursorHasNoHole /\ ReceivedIsKept

(* "live", which /healthz takes for "recording is up to date", is entered  *)
(* only when what the gateway kept up to the head it told at login was     *)
(* received, on the order stream and, unless paused, the strategy stream.  *)
LiveIsCaughtUp ==
  [][ obs.state # "live" /\ obs'.state = "live" =>
        \A st \in Streams : (st = "order" \/ obs'.paused = "no") =>
          \A r \in gw.log[st] : r.seq <= line'.head[st] => r.seq <= writer'[st].received ]_vars

(* Trouble on the strategy side never stops the order journal (WR-01): an  *)
(* order gets to the database although the strategy calls are never        *)
(* answered and the strategy cursor is never read.                         *)
OrdersArrive ==
  \A e \in 1..MaxEvents["order"] :
    appended["order"] >= e ~>
      e \in Events("order") \cup forgotten["order"] \/ obs.state = "rejected"
=============================================================================
