-------------------------- MODULE QuoteSwitch_proofs --------------------------
(***************************************************************************)
(* Proofs about QuoteSwitch, for every set of servers, addresses and calls *)
(* of the route, and every bound.                                          *)
(*                                                                         *)
(* FeedIsDriven is inductive with the types, once it is known that a       *)
(* switch that was stopped waits for nothing and that the refusals counted *)
(* since the last login were all taken from the budget of faults.          *)
(*                                                                         *)
(* The last part is about TailReload, through which the registry reads:    *)
(* its variables are apart from those of the switch.                       *)
(***************************************************************************)
EXTENDS QuoteSwitch, TailReload, TLAPS

StopEndsSwitch == sw.stopped => ~sw.switching /\ ~sw.busy

RefusalsCounted ==
  /\ feed.rejects + budget.faults <= MaxFaults
  /\ feed.retry => feed.state = "rejected"
  /\ feed.state \in {"rejected", "role_mismatch"} => ~feed.open /\ ~feed.login

IInv == TypeOK /\ FeedIsDriven /\ StopEndsSwitch /\ RefusalsCounted

-----------------------------------------------------------------------------
(* The operators.                                                          *)

LEMMA NewFeedType == NewFeed \in Feeds
BY BoundsAssumption DEF NewFeed, Feeds

LEMMA EndpointType == ASSUME NEW rows \in Rows, NEW k \in Servers
                      PROVE  Endpoint(rows, k) \in Endpoints /\ Primary(rows) \in Endpoints
BY DEF Endpoint, Primary, Endpoints, Rows

LEMMA SwitchToType ==
  ASSUME NEW s \in Switches, NEW target \in Endpoints,
         NEW job \in {"none", "route", "rollback", "reconcile"},
         NEW by \in Requests \union {NoRequest}
  PROVE  /\ SwitchTo(s, target, job, by) \in Switches
         /\ SwitchTo(s, target, job, by).stopped = s.stopped
         /\ SwitchTo(s, target, job, by).switching /\ SwitchTo(s, target, job, by).busy
         /\ SwitchTo(s, target, job, by).job = job /\ SwitchTo(s, target, job, by).by = by
         /\ SwitchTo(s, target, job, by).server = target
         /\ SwitchTo(s, target, job, by).prev = s.server
         /\ SwitchTo(s, target, job, by).observed = s.observed
BY DEF SwitchTo, Switches

LEMMA IdleType ==
  ASSUME NEW s \in Switches
  PROVE  /\ Idle(s) \in Switches /\ RollBack(s) \in Switches
         /\ Idle(s).stopped = s.stopped /\ RollBack(s).stopped = s.stopped
         /\ ~Idle(s).switching /\ ~Idle(s).busy /\ Idle(s).job = "none"
         /\ ~RollBack(s).switching /\ ~RollBack(s).busy /\ RollBack(s).job = "none"
         /\ Idle(s).observed = s.observed /\ RollBack(s).observed = s.observed
         /\ Idle(s).server = s.server /\ RollBack(s).server = s.prev
BY DEF Idle, RollBack, Switches

(* A refusal, tried again or not; the retry is not set at a login.         *)
LEMMA RefusedFeed ==
  ASSUME TypeOK, RefusalsCounted, budget.faults > 0, feed.state = "logging_in",
         NEW f \in {Rejected, Halted("role_mismatch")}
  PROVE  /\ f \in Feeds /\ f.rejects <= feed.rejects + 1
         /\ ~f.open /\ ~f.login
         /\ \/ f.state = "rejected" /\ ~f.loop /\ (f.retry \/ f.rejects > MaxRejects)
            \/ f.state = "role_mismatch" /\ ~f.loop /\ ~f.retry
<1>1. /\ feed \in Feeds /\ ~feed.retry
      /\ feed.rejects \in Nat /\ feed.rejects + 1 \in 0..MaxFaults
  <2>1. feed \in Feeds /\ feed.rejects \in 0..MaxFaults /\ budget.faults \in 0..MaxFaults
    BY DEF TypeOK, Feeds
  <2> QED BY <2>1, BoundsAssumption DEF RefusalsCounted
<1>2. ASSUME NEW state \in {"rejected", "role_mismatch"}
      PROVE  /\ Halted(state) \in Feeds /\ Halted(state).rejects = feed.rejects
             /\ Halted(state).state = state
             /\ ~Halted(state).loop /\ ~Halted(state).retry
             /\ ~Halted(state).open /\ ~Halted(state).login
  BY <1>1 DEF Feeds, Halted
<1>3. CASE f = Halted("role_mismatch")
  BY <1>1, <1>2, <1>3
<1>4. CASE f = Rejected
  <2> DEFINE limit == feed.rejects + 1 <= MaxRejects
             halted == Halted("rejected")
  <2>1. f = [halted EXCEPT !.rejects = @ + 1, !.retry = limit]
    BY <1>4 DEF Rejected
  <2>2. limit \in BOOLEAN
    OBVIOUS
  <2>3. /\ halted \in Feeds /\ halted.rejects + 1 \in 0..MaxFaults /\ ~halted.loop
        /\ ~halted.open /\ ~halted.login
        /\ halted.state = "rejected" /\ halted.rejects = feed.rejects
    BY <1>1, <1>2
  <2>4. limit \/ feed.rejects + 1 > MaxRejects
    BY <1>1, BoundsAssumption
  <2> HIDE DEF limit, halted
  <2>5. f \in Feeds
    BY <2>1, <2>2, <2>3 DEF Feeds
  <2>6. /\ f.rejects = halted.rejects + 1 /\ f.retry = limit /\ f.state = "rejected"
        /\ ~f.loop /\ ~f.open /\ ~f.login
    BY <2>1, <2>3 DEF Feeds
  <2>7. f.rejects <= feed.rejects + 1 /\ (f.retry \/ f.rejects > MaxRejects)
    BY <1>1, <2>3, <2>4, <2>6
  <2> QED BY <2>5, <2>6, <2>7
<1> QED BY <1>3, <1>4

LEMMA FaultSpends ==
  ASSUME TypeOK, Fault
  PROVE  /\ budget' \in [edits : 0..MaxEdits, faults : 0..MaxFaults]
         /\ budget'.faults = budget.faults - 1 /\ budget.faults > 0
BY BoundsAssumption DEF TypeOK, Fault

LEMMA NewCallType ==
  ASSUME NEW phase \in {"new", "ok", "busy", "failed", "unrecorded"}
  PROVE  NewCall \in Calls /\ [NewCall EXCEPT !.phase = phase] \in Calls
BY FirstRowsAssumption DEF NewCall, Calls, Rows

LEMMA RouteType ==
  ASSUME TypeOK, NEW r, NEW phase \in {"ok", "busy", "failed", "unrecorded"},
         RouteWrites(r) \/ RouteEnds(r, phase)
  PROVE  req' \in [Requests -> Calls]
<1>1. CASE RouteWrites(r)
  BY <1>1 DEF TypeOK, Calls, RouteWrites
<1>2. CASE RouteEnds(r, phase)
  BY <1>2, NewCallType DEF TypeOK, RouteEnds
<1> QED BY <1>1, <1>2

LEMMA CallersFailType ==
  ASSUME TypeOK, NEW current \in Servers, CallersFail(current)
  PROVE  req' \in [Requests -> Calls] /\ restore' \subseteq Servers /\ missed' \in BOOLEAN
<1>1. req' \in [Requests -> Calls]
  BY RouteType DEF TypeOK, CallersFail
<1>2. restore' \subseteq Servers
  BY DEF TypeOK, CallersFail
<1>3. missed' \in BOOLEAN
  BY DEF TypeOK, CallersFail
<1> QED BY <1>1, <1>2, <1>3

(* A new feed connects: all that FeedIsDriven asks of one that is in use.  *)
LEMMA NewFeedIsDriven ==
  ASSUME TypeOK, RefusalsCounted, sw' \in Switches, ~sw'.stopped,
         sw'.switching => sw'.busy, feed' = NewFeed,
         budget' \in [edits : 0..MaxEdits, faults : 0..MaxFaults]
  PROVE  FeedIsDriven' /\ StopEndsSwitch' /\ RefusalsCounted'
BY BoundsAssumption DEF TypeOK, RefusalsCounted, NewFeed, FeedIsDriven, StopEndsSwitch, Feeds

-----------------------------------------------------------------------------
LEMMA InitIInv == Init => IInv
<1> SUFFICES ASSUME Init PROVE IInv
  OBVIOUS
<1>1. sw \in Switches
  BY FirstRowsAssumption, EndpointType DEF Init, Switches, Rows
<1>2. req \in [Requests -> Calls]
  BY NewCallType DEF Init
<1>3. TypeOK
  <2>1. budget \in [edits : 0..MaxEdits, faults : 0..MaxFaults]
    BY BoundsAssumption DEF Init
  <2>2. feed \in Feeds /\ db \in Rows /\ reg \in Rows /\ read = NoRead
    BY NewFeedType, FirstRowsAssumption DEF Init
  <2>3. restore \subseteq Servers /\ missed \in BOOLEAN
    BY DEF Init
  <2> QED BY <1>1, <1>2, <2>1, <2>2, <2>3 DEF TypeOK
<1>4. FeedIsDriven /\ StopEndsSwitch /\ RefusalsCounted
  BY BoundsAssumption DEF Init, NewFeed, FeedIsDriven, StopEndsSwitch, RefusalsCounted
<1> QED BY <1>3, <1>4 DEF IInv

(* A switch that fails, whatever ended it: the waiter's ten seconds or a   *)
(* refusal.                                                                *)
LEMMA SwitchFailsInv ==
  ASSUME IInv, sw.switching, SwitchFails, UNCHANGED <<db, reg, read>>,
         budget' \in [edits : 0..MaxEdits, faults : 0..MaxFaults]
  PROVE  IInv'
<1>1. ~sw.stopped /\ sw' \in Switches /\ ~sw'.stopped /\ ~sw'.switching
  BY IdleType DEF IInv, TypeOK, StopEndsSwitch, SwitchFails
<1>2. sw.prev.key \in Servers /\ CallersFail(sw.prev.key)
  BY DEF IInv, TypeOK, Switches, Endpoints, SwitchFails
<1>3. TypeOK'
  BY <1>1, <1>2, CallersFailType, NewFeedType DEF IInv, TypeOK, SwitchFails
<1>4. FeedIsDriven' /\ StopEndsSwitch' /\ RefusalsCounted'
  BY <1>1, NewFeedIsDriven DEF IInv, SwitchFails
<1> QED BY <1>3, <1>4 DEF IInv

(* The feed's own steps.                                                   *)
LEMMA TransportUpInv == ASSUME IInv, TransportUp PROVE IInv'
<1>1. /\ ~sw.stopped /\ feed.loop
      /\ feed' = [feed EXCEPT !.open = TRUE, !.state = "logging_in", !.login = TRUE]
      /\ UNCHANGED <<sw, db, reg, read, req, restore, missed, budget>>
  BY DEF TransportUp, FeedMoves
<1>2. /\ feed' \in Feeds
      /\ feed'.state = "logging_in" /\ feed'.open /\ feed'.login
      /\ feed'.loop = feed.loop /\ feed'.retry = feed.retry /\ feed'.rejects = feed.rejects
  BY <1>1 DEF IInv, TypeOK, Feeds
<1>3. TypeOK'
  BY <1>1, <1>2 DEF IInv, TypeOK
<1>4. ~feed.retry
  BY <1>1 DEF IInv, FeedIsDriven, RefusalsCounted
<1>5. FeedIsDriven' /\ StopEndsSwitch' /\ RefusalsCounted'
  BY <1>1, <1>2, <1>4 DEF IInv, FeedIsDriven, StopEndsSwitch, RefusalsCounted
<1> QED BY <1>3, <1>5 DEF IInv

LEMMA LoginAcceptedInv == ASSUME IInv, LoginAccepted PROVE IInv'
<1>1. /\ feed' \in Feeds /\ budget' = budget /\ ~feed.retry
      /\ feed'.state = "ready" /\ ~feed'.login /\ feed'.rejects = 0
      /\ feed'.loop = feed.loop /\ feed'.open /\ feed'.retry = feed.retry
  <2>1. feed \in Feeds /\ 0 \in 0..MaxFaults /\ feed.open /\ feed.state = "logging_in"
        /\ feed' = [feed EXCEPT !.state = "ready", !.login = FALSE, !.rejects = 0]
    BY BoundsAssumption DEF IInv, TypeOK, LoginAccepted
  <2>2. ~feed.retry /\ budget' = budget
    BY <2>1 DEF IInv, RefusalsCounted, LoginAccepted
  <2> QED BY <2>1, <2>2 DEF Feeds
<1>2. /\ sw' \in Switches /\ sw'.stopped = sw.stopped
      /\ sw'.switching = FALSE /\ (sw.stopped => ~sw'.busy)
  <2>1. CASE sw.switching
    BY <2>1, IdleType DEF IInv, TypeOK, LoginAccepted, SwitchSucceeds, Switches
  <2>2. CASE ~sw.switching
    BY <2>2 DEF IInv, TypeOK, StopEndsSwitch, LoginAccepted, Switches
  <2> QED BY <2>1, <2>2
<1>3. req' \in [Requests -> Calls] /\ UNCHANGED <<restore, missed>>
  BY RouteType DEF IInv, TypeOK, LoginAccepted, SwitchSucceeds
<1>4. TypeOK'
  BY <1>1, <1>2, <1>3 DEF IInv, TypeOK, LoginAccepted
<1>5. FeedIsDriven' /\ StopEndsSwitch' /\ RefusalsCounted'
  <2>1. budget.faults <= MaxFaults /\ feed.open /\ feed.state = "logging_in"
    BY BoundsAssumption DEF IInv, TypeOK, LoginAccepted
  <2>2. ~sw.stopped /\ feed.loop
    BY <2>1 DEF IInv, FeedIsDriven
  <2> QED BY <1>1, <1>2, <2>1, <2>2, BoundsAssumption
          DEF IInv, TypeOK, FeedIsDriven, StopEndsSwitch, RefusalsCounted
<1> QED BY <1>4, <1>5 DEF IInv

LEMMA LoginRefusedInv == ASSUME IInv, LoginRefused PROVE IInv'
<1>1. /\ budget' \in [edits : 0..MaxEdits, faults : 0..MaxFaults]
      /\ budget'.faults = budget.faults - 1 /\ budget.faults > 0
  BY FaultSpends DEF IInv, LoginRefused
<1>2. CASE sw.switching
  BY <1>1, <1>2, SwitchFailsInv DEF LoginRefused
<1>3. CASE ~sw.switching
  <2>1. PICK f \in {Rejected, Halted("role_mismatch")} : FeedMoves(f)
    BY <1>3 DEF LoginRefused
  <2>2. /\ f \in Feeds /\ f.rejects <= feed.rejects + 1
        /\ ~f.open /\ ~f.login
        /\ \/ f.state = "rejected" /\ ~f.loop /\ (f.retry \/ f.rejects > MaxRejects)
           \/ f.state = "role_mismatch" /\ ~f.loop /\ ~f.retry
    BY <1>1, RefusedFeed DEF IInv, LoginRefused
  <2>3. TypeOK'
    BY <1>1, <2>1, <2>2 DEF IInv, TypeOK, FeedMoves
  <2>5. FeedIsDriven' /\ StopEndsSwitch'
    BY <1>3, <2>1, <2>2 DEF IInv, FeedIsDriven, StopEndsSwitch, FeedMoves
  <2>6. RefusalsCounted'
    <3>1. feed.rejects \in Nat /\ f.rejects \in Nat /\ budget.faults \in Nat
      BY <2>2, BoundsAssumption DEF IInv, TypeOK, Feeds
    <3> QED BY <1>1, <2>1, <2>2, <3>1, BoundsAssumption DEF IInv, RefusalsCounted, FeedMoves
  <2> QED BY <2>3, <2>5, <2>6 DEF IInv
<1> QED BY <1>2, <1>3

LEMMA RetryFiresInv == ASSUME IInv, RetryFires PROVE IInv'
<1>1. /\ ~sw.stopped /\ ~feed.open /\ ~feed.login
      /\ feed' = [feed EXCEPT !.state = "connecting", !.retry = FALSE, !.loop = TRUE]
      /\ UNCHANGED <<sw, db, reg, read, req, restore, missed, budget>>
  BY DEF IInv, RefusalsCounted, FeedIsDriven, RetryFires, FeedMoves
<1>2. /\ feed' \in Feeds
      /\ feed'.state = "connecting" /\ ~feed'.retry /\ feed'.loop
      /\ feed'.open = feed.open /\ feed'.login = feed.login /\ feed'.rejects = feed.rejects
  BY <1>1 DEF IInv, TypeOK, Feeds
<1>3. TypeOK'
  BY <1>1, <1>2 DEF IInv, TypeOK
<1>4. FeedIsDriven' /\ StopEndsSwitch' /\ RefusalsCounted'
  BY <1>1, <1>2 DEF IInv, FeedIsDriven, StopEndsSwitch, RefusalsCounted
<1> QED BY <1>3, <1>4 DEF IInv

LEMMA LineLostInv == ASSUME IInv, LineDrops \/ LoginTimeout PROVE IInv'
<1>1. /\ budget' \in [edits : 0..MaxEdits, faults : 0..MaxFaults]
      /\ budget'.faults = budget.faults - 1
  BY FaultSpends DEF IInv, LineDrops, LoginTimeout
<1>2. /\ ~sw.stopped
      /\ feed' = [feed EXCEPT !.open = FALSE, !.state = "connecting", !.login = FALSE]
      /\ UNCHANGED <<sw, db, reg, read, req, restore, missed>>
  BY DEF LineDrops, LoginTimeout, FeedMoves
<1>3. /\ feed' \in Feeds
      /\ feed'.state = "connecting" /\ ~feed'.open /\ ~feed'.login
      /\ feed'.loop = feed.loop /\ feed'.retry = feed.retry /\ feed'.rejects = feed.rejects
  BY <1>2 DEF IInv, TypeOK, Feeds
<1>4. TypeOK'
  BY <1>1, <1>2, <1>3 DEF IInv, TypeOK
<1>5. feed.open \/ feed.state = "logging_in"
  BY DEF LineDrops, LoginTimeout
<1>6. feed.loop /\ ~feed.retry
  BY <1>2, <1>5 DEF IInv, FeedIsDriven, RefusalsCounted
<1>7. FeedIsDriven' /\ StopEndsSwitch'
  BY <1>2, <1>3, <1>6 DEF IInv, FeedIsDriven, StopEndsSwitch
<1>8. RefusalsCounted'
  <2>1. feed.rejects \in Nat /\ budget.faults \in Nat
    BY BoundsAssumption DEF IInv, TypeOK, Feeds
  <2> QED BY <1>1, <1>3, <1>6, <2>1, BoundsAssumption DEF IInv, RefusalsCounted
<1> QED BY <1>4, <1>7, <1>8 DEF IInv

-----------------------------------------------------------------------------
(* A step that starts a switch, or leaves the connection alone.            *)
LEMMA SwitchStarts ==
  ASSUME IInv, ~sw.stopped, NEW target \in Endpoints, NEW s \in Switches,
         s.stopped = sw.stopped,
         NEW job \in {"none", "route", "rollback", "reconcile"},
         NEW by \in Requests \union {NoRequest},
         sw' = SwitchTo(s, target, job, by), feed' = NewFeed,
         budget' \in [edits : 0..MaxEdits, faults : 0..MaxFaults]
  PROVE  /\ sw' \in Switches /\ feed' \in Feeds
         /\ FeedIsDriven' /\ StopEndsSwitch' /\ RefusalsCounted'
BY SwitchToType, NewFeedType, NewFeedIsDriven DEF IInv

LEMMA SwitchStays ==
  ASSUME IInv, sw' \in Switches, feed' = feed,
         sw'.stopped = sw.stopped, sw'.switching = sw.switching, sw'.busy = sw.busy,
         budget' \in [edits : 0..MaxEdits, faults : 0..MaxFaults],
         budget'.faults <= budget.faults
  PROVE  FeedIsDriven' /\ StopEndsSwitch' /\ RefusalsCounted'
<1>1. FeedIsDriven' /\ StopEndsSwitch'
  BY DEF IInv, FeedIsDriven, StopEndsSwitch
<1>2. RefusalsCounted'
  BY BoundsAssumption DEF IInv, TypeOK, Feeds, RefusalsCounted
<1> QED BY <1>1, <1>2

LEMMA RouteCalledInv ==
  ASSUME IInv, NEW r \in Requests, NEW k \in Servers, RouteCalled(r, k) PROVE IInv'
<1> DEFINE row  == Endpoint(reg, k)
           asked == [ phase |-> "new", key |-> k, changed |-> row # sw.server,
                     rows |-> reg, prevKey |-> sw.server.key ]
<1>1. row \in Endpoints
  BY EndpointType DEF IInv, TypeOK
<1>2. asked \in Calls
  BY DEF IInv, TypeOK, Calls, Switches, Endpoints
<1>3. \/ \E phase \in {"writing", "switching"} :
             req' = [req EXCEPT ![r] = [asked EXCEPT !.phase = phase]]
      \/ \E phase \in {"busy", "ok"} : RouteEnds(r, phase)
  BY DEF RouteCalled
<1>4. req' \in [Requests -> Calls]
  <2> HIDE DEF asked
  <2>1. ASSUME NEW phase \in {"writing", "switching"}
        PROVE  [asked EXCEPT !.phase = phase] \in Calls
    BY <1>2 DEF Calls
  <2> QED BY <1>3, <2>1, RouteType DEF IInv, TypeOK
<1>5. missed' \in BOOLEAN
  BY DEF IInv, TypeOK, RouteCalled, WriteUnderWay
<1>6. sw' \in Switches /\ feed' \in Feeds /\ FeedIsDriven' /\ StopEndsSwitch' /\ RefusalsCounted'
  <2>1. CASE sw' = SwitchTo(sw, row, "route", r) /\ feed' = NewFeed
    <3> HIDE DEF row
    <3> QED BY <1>1, <2>1, SwitchStarts DEF IInv, TypeOK, RouteCalled
  <2>2. CASE UNCHANGED <<sw, feed>>
    BY <2>2, SwitchStays, BoundsAssumption DEF IInv, TypeOK, RouteCalled
  <2> QED BY <2>1, <2>2 DEF RouteCalled
<1>7. TypeOK'
  BY <1>4, <1>5, <1>6 DEF IInv, TypeOK, RouteCalled
<1> QED BY <1>6, <1>7 DEF IInv

LEMMA PrimaryWritten ==
  ASSUME TypeOK, NEW k \in Servers PROVE [db EXCEPT !.primary = k] \in Rows
BY DEF TypeOK, Rows

LEMMA RouteRecordedInv ==
  ASSUME IInv, NEW r \in Requests, RouteRecorded(r) PROVE IInv'
<1>1. db' \in Rows /\ req' \in [Requests -> Calls]
  BY PrimaryWritten, RouteType DEF IInv, TypeOK, Calls, RouteRecorded
<1>2. TypeOK'
  BY <1>1 DEF IInv, TypeOK, RouteRecorded
<1>3. FeedIsDriven' /\ StopEndsSwitch' /\ RefusalsCounted'
  BY <1>2, SwitchStays, BoundsAssumption DEF IInv, TypeOK, RouteRecorded
<1> QED BY <1>2, <1>3 DEF IInv

LEMMA RouteNotRecordedInv ==
  ASSUME IInv, NEW r \in Requests, RouteNotRecorded(r) PROVE IInv'
<1> DEFINE back == Endpoint(req[r].rows, req[r].prevKey)
<1>1. /\ budget' \in [edits : 0..MaxEdits, faults : 0..MaxFaults]
      /\ budget'.faults = budget.faults - 1
  BY FaultSpends DEF IInv, RouteNotRecorded
<1>2. back \in Endpoints
  BY EndpointType DEF IInv, TypeOK, Calls
<1>3. db' \in Rows /\ req' \in [Requests -> Calls] /\ missed' \in BOOLEAN
  BY PrimaryWritten, RouteType DEF IInv, TypeOK, Calls, RouteNotRecorded, Switches
<1>4. sw' \in Switches /\ feed' \in Feeds /\ FeedIsDriven' /\ StopEndsSwitch' /\ RefusalsCounted'
  <2>1. CASE ~sw.stopped /\ sw' = SwitchTo(sw, back, "rollback", r) /\ feed' = NewFeed
    <3> HIDE DEF back
    <3> QED BY <1>1, <1>2, <2>1, SwitchStarts DEF IInv, TypeOK
  <2>2. CASE UNCHANGED <<sw, feed>>
    BY <1>1, <2>2, SwitchStays, BoundsAssumption DEF IInv, TypeOK
  <2> QED BY <2>1, <2>2 DEF RouteNotRecorded
<1>5. TypeOK'
  BY <1>1, <1>3, <1>4 DEF IInv, TypeOK, RouteNotRecorded
<1> QED BY <1>4, <1>5 DEF IInv

LEMMA ApplyRowsInv == ASSUME IInv, ApplyRows PROVE IInv'
<1> DEFINE target == Primary(read)
<1>1. read \in Rows /\ reg' = read /\ read' = NoRead
  BY DEF IInv, TypeOK, ApplyRows
<1>2. target \in Endpoints
  BY <1>1, EndpointType DEF Rows
<1> HIDE DEF target
<1>3. /\ Observe(sw, target) \in Switches
      /\ Observe(sw, target).stopped = sw.stopped
      /\ Observe(sw, target).switching = sw.switching
      /\ Observe(sw, target).busy = sw.busy
  BY <1>2 DEF IInv, TypeOK, Observe, Switches
<1>4. sw' \in Switches /\ feed' \in Feeds /\ FeedIsDriven' /\ StopEndsSwitch' /\ RefusalsCounted'
  <2>0. budget' = budget /\ budget \in [edits : 0..MaxEdits, faults : 0..MaxFaults]
    BY DEF IInv, TypeOK, ApplyRows
  <2>1. CASE /\ ~sw.stopped
             /\ sw' = SwitchTo(Observe(sw, target), target, "reconcile", NoRequest)
             /\ feed' = NewFeed
    BY <1>2, <1>3, <2>0, <2>1, SwitchStarts DEF IInv, TypeOK
  <2>2. CASE sw' \in {sw, Observe(sw, target)} /\ UNCHANGED feed
    BY <1>3, <2>0, <2>2, SwitchStays, BoundsAssumption DEF IInv, TypeOK
  <2> QED BY <2>1, <2>2 DEF ApplyRows, target
<1>5. missed' \in BOOLEAN
  BY DEF IInv, TypeOK, ApplyRows, WriteUnderWay, Switches
<1>6. restore' \subseteq Servers
  <2>1. sw.server.key \in Servers /\ restore \subseteq Servers
    BY DEF IInv, TypeOK, Switches, Endpoints
  <2> QED BY <2>1 DEF ApplyRows
<1>7. TypeOK'
  BY <1>1, <1>4, <1>5, <1>6 DEF IInv, TypeOK, ApplyRows
<1> QED BY <1>4, <1>7 DEF IInv

LEMMA ReadRowsInv == ASSUME IInv, ReadRows PROVE IInv'
<1>1. TypeOK'
  BY DEF IInv, TypeOK, ReadRows
<1>2. FeedIsDriven' /\ StopEndsSwitch' /\ RefusalsCounted'
  BY <1>1, SwitchStays, BoundsAssumption DEF IInv, TypeOK, ReadRows
<1> QED BY <1>1, <1>2 DEF IInv

LEMMA RestoredInv == ASSUME IInv, NEW k \in Servers, Restored(k) PROVE IInv'
<1>1. /\ budget' \in [edits : 0..MaxEdits, faults : 0..MaxFaults]
      /\ budget'.faults <= budget.faults
  BY FaultSpends, BoundsAssumption DEF IInv, TypeOK, Restored
<1>2. TypeOK'
  BY <1>1, PrimaryWritten DEF IInv, TypeOK, Restored
<1>3. FeedIsDriven' /\ StopEndsSwitch' /\ RefusalsCounted'
  BY <1>1, SwitchStays DEF IInv, TypeOK, Restored
<1> QED BY <1>2, <1>3 DEF IInv

LEMMA EditInv == ASSUME IInv, Edit PROVE IInv'
<1>1. /\ budget' \in [edits : 0..MaxEdits, faults : 0..MaxFaults]
      /\ budget'.faults = budget.faults
  BY BoundsAssumption DEF IInv, TypeOK, Edit
<1>2. db' \in Rows
  BY DEF IInv, TypeOK, Rows, Edit
<1>3. TypeOK'
  BY <1>1, <1>2 DEF IInv, TypeOK, Edit
<1>4. FeedIsDriven' /\ StopEndsSwitch' /\ RefusalsCounted'
  BY <1>1, SwitchStays, BoundsAssumption DEF IInv, TypeOK, Edit
<1> QED BY <1>3, <1>4 DEF IInv

LEMMA StopInv == ASSUME IInv, Stop PROVE IInv'
<1>1. sw' \in Switches /\ sw'.stopped /\ ~sw'.switching /\ ~sw'.busy
  BY DEF IInv, TypeOK, Switches, Idle, Stop
<1>2. /\ feed' \in Feeds /\ feed'.rejects = feed.rejects
      /\ ~feed'.loop /\ ~feed'.open /\ ~feed'.login /\ ~feed'.retry
  BY DEF IInv, TypeOK, Feeds, Stop
<1>3. sw.server.key \in Servers
  BY DEF IInv, TypeOK, Switches, Endpoints
<1>4. TypeOK'
  BY <1>1, <1>2, <1>3, CallersFailType DEF IInv, TypeOK, Stop
<1>5. FeedIsDriven' /\ StopEndsSwitch' /\ RefusalsCounted'
  BY <1>1, <1>2 DEF IInv, FeedIsDriven, StopEndsSwitch, RefusalsCounted, Stop
<1> QED BY <1>4, <1>5 DEF IInv

LEMMA StepIInv == IInv /\ [Next]_vars => IInv'
<1> SUFFICES ASSUME IInv, [Next]_vars PROVE IInv'
  OBVIOUS
<1>1. CASE ReadyTimeout
  BY <1>1, SwitchFailsInv DEF IInv, TypeOK, ReadyTimeout
<1>2. CASE TransportUp \/ LoginAccepted \/ LoginRefused \/ RetryFires \/ LineDrops \/ LoginTimeout
  BY <1>2, TransportUpInv, LoginAcceptedInv, LoginRefusedInv, RetryFiresInv, LineLostInv
<1>3. CASE \E r \in Requests :
             RouteRecorded(r) \/ RouteNotRecorded(r) \/ \E k \in Servers : RouteCalled(r, k)
  BY <1>3, RouteRecordedInv, RouteNotRecordedInv, RouteCalledInv
<1>4. CASE ReadRows \/ ApplyRows \/ (\E k \in Servers : Restored(k)) \/ Edit \/ Stop
  BY <1>4, ReadRowsInv, ApplyRowsInv, RestoredInv, EditInv, StopInv
<1>5. CASE UNCHANGED vars
  BY <1>5 DEF IInv, TypeOK, FeedIsDriven, StopEndsSwitch, RefusalsCounted, vars
<1> QED BY <1>1, <1>2, <1>3, <1>4, <1>5 DEF Next

(* The inductive invariant holds in every behaviour.                       *)
LEMMA Invariance == Spec => []IInv
BY InitIInv, StepIInv, PTL DEF Spec

(* Type correctness of the switch, its feed, the rows and the calls of the *)
(* route (quote-switch.ts, feed.ts, admin-api.ts).                         *)
THEOREM TypeCorrect == Spec => []TypeOK
<1>1. IInv => TypeOK
  BY DEF IInv
<1> QED BY <1>1, Invariance, PTL

(* The quote connection always has what moves it on, a timer or the        *)
(* reconnect loop, unless it was stopped or refused for good; a switch is  *)
(* waited for only while its feed may still come up (feed.ts #halt,        *)
(* #handleDown, quote-switch.ts switchTo).                                 *)
THEOREM TheFeedIsDriven == Spec => []FeedIsDriven
<1>1. IInv => FeedIsDriven
  BY DEF IInv
<1> QED BY <1>1, Invariance, PTL

-----------------------------------------------------------------------------
(* Where the connection is.  While no correction was missed, the registry's *)
(* primary is the one last looked at.  A write that names it is made only  *)
(* while connected to it, a correction or a roll-back goes to it, and      *)
(* otherwise the connection is at it or the database names another by now. *)

JobIsSwitch ==
  /\ sw.switching <=> sw.job # "none"
  /\ sw.busy <=> sw.switching
  /\ sw.job = "route" => sw.by \in Requests /\ req[sw.by].phase = "switching"

WritesAreFollowed ==
  /\ \A r \in Requests :
       req[r].phase = "writing" /\ req[r].key = reg.primary => sw.server = Primary(reg)
  /\ \A k \in restore : k # reg.primary

SwitchesAreFollowed ==
  /\ sw.job \in {"route", "reconcile"} => ~WriteUnderWay
  /\ sw.job \in {"reconcile", "rollback"} => sw.server = Primary(reg)
  /\ sw.job = "route" =>
       /\ req[sw.by].key = reg.primary => sw.server = Primary(reg)
       /\ sw.prev.key = reg.primary \/ db.primary # reg.primary

RestIsFollowed ==
  sw.job = "none" /\ ~WriteUnderWay => sw.server = Primary(reg) \/ db.primary # reg.primary

Followed ==
  ~missed /\ ~sw.stopped =>
    sw.observed = Primary(reg) /\ WritesAreFollowed /\ SwitchesAreFollowed /\ RestIsFollowed

FInv == IInv /\ JobIsSwitch /\ Followed

(* A step that leaves alone all that Followed speaks of. *)
LEMMA FollowedStays ==
  ASSUME FInv, UNCHANGED <<sw, db, reg, req, restore, missed>>
  PROVE  JobIsSwitch' /\ Followed'
BY DEF FInv, JobIsSwitch, Followed, WritesAreFollowed, SwitchesAreFollowed, RestIsFollowed,
       WriteUnderWay, Primary, Endpoint

LEMMA SwitchSucceedsFollowed ==
  ASSUME FInv, sw.switching, SwitchSucceeds, UNCHANGED <<db, reg>>
  PROVE  JobIsSwitch' /\ Followed'
<1>1. /\ sw'.job = "none" /\ ~sw'.switching /\ ~sw'.busy /\ sw'.stopped = sw.stopped
      /\ sw'.server = sw.server /\ sw'.observed = sw.observed
  BY IdleType DEF FInv, IInv, TypeOK, SwitchSucceeds
<1>2. JobIsSwitch'
  BY <1>1 DEF JobIsSwitch
<1>3. SUFFICES ASSUME ~missed', ~sw'.stopped
               PROVE  /\ sw'.observed = Primary(reg)' /\ WritesAreFollowed'
                      /\ SwitchesAreFollowed' /\ RestIsFollowed'
  BY <1>2 DEF Followed
<1>4. /\ sw.observed = Primary(reg) /\ WritesAreFollowed /\ SwitchesAreFollowed
      /\ Primary(reg)' = Primary(reg) /\ restore' = restore
  BY <1>1, <1>3 DEF FInv, Followed, SwitchSucceeds, Primary, Endpoint
<1>5. SwitchesAreFollowed'
  BY <1>1 DEF SwitchesAreFollowed
<1>6. CASE sw.job = "route"
  <2>1. sw.by \in Requests /\ req' = [req EXCEPT ![sw.by].phase = "writing"]
    BY <1>6 DEF FInv, JobIsSwitch, SwitchSucceeds, RouteWrites
  <2>2. ASSUME NEW r \in Requests
        PROVE  /\ req'[r].key = req[r].key
               /\ req'[r].phase = IF r = sw.by THEN "writing" ELSE req[r].phase
    BY <2>1 DEF FInv, IInv, TypeOK, Calls
  <2>3. WritesAreFollowed'
    BY <1>1, <1>4, <1>6, <2>2 DEF WritesAreFollowed, SwitchesAreFollowed
  <2>4. WriteUnderWay'
    BY <2>1, <2>2 DEF WriteUnderWay
  <2> QED BY <1>1, <1>4, <1>5, <2>3, <2>4 DEF RestIsFollowed
<1>7. CASE sw.job # "route"
  <2>1. req' = req /\ sw.job \in {"reconcile", "rollback"}
    BY <1>7 DEF FInv, IInv, TypeOK, Switches, JobIsSwitch, SwitchSucceeds
  <2> QED BY <1>1, <1>4, <1>5, <2>1
          DEF WritesAreFollowed, SwitchesAreFollowed, RestIsFollowed
<1> QED BY <1>6, <1>7

(* A switch that fails counts as missed unless the old server is still as  *)
(* the registry has it; a correction that fails writes it back.            *)
LEMMA SwitchFailsFollowed ==
  ASSUME FInv, sw.switching, SwitchFails, UNCHANGED <<db, reg>>
  PROVE  JobIsSwitch' /\ Followed'
<1>1. /\ sw'.job = "none" /\ ~sw'.switching /\ ~sw'.busy /\ sw'.stopped = sw.stopped
      /\ sw'.server = sw.prev /\ sw'.observed = sw.observed
  BY IdleType DEF FInv, IInv, TypeOK, SwitchFails
<1>2. JobIsSwitch'
  BY <1>1 DEF JobIsSwitch
<1>3. SUFFICES ASSUME ~missed', ~sw'.stopped
               PROVE  /\ sw'.observed = Primary(reg)' /\ WritesAreFollowed'
                      /\ SwitchesAreFollowed' /\ RestIsFollowed'
  BY <1>2 DEF Followed
<1>4. /\ ~missed /\ sw.job \in {"route", "reconcile"}
      /\ sw.prev = Endpoint(reg, sw.prev.key)
      /\ sw.job = "reconcile" => sw.prev.key # sw.server.key
  BY <1>3 DEF FInv, IInv, TypeOK, Switches, JobIsSwitch, SwitchFails, CallersFail
<1>5. /\ sw.observed = Primary(reg) /\ WritesAreFollowed /\ SwitchesAreFollowed
      /\ Primary(reg)' = Primary(reg) /\ ~WriteUnderWay
  BY <1>1, <1>3, <1>4 DEF FInv, Followed, SwitchesAreFollowed, Primary, Endpoint
<1>6. SwitchesAreFollowed'
  BY <1>1 DEF SwitchesAreFollowed
<1>7. \A r \in Requests : req'[r].phase # "writing"
  <2>1. \A r \in Requests : req[r].phase # "writing"
    BY <1>5 DEF WriteUnderWay
  <2>2. CASE sw.job = "route"
    BY <2>1, <2>2 DEF FInv, IInv, TypeOK, Calls, NewCall, SwitchFails, CallersFail, RouteEnds
  <2>3. CASE sw.job # "route"
    BY <2>1, <2>3 DEF SwitchFails, CallersFail
  <2> QED BY <2>2, <2>3
<1>8. restore = {}
  BY <1>5 DEF WriteUnderWay
<1>9. CASE sw.job = "route"
  <2>1. restore' = {}
    BY <1>8, <1>9 DEF SwitchFails, CallersFail
  <2>2. sw.prev = Primary(reg) \/ db.primary # reg.primary
    BY <1>4, <1>5, <1>9 DEF SwitchesAreFollowed, Primary
  <2> QED BY <1>1, <1>5, <1>6, <1>7, <2>1, <2>2 DEF WritesAreFollowed, RestIsFollowed
<1>10. CASE sw.job = "reconcile"
  <2>1. restore' = {sw.prev.key} /\ sw.prev.key # reg.primary
    <3>1. sw.server.key = reg.primary
      BY <1>5, <1>10 DEF SwitchesAreFollowed, Primary, Endpoint
    <3> QED BY <1>4, <1>8, <1>10, <3>1 DEF SwitchFails, CallersFail
  <2>2. WriteUnderWay'
    BY <2>1 DEF WriteUnderWay
  <2> QED BY <1>1, <1>5, <1>6, <1>7, <2>1, <2>2 DEF WritesAreFollowed, RestIsFollowed
<1> QED BY <1>4, <1>9, <1>10

(* A switch starts to the primary of the registry, or by the route: while  *)
(* no write is under way.                                                  *)
LEMMA RouteCalledFollowed ==
  ASSUME FInv, NEW r \in Requests, NEW k \in Servers, RouteCalled(r, k)
  PROVE  JobIsSwitch' /\ Followed'
<1> DEFINE row  == Endpoint(reg, k)
           asked == [ phase |-> "new", key |-> k, changed |-> row # sw.server,
                     rows |-> reg, prevKey |-> sw.server.key ]
<1>1. row \in Endpoints /\ (k = reg.primary => row = Primary(reg))
  BY EndpointType DEF FInv, IInv, TypeOK, Primary
<1>2. UNCHANGED <<db, reg, restore>> /\ ~sw.stopped /\ missed' = (missed \/ WriteUnderWay)
  BY DEF RouteCalled
<1>3. Primary(reg)' = Primary(reg)
  BY <1>2 DEF Primary, Endpoint
<1>4. CASE sw.busy
  <2>1. sw' = sw /\ RouteEnds(r, "busy")
    BY <1>4 DEF RouteCalled
  <2>2. /\ req'[r].phase = "busy"
        /\ \A q \in Requests \ {r} : req'[q] = req[q]
    BY <2>1 DEF FInv, IInv, TypeOK, RouteEnds, NewCall
  <2>3. sw.job # "none" /\ JobIsSwitch'
    <3>1. req[r].phase = "new"
      BY DEF RouteCalled
    <3> QED BY <1>4, <2>1, <2>2, <3>1 DEF FInv, JobIsSwitch
  <2>4. SUFFICES ASSUME ~missed, ~WriteUnderWay PROVE Followed'
    BY <1>2, <2>3 DEF Followed
  <2>5. ~WriteUnderWay'
    BY <1>2, <2>2, <2>4 DEF WriteUnderWay
  <2>6. sw.job = "route" => req'[sw.by] = req[sw.by]
    BY <2>2 DEF FInv, JobIsSwitch, RouteCalled
  <2> QED BY <1>2, <1>3, <2>1, <2>2, <2>3, <2>4, <2>5, <2>6
          DEF FInv, Followed, WritesAreFollowed, SwitchesAreFollowed, RestIsFollowed
<1>5. CASE ~sw.busy /\ row = sw.server
  <2>1. sw' = sw /\ sw.job = "none" /\ JobIsSwitch'
    BY <1>5 DEF FInv, JobIsSwitch, RouteCalled
  <2>2. SUFFICES ASSUME ~missed, ~WriteUnderWay PROVE Followed'
    BY <1>2, <2>1 DEF Followed
  <2>3. CASE reg.primary = k
    <3>1. RouteEnds(r, "ok")
      BY <1>5, <2>3 DEF RouteCalled
    <3>2. \A q \in Requests : req'[q].phase # "writing"
      BY <2>2, <3>1 DEF FInv, IInv, TypeOK, RouteEnds, NewCall, WriteUnderWay
    <3>3. ~WriteUnderWay'
      BY <1>2, <2>2, <3>2 DEF WriteUnderWay
    <3> QED BY <1>2, <1>3, <2>1, <2>2, <3>2, <3>3
            DEF FInv, Followed, WritesAreFollowed, SwitchesAreFollowed, RestIsFollowed
  <2>4. CASE reg.primary # k
    <3>1. req' = [req EXCEPT ![r] = [asked EXCEPT !.phase = "writing"]]
      BY <1>5, <2>4 DEF RouteCalled
    <3>2. /\ req'[r].phase = "writing" /\ req'[r].key = k
          /\ \A q \in Requests \ {r} : req'[q].phase # "writing"
      BY <2>2, <3>1 DEF FInv, IInv, TypeOK, WriteUnderWay
    <3>3. WriteUnderWay'
      BY <3>2 DEF WriteUnderWay
    <3> QED BY <1>2, <1>3, <2>1, <2>2, <2>4, <3>2, <3>3
            DEF FInv, Followed, WritesAreFollowed, SwitchesAreFollowed, RestIsFollowed
  <2> QED BY <2>3, <2>4
<1>6. CASE ~sw.busy /\ row # sw.server
  <2>1. /\ sw' = SwitchTo(sw, row, "route", r)
        /\ req' = [req EXCEPT ![r] = [asked EXCEPT !.phase = "switching"]]
    BY <1>6 DEF RouteCalled
  <2>2. /\ sw'.job = "route" /\ sw'.by = r /\ sw'.switching /\ sw'.busy
        /\ sw'.server = row /\ sw'.prev = sw.server /\ sw'.observed = sw.observed
    BY <1>1, <2>1, SwitchToType DEF FInv, IInv, TypeOK
  <2>3. /\ req'[r].phase = "switching" /\ req'[r].key = k
        /\ \A q \in Requests \ {r} : req'[q] = req[q]
    BY <2>1 DEF FInv, IInv, TypeOK
  <2>4. JobIsSwitch' /\ sw.job = "none"
    BY <1>6, <2>2, <2>3 DEF FInv, JobIsSwitch
  <2>5. SUFFICES ASSUME ~missed, ~WriteUnderWay PROVE Followed'
    BY <1>2, <2>4 DEF Followed
  <2>6. ~WriteUnderWay'
    BY <1>2, <2>3, <2>5 DEF WriteUnderWay
  <2>7. sw.server.key = reg.primary \/ db.primary # reg.primary
    BY <1>2, <2>4, <2>5 DEF FInv, Followed, RestIsFollowed, Primary, Endpoint
  <2>8. WritesAreFollowed'
    BY <2>6 DEF WriteUnderWay, WritesAreFollowed
  <2>9. SwitchesAreFollowed'
    BY <1>1, <1>2, <1>3, <2>2, <2>3, <2>6, <2>7 DEF SwitchesAreFollowed
  <2> QED BY <1>2, <1>3, <2>2, <2>4, <2>5, <2>8, <2>9 DEF FInv, Followed, RestIsFollowed
<1> QED BY <1>4, <1>5, <1>6

(* The write of the route is recorded ... *)
LEMMA RouteRecordedFollowed ==
  ASSUME FInv, NEW r \in Requests, RouteRecorded(r)
  PROVE  JobIsSwitch' /\ Followed'
<1>1. /\ UNCHANGED <<sw, reg, restore, missed>> /\ req[r].phase = "writing"
      /\ db'.primary = req[r].key
      /\ req'[r].phase = "ok"
      /\ \A q \in Requests \ {r} : req'[q] = req[q]
  BY DEF FInv, IInv, TypeOK, Rows, RouteRecorded, RouteEnds, NewCall
<1>2. JobIsSwitch'
  BY <1>1 DEF FInv, JobIsSwitch
<1>3. WriteUnderWay
  BY <1>1 DEF WriteUnderWay
<1>4. Primary(reg)' = Primary(reg)
  BY <1>1 DEF Primary, Endpoint
<1> QED BY <1>1, <1>2, <1>3, <1>4
        DEF FInv, Followed, WritesAreFollowed, SwitchesAreFollowed, RestIsFollowed

(* ... or is not, and the connection goes back.                            *)
LEMMA RouteNotRecordedFollowed ==
  ASSUME FInv, NEW r \in Requests, RouteNotRecorded(r)
  PROVE  JobIsSwitch' /\ Followed'
<1> DEFINE back == Endpoint(req[r].rows, req[r].prevKey)
<1>1. /\ UNCHANGED <<reg, restore>> /\ req[r].phase = "writing"
      /\ req'[r].phase = "unrecorded"
      /\ \A q \in Requests \ {r} : req'[q] = req[q]
  BY DEF FInv, IInv, TypeOK, RouteNotRecorded, RouteEnds, NewCall
<1>2. back \in Endpoints
  BY EndpointType DEF FInv, IInv, TypeOK, Calls
<1>3. Primary(reg)' = Primary(reg)
  BY <1>1 DEF Primary, Endpoint
<1>4. missed' = (missed \/ ~req[r].changed \/ sw.busy \/ back # Primary(reg))
  BY DEF RouteNotRecorded
<1>5. CASE UNCHANGED sw
  <2>1. JobIsSwitch'
    BY <1>1, <1>5 DEF FInv, JobIsSwitch
  <2>2. SUFFICES ASSUME ~missed', ~sw.stopped PROVE Followed'
    BY <1>5, <2>1 DEF Followed
  <2>3. ~missed /\ ~sw.busy /\ sw.server = Primary(reg) /\ sw.job = "none"
    BY <1>4, <1>5, <2>2 DEF FInv, IInv, TypeOK, Switches, JobIsSwitch, RouteNotRecorded, SwitchTo
  <2> QED BY <1>1, <1>3, <1>5, <2>2, <2>3
          DEF FInv, Followed, WritesAreFollowed, SwitchesAreFollowed, RestIsFollowed
<1>6. CASE sw' = SwitchTo(sw, back, "rollback", r)
  <2>1. /\ sw'.job = "rollback" /\ sw'.switching /\ sw'.busy /\ sw'.stopped = sw.stopped
        /\ sw'.server = back /\ sw'.observed = sw.observed
    <3> HIDE DEF back
    <3> QED BY <1>2, <1>6, SwitchToType DEF FInv, IInv, TypeOK
  <2>2. JobIsSwitch'
    BY <2>1 DEF JobIsSwitch
  <2>3. SUFFICES ASSUME ~missed', ~sw.stopped PROVE Followed'
    BY <2>1, <2>2 DEF Followed
  <2>4. ~missed /\ back = Primary(reg)
    BY <1>4, <2>3
  <2> HIDE DEF back
  <2> QED BY <1>1, <1>3, <2>1, <2>3, <2>4
          DEF FInv, Followed, WritesAreFollowed, SwitchesAreFollowed, RestIsFollowed
<1> QED BY <1>5, <1>6 DEF RouteNotRecorded

(* The registry's rows are applied: the value is the one looked at last,   *)
(* or the same as before.                                                  *)
LEMMA ApplyRowsFollowed ==
  ASSUME FInv, ApplyRows
  PROVE  JobIsSwitch' /\ Followed'
<1> DEFINE target == Primary(read)
           asked  == Concerns(read) /\ target # sw.observed
<1>1. /\ read \in Rows /\ reg' = read /\ UNCHANGED <<db, req>>
      /\ ~sw.stopped => restore' = restore /\ WriteUnderWay' = WriteUnderWay
  BY DEF FInv, IInv, TypeOK, ApplyRows, WriteUnderWay
<1>2. target \in Endpoints /\ Primary(reg)' = target
  <2>1. target \in Endpoints
    BY <1>1, EndpointType DEF Rows
  <2> QED BY <1>1, <2>1 DEF Primary, Endpoint
<1>3. CASE ~asked \/ sw.busy
  <2>1. sw' = sw /\ JobIsSwitch'
    BY <1>1, <1>3 DEF FInv, JobIsSwitch, ApplyRows
  <2>2. SUFFICES ASSUME ~missed', ~sw.stopped PROVE Followed'
    BY <2>1 DEF Followed
  <2>3. ~asked
    BY <1>3, <2>2 DEF ApplyRows
  <2>4. ~missed /\ target \in {Primary(reg), sw.observed}
    BY <2>2, <2>3 DEF ApplyRows
  <2>5. target = Primary(reg)
    BY <2>2, <2>4 DEF FInv, Followed
  <2>6. reg'.primary = reg.primary
    BY <1>1, <2>5 DEF Primary, Endpoint
  <2> HIDE DEF target, asked
  <2> QED BY <1>1, <1>2, <2>1, <2>2, <2>4, <2>5, <2>6
          DEF FInv, Followed, WritesAreFollowed, SwitchesAreFollowed, RestIsFollowed
<1>4. CASE asked /\ ~sw.busy
  <2>1. (missed' <=> WriteUnderWay) /\ sw.job = "none"
    <3>1. missed' = (IF asked THEN sw.busy \/ WriteUnderWay
                     ELSE missed \/ target \notin {Primary(reg), sw.observed})
      BY DEF ApplyRows
    <3> HIDE DEF asked, target
    <3>2. missed' <=> WriteUnderWay
      BY <1>4, <3>1
    <3> QED BY <1>4, <3>2 DEF FInv, JobIsSwitch
  <2>2. /\ Observe(sw, target) \in Switches
        /\ Observe(sw, target).observed = target
        /\ Observe(sw, target).server = sw.server
        /\ Observe(sw, target).job = sw.job
        /\ Observe(sw, target).switching = sw.switching
        /\ Observe(sw, target).busy = sw.busy
        /\ Observe(sw, target).stopped = sw.stopped
    BY <1>2 DEF FInv, IInv, TypeOK, Observe, Switches
  <2>3. CASE /\ target = sw.server \/ sw.stopped
             /\ sw' = Observe(sw, target)
    <3>1. JobIsSwitch'
      BY <2>1, <2>2, <2>3 DEF FInv, JobIsSwitch
    <3>2. SUFFICES ASSUME ~WriteUnderWay, ~sw.stopped PROVE Followed'
      BY <2>1, <2>2, <2>3, <3>1 DEF Followed
    <3>3. WritesAreFollowed'
      BY <1>1, <3>2 DEF WriteUnderWay, WritesAreFollowed
    <3> HIDE DEF target, asked
    <3> QED BY <1>1, <1>2, <2>1, <2>2, <2>3, <3>1, <3>2, <3>3
            DEF Followed, SwitchesAreFollowed, RestIsFollowed
  <2>4. CASE ~sw.stopped /\ sw' = SwitchTo(Observe(sw, target), target, "reconcile", NoRequest)
    <3>1. /\ sw'.job = "reconcile" /\ sw'.switching /\ sw'.busy
          /\ sw'.server = target /\ sw'.observed = target
      <4> HIDE DEF target
      <4> QED BY <1>2, <2>2, <2>4, SwitchToType
    <3>2. JobIsSwitch'
      BY <3>1 DEF JobIsSwitch
    <3>3. SUFFICES ASSUME ~WriteUnderWay PROVE Followed'
      BY <2>1, <3>2 DEF Followed
    <3>4. WritesAreFollowed'
      BY <1>1, <2>4, <3>3 DEF WriteUnderWay, WritesAreFollowed
    <3> HIDE DEF target, asked
    <3> QED BY <1>1, <1>2, <2>4, <3>1, <3>2, <3>3, <3>4
            DEF Followed, SwitchesAreFollowed, RestIsFollowed
  <2> QED BY <1>4, <2>3, <2>4 DEF ApplyRows
<1> QED BY <1>3, <1>4

LEMMA RestoredFollowed ==
  ASSUME FInv, NEW k \in Servers, Restored(k)
  PROVE  JobIsSwitch' /\ Followed'
<1>1. /\ UNCHANGED <<sw, reg, req>> /\ k \in restore /\ restore' = restore \ {k}
      /\ missed' \/ (missed' = missed /\ db'.primary = k)
  BY DEF FInv, IInv, TypeOK, Rows, Restored
<1>2. JobIsSwitch'
  BY <1>1 DEF FInv, JobIsSwitch
<1>3. Primary(reg)' = Primary(reg)
  BY <1>1 DEF Primary, Endpoint
<1>4. WriteUnderWay
  BY <1>1 DEF WriteUnderWay
<1> QED BY <1>1, <1>2, <1>3, <1>4
        DEF FInv, Followed, WritesAreFollowed, SwitchesAreFollowed, RestIsFollowed

(* The rows are edited at rest, when the connection is where they say.     *)
LEMMA EditFollowed ==
  ASSUME FInv, Edit
  PROVE  JobIsSwitch' /\ Followed'
<1>1. /\ UNCHANGED <<sw, reg, req, restore, missed>>
      /\ sw.job = "none" /\ ~WriteUnderWay /\ reg = db
  BY DEF Edit, AtRest
<1>2. JobIsSwitch'
  BY <1>1 DEF FInv, JobIsSwitch
<1>3. Primary(reg)' = Primary(reg)
  BY <1>1 DEF Primary, Endpoint
<1> QED BY <1>1, <1>2, <1>3
        DEF FInv, Followed, WritesAreFollowed, SwitchesAreFollowed, RestIsFollowed, WriteUnderWay

LEMMA StopFollowed == ASSUME FInv, Stop PROVE JobIsSwitch' /\ Followed'
BY DEF FInv, IInv, TypeOK, Switches, JobIsSwitch, Followed, Idle, Stop

LEMMA InitFInv == Init => FInv
<1> SUFFICES ASSUME Init PROVE FInv
  OBVIOUS
<1>1. /\ sw.job = "none" /\ ~sw.switching /\ ~sw.busy /\ reg = FirstRows
      /\ sw.server = Primary(FirstRows) /\ sw.observed = Primary(FirstRows)
      /\ restore = {}
  BY DEF Init
<1>2. \A r \in Requests : req[r].phase = "new"
  BY DEF Init, NewCall
<1>3. JobIsSwitch
  BY <1>1 DEF JobIsSwitch
<1>4. Followed
  BY <1>1, <1>2 DEF Followed, WritesAreFollowed, SwitchesAreFollowed, RestIsFollowed
<1> QED BY <1>3, <1>4, InitIInv DEF FInv

LEMMA StepFInv == FInv /\ [Next]_vars => FInv'
<1> SUFFICES ASSUME FInv, [Next]_vars PROVE JobIsSwitch' /\ Followed'
  BY StepIInv DEF FInv
<1>1. CASE ReadyTimeout
  BY <1>1, SwitchFailsFollowed DEF ReadyTimeout
<1>2. CASE LoginAccepted
  <2>1. CASE sw.switching
    BY <1>2, <2>1, SwitchSucceedsFollowed DEF LoginAccepted
  <2>2. CASE ~sw.switching
    BY <1>2, <2>2, FollowedStays DEF LoginAccepted
  <2> QED BY <2>1, <2>2
<1>3. CASE LoginRefused
  <2>1. CASE sw.switching
    BY <1>3, <2>1, SwitchFailsFollowed DEF LoginRefused
  <2>2. CASE ~sw.switching
    BY <1>3, <2>2, FollowedStays DEF LoginRefused, FeedMoves
  <2> QED BY <2>1, <2>2
<1>4. CASE TransportUp \/ RetryFires \/ LineDrops \/ LoginTimeout \/ ReadRows
  BY <1>4, FollowedStays DEF TransportUp, RetryFires, LineDrops, LoginTimeout, ReadRows, FeedMoves
<1>5. CASE \E r \in Requests :
             RouteRecorded(r) \/ RouteNotRecorded(r) \/ \E k \in Servers : RouteCalled(r, k)
  BY <1>5, RouteRecordedFollowed, RouteNotRecordedFollowed, RouteCalledFollowed
<1>6. CASE ApplyRows \/ (\E k \in Servers : Restored(k)) \/ Edit \/ Stop
  BY <1>6, ApplyRowsFollowed, RestoredFollowed, EditFollowed, StopFollowed
<1>7. CASE UNCHANGED vars
  BY <1>7, FollowedStays DEF vars
<1> QED BY <1>1, <1>2, <1>3, <1>4, <1>5, <1>6, <1>7 DEF Next

(* The quote connection stays with the database: at rest it is at the      *)
(* server the rows name, for any number of Admins, edits, stale reads and  *)
(* refusals, unless the code dropped or gave up a correction (the cases of *)
(* `missed`; quote-switch.ts reconcileWithRegistry, switchTo).             *)
THEOREM ConnectionFollowsTheRows == Spec => []ApartOnlyIfMissed
<1>1. FInv => ApartOnlyIfMissed
  BY DEF FInv, Followed, RestIsFollowed, ApartOnlyIfMissed, AtRest
<1> QED BY <1>1, InitFInv, StepFInv, PTL DEF Spec

-----------------------------------------------------------------------------
(* TailReload, for every set of callers and every bound.                   *)

(* A forced reload that hangs on the running read was asked for before     *)
(* that read was sent, so what the read samples is at least what the       *)
(* caller wants; no caller wants a version that is not committed yet.      *)
ReadCovers ==
  \A c \in Callers :
    /\ call[c].want <= version
    /\ call[c].slot = "run" /\ running = "read" => sampled >= call[c].want

ReloadInv == ReloadTypeOK /\ NobodyOrphaned /\ ReadCovers /\ FreshReload

LEMMA ReloadInitInv == ASSUME ReloadInit PROVE ReloadInv
<1>1. 0 \in Versions
  BY MaxVersionAssumption DEF Versions
<1>2. ReloadTypeOK
  BY <1>1 DEF ReloadInit, ReloadTypeOK, CallRecord
<1>3. ASSUME NEW c \in Callers
      PROVE  call[c].slot = "new" /\ call[c].want = 0
  BY DEF ReloadInit
<1>4. ReadCovers
  <2>1. running = "idle" /\ version = 0
    BY DEF ReloadInit
  <2>2. 0 <= 0
    OBVIOUS
  <2> QED BY <1>3, <2>1, <2>2, Zenon DEF ReadCovers
<1>5. NobodyOrphaned /\ FreshReload
  BY <1>3 DEF NobodyOrphaned, FreshReload
<1> QED BY <1>2, <1>4, <1>5 DEF ReloadInv

(* now(): a fresh read starts after the wanted commit, or the caller joins *)
(* the tail slot it has just ensured.                                      *)
LEMMA ReloadNowInv ==
  ASSUME ReloadInv, NEW c \in Callers, Now(c)
  PROVE  ReloadInv'
<1>1. ReloadTypeOK'
  <2>1. 0 \in Versions /\ StartSlot \in {"run", "rejected"}
    BY MaxVersionAssumption DEF Versions, StartSlot
  <2>2. /\ running' \in {"idle", "sent", "read"}
        /\ sampled' \in Versions /\ tail' \in BOOLEAN
    BY <2>1, Zenon DEF ReloadInv, ReloadTypeOK, Now, Start
  <2>3. call' \in [Callers -> CallRecord]
    BY <2>1 DEF ReloadInv, ReloadTypeOK, CallRecord, Now
  <2> QED BY <2>2, <2>3 DEF ReloadInv, ReloadTypeOK, Now
<1>2. NobodyOrphaned'
  BY DEF ReloadInv, ReloadTypeOK, CallRecord, NobodyOrphaned, Now, Start, StartSlot
<1>3. ReadCovers'
  BY DEF ReloadInv, ReloadTypeOK, CallRecord, Versions, ReadCovers, Now, Start, StartSlot
<1>4. FreshReload'
  BY DEF ReloadInv, ReloadTypeOK, CallRecord, Versions, FreshReload, Now, Start, StartSlot
<1> QED BY <1>1, <1>2, <1>3, <1>4 DEF ReloadInv

(* shared(): wants nothing, so it may join any read.                       *)
LEMMA ReloadSharedInv ==
  ASSUME ReloadInv, NEW c \in Callers, Shared(c)
  PROVE  ReloadInv'
<1>1. ReloadTypeOK'
  <2>1. 0 \in Versions /\ StartSlot \in {"run", "rejected"}
    BY MaxVersionAssumption DEF Versions, StartSlot
  <2>2. running' \in {"idle", "sent", "read"} /\ sampled' \in Versions
    BY <2>1, Zenon DEF ReloadInv, ReloadTypeOK, Shared, Start
  <2>3. call' \in [Callers -> CallRecord]
    BY <2>1 DEF ReloadInv, ReloadTypeOK, CallRecord, Shared
  <2> QED BY <2>2, <2>3 DEF ReloadInv, ReloadTypeOK, Shared
<1>2. NobodyOrphaned'
  BY DEF ReloadInv, ReloadTypeOK, CallRecord, NobodyOrphaned, Shared, Start, StartSlot
<1>3. ReadCovers'
  BY DEF ReloadInv, ReloadTypeOK, CallRecord, Versions, ReadCovers, Shared, Start, StartSlot
<1>4. FreshReload'
  BY DEF ReloadInv, ReloadTypeOK, CallRecord, Versions, FreshReload, Shared, Start,
         StartSlot
<1> QED BY <1>1, <1>2, <1>3, <1>4 DEF ReloadInv

(* The end of a read: its callers get what it sampled; the tail's callers  *)
(* move to a read that starts now, after every commit they can have seen.  *)
LEMMA ReloadSettleInv ==
  ASSUME ReloadInv, NEW outcome \in {"resolved", "rejected"},
         outcome = "resolved" => running = "read", Settle(outcome)
  PROVE  ReloadInv'
<1>1. ReloadTypeOK'
  <2>1. ASSUME NEW c \in Callers PROVE call'[c] \in CallRecord
    <3>1. call[c] \in CallRecord /\ sampled \in Versions /\ 0 \in Versions
      BY MaxVersionAssumption DEF ReloadInv, ReloadTypeOK, Versions
    <3> QED BY <3>1, ZenonT(60) DEF CallRecord, Settle
  <2>2. call' \in [Callers -> CallRecord]
    BY <2>1 DEF Settle
  <2>3. sampled' \in Versions /\ running' \in {"idle", "sent", "read"}
    <3>1. sampled' = 0 /\ running' \in {"idle", "sent"}
      BY Zenon DEF Settle, Start
    <3> QED BY <3>1, MaxVersionAssumption DEF Versions
  <2> QED BY <2>2, <2>3, Zenon DEF ReloadInv, ReloadTypeOK, Settle
<1>2. NobodyOrphaned'
  BY ZenonT(60) DEF ReloadInv, ReloadTypeOK, CallRecord, NobodyOrphaned, Settle, Start
<1>3. ReadCovers'
  BY Zenon DEF ReloadInv, ReloadTypeOK, CallRecord, Versions, ReadCovers, Settle, Start
<1>4. FreshReload'
  BY DEF ReloadInv, ReloadTypeOK, CallRecord, Versions, ReadCovers, FreshReload, Settle,
         Start
<1> QED BY <1>1, <1>2, <1>3, <1>4, Zenon DEF ReloadInv

LEMMA ReloadStepInv ==
  ASSUME ReloadInv, [ReloadNext]_reloadVars
  PROVE  ReloadInv'
<1>1. CASE \E c \in Callers : Now(c) \/ Shared(c)
  BY <1>1, ReloadNowInv, ReloadSharedInv
<1>2. CASE Close
  BY <1>2 DEF ReloadInv, ReloadTypeOK, NobodyOrphaned, ReadCovers, FreshReload, Close
<1>3. CASE LoadSucceeds
  BY <1>3, ReloadSettleInv DEF LoadSucceeds
<1>4. CASE LoadFails
  BY <1>4, ReloadSettleInv DEF LoadFails
<1>5. CASE Commit
  BY <1>5, MaxVersionAssumption DEF ReloadInv, ReloadTypeOK, CallRecord, Versions,
         NobodyOrphaned, ReadCovers, FreshReload, Commit
<1>6. CASE Sample
  BY <1>6 DEF ReloadInv, ReloadTypeOK, CallRecord, Versions, NobodyOrphaned, ReadCovers,
         FreshReload, Sample
<1>7. CASE UNCHANGED reloadVars
  BY <1>7 DEF ReloadInv, ReloadTypeOK, NobodyOrphaned, ReadCovers, FreshReload, reloadVars
<1> QED BY <1>1, <1>2, <1>3, <1>4, <1>5, <1>6, <1>7 DEF ReloadNext, LoadEnds

(* The inductive invariant holds in every behaviour.                       *)
LEMMA ReloadInvariance == ReloadSpec => []ReloadInv
<1>1. ReloadInit => ReloadInv
  BY ReloadInitInv
<1>2. ReloadInv /\ [ReloadNext]_reloadVars => ReloadInv'
  BY ReloadStepInv
<1> QED BY <1>1, <1>2, PTL DEF ReloadSpec

(* Type correctness of the two slots and of every caller's promise         *)
(* (tail-reload.ts #running, #tail, #closed).                              *)
THEOREM ReloadTypeCorrect == ReloadSpec => []ReloadTypeOK
<1>1. ReloadInv => ReloadTypeOK
  BY DEF ReloadInv
<1> QED BY <1>1, ReloadInvariance, PTL

(* now() after a commit returns a read that started after that commit, for *)
(* any number of overlapping now() and shared() calls.                     *)
THEOREM ReloadIsFresh == ReloadSpec => []FreshReload
<1>1. ReloadInv => FreshReload
  BY DEF ReloadInv
<1> QED BY <1>1, ReloadInvariance, PTL

(* No promise hangs on a slot that is empty.                               *)
THEOREM NobodyIsOrphaned == ReloadSpec => []NobodyOrphaned
<1>1. ReloadInv => NobodyOrphaned
  BY DEF ReloadInv
<1> QED BY <1>1, ReloadInvariance, PTL
=============================================================================
