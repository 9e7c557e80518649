------------------------------ MODULE QuoteSwitch ------------------------------
(***************************************************************************)
(* relay/src/quote/quote-switch.ts and quote/feed.ts: the one connection   *)
(* for quotes and its move from one gateway to another, with the two that  *)
(* ask for a move: the route of relay/src/admin/admin-api.ts (an Admin     *)
(* picks a server) and the registry of relay/src/registry/registry.ts,     *)
(* which reads the database again and again (an edit of the rows).         *)
(*                                                                         *)
(* A feed that was replaced is stopped: its timers and listeners are off,  *)
(* so there is one feed.  switchTo() awaits the outcome, and the database  *)
(* is awaited; these awaits are where actions interleave.                  *)
(***************************************************************************)
EXTENDS Integers, FiniteSets

CONSTANTS Servers,      \* keys of the registry's rows
          Addresses,    \* host and port of a row
          Requests,     \* calls of the route; each happens once
          FirstRows,    \* the rows at the start
          MaxEdits,     \* bound on edits of the database by others
          MaxFaults,    \* bound on faults: refusals, broken lines, failed writes
          MaxRejects    \* QUOTE_REJECTED_RETRY_MAX

Endpoints == [key : Servers, address : Addresses]
Rows      == [primary : Servers, address : [Servers -> Addresses]]

NoRequest == "none"
NoRead    == [primary |-> "none"]

ASSUME FirstRowsAssumption == FirstRows \in Rows
ASSUME BoundsAssumption == MaxEdits \in Nat /\ MaxFaults \in Nat /\ MaxRejects \in Nat
ASSUME RequestsAssumption == NoRequest \notin Requests

VARIABLES
  sw,       \* the QuoteSwitch
  feed,     \* its QuoteFeed and the transport of that
  db,       \* the rows in the database
  reg,      \* the rows the registry has applied
  read,     \* the read under way: NoRead or the rows it saw
  req,      \* the calls of the route
  restore,  \* the keys reconcileWithRegistry is writing back
  missed,   \* history: a correction was dropped or failed
  budget    \* edits and faults left

vars == <<sw, feed, db, reg, read, req, restore, missed, budget>>

(* job: who awaits switchTo(); by: the request, for the route and for its  *)
(* roll-back.  observed: #observedRegistry.                                *)
Switches ==
  [ server : Endpoints, prev : Endpoints, observed : Endpoints,
    switching : BOOLEAN, busy : BOOLEAN, stopped : BOOLEAN,
    job : {"none", "route", "rollback", "reconcile"}, by : Requests \union {NoRequest} ]

(* login, retry: the timers; loop: the transport connects again and again. *)
Feeds ==
  [ state : {"connecting", "logging_in", "ready", "rejected", "role_mismatch"},
    loop : BOOLEAN, open : BOOLEAN, login : BOOLEAN, retry : BOOLEAN,
    rejects : 0..MaxFaults ]

Calls ==
  [ phase : {"new", "switching", "writing", "ok", "busy", "failed", "unrecorded"},
    key : Servers, changed : BOOLEAN, rows : Rows, prevKey : Servers ]

TypeOK ==
  /\ sw \in Switches /\ feed \in Feeds
  /\ db \in Rows /\ reg \in Rows
  /\ read \in Rows \union {NoRead}
  /\ req \in [Requests -> Calls]
  /\ restore \subseteq Servers
  /\ missed \in BOOLEAN
  /\ budget \in [edits : 0..MaxEdits, faults : 0..MaxFaults]

Endpoint(rows, k) == [key |-> k, address |-> rows.address[k]]
Primary(rows)     == Endpoint(rows, rows.primary)

(* A call before it begins, and after it: what it has read is gone. *)
NewCall == [ phase |-> "new", key |-> FirstRows.primary, changed |-> FALSE,
             rows |-> FirstRows, prevKey |-> FirstRows.primary ]

(* A QuoteFeed after start(). *)
NewFeed == [ state |-> "connecting", loop |-> TRUE, open |-> FALSE,
             login |-> FALSE, retry |-> FALSE, rejects |-> 0 ]

Init ==
  /\ sw = [ server |-> Primary(FirstRows), prev |-> Primary(FirstRows),
            observed |-> Primary(FirstRows), switching |-> FALSE, busy |-> FALSE,
            stopped |-> FALSE, job |-> "none", by |-> NoRequest ]
  /\ feed = NewFeed
  /\ db = FirstRows /\ reg = FirstRows /\ read = NoRead
  /\ req = [r \in Requests |-> NewCall]
  /\ restore = {} /\ missed = FALSE
  /\ budget = [edits |-> MaxEdits, faults |-> MaxFaults]

Fault == budget.faults > 0 /\ budget' = [budget EXCEPT !.faults = @ - 1]

-----------------------------------------------------------------------------
(* switchTo(): one at a time, nothing to do for the same endpoint; else    *)
(* the old feed is replaced and the outcome awaited.                       *)
SwitchTo(s, target, job, by) ==
  [s EXCEPT !.prev = s.server, !.server = target, !.switching = TRUE,
            !.busy = TRUE, !.job = job, !.by = by]

(* Mutant of Idle: busy stays, as without the finally. *)
IdleBusy(s) == [s EXCEPT !.switching = FALSE, !.job = "none", !.by = NoRequest]

(* ... its end: the outcome is ready, or is not and the old endpoint is    *)
(* taken again, with a new feed nobody waits for.                          *)
Idle(s) == [s EXCEPT !.switching = FALSE, !.busy = FALSE,
                     !.prev = s.server, !.job = "none", !.by = NoRequest]

(* Mutant of RollBack: only the key of the old server is kept. *)
RollBackToKey(s) == [Idle(s) EXCEPT !.server = s.prev.key, !.prev = s.prev]

RollBack(s) == [Idle(s) EXCEPT !.server = s.prev, !.prev = s.prev]

(* The awaiting callers: the route writes the database, or answers; the    *)
(* correction writes the old server back unless only the address changed.  *)
RouteWrites(r)      == req' = [req EXCEPT ![r].phase = "writing"]
RouteEnds(r, phase) == req' = [req EXCEPT ![r] = [NewCall EXCEPT !.phase = phase]]

SwitchSucceeds ==
  /\ sw' = Idle(sw)
  /\ IF sw.job = "route" THEN RouteWrites(sw.by) ELSE UNCHANGED req
  /\ UNCHANGED <<restore, missed>>

CallersFail(current) ==
  /\ IF sw.job = "route" THEN RouteEnds(sw.by, "failed") ELSE UNCHANGED req
  /\ restore' = IF sw.job = "reconcile" /\ sw.prev.key # sw.server.key
                THEN restore \union {current} ELSE restore
  /\ missed' = (missed \/ sw.job = "rollback" \/ sw.prev # Endpoint(reg, sw.prev.key)
                       \/ (sw.job = "reconcile" /\ sw.prev.key = sw.server.key))

SwitchFails ==
  /\ sw' = RollBack(sw)
  /\ feed' = NewFeed
  /\ CallersFail(sw.prev.key)

(* The 10 seconds switchTo() waits. *)
ReadyTimeout ==
  /\ sw.switching
  /\ SwitchFails
  /\ UNCHANGED <<db, reg, read, budget>>

-----------------------------------------------------------------------------
(* The feed.  While a switch is under way its outcome goes to the waiter.  *)
FeedMoves(f) ==
  /\ ~sw.stopped
  /\ feed' = f
  /\ UNCHANGED <<sw, db, reg, read, req, restore, missed>>

TransportUp ==
  /\ feed.loop /\ ~feed.open
  /\ FeedMoves([feed EXCEPT !.open = TRUE, !.state = "logging_in", !.login = TRUE])
  /\ UNCHANGED budget

(* #onLogin: accepted; #onInnerReady *)
LoginAccepted ==
  /\ feed.open /\ feed.state = "logging_in"
  /\ feed' = [feed EXCEPT !.state = "ready", !.login = FALSE, !.rejects = 0]
  /\ IF sw.switching THEN SwitchSucceeds ELSE UNCHANGED <<sw, req, restore, missed>>
  /\ UNCHANGED <<db, reg, read, budget>>

(* #halt: the loop is off before the socket is closed.  A refusal is tried *)
(* again after five minutes, some times; a gateway that does not know the  *)
(* role is not.                                                            *)
Halted(state) ==
  [feed EXCEPT !.state = state, !.login = FALSE, !.loop = FALSE, !.open = FALSE]

(* Mutant of Rejected: the retry is not set. *)
RejectedForGood == [Halted("rejected") EXCEPT !.rejects = @ + 1]

Rejected ==
  [Halted("rejected") EXCEPT !.rejects = @ + 1, !.retry = feed.rejects + 1 <= MaxRejects]

LoginRefused ==
  /\ feed.open /\ feed.state = "logging_in"
  /\ Fault
  /\ \E f \in {Rejected, Halted("role_mismatch")} :
       IF sw.switching THEN SwitchFails /\ UNCHANGED <<db, reg, read>> ELSE FeedMoves(f)

RetryFires ==
  /\ feed.state = "rejected" /\ feed.retry
  /\ FeedMoves([feed EXCEPT !.state = "connecting", !.retry = FALSE, !.loop = TRUE])
  /\ UNCHANGED budget

(* #handleDown, the stall watchdog, and the login deadline: the transport  *)
(* connects again.                                                         *)
LineDrops ==
  /\ feed.open
  /\ Fault
  /\ FeedMoves([feed EXCEPT !.open = FALSE, !.state = "connecting", !.login = FALSE])

LoginTimeout ==
  /\ feed.login /\ feed.state = "logging_in"
  /\ Fault
  /\ FeedMoves([feed EXCEPT !.open = FALSE, !.state = "connecting", !.login = FALSE])

-----------------------------------------------------------------------------
(* The route: a row of the registry is picked; a switch under way refuses  *)
(* it; nothing changes for the server that is connected, but a database    *)
(* that names another is corrected.                                        *)
WriteUnderWay == restore # {} \/ \E r \in Requests : req[r].phase = "writing"

RouteCalled(r, k) ==
  LET row  == Endpoint(reg, k)
      call == [ phase |-> "new", key |-> k, changed |-> row # sw.server,
                rows |-> reg, prevKey |-> sw.server.key ]
      At(phase) == req' = [req EXCEPT ![r] = [call EXCEPT !.phase = phase]]
  IN  /\ req[r].phase = "new" /\ ~sw.stopped
      /\ IF sw.busy THEN RouteEnds(r, "busy") /\ UNCHANGED <<sw, feed>>
         ELSE IF row = sw.server
         THEN /\ IF reg.primary = k THEN RouteEnds(r, "ok") ELSE At("writing")
              /\ UNCHANGED <<sw, feed>>
         ELSE At("switching") /\ sw' = SwitchTo(sw, row, "route", r) /\ feed' = NewFeed
      /\ missed' = (missed \/ WriteUnderWay)
      /\ UNCHANGED <<db, reg, read, restore, budget>>

(* setQuotePrimary() returns, or throws, whether it was recorded or not.   *)
RouteRecorded(r) ==
  /\ req[r].phase = "writing"
  /\ db' = [db EXCEPT !.primary = req[r].key]
  /\ RouteEnds(r, "ok")
  /\ UNCHANGED <<sw, feed, reg, read, restore, missed, budget>>

RouteNotRecorded(r) ==
  LET back == Endpoint(req[r].rows, req[r].prevKey)
  IN  /\ req[r].phase = "writing"
      /\ Fault
      /\ db' \in {db, [db EXCEPT !.primary = req[r].key]}
      /\ RouteEnds(r, "unrecorded")
      /\ IF req[r].changed /\ ~sw.busy /\ ~sw.stopped /\ back # sw.server
         THEN sw' = SwitchTo(sw, back, "rollback", r) /\ feed' = NewFeed
         ELSE UNCHANGED <<sw, feed>>
      /\ missed' = (missed \/ ~req[r].changed \/ sw.busy \/ back # Primary(reg))
      /\ UNCHANGED <<reg, read, restore>>

(* The registry: a read of the rows, and their application.  A change of   *)
(* roles, or of the address of the connected server, asks for a correction *)
(* (reconcileWithRegistry); it is dropped while a switch is under way.     *)
ReadRows ==
  /\ read = NoRead /\ db # reg /\ ~sw.stopped
  /\ read' = db
  /\ UNCHANGED <<sw, feed, db, reg, req, restore, missed, budget>>

Concerns(rows) ==
  \/ rows.primary # reg.primary
  \/ rows.address[sw.server.key] # reg.address[sw.server.key]

(* Mutant of Observe: the value is not remembered. *)
ObserveNothing(s, target) == s

Observe(s, target) == [s EXCEPT !.observed = target]

(* A stopped switch refuses, and the database is put back as after any     *)
(* correction that failed.                                                 *)
ApplyRows ==
  LET target == Primary(read)
      asked  == Concerns(read) /\ target # sw.observed
  IN  /\ read # NoRead
      /\ reg' = read /\ read' = NoRead
      /\ IF asked /\ ~sw.busy
         THEN IF target = sw.server \/ sw.stopped
              THEN sw' = Observe(sw, target) /\ UNCHANGED feed
              ELSE sw' = SwitchTo(Observe(sw, target), target, "reconcile", NoRequest)
                   /\ feed' = NewFeed
         ELSE UNCHANGED <<sw, feed>>
      /\ missed' = (IF asked THEN sw.busy \/ WriteUnderWay
                    ELSE missed \/ target \notin {Primary(reg), sw.observed})
      /\ restore' = IF asked /\ ~sw.busy /\ sw.stopped /\ target.key # sw.server.key
                    THEN restore \union {sw.server.key} ELSE restore
      /\ UNCHANGED <<db, req, budget>>

(* restore(): the old server is written back; an error is only logged.     *)
Restored(k) ==
  /\ k \in restore
  /\ restore' = restore \ {k}
  /\ \/ db' = [db EXCEPT !.primary = k] /\ UNCHANGED <<missed, budget>>
     \/ Fault /\ db' \in {db, [db EXCEPT !.primary = k]} /\ missed' = TRUE
  /\ UNCHANGED <<sw, feed, reg, read, req>>

(* An edit by others, at rest: by hand, or of a row's address.             *)
AtRest == sw.job = "none" /\ ~WriteUnderWay /\ read = NoRead /\ reg = db

Edit ==
  /\ budget.edits > 0 /\ budget' = [budget EXCEPT !.edits = @ - 1]
  /\ AtRest
  /\ \/ \E k \in Servers \ {db.primary} : db' = [db EXCEPT !.primary = k]
     \/ \E k \in Servers : \E a \in Addresses \ {db.address[k]} :
          db' = [db EXCEPT !.address[k] = a]
  /\ UNCHANGED <<sw, feed, reg, read, req, restore, missed>>

(* stop(): the waiter is told, the feed and its timers end. *)
Stop ==
  /\ ~sw.stopped
  /\ sw' = [Idle(sw) EXCEPT !.stopped = TRUE]
  /\ feed' = [feed EXCEPT !.login = FALSE, !.retry = FALSE, !.loop = FALSE, !.open = FALSE]
  /\ CallersFail(sw.server.key)
  /\ UNCHANGED <<db, reg, read, budget>>

Next ==
  \/ ReadyTimeout \/ TransportUp \/ LoginAccepted \/ LoginRefused
  \/ RetryFires \/ LineDrops \/ LoginTimeout
  \/ \E r \in Requests :
       RouteRecorded(r) \/ RouteNotRecorded(r) \/ \E k \in Servers : RouteCalled(r, k)
  \/ ReadRows \/ ApplyRows \/ \E k \in Servers : Restored(k)
  \/ Edit \/ Stop

(* Timers run, the database answers, the registry reads.  Nothing is       *)
(* assumed of the gateways.                                                *)
Fairness ==
  /\ WF_vars(ReadyTimeout) /\ WF_vars(ReadRows) /\ WF_vars(ApplyRows)
  /\ \A r \in Requests : WF_vars(RouteRecorded(r))
  /\ \A k \in Servers : WF_vars(Restored(k))

Spec == Init /\ [][Next]_vars /\ Fairness

-----------------------------------------------------------------------------
(* The connection is never left alone: it is usable, or its transport      *)
(* connects, or a login deadline or a retry is set; it rests only after a  *)
(* refusal that is final.  Only one that was stopped has nothing set.      *)
FeedIsDriven ==
  /\ sw.stopped => ~feed.loop /\ ~feed.open /\ ~feed.login /\ ~feed.retry
  /\ ~sw.stopped =>
       \/ feed.state = "connecting" /\ feed.loop /\ ~feed.open /\ ~feed.login
       \/ feed.state = "logging_in" /\ feed.loop /\ feed.open /\ feed.login
       \/ feed.state = "ready" /\ feed.loop /\ feed.open /\ ~feed.login
       \/ feed.state = "rejected" /\ ~feed.loop /\ (feed.retry \/ feed.rejects > MaxRejects)
       \/ feed.state = "role_mismatch" /\ ~feed.loop /\ ~feed.retry
  /\ sw.switching => feed.state \in {"connecting", "logging_in"} /\ sw.busy

(* At rest the connection is at the server the database names, unless a    *)
(* correction was dropped because of a switch under way, or failed, or two *)
(* changes overlapped (a write of one under way when the other began), or  *)
(* a roll-back went to what the rows had left meanwhile, or the registry   *)
(* got another address of the primary while the connection was elsewhere,  *)
(* which is not looked at.  One Admin after the other, the reads of the    *)
(* registry, stale ones too, and refusals of the gateways are not enough   *)
(* to part them.                                                           *)
ApartOnlyIfMissed ==
  AtRest /\ ~sw.stopped /\ ~missed => sw.server = Primary(db)

(* Every call of the route is answered and every switch ends, though the   *)
(* gateways never answer.                                                  *)
SwitchesEnd ==
  /\ sw.busy ~> ~sw.busy
  /\ \A r \in Requests : (req[r].phase \in {"switching", "writing"}) ~>
       (req[r].phase \in {"ok", "busy", "failed", "unrecorded"})
=============================================================================
