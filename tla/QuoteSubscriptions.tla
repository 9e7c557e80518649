-------------------------- MODULE QuoteSubscriptions --------------------------
(***************************************************************************)
(* relay/src/hub/subscription-hub.ts, the quote side: reference counts of  *)
(* the keys the tabs of all users watch, over one connection to the        *)
(* gateway; and the handlers of relay/src/ws/fanout.ts that drive it.      *)
(*                                                                         *)
(* `hub` is the hub's state with its pacer; its methods are operators that *)
(* return the next record, because a handler of the fan-out calls several  *)
(* of them in one turn.  `tab` is what each connection of a browser holds. *)
(***************************************************************************)
EXTENDS SubscribePacer, Functions, FiniteSetsExt

CONSTANTS Tabs,          \* connections of browsers
          Owner,         \* Tabs -> Users
          Wishes,        \* Tabs -> what a tab may ask for, <<key, level>>
          GlobalLimit,   \* QUOTE_SUB_LIMIT
          UserLimit      \* USER_SUB_LIMIT

ASSUME FiniteAssumption == IsFiniteSet(Tabs) /\ IsFiniteSet(Keys)
ASSUME OwnerAssumption == Owner \in [Tabs -> Users]
ASSUME WishesAssumption == Wishes \in [Tabs -> SUBSET (Keys \X Levels)]
ASSUME LimitAssumption == GlobalLimit \in Nat \ {0} /\ UserLimit \in Nat \ {0}

VARIABLES tab,     \* Tabs -> the keys a tab holds, each with its level
          hub,     \* the hub: refs, held, active, linger, pacer
          missed   \* history: <<u, k>> where u left k before its session was
                   \* ready, and is remembered as one who knows its progress

vars == <<tab, hub, missed>>

Refs == [full : Nat, price : Nat]

PartialFunctions(S, T) == UNION {[D -> T] : D \in SUBSET S}

(* Checked part by part: the set of all records would be infinite. *)
IsHub(h) ==
  /\ DOMAIN h = {"refs", "held", "active", "linger", "pacer"}
  /\ DOMAIN h.refs \subseteq Keys /\ \A k \in DOMAIN h.refs : h.refs[k] \in Refs
  /\ DOMAIN h.held = Users /\ DOMAIN h.active = Users
  /\ \A u \in Users : /\ h.active[u] \in Nat
                      /\ DOMAIN h.held[u] \subseteq Keys
                      /\ \A k \in DOMAIN h.held[u] : h.held[u][k] \in Nat
  /\ h.linger \in Seq(Entries)
  /\ h.pacer \in Pacers

TypeOK ==
  /\ tab \in [Tabs -> PartialFunctions(Keys, Levels)]
  /\ IsHub(hub)
  /\ missed \subseteq Users \X Keys

Empty == [k \in {} |-> 0]

Init ==
  /\ tab = [t \in Tabs |-> Empty]
  /\ hub = [refs |-> Empty, held |-> [u \in Users |-> Empty],
            active |-> [u \in Users |-> 0], linger |-> <<>>, pacer |-> EmptyPacer]
  /\ missed = {}

-----------------------------------------------------------------------------
(* The hub. *)

TotalRefs(r)      == r.full + r.price
EffectiveLevel(r) == IF r.full > 0 THEN "full" ELSE "price"

Lingering(h)      == KeysIn(h.linger)
LingerLevel(h, k) == (CHOOSE e \in ToSet(h.linger) : e.key = k).level
Linger(h, k, level) == [h EXCEPT !.linger = Append(@, [key |-> k, level |-> level])]
ClearLinger(h, k) == [h EXCEPT !.linger = Delete(@, k)]

Set(f, k, v) == [x \in DOMAIN f \union {k} |-> IF x = k THEN v ELSE f[x]]
Without(f, k) == Restrict(f, DOMAIN f \ {k})

HeldBy(h, u, k) == IF k \in DOMAIN h.held[u] THEN h.held[u][k] ELSE 0

(* #sendSubscribe, and the sends of the other methods: nothing goes out    *)
(* before the connection is ready; resubscribeAll will restore it.         *)
HubSend(h, k, level) ==
  IF h.pacer.ready THEN [h EXCEPT !.pacer = PacerSubscribe(@, k, level)] ELSE h

HubDemote(h, k) == IF h.pacer.ready THEN [h EXCEPT !.pacer = ControlDemote(@, k)] ELSE h

(* #nudge *)
HubNudge(h, k) ==
  IF h.pacer.ready /\ k \in DOMAIN h.refs
  THEN [h EXCEPT !.pacer = ControlNudge(@, k, EffectiveLevel(h.refs[k]))]
  ELSE h

(* The key is gone from all maps of the hub. *)
Forgotten(h, k) ==
  [ClearLinger(h, k) EXCEPT
     !.refs   = Without(@, k),
     !.held   = [u \in Users |-> Without(@[u], k)],
     !.active = [u \in Users |-> IF HeldBy(h, u, k) > 0 THEN @[u] - 1 ELSE @[u]]]

(* Mutant of ReleaseKey: the users who left the key are kept. *)
ReleaseKeepsUsers(h, k, sendUnsubscribe) ==
  LET g == [ClearLinger(h, k) EXCEPT !.refs = Without(@, k)]
  IN  IF sendUnsubscribe /\ h.pacer.ready
      THEN [g EXCEPT !.pacer = ControlUnsubscribe(@, k)] ELSE g

(* #releaseKey *)
ReleaseKey(h, k, sendUnsubscribe) ==
  LET g == Forgotten(h, k)
  IN  IF sendUnsubscribe /\ h.pacer.ready
      THEN [g EXCEPT !.pacer = ControlUnsubscribe(@, k)] ELSE g

(* subscribe(): the verdict of the two limits ... *)
UserIsFull(h, u, k) == HeldBy(h, u, k) = 0 /\ h.active[u] >= UserLimit
NoRoom(h, k) == k \notin DOMAIN h.refs /\ Cardinality(DOMAIN h.refs) >= GlobalLimit

Verdict(h, u, k) ==
  IF UserIsFull(h, u, k) THEN "limit-user"
  ELSE IF NoRoom(h, k) /\ h.linger = <<>> THEN "limit-global"
  ELSE "ok"

(* #oldestLingerKey and its release *)
MakeRoom(h, k) == IF NoRoom(h, k) THEN ReleaseKey(h, h.linger[1].key, TRUE) ELSE h

(* The level the gateway has been asked for. *)
LevelAsked(h, k) ==
  IF k \in Lingering(h) THEN LingerLevel(h, k)
  ELSE IF k \in DOMAIN h.refs /\ TotalRefs(h.refs[k]) > 0 THEN EffectiveLevel(h.refs[k])
  ELSE "none"

(* One more reference of a user to a key, in all maps of the hub. *)
AddReference(h, u, k, level) ==
  LET old == IF k \in DOMAIN h.refs THEN h.refs[k] ELSE [full |-> 0, price |-> 0]
  IN  [ClearLinger(h, k) EXCEPT
         !.held[u]   = Set(@, k, HeldBy(h, u, k) + 1),
         !.active[u] = IF HeldBy(h, u, k) = 0 THEN @ + 1 ELSE @,
         !.refs      = Set(@, k, [old EXCEPT ![level] = @ + 1])]

(* Mutant of HubSubscribe: every first reference counts as the user's own, *)
(* so that nobody is nudged.                                               *)
SubscribeNoNudge(h, u, k, level) ==
  LET room == MakeRoom(h, k)
      g    == AddReference(room, u, k, level)
      next == EffectiveLevel(g.refs[k])
  IN  IF LevelAsked(room, k) # next THEN HubSend(g, k, next) ELSE g

(* ... and the subscription: a new key, a key that comes back from its     *)
(* linger, a promotion, or one more reference.  The first reference of a   *)
(* user to a key of others is a nudge, unless it changes the level.        *)
HubSubscribe(h, u, k, level) ==
  LET nudge == k \notin DOMAIN h.held[u] /\ k \in DOMAIN h.refs
      room  == MakeRoom(h, k)
      g     == AddReference(room, u, k, level)
      prev  == LevelAsked(room, k)
      next  == EffectiveLevel(g.refs[k])
  IN  CASE prev # "full" /\ next # prev    -> HubSend(g, k, next)
        [] prev = "full" /\ next = "price" -> HubDemote(g, k)
        [] OTHER                           -> IF nudge THEN HubNudge(g, k) ELSE g

(* One reference of a user to a key less.  The key stays among those the   *)
(* user knows (#releaseUserRef).                                           *)
RemoveReference(h, u, k, level) ==
  LET n == HeldBy(h, u, k)
  IN  [h EXCEPT !.held[u]   = IF n = 0 THEN @ ELSE Set(@, k, n - 1),
                !.active[u] = IF n = 1 THEN @ - 1 ELSE @,
                !.refs      = Set(@, k, [h.refs[k] EXCEPT ![level] = @ - 1])]

(* Mutant of HubUnsubscribe: the reference is taken as one in full. *)
UnsubscribeFull(h, u, k, level) ==
  LET g == RemoveReference(h, u, k, "full")
  IN  IF TotalRefs(g.refs[k]) = 0 THEN Linger(g, k, EffectiveLevel(h.refs[k]))
      ELSE IF EffectiveLevel(g.refs[k]) = EffectiveLevel(h.refs[k]) THEN g
      ELSE HubDemote(g, k)

(* unsubscribe(): the release of a reference there is not is ignored. *)
HubUnsubscribe(h, u, k, level) ==
  LET g == RemoveReference(h, u, k, level)
  IN  IF k \notin DOMAIN h.refs THEN h
      ELSE IF h.refs[k][level] = 0 THEN h
      ELSE IF TotalRefs(g.refs[k]) = 0 THEN Linger(g, k, EffectiveLevel(h.refs[k]))
      ELSE IF EffectiveLevel(g.refs[k]) = EffectiveLevel(h.refs[k]) THEN g
      ELSE HubDemote(g, k)

(* resubscribeAll(), on the ready event of the connection: the lingering   *)
(* keys are let go, the others are asked for again.                        *)
ReleaseLingering(h) ==
  FoldSet(LAMBDA k, g : ReleaseKey(g, k, FALSE), h, Lingering(h))

SendAll(h) ==
  FoldSet(LAMBDA k, g : HubSend(g, k, EffectiveLevel(g.refs[k])), h, DOMAIN h.refs)

ResubscribeAll(h) ==
  LET all == SendAll(ReleaseLingering([h EXCEPT !.pacer = Reset(@)]))
  IN  [all EXCEPT !.pacer = TrackUntilIdle(@)]

(* The keys a user holds, for a session that has become ready.             *)
NudgeHeld(h, u) ==
  FoldSet(LAMBDA k, g : HubNudge(g, k), h, {k \in DOMAIN h.held[u] : h.held[u][k] > 0})

-----------------------------------------------------------------------------
(* History: a session becomes ready while its user remembers a key it does *)
(* not hold, until the progress of that key is sent again or the memory is *)
(* dropped.                                                                *)
Remember ==
  LET p   == hub'.pacer
      new == {m \in (p.declared \ hub.pacer.declared) \X Keys :
                m[2] \in DOMAIN hub'.held[m[1]] /\ hub'.held[m[1]][m[2]] = 0}
  IN  missed' = {m \in missed \union new :
                   /\ m[1] \in p.declared \ p.resent[m[2]]
                   /\ m[2] \in DOMAIN hub'.held[m[1]]}

-----------------------------------------------------------------------------
(* The fan-out: messages and the close of a tab. *)

(* A tab asks for a key, or for another level of a key it holds: the new   *)
(* level is taken before the old one is given back.                        *)
TabSubscribes(t, k, level) ==
  LET u    == Owner[t]
      next == HubSubscribe(hub, u, k, level)
  IN  /\ <<k, level>> \in Wishes[t]
      /\ k \in DOMAIN tab[t] => tab[t][k] # level
      /\ Verdict(hub, u, k) = "ok"
      /\ tab' = [tab EXCEPT ![t] = Set(@, k, level)]
      /\ hub' = IF k \in DOMAIN tab[t] THEN HubUnsubscribe(next, u, k, tab[t][k]) ELSE next
      /\ Remember

TabUnsubscribes(t, k) ==
  /\ k \in DOMAIN tab[t]
  /\ tab' = [tab EXCEPT ![t] = Without(@, k)]
  /\ hub' = HubUnsubscribe(hub, Owner[t], k, tab[t][k])
  /\ Remember

TabCloses(t) ==
  /\ tab[t] # Empty
  /\ tab' = [tab EXCEPT ![t] = Empty]
  /\ hub' = FoldSet(LAMBDA k, h : HubUnsubscribe(h, Owner[t], k, tab[t][k]),
                    hub, DOMAIN tab[t])
  /\ Remember

(* The timer of a lingering key; the oldest is the first to end. *)
LingerEnds ==
  /\ hub.linger # <<>>
  /\ hub' = ReleaseKey(hub, hub.linger[1].key, TRUE)
  /\ UNCHANGED tab
  /\ Remember

(* The order session of a user: #onReady and #clearCaches of a session     *)
(* that replaces it.  A session whose line breaks misses what is sent; the *)
(* keys its user holds are nudged when it is ready again.                  *)
SessionReady(u) ==
  /\ u \notin hub.pacer.declared
  /\ hub' = NudgeHeld([hub EXCEPT !.pacer = Declare(@, u)], u)
  /\ UNCHANGED tab
  /\ Remember

SessionReplaced(u) ==
  /\ u \in hub.pacer.declared
  /\ hub' = [hub EXCEPT
               !.held[u] = Restrict(@, {k \in DOMAIN @ : @[k] > 0}),
               !.pacer   = Leave(@, u)]
  /\ UNCHANGED tab
  /\ Remember

(* The connection: it breaks, or the quote switch closes it; the next one  *)
(* starts with nothing subscribed.                                         *)
FeedDown ==
  /\ hub.pacer.ready
  /\ hub' = [hub EXCEPT !.pacer = [@ EXCEPT !.ready = FALSE,
                                            !.sent  = [k \in Keys |-> "none"]]]
  /\ UNCHANGED tab
  /\ Remember

FeedReady ==
  /\ ~hub.pacer.ready
  /\ hub' = ResubscribeAll([hub EXCEPT !.pacer = [@ EXCEPT !.ready = TRUE]])
  /\ UNCHANGED tab
  /\ Remember

(* #onFeedFrame: the answer a key in flight waits for, this request's or   *)
(* an earlier one's.                                                       *)
Answered(k) ==
  /\ hub.pacer.ready /\ k \in InFlight(hub.pacer)
  /\ hub' = [hub EXCEPT !.pacer = OnResponse(@, k)]
  /\ UNCHANGED tab
  /\ Remember

DeadlinePasses(k) ==
  /\ hub.pacer.flying[k] = "fresh"
  /\ hub' = [hub EXCEPT !.pacer = Overdue(@, k)]
  /\ UNCHANGED tab
  /\ Remember

TimerFires ==
  /\ hub.pacer.timer = "due"
  /\ hub' = [hub EXCEPT !.pacer = OnTimer(@)]
  /\ UNCHANGED tab
  /\ Remember

Next ==
  \/ \E t \in Tabs : TabCloses(t)
  \/ \E t \in Tabs, k \in Keys :
        TabUnsubscribes(t, k) \/ \E level \in Levels : TabSubscribes(t, k, level)
  \/ LingerEnds
  \/ \E u \in Users : SessionReady(u) \/ SessionReplaced(u)
  \/ FeedDown \/ FeedReady
  \/ \E k \in Keys : Answered(k) \/ DeadlinePasses(k)
  \/ TimerFires

Spec == Init /\ [][Next]_vars

-----------------------------------------------------------------------------
(* The counts are what the tabs hold: the references of a key at each      *)
(* level, the tabs of a user on a key, the keys of a user; a key nobody    *)
(* holds lingers; the limits are kept.  The counts are moved by a message  *)
(* of one tab at a time, by evictions and by reconnects.                   *)
Holders(k, level) == {t \in Tabs : k \in DOMAIN tab[t] /\ tab[t][k] = level}
TabsOn(u, k)      == {t \in Tabs : Owner[t] = u /\ k \in DOMAIN tab[t]}

CountsHolders ==
  /\ \A k \in Keys :
       IF k \in DOMAIN hub.refs
       THEN /\ \A level \in Levels : hub.refs[k][level] = Cardinality(Holders(k, level))
            /\ k \in Lingering(hub) <=> TotalRefs(hub.refs[k]) = 0
       ELSE \A t \in Tabs : k \notin DOMAIN tab[t]
  /\ \A u \in Users :
       /\ DOMAIN hub.held[u] \subseteq DOMAIN hub.refs
       /\ \A k \in Keys : HeldBy(hub, u, k) = Cardinality(TabsOn(u, k))
       /\ hub.active[u] = Cardinality({k \in Keys : TabsOn(u, k) # {}})
       /\ hub.active[u] <= UserLimit
  /\ Cardinality(DOMAIN hub.refs) <= GlobalLimit

(* While the connection is ready the gateway sends what the watchers need: *)
(* a key that is watched is subscribed at the level of its watchers or     *)
(* waits with that level, a lingering key keeps the level it had, a key    *)
(* that was released neither waits nor holds a slot and is not sent in     *)
(* full.  So no change of level is lost between the queue, the slots and   *)
(* the requests that overtake both.  A promotion that waits when its key   *)
(* is released is dropped as if the gateway never knew the key, and leaves *)
(* it subscribed at the price level: released keys may be sent as "price". *)
UpstreamAgrees ==
  LET p         == hub.pacer
      Wanted(k) == IF k \in Lingering(hub) THEN LingerLevel(hub, k)
                   ELSE EffectiveLevel(hub.refs[k])
      Waits(k)  == \E i \in DOMAIN p.queue : p.queue[i] = [key |-> k, level |-> Wanted(k)]
  IN  p.ready =>
        /\ \A k \in DOMAIN hub.refs : IF k \in Queued(p) THEN Waits(k) ELSE p.sent[k] = Wanted(k)
        /\ \A k \in Keys \ DOMAIN hub.refs :
             k \notin Queued(p) /\ p.sent[k] # "full" /\ p.flying[k] = "no"
        /\ Queued(p) \intersect InFlight(p) = {}
        /\ Len(p.queue) = Cardinality(Queued(p))
        /\ Cardinality(InFlight(p)) <= Window

(* A user who watches a key has its progress: the gateway was made to send *)
(* it again when the user's session was ready and the user had joined the  *)
(* key, or the request that will do so waits.  The first look at a key     *)
(* others watch, the return from a linger, the end of a session and the    *)
(* reconnect each leave that to a different line of the code.  The one     *)
(* exception is in `missed`: the user took its first look before its       *)
(* session was ready, left, and is not nudged when it comes back.          *)
HasProgress(u, k) == u \in hub.pacer.resent[k] \/ k \in Queued(hub.pacer)

WatchersGetProgress ==
  hub.pacer.ready => \A u \in hub.pacer.declared, k \in Keys :
    HeldBy(hub, u, k) > 0 => HasProgress(u, k) \/ <<u, k>> \in missed

(* No wake-up is lost: while a key waits for a slot the timer is set, so   *)
(* that it is sent though the gateway never answers.  Three methods expire *)
(* the overdue keys, and not all of them let the next key go.              *)
NoLostWakeup ==
  hub.pacer.ready /\ hub.pacer.queue # <<>> => hub.pacer.timer # "off"

(* Together: what the gateway sends is what the watchers need, or a        *)
(* request for it waits that something will send.                          *)
UpstreamFollows == UpstreamAgrees /\ NoLostWakeup
=============================================================================
