---------------------------- MODULE StrategySweep ----------------------------
(***************************************************************************)
(* Strategies left on an order server that an account has moved away from  *)
(* could go on sending orders there; the relay switches them off:          *)
(*   relay/src/dma/effective-owner-tracker.ts   which accounts moved       *)
(*   relay/src/ws/fanout.ts           sweepMoved, the back-stop at login,  *)
(*                                    the retry of what failed, the lanes  *)
(*   relay/src/dma/strategy-sweeper.ts   one sweep: read, switch off, read *)
(*                                    again; the register of what is left  *)
(*   relay/src/access/account-order-servers.ts  effectiveOrderServer       *)
(* for the accounts of one user.  The settings, the 87s and 79s and the    *)
(* gateways with their strategies are external.                            *)
(***************************************************************************)
EXTENDS Integers

CONSTANTS Servers, Accounts,
          None,         \* no server
          Absent,       \* no record, or an account in no mapping
          Default,      \* the broker's default order server
          Choices,      \* the settings the accounts may be given
          Mappings,     \* the users.toml the servers may have
          MaxAttempts,  \* STALE_RETRY_MAX_ATTEMPTS
          MaxChanges,   \* bound on changes of settings and mappings
          MaxFaults,    \* bound on look-ups and sweeps that fail
          MaxLogins,    \* bound on the back-stops
          MaxArms       \* bound on strategies switched on

ASSUME NamesAssumption ==
  Default \in Servers /\ None \notin Servers /\ Absent \notin Servers \cup {None}
ASSUME WorldAssumption ==
  Choices \subseteq [Accounts -> Servers \cup {None}] /\ Mappings \subseteq [Servers -> SUBSET Accounts]
ASSUME BoundsAssumption ==
  /\ MaxAttempts \in Nat \ {0} /\ MaxChanges \in Nat /\ MaxFaults \in Nat
  /\ MaxLogins \in Nat /\ MaxArms \in Nat

VARIABLES
  choice,     \* AccountOrderServers.#map: the settings as loaded
  mapped,     \* the mapping of each server
  snap,       \* EffectiveOwnerTracker.#snap: owners at the last refresh
  last,       \* #lastOwner
  confirmed,  \* WsFanout.#confirmedOwner: the owner when a sweep was confirmed
  stale,      \* StaleStrategyRegister: attempts that failed, 0 for no entry
  asked,      \* sweeps on their way to the lane
  lane,       \* #sweepLanes, with the sweep under way
  armed,      \* where an account has an active strategy
  stayed,     \* auxiliary: back at home since their last sweep began
  missed,     \* auxiliary: let go by one of the exceptions
  changes, faults, logins, arms

world == <<choice, mapped>>
tracker == <<snap, last>>
records == <<confirmed, stale>>
aux == <<stayed, missed>>
bounds == <<changes, faults, logins, arms>>
vars == <<world, tracker, records, asked, lane, armed, aux, bounds>>

Pairs == Servers \X Accounts
At(s, X) == {s} \X X

(* "moved" and "retry" wait for the credentials, "login" has them.         *)
Request ==
  [ server : Servers, accounts : (SUBSET Accounts) \ {{}}, kind : {"moved", "retry", "login"} ]

(* accounts, next: currentAccounts, next.accounts; list: what the reads    *)
(* found and is not dealt with; off: the account of the 14 or 11 under     *)
(* way.  "read", "confirm": until the gateway answers.                     *)
Lane == [ phase : {"idle", "read", "off", "confirm", "left"},
          accounts : SUBSET Accounts, next : SUBSET Accounts, list : SUBSET Accounts,
          off : SUBSET Accounts, skipped : SUBSET Accounts ]

TypeOK ==
  /\ choice \in Choices /\ mapped \in Mappings
  /\ snap \in [Accounts -> Servers \cup {None, Absent}]
  /\ last \in [Accounts -> Servers \cup {None}]
  /\ confirmed \in [Pairs -> Servers \cup {None, Absent}]
  /\ stale \in [Pairs -> 0..MaxAttempts]
  /\ asked \subseteq Request
  /\ lane \in [Servers -> Lane]
  /\ \A s \in Servers :
       /\ lane[s].phase = "idle" <=> lane[s].accounts = {}
       /\ lane[s].next \cap lane[s].accounts = {}
       /\ lane[s].list \cup lane[s].off \cup lane[s].skipped \subseteq lane[s].accounts
  /\ armed \subseteq Pairs /\ stayed \subseteq Pairs /\ missed \subseteq Pairs
  /\ changes \in Nat /\ faults \in Nat /\ logins \in Nat /\ arms \in Nat

-----------------------------------------------------------------------------
(* Who may order for an account.                                           *)

Registered(x) == {s \in Servers : x \in mapped[s]}
Known(x) == Registered(x) # {}

(* effectiveOrderServer: the setting, else the default server if it knows  *)
(* the account, else the one server that does.                             *)
Effective(x) ==
  IF choice[x] # None THEN choice[x]
  ELSE IF Default \in Registered(x) THEN Default
  ELSE IF \E s \in Servers : Registered(x) = {s} THEN CHOOSE s \in Servers : Registered(x) = {s}
  ELSE None

(* Nobody orders for an account that its order server does not know.       *)
Owner(x) == IF Effective(x) \in Registered(x) THEN Effective(x) ELSE None

Snapshot(x) == IF Known(x) THEN Owner(x) ELSE Absent

(* The pairs that are an account's order server now; those of them that    *)
(* can take an order for it.                                               *)
Stays == {p \in Pairs : Known(p[2]) /\ Effective(p[2]) = p[1]}

Owned == {p \in Pairs : Owner(p[2]) = p[1]}

Idle == [ phase |-> "idle", accounts |-> {}, next |-> {}, list |-> {}, off |-> {}, skipped |-> {} ]

(* The settings are loaded and the tracker has its baseline; the gateways  *)
(* kept what was switched on before.                                       *)
Init ==
  /\ choice \in Choices /\ mapped \in Mappings
  /\ snap = [x \in Accounts |-> Snapshot(x)]
  /\ last = [x \in Accounts |-> Owner(x)]
  /\ confirmed = [p \in Pairs |-> Absent]
  /\ stale = [p \in Pairs |-> 0]
  /\ asked = {}
  /\ lane = [s \in Servers |-> Idle]
  /\ armed \in SUBSET Owned
  /\ stayed = {} /\ missed = {}
  /\ changes = 0 /\ faults = 0 /\ logins = 0 /\ arms = 0

(* P is let go, as far as a strategy is on there and nobody orders there.  *)
Miss(P, owned) == missed' = (P \cap armed) \ owned

Fault == faults < MaxFaults /\ faults' = faults + 1 /\ UNCHANGED <<changes, logins, arms>>

-----------------------------------------------------------------------------
(* The records of pairs P.                                                 *)

Without(f, P, none) == [p \in Pairs |-> IF p \in P THEN none ELSE f[p]]

(* #clearIfOwner, #discardStale                                            *)
Cleared(P) == confirmed' = Without(confirmed, P, Absent) /\ stale' = Without(stale, P, 0)

AtMost(n, max) == IF n < max THEN n ELSE max
Marked(f, P) == [p \in Pairs |-> IF p \in P THEN AtMost(f[p] + 1, MaxAttempts) ELSE f[p]]

(* #markStale                                                              *)
MarkStale(P) ==
  /\ confirmed' = Without(confirmed, P, Absent) /\ stale' = Marked(stale, P)
  /\ missed' = missed \ P

(* A request for each server of pairs P.                                   *)
Asks(P, kind) ==
  {[server |-> s, accounts |-> {x \in Accounts : <<s, x>> \in P}, kind |-> kind] :
     s \in {p[1] : p \in P}}

(* #sweepPending                                                           *)
Pending == UNION {At(s, lane[s].accounts \cup lane[s].next) : s \in Servers}

-----------------------------------------------------------------------------
(* A change: EffectiveOwnerTracker.refresh and WsFanout.sweepMoved up to   *)
(* its look-up, in one run of the event loop.                              *)

(* Mutant of From: before 29-50 the server before a time without an owner  *)
(* was not remembered.                                                     *)
FromForgets(x) == snap[x]

From(x) == IF snap[x] # None THEN snap[x] ELSE last[x]

Moves ==
  {x \in Accounts : snap[x] # Absent /\ Known(x)' /\ Owner(x)' # snap[x] /\ From(x) # Owner(x)'}

(* A move to nobody is told with the server it leaves only once.           *)
Consumed == {x \in Moves : Owner(x)' = None /\ Effective(x)' # From(x)}

Refresh ==
  /\ snap' = [x \in Accounts |-> Snapshot(x)']
  /\ last' = [x \in Accounts |->
       IF ~Known(x)' THEN None
       ELSE IF Owner(x)' # None THEN Owner(x)'
       ELSE IF x \in Consumed THEN None ELSE last[x]]

Told == {x \in Moves : From(x) # None}

Returned == {p \in Pairs : p[2] \in Told /\ Owner(p[2])' = p[1]}

Left == {p \in Pairs : p[2] \in Told /\ From(p[2]) = p[1] /\ Effective(p[2])' # p[1]}

(* Another path has swept for this very change.                            *)
Done == {p \in Left : confirmed[p] = Owner(p[2])'}

SweepMoved ==
  /\ Cleared(Returned)
  /\ asked' = asked \cup Asks(Left \ Done, "moved")

(* The pairs this change lets go.                                          *)
Vanished == {p \in Pairs : ~Known(p[2])'}
Unseen == {p \in Pairs : Owner(p[2]) = p[1] /\ snap[p[2]] # p[1] /\ Owner(p[2])' # p[1]}

(* Pairs of a sweep under way, or of one that was confirmed, whose account *)
(* comes back.                                                             *)
Tracked == {p \in Pairs : p[2] \in lane[p[1]].accounts \/ confirmed[p] # Absent}
Stay == stayed' = stayed \cup (Stays' \cap Tracked)

Change == changes < MaxChanges /\ changes' = changes + 1 /\ UNCHANGED <<faults, logins, arms>>

Compared ==
  /\ Refresh
  /\ SweepMoved
  /\ Stay
  /\ Miss(missed \cup Vanished \cup Unseen \cup (Done \cap stayed), Owned')
  /\ UNCHANGED <<lane, armed>>

(* AccountOrderServers "changed", the registry's likewise.                 *)
SettingsChange ==
  /\ Change
  /\ choice' \in Choices \ {choice} /\ UNCHANGED mapped
  /\ Compared

(* AdminSnapshotSink "applied": an 87.                                     *)
SnapshotApplied ==
  /\ Change
  /\ mapped' \in Mappings \ {mapped} /\ UNCHANGED choice
  /\ Compared

(* A 79 at the observer's login replaces the mapping too, and compares     *)
(* nothing.                                                                *)
MappingObserved ==
  /\ Change
  /\ mapped' \in Mappings \ {mapped} /\ UNCHANGED choice
  /\ Stay /\ Miss(missed \cup Unseen, Owned')
  /\ UNCHANGED <<tracker, records, asked, lane, armed>>

-----------------------------------------------------------------------------
(* #backstopSweep at a login: every server that knows an account and is    *)
(* not its order server, unless the retry or a sweep has it or it was      *)
(* confirmed for this owner.                                               *)
Backstop ==
  {p \in Pairs :
     /\ p[2] \in mapped[p[1]] /\ p \notin Stays /\ p \notin Pending
     /\ stale[p] \in {0, MaxAttempts}
     /\ confirmed[p] # Owner(p[2])}

Login ==
  /\ logins < MaxLogins /\ logins' = logins + 1
  /\ asked' = asked \cup Asks(Backstop, "login")
  /\ UNCHANGED <<world, tracker, records, lane, armed, aux, changes, faults, arms>>

-----------------------------------------------------------------------------
(* #retryStale: a tick of the retry timer.  due: the entries whose delay   *)
(* is over.                                                                *)
Entries == {p \in Pairs : stale[p] > 0 /\ p \notin Pending}
Unmapped == {p \in Entries \ Stays : ~Known(p[2])}

(* Mutant of Retryable: the last attempt is counted as made.               *)
RetryableButLast == {p \in Entries \ (Stays \cup Unmapped) : stale[p] + 1 < MaxAttempts}

(* #staleRetryDue                                                          *)
Retryable == {p \in Entries \ (Stays \cup Unmapped) : stale[p] < MaxAttempts}

RetryTick(due) ==
  /\ due \subseteq Retryable
  /\ Entries \cap (Stays \cup Unmapped) # {} \/ due # {}
  /\ Cleared(Entries \cap (Stays \cup Unmapped))
  /\ Miss(missed \cup (Entries \cap (Stays \cup Unmapped)), Owned)
  /\ asked' = asked \cup Asks(due, "retry")
  /\ UNCHANGED <<world, tracker, lane, armed, stayed, bounds>>

-----------------------------------------------------------------------------
(* The look-up of the credentials, and the lane.                           *)

Started(X) == [Idle EXCEPT !.phase = "read", !.accounts = X]

(* A sweep of P starts.                                                    *)
Fresh(P) == stayed' = (stayed \ P) \cup (P \cap Stays)

(* Mutant of Extra: the accounts of the sweep under way are not left out.  *)
ExtraAll(s, X) == X

(* The accounts that the sweep under way does not have.                    *)
Extra(s, X) == X \ lane[s].accounts

(* #sweepAccounts, the credentials at hand.                                *)
Enter(r) ==
  /\ r \in asked
  /\ asked' = asked \ {r}
  /\ LET s == r.server
         P == At(s, r.accounts)
     IN IF lane[s].phase = "idle"
          THEN /\ lane' = [lane EXCEPT ![s] = Started(r.accounts)]
               /\ missed' = missed \ P
               /\ Fresh(P)
          ELSE /\ lane' = [lane EXCEPT ![s].next = @ \cup Extra(s, r.accounts)]
               /\ UNCHANGED aux
  /\ UNCHANGED <<world, tracker, records, armed, bounds>>

(* #credentialsFor: the look-up fails, or there are none (any more).       *)
LookupFails(r) ==
  /\ r \in asked /\ r.kind # "login"
  /\ Fault
  /\ asked' = asked \ {r}
  /\ MarkStale(At(r.server, r.accounts))
  /\ UNCHANGED <<world, tracker, lane, armed, stayed>>

(* The retry finds the user unauthorized or with another DMA user: no      *)
(* credentials for these strategies will come, the entries are dropped.    *)
RetryRefused(r) ==
  /\ r \in asked /\ r.kind = "retry"
  /\ Fault
  /\ asked' = asked \ {r}
  /\ Cleared(At(r.server, r.accounts))
  /\ Miss(missed \cup At(r.server, r.accounts), Owned)
  /\ UNCHANGED <<world, tracker, lane, armed, stayed>>

-----------------------------------------------------------------------------
(* One sweep.                                                              *)

(* An account's strategies are taken together.                             *)
On(s, X) == {x \in X : <<s, x>> \in armed}

(* The next 14 or 11 of those still to do: accounts that came back before  *)
(* their turn are skipped for the rest of the sweep (stillStale).  After   *)
(* the last one what is not skipped is read again.                         *)
Proceed(s, todo) ==
  LET back == {x \in todo : <<s, x>> \in Stays}
  IN \/ \E x \in todo \ back, K \in SUBSET back :
          lane' = [lane EXCEPT ![s].phase = "off", ![s].off = {x},
                     ![s].list = todo \ (K \cup {x}), ![s].skipped = @ \cup K]
     \/ /\ todo = back
        /\ lane' = [lane EXCEPT ![s].phase = "confirm", ![s].off = {},
                      ![s].list = {}, ![s].skipped = @ \cup back]

(* The session is held, lent by the hub and ready, the gateway answers the *)
(* reads (external) and the first switch-off is sent.                      *)
FirstRead(s) ==
  /\ lane[s].phase = "read"
  /\ Proceed(s, On(s, lane[s].accounts))
  /\ UNCHANGED <<world, tracker, records, asked, armed, aux, bounds>>

(* The gateway switches the strategy off (external) and the echo arrives;  *)
(* or the echo says it is on still, which only the second read tells.      *)
SwitchedOff(s) ==
  /\ lane[s].phase = "off"
  /\ \/ armed' = armed \ At(s, lane[s].off) /\ UNCHANGED bounds
     \/ Fault /\ UNCHANGED armed
  /\ Proceed(s, lane[s].list)
  /\ missed' = missed \cap armed'
  /\ UNCHANGED <<world, tracker, records, asked, stayed>>

(* The gateway answers the second read; the answer is on its way.          *)
SecondRead(s) ==
  /\ lane[s].phase = "confirm"
  /\ lane' = [lane EXCEPT ![s].phase = "left",
                ![s].list = On(s, lane[s].accounts \ lane[s].skipped)]
  /\ UNCHANGED <<world, tracker, records, asked, armed, aux, bounds>>

Skipped(s) == At(s, lane[s].skipped)
Swept(s) == At(s, lane[s].accounts \ lane[s].skipped)

(* The sweep settles with P off its records; the next one of the lane, if  *)
(* accounts have come for it, starts.                                      *)
Leave(s, P) ==
  LET next == At(s, lane[s].next)
  IN /\ lane' = [lane EXCEPT ![s] = IF @.next = {} THEN Idle ELSE Started(@.next)]
     /\ Fresh(next)
     /\ Miss((missed \ (next \cup (Swept(s) \ P))) \cup (P \cap stayed), Owned)

(* #sweepServer, the second read found nothing on.                         *)
Confirms(s) ==
  /\ lane[s].phase = "left" /\ lane[s].list = {}
  /\ confirmed' = [p \in Pairs |-> IF p \in Skipped(s) THEN Absent
                                   ELSE IF p \in Swept(s) THEN Owner(p[2]) ELSE confirmed[p]]
  /\ stale' = Without(stale, Skipped(s) \cup Swept(s), 0)
  /\ Leave(s, Skipped(s) \cup Swept(s))
  /\ UNCHANGED <<world, tracker, asked, armed, bounds>>

Unconfirmed(s) ==
  /\ confirmed' = Without(confirmed, Skipped(s) \cup Swept(s), Absent)
  /\ stale' = Marked(Without(stale, Skipped(s), 0), Swept(s))
  /\ Leave(s, Skipped(s))
  /\ UNCHANGED <<world, tracker, asked>>

(* ... or some are on still.                                               *)
Remains(s) ==
  /\ lane[s].phase = "left" /\ lane[s].list # {}
  /\ Unconfirmed(s)
  /\ UNCHANGED <<armed, bounds>>

(* No session, not ready, a step or the sweep times out, a send fails.  A  *)
(* 14 on its way may still reach the gateway.                              *)
SweepFails(s) ==
  /\ lane[s].phase # "idle"
  /\ Fault
  /\ Unconfirmed(s)
  /\ armed' \in {armed, armed \ At(s, lane[s].off)}

-----------------------------------------------------------------------------
(* The user switches a strategy on; the relay lets it through on the       *)
(* account's order server only (external).                                 *)
Arm(s, x) ==
  /\ Owner(x) = s /\ <<s, x>> \notin armed
  /\ arms < MaxArms /\ arms' = arms + 1
  /\ armed' = armed \cup {<<s, x>>}
  /\ UNCHANGED <<world, tracker, records, asked, lane, aux, changes, faults, logins>>

Steps(s) ==
  \/ FirstRead(s) \/ SwitchedOff(s) \/ SecondRead(s) \/ Confirms(s) \/ Remains(s)

Next ==
  \/ SettingsChange \/ SnapshotApplied \/ MappingObserved \/ Login
  \/ \E due \in SUBSET Pairs : RetryTick(due)
  \/ \E r \in asked : Enter(r) \/ LookupFails(r) \/ RetryRefused(r)
  \/ \E s \in Servers : Steps(s) \/ SweepFails(s)
  \/ \E s \in Servers, x \in Accounts : Arm(s, x)

(* Look-ups return, a sweep takes at most 20 s, the retry timer ticks and  *)
(* the delay of an entry is at most 30 minutes.                            *)
Fairness ==
  /\ WF_vars(\E r \in asked : Enter(r))
  /\ \A s \in Servers : WF_vars(Steps(s))
  /\ WF_vars(RetryTick(Retryable))

Spec == Init /\ [][Next]_vars /\ Fairness

-----------------------------------------------------------------------------
(* On its way: a sweep asked for or under way, an entry the user is shown  *)
(* and the retry takes up, or the tracker's memory of the last owner of an *)
(* account that nobody orders for.                                         *)
Covered(p) ==
  \/ p \in Pending \/ stale[p] > 0
  \/ \E r \in asked : r.server = p[1] /\ p[2] \in r.accounts
  \/ snap[p[2]] = None /\ last[p[2]] = p[1]

(* A strategy is on at a server that its account has left.                 *)
Behind(p) == p \in armed /\ snap[p[2]] # p[1] /\ p \notin Stays

(* A strategy left behind is on its way to be switched off, or its user is *)
(* shown that it is not.  The exceptions, which the code lets go without a *)
(* trace (missed): the account is gone from every users.toml, or the entry *)
(* was discarded; a 79 made the server the order server and another change *)
(* unmade it, unseen; the account came back while its sweep ran and left   *)
(* again: the request joins the sweep that skips or has passed it; the     *)
(* account came back from no owner without a memory, so the record of its  *)
(* last sweep stands for the next; the server is the order server by the   *)
(* setting only, and does not know the account: entries are cleared.       *)
NothingIsForgotten == \A p \in Pairs : Behind(p) => Covered(p) \/ p \in missed

(* What is left behind is switched off in the end, unless the attempts are *)
(* used up: again and again nothing is.                                    *)
GivenUp(p) ==
  p \in missed \/ stale[p] = MaxAttempts \/ (snap[p[2]] = None /\ last[p[2]] = p[1])

SweptInTheEnd == []<>(\A p \in Pairs : Behind(p) => GivenUp(p))
=============================================================================
