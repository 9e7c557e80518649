----------------------------- MODULE UserSessions -----------------------------
(***************************************************************************)
(* Who holds the sessions of one user: the browser tabs, through           *)
(*   relay/src/ws/fanout.ts       wss authentication, refreshUserSessions, *)
(*                                resyncUser, close                        *)
(* and the sweeps that switch strategies off on an old order server,       *)
(*   relay/src/dma/strategy-sweeper.ts   acquireOn, releaseSession.        *)
(*                                                                         *)
(* `plan` (external, access/account-order-servers.ts serversFor) is the    *)
(* set of servers the user's accounts are ordered through; an 87 or a      *)
(* setting changes it while authentications and look-ups are under way.    *)
(***************************************************************************)
EXTENDS SessionManager, FiniteSets

CONSTANTS Tabs,       \* browser tabs of the user
          MaxVisits,  \* bound on the connections they make
          MaxLookups  \* bound on the refreshUserSessions calls under way

ASSUME TabsAssumption == IsFiniteSet(Tabs)
ASSUME BoundsAssumption == MaxVisits \in Nat /\ MaxLookups \in Nat

VARIABLES
  plan,     \* serversFor: the servers to open
  tab,      \* Tabs -> Conn
  conns,    \* #users entry: registered connections; no entry when empty
  bound,    \* #users entry: Servers -> the session bound to it, 0 if none
  lookups,  \* refreshUserSessions calls waiting for the credentials
  sweep,    \* Servers -> session held by the sweep of that lane, 0 if none
  visits

fanout == <<tab, conns, bound, lookups, visits>>
vars == <<manager, plan, fanout, sweep>>

(* phase: "auth" from the auth message to the end of its two look-ups;     *)
(* "leaving" is a socket the server has closed, its close event pending.   *)
(* acquired: conn.acquiredServers, as a count per server.                  *)
Conn == [ phase : {"gone", "auth", "open", "leaving"}, acquired : [Servers -> Nat] ]

Nothing == [s \in Servers |-> 0]

TypeOK ==
  /\ ManagerTypeOK
  /\ plan \in SUBSET Servers /\ plan # {}
  /\ tab \in [Tabs -> Conn]
  /\ conns \in SUBSET {t \in Tabs : tab[t].phase \in {"open", "leaving"}}
  /\ bound \in [Servers -> Nat]
  /\ lookups \in Nat
  /\ sweep \in [Servers -> Nat]
  /\ visits \in Nat

Init ==
  /\ ManagerInit
  /\ plan \in SUBSET Servers /\ plan # {}
  /\ tab = [t \in Tabs |-> [phase |-> "gone", acquired |-> Nothing]]
  /\ conns = {}
  /\ bound = Nothing
  /\ lookups = 0
  /\ sweep = Nothing
  /\ visits = 0

-----------------------------------------------------------------------------
(* #bindSessions: the entry gets the sessions of S; a session no           *)
(* connection holds is unbound.                                            *)
Bind(S) ==
  bound' = [s \in Servers |->
              IF \A c \in conns' : tab'[c].acquired[s] = 0 THEN 0
              ELSE IF s \in S THEN entry'[s].session ELSE bound[s]]

(* #missingSessions                                                        *)
Missing == {s \in plan : bound[s] = 0}

Connect(t) ==
  /\ tab[t].phase = "gone" /\ visits < MaxVisits
  /\ visits' = visits + 1
  /\ tab' = [tab EXCEPT ![t] = [phase |-> "auth", acquired |-> Nothing]]
  /\ UNCHANGED <<manager, plan, conns, bound, lookups, sweep>>

(* The look-ups of #onAuth are done and the socket is still open: acquire  *)
(* every planned server, register.                                         *)
Authenticate(t) ==
  /\ tab[t].phase = "auth"
  /\ LET want == [s \in Servers |-> IF s \in plan THEN 1 ELSE 0]
     IN /\ Acquire(want)
        /\ tab' = [tab EXCEPT ![t] = [phase |-> "open", acquired |-> want]]
  /\ conns' = conns \cup {t}
  /\ Bind(plan)
  /\ UNCHANGED <<plan, lookups, sweep, visits>>

(* refreshUserSessions, up to its look-up.                                 *)
RefreshAsked ==
  /\ conns # {} /\ Missing # {} /\ lookups < MaxLookups
  /\ lookups' = lookups + 1
  /\ UNCHANGED <<manager, plan, tab, conns, bound, sweep, visits>>

(* refreshUserSessions after its look-up: what is missing now is acquired  *)
(* for every connection of the entry there is now.                         *)
RefreshResumes ==
  /\ lookups > 0
  /\ lookups' = lookups - 1
  /\ LET S == IF conns = {} THEN {} ELSE Missing
         add == [s \in Servers |-> IF s \in S THEN 1 ELSE 0]
     IN /\ Acquire([s \in Servers |-> IF s \in S THEN Cardinality(conns) ELSE 0])
        /\ tab' = [c \in Tabs |-> IF c \in conns
                     THEN [tab[c] EXCEPT !.acquired = [s \in Servers |-> @[s] + add[s]]]
                     ELSE tab[c]]
        /\ UNCHANGED conns
        /\ IF S = {} THEN UNCHANGED bound ELSE Bind(S)
  /\ UNCHANGED <<plan, sweep, visits>>

(* The look-up of refreshUserSessions fails.                               *)
RefreshFails ==
  /\ lookups > 0
  /\ lookups' = lookups - 1
  /\ UNCHANGED <<manager, plan, tab, conns, bound, sweep, visits>>

(* revokeUser and other closes by the server: the socket is on its way     *)
(* out, its holdings stay until the close event.                           *)
ServerCloses(t) ==
  /\ tab[t].phase = "open"
  /\ tab' = [tab EXCEPT ![t].phase = "leaving"]
  /\ UNCHANGED <<manager, plan, conns, bound, lookups, sweep, visits>>

(* Mutant of Closed: the entry keeps the connection.                       *)
ClosedKeepsConn(t) ==
  /\ tab[t].phase # "gone"
  /\ Release(tab[t].acquired)
  /\ tab' = [tab EXCEPT ![t] = [phase |-> "gone", acquired |-> Nothing]]
  /\ UNCHANGED <<plan, conns, bound, lookups, sweep, visits>>

(* #onClose, whoever closed: the entry loses the connection, and what the  *)
(* connection acquired is released.                                        *)
Closed(t) ==
  /\ tab[t].phase # "gone"
  /\ conns' = conns \ {t}
  /\ bound' = IF conns' = {} THEN Nothing ELSE bound
  /\ Release(tab[t].acquired)
  /\ tab' = [tab EXCEPT ![t] = [phase |-> "gone", acquired |-> Nothing]]
  /\ UNCHANGED <<plan, lookups, sweep, visits>>

(* resyncUser, after the sweeps of the old servers, or after the three     *)
(* rounds it waits for them: holdings forgotten, entry and sessions        *)
(* dropped, every connection there still is closed with 1012.              *)
ResyncUser ==
  /\ tab' = [c \in Tabs |-> IF tab[c].phase \in {"open", "leaving"}
                              THEN [phase |-> "leaving", acquired |-> Nothing] ELSE tab[c]]
  /\ conns' = {} /\ bound' = Nothing
  /\ DropUser
  /\ UNCHANGED <<plan, lookups, sweep, visits>>

(* A sweep: its lane holds one session of the server for its duration.     *)
SweepStarts(s) ==
  /\ sweep[s] = 0
  /\ Acquire([x \in Servers |-> IF x = s THEN 1 ELSE 0])
  /\ sweep' = [sweep EXCEPT ![s] = entry'[s].session]
  /\ UNCHANGED <<plan, fanout>>

SweepEnds(s) ==
  /\ sweep[s] # 0
  /\ ReleaseSession(s, sweep[s])
  /\ sweep' = [sweep EXCEPT ![s] = 0]
  /\ UNCHANGED <<plan, fanout>>

(* The registry, the account settings or an 87 change serversFor.          *)
PlanChanges ==
  /\ \E S \in SUBSET Servers : S # {} /\ S # plan /\ plan' = S
  /\ UNCHANGED <<manager, fanout, sweep>>

-----------------------------------------------------------------------------
GraceTimer(s) == GraceExpires(s) /\ UNCHANGED <<plan, fanout, sweep>>
AdminCloses(s) == CloseForDmaUser(s) /\ UNCHANGED <<plan, fanout, sweep>>
LineEnds(s) == SessionEnds(s) /\ UNCHANGED <<plan, fanout, sweep>>

Next ==
  \/ \E t \in Tabs : Connect(t) \/ Authenticate(t) \/ ServerCloses(t) \/ Closed(t)
  \/ RefreshAsked \/ RefreshResumes \/ RefreshFails \/ ResyncUser \/ PlanChanges
  \/ \E s \in Servers : SweepStarts(s) \/ SweepEnds(s)
                          \/ GraceTimer(s) \/ AdminCloses(s) \/ LineEnds(s)

(* The grace timer fires, a closed socket gets its close event, a sweep    *)
(* ends (20 s in all), a look-up returns.                                  *)
Fairness ==
  /\ \A s \in Servers : WF_vars(GraceTimer(s)) /\ WF_vars(SweepEnds(s))
  /\ \A t \in Tabs : WF_vars(tab[t].phase = "leaving" /\ Closed(t))
  /\ WF_vars(RefreshResumes)

Spec == Init /\ [][Next]_vars /\ Fairness

-----------------------------------------------------------------------------
(* What the tabs hold of a server: each tab with as many numbers as it     *)
(* acquired the server times.                                              *)
Numbered(acquired) == UNION {{t} \X (1..acquired[t]) : t \in Tabs}
Held(s) == Numbered([t \in Tabs |-> tab[t].acquired[s]])

Holders(s) ==
  Cardinality(Held(s)) + (IF sweep[s] # 0 /\ sweep[s] = entry[s].session THEN 1 ELSE 0)

(* The reference count of an entry is the number of its holders: no tab's  *)
(* or sweep's release counts against another's (GC-01).                    *)
RefCountsHolders == \A s \in Servers : Present(s) => entry[s].refCount = Holders(s)

(* A session is on its way out exactly when nobody holds it: none is lost  *)
(* with its TCP line open, none is closed under a holder.                  *)
GraceWhenUnheld == \A s \in Servers : Present(s) => (entry[s].grace <=> entry[s].refCount = 0)

(* What a tab holds is there: its server's session is open.                *)
HeldIsOpen == \A t \in Tabs, s \in Servers : tab[t].acquired[s] > 0 => Present(s)

(* Together: the manager's count is the tabs and sweeps that hold a        *)
(* session, and decides alone whether it stays.                            *)
HoldersAreCounted == RefCountsHolders /\ GraceWhenUnheld /\ HeldIsOpen

(* One login per user and server: the only session not closed is the one   *)
(* of the entry.                                                           *)
OneLogin == \A s \in Servers : live[s] = IF Present(s) THEN {entry[s].session} ELSE {}

(* A refused login is not repeated while its entry stands, and a session   *)
(* is not replaced while somebody holds it (T-15-10, RETRYABLE_DEAD_STATES)*)
OnlyDeadUnheldReplaced ==
  [][\A s \in Servers :
       Present(s) /\ opened'[s] # opened[s] => entry[s].state = "failed" /\ Holders(s) = 0]_vars

(* A session nobody holds ends, or somebody takes it up again.             *)
UnheldEnds ==
  \A s \in Servers : Present(s) /\ entry[s].refCount = 0 ~> ~Present(s) \/ entry[s].refCount > 0
=============================================================================
