-------------------------- MODULE UserSessions_proofs --------------------------
(***************************************************************************)
(* Proofs about UserSessions, for every set of tabs and servers.           *)
(*                                                                         *)
(* The session manager keeps one login per user and server: that the entry *)
(* and the sessions not closed agree is inductive with the types, together *)
(* with the grace timer's being set exactly while the count is 0.  That    *)
(* the count is the number of holders needs that what a tab acquired can   *)
(* be numbered, a finite set that grows and shrinks by whole tabs, and     *)
(* that sessions are never numbered twice.                                 *)
(***************************************************************************)
EXTENDS UserSessions, FiniteSetTheorems, TLAPS

ManagerInv == ManagerTypeOK /\ OneLogin /\ GraceWhenUnheld

Counts == [Servers -> Nat]

-----------------------------------------------------------------------------
(* The operations of the session manager.                                  *)

LEMMA AcquiredType ==
  ASSUME ManagerInv, NEW s \in Servers, NEW n \in Nat
  PROVE  /\ Acquired(s, n) \in Entry
         /\ n = 0 => Acquired(s, n) = entry[s]
         /\ n > 0 => ~Acquired(s, n).grace /\ Acquired(s, n).refCount # 0
         /\ n > 0 /\ Opens(s) => Acquired(s, n).session = opened[s] + 1
         /\ ~Opens(s) => Acquired(s, n).session = entry[s].session
<1>1. entry[s] \in Entry /\ opened[s] \in Nat
  BY DEF ManagerInv, ManagerTypeOK
<1>2. CASE n = 0
  BY <1>1, <1>2 DEF Acquired
<1>3. CASE n > 0 /\ Opens(s)
  BY <1>1, <1>3 DEF Acquired, Entry
<1>4. CASE n > 0 /\ ~Opens(s)
  <2> DEFINE e == entry[s]
  <2>1. /\ e \in [session : Nat, state : {"up", "failed", "refused"},
                   refCount : Nat, grace : BOOLEAN]
        /\ n \in Nat /\ n > 0
    BY <1>1, <1>4 DEF Entry
  <2>2. Acquired(s, n) = [e EXCEPT !.refCount = @ + n, !.grace = FALSE]
    BY <1>4, <2>1 DEF Acquired
  <2> HIDE DEF e
  <2>3. e.refCount \in Nat /\ e.refCount + n \in Nat /\ e.refCount + n # 0
    BY <2>1
  <2>4. [e EXCEPT !.refCount = @ + n, !.grace = FALSE] \in Entry
    BY <2>1, <2>3 DEF Entry
  <2>5. /\ Acquired(s, n).refCount = e.refCount + n
        /\ Acquired(s, n).grace = FALSE
        /\ Acquired(s, n).session = e.session
    BY <2>1, <2>2
  <2> QED BY <1>4, <2>2, <2>3, <2>4, <2>5 DEF e
<1> QED BY <1>2, <1>3, <1>4

LEMMA AcquireInv ==
  ASSUME ManagerInv, NEW count \in Counts, Acquire(count)
  PROVE  ManagerInv'
<1> DEFINE new == {s \in Servers : count[s] > 0 /\ Opens(s)}
<1>1. /\ entry' = [s \in Servers |-> Acquired(s, count[s])]
      /\ opened' = [s \in Servers |-> IF s \in new THEN opened[s] + 1 ELSE opened[s]]
      /\ live' = [s \in Servers |->
                    IF s \in new THEN (live[s] \ {entry[s].session}) \cup {opened[s] + 1}
                                 ELSE live[s]]
  BY DEF Acquire
<1>2. ASSUME NEW s \in Servers PROVE count[s] \in Nat /\ count[s] >= 0
  BY DEF Counts
<1>3. ManagerTypeOK'
  <2>1. entry' \in [Servers -> Entry]
    BY <1>1, <1>2, AcquiredType
  <2>2. opened' \in [Servers -> Nat] /\ live' \in [Servers -> SUBSET Nat]
    BY <1>1 DEF ManagerInv, ManagerTypeOK
  <2> QED BY <2>1, <2>2 DEF ManagerTypeOK
<1>4. ASSUME NEW s \in Servers
      PROVE  /\ live'[s] = IF entry'[s].session # 0 THEN {entry'[s].session} ELSE {}
             /\ entry'[s].session # 0 => (entry'[s].grace <=> entry'[s].refCount = 0)
  <2>1. /\ live[s] = IF entry[s].session # 0 THEN {entry[s].session} ELSE {}
        /\ entry[s].session # 0 => (entry[s].grace <=> entry[s].refCount = 0)
        /\ opened[s] \in Nat
    BY DEF ManagerInv, ManagerTypeOK, OneLogin, GraceWhenUnheld, Present
  <2>2. entry'[s] = Acquired(s, count[s])
    BY <1>1
  <2>3. CASE s \in new
    <3>1. entry'[s].session = opened[s] + 1 /\ ~entry'[s].grace /\ entry'[s].refCount # 0
      BY <1>2, <2>2, <2>3, AcquiredType
    <3>2. live'[s] = {opened[s] + 1}
      BY <1>1, <2>1, <2>3
    <3> QED BY <2>1, <3>1, <3>2
  <2>4. CASE s \notin new
    <3>1. live'[s] = live[s] /\ entry'[s].session = entry[s].session
      BY <1>1, <1>2, <2>2, <2>4, AcquiredType
    <3>2. \/ entry'[s] = entry[s]
          \/ ~entry'[s].grace /\ entry'[s].refCount # 0
      BY <1>2, <2>2, AcquiredType
    <3> QED BY <2>1, <3>1, <3>2
  <2> QED BY <2>3, <2>4
<1>5. OneLogin' /\ GraceWhenUnheld'
  BY <1>4 DEF OneLogin, GraceWhenUnheld, Present
<1> QED BY <1>3, <1>5 DEF ManagerInv

LEMMA ReleasedType ==
  ASSUME ManagerInv, NEW s \in Servers, NEW n \in Nat
  PROVE  /\ Released(s, n) \in Entry
         /\ Released(s, n).session = entry[s].session
         /\ Present(s) => (Released(s, n).grace <=> Released(s, n).refCount = 0)
<1>1. /\ entry[s] \in Entry
      /\ Present(s) => (entry[s].grace <=> entry[s].refCount = 0)
  BY DEF ManagerInv, ManagerTypeOK, GraceWhenUnheld
<1>2. CASE n = 0 \/ ~Present(s)
  BY <1>1, <1>2 DEF Released
<1>3. CASE n # 0 /\ Present(s)
  <2> DEFINE left == IF entry[s].refCount > n THEN entry[s].refCount - n ELSE 0
             grace == entry[s].grace \/ left = 0
  <2>1. Released(s, n) = [entry[s] EXCEPT !.refCount = left, !.grace = grace]
    BY <1>3 DEF Released
  <2>2. left \in Nat /\ grace \in BOOLEAN /\ (grace <=> left = 0)
    BY <1>1, <1>3 DEF Entry
  <2> HIDE DEF left, grace
  <2> QED BY <1>1, <2>1, <2>2 DEF Entry
<1> QED BY <1>2, <1>3

LEMMA ReleaseInv ==
  ASSUME ManagerInv, UNCHANGED <<opened, live>>, entry' \in [Servers -> Entry],
         \A s \in Servers :
           /\ entry'[s].session = entry[s].session
           /\ Present(s) => (entry'[s].grace <=> entry'[s].refCount = 0)
  PROVE  ManagerInv'
BY DEF ManagerInv, ManagerTypeOK, OneLogin, GraceWhenUnheld, Present

LEMMA ReleaseCountInv ==
  ASSUME ManagerInv, NEW count \in Counts, Release(count)
  PROVE  ManagerInv'
<1>1. entry' = [s \in Servers |-> Released(s, count[s])] /\ UNCHANGED <<opened, live>>
  BY DEF Release
<1> QED BY <1>1, ReleasedType, ReleaseInv DEF Counts

LEMMA ReleaseSessionInv ==
  ASSUME ManagerInv, NEW s \in Servers, NEW session, ReleaseSession(s, session)
  PROVE  ManagerInv'
<1>1. UNCHANGED <<opened, live>>
  BY DEF ReleaseSession
<1>2. /\ entry \in [Servers -> Entry]
      /\ \A x \in Servers : Present(x) => (entry[x].grace <=> entry[x].refCount = 0)
  BY DEF ManagerInv, ManagerTypeOK, GraceWhenUnheld
<1>3. /\ entry' \in [Servers -> Entry]
      /\ \A x \in Servers :
           /\ entry'[x].session = entry[x].session
           /\ Present(x) => (entry'[x].grace <=> entry'[x].refCount = 0)
  <2>1. CASE entry' = entry
    BY <1>2, <2>1
  <2>2. CASE entry' = [entry EXCEPT ![s] = Released(s, 1)]
    BY <1>2, <2>2, ReleasedType
  <2> QED BY <2>1, <2>2 DEF ReleaseSession
<1> QED BY <1>1, <1>3, ReleaseInv

LEMMA EmptyEntry == NoEntry \in Entry /\ NoEntry.session = 0
BY DEF NoEntry, Entry

LEMMA GraceExpiresInv ==
  ASSUME ManagerInv, NEW s \in Servers, GraceExpires(s) PROVE ManagerInv'
<1>1. /\ entry' = [entry EXCEPT ![s] = NoEntry] /\ opened' = opened
      /\ live' = [live EXCEPT ![s] = @ \ {entry[s].session}]
  BY DEF GraceExpires
<1> QED BY <1>1, EmptyEntry DEF ManagerInv, ManagerTypeOK, OneLogin, GraceWhenUnheld, Present

LEMMA DropUserInv == ASSUME ManagerInv, DropUser PROVE ManagerInv'
BY EmptyEntry DEF DropUser, ManagerInv, ManagerTypeOK, OneLogin, GraceWhenUnheld, Present

LEMMA EndInv ==
  ASSUME ManagerInv, NEW s \in Servers, CloseForDmaUser(s) \/ SessionEnds(s)
  PROVE  ManagerInv'
<1>1. /\ UNCHANGED <<opened, live>>
      /\ \E end \in {"failed", "refused"} : entry' = [entry EXCEPT ![s].state = end]
  BY DEF CloseForDmaUser, SessionEnds
<1>2. /\ entry' \in [Servers -> Entry]
      /\ \A x \in Servers :
           /\ entry'[x].session = entry[x].session
           /\ Present(x) => (entry'[x].grace <=> entry'[x].refCount = 0)
  BY <1>1 DEF ManagerInv, ManagerTypeOK, Entry, GraceWhenUnheld
<1> QED BY <1>1, <1>2, ReleaseInv

-----------------------------------------------------------------------------
IInv == TypeOK /\ ManagerInv

LEMMA InitIInv == Init => IInv
<1> SUFFICES ASSUME Init PROVE IInv
  OBVIOUS
<1>1. ManagerInv
  BY EmptyEntry
     DEF Init, ManagerInit, ManagerInv, ManagerTypeOK, OneLogin, GraceWhenUnheld, Present
<1>2. TypeOK
  BY <1>1 DEF Init, TypeOK, Conn, Nothing, ManagerInv
<1> QED BY <1>1, <1>2 DEF IInv

(* The parts of TypeOK that are not the manager's. *)
FanoutTypeOK ==
  /\ tab \in [Tabs -> Conn]
  /\ conns \in SUBSET {t \in Tabs : tab[t].phase \in {"open", "leaving"}}
  /\ bound \in [Servers -> Nat]
  /\ lookups \in Nat
  /\ visits \in Nat

LEMMA TypeParts ==
  TypeOK <=> /\ ManagerTypeOK /\ plan \in SUBSET Servers /\ plan # {}
             /\ FanoutTypeOK /\ sweep \in [Servers -> Nat]
BY DEF TypeOK, FanoutTypeOK

LEMMA BindType ==
  ASSUME TypeOK, ManagerTypeOK', NEW S, Bind(S)
  PROVE  bound' \in [Servers -> Nat]
BY DEF TypeOK, ManagerTypeOK, Entry, Bind

LEMMA ConnectInv == ASSUME IInv, NEW t \in Tabs, Connect(t) PROVE IInv'
<1>1. ManagerInv'
  BY DEF IInv, ManagerInv, ManagerTypeOK, OneLogin, GraceWhenUnheld, Present, Connect, manager
<1>2. [phase |-> "auth", acquired |-> Nothing] \in Conn
  BY DEF Conn, Nothing
<1>3. FanoutTypeOK'
  BY <1>2 DEF IInv, TypeOK, FanoutTypeOK, Connect
<1> QED BY <1>1, <1>3, TypeParts DEF IInv, ManagerInv, FanoutTypeOK, Connect, TypeOK

LEMMA AuthenticateInv == ASSUME IInv, NEW t \in Tabs, Authenticate(t) PROVE IInv'
<1> DEFINE want == [s \in Servers |-> IF s \in plan THEN 1 ELSE 0]
<1>1. want \in Counts
  BY DEF Counts
<1>2. Acquire(want) /\ tab' = [tab EXCEPT ![t] = [phase |-> "open", acquired |-> want]]
  BY DEF Authenticate
<1> HIDE DEF want
<1>3. ManagerInv'
  BY <1>1, <1>2, AcquireInv DEF IInv
<1>4. [phase |-> "open", acquired |-> want] \in Conn
  BY <1>1 DEF Conn, Counts
<1>5. tab' \in [Tabs -> Conn]
  BY <1>2, <1>4 DEF IInv, TypeOK
<1>6. conns' \in SUBSET {x \in Tabs : tab'[x].phase \in {"open", "leaving"}}
  BY <1>2 DEF IInv, TypeOK, Authenticate
<1>7. bound' \in [Servers -> Nat]
  BY <1>3, BindType DEF IInv, ManagerInv, Authenticate
<1> QED BY <1>3, <1>5, <1>6, <1>7 DEF IInv, TypeOK, ManagerInv, Authenticate

LEMMA RefreshResumesInv == ASSUME IInv, RefreshResumes PROVE IInv'
<1> DEFINE S == IF conns = {} THEN {} ELSE Missing
           add == [s \in Servers |-> IF s \in S THEN 1 ELSE 0]
           count == [s \in Servers |-> IF s \in S THEN Cardinality(conns) ELSE 0]
<1>1. count \in Counts /\ add \in Counts
  <2>1. Cardinality(conns) \in Nat
    BY TabsAssumption, FS_Subset, FS_CardinalityType DEF IInv, TypeOK
  <2> QED BY <2>1 DEF Counts
<1>2. /\ Acquire(count) /\ UNCHANGED conns
      /\ tab' = [c \in Tabs |-> IF c \in conns
                   THEN [tab[c] EXCEPT !.acquired = [s \in Servers |-> @[s] + add[s]]]
                   ELSE tab[c]]
      /\ UNCHANGED bound \/ Bind(S)
  BY DEF RefreshResumes
<1> HIDE DEF count, add, S
<1>3. ManagerInv'
  BY <1>1, <1>2, AcquireInv DEF IInv
<1>4. ASSUME NEW c \in Tabs PROVE tab'[c] \in Conn /\ tab'[c].phase = tab[c].phase
  <2>1. tab[c] \in Conn
    BY DEF IInv, TypeOK
  <2>2. [s \in Servers |-> tab[c].acquired[s] + add[s]] \in Counts
    BY <1>1, <2>1 DEF Conn, Counts
  <2> QED BY <1>2, <2>1, <2>2 DEF Conn, Counts
<1>5. tab' \in [Tabs -> Conn]
  BY <1>2, <1>4
<1>6. conns' \in SUBSET {x \in Tabs : tab'[x].phase \in {"open", "leaving"}}
  BY <1>2, <1>4 DEF IInv, TypeOK
<1>7. bound' \in [Servers -> Nat]
  BY <1>2, <1>3, BindType DEF IInv, ManagerInv, TypeOK
<1>8. lookups' \in Nat
  BY DEF IInv, TypeOK, RefreshResumes
<1> QED BY <1>3, <1>5, <1>6, <1>7, <1>8 DEF IInv, TypeOK, ManagerInv, RefreshResumes

(* Steps of the fan-out that leave the manager alone. *)
LEMMA FanoutOnlyInv ==
  ASSUME IInv, RefreshAsked \/ RefreshFails \/ (\E t \in Tabs : ServerCloses(t)) \/ PlanChanges
  PROVE  IInv'
<1>1. UNCHANGED manager
  BY DEF RefreshAsked, RefreshFails, ServerCloses, PlanChanges
<1>2. ManagerInv'
  BY <1>1 DEF IInv, ManagerInv, ManagerTypeOK, OneLogin, GraceWhenUnheld, Present, manager
<1>3. CASE RefreshAsked \/ RefreshFails \/ PlanChanges
  BY <1>2, <1>3 DEF IInv, ManagerInv, TypeOK, RefreshAsked, RefreshFails, PlanChanges, fanout
<1>4. ASSUME NEW t \in Tabs, ServerCloses(t) PROVE TypeOK'
  <2>1. [tab[t] EXCEPT !.phase = "leaving"] \in Conn
    BY DEF IInv, TypeOK, Conn
  <2>2. tab' \in [Tabs -> Conn] /\ tab' = [tab EXCEPT ![t].phase = "leaving"]
    BY <1>4, <2>1 DEF IInv, TypeOK, ServerCloses
  <2>3. conns' \in SUBSET {x \in Tabs : tab'[x].phase \in {"open", "leaving"}}
    BY <1>4, <2>2 DEF IInv, TypeOK, Conn, ServerCloses
  <2> QED BY <1>2, <1>4, <2>2, <2>3 DEF IInv, ManagerInv, TypeOK, ServerCloses
<1> QED BY <1>2, <1>3, <1>4 DEF IInv

LEMMA ClosedInv == ASSUME IInv, NEW t \in Tabs, Closed(t) PROVE IInv'
<1>1. tab[t].acquired \in Counts
  BY DEF IInv, TypeOK, Conn, Counts
<1>2. ManagerInv'
  BY <1>1, ReleaseCountInv DEF IInv, Closed
<1>3. [phase |-> "gone", acquired |-> Nothing] \in Conn
  BY DEF Conn, Nothing
<1>4. tab' \in [Tabs -> Conn]
  BY <1>3 DEF IInv, TypeOK, Closed
<1>5. conns' \in SUBSET {x \in Tabs : tab'[x].phase \in {"open", "leaving"}}
  BY DEF IInv, TypeOK, Closed
<1>6. bound' \in [Servers -> Nat]
  BY DEF IInv, TypeOK, Closed, Nothing
<1> QED BY <1>2, <1>4, <1>5, <1>6 DEF IInv, TypeOK, ManagerInv, Closed

LEMMA ResyncUserInv == ASSUME IInv, ResyncUser PROVE IInv'
<1>1. ManagerInv'
  BY DropUserInv DEF IInv, ResyncUser
<1>2. [phase |-> "leaving", acquired |-> Nothing] \in Conn
  BY DEF Conn, Nothing
<1>3. tab' \in [Tabs -> Conn]
  BY <1>2 DEF IInv, TypeOK, ResyncUser
<1>4. conns' = {} /\ bound' \in [Servers -> Nat]
  BY DEF ResyncUser, Nothing
<1> QED BY <1>1, <1>3, <1>4 DEF IInv, TypeOK, ManagerInv, ResyncUser

LEMMA SweepInv ==
  ASSUME IInv, NEW s \in Servers, SweepStarts(s) \/ SweepEnds(s) PROVE IInv'
<1>1. CASE SweepStarts(s)
  <2>1. [x \in Servers |-> IF x = s THEN 1 ELSE 0] \in Counts
    BY DEF Counts
  <2>2. ManagerInv'
    BY <1>1, <2>1, AcquireInv DEF IInv, SweepStarts
  <2>3. sweep' \in [Servers -> Nat]
    BY <1>1, <2>2 DEF IInv, TypeOK, ManagerInv, ManagerTypeOK, Entry, SweepStarts
  <2> QED BY <1>1, <2>2, <2>3 DEF IInv, TypeOK, ManagerInv, SweepStarts, fanout
<1>2. CASE SweepEnds(s)
  <2>1. ManagerInv'
    BY <1>2, ReleaseSessionInv DEF IInv, SweepEnds
  <2>2. sweep' \in [Servers -> Nat]
    BY <1>2 DEF IInv, TypeOK, SweepEnds
  <2> QED BY <1>2, <2>1, <2>2 DEF IInv, TypeOK, ManagerInv, SweepEnds, fanout
<1> QED BY <1>1, <1>2

LEMMA ManagerOnlyInv ==
  ASSUME IInv, NEW s \in Servers, GraceTimer(s) \/ AdminCloses(s) \/ LineEnds(s) PROVE IInv'
<1>1. ManagerInv'
  BY GraceExpiresInv, EndInv DEF IInv, GraceTimer, AdminCloses, LineEnds
<1> QED BY <1>1 DEF IInv, TypeOK, ManagerInv, GraceTimer, AdminCloses, LineEnds, fanout

LEMMA StepIInv == IInv /\ [Next]_vars => IInv'
<1> SUFFICES ASSUME IInv, [Next]_vars PROVE IInv'
  OBVIOUS
<1>1. CASE \E t \in Tabs : Connect(t) \/ Authenticate(t) \/ ServerCloses(t) \/ Closed(t)
  BY <1>1, ConnectInv, AuthenticateInv, FanoutOnlyInv, ClosedInv
<1>2. CASE RefreshAsked \/ RefreshResumes \/ RefreshFails \/ ResyncUser \/ PlanChanges
  BY <1>2, FanoutOnlyInv, RefreshResumesInv, ResyncUserInv
<1>3. CASE \E s \in Servers : SweepStarts(s) \/ SweepEnds(s)
                                \/ GraceTimer(s) \/ AdminCloses(s) \/ LineEnds(s)
  BY <1>3, SweepInv, ManagerOnlyInv
<1>4. CASE UNCHANGED vars
  BY <1>4 DEF IInv, TypeOK, ManagerInv, ManagerTypeOK, OneLogin, GraceWhenUnheld, Present,
              vars, manager, fanout
<1> QED BY <1>1, <1>2, <1>3, <1>4 DEF Next

LEMMA Invariance == Spec => []IInv
BY InitIInv, StepIInv, PTL DEF Spec

(* Type correctness of the manager, the connections and the sweeps.        *)
THEOREM TypeCorrect == Spec => []TypeOK
<1>1. IInv => TypeOK
  BY DEF IInv
<1> QED BY <1>1, Invariance, PTL

(* A user never has two logins on one order server: a session that is      *)
(* replaced, dropped or whose grace ends was closed (session-manager.ts    *)
(* acquireOn, release, dropUser).                                          *)
THEOREM OneLoginPerServer == Spec => []OneLogin
<1>1. IInv => OneLogin
  BY DEF IInv, ManagerInv
<1> QED BY <1>1, Invariance, PTL

(* The grace timer of a session runs exactly while its count is 0, whoever *)
(* takes it up or lets it go again, tabs and sweeps (session-manager.ts    *)
(* release, releaseSession).                                               *)
THEOREM GraceFollowsTheCount == Spec => []GraceWhenUnheld
<1>1. IInv => GraceWhenUnheld
  BY DEF IInv, ManagerInv
<1> QED BY <1>1, Invariance, PTL

-----------------------------------------------------------------------------
(* Numbered sets: what the tabs hold of one server.                        *)
LEMMA NumberedMember ==
  ASSUME NEW f \in [Tabs -> Nat]
  PROVE  /\ \A x : x \in Numbered(f) <=> \E t \in Tabs : \E i \in 1..f[t] : x = <<t, i>>
         /\ \A t \in Tabs, i \in Nat : <<t, i>> \in Numbered(f) <=> i \in 1..f[t]
<1>1. ASSUME NEW x
      PROVE  x \in Numbered(f) <=> \E t \in Tabs : \E i \in 1..f[t] : x = <<t, i>>
  BY DEF Numbered
<1>2. ASSUME NEW t \in Tabs, NEW i \in Nat
      PROVE  <<t, i>> \in Numbered(f) <=> i \in 1..f[t]
  <2>1. ASSUME NEW u \in Tabs, NEW j \in 1..f[u], <<t, i>> = <<u, j>>
        PROVE  i \in 1..f[t]
    <3>1. t = u /\ i = j
      BY <2>1
    <3> QED BY <3>1
  <2>2. <<t, i>> \in Numbered(f) => i \in 1..f[t]
    BY <1>1, <2>1
  <2>3. i \in 1..f[t] => <<t, i>> \in Numbered(f)
    BY <1>1
  <2> QED BY <2>2, <2>3
<1> QED BY <1>1, <1>2

LEMMA NothingNumbered ==
  ASSUME NEW f \in [Tabs -> Nat]
  PROVE  /\ (\A t \in Tabs : f[t] = 0) => Numbered(f) = {}
         /\ Numbered(f) = {} => \A t \in Tabs : f[t] = 0
<1>1. ASSUME \A t \in Tabs : f[t] = 0 PROVE Numbered(f) = {}
  <2>1. \A t \in Tabs : 1..f[t] = {}
    BY <1>1
  <2> QED BY <2>1, NumberedMember
<1>2. ASSUME NEW t \in Tabs, f[t] # 0 PROVE Numbered(f) # {}
  <2>1. 1 \in 1..f[t]
    BY <1>2
  <2> QED BY <2>1, NumberedMember
<1> QED BY <1>1, <1>2

(* Some tabs hold one more.                                                *)
LEMMA OneMoreEach ==
  ASSUME NEW f \in [Tabs -> Nat], IsFiniteSet(Numbered(f)), NEW C \in SUBSET Tabs,
         NEW g \in [Tabs -> Nat], \A t \in Tabs : g[t] = IF t \in C THEN f[t] + 1 ELSE f[t]
  PROVE  /\ IsFiniteSet(Numbered(g))
         /\ Cardinality(Numbered(g)) = Cardinality(Numbered(f)) + Cardinality(C)
<1> DEFINE new == {<<t, f[t] + 1>> : t \in C}
           b == [t \in C |-> <<t, f[t] + 1>>]
<1>1. IsFiniteSet(C)
  BY TabsAssumption, FS_Subset
<1>2. IsFiniteSet(new) /\ Cardinality(new) = Cardinality(C)
  <2>1. b \in Bijection(C, new)
    BY DEF Bijection, Injection, Surjection, IsInjective
  <2>2. ExistsBijection(C, new)
    BY <2>1 DEF ExistsBijection
  <2> QED BY <1>1, <2>2, FS_Bijection
<1>3. Numbered(f) \cap new = {}
  BY NumberedMember
<1>4. Numbered(g) = Numbered(f) \cup new
  <2>1. ASSUME NEW t \in Tabs
        PROVE  1..g[t] = (1..f[t]) \cup (IF t \in C THEN {f[t] + 1} ELSE {})
    OBVIOUS
  <2>2. Numbered(g) \subseteq Numbered(f) \cup new
    BY <2>1, NumberedMember
  <2>3. Numbered(f) \cup new \subseteq Numbered(g)
    BY <2>1, NumberedMember
  <2> QED BY <2>2, <2>3
<1> HIDE DEF new, b
<1>5. /\ IsFiniteSet(Numbered(f) \cup new)
      /\ Cardinality(Numbered(f) \cup new)
           = Cardinality(Numbered(f)) + Cardinality(new) - Cardinality({})
  BY <1>2, <1>3, FS_Union
<1>6. /\ Cardinality({}) = 0
      /\ Cardinality(Numbered(f)) \in Nat /\ Cardinality(new) \in Nat
  BY <1>2, FS_EmptySet, FS_CardinalityType
<1> QED BY <1>2, <1>4, <1>5, <1>6

(* One tab gives all back.                                                 *)
LEMMA OneGivesBack ==
  ASSUME NEW f \in [Tabs -> Nat], IsFiniteSet(Numbered(f)), NEW t \in Tabs,
         NEW g \in [Tabs -> Nat], \A u \in Tabs : g[u] = IF u = t THEN 0 ELSE f[u]
  PROVE  /\ IsFiniteSet(Numbered(g))
         /\ f[t] <= Cardinality(Numbered(f))
         /\ Cardinality(Numbered(g)) = Cardinality(Numbered(f)) - f[t]
<1> DEFINE old == {t} \X (1..f[t])
<1>1. IsFiniteSet(old) /\ Cardinality(old) = f[t]
  <2>1. IsFiniteSet({t}) /\ Cardinality({t}) = 1
    BY FS_Singleton
  <2>2. IsFiniteSet(1..f[t]) /\ Cardinality(1..f[t]) = f[t]
    BY FS_Interval
  <2> HIDE DEF old
  <2>3. IsFiniteSet(old) /\ Cardinality(old) = Cardinality({t}) * Cardinality(1..f[t])
    BY <2>1, <2>2, FS_Product DEF old
  <2>4. f[t] \in Nat
    OBVIOUS
  <2> QED BY <2>1, <2>2, <2>3, <2>4
<1>2. old \subseteq Numbered(f)
  BY NumberedMember
<1>3. Numbered(g) = Numbered(f) \ old
  <2>1. 1..g[t] = {} /\ \A u \in Tabs \ {t} : g[u] = f[u]
    OBVIOUS
  <2>2. Numbered(g) \subseteq Numbered(f) \ old
    BY <2>1, NumberedMember
  <2>3. Numbered(f) \ old \subseteq Numbered(g)
    BY <2>1, NumberedMember
  <2> QED BY <2>2, <2>3
<1>4. Numbered(f) \cap old = old
  BY <1>2
<1> HIDE DEF old
<1>5. Cardinality(old) <= Cardinality(Numbered(f))
  BY <1>2, FS_Subset
<1>6. /\ IsFiniteSet(Numbered(f) \ old)
      /\ Cardinality(Numbered(f) \ old) = Cardinality(Numbered(f)) - Cardinality(old)
  BY <1>4, FS_Difference
<1> QED BY <1>1, <1>3, <1>5, <1>6

-----------------------------------------------------------------------------
(* The count of an entry is the number of its holders: what the tabs hold, *)
(* numbered, and the sweep.  A session is numbered by its login, so what a *)
(* sweep holds is never taken for a session opened later; a tab that is    *)
(* not registered yet holds nothing, so an authentication counts from 0.   *)
Hold(s)  == [t \in Tabs |-> tab[t].acquired[s]]
Swept(s) == IF sweep[s] # 0 /\ sweep[s] = entry[s].session THEN 1 ELSE 0

CountsAt(s) ==
  /\ IsFiniteSet(Held(s))
  /\ Present(s) => entry[s].refCount = Cardinality(Held(s)) + Swept(s)
  /\ \A t \in Tabs : tab[t].acquired[s] > 0 => Present(s)
  /\ entry[s].session <= opened[s] /\ sweep[s] <= opened[s]

NewTabsHoldNothing ==
  \A t \in Tabs : tab[t].phase \in {"gone", "auth"} => tab[t].acquired = Nothing

CInv == IInv /\ NewTabsHoldNothing /\ \A s \in Servers : CountsAt(s)

LEMMA CountsAreHolders == CInv => RefCountsHolders /\ HeldIsOpen
BY DEF CInv, CountsAt, RefCountsHolders, HeldIsOpen, Holders, Swept

LEMMA HoldType ==
  ASSUME IInv, NEW s \in Servers
  PROVE  /\ Hold(s) \in [Tabs -> Nat] /\ Held(s) = Numbered(Hold(s))
         /\ \A t \in Tabs : Hold(s)[t] = tab[t].acquired[s]
BY DEF IInv, TypeOK, Conn, Hold, Held

LEMMA EntryType ==
  ASSUME IInv, NEW s \in Servers
  PROVE  /\ entry[s].session \in Nat /\ entry[s].refCount \in Nat
         /\ opened[s] \in Nat /\ sweep[s] \in Nat
BY DEF IInv, TypeOK, ManagerTypeOK, Entry

LEMMA UnheldIsEmpty ==
  ASSUME CInv, NEW s \in Servers, ~Present(s) \/ entry[s].refCount = 0
  PROVE  /\ Cardinality(Held(s)) = 0 /\ (Present(s) => Swept(s) = 0)
         /\ \A t \in Tabs : tab[t].acquired[s] = 0
<1>1. /\ IsFiniteSet(Held(s)) /\ Cardinality(Held(s)) \in Nat
      /\ Hold(s) \in [Tabs -> Nat] /\ Held(s) = Numbered(Hold(s))
      /\ \A t \in Tabs : Hold(s)[t] = tab[t].acquired[s]
  BY HoldType, FS_CardinalityType DEF CInv, CountsAt
<1>2. CASE ~Present(s)
  <2>1. \A t \in Tabs : Hold(s)[t] = 0
    BY <1>1, <1>2 DEF CInv, CountsAt
  <2> QED BY <1>1, <1>2, <2>1, NothingNumbered, FS_EmptySet
<1>3. CASE Present(s) /\ entry[s].refCount = 0
  <2>1. Cardinality(Held(s)) + Swept(s) = 0
    BY <1>3 DEF CInv, CountsAt
  <2>2. Cardinality(Held(s)) = 0 /\ Swept(s) = 0
    BY <1>1, <2>1 DEF Swept
  <2> QED BY <1>1, <2>2, NothingNumbered, FS_EmptySet
<1> QED BY <1>2, <1>3

(* Acquisitions are counted, on a session that stays and on a new one.     *)
LEMMA AcquireCounts ==
  ASSUME CInv, NEW count \in Counts, Acquire(count), NEW s \in Servers
  PROVE  /\ opened'[s] \in Nat /\ opened[s] <= opened'[s]
         /\ entry'[s].session \in Nat /\ entry'[s].session <= opened'[s]
         /\ count[s] > 0 \/ Present(s) => entry'[s].session # 0
         /\ entry'[s].session # 0 =>
              entry'[s].refCount = Cardinality(Held(s)) + count[s]
                + (IF sweep[s] # 0 /\ sweep[s] = entry'[s].session THEN 1 ELSE 0)
<1> DEFINE new == {x \in Servers : count[x] > 0 /\ Opens(x)}
<1>1. /\ entry'[s] = Acquired(s, count[s])
      /\ opened'[s] = IF s \in new THEN opened[s] + 1 ELSE opened[s]
  BY DEF Acquire
<1>2. /\ entry[s].session \in Nat /\ entry[s].refCount \in Nat
      /\ opened[s] \in Nat /\ sweep[s] \in Nat /\ count[s] \in Nat
      /\ entry[s].session <= opened[s] /\ sweep[s] <= opened[s]
  BY EntryType DEF CInv, CountsAt, Counts
<1>3. /\ IsFiniteSet(Held(s)) /\ Cardinality(Held(s)) \in Nat
      /\ Present(s) => entry[s].refCount = Cardinality(Held(s)) + Swept(s)
  BY FS_CardinalityType DEF CInv, CountsAt
<1>4. CASE count[s] = 0
  <2>1. entry'[s] = entry[s] /\ opened'[s] = opened[s]
    BY <1>1, <1>4 DEF Acquired
  <2> QED BY <1>2, <1>3, <1>4, <2>1 DEF Swept, Present
<1>5. CASE count[s] > 0 /\ Opens(s)
  <2>1. /\ opened'[s] = opened[s] + 1
        /\ entry'[s].session = opened[s] + 1 /\ entry'[s].refCount = count[s]
    BY <1>1, <1>5 DEF Acquired
  <2>2. Cardinality(Held(s)) = 0
    BY <1>5, UnheldIsEmpty DEF Opens
  <2> QED BY <1>2, <2>1, <2>2
<1>6. CASE count[s] > 0 /\ ~Opens(s)
  <2>1. opened'[s] = opened[s] /\ Present(s)
    BY <1>1, <1>6 DEF Opens
  <2>2. /\ entry'[s].session = entry[s].session
        /\ entry'[s].refCount = entry[s].refCount + count[s]
    <3>1. entry[s] \in Entry
      BY DEF CInv, IInv, TypeOK, ManagerTypeOK
    <3>2. entry'[s] = [entry[s] EXCEPT !.refCount = @ + count[s], !.grace = FALSE]
      BY <1>1, <1>6 DEF Acquired
    <3> QED BY <3>1, <3>2 DEF Entry
  <2> QED BY <1>2, <1>3, <1>6, <2>1, <2>2 DEF Swept, Present
<1> QED BY <1>2, <1>4, <1>5, <1>6

(* Some tabs acquired: each of them holds one more of some servers.        *)
LEMMA TabsAcquire ==
  ASSUME CInv, IInv', NEW count \in Counts, Acquire(count), sweep' = sweep,
         NEW s \in Servers, NEW C \in SUBSET Tabs, count[s] = Cardinality(C),
         \A t \in Tabs : tab'[t].acquired[s] =
                           IF t \in C THEN tab[t].acquired[s] + 1 ELSE tab[t].acquired[s]
  PROVE  CountsAt(s)'
<1>1. /\ Hold(s) \in [Tabs -> Nat] /\ Held(s) = Numbered(Hold(s))
      /\ \A t \in Tabs : Hold(s)[t] = tab[t].acquired[s]
  BY HoldType DEF CInv
<1>2. /\ Hold(s)' \in [Tabs -> Nat] /\ Held(s)' = Numbered(Hold(s)')
      /\ \A t \in Tabs : Hold(s)'[t] = tab'[t].acquired[s]
  BY DEF IInv, TypeOK, Conn, Hold, Held, Numbered
<1>3. /\ IsFiniteSet(Held(s)')
      /\ Cardinality(Held(s)') = Cardinality(Held(s)) + count[s]
  BY <1>1, <1>2, OneMoreEach DEF CInv, CountsAt
<1>4. /\ opened'[s] \in Nat /\ opened[s] <= opened'[s] /\ opened[s] \in Nat
      /\ entry'[s].session <= opened'[s]
      /\ count[s] > 0 \/ Present(s) => entry'[s].session # 0
      /\ entry'[s].session # 0 =>
           entry'[s].refCount = Cardinality(Held(s)) + count[s]
             + (IF sweep[s] # 0 /\ sweep[s] = entry'[s].session THEN 1 ELSE 0)
  BY AcquireCounts, EntryType DEF CInv
<1>5. sweep'[s] <= opened'[s]
  BY <1>4, EntryType DEF CInv, CountsAt
<1>6. ASSUME NEW t \in Tabs, tab'[t].acquired[s] > 0 PROVE entry'[s].session # 0
  <2>1. CASE t \in C
    <3>1. IsFiniteSet(C) /\ C # {}
      BY <2>1, TabsAssumption, FS_Subset
    <3>2. count[s] \in Nat /\ count[s] # 0
      BY <3>1, FS_EmptySet, FS_CardinalityType
    <3> QED BY <1>4, <3>2
  <2>2. CASE t \notin C
    BY <1>4, <1>6, <2>2 DEF CInv, CountsAt
  <2> QED BY <2>1, <2>2
<1> QED BY <1>3, <1>4, <1>5, <1>6 DEF CountsAt, Swept, Present

LEMMA AuthenticateCounts ==
  ASSUME CInv, IInv', NEW t \in Tabs, Authenticate(t) PROVE CInv'
<1> DEFINE want == [s \in Servers |-> IF s \in plan THEN 1 ELSE 0]
<1>1. /\ Acquire(want) /\ sweep' = sweep /\ tab[t].phase = "auth"
      /\ tab' = [tab EXCEPT ![t] = [phase |-> "open", acquired |-> want]]
  BY DEF Authenticate
<1>2. tab \in [Tabs -> Conn]
  BY DEF CInv, IInv, TypeOK
<1>3. ASSUME NEW s \in Servers PROVE CountsAt(s)'
  <2> DEFINE C == IF s \in plan THEN {t} ELSE {}
  <2>1. want \in Counts /\ C \in SUBSET Tabs /\ want[s] = Cardinality(C)
    BY FS_EmptySet, FS_Singleton DEF Counts
  <2>2. tab[t].acquired[s] = 0
    BY <1>1 DEF CInv, NewTabsHoldNothing, Nothing
  <2>3. \A u \in Tabs : tab'[u].acquired[s] =
                          IF u \in C THEN tab[u].acquired[s] + 1 ELSE tab[u].acquired[s]
    BY <1>1, <1>2, <2>2
  <2> HIDE DEF C, want
  <2> QED BY <1>1, <2>1, <2>3, TabsAcquire
<1>4. NewTabsHoldNothing'
  BY <1>1, <1>2 DEF CInv, NewTabsHoldNothing
<1> QED BY <1>3, <1>4 DEF CInv

LEMMA RefreshResumesCounts ==
  ASSUME CInv, IInv', RefreshResumes PROVE CInv'
<1> DEFINE S == IF conns = {} THEN {} ELSE Missing
           add == [s \in Servers |-> IF s \in S THEN 1 ELSE 0]
           count == [s \in Servers |-> IF s \in S THEN Cardinality(conns) ELSE 0]
<1>1. /\ Acquire(count) /\ sweep' = sweep
      /\ tab' = [c \in Tabs |-> IF c \in conns
                   THEN [tab[c] EXCEPT !.acquired = [s \in Servers |-> @[s] + add[s]]]
                   ELSE tab[c]]
  BY DEF RefreshResumes
<1>2. /\ tab \in [Tabs -> Conn] /\ conns \in SUBSET Tabs
      /\ \A c \in conns : tab[c].phase \in {"open", "leaving"}
  BY DEF CInv, IInv, TypeOK
<1>3. count \in Counts
  BY <1>2, TabsAssumption, FS_Subset, FS_CardinalityType DEF Counts
<1>4. ASSUME NEW c \in Tabs
      PROVE  /\ tab'[c].phase = tab[c].phase
             /\ c \notin conns => tab'[c] = tab[c]
             /\ \A s \in Servers : c \in conns => tab'[c].acquired[s] = tab[c].acquired[s] + add[s]
  <2>1. CASE c \in conns
    <3>1. tab'[c] = [tab[c] EXCEPT !.acquired = [s \in Servers |-> tab[c].acquired[s] + add[s]]]
      BY <1>1, <2>1
    <3> HIDE DEF add
    <3> QED BY <1>2, <2>1, <3>1 DEF Conn
  <2>2. CASE c \notin conns
    BY <1>1, <2>2
  <2> QED BY <2>1, <2>2
<1>5. ASSUME NEW s \in Servers PROVE CountsAt(s)'
  <2> DEFINE C == IF s \in S THEN conns ELSE {}
  <2>1. C \in SUBSET Tabs /\ count[s] = Cardinality(C)
    BY <1>2, FS_EmptySet
  <2>2. \A u \in Tabs : tab[u].acquired[s] \in Nat
    BY <1>2 DEF Conn
  <2>3. \A u \in Tabs : tab'[u].acquired[s] =
                          IF u \in C THEN tab[u].acquired[s] + 1 ELSE tab[u].acquired[s]
    BY <1>4, <2>2
  <2> HIDE DEF C, count
  <2> QED BY <1>1, <1>3, <2>1, <2>3, TabsAcquire
<1>6. NewTabsHoldNothing'
  BY <1>2, <1>4 DEF CInv, NewTabsHoldNothing
<1> QED BY <1>5, <1>6 DEF CInv

(* Steps after which each tab holds what it held.                          *)
LEMMA HeldStays ==
  ASSUME \A t \in Tabs : tab'[t].acquired = tab[t].acquired, NEW s \in Servers
  PROVE  Held(s)' = Held(s)
BY DEF Held, Numbered

LEMMA SweepStartsCounts ==
  ASSUME CInv, IInv', NEW s \in Servers, SweepStarts(s) PROVE CInv'
<1> DEFINE count == [x \in Servers |-> IF x = s THEN 1 ELSE 0]
<1>1. /\ Acquire(count) /\ count \in Counts /\ sweep[s] = 0 /\ tab' = tab
      /\ sweep' = [sweep EXCEPT ![s] = entry'[s].session]
  BY DEF SweepStarts, fanout, Counts
<1>2. sweep \in [Servers -> Nat]
  BY DEF CInv, IInv, TypeOK
<1>3. ASSUME NEW x \in Servers PROVE CountsAt(x)'
  <2> HIDE DEF count
  <2>1. /\ opened'[x] \in Nat /\ opened[x] <= opened'[x] /\ opened[x] \in Nat
        /\ entry'[x].session \in Nat /\ entry'[x].session <= opened'[x]
        /\ count[x] > 0 \/ Present(x) => entry'[x].session # 0
        /\ entry'[x].session # 0 =>
             entry'[x].refCount = Cardinality(Held(x)) + count[x]
               + (IF sweep[x] # 0 /\ sweep[x] = entry'[x].session THEN 1 ELSE 0)
    BY <1>1, AcquireCounts, EntryType DEF CInv
  <2>2. Held(x)' = Held(x) /\ IsFiniteSet(Held(x)) /\ Cardinality(Held(x)) \in Nat
    BY <1>1, HeldStays, FS_CardinalityType DEF CInv, CountsAt
  <2>3. count[x] = IF x = s THEN 1 ELSE 0
    BY DEF count
  <2>4. sweep'[x] = IF x = s THEN entry'[x].session ELSE sweep[x]
    BY <1>1, <1>2
  <2>5. sweep'[x] <= opened'[x]
    BY <1>2, <2>1, <2>4 DEF CInv, CountsAt
  <2>6. entry'[x].session # 0 =>
          entry'[x].refCount = Cardinality(Held(x))
             + (IF sweep'[x] # 0 /\ sweep'[x] = entry'[x].session THEN 1 ELSE 0)
    BY <1>1, <2>1, <2>2, <2>3, <2>4
  <2>7. \A t \in Tabs : tab'[t].acquired[x] > 0 => entry'[x].session # 0
    BY <1>1, <2>1 DEF CInv, CountsAt
  <2> QED BY <2>1, <2>2, <2>5, <2>6, <2>7 DEF CountsAt, Swept, Present
<1>4. NewTabsHoldNothing'
  BY <1>1 DEF CInv, NewTabsHoldNothing
<1> QED BY <1>3, <1>4 DEF CInv

(* A release of n by holders of at least n is exact.                       *)
LEMMA ReleasedCount ==
  ASSUME IInv, NEW s \in Servers, NEW n \in Nat, n <= entry[s].refCount
  PROVE  /\ Released(s, n).session = entry[s].session
         /\ Present(s) => Released(s, n).refCount = entry[s].refCount - n
<1>1. entry[s] \in [session : Nat, state : {"up", "failed", "refused"},
                    refCount : Nat, grace : BOOLEAN]
  BY DEF IInv, TypeOK, ManagerTypeOK, Entry
<1>2. CASE n = 0 \/ ~Present(s)
  BY <1>1, <1>2 DEF Released
<1>3. CASE n # 0 /\ Present(s)
  <2> DEFINE left == IF entry[s].refCount > n THEN entry[s].refCount - n ELSE 0
             grace == entry[s].grace \/ left = 0
  <2>1. Released(s, n) = [entry[s] EXCEPT !.refCount = left, !.grace = grace]
    BY <1>3 DEF Released
  <2>2. left = entry[s].refCount - n
    BY <1>1
  <2> HIDE DEF left, grace
  <2> QED BY <1>1, <2>1, <2>2
<1> QED BY <1>2, <1>3

LEMMA ClosedCounts == ASSUME CInv, IInv', NEW t \in Tabs, Closed(t) PROVE CInv'
<1>1. /\ entry' = [s \in Servers |-> Released(s, tab[t].acquired[s])]
      /\ opened' = opened /\ sweep' = sweep
      /\ tab' = [tab EXCEPT ![t] = [phase |-> "gone", acquired |-> Nothing]]
  BY DEF Closed, Release
<1>2. tab \in [Tabs -> Conn]
  BY DEF CInv, IInv, TypeOK
<1>3. ASSUME NEW s \in Servers PROVE CountsAt(s)'
  <2> DEFINE n == tab[t].acquired[s]
  <2>1. /\ Hold(s) \in [Tabs -> Nat] /\ Held(s) = Numbered(Hold(s)) /\ IsFiniteSet(Held(s))
        /\ \A u \in Tabs : Hold(s)[u] = tab[u].acquired[s]
    BY HoldType DEF CInv, CountsAt
  <2>2. /\ Hold(s)' \in [Tabs -> Nat] /\ Held(s)' = Numbered(Hold(s)')
        /\ \A u \in Tabs : Hold(s)'[u] = tab'[u].acquired[s]
    BY DEF IInv, TypeOK, Conn, Hold, Held, Numbered
  <2>3. \A u \in Tabs : tab'[u].acquired[s] = IF u = t THEN 0 ELSE tab[u].acquired[s]
    BY <1>1, <1>2 DEF Nothing
  <2>4. /\ IsFiniteSet(Held(s)') /\ n <= Cardinality(Held(s)) /\ n \in Nat
        /\ Cardinality(Held(s)') = Cardinality(Held(s)) - n
    BY <2>1, <2>2, <2>3, OneGivesBack
  <2>5. /\ Present(s) => entry[s].refCount = Cardinality(Held(s)) + Swept(s)
        /\ Cardinality(Held(s)) \in Nat /\ entry[s].refCount \in Nat
        /\ ~Present(s) => n = 0
    BY <2>1, <2>4, EntryType, FS_CardinalityType DEF CInv, CountsAt
  <2>6. n <= entry[s].refCount /\ entry'[s] = Released(s, n)
    BY <1>1, <2>4, <2>5 DEF Swept
  <2> HIDE DEF n
  <2>7. /\ entry'[s].session = entry[s].session
        /\ Present(s) => entry'[s].refCount = entry[s].refCount - n
    BY <2>4, <2>6, ReleasedCount DEF CInv
  <2>8. \A u \in Tabs : tab'[u].acquired[s] > 0 => Present(s)
    BY <2>3 DEF CInv, CountsAt
  <2>9. entry[s].session <= opened[s] /\ sweep[s] <= opened[s]
    BY DEF CInv, CountsAt
  <2> QED BY <1>1, <2>4, <2>5, <2>7, <2>8, <2>9 DEF CountsAt, Swept, Present
<1>4. NewTabsHoldNothing'
  BY <1>1, <1>2 DEF CInv, NewTabsHoldNothing
<1> QED BY <1>3, <1>4 DEF CInv

LEMMA ResyncUserCounts == ASSUME CInv, IInv', ResyncUser PROVE CInv'
<1>1. /\ entry' = [s \in Servers |-> NoEntry] /\ opened' = opened /\ sweep' = sweep
      /\ tab' = [c \in Tabs |-> IF tab[c].phase \in {"open", "leaving"}
                   THEN [phase |-> "leaving", acquired |-> Nothing] ELSE tab[c]]
  BY DEF ResyncUser, DropUser
<1>2. \A c \in Tabs : tab[c].phase \in {"gone", "auth", "open", "leaving"}
  BY DEF CInv, IInv, TypeOK, Conn
<1>3. \A c \in Tabs : tab'[c].acquired = Nothing
  BY <1>1, <1>2 DEF CInv, NewTabsHoldNothing
<1>4. ASSUME NEW s \in Servers PROVE CountsAt(s)'
  <2>1. /\ Hold(s)' \in [Tabs -> Nat] /\ Held(s)' = Numbered(Hold(s)')
        /\ \A u \in Tabs : Hold(s)'[u] = tab'[u].acquired[s]
    BY DEF IInv, TypeOK, Conn, Hold, Held, Numbered
  <2>2. \A u \in Tabs : tab'[u].acquired[s] = 0
    BY <1>3 DEF Nothing
  <2>3. IsFiniteSet(Held(s)')
    BY <2>1, <2>2, NothingNumbered, FS_EmptySet
  <2>4. entry'[s].session = 0 /\ opened[s] \in Nat /\ sweep[s] <= opened[s]
    BY <1>1, EmptyEntry, EntryType DEF CInv, CountsAt
  <2> QED BY <1>1, <2>2, <2>3, <2>4 DEF CountsAt, Present
<1>5. NewTabsHoldNothing'
  BY <1>3 DEF NewTabsHoldNothing
<1> QED BY <1>4, <1>5 DEF CInv

LEMMA SweepEndsCounts == ASSUME CInv, IInv', NEW s \in Servers, SweepEnds(s) PROVE CInv'
<1>1. /\ entry' = IF entry[s].session = sweep[s] THEN [entry EXCEPT ![s] = Released(s, 1)]
                                                 ELSE entry
      /\ opened' = opened /\ tab' = tab /\ sweep[s] # 0
      /\ sweep' = [sweep EXCEPT ![s] = 0]
  BY DEF SweepEnds, ReleaseSession, fanout
<1>2. /\ sweep \in [Servers -> Nat] /\ entry \in [Servers -> Entry]
  BY DEF CInv, IInv, TypeOK, ManagerTypeOK
<1>3. ASSUME NEW x \in Servers PROVE CountsAt(x)'
  <2>1. Held(x)' = Held(x) /\ IsFiniteSet(Held(x)) /\ Cardinality(Held(x)) \in Nat
    BY <1>1, HeldStays, FS_CardinalityType DEF CInv, CountsAt
  <2>2. /\ Present(x) => entry[x].refCount = Cardinality(Held(x)) + Swept(x)
        /\ \A t \in Tabs : tab[t].acquired[x] > 0 => Present(x)
        /\ entry[x].session <= opened[x] /\ sweep[x] <= opened[x]
        /\ opened[x] \in Nat /\ entry[x].refCount \in Nat
    BY EntryType DEF CInv, CountsAt
  <2>3. CASE x = s /\ entry[s].session = sweep[s]
    <3>1. Present(s) /\ Swept(s) = 1 /\ 1 <= entry[s].refCount
      BY <1>1, <2>1, <2>2, <2>3 DEF Swept, Present
    <3>2. /\ entry'[s].session = entry[s].session
          /\ entry'[s].refCount = entry[s].refCount - 1
      BY <1>1, <1>2, <2>3, <3>1, ReleasedCount DEF CInv
    <3>3. sweep'[s] = 0
      BY <1>1, <1>2
    <3> QED BY <1>1, <2>1, <2>2, <2>3, <3>1, <3>2, <3>3 DEF CountsAt, Swept, Present
  <2>4. CASE ~(x = s /\ entry[s].session = sweep[s])
    <3>1. entry'[x] = entry[x] /\ Swept(x)' = Swept(x) /\ sweep'[x] <= opened[x]
      BY <1>1, <1>2, <2>2, <2>4 DEF Swept
    <3> QED BY <1>1, <2>1, <2>2, <3>1 DEF CountsAt, Present
  <2> QED BY <2>3, <2>4
<1>4. NewTabsHoldNothing'
  BY <1>1 DEF CInv, NewTabsHoldNothing
<1> QED BY <1>3, <1>4 DEF CInv

(* The grace timer fires on a session nobody holds, by the count.          *)
LEMMA GraceTimerCounts == ASSUME CInv, IInv', NEW s \in Servers, GraceTimer(s) PROVE CInv'
<1>1. /\ entry' = [entry EXCEPT ![s] = NoEntry] /\ opened' = opened
      /\ tab' = tab /\ sweep' = sweep /\ entry[s].grace
  BY DEF GraceTimer, GraceExpires, fanout
<1>2. entry \in [Servers -> Entry]
  BY DEF CInv, IInv, TypeOK, ManagerTypeOK
<1>3. \A t \in Tabs : tab[t].acquired[s] = 0
  <2>1. ~Present(s) \/ entry[s].refCount = 0
    BY <1>1 DEF CInv, IInv, ManagerInv, GraceWhenUnheld
  <2> QED BY <2>1, UnheldIsEmpty
<1>4. ASSUME NEW x \in Servers PROVE CountsAt(x)'
  <2>1. Held(x)' = Held(x)
    BY <1>1, HeldStays
  <2>2. CASE x = s
    <3>1. entry'[s].session = 0 /\ opened[s] \in Nat
      BY <1>1, <1>2, EmptyEntry, EntryType DEF CInv
    <3> QED BY <1>1, <1>3, <2>1, <2>2, <3>1 DEF CInv, CountsAt, Present
  <2>3. CASE x # s
    <3>1. entry'[x] = entry[x]
      BY <1>1, <1>2, <2>3
    <3> QED BY <1>1, <2>1, <3>1 DEF CInv, CountsAt, Swept, Present
  <2> QED BY <2>2, <2>3
<1>5. NewTabsHoldNothing'
  BY <1>1 DEF CInv, NewTabsHoldNothing
<1> QED BY <1>4, <1>5 DEF CInv

(* Steps that change no holding and no count.                              *)
LEMMA CountsStay ==
  ASSUME CInv, IInv', opened' = opened, sweep' = sweep,
         \A s \in Servers : /\ entry'[s].session = entry[s].session
                            /\ entry'[s].refCount = entry[s].refCount,
         \A t \in Tabs : tab'[t].acquired = tab[t].acquired, NewTabsHoldNothing'
  PROVE  CInv'
<1>1. ASSUME NEW s \in Servers PROVE CountsAt(s)'
  <2>1. Held(s)' = Held(s)
    BY HeldStays
  <2> QED BY <2>1 DEF CInv, CountsAt, Swept, Present
<1> QED BY <1>1 DEF CInv

LEMMA OthersCount ==
  ASSUME CInv, IInv',
         \/ \E t \in Tabs : Connect(t) \/ ServerCloses(t)
         \/ RefreshAsked \/ RefreshFails \/ PlanChanges
         \/ \E s \in Servers : AdminCloses(s) \/ LineEnds(s)
         \/ UNCHANGED vars
  PROVE  CInv'
<1> USE DEF CInv
<1>1. tab \in [Tabs -> Conn] /\ entry \in [Servers -> Entry]
  BY DEF IInv, TypeOK, ManagerTypeOK
<1>2. ASSUME NEW t \in Tabs, Connect(t) PROVE CInv'
  <2>1. /\ UNCHANGED manager /\ sweep' = sweep /\ tab[t].phase = "gone"
        /\ tab' = [tab EXCEPT ![t] = [phase |-> "auth", acquired |-> Nothing]]
    BY <1>2 DEF Connect
  <2>2. tab[t].acquired = Nothing
    BY <2>1 DEF NewTabsHoldNothing
  <2>3. \A u \in Tabs : tab'[u].acquired = tab[u].acquired
    BY <1>1, <2>1, <2>2
  <2>4. NewTabsHoldNothing'
    BY <1>1, <2>1 DEF NewTabsHoldNothing
  <2> QED BY <2>1, <2>3, <2>4, CountsStay DEF manager
<1>3. ASSUME NEW t \in Tabs, ServerCloses(t) PROVE CInv'
  <2>1. /\ UNCHANGED manager /\ sweep' = sweep /\ tab' = [tab EXCEPT ![t].phase = "leaving"]
    BY <1>3 DEF ServerCloses
  <2>2. \A u \in Tabs : tab'[u].acquired = tab[u].acquired
    BY <1>1, <2>1 DEF Conn
  <2>3. NewTabsHoldNothing'
    BY <1>1, <2>1, <2>2 DEF NewTabsHoldNothing, Conn
  <2> QED BY <2>1, <2>2, <2>3, CountsStay DEF manager
<1>4. CASE RefreshAsked \/ RefreshFails \/ PlanChanges \/ UNCHANGED vars
  <2>1. UNCHANGED manager /\ sweep' = sweep /\ tab' = tab
    BY <1>4 DEF RefreshAsked, RefreshFails, PlanChanges, vars, fanout
  <2> QED BY <2>1, CountsStay DEF manager, NewTabsHoldNothing
<1>5. ASSUME NEW s \in Servers, AdminCloses(s) \/ LineEnds(s) PROVE CInv'
  <2>1. /\ opened' = opened /\ sweep' = sweep /\ tab' = tab
        /\ \E end \in {"failed", "refused"} : entry' = [entry EXCEPT ![s].state = end]
    BY <1>5 DEF AdminCloses, LineEnds, CloseForDmaUser, SessionEnds, fanout
  <2>2. \A x \in Servers : /\ entry'[x].session = entry[x].session
                           /\ entry'[x].refCount = entry[x].refCount
    BY <1>1, <2>1 DEF Entry
  <2> QED BY <2>1, <2>2, CountsStay DEF NewTabsHoldNothing
<1> QED BY <1>2, <1>3, <1>4, <1>5

LEMMA InitCInv == Init => CInv
<1> SUFFICES ASSUME Init PROVE CInv
  OBVIOUS
<1>1. IInv
  BY InitIInv
<1>2. tab = [t \in Tabs |-> [phase |-> "gone", acquired |-> Nothing]]
  BY DEF Init
<1>3. ASSUME NEW s \in Servers PROVE CountsAt(s)
  <2>1. \A t \in Tabs : Hold(s)[t] = 0 /\ tab[t].acquired[s] = 0
    BY <1>2 DEF Hold, Nothing
  <2>2. IsFiniteSet(Held(s))
    BY <1>1, <2>1, HoldType, NothingNumbered, FS_EmptySet
  <2> QED BY <2>1, <2>2, EmptyEntry DEF Init, ManagerInit, CountsAt, Present, Nothing
<1>4. NewTabsHoldNothing
  BY <1>2 DEF NewTabsHoldNothing
<1> QED BY <1>1, <1>3, <1>4 DEF CInv

LEMMA StepCInv == CInv /\ [Next]_vars => CInv'
<1> SUFFICES ASSUME CInv, [Next]_vars PROVE CInv'
  OBVIOUS
<1>1. IInv'
  BY StepIInv DEF CInv
<1>2. CASE \E t \in Tabs : Connect(t) \/ Authenticate(t) \/ ServerCloses(t) \/ Closed(t)
  BY <1>1, <1>2, AuthenticateCounts, ClosedCounts, OthersCount
<1>3. CASE RefreshAsked \/ RefreshResumes \/ RefreshFails \/ ResyncUser \/ PlanChanges
  BY <1>1, <1>3, RefreshResumesCounts, ResyncUserCounts, OthersCount
<1>4. CASE \E s \in Servers : SweepStarts(s) \/ SweepEnds(s)
                                \/ GraceTimer(s) \/ AdminCloses(s) \/ LineEnds(s)
  BY <1>1, <1>4, SweepStartsCounts, SweepEndsCounts, GraceTimerCounts, OthersCount
<1>5. CASE UNCHANGED vars
  BY <1>1, <1>5, OthersCount
<1> QED BY <1>2, <1>3, <1>4, <1>5 DEF Next

LEMMA CountInvariance == Spec => []CInv
BY InitCInv, StepCInv, PTL DEF Spec

(* The reference count of a session is the number of its holders, tabs and *)
(* sweeps; a held session is there and an unheld one is on its grace timer *)
(* (session-manager.ts acquireOn, release, releaseSession; fanout.ts       *)
(* #acquireSessions, #onClose, resyncUser).                                *)
THEOREM CountsMatchHolders == Spec => []HoldersAreCounted
<1>1. CInv => HoldersAreCounted
  BY CountsAreHolders DEF CInv, IInv, ManagerInv, HoldersAreCounted
<1> QED BY <1>1, CountInvariance, PTL

(* A session is replaced only when it failed and nobody holds it, so a     *)
(* refused login is not repeated (session-manager.ts acquireOn,            *)
(* RETRYABLE_DEAD_STATES).                                                 *)
THEOREM OnlyDeadSessionsReplaced == Spec => OnlyDeadUnheldReplaced
<1> DEFINE Kept == \A s \in Servers :
                     Present(s) /\ opened'[s] # opened[s] =>
                       entry[s].state = "failed" /\ Holders(s) = 0
<1>1. ASSUME CInv, NEW count \in Counts, Acquire(count) PROVE Kept
  <2>1. ASSUME NEW s \in Servers, Present(s), opened'[s] # opened[s]
        PROVE  entry[s].state = "failed" /\ Holders(s) = 0
    <3>1. Opens(s)
      BY <1>1, <2>1 DEF Acquire
    <3>2. entry[s].state = "failed" /\ entry[s].refCount = 0
      BY <2>1, <3>1 DEF Opens
    <3> QED BY <1>1, <2>1, <3>2, CountsAreHolders DEF RefCountsHolders
  <2> QED BY <2>1
<1>2. ASSUME CInv, [Next]_vars PROVE Kept \/ opened' = opened
  <2>1. ASSUME NEW t \in Tabs, Authenticate(t) PROVE Kept
    <3> DEFINE want == [s \in Servers |-> IF s \in plan THEN 1 ELSE 0]
    <3>1. Acquire(want) /\ want \in Counts
      BY <2>1 DEF Authenticate, Counts
    <3> HIDE DEF want, Kept
    <3> QED BY <1>1, <1>2, <3>1
  <2>2. ASSUME RefreshResumes PROVE Kept
    <3> DEFINE S == IF conns = {} THEN {} ELSE Missing
               count == [s \in Servers |-> IF s \in S THEN Cardinality(conns) ELSE 0]
    <3>1. Acquire(count)
      BY <2>2 DEF RefreshResumes
    <3>2. Cardinality(conns) \in Nat
      BY <1>2, TabsAssumption, FS_Subset, FS_CardinalityType DEF CInv, IInv, TypeOK
    <3>3. count \in Counts
      BY <3>2 DEF Counts
    <3> HIDE DEF count, Kept
    <3> QED BY <1>1, <1>2, <3>1, <3>3
  <2>3. ASSUME NEW s \in Servers, SweepStarts(s) PROVE Kept
    <3> DEFINE count == [x \in Servers |-> IF x = s THEN 1 ELSE 0]
    <3>1. Acquire(count) /\ count \in Counts
      BY <2>3 DEF SweepStarts, Counts
    <3> HIDE DEF count, Kept
    <3> QED BY <1>1, <1>2, <3>1
  <2>4. CASE \E t \in Tabs : Connect(t) \/ ServerCloses(t) \/ Closed(t)
    BY <2>4 DEF Connect, ServerCloses, Closed, Release, manager
  <2>5. CASE RefreshAsked \/ RefreshFails \/ ResyncUser \/ PlanChanges \/ UNCHANGED vars
    BY <2>5 DEF RefreshAsked, RefreshFails, ResyncUser, DropUser, PlanChanges, vars, manager
  <2>6. CASE \E s \in Servers : SweepEnds(s) \/ GraceTimer(s) \/ AdminCloses(s) \/ LineEnds(s)
    BY <2>6 DEF SweepEnds, ReleaseSession, GraceTimer, GraceExpires, AdminCloses,
                CloseForDmaUser, LineEnds, SessionEnds
  <2> HIDE DEF Kept
  <2> QED BY <1>2, <2>1, <2>2, <2>3, <2>4, <2>5, <2>6 DEF Next
<1>3. CInv /\ [Next]_vars => [Kept]_vars
  BY <1>2
<1> QED BY <1>3, CountInvariance, PTL DEF Spec, OnlyDeadUnheldReplaced
=============================================================================
