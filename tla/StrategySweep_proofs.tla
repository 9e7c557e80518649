------------------------- MODULE StrategySweep_proofs -------------------------
(***************************************************************************)
(* Proofs about StrategySweep, for every set of servers and accounts, all  *)
(* settings and mappings, and every bound.                                 *)
(*                                                                         *)
(* NothingIsForgotten says that a pair left behind is covered or among the *)
(* exceptions.  A step that ends a cover, the end of a sweep or a move     *)
(* taken as swept, keeps it only because what is on there came back in     *)
(* between; so the invariant says when that is so.                         *)
(***************************************************************************)
EXTENDS StrategySweep, TLAPS

(* As NothingIsForgotten, for every server that may not order, the order   *)
(* server by the setting included.                                         *)
Kept ==
  \A p \in armed : snap[p[2]] # p[1] => Covered(p) \/ p \in missed \/ p \in Owned

(* An account that is at home and has a sweep or the record of one there   *)
(* came back since.                                                        *)
HomeIsStayed == \A p \in Tracked : p \in Stays => p \in stayed

(* What is on although a sweep was confirmed was switched on since, after  *)
(* the account came back, or another sweep is under way.                   *)
ConfirmedOff == \A p \in armed : confirmed[p] # Absent => p \in stayed \/ p \in Pending

LastIsSnap == \A x \in Accounts : snap[x] \in Servers => last[x] = snap[x]

(* A sweep skips only what came back, and what it did not find was off or  *)
(* was switched on since, after the account came back.                     *)
SkippedCameBack == \A s \in Servers : At(s, lane[s].skipped) \subseteq stayed

LeftIsOff ==
  \A s \in Servers : lane[s].phase = "left" =>
    \A x \in lane[s].accounts \ (lane[s].skipped \cup lane[s].list) :
      <<s, x>> \in armed => <<s, x>> \in stayed

IdleIsEmpty == \A s \in Servers : lane[s].phase = "idle" => lane[s].next = {}

Lanes == SkippedCameBack /\ LeftIsOff /\ IdleIsEmpty

IInv == TypeOK /\ Kept /\ HomeIsStayed /\ ConfirmedOff /\ LastIsSnap /\ Lanes

-----------------------------------------------------------------------------
(* Pairs, requests and records.                                            *)

LEMMA PairParts ==
  ASSUME NEW p \in Pairs
  PROVE  p = <<p[1], p[2]>> /\ p[1] \in Servers /\ p[2] \in Accounts
BY DEF Pairs

LEMMA InAt ==
  ASSUME NEW s \in Servers, NEW X \in SUBSET Accounts
  PROVE  /\ At(s, X) \subseteq Pairs
         /\ \A p \in Pairs : p \in At(s, X) <=> p[1] = s /\ p[2] \in X
         /\ \A x \in Accounts : x \in X <=> <<s, x>> \in At(s, X)
BY DEF At, Pairs

LEMMA LaneTypes ==
  ASSUME TypeOK, NEW s \in Servers
  PROVE  /\ lane[s] \in Lane
         /\ lane[s].accounts \in SUBSET Accounts /\ lane[s].next \in SUBSET Accounts
         /\ lane[s].list \in SUBSET Accounts /\ lane[s].off \in SUBSET Accounts
         /\ lane[s].skipped \in SUBSET Accounts
         /\ lane[s].phase = "idle" <=> lane[s].accounts = {}
         /\ lane[s].next \cap lane[s].accounts = {}
         /\ lane[s].list \cup lane[s].off \cup lane[s].skipped \subseteq lane[s].accounts
BY DEF TypeOK, Lane

LEMMA InPending ==
  ASSUME TypeOK, NEW p \in Pairs
  PROVE  p \in Pending <=> p[2] \in lane[p[1]].accounts \/ p[2] \in lane[p[1]].next
<1>1. \A s \in Servers : lane[s].accounts \cup lane[s].next \in SUBSET Accounts
  BY LaneTypes
<1>2. \A s \in Servers : p \in At(s, lane[s].accounts \cup lane[s].next) <=>
        p[1] = s /\ p[2] \in lane[s].accounts \cup lane[s].next
  BY PairParts DEF At, Pairs
<1> QED BY <1>2, PairParts DEF Pending

LEMMA InPendingNext ==
  ASSUME TypeOK', NEW p \in Pairs
  PROVE  (p \in Pending <=> p[2] \in lane[p[1]].accounts \/ p[2] \in lane[p[1]].next)'
<1>1. \A s \in Servers : lane'[s].accounts \cup lane'[s].next \in SUBSET Accounts
  BY DEF TypeOK, Lane
<1>2. \A s \in Servers : p \in At(s, lane'[s].accounts \cup lane'[s].next) <=>
        p[1] = s /\ p[2] \in lane'[s].accounts \cup lane'[s].next
  BY PairParts DEF At, Pairs
<1> QED BY <1>2, PairParts DEF Pending, At

(* Who orders: the order server of an account, if it knows it.             *)
LEMMA Ownership ==
  ASSUME TypeOK, NEW x \in Accounts
  PROVE  /\ Effective(x) \in Servers \cup {None} /\ Owner(x) \in Servers \cup {None}
         /\ Owner(x) # None => Owner(x) = Effective(x) /\ Known(x)
         /\ Snapshot(x) \in Servers \cup {None, Absent}
<1>1. choice[x] \in Servers \cup {None}
  BY WorldAssumption DEF TypeOK
<1>2. Effective(x) \in Servers \cup {None}
  BY <1>1, NamesAssumption DEF Effective
<1> QED BY <1>2, NamesAssumption DEF Owner, Known, Registered, Snapshot

LEMMA OwnershipNext ==
  ASSUME choice' \in Choices, mapped' \in Mappings, NEW x \in Accounts
  PROVE  /\ Effective(x)' \in Servers \cup {None} /\ Owner(x)' \in Servers \cup {None}
         /\ Owner(x)' # None => Owner(x)' = Effective(x)' /\ Known(x)'
         /\ Snapshot(x)' \in Servers \cup {None, Absent}
<1>1. choice'[x] \in Servers \cup {None}
  BY WorldAssumption
<1>2. Effective(x)' \in Servers \cup {None}
  BY <1>1, NamesAssumption DEF Effective
<1> QED BY <1>2, NamesAssumption DEF Owner, Known, Registered, Snapshot

LEMMA OwnedStays == TypeOK => Owned \subseteq Stays
<1> SUFFICES ASSUME TypeOK, NEW p \in Owned PROVE p \in Stays
  OBVIOUS
<1> p \in Pairs /\ p[2] \in Accounts /\ p[1] \in Servers /\ Owner(p[2]) = p[1]
  BY PairParts DEF Owned
<1> QED BY Ownership, NamesAssumption DEF Stays

LEMMA AsksType ==
  ASSUME NEW P \in SUBSET Pairs, NEW kind \in {"moved", "retry", "login"}
  PROVE  /\ Asks(P, kind) \subseteq Request
         /\ \A p \in P : \E r \in Asks(P, kind) : r.server = p[1] /\ p[2] \in r.accounts
<1>1. \A p \in P : p = <<p[1], p[2]>> /\ p[1] \in Servers /\ p[2] \in Accounts
  BY PairParts
<1>2. ASSUME NEW r \in Asks(P, kind)
      PROVE  r \in Request
  <2>1. PICK p \in P : r = [server |-> p[1], accounts |-> {x \in Accounts : <<p[1], x>> \in P}, kind |-> kind]
    BY DEF Asks
  <2>2. p[2] \in {x \in Accounts : <<p[1], x>> \in P}
    BY <1>1
  <2> QED BY <1>1, <2>1, <2>2 DEF Request
<1>3. ASSUME NEW p \in P
      PROVE  \E r \in Asks(P, kind) : r.server = p[1] /\ p[2] \in r.accounts
  <2> DEFINE r == [server |-> p[1], accounts |-> {x \in Accounts : <<p[1], x>> \in P}, kind |-> kind]
  <2>1. r \in Asks(P, kind)
    BY DEF Asks
  <2>2. p[2] \in r.accounts
    BY <1>1
  <2> QED BY <2>1, <2>2
<1> QED BY <1>2, <1>3

LEMMA MarkedType ==
  ASSUME NEW f \in [Pairs -> 0..MaxAttempts], NEW P
  PROVE  /\ Marked(f, P) \in [Pairs -> 0..MaxAttempts]
         /\ \A p \in Pairs : p \in P => Marked(f, P)[p] > 0
         /\ \A p \in Pairs : p \notin P => Marked(f, P)[p] = f[p]
<1> \A n \in 0..MaxAttempts : AtMost(n + 1, MaxAttempts) \in 1..MaxAttempts
  BY BoundsAssumption DEF AtMost
<1> QED BY DEF Marked

LEMMA WithoutType ==
  ASSUME NEW T, NEW f \in [Pairs -> T], NEW P, NEW none \in T
  PROVE  /\ Without(f, P, none) \in [Pairs -> T]
         /\ \A p \in Pairs : p \in P => Without(f, P, none)[p] = none
         /\ \A p \in Pairs : p \notin P => Without(f, P, none)[p] = f[p]
BY DEF Without

-----------------------------------------------------------------------------
(* The requests: a step that only asks, the look-ups, the lane.            *)

LEMMA SameWorld ==
  ASSUME UNCHANGED world PROVE Owned' = Owned /\ Stays' = Stays
BY DEF Owned, Stays, Owner, Effective, Registered, Known, world

LEMMA SameLanes ==
  ASSUME TypeOK, TypeOK', Lanes, UNCHANGED <<lane, armed>>, stayed \subseteq stayed'
  PROVE  Lanes' /\ Pending' = Pending
<1>1. Pending' = Pending
  BY DEF Pending
<1> QED BY <1>1 DEF Lanes, SkippedCameBack, LeftIsOff, IdleIsEmpty

LEMMA LoginKeeps == ASSUME IInv, Login PROVE IInv'
<1> USE DEF IInv
<1>1. logins' \in Nat
  BY DEF Login, TypeOK
<1>2. asked' \subseteq Request /\ asked \subseteq asked'
  BY AsksType DEF Login, TypeOK, Backstop
<1>3. TypeOK'
  BY <1>1, <1>2 DEF Login, TypeOK, world, tracker, records, aux
<1>4. Owned' = Owned /\ Stays' = Stays
  BY SameWorld DEF Login
<1>5. Lanes' /\ Pending' = Pending
  BY <1>3, SameLanes DEF Login, aux
<1>6. Kept'
  <2> SUFFICES ASSUME NEW p \in armed', snap'[p[2]] # p[1]
               PROVE  Covered(p)' \/ p \in missed' \/ p \in Owned'
    BY DEF Kept
  <2>1. p \in Pairs /\ p \in armed /\ snap[p[2]] # p[1]
    BY DEF Login, TypeOK, tracker
  <2>2. Covered(p) => Covered(p)'
    BY <1>2, <1>5, <2>1 DEF Covered, Login, tracker, records
  <2> QED BY <2>1, <2>2, <1>4 DEF Kept, Login, aux
<1> QED BY <1>3, <1>4, <1>5, <1>6
     DEF Login, HomeIsStayed, ConfirmedOff, LastIsSnap, Tracked, tracker, records, aux

LEMMA TickKeeps == ASSUME IInv, NEW due \in SUBSET Pairs, RetryTick(due) PROVE IInv'
<1> USE DEF IInv
<1> DEFINE C == Entries \cap (Stays \cup Unmapped)
<1>2. asked' \subseteq Request /\ asked \subseteq asked'
  BY AsksType DEF RetryTick, TypeOK, Retryable, Entries
<1>3. /\ confirmed' \in [Pairs -> Servers \cup {None, Absent}] /\ stale' \in [Pairs -> 0..MaxAttempts]
      /\ \A p \in Pairs : p \notin C => stale'[p] = stale[p]
      /\ \A p \in Pairs : confirmed'[p] # Absent => confirmed'[p] = confirmed[p]
  BY BoundsAssumption DEF RetryTick, Cleared, Without, TypeOK
<1>4. TypeOK'
  BY <1>2, <1>3 DEF RetryTick, TypeOK, Miss, world, tracker, bounds
<1>5. Owned' = Owned /\ Stays' = Stays
  BY SameWorld DEF RetryTick
<1>6. Lanes' /\ Pending' = Pending
  BY <1>4, SameLanes DEF RetryTick
<1>7. Kept'
  <2> SUFFICES ASSUME NEW p \in armed', snap'[p[2]] # p[1], p \notin Owned'
               PROVE  Covered(p)' \/ p \in missed'
    BY DEF Kept
  <2>1. p \in Pairs /\ p \in armed /\ p \notin Owned /\ snap[p[2]] # p[1]
    BY <1>5 DEF RetryTick, TypeOK, tracker
  <2>2. CASE p \in C
    BY <2>1, <2>2 DEF RetryTick, Miss
  <2>3. CASE p \notin C
    <3>1. Covered(p) => Covered(p)'
      BY <1>2, <1>3, <1>6, <2>1, <2>3 DEF Covered, RetryTick, tracker
    <3> QED BY <2>1, <3>1 DEF Kept, RetryTick, Miss
  <2> QED BY <2>2, <2>3
<1>8. HomeIsStayed'
  BY <1>3, <1>5 DEF HomeIsStayed, Tracked, RetryTick
<1>9. ConfirmedOff' /\ LastIsSnap'
  BY <1>3, <1>6, <1>4 DEF ConfirmedOff, LastIsSnap, RetryTick, tracker, TypeOK
<1> QED BY <1>4, <1>6, <1>7, <1>8, <1>9

LEMMA LookupKeeps ==
  ASSUME IInv, NEW r \in asked, LookupFails(r) \/ RetryRefused(r) PROVE IInv'
<1> USE DEF IInv
<1> DEFINE P == At(r.server, r.accounts)
<1>1. r \in Request /\ P \subseteq Pairs /\ r.server \in Servers /\ r.accounts \in SUBSET Accounts
  BY InAt DEF TypeOK, Request
<1>2. asked' = asked \ {r} /\ UNCHANGED <<world, tracker, lane, armed, stayed>>
  BY DEF LookupFails, RetryRefused
<1>3. /\ confirmed' \in [Pairs -> Servers \cup {None, Absent}] /\ stale' \in [Pairs -> 0..MaxAttempts]
      /\ \A p \in Pairs : p \notin P => stale'[p] = stale[p]
      /\ \A p \in Pairs : confirmed'[p] # Absent => confirmed'[p] = confirmed[p]
  BY MarkedType, BoundsAssumption DEF LookupFails, RetryRefused, MarkStale, Cleared, Without, TypeOK
<1>4. missed' \subseteq Pairs /\ faults' \in Nat /\ UNCHANGED <<changes, logins, arms>>
  BY DEF LookupFails, RetryRefused, MarkStale, Miss, Fault, TypeOK
<1>5. TypeOK'
  BY <1>2, <1>3, <1>4 DEF TypeOK, world, tracker
<1>6. Owned' = Owned /\ Stays' = Stays
  BY <1>2, SameWorld
<1>7. Lanes' /\ Pending' = Pending
  BY <1>2, <1>5, SameLanes
<1>8. Kept'
  <2> SUFFICES ASSUME NEW p \in armed', snap'[p[2]] # p[1], p \notin Owned'
               PROVE  Covered(p)' \/ p \in missed'
    BY DEF Kept
  <2>1. p \in Pairs /\ p \in armed /\ p \notin Owned /\ snap[p[2]] # p[1]
    BY <1>2, <1>6 DEF TypeOK, tracker
  <2>2. CASE p \in P
    <3>1. LookupFails(r) => stale'[p] > 0
      BY <2>1, <2>2, MarkedType DEF LookupFails, MarkStale, TypeOK
    <3>2. RetryRefused(r) => p \in missed'
      BY <2>1, <2>2 DEF RetryRefused, Miss
    <3> QED BY <3>1, <3>2 DEF Covered
  <2>3. CASE p \notin P
    <3>1. ~(r.server = p[1] /\ p[2] \in r.accounts)
      BY <1>1, <2>1, <2>3, InAt
    <3>2. Covered(p) => Covered(p)'
      BY <1>2, <1>3, <1>7, <2>1, <2>3, <3>1 DEF Covered, tracker
    <3>3. p \in missed => p \in missed'
      BY <2>1, <2>3 DEF LookupFails, RetryRefused, MarkStale, Miss
    <3> QED BY <2>1, <3>2, <3>3 DEF Kept
  <2> QED BY <2>2, <2>3
<1>9. HomeIsStayed' /\ ConfirmedOff' /\ LastIsSnap'
  BY <1>2, <1>3, <1>5, <1>6, <1>7 DEF HomeIsStayed, Tracked, ConfirmedOff, LastIsSnap, tracker, TypeOK
<1> QED BY <1>5, <1>7, <1>8, <1>9

LEMMA ArmKeeps == ASSUME IInv, NEW s \in Servers, NEW x \in Accounts, Arm(s, x) PROVE IInv'
<1> USE DEF IInv
<1> DEFINE q == <<s, x>>
<1>1. q \in Owned /\ q \in Pairs /\ q \in Stays
  BY OwnedStays DEF Arm, Owned, Pairs
<1>2. TypeOK'
  BY <1>1 DEF Arm, TypeOK, world, tracker, records, aux
<1>3. Owned' = Owned /\ Stays' = Stays /\ Pending' = Pending
  BY SameWorld DEF Arm, Pending
<1>4. Kept'
  <2> SUFFICES ASSUME NEW p \in armed', snap'[p[2]] # p[1], p \notin Owned'
               PROVE  Covered(p)' \/ p \in missed'
    BY DEF Kept
  <2>1. p \in armed /\ p \notin Owned /\ snap[p[2]] # p[1]
    BY <1>1, <1>3 DEF Arm, tracker
  <2> QED BY <1>3, <2>1 DEF Kept, Covered, Arm, tracker, records, aux
<1>5. q \in Tracked => q \in stayed
  BY <1>1 DEF HomeIsStayed
<1>6. ConfirmedOff'
  BY <1>1, <1>3, <1>5 DEF ConfirmedOff, Tracked, Arm, records, aux
<1>7. LeftIsOff'
  <2> SUFFICES ASSUME NEW t \in Servers, lane[t].phase = "left",
                      NEW y \in lane[t].accounts \ (lane[t].skipped \cup lane[t].list),
                      <<t, y>> \in armed'
               PROVE  <<t, y>> \in stayed
    BY DEF LeftIsOff, Arm, aux
  <2>1. CASE <<t, y>> = q
    BY <1>1, <1>5, <2>1 DEF Tracked
  <2>2. CASE <<t, y>> # q
    BY <2>2 DEF Lanes, LeftIsOff, Arm
  <2> QED BY <2>1, <2>2
<1> QED BY <1>2, <1>3, <1>4, <1>6, <1>7
     DEF Arm, HomeIsStayed, LastIsSnap, Tracked, Lanes, SkippedCameBack, IdleIsEmpty, tracker, records, aux

LEMMA StartedType ==
  ASSUME NEW X \in SUBSET Accounts
  PROVE  /\ Started(X) \in Lane /\ Idle \in Lane
         /\ Started(X).phase = "read" /\ Started(X).accounts = X /\ Started(X).next = {}
         /\ Started(X).list = {} /\ Started(X).off = {} /\ Started(X).skipped = {}
BY DEF Started, Idle, Lane

(* The lane is free: the sweep starts.                                     *)
LEMMA EnterStartsKeeps ==
  ASSUME IInv, NEW r \in asked, Enter(r), lane[r.server].phase = "idle" PROVE IInv'
<1> USE DEF IInv
<1> DEFINE s == r.server
           P == At(s, r.accounts)
<1>1. r \in Request /\ P \subseteq Pairs /\ s \in Servers /\ r.accounts \in SUBSET Accounts /\ r.accounts # {}
  BY InAt DEF TypeOK, Request
<1>2. /\ asked' = asked \ {r} /\ lane' = [lane EXCEPT ![s] = Started(r.accounts)]
      /\ missed' = missed \ P /\ stayed' = (stayed \ P) \cup (P \cap Stays)
      /\ UNCHANGED <<world, tracker, records, armed, bounds>>
  BY DEF Enter, Fresh
<1>3. lane' \in [Servers -> Lane] /\ lane'[s] = Started(r.accounts)
      /\ \A t \in Servers : t # s => lane'[t] = lane[t]
  BY <1>1, <1>2, StartedType DEF TypeOK
<1>4. TypeOK'
  <2>1. \A t \in Servers : /\ lane'[t].phase = "idle" <=> lane'[t].accounts = {}
                           /\ lane'[t].next \cap lane'[t].accounts = {}
                           /\ lane'[t].list \cup lane'[t].off \cup lane'[t].skipped \subseteq lane'[t].accounts
    BY <1>1, <1>3, StartedType DEF TypeOK
  <2> QED BY <1>1, <1>2, <1>3, <2>1 DEF TypeOK, world, tracker, records, bounds
<1>5. Owned' = Owned /\ Stays' = Stays
  BY <1>2, SameWorld
<1>6. ASSUME NEW p \in Pairs PROVE p \in Pending' <=> p \in P \/ p \in Pending
  <2>1. p \in P <=> p[1] = s /\ p[2] \in r.accounts
    BY <1>1, InAt
  <2>2. lane[s].accounts = {} /\ lane[s].next = {}
    BY <1>1 DEF TypeOK, Lanes, IdleIsEmpty
  <2>3. CASE p[1] = s
    BY <2>1, <2>2, <2>3, <1>1, <1>3, <1>4, StartedType, InPending, InPendingNext
  <2>4. CASE p[1] # s
    BY <2>1, <2>4, <1>3, <1>4, PairParts, InPending, InPendingNext
  <2> QED BY <2>3, <2>4
<1>7. Kept'
  <2> SUFFICES ASSUME NEW p \in armed', snap'[p[2]] # p[1], p \notin Owned'
               PROVE  Covered(p)' \/ p \in missed'
    BY DEF Kept
  <2>1. p \in Pairs /\ p \in armed /\ p \notin Owned /\ snap[p[2]] # p[1]
    BY <1>2, <1>5 DEF TypeOK, tracker
  <2>2. CASE p \in P
    BY <1>6, <2>1, <2>2 DEF Covered
  <2>3. CASE p \notin P
    <3>1. ~(r.server = p[1] /\ p[2] \in r.accounts)
      BY <1>1, <2>1, <2>3, InAt
    <3>2. Covered(p) => Covered(p)'
      BY <1>2, <1>6, <2>1, <3>1 DEF Covered, tracker, records
    <3> QED BY <1>2, <2>1, <2>3, <3>2 DEF Kept
  <2> QED BY <2>2, <2>3
<1>8. HomeIsStayed'
  <2> SUFFICES ASSUME NEW p \in Tracked', p \in Stays' PROVE p \in stayed'
    BY DEF HomeIsStayed
  <2>1. p \in Pairs /\ (p[2] \in lane'[p[1]].accounts \/ confirmed[p] # Absent)
    BY <1>2 DEF Tracked, records
  <2>2. p \in P \/ p \in Tracked
    <3>1. CASE p[1] = s
      BY <2>1, <3>1, <1>1, <1>3, StartedType, InAt DEF Tracked
    <3>2. CASE p[1] # s
      BY <2>1, <3>2, <1>3, PairParts DEF Tracked
    <3> QED BY <3>1, <3>2
  <2> QED BY <1>2, <1>5, <2>2 DEF HomeIsStayed
<1>9. ConfirmedOff' /\ LastIsSnap'
  BY <1>2, <1>6, <1>4 DEF ConfirmedOff, LastIsSnap, records, tracker, TypeOK
<1>10. Lanes'
  <2>1. ASSUME NEW t \in Servers PROVE At(t, lane'[t].skipped) \subseteq stayed'
    <3>1. CASE t = s
      BY <1>1, <1>3, <3>1, StartedType DEF At
    <3>2. CASE t # s
      BY <1>2, <1>3, <3>2 DEF At, Lanes, SkippedCameBack
    <3> QED BY <3>1, <3>2
  <2>2. ASSUME NEW t \in Servers, lane'[t].phase = "left",
               NEW x \in lane'[t].accounts \ (lane'[t].skipped \cup lane'[t].list),
               <<t, x>> \in armed'
        PROVE  <<t, x>> \in stayed'
    <3>1. t # s
      BY <1>1, <1>3, <2>2, StartedType
    <3> QED BY <1>2, <1>3, <2>2, <3>1 DEF At, Lanes, LeftIsOff
  <2>3. IdleIsEmpty'
    BY <1>1, <1>3, StartedType DEF Lanes, IdleIsEmpty
  <2> QED BY <2>1, <2>2, <2>3 DEF Lanes, SkippedCameBack, LeftIsOff
<1> QED BY <1>4, <1>7, <1>8, <1>9, <1>10

(* A sweep is under way: what it does not have waits for the next one.     *)
LEMMA EnterWaitsKeeps ==
  ASSUME IInv, NEW r \in asked, Enter(r), lane[r.server].phase # "idle" PROVE IInv'
<1> USE DEF IInv
<1> DEFINE s == r.server
           P == At(s, r.accounts)
<1>1. r \in Request /\ P \subseteq Pairs /\ s \in Servers /\ r.accounts \in SUBSET Accounts
  BY InAt DEF TypeOK, Request
<1>2. /\ asked' = asked \ {r}
      /\ lane' = [lane EXCEPT ![s].next = lane[s].next \cup (r.accounts \ lane[s].accounts)]
      /\ UNCHANGED <<world, tracker, records, armed, aux, bounds>>
  BY DEF Enter, Extra
<1>3. lane' \in [Servers -> Lane]
      /\ \A t \in Servers :
           /\ lane'[t].phase = lane[t].phase /\ lane'[t].accounts = lane[t].accounts
           /\ lane'[t].list = lane[t].list /\ lane'[t].off = lane[t].off
           /\ lane'[t].skipped = lane[t].skipped
           /\ lane'[t].next =
                IF t = s THEN lane[s].next \cup (r.accounts \ lane[s].accounts) ELSE lane[t].next
  BY <1>1, <1>2 DEF TypeOK, Lane
<1>4. TypeOK'
  BY <1>1, <1>2, <1>3 DEF TypeOK, world, tracker, records, aux, bounds
<1>5. Owned' = Owned /\ Stays' = Stays
  BY <1>2, SameWorld
<1>6. ASSUME NEW p \in Pairs PROVE p \in Pending' <=> p \in P \/ p \in Pending
  <2>1. p \in P <=> p[1] = s /\ p[2] \in r.accounts
    BY <1>1, InAt
  <2> QED BY <2>1, <1>3, <1>4, PairParts, InPending, InPendingNext
<1>7. Kept'
  <2> SUFFICES ASSUME NEW p \in armed', snap'[p[2]] # p[1], p \notin Owned'
               PROVE  Covered(p)' \/ p \in missed'
    BY DEF Kept
  <2>1. p \in Pairs /\ p \in armed /\ p \notin Owned /\ snap[p[2]] # p[1]
    BY <1>2, <1>5 DEF TypeOK, tracker
  <2>2. p \notin P => ~(r.server = p[1] /\ p[2] \in r.accounts)
    BY <1>1, <2>1, InAt
  <2>3. Covered(p) => Covered(p)'
    BY <1>2, <1>6, <2>1, <2>2 DEF Covered, tracker, records
  <2> QED BY <1>2, <2>1, <2>3 DEF Kept, aux
<1>8. HomeIsStayed' /\ ConfirmedOff' /\ LastIsSnap'
  <2>1. Tracked' = Tracked
    BY <1>2, <1>3, PairParts DEF Tracked, records
  <2> QED BY <2>1, <1>2, <1>5, <1>6, <1>4
       DEF HomeIsStayed, ConfirmedOff, LastIsSnap, records, tracker, aux, TypeOK
<1>9. Lanes'
  BY <1>1, <1>2, <1>3 DEF Lanes, SkippedCameBack, LeftIsOff, IdleIsEmpty, aux
<1> QED BY <1>4, <1>7, <1>8, <1>9

-----------------------------------------------------------------------------
(* One sweep.                                                              *)

(* A step of the sweep at s that leaves its accounts alone, switches off   *)
(* at most, and skips only what came back.                                 *)
LEMMA SweepGoesOn ==
  ASSUME IInv, NEW s \in Servers,
         lane' \in [Servers -> Lane],
         \A t \in Servers \ {s} : lane'[t] = lane[t],
         lane[s].phase # "idle", lane'[s].phase # "idle",
         lane'[s].accounts = lane[s].accounts, lane'[s].next = lane[s].next,
         lane'[s].list \cup lane'[s].off \cup lane'[s].skipped \subseteq lane[s].accounts,
         At(s, lane'[s].skipped) \subseteq stayed,
         lane'[s].phase = "left" =>
           \A x \in lane'[s].accounts \ (lane'[s].skipped \cup lane'[s].list) : <<s, x>> \notin armed',
         armed' \subseteq armed, missed' = missed \/ missed' = missed \cap armed',
         changes' \in Nat, faults' \in Nat, logins' \in Nat, arms' \in Nat,
         UNCHANGED <<world, tracker, records, asked, stayed>>
  PROVE  IInv'
<1> USE DEF IInv
<1>1. \A t \in Servers : lane'[t].accounts = lane[t].accounts /\ lane'[t].next = lane[t].next
  OBVIOUS
<1>2. TypeOK'
  <2>1. \A t \in Servers : /\ lane'[t].phase = "idle" <=> lane'[t].accounts = {}
                           /\ lane'[t].next \cap lane'[t].accounts = {}
                           /\ lane'[t].list \cup lane'[t].off \cup lane'[t].skipped \subseteq lane'[t].accounts
    BY DEF TypeOK
  <2>2. armed' \subseteq Pairs /\ missed' \subseteq Pairs
    BY DEF TypeOK
  <2> QED BY <2>1, <2>2 DEF TypeOK, world, tracker, records
<1>3. Owned' = Owned /\ Stays' = Stays
  BY SameWorld
<1>4. Pending' = Pending /\ Tracked' = Tracked
  <2>1. \A t \in Servers : At(t, lane'[t].accounts \cup lane'[t].next) = At(t, lane[t].accounts \cup lane[t].next)
    BY <1>1
  <2> QED BY <1>1, <2>1, PairParts DEF Pending, Tracked, records, At
<1>5. Kept'
  <2> SUFFICES ASSUME NEW p \in armed', snap'[p[2]] # p[1], p \notin Owned'
               PROVE  Covered(p)' \/ p \in missed'
    BY DEF Kept
  <2>1. p \in armed /\ p \notin Owned /\ snap[p[2]] # p[1]
    BY <1>3 DEF tracker
  <2>2. Covered(p) => Covered(p)'
    BY <1>4 DEF Covered, tracker, records
  <2> QED BY <2>1, <2>2 DEF Kept
<1>6. HomeIsStayed' /\ ConfirmedOff' /\ LastIsSnap'
  BY <1>3, <1>4 DEF HomeIsStayed, ConfirmedOff, LastIsSnap, records, tracker
<1>7. LeftIsOff'
  <2> SUFFICES ASSUME NEW t \in Servers, lane'[t].phase = "left",
                      NEW x \in lane'[t].accounts \ (lane'[t].skipped \cup lane'[t].list),
                      <<t, x>> \in armed'
               PROVE  <<t, x>> \in stayed
    BY DEF LeftIsOff
  <2>1. t # s
    OBVIOUS
  <2> QED BY <2>1 DEF Lanes, LeftIsOff
<1>8. SkippedCameBack' /\ IdleIsEmpty'
  BY DEF Lanes, SkippedCameBack, IdleIsEmpty, At
<1> QED BY <1>2, <1>5, <1>6, <1>7, <1>8 DEF Lanes

LEMMA ProceededLane ==
  ASSUME NEW l \in Lane, NEW phase \in {"off", "confirm"},
         NEW off \in SUBSET l.accounts, NEW rest \in SUBSET l.accounts, NEW K \in SUBSET l.accounts
  PROVE  [l EXCEPT !.phase = phase, !.off = off, !.list = rest, !.skipped = l.skipped \cup K] \in Lane
BY DEF Lane

LEMMA ProceedType ==
  ASSUME IInv, NEW s \in Servers, NEW todo \in SUBSET lane[s].accounts,
         lane[s].phase # "idle", Proceed(s, todo)
  PROVE  /\ lane' \in [Servers -> Lane]
         /\ \A t \in Servers \ {s} : lane'[t] = lane[t]
         /\ lane'[s].phase \in {"off", "confirm"}
         /\ lane'[s].accounts = lane[s].accounts /\ lane'[s].next = lane[s].next
         /\ lane'[s].list \cup lane'[s].off \cup lane'[s].skipped \subseteq lane[s].accounts
         /\ At(s, lane'[s].skipped) \subseteq stayed
<1> USE DEF IInv
<1> DEFINE back == {x \in todo : <<s, x>> \in Stays}
<1>1. lane[s] \in Lane /\ lane[s].accounts \in SUBSET Accounts
      /\ lane[s].list \cup lane[s].off \cup lane[s].skipped \subseteq lane[s].accounts
  BY LaneTypes
<1>2. At(s, back) \subseteq stayed
  <2> SUFFICES ASSUME NEW x \in back PROVE <<s, x>> \in stayed
    BY DEF At
  <2> <<s, x>> \in Tracked /\ <<s, x>> \in Stays
    BY <1>1 DEF Tracked, Pairs
  <2> QED BY DEF HomeIsStayed
<1>3. At(s, lane[s].skipped) \subseteq stayed
  BY DEF Lanes, SkippedCameBack
<1>4. \A K \in SUBSET back : At(s, lane[s].skipped \cup K) \subseteq stayed
  BY <1>2, <1>3 DEF At
<1>5. CASE \E x \in todo \ back, K \in SUBSET back :
             lane' = [lane EXCEPT ![s].phase = "off", ![s].off = {x},
                        ![s].list = todo \ (K \cup {x}), ![s].skipped = @ \cup K]
  <2>0. PICK x \in todo \ back, K \in SUBSET back :
             lane' = [lane EXCEPT ![s].phase = "off", ![s].off = {x},
                        ![s].list = todo \ (K \cup {x}), ![s].skipped = @ \cup K]
    BY <1>5
  <2> DEFINE rest == todo \ (K \cup {x})
             off == {x}
  <2>1. off \in SUBSET lane[s].accounts /\ rest \in SUBSET lane[s].accounts /\ K \in SUBSET lane[s].accounts
    OBVIOUS
  <2>2. lane'[s] = [lane[s] EXCEPT !.phase = "off", !.off = off, !.list = rest,
                        !.skipped = lane[s].skipped \cup K]
    BY <2>0 DEF TypeOK
  <2>3. lane' = [lane EXCEPT ![s] = lane'[s]]
    BY <2>0, <2>2 DEF TypeOK
  <2>4. At(s, lane[s].skipped \cup K) \subseteq stayed
    BY <1>4
  <2> HIDE DEF back, rest, off
  <2>5. lane'[s] \in Lane
    <3>1. lane[s] \in Lane /\ "off" \in {"off", "confirm"}
      BY <1>1
    <3>2. [lane[s] EXCEPT !.phase = "off", !.off = off, !.list = rest,
                        !.skipped = lane[s].skipped \cup K] \in Lane
      BY ONLY <3>1, <2>1, ProceededLane, Zenon
    <3> QED BY ONLY <2>2, <3>2
  <2>6. lane' \in [Servers -> Lane] /\ \A t \in Servers \ {s} : lane'[t] = lane[t]
    BY <2>3, <2>5 DEF TypeOK
  <2>7. lane'[s].phase = "off" /\ lane'[s].off = off /\ lane'[s].list = rest
        /\ lane'[s].skipped = lane[s].skipped \cup K
        /\ lane'[s].accounts = lane[s].accounts /\ lane'[s].next = lane[s].next
    BY <1>1, <2>2 DEF Lane
  <2> QED BY <1>1, <2>1, <2>4, <2>6, <2>7
<1>6. CASE lane' = [lane EXCEPT ![s].phase = "confirm", ![s].off = {},
                      ![s].list = {}, ![s].skipped = @ \cup back]
  <2>0. back \in SUBSET lane[s].accounts
    OBVIOUS
  <2> HIDE DEF back
  <2>1. lane'[s] = [lane[s] EXCEPT !.phase = "confirm", !.off = {},
                      !.list = {}, !.skipped = lane[s].skipped \cup back]
    BY <1>6 DEF TypeOK
  <2>2. lane'[s] \in Lane
    BY <1>1, <2>0, <2>1 DEF Lane
  <2>3. lane' \in [Servers -> Lane] /\ \A t \in Servers \ {s} : lane'[t] = lane[t]
    BY <1>6, <2>2 DEF TypeOK
  <2>4. At(s, lane[s].skipped \cup back) \subseteq stayed
    BY <1>2, <1>3 DEF At
  <2> QED BY <1>1, <2>0, <2>1, <2>3, <2>4, ZenonT(60) DEF Lane
<1> QED BY <1>5, <1>6 DEF Proceed

LEMMA FirstReadKeeps == ASSUME IInv, NEW s \in Servers, FirstRead(s) PROVE IInv'
<1>1. On(s, lane[s].accounts) \in SUBSET lane[s].accounts /\ lane[s].phase # "idle"
  BY DEF On, FirstRead
<1>2. Proceed(s, On(s, lane[s].accounts)) /\ UNCHANGED <<world, tracker, records, asked, armed, aux, bounds>>
  BY DEF FirstRead
<1>3. changes' \in Nat /\ faults' \in Nat /\ logins' \in Nat /\ arms' \in Nat
      /\ UNCHANGED <<stayed, missed>>
  BY <1>2 DEF IInv, TypeOK, bounds, aux
<1> HIDE DEF IInv
<1> QED BY <1>1, <1>2, <1>3, ProceedType, SweepGoesOn

LEMMA SwitchedOffKeeps == ASSUME IInv, NEW s \in Servers, SwitchedOff(s) PROVE IInv'
<1>1. lane[s].list \in SUBSET lane[s].accounts /\ lane[s].phase # "idle"
  BY LaneTypes DEF SwitchedOff, IInv
<1>2. Proceed(s, lane[s].list) /\ UNCHANGED <<world, tracker, records, asked, stayed>>
      /\ armed' \subseteq armed /\ missed' = missed \cap armed'
  BY DEF SwitchedOff
<1>3. changes' \in Nat /\ faults' \in Nat /\ logins' \in Nat /\ arms' \in Nat
  BY DEF SwitchedOff, Fault, IInv, TypeOK, bounds
<1> QED BY <1>1, <1>2, <1>3, ProceedType, SweepGoesOn

LEMMA SecondReadKeeps == ASSUME IInv, NEW s \in Servers, SecondRead(s) PROVE IInv'
<1> DEFINE list == On(s, lane[s].accounts \ lane[s].skipped)
<1>1. lane[s] \in Lane /\ lane[s].phase = "confirm" /\ lane[s].accounts \in SUBSET Accounts
      /\ lane[s].off \cup lane[s].skipped \subseteq lane[s].accounts
  BY LaneTypes DEF IInv, SecondRead
<1>2. lane' = [lane EXCEPT ![s].phase = "left", ![s].list = list]
      /\ UNCHANGED <<world, tracker, records, asked, armed, aux, bounds>>
  BY DEF SecondRead
<1>3. list \subseteq lane[s].accounts
      /\ \A x \in lane[s].accounts \ (lane[s].skipped \cup list) : <<s, x>> \notin armed
  BY DEF On
<1>4. lane'[s] = [lane[s] EXCEPT !.phase = "left", !.list = list]
  BY <1>2 DEF IInv, TypeOK
<1>5. lane'[s] \in Lane
  BY <1>1, <1>3, <1>4 DEF Lane
<1>6. lane' \in [Servers -> Lane] /\ \A t \in Servers \ {s} : lane'[t] = lane[t]
  BY <1>2, <1>5 DEF IInv, TypeOK
<1>7. /\ lane'[s].phase = "left" /\ lane'[s].list = list /\ lane'[s].off = lane[s].off
      /\ lane'[s].accounts = lane[s].accounts /\ lane'[s].next = lane[s].next
      /\ lane'[s].skipped = lane[s].skipped
  BY <1>1, <1>4 DEF Lane
<1>8. At(s, lane[s].skipped) \subseteq stayed
  BY DEF IInv, Lanes, SkippedCameBack
<1>9. changes' \in Nat /\ faults' \in Nat /\ logins' \in Nat /\ arms' \in Nat
      /\ UNCHANGED <<stayed, missed>> /\ armed' = armed
  BY <1>2 DEF IInv, TypeOK, bounds, aux
<1> HIDE DEF list
<1> QED BY <1>1, <1>2, <1>3, <1>6, <1>7, <1>8, <1>9, SweepGoesOn

(* The sweep at s settles: P goes off its records, the rest of what it     *)
(* swept has an entry, and what is on in P came back in between.           *)
LEMMA LeaveKeeps ==
  ASSUME IInv, NEW s \in Servers, NEW P \in SUBSET Pairs, lane[s].phase # "idle", Leave(s, P),
         Skipped(s) \subseteq P, P \subseteq Skipped(s) \cup Swept(s),
         \A p \in P : p \in armed => p \in stayed,
         confirmed' \in [Pairs -> Servers \cup {None, Absent}],
         stale' \in [Pairs -> 0..MaxAttempts],
         \A p \in Skipped(s) : confirmed'[p] = Absent,
         \A p \in Swept(s) \ P : confirmed'[p] = Absent /\ stale'[p] > 0,
         \A p \in Pairs \ (Skipped(s) \cup Swept(s)) :
            confirmed'[p] = confirmed[p] /\ stale'[p] = stale[p],
         armed' \subseteq armed,
         changes' \in Nat, faults' \in Nat, logins' \in Nat, arms' \in Nat,
         UNCHANGED <<world, tracker, asked>>
  PROVE  IInv'
<1> USE DEF IInv
<1> DEFINE X == lane[s].next
           next == At(s, X)
<1>1. /\ X \in SUBSET Accounts /\ lane[s].accounts \in SUBSET Accounts
      /\ lane[s].skipped \subseteq lane[s].accounts /\ X \cap lane[s].accounts = {}
  BY LaneTypes
<1>2. /\ lane' = [lane EXCEPT ![s] = IF X = {} THEN Idle ELSE Started(X)]
      /\ stayed' = (stayed \ next) \cup (next \cap Stays)
      /\ missed' = (((missed \ (next \cup (Swept(s) \ P))) \cup (P \cap stayed)) \cap armed) \ Owned
  BY DEF Leave, Fresh, Miss, TypeOK
<1>3. /\ lane' \in [Servers -> Lane] /\ \A t \in Servers : t # s => lane'[t] = lane[t]
      /\ lane'[s].accounts = X /\ lane'[s].next = {} /\ lane'[s].phase # "left"
      /\ lane'[s].list = {} /\ lane'[s].off = {} /\ lane'[s].skipped = {}
      /\ lane'[s].phase = "idle" <=> X = {}
  <2>1. (IF X = {} THEN Idle ELSE Started(X)) \in Lane
    BY <1>1, StartedType
  <2> HIDE DEF X
  <2>2. lane'[s] = IF X = {} THEN Idle ELSE Started(X)
    BY <1>2 DEF TypeOK
  <2>3. CASE X = {}
    BY <1>2, <2>1, <2>2, <2>3 DEF TypeOK, Idle
  <2>4. CASE X # {}
    BY <1>1, <1>2, <2>1, <2>2, <2>4, StartedType DEF TypeOK
  <2> QED BY <2>3, <2>4
<1>4. /\ Skipped(s) \subseteq Pairs /\ Swept(s) \subseteq Pairs /\ next \subseteq Pairs
      /\ \A p \in Pairs : /\ p \in next <=> p[1] = s /\ p[2] \in X
                          /\ p \in Skipped(s) <=> p[1] = s /\ p[2] \in lane[s].skipped
                          /\ p \in Swept(s) <=> p[1] = s /\ p[2] \in lane[s].accounts \ lane[s].skipped
  <2>1. lane[s].skipped \in SUBSET Accounts /\ lane[s].accounts \ lane[s].skipped \in SUBSET Accounts
    BY <1>1
  <2> HIDE DEF X
  <2> QED BY <1>1, <2>1, InAt DEF Skipped, Swept
<1> HIDE DEF X, next
<1>5. TypeOK'
  <2>1. \A t \in Servers : /\ lane'[t].phase = "idle" <=> lane'[t].accounts = {}
                           /\ lane'[t].next \cap lane'[t].accounts = {}
                           /\ lane'[t].list \cup lane'[t].off \cup lane'[t].skipped \subseteq lane'[t].accounts
    BY <1>3 DEF TypeOK
  <2>2. armed' \subseteq Pairs /\ missed' \subseteq Pairs /\ stayed' \subseteq Pairs
    BY <1>2, <1>4 DEF TypeOK
  <2> QED BY <1>3, <2>1, <2>2 DEF TypeOK, world, tracker
<1>6. Owned' = Owned /\ Stays' = Stays
  BY SameWorld
<1>7. ASSUME NEW p \in Pairs, p \notin Skipped(s) \cup Swept(s)
      PROVE  p \in Pending' <=> p \in Pending
  <2>1. CASE p[1] = s
    BY <2>1, <1>1, <1>3, <1>4, <1>5, <1>7, PairParts, InPending, InPendingNext DEF X
  <2>2. CASE p[1] # s
    BY <2>2, <1>3, <1>5, PairParts, InPending, InPendingNext
  <2> QED BY <2>1, <2>2
<1>8. \A p \in next : p \in Pending' /\ p \notin Skipped(s) \cup Swept(s)
  BY <1>1, <1>3, <1>4, <1>5, InPendingNext DEF X
<1>9. Kept'
  <2> SUFFICES ASSUME NEW p \in armed', snap'[p[2]] # p[1], p \notin Owned'
               PROVE  Covered(p)' \/ p \in missed'
    BY DEF Kept
  <2>1. p \in Pairs /\ p \in armed /\ p \notin Owned /\ snap[p[2]] # p[1]
    BY <1>6 DEF TypeOK, tracker
  <2>2. CASE p \in next
    BY <1>8, <2>2 DEF Covered
  <2>3. CASE p \in P
    BY <1>2, <2>1, <2>3
  <2>4. CASE p \in Swept(s) \ P
    BY <2>4 DEF Covered
  <2>5. CASE p \notin next /\ p \notin P /\ p \notin Swept(s)
    <3>1. Covered(p) => Covered(p)'
      BY <1>7, <2>1, <2>5 DEF Covered, tracker
    <3>2. p \in missed => p \in missed'
      BY <1>2, <2>1, <2>5
    <3> QED BY <2>1, <3>1, <3>2 DEF Kept
  <2> QED BY <2>2, <2>3, <2>4, <2>5
<1>10. ASSUME NEW p \in Pairs, p \in stayed, p \notin next PROVE p \in stayed'
  BY <1>2, <1>10
<1>11. HomeIsStayed'
  <2> SUFFICES ASSUME NEW p \in Tracked', p \in Stays' PROVE p \in stayed'
    BY DEF HomeIsStayed
  <2>1. p \in Pairs /\ (p[2] \in lane'[p[1]].accounts \/ confirmed'[p] # Absent) /\ p \in Stays
    BY <1>6 DEF Tracked
  <2>2. CASE p \in next
    BY <1>2, <2>1, <2>2
  <2>3. CASE p \notin next
    <3>1. p \in Tracked
      BY <1>3, <1>4, <2>1, <2>3, PairParts DEF Tracked
    <3> QED BY <1>10, <2>1, <2>3, <3>1 DEF HomeIsStayed
  <2> QED BY <2>2, <2>3
<1>12. ConfirmedOff'
  <2> SUFFICES ASSUME NEW p \in armed', confirmed'[p] # Absent PROVE p \in stayed' \/ p \in Pending'
    BY DEF ConfirmedOff
  <2>1. p \in Pairs /\ p \in armed /\ p \notin Skipped(s)
    BY DEF TypeOK
  <2>2. CASE p \in next
    BY <1>8, <2>2
  <2>3. CASE p \notin next /\ p \in Swept(s)
    BY <1>10, <2>1, <2>3
  <2>4. CASE p \notin next /\ p \notin Swept(s)
    BY <1>7, <1>10, <2>1, <2>4 DEF ConfirmedOff
  <2> QED BY <2>2, <2>3, <2>4
<1>13. ASSUME NEW t \in Servers, t # s, NEW x \in Accounts, <<t, x>> \in stayed
       PROVE  <<t, x>> \in stayed'
  <2>1. <<t, x>> \in Pairs /\ <<t, x>> \notin next
    BY <1>4, <1>13 DEF Pairs
  <2> QED BY <1>10, <1>13, <2>1
<1>14. SkippedCameBack'
  <2> SUFFICES ASSUME NEW t \in Servers, NEW x \in lane'[t].skipped PROVE <<t, x>> \in stayed'
    BY DEF SkippedCameBack, At
  <2>1. t # s /\ lane'[t] = lane[t] /\ x \in Accounts
    BY <1>3, LaneTypes
  <2> QED BY <1>13, <2>1 DEF Lanes, SkippedCameBack, At
<1>15. LeftIsOff'
  <2> SUFFICES ASSUME NEW t \in Servers, lane'[t].phase = "left",
                      NEW x \in lane'[t].accounts \ (lane'[t].skipped \cup lane'[t].list),
                      <<t, x>> \in armed'
               PROVE  <<t, x>> \in stayed'
    BY DEF LeftIsOff
  <2>1. t # s /\ lane'[t] = lane[t] /\ x \in Accounts
    BY <1>3, LaneTypes
  <2> QED BY <1>13, <2>1 DEF Lanes, LeftIsOff
<1>16. IdleIsEmpty'
  BY <1>3 DEF Lanes, IdleIsEmpty
<1> QED BY <1>5, <1>9, <1>11, <1>12, <1>14, <1>15, <1>16 DEF Lanes, LastIsSnap, tracker

(* What a sweep takes: pairs of its own, those skipped and those swept.    *)
LEMMA SweepParts ==
  ASSUME IInv, NEW s \in Servers
  PROVE  /\ Skipped(s) \in SUBSET Pairs /\ Swept(s) \in SUBSET Pairs
         /\ Skipped(s) \subseteq stayed /\ Skipped(s) \cap Swept(s) = {}
         /\ \A p \in Swept(s) : p = <<s, p[2]>> /\ p[2] \in lane[s].accounts \ lane[s].skipped
<1>1. lane[s].accounts \in SUBSET Accounts /\ lane[s].skipped \in SUBSET Accounts
  BY LaneTypes DEF IInv
<1> QED BY <1>1 DEF IInv, Lanes, SkippedCameBack, Skipped, Swept, At, Pairs

LEMMA ConfirmsKeeps == ASSUME IInv, NEW s \in Servers, Confirms(s) PROVE IInv'
<1> DEFINE P == Skipped(s) \cup Swept(s)
<1>1. /\ Skipped(s) \in SUBSET Pairs /\ Swept(s) \in SUBSET Pairs
      /\ Skipped(s) \subseteq stayed /\ Skipped(s) \cap Swept(s) = {}
      /\ \A p \in Swept(s) : p = <<s, p[2]>> /\ p[2] \in lane[s].accounts \ lane[s].skipped
  BY SweepParts
<1>2. TypeOK
  BY DEF IInv
<1>3. /\ lane[s].phase # "idle" /\ Leave(s, P) /\ armed' \subseteq armed /\ P \in SUBSET Pairs
      /\ UNCHANGED <<world, tracker, asked>>
  BY <1>1 DEF Confirms
<1>4. \A p \in P : p \in armed => p \in stayed
  BY <1>1 DEF Confirms, IInv, Lanes, LeftIsOff
<1>5. confirmed' \in [Pairs -> Servers \cup {None, Absent}]
  <2>1. \A p \in Pairs : Owner(p[2]) \in Servers \cup {None}
    BY <1>2, PairParts, Ownership
  <2> QED BY <1>2, <2>1 DEF Confirms, TypeOK
<1>6. \A p \in Skipped(s) : confirmed'[p] = Absent
  BY <1>1 DEF Confirms
<1>7. stale' \in [Pairs -> 0..MaxAttempts]
  BY <1>2, BoundsAssumption DEF Confirms, Without, TypeOK
<1>8. \A p \in Pairs \ P : confirmed'[p] = confirmed[p] /\ stale'[p] = stale[p]
  BY DEF Confirms, Without
<1>9. changes' \in Nat /\ faults' \in Nat /\ logins' \in Nat /\ arms' \in Nat
  BY <1>2 DEF Confirms, bounds, TypeOK
<1> QED BY <1>1, <1>3, <1>4, <1>5, <1>6, <1>7, <1>8, <1>9, LeaveKeeps

(* The sweep did not end well: what it swept has an entry.                 *)
LEMMA UnconfirmedKeeps ==
  ASSUME IInv, NEW s \in Servers, lane[s].phase # "idle", Unconfirmed(s), armed' \subseteq armed,
         changes' \in Nat, faults' \in Nat, logins' \in Nat, arms' \in Nat
  PROVE  IInv'
<1> DEFINE P == Skipped(s)
           f == Without(stale, P, 0)
<1>1. /\ P \in SUBSET Pairs /\ Swept(s) \in SUBSET Pairs /\ P \subseteq stayed /\ P \cap Swept(s) = {}
  BY SweepParts
<1>2. TypeOK
  BY DEF IInv
<1>3. /\ confirmed' = Without(confirmed, P \cup Swept(s), Absent) /\ stale' = Marked(f, Swept(s))
      /\ Leave(s, P) /\ UNCHANGED <<world, tracker, asked>>
  BY DEF Unconfirmed
<1>4. f \in [Pairs -> 0..MaxAttempts] /\ \A p \in Pairs : p \notin P => f[p] = stale[p]
  BY <1>2, BoundsAssumption DEF Without, TypeOK
<1> HIDE DEF f
<1>5. /\ stale' \in [Pairs -> 0..MaxAttempts] /\ \A p \in Swept(s) : stale'[p] > 0
      /\ \A p \in Pairs \ (P \cup Swept(s)) : stale'[p] = stale[p]
  BY <1>1, <1>3, <1>4, MarkedType
<1>6. /\ confirmed' \in [Pairs -> Servers \cup {None, Absent}]
      /\ \A p \in P \cup Swept(s) : confirmed'[p] = Absent
      /\ \A p \in Pairs \ (P \cup Swept(s)) : confirmed'[p] = confirmed[p]
  BY <1>1, <1>2, <1>3 DEF Without, TypeOK
<1>7. \A p \in P : p \in armed => p \in stayed
  BY <1>1
<1> HIDE DEF P
<1> QED BY <1>1, <1>3, <1>5, <1>6, <1>7, LeaveKeeps DEF P

LEMMA RemainsKeeps == ASSUME IInv, NEW s \in Servers, Remains(s) \/ SweepFails(s) PROVE IInv'
<1>1. lane[s].phase # "idle" /\ Unconfirmed(s) /\ armed' \subseteq armed
  BY DEF Remains, SweepFails
<1>2. changes' \in Nat /\ faults' \in Nat /\ logins' \in Nat /\ arms' \in Nat
  BY DEF Remains, SweepFails, Fault, bounds, IInv, TypeOK
<1> QED BY <1>1, <1>2, UnconfirmedKeeps

-----------------------------------------------------------------------------
(* The world changes: a 79 that nothing is compared with, and a refresh of *)
(* the tracker with the sweeps of what moved.                              *)

LEMMA ObservedKeeps == ASSUME IInv, MappingObserved PROVE IInv'
<1> USE DEF IInv
<1>1. /\ UNCHANGED <<tracker, records, asked, lane, armed>>
      /\ stayed' = stayed \cup (Stays' \cap Tracked)
      /\ missed' = ((missed \cup Unseen) \cap armed) \ Owned'
  BY DEF MappingObserved, Stay, Miss
<1>2. TypeOK'
  <2>1. stayed' \subseteq Pairs /\ missed' \subseteq Pairs
    BY <1>1 DEF Stays, TypeOK
  <2>2. choice' \in Choices /\ mapped' \in Mappings
    BY DEF MappingObserved, TypeOK
  <2>3. changes' \in Nat /\ faults' \in Nat /\ logins' \in Nat /\ arms' \in Nat
    BY DEF MappingObserved, Change, TypeOK
  <2> QED BY <1>1, <2>1, <2>2, <2>3 DEF TypeOK, tracker, records
<1>3. Lanes' /\ Pending' = Pending
  BY <1>1, <1>2, SameLanes
<1>4. Kept'
  <2> SUFFICES ASSUME NEW p \in armed', snap'[p[2]] # p[1], p \notin Owned'
               PROVE  Covered(p)' \/ p \in missed'
    BY DEF Kept
  <2>1. p \in Pairs /\ p \in armed /\ snap[p[2]] # p[1]
    BY <1>1 DEF TypeOK, tracker
  <2>2. CASE p \in Owned
    BY <1>1, <2>1, <2>2 DEF Owned, Unseen
  <2>3. CASE p \notin Owned
    <3>1. Covered(p) => Covered(p)'
      BY <1>1, <1>3 DEF Covered, tracker, records
    <3> QED BY <1>1, <2>1, <2>3, <3>1 DEF Kept
  <2> QED BY <2>2, <2>3
<1>5. HomeIsStayed'
  <2>1. Tracked' = Tracked
    BY <1>1 DEF Tracked, records
  <2> QED BY <1>1, <2>1 DEF HomeIsStayed
<1>6. ConfirmedOff' /\ LastIsSnap'
  BY <1>1, <1>3 DEF ConfirmedOff, LastIsSnap, tracker, records
<1> QED BY <1>2, <1>3, <1>4, <1>5, <1>6

(* What the tracker keeps.                                                 *)
LEMMA RefreshType ==
  ASSUME TypeOK, choice' \in Choices, mapped' \in Mappings, Refresh
  PROVE  /\ snap' \in [Accounts -> Servers \cup {None, Absent}]
         /\ last' \in [Accounts -> Servers \cup {None}]
         /\ LastIsSnap'
         /\ \A x \in Accounts : Known(x)' => snap'[x] = Owner(x)'
         /\ \A x \in Accounts : Known(x)' /\ Owner(x)' = None /\ x \notin Consumed => last'[x] = last[x]
<1>1. \A x \in Accounts : snap'[x] = IF Known(x)' THEN Owner(x)' ELSE Absent
  BY DEF Refresh, Snapshot
<1>2. \A x \in Accounts :
        last'[x] = IF ~Known(x)' THEN None
                   ELSE IF Owner(x)' # None THEN Owner(x)'
                   ELSE IF x \in Consumed THEN None ELSE last[x]
  BY DEF Refresh
<1>3. \A x \in Accounts : Owner(x)' \in Servers \cup {None}
  BY OwnershipNext
<1>4. DOMAIN snap' = Accounts /\ DOMAIN last' = Accounts
      /\ snap' = [x \in Accounts |-> snap'[x]] /\ last' = [x \in Accounts |-> last'[x]]
  BY DEF Refresh
<1>5. snap' \in [Accounts -> Servers \cup {None, Absent}]
  BY <1>1, <1>3, <1>4
<1>6. \A x \in Accounts : last'[x] \in Servers \cup {None}
  BY <1>2, <1>3 DEF TypeOK
<1>7. LastIsSnap'
  BY <1>1, <1>2, NamesAssumption DEF LastIsSnap
<1> QED BY <1>1, <1>2, <1>4, <1>5, <1>6, <1>7

(* A pair that is left now is asked for, or a sweep has it.                *)
LEMMA LeftIsCovered ==
  ASSUME IInv, choice' \in Choices, mapped' \in Mappings, SweepMoved, Pending' = Pending,
         NEW p \in Left, p \in armed, p \notin Done \cap stayed
  PROVE  Covered(p)'
<1>1. p \in Pairs /\ p[2] \in Accounts /\ Left \ Done \in SUBSET Pairs
  BY PairParts DEF Left
<1>2. CASE p \in Done
  <2>1. confirmed[p] # Absent
    BY <1>1, <1>2, OwnershipNext, NamesAssumption DEF Done
  <2> QED BY <1>2, <2>1 DEF IInv, ConfirmedOff, Covered
<1>3. CASE p \notin Done
  <2>1. \E r \in Asks(Left \ Done, "moved") : r.server = p[1] /\ p[2] \in r.accounts
    BY <1>1, <1>3, AsksType
  <2> QED BY <2>1 DEF SweepMoved, Covered
<1> QED BY <1>2, <1>3

LEMMA ComparedKeeps ==
  ASSUME IInv, Compared, choice' \in Choices, mapped' \in Mappings,
         changes' \in Nat, faults' \in Nat, logins' \in Nat, arms' \in Nat
  PROVE  IInv'
<1> USE DEF IInv
<1>1. /\ Refresh /\ SweepMoved /\ UNCHANGED <<lane, armed>>
      /\ stayed' = stayed \cup (Stays' \cap Tracked)
      /\ missed' = ((missed \cup Vanished \cup Unseen \cup (Done \cap stayed)) \cap armed) \ Owned'
  BY DEF Compared, Stay, Miss
<1>2. /\ confirmed' \in [Pairs -> Servers \cup {None, Absent}] /\ stale' \in [Pairs -> 0..MaxAttempts]
      /\ \A p \in Pairs : p \notin Returned => stale'[p] = stale[p]
      /\ \A p \in Pairs : confirmed'[p] # Absent => confirmed'[p] = confirmed[p]
  BY <1>1, BoundsAssumption DEF SweepMoved, Cleared, Without, TypeOK
<1>3. asked' \subseteq Request /\ asked \subseteq asked'
  BY <1>1, AsksType DEF SweepMoved, TypeOK, Left
<1>4. TypeOK'
  <2>1. stayed' \subseteq Pairs /\ missed' \subseteq Pairs
    BY <1>1 DEF Stays, TypeOK
  <2> QED BY <1>1, <1>2, <1>3, <2>1, RefreshType DEF TypeOK
<1>5. Lanes' /\ Pending' = Pending
  BY <1>1, <1>4, SameLanes
<1>6. HomeIsStayed'
  <2>1. Tracked' \subseteq Tracked
    BY <1>1, <1>2 DEF Tracked
  <2> QED BY <1>1, <2>1 DEF HomeIsStayed
<1>7. ConfirmedOff' /\ LastIsSnap'
  BY <1>1, <1>2, <1>5, RefreshType DEF ConfirmedOff, TypeOK
<1>8. Kept'
  <2> SUFFICES ASSUME NEW p \in armed', snap'[p[2]] # p[1], p \notin Owned', p \notin missed'
               PROVE  Covered(p)'
    BY DEF Kept
  <2> DEFINE s == p[1]
             x == p[2]
  <2>1. p \in Pairs /\ p \in armed /\ s \in Servers /\ x \in Accounts
    BY <1>1, PairParts DEF TypeOK
  <2>2. Owner(x)' # s /\ Known(x)'
    BY <1>1, <2>1 DEF Owned, Vanished
  <2>3. p \notin missed /\ p \notin Unseen /\ p \notin Done \cap stayed
    BY <1>1, <2>1
  <2>4. /\ Effective(x)' \in Servers \cup {None} /\ Owner(x)' \in Servers \cup {None}
        /\ Owner(x)' # None => Owner(x)' = Effective(x)'
    BY <2>1, OwnershipNext
  <2>5. snap'[x] = Owner(x)' /\ (Owner(x)' = None /\ x \notin Consumed => last'[x] = last[x])
    BY <1>1, <2>1, <2>2, RefreshType
  <2>6. p \in Left => Covered(p)'
    BY <1>1, <1>5, <2>1, <2>3, LeftIsCovered
  <2>7. stale'[p] = stale[p]
    BY <1>2, <2>1, <2>2 DEF Returned
  <2>8. CASE snap[x] = s
    <3>1. x \in Told /\ From(x) = s
      BY <2>1, <2>2, <2>8, NamesAssumption DEF Told, Moves, From
    <3>2. CASE Effective(x)' # s
      BY <2>1, <2>6, <3>1, <3>2 DEF Left
    <3>3. CASE Effective(x)' = s
      <4>1. Owner(x)' = None /\ x \notin Consumed
        BY <2>2, <2>4, <3>1, <3>3 DEF Consumed
      <4>2. last[x] = s
        BY <2>1, <2>8 DEF LastIsSnap
      <4> QED BY <2>5, <4>1, <4>2 DEF Covered
    <3> QED BY <3>2, <3>3
  <2>9. CASE snap[x] # s
    <3>1. p \notin Owned
      BY <2>1, <2>2, <2>3, <2>9 DEF Owned, Unseen
    <3>2. Covered(p)
      BY <2>1, <2>3, <2>9, <3>1 DEF Kept
    <3>3. CASE snap[x] = None /\ last[x] = s
      <4>1. CASE Owner(x)' = None
        <5>1. x \notin Consumed
          BY <3>3, <4>1 DEF Consumed, Moves
        <5> QED BY <2>5, <3>3, <4>1, <5>1 DEF Covered
      <4>2. CASE Owner(x)' # None
        <5>1. x \in Told /\ From(x) = s
          BY <2>1, <2>2, <3>3, <4>2, NamesAssumption DEF Told, Moves, From
        <5> QED BY <2>1, <2>2, <2>4, <2>6, <4>2, <5>1 DEF Left
      <4> QED BY <4>1, <4>2
    <3>4. CASE ~(snap[x] = None /\ last[x] = s)
      BY <1>3, <1>5, <2>7, <3>2, <3>4 DEF Covered
    <3> QED BY <3>3, <3>4
  <2> QED BY <2>8, <2>9
<1> QED BY <1>4, <1>5, <1>6, <1>7, <1>8

LEMMA ChangeKeeps == ASSUME IInv, SettingsChange \/ SnapshotApplied PROVE IInv'
<1>1. Compared /\ choice' \in Choices /\ mapped' \in Mappings
  BY DEF SettingsChange, SnapshotApplied, IInv, TypeOK
<1>2. changes' \in Nat /\ faults' \in Nat /\ logins' \in Nat /\ arms' \in Nat
  BY DEF SettingsChange, SnapshotApplied, Change, IInv, TypeOK
<1> QED BY <1>1, <1>2, ComparedKeeps

-----------------------------------------------------------------------------
(* The specification.                                                      *)

LEMMA InitIInv == Init => IInv
<1> SUFFICES ASSUME Init PROVE IInv
  OBVIOUS
<1>1. \A s \in Servers : lane[s] = Idle
  BY DEF Init
<1>2. choice \in Choices /\ mapped \in Mappings
  BY DEF Init
<1>3. \A x \in Accounts : /\ Owner(x) \in Servers \cup {None}
                          /\ Snapshot(x) \in Servers \cup {None, Absent}
                          /\ Owner(x) # None => Known(x)
  <2> TAKE x \in Accounts
  <2>1. choice[x] \in Servers \cup {None}
    BY <1>2, WorldAssumption
  <2>2. Effective(x) \in Servers \cup {None}
    BY <2>1, NamesAssumption DEF Effective
  <2> QED BY <2>2, NamesAssumption DEF Owner, Known, Registered, Snapshot
<1>4. \A x \in Accounts : snap[x] = Snapshot(x) /\ last[x] = Owner(x)
  BY DEF Init
<1>5. armed \subseteq Owned /\ armed \subseteq Pairs
  BY DEF Init, Owned
<1>6. \A s \in Servers : /\ lane[s] \in Lane /\ lane[s].accounts = {} /\ lane[s].next = {}
                         /\ lane[s].list = {} /\ lane[s].off = {} /\ lane[s].skipped = {}
                         /\ lane[s].phase = "idle"
  <2>1. /\ Idle \in Lane /\ Idle.accounts = {} /\ Idle.next = {} /\ Idle.list = {}
        /\ Idle.off = {} /\ Idle.skipped = {} /\ Idle.phase = "idle"
    BY DEF Idle, Lane
  <2> HIDE DEF Idle
  <2> QED BY <1>1, <2>1
<1>7. snap \in [Accounts -> Servers \cup {None, Absent}] /\ last \in [Accounts -> Servers \cup {None}]
  BY <1>3 DEF Init
<1>8. confirmed \in [Pairs -> Servers \cup {None, Absent}] /\ stale \in [Pairs -> 0..MaxAttempts]
  BY BoundsAssumption DEF Init
<1>9. lane \in [Servers -> Lane]
  BY <1>6 DEF Init
<1>10. TypeOK
  BY <1>2, <1>5, <1>6, <1>7, <1>8, <1>9 DEF Init, TypeOK
<1>11. Kept
  BY <1>5 DEF Kept
<1>12. HomeIsStayed /\ ConfirmedOff
  BY <1>5, <1>6, PairParts DEF Init, HomeIsStayed, ConfirmedOff, Tracked
<1>13. LastIsSnap
  BY <1>3, <1>4, NamesAssumption DEF LastIsSnap, Snapshot
<1>14. Lanes
  BY <1>6 DEF Lanes, SkippedCameBack, LeftIsOff, IdleIsEmpty, At
<1> QED BY <1>10, <1>11, <1>12, <1>13, <1>14 DEF IInv

LEMMA NextKeeps == IInv /\ [Next]_vars => IInv'
<1> SUFFICES ASSUME IInv, [Next]_vars PROVE IInv'
  OBVIOUS
<1>1. CASE SettingsChange \/ SnapshotApplied
  BY <1>1, ChangeKeeps
<1>2. CASE MappingObserved
  BY <1>2, ObservedKeeps
<1>3. CASE Login
  BY <1>3, LoginKeeps
<1>4. CASE \E due \in SUBSET Pairs : RetryTick(due)
  BY <1>4, TickKeeps
<1>5. CASE \E r \in asked : Enter(r) \/ LookupFails(r) \/ RetryRefused(r)
  BY <1>5, EnterStartsKeeps, EnterWaitsKeeps, LookupKeeps
<1>6. CASE \E s \in Servers : Steps(s) \/ SweepFails(s)
  BY <1>6, FirstReadKeeps, SwitchedOffKeeps, SecondReadKeeps, ConfirmsKeeps, RemainsKeeps DEF Steps
<1>7. CASE \E s \in Servers, x \in Accounts : Arm(s, x)
  BY <1>7, ArmKeeps
<1>8. CASE UNCHANGED vars
  <2>1. UNCHANGED <<world, tracker, records, asked, lane, armed, aux, bounds>>
    BY <1>8 DEF vars
  <2>2. Owned' = Owned /\ Stays' = Stays /\ Pending' = Pending /\ Tracked' = Tracked
    BY <2>1, SameWorld DEF Pending, Tracked, records
  <2> QED BY <2>1, <2>2
       DEF IInv, TypeOK, Kept, Covered, HomeIsStayed, ConfirmedOff, LastIsSnap, Lanes,
           SkippedCameBack, LeftIsOff, IdleIsEmpty, world, tracker, records, aux, bounds
<1> QED BY <1>1, <1>2, <1>3, <1>4, <1>5, <1>6, <1>7, <1>8 DEF Next

(* Every variable keeps its type, and a lane is idle exactly when it has   *)
(* no accounts: those of a sweep under way and of the next one never       *)
(* overlap (sweepAccounts leaves the former out).                          *)
THEOREM TypeCorrect == Spec => []TypeOK
<1>1. IInv => TypeOK
  BY DEF IInv
<1> QED BY <1>1, InitIInv, NextKeeps, PTL DEF Spec

(* A strategy on at a server that its account has left is on its way to be *)
(* switched off, its user is shown that it is not, or it was let go by one *)
(* of the exceptions: whatever the settings and mappings change to, and    *)
(* however the look-ups, the lanes, the sweeps that fail and the retries   *)
(* interleave with those changes (sweepMoved, retryStale, sweepServer).    *)
THEOREM NothingForgotten == Spec => []NothingIsForgotten
<1>1. IInv => NothingIsForgotten
  BY OwnedStays DEF IInv, Kept, NothingIsForgotten, Behind
<1> QED BY <1>1, InitIInv, NextKeeps, PTL DEF Spec
=============================================================================
