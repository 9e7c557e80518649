-------------------------- MODULE JournalFeed_proofs --------------------------
(***************************************************************************)
(* Proofs about JournalFeed, for every bound of its constants.             *)
(*                                                                         *)
(* A record is known by its key, epoch and number, wherever it is: in the  *)
(* gateway's log, a queue of the writer, a call whose answer was lost, the *)
(* database.  That no record is passed over rests on this: keys are in the *)
(* order of the events they stand for (KeysInOrder); a batch on its way to *)
(* the database leaves no event behind it, whenever it arrives (Transits), *)
(* which is why a late call may commit after the calls that repeat it; the *)
(* queue ends where reception stands (Trails), and all that was received   *)
(* is either in the database or queued (Kept).  The writer takes a jump in *)
(* the numbers for retention; that no jump follows from a fault needs what *)
(* is around before the first one (Faultless) and after a lost tail        *)
(* (TailIsKnown).  The refinement and LiveIsCaughtUp follow by step.       *)
(***************************************************************************)
EXTENDS JournalFeed, FiniteSetTheorems, WellFoundedInduction, SequenceTheorems, TLAPS

-----------------------------------------------------------------------------
(* Numbers.                                                                *)

LEMMA LeastExists ==
  ASSUME NEW S \in SUBSET Nat, S # {}
  PROVE  \E x \in S : \A y \in S : x <= y
<1>1. PICK x \in S : \A y \in S : ~(<<y, x>> \in OpToRel(<, Nat))
  BY ONLY NatLessThanWellFounded, WFMin, S \in SUBSET Nat, S # {}, Zenon
<1>2. \A y \in S : ~(y < x)
  BY <1>1 DEF OpToRel
<1> QED BY <1>2

LEMMA MaxIsGreatest ==
  ASSUME NEW S \in SUBSET Nat, S # {}, NEW b \in Nat, \A x \in S : x <= b
  PROVE  Max(S) \in S /\ \A y \in S : y <= Max(S)
<1> DEFINE B == {n \in Nat : \A x \in S : x <= n}
<1>1. PICK m \in B : \A n \in B : m <= n
  <2>1. B \in SUBSET Nat /\ B # {}
    OBVIOUS
  <2> HIDE DEF B
  <2> QED BY <2>1, LeastExists
<1>2. m \in S
  <2> SUFFICES ASSUME m \notin S PROVE FALSE
    OBVIOUS
  <2>0. m \in Nat /\ \A x \in S : x \in Nat /\ x < m
    BY <1>1
  <2>1. m # 0
    <3>1. PICK x \in S : TRUE
      OBVIOUS
    <3> QED BY <2>0, <3>1
  <2>2. m - 1 \in B
    BY <2>0, <2>1
  <2> QED BY <1>1, <2>2
<1> QED BY <1>1, <1>2 DEF Max

LEMMA MinIsLeast ==
  ASSUME NEW S \in SUBSET Nat, S # {}
  PROVE  Min(S) \in S /\ \A y \in S : Min(S) <= y
BY LeastExists DEF Min

(* The n-th smallest of P: an increasing enumeration of P.                 *)
Rank(P, i) == Cardinality({j \in P : j <= i})

LEMMA RankFacts ==
  ASSUME NEW P \in SUBSET Nat, IsFiniteSet(P)
  PROVE  /\ Cardinality(P) \in Nat
         /\ \A i \in P : Rank(P, i) \in 1..Cardinality(P)
         /\ \A i, j \in P : i < j => Rank(P, i) < Rank(P, j)
<1> DEFINE Upto(i) == {j \in P : j <= i}
<1>0. Cardinality(P) \in Nat
  BY FS_CardinalityType
<1>1. \A i \in P : IsFiniteSet(Upto(i)) /\ Cardinality(Upto(i)) <= Cardinality(P) /\ Cardinality(Upto(i)) \in Nat
  BY FS_Subset, FS_CardinalityType
<1>2. \A i \in P : Cardinality(Upto(i)) # 0
  BY <1>1, FS_EmptySet
<1>3. ASSUME NEW i \in P, NEW j \in P, i < j
      PROVE  Cardinality(Upto(i)) < Cardinality(Upto(j))
  <2>0. \A k \in P : k <= i => k <= j
    BY <1>3
  <2>1. Upto(i) \in SUBSET Upto(j)
    BY <2>0
  <2>2. j \in Upto(j) /\ j \notin Upto(i)
    BY <1>3
  <2> QED BY ONLY <1>1, <2>1, <2>2, FS_Subset, i \in P, j \in P
<1> QED BY <1>0, <1>1, <1>2, <1>3 DEF Rank

LEMMA NthFacts ==
  ASSUME NEW P \in SUBSET Nat, IsFiniteSet(P)
  PROVE  /\ Cardinality(P) \in Nat
         /\ \A n \in 1..Cardinality(P) : Nth(P, n) \in P
         /\ \A n, m \in 1..Cardinality(P) : n < m => Nth(P, n) < Nth(P, m)
         /\ \A i \in P : \E n \in 1..Cardinality(P) : Nth(P, n) = i
<1> DEFINE c == Cardinality(P)
           rank == [i \in P |-> Rank(P, i)]
<1>1. c \in Nat /\ IsFiniteSet(1..c) /\ Cardinality(1..c) = c
  BY FS_CardinalityType, FS_Interval
<1>2. rank \in Injection(P, 1..c)
  BY RankFacts DEF Injection, IsInjective
<1>3. rank \in Surjection(P, 1..c)
  <2> HIDE DEF rank
  <2> QED BY ONLY <1>1, <1>2, FS_Injection
<1>4. \A n \in 1..c : \E i \in P : Rank(P, i) = n
  BY <1>3 DEF Surjection
<1>5. \A n \in 1..c : Nth(P, n) \in P /\ Rank(P, Nth(P, n)) = n
  BY ONLY <1>4 DEF Nth, Rank
<1>6. \A i, j \in P : Rank(P, i) = Rank(P, j) => i = j
  BY RankFacts
<1>7. ASSUME NEW n \in 1..c, NEW m \in 1..c, n < m PROVE Nth(P, n) < Nth(P, m)
  <2>1. Nth(P, n) \in Nat /\ Nth(P, m) \in Nat
    BY <1>5
  <2>2. Nth(P, n) # Nth(P, m)
    BY <1>5, <1>7
  <2>3. ~(Nth(P, m) < Nth(P, n))
    <3>1. Nth(P, m) < Nth(P, n) => Rank(P, Nth(P, m)) < Rank(P, Nth(P, n))
      BY <1>5, RankFacts
    <3>2. Rank(P, Nth(P, m)) = m /\ Rank(P, Nth(P, n)) = n
      BY <1>5
    <3> QED BY ONLY <3>1, <3>2, <1>7, n \in 1..c, m \in 1..c, <1>1
  <2> QED BY <2>1, <2>2, <2>3
<1>8. ASSUME NEW i \in P PROVE \E n \in 1..c : Nth(P, n) = i
  <2>1. Rank(P, i) \in 1..c
    BY RankFacts
  <2> QED BY <2>1, <1>5, <1>6
<1> QED BY <1>1, <1>5, <1>7, <1>8

(* Picked keeps the records at P, in their order.                          *)
LEMMA PickedFacts ==
  ASSUME NEW T, NEW s \in Seq(T), NEW P \in SUBSET DOMAIN s
  PROVE  /\ Picked(s, P) \in Seq(T) /\ Len(Picked(s, P)) = Cardinality(P)
         /\ \A n \in DOMAIN Picked(s, P) : Nth(P, n) \in P /\ Picked(s, P)[n] = s[Nth(P, n)]
         /\ \A n, m \in DOMAIN Picked(s, P) : n < m => Nth(P, n) < Nth(P, m)
         /\ \A i \in P : \E n \in DOMAIN Picked(s, P) : Nth(P, n) = i
<1>1. P \in SUBSET Nat /\ IsFiniteSet(P)
  <2>1. IsFiniteSet(1..Len(s))
    BY FS_Interval
  <2> QED BY <2>1, FS_Subset
<1>2. Cardinality(P) \in Nat
  BY <1>1, NthFacts
<1>3. DOMAIN Picked(s, P) = 1..Cardinality(P)
  BY DEF Picked
<1>4. \A n \in 1..Cardinality(P) : Nth(P, n) \in P
  BY ONLY <1>1, NthFacts
<1>5. Picked(s, P) \in Seq(T) /\ Len(Picked(s, P)) = Cardinality(P)
  <2>1. \A n \in 1..Cardinality(P) : s[Nth(P, n)] \in T
    BY <1>4
  <2> QED BY <2>1, <1>2 DEF Picked
<1> QED BY <1>1, <1>3, <1>4, <1>5, NthFacts DEF Picked

-----------------------------------------------------------------------------
(* Writers.  WriterOK: a writer whose call is for the first records of its *)
(* queue, all of one epoch.                                                *)

WriterOK(w) ==
  /\ w \in Writer
  /\ w.busy <= Len(w.queue) /\ Len(w.queue) <= MaxQueue
  /\ w.call \in {"sent", "done"} <=> w.busy > 0
  /\ \A i \in 1..w.busy : w.queue[i].epoch = w.queue[1].epoch

Ascending(s) == \A i, j \in DOMAIN s : i < j => s[i].seq < s[j].seq

LEMMA KickFacts ==
  ASSUME NEW w \in Writer, WriterOK(w) \/ (w.call = "none" /\ w.busy = 0 /\ Len(w.queue) <= MaxQueue)
  PROVE  /\ WriterOK(Kick(w))
         /\ Kick(w).epoch = w.epoch /\ Kick(w).received = w.received /\ Kick(w).queue = w.queue
         /\ \/ Kick(w).call = w.call /\ Kick(w).busy = w.busy
            \/ w.call = "none" /\ Kick(w).call = "sent"
<1> DEFINE fits(n) == \A i \in 1..n : w.queue[i].epoch = w.queue[1].epoch
           S == {n \in 1..BatchSize : n <= Len(w.queue) /\ fits(n)}
           b == Max(S)
<1>0. w.queue \in Seq(Queued) /\ Len(w.queue) \in Nat /\ Len(w.queue) <= MaxQueue
  BY DEF Writer, WriterOK
<1>1. CASE w.call # "none" \/ w.queue = <<>>
  <2>1. Kick(w) = w
    BY <1>1 DEF Kick
  <2>2. WriterOK(w)
    BY <1>0, <1>1 DEF WriterOK, Writer
  <2> QED BY <2>1, <2>2
<1>2. CASE w.call = "none" /\ w.queue # <<>>
  <2>1. b \in S
    <3>1. S \in SUBSET Nat /\ \A n \in S : n <= BatchSize
      BY SizesAssumption
    <3>2. 1 \in S
      <4>1. Len(w.queue) >= 1
        BY <1>0, <1>2
      <4> QED BY <4>1, SizesAssumption
    <3> HIDE DEF S
    <3> QED BY <3>1, <3>2, MaxIsGreatest, SizesAssumption
  <2> HIDE DEF b
  <2>2. Kick(w) = [w EXCEPT !.call = "sent", !.busy = b]
    BY ONLY <1>2 DEF Kick, b
  <2>3. b \in Nat /\ b > 0 /\ b <= Len(w.queue) /\ fits(b)
    BY <2>1, SizesAssumption
  <2> HIDE DEF S
  <2>4. /\ Kick(w) \in Writer /\ Kick(w).busy = b /\ Kick(w).call = "sent"
        /\ Kick(w).epoch = w.epoch /\ Kick(w).received = w.received /\ Kick(w).queue = w.queue
    BY <2>2, <2>3 DEF Writer
  <2> QED BY <1>0, <1>2, <2>3, <2>4 DEF WriterOK
<1> QED BY <1>1, <1>2

LEMMA FreshFacts ==
  ASSUME NEW w \in Writer, NEW records \in Seq(Record), Ascending(records)
  PROVE  LET f == Fresh(w, records)
         IN /\ f \in Seq(Record) /\ Ascending(f)
            /\ \A n \in DOMAIN f : f[n].seq > w.received /\ \E i \in DOMAIN records : f[n] = records[i]
            /\ \A i \in DOMAIN records : records[i].seq > w.received =>
                 \E n \in DOMAIN f : f[n] = records[i]
<1> DEFINE P == {i \in DOMAIN records : records[i].seq > w.received}
           f == Picked(records, P)
<1>1. P \in SUBSET DOMAIN records
  OBVIOUS
<1>2. /\ f \in Seq(Record)
      /\ \A n \in DOMAIN f : Nth(P, n) \in P /\ f[n] = records[Nth(P, n)]
      /\ \A n, m \in DOMAIN f : n < m => Nth(P, n) < Nth(P, m)
      /\ \A i \in P : \E n \in DOMAIN f : Nth(P, n) = i
  <2> HIDE DEF P
  <2> QED BY <1>1, PickedFacts
<1>3. Fresh(w, records) = f
  BY DEF Fresh
<1>4. \A i \in P : i \in DOMAIN records /\ records[i].seq > w.received
  OBVIOUS
<1>5. \A i \in DOMAIN records : records[i].seq > w.received => i \in P
  OBVIOUS
<1> HIDE DEF P, f
<1>6. Ascending(f)
  BY <1>2, <1>4 DEF Ascending
<1> QED BY <1>2, <1>3, <1>4, <1>5, <1>6

Base(w, f) == IF w.received = Null /\ f # <<>> THEN f[1].seq - 1 ELSE w.received

LEMMA AcceptedFacts ==
  ASSUME NEW w \in Writer, NEW records \in Seq(Record), Ascending(records)
  PROVE  LET f == Fresh(w, records)
             a == Accepted(w, records)
         IN /\ a \in Seq(Record) /\ Len(a) <= Len(f) /\ Ascending(a)
            /\ \A n \in 1..Len(a) : a[n] = f[n] /\ a[n].seq = Base(w, f) + n
<1> DEFINE f == Fresh(w, records)
           dense(n) == \A i \in 1..n : f[i].seq = Base(w, f) + i
           S == {n \in 0..Len(f) : dense(n)}
           k == Max(S)
<1>1. f \in Seq(Record) /\ Ascending(f)
  BY FreshFacts
<1>2. Accepted(w, records) = SubSeq(f, 1, k)
  BY DEF Accepted, Base
<1> HIDE DEF f
<1>3. k \in S
  <2>1. S \in SUBSET Nat /\ (\A n \in S : n <= Len(f)) /\ 0 \in S /\ Len(f) \in Nat
    BY <1>1
  <2> HIDE DEF S
  <2> QED BY <2>1, MaxIsGreatest
<1> HIDE DEF k
<1>4. k \in Nat /\ k <= Len(f) /\ dense(k)
  BY <1>1, <1>3
<1>5. SubSeq(f, 1, k) \in Seq(Record) /\ Len(SubSeq(f, 1, k)) = k
      /\ \A n \in 1..k : SubSeq(f, 1, k)[n] = f[n]
  BY <1>1, <1>4
<1>6. Ascending(SubSeq(f, 1, k))
  BY <1>1, <1>4, <1>5 DEF Ascending
<1> QED BY <1>2, <1>4, <1>5, <1>6 DEF f

LEMMA RecordFacts ==
  \A s \in Seq(Record) : \A n \in DOMAIN s :
    s[n] \in Record /\ s[n].seq \in Nat /\ s[n].event \in Nat
<1>1. \A s \in Seq(Record) : \A n \in DOMAIN s : s[n] \in Record
  OBVIOUS
<1>2. \A r \in Record : r.seq \in Nat /\ r.event \in Nat
  BY DEF Record
<1> QED BY <1>1, <1>2

LEMMA AppendedFacts ==
  ASSUME NEW T, NEW s \in Seq(T), NEW t \in Seq(T)
  PROVE  /\ s \o t \in Seq(T) /\ Len(s \o t) = Len(s) + Len(t)
         /\ \A i \in 1..Len(s) : (s \o t)[i] = s[i]
         /\ \A i \in 1..Len(t) : (s \o t)[Len(s) + i] = t[i]
OBVIOUS

LEMMA AppendedSet ==
  ASSUME NEW T, NEW s \in Seq(T), NEW t \in Seq(T)
  PROVE  ToSet(s \o t) = ToSet(s) \cup ToSet(t)
<1>1. /\ Len(s) \in Nat /\ Len(t) \in Nat /\ DOMAIN s = 1..Len(s) /\ DOMAIN t = 1..Len(t)
      /\ DOMAIN (s \o t) = 1..(Len(s) + Len(t))
      /\ \A i \in 1..Len(s) : (s \o t)[i] = s[i]
      /\ \A i \in 1..Len(t) : (s \o t)[Len(s) + i] = t[i]
  BY AppendedFacts
<1> DEFINE u == s \o t
<1> HIDE DEF u
<1>2. ASSUME NEW i \in 1..(Len(s) + Len(t))
      PROVE  i \in 1..Len(s) \/ (i - Len(s) \in 1..Len(t) /\ Len(s) + (i - Len(s)) = i)
  BY <1>1
<1>3. \A i \in 1..Len(t) : Len(s) + i \in 1..(Len(s) + Len(t))
  BY <1>1
<1>4. \A i \in 1..Len(s) : i \in 1..(Len(s) + Len(t))
  BY <1>1
<1>5. ASSUME NEW e, NEW i \in DOMAIN u, u[i] = e
      PROVE  (\E k \in DOMAIN s : s[k] = e) \/ (\E k \in DOMAIN t : t[k] = e)
  BY <1>1, <1>2, <1>5 DEF u
<1>6. ASSUME NEW e, NEW k \in DOMAIN s, s[k] = e PROVE \E i \in DOMAIN u : u[i] = e
  BY <1>1, <1>4, <1>6 DEF u
<1>7. ASSUME NEW e, NEW k \in DOMAIN t, t[k] = e PROVE \E i \in DOMAIN u : u[i] = e
  BY <1>1, <1>3, <1>7 DEF u
<1>8. \A e : e \in ToSet(u) <=> e \in ToSet(s) \/ e \in ToSet(t)
  BY <1>5, <1>6, <1>7 DEF ToSet
<1> QED BY <1>8 DEF u

Queueing(w, r) == [epoch |-> w.epoch, seq |-> r.seq, event |-> r.event]

(* What push changes: the new items are the records of the frame after the *)
(* old received and up to the new one, in order.                           *)
Pushed(w, records, v) ==
  /\ WriterOK(v) /\ v.epoch = w.epoch
  /\ (v.call = w.call /\ v.busy = w.busy) \/ (w.call = "none" /\ v.call = "sent")
  /\ v.received >= w.received
  /\ v.received = w.received \/ \E j \in DOMAIN records : v.received = records[j].seq
  /\ Len(v.queue) >= Len(w.queue) /\ \A i \in 1..Len(w.queue) : v.queue[i] = w.queue[i]
  /\ \A i \in DOMAIN v.queue : i > Len(w.queue) =>
       \E j \in DOMAIN records : /\ v.queue[i] = Queueing(w, records[j])
                                /\ records[j].seq > w.received /\ records[j].seq <= v.received
  /\ \A i, j \in DOMAIN v.queue : Len(w.queue) < i /\ i < j => v.queue[i].seq < v.queue[j].seq
  /\ \A j \in DOMAIN records : w.received < records[j].seq /\ records[j].seq <= v.received =>
       \E i \in DOMAIN v.queue : i > Len(w.queue) /\ v.queue[i] = Queueing(w, records[j])

LEMMA PushFacts ==
  ASSUME NEW w, WriterOK(w), NEW records \in Seq(Record), Ascending(records)
  PROVE  /\ Pushed(w, records, Push(w, records))
         /\ PushResult(w, records) = "ok" =>
              \A j \in DOMAIN records : records[j].seq <= Push(w, records).received
<1> DEFINE f == Fresh(w, records)
           a == Accepted(w, records)
           v == Push(w, records)
<1>1. /\ w \in Writer /\ w.queue \in Seq(Queued) /\ w.received \in Nat \cup {Null} /\ w.epoch \in Nat
      /\ Len(w.queue) \in Nat /\ Len(w.queue) <= MaxQueue
  BY DEF WriterOK, Writer
<1>2. /\ f \in Seq(Record) /\ Ascending(f)
      /\ \A n \in DOMAIN f : f[n].seq > w.received /\ \E i \in DOMAIN records : f[n] = records[i]
      /\ \A i \in DOMAIN records : records[i].seq > w.received => \E n \in DOMAIN f : f[n] = records[i]
  BY <1>1, FreshFacts
<1>3. /\ a \in Seq(Record) /\ Len(a) <= Len(f) /\ Ascending(a)
      /\ \A n \in 1..Len(a) : a[n] = f[n] /\ a[n].seq = Base(w, f) + n
  BY <1>1, AcceptedFacts
<1>4. PushResult(w, records) \in {"overflow", "gap", "ok"} /\ (PushResult(w, records) = "ok" => a = f)
      /\ (PushResult(w, records) # "overflow" <=> Len(w.queue) + Len(a) <= MaxQueue)
  <2>1. Len(a) \in Nat /\ Len(w.queue) \in Nat /\ MaxQueue \in Nat
    BY <1>1, <1>3, SizesAssumption
  <2> QED BY <2>1 DEF PushResult
<1>r. \A j \in DOMAIN records : records[j].seq \in Nat
  BY RecordFacts
<1> HIDE DEF f, a
<1>5. CASE a = <<>> \/ PushResult(w, records) = "overflow"
  <2>1. v = w
    BY <1>5 DEF Push, a
  <2>2. PushResult(w, records) = "ok" => \A j \in DOMAIN records : records[j].seq <= w.received
    <3>1. PushResult(w, records) = "ok" => f = <<>>
      BY <1>4, <1>5
    <3> QED BY <3>1, <1>1, <1>2, <1>r DEF Null
  <2>3. Pushed(w, records, w)
    <3>1. DOMAIN w.queue = 1..Len(w.queue) /\ w.received \in Int
      BY <1>1 DEF Null
    <3> QED BY ONLY <3>1, <1>1, <1>r, WriterOK(w) DEF Pushed
  <2> QED BY <2>1, <2>2, <2>3
<1>6. CASE a # <<>> /\ PushResult(w, records) # "overflow"
  <2> DEFINE items == [i \in DOMAIN a |-> Queueing(w, a[i])]
             q == w.queue \o items
             u == [w EXCEPT !.queue = q, !.received = Last(a).seq]
             last == Last(a).seq
  <2>0. a # <<>> /\ Len(a) \in Nat /\ Len(a) > 0 /\ DOMAIN a = 1..Len(a) /\ Len(w.queue) + Len(a) <= MaxQueue
    BY <1>3, <1>4, <1>6
  <2>1. v = Kick(u)
    BY <1>6 DEF Push, a, Queueing
  <2>2. \A n \in DOMAIN a : a[n] \in Record /\ a[n].seq \in Nat /\ a[n].event \in Nat
    BY <1>3, RecordFacts
  <2>3. items \in Seq(Queued) /\ Len(items) = Len(a)
    BY <2>0, <2>2, <1>1 DEF Queued, Queueing
  <2>4. /\ q \in Seq(Queued) /\ Len(q) = Len(w.queue) + Len(a)
        /\ \A i \in 1..Len(w.queue) : q[i] = w.queue[i]
        /\ \A i \in DOMAIN a : q[Len(w.queue) + i] = items[i]
    <3> HIDE DEF items
    <3>1. /\ q \in Seq(Queued) /\ Len(q) = Len(w.queue) + Len(items)
          /\ \A i \in 1..Len(w.queue) : q[i] = w.queue[i]
          /\ \A i \in 1..Len(items) : q[Len(w.queue) + i] = items[i]
      <4>1. w.queue \in Seq(Queued) /\ items \in Seq(Queued)
        BY <2>3, <1>1
      <4> QED BY ONLY <4>1, AppendedFacts
    <3> QED BY <3>1, <2>3, <2>0
  <2>5. \A i \in DOMAIN a : q[Len(w.queue) + i] = Queueing(w, a[i])
    BY <2>4
  <2>6. last \in Nat /\ last = a[Len(a)].seq
    BY <2>0, <2>2 DEF Last
  <2> HIDE DEF items, q, last
  <2>7. /\ u \in Writer /\ u.queue = q /\ u.received = last /\ u.epoch = w.epoch
        /\ u.busy = w.busy /\ u.call = w.call
    BY <1>1, <2>4, <2>6 DEF Writer, last
  <2> HIDE DEF u
  <2>8. WriterOK(u)
    <3>1. w.busy \in Nat /\ w.busy <= Len(w.queue)
      BY DEF WriterOK, Writer
    <3>2. \A i \in 1..w.busy : q[i] = w.queue[i]
      BY <3>1, <2>4, <1>1
    <3>3. \A i \in 1..w.busy : q[i].epoch = q[1].epoch
      BY <3>1, <3>2 DEF WriterOK
    <3>4. w.busy <= Len(q) /\ Len(q) <= MaxQueue
      BY <3>1, <2>0, <2>4, <1>1
    <3>5. w.call \in {"sent", "done"} <=> w.busy > 0
      BY DEF WriterOK
    <3> QED BY ONLY <3>3, <3>4, <3>5, <2>7 DEF WriterOK
  <2>9. /\ WriterOK(v) /\ v.epoch = w.epoch /\ v.received = last /\ v.queue = q
        /\ (v.call = w.call /\ v.busy = w.busy) \/ (w.call = "none" /\ v.call = "sent")
    BY <2>1, <2>7, <2>8, KickFacts
  <2> HIDE DEF v
  <2>10. \A n \in DOMAIN a : a[n].seq <= last /\ a[n].seq > w.received /\ \E j \in DOMAIN records : a[n] = records[j]
    <3>1. \A n \in DOMAIN a : n \in DOMAIN f /\ a[n] = f[n]
      BY <1>2, <1>3, <2>0
    <3>2. \A n \in DOMAIN a : a[n].seq <= last
      BY <1>3, <2>0, <2>2, <2>6 DEF Ascending
    <3> QED BY <3>1, <3>2, <1>2
  <2>11. last >= w.received /\ \E j \in DOMAIN records : last = records[j].seq
    BY <2>10, <2>0, <2>6, <1>1 DEF Null
  <2>12. \A i \in DOMAIN q : i > Len(w.queue) => i - Len(w.queue) \in DOMAIN a /\ q[i] = Queueing(w, a[i - Len(w.queue)])
    <3> SUFFICES ASSUME NEW i \in DOMAIN q, i > Len(w.queue)
                 PROVE  i - Len(w.queue) \in DOMAIN a /\ q[i] = Queueing(w, a[i - Len(w.queue)])
      OBVIOUS
    <3>1. i \in Nat /\ i <= Len(w.queue) + Len(a)
      BY <2>4
    <3>2. i - Len(w.queue) \in DOMAIN a
      BY <3>1, <2>0, <1>1
    <3>3. Len(w.queue) + (i - Len(w.queue)) = i
      BY <3>1, <1>1
    <3> QED BY <3>2, <3>3, <2>5
  <2>13. \A i \in DOMAIN q : i > Len(w.queue) =>
           \E j \in DOMAIN records : /\ q[i] = Queueing(w, records[j])
                                    /\ records[j].seq > w.received /\ records[j].seq <= last
    BY <2>10, <2>12
  <2>14. ASSUME NEW i \in DOMAIN q, NEW j \in DOMAIN q, Len(w.queue) < i, i < j
         PROVE  q[i].seq < q[j].seq
    <3>1. i \in Nat /\ j \in Nat /\ j > Len(w.queue)
      BY <2>4, <2>14, <1>1
    <3>2. i - Len(w.queue) < j - Len(w.queue)
      BY <3>1, <2>14, <1>1
    <3>3. a[i - Len(w.queue)].seq < a[j - Len(w.queue)].seq
      BY <3>1, <3>2, <2>12, <2>14, <1>3 DEF Ascending
    <3> QED BY <3>1, <3>3, <2>12, <2>14 DEF Queueing
  <2>15. ASSUME NEW j \in DOMAIN records, w.received < records[j].seq, records[j].seq <= last
         PROVE  \E n \in DOMAIN a : a[n] = records[j]
    <3>1. PICK n \in DOMAIN f : f[n] = records[j]
      BY <1>2, <2>15, <1>r, <1>1 DEF Null
    <3>2. last = f[Len(a)].seq /\ Len(a) \in DOMAIN f
      BY <1>2, <1>3, <2>0, <2>6
    <3>3. ~(Len(a) < n)
      <4>1. Len(a) < n => f[Len(a)].seq < f[n].seq
        BY <1>2, <3>2 DEF Ascending
      <4> QED BY <4>1, <3>1, <3>2, <2>15, <1>r, <2>6
    <3>4. n \in DOMAIN a /\ a[n] = f[n]
      BY <3>3, <2>0, <1>2, <1>3
    <3> QED BY <3>1, <3>4
  <2>16. \A n \in DOMAIN a : Len(w.queue) + n \in DOMAIN q /\ Len(w.queue) + n > Len(w.queue)
    BY <2>0, <2>4, <1>1
  <2>17. ASSUME NEW j \in DOMAIN records, w.received < records[j].seq, records[j].seq <= last
         PROVE  \E i \in DOMAIN q : i > Len(w.queue) /\ q[i] = Queueing(w, records[j])
    BY <2>15, <2>16, <2>17, <2>5
  <2>18. PushResult(w, records) = "ok" => \A j \in DOMAIN records : records[j].seq <= last
    <3> SUFFICES ASSUME PushResult(w, records) = "ok", NEW j \in DOMAIN records
                 PROVE  records[j].seq <= last
      OBVIOUS
    <3>1. CASE records[j].seq > w.received
      BY <3>1, <1>2, <1>4, <2>10
    <3>2. CASE ~(records[j].seq > w.received)
      BY <3>2, <2>6, <2>11, <1>1, <1>r DEF Null
    <3> QED BY <3>1, <3>2
  <2>19. Len(q) >= Len(w.queue)
    BY <2>4, <2>0, <1>1
  <2>20. Pushed(w, records, v)
    BY <2>9, <2>11, <2>19, <2>4, <2>13, <2>14, <2>17 DEF Pushed
  <2> QED BY <2>9, <2>18, <2>20 DEF v
<1> QED BY <1>5, <1>6, <1>4

(* The transaction inserts the events whose key no row has, in order.      *)
LEMMA InsertedFacts ==
  ASSUME NEW known \in SUBSET Queued, NEW b \in Seq(Queued)
  PROVE  LET new == Inserted(known, b)
             differs(x) == \A old \in known : old.epoch # x.epoch \/ old.seq # x.seq
         IN /\ new \in Seq(Queued)
            /\ \A n \in DOMAIN new : \E i \in DOMAIN b : new[n] = b[i] /\ differs(b[i])
            /\ \A i \in DOMAIN b : differs(b[i]) => \E n \in DOMAIN new : new[n] = b[i]
            /\ (\A i, j \in DOMAIN b : i < j => b[i].event < b[j].event) =>
                 \A n, m \in DOMAIN new : n < m => new[n].event < new[m].event
<1> DEFINE differs(x) == \A old \in known : old.epoch # x.epoch \/ old.seq # x.seq
           P == {i \in DOMAIN b : differs(b[i])}
           new == Picked(b, P)
<1>1. P \in SUBSET DOMAIN b
  OBVIOUS
<1>2. /\ new \in Seq(Queued)
      /\ \A n \in DOMAIN new : Nth(P, n) \in P /\ new[n] = b[Nth(P, n)]
      /\ \A n, m \in DOMAIN new : n < m => Nth(P, n) < Nth(P, m)
      /\ \A i \in P : \E n \in DOMAIN new : Nth(P, n) = i
  <2> HIDE DEF P
  <2> QED BY <1>1, PickedFacts
<1>3. Inserted(known, b) = new
  BY DEF Inserted
<1>4. \A i : i \in P <=> i \in DOMAIN b /\ differs(b[i])
  OBVIOUS
<1> HIDE DEF P, new, differs
<1>5. \A n \in DOMAIN new : \E i \in DOMAIN b : new[n] = b[i] /\ differs(b[i])
  BY <1>2, <1>4
<1>6. \A i \in DOMAIN b : differs(b[i]) => \E n \in DOMAIN new : new[n] = b[i]
  BY <1>2, <1>4
<1>7. (\A i, j \in DOMAIN b : i < j => b[i].event < b[j].event) =>
        \A n, m \in DOMAIN new : n < m => new[n].event < new[m].event
  BY <1>2, <1>4
<1> QED BY <1>2, <1>3, <1>5, <1>6, <1>7 DEF differs

-----------------------------------------------------------------------------
(* The inductive invariant, for one stream.                                *)

(* A record of the log as the writer queues it and the database keeps it.  *)
Item(r) == [epoch |-> gw.epoch, seq |-> r.seq, event |-> r.event]

(* The queue and the calls that may still commit; every item there is.     *)
Waiting(st) == {writer[st].queue} \cup {c.batch : c \in {d \in late : d.stream = st}}
Items(st) == rows[st] \cup UNION {ToSet(q) : q \in Waiting(st)}
All(st) == Items(st) \cup {Item(r) : r \in gw.log[st]}

Before(a, b) == a.epoch < b.epoch \/ (a.epoch = b.epoch /\ a.seq < b.seq)

(* The order of the keys is the order of the events.                       *)
KeysInOrder(st) == \A a, b \in All(st) : Before(a, b) <=> a.event < b.event

InRange(st) ==
  \A a \in All(st) : a.epoch \in 1..gw.epoch /\ a.seq >= 1 /\ a.event \in 1..appended[st]

Log(st) ==
  /\ gw.epoch >= 1 /\ \A r \in gw.log[st] : r.seq <= gw.head[st]
  /\ forgotten[st] \subseteq 1..appended[st]
  /\ 1..appended[st] \subseteq forgotten[st] \cup {r.event : r \in gw.log[st]}

(* The seq to come is of no item yet.                                      *)
NextIsNew(st) ==
  gw.next[st] # 0 =>
    /\ gw.head[st] < gw.next[st]
    /\ \A a \in All(st) : a.epoch = gw.epoch => a.seq < gw.next[st]
    /\ writer[st].epoch = gw.epoch => writer[st].received < gw.next[st]

Copies(st) == Events(st) = {r.event : r \in rows[st]}

(* What waits is in order, and what the gateway keeps from before it was   *)
(* projected or waits in the same place.                                   *)
Transits(st, q) ==
  /\ \A i, j \in DOMAIN q : i < j => q[i].event < q[j].event
  /\ \A i \in DOMAIN q, r \in gw.log[st] : r.event < q[i].event =>
       r.event \in Events(st) \/ \E j \in DOMAIN q : q[j].event = r.event

InTransit(st) == \A q \in Waiting(st) : Transits(st, q)

Batches(st) ==
  /\ WriterOK(writer[st])
  /\ writer[st].call = "done" => \A i \in 1..writer[st].busy : writer[st].queue[i] \in rows[st]
  /\ \A c \in late : c.stream = st =>
       c.batch # <<>> /\ \A i \in DOMAIN c.batch : c.batch[i].epoch = c.batch[1].epoch

CursorIsRow(st) ==
  /\ cursor[st].seq = 0 \/ \E r \in rows[st] : r.epoch = cursor[st].epoch /\ r.seq = cursor[st].seq
  /\ cursor[st].epoch <= gw.epoch /\ writer[st].epoch <= gw.epoch

(* The queue is of what was received, or of what the gateway no longer     *)
(* keeps.                                                                  *)
Trails(st) ==
  \A i \in DOMAIN writer[st].queue : writer[st].queue[i].epoch = gw.epoch =>
    /\ writer[st].epoch = gw.epoch
    /\ \/ writer[st].queue[i].seq <= writer[st].received
       \/ writer[st].received = Null /\ \A r \in gw.log[st] : writer[st].queue[i].seq < r.seq

NoHole(st) ==
  cursor[st].epoch = gw.epoch =>
    \A r \in gw.log[st] : r.seq <= cursor[st].seq => r.event \in Events(st)

Kept(st) ==
  writer[st].epoch = gw.epoch =>
    \A r \in gw.log[st] : r.seq <= writer[st].received =>
      \/ r.event \in Events(st)
      \/ \E i \in DOMAIN writer[st].queue : writer[st].queue[i].event = r.event

StreamInv(st) ==
  /\ KeysInOrder(st) /\ InRange(st) /\ Log(st) /\ NextIsNew(st) /\ Copies(st)
  /\ InTransit(st) /\ Batches(st) /\ CursorIsRow(st) /\ Trails(st) /\ NoHole(st) /\ Kept(st)

-----------------------------------------------------------------------------
(* The inductive invariant, for the connection and both streams.           *)

LoggedOn == obs.state \in {"replaying", "live"}
Unpaused(st) == st = "order" \/ obs.paused = "no"
Got(w) == IF w.received = Null THEN 0 ELSE w.received

LineShape ==
  /\ line.up <=> obs.state \in {"logging_in", "replaying", "live"}
  /\ line.asked <=> obs.state = "logging_in"
  /\ obs.boot # "done" => obs.state = "connecting" /\ ~obs.cursorReady
  /\ obs.boot = "done" /\ ~obs.cursorReady => obs.paused # "no"
  /\ LoggedOn => \A st \in Streams : Unpaused(st) => writer[st].epoch = gw.epoch

Queues ==
  /\ obs.boot # "done" => \A st \in Streams : writer[st].queue = <<>>
  /\ ~obs.cursorReady => writer["strategy"].queue = <<>>
  /\ writer["strategy"].queue # <<>> => writer["order"].epoch = writer["strategy"].epoch

(* What the login asked for is what was received, or the strategy stream   *)
(* has nothing queued and is asked for from the start.                     *)
Asked ==
  line.asked =>
    /\ line.epoch = writer["order"].epoch
    /\ line.since["order"] = Got(writer["order"])
    /\ \/ line.since["strategy"] = 0 /\ writer["strategy"].queue = <<>>
       \/ /\ writer["strategy"].epoch = line.epoch /\ obs.cursorReady
          /\ line.since["strategy"] = Got(writer["strategy"])

Listening ==
  LoggedOn => \A st \in Streams : Unpaused(st) =>
    /\ line.sent[st] <= Got(writer[st])
    /\ line.head[st] <= gw.head[st]
    /\ ~obs.pending[st] =>
         \A r \in gw.log[st] : r.seq <= line.head[st] => r.seq <= writer[st].received

(* Before any fault nothing of an earlier relay or of an earlier call is   *)
(* under way, and both streams are of one epoch.                           *)
Steady ==
  /\ late = {}
  /\ writer["order"].epoch = writer["strategy"].epoch
  /\ obs.boot = "done" => obs.cursorReady
  /\ obs.boot # "done" => \A st \in Streams :
       Items(st) = {} /\ cursor[st] = [epoch |-> 0, seq |-> 0] /\ writer[st].epoch = 0
  /\ line.asked => \A st \in Streams : line.since[st] = Got(writer[st])

Unbroken(st, n) ==
  /\ Steady
  /\ \A a \in Items(st) : a.epoch = gw.epoch =>
       writer[st].epoch = gw.epoch /\ (a.seq <= writer[st].received \/ a.seq < n)

Faultless == faults = 0 => \A st \in Streams : Unbroken(st, gw.head[st])

TailIsKnown ==
  \A st \in Streams : gw.next[st] = 0 =>
    faults = MaxFaults /\ MaxFaults > 0 /\ Unbroken(st, gw.head[st] + 1)

IInv ==
  /\ TypeOK
  /\ \A st \in Streams : StreamInv(st)
  /\ LineShape /\ Queues /\ Asked /\ Listening /\ Faultless /\ TailIsKnown

-----------------------------------------------------------------------------
(* What the parts of the invariant say, in the two states of a step.       *)

LEMMA AllFacts ==
  ASSUME NEW st \in Streams
  PROVE  /\ \A q : q \in Waiting(st) <=> q = writer[st].queue \/ \E c \in late : c.stream = st /\ q = c.batch
         /\ \A a : a \in Items(st) <=> a \in rows[st] \/ \E q \in Waiting(st) : \E i \in DOMAIN q : a = q[i]
         /\ \A a : a \in All(st) <=> a \in Items(st) \/ \E r \in gw.log[st] : a = Item(r)
         /\ \A q : q \in Waiting(st)' <=> q = writer'[st].queue \/ \E c \in late' : c.stream = st /\ q = c.batch
         /\ \A a : a \in Items(st)' <=> a \in rows'[st] \/ \E q \in Waiting(st)' : \E i \in DOMAIN q : a = q[i]
         /\ \A a : a \in All(st)' <=> a \in Items(st)' \/ \E r \in gw'.log[st] : a = Item(r)'
<1>1. \A q : q \in Waiting(st) <=> q = writer[st].queue \/ \E c \in late : c.stream = st /\ q = c.batch
  BY DEF Waiting
<1>2. \A a : a \in Items(st) <=> a \in rows[st] \/ \E q \in Waiting(st) : \E i \in DOMAIN q : a = q[i]
  BY DEF Items, ToSet
<1>3. \A a : a \in All(st) <=> a \in Items(st) \/ \E r \in gw.log[st] : a = Item(r)
  BY DEF All
<1>4. \A q : q \in Waiting(st)' <=> q = writer'[st].queue \/ \E c \in late' : c.stream = st /\ q = c.batch
  BY DEF Waiting
<1>5. \A a : a \in Items(st)' <=> a \in rows'[st] \/ \E q \in Waiting(st)' : \E i \in DOMAIN q : a = q[i]
  BY DEF Items, ToSet
<1>6. \A a : a \in All(st)' <=> a \in Items(st)' \/ \E r \in gw'.log[st] : a = Item(r)'
  BY DEF All
<1> QED BY <1>1, <1>2, <1>3, <1>4, <1>5, <1>6

LEMMA QueuedFacts ==
  /\ \A a \in Queued : a.epoch \in Nat /\ a.seq \in Nat /\ a.event \in Nat
  /\ \A a, b \in Queued : a.epoch = b.epoch /\ a.seq = b.seq /\ a.event = b.event => a = b
  /\ \A r \in Record : r.seq \in Nat /\ r.event \in Nat
  /\ \A r, s \in Record : r.seq = s.seq /\ r.event = s.event => r = s
  /\ \A s \in Seq(Queued) : \A i \in DOMAIN s : s[i] \in Queued
<1>1. \A a \in Queued : a.epoch \in Nat /\ a.seq \in Nat /\ a.event \in Nat
  BY DEF Queued
<1>2. \A a, b \in Queued : a.epoch = b.epoch /\ a.seq = b.seq /\ a.event = b.event => a = b
  BY DEF Queued
<1>3. \A r \in Record : r.seq \in Nat /\ r.event \in Nat
  BY DEF Record
<1>4. \A r, s \in Record : r.seq = s.seq /\ r.event = s.event => r = s
  BY DEF Record
<1>5. \A s \in Seq(Queued) : \A i \in DOMAIN s : s[i] \in Queued
  OBVIOUS
<1> QED BY <1>1, <1>2, <1>3, <1>4, <1>5

LEMMA TypeFacts ==
  ASSUME TypeOK
  PROVE  /\ gw.epoch \in Nat
         /\ \A st \in Streams :
              /\ gw.log[st] \in SUBSET Record /\ gw.head[st] \in Nat /\ gw.next[st] \in Nat
              /\ appended[st] \in Nat /\ forgotten[st] \in SUBSET Nat
              /\ writer[st] \in Writer /\ rows[st] \in SUBSET Queued
              /\ cursor[st] \in Cursor /\ cursor[st].epoch \in Nat /\ cursor[st].seq \in Nat
              /\ projected[st] \in Seq(Nat)
              /\ line.since[st] \in Nat /\ line.head[st] \in Nat /\ line.sent[st] \in Nat
              /\ obs.pending[st] \in BOOLEAN
         /\ \A c \in late : c.stream \in Streams /\ c.batch \in Seq(Queued)
         /\ faults \in Nat /\ losses \in Nat /\ poison \in Nat
<1>1. gw \in Gateway /\ line \in Line /\ obs \in Observer
  BY DEF TypeOK
<1>2. gw.epoch \in Nat /\ \A st \in Streams :
        gw.log[st] \in SUBSET Record /\ gw.head[st] \in Nat /\ gw.next[st] \in Nat
  BY <1>1 DEF Gateway
<1>3. \A st \in Streams : line.since[st] \in Nat /\ line.head[st] \in Nat /\ line.sent[st] \in Nat
  BY <1>1 DEF Line
<1>4. \A st \in Streams : obs.pending[st] \in BOOLEAN
  BY <1>1 DEF Observer
<1>5. \A st \in Streams : cursor[st] \in Cursor /\ cursor[st].epoch \in Nat /\ cursor[st].seq \in Nat
  BY DEF TypeOK, Cursor
<1>6. \A c \in late : c.stream \in Streams /\ c.batch \in Seq(Queued)
  BY DEF TypeOK
<1>7. \A st \in Streams :
        /\ appended[st] \in Nat /\ forgotten[st] \in SUBSET Nat
        /\ writer[st] \in Writer /\ rows[st] \in SUBSET Queued /\ projected[st] \in Seq(Nat)
  BY DEF TypeOK
<1> QED BY <1>2, <1>3, <1>4, <1>5, <1>6, <1>7 DEF TypeOK

LEMMA WriterFacts ==
  \A w \in Writer : /\ w.epoch \in Nat /\ w.received \in Nat \cup {Null} /\ w.received \in Int
                    /\ w.queue \in Seq(Queued) /\ w.busy \in Nat /\ Got(w) \in Nat /\ w.received <= Got(w)
                    /\ w.call \in {"none", "sent", "done", "retry"}
<1> SUFFICES ASSUME NEW w \in Writer
             PROVE  /\ w.epoch \in Nat /\ w.received \in Nat \cup {Null} /\ w.received \in Int
                    /\ w.queue \in Seq(Queued) /\ w.busy \in Nat /\ Got(w) \in Nat /\ w.received <= Got(w)
                    /\ w.call \in {"none", "sent", "done", "retry"}
  OBVIOUS
<1>1. /\ w.epoch \in Nat /\ w.received \in Nat \cup {Null} /\ w.queue \in Seq(Queued) /\ w.busy \in Nat
      /\ w.call \in {"none", "sent", "done", "retry"}
  BY DEF Writer
<1> QED BY <1>1 DEF Got, Null

(* Every item is a queued record with a key of its own.                    *)
LEMMA ItemFacts ==
  ASSUME TypeOK, NEW st \in Streams
  PROVE  /\ All(st) \subseteq Queued
         /\ \A a \in All(st) : a.epoch \in Nat /\ a.seq \in Nat /\ a.event \in Nat
         /\ \A r \in gw.log[st] : Item(r) \in All(st) /\ Item(r).epoch = gw.epoch
                                    /\ Item(r).seq = r.seq /\ Item(r).event = r.event
         /\ \A q \in Waiting(st) : q \in Seq(Queued) /\ \A i \in DOMAIN q : q[i] \in Items(st)
         /\ Items(st) \subseteq All(st) /\ rows[st] \subseteq Items(st)
         /\ writer[st].queue \in Waiting(st)
<1>1. \A r \in gw.log[st] : Item(r) \in Queued /\ Item(r).epoch = gw.epoch /\ Item(r).seq = r.seq
                              /\ Item(r).event = r.event
  BY TypeFacts, QueuedFacts DEF Item, Queued
<1>2. \A q \in Waiting(st) : q \in Seq(Queued)
  BY AllFacts, TypeFacts, WriterFacts
<1>3. rows[st] \subseteq Queued
  BY TypeFacts
<1>4. \A a \in Items(st) : a \in Queued
  BY <1>2, <1>3, AllFacts, QueuedFacts
<1>5. All(st) \subseteq Queued
  BY <1>1, <1>4, AllFacts
<1>6. \A a \in All(st) : a.epoch \in Nat /\ a.seq \in Nat /\ a.event \in Nat
  BY <1>5, QueuedFacts
<1>7. Items(st) \subseteq All(st) /\ rows[st] \subseteq Items(st) /\ writer[st].queue \in Waiting(st)
  BY AllFacts
<1>8. \A q \in Waiting(st) : \A i \in DOMAIN q : q[i] \in Items(st)
  BY AllFacts
<1>9. \A r \in gw.log[st] : Item(r) \in All(st)
  BY AllFacts
<1> QED BY <1>1, <1>2, <1>5, <1>6, <1>7, <1>8, <1>9

LEMMA KeyFacts ==
  ASSUME TypeOK, NEW st \in Streams, KeysInOrder(st)
  PROVE  /\ \A a, b \in All(st) : a.epoch = b.epoch => (a.seq < b.seq <=> a.event < b.event)
         /\ \A a, b \in All(st) : a.epoch = b.epoch /\ a.seq = b.seq => a = b
         /\ \A a, b \in All(st) : a.event = b.event => a = b
         /\ \A r, s \in gw.log[st] : (r.seq < s.seq <=> r.event < s.event)
                                     /\ (r.seq = s.seq \/ r.event = s.event => r = s)
<1>1. \A a, b \in All(st) : a.epoch = b.epoch => (a.seq < b.seq <=> a.event < b.event)
  BY ItemFacts DEF KeysInOrder, Before
<1>2. ASSUME NEW a \in All(st), NEW b \in All(st), a.epoch = b.epoch, a.seq = b.seq
      PROVE  a = b
  <2>1. ~(a.event < b.event) /\ ~(b.event < a.event)
    BY <1>1, <1>2, ItemFacts
  <2>2. a.event = b.event
    BY <2>1, ItemFacts
  <2>3. a \in Queued /\ b \in Queued
    BY ItemFacts
  <2> QED BY <2>2, <2>3, <1>2, QueuedFacts
<1>3. ASSUME NEW a \in All(st), NEW b \in All(st), a.event = b.event
      PROVE  a = b
  <2>1. ~Before(a, b) /\ ~Before(b, a)
    BY <1>3, ItemFacts DEF KeysInOrder
  <2>2. a.epoch = b.epoch /\ a.seq = b.seq
    BY <2>1, ItemFacts DEF Before
  <2> QED BY <2>2, <1>2
<1>4. ASSUME NEW r \in gw.log[st], NEW s \in gw.log[st]
      PROVE  (r.seq < s.seq <=> r.event < s.event) /\ (r.seq = s.seq \/ r.event = s.event => r = s)
  <2>1. /\ Item(r) \in All(st) /\ Item(r).epoch = gw.epoch /\ Item(r).seq = r.seq /\ Item(r).event = r.event
        /\ Item(s) \in All(st) /\ Item(s).epoch = gw.epoch /\ Item(s).seq = s.seq /\ Item(s).event = s.event
    BY ItemFacts
  <2>2. r.seq = s.seq \/ r.event = s.event => Item(r) = Item(s)
    BY <2>1, <1>2, <1>3
  <2>3. Item(r) = Item(s) => r = s
    BY <2>1, TypeFacts, QueuedFacts
  <2> QED BY <2>1, <2>2, <2>3, <1>1
<1> QED BY <1>1, <1>2, <1>3, <1>4

-----------------------------------------------------------------------------
(* Steps seen from one stream.                                             *)

LEMMA NarrowStep ==
  ASSUME TypeOK, NEW st \in Streams, KeysInOrder(st), InRange(st), All(st)' \subseteq All(st),
         gw'.epoch \in Nat, gw'.epoch >= gw.epoch, appended'[st] = appended[st]
  PROVE  KeysInOrder(st)' /\ InRange(st)'
<1>1. KeysInOrder(st)'
  BY DEF KeysInOrder, Before
<1>2. \A a \in All(st)' : a.epoch \in 1..gw'.epoch
  BY TypeFacts DEF InRange
<1> QED BY <1>1, <1>2 DEF InRange

(* Part of a queue, when what came before it is in the database.           *)
LEMMA SubTransits ==
  ASSUME NEW st \in Streams, TypeOK, Copies(st), NEW q \in Seq(Queued), Transits(st, q),
         NEW m \in Nat, NEW n \in Nat, m <= n, n <= Len(q), \A i \in 1..m : q[i] \in rows[st],
         NEW p, p = SubSeq(q, m + 1, n)
  PROVE  Transits(st, p)
<1>1. /\ p \in Seq(Queued) /\ Len(p) = n - m /\ DOMAIN p = 1..(n - m)
      /\ \A i \in 1..(n - m) : p[i] = q[m + i] /\ m + i \in DOMAIN q
  OBVIOUS
<1>2. ASSUME NEW i \in DOMAIN p, NEW j \in DOMAIN p, i < j
      PROVE  p[i].event < p[j].event
  <2>1. p[i] = q[m + i] /\ m + i \in DOMAIN q /\ p[j] = q[m + j] /\ m + j \in DOMAIN q
    BY <1>1
  <2>2. i \in Int /\ j \in Int
    BY <1>1
  <2>3. m + i < m + j
    BY <1>2, <2>2
  <2>4. \A k, l \in DOMAIN q : k < l => q[k].event < q[l].event
    BY DEF Transits
  <2> QED BY ONLY <2>1, <2>3, <2>4
<1>3. ASSUME NEW i \in DOMAIN p, NEW r \in gw.log[st], r.event < p[i].event
      PROVE  r.event \in Events(st) \/ \E j \in DOMAIN p : p[j].event = r.event
  <2>1. m + i \in DOMAIN q /\ p[i] = q[m + i]
    BY <1>1
  <2>2. r.event \in Events(st) \/ \E j \in DOMAIN q : q[j].event = r.event
    BY <2>1, <1>3 DEF Transits
  <2>3. ASSUME NEW j \in DOMAIN q, q[j].event = r.event
        PROVE  r.event \in Events(st) \/ \E k \in DOMAIN p : p[k].event = r.event
    <3>0. j \in Nat /\ j >= 1 /\ m + i <= n /\ i \in Nat
      <4>1. i \in 1..(n - m) /\ j \in 1..Len(q)
        BY ONLY <1>1, i \in DOMAIN p, j \in DOMAIN q, q \in Seq(Queued)
      <4> QED BY ONLY <4>1, m \in Nat, n \in Nat, q \in Seq(Queued)
    <3>1. CASE j <= m
      <4>1. q[j] \in rows[st]
        BY ONLY <3>0, <3>1, \A k \in 1..m : q[k] \in rows[st], m \in Nat
      <4> QED BY ONLY <4>1, <2>3, Copies(st) DEF Copies
    <3>2. CASE j > m
      <4>1. j < m + i
        <5>1. q[m + i].event \in Nat /\ q[j].event \in Nat
          BY <2>1, QueuedFacts
        <5>2. m + i < j => q[m + i].event < q[j].event
          BY <2>1 DEF Transits
        <5>3. j # m + i
          BY <5>1, <2>1, <2>3, <1>3
        <5> QED BY <5>1, <5>2, <5>3, <3>0, <2>1, <2>3, <1>3
      <4>2. j - m \in DOMAIN p /\ m + (j - m) = j
        BY <3>0, <3>2, <4>1, <1>1
      <4>3. p[j - m] = q[j]
        BY <4>2, <1>1
      <4> QED BY <4>2, <4>3, <2>3
    <3> QED BY <3>0, <3>1, <3>2
  <2> QED BY <2>2, <2>3
<1> QED BY <1>2, <1>3 DEF Transits

(* The writer moves and the gateway keeps what it has.                     *)
LEMMA QueueStep ==
  ASSUME TypeOK, TypeOK', NEW st \in Streams, StreamInv(st),
         gw'.epoch = gw.epoch, gw'.log[st] = gw.log[st], gw'.head[st] = gw.head[st],
         appended'[st] = appended[st], forgotten'[st] = forgotten[st],
         rows'[st] = rows[st], projected'[st] = projected[st], cursor'[st] = cursor[st],
         \A q \in Waiting(st)' : Transits(st, q) /\ \A i \in DOMAIN q : q[i] \in All(st),
         All(st)' \subseteq All(st) => NextIsNew(st)',
         Batches(st)', writer'[st].epoch <= gw.epoch, Trails(st)', Kept(st)'
  PROVE  StreamInv(st)' /\ All(st)' \subseteq All(st)
<1> USE DEF StreamInv
<1>1. All(st)' \subseteq All(st)
  <2>1. \A r \in gw.log[st] : Item(r)' = Item(r)
    BY DEF Item
  <2>2. \A a \in Items(st)' : a \in All(st)
    BY AllFacts
  <2> QED BY <2>1, <2>2, AllFacts
<1>2. KeysInOrder(st)' /\ InRange(st)'
  BY <1>1, NarrowStep, TypeFacts
<1>3. Log(st)'
  BY DEF Log
<1>4. NextIsNew(st)'
  BY <1>1
<1>5. Copies(st)'
  BY DEF Copies, Events
<1>6. InTransit(st)'
  <2>1. \A q : Transits(st, q)' <=> Transits(st, q)
    BY DEF Transits, Events
  <2> QED BY <2>1 DEF InTransit
<1>7. CursorIsRow(st)'
  BY DEF CursorIsRow
<1>8. NoHole(st)'
  BY DEF NoHole, Events
<1> QED BY <1>1, <1>2, <1>3, <1>4, <1>5, <1>6, <1>7, <1>8

LEMMA NextStays ==
  ASSUME NEW st \in Streams, NextIsNew(st), gw'.epoch = gw.epoch, gw'.head[st] = gw.head[st],
         gw'.next[st] = gw.next[st], All(st)' \subseteq All(st),
         gw.next[st] # 0 /\ writer'[st].epoch = gw.epoch => writer'[st].received < gw.next[st]
  PROVE  NextIsNew(st)'
BY DEF NextIsNew

(* A step that is about something else.                                    *)
LEMMA StreamStays ==
  ASSUME TypeOK, TypeOK', NEW st \in Streams, StreamInv(st),
         gw'.epoch = gw.epoch, gw'.log[st] = gw.log[st], gw'.head[st] = gw.head[st],
         gw'.next[st] = gw.next[st],
         appended'[st] = appended[st], forgotten'[st] = forgotten[st],
         rows'[st] = rows[st], projected'[st] = projected[st], cursor'[st] = cursor[st],
         writer'[st] = writer[st], \A c \in late' : c.stream = st => c \in late
  PROVE  StreamInv(st)' /\ Items(st)' \subseteq Items(st)
<1> USE DEF StreamInv
<1>0. \A q \in Waiting(st)' : q \in Waiting(st)
  BY AllFacts
<1>1. \A q \in Waiting(st)' : Transits(st, q) /\ \A i \in DOMAIN q : q[i] \in All(st)
  BY <1>0, ItemFacts DEF InTransit
<1>2. Batches(st)'
  BY DEF Batches
<1>3. writer'[st].epoch <= gw.epoch
  BY DEF CursorIsRow
<1>4. Trails(st)'
  BY DEF Trails
<1>5. Kept(st)'
  BY DEF Kept, Events
<1>6. All(st)' \subseteq All(st) => NextIsNew(st)'
  BY NextStays DEF NextIsNew
<1>7. Items(st)' \subseteq Items(st)
  BY <1>0, AllFacts
<1> QED BY <1>1, <1>2, <1>3, <1>4, <1>5, <1>6, <1>7, QueueStep

-----------------------------------------------------------------------------
(* Steps seen from the connection.                                         *)

LEMMA StreamNames == "order" \in Streams /\ "strategy" \in Streams /\ "order" # "strategy"
                       /\ \A st \in Streams : st = "order" \/ st = "strategy"
BY DEF Streams

LEMMA ZeroFacts == Zero \in [Streams -> Nat] /\ \A st \in Streams : Zero[st] = 0
BY DEF Zero

LEMMA DownFacts == Down \in Line /\ ~Down.up /\ ~Down.asked
BY ZeroFacts DEF Down, Line

(* The invariant speaks of the line only while it is up.                   *)
LEMMA DroppedStep ==
  ASSUME TypeOK, LineShape, Dropped
  PROVE  /\ LineShape' /\ Asked' /\ Listening' /\ line' \in Line /\ obs' \in Observer
         /\ ~line'.asked /\ obs'.boot = obs.boot /\ obs'.cursorReady = obs.cursorReady
<1>1. obs \in Observer
  BY DEF TypeOK
<1>2. line' = Down /\ obs' = [obs EXCEPT !.state = "connecting"]
  BY DEF Dropped
<1>3. /\ obs' \in Observer /\ obs'.state = "connecting" /\ obs'.boot = obs.boot
      /\ obs'.cursorReady = obs.cursorReady /\ obs'.paused = obs.paused
  BY <1>1, <1>2 DEF Observer
<1>4. line' \in Line /\ ~line'.up /\ ~line'.asked
  BY <1>2, DownFacts
<1>5. LineShape'
  BY <1>3, <1>4 DEF LineShape, LoggedOn
<1> QED BY <1>3, <1>4, <1>5 DEF Asked, Listening, LoggedOn

LEMMA FaultStep ==
  ASSUME IInv, Fault, \A st \in Streams : gw'.next[st] = gw.next[st]
  PROVE  Faultless' /\ TailIsKnown' /\ faults' \in Nat /\ losses' \in Nat
<1>1. faults' # 0 /\ faults # MaxFaults /\ faults' \in Nat /\ losses' \in Nat
  BY TypeFacts, FeedAssumption DEF IInv, Fault
<1>2. \A st \in Streams : gw.next[st] # 0
  BY <1>1 DEF IInv, TailIsKnown
<1> QED BY <1>1, <1>2 DEF Faultless, TailIsKnown

LEMMA CarryStep ==
  ASSUME IInv, TypeOK', gw'.epoch = gw.epoch, faults' = faults,
         \A st \in Streams : gw'.head[st] = gw.head[st] /\ gw'.next[st] = gw.next[st],
         Steady => Steady',
         Steady => \A st \in Streams : \A a \in Items(st)' : a.epoch = gw.epoch =>
           \/ /\ a \in Items(st) /\ writer'[st].epoch = writer[st].epoch
              /\ writer'[st].received >= writer[st].received
           \/ writer'[st].epoch = gw.epoch /\ a.seq <= writer'[st].received
  PROVE  Faultless' /\ TailIsKnown'
<1>1. ASSUME NEW st \in Streams, NEW n \in Nat, Unbroken(st, n)
      PROVE  Unbroken(st, n)'
  <2>1. Steady /\ Steady'
    BY <1>1 DEF Unbroken
  <2>2. ASSUME NEW a \in Items(st)', a.epoch = gw.epoch
        PROVE  writer'[st].epoch = gw.epoch /\ (a.seq <= writer'[st].received \/ a.seq < n)
    <3>1. CASE /\ a \in Items(st) /\ writer'[st].epoch = writer[st].epoch
               /\ writer'[st].received >= writer[st].received
      <4>1. writer[st].epoch = gw.epoch /\ (a.seq <= writer[st].received \/ a.seq < n)
        BY <1>1, <2>2, <3>1 DEF Unbroken
      <4>2. writer[st].received \in Int /\ writer'[st].received \in Int /\ a.seq \in Nat
        BY <3>1, ItemFacts, TypeFacts, WriterFacts DEF IInv, TypeOK
      <4> QED BY <4>1, <4>2, <3>1
    <3>2. CASE writer'[st].epoch = gw.epoch /\ a.seq <= writer'[st].received
      BY <3>2
    <3> QED BY <2>1, <2>2, <3>1, <3>2
  <2> QED BY <2>1, <2>2 DEF Unbroken
<1>2. \A st \in Streams : gw.head[st] \in Nat /\ gw.head[st] + 1 \in Nat
  BY TypeFacts DEF IInv
<1>3. Faultless'
  <2>1. ASSUME faults = 0, NEW st \in Streams PROVE Unbroken(st, gw.head[st])'
    <3>1. Unbroken(st, gw.head[st])
      BY <2>1 DEF IInv, Faultless
    <3>2. \A n \in Nat : Unbroken(st, n) => Steady' /\ \A a \in Items(st)' : a.epoch = gw.epoch =>
             writer'[st].epoch = gw.epoch /\ (a.seq <= writer'[st].received \/ a.seq < n)
      BY <1>1 DEF Unbroken
    <3> QED BY <3>1, <3>2, <1>2 DEF Unbroken
  <2> QED BY <2>1 DEF Faultless
<1>4. TailIsKnown'
  <2>1. ASSUME NEW st \in Streams, gw.next[st] = 0
        PROVE  faults = MaxFaults /\ MaxFaults > 0 /\ Unbroken(st, gw.head[st] + 1)'
    <3>1. faults = MaxFaults /\ MaxFaults > 0 /\ Unbroken(st, gw.head[st] + 1)
      BY <2>1 DEF IInv, TailIsKnown
    <3>2. \A n \in Nat : Unbroken(st, n) => Steady' /\ \A a \in Items(st)' : a.epoch = gw.epoch =>
             writer'[st].epoch = gw.epoch /\ (a.seq <= writer'[st].received \/ a.seq < n)
      BY <1>1 DEF Unbroken
    <3> QED BY <3>1, <3>2, <1>2 DEF Unbroken
  <2> QED BY <2>1 DEF TailIsKnown
<1> QED BY <1>3, <1>4

-----------------------------------------------------------------------------
(* The connection's own actions.                                           *)

LEMMA AsideStep ==
  ASSUME IInv, line' \in Line, obs' \in Observer, faults' \in Nat, losses' \in Nat,
         UNCHANGED <<gateway, writer, store, late>>
  PROVE  TypeOK' /\ \A st \in Streams : StreamInv(st)' /\ Items(st)' \subseteq Items(st)
<1>1. TypeOK'
  BY DEF IInv, TypeOK, gateway, store
<1>2. ASSUME NEW st \in Streams PROVE StreamInv(st)' /\ Items(st)' \subseteq Items(st)
  BY <1>1, StreamStays DEF IInv, gateway, store
<1> QED BY <1>1, <1>2

LEMMA StrategyCursorFailsStep == ASSUME IInv, StrategyCursorFails PROVE IInv'
<1>0. /\ obs.boot = "strategy" /\ Fault /\ UNCHANGED <<line, writer, store, gateway, late>>
      /\ obs' = [obs EXCEPT !.paused = "cursor", !.pending["strategy"] = FALSE, !.boot = "done"]
  BY DEF StrategyCursorFails, Paused
<1>1. obs \in Observer /\ line \in Line
  BY DEF IInv, TypeOK
<1>2. /\ obs' \in Observer /\ obs'.state = obs.state /\ obs'.boot = "done" /\ obs'.paused = "cursor"
      /\ obs'.cursorReady = obs.cursorReady
  BY <1>0, <1>1 DEF Observer
<1>3. Faultless' /\ TailIsKnown' /\ faults' \in Nat /\ losses' \in Nat
  BY <1>0, FaultStep DEF gateway
<1>4. TypeOK' /\ \A st \in Streams : StreamInv(st)'
  BY <1>0, <1>1, <1>2, <1>3, AsideStep
<1>5. obs.state = "connecting" /\ ~obs.cursorReady
  BY <1>0 DEF IInv, LineShape
<1>6. LineShape' /\ Asked' /\ Listening'
  <2>1. LineShape'
    BY <1>0, <1>2, <1>5 DEF IInv, LineShape, LoggedOn
  <2> QED BY <2>1, <1>2, <1>5 DEF LineShape, Asked, Listening, LoggedOn
<1>7. Queues'
  BY <1>0, <1>2 DEF IInv, Queues
<1> QED BY <1>3, <1>4, <1>6, <1>7 DEF IInv

LEMMA LineBreaksStep == ASSUME IInv, LineBreaks PROVE IInv'
<1>0. Fault /\ Dropped /\ UNCHANGED <<writer, store, gateway, late>>
  BY DEF LineBreaks
<1>1. /\ LineShape' /\ Asked' /\ Listening' /\ line' \in Line /\ obs' \in Observer
      /\ obs'.boot = obs.boot /\ obs'.cursorReady = obs.cursorReady
  BY <1>0, DroppedStep DEF IInv
<1>2. Faultless' /\ TailIsKnown' /\ faults' \in Nat /\ losses' \in Nat
  BY <1>0, FaultStep DEF gateway
<1>3. TypeOK' /\ \A st \in Streams : StreamInv(st)'
  BY <1>0, <1>1, <1>2, AsideStep
<1>4. Queues'
  BY <1>0, <1>1 DEF IInv, Queues
<1> QED BY <1>1, <1>2, <1>3, <1>4 DEF IInv

LEMMA LoginRejectedStep == ASSUME IInv, LoginRejected PROVE IInv'
<1>0. /\ line.asked /\ Fault /\ line' = Down /\ obs' = [obs EXCEPT !.state = "rejected"]
      /\ UNCHANGED <<writer, store, gateway, late>>
  BY DEF LoginRejected
<1>1. obs \in Observer /\ line' \in Line /\ ~line'.up /\ ~line'.asked
  BY <1>0, DownFacts DEF IInv, TypeOK
<1>2. /\ obs' \in Observer /\ obs'.state = "rejected" /\ obs'.boot = obs.boot
      /\ obs'.cursorReady = obs.cursorReady /\ obs'.paused = obs.paused
  BY <1>0, <1>1 DEF Observer
<1>3. Faultless' /\ TailIsKnown' /\ faults' \in Nat /\ losses' \in Nat
  BY <1>0, FaultStep DEF gateway
<1>4. TypeOK' /\ \A st \in Streams : StreamInv(st)'
  BY <1>0, <1>1, <1>2, <1>3, AsideStep
<1>5. obs.boot = "done"
  BY <1>0 DEF IInv, LineShape
<1>6. LineShape'
  BY <1>1, <1>2, <1>5 DEF IInv, LineShape, LoggedOn
<1>7. Asked' /\ Listening'
  BY <1>1, <1>2 DEF Asked, Listening, LoggedOn
<1>8. Queues'
  BY <1>0, <1>2 DEF IInv, Queues
<1> QED BY <1>3, <1>4, <1>6, <1>7, <1>8 DEF IInv

LEMMA LineUpStep == ASSUME IInv, LineUp PROVE IInv'
<1>0. /\ obs.boot = "done" /\ obs.state = "connecting" /\ ~line.up
      /\ line' = [Down EXCEPT !.up = TRUE, !.asked = TRUE,
                              !.epoch = writer["order"].epoch, !.since = Since]
      /\ obs' = [obs EXCEPT !.state = "logging_in"]
      /\ UNCHANGED <<writer, store, gateway, late, bounds>>
  BY DEF LineUp
<1>1. obs \in Observer /\ Down \in Line /\ writer["order"] \in Writer /\ writer["strategy"] \in Writer
  BY DownFacts, TypeFacts, StreamNames DEF IInv, TypeOK
<1>2. /\ obs' \in Observer /\ obs'.state = "logging_in" /\ obs'.boot = "done"
      /\ obs'.cursorReady = obs.cursorReady /\ obs'.paused = obs.paused
  BY <1>0, <1>1 DEF Observer
<1>3. /\ Since["order"] = Got(writer["order"])
      /\ Since["strategy"] = IF ~obs.cursorReady \/ writer["strategy"].epoch # writer["order"].epoch
                               THEN 0 ELSE Got(writer["strategy"])
  BY StreamNames DEF Since, Got
<1>4. Since \in [Streams -> Nat]
  <2>1. \A st \in Streams : writer[st].received \in Nat \cup {Null}
    BY TypeFacts, WriterFacts DEF IInv
  <2> QED BY <2>1 DEF Since
<1>5. /\ line' \in Line /\ line'.up /\ line'.asked /\ line'.epoch = writer["order"].epoch
      /\ line'.since = Since
  BY <1>0, <1>1, <1>4, WriterFacts DEF Line
<1>6. TypeOK' /\ \A st \in Streams : StreamInv(st)' /\ Items(st)' \subseteq Items(st)
  <2>1. faults' \in Nat /\ losses' \in Nat
    BY <1>0, TypeFacts DEF IInv, bounds
  <2> QED BY <1>0, <1>2, <1>5, <2>1, AsideStep
<1>7. LineShape'
  BY <1>0, <1>2, <1>5 DEF IInv, LineShape, LoggedOn
<1>8. Asked' /\ Listening'
  <2>1. Listening'
    BY <1>2 DEF Listening, LoggedOn
  <2>2. ~obs.cursorReady \/ writer["strategy"].epoch # writer["order"].epoch => writer["strategy"].queue = <<>>
    BY DEF IInv, Queues
  <2>3. Asked'
    BY <1>0, <1>2, <1>3, <1>5, <2>2 DEF Asked, Got
  <2> QED BY <2>1, <2>3
<1>9. Queues'
  BY <1>0, <1>2 DEF IInv, Queues
<1>10. Faultless' /\ TailIsKnown'
  <2>1. Steady => Steady'
    <3> SUFFICES ASSUME Steady PROVE Steady'
      OBVIOUS
    <3>1. obs.cursorReady /\ writer["order"].epoch = writer["strategy"].epoch /\ late = {}
      BY <1>0 DEF Steady
    <3>2. \A st \in Streams : line'.since[st] = Got(writer[st])
      BY <3>1, <1>3, <1>5, StreamNames
    <3> QED BY <3>1, <3>2, <1>0, <1>2 DEF Steady, Got
  <2>2. \A st \in Streams : \A a \in Items(st)' :
           a \in Items(st) /\ writer'[st].epoch = writer[st].epoch /\ writer'[st].received >= writer[st].received
    BY <1>0, <1>6, TypeFacts, WriterFacts DEF IInv
  <2>3. gw' = gw /\ faults' = faults
    BY <1>0 DEF gateway, bounds
  <2> QED BY <1>6, <2>1, <2>2, <2>3, CarryStep
<1> QED BY <1>6, <1>7, <1>8, <1>9, <1>10 DEF IInv

-----------------------------------------------------------------------------
(* The cursor is read.                                                     *)

LEMMA ReadCursorFacts ==
  ASSUME NEW w, WriterOK(w), NEW c \in Cursor
  PROVE  LET v == ReadCursor(w, c)
         IN /\ WriterOK(v) /\ v.queue = w.queue /\ v.busy = w.busy /\ v.call = w.call /\ v.epoch = c.epoch
            /\ v.received = IF c.epoch = 0 THEN Null ELSE c.seq
<1> DEFINE v == ReadCursor(w, c)
<1>0. w \in Writer /\ c.epoch \in Nat /\ c.seq \in Nat
  BY DEF WriterOK, Cursor
<1>1. /\ v \in Writer /\ v.queue = w.queue /\ v.busy = w.busy /\ v.call = w.call /\ v.epoch = c.epoch
      /\ v.received = IF c.epoch = 0 THEN Null ELSE c.seq
  BY <1>0 DEF ReadCursor, Writer
<1> HIDE DEF v
<1>2. WriterOK(v)
  BY <1>1 DEF WriterOK
<1> QED BY <1>1, <1>2 DEF v

LEMMA WriterMoves ==
  ASSUME IInv, NEW x \in Streams, NEW v, WriterOK(v), writer' = [writer EXCEPT ![x] = v],
         line' \in Line, obs' \in Observer, faults' \in Nat, losses' \in Nat,
         late' \in SUBSET [stream : Streams, batch : Seq(Queued)],
         UNCHANGED <<gateway, store>>
  PROVE  /\ TypeOK' /\ writer'[x] = v
         /\ \A st \in Streams : st # x => writer'[st] = writer[st]
<1>1. writer \in [Streams -> Writer] /\ v \in Writer
  BY DEF IInv, TypeOK, WriterOK
<1>2. writer'[x] = v /\ \A st \in Streams : st # x => writer'[st] = writer[st]
  BY <1>1
<1>3. writer' \in [Streams -> Writer]
  BY <1>1
<1>4. \A st \in Streams : WriterOK(writer'[st])
  BY <1>2 DEF IInv, StreamInv, Batches
<1>5. \A st \in Streams :
        /\ writer'[st].busy <= Len(writer'[st].queue) /\ Len(writer'[st].queue) <= MaxQueue
        /\ writer'[st].call \in {"sent", "done"} <=> writer'[st].busy > 0
  BY <1>4 DEF WriterOK
<1>6. TypeOK'
  BY <1>3, <1>5 DEF IInv, TypeOK, gateway, store
<1> QED BY <1>2, <1>6

LEMMA ReadStep ==
  ASSUME IInv, TypeOK', NEW st \in Streams, writer'[st] = ReadCursor(writer[st], cursor[st]),
         writer[st].queue = <<>>, UNCHANGED <<gateway, store, late>>
  PROVE  StreamInv(st)' /\ Items(st)' \subseteq Items(st)
<1> DEFINE w == writer[st]
           v == writer'[st]
<1>t. /\ gw' = gw /\ appended' = appended /\ forgotten' = forgotten /\ rows' = rows
      /\ projected' = projected /\ cursor' = cursor /\ late' = late /\ TypeOK /\ StreamInv(st)
  BY DEF IInv, gateway, store
<1>1. /\ WriterOK(v) /\ v.queue = w.queue /\ v.busy = w.busy /\ v.call = w.call /\ v.epoch = cursor[st].epoch
      /\ v.received = IF cursor[st].epoch = 0 THEN Null ELSE cursor[st].seq
  <2>1. WriterOK(w) /\ cursor[st] \in Cursor
    BY <1>t, TypeFacts DEF StreamInv, Batches
  <2> QED BY <2>1, ReadCursorFacts
<1>2. \A q : q \in Waiting(st)' <=> q \in Waiting(st)
  BY <1>1, <1>t, AllFacts
<1>3. Items(st)' \subseteq Items(st)
  BY <1>2, <1>t, AllFacts
<1>4. \A q \in Waiting(st)' : Transits(st, q) /\ \A i \in DOMAIN q : q[i] \in All(st)
  BY <1>2, <1>t, ItemFacts DEF StreamInv, InTransit
<1>5. Batches(st)'
  BY <1>1, <1>t DEF StreamInv, Batches
<1>6. v.epoch <= gw.epoch /\ Trails(st)'
  BY <1>1, <1>t DEF StreamInv, CursorIsRow, Trails
<1>7. Kept(st)'
  BY <1>1, <1>t, TypeFacts, QueuedFacts DEF StreamInv, Kept, NoHole, Events, Null
<1>8. gw.next[st] # 0 /\ v.epoch = gw.epoch => v.received < gw.next[st]
  <2> SUFFICES ASSUME gw.next[st] # 0, v.epoch = gw.epoch PROVE v.received < gw.next[st]
    OBVIOUS
  <2>1. gw.next[st] \in Nat /\ gw.next[st] > 0
    BY <1>t, TypeFacts
  <2>2. CASE cursor[st].epoch = 0 \/ cursor[st].seq = 0
    BY <2>1, <2>2, <1>1 DEF Null
  <2>3. CASE cursor[st].epoch # 0 /\ cursor[st].seq # 0
    <3>1. PICK r \in rows[st] : r.epoch = cursor[st].epoch /\ r.seq = cursor[st].seq
      BY <2>3, <1>t DEF StreamInv, CursorIsRow
    <3>2. r \in All(st)
      BY <1>t, ItemFacts
    <3> QED BY <3>1, <3>2, <2>3, <1>1, <1>t DEF StreamInv, NextIsNew
  <2> QED BY <2>2, <2>3
<1>9. All(st)' \subseteq All(st) => NextIsNew(st)'
  BY <1>8, <1>t, NextStays DEF StreamInv
<1> QED BY <1>3, <1>4, <1>5, <1>6, <1>7, <1>9, <1>t, QueueStep

LEMMA ReadOrderCursorStep == ASSUME IInv, ReadOrderCursor PROVE IInv'
<1>0. /\ obs.boot = "order" /\ writer' = [writer EXCEPT !["order"] = ReadCursor(@, cursor["order"])]
      /\ obs' = [obs EXCEPT !.boot = "strategy"] /\ UNCHANGED <<line, store, gateway, late, bounds>>
  BY DEF ReadOrderCursor
<1> DEFINE v == ReadCursor(writer["order"], cursor["order"])
<1>1. /\ WriterOK(v) /\ v.queue = writer["order"].queue /\ v.epoch = cursor["order"].epoch
  BY StreamNames, TypeFacts, ReadCursorFacts DEF IInv, StreamInv, Batches
<1>2. /\ obs' \in Observer /\ obs'.state = obs.state /\ obs'.boot = "strategy"
      /\ obs'.cursorReady = obs.cursorReady /\ obs'.paused = obs.paused
  BY <1>0 DEF IInv, TypeOK, Observer
<1>3. /\ TypeOK' /\ writer'["order"] = v /\ writer'["strategy"] = writer["strategy"]
      /\ \A st \in Streams : st # "order" => writer'[st] = writer[st]
  <2>1. writer' = [writer EXCEPT !["order"] = v]
    BY <1>0
  <2>2. /\ line' \in Line /\ faults' \in Nat /\ losses' \in Nat
        /\ late' \in SUBSET [stream : Streams, batch : Seq(Queued)] /\ UNCHANGED <<gateway, store>>
    BY <1>0 DEF IInv, TypeOK, bounds
  <2> HIDE DEF v
  <2> QED BY <1>1, <1>2, <2>1, <2>2, StreamNames, WriterMoves
<1>4. obs.state = "connecting" /\ ~obs.cursorReady /\ writer["order"].queue = <<>>
      /\ writer["strategy"].queue = <<>>
  BY <1>0, StreamNames DEF IInv, LineShape, Queues
<1>5. \A st \in Streams : StreamInv(st)' /\ Items(st)' \subseteq Items(st)
  <2>1. StreamInv("order")' /\ Items("order")' \subseteq Items("order")
    BY <1>0, <1>3, <1>4, StreamNames, ReadStep DEF v
  <2>2. StreamInv("strategy")' /\ Items("strategy")' \subseteq Items("strategy")
    BY <1>0, <1>3, StreamNames, StreamStays DEF IInv, gateway, store
  <2> QED BY <2>1, <2>2, StreamNames
<1> HIDE DEF v
<1>6. LineShape' /\ Asked' /\ Listening'
  BY <1>0, <1>2, <1>4 DEF IInv, LineShape, LoggedOn, Asked, Listening
<1>7. Queues'
  BY <1>1, <1>2, <1>3, <1>4, StreamNames DEF Queues
<1>8. Faultless' /\ TailIsKnown'
  <2>0. gw' = gw /\ faults' = faults /\ late' = late /\ cursor' = cursor
    BY <1>0 DEF gateway, bounds, store
  <2>1. Steady => Steady'
    <3> SUFFICES ASSUME Steady PROVE Steady'
      OBVIOUS
    <3>1. \A st \in Streams : Items(st) = {} /\ cursor[st] = [epoch |-> 0, seq |-> 0] /\ writer[st].epoch = 0
      BY <1>0 DEF Steady
    <3>2. \A st \in Streams : writer'[st].epoch = 0 /\ Items(st)' = {}
      BY <3>1, <1>1, <1>3, <1>5, StreamNames
    <3>3. ~line'.asked
      BY <1>2, <1>4, <1>6 DEF LineShape
    <3> QED BY <3>1, <3>2, <3>3, <2>0, <1>2, StreamNames DEF Steady
  <2>2. Steady => \A st \in Streams : Items(st)' = {}
    BY <1>0, <1>5 DEF Steady
  <2> QED BY <1>3, <2>0, <2>1, <2>2, CarryStep
<1> QED BY <1>3, <1>5, <1>6, <1>7, <1>8 DEF IInv

LEMMA StrategyRead ==
  ASSUME IInv, ~obs.cursorReady, UNCHANGED <<store, gateway, late, bounds>>,
         writer' = [writer EXCEPT !["strategy"] = ReadCursor(@, cursor["strategy"])],
         line' \in Line, obs' \in Observer
  PROVE  /\ TypeOK' /\ writer'["order"] = writer["order"]
         /\ writer'["strategy"].epoch = cursor["strategy"].epoch /\ writer'["strategy"].queue = <<>>
         /\ \A st \in Streams : StreamInv(st)' /\ Items(st)' \subseteq Items(st)
<1> DEFINE v == ReadCursor(writer["strategy"], cursor["strategy"])
<1>1. /\ WriterOK(v) /\ v.queue = writer["strategy"].queue /\ v.epoch = cursor["strategy"].epoch
  BY StreamNames, TypeFacts, ReadCursorFacts DEF IInv, StreamInv, Batches
<1>2. writer["strategy"].queue = <<>>
  BY DEF IInv, Queues
<1>3. /\ TypeOK' /\ writer'["strategy"] = v
      /\ \A st \in Streams : st # "strategy" => writer'[st] = writer[st]
  <2>1. writer' = [writer EXCEPT !["strategy"] = v]
    OBVIOUS
  <2>2. /\ faults' \in Nat /\ losses' \in Nat
        /\ late' \in SUBSET [stream : Streams, batch : Seq(Queued)] /\ UNCHANGED <<gateway, store>>
    BY DEF IInv, TypeOK, bounds
  <2> HIDE DEF v
  <2> QED BY <1>1, <2>1, <2>2, StreamNames, WriterMoves
<1>4. StreamInv("strategy")' /\ Items("strategy")' \subseteq Items("strategy")
  BY <1>2, <1>3, StreamNames, ReadStep DEF v
<1>5. StreamInv("order")' /\ Items("order")' \subseteq Items("order")
  BY <1>3, StreamNames, StreamStays DEF IInv, gateway, store
<1> HIDE DEF v
<1> QED BY <1>1, <1>2, <1>3, <1>4, <1>5, StreamNames

LEMMA ReadStrategyCursorStep == ASSUME IInv, ReadStrategyCursor PROVE IInv'
<1>0. /\ obs.boot = "strategy"
      /\ writer' = [writer EXCEPT !["strategy"] = ReadCursor(@, cursor["strategy"])]
      /\ obs' = [obs EXCEPT !.boot = "done", !.cursorReady = TRUE]
      /\ UNCHANGED <<line, store, gateway, late, bounds>>
  BY DEF ReadStrategyCursor
<1>1. /\ obs.state = "connecting" /\ ~obs.cursorReady /\ writer["order"].queue = <<>>
  BY <1>0, StreamNames DEF IInv, LineShape, Queues
<1>2. /\ obs' \in Observer /\ obs'.state = "connecting" /\ obs'.boot = "done" /\ obs'.cursorReady
  BY <1>0, <1>1 DEF IInv, TypeOK, Observer
<1>3. /\ TypeOK' /\ writer'["order"] = writer["order"]
      /\ writer'["strategy"].epoch = cursor["strategy"].epoch /\ writer'["strategy"].queue = <<>>
      /\ \A st \in Streams : StreamInv(st)' /\ Items(st)' \subseteq Items(st)
  <2>1. line' \in Line
    BY <1>0 DEF IInv, TypeOK
  <2> QED BY <1>0, <1>1, <1>2, <2>1, StrategyRead
<1>4. LineShape' /\ Asked' /\ Listening'
  BY <1>0, <1>1, <1>2 DEF IInv, LineShape, LoggedOn, Asked, Listening
<1>5. Queues'
  BY <1>1, <1>2, <1>3, StreamNames DEF Queues
<1>6. Faultless' /\ TailIsKnown'
  <2>0. gw' = gw /\ faults' = faults /\ late' = late
    BY <1>0 DEF gateway, bounds
  <2>1. Steady => Steady'
    <3> SUFFICES ASSUME Steady PROVE Steady'
      OBVIOUS
    <3>1. \A st \in Streams : cursor[st].epoch = 0 /\ writer[st].epoch = 0
      BY <1>0 DEF Steady
    <3>2. writer'["order"].epoch = writer'["strategy"].epoch
      BY <3>1, <1>3, StreamNames
    <3>3. ~line'.asked /\ late = {}
      BY <1>2, <1>4 DEF LineShape, Steady
    <3> QED BY <3>2, <3>3, <2>0, <1>2 DEF Steady
  <2>2. Steady => \A st \in Streams : Items(st)' = {}
    BY <1>0, <1>3 DEF Steady
  <2> QED BY <1>3, <2>0, <2>1, <2>2, CarryStep
<1> QED BY <1>3, <1>4, <1>5, <1>6 DEF IInv

LEMMA RetryStrategyCursorStep == ASSUME IInv, RetryStrategyCursor PROVE IInv'
<1>0. /\ obs.boot = "done" /\ ~obs.cursorReady
      /\ writer' = [writer EXCEPT !["strategy"] = ReadCursor(@, cursor["strategy"])]
      /\ UNCHANGED <<store, gateway, late, bounds>>
  BY DEF RetryStrategyCursor
<1>1. \/ /\ LoggedOn /\ line' = Down /\ obs' = [obs EXCEPT !.cursorReady = TRUE, !.state = "connecting"]
      \/ /\ ~LoggedOn /\ line' = line /\ obs' = [obs EXCEPT !.cursorReady = TRUE]
  BY DEF RetryStrategyCursor, LoggedOn
<1>2. /\ obs' \in Observer /\ line' \in Line /\ obs'.boot = "done" /\ obs'.cursorReady
      /\ obs'.state = IF LoggedOn THEN "connecting" ELSE obs.state
      /\ obs.state \in {"connecting", "logging_in", "replaying", "live", "rejected"}
  BY <1>0, <1>1, DownFacts DEF IInv, TypeOK, Observer
<1>3. /\ TypeOK' /\ writer'["order"] = writer["order"] /\ writer'["strategy"].queue = <<>>
      /\ \A st \in Streams : StreamInv(st)' /\ Items(st)' \subseteq Items(st)
  BY <1>0, <1>2, StrategyRead
<1>4. obs'.state \notin {"replaying", "live"}
  BY <1>2 DEF LoggedOn
<1>5. LineShape'
  <2>1. CASE LoggedOn
    BY <2>1, <1>1, <1>2, DownFacts DEF LineShape, LoggedOn
  <2>2. CASE ~LoggedOn
    BY <2>2, <1>1, <1>2, <1>4 DEF IInv, LineShape, LoggedOn
  <2> QED BY <2>1, <2>2
<1>6. Listening'
  BY <1>4 DEF Listening, LoggedOn
<1>7. Asked'
  <2>1. CASE LoggedOn
    BY <2>1, <1>1, DownFacts DEF Asked
  <2>2. CASE ~LoggedOn
    BY <2>2, <1>0, <1>1, <1>3 DEF IInv, Asked, Got
  <2> QED BY <2>1, <2>2
<1>8. Queues'
  BY <1>2, <1>3 DEF Queues
<1>9. Faultless' /\ TailIsKnown'
  <2>1. ~Steady /\ gw' = gw /\ faults' = faults
    BY <1>0 DEF Steady, gateway, bounds
  <2> QED BY <1>3, <2>1, CarryStep
<1> QED BY <1>3, <1>5, <1>6, <1>7, <1>8, <1>9 DEF IInv

-----------------------------------------------------------------------------
(* The worker's calls.                                                     *)

LEMMA SucceededFacts ==
  ASSUME NEW w, WriterOK(w)
  PROVE  LET v == Succeeded(w)
         IN /\ WriterOK(v) /\ v.epoch = w.epoch /\ v.received = w.received
            /\ v.queue = SubSeq(w.queue, w.busy + 1, Len(w.queue)) /\ v.call \in {"none", "sent"}
<1> DEFINE q == SubSeq(w.queue, w.busy + 1, Len(w.queue))
           u == [w EXCEPT !.queue = q, !.busy = 0, !.call = "none"]
<1>0. w \in Writer /\ w.queue \in Seq(Queued) /\ w.busy \in Nat /\ w.busy <= Len(w.queue) /\ Len(w.queue) <= MaxQueue
  BY WriterFacts DEF WriterOK
<1>1. q \in Seq(Queued) /\ Len(q) <= MaxQueue
  BY <1>0, SizesAssumption
<1> HIDE DEF q
<1>2. /\ u \in Writer /\ u.queue = q /\ u.busy = 0 /\ u.call = "none"
      /\ u.epoch = w.epoch /\ u.received = w.received
  BY <1>0, <1>1 DEF Writer
<1>3. Succeeded(w) = Kick(u)
  BY DEF Succeeded, q
<1> HIDE DEF u
<1>4. /\ WriterOK(Kick(u)) /\ Kick(u).epoch = w.epoch /\ Kick(u).received = w.received
      /\ Kick(u).queue = q /\ Kick(u).call \in {"none", "sent"}
  BY <1>1, <1>2, KickFacts
<1> QED BY <1>3, <1>4 DEF q

LEMMA FailedFacts ==
  ASSUME NEW w, WriterOK(w)
  PROVE  LET v == Failed(w)
         IN /\ WriterOK(v) /\ v.epoch = w.epoch /\ v.received = w.received /\ v.queue = w.queue
            /\ v.call = "retry"
<1> DEFINE v == Failed(w)
<1>0. w \in Writer /\ w.queue \in Seq(Queued) /\ Len(w.queue) <= MaxQueue
  BY WriterFacts DEF WriterOK
<1>1. /\ v \in Writer /\ v.epoch = w.epoch /\ v.received = w.received /\ v.queue = w.queue
      /\ v.call = "retry" /\ v.busy = 0
  BY <1>0 DEF Writer, Failed
<1> HIDE DEF v
<1>2. WriterOK(v)
  BY <1>0, <1>1 DEF WriterOK
<1> QED BY <1>1, <1>2 DEF v

LEMMA RetriedFacts ==
  ASSUME NEW w, WriterOK(w), w.call = "retry"
  PROVE  LET v == Retried(w)
         IN /\ WriterOK(v) /\ v.epoch = w.epoch /\ v.received = w.received /\ v.queue = w.queue
            /\ v.call \in {"none", "sent"}
<1> DEFINE u == [w EXCEPT !.call = "none"]
<1>0. w \in Writer /\ w.busy = 0 /\ Len(w.queue) <= MaxQueue
  <2>1. w.busy \in Nat /\ ~(w.busy > 0)
    BY WriterFacts DEF WriterOK
  <2> QED BY <2>1 DEF WriterOK
<1>1. /\ u \in Writer /\ u.epoch = w.epoch /\ u.received = w.received /\ u.queue = w.queue
      /\ u.call = "none" /\ u.busy = 0
  BY <1>0 DEF Writer
<1>2. Retried(w) = Kick(u)
  BY DEF Retried
<1> HIDE DEF u
<1>3. /\ WriterOK(Kick(u)) /\ Kick(u).epoch = w.epoch /\ Kick(u).received = w.received
      /\ Kick(u).queue = w.queue /\ Kick(u).call \in {"none", "sent"}
  BY <1>0, <1>1, KickFacts
<1> QED BY <1>2, <1>3

LEMMA PartFacts ==
  ASSUME NEW T, NEW s \in Seq(T), NEW m \in Nat, m <= Len(s)
  PROVE  /\ DOMAIN SubSeq(s, m + 1, Len(s)) = 1..(Len(s) - m)
         /\ \A i \in DOMAIN SubSeq(s, m + 1, Len(s)) :
              SubSeq(s, m + 1, Len(s))[i] = s[m + i] /\ m + i \in DOMAIN s
OBVIOUS

(* What the batch of a call is.                                            *)
LEMMA BatchFacts ==
  ASSUME TypeOK, NEW st \in Streams, StreamInv(st)
  PROVE  LET b == Batch(writer[st])
         IN /\ b \in Seq(Queued) /\ DOMAIN b = 1..writer[st].busy /\ Transits(st, b)
            /\ \A i \in DOMAIN b : /\ b[i] = writer[st].queue[i] /\ i \in DOMAIN writer[st].queue
                                   /\ b[i] \in Items(st) /\ b[i] \in All(st)
            /\ writer[st].busy > 0 => b # <<>> /\ \A i \in DOMAIN b : b[i].epoch = b[1].epoch
<1> DEFINE w == writer[st]
           b == Batch(w)
<1>w. /\ w.queue \in Seq(Queued) /\ Len(w.queue) \in Nat /\ w.busy \in Nat /\ w.busy <= Len(w.queue)
      /\ WriterOK(w)
  BY WriterFacts, TypeFacts DEF StreamInv, Batches, WriterOK
<1>b. /\ DOMAIN b = 1..w.busy /\ b \in Seq(Queued)
      /\ \A i \in DOMAIN b : b[i] = w.queue[i] /\ i \in DOMAIN w.queue
      /\ b = SubSeq(w.queue, 0 + 1, w.busy)
  BY <1>w DEF Batch
<1>i. Transits(st, w.queue) /\ \A i \in DOMAIN w.queue : w.queue[i] \in Items(st) /\ w.queue[i] \in All(st)
  BY ItemFacts DEF StreamInv, InTransit
<1>1. Transits(st, b)
  <2>1. /\ \A i \in 1..0 : w.queue[i] \in rows[st]
        /\ Copies(st) /\ 0 \in Nat /\ 0 <= w.busy
    BY <1>w DEF StreamInv
  <2>2. Transits(st, SubSeq(w.queue, 0 + 1, w.busy))
    BY ONLY TypeOK, <2>1, <1>w, <1>i, SubTransits, st \in Streams
  <2> QED BY <2>2, <1>b
<1>2. w.busy > 0 => b # <<>> /\ \A i \in DOMAIN b : b[i].epoch = b[1].epoch
  <2>1. w.busy > 0 => 1 \in DOMAIN b
    BY <1>b, <1>w
  <2>2. \A i \in 1..w.busy : w.queue[i].epoch = w.queue[1].epoch
    BY <1>w DEF WriterOK
  <2>3. \A i \in DOMAIN b : b[i].epoch = w.queue[1].epoch
    BY ONLY <2>2, <1>b
  <2> HIDE DEF b
  <2> QED BY <2>1, <2>3
<1> HIDE DEF w, b
<1> QED BY <1>1, <1>2, <1>b, <1>i DEF w, b

(* The first m items, which are in the database, leave the queue; the      *)
(* batch under way may become a late call.                                 *)
LEMMA WorkerStep ==
  ASSUME IInv, TypeOK', NEW st \in Streams, WriterOK(writer'[st]),
         writer'[st].epoch = writer[st].epoch, writer'[st].received = writer[st].received,
         NEW m \in Nat, m <= Len(writer[st].queue), \A i \in 1..m : writer[st].queue[i] \in rows[st],
         writer'[st].queue = SubSeq(writer[st].queue, m + 1, Len(writer[st].queue)),
         writer'[st].call # "done",
         \A c \in late' : c.stream = st =>
           c \in late \/ (writer[st].busy > 0 /\ c.batch = Batch(writer[st])),
         UNCHANGED <<gateway, store>>
  PROVE  StreamInv(st)' /\ Items(st)' \subseteq Items(st)
<1> DEFINE w == writer[st]
           v == writer'[st]
<1>t. /\ gw' = gw /\ appended' = appended /\ forgotten' = forgotten /\ rows' = rows
      /\ projected' = projected /\ cursor' = cursor /\ TypeOK /\ StreamInv(st)
  BY DEF IInv, gateway, store
<1>w. /\ w.queue \in Seq(Queued) /\ Len(w.queue) \in Nat /\ w.busy \in Nat /\ w.busy <= Len(w.queue)
      /\ w.received \in Int /\ WriterOK(w)
  BY <1>t, WriterFacts, TypeFacts DEF StreamInv, Batches, WriterOK
<1>q. /\ DOMAIN v.queue = 1..(Len(w.queue) - m)
      /\ \A i \in DOMAIN v.queue : v.queue[i] = w.queue[m + i] /\ m + i \in DOMAIN w.queue
  <2>1. v.queue = SubSeq(w.queue, m + 1, Len(w.queue))
    OBVIOUS
  <2>2. m <= Len(w.queue)
    OBVIOUS
  <2>3. w.queue \in Seq(Queued)
    BY <1>w
  <2>4. /\ DOMAIN SubSeq(w.queue, m + 1, Len(w.queue)) = 1..(Len(w.queue) - m)
        /\ \A i \in DOMAIN SubSeq(w.queue, m + 1, Len(w.queue)) :
             SubSeq(w.queue, m + 1, Len(w.queue))[i] = w.queue[m + i] /\ m + i \in DOMAIN w.queue
    BY ONLY <2>2, <2>3, m \in Nat, PartFacts
  <2> QED BY ONLY <2>1, <2>4
<1>b. /\ DOMAIN Batch(w) = 1..w.busy /\ Transits(st, Batch(w))
      /\ \A i \in DOMAIN Batch(w) : Batch(w)[i] \in Items(st) /\ Batch(w)[i] \in All(st)
      /\ w.busy > 0 => Batch(w) # <<>> /\ \A i \in DOMAIN Batch(w) : Batch(w)[i].epoch = Batch(w)[1].epoch
  BY <1>t, BatchFacts
<1>i. Transits(st, w.queue) /\ \A i \in DOMAIN w.queue : w.queue[i] \in Items(st) /\ w.queue[i] \in All(st)
  BY <1>t, ItemFacts DEF StreamInv, InTransit
<1>1. Transits(st, v.queue)
  <2>1. Copies(st) /\ v.queue = SubSeq(w.queue, m + 1, Len(w.queue)) /\ m <= Len(w.queue)
        /\ \A i \in 1..m : w.queue[i] \in rows[st]
    BY <1>t DEF StreamInv
  <2> DEFINE q == w.queue
             n == Len(q)
             p == v.queue
  <2>3. /\ TypeOK /\ Copies(st) /\ q \in Seq(Queued) /\ Transits(st, q)
        /\ n \in Nat /\ m <= n /\ n <= Len(q) /\ \A i \in 1..m : q[i] \in rows[st]
    BY ONLY <1>t, <2>1, <1>w, <1>i, m \in Nat
  <2>4. p = SubSeq(q, m + 1, n)
    BY ONLY <2>1
  <2> HIDE DEF p, q, n
  <2>5. Transits(st, p)
    BY ONLY <2>3, <2>4, SubTransits, st \in Streams, m \in Nat
  <2> QED BY ONLY <2>5 DEF p
<1>3. \A q \in Waiting(st)' : q \in Waiting(st) \/ q = v.queue \/ q = Batch(w)
  BY AllFacts
<1>4. \A q \in Waiting(st)' : Transits(st, q) /\ \A i \in DOMAIN q : q[i] \in Items(st) /\ q[i] \in All(st)
  <2>1. \A q \in Waiting(st) : Transits(st, q) /\ \A i \in DOMAIN q : q[i] \in Items(st) /\ q[i] \in All(st)
    BY <1>t, ItemFacts DEF StreamInv, InTransit
  <2>2. \A i \in DOMAIN v.queue : v.queue[i] \in Items(st) /\ v.queue[i] \in All(st)
    BY <1>q, <1>i
  <2> QED BY <1>1, <1>b, <1>3, <2>1, <2>2
<1>5. Batches(st)'
  BY <1>b, <1>t DEF StreamInv, Batches
<1>6. v.epoch <= gw.epoch
  BY <1>t DEF StreamInv, CursorIsRow
<1>7. Trails(st)'
  BY <1>q, <1>t DEF StreamInv, Trails
<1>8. Kept(st)'
  <2> SUFFICES ASSUME w.epoch = gw.epoch, NEW r \in gw.log[st], r.seq <= w.received
               PROVE  r.event \in Events(st) \/ \E i \in DOMAIN v.queue : v.queue[i].event = r.event
    BY <1>t DEF Kept, Events
  <2>1. r.event \in Events(st) \/ \E i \in DOMAIN w.queue : w.queue[i].event = r.event
    BY <1>t DEF StreamInv, Kept
  <2>2. ASSUME NEW i \in DOMAIN w.queue, w.queue[i].event = r.event
        PROVE  r.event \in Events(st) \/ \E j \in DOMAIN v.queue : v.queue[j].event = r.event
    <3>1. CASE i <= m
      <4>1. i \in 1..m
        BY <3>1, <1>w
      <4>2. w.queue[i] \in rows[st]
        BY <4>1
      <4> QED BY <4>2, <2>2, <1>t DEF StreamInv, Copies
    <3>2. CASE i > m
      <4>1. i - m \in DOMAIN v.queue /\ m + (i - m) = i
        BY <3>2, <1>q, <1>w, SMTT(60)
      <4>2. v.queue[i - m] = w.queue[i]
        BY <4>1, <1>q
      <4> QED BY <4>1, <4>2, <2>2
    <3> QED BY <3>1, <3>2, <1>w
  <2> QED BY <2>1, <2>2
<1>9. All(st)' \subseteq All(st) => NextIsNew(st)'
  BY <1>t, NextStays DEF StreamInv, NextIsNew
<1>10. Items(st)' \subseteq Items(st)
  BY <1>4, <1>t, AllFacts
<1> HIDE DEF w, v
<1>11. \A q \in Waiting(st)' : Transits(st, q) /\ \A i \in DOMAIN q : q[i] \in All(st)
  BY <1>4
<1>12. writer'[st].epoch <= gw.epoch
  BY <1>6 DEF v
<1> QED BY <1>5, <1>7, <1>8, <1>9, <1>10, <1>11, <1>12, <1>t, QueueStep

LEMMA WholeFacts ==
  ASSUME NEW T, NEW s \in Seq(T)
  PROVE  s = SubSeq(s, 0 + 1, Len(s)) /\ Len(s) \in Nat
OBVIOUS

LEMMA WorkerControl ==
  ASSUME IInv, UNCHANGED <<line, obs, gateway>>,
         \A x \in Streams : writer'[x].epoch = writer[x].epoch /\ writer'[x].received = writer[x].received,
         \A x \in Streams : writer[x].queue = <<>> => writer'[x].queue = <<>>
  PROVE  LineShape' /\ Queues' /\ Asked' /\ Listening'
<1> USE StreamNames
<1>1. line' = line /\ obs' = obs /\ gw' = gw
  BY DEF gateway
<1>2. LineShape'
  BY <1>1 DEF IInv, LineShape, LoggedOn, Unpaused
<1>3. Queues'
  BY <1>1 DEF IInv, Queues
<1>4. \A x \in Streams : Got(writer'[x]) = Got(writer[x])
  BY DEF Got
<1>5. Asked'
  <2>1. \A x \in Streams : Got(writer[x])' = Got(writer[x])
    BY DEF Got
  <2> QED BY <1>1, <2>1 DEF IInv, Asked
<1>6. Listening'
  <2>1. \A x \in Streams : Got(writer[x])' = Got(writer[x])
    BY DEF Got
  <2> QED BY <1>1, <2>1 DEF IInv, Listening, LoggedOn, Unpaused
<1> QED BY <1>2, <1>3, <1>5, <1>6

LEMMA WorkerCarries ==
  ASSUME IInv, TypeOK', UNCHANGED <<line, obs, gateway, store, late, bounds>>,
         \A x \in Streams : writer'[x].epoch = writer[x].epoch /\ writer'[x].received = writer[x].received,
         \A x \in Streams : Items(x)' \subseteq Items(x)
  PROVE  Faultless' /\ TailIsKnown'
<1>0. line' = line /\ obs' = obs /\ gw' = gw /\ late' = late /\ cursor' = cursor /\ faults' = faults
  BY DEF gateway, store, bounds
<1>1. Steady => Steady'
  <2>1. \A x \in Streams : Got(writer[x])' = Got(writer[x])
    BY DEF Got
  <2>2. \A x \in Streams : Items(x) = {} => Items(x)' = {}
    OBVIOUS
  <2> QED BY <1>0, <2>1, <2>2, StreamNames DEF Steady
<1>2. \A x \in Streams : \A a \in Items(x)' :
         a \in Items(x) /\ writer'[x].epoch = writer[x].epoch /\ writer'[x].received >= writer[x].received
  BY TypeFacts, WriterFacts DEF IInv
<1> QED BY <1>0, <1>1, <1>2, CarryStep

LEMMA CallSucceedsStep == ASSUME IInv, NEW st \in Streams, CallSucceeds(st) PROVE IInv'
<1> DEFINE w == writer[st]
           v == Succeeded(w)
<1>0. /\ w.call = "done" /\ writer' = [writer EXCEPT ![st] = v]
      /\ UNCHANGED <<line, obs, store, gateway, late, bounds>>
  BY DEF CallSucceeds
<1>w. WriterOK(w) /\ w.queue \in Seq(Queued) /\ w.busy \in Nat /\ w.busy <= Len(w.queue)
  BY WriterFacts DEF IInv, StreamInv, Batches, WriterOK
<1>1. /\ WriterOK(v) /\ v.epoch = w.epoch /\ v.received = w.received
      /\ v.queue = SubSeq(w.queue, w.busy + 1, Len(w.queue)) /\ v.call \in {"none", "sent"}
  BY <1>w, SucceededFacts
<1> HIDE DEF v
<1>2. TypeOK' /\ writer'[st] = v /\ \A x \in Streams : x # st => writer'[x] = writer[x]
  <2>1. /\ line' \in Line /\ obs' \in Observer /\ faults' \in Nat /\ losses' \in Nat
        /\ late' \in SUBSET [stream : Streams, batch : Seq(Queued)]
    BY <1>0 DEF IInv, TypeOK, bounds
  <2> QED BY <1>0, <1>1, <2>1, WriterMoves
<1>3. StreamInv(st)' /\ Items(st)' \subseteq Items(st)
  <2>1. \A i \in 1..w.busy : w.queue[i] \in rows[st]
    BY <1>0 DEF IInv, StreamInv, Batches
  <2>2. v.call # "done" /\ UNCHANGED <<gateway, store>> /\ late' = late
    BY <1>0, <1>1
  <2> QED BY <1>1, <1>2, <1>w, <2>1, <2>2, WorkerStep
<1>4. ASSUME NEW x \in Streams, x # st PROVE StreamInv(x)' /\ Items(x)' \subseteq Items(x)
  BY <1>0, <1>2, <1>4, StreamStays DEF IInv, gateway, store
<1>5. w.queue = <<>> => v.queue = <<>>
  BY <1>1, <1>w
<1>6. /\ \A x \in Streams : writer'[x].epoch = writer[x].epoch /\ writer'[x].received = writer[x].received
      /\ \A x \in Streams : writer[x].queue = <<>> => writer'[x].queue = <<>>
  BY <1>1, <1>2, <1>5
<1>7. LineShape' /\ Queues' /\ Asked' /\ Listening'
  BY <1>0, <1>6, WorkerControl
<1>8. Faultless' /\ TailIsKnown'
  BY <1>0, <1>2, <1>3, <1>4, <1>6, WorkerCarries
<1> QED BY <1>2, <1>3, <1>4, <1>7, <1>8 DEF IInv

LEMMA RetryTimerStep == ASSUME IInv, NEW st \in Streams, RetryTimer(st) PROVE IInv'
<1> DEFINE w == writer[st]
           v == Retried(w)
<1>0. /\ w.call = "retry" /\ writer' = [writer EXCEPT ![st] = v]
      /\ UNCHANGED <<line, obs, store, gateway, late, bounds>>
  BY DEF RetryTimer
<1>w. WriterOK(w) /\ w.queue \in Seq(Queued)
  BY WriterFacts DEF IInv, StreamInv, Batches, WriterOK
<1>1. /\ WriterOK(v) /\ v.epoch = w.epoch /\ v.received = w.received
      /\ v.queue = w.queue /\ v.call \in {"none", "sent"}
  BY <1>0, <1>w, RetriedFacts
<1> HIDE DEF v
<1>2. TypeOK' /\ writer'[st] = v /\ \A x \in Streams : x # st => writer'[x] = writer[x]
  <2>1. /\ line' \in Line /\ obs' \in Observer /\ faults' \in Nat /\ losses' \in Nat
        /\ late' \in SUBSET [stream : Streams, batch : Seq(Queued)]
    BY <1>0 DEF IInv, TypeOK, bounds
  <2> QED BY <1>0, <1>1, <2>1, WriterMoves
<1>3. StreamInv(st)' /\ Items(st)' \subseteq Items(st)
  <2>1. /\ \A i \in 1..0 : w.queue[i] \in rows[st]
        /\ v.queue = SubSeq(w.queue, 0 + 1, Len(w.queue)) /\ 0 <= Len(w.queue)
    BY <1>1, <1>w, WholeFacts
  <2>2. v.call # "done" /\ UNCHANGED <<gateway, store>> /\ late' = late
    BY <1>0, <1>1
  <2> QED BY <1>1, <1>2, <1>w, <2>1, <2>2, WorkerStep
<1>4. ASSUME NEW x \in Streams, x # st PROVE StreamInv(x)' /\ Items(x)' \subseteq Items(x)
  BY <1>0, <1>2, <1>4, StreamStays DEF IInv, gateway, store
<1>6. /\ \A x \in Streams : writer'[x].epoch = writer[x].epoch /\ writer'[x].received = writer[x].received
      /\ \A x \in Streams : writer[x].queue = <<>> => writer'[x].queue = <<>>
  BY <1>1, <1>2
<1>7. LineShape' /\ Queues' /\ Asked' /\ Listening'
  BY <1>0, <1>6, WorkerControl
<1>8. Faultless' /\ TailIsKnown'
  BY <1>0, <1>2, <1>3, <1>4, <1>6, WorkerCarries
<1> QED BY <1>2, <1>3, <1>4, <1>7, <1>8 DEF IInv

LEMMA CallFailsStep == ASSUME IInv, NEW st \in Streams, CallFails(st) PROVE IInv'
<1> DEFINE w == writer[st]
           v == Failed(w)
<1>0. /\ w.call \in {"sent", "done"} /\ Fault /\ writer' = [writer EXCEPT ![st] = v]
      /\ late' = late \/ late' = late \cup {Call(st)}
      /\ UNCHANGED <<line, obs, store, gateway>>
  BY DEF CallFails
<1>w. WriterOK(w) /\ w.queue \in Seq(Queued) /\ w.busy \in Nat /\ w.busy <= Len(w.queue) /\ w.busy > 0
  BY <1>0, WriterFacts DEF IInv, StreamInv, Batches, WriterOK
<1>1. /\ WriterOK(v) /\ v.epoch = w.epoch /\ v.received = w.received
      /\ v.queue = w.queue /\ v.call = "retry"
  BY <1>w, FailedFacts
<1> HIDE DEF v
<1>c. Call(st).stream = st /\ Call(st).batch = Batch(w) /\ Call(st) \in [stream : Streams, batch : Seq(Queued)]
  <2>1. Batch(w) \in Seq(Queued)
    BY <1>w DEF Batch
  <2> QED BY <2>1 DEF Call
<1>f. Faultless' /\ TailIsKnown' /\ faults' \in Nat /\ losses' \in Nat
  BY <1>0, FaultStep DEF gateway
<1>2. TypeOK' /\ writer'[st] = v /\ \A x \in Streams : x # st => writer'[x] = writer[x]
  <2>1. /\ line' \in Line /\ obs' \in Observer
        /\ late' \in SUBSET [stream : Streams, batch : Seq(Queued)]
    BY <1>0, <1>c DEF IInv, TypeOK
  <2> QED BY <1>0, <1>1, <1>f, <2>1, WriterMoves
<1>3. StreamInv(st)'
  <2>1. /\ \A i \in 1..0 : w.queue[i] \in rows[st]
        /\ v.queue = SubSeq(w.queue, 0 + 1, Len(w.queue)) /\ 0 <= Len(w.queue)
    BY <1>1, <1>w, WholeFacts
  <2>2. v.call # "done" /\ UNCHANGED <<gateway, store>>
    BY <1>0, <1>1
  <2>3. \A c \in late' : c.stream = st => c \in late \/ (w.busy > 0 /\ c.batch = Batch(w))
    BY <1>0, <1>c, <1>w
  <2> QED BY <1>1, <1>2, <1>w, <2>1, <2>2, <2>3, WorkerStep
<1>4. ASSUME NEW x \in Streams, x # st PROVE StreamInv(x)'
  <2>1. \A c \in late' : c.stream = x => c \in late
    BY <1>0, <1>c, <1>4
  <2> QED BY <1>0, <1>2, <1>4, <2>1, StreamStays DEF IInv, gateway, store
<1>6. /\ \A x \in Streams : writer'[x].epoch = writer[x].epoch /\ writer'[x].received = writer[x].received
      /\ \A x \in Streams : writer[x].queue = <<>> => writer'[x].queue = <<>>
  BY <1>1, <1>2
<1>7. LineShape' /\ Queues' /\ Asked' /\ Listening'
  BY <1>0, <1>6, WorkerControl
<1> QED BY <1>2, <1>3, <1>4, <1>7, <1>f DEF IInv

LEMMA RelayRestartsStep == ASSUME IInv, RelayRestarts PROVE IInv'
<1>0. /\ Fault /\ line' = Down /\ obs' = Booting /\ writer' = [st \in Streams |-> NewWriter]
      /\ \A c \in late' : c \in late \/ \E x \in Streams : writer[x].call = "sent" /\ c = Call(x)
      /\ UNCHANGED <<store, gateway>>
  BY DEF RelayRestarts
<1>t. /\ gw' = gw /\ appended' = appended /\ forgotten' = forgotten /\ rows' = rows
      /\ projected' = projected /\ cursor' = cursor /\ TypeOK
  BY <1>0 DEF IInv, gateway, store
<1>n. /\ NewWriter \in Writer /\ NewWriter.epoch = 0 /\ NewWriter.received = Null /\ NewWriter.queue = <<>>
      /\ NewWriter.busy = 0 /\ NewWriter.call = "none" /\ WriterOK(NewWriter)
  BY SizesAssumption DEF NewWriter, Writer, WriterOK, Null
<1>c. \A x \in Streams : Call(x).stream = x /\ Call(x).batch = Batch(writer[x])
  BY DEF Call
<1>b. \A x \in Streams : Batch(writer[x]) \in Seq(Queued) /\ (writer[x].call = "sent" => writer[x].busy > 0)
  BY BatchFacts DEF IInv, StreamInv, Batches, WriterOK
<1>l. late' \in SUBSET [stream : Streams, batch : Seq(Queued)]
  <2>1. \A x \in Streams : Call(x) \in [stream : Streams, batch : Seq(Queued)]
    BY <1>b DEF Call
  <2> QED BY <2>1, <1>0 DEF IInv, TypeOK
<1>o. /\ obs' \in Observer /\ obs'.state = "connecting" /\ obs'.boot = "order" /\ ~obs'.cursorReady
      /\ line' \in Line /\ ~line'.up /\ ~line'.asked
  BY <1>0, DownFacts DEF Booting, Observer
<1>f. Faultless' /\ TailIsKnown' /\ faults' \in Nat /\ losses' \in Nat
  BY <1>0, <1>t, FaultStep
<1>w. \A x \in Streams : writer'[x] = NewWriter
  BY <1>0
<1>1. TypeOK'
  <2>1. writer' \in [Streams -> Writer]
    BY <1>0, <1>n
  <2>2. \A x \in Streams :
          /\ writer'[x].busy <= Len(writer'[x].queue) /\ Len(writer'[x].queue) <= MaxQueue
          /\ writer'[x].call \in {"sent", "done"} <=> writer'[x].busy > 0
    BY <1>w, <1>n DEF WriterOK
  <2> QED BY <1>0, <1>t, <1>l, <1>o, <1>f, <2>1, <2>2 DEF TypeOK, gateway, store
<1>2. ASSUME NEW st \in Streams PROVE StreamInv(st)'
  <2>0. StreamInv(st) /\ writer'[st] = NewWriter
    BY <1>w DEF IInv
  <2>1. \A c \in late' : c.stream = st =>
          c \in late \/ (writer[st].busy > 0 /\ c.batch = Batch(writer[st]))
    BY <1>0, <1>b, <1>c
  <2>2. \A q \in Waiting(st)' : q = <<>> \/ q \in Waiting(st) \/ (writer[st].busy > 0 /\ q = Batch(writer[st]))
    BY <2>0, <2>1, <1>n, AllFacts
  <2>3. \A q \in Waiting(st)' : Transits(st, q) /\ \A i \in DOMAIN q : q[i] \in All(st)
    <3>1. \A q \in Waiting(st) : Transits(st, q) /\ \A i \in DOMAIN q : q[i] \in All(st)
      BY <2>0, <1>t, ItemFacts DEF StreamInv, InTransit
    <3>2. Transits(st, Batch(writer[st])) /\ \A i \in DOMAIN Batch(writer[st]) : Batch(writer[st])[i] \in All(st)
      BY <2>0, <1>t, BatchFacts
    <3>3. Transits(st, <<>>)
      BY DEF Transits
    <3> QED BY <2>2, <3>1, <3>2, <3>3
  <2>4. Batches(st)'
    <3>1. writer[st].busy > 0 => /\ Batch(writer[st]) # <<>>
            /\ \A i \in DOMAIN Batch(writer[st]) : Batch(writer[st])[i].epoch = Batch(writer[st])[1].epoch
      BY <2>0, <1>t, BatchFacts
    <3> QED BY <3>1, <2>0, <2>1, <1>n DEF StreamInv, Batches
  <2>5. writer'[st].epoch <= gw.epoch /\ Trails(st)'
    BY <2>0, <1>n, <1>t, TypeFacts DEF Trails
  <2>6. Kept(st)'
    BY <2>0, <1>n, <1>t, TypeFacts, QueuedFacts DEF Kept, Null
  <2>7. All(st)' \subseteq All(st) => NextIsNew(st)'
    BY <2>0, <1>n, <1>t, TypeFacts, NextStays DEF StreamInv, Null
  <2> QED BY <2>0, <2>3, <2>4, <2>5, <2>6, <2>7, <1>1, <1>t, QueueStep
<1>3. LineShape' /\ Asked' /\ Listening'
  BY <1>o DEF LineShape, LoggedOn, Asked, Listening
<1>4. Queues'
  BY <1>w, <1>n, StreamNames DEF Queues
<1> QED BY <1>1, <1>2, <1>3, <1>4, <1>f DEF IInv

-----------------------------------------------------------------------------
(* The transaction.                                                        *)

(* A batch that may be applied: a part of what waits.                      *)
Applicable(st, b) ==
  /\ b \in Seq(Queued) /\ b # <<>> /\ Transits(st, b)
  /\ \A i \in DOMAIN b : b[i] \in Items(st) /\ b[i] \in All(st) /\ b[i].epoch = b[1].epoch

(* Events of the batch that were not projected, in order.                  *)
NewEvents(st, b, new) ==
  /\ \A i \in DOMAIN new : new[i] \notin Events(st) /\ \E k \in DOMAIN b : new[i] = b[k].event
  /\ \A i, j \in DOMAIN new : i < j => new[i] < new[j]

(* Whatever was there before, the items of the batch are rows now, and     *)
(* their events projected: those that were not, in the order of events.    *)
LEMMA AppliedRows ==
  ASSUME IInv, NEW st \in Streams, NEW b, Applicable(st, b), Applied(st, b)
  PROVE  /\ rows' \in [Streams -> SUBSET Queued] /\ projected' \in [Streams -> Seq(Nat)]
         /\ rows'[st] = rows[st] \cup ToSet(b)
         /\ Events(st)' = Events(st) \cup {b[i].event : i \in DOMAIN b}
         /\ \A x \in Streams : x # st => rows'[x] = rows[x] /\ projected'[x] = projected[x]
         /\ \E new \in Seq(Nat) : projected'[st] = projected[st] \o new /\ NewEvents(st, b, new)
<1> DEFINE known == rows[st]
           ins == Inserted(known, b)
           differs(x) == \A old \in known : old.epoch # x.epoch \/ old.seq # x.seq
           new == [i \in DOMAIN ins |-> ins[i].event]
<1>t. /\ TypeOK /\ StreamInv(st) /\ known \in SUBSET Queued /\ projected[st] \in Seq(Nat)
      /\ rows \in [Streams -> SUBSET Queued] /\ projected \in [Streams -> Seq(Nat)]
      /\ b \in Seq(Queued)
  BY TypeFacts DEF IInv, TypeOK, Applicable
<1>1. /\ ins \in Seq(Queued)
      /\ \A n \in DOMAIN ins : \E i \in DOMAIN b : ins[n] = b[i] /\ differs(b[i])
      /\ \A i \in DOMAIN b : differs(b[i]) => \E n \in DOMAIN ins : ins[n] = b[i]
      /\ (\A i, j \in DOMAIN b : i < j => b[i].event < b[j].event) =>
           \A n, m \in DOMAIN ins : n < m => ins[n].event < ins[m].event
  BY <1>t, InsertedFacts
<1>2. rows' = [rows EXCEPT ![st] = known \cup ToSet(ins)]
      /\ projected' = [projected EXCEPT ![st] = projected[st] \o new]
  BY DEF Applied, Rows
<1> HIDE DEF ins
<1>3. \A i \in DOMAIN b : ~differs(b[i]) => b[i] \in known
  <2> SUFFICES ASSUME NEW i \in DOMAIN b, NEW old \in known, old.epoch = b[i].epoch, old.seq = b[i].seq
               PROVE  b[i] \in known
    OBVIOUS
  <2>1. old \in All(st) /\ b[i] \in All(st)
    BY <1>t, ItemFacts DEF Applicable
  <2>2. old = b[i]
    BY <2>1, <1>t, KeyFacts DEF StreamInv
  <2> QED BY <2>2
<1>4. known \cup ToSet(ins) = known \cup ToSet(b)
  BY <1>1, <1>3 DEF ToSet
<1>5. new \in Seq(Nat) /\ DOMAIN new = DOMAIN ins /\ \A i \in DOMAIN ins : new[i] = ins[i].event
  BY <1>1, QueuedFacts
<1> HIDE DEF new
<1>6. rows'[st] = known \cup ToSet(b) /\ projected'[st] = projected[st] \o new
  BY <1>t, <1>2, <1>4
<1>7. \A x \in Streams : x # st => rows'[x] = rows[x] /\ projected'[x] = projected[x]
  BY <1>t, <1>2
<1>8. rows' \in [Streams -> SUBSET Queued] /\ projected' \in [Streams -> Seq(Nat)]
  <2>1. known \cup ToSet(ins) \in SUBSET Queued
    BY <1>t, <1>1 DEF ToSet
  <2>2. projected[st] \o new \in Seq(Nat)
    BY <1>t, <1>5
  <2> QED BY <1>t, <1>2, <2>1, <2>2
<1>9. Events(st)' = Events(st) \cup {new[i] : i \in DOMAIN new}
  <2>1. projected[st] \in Seq(Nat) /\ new \in Seq(Nat)
    BY <1>t, <1>5
  <2>2. ToSet(projected[st] \o new) = ToSet(projected[st]) \cup ToSet(new)
    BY ONLY <2>1, AppendedSet
  <2>3. ToSet(new) = {new[i] : i \in DOMAIN new}
    BY DEF ToSet
  <2> QED BY <1>6, <2>2, <2>3 DEF Events
<1>10. Events(st)' = Events(st) \cup {b[i].event : i \in DOMAIN b}
  <2>1. \A i \in DOMAIN new : \E k \in DOMAIN b : new[i] = b[k].event
    BY <1>1, <1>5
  <2>2. ASSUME NEW k \in DOMAIN b
        PROVE  b[k].event \in Events(st) \/ \E i \in DOMAIN new : new[i] = b[k].event
    <3>1. CASE differs(b[k])
      BY <3>1, <1>1, <1>5
    <3>2. CASE ~differs(b[k])
      BY <3>2, <1>3, <1>t DEF StreamInv, Copies
    <3> QED BY <3>1, <3>2
  <2> QED BY <1>9, <2>1, <2>2
<1>11. \A i, j \in DOMAIN new : i < j => new[i] < new[j]
  BY <1>1, <1>5, SMTT(60) DEF Applicable, Transits
<1>12. ASSUME NEW i \in DOMAIN new PROVE new[i] \notin Events(st)
  <2>1. PICK k \in DOMAIN b : ins[i] = b[k] /\ differs(b[k])
    BY <1>1, <1>5
  <2>2. ASSUME new[i] \in Events(st) PROVE FALSE
    <3>1. PICK old \in known : old.event = b[k].event
      BY <2>1, <2>2, <1>5, <1>t DEF StreamInv, Copies
    <3>2. old = b[k]
      <4>1. old \in All(st) /\ b[k] \in All(st)
        BY <1>t, ItemFacts DEF Applicable
      <4> QED BY <3>1, <4>1, <1>t, KeyFacts DEF StreamInv
    <3> QED BY <3>2, <2>1
  <2> QED BY <2>2
<1>13. \A i \in DOMAIN new : \E k \in DOMAIN b : new[i] = b[k].event
  BY <1>1, <1>5
<1> HIDE DEF known
<1>14. \E n \in Seq(Nat) : projected'[st] = projected[st] \o n /\ NewEvents(st, b, n)
  <2>1. NewEvents(st, b, new)
    BY <1>11, <1>12, <1>13 DEF NewEvents
  <2> QED BY <2>1, <1>5, <1>6
<1>15. rows'[st] = rows[st] \cup ToSet(b)
  BY <1>6 DEF known
<1> QED BY <1>7, <1>8, <1>10, <1>14, <1>15

(* The greatest seq of a batch is that of one of its items.                *)
LEMMA LastOfBatch ==
  ASSUME TypeOK, NEW st \in Streams, KeysInOrder(st), NEW b, Applicable(st, b)
  PROVE  LET last == Max({b[i].seq : i \in DOMAIN b})
         IN /\ last \in Nat /\ \E k \in DOMAIN b : last = b[k].seq
<1> DEFINE S == {b[i].seq : i \in DOMAIN b}
           n == Len(b)
<1>1. b \in Seq(Queued) /\ n \in Nat /\ n > 0 /\ DOMAIN b = 1..n /\ n \in DOMAIN b
  BY DEF Applicable
<1>2. \A i \in DOMAIN b : b[i].seq \in Nat
  BY <1>1, QueuedFacts
<1>3. \A i \in DOMAIN b : b[i].seq <= b[n].seq
  <2> SUFFICES ASSUME NEW i \in DOMAIN b, i # n PROVE b[i].seq <= b[n].seq
    BY <1>1, <1>2
  <2>1. i < n
    BY <1>1
  <2>2. b[i].event < b[n].event
    BY <2>1, <1>1 DEF Applicable, Transits
  <2>3. b[i] \in All(st) /\ b[n] \in All(st) /\ b[i].epoch = b[n].epoch
    BY <1>1 DEF Applicable
  <2>4. b[i].seq < b[n].seq
    BY <2>2, <2>3, KeyFacts
  <2> QED BY <2>4, <1>1, <1>2
<1>4. S \in SUBSET Nat /\ S # {} /\ b[n].seq \in Nat /\ \A s \in S : s <= b[n].seq
  BY <1>1, <1>2, <1>3
<1>5. Max(S) \in S
  <2> HIDE DEF S
  <2> QED BY <1>4, MaxIsGreatest
<1> QED BY <1>2, <1>5

LEMMA CursorMoves ==
  ASSUME IInv, NEW st \in Streams, NEW b, Applicable(st, b), Applied(st, b)
  PROVE  /\ cursor' \in [Streams -> Cursor]
         /\ cursor'[st].epoch = b[1].epoch
         /\ \/ cursor'[st].seq = cursor[st].seq /\ cursor[st].epoch = b[1].epoch
            \/ \E k \in DOMAIN b : cursor'[st].seq = b[k].seq
         /\ \A x \in Streams : x # st =>
              \/ cursor'[x] = cursor[x]
              \/ cursor[x].epoch = 0 /\ cursor'[x].seq = cursor[x].seq /\ cursor'[x].epoch = b[1].epoch
<1> DEFINE last == Max({b[i].seq : i \in DOMAIN b})
           c == Advanced(cursor[st], b)
           moved == [cursor EXCEPT ![st] = c]
<1>1. last \in Nat /\ \E k \in DOMAIN b : last = b[k].seq
  BY LastOfBatch DEF IInv, StreamInv
<1>2. /\ b[1].epoch \in Nat /\ cursor \in [Streams -> Cursor]
      /\ cursor[st].epoch \in Nat /\ cursor[st].seq \in Nat
  BY QueuedFacts, TypeFacts DEF IInv, TypeOK, Applicable
<1>3. /\ c \in Cursor /\ c.epoch = b[1].epoch
      /\ \/ c.seq = cursor[st].seq /\ cursor[st].epoch = b[1].epoch
         \/ \E k \in DOMAIN b : c.seq = b[k].seq
  <2>1. c = [epoch |-> b[1].epoch,
             seq |-> IF cursor[st].epoch = b[1].epoch /\ cursor[st].seq > last THEN cursor[st].seq ELSE last]
    BY DEF Advanced
  <2> HIDE DEF last, c
  <2> QED BY <2>1, <1>1, <1>2 DEF Cursor
<1> HIDE DEF c
<1>4. /\ moved \in [Streams -> Cursor] /\ moved[st] = c
      /\ \A x \in Streams : x # st => moved[x] = cursor[x]
  BY <1>2, <1>3
<1>5. cursor' = IF \A x \in Streams : cursor[x].epoch = 0
                  THEN [moved EXCEPT !["order"].epoch = b[1].epoch] ELSE moved
  BY DEF Applied, c
<1> HIDE DEF moved
<1>6. CASE ~\A x \in Streams : cursor[x].epoch = 0
  BY <1>6, <1>3, <1>4, <1>5
<1>7. CASE \A x \in Streams : cursor[x].epoch = 0
  <2> DEFINE o == [moved["order"] EXCEPT !.epoch = b[1].epoch]
  <2>1. cursor' = [moved EXCEPT !["order"] = o]
    BY <1>4, <1>5, <1>7
  <2>2. o \in Cursor /\ o.epoch = b[1].epoch /\ o.seq = moved["order"].seq
    BY <1>2, <1>4, StreamNames DEF Cursor
  <2> HIDE DEF o
  <2>3. /\ cursor' \in [Streams -> Cursor] /\ cursor'["order"] = o
        /\ \A x \in Streams : x # "order" => cursor'[x] = moved[x]
    BY <2>1, <2>2, <1>4, StreamNames
  <2>4. CASE st = "order"
    BY <2>2, <2>3, <2>4, <1>3, <1>4
  <2>5. CASE st # "order"
    BY <2>2, <2>3, <2>5, <1>3, <1>4, <1>7
  <2> QED BY <2>4, <2>5
<1> QED BY <1>6, <1>7

(* The database gains rows; nothing else is read differently.              *)
LEMMA StoreStep ==
  ASSUME TypeOK, TypeOK', NEW st \in Streams, StreamInv(st), UNCHANGED gateway,
         writer'[st].epoch = writer[st].epoch, writer'[st].received = writer[st].received,
         writer'[st].queue = writer[st].queue, \A c \in late' : c.stream = st => c \in late,
         \A a \in rows'[st] : a \in Items(st), Events(st) \subseteq Events(st)',
         Copies(st)', Batches(st)', CursorIsRow(st)', NoHole(st)'
  PROVE  StreamInv(st)' /\ Items(st)' \subseteq Items(st)
<1>t. gw' = gw /\ appended' = appended /\ forgotten' = forgotten /\ (\A r \in gw.log[st] : Item(r)' = Item(r))
  BY DEF gateway, Item
<1>0. \A q \in Waiting(st)' : q \in Waiting(st)
  BY AllFacts
<1>1. Items(st)' \subseteq Items(st)
  BY <1>0, AllFacts
<1>2. All(st)' \subseteq All(st)
  BY <1>1, <1>t, AllFacts
<1>3. KeysInOrder(st)' /\ InRange(st)'
  BY <1>2, <1>t, NarrowStep, TypeFacts DEF StreamInv
<1>4. Log(st)'
  BY <1>t DEF StreamInv, Log
<1>5. NextIsNew(st)'
  BY <1>2, <1>t, NextStays DEF StreamInv, NextIsNew
<1>6. InTransit(st)'
  BY <1>0, <1>t DEF StreamInv, InTransit, Transits
<1>7. Trails(st)'
  BY <1>t DEF StreamInv, Trails
<1>8. Kept(st)'
  BY <1>t DEF StreamInv, Kept
<1> QED BY <1>1, <1>3, <1>4, <1>5, <1>6, <1>7, <1>8 DEF StreamInv

LEMMA AppliedStep ==
  ASSUME IInv, NEW st \in Streams, NEW b, Applicable(st, b), Applied(st, b),
         UNCHANGED <<line, obs, gateway, bounds>>, late' \subseteq late,
         writer' \in [Streams -> Writer],
         \A x \in Streams :
           /\ WriterOK(writer'[x])
           /\ writer'[x].epoch = writer[x].epoch /\ writer'[x].received = writer[x].received
           /\ writer'[x].queue = writer[x].queue
           /\ writer'[x].call = "done" =>
                \/ writer[x].call = "done" /\ writer'[x].busy = writer[x].busy
                \/ x = st /\ b = Batch(writer[st]) /\ writer'[x].busy = writer[x].busy
  PROVE  IInv'
<1>t. /\ gw' = gw /\ appended' = appended /\ forgotten' = forgotten /\ poison' = poison /\ line' = line
      /\ obs' = obs /\ faults' = faults /\ losses' = losses /\ TypeOK /\ \A x \in Streams : StreamInv(x)
  BY DEF gateway, bounds, IInv
<1>r. /\ rows' \in [Streams -> SUBSET Queued] /\ projected' \in [Streams -> Seq(Nat)]
      /\ rows'[st] = rows[st] \cup ToSet(b)
      /\ Events(st)' = Events(st) \cup {b[i].event : i \in DOMAIN b}
      /\ \A x \in Streams : x # st => rows'[x] = rows[x] /\ projected'[x] = projected[x]
  BY AppliedRows
<1>c. /\ cursor' \in [Streams -> Cursor]
      /\ cursor'[st].epoch = b[1].epoch
      /\ \/ cursor'[st].seq = cursor[st].seq /\ cursor[st].epoch = b[1].epoch
         \/ \E k \in DOMAIN b : cursor'[st].seq = b[k].seq
      /\ \A x \in Streams : x # st =>
           \/ cursor'[x] = cursor[x]
           \/ cursor[x].epoch = 0 /\ cursor'[x].seq = cursor[x].seq /\ cursor'[x].epoch = b[1].epoch
  BY CursorMoves
<1>b. /\ b \in Seq(Queued) /\ 1 \in DOMAIN b
      /\ \A i \in DOMAIN b : b[i] \in Items(st) /\ b[i] \in All(st) /\ b[i].epoch = b[1].epoch
  <2>1. b \in Seq(Queued) /\ b # <<>>
    BY DEF Applicable
  <2>2. 1 \in DOMAIN b
    BY <2>1
  <2> QED BY <2>1, <2>2 DEF Applicable
<1>e. b[1].epoch \in 1..gw.epoch
  BY <1>b, <1>t DEF StreamInv, InRange
<1>1. TypeOK'
  <2>1. \A x \in Streams :
          /\ writer'[x].busy <= Len(writer'[x].queue) /\ Len(writer'[x].queue) <= MaxQueue
          /\ writer'[x].call \in {"sent", "done"} <=> writer'[x].busy > 0
    BY DEF WriterOK
  <2>2. late' \in SUBSET [stream : Streams, batch : Seq(Queued)]
    BY <1>t DEF TypeOK
  <2> QED BY <1>t, <1>r, <1>c, <2>1, <2>2 DEF TypeOK
(* The stream of the batch.                                                *)
<1>2. Copies(st)'
  BY <1>r, <1>t DEF StreamInv, Copies, ToSet
<1>3. Batches(st)'
  <2>1. \A i \in 1..writer[st].busy : b = Batch(writer[st]) => writer[st].queue[i] \in rows'[st]
    <3>1. /\ DOMAIN Batch(writer[st]) = 1..writer[st].busy
          /\ \A i \in DOMAIN Batch(writer[st]) : Batch(writer[st])[i] = writer[st].queue[i]
      BY <1>t, BatchFacts
    <3>2. \A i \in DOMAIN b : b[i] \in rows'[st]
      BY <1>r DEF ToSet
    <3> QED BY <3>1, <3>2
  <2>2. \A c \in late' : c.stream = st =>
          c.batch # <<>> /\ \A i \in DOMAIN c.batch : c.batch[i].epoch = c.batch[1].epoch
    BY <1>t DEF StreamInv, Batches
  <2>3. writer'[st].call = "done" => \A i \in 1..writer'[st].busy : writer'[st].queue[i] \in rows'[st]
    BY <2>1, <1>r, <1>t DEF StreamInv, Batches
  <2> QED BY <2>2, <2>3 DEF Batches
<1>4. CursorIsRow(st)'
  <2>1. \/ cursor'[st].seq = 0
        \/ \E r \in rows'[st] : r.epoch = cursor'[st].epoch /\ r.seq = cursor'[st].seq
    BY <1>c, <1>r, <1>b, <1>t DEF StreamInv, CursorIsRow, ToSet
  <2>2. cursor'[st].epoch <= gw.epoch /\ writer'[st].epoch <= gw.epoch
    BY <1>c, <1>e, <1>t DEF StreamInv, CursorIsRow
  <2> QED BY <2>1, <2>2, <1>t DEF CursorIsRow
<1>5. NoHole(st)'
  <2> SUFFICES ASSUME b[1].epoch = gw.epoch, NEW r \in gw.log[st], r.seq <= cursor'[st].seq
               PROVE  r.event \in Events(st)'
    BY <1>c, <1>t DEF NoHole
  <2>1. CASE cursor'[st].seq = cursor[st].seq /\ cursor[st].epoch = b[1].epoch
    BY <2>1, <1>r, <1>t DEF StreamInv, NoHole
  <2>2. ASSUME NEW k \in DOMAIN b, cursor'[st].seq = b[k].seq
        PROVE  r.event \in Events(st)'
    <3>1. b[k] \in All(st) /\ b[k].epoch = gw.epoch
      BY <1>b
    <3>2. Item(r) \in All(st) /\ Item(r).epoch = gw.epoch /\ Item(r).seq = r.seq /\ Item(r).event = r.event
      BY <1>t, ItemFacts
    <3>3. r.seq \in Nat /\ b[k].seq \in Nat /\ r.seq <= b[k].seq
      BY <2>2, <3>1, <3>2, <1>t, ItemFacts
    <3>4. CASE r.seq = b[k].seq
      <4>1. Item(r) = b[k]
        BY <3>1, <3>2, <3>4, <1>t, KeyFacts DEF StreamInv
      <4> QED BY <4>1, <3>2, <1>r
    <3>5. CASE r.seq < b[k].seq
      <4>1. r.event < b[k].event
        BY <3>1, <3>2, <3>5, <1>t, KeyFacts DEF StreamInv
      <4>2. r.event \in Events(st) \/ \E j \in DOMAIN b : b[j].event = r.event
        BY <4>1 DEF Applicable, Transits
      <4> QED BY <4>2, <1>r
    <3> QED BY <3>3, <3>4, <3>5
  <2> QED BY <2>1, <2>2, <1>c
<1>6. StreamInv(st)' /\ Items(st)' \subseteq Items(st)
  <2>1. \A a \in rows'[st] : a \in Items(st)
    BY <1>r, <1>b, <1>t, ItemFacts DEF ToSet
  <2>2. \A c \in late' : c.stream = st => c \in late
    OBVIOUS
  <2>3. Events(st) \subseteq Events(st)'
    BY <1>r
  <2> QED BY <2>1, <2>2, <2>3, <1>t, <1>1, <1>2, <1>3, <1>4, <1>5, StoreStep
(* The other stream, whose cursor column may be created.                   *)
<1>7. ASSUME NEW x \in Streams, x # st
      PROVE  StreamInv(x)' /\ Items(x)' \subseteq Items(x)
  <2>0. rows'[x] = rows[x] /\ projected'[x] = projected[x] /\ StreamInv(x)
    BY <1>7, <1>r, <1>t
  <2>1. Events(x)' = Events(x) /\ Copies(x)'
    BY <2>0 DEF StreamInv, Copies, Events
  <2>2. Batches(x)'
    BY <2>0, <1>7 DEF StreamInv, Batches
  <2>3. cursor'[x] = cursor[x] \/ (cursor'[x].seq = 0 /\ cursor'[x].epoch = b[1].epoch)
    <3> SUFFICES ASSUME cursor[x].epoch = 0, cursor[x].seq # 0 PROVE FALSE
      BY <1>7, <1>c
    <3>1. PICK r \in rows[x] : r.epoch = 0
      BY <2>0 DEF StreamInv, CursorIsRow
    <3>2. r \in All(x)
      BY <1>t, ItemFacts
    <3> QED BY <2>0, <3>1, <3>2 DEF StreamInv, InRange
  <2>4. CursorIsRow(x)'
    BY <2>0, <2>3, <1>e, <1>t DEF StreamInv, CursorIsRow
  <2>5. NoHole(x)'
    <3>1. \A r \in gw.log[x] : ~(r.seq <= 0)
      <4>1. \A r \in gw.log[x] : Item(r) \in All(x) /\ Item(r).seq = r.seq /\ r.seq \in Nat
        BY <1>t, ItemFacts, TypeFacts, QueuedFacts
      <4> QED BY <4>1, <2>0 DEF StreamInv, InRange
    <3> QED BY <2>0, <2>1, <2>3, <3>1, <1>t DEF StreamInv, NoHole
  <2>6. \A a \in rows'[x] : a \in Items(x)
    BY <2>0, <1>t, ItemFacts
  <2>7. \A c \in late' : c.stream = x => c \in late
    OBVIOUS
  <2> QED BY <2>0, <2>1, <2>2, <2>4, <2>5, <2>6, <2>7, <1>t, <1>1, StoreStep
<1>8. LineShape' /\ Queues' /\ Asked' /\ Listening'
  BY WorkerControl
<1>9. Faultless' /\ TailIsKnown'
  <2>1. Steady => obs.boot = "done"
    BY <1>b DEF Steady
  <2>2. Steady => Steady'
    <3>1. \A x \in Streams : Got(writer[x])' = Got(writer[x])
      BY DEF Got
    <3> QED BY <2>1, <3>1, <1>t, StreamNames DEF Steady
  <2>3. \A x \in Streams : \A a \in Items(x)' :
           a \in Items(x) /\ writer'[x].epoch = writer[x].epoch /\ writer'[x].received >= writer[x].received
    BY <1>6, <1>7, <1>t, TypeFacts, WriterFacts
  <2> QED BY <2>2, <2>3, <1>1, <1>t, CarryStep
<1> QED BY <1>1, <1>6, <1>7, <1>8, <1>9 DEF IInv

LEMMA CallCommitsStep == ASSUME IInv, NEW st \in Streams, CallCommits(st) PROVE IInv'
<1> DEFINE w == writer[st]
           v == [w EXCEPT !.call = "done"]
<1>0. /\ w.call = "sent" /\ Applied(st, Batch(w)) /\ writer' = [writer EXCEPT ![st] = v]
      /\ UNCHANGED <<line, obs, gateway, late, bounds>>
  BY DEF CallCommits
<1>1. TypeOK /\ StreamInv(st) /\ writer \in [Streams -> Writer] /\ WriterOK(w) /\ w \in Writer
  BY DEF IInv, TypeOK, StreamInv, Batches
<1>2. Applicable(st, Batch(w))
  <2>1. w.busy > 0
    BY <1>0, <1>1 DEF WriterOK
  <2> QED BY <2>1, <1>1, BatchFacts DEF Applicable
<1>3. /\ v \in Writer /\ v.epoch = w.epoch /\ v.received = w.received /\ v.queue = w.queue
      /\ v.busy = w.busy /\ v.call = "done"
  BY <1>1 DEF Writer
<1> HIDE DEF v
<1>4. WriterOK(v)
  BY <1>0, <1>1, <1>3 DEF WriterOK
<1>5. /\ writer' \in [Streams -> Writer] /\ writer'[st] = v
      /\ \A x \in Streams : x # st => writer'[x] = writer[x]
  BY <1>0, <1>1, <1>3
<1>6. \A x \in Streams :
        /\ WriterOK(writer'[x])
        /\ writer'[x].epoch = writer[x].epoch /\ writer'[x].received = writer[x].received
        /\ writer'[x].queue = writer[x].queue
        /\ writer'[x].call = "done" =>
             \/ writer[x].call = "done" /\ writer'[x].busy = writer[x].busy
             \/ x = st /\ Batch(w) = Batch(writer[st]) /\ writer'[x].busy = writer[x].busy
  <2>1. \A x \in Streams : WriterOK(writer[x])
    BY DEF IInv, StreamInv, Batches
  <2> QED BY <2>1, <1>3, <1>4, <1>5
<1> QED BY <1>0, <1>2, <1>5, <1>6, AppliedStep

LEMMA LateCallCommitsStep == ASSUME IInv, LateCallCommits PROVE IInv'
<1>0. UNCHANGED <<line, obs, writer, gateway, bounds>>
  BY DEF LateCallCommits, relay
<1>1. PICK c \in late : Applied(c.stream, c.batch) /\ late' = late \ {c}
  BY DEF LateCallCommits
<1>2. c.stream \in Streams /\ c.batch \in Seq(Queued) /\ StreamInv(c.stream) /\ TypeOK
  BY TypeFacts DEF IInv
<1>3. c.batch \in Waiting(c.stream)
  BY <1>2, AllFacts
<1>4. Applicable(c.stream, c.batch)
  BY <1>2, <1>3, ItemFacts DEF Applicable, StreamInv, InTransit, Batches
<1>5. writer' \in [Streams -> Writer] /\ writer' = writer
  BY <1>0, <1>2 DEF TypeOK
<1>6. \A x \in Streams : WriterOK(writer[x])
  BY DEF IInv, StreamInv, Batches
<1> QED BY <1>0, <1>1, <1>2, <1>4, <1>5, <1>6, AppliedStep

-----------------------------------------------------------------------------
(* The gateway.                                                            *)

LEMMA EventHappensStep == ASSUME IInv, NEW st \in Streams, EventHappens(st) PROVE IInv'
<1> DEFINE n == gw.next[st]
           e == appended[st] + 1
           new == [seq |-> n, event |-> e]
<1>t. TypeOK /\ \A x \in Streams : StreamInv(x)
  BY DEF IInv
<1>0. /\ n # 0 /\ appended' = [appended EXCEPT ![st] = @ + 1]
      /\ gw' = [gw EXCEPT !.log[st] = @ \cup {[seq |-> gw.next[st], event |-> appended'[st]]},
                          !.head[st] = gw.next[st], !.next[st] = @ + 1]
      /\ UNCHANGED <<forgotten, poison, relay, store, late, bounds>>
  BY DEF EventHappens
<1>u. /\ forgotten' = forgotten /\ poison' = poison /\ line' = line /\ obs' = obs /\ writer' = writer
      /\ rows' = rows /\ cursor' = cursor /\ projected' = projected /\ late' = late /\ faults' = faults
      /\ losses' = losses
  BY <1>0 DEF relay, store, bounds
<1>1. /\ appended' \in [Streams -> Nat] /\ appended'[st] = e
      /\ \A x \in Streams : x # st => appended'[x] = appended[x]
  BY <1>0, <1>t DEF TypeOK
<1>2. new \in Record /\ n \in Nat /\ n > 0 /\ e \in Nat /\ appended[st] \in Nat
  BY <1>0, <1>t, TypeFacts DEF Record
<1>3. gw' = [gw EXCEPT !.log[st] = @ \cup {new}, !.head[st] = n, !.next[st] = @ + 1]
  BY <1>0, <1>1
<1> HIDE DEF new
<1>4. /\ gw' \in Gateway /\ gw'.epoch = gw.epoch /\ gw'.log[st] = gw.log[st] \cup {new}
      /\ gw'.head[st] = n /\ gw'.next[st] = n + 1
      /\ \A x \in Streams : x # st =>
           gw'.log[x] = gw.log[x] /\ gw'.head[x] = gw.head[x] /\ gw'.next[x] = gw.next[x]
  <2>1. gw \in Gateway
    BY <1>t DEF TypeOK
  <2> HIDE DEF n, e
  <2>2. n \in Nat /\ gw.next[st] = n /\ n + 1 \in Nat
    BY <1>2 DEF n
  <2> QED BY <1>3, <2>1, <2>2, <1>2 DEF Gateway
<1>5. TypeOK'
  BY <1>1, <1>4, <1>t, <1>u DEF TypeOK
<1>6. ASSUME NEW x \in Streams, x # st PROVE StreamInv(x)' /\ Items(x)' \subseteq Items(x)
  BY <1>1, <1>4, <1>5, <1>6, <1>t, <1>u, StreamStays
<1>7. /\ new.seq = n /\ new.event = e
      /\ Item(new).epoch = gw.epoch /\ Item(new).seq = n /\ Item(new).event = e
  BY <1>4 DEF new, Item
<1>8. /\ \A q : q \in Waiting(st)' <=> q \in Waiting(st)
      /\ \A a : a \in Items(st)' <=> a \in Items(st)
      /\ \A a : a \in All(st)' <=> a \in All(st) \/ a = Item(new)
  <2>1. \A q : q \in Waiting(st)' <=> q \in Waiting(st)
    BY <1>u, AllFacts
  <2>2. \A a : a \in Items(st)' <=> a \in Items(st)
    BY <2>1, <1>u, AllFacts
  <2>3. \A r : Item(r)' = Item(r)
    BY <1>4 DEF Item
  <2> QED BY <2>1, <2>2, <2>3, <1>4, AllFacts
<1>9. /\ \A a \in All(st) : a.epoch \in Nat /\ a.seq \in Nat /\ a.event \in Nat
      /\ \A a \in All(st) : a.epoch <= gw.epoch /\ a.epoch >= 1 /\ a.seq >= 1 /\ a.event >= 1 /\ a.event < e
      /\ \A a \in All(st) : a.epoch = gw.epoch => a.seq < n
      /\ \A r \in gw.log[st] : r.seq \in Nat /\ r.event \in Nat /\ r.seq < n
      /\ gw.head[st] \in Nat /\ gw.head[st] < n /\ gw.epoch \in Nat
  <2>1. \A a \in All(st) : a.epoch \in Nat /\ a.seq \in Nat /\ a.event \in Nat
    BY <1>t, ItemFacts
  <2>2. \A a \in All(st) : a.epoch <= gw.epoch /\ a.epoch >= 1 /\ a.seq >= 1 /\ a.event >= 1 /\ a.event < e
    BY <2>1, <1>2, <1>t, TypeFacts DEF StreamInv, InRange
  <2>3. /\ \A a \in All(st) : a.epoch = gw.epoch => a.seq < n
        /\ gw.head[st] < n
    BY <1>0, <1>t DEF StreamInv, NextIsNew
  <2>4. \A r \in gw.log[st] : r.seq \in Nat /\ r.event \in Nat /\ r.seq < n
    BY <2>3, <1>t, ItemFacts, TypeFacts, QueuedFacts
  <2> QED BY <2>1, <2>2, <2>3, <2>4, <1>t, TypeFacts
<1> HIDE DEF n, e
<1>10. KeysInOrder(st)'
  <2>1. \A a, b \in All(st) : Before(a, b) <=> a.event < b.event
    BY <1>t DEF StreamInv, KeysInOrder
  <2>2. \A a \in All(st) : Before(a, Item(new)) /\ ~Before(Item(new), a)
    BY <1>2, <1>7, <1>9 DEF Before
  <2>3. \A a \in All(st) : a.event < Item(new).event /\ ~(Item(new).event < a.event)
    BY <1>2, <1>7, <1>9
  <2>4. ~Before(Item(new), Item(new)) /\ ~(Item(new).event < Item(new).event)
    BY <1>2, <1>7, <1>9 DEF Before
  <2>5. \A a, b : Before(a, b)' <=> Before(a, b)
    BY DEF Before
  <2>6. \A a, b \in All(st)' : Before(a, b) <=> a.event < b.event
    BY <1>8, <2>1, <2>2, <2>3, <2>4
  <2> QED BY <2>6 DEF KeysInOrder, Before
<1>11. InRange(st)'
  <2>1. Item(new).epoch \in 1..gw.epoch
    <3>1. gw.epoch >= 1
      BY <1>t DEF StreamInv, Log
    <3> QED BY <3>1, <1>7, <1>9
  <2>2. Item(new).seq >= 1 /\ Item(new).event \in 1..e
    BY <1>2, <1>7 DEF e
  <2>3. \A a \in All(st) : a.epoch \in 1..gw.epoch /\ a.seq >= 1 /\ a.event \in 1..e
    BY <1>9, <1>2
  <2> QED BY <1>1, <1>4, <1>8, <2>1, <2>2, <2>3 DEF InRange
<1>12. Log(st)'
  <2>1. \A r \in gw'.log[st] : r.seq <= gw'.head[st]
    BY <1>2, <1>4, <1>7, <1>9
  <2>2. forgotten[st] \subseteq 1..e
    BY <1>2, <1>t DEF StreamInv, Log, e
  <2>3. 1..e \subseteq forgotten[st] \cup {r.event : r \in gw.log[st] \cup {new}}
    <3>1. \A i \in 1..e : i \in 1..appended[st] \/ i = e
      BY <1>2 DEF e
    <3>2. 1..appended[st] \subseteq forgotten[st] \cup {r.event : r \in gw.log[st]}
      BY <1>t DEF StreamInv, Log
    <3>3. {r.event : r \in gw.log[st] \cup {new}} = {r.event : r \in gw.log[st]} \cup {e}
      BY <1>7
    <3> QED BY <3>1, <3>2, <3>3
  <2> QED BY <2>1, <2>2, <2>3, <1>1, <1>4, <1>t, <1>u DEF StreamInv, Log
<1>13. NextIsNew(st)'
  <2>1. \A a \in All(st)' : a.epoch = gw.epoch => a.seq < n + 1
    BY <1>2, <1>7, <1>8, <1>9
  <2>2. writer[st].epoch = gw.epoch => writer[st].received < n
    BY <1>0, <1>t DEF StreamInv, NextIsNew, n
  <2>3. writer[st].received \in Int
    BY <1>t, TypeFacts, WriterFacts
  <2> QED BY <2>1, <2>2, <2>3, <1>2, <1>4, <1>u DEF NextIsNew
<1>14. Copies(st)' /\ Batches(st)' /\ CursorIsRow(st)' /\ Events(st)' = Events(st)
  BY <1>4, <1>t, <1>u DEF StreamInv, Copies, Batches, CursorIsRow, Events
<1>15. InTransit(st)'
  <2> SUFFICES ASSUME NEW q \in Waiting(st) PROVE Transits(st, q)'
    BY <1>8 DEF InTransit
  <2>1. Transits(st, q)
    BY <1>t DEF StreamInv, InTransit
  <2>2. \A i \in DOMAIN q : ~(e < q[i].event)
    <3>1. \A i \in DOMAIN q : q[i] \in All(st)
      BY <1>t, ItemFacts
    <3> QED BY <3>1, <1>2, <1>9
  <2> QED BY <2>1, <2>2, <1>4, <1>7, <1>14 DEF Transits
<1>16. Trails(st)'
  <2>1. \A i \in DOMAIN writer[st].queue : writer[st].queue[i].epoch = gw.epoch => writer[st].queue[i].seq < n
    BY <1>t, <1>9, ItemFacts
  <2> QED BY <2>1, <1>4, <1>7, <1>t, <1>u DEF StreamInv, Trails
<1>17. NoHole(st)'
  <2>1. cursor[st].epoch = gw.epoch => ~(n <= cursor[st].seq)
    <3>1. cursor[st].seq # 0 => \E r \in rows[st] : r.epoch = cursor[st].epoch /\ r.seq = cursor[st].seq
      BY <1>t DEF StreamInv, CursorIsRow
    <3>2. \A r \in rows[st] : r.epoch = gw.epoch => ~(n <= r.seq)
      BY <1>2, <1>9, <1>t, ItemFacts
    <3> QED BY <3>1, <3>2, <1>2, <1>9
  <2> QED BY <2>1, <1>4, <1>7, <1>14, <1>t, <1>u DEF StreamInv, NoHole
<1>18. Kept(st)'
  <2>1. writer[st].epoch = gw.epoch => ~(n <= writer[st].received)
    <3>1. writer[st].epoch = gw.epoch => writer[st].received < n
      BY <1>0, <1>t DEF StreamInv, NextIsNew, n
    <3> QED BY <3>1, <1>2, <1>t, TypeFacts, WriterFacts
  <2> QED BY <2>1, <1>4, <1>7, <1>14, <1>t, <1>u DEF StreamInv, Kept
<1>19. StreamInv(st)'
  BY <1>10, <1>11, <1>12, <1>13, <1>14, <1>15, <1>16, <1>17, <1>18 DEF StreamInv
<1>20. \A x \in Streams : Got(writer[x])' = Got(writer[x])
  BY <1>u DEF Got
<1>21. LineShape' /\ Queues' /\ Asked'
  BY <1>4, <1>20, <1>u, StreamNames DEF IInv, LineShape, Queues, Asked, LoggedOn, Unpaused
<1>22. Listening'
  <2> SUFFICES ASSUME LoggedOn, NEW x \in Streams, Unpaused(x)
               PROVE  /\ line.sent[x] <= Got(writer[x])
                      /\ line.head[x] <= gw'.head[x]
                      /\ ~obs.pending[x] =>
                           \A r \in gw'.log[x] : r.seq <= line.head[x] => r.seq <= writer[x].received
    BY <1>u DEF Listening, LoggedOn, Unpaused, Got
  <2>1. /\ line.sent[x] <= Got(writer[x]) /\ line.head[x] <= gw.head[x]
        /\ ~obs.pending[x] => \A r \in gw.log[x] : r.seq <= line.head[x] => r.seq <= writer[x].received
    BY DEF IInv, Listening
  <2>2. CASE x # st
    BY <2>1, <2>2, <1>4
  <2>3. CASE x = st
    <3>1. line.head[st] \in Nat /\ line.head[st] < n
      BY <2>1, <2>3, <1>2, <1>9, <1>t, TypeFacts
    <3> QED BY <2>1, <2>3, <3>1, <1>2, <1>4, <1>7
  <2> QED BY <2>2, <2>3
<1>23. \A x \in Streams : Items(x)' \subseteq Items(x)
  BY <1>6, <1>8
<1>24. Steady => Steady'
  BY <1>20, <1>23, <1>u DEF Steady
<1>25. ASSUME NEW x \in Streams, NEW k \in Nat, NEW m \in Nat, k <= m, Unbroken(x, k)
       PROVE  Steady' /\ \A a \in Items(x)' : a.epoch = gw.epoch =>
                writer[x].epoch = gw.epoch /\ (a.seq <= writer[x].received \/ a.seq < m)
  BY <1>23, <1>24, <1>25, <1>t, ItemFacts DEF Unbroken
<1>26. \A x \in Streams : gw.head[x] \in Nat /\ gw'.head[x] \in Nat /\ gw.head[x] <= gw'.head[x]
  BY <1>2, <1>4, <1>9, <1>t, TypeFacts
<1>27. Faultless'
  <2> SUFFICES ASSUME faults = 0, NEW x \in Streams
               PROVE  Steady' /\ \A a \in Items(x)' : a.epoch = gw.epoch =>
                        writer[x].epoch = gw.epoch /\ (a.seq <= writer[x].received \/ a.seq < gw'.head[x])
    BY <1>4, <1>u DEF Faultless, Unbroken
  <2>1. Unbroken(x, gw.head[x])
    BY DEF IInv, Faultless
  <2> QED BY <2>1, <1>25, <1>26
<1>28. TailIsKnown'
  <2> SUFFICES ASSUME NEW x \in Streams, gw'.next[x] = 0
               PROVE  /\ faults = MaxFaults /\ MaxFaults > 0 /\ Steady'
                      /\ \A a \in Items(x)' : a.epoch = gw.epoch =>
                           writer[x].epoch = gw.epoch /\ (a.seq <= writer[x].received \/ a.seq < gw'.head[x] + 1)
    BY <1>4, <1>u DEF TailIsKnown, Unbroken
  <2>1. x # st /\ gw.next[x] = 0 /\ gw'.head[x] = gw.head[x]
    BY <1>2, <1>4
  <2>2. faults = MaxFaults /\ MaxFaults > 0 /\ Unbroken(x, gw.head[x] + 1)
    BY <2>1 DEF IInv, TailIsKnown
  <2>3. gw.head[x] + 1 \in Nat /\ gw.head[x] + 1 <= gw.head[x] + 1
    BY <1>26
  <2> QED BY <2>1, <2>2, <2>3, <1>25
<1> QED BY <1>5, <1>6, <1>19, <1>21, <1>22, <1>27, <1>28 DEF IInv

(* The gateway keeps less.                                                 *)
LEMMA LogShrinks ==
  ASSUME TypeOK, TypeOK', NEW st \in Streams, StreamInv(st),
         gw'.epoch = gw.epoch, gw'.log[st] \subseteq gw.log[st], Log(st)',
         gw'.next[st] = 0 \/ (gw'.next[st] = gw.next[st] /\ gw'.head[st] = gw.head[st]),
         UNCHANGED <<appended, writer, store, late>>
  PROVE  StreamInv(st)' /\ Items(st)' \subseteq Items(st)
<1>u. /\ writer' = writer /\ rows' = rows /\ cursor' = cursor /\ projected' = projected /\ late' = late
      /\ appended' = appended /\ \A r : Item(r)' = Item(r)
  BY DEF store, Item
<1>1. /\ \A q : q \in Waiting(st)' <=> q \in Waiting(st)
      /\ Items(st)' \subseteq Items(st) /\ All(st)' \subseteq All(st)
  <2>1. \A q : q \in Waiting(st)' <=> q \in Waiting(st)
    BY <1>u, AllFacts
  <2>2. \A a : a \in Items(st)' <=> a \in Items(st)
    BY <2>1, <1>u, AllFacts
  <2> QED BY <2>1, <2>2, <1>u, AllFacts
<1>2. KeysInOrder(st)' /\ InRange(st)'
  BY <1>1, <1>u, NarrowStep, TypeFacts DEF StreamInv
<1>3. NextIsNew(st)'
  BY <1>1, <1>u DEF StreamInv, NextIsNew
<1>4. Copies(st)' /\ Batches(st)' /\ CursorIsRow(st)'
  BY <1>u DEF StreamInv, Copies, Batches, CursorIsRow, Events
<1>5. InTransit(st)'
  <2>1. \A q : Transits(st, q) => Transits(st, q)'
    BY <1>u DEF Transits, Events
  <2> QED BY <2>1, <1>1 DEF StreamInv, InTransit
<1>6. Trails(st)'
  BY <1>u DEF StreamInv, Trails
<1>7. NoHole(st)' /\ Kept(st)'
  BY <1>u DEF StreamInv, NoHole, Kept, Events
<1> QED BY <1>1, <1>2, <1>3, <1>4, <1>5, <1>6, <1>7 DEF StreamInv

LEMMA RetentionDropsStep == ASSUME IInv, NEW st \in Streams, RetentionDrops(st) PROVE IInv'
<1>t. TypeOK /\ \A x \in Streams : StreamInv(x)
  BY DEF IInv
<1>0. Loss /\ UNCHANGED <<appended, poison, relay, store, late>>
  BY DEF RetentionDrops
<1>1. PICK cut \in Retained(st) :
        LET dropped == {r \in gw.log[st] : r.seq <= cut}
        IN /\ gw' = [gw EXCEPT !.log[st] = @ \ dropped]
           /\ Forgets(st, dropped)
  BY DEF RetentionDrops
<1> DEFINE dropped == {r \in gw.log[st] : r.seq <= cut}
           kept == gw.log[st] \ dropped
           gone == forgotten[st] \cup {r.event : r \in dropped}
<1>u. /\ appended' = appended /\ poison' = poison /\ line' = line /\ obs' = obs /\ writer' = writer
      /\ rows' = rows /\ cursor' = cursor /\ projected' = projected /\ late' = late /\ faults' = faults
      /\ losses' \in Nat
  BY <1>0, <1>t, TypeFacts DEF relay, store, Loss
<1>d. /\ dropped \subseteq gw.log[st] /\ kept \subseteq gw.log[st] /\ kept \cup dropped = gw.log[st]
      /\ gone \in SUBSET Nat /\ gone \subseteq 1..appended[st]
      /\ 1..appended[st] \subseteq gone \cup {r.event : r \in kept}
  <2>1. dropped \subseteq gw.log[st] /\ kept \subseteq gw.log[st] /\ kept \cup dropped = gw.log[st]
    OBVIOUS
  <2> HIDE DEF dropped, kept
  <2>2. \A r \in gw.log[st] : r.event \in 1..appended[st]
    BY <1>t, ItemFacts DEF StreamInv, InRange
  <2>3. forgotten[st] \subseteq 1..appended[st]
        /\ 1..appended[st] \subseteq forgotten[st] \cup {r.event : r \in gw.log[st]}
    BY <1>t DEF StreamInv, Log
  <2>4. gone \subseteq 1..appended[st]
    BY <2>1, <2>2, <2>3
  <2>5. {r.event : r \in gw.log[st]} = {r.event : r \in dropped} \cup {r.event : r \in kept}
    BY <2>1
  <2> QED BY <2>1, <2>3, <2>4, <2>5
<1>2. gw' = [gw EXCEPT !.log[st] = kept] /\ forgotten' = [forgotten EXCEPT ![st] = gone]
  BY <1>1 DEF Forgets
<1> HIDE DEF dropped, kept, gone
<1>3. /\ gw' \in Gateway /\ gw'.epoch = gw.epoch /\ gw'.log[st] = kept /\ gw'.head = gw.head /\ gw'.next = gw.next
      /\ \A x \in Streams : x # st => gw'.log[x] = gw.log[x]
  <2>1. gw \in Gateway /\ kept \in SUBSET Record
    BY <1>t, <1>d, TypeFacts DEF TypeOK
  <2> QED BY <2>1, <1>2 DEF Gateway
<1>4. /\ forgotten' \in [Streams -> SUBSET Nat] /\ forgotten'[st] = gone
      /\ \A x \in Streams : x # st => forgotten'[x] = forgotten[x]
  BY <1>2, <1>d, <1>t DEF TypeOK
<1>5. TypeOK'
  BY <1>3, <1>4, <1>t, <1>u DEF TypeOK
<1>6. Log(st)'
  BY <1>3, <1>4, <1>d, <1>t, <1>u DEF StreamInv, Log
<1>7. StreamInv(st)' /\ Items(st)' \subseteq Items(st)
  BY <1>3, <1>5, <1>6, <1>d, <1>t, <1>u, <1>0, LogShrinks
<1>8. ASSUME NEW x \in Streams, x # st PROVE StreamInv(x)' /\ Items(x)' \subseteq Items(x)
  BY <1>3, <1>4, <1>5, <1>8, <1>t, <1>u, StreamStays
<1>9. \A x \in Streams : gw'.log[x] \subseteq gw.log[x]
  BY <1>3, <1>d
<1>10. \A x \in Streams : Got(writer[x])' = Got(writer[x])
  BY <1>u DEF Got
<1>11. LineShape' /\ Queues' /\ Asked'
  BY <1>3, <1>10, <1>u, StreamNames DEF IInv, LineShape, Queues, Asked, LoggedOn, Unpaused
<1>12. Listening'
  BY <1>3, <1>9, <1>10, <1>u DEF IInv, Listening, LoggedOn, Unpaused
<1>13. Faultless' /\ TailIsKnown'
  <2>1. \A x \in Streams : Items(x)' \subseteq Items(x)
    BY <1>7, <1>8
  <2>2. Steady => Steady'
    BY <2>1, <1>10, <1>u DEF Steady
  <2>3. \A x \in Streams : \A a \in Items(x)' :
           a \in Items(x) /\ writer'[x].epoch = writer[x].epoch /\ writer'[x].received >= writer[x].received
    BY <2>1, <1>u, <1>t, TypeFacts, WriterFacts
  <2> QED BY <2>2, <2>3, <1>3, <1>5, <1>u, CarryStep
<1> QED BY <1>5, <1>7, <1>8, <1>11, <1>12, <1>13 DEF IInv

(* The observer drops a line that was up.                                  *)
LEMMA MaybeDropped ==
  ASSUME IInv, IF line.up THEN Dropped ELSE UNCHANGED <<line, obs>>,
         \A x \in Streams : writer'[x] = writer[x]
  PROVE  /\ LineShape' /\ Queues' /\ Asked' /\ Listening' /\ line' \in Line /\ obs' \in Observer
         /\ ~line'.asked /\ obs'.boot = obs.boot /\ obs'.cursorReady = obs.cursorReady
<1>t. TypeOK /\ LineShape /\ Queues /\ line \in Line /\ obs \in Observer
  BY DEF IInv, TypeOK
<1>1. CASE line.up
  <2>1. /\ LineShape' /\ Asked' /\ Listening' /\ line' \in Line /\ obs' \in Observer
        /\ ~line'.asked /\ obs'.boot = obs.boot /\ obs'.cursorReady = obs.cursorReady
    BY <1>1, <1>t, DroppedStep
  <2>2. Queues'
    BY <2>1, <1>t, StreamNames DEF Queues
  <2> QED BY <2>1, <2>2
<1>2. CASE ~line.up
  <2>1. line' = line /\ obs' = obs /\ ~line.asked /\ ~LoggedOn
    BY <1>2, <1>t DEF LineShape, LoggedOn
  <2>2. LineShape'
    BY <2>1, <1>t DEF LineShape, LoggedOn
  <2>3. Queues'
    BY <2>1, <1>t, StreamNames DEF Queues
  <2> QED BY <2>1, <2>2, <2>3, <1>t DEF Asked, Listening, LoggedOn
<1> QED BY <1>1, <1>2

LEMMA StoreResetStep == ASSUME IInv, StoreReset PROVE IInv'
<1>t. TypeOK /\ \A x \in Streams : StreamInv(x)
  BY DEF IInv
<1>0. /\ losses' \in Nat /\ faults' = faults
      /\ gw' = [epoch |-> gw.epoch + 1, log |-> [st \in Streams |-> {}], head |-> Zero,
                next |-> [st \in Streams |-> 1]]
      /\ forgotten' = [st \in Streams |-> forgotten[st] \cup {r.event : r \in gw.log[st]}]
      /\ (IF line.up THEN Dropped ELSE UNCHANGED <<line, obs>>)
      /\ appended' = appended /\ poison' = poison /\ writer' = writer /\ late' = late
      /\ rows' = rows /\ cursor' = cursor /\ projected' = projected
  BY <1>t, TypeFacts DEF StoreReset, Loss, store
<1>1. /\ gw' \in Gateway /\ gw'.epoch = gw.epoch + 1
      /\ \A x \in Streams : gw'.log[x] = {} /\ gw'.head[x] = 0 /\ gw'.next[x] = 1
  BY <1>0, <1>t, TypeFacts, ZeroFacts DEF Gateway
<1>2. /\ LineShape' /\ Queues' /\ Asked' /\ Listening' /\ line' \in Line /\ obs' \in Observer
      /\ ~line'.asked /\ obs'.boot = obs.boot /\ obs'.cursorReady = obs.cursorReady
  BY <1>0, MaybeDropped
<1>3. forgotten' \in [Streams -> SUBSET Nat]
  <2>1. \A x \in Streams : {r.event : r \in gw.log[x]} \subseteq Nat /\ forgotten[x] \subseteq Nat
    BY <1>t, TypeFacts, QueuedFacts
  <2> QED BY <2>1, <1>0
<1>4. TypeOK'
  BY <1>0, <1>1, <1>2, <1>3, <1>t DEF TypeOK
<1>5. ASSUME NEW st \in Streams PROVE StreamInv(st)' /\ Items(st)' \subseteq Items(st)
  <2>1. /\ \A q : q \in Waiting(st)' <=> q \in Waiting(st)
        /\ Items(st)' \subseteq Items(st) /\ All(st)' \subseteq All(st) /\ All(st)' \subseteq Items(st)
    <3>1. \A q : q \in Waiting(st)' <=> q \in Waiting(st)
      BY <1>0, AllFacts
    <3>2. \A a : a \in Items(st)' <=> a \in Items(st)
      BY <3>1, <1>0, AllFacts
    <3> QED BY <3>1, <3>2, <1>1, AllFacts
  <2>2. gw.epoch \in Nat /\ gw.epoch >= 1 /\ StreamInv(st)
    BY <1>t, TypeFacts DEF StreamInv, Log
  <2>3. \A a \in All(st) : a.epoch # gw.epoch + 1
    BY <2>2 DEF StreamInv, InRange
  <2>4. KeysInOrder(st)' /\ InRange(st)'
    <3>1. gw'.epoch \in Nat /\ gw'.epoch >= gw.epoch /\ appended'[st] = appended[st]
      BY <2>2, <1>0, <1>1
    <3>2. KeysInOrder(st) /\ InRange(st)
      BY <2>2 DEF StreamInv
    <3> QED BY <3>1, <3>2, <2>1, <1>t, NarrowStep, TypeFacts
  <2>5. Log(st)'
    <3>1. \A r \in gw.log[st] : r.event \in 1..appended[st]
      BY <2>2, <1>t, ItemFacts DEF StreamInv, InRange
    <3>2. forgotten'[st] = forgotten[st] \cup {r.event : r \in gw.log[st]}
      BY <1>0
    <3> QED BY <2>2, <3>1, <3>2, <1>0, <1>1 DEF StreamInv, Log
  <2>6. writer[st].epoch # gw.epoch + 1 /\ cursor[st].epoch # gw.epoch + 1
        /\ cursor[st].epoch <= gw.epoch + 1 /\ writer[st].epoch <= gw.epoch + 1
    BY <2>2, <1>t, TypeFacts, WriterFacts DEF StreamInv, CursorIsRow
  <2>7. NextIsNew(st)'
    BY <2>1, <2>3, <2>6, <1>0, <1>1 DEF NextIsNew
  <2>8. Copies(st)' /\ Batches(st)'
    BY <2>2, <1>0 DEF StreamInv, Copies, Batches, Events
  <2>9. CursorIsRow(st)'
    BY <2>2, <2>6, <1>0, <1>1 DEF StreamInv, CursorIsRow
  <2>10. InTransit(st)'
    <3>1. \A q \in Waiting(st) : \A i, j \in DOMAIN q : i < j => q[i].event < q[j].event
      BY <2>2 DEF StreamInv, InTransit, Transits
    <3> QED BY <2>1, <3>1, <1>1 DEF InTransit, Transits
  <2>11. Trails(st)'
    BY <2>3, <1>0, <1>1, <1>t, ItemFacts DEF Trails
  <2>12. NoHole(st)' /\ Kept(st)'
    BY <1>1 DEF NoHole, Kept
  <2> QED BY <2>1, <2>4, <2>5, <2>7, <2>8, <2>9, <2>10, <2>11, <2>12 DEF StreamInv
<1>6. Steady => Steady'
  BY <1>0, <1>2, <1>5 DEF Steady
<1>7. \A x \in Streams : \A a \in Items(x)' : a.epoch # gw.epoch + 1
  <2>1. ASSUME NEW x \in Streams, NEW a \in Items(x)' PROVE a.epoch # gw.epoch + 1
    <3>1. a \in All(x)
      BY <1>5, <1>t, ItemFacts
    <3> QED BY <3>1, <1>t, TypeFacts DEF StreamInv, InRange
  <2> QED BY <2>1
<1>8. Faultless'
  <2> SUFFICES ASSUME faults = 0, NEW x \in Streams PROVE Unbroken(x, gw.head[x])'
    BY <1>0 DEF Faultless
  <2>1. Steady
    BY DEF IInv, Faultless, Unbroken
  <2> QED BY <2>1, <1>1, <1>6, <1>7 DEF Unbroken
<1>9. TailIsKnown'
  BY <1>1 DEF TailIsKnown
<1> QED BY <1>2, <1>4, <1>5, <1>8, <1>9 DEF IInv

LEMMA TailLostStep == ASSUME IInv, NEW st \in Streams, TailLost(st) PROVE IInv'
<1>t. TypeOK /\ \A x \in Streams : StreamInv(x)
  BY DEF IInv
<1>0. /\ faults = 0 /\ MaxFaults > 0 /\ faults' = MaxFaults /\ losses' = losses
      /\ (IF line.up THEN Dropped ELSE UNCHANGED <<line, obs>>)
      /\ UNCHANGED <<appended, poison, writer, store, late>>
  BY DEF TailLost
<1>u. /\ appended' = appended /\ poison' = poison /\ writer' = writer /\ late' = late
      /\ rows' = rows /\ cursor' = cursor /\ projected' = projected
  BY <1>0 DEF store
<1>1. PICK r \in gw.log[st] :
        /\ r.seq = gw.head[st]
        /\ gw' = [gw EXCEPT !.log[st] = @ \ {r}, !.head[st] = @ - 1, !.next[st] = 0]
        /\ Forgets(st, {r})
  BY DEF TailLost
<1> DEFINE kept == gw.log[st] \ {r}
           gone == forgotten[st] \cup {r.event}
<1>2. forgotten' = [forgotten EXCEPT ![st] = gone]
  <2>1. {s.event : s \in {r}} = {r.event}
    OBVIOUS
  <2> QED BY <1>1, <2>1 DEF Forgets
<1>3. /\ r \in Record /\ r.seq \in Nat /\ r.seq >= 1 /\ r.event \in 1..appended[st]
      /\ \A s \in gw.log[st] : s.seq \in Nat /\ s.seq <= gw.head[st] /\ (s.seq = r.seq => s = r)
      /\ gw.head[st] \in Nat
  <2>1. /\ Item(r) \in All(st) /\ Item(r).seq = r.seq /\ Item(r).event = r.event
    BY <1>t, ItemFacts
  <2>2. r.seq >= 1 /\ r.event \in 1..appended[st]
    BY <2>1, <1>t DEF StreamInv, InRange
  <2>3. \A s \in gw.log[st] : s.seq = r.seq => s = r
    BY <1>t, KeyFacts DEF StreamInv
  <2> QED BY <2>2, <2>3, <1>t, TypeFacts, QueuedFacts DEF StreamInv, Log
<1>d. /\ kept \in SUBSET Record /\ kept \subseteq gw.log[st]
      /\ gone \in SUBSET Nat /\ gone \subseteq 1..appended[st]
      /\ 1..appended[st] \subseteq gone \cup {s.event : s \in kept}
      /\ \A s \in kept : s.seq <= gw.head[st] - 1
  <2>1. kept \in SUBSET Record /\ kept \subseteq gw.log[st]
    BY <1>t, TypeFacts
  <2>2. gone \in SUBSET Nat /\ gone \subseteq 1..appended[st]
    BY <1>3, <1>t, TypeFacts DEF StreamInv, Log
  <2>3. \A e \in 1..appended[st] : e \in forgotten[st] \/ \E s \in gw.log[st] : s.event = e
    BY <1>t DEF StreamInv, Log
  <2>4. \A s \in kept : s.seq <= gw.head[st] - 1
    BY <1>1, <1>3
  <2> QED BY <2>1, <2>2, <2>3, <2>4
<1> HIDE DEF kept, gone
<1>4. /\ gw' \in Gateway /\ gw'.epoch = gw.epoch /\ gw'.log[st] = kept /\ gw'.head[st] = gw.head[st] - 1
      /\ gw'.next[st] = 0
      /\ \A x \in Streams : x # st =>
           gw'.log[x] = gw.log[x] /\ gw'.head[x] = gw.head[x] /\ gw'.next[x] = gw.next[x]
  <2>1. gw \in Gateway /\ gw.head[st] - 1 \in Nat
    BY <1>1, <1>3, <1>t DEF TypeOK
  <2>2. gw' = [gw EXCEPT !.log[st] = kept, !.head[st] = @ - 1, !.next[st] = 0]
    BY <1>1 DEF kept
  <2> QED BY <2>1, <2>2, <1>d DEF Gateway
<1>5. /\ forgotten' \in [Streams -> SUBSET Nat] /\ forgotten'[st] = gone
      /\ \A x \in Streams : x # st => forgotten'[x] = forgotten[x]
  BY <1>2, <1>d, <1>t DEF TypeOK
<1>6. /\ LineShape' /\ Queues' /\ Asked' /\ Listening' /\ line' \in Line /\ obs' \in Observer
      /\ ~line'.asked /\ obs'.boot = obs.boot /\ obs'.cursorReady = obs.cursorReady
  BY <1>0, <1>u, MaybeDropped
<1>7. TypeOK'
  BY <1>0, <1>4, <1>5, <1>6, <1>t, <1>u, FeedAssumption DEF TypeOK
<1>8. Log(st)'
  BY <1>4, <1>5, <1>d, <1>t, <1>u DEF StreamInv, Log
<1>9. StreamInv(st)' /\ Items(st)' \subseteq Items(st)
  BY <1>0, <1>4, <1>7, <1>8, <1>d, <1>t, LogShrinks
<1>10. ASSUME NEW x \in Streams, x # st PROVE StreamInv(x)' /\ Items(x)' \subseteq Items(x)
  BY <1>4, <1>5, <1>7, <1>10, <1>t, <1>u, StreamStays
<1>11. Faultless'
  BY <1>0 DEF Faultless
<1>12. TailIsKnown'
  <2>1. \A x \in Streams : Unbroken(x, gw.head[x])
    BY <1>0 DEF IInv, Faultless
  <2>2. Steady'
    BY <2>1, <1>6, <1>9, <1>10, <1>u DEF Unbroken, Steady
  <2>3. \A x \in Streams : x # st => gw'.next[x] # 0
    BY <1>0, <1>4 DEF IInv, TailIsKnown
  <2>4. gw.head[st] - 1 + 1 = gw.head[st]
    BY <1>3
  <2>5. Unbroken(st, gw.head[st] + 1)'
    <3>1. \A a \in Items(st)' : a.epoch = gw.epoch =>
            writer[st].epoch = gw.epoch /\ (a.seq <= writer[st].received \/ a.seq < gw.head[st])
      BY <2>1, <1>9 DEF Unbroken
    <3> QED BY <2>2, <2>4, <3>1, <1>4, <1>u DEF Unbroken
  <2> QED BY <2>3, <2>5, <1>0 DEF TailIsKnown
<1> QED BY <1>6, <1>7, <1>9, <1>10, <1>11, <1>12 DEF IInv

-----------------------------------------------------------------------------
(* The login.                                                              *)

(* beginEpoch leaves the queue alone: either nothing changes, or nothing   *)
(* counts as received in the epoch of the answer.                          *)
LEMMA BeginEpochFacts ==
  ASSUME NEW w, WriterOK(w), NEW epoch \in Nat, NEW resync, NEW head \in Nat,
         NEW v, v = BeginEpoch(w, epoch, resync, head)
  PROVE  /\ WriterOK(v) /\ v.epoch = epoch
         /\ v.queue = w.queue /\ v.busy = w.busy /\ v.call = w.call
         /\ v = w \/ v.received = Null
         /\ epoch = w.epoch /\ (~resync \/ (w.received # Null /\ head < w.received)) => v = w
         /\ epoch = w.epoch /\ resync /\ ~(w.received # Null /\ head < w.received) => v.received = Null
         /\ epoch # w.epoch => v.received = Null
<1>1. w \in Writer
  BY DEF WriterOK
<1> DEFINE r == [w EXCEPT !.epoch = epoch, !.received = Null]
<1>2. /\ r \in Writer /\ r.epoch = epoch /\ r.received = Null
      /\ r.queue = w.queue /\ r.busy = w.busy /\ r.call = w.call
  BY <1>1 DEF Writer
<1>3. WriterOK(r)
  BY <1>2 DEF WriterOK
<1> HIDE DEF r
<1> QED BY <1>2, <1>3 DEF BeginEpoch, r

LEMMA OldestFacts ==
  ASSUME TypeOK, NEW st \in Streams, InRange(st)
  PROVE  /\ Oldest(st) \in Nat
         /\ \A r \in gw.log[st] : Retained(st) # {} /\ Oldest(st) <= r.seq /\ Oldest(st) # 0
<1>1. Retained(st) \in SUBSET Nat
  BY TypeFacts, QueuedFacts DEF Retained
<1>2. \A n \in Retained(st) : n # 0
  <2>1. \A r \in gw.log[st] : r.seq >= 1 /\ r.seq \in Nat
    BY ItemFacts, TypeFacts, QueuedFacts DEF InRange
  <2> QED BY <2>1 DEF Retained
<1>3. CASE Retained(st) = {}
  BY <1>3 DEF Oldest, Retained
<1>4. CASE Retained(st) # {}
  <2>1. Oldest(st) \in Retained(st) /\ \A n \in Retained(st) : Oldest(st) <= n
    BY <1>1, <1>4, MinIsLeast DEF Oldest
  <2>2. \A r \in gw.log[st] : r.seq \in Retained(st)
    BY DEF Retained
  <2> QED BY <1>1, <1>2, <1>4, <2>1, <2>2
<1> QED BY <1>3, <1>4

LEMMA SettledFacts ==
  ASSUME NEW o \in Observer, Settled(o)
  PROVE  /\ obs' \in Observer /\ obs'.state \in {"replaying", "live"}
         /\ obs'.boot = o.boot /\ obs'.cursorReady = o.cursorReady /\ obs'.paused = o.paused
         /\ obs'.pending = o.pending
         /\ obs'.state = "live" => \A st \in Streams : ~o.pending[st]
<1>1. CASE \E st \in Streams : o.pending[st]
  BY <1>1 DEF Settled, Observer
<1>2. CASE ~\E st \in Streams : o.pending[st]
  BY <1>2 DEF Settled, Observer
<1> QED BY <1>1, <1>2

(* What the answer does to one stream.                                     *)
LEMMA AnswerFacts ==
  ASSUME IInv, LoginAnswered, NEW st \in Streams
  PROVE  /\ WriterOK(writer'[st]) /\ writer'[st].queue = writer[st].queue
         /\ writer'[st].busy = writer[st].busy /\ writer'[st].call = writer[st].call
         /\ writer'[st] = writer[st] \/ writer'[st].received = Null
         /\ Active(st) => writer'[st].epoch = gw.epoch
         /\ ~Active(st) => writer'[st] = writer[st] /\ writer[st].queue = <<>> /\ st = "strategy"
         /\ \/ writer'[st] = writer[st]
            \/ writer[st].received = Null
            \/ writer[st].epoch # gw.epoch
            \/ Resync(st) /\ writer[st].received <= gw.head[st]
         /\ Active(st) /\ writer[st].epoch = gw.epoch /\ ~Resync(st) => writer'[st] = writer[st]
<1>t. TypeOK /\ StreamInv(st) /\ Queues
  BY DEF IInv
<1>1. /\ writer[st].received \in Int /\ gw.head[st] \in Nat /\ gw.epoch \in Nat /\ Resync(st) \in BOOLEAN
      /\ WriterOK(writer[st])
  BY <1>t, TypeFacts, WriterFacts DEF Resync, StreamInv, Batches
<1>2. writer'[st] = IF Active(st) THEN BeginEpoch(writer[st], gw.epoch, Resync(st), gw.head[st]) ELSE writer[st]
  BY DEF LoginAnswered
<1>3. CASE Active(st)
  <2>1. writer'[st] = BeginEpoch(writer[st], gw.epoch, Resync(st), gw.head[st])
    BY <1>2, <1>3
  <2>2. /\ WriterOK(writer'[st]) /\ writer'[st].epoch = gw.epoch
        /\ writer'[st].queue = writer[st].queue /\ writer'[st].busy = writer[st].busy
        /\ writer'[st].call = writer[st].call
        /\ writer'[st] = writer[st] \/ writer'[st].received = Null
        /\ gw.epoch = writer[st].epoch
           /\ (~Resync(st) \/ (writer[st].received # Null /\ gw.head[st] < writer[st].received))
             => writer'[st] = writer[st]
    BY ONLY <1>1, <2>1, BeginEpochFacts
  <2> QED BY ONLY <1>1, <1>3, <2>1, <2>2
<1>4. CASE ~Active(st)
  BY <1>1, <1>2, <1>4, <1>t, StreamNames DEF Active, Queues
<1> QED BY <1>3, <1>4

(* Where the login asked from what was received, and the relay is told to  *)
(* forget that, everything the gateway keeps is newer and so is the head.  *)
LEMMA ForgottenFacts ==
  ASSUME IInv, LoginAnswered, NEW st \in Streams, writer'[st] # writer[st],
         writer[st].epoch = gw.epoch, writer[st].received # Null,
         line.epoch = gw.epoch, line.since[st] = Got(writer[st])
  PROVE  /\ writer[st].received < gw.head[st]
         /\ \A r \in gw.log[st] : writer[st].received < r.seq
<1>t. TypeOK /\ InRange(st)
  BY DEF IInv, StreamInv
<1>1. Resync(st) /\ writer[st].received <= gw.head[st]
  BY AnswerFacts
<1>2. /\ writer[st].received \in Nat /\ line.since[st] = writer[st].received /\ gw.head[st] \in Nat
  BY <1>t, TypeFacts, WriterFacts DEF Got
<1>3. line.since[st] < gw.head[st] /\ (Retained(st) = {} \/ line.since[st] + 1 < Oldest(st))
  BY <1>1, <1>2 DEF Resync
<1>4. \A r \in gw.log[st] : r.seq \in Nat /\ Retained(st) # {} /\ Oldest(st) <= r.seq /\ Oldest(st) \in Nat
  BY <1>t, OldestFacts, TypeFacts, QueuedFacts
<1> QED BY <1>2, <1>3, <1>4

LEMMA AskedFacts ==
  ASSUME IInv, line.asked, NEW st \in Streams
  PROVE  /\ writer[st].queue # <<>> => line.epoch = writer[st].epoch /\ line.since[st] = Got(writer[st])
         /\ line.since[st] = 0 \/ (line.epoch = writer[st].epoch /\ line.since[st] = Got(writer[st]))
         /\ Steady => /\ line.epoch = writer[st].epoch /\ line.since[st] = Got(writer[st])
                      /\ Active(st)
         /\ obs.state = "logging_in" /\ obs.boot = "done" /\ line.up
<1>1. line.epoch = writer["order"].epoch /\ Asked /\ LineShape
  BY DEF IInv, Asked
<1>2. /\ writer[st].queue # <<>> => line.epoch = writer[st].epoch /\ line.since[st] = Got(writer[st])
      /\ line.since[st] = 0 \/ (line.epoch = writer[st].epoch /\ line.since[st] = Got(writer[st]))
  BY <1>1, StreamNames DEF Asked
<1>3. obs.state = "logging_in" /\ obs.boot = "done" /\ line.up
  BY <1>1 DEF LineShape
<1>4. Steady => line.epoch = writer[st].epoch /\ line.since[st] = Got(writer[st]) /\ Active(st)
  BY <1>1, <1>3, StreamNames DEF Steady, Active
<1> QED BY <1>2, <1>3, <1>4

(* A gateway that lost its newest record goes on behind everything of this *)
(* epoch that the relay or the database has.                               *)
LEMMA RaisedFacts ==
  ASSUME IInv, line.asked, NEW st \in Streams, gw.next[st] = 0
  PROVE  /\ Raised[st] \in Nat /\ gw.head[st] < Raised[st]
         /\ \A a \in All(st) : a.epoch = gw.epoch => a.seq < Raised[st]
         /\ writer[st].epoch = gw.epoch => writer[st].received < Raised[st]
<1>t. TypeOK /\ StreamInv(st)
  BY DEF IInv
<1> DEFINE since == IF line.epoch = gw.epoch THEN line.since[st] ELSE 0
           m == Max({gw.head[st], since})
<1>1. Raised[st] = m + 1
  BY DEF Raised
<1>2. gw.head[st] \in Nat /\ since \in Nat /\ writer[st].received \in Int /\ Got(writer[st]) \in Nat
      /\ writer[st].received <= Got(writer[st])
  BY <1>t, TypeFacts, WriterFacts
<1>3. m \in Nat /\ gw.head[st] <= m /\ since <= m
  <2> DEFINE S == {gw.head[st], since}
  <2>0. gw.head[st] + since \in Nat
    BY <1>2
  <2>1. S \in SUBSET Nat /\ S # {} /\ \A x \in S : x <= gw.head[st] + since
    BY <1>2
  <2>2. Max(S) \in S /\ \A y \in S : y <= Max(S)
    <3> HIDE DEF S
    <3> QED BY <2>0, <2>1, MaxIsGreatest
  <2> QED BY <1>2, <2>2
<1>4. Unbroken(st, gw.head[st] + 1)
  BY DEF IInv, TailIsKnown
<1>5. line.epoch = writer[st].epoch /\ line.since[st] = Got(writer[st])
  BY <1>4, AskedFacts DEF Unbroken
<1>6. writer[st].epoch = gw.epoch => since = Got(writer[st])
  BY <1>5
<1> HIDE DEF since, m
<1>7. ASSUME NEW a \in All(st), a.epoch = gw.epoch PROVE a.seq < Raised[st]
  <2>1. a.seq \in Nat
    BY <1>t, ItemFacts
  <2>2. CASE a \in Items(st)
    BY <1>1, <1>2, <1>3, <1>4, <1>6, <1>7, <2>1, <2>2 DEF Unbroken
  <2>3. CASE a \notin Items(st)
    <3>1. PICK r \in gw.log[st] : a = Item(r)
      BY <2>3, AllFacts
    <3>2. a.seq <= gw.head[st]
      BY <3>1, <1>t, ItemFacts DEF StreamInv, Log
    <3> QED BY <1>1, <1>2, <1>3, <2>1, <3>2
  <2> QED BY <2>2, <2>3
<1> QED BY <1>1, <1>2, <1>3, <1>6, <1>7

LEMMA AnsweredTypes ==
  ASSUME IInv, LoginAnswered
  PROVE  /\ TypeOK' /\ gw'.epoch = gw.epoch /\ gw'.next = Raised
         /\ gw'.log = gw.log /\ gw'.head = gw.head
         /\ line'.up = line.up /\ ~line'.asked /\ line'.head = gw.head
         /\ \A st \in Streams : line'.sent[st] = IF Resync(st) THEN 0 ELSE line.since[st]
         /\ obs'.state \in {"replaying", "live"} /\ obs'.boot = obs.boot
         /\ obs'.cursorReady = obs.cursorReady
         /\ obs'.paused = IF obs.cursorReady THEN "no" ELSE obs.paused
         /\ \A st \in Streams : obs'.pending[st] <=>
              Active(st) /\ ~(Resync(st) /\ Oldest(st) = 0) /\ gw.head[st] > Got(writer'[st])
         /\ \A st \in Streams : Raised[st] \in Nat /\ Raised[st] # 0
                                  /\ (gw.next[st] # 0 => Raised[st] = gw.next[st])
         /\ UNCHANGED <<appended, forgotten, poison, rows, cursor, projected, late, faults, losses>>
<1>t. TypeOK /\ gw \in Gateway /\ line \in Line /\ obs \in Observer
  BY DEF IInv, TypeOK
<1>0. /\ line.asked /\ Settled(LoggedIn(writer'))
      /\ line' = [line EXCEPT !.asked = FALSE, !.head = gw.head,
             !.sent = [st \in Streams |-> IF Resync(st) THEN 0 ELSE line.since[st]]]
      /\ gw' = [gw EXCEPT !.next = Raised]
      /\ writer' = [st \in Streams |->
           IF Active(st) THEN BeginEpoch(writer[st], gw.epoch, Resync(st), gw.head[st]) ELSE writer[st]]
  BY DEF LoginAnswered
<1>u. UNCHANGED <<appended, forgotten, poison, rows, cursor, projected, late, faults, losses>>
  BY DEF LoginAnswered, store, bounds
<1>1. \A st \in Streams : /\ Raised[st] \in Nat /\ Raised[st] # 0
                          /\ (gw.next[st] # 0 => Raised[st] = gw.next[st])
  <2> SUFFICES ASSUME NEW st \in Streams
               PROVE  Raised[st] \in Nat /\ Raised[st] # 0 /\ (gw.next[st] # 0 => Raised[st] = gw.next[st])
    OBVIOUS
  <2>1. CASE gw.next[st] # 0
    BY <2>1, <1>t, TypeFacts DEF Raised
  <2>2. CASE gw.next[st] = 0
    BY <2>2, <1>0, <1>t, RaisedFacts, TypeFacts
  <2> QED BY <2>1, <2>2
<1>2. Raised \in [Streams -> Nat]
  <2>1. \A st \in Streams : Raised[st] \in Nat
    BY <1>1
  <2> QED BY <2>1 DEF Raised
<1>3. gw' \in Gateway /\ gw'.epoch = gw.epoch /\ gw'.next = Raised /\ gw'.log = gw.log /\ gw'.head = gw.head
  BY <1>0, <1>2, <1>t DEF Gateway
<1>4. [st \in Streams |-> IF Resync(st) THEN 0 ELSE line.since[st]] \in [Streams -> Nat]
  BY <1>t, TypeFacts
<1>5. gw.head \in [Streams -> Nat]
  BY <1>t DEF Gateway
<1>6. /\ line' \in Line /\ line'.up = line.up /\ ~line'.asked /\ line'.head = gw.head
      /\ line'.sent = [st \in Streams |-> IF Resync(st) THEN 0 ELSE line.since[st]]
  BY <1>0, <1>4, <1>5, <1>t DEF Line
<1> DEFINE pend == [st \in Streams |->
                 /\ Active(st)
                 /\ ~(Resync(st) /\ Oldest(st) = 0)
                 /\ gw.head[st] > (IF writer'[st].received = Null THEN 0 ELSE writer'[st].received)]
<1>7. pend \in [Streams -> BOOLEAN]
  <2>1. \A st \in Streams : pend[st] \in BOOLEAN
    BY DEF Active
  <2> QED BY <2>1
<1>8. \A st \in Streams : pend[st] <=>
         Active(st) /\ ~(Resync(st) /\ Oldest(st) = 0) /\ gw.head[st] > Got(writer'[st])
  BY DEF Got
<1>9. LoggedIn(writer') = [obs EXCEPT !.paused = IF obs.cursorReady THEN "no" ELSE @, !.pending = pend]
  BY DEF LoggedIn
<1> HIDE DEF pend
<1>10. /\ LoggedIn(writer') \in Observer
       /\ LoggedIn(writer').boot = obs.boot /\ LoggedIn(writer').cursorReady = obs.cursorReady
       /\ LoggedIn(writer').paused = (IF obs.cursorReady THEN "no" ELSE obs.paused)
       /\ LoggedIn(writer').pending = pend
  BY <1>7, <1>9, <1>t DEF Observer
<1>11. /\ obs' \in Observer /\ obs'.state \in {"replaying", "live"}
       /\ obs'.boot = obs.boot /\ obs'.cursorReady = obs.cursorReady
       /\ obs'.paused = (IF obs.cursorReady THEN "no" ELSE obs.paused)
       /\ obs'.pending = pend
  BY <1>0, <1>10, SettledFacts
<1>12. /\ writer' \in [Streams -> Writer]
       /\ \A st \in Streams : WriterOK(writer'[st])
  <2>1. \A st \in Streams : WriterOK(writer'[st])
    BY AnswerFacts
  <2> QED BY <2>1, <1>0 DEF WriterOK
<1>13. TypeOK'
  BY <1>3, <1>6, <1>11, <1>12, <1>t, <1>u DEF TypeOK, WriterOK
<1> QED BY <1>1, <1>3, <1>6, <1>8, <1>11, <1>13, <1>t, <1>u, TypeFacts

LEMMA AnsweredStream ==
  ASSUME IInv, LoginAnswered, NEW st \in Streams
  PROVE  StreamInv(st)' /\ \A a : a \in Items(st)' <=> a \in Items(st)
<1>t. TypeOK /\ StreamInv(st)
  BY DEF IInv
<1>a. line.asked
  BY DEF LoginAnswered
<1>0. /\ TypeOK' /\ gw'.epoch = gw.epoch /\ gw'.next = Raised /\ gw'.log = gw.log /\ gw'.head = gw.head
      /\ Raised[st] \in Nat /\ Raised[st] # 0 /\ (gw.next[st] # 0 => Raised[st] = gw.next[st])
      /\ appended' = appended /\ forgotten' = forgotten
      /\ rows' = rows /\ cursor' = cursor /\ projected' = projected /\ late' = late
  BY AnsweredTypes
<1>1. /\ WriterOK(writer'[st]) /\ writer'[st].queue = writer[st].queue
      /\ writer'[st].busy = writer[st].busy /\ writer'[st].call = writer[st].call
      /\ writer'[st] = writer[st] \/ writer'[st].received = Null
      /\ Active(st) => writer'[st].epoch = gw.epoch
      /\ ~Active(st) => writer'[st] = writer[st] /\ writer[st].queue = <<>>
  BY AnswerFacts
<1>2. \A q : q \in Waiting(st)' <=> q \in Waiting(st)
  BY <1>0, <1>1, AllFacts
<1>3. \A a : a \in Items(st)' <=> a \in Items(st)
  BY <1>0, <1>2, AllFacts
<1>4. \A q \in Waiting(st)' : Transits(st, q) /\ \A i \in DOMAIN q : q[i] \in All(st)
  BY <1>2, <1>t, ItemFacts DEF StreamInv, InTransit
<1>5. Batches(st)'
  BY <1>0, <1>1, <1>t DEF StreamInv, Batches
<1>6. writer'[st].epoch <= gw.epoch /\ gw.epoch \in Nat
  BY <1>1, <1>t, TypeFacts DEF StreamInv, CursorIsRow
<1>7. \A r \in gw.log[st] : r.seq \in Nat /\ ~(r.seq <= Null)
  BY <1>t, TypeFacts, QueuedFacts DEF Null
<1>8. Kept(st)'
  BY <1>0, <1>1, <1>7, <1>t DEF StreamInv, Kept, Events
<1>9. Trails(st)'
  <2> SUFFICES ASSUME NEW i \in DOMAIN writer[st].queue, writer[st].queue[i].epoch = gw.epoch
               PROVE  /\ writer'[st].epoch = gw.epoch
                      /\ \/ writer[st].queue[i].seq <= writer'[st].received
                         \/ /\ writer'[st].received = Null
                            /\ \A r \in gw.log[st] : writer[st].queue[i].seq < r.seq
    BY <1>0, <1>1 DEF Trails
  <2>1. /\ writer[st].epoch = gw.epoch
        /\ \/ writer[st].queue[i].seq <= writer[st].received
           \/ writer[st].received = Null /\ \A r \in gw.log[st] : writer[st].queue[i].seq < r.seq
    BY <1>t DEF StreamInv, Trails
  <2>2. writer[st].queue # <<>> /\ writer[st].queue[i].seq \in Nat /\ writer[st].received \in Nat \cup {Null}
    BY <1>t, ItemFacts, TypeFacts, WriterFacts
  <2>3. writer'[st].epoch = gw.epoch
    BY <1>1, <2>2
  <2>4. CASE writer'[st] = writer[st]
    BY <2>1, <2>4
  <2>5. CASE writer'[st] # writer[st] /\ writer[st].received = Null
    BY <2>1, <2>2, <2>5, <1>1 DEF Null
  <2>6. CASE writer'[st] # writer[st] /\ writer[st].received # Null
    <3>1. line.epoch = gw.epoch /\ line.since[st] = Got(writer[st])
      BY <2>1, <2>2, <1>a, AskedFacts
    <3>2. \A r \in gw.log[st] : writer[st].received < r.seq
      BY <2>1, <2>6, <3>1, ForgottenFacts
    <3> QED BY <2>1, <2>2, <2>3, <2>6, <3>2, <1>1, <1>7
  <2> QED BY <2>4, <2>5, <2>6
<1>10. ASSUME All(st)' \subseteq All(st) PROVE NextIsNew(st)'
  <2>1. writer'[st] # writer[st] => writer'[st].received < Raised[st]
    BY <1>0, <1>1 DEF Null
  <2>2. CASE gw.next[st] # 0
    <3>1. gw'.next[st] = gw.next[st]
      BY <1>0, <2>2
    <3>2. writer'[st].epoch = gw.epoch => writer'[st].received < gw.next[st]
      BY <2>1, <2>2, <1>0, <1>t DEF StreamInv, NextIsNew
    <3> QED BY <3>1, <3>2, <1>0, <1>10, <1>t, NextStays DEF StreamInv
  <2>3. CASE gw.next[st] = 0
    <3>1. /\ gw.head[st] < Raised[st]
          /\ \A a \in All(st) : a.epoch = gw.epoch => a.seq < Raised[st]
          /\ writer[st].epoch = gw.epoch => writer[st].received < Raised[st]
      BY <2>3, <1>a, RaisedFacts
    <3> QED BY <3>1, <2>1, <1>0, <1>10 DEF NextIsNew
  <2> QED BY <2>2, <2>3
<1>11. StreamInv(st)'
  BY <1>0, <1>4, <1>5, <1>6, <1>8, <1>9, <1>10, <1>t, QueueStep
<1> QED BY <1>3, <1>11

LEMMA LoginAnsweredStep == ASSUME IInv, LoginAnswered PROVE IInv'
<1>t. TypeOK /\ \A st \in Streams : StreamInv(st) /\ InRange(st)
  BY DEF IInv, StreamInv
<1>a. line.asked /\ obs.state = "logging_in" /\ obs.boot = "done" /\ line.up
  BY AskedFacts, StreamNames DEF LoginAnswered
<1>0. /\ TypeOK' /\ gw'.epoch = gw.epoch /\ gw'.next = Raised /\ gw'.log = gw.log /\ gw'.head = gw.head
      /\ line'.up = line.up /\ ~line'.asked /\ line'.head = gw.head
      /\ obs'.state \in {"replaying", "live"} /\ obs'.boot = obs.boot
      /\ obs'.cursorReady = obs.cursorReady
      /\ obs'.paused = IF obs.cursorReady THEN "no" ELSE obs.paused
      /\ late' = late /\ rows' = rows /\ cursor' = cursor /\ faults' = faults
  BY AnsweredTypes
<1>1. \A st \in Streams : /\ Raised[st] # 0
                          /\ line'.sent[st] = IF Resync(st) THEN 0 ELSE line.since[st]
                          /\ obs'.pending[st] <=>
                               Active(st) /\ ~(Resync(st) /\ Oldest(st) = 0) /\ gw.head[st] > Got(writer'[st])
  BY AnsweredTypes
<1>2. \A st \in Streams : StreamInv(st)' /\ \A a : a \in Items(st)' <=> a \in Items(st)
  BY AnsweredStream
<1>3. \A st \in Streams :
        /\ writer'[st].queue = writer[st].queue
        /\ writer'[st] = writer[st] \/ writer'[st].received = Null
        /\ Active(st) => writer'[st].epoch = gw.epoch
        /\ Active(st) /\ writer[st].epoch = gw.epoch /\ ~Resync(st) => writer'[st] = writer[st]
  BY AnswerFacts
<1>4. \A st \in Streams : Unpaused(st)' => Active(st)
  BY <1>0, <1>a, StreamNames DEF IInv, LineShape, Unpaused, Active
<1>5. LineShape'
  <2>1. \A st \in Streams : Unpaused(st)' => writer'[st].epoch = gw'.epoch
    BY <1>0, <1>3, <1>4
  <2>2. ~obs.cursorReady => obs.paused # "no"
    BY <1>a DEF IInv, LineShape
  <2> QED BY <2>1, <2>2, <1>0, <1>a DEF LineShape, LoggedOn
<1>6. Queues' /\ Asked'
  <2>1. writer["strategy"].queue # <<>> => obs.cursorReady
    BY DEF IInv, Queues
  <2> QED BY <2>1, <1>0, <1>3, <1>a, StreamNames DEF Queues, Asked, Active
<1>7. Listening'
  <2> SUFFICES ASSUME NEW st \in Streams, Unpaused(st)'
               PROVE  /\ line'.sent[st] <= Got(writer'[st])
                      /\ line'.head[st] <= gw'.head[st]
                      /\ ~obs'.pending[st] =>
                           \A r \in gw'.log[st] : r.seq <= line'.head[st] => r.seq <= writer'[st].received
    BY DEF Listening, Got
  <2>0. /\ Active(st) /\ writer'[st] \in Writer /\ Got(writer'[st]) \in Nat /\ gw.head[st] \in Nat
        /\ writer'[st].received \in Nat \cup {Null}
        /\ \A r \in gw.log[st] : r.seq \in Nat /\ r.seq >= 1
    <3>1. writer'[st] \in Writer
      BY <1>0 DEF TypeOK
    <3>2. \A r \in gw.log[st] : r.seq \in Nat /\ r.seq >= 1
      BY <1>t, ItemFacts, TypeFacts, QueuedFacts, SMTT(60) DEF InRange
    <3> QED BY <3>1, <3>2, <1>4, <1>t, WriterFacts, TypeFacts
  <2>1. line'.sent[st] <= Got(writer'[st])
    <3>1. CASE Resync(st) \/ line.since[st] = 0
      BY <3>1, <2>0, <1>1
    <3>2. CASE ~Resync(st) /\ line.since[st] # 0
      <4>1. line.epoch = writer[st].epoch /\ line.since[st] = Got(writer[st])
        BY <3>2, <1>a, AskedFacts
      <4>2. line.epoch = gw.epoch
        BY <3>2 DEF Resync
      <4>3. writer'[st] = writer[st]
        BY <4>1, <4>2, <3>2, <2>0, <1>3
      <4> QED BY <4>1, <4>3, <3>2, <2>0, <1>1
    <3> QED BY <3>1, <3>2
  <2>2. line'.head[st] <= gw'.head[st]
    BY <2>0, <1>0
  <2>3. ASSUME ~obs'.pending[st], NEW r \in gw.log[st], r.seq <= gw.head[st]
        PROVE  r.seq <= writer'[st].received
    <3>1. Oldest(st) # 0
      BY <1>t, OldestFacts
    <3>2. gw.head[st] <= Got(writer'[st])
      BY <2>0, <2>3, <3>1, <1>1
    <3> QED BY <2>0, <2>3, <3>2 DEF Got
  <2> QED BY <2>1, <2>2, <2>3, <1>0
<1>8. Steady => Steady'
  <2> SUFFICES ASSUME Steady PROVE Steady'
    OBVIOUS
  <2>1. writer'["order"].epoch = gw.epoch /\ writer'["strategy"].epoch = gw.epoch
    BY <1>3, <1>a, AskedFacts, StreamNames DEF LoginAnswered
  <2>2. obs.cursorReady /\ late = {}
    BY <1>a DEF Steady
  <2> QED BY <2>1, <2>2, <1>0, <1>a DEF Steady
<1>9. Faultless'
  <2> SUFFICES ASSUME faults = 0, NEW st \in Streams PROVE Unbroken(st, gw.head[st])'
    BY <1>0 DEF Faultless
  <2>1. Unbroken(st, gw.head[st])
    BY DEF IInv, Faultless
  <2>2. Steady /\ Steady' /\ line.epoch = writer[st].epoch /\ line.since[st] = Got(writer[st]) /\ Active(st)
    BY <2>1, <1>8, <1>a, AskedFacts DEF Unbroken
  <2>3. ASSUME NEW a \in Items(st), a.epoch = gw.epoch
        PROVE  writer'[st].epoch = gw.epoch /\ (a.seq <= writer'[st].received \/ a.seq < gw.head[st])
    <3>1. writer[st].epoch = gw.epoch /\ (a.seq <= writer[st].received \/ a.seq < gw.head[st])
      BY <2>1, <2>3 DEF Unbroken
    <3>2. a.seq \in Nat /\ gw.head[st] \in Nat /\ writer[st].received \in Nat \cup {Null}
      BY <1>t, ItemFacts, TypeFacts, WriterFacts
    <3>3. CASE writer'[st] = writer[st]
      BY <3>1, <3>3
    <3>4. CASE writer'[st] # writer[st] /\ writer[st].received = Null
      BY <3>1, <3>2, <3>4, <2>2, <1>3 DEF Null
    <3>5. CASE writer'[st] # writer[st] /\ writer[st].received # Null
      <4>1. writer[st].received < gw.head[st]
        BY <3>1, <3>5, <2>2, ForgottenFacts
      <4> QED BY <4>1, <3>1, <3>2, <3>5, <2>2, <1>3
    <3> QED BY <3>3, <3>4, <3>5
  <2> QED BY <2>2, <2>3, <1>0, <1>2 DEF Unbroken
<1>10. TailIsKnown'
  BY <1>0, <1>1 DEF TailIsKnown
<1> QED BY <1>0, <1>2, <1>5, <1>6, <1>7, <1>9, <1>10 DEF IInv

-----------------------------------------------------------------------------
(* The batches.                                                            *)

(* What a frame carries of a stream: records of the log after what was     *)
(* sent, in order, and every one up to the last.                           *)
Framed(st, f) ==
  /\ f \in Seq(Record) /\ Ascending(f)
  /\ \A i \in DOMAIN f : f[i] \in gw.log[st] /\ line.sent[st] < f[i].seq
  /\ \A i \in DOMAIN f, r \in gw.log[st] :
       line.sent[st] < r.seq /\ r.seq <= f[i].seq => \E j \in DOMAIN f : f[j] = r

LEMMA UnsentFacts ==
  ASSUME TypeOK, NEW st \in Streams, StreamInv(st)
  PROVE  Framed(st, Unsent(st))
<1> DEFINE seqs == {seq \in Retained(st) : seq > line.sent[st]}
           u == Unsent(st)
           pick(n) == CHOOSE r \in gw.log[st] : r.seq = Nth(seqs, n)
<1>1. u = [n \in 1..Cardinality(seqs) |-> pick(n)]
  BY DEF Unsent
<1>2. \A r \in gw.log[st] : r \in Record /\ r.seq \in 0..gw.head[st]
  BY TypeFacts, QueuedFacts DEF StreamInv, Log
<1>3. seqs \in SUBSET Nat /\ IsFiniteSet(seqs)
  <2>1. seqs \subseteq 0..gw.head[st]
    BY <1>2 DEF Retained
  <2>2. gw.head[st] \in Nat /\ IsFiniteSet(0..gw.head[st])
    <3>1. gw.head[st] \in Int /\ 0 \in Int /\ gw.head[st] \in Nat
      BY TypeFacts
    <3> QED BY <3>1, FS_Interval
  <2>3. IsFiniteSet(seqs)
    BY <2>1, <2>2, FS_Subset
  <2> QED BY <2>1, <2>2, <2>3
<1>4. \A s \in seqs : s > line.sent[st] /\ \E r \in gw.log[st] : r.seq = s
  BY DEF Retained
<1>5. \A r \in gw.log[st] : r.seq > line.sent[st] => r.seq \in seqs
  BY DEF Retained
<1> HIDE DEF seqs, u
<1>6. /\ Cardinality(seqs) \in Nat
      /\ \A n \in 1..Cardinality(seqs) : Nth(seqs, n) \in seqs
      /\ \A n, m \in 1..Cardinality(seqs) : n < m => Nth(seqs, n) < Nth(seqs, m)
      /\ \A s \in seqs : \E n \in 1..Cardinality(seqs) : Nth(seqs, n) = s
  BY <1>3, NthFacts
<1>7. \A n \in 1..Cardinality(seqs) : pick(n) \in gw.log[st] /\ pick(n).seq = Nth(seqs, n)
  BY <1>4, <1>6
<1> HIDE DEF pick
<1>8. DOMAIN u = 1..Cardinality(seqs) /\ \A n \in DOMAIN u : u[n] = pick(n)
  BY <1>1
<1>9. \A n \in DOMAIN u : u[n] \in gw.log[st] /\ u[n] \in Record /\ u[n].seq = Nth(seqs, n) /\ u[n].seq \in seqs
  BY <1>2, <1>6, <1>7, <1>8
<1>10. u \in Seq(Record)
  <2>1. u = [n \in 1..Cardinality(seqs) |-> u[n]]
    BY <1>1, <1>8
  <2> QED BY <2>1, <1>6, <1>8, <1>9
<1>11. Ascending(u)
  BY <1>6, <1>8, <1>9 DEF Ascending
<1>12. \A n \in DOMAIN u : line.sent[st] < u[n].seq
  BY <1>4, <1>9, <1>3, TypeFacts
<1>13. ASSUME NEW r \in gw.log[st], line.sent[st] < r.seq PROVE \E n \in DOMAIN u : u[n] = r
  <2>1. r.seq \in seqs
    BY <1>2, <1>5, <1>13, TypeFacts
  <2>2. PICK n \in DOMAIN u : u[n].seq = r.seq
    BY <2>1, <1>6, <1>8, <1>9
  <2>3. u[n] = r
    BY <2>2, <1>9, KeyFacts DEF StreamInv
  <2> QED BY <2>3
<1> QED BY <1>9, <1>10, <1>11, <1>12, <1>13 DEF Framed, u

(* A frame is a prefix of that.                                            *)
LEMMA PrefixFramed ==
  ASSUME TypeOK, NEW st \in Streams, NEW u, Framed(st, u), NEW n \in Nat, n <= Len(u)
  PROVE  Framed(st, SubSeq(u, 1, n))
<1> DEFINE f == SubSeq(u, 1, n)
<1>1. u \in Seq(Record)
  BY DEF Framed
<1>2. f \in Seq(Record) /\ DOMAIN f = 1..n /\ 1..n \subseteq DOMAIN u /\ \A i \in 1..n : f[i] = u[i]
  BY <1>1
<1> HIDE DEF f
<1>3. Ascending(f)
  BY <1>2 DEF Framed, Ascending
<1>4. ASSUME NEW i \in DOMAIN f, NEW r \in gw.log[st], line.sent[st] < r.seq, r.seq <= f[i].seq
      PROVE  \E j \in DOMAIN f : f[j] = r
  <2>1. PICK j \in DOMAIN u : u[j] = r
    BY <1>2, <1>4 DEF Framed
  <2>2. i \in Nat /\ j \in Nat /\ i <= n /\ j >= 1 /\ u[i].seq \in Nat /\ u[j].seq \in Nat
    BY <1>1, <1>2, RecordFacts
  <2>3. i < j => u[i].seq < u[j].seq
    BY <1>2, <2>1 DEF Framed, Ascending
  <2>4. j \in 1..n
    BY <2>1, <2>2, <2>3, <1>2, <1>4
  <2> QED BY <2>1, <2>4, <1>2
<1> QED BY <1>2, <1>3, <1>4 DEF Framed, f

(* And so is what the parser passes of it: the contract is broken from     *)
(* some event on.                                                          *)
LEMMA ParsedFramed ==
  ASSUME TypeOK, NEW st \in Streams, StreamInv(st), NEW u, Framed(st, u)
  PROVE  Framed(st, Parsed(u))
<1>1. CASE ~Violates(u)
  BY <1>1 DEF Parsed
<1>2. CASE Violates(u)
  <2> DEFINE P == {i \in DOMAIN u : u[i].event < poison}
             f == Picked(u, P)
  <2>0. u \in Seq(Record) /\ P \in SUBSET DOMAIN u /\ \A i : i \in P <=> i \in DOMAIN u /\ u[i].event < poison
    BY DEF Framed
  <2>1. Parsed(u) = f
    BY <1>2 DEF Parsed
  <2> HIDE DEF P
  <2>2. /\ f \in Seq(Record)
        /\ \A n \in DOMAIN f : Nth(P, n) \in P /\ f[n] = u[Nth(P, n)]
        /\ \A n, m \in DOMAIN f : n < m => Nth(P, n) < Nth(P, m)
        /\ \A i \in P : \E n \in DOMAIN f : Nth(P, n) = i
    BY <2>0, PickedFacts
  <2> HIDE DEF f
  <2>3. Ascending(f)
    BY <2>0, <2>2 DEF Framed, Ascending
  <2>4. \A n \in DOMAIN f : f[n] \in gw.log[st] /\ line.sent[st] < f[n].seq
    BY <2>0, <2>2 DEF Framed
  <2>5. ASSUME NEW n \in DOMAIN f, NEW r \in gw.log[st], line.sent[st] < r.seq, r.seq <= f[n].seq
        PROVE  \E m \in DOMAIN f : f[m] = r
    <3>1. PICK i \in DOMAIN u : f[n] = u[i] /\ u[i].event < poison /\ u[i] \in gw.log[st]
      BY <2>0, <2>2 DEF Framed
    <3>2. PICK j \in DOMAIN u : u[j] = r
      BY <2>5, <3>1 DEF Framed
    <3>3. /\ u[i].seq \in Nat /\ r.seq \in Nat /\ u[i].event \in Nat /\ r.event \in Nat /\ poison \in Nat
      BY <3>1, TypeFacts, QueuedFacts
    <3>4. r.event <= u[i].event
      <4>1. ~(u[i].event < r.event)
        BY <2>5, <3>1, <3>3, KeyFacts DEF StreamInv
      <4> QED BY <4>1, <3>3
    <3>5. j \in P
      BY <2>0, <3>1, <3>2, <3>3, <3>4
    <3> QED BY <2>2, <3>2, <3>5
  <2> QED BY <2>1, <2>2, <2>3, <2>4, <2>5 DEF Framed
<1> QED BY <1>1, <1>2

LEMMA FrameFacts ==
  ASSUME TypeOK, \A st \in Streams : StreamInv(st), NEW frame, frame \in Frames
  PROVE  Framed("order", frame.order) /\ Framed("strategy", frame.strategy)
         /\ Framed("strategy", Parsed(frame.strategy))
<1>1. frame.order \in FrameParts("order") /\ frame.strategy \in FrameParts("strategy")
  BY DEF Frames
<1>2. ASSUME NEW st \in Streams, NEW f, f \in FrameParts(st) PROVE Framed(st, f)
  <2> DEFINE u == Unsent(st)
             S == {FrameSize, Len(u)}
  <2>1. PICK n \in 0..Min(S) : f = SubSeq(u, 1, n)
    BY <1>2 DEF FrameParts
  <2>2. Framed(st, u)
    BY UnsentFacts
  <2> HIDE DEF u
  <2>3. Len(u) \in Nat /\ FrameSize \in Nat
    <3>1. u \in Seq(Record)
      BY <2>2 DEF Framed
    <3> QED BY <3>1, FeedAssumption, SizesAssumption
  <2>4. Min(S) \in S /\ \A y \in S : Min(S) <= y
    <3>1. S \in SUBSET Nat /\ S # {}
      BY <2>3
    <3> HIDE DEF S
    <3> QED BY <3>1, MinIsLeast
  <2>5. n \in Nat /\ n <= Len(u)
    BY <2>1, <2>3, <2>4
  <2> QED BY <2>1, <2>2, <2>5, PrefixFramed
<1>3. Framed("order", frame.order) /\ Framed("strategy", frame.strategy)
  BY <1>1, <1>2, StreamNames
<1> QED BY <1>3, ParsedFramed, StreamNames

(* A stream that pushes what the frame carries of it.                      *)
LEMMA PushedStream ==
  ASSUME IInv, TypeOK', LoggedOn, NEW st \in Streams, Unpaused(st), NEW f, Framed(st, f),
         Pushed(writer[st], f, writer'[st]), UNCHANGED <<gateway, store, late>>
  PROVE  /\ StreamInv(st)'
         /\ writer'[st].epoch = writer[st].epoch /\ writer'[st].received >= writer[st].received
         /\ \A a \in Items(st)' : a \in Items(st) \/ (a.epoch = gw.epoch /\ a.seq <= writer'[st].received)
<1> DEFINE w == writer[st]
           v == writer'[st]
           old == Len(w.queue)
<1>t. TypeOK /\ StreamInv(st)
  BY DEF IInv
<1>u. /\ gw' = gw /\ appended' = appended /\ forgotten' = forgotten /\ rows' = rows /\ cursor' = cursor
      /\ projected' = projected /\ late' = late
  BY DEF gateway, store
<1>1. /\ w.epoch = gw.epoch /\ line.sent[st] <= Got(w) /\ line.sent[st] \in Nat
      /\ w.received \in Nat \cup {Null} /\ v.received \in Nat \cup {Null} /\ gw.epoch \in Nat
      /\ w.queue \in Seq(Queued) /\ v.queue \in Seq(Queued) /\ old \in Nat
  <2>1. w \in Writer /\ v \in Writer
    BY <1>t, TypeFacts DEF TypeOK
  <2>2. w.epoch = gw.epoch /\ line.sent[st] <= Got(w)
    BY DEF IInv, LineShape, Listening
  <2>3. w.queue \in Seq(Queued)
    BY <2>1, WriterFacts
  <2> QED BY <2>1, <2>2, <2>3, <1>t, TypeFacts, WriterFacts
<1>2. /\ WriterOK(v) /\ v.epoch = w.epoch
      /\ (v.call = w.call /\ v.busy = w.busy) \/ (w.call = "none" /\ v.call = "sent")
      /\ v.received >= w.received
      /\ v.received = w.received \/ \E j \in DOMAIN f : v.received = f[j].seq
      /\ Len(v.queue) >= old /\ \A i \in 1..old : v.queue[i] = w.queue[i]
  BY DEF Pushed
<1>3. /\ \A i \in DOMAIN v.queue : i > old =>
           \E j \in DOMAIN f : v.queue[i] = Queueing(w, f[j]) /\ f[j].seq > w.received /\ f[j].seq <= v.received
      /\ \A i, j \in DOMAIN v.queue : old < i /\ i < j => v.queue[i].seq < v.queue[j].seq
      /\ \A j \in DOMAIN f : w.received < f[j].seq /\ f[j].seq <= v.received =>
           \E i \in DOMAIN v.queue : i > old /\ v.queue[i] = Queueing(w, f[j])
  BY DEF Pushed
<1>4. \A j \in DOMAIN f : /\ f[j] \in gw.log[st] /\ f[j].seq \in Nat /\ f[j].seq >= 1
                          /\ Queueing(w, f[j]) = Item(f[j]) /\ Item(f[j]) \in All(st)
                          /\ Item(f[j]).epoch = gw.epoch /\ Item(f[j]).seq = f[j].seq
                          /\ Item(f[j]).event = f[j].event
  <2>1. \A j \in DOMAIN f : f[j] \in gw.log[st]
    BY DEF Framed
  <2>2. \A r \in gw.log[st] : /\ r.seq \in Nat /\ r.seq >= 1 /\ Item(r) \in All(st) /\ Item(r).epoch = gw.epoch
                              /\ Item(r).seq = r.seq /\ Item(r).event = r.event
    BY <1>t, ItemFacts, TypeFacts, QueuedFacts DEF StreamInv, InRange
  <2>3. \A r : Queueing(w, r) = Item(r)
    BY <1>1 DEF Queueing, Item
  <2> QED BY <2>1, <2>2, <2>3
<1>5. \A r \in gw.log[st] : /\ r.seq \in Nat /\ r.event \in Nat /\ r.seq >= 1
                            /\ (w.received < r.seq => line.sent[st] < r.seq)
  <2>1. \A r \in gw.log[st] : r.seq \in Nat /\ r.event \in Nat /\ r.seq >= 1
    BY <1>t, ItemFacts, TypeFacts, QueuedFacts DEF StreamInv, InRange
  <2> QED BY <2>1, <1>1 DEF Got
<1>o. \A i \in DOMAIN w.queue : i \in 1..old /\ i \in DOMAIN v.queue /\ v.queue[i] = w.queue[i]
  BY <1>1, <1>2
<1>n. \A i \in DOMAIN v.queue : i \in Nat /\ (i > old \/ i \in DOMAIN w.queue)
  BY <1>1
<1> HIDE DEF w, v, old
<1>6. \A i \in DOMAIN w.queue : /\ w.queue[i] \in All(st) /\ w.queue[i] \in Items(st)
                                /\ w.queue[i].epoch \in Nat /\ w.queue[i].epoch <= gw.epoch
                                /\ w.queue[i].seq \in Nat /\ w.queue[i].event \in Nat
  <2>1. \A i \in DOMAIN w.queue : w.queue[i] \in Items(st) /\ w.queue[i] \in All(st)
    BY <1>t, ItemFacts DEF w
  <2>2. \A a \in All(st) : a.epoch \in Nat /\ a.epoch <= gw.epoch /\ a.seq \in Nat /\ a.event \in Nat
    BY <1>t, <1>1, ItemFacts DEF StreamInv, InRange
  <2> QED BY <2>1, <2>2
<1>7. Transits(st, w.queue)
  BY <1>t, ItemFacts DEF StreamInv, InTransit, w
<1>8. \A i \in DOMAIN v.queue : v.queue[i] \in All(st)
  BY <1>3, <1>4, <1>6, <1>n, <1>o
<1>9. \A i, j \in DOMAIN v.queue : i < j => v.queue[i].event < v.queue[j].event
  <2> SUFFICES ASSUME NEW i \in DOMAIN v.queue, NEW j \in DOMAIN v.queue, i < j
               PROVE  v.queue[i].event < v.queue[j].event
    OBVIOUS
  <2>1. CASE j \in DOMAIN w.queue
    <3>1. i \in DOMAIN w.queue
      BY <2>1, <1>1, <1>n DEF old
    <3> QED BY <3>1, <2>1, <1>7, <1>o DEF Transits
  <2>2. CASE i > old
    <3>1. v.queue[i].seq < v.queue[j].seq
      BY <2>2, <1>3
    <3>2. v.queue[i].epoch = gw.epoch /\ v.queue[j].epoch = gw.epoch
      <4>1. j > old
        BY <2>2, <1>1, <1>n
      <4> QED BY <4>1, <2>2, <1>3, <1>4
    <3> QED BY <3>1, <3>2, <1>8, <1>t, KeyFacts DEF StreamInv
  <2>3. CASE i \in DOMAIN w.queue /\ j > old
    <3>1. PICK k \in DOMAIN f : v.queue[j] = Item(f[k]) /\ f[k].seq > w.received
      BY <2>3, <1>3, <1>4
    <3>2. Before(w.queue[i], Item(f[k]))
      <4>1. w.queue[i].epoch = gw.epoch =>
              w.queue[i].seq <= w.received \/ \A r \in gw.log[st] : w.queue[i].seq < r.seq
        BY <2>3, <1>t DEF StreamInv, Trails, w
      <4>2. w.queue[i].epoch = gw.epoch => w.queue[i].seq < f[k].seq
        BY <4>1, <3>1, <2>3, <1>1, <1>4, <1>6 DEF Null
      <4> QED BY <4>2, <2>3, <1>1, <1>4, <1>6 DEF Before
    <3>3. w.queue[i].event < Item(f[k]).event
      BY <3>2, <2>3, <1>4, <1>6, <1>t DEF StreamInv, KeysInOrder
    <3> QED BY <3>1, <3>3, <2>3, <1>o
  <2> QED BY <2>1, <2>2, <2>3, <1>n
<1>10. ASSUME NEW r \in gw.log[st], r.seq <= w.received
       PROVE  r.event \in Events(st) \/ \E j \in DOMAIN v.queue : v.queue[j].event = r.event
  <2>1. r.event \in Events(st) \/ \E j \in DOMAIN w.queue : w.queue[j].event = r.event
    BY <1>1, <1>10, <1>t DEF StreamInv, Kept, w
  <2> QED BY <2>1, <1>o
<1>11. ASSUME NEW r \in gw.log[st], NEW k \in DOMAIN f, r.seq <= f[k].seq, f[k].seq <= v.received,
              w.received < r.seq
       PROVE  \E j \in DOMAIN v.queue : v.queue[j].event = r.event
  <2>1. PICK j \in DOMAIN f : f[j] = r
    BY <1>5, <1>11 DEF Framed
  <2>2. w.received < f[j].seq /\ f[j].seq <= v.received
    BY <2>1, <1>1, <1>4, <1>11 DEF Null
  <2> QED BY <2>1, <2>2, <1>3, <1>4
<1>12. Transits(st, v.queue)
  <2> SUFFICES ASSUME NEW i \in DOMAIN v.queue, NEW r \in gw.log[st], r.event < v.queue[i].event
               PROVE  r.event \in Events(st) \/ \E j \in DOMAIN v.queue : v.queue[j].event = r.event
    BY <1>9 DEF Transits
  <2>1. CASE i \in DOMAIN w.queue
    <3>1. r.event \in Events(st) \/ \E j \in DOMAIN w.queue : w.queue[j].event = r.event
      BY <2>1, <1>7, <1>o DEF Transits
    <3> QED BY <3>1, <1>o
  <2>2. CASE i > old
    <3>1. PICK k \in DOMAIN f : v.queue[i] = Item(f[k]) /\ f[k].seq > w.received /\ f[k].seq <= v.received
      BY <2>2, <1>3, <1>4
    <3>2. r.seq < f[k].seq
      BY <3>1, <1>4, <1>t, KeyFacts DEF StreamInv
    <3>3. r.seq <= w.received \/ w.received < r.seq
      BY <1>1, <1>5 DEF Null
    <3>4. r.seq <= f[k].seq
      BY <3>2, <1>4, <1>5
    <3> QED BY <3>1, <3>3, <3>4, <1>10, <1>11
  <2> QED BY <2>1, <2>2, <1>n
<1>13. \A q \in Waiting(st)' : Transits(st, q) /\ \A i \in DOMAIN q : q[i] \in All(st)
  <2>1. ASSUME NEW q \in Waiting(st)' PROVE q = v.queue \/ q \in Waiting(st)
    BY <1>u, AllFacts DEF v
  <2>2. \A q \in Waiting(st) : Transits(st, q) /\ \A i \in DOMAIN q : q[i] \in All(st)
    BY <1>t, ItemFacts DEF StreamInv, InTransit
  <2> QED BY <2>1, <2>2, <1>8, <1>12
<1>14. Batches(st)'
  <2>1. w.busy \in Nat /\ w.busy <= old
    BY <1>t DEF StreamInv, Batches, WriterOK, Writer, w, old
  <2>2. v.call = "done" => v.busy = w.busy /\ w.call = "done"
    BY <1>2
  <2>3. w.call = "done" => \A i \in 1..w.busy : w.queue[i] \in rows[st]
    BY <1>t DEF StreamInv, Batches, w
  <2>4. v.call = "done" => \A i \in 1..v.busy : v.queue[i] \in rows[st]
    BY <2>1, <2>2, <2>3, <1>1, <1>2
  <2> QED BY <2>4, <1>2, <1>t, <1>u DEF StreamInv, Batches, v
<1>15. v.received = w.received \/ \E r \in gw.log[st] : v.received = r.seq
  BY <1>2, <1>4
<1>16. Trails(st)'
  <2> SUFFICES ASSUME NEW i \in DOMAIN v.queue, v.queue[i].epoch = gw.epoch
               PROVE  \/ v.queue[i].seq <= v.received
                      \/ v.received = Null /\ \A r \in gw.log[st] : v.queue[i].seq < r.seq
    BY <1>1, <1>2, <1>u DEF Trails, v
  <2>1. CASE i > old
    BY <2>1, <1>3, <1>4
  <2>2. CASE i \in DOMAIN w.queue
    <3>1. /\ v.queue[i] = w.queue[i] /\ w.queue[i].epoch = gw.epoch
          /\ w.queue[i].seq \in Nat /\ v.received >= w.received
      BY <2>2, <1>2, <1>6, <1>o
    <3>2. \/ w.queue[i].seq <= w.received
          \/ w.received = Null /\ \A r \in gw.log[st] : w.queue[i].seq < r.seq
      BY <2>2, <3>1, <1>t DEF StreamInv, Trails, w
    <3> QED BY <3>1, <3>2, <1>1, <1>5, <1>15 DEF Null
  <2> QED BY <2>1, <2>2, <1>n
<1>17. Kept(st)'
  <2> SUFFICES ASSUME NEW r \in gw.log[st], r.seq <= v.received
               PROVE  r.event \in Events(st) \/ \E j \in DOMAIN v.queue : v.queue[j].event = r.event
    BY <1>u DEF Kept, Events, v
  <2>1. CASE r.seq <= w.received
    BY <2>1, <1>10
  <2>2. CASE w.received < r.seq
    <3>1. PICK k \in DOMAIN f : v.received = f[k].seq
      BY <2>2, <1>1, <1>2, <1>5 DEF Null
    <3> QED BY <2>2, <3>1, <1>4, <1>11
  <2> QED BY <2>1, <2>2, <1>1, <1>5 DEF Null
<1>18. ASSUME All(st)' \subseteq All(st) PROVE NextIsNew(st)'
  <2>1. gw.next[st] # 0 => gw.head[st] < gw.next[st] /\ w.received < gw.next[st]
    BY <1>1, <1>t DEF StreamInv, NextIsNew, w
  <2>2. \A r \in gw.log[st] : r.seq <= gw.head[st]
    BY <1>t DEF StreamInv, Log
  <2>3. gw.head[st] \in Nat /\ gw.next[st] \in Nat
    BY <1>t, TypeFacts
  <2>4. gw.next[st] # 0 => v.received < gw.next[st]
    BY <2>1, <2>2, <2>3, <1>1, <1>5, <1>15
  <2> QED BY <2>4, <1>18, <1>t, <1>u, NextStays DEF StreamInv, v
<1>19. StreamInv(st)'
  <2>1. writer'[st].epoch <= gw.epoch
    BY <1>1, <1>2 DEF v
  <2> QED BY <2>1, <1>13, <1>14, <1>16, <1>17, <1>18, <1>t, <1>u, QueueStep
<1>20. ASSUME NEW a \in Items(st)' PROVE a \in Items(st) \/ (a.epoch = gw.epoch /\ a.seq <= v.received)
  <2>1. CASE \E i \in DOMAIN v.queue : a = v.queue[i]
    BY <2>1, <1>3, <1>4, <1>6, <1>n, <1>o
  <2>2. CASE ~\E i \in DOMAIN v.queue : a = v.queue[i]
    <3>1. a \in rows[st] \/ \E q \in Waiting(st) : \E i \in DOMAIN q : a = q[i]
      BY <2>2, <1>20, <1>u, AllFacts DEF v
    <3> QED BY <3>1, AllFacts
  <2> QED BY <2>1, <2>2
<1> QED BY <1>2, <1>19, <1>20 DEF v, w

(* Where the whole of the frame was accepted.                              *)
LEMMA ThroughFacts ==
  ASSUME IInv, LoggedOn, NEW st \in Streams, Unpaused(st), NEW frame, Framed(st, frame[st]),
         writer'[st] \in Writer, writer'[st].received >= writer[st].received,
         \A j \in DOMAIN frame[st] : frame[st][j].seq <= writer'[st].received
  PROVE  /\ Sent(frame)[st] <= Got(writer'[st])
         /\ ~obs.pending[st] \/ CaughtUp(frame, st) =>
              \A r \in gw.log[st] : r.seq <= line.head[st] => r.seq <= writer'[st].received
<1> DEFINE f == frame[st]
<1>t. TypeOK /\ StreamInv(st)
  BY DEF IInv
<1>1. /\ writer[st].received \in Nat \cup {Null} /\ writer'[st].received \in Nat \cup {Null}
      /\ line.sent[st] <= Got(writer[st]) /\ line.sent[st] \in Nat
      /\ ~obs.pending[st] => \A r \in gw.log[st] : r.seq <= line.head[st] => r.seq <= writer[st].received
  BY <1>t, TypeFacts, WriterFacts DEF IInv, Listening
<1>2. \A r \in gw.log[st] : r.seq \in Nat /\ r.seq >= 1 /\ r.seq \in Retained(st)
  BY <1>t, ItemFacts, TypeFacts, QueuedFacts DEF StreamInv, InRange, Retained
<1>3. Sent(frame)[st] <= Got(writer'[st]) /\ Sent(frame)[st] \in Nat
  <2>1. Sent(frame)[st] = IF f = <<>> THEN line.sent[st] ELSE Last(f).seq
    BY DEF Sent
  <2>2. CASE f = <<>>
    BY <2>1, <2>2, <1>1 DEF Got, Null
  <2>3. CASE f # <<>>
    <3>1. f \in Seq(Record) /\ Len(f) \in DOMAIN f /\ Last(f) = f[Len(f)]
      BY <2>3 DEF Framed, Last
    <3>2. Last(f).seq \in Nat /\ Last(f).seq <= writer'[st].received
      BY <3>1, RecordFacts
    <3> QED BY <2>1, <2>3, <3>2, <1>1 DEF Got, Null
  <2> QED BY <2>2, <2>3
<1>4. ASSUME CaughtUp(frame, st), NEW r \in gw.log[st]
      PROVE  r.seq <= writer'[st].received
  <2>1. r.seq <= Sent(frame)[st]
    BY <1>2, <1>4 DEF CaughtUp
  <2> QED BY <2>1, <1>1, <1>2, <1>3 DEF Got
<1>5. ASSUME ~obs.pending[st], NEW r \in gw.log[st], r.seq <= line.head[st]
      PROVE  r.seq <= writer'[st].received
  <2>1. r.seq <= writer[st].received
    BY <1>1, <1>5
  <2> QED BY <2>1, <1>1, <1>2 DEF Null
<1> QED BY <1>3, <1>4, <1>5

(* Both streams after a batch: what was pushed of the frame, if anything.  *)
LEMMA BatchStreams ==
  ASSUME IInv, NEW frame, frame \in Frames, LoggedOn,
         OnlyOrders(frame) \/ (obs.paused = "no" /\ Both(frame)),
         line' \in Line, obs' \in Observer, UNCHANGED <<store, gateway, late, bounds>>
  PROVE  /\ TypeOK' /\ \A st \in Streams : StreamInv(st)'
         /\ \A st \in Streams :
              /\ writer'[st] \in Writer /\ writer'[st].epoch = writer[st].epoch
              /\ writer'[st].received >= writer[st].received
              /\ \A a \in Items(st)' : a \in Items(st) \/ (a.epoch = gw.epoch /\ a.seq <= writer'[st].received)
         /\ writer'["strategy"] = writer["strategy"] \/ obs.paused = "no"
         /\ PushResult(writer["order"], frame.order) = "ok" =>
              \A j \in DOMAIN frame.order : frame.order[j].seq <= writer'["order"].received
         /\ Both(frame) /\ PushResult(writer["strategy"], Parsed(frame.strategy)) = "ok" =>
              \A j \in DOMAIN Parsed(frame.strategy) :
                Parsed(frame.strategy)[j].seq <= writer'["strategy"].received
<1> DEFINE f == frame.order
           g == Parsed(frame.strategy)
<1>t. TypeOK /\ \A st \in Streams : StreamInv(st) /\ WriterOK(writer[st]) /\ writer[st] \in Writer
  BY TypeFacts DEF IInv, StreamInv, Batches
<1>u. /\ gw' = gw /\ appended' = appended /\ forgotten' = forgotten /\ poison' = poison /\ rows' = rows
      /\ cursor' = cursor /\ projected' = projected /\ late' = late /\ faults' = faults /\ losses' = losses
  BY DEF gateway, store, bounds
<1>1. Framed("order", f) /\ Framed("strategy", g)
  BY <1>t, FrameFacts
<1>2. f \in Seq(Record) /\ Ascending(f) /\ g \in Seq(Record) /\ Ascending(g)
  BY <1>1 DEF Framed
<1>3. /\ Pushed(writer["order"], f, Push(writer["order"], f))
      /\ PushResult(writer["order"], f) = "ok" =>
           \A j \in DOMAIN f : f[j].seq <= Push(writer["order"], f).received
      /\ Pushed(writer["strategy"], g, Push(writer["strategy"], g))
      /\ PushResult(writer["strategy"], g) = "ok" =>
           \A j \in DOMAIN g : g[j].seq <= Push(writer["strategy"], g).received
  BY <1>t, <1>2, StreamNames, PushFacts
<1>w. writer \in [Streams -> Writer]
  BY <1>t DEF TypeOK
<1> HIDE DEF f, g
<1>4. /\ writer'["order"] = Push(writer["order"], f)
      /\ \/ writer'["strategy"] = writer["strategy"]
         \/ obs.paused = "no" /\ writer'["strategy"] = Push(writer["strategy"], g)
      /\ Both(frame) => writer'["strategy"] = Push(writer["strategy"], g)
      /\ DOMAIN writer' = Streams /\ writer' = [st \in Streams |-> writer'[st]]
  BY <1>w, StreamNames DEF OnlyOrders, Both, f, g
<1>5. ASSUME NEW st \in Streams PROVE WriterOK(writer'[st]) /\ writer'[st] \in Writer
  <2>1. WriterOK(writer'[st])
    BY <1>3, <1>4, <1>t, StreamNames DEF Pushed
  <2> QED BY <2>1 DEF WriterOK
<1>6. TypeOK'
  <2>1. writer' \in [Streams -> Writer]
    BY <1>4, <1>5
  <2> QED BY <2>1, <1>5, <1>t, <1>u DEF TypeOK, WriterOK
<1>7. ASSUME NEW st \in Streams
      PROVE  /\ StreamInv(st)'
             /\ writer'[st].epoch = writer[st].epoch
             /\ writer'[st].received >= writer[st].received
             /\ \A a \in Items(st)' : a \in Items(st) \/ (a.epoch = gw.epoch /\ a.seq <= writer'[st].received)
  <2>1. CASE st = "order"
    BY <2>1, <1>1, <1>3, <1>4, <1>6, PushedStream DEF Unpaused
  <2>2. CASE st = "strategy" /\ writer'[st] = writer[st]
    <3>1. StreamInv(st)' /\ Items(st)' \subseteq Items(st)
      BY <2>2, <1>6, <1>t, <1>u, StreamStays
    <3> QED BY <2>2, <3>1, <1>t, WriterFacts
  <2>3. CASE st = "strategy" /\ obs.paused = "no" /\ writer'[st] = Push(writer[st], g)
    BY <2>3, <1>1, <1>3, <1>6, PushedStream DEF Unpaused
  <2> QED BY <2>1, <2>2, <2>3, <1>4, StreamNames
<1>8. /\ PushResult(writer["order"], f) = "ok" => \A j \in DOMAIN f : f[j].seq <= writer'["order"].received
      /\ Both(frame) /\ PushResult(writer["strategy"], g) = "ok" =>
           \A j \in DOMAIN g : g[j].seq <= writer'["strategy"].received
  BY <1>3, <1>4
<1> QED BY <1>4, <1>5, <1>6, <1>7, <1>8 DEF f, g

(* What is left of the invariant once the control part is known.           *)
LEMMA BatchCarries ==
  ASSUME IInv, NEW frame, frame \in Frames, LoggedOn,
         OnlyOrders(frame) \/ (obs.paused = "no" /\ Both(frame)),
         line' \in Line, obs' \in Observer, UNCHANGED <<store, gateway, late, bounds>>,
         ~line'.asked, obs'.boot = obs.boot, obs'.cursorReady = obs.cursorReady,
         LineShape', Listening'
  PROVE  IInv'
<1>1. /\ TypeOK' /\ \A st \in Streams : StreamInv(st)'
      /\ \A st \in Streams :
              /\ writer'[st] \in Writer /\ writer'[st].epoch = writer[st].epoch
              /\ writer'[st].received >= writer[st].received
              /\ \A a \in Items(st)' : a \in Items(st) \/ (a.epoch = gw.epoch /\ a.seq <= writer'[st].received)
      /\ writer'["strategy"] = writer["strategy"] \/ obs.paused = "no"
  BY BatchStreams
<1>u. gw' = gw /\ late' = late /\ faults' = faults
  BY DEF gateway, bounds
<1>2. obs.boot = "done" /\ (obs.paused = "no" => obs.cursorReady)
      /\ (obs.paused = "no" => writer["order"].epoch = writer["strategy"].epoch)
      /\ writer["order"].epoch = gw.epoch
  BY StreamNames DEF IInv, LineShape, LoggedOn, Unpaused
<1>3. Queues'
  BY <1>1, <1>2, StreamNames DEF IInv, Queues
<1>4. Asked'
  BY DEF Asked
<1>5. Steady => Steady'
  BY <1>1, <1>2, <1>u, StreamNames DEF Steady
<1>6. Steady => \A st \in Streams : \A a \in Items(st)' : a.epoch = gw.epoch =>
           \/ /\ a \in Items(st) /\ writer'[st].epoch = writer[st].epoch
              /\ writer'[st].received >= writer[st].received
           \/ writer'[st].epoch = gw.epoch /\ a.seq <= writer'[st].received
  <2>1. Steady => \A st \in Streams : writer[st].epoch = gw.epoch
    BY <1>2, StreamNames DEF Steady
  <2> QED BY <2>1, <1>1
<1>7. Faultless' /\ TailIsKnown'
  BY <1>1, <1>5, <1>6, <1>u, CarryStep
<1> QED BY <1>1, <1>3, <1>4, <1>7 DEF IInv

LEMMA OrderFrameFacts ==
  ASSUME NEW frame \in Frames, OrderFrame(frame)
  PROVE  LoggedOn /\ frame \in Frames
BY DEF OrderFrame, LoggedOn

(* The line is dropped whatever was pushed.                                *)
LEMMA BatchDropped ==
  ASSUME IInv, NEW frame \in Frames, OrderFrame(frame), Dropped,
         OnlyOrders(frame) \/ (obs.paused = "no" /\ Both(frame)),
         UNCHANGED <<store, gateway, late, bounds>>
  PROVE  IInv'
<1>1. /\ LineShape' /\ Listening' /\ line' \in Line /\ obs' \in Observer
      /\ ~line'.asked /\ obs'.boot = obs.boot /\ obs'.cursorReady = obs.cursorReady
  BY DroppedStep DEF IInv
<1> QED BY <1>1, OrderFrameFacts, BatchCarries

(* The batch is through: o is the observer after the strategy part, which  *)
(* is paused or was taken whole.                                           *)
LEMMA BatchThrough ==
  ASSUME IInv, NEW frame \in Frames, OrderTaken(frame), NEW o \in Observer, Through(frame, o),
         OnlyOrders(frame) \/ (obs.paused = "no" /\ Both(frame)),
         o.boot = obs.boot, o.cursorReady = obs.cursorReady,
         o.pending["order"] = obs.pending["order"],
         \/ o.paused # "no"
         \/ /\ o.paused = "no" /\ obs.paused = "no" /\ Both(frame) /\ ~Violates(frame.strategy)
            /\ PushResult(writer["strategy"], Parsed(frame.strategy)) = "ok"
            /\ o.pending["strategy"] = (obs.pending["strategy"] /\ ~CaughtUp(frame, "strategy")),
         UNCHANGED <<store, gateway, late, bounds>>
  PROVE  IInv'
<1>t. TypeOK /\ line \in Line /\ obs \in Observer /\ \A st \in Streams : StreamInv(st)
  BY DEF IInv, TypeOK
<1>0. /\ LoggedOn /\ frame \in Frames /\ PushResult(writer["order"], frame.order) = "ok"
  BY OrderFrameFacts DEF OrderTaken
<1>f. Framed("order", frame.order) /\ Framed("strategy", frame.strategy)
  BY <1>0, <1>t, FrameFacts
<1> DEFINE p == [o EXCEPT !.pending["order"] = @ /\ ~CaughtUp(frame, "order")]
<1>1. /\ p \in Observer /\ p.boot = obs.boot /\ p.cursorReady = obs.cursorReady /\ p.paused = o.paused
      /\ p.pending["order"] = (obs.pending["order"] /\ ~CaughtUp(frame, "order"))
      /\ p.pending["strategy"] = o.pending["strategy"]
  <2>1. o.pending \in [Streams -> BOOLEAN] /\ CaughtUp(frame, "order") \in BOOLEAN
    BY DEF Observer, CaughtUp
  <2> QED BY <2>1, StreamNames DEF Observer
<1>2. Sent(frame) \in [Streams -> Nat]
  <2>1. \A st \in Streams : Framed(st, frame[st])
    BY <1>f, StreamNames
  <2>2. \A st \in Streams : Sent(frame)[st] \in Nat
    <3> SUFFICES ASSUME NEW st \in Streams PROVE Sent(frame)[st] \in Nat
      OBVIOUS
    <3>1. frame[st] \in Seq(Record) /\ line.sent[st] \in Nat
      BY <2>1, <1>t, TypeFacts DEF Framed
    <3>2. frame[st] # <<>> => Last(frame[st]).seq \in Nat
      <4>1. frame[st] # <<>> => Len(frame[st]) \in DOMAIN frame[st]
        BY <3>1
      <4> QED BY <3>1, <4>1, RecordFacts DEF Last
    <3> QED BY <3>1, <3>2 DEF Sent
  <2> QED BY <2>2 DEF Sent
<1>3. line' = [line EXCEPT !.sent = Sent(frame)] /\ Settled(p)
  BY DEF Through
<1> HIDE DEF p
<1>4. /\ line' \in Line /\ line'.up = line.up /\ line'.asked = line.asked /\ line'.head = line.head
      /\ line'.sent = Sent(frame)
  BY <1>2, <1>3, <1>t DEF Line
<1>5. /\ obs' \in Observer /\ obs'.state \in {"replaying", "live"}
      /\ obs'.boot = obs.boot /\ obs'.cursorReady = obs.cursorReady /\ obs'.paused = o.paused
      /\ obs'.pending = p.pending
  BY <1>1, <1>3, SettledFacts
<1>6. /\ \A st \in Streams : writer'[st] \in Writer /\ writer'[st].epoch = writer[st].epoch
                             /\ writer'[st].received >= writer[st].received
      /\ \A j \in DOMAIN frame.order : frame.order[j].seq <= writer'["order"].received
      /\ o.paused = "no" =>
           \A j \in DOMAIN frame.strategy : frame.strategy[j].seq <= writer'["strategy"].received
  <2>1. ~Violates(frame.strategy) => Parsed(frame.strategy) = frame.strategy
    BY DEF Parsed
  <2> QED BY <2>1, <1>0, <1>4, <1>5, BatchStreams
<1>7. \A st \in Streams : Unpaused(st)' => Unpaused(st)
  BY <1>5 DEF Unpaused
<1>u. gw' = gw
  BY DEF gateway
<1>8. /\ line.up /\ ~line.asked /\ obs.boot = "done"
      /\ obs.paused = "no" => obs.cursorReady
      /\ \A st \in Streams : Unpaused(st) => writer[st].epoch = gw.epoch
  BY <1>0 DEF IInv, LineShape, LoggedOn
<1>9. LineShape'
  <2>1. ~obs.cursorReady => o.paused # "no"
    BY <1>8
  <2> QED BY <2>1, <1>4, <1>5, <1>6, <1>7, <1>8, <1>u DEF LineShape, LoggedOn
<1>10. Listening'
  <2> SUFFICES ASSUME NEW st \in Streams, Unpaused(st)'
               PROVE  /\ Sent(frame)[st] <= Got(writer'[st])
                      /\ line.head[st] <= gw.head[st]
                      /\ ~obs'.pending[st] =>
                           \A r \in gw.log[st] : r.seq <= line.head[st] => r.seq <= writer'[st].received
    BY <1>4, <1>u DEF Listening, Got
  <2>1. line.head[st] <= gw.head[st] /\ Unpaused(st)
    BY <1>0, <1>7 DEF IInv, Listening
  <2>2. Framed(st, frame[st]) /\ \A j \in DOMAIN frame[st] : frame[st][j].seq <= writer'[st].received
    BY <1>5, <1>6, <1>f, StreamNames DEF Unpaused
  <2>3. ~obs'.pending[st] => ~obs.pending[st] \/ CaughtUp(frame, st)
    BY <1>1, <1>5, StreamNames DEF Unpaused
  <2> QED BY <2>1, <2>2, <2>3, <1>0, <1>6, ThroughFacts
<1> QED BY <1>0, <1>4, <1>5, <1>8, <1>9, <1>10, BatchCarries

LEMMA BatchReceivedStep == ASSUME IInv, BatchReceived PROVE IInv'
<1>1. PICK frame \in Frames :
        \/ OrderRefused(frame) \/ StrategyPaused(frame) \/ StrategyGap(frame)
        \/ StrategyOverflow(frame) \/ StrategyViolation(frame) \/ StrategyTaken(frame)
  BY DEF BatchReceived
<1>2. UNCHANGED <<store, gateway, late, bounds>>
  BY DEF BatchReceived
<1>3. obs \in Observer
  BY DEF IInv, TypeOK
<1>4. CASE OrderRefused(frame)
  BY <1>2, <1>4, BatchDropped DEF OrderRefused, OnlyOrders
<1>5. CASE StrategyPaused(frame)
  <2>1. OrderFrame(frame)
    BY <1>5 DEF StrategyPaused, OrderTaken
  <2>2. CASE Dropped
    BY <1>2, <1>5, <2>1, <2>2, BatchDropped DEF StrategyPaused
  <2>3. CASE Through(frame, obs)
    BY <1>2, <1>3, <1>5, <2>3, BatchThrough DEF StrategyPaused
  <2> QED BY <1>5, <2>2, <2>3 DEF StrategyPaused
<1>6. CASE StrategyGap(frame)
  BY <1>2, <1>6, BatchDropped DEF StrategyGap, OrderTaken
<1>7. ASSUME NEW reason \in {"overflow", "contract"}
      PROVE  /\ Paused(reason) \in Observer /\ Paused(reason).paused # "no"
             /\ Paused(reason).boot = obs.boot /\ Paused(reason).cursorReady = obs.cursorReady
             /\ Paused(reason).pending["order"] = obs.pending["order"]
  <2>1. obs.pending \in [Streams -> BOOLEAN]
    BY <1>3 DEF Observer
  <2> QED BY <2>1, <1>3, StreamNames DEF Paused, Observer
<1>8. CASE StrategyOverflow(frame)
  BY <1>2, <1>7, <1>8, BatchThrough DEF StrategyOverflow
<1>9. CASE StrategyViolation(frame)
  BY <1>2, <1>7, <1>9, BatchThrough DEF StrategyViolation
<1>10. CASE StrategyTaken(frame)
  <2> DEFINE o == [obs EXCEPT !.pending["strategy"] = @ /\ ~CaughtUp(frame, "strategy")]
  <2>1. /\ OrderTaken(frame) /\ obs.paused = "no" /\ Both(frame) /\ Through(frame, o)
        /\ PushResult(writer["strategy"], Parsed(frame.strategy)) = "ok" /\ ~Violates(frame.strategy)
    BY <1>10 DEF StrategyTaken
  <2>2. /\ o \in Observer /\ o.boot = obs.boot /\ o.cursorReady = obs.cursorReady /\ o.paused = obs.paused
        /\ o.pending["order"] = obs.pending["order"]
        /\ o.pending["strategy"] = (obs.pending["strategy"] /\ ~CaughtUp(frame, "strategy"))
    <3>1. obs.pending \in [Streams -> BOOLEAN] /\ CaughtUp(frame, "strategy") \in BOOLEAN
      BY <1>3 DEF Observer, CaughtUp
    <3> QED BY <3>1, <1>3, StreamNames DEF Observer
  <2> HIDE DEF o
  <2> QED BY <1>2, <2>1, <2>2, BatchThrough
<1> QED BY <1>1, <1>4, <1>5, <1>6, <1>8, <1>9, <1>10

-----------------------------------------------------------------------------
(* Every step.                                                             *)

LEMMA InitHolds == ASSUME Init PROVE IInv
<1>0. /\ gw = [epoch |-> 1, log |-> [st \in Streams |-> {}], head |-> Zero,
               next |-> [st \in Streams |-> 1]]
      /\ appended = Zero /\ forgotten = [st \in Streams |-> {}] /\ poison \in Nat
      /\ line = Down /\ obs = Booting
      /\ writer = [st \in Streams |-> NewWriter] /\ rows = [st \in Streams |-> {}]
      /\ cursor = [st \in Streams |-> [epoch |-> 0, seq |-> 0]]
      /\ projected = [st \in Streams |-> <<>>] /\ late = {} /\ faults = 0 /\ losses = 0
  BY FeedAssumption DEF Init
<1>1. gw \in Gateway /\ gw.epoch = 1 /\ \A st \in Streams : gw.log[st] = {} /\ gw.head[st] = 0 /\ gw.next[st] = 1
  BY <1>0, ZeroFacts DEF Gateway
<1>2. /\ obs \in Observer /\ obs.state = "connecting" /\ obs.boot = "order" /\ ~obs.cursorReady
  BY <1>0 DEF Booting, Observer
<1>3. line \in Line /\ ~line.up /\ ~line.asked
  BY <1>0, DownFacts
<1>4. /\ NewWriter \in Writer /\ NewWriter.epoch = 0 /\ NewWriter.received = Null /\ NewWriter.queue = <<>>
      /\ NewWriter.busy = 0 /\ NewWriter.call = "none" /\ Len(NewWriter.queue) = 0
  BY DEF NewWriter, Writer, Null
<1>5. \A st \in Streams :
        /\ writer[st] = NewWriter /\ rows[st] = {} /\ cursor[st] = [epoch |-> 0, seq |-> 0]
        /\ projected[st] = <<>> /\ appended[st] = 0 /\ forgotten[st] = {}
  BY <1>0, ZeroFacts
<1>6. WriterOK(NewWriter)
  BY <1>4, SizesAssumption DEF WriterOK
<1>7. TypeOK
  <2>1. cursor \in [Streams -> Cursor] /\ projected \in [Streams -> Seq(Nat)]
    BY <1>0 DEF Cursor
  <2>2. /\ appended \in [Streams -> Nat] /\ forgotten \in [Streams -> SUBSET Nat]
        /\ writer \in [Streams -> Writer] /\ rows \in [Streams -> SUBSET Queued]
    BY <1>0, <1>4, ZeroFacts
  <2>3. late \in SUBSET [stream : Streams, batch : Seq(Queued)] /\ faults \in Nat /\ losses \in Nat
    BY <1>0
  <2> QED BY <2>1, <2>2, <2>3, <1>0, <1>1, <1>2, <1>3, <1>5, <1>6 DEF TypeOK, WriterOK
<1>8. \A st \in Streams : /\ \A q : q \in Waiting(st) <=> q = <<>>
                          /\ Items(st) = {} /\ All(st) = {} /\ Events(st) = {}
  <2> SUFFICES ASSUME NEW st \in Streams
               PROVE  /\ \A q : q \in Waiting(st) <=> q = <<>>
                      /\ Items(st) = {} /\ All(st) = {} /\ Events(st) = {}
    OBVIOUS
  <2>1. \A q : q \in Waiting(st) <=> q = <<>>
    BY <1>0, <1>4, <1>5, AllFacts
  <2>2. \A a : a \notin Items(st)
    BY <2>1, <1>5, AllFacts
  <2>3. \A a : a \notin All(st)
    BY <2>2, <1>1, AllFacts
  <2> QED BY <2>1, <2>2, <2>3, <1>5 DEF Events, ToSet
<1>9. ASSUME NEW st \in Streams PROVE StreamInv(st)
  <2>1. KeysInOrder(st) /\ InRange(st)
    BY <1>8 DEF KeysInOrder, InRange
  <2>2. Log(st)
    BY <1>1, <1>5 DEF Log
  <2>3. NextIsNew(st)
    BY <1>1, <1>4, <1>5, <1>8 DEF NextIsNew
  <2>4. Copies(st) /\ InTransit(st)
    BY <1>5, <1>8 DEF Copies, InTransit, Transits
  <2>5. Batches(st)
    BY <1>0, <1>4, <1>5, <1>6 DEF Batches
  <2>6. CursorIsRow(st) /\ Trails(st) /\ NoHole(st) /\ Kept(st)
    BY <1>1, <1>4, <1>5 DEF CursorIsRow, Trails, NoHole, Kept
  <2> QED BY <2>1, <2>2, <2>3, <2>4, <2>5, <2>6 DEF StreamInv
<1>10. LineShape /\ Asked /\ Listening
  BY <1>2, <1>3 DEF LineShape, Asked, Listening, LoggedOn
<1>11. Queues
  BY <1>2, <1>4, <1>5, StreamNames DEF Queues
<1>12. Faultless /\ TailIsKnown
  <2>1. Steady
    BY <1>0, <1>2, <1>3, <1>4, <1>5, <1>8, StreamNames DEF Steady
  <2> QED BY <2>1, <1>1, <1>8 DEF Faultless, TailIsKnown, Unbroken
<1> QED BY <1>7, <1>9, <1>10, <1>11, <1>12 DEF IInv

LEMMA StutterStep == ASSUME IInv, UNCHANGED vars PROVE IInv'
<1>1. UNCHANGED <<gateway, line, obs, writer, store, late, faults, losses>>
  BY DEF vars, relay, bounds
<1>2. line' \in Line /\ obs' \in Observer /\ faults' \in Nat /\ losses' \in Nat
  BY <1>1 DEF IInv, TypeOK
<1>3. TypeOK' /\ \A st \in Streams : StreamInv(st)' /\ Items(st)' \subseteq Items(st)
  BY <1>1, <1>2, AsideStep
<1>u. gw' = gw /\ line' = line /\ obs' = obs /\ writer' = writer /\ late' = late /\ faults' = faults
      /\ cursor' = cursor
  BY <1>1 DEF gateway, store
<1>4. LineShape' /\ Queues' /\ Asked' /\ Listening'
  BY <1>u DEF IInv, LineShape, Queues, Asked, Listening, LoggedOn, Unpaused, Got
<1>5. Steady => Steady'
  BY <1>3, <1>u DEF Steady, Got
<1>6. \A st \in Streams : writer[st].received >= writer[st].received
  BY TypeFacts, WriterFacts DEF IInv
<1>7. Faultless' /\ TailIsKnown'
  BY <1>3, <1>5, <1>6, <1>u, CarryStep
<1> QED BY <1>3, <1>4, <1>7 DEF IInv

LEMMA NextStep == ASSUME IInv, [Next]_vars PROVE IInv'
<1>1. CASE UNCHANGED vars
  BY <1>1, StutterStep
<1>2. CASE Next
  BY <1>2, ReadOrderCursorStep, ReadStrategyCursorStep, StrategyCursorFailsStep, RetryStrategyCursorStep,
     LineUpStep, LineBreaksStep, LoginAnsweredStep, LoginRejectedStep, BatchReceivedStep,
     LateCallCommitsStep, RelayRestartsStep, StoreResetStep, CallCommitsStep, CallSucceedsStep,
     CallFailsStep, RetryTimerStep, EventHappensStep, RetentionDropsStep, TailLostStep DEF Next
<1> QED BY <1>1, <1>2

(* What the writer queues, the calls carry and the database keeps is in    *)
(* the order of the gateway's records and leaves none of them behind,      *)
(* through breaks, restarts, resets and late commits (writer.ts: push,     *)
(* #runBatch; observer.ts: the handlers).                                  *)
THEOREM Invariant == Spec => []IInv
<1>1. Init => IInv
  BY InitHolds
<1>2. IInv /\ [Next]_vars => IInv'
  BY NextStep
<1> QED BY <1>1, <1>2, PTL DEF Spec

(* Types: among others, a queue is never beyond its capacity (writer.ts:   *)
(* JOURNAL_MAX_QUEUE).                                                     *)
THEOREM TypeCorrect == Spec => []TypeOK
<1>1. IInv => TypeOK
  BY DEF IInv
<1> QED BY <1>1, Invariant, PTL

(* No record the gateway keeps is passed over: neither what is before the  *)
(* cursor of the database (dma_relay_journal_cursor, from which the next   *)
(* relay asks) nor what a running relay has received (writer.ts: push).    *)
THEOREM NothingSkipped == Spec => []NothingIsSkipped
<1>1. IInv => NothingIsSkipped
  BY DEF IInv, StreamInv, NoHole, Kept, NothingIsSkipped, CursorHasNoHole, ReceivedIsKept
<1> QED BY <1>1, Invariant, PTL

-----------------------------------------------------------------------------
(* "live" is entered only by an answer to the login or by a batch.         *)

LEMMA EntersLive ==
  ASSUME IInv, [Next]_vars, obs.state # "live", obs'.state = "live"
  PROVE  gw'.log = gw.log /\ \A st \in Streams : ~obs'.pending[st]
<1>t. obs \in Observer
  BY DEF IInv, TypeOK
<1>1. CASE LoginAnswered
  <2>1. gw'.log = gw.log
    BY <1>1, AnsweredTypes
  <2>2. Settled(LoggedIn(writer')) /\ LoggedIn(writer') \in Observer
    <3>1. \A p : p \in [Streams -> BOOLEAN] =>
            [obs EXCEPT !.paused = IF obs.cursorReady THEN "no" ELSE @, !.pending = p] \in Observer
      BY <1>t DEF Observer
    <3>2. [st \in Streams |->
                 /\ Active(st)
                 /\ ~(Resync(st) /\ Oldest(st) = 0)
                 /\ gw.head[st] > (IF writer'[st].received = Null THEN 0 ELSE writer'[st].received)]
            \in [Streams -> BOOLEAN]
      BY DEF Active
    <3> QED BY <1>1, <3>1, <3>2 DEF LoginAnswered, LoggedIn
  <2> QED BY <2>1, <2>2, SettledFacts
<1>2. CASE BatchReceived
  <2>1. gw' = gw
    BY <1>2 DEF BatchReceived, gateway
  <2>2. PICK frame \in Frames :
        \/ OrderRefused(frame) \/ StrategyPaused(frame) \/ StrategyGap(frame)
        \/ StrategyOverflow(frame) \/ StrategyViolation(frame) \/ StrategyTaken(frame)
    BY <1>2 DEF BatchReceived
  <2>3. ~Dropped
    BY <1>t DEF Dropped, Observer
  <2>4. \E o \in Observer : Through(frame, o)
    <3>1. obs.pending \in [Streams -> BOOLEAN]
      BY <1>t DEF Observer
    <3>2. Paused("overflow") \in Observer /\ Paused("contract") \in Observer
      BY <1>t, <3>1 DEF Paused, Observer
    <3>3. [obs EXCEPT !.pending["strategy"] = @ /\ ~CaughtUp(frame, "strategy")] \in Observer
      BY <1>t, <3>1 DEF Observer, CaughtUp
    <3> QED BY <2>2, <2>3, <3>2, <3>3, <1>t
            DEF OrderRefused, StrategyPaused, StrategyGap, StrategyOverflow, StrategyViolation, StrategyTaken
  <2>5. PICK o \in Observer : Through(frame, o)
    BY <2>4
  <2> DEFINE p == [o EXCEPT !.pending["order"] = @ /\ ~CaughtUp(frame, "order")]
  <2>6. p \in Observer
    <3>1. o.pending \in [Streams -> BOOLEAN] /\ CaughtUp(frame, "order") \in BOOLEAN
      BY DEF Observer, CaughtUp
    <3> QED BY <3>1 DEF Observer
  <2>7. Settled(p)
    BY <2>5 DEF Through
  <2> HIDE DEF p
  <2> QED BY <2>1, <2>6, <2>7, SettledFacts
<1>3. CASE ReadOrderCursor \/ ReadStrategyCursor \/ StrategyCursorFails
  BY <1>3, <1>t DEF ReadOrderCursor, ReadStrategyCursor, StrategyCursorFails, Paused, Observer
<1>4. CASE RetryStrategyCursor \/ LineUp \/ LineBreaks \/ LoginRejected
  BY <1>4, <1>t DEF RetryStrategyCursor, LineUp, LineBreaks, LoginRejected, Dropped, Observer
<1>5. CASE RelayRestarts
  BY <1>5 DEF RelayRestarts, Booting
<1>6. CASE StoreReset \/ \E st \in Streams : TailLost(st)
  BY <1>6, <1>t DEF StoreReset, TailLost, Dropped, Observer
<1>7. CASE \/ LateCallCommits \/ UNCHANGED vars
           \/ \E st \in Streams : \/ CallCommits(st) \/ CallSucceeds(st) \/ CallFails(st) \/ RetryTimer(st)
                                  \/ EventHappens(st) \/ RetentionDrops(st)
  BY <1>7 DEF LateCallCommits, vars, relay, CallCommits, CallSucceeds, CallFails, RetryTimer,
              EventHappens, RetentionDrops
<1> QED BY <1>1, <1>2, <1>3, <1>4, <1>5, <1>6, <1>7 DEF Next

(* "live" is entered only with everything received that the gateway kept   *)
(* up to the head it told at login (observer.ts: #onLogin, #onBatch).      *)
THEOREM LiveCaughtUp == Spec => LiveIsCaughtUp
<1>1. ASSUME IInv, IInv', [Next]_vars, obs.state # "live", obs'.state = "live",
             NEW st \in Streams, st = "order" \/ obs'.paused = "no",
             NEW r \in gw.log[st], r.seq <= line'.head[st]
      PROVE  r.seq <= writer'[st].received
  <2>1. gw'.log = gw.log /\ ~obs'.pending[st]
    BY <1>1, EntersLive
  <2>2. ~obs'.pending[st] =>
           \A s \in gw'.log[st] : s.seq <= line'.head[st] => s.seq <= writer'[st].received
    BY <1>1 DEF IInv, Listening, LoggedOn, Unpaused
  <2> QED BY <2>1, <2>2, <1>1
<1>2. IInv /\ IInv' /\ [Next]_vars =>
        [ obs.state # "live" /\ obs'.state = "live" =>
            \A st \in Streams : (st = "order" \/ obs'.paused = "no") =>
              \A r \in gw.log[st] : r.seq <= line'.head[st] => r.seq <= writer'[st].received ]_vars
  BY <1>1
<1> QED BY <1>2, Invariant, PTL DEF Spec, LiveIsCaughtUp

-----------------------------------------------------------------------------
(* Every step is a step of JournalReplication for each stream.             *)

SameCopy(st) ==
  appended'[st] = appended[st] /\ forgotten'[st] = forgotten[st] /\ projected'[st] = projected[st]

AppendStep(st) ==
  appended'[st] = appended[st] + 1 /\ forgotten'[st] = forgotten[st] /\ projected'[st] = projected[st]

ForgetStep(st) ==
  /\ forgotten[st] \subseteq forgotten'[st] /\ forgotten'[st] \subseteq 1..appended[st]
  /\ appended'[st] = appended[st] /\ projected'[st] = projected[st]

CopyStep(st) ==
  LET new == SubSeq(projected'[st], Len(projected[st]) + 1, Len(projected'[st]))
  IN /\ IsPrefix(projected[st], projected'[st]) /\ new # <<>>
     /\ \A i \in DOMAIN new : new[i] \in (1..appended[st]) \ Events(st)
     /\ \A i, j \in DOMAIN new : i < j => new[i] < new[j]
     /\ \A i \in DOMAIN new : 1..new[i] \subseteq ToSet(projected'[st]) \cup forgotten[st]
     /\ appended'[st] = appended[st] /\ forgotten'[st] = forgotten[st]

Replicates(st) == SameCopy(st) \/ AppendStep(st) \/ ForgetStep(st) \/ CopyStep(st)

LEMMA SuffixFacts ==
  ASSUME NEW T, NEW s \in Seq(T), NEW t \in Seq(T)
  PROVE  IsPrefix(s, s \o t) /\ SubSeq(s \o t, Len(s) + 1, Len(s \o t)) = t
<1> DEFINE u == s \o t
<1>1. /\ u \in Seq(T) /\ Len(u) = Len(s) + Len(t) /\ Len(s) \in Nat /\ Len(t) \in Nat
      /\ \A i \in 1..Len(s) : u[i] = s[i]
      /\ \A i \in 1..Len(t) : u[Len(s) + i] = t[i]
  BY AppendedFacts
<1> HIDE DEF u
<1>2. SubSeq(s, 1, Len(s)) = SubSeq(u, 1, Len(s))
  BY <1>1
<1>3. SubSeq(u, Len(s) + 1, Len(u)) = t
  <2> DEFINE v == SubSeq(u, Len(s) + 1, Len(u))
  <2>1. v \in Seq(T) /\ Len(v) = Len(t)
    BY <1>1
  <2>2. \A i \in 1..Len(t) : v[i] = t[i]
    BY <1>1
  <2> HIDE DEF v
  <2>3. v = t
    BY <2>1, <2>2
  <2> QED BY <2>3 DEF v
<1> QED BY <1>1, <1>2, <1>3 DEF IsPrefix, u

(* A call that commits copies what the database had not, in order, and     *)
(* leaves nothing behind that the gateway keeps.                           *)
LEMMA AppliedReplicates ==
  ASSUME IInv, NEW st \in Streams, NEW b, Applicable(st, b), Applied(st, b), UNCHANGED gateway
  PROVE  \A x \in Streams : Replicates(x)
<1>t. TypeOK /\ StreamInv(st) /\ projected[st] \in Seq(Nat)
  BY TypeFacts DEF IInv
<1>u. appended' = appended /\ forgotten' = forgotten
  BY DEF gateway
<1>1. /\ Events(st)' = Events(st) \cup {b[i].event : i \in DOMAIN b}
      /\ \A x \in Streams : x # st => rows'[x] = rows[x] /\ projected'[x] = projected[x]
  BY AppliedRows
<1>p. PICK new \in Seq(Nat) : projected'[st] = projected[st] \o new /\ NewEvents(st, b, new)
  BY AppliedRows
<1>2. /\ projected'[st] = projected[st] \o new
      /\ \A i \in DOMAIN new : new[i] \notin Events(st) /\ \E k \in DOMAIN b : new[i] = b[k].event
      /\ \A i, j \in DOMAIN new : i < j => new[i] < new[j]
  BY <1>p DEF NewEvents
<1>3. /\ IsPrefix(projected[st], projected'[st])
      /\ SubSeq(projected'[st], Len(projected[st]) + 1, Len(projected'[st])) = new
  <2>1. projected[st] \in Seq(Nat) /\ new \in Seq(Nat)
    BY <1>t
  <2>2. /\ IsPrefix(projected[st], projected[st] \o new)
        /\ SubSeq(projected[st] \o new, Len(projected[st]) + 1, Len(projected[st] \o new)) = new
    BY ONLY <2>1, SuffixFacts
  <2> QED BY <1>2, <2>2
<1>4. ASSUME NEW k \in DOMAIN b
      PROVE  b[k].event \in 1..appended[st] /\ 1..b[k].event \subseteq Events(st)' \cup forgotten[st]
  <2>1. b[k] \in All(st) /\ b[k].event \in 1..appended[st]
    BY <1>t DEF Applicable, StreamInv, InRange
  <2>2. appended[st] \in Nat
    BY <1>t, TypeFacts
  <2>3. ASSUME NEW e \in 1..b[k].event PROVE e \in Events(st)' \cup forgotten[st]
    <3>1. e \in 1..appended[st]
      BY <2>1, <2>2
    <3>2. e \in forgotten[st] \/ \E r \in gw.log[st] : r.event = e
      BY <3>1, <1>t DEF StreamInv, Log
    <3>3. e = b[k].event \/ e < b[k].event
      BY <2>1
    <3>4. ASSUME NEW r \in gw.log[st], r.event = e, e < b[k].event
          PROVE  e \in Events(st) \/ \E j \in DOMAIN b : b[j].event = e
      BY <3>4 DEF Applicable, Transits
    <3> QED BY <3>2, <3>3, <3>4, <1>1
  <2> QED BY <2>1, <2>3
<1>5. ASSUME NEW x \in Streams, x # st PROVE SameCopy(x)
  BY <1>1, <1>5, <1>u DEF SameCopy
<1>6. CASE new = <<>>
  <2>1. projected'[st] = projected[st]
    BY <1>2, <1>6, <1>t
  <2> QED BY <2>1, <1>5, <1>u DEF SameCopy, Replicates
<1>7. CASE new # <<>>
  <2>1. \A i \in DOMAIN new : /\ new[i] \in (1..appended[st]) \ Events(st)
                              /\ 1..new[i] \subseteq Events(st)' \cup forgotten[st]
    BY <1>2, <1>4
  <2>2. Events(st)' = ToSet(projected'[st])
    BY DEF Events
  <2>3. CopyStep(st)
    BY <2>1, <2>2, <1>2, <1>3, <1>7, <1>u DEF CopyStep
  <2> QED BY <2>3, <1>5 DEF Replicates
<1> QED BY <1>6, <1>7

LEMMA StepReplicates ==
  ASSUME IInv, IInv', [Next]_vars, NEW x \in Streams
  PROVE  Replicates(x)
<1>t. TypeOK /\ (\A st \in Streams : StreamInv(st)) /\ TypeOK' /\ \A st \in Streams : StreamInv(st)'
  BY DEF IInv
<1>1. CASE UNCHANGED <<gateway, store>>
  BY <1>1 DEF gateway, store, Replicates, SameCopy
<1>2. ASSUME NEW st \in Streams, CallCommits(st) PROVE Replicates(x)
  <2>1. writer[st].call = "sent" /\ Applied(st, Batch(writer[st])) /\ UNCHANGED gateway
    BY <1>2 DEF CallCommits
  <2>2. WriterOK(writer[st]) /\ writer[st].busy > 0
    BY <2>1, <1>t DEF StreamInv, Batches, WriterOK
  <2>3. Applicable(st, Batch(writer[st]))
    BY <2>2, <1>t, BatchFacts DEF Applicable
  <2> QED BY <2>1, <2>3, AppliedReplicates
<1>3. CASE LateCallCommits
  <2>1. PICK c \in late : Applied(c.stream, c.batch)
    BY <1>3 DEF LateCallCommits
  <2>2. c.stream \in Streams /\ c.batch \in Seq(Queued) /\ StreamInv(c.stream)
    BY <1>t, TypeFacts
  <2>3. c.batch \in Waiting(c.stream)
    BY <2>2, AllFacts
  <2>4. Applicable(c.stream, c.batch)
    BY <2>2, <2>3, <1>t, ItemFacts DEF Applicable, StreamInv, InTransit, Batches
  <2> QED BY <1>3, <2>1, <2>2, <2>4, AppliedReplicates DEF LateCallCommits
<1>4. ASSUME NEW st \in Streams, EventHappens(st) PROVE Replicates(x)
  <2>1. appended' = [appended EXCEPT ![st] = @ + 1] /\ forgotten' = forgotten /\ projected' = projected
    BY <1>4 DEF EventHappens, store
  <2>2. appended \in [Streams -> Nat]
    BY <1>t DEF TypeOK
  <2>3. x = st \/ appended'[x] = appended[x]
    BY <2>1, <2>2
  <2> QED BY <2>1, <2>2, <2>3 DEF Replicates, AppendStep, SameCopy
<1>5. ASSUME appended' = appended, projected' = projected, forgotten[x] \subseteq forgotten'[x]
      PROVE  Replicates(x)
  <2>1. forgotten'[x] \subseteq 1..appended'[x]
    BY <1>t DEF StreamInv, Log
  <2> QED BY <2>1, <1>5 DEF Replicates, ForgetStep
<1>6. ASSUME NEW st \in Streams, NEW records, Forgets(st, records)
      PROVE  forgotten[x] \subseteq forgotten'[x]
  BY <1>6, <1>t DEF Forgets, TypeOK
<1>7. ASSUME NEW st \in Streams, RetentionDrops(st) \/ TailLost(st) PROVE Replicates(x)
  <2>1. \E records : Forgets(st, records)
    BY <1>7 DEF RetentionDrops, TailLost
  <2>2. appended' = appended /\ projected' = projected
    BY <1>7 DEF RetentionDrops, TailLost, store
  <2> QED BY <2>1, <2>2, <1>5, <1>6
<1>8. CASE StoreReset
  <2>1. /\ forgotten' = [st \in Streams |-> forgotten[st] \cup {r.event : r \in gw.log[st]}]
        /\ appended' = appended /\ projected' = projected
    BY <1>8 DEF StoreReset, store
  <2> QED BY <2>1, <1>5
<1>9. CASE ReadOrderCursor \/ ReadStrategyCursor \/ StrategyCursorFails \/ RetryStrategyCursor
           \/ LineUp \/ LineBreaks \/ LoginRejected \/ BatchReceived \/ RelayRestarts
  BY <1>1, <1>9 DEF ReadOrderCursor, ReadStrategyCursor, StrategyCursorFails, RetryStrategyCursor,
                    LineUp, LineBreaks, LoginRejected, BatchReceived, RelayRestarts
<1>10. CASE LoginAnswered
  BY <1>10 DEF LoginAnswered, store, Replicates, SameCopy
<1>11. CASE \E st \in Streams : CallSucceeds(st) \/ CallFails(st) \/ RetryTimer(st)
  BY <1>1, <1>11 DEF CallSucceeds, CallFails, RetryTimer
<1>12. CASE UNCHANGED vars
  BY <1>1, <1>12 DEF vars
<1> QED BY <1>2, <1>3, <1>4, <1>7, <1>8, <1>9, <1>10, <1>11, <1>12 DEF Next

(* Both streams implement JournalReplication: the database gets the events *)
(* in order, once each, by whole batches, whatever is repeated or late     *)
(* (writer.ts: #runBatch; the functions of the migrations).                *)
THEOREM RefinesReplication == Spec => Replicated
<1>1. Init => OrderCopy!Init /\ StrategyCopy!Init
  BY StreamNames DEF Init, Zero, OrderCopy!Init, StrategyCopy!Init
<1>2. ASSUME IInv, IInv', [Next]_vars
      PROVE  [OrderCopy!Next]_(OrderCopy!vars) /\ [StrategyCopy!Next]_(StrategyCopy!vars)
  <2>1. Replicates("order") /\ Replicates("strategy")
    BY <1>2, StepReplicates, StreamNames
  <2>2. [OrderCopy!Next]_(OrderCopy!vars)
    <3>1. CASE SameCopy("order")
      BY <3>1 DEF SameCopy, OrderCopy!vars
    <3>2. CASE AppendStep("order")
      BY <3>2 DEF AppendStep, OrderCopy!Next, OrderCopy!Append1
    <3>3. CASE ForgetStep("order")
      BY <3>3 DEF ForgetStep, OrderCopy!Next, OrderCopy!Forget
    <3>4. CASE CopyStep("order")
      BY <3>4 DEF CopyStep, Events, IsPrefix, ToSet, OrderCopy!Next, OrderCopy!Copied,
                  OrderCopy!IsPrefix, OrderCopy!ToSet
    <3> QED BY <2>1, <3>1, <3>2, <3>3, <3>4 DEF Replicates
  <2>3. [StrategyCopy!Next]_(StrategyCopy!vars)
    <3>1. CASE SameCopy("strategy")
      BY <3>1 DEF SameCopy, StrategyCopy!vars
    <3>2. CASE AppendStep("strategy")
      BY <3>2 DEF AppendStep, StrategyCopy!Next, StrategyCopy!Append1
    <3>3. CASE ForgetStep("strategy")
      BY <3>3 DEF ForgetStep, StrategyCopy!Next, StrategyCopy!Forget
    <3>4. CASE CopyStep("strategy")
      BY <3>4 DEF CopyStep, Events, IsPrefix, ToSet, StrategyCopy!Next, StrategyCopy!Copied,
                  StrategyCopy!IsPrefix, StrategyCopy!ToSet
    <3> QED BY <2>1, <3>1, <3>2, <3>3, <3>4 DEF Replicates
  <2> QED BY <2>2, <2>3
<1>3. IInv /\ IInv' /\ [Next]_vars =>
        [OrderCopy!Next]_(OrderCopy!vars) /\ [StrategyCopy!Next]_(StrategyCopy!vars)
  BY <1>2
<1> QED BY <1>1, <1>3, Invariant, PTL
        DEF Spec, Replicated, OrdersReplicated, StrategyReplicated, OrderCopy!Spec, StrategyCopy!Spec
=============================================================================
