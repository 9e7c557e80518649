----------------------- MODULE QuoteSubscriptions_proofs -----------------------
(***************************************************************************)
(* Proofs about QuoteSubscriptions and its SubscribePacer, for every set   *)
(* of users, finite sets of tabs and keys, window and limits.              *)
(*                                                                         *)
(* The invariant relates the hub to what the tabs hold, a set of triples   *)
(* of a tab, a key and a level, so that one message is one triple more or  *)
(* less (Books); the pacer to itself (Orderly); what the pacer asks for to *)
(* the levels the hub wants (Agrees); and what a user knows to what it     *)
(* was sent (Informed).  The methods of the pacer come first, then those   *)
(* of the hub, then the folds over keys, and the actions last.             *)
(***************************************************************************)
EXTENDS QuoteSubscriptions, FiniteSetTheorems, WellFoundedInduction, SequenceTheorems, TLAPS

-----------------------------------------------------------------------------
(* Folds over finite sets, and the greatest of a set of numbers.           *)

LEMMA LeastExists ==
  ASSUME NEW S \in SUBSET Nat, S # {}
  PROVE  \E x \in S : \A y \in S : x <= y
<1>1. PICK x \in S : \A y \in S : ~(<<y, x>> \in OpToRel(<, Nat))
  BY ONLY NatLessThanWellFounded, WFMin, S \in SUBSET Nat, S # {}, Zenon
<1>2. \A y \in S : ~(y < x)
  BY <1>1 DEF OpToRel
<1> QED BY <1>2

(* Induction over the subsets of a finite set, smaller ones first.         *)
LEMMA SetInduct ==
  ASSUME NEW S, IsFiniteSet(S), NEW P,
         {} \in P, \A s \in SUBSET S : s # {} /\ (\A x \in s : s \ {x} \in P) => s \in P
  PROVE  S \in P
<1> DEFINE Bad == {s \in SUBSET S : s \notin P}
           N   == {Cardinality(s) : s \in Bad}
<1>1. \A s \in SUBSET S : IsFiniteSet(s) /\ Cardinality(s) \in Nat
  BY FS_Subset, FS_CardinalityType
<1>2. N \in SUBSET Nat
  BY <1>1
<1> SUFFICES ASSUME S \notin P PROVE FALSE
  OBVIOUS
<1>3. N # {}
  OBVIOUS
<1>4. PICK n \in N : \A m \in N : n <= m
  <2> HIDE DEF N
  <2> QED BY <1>2, <1>3, LeastExists
<1>5. PICK s \in Bad : Cardinality(s) = n
  OBVIOUS
<1>6. ASSUME NEW x \in s PROVE s \ {x} \in P
  <2>1. Cardinality(s \ {x}) = Cardinality(s) - 1
    BY <1>1, FS_RemoveElement
  <2>2. Cardinality(s) \in Nat /\ s \ {x} \in SUBSET S
    BY <1>1
  <2>3. SUFFICES ASSUME s \ {x} \in Bad PROVE FALSE
    BY <2>2
  <2>4. n <= Cardinality(s \ {x})
    BY <1>4, <2>3
  <2> QED BY ONLY <2>1, <2>2, <2>4, <1>5
<1>7. s # {}
  OBVIOUS
<1> QED BY <1>6, <1>7

(* C chooses the element that a fold over S takes last from each subset,   *)
(* and f is the iteration of the fold, as the library defines it, starting *)
(* from b, with the step F.                                                *)
Chooses(C, S) == \A s \in SUBSET S : s # {} => C[s] \in s
Iterates(f, S, C, b, F) ==
  \A s \in SUBSET S : f[s] = IF s = {} THEN b ELSE F[<<C[s], f[s \ {C[s]}]>>]
Invariant(I, S, T, b, F) ==
  /\ I \in SUBSET ((SUBSET S) \X T) /\ <<{}, b>> \in I
  /\ \A s \in SUBSET S : \A x \in S \ s : \A h \in T :
       <<s, h>> \in I => <<s \cup {x}, F[<<x, h>>]>> \in I
Within(f, I, S) == \A s \in SUBSET S : <<s, f[s]>> \in I
StaysIn(F, S, T) == \A x \in S, h \in T : F[<<x, h>>] \in T

(* A fold over a finite set is defined: its iteration, that the library    *)
(* writes as a recursive function, exists, by the size of the subsets.     *)
LEMMA FoldExists ==
  ASSUME NEW S, IsFiniteSet(S), NEW C, Chooses(C, S),
         NEW H, NEW b \in H, NEW F, StaysIn(F, S, H)
  PROVE  \E f \in [SUBSET S -> H] : Iterates(f, S, C, b, F)
<1> DEFINE L(n) == {s \in SUBSET S : Cardinality(s) <= n}
           Step(f, s) == IF s = {} THEN b ELSE F[<<C[s], f[s \ {C[s]}]>>]
           Missing == {n \in Nat : ~\E f \in [L(n) -> H] : \A s \in L(n) : f[s] = Step(f, s)}
<1>1. \A s \in SUBSET S : IsFiniteSet(s) /\ Cardinality(s) \in Nat
  BY FS_Subset, FS_CardinalityType
<1>2. \A s \in SUBSET S : s # {} =>
        /\ C[s] \in S /\ s \ {C[s]} \in SUBSET S
        /\ Cardinality(s \ {C[s]}) = Cardinality(s) - 1
  BY <1>1, FS_RemoveElement DEF Chooses
<1>3. Missing = {}
  <2> SUFFICES ASSUME Missing # {} PROVE FALSE
    OBVIOUS
  <2>1. PICK n \in Missing : \A m \in Missing : n <= m
    <3>1. Missing \in SUBSET Nat
      OBVIOUS
    <3> HIDE DEF Missing
    <3> QED BY <3>1, LeastExists
  <2>2. n # 0
    <3>1. \A s \in L(0) : s = {}
      BY <1>1, FS_EmptySet
    <3>2. [s \in L(0) |-> b] \in [L(0) -> H]
      OBVIOUS
    <3>3. \A s \in L(0) : [t \in L(0) |-> b][s] = Step([t \in L(0) |-> b], s)
      BY <3>1
    <3>4. 0 \notin Missing
      BY <3>2, <3>3
    <3> QED BY <3>4
  <2>3. n - 1 \in Nat /\ n - 1 \notin Missing
    <3>1. n \in Nat
      OBVIOUS
    <3> HIDE DEF Missing
    <3> QED BY <2>1, <2>2, <3>1
  <2>4. PICK f \in [L(n - 1) -> H] : \A s \in L(n - 1) : f[s] = Step(f, s)
    BY <2>3
  <2> DEFINE g == [s \in L(n) |-> IF s \in L(n - 1) THEN f[s] ELSE Step(f, s)]
  <2>5. \A s \in L(n) : s # {} => s \ {C[s]} \in L(n - 1)
    BY <1>1, <1>2, <2>3
  <2>6. g \in [L(n) -> H]
    BY <1>2, <2>5 DEF StaysIn
  <2>7. ASSUME NEW s \in L(n) PROVE g[s] = Step(g, s)
    <3>1. CASE s = {}
      BY <3>1, <2>4
    <3>2. CASE s # {}
      <4>1. s \ {C[s]} \in L(n - 1) /\ s \ {C[s]} \in L(n)
        BY <3>2, <2>5, <1>1, <2>3
      <4>2. g[s \ {C[s]}] = f[s \ {C[s]}]
        BY <4>1
      <4>3. g[s] = F[<<C[s], f[s \ {C[s]}]>>]
        BY <3>2, <2>4
      <4> QED BY <3>2, <4>2, <4>3
    <3> QED BY <3>1, <3>2
  <2> QED
    <3>1. \E h \in [L(n) -> H] : \A s \in L(n) : h[s] = Step(h, s)
      <4> HIDE DEF g, L
      <4> QED BY <2>6, <2>7
    <3> QED BY <3>1, <2>1
<1>4. Cardinality(S) \in Nat /\ L(Cardinality(S)) = SUBSET S
  BY <1>1, FS_Subset
<1>5. PICK f \in [SUBSET S -> H] : \A s \in SUBSET S : f[s] = Step(f, s)
  <2>1. \A n \in Nat : \E f \in [L(n) -> H] : \A s \in L(n) : f[s] = Step(f, s)
    BY <1>3
  <2> HIDE DEF L, Step, Missing
  <2> QED BY <1>4, <2>1
<1> QED BY <1>5 DEF Iterates

(* The fold over S that takes C[s] last from s, with an invariant I of the  *)
(* sets folded so far and their results.  G is total, and a result outside *)
(* of T is of no account: the invariant excludes it.                       *)
LEMMA FoldHolds ==
  ASSUME NEW S, IsFiniteSet(S), NEW C, Chooses(C, S),
         NEW T, NEW b, NEW G, NEW I, Invariant(I, S, T, b, G)
  PROVE  \E f \in [SUBSET S -> T] : Iterates(f, S, C, b, G) /\ Within(f, I, S)
<1> DEFINE F == [y \in S \X T |-> IF G[y] \in T THEN G[y] ELSE y[2]]
<1>1. b \in T /\ \A s, h : <<s, h>> \in I => s \in SUBSET S /\ h \in T
  BY DEF Invariant
<1>2. \A x \in S, h \in T : F[<<x, h>>] = IF G[<<x, h>>] \in T THEN G[<<x, h>>] ELSE h
  OBVIOUS
<1>3. StaysIn(F, S, T)
  BY <1>2 DEF StaysIn
<1> HIDE DEF F
<1>4. PICK f \in [SUBSET S -> T] : Iterates(f, S, C, b, F)
  BY ONLY <1>1, <1>3, IsFiniteSet(S), Chooses(C, S), FoldExists
<1>5. \A s \in SUBSET S : f[s] = IF s = {} THEN b ELSE F[<<C[s], f[s \ {C[s]}]>>]
  BY <1>4 DEF Iterates
<1>6. ASSUME NEW s \in SUBSET S, s # {}, <<s \ {C[s]}, f[s \ {C[s]}]>> \in I
      PROVE  /\ <<s, f[s]>> \in I
             /\ F[<<C[s], f[s \ {C[s]}]>>] = G[<<C[s], f[s \ {C[s]}]>>]
  <2>1. /\ C[s] \in S \ (s \ {C[s]}) /\ s \ {C[s]} \in SUBSET S /\ f[s \ {C[s]}] \in T
        /\ (s \ {C[s]}) \cup {C[s]} = s
    BY <1>6 DEF Chooses
  <2>2. <<s, G[<<C[s], f[s \ {C[s]}]>>]>> \in I
    BY <1>6, <2>1 DEF Invariant
  <2>3. G[<<C[s], f[s \ {C[s]}]>>] \in T
    BY <1>1, <2>2
  <2> QED BY <1>2, <1>5, <1>6, <2>1, <2>2, <2>3
<1> DEFINE Good == {s \in SUBSET S : \A r \in SUBSET s : <<r, f[r]>> \in I}
<1>7. S \in Good
  <2>1. {} \in Good
    BY <1>5 DEF Invariant
  <2>2. ASSUME NEW s \in SUBSET S, s # {}, \A x \in s : s \ {x} \in Good
        PROVE  s \in Good
    <3>1. C[s] \in s
      BY <2>2 DEF Chooses
    <3>2. <<s \ {C[s]}, f[s \ {C[s]}]>> \in I
      BY <3>1, <2>2
    <3>3. <<s, f[s]>> \in I
      BY <1>6, <2>2, <3>2
    <3>4. ASSUME NEW r \in SUBSET s, r # s PROVE <<r, f[r]>> \in I
      <4>1. PICK x \in s : x \notin r
        BY <3>4
      <4>2. s \ {x} \in Good /\ r \in SUBSET (s \ {x})
        BY <2>2, <4>1
      <4> QED BY <4>2
    <3> QED BY <3>3, <3>4
  <2> HIDE DEF Good
  <2>3. IsFiniteSet(S)
    OBVIOUS
  <2> QED BY ONLY <2>1, <2>2, <2>3, SetInduct
<1>8. \A s \in SUBSET S : <<s, f[s]>> \in I /\ f[s] \in T
  BY <1>7
<1>9. \A s \in SUBSET S : f[s] = IF s = {} THEN b ELSE G[<<C[s], f[s \ {C[s]}]>>]
  <2> TAKE s \in SUBSET S
  <2>1. CASE s # {}
    <3>1. s \ {C[s]} \in SUBSET S
      OBVIOUS
    <3> QED BY <1>5, <1>6, <1>8, <2>1, <3>1
  <2> QED BY <1>5, <2>1
<1> QED BY <1>8, <1>9 DEF Iterates, Within

(* Hence what the library's choice of an iteration returns: any iteration  *)
(* keeps the invariant.                                                    *)
LEMMA FoldKeeps ==
  ASSUME NEW S, IsFiniteSet(S), NEW C, Chooses(C, S), NEW g, NEW I, <<{}, g[{}]>> \in I,
         \A s \in SUBSET S : s # {} /\ <<s \ {C[s]}, g[s \ {C[s]}]>> \in I => <<s, g[s]>> \in I
  PROVE  <<S, g[S]>> \in I
<1> DEFINE Good == {s \in SUBSET S : \A r \in SUBSET s : <<r, g[r]>> \in I}
<1>1. {} \in Good
  <2>1. \A r \in SUBSET {} : r = {}
    OBVIOUS
  <2> QED BY <2>1
<1>2. ASSUME NEW s \in SUBSET S, s # {}, \A x \in s : s \ {x} \in Good
      PROVE  s \in Good
  <2>1. C[s] \in s
    BY <1>2 DEF Chooses
  <2>2. <<s \ {C[s]}, g[s \ {C[s]}]>> \in I
    BY <2>1, <1>2
  <2>3. <<s, g[s]>> \in I
    BY <1>2, <2>2
  <2>4. ASSUME NEW r \in SUBSET s, r # s PROVE <<r, g[r]>> \in I
    <3>1. PICK x \in s : x \notin r
      BY <2>4
    <3>2. s \ {x} \in Good /\ r \in SUBSET (s \ {x})
      BY <1>2, <3>1
    <3> QED BY <3>2
  <2> QED BY <2>3, <2>4
<1>3. S \in Good
  <2> HIDE DEF Good
  <2> QED BY ONLY <1>1, <1>2, IsFiniteSet(S), SetInduct
<1> QED BY <1>3

LEMMA MaxIsGreatest ==
  ASSUME NEW S \in SUBSET Nat, S # {}, NEW b \in Nat, \A x \in S : x <= b
  PROVE  Max(S) \in S /\ \A y \in S : y <= Max(S)
<1> DEFINE B == {n \in Nat : \A x \in S : x <= n}
<1>1. PICK m \in B : \A n \in B : m <= n
  <2>1. B \in SUBSET Nat /\ B # {}
    OBVIOUS
  <2> HIDE DEF B
  <2> QED BY <2>1, LeastExists
<1>2. m \in S
  <2> SUFFICES ASSUME m \notin S PROVE FALSE
    OBVIOUS
  <2>0. m \in Nat /\ \A x \in S : x \in Nat /\ x < m
    BY <1>1
  <2>1. m # 0
    <3>1. PICK x \in S : TRUE
      OBVIOUS
    <3> QED BY <2>0, <3>1
  <2>2. m - 1 \in B
    BY <2>0, <2>1
  <2> QED BY <1>1, <2>2
<1> QED BY <1>1, <1>2 DEF Max

-----------------------------------------------------------------------------
(* The entries of a Map.                                                   *)

Distinct(s) == \A i, j \in DOMAIN s : s[i].key = s[j].key => i = j

Has(s, e)   == \E i \in DOMAIN s : s[i] = e

LEMMA RemoveAtFacts ==
  ASSUME NEW S, NEW s \in Seq(S), NEW i \in DOMAIN s
  PROVE  /\ RemoveAt(s, i) \in Seq(S)
         /\ DOMAIN RemoveAt(s, i) = 1..(Len(s) - 1)
         /\ \A j \in 1..(Len(s) - 1) : RemoveAt(s, i)[j] = IF j < i THEN s[j] ELSE s[j + 1]
<1> DEFINE a == SubSeq(s, 1, i - 1)
           b == SubSeq(s, i + 1, Len(s))
<1>0. i \in Nat /\ 1 <= i /\ i <= Len(s) /\ Len(s) \in Nat /\ DOMAIN s = 1..Len(s)
  OBVIOUS
<1>1. a \in Seq(S) /\ Len(a) = i - 1 /\ \A j \in 1..(i - 1) : a[j] = s[j]
  BY <1>0
<1>2. b \in Seq(S) /\ Len(b) = Len(s) - i /\ \A j \in 1..(Len(s) - i) : b[j] = s[i + j]
  BY <1>0
<1> HIDE DEF a, b
<1>c. /\ a \o b \in Seq(S) /\ Len(a \o b) = Len(a) + Len(b)
      /\ \A j \in 1..(Len(a) + Len(b)) : (a \o b)[j] = IF j <= Len(a) THEN a[j] ELSE b[j - Len(a)]
  BY ONLY <1>1, <1>2, ConcatProperties
<1>d. Len(a) + Len(b) = Len(s) - 1
  BY <1>0, <1>1, <1>2
<1>3. /\ a \o b \in Seq(S) /\ Len(a \o b) = Len(s) - 1 /\ DOMAIN (a \o b) = 1..(Len(s) - 1)
  BY <1>c, <1>d
<1>4. \A j \in 1..(Len(s) - 1) : (a \o b)[j] = IF j < i THEN s[j] ELSE s[j + 1]
  <2> TAKE j \in 1..(Len(s) - 1)
  <2>0. (a \o b)[j] = IF j <= i - 1 THEN a[j] ELSE b[j - (i - 1)]
    <3>1. j \in 1..(Len(a) + Len(b))
      BY <1>d
    <3> QED BY ONLY <3>1, <1>c, <1>1
  <2>1. CASE j < i
    BY <2>0, <2>1, <1>0, <1>1
  <2>2. CASE ~(j < i)
    <3>1. (a \o b)[j] = b[j - (i - 1)]
      BY <2>0, <2>2, <1>0
    <3>2. j - (i - 1) \in 1..(Len(s) - i) /\ i + (j - (i - 1)) = j + 1
      BY <2>2, <1>0
    <3> QED BY <2>2, <3>1, <3>2, <1>2
  <2> QED BY <2>1, <2>2
<1> QED BY <1>3, <1>4 DEF RemoveAt, a, b

LEMMA DeleteFacts ==
  ASSUME NEW s \in Seq(Entries), NEW k
  PROVE  /\ Delete(s, k) \in Seq(Entries)
         /\ Distinct(s) => /\ Distinct(Delete(s, k))
                           /\ \A e : Has(Delete(s, k), e) <=> e.key # k /\ Has(s, e)
                           /\ KeysIn(Delete(s, k)) = KeysIn(s) \ {k}
<1>1. CASE k \notin KeysIn(s)
  <2>1. Delete(s, k) = s
    BY <1>1 DEF Delete
  <2> QED BY <1>1, <2>1 DEF KeysIn, Has
<1>2. CASE k \in KeysIn(s)
  <2> DEFINE n == CHOOSE i \in DOMAIN s : s[i].key = k
             d == RemoveAt(s, n)
  <2>1. n \in DOMAIN s /\ s[n].key = k
    BY <1>2 DEF KeysIn
  <2> HIDE DEF n
  <2>2. /\ d \in Seq(Entries) /\ DOMAIN d = 1..(Len(s) - 1)
        /\ \A j \in 1..(Len(s) - 1) : d[j] = IF j < n THEN s[j] ELSE s[j + 1]
    BY ONLY <2>1, RemoveAtFacts, s \in Seq(Entries)
  <2>3. Delete(s, k) = d
    BY <1>2 DEF Delete, n
  <2> HIDE DEF d
  <2>4. DOMAIN s = 1..Len(s) /\ Len(s) \in Nat /\ n \in Nat
    BY <2>1
  <2> SUFFICES ASSUME Distinct(s)
               PROVE  /\ Distinct(d)
                      /\ \A e : Has(d, e) <=> e.key # k /\ Has(s, e)
                      /\ KeysIn(d) = KeysIn(s) \ {k}
    BY <2>2, <2>3
  <2>5. \A j \in DOMAIN d : \E i \in DOMAIN s :
          i # n /\ d[j] = s[i] /\ i = IF j < n THEN j ELSE j + 1
    BY <2>1, <2>2, <2>4
  <2>6. \A i \in DOMAIN s : i # n => \E j \in DOMAIN d : d[j] = s[i]
    <3> TAKE i \in DOMAIN s
    <3> HAVE i # n
    <3>1. CASE i < n
      <4>1. i \in DOMAIN d /\ d[i] = s[i]
        BY <3>1, <2>1, <2>2, <2>4
      <4> QED BY <4>1
    <3>2. CASE ~(i < n)
      <4>1. i - 1 \in DOMAIN d /\ d[i - 1] = s[i]
        BY <3>2, <2>1, <2>2, <2>4
      <4> QED BY <4>1
    <3> QED BY <3>1, <3>2
  <2>7. \A i \in DOMAIN s : s[i].key = k <=> i = n
    BY <2>1 DEF Distinct
  <2>8. Distinct(d)
    <3> SUFFICES ASSUME NEW i \in DOMAIN d, NEW j \in DOMAIN d, d[i].key = d[j].key
                 PROVE  i = j
      BY DEF Distinct
    <3>1. PICK a \in DOMAIN s : a # n /\ d[i] = s[a] /\ a = IF i < n THEN i ELSE i + 1
      BY <2>5
    <3>2. PICK b \in DOMAIN s : b # n /\ d[j] = s[b] /\ b = IF j < n THEN j ELSE j + 1
      BY <2>5
    <3>3. a = b
      BY <3>1, <3>2 DEF Distinct
    <3>4. i \in Nat /\ j \in Nat /\ n \in Nat
      BY <2>2, <2>4
    <3> QED BY ONLY <3>1, <3>2, <3>3, <3>4
  <2>9. \A e : Has(d, e) <=> e.key # k /\ Has(s, e)
    BY <2>5, <2>6, <2>7 DEF Has
  <2>10. KeysIn(d) = KeysIn(s) \ {k}
    BY <2>5, <2>6, <2>7 DEF KeysIn
  <2> QED BY <2>8, <2>9, <2>10
<1> QED BY <1>1, <1>2

-----------------------------------------------------------------------------
(* The pacer, method by method.                                            *)

(* What the gateway has, or will have when the queue gets there.           *)
Asks(p, k, l) ==
  IF k \in Queued(p) THEN \E i \in DOMAIN p.queue : p.queue[i] = [key |-> k, level |-> l]
  ELSE p.sent[k] = l
Free(p, k) == k \notin Queued(p) /\ p.flying[k] = "no"
Promised(p, u, k) == u \in p.resent[k] \/ k \in Queued(p)

Orderly(p) ==
  /\ p \in Pacers
  /\ Distinct(p.queue)
  /\ \A k \in Queued(p) : p.flying[k] = "no" /\ p.sent[k] # "full"
  /\ Cardinality(InFlight(p)) <= Window
Awake(p) == p.queue # <<>> => p.timer # "off"

(* What a method leaves of a key.                                          *)
Keeps(p, q, k) ==
  /\ \A l : Asks(p, k, l) => Asks(q, k, l)
  /\ \A u \in p.declared : Promised(p, u, k) => Promised(q, u, k)
  /\ Free(p, k) => Free(q, k) /\ q.sent[k] = p.sent[k]
Same(p, q) == q.ready = p.ready /\ q.declared = p.declared

LEMMA PacerFields ==
  ASSUME NEW p \in Pacers
  PROVE  /\ p.ready \in BOOLEAN /\ p.queue \in Seq(Entries) /\ p.tracking \in BOOLEAN
         /\ p.flying \in [Keys -> {"no", "fresh", "overdue"}] /\ p.timer \in {"off", "armed", "due"}
         /\ p.sent \in [Keys -> {"none"} \cup Levels] /\ p.declared \in SUBSET Users
         /\ p.resent \in [Keys -> SUBSET Users]
BY DEF Pacers

LEMMA QueueFacts ==
  ASSUME NEW p \in Pacers
  PROVE  /\ p.queue \in Seq(Entries) /\ Len(p.queue) \in Nat /\ DOMAIN p.queue = 1..Len(p.queue)
         /\ \A i \in 1..Len(p.queue) : /\ p.queue[i] \in Entries
                                       /\ p.queue[i].key \in Keys /\ p.queue[i].level \in Levels
<1>1. p.queue \in Seq(Entries)
  BY PacerFields
<1>2. \A e \in Entries : e.key \in Keys /\ e.level \in Levels
  BY DEF Entries
<1>3. /\ Len(p.queue) \in Nat /\ DOMAIN p.queue = 1..Len(p.queue)
      /\ \A i \in 1..Len(p.queue) : p.queue[i] \in Entries
  BY ONLY <1>1
<1> QED BY ONLY <1>1, <1>2, <1>3

LEMMA InFlightFinite ==
  ASSUME NEW p
  PROVE  IsFiniteSet(InFlight(p)) /\ Cardinality(InFlight(p)) \in Nat
<1>1. InFlight(p) \in SUBSET Keys /\ IsFiniteSet(Keys)
  BY FiniteAssumption DEF InFlight
<1> QED BY <1>1, FS_Subset, FS_CardinalityType

LEMMA QueuedKeys ==
  ASSUME NEW p \in Pacers
  PROVE  Queued(p) \subseteq Keys
<1>1. p.queue \in Seq(Entries)
  BY PacerFields
<1>2. ASSUME NEW i \in DOMAIN p.queue PROVE p.queue[i].key \in Keys
  <2>1. p.queue[i] \in Entries
    BY <1>1
  <2> QED BY <2>1 DEF Entries
<1> QED BY <1>2 DEF Queued, KeysIn

(* A pacer with another value of one field.                                *)
LEMMA WithQueue ==
  ASSUME NEW p \in Pacers, NEW v \in Seq(Entries), NEW q, q = [p EXCEPT !.queue = v]
  PROVE  /\ q \in Pacers /\ Same(p, q) /\ q.queue = v /\ q.flying = p.flying
         /\ q.timer = p.timer /\ q.tracking = p.tracking /\ q.sent = p.sent /\ q.resent = p.resent
BY DEF Pacers, Same

LEMMA WithFlying ==
  ASSUME NEW p \in Pacers, NEW v \in [Keys -> {"no", "fresh", "overdue"}],
         NEW q, q = [p EXCEPT !.flying = v]
  PROVE  /\ q \in Pacers /\ Same(p, q) /\ q.flying = v /\ q.queue = p.queue
         /\ q.timer = p.timer /\ q.tracking = p.tracking /\ q.sent = p.sent /\ q.resent = p.resent
BY DEF Pacers, Same

LEMMA WithTimer ==
  ASSUME NEW p \in Pacers, NEW v \in {"off", "armed", "due"}, NEW q, q = [p EXCEPT !.timer = v]
  PROVE  /\ q \in Pacers /\ Same(p, q) /\ q.timer = v /\ q.queue = p.queue
         /\ q.flying = p.flying /\ q.tracking = p.tracking /\ q.sent = p.sent /\ q.resent = p.resent
BY DEF Pacers, Same

LEMMA SendFacts ==
  ASSUME NEW p \in Pacers, NEW k \in Keys, NEW l \in Levels, NEW q, q = SendSubscription(p, k, l)
  PROVE  /\ q \in Pacers /\ Same(p, q)
         /\ q.queue = p.queue /\ q.flying = p.flying /\ q.timer = p.timer /\ q.tracking = p.tracking
         /\ q.sent[k] = l /\ q.resent[k] = p.declared
         /\ \A x \in Keys : x # k => q.sent[x] = p.sent[x] /\ q.resent[x] = p.resent[x]
<1> DEFINE v == [p.sent EXCEPT ![k] = l]
           w == [p.resent EXCEPT ![k] = p.declared]
<1>1. v \in [Keys -> {"none"} \cup Levels] /\ v[k] = l /\ \A x \in Keys : x # k => v[x] = p.sent[x]
  BY PacerFields
<1>2. /\ w \in [Keys -> SUBSET Users] /\ w[k] = p.declared
      /\ \A x \in Keys : x # k => w[x] = p.resent[x]
  BY PacerFields
<1>3. q = [p EXCEPT !.sent = v, !.resent = w]
  BY DEF SendSubscription
<1> HIDE DEF v, w
<1>4. /\ q \in Pacers /\ Same(p, q) /\ q.sent = v /\ q.resent = w
      /\ q.queue = p.queue /\ q.flying = p.flying /\ q.timer = p.timer /\ q.tracking = p.tracking
  BY ONLY <1>1, <1>2, <1>3, p \in Pacers DEF Pacers, Same
<1> QED BY <1>1, <1>2, <1>4

LEMMA UnsendFacts ==
  ASSUME NEW p \in Pacers, NEW k \in Keys, NEW q, q = SendUnsubscription(p, k)
  PROVE  /\ q \in Pacers /\ Same(p, q)
         /\ q.queue = p.queue /\ q.flying = p.flying /\ q.timer = p.timer /\ q.tracking = p.tracking
         /\ q.sent[k] = "none"
         /\ \A x \in Keys : x # k => q.sent[x] = p.sent[x] /\ q.resent[x] = p.resent[x]
<1> DEFINE v == [p.sent EXCEPT ![k] = "none"]
           w == [p.resent EXCEPT ![k] = {}]
<1>1. /\ v \in [Keys -> {"none"} \cup Levels] /\ v[k] = "none"
      /\ \A x \in Keys : x # k => v[x] = p.sent[x]
  BY PacerFields
<1>2. w \in [Keys -> SUBSET Users] /\ \A x \in Keys : x # k => w[x] = p.resent[x]
  BY PacerFields
<1>3. q = [p EXCEPT !.sent = v, !.resent = w]
  BY DEF SendUnsubscription
<1> HIDE DEF v, w
<1>4. /\ q \in Pacers /\ Same(p, q) /\ q.sent = v /\ q.resent = w
      /\ q.queue = p.queue /\ q.flying = p.flying /\ q.timer = p.timer /\ q.tracking = p.tracking
  BY ONLY <1>1, <1>2, <1>3, p \in Pacers DEF Pacers, Same
<1> QED BY <1>1, <1>2, <1>4

LEMMA DispatchFacts ==
  ASSUME NEW p \in Pacers, NEW e \in Entries, NEW q, q = Dispatch(p, e)
  PROVE  /\ q \in Pacers /\ Same(p, q)
         /\ q.queue = p.queue /\ q.timer = p.timer /\ q.tracking = p.tracking
         /\ q.sent[e.key] = e.level /\ q.resent[e.key] = p.declared /\ q.flying[e.key] = "fresh"
         /\ \A x \in Keys : x # e.key =>
              q.sent[x] = p.sent[x] /\ q.resent[x] = p.resent[x] /\ q.flying[x] = p.flying[x]
         /\ InFlight(q) = InFlight(p) \cup {e.key}
<1> DEFINE r == SendSubscription(p, e.key, e.level)
<1>0. e.key \in Keys /\ e.level \in Levels
  BY DEF Entries
<1>1. /\ r \in Pacers /\ Same(p, r)
      /\ r.queue = p.queue /\ r.flying = p.flying /\ r.timer = p.timer /\ r.tracking = p.tracking
      /\ r.sent[e.key] = e.level /\ r.resent[e.key] = p.declared
      /\ \A x \in Keys : x # e.key => r.sent[x] = p.sent[x] /\ r.resent[x] = p.resent[x]
  BY <1>0, SendFacts
<1> HIDE DEF r
<1> DEFINE v == [r.flying EXCEPT ![e.key] = "fresh"]
<1>2. q = [r EXCEPT !.flying = v]
  BY DEF Dispatch, r
<1>6. v \in [Keys -> {"no", "fresh", "overdue"}]
  BY <1>0, <1>1, PacerFields
<1> HIDE DEF v
<1>7. /\ q \in Pacers /\ Same(r, q) /\ q.flying = v /\ q.queue = r.queue
      /\ q.timer = r.timer /\ q.tracking = r.tracking /\ q.sent = r.sent /\ q.resent = r.resent
  BY ONLY <1>1, <1>2, <1>6, WithFlying
<1>3. /\ q \in Pacers /\ q.ready = r.ready /\ q.declared = r.declared /\ q.queue = r.queue
      /\ q.timer = r.timer /\ q.tracking = r.tracking /\ q.sent = r.sent /\ q.resent = r.resent
      /\ q.flying = [r.flying EXCEPT ![e.key] = "fresh"]
  BY ONLY <1>7 DEF Same, v
<1>4. InFlight(q) = InFlight(p) \cup {e.key}
  BY <1>0, <1>1, <1>3, PacerFields DEF InFlight
<1>5. q.flying[e.key] = "fresh" /\ \A x \in Keys : x # e.key => q.flying[x] = p.flying[x]
  BY <1>0, <1>1, <1>3, PacerFields
<1> QED BY <1>1, <1>3, <1>4, <1>5 DEF Same

(* The items of the queue that #pump sends.                                *)
Room(p) == Window - Cardinality(InFlight(p))
Going(p) ==
  IF p.ready /\ Room(p) > 0 THEN IF Len(p.queue) < Room(p) THEN Len(p.queue) ELSE Room(p) ELSE 0

(* After the items at the places s have been sent.                         *)
Sent(p, s, q) ==
  /\ q \in Pacers /\ Same(p, q) /\ q.timer = p.timer /\ q.tracking = p.tracking
  /\ q.queue = SubSeq(p.queue, Going(p) + 1, Len(p.queue))
  /\ \A i \in s : LET e == p.queue[i]
                  IN  /\ q.resent[e.key] = p.declared /\ q.flying[e.key] = "fresh"
                      /\ Distinct(p.queue) => q.sent[e.key] = e.level
  /\ \A k \in Keys : (\A i \in s : p.queue[i].key # k) =>
       q.sent[k] = p.sent[k] /\ q.resent[k] = p.resent[k] /\ q.flying[k] = p.flying[k]
  /\ Cardinality(InFlight(q)) <= Cardinality(InFlight(p)) + Cardinality(s)

LEMMA GoingFacts ==
  ASSUME NEW p \in Pacers
  PROVE  /\ Going(p) \in 0..Len(p.queue) /\ Len(p.queue) \in Nat /\ DOMAIN p.queue = 1..Len(p.queue)
         /\ Going(p) > 0 => p.ready /\ Cardinality(InFlight(p)) + Going(p) <= Window
         /\ p.ready /\ Going(p) < Len(p.queue) => Cardinality(InFlight(p)) + Going(p) >= Window
<1>1. p.queue \in Seq(Entries) /\ p.ready \in BOOLEAN
  BY PacerFields
<1>2. Cardinality(InFlight(p)) \in Nat /\ Window \in Nat
  BY InFlightFinite, WindowAssumption
<1>3. Len(p.queue) \in Nat /\ DOMAIN p.queue = 1..Len(p.queue)
  BY <1>1
<1>4. Room(p) \in Int
  BY <1>2 DEF Room
<1>5. CASE p.ready /\ Room(p) > 0
  BY <1>2, <1>3, <1>4, <1>5 DEF Going, Room
<1>6. CASE ~(p.ready /\ Room(p) > 0)
  BY <1>2, <1>3, <1>4, <1>6 DEF Going, Room
<1> QED BY <1>5, <1>6

LEMMA SentFirst ==
  ASSUME NEW p \in Pacers,
         NEW q, q = [p EXCEPT !.queue = SubSeq(p.queue, Going(p) + 1, Len(p.queue))]
  PROVE  Sent(p, {}, q)
<1>1. p.queue \in Seq(Entries)
  BY PacerFields
<1> DEFINE t == SubSeq(p.queue, Going(p) + 1, Len(p.queue))
<1>2. t \in Seq(Entries)
  <2>1. Going(p) + 1 \in 1..(Len(p.queue) + 1) /\ Len(p.queue) \in Nat
    BY GoingFacts
  <2>2. \A n \in 1..(Len(p.queue) + 1) : SubSeq(p.queue, n, Len(p.queue)) \in Seq(Entries)
    BY <1>1
  <2> QED BY ONLY <2>1, <2>2
<1> HIDE DEF t
<1>3. /\ q \in Pacers /\ q.ready = p.ready /\ q.declared = p.declared /\ q.timer = p.timer
      /\ q.tracking = p.tracking /\ q.sent = p.sent /\ q.resent = p.resent /\ q.flying = p.flying
      /\ q.queue = t
  <2>1. q = [p EXCEPT !.queue = t]
    BY DEF t
  <2>2. /\ q \in Pacers /\ Same(p, q) /\ q.queue = t /\ q.flying = p.flying
        /\ q.timer = p.timer /\ q.tracking = p.tracking /\ q.sent = p.sent /\ q.resent = p.resent
    BY ONLY <2>1, <1>2, WithQueue, p \in Pacers
  <2> QED BY ONLY <2>2 DEF Same
<1>4. InFlight(q) = InFlight(p) /\ Cardinality({}) = 0 /\ Cardinality(InFlight(p)) \in Nat
  BY <1>3, FS_EmptySet, InFlightFinite DEF InFlight
<1>5. Cardinality(InFlight(q)) <= Cardinality(InFlight(p)) + Cardinality({})
  BY <1>4
<1> QED BY <1>3, <1>5 DEF Sent, Same, t

LEMMA SentOneMore ==
  ASSUME NEW p \in Pacers, NEW s \in SUBSET (1..Going(p)), NEW i \in s, NEW r, Sent(p, s \ {i}, r),
         NEW q, q = Dispatch(r, p.queue[i])
  PROVE  Sent(p, s, q)
<1> DEFINE e == p.queue[i]
<1>1. i \in DOMAIN p.queue /\ 1..Going(p) \subseteq DOMAIN p.queue
  BY GoingFacts
<1>2. e \in Entries /\ \A j \in s : p.queue[j] \in Entries /\ p.queue[j].key \in Keys
  <2>1. \A j \in DOMAIN p.queue : p.queue[j] \in Entries
    BY PacerFields
  <2>2. \A x \in Entries : x.key \in Keys
    BY DEF Entries
  <2> QED BY ONLY <1>1, <2>1, <2>2, s \in SUBSET (1..Going(p)), i \in s
<1>3. /\ q \in Pacers /\ Same(r, q)
      /\ q.queue = r.queue /\ q.timer = r.timer /\ q.tracking = r.tracking
      /\ q.sent[e.key] = e.level /\ q.resent[e.key] = r.declared /\ q.flying[e.key] = "fresh"
      /\ \A x \in Keys : x # e.key =>
           q.sent[x] = r.sent[x] /\ q.resent[x] = r.resent[x] /\ q.flying[x] = r.flying[x]
      /\ InFlight(q) = InFlight(r) \cup {e.key}
  BY <1>2, DispatchFacts DEF Sent
<1> HIDE DEF e
<1>4. Same(p, q) /\ q.timer = p.timer /\ q.tracking = p.tracking /\ r.declared = p.declared
      /\ q.queue = SubSeq(p.queue, Going(p) + 1, Len(p.queue))
  BY <1>3 DEF Sent, Same
<1>5. ASSUME NEW j \in s
      PROVE  /\ q.resent[p.queue[j].key] = p.declared /\ q.flying[p.queue[j].key] = "fresh"
             /\ Distinct(p.queue) => q.sent[p.queue[j].key] = p.queue[j].level
  <2>1. CASE j = i
    BY <2>1, <1>3, <1>4 DEF e
  <2>2. CASE j # i
    <3>1. /\ r.resent[p.queue[j].key] = p.declared /\ r.flying[p.queue[j].key] = "fresh"
          /\ Distinct(p.queue) => r.sent[p.queue[j].key] = p.queue[j].level
      BY <2>2 DEF Sent
    <3>2. CASE p.queue[j].key # e.key
      BY <3>1, <3>2, <1>2, <1>3
    <3>3. CASE p.queue[j].key = e.key
      <4>1. ~Distinct(p.queue)
        BY <3>3, <2>2, <1>1 DEF Distinct, e
      <4> QED BY <3>3, <4>1, <1>3, <1>4
    <3> QED BY <3>2, <3>3
  <2> QED BY <2>1, <2>2
<1>6. ASSUME NEW k \in Keys, \A j \in s : p.queue[j].key # k
      PROVE  q.sent[k] = p.sent[k] /\ q.resent[k] = p.resent[k] /\ q.flying[k] = p.flying[k]
  <2>1. r.sent[k] = p.sent[k] /\ r.resent[k] = p.resent[k] /\ r.flying[k] = p.flying[k]
    BY <1>6 DEF Sent
  <2>2. k # e.key
    BY <1>6 DEF e
  <2> QED BY <2>1, <2>2, <1>3
<1>7. Cardinality(InFlight(q)) <= Cardinality(InFlight(p)) + Cardinality(s)
  <2>1. IsFiniteSet(1..Going(p))
    <3>1. Going(p) \in Int
      BY GoingFacts
    <3> QED BY <3>1, FS_Interval
  <2>2. IsFiniteSet(s) /\ Cardinality(s) \in Nat
    BY <2>1, FS_Subset, FS_CardinalityType
  <2>3. Cardinality(s \ {i}) = Cardinality(s) - 1
    BY <2>2, FS_RemoveElement
  <2>4. Cardinality(InFlight(q)) <= Cardinality(InFlight(r)) + 1
    <3>1. IsFiniteSet(InFlight(r)) /\ Cardinality(InFlight(r)) \in Nat
      BY InFlightFinite
    <3>2. Cardinality(InFlight(r) \cup {e.key}) =
            IF e.key \in InFlight(r) THEN Cardinality(InFlight(r)) ELSE Cardinality(InFlight(r)) + 1
      BY <3>1, FS_AddElement
    <3> QED BY <3>1, <3>2, <1>3
  <2>5. Cardinality(InFlight(r)) <= Cardinality(InFlight(p)) + Cardinality(s \ {i})
    BY DEF Sent
  <2>6. Cardinality(InFlight(p)) \in Nat /\ Cardinality(InFlight(q)) \in Nat /\ Cardinality(InFlight(r)) \in Nat
    BY InFlightFinite
  <2> QED BY ONLY <2>2, <2>3, <2>4, <2>5, <2>6
<1> QED BY <1>3, <1>4, <1>5, <1>6, <1>7 DEF Sent

LEMMA PumpFacts ==
  ASSUME NEW p \in Pacers, NEW q, q = Pump(p)
  PROVE  Sent(p, 1..Going(p), q)
<1> DEFINE n    == Going(p)
           seq  == SubSeq(p.queue, 1, n)
           S    == 1..n
           b    == [p EXCEPT !.queue = SubSeq(p.queue, n + 1, Len(p.queue))]
           C    == [s \in SUBSET S |-> Max(s)]
           G    == [y \in S \X Pacers |-> Dispatch(y[2], seq[y[1]])]
           I    == {y \in (SUBSET S) \X Pacers : Sent(p, y[1], y[2])}
           Step(f) == [s \in SUBSET S |-> IF s = {} THEN b
                                          ELSE Dispatch(f[s \ {Max(s)}], seq[Max(s)])]
<1>0. n \in Nat /\ n <= Len(p.queue) /\ Len(p.queue) \in Nat /\ p.queue \in Seq(Entries)
  BY GoingFacts, PacerFields
<1>1. DOMAIN seq = S /\ \A i \in S : seq[i] = p.queue[i]
  <2> HIDE DEF n
  <2> QED BY <1>0
<1>2. Pump(p) = FoldLeft(Dispatch, b, seq)
  BY DEF Pump, Going, Room
<1> HIDE DEF n, seq, b
<1>3. FoldLeft(Dispatch, b, seq) = (CHOOSE f : f = Step(f))[S]
  BY <1>1 DEF FoldLeft, MapThenFoldSet
<1>4. IsFiniteSet(S) /\ S \in SUBSET Nat
  BY <1>0, FS_Interval
<1>5. Chooses(C, S) /\ \A s \in SUBSET S : C[s] = Max(s)
  <2>1. ASSUME NEW s \in SUBSET S, s # {} PROVE Max(s) \in s
    <3>1. s \in SUBSET Nat /\ \A x \in s : x <= n
      BY <1>0
    <3> QED BY ONLY <3>1, <1>0, <2>1, MaxIsGreatest
  <2> QED BY <2>1 DEF Chooses
<1>6. <<{}, b>> \in I
  <2>1. Sent(p, {}, b)
    BY SentFirst DEF b, n
  <2> QED BY <2>1 DEF Sent
<1>7. ASSUME NEW s \in SUBSET S, NEW x \in S \ s, NEW h \in Pacers, <<s, h>> \in I
      PROVE  <<s \cup {x}, Dispatch(h, seq[x])>> \in I
  <2>1. (s \cup {x}) \ {x} = s /\ s \cup {x} \in SUBSET S /\ x \in s \cup {x}
    OBVIOUS
  <2>2. Sent(p, s, h)
    BY <1>7
  <2>3. Sent(p, s \cup {x}, Dispatch(h, p.queue[x]))
    BY <2>1, <2>2, SentOneMore DEF n
  <2>4. Dispatch(h, seq[x]) \in Pacers /\ seq[x] = p.queue[x]
    BY <2>3, <1>1 DEF Sent
  <2> QED BY <2>1, <2>3, <2>4
<1>8. \E f : f = Step(f)
  <2>1. Invariant(I, S, Pacers, b, G)
    BY <1>6, <1>7 DEF Invariant
  <2>2. \A x \in S, h \in Pacers : G[<<x, h>>] = Dispatch(h, seq[x])
    OBVIOUS
  <2> HIDE DEF G, C, I, S
  <2>4. PICK f \in [SUBSET S -> Pacers] : Iterates(f, S, C, b, G)
    BY ONLY <1>4, <1>5, <2>1, FoldHolds
  <2>5. \A s \in SUBSET S : f[s] = IF s = {} THEN b ELSE Dispatch(f[s \ {Max(s)}], seq[Max(s)])
    <3> TAKE s \in SUBSET S
    <3>1. s # {} => Max(s) \in S /\ s \ {Max(s)} \in SUBSET S /\ C[s] = Max(s)
      BY <1>5 DEF Chooses
    <3> QED BY <3>1, <2>2, <2>4 DEF Iterates
  <2>6. f = Step(f)
    BY <2>5
  <2> QED BY <2>6
<1> DEFINE g == CHOOSE f : f = Step(f)
<1>9. g = Step(g)
  BY <1>8
<1> HIDE DEF g
<1>10. g[{}] = b /\ \A s \in SUBSET S : s # {} => g[s] = Dispatch(g[s \ {Max(s)}], seq[Max(s)])
  BY <1>9
<1>11. ASSUME NEW s \in SUBSET S, s # {}, <<s \ {C[s]}, g[s \ {C[s]}]>> \in I
       PROVE  <<s, g[s]>> \in I
  <2>1. C[s] \in s /\ C[s] = Max(s) /\ (s \ {C[s]}) \cup {C[s]} = s
    BY <1>5, <1>11 DEF Chooses
  <2>2. g[s \ {C[s]}] \in Pacers /\ C[s] \in S \ (s \ {C[s]}) /\ s \ {C[s]} \in SUBSET S
    BY <2>1, <1>11
  <2>3. <<(s \ {C[s]}) \cup {C[s]}, Dispatch(g[s \ {C[s]}], seq[C[s]])>> \in I
    BY ONLY <2>2, <1>7, <1>11
  <2>4. g[s] = Dispatch(g[s \ {C[s]}], seq[C[s]])
    BY <2>1, <1>10, <1>11
  <2> QED BY ONLY <2>1, <2>3, <2>4
<1>12. <<S, g[S]>> \in I
  <2> HIDE DEF I, C, S
  <2> QED BY ONLY <1>4, <1>5, <1>6, <1>10, <1>11, FoldKeeps
<1>13. Sent(p, S, g[S])
  BY <1>12
<1> QED BY <1>2, <1>3, <1>13 DEF g, n

LEMMA KeepsTrans ==
  ASSUME NEW p, NEW q, NEW r, NEW k, Same(p, q), Same(q, r), Keeps(p, q, k), Keeps(q, r, k)
  PROVE  Same(p, r) /\ Keeps(p, r, k)
BY DEF Same, Keeps

(* A method that touches neither the queue nor what the gateway has.       *)
LEMMA KeepsAll ==
  ASSUME NEW p, NEW q, q.queue = p.queue, q.sent = p.sent, q.resent = p.resent, NEW k \in Keys,
         p.flying[k] = "no" => q.flying[k] = "no"
  PROVE  Keeps(p, q, k)
BY DEF Keeps, Asks, Promised, Free, Queued

(* #pump: every item that leaves the queue is sent.                        *)
LEMMA PumpKeeps ==
  ASSUME NEW p, Orderly(p), NEW q, q = Pump(p)
  PROVE  /\ Orderly(q) /\ Same(p, q) /\ q.timer = p.timer
         /\ \A k \in Keys : Keeps(p, q, k)
         /\ p.ready /\ q.queue # <<>> => InFlight(q) # {}
         /\ ~p.ready => \A k \in Keys : q.sent[k] = p.sent[k]
<1> DEFINE n == Going(p)
           m == Len(p.queue)
<1>1. /\ p \in Pacers /\ Distinct(p.queue) /\ Cardinality(InFlight(p)) <= Window
      /\ \A k \in Queued(p) : p.flying[k] = "no" /\ p.sent[k] # "full"
  BY DEF Orderly
<1>2. /\ n \in 0..m /\ m \in Nat /\ DOMAIN p.queue = 1..m
      /\ n > 0 => p.ready /\ Cardinality(InFlight(p)) + n <= Window
      /\ p.ready /\ n < m => Cardinality(InFlight(p)) + n >= Window
  BY <1>1, GoingFacts
<1>3. Sent(p, 1..n, q)
  BY <1>1, PumpFacts
<1>4. p.queue \in Seq(Entries) /\ \A i \in 1..m : p.queue[i] \in Entries /\ p.queue[i].key \in Keys
  BY ONLY <1>1, QueueFacts
<1> HIDE DEF n
<1>5. /\ q \in Pacers /\ Same(p, q) /\ q.timer = p.timer /\ q.tracking = p.tracking
      /\ q.queue = SubSeq(p.queue, n + 1, m)
      /\ Cardinality(InFlight(q)) <= Cardinality(InFlight(p)) + Cardinality(1..n)
      /\ \A k \in Keys : (\A i \in 1..n : p.queue[i].key # k) =>
           q.sent[k] = p.sent[k] /\ q.resent[k] = p.resent[k] /\ q.flying[k] = p.flying[k]
      /\ \A i \in 1..n : /\ q.resent[p.queue[i].key] = p.declared /\ q.flying[p.queue[i].key] = "fresh"
                         /\ q.sent[p.queue[i].key] = p.queue[i].level
  BY <1>1, <1>3 DEF Sent, n
<1>6. /\ DOMAIN q.queue = 1..(m - n) /\ Len(q.queue) = m - n
      /\ \A i \in 1..(m - n) : q.queue[i] = p.queue[n + i]
  <2>1. n + 1 \in 1..(m + 1) /\ m = Len(p.queue) /\ m - (n + 1) + 1 = m - n
    BY ONLY <1>2
  <2>2. p.queue \in Seq(Entries) /\ n \in Nat /\ m \in Nat
    BY ONLY <1>2, <1>4
  <2> HIDE DEF m
  <2>3. /\ Len(SubSeq(p.queue, n + 1, m)) = m - n
        /\ \A i \in 1..(m - n) : SubSeq(p.queue, n + 1, m)[i] = p.queue[n + i]
    BY ONLY <2>1, <2>2
  <2>4. SubSeq(p.queue, n + 1, m) \in Seq(Entries)
    BY ONLY <2>1, <2>2
  <2> QED BY ONLY <2>3, <2>4, <1>5
<1>7. \A i, j \in 1..m : p.queue[i].key = p.queue[j].key => i = j
  BY <1>1, <1>2 DEF Distinct
<1>8. Distinct(q.queue)
  <2> SUFFICES ASSUME NEW i \in 1..(m - n), NEW j \in 1..(m - n), q.queue[i].key = q.queue[j].key
               PROVE  i = j
    BY <1>6 DEF Distinct
  <2>1. n + i \in 1..m /\ n + j \in 1..m
    BY <1>2
  <2>2. n + i = n + j
    BY <1>6, <1>7, <2>1
  <2> QED BY <1>2, <2>2
<1>9. Cardinality(InFlight(q)) <= Window
  <2>1. Cardinality(1..n) = n
    BY <1>2, FS_Interval
  <2>2. Cardinality(InFlight(p)) \in Nat /\ Cardinality(InFlight(q)) \in Nat /\ Window \in Nat
    BY InFlightFinite, WindowAssumption
  <2> QED BY ONLY <1>1, <1>2, <1>5, <2>1, <2>2
<1>10. \A i \in 1..m : i > n => \E j \in 1..(m - n) : q.queue[j] = p.queue[i]
  <2> TAKE i \in 1..m
  <2> HAVE i > n
  <2>1. i - n \in 1..(m - n) /\ n + (i - n) = i
    BY <1>2
  <2> QED BY <1>6, <2>1
<1>11. \A j \in 1..(m - n) : \E i \in 1..m : i > n /\ p.queue[i] = q.queue[j]
  <2> TAKE j \in 1..(m - n)
  <2>1. n + j \in 1..m /\ n + j > n
    BY <1>2
  <2> QED BY <1>6, <2>1
<1>12. ASSUME NEW k \in Keys
       PROVE  \/ k \in Queued(p) /\ k \in Queued(q)
              \/ /\ k \notin Queued(q)
                 /\ \E i \in 1..n : p.queue[i].key = k
              \/ k \notin Queued(p) /\ k \notin Queued(q)
  <2>1. k \in Queued(p) <=> \E i \in 1..m : p.queue[i].key = k
    BY <1>2 DEF Queued, KeysIn
  <2>2. k \in Queued(q) <=> \E i \in 1..(m - n) : q.queue[i].key = k
    BY <1>6 DEF Queued, KeysIn
  <2>3. \A i \in 1..m : i > n \/ i \in 1..n
    BY <1>2
  <2> QED BY ONLY <1>10, <1>11, <2>1, <2>2, <2>3
<1>13. ASSUME NEW k \in Queued(q)
       PROVE  /\ k \in Queued(p) /\ k \in Keys /\ q.sent[k] = p.sent[k] /\ q.resent[k] = p.resent[k]
              /\ q.flying[k] = p.flying[k]
  <2>1. PICK j \in 1..(m - n) : q.queue[j].key = k
    BY <1>6 DEF Queued, KeysIn
  <2>2. PICK i \in 1..m : i > n /\ p.queue[i].key = k
    BY <1>11, <2>1
  <2>3. \A h \in 1..n : h \in 1..m /\ h # i
    BY <1>2, <2>2
  <2>4. \A h \in 1..n : p.queue[h].key # k
    BY <1>7, <2>2, <2>3
  <2> QED BY <1>2, <1>4, <1>5, <2>2, <2>4 DEF Queued, KeysIn
<1>14. Orderly(q)
  BY <1>1, <1>5, <1>8, <1>9, <1>13 DEF Orderly
<1>15. ASSUME NEW k \in Keys PROVE Keeps(p, q, k)
  <2>1. CASE k \in Queued(p) /\ k \in Queued(q)
    <3>1. \A l : Asks(p, k, l) => Asks(q, k, l)
      <4> SUFFICES ASSUME NEW l, NEW i \in 1..m, p.queue[i] = [key |-> k, level |-> l]
                   PROVE  \E j \in DOMAIN q.queue : q.queue[j] = [key |-> k, level |-> l]
        BY <1>2, <2>1 DEF Asks
      <4>1. PICK j \in 1..(m - n) : q.queue[j].key = k
        BY <2>1, <1>6 DEF Queued, KeysIn
      <4>2. PICK h \in 1..m : h > n /\ p.queue[h] = q.queue[j]
        BY <1>11
      <4>3. h = i
        BY <1>7, <4>1, <4>2
      <4> QED BY <1>6, <4>2, <4>3
    <3> QED BY <2>1, <3>1 DEF Keeps, Promised, Free
  <2>2. CASE k \notin Queued(q) /\ \E i \in 1..n : p.queue[i].key = k
    <3>1. PICK i \in 1..n : p.queue[i].key = k
      BY <2>2
    <3>2. i \in 1..m /\ k \in Queued(p)
      BY <1>2, <3>1 DEF Queued, KeysIn
    <3>3. \A l : Asks(p, k, l) => l = p.queue[i].level
      <4> SUFFICES ASSUME NEW l, NEW j \in 1..m, p.queue[j] = [key |-> k, level |-> l]
                   PROVE  l = p.queue[i].level
        BY <1>2, <3>2 DEF Asks
      <4>1. j = i
        BY <1>7, <3>1, <3>2
      <4> QED BY <4>1
    <3>4. q.sent[k] = p.queue[i].level /\ q.resent[k] = p.declared
      BY <1>5, <3>1
    <3> QED BY <2>2, <3>2, <3>3, <3>4 DEF Keeps, Asks, Promised, Free
  <2>3. CASE k \notin Queued(p) /\ k \notin Queued(q)
    <3>1. \A i \in 1..n : p.queue[i].key # k
      BY <1>2, <2>3 DEF Queued, KeysIn
    <3>2. q.sent[k] = p.sent[k] /\ q.resent[k] = p.resent[k] /\ q.flying[k] = p.flying[k]
      BY <1>5, <3>1
    <3> QED BY <2>3, <3>2 DEF Keeps, Asks, Promised, Free
  <2> QED BY <1>12, <2>1, <2>2, <2>3
<1>16. ASSUME p.ready, q.queue # <<>> PROVE InFlight(q) # {}
  <2>1. n < m
    <3>1. q.queue \in Seq(Entries)
      BY <1>5, PacerFields
    <3>2. Len(q.queue) # 0
      BY <1>16, <3>1
    <3> QED BY <3>2, <1>6, <1>2
  <2>2. CASE n = 0
    <3>1. InFlight(p) = InFlight(q)
      <4>1. \A i \in 1..n : p.queue[i].key # 0
        BY <2>2
      <4>2. \A k \in Keys : q.flying[k] = p.flying[k]
        BY <1>5, <2>2
      <4> QED BY <4>2 DEF InFlight
    <3>2. Cardinality(InFlight(p)) > 0
      BY <1>2, <1>16, <2>1, <2>2, WindowAssumption, InFlightFinite
    <3> QED BY <3>1, <3>2, FS_EmptySet
  <2>3. CASE n # 0
    <3>1. 1 \in 1..n /\ 1 \in 1..m
      BY <2>3, <1>2
    <3>2. q.flying[p.queue[1].key] = "fresh" /\ p.queue[1].key \in Keys
      BY <3>1, <1>4, <1>5
    <3> QED BY <3>2 DEF InFlight
  <2> QED BY <2>2, <2>3
<1>17. ASSUME ~p.ready, NEW k \in Keys PROVE q.sent[k] = p.sent[k]
  <2>1. n = 0
    BY <1>2, <1>17
  <2>2. \A i \in 1..n : p.queue[i].key # k
    BY <2>1
  <2> QED BY <1>5, <2>2
<1> QED BY <1>5, <1>14, <1>15, <1>16, <1>17

(* A pacer that differs only in the timer and in what it tracks.           *)
LEMMA OrderlySame ==
  ASSUME NEW p, Orderly(p), NEW q, q \in Pacers, q.queue = p.queue, q.flying = p.flying,
         q.sent = p.sent, q.resent = p.resent
  PROVE  Orderly(q) /\ InFlight(q) = InFlight(p) /\ \A k \in Keys : Keeps(p, q, k)
BY KeepsAll DEF Orderly, Queued, InFlight

LEMMA ArmFacts ==
  ASSUME NEW p, Orderly(p), NEW q, q = Arm(p)
  PROVE  /\ Orderly(q) /\ Same(p, q) /\ \A k \in Keys : Keeps(p, q, k)
         /\ InFlight(p) # {} => Awake(q)
         /\ q.sent = p.sent /\ q.resent = p.resent /\ q.queue = p.queue /\ q.flying = p.flying
<1> DEFINE v == IF InFlight(p) = {} \/ (p.queue = <<>> /\ ~p.tracking) THEN "off"
                ELSE IF \E k \in Keys : p.flying[k] = "overdue" THEN "due" ELSE "armed"
<1>1. v \in {"off", "armed", "due"} /\ (InFlight(p) # {} /\ p.queue # <<>> => v # "off")
  OBVIOUS
<1>2. q = [p EXCEPT !.timer = v] /\ p \in Pacers
  BY DEF Arm, Orderly
<1> HIDE DEF v
<1>3. /\ q \in Pacers /\ Same(p, q) /\ q.timer = v /\ q.queue = p.queue
      /\ q.flying = p.flying /\ q.tracking = p.tracking /\ q.sent = p.sent /\ q.resent = p.resent
  BY ONLY <1>1, <1>2, WithTimer
<1>4. Orderly(q) /\ \A k \in Keys : Keeps(p, q, k)
  BY ONLY <1>3, OrderlySame, Orderly(p)
<1> QED BY <1>1, <1>3, <1>4 DEF Awake

LEMMA SettleFacts ==
  ASSUME NEW p, Orderly(p), NEW q, q = Settle(p)
  PROVE  /\ Orderly(q) /\ Same(p, q) /\ \A k \in Keys : Keeps(p, q, k)
         /\ p.ready => Awake(q)
         /\ ~p.ready => \A k \in Keys : q.sent[k] = p.sent[k]
<1> DEFINE r == Pump(p)
<1>1. /\ Orderly(r) /\ Same(p, r) /\ \A k \in Keys : Keeps(p, r, k)
      /\ p.ready /\ r.queue # <<>> => InFlight(r) # {}
      /\ ~p.ready => \A k \in Keys : r.sent[k] = p.sent[k]
  BY PumpKeeps
<1>2. q = IF r.queue = <<>> /\ InFlight(r) = {}
          THEN [r EXCEPT !.tracking = FALSE, !.timer = "off"] ELSE Arm(r)
  BY DEF Settle
<1> HIDE DEF r
<1>3. CASE r.queue = <<>> /\ InFlight(r) = {}
  <2>1. /\ q \in Pacers /\ Same(r, q) /\ q.queue = r.queue /\ q.flying = r.flying
        /\ q.sent = r.sent /\ q.resent = r.resent
    <3>1. r \in Pacers
      BY <1>1 DEF Orderly
    <3> QED BY ONLY <3>1, <1>2, <1>3 DEF Pacers, Same
  <2>2. Orderly(q) /\ \A k \in Keys : Keeps(r, q, k)
    BY ONLY <1>1, <2>1, OrderlySame
  <2>3. Same(p, q) /\ \A k \in Keys : Keeps(p, q, k)
    BY <1>1, <2>1, <2>2, KeepsTrans DEF Same
  <2> QED BY <1>1, <1>3, <2>1, <2>2, <2>3 DEF Awake
<1>4. CASE ~(r.queue = <<>> /\ InFlight(r) = {})
  <2>1. /\ Orderly(q) /\ Same(r, q) /\ \A k \in Keys : Keeps(r, q, k)
        /\ InFlight(r) # {} => Awake(q)
        /\ q.queue = r.queue /\ q.sent = r.sent
    BY ONLY <1>1, <1>2, <1>4, ArmFacts
  <2>2. Same(p, q) /\ \A k \in Keys : Keeps(p, q, k)
    BY <1>1, <2>1, KeepsTrans DEF Same
  <2> QED BY <1>1, <2>1, <2>2, <1>4 DEF Awake
<1> QED BY <1>3, <1>4

(* The deadlines of some keys are given up, or pass.                       *)
LEMMA FewerFly ==
  ASSUME NEW p, Orderly(p), NEW q, q \in Pacers, q.queue = p.queue, q.sent = p.sent, q.resent = p.resent,
         \A k \in Keys : p.flying[k] = "no" => q.flying[k] = "no"
  PROVE  Orderly(q) /\ \A k \in Keys : Keeps(p, q, k)
<1>1. InFlight(q) \subseteq InFlight(p)
  BY DEF InFlight
<1>2. Cardinality(InFlight(q)) <= Cardinality(InFlight(p))
  BY <1>1, InFlightFinite, FS_Subset
<1>3. Cardinality(InFlight(q)) <= Window
  <2>1. Cardinality(InFlight(q)) \in Nat /\ Cardinality(InFlight(p)) \in Nat /\ Window \in Nat
    BY InFlightFinite, WindowAssumption
  <2>2. Cardinality(InFlight(p)) <= Window
    BY DEF Orderly
  <2> QED BY ONLY <1>2, <2>1, <2>2
<1>4. \A k \in Queued(q) : k \in Queued(p) /\ k \in Keys
  <2>1. p \in Pacers
    BY DEF Orderly
  <2> QED BY <2>1, QueuedKeys DEF Queued
<1>5. \A k \in Keys : Keeps(p, q, k)
  BY KeepsAll
<1> QED BY <1>3, <1>4, <1>5 DEF Orderly

LEMMA ExpireFacts ==
  ASSUME NEW p, Orderly(p), NEW q, q = ExpireOverdue(p)
  PROVE  /\ Orderly(q) /\ Same(p, q) /\ \A k \in Keys : Keeps(p, q, k)
         /\ q.sent = p.sent /\ q.queue = p.queue /\ q.resent = p.resent /\ q.timer = p.timer
<1> DEFINE v == [k \in Keys |-> IF p.flying[k] = "overdue" THEN "no" ELSE p.flying[k]]
<1>1. p \in Pacers
  BY DEF Orderly
<1>2. v \in [Keys -> {"no", "fresh", "overdue"}] /\ \A k \in Keys : p.flying[k] = "no" => v[k] = "no"
  BY <1>1, PacerFields
<1>3. q = [p EXCEPT !.flying = v]
  BY <1>1 DEF ExpireOverdue, Pacers
<1> HIDE DEF v
<1>4. /\ q \in Pacers /\ Same(p, q) /\ q.flying = v /\ q.queue = p.queue
      /\ q.timer = p.timer /\ q.tracking = p.tracking /\ q.sent = p.sent /\ q.resent = p.resent
  BY ONLY <1>1, <1>2, <1>3, WithFlying
<1>5. Orderly(q) /\ \A k \in Keys : Keeps(p, q, k)
  BY ONLY <1>2, <1>4, FewerFly, Orderly(p)
<1> QED BY <1>4, <1>5

LEMMA RelevelFacts ==
  ASSUME NEW p, Orderly(p), NEW k \in Queued(p), NEW l \in Levels, NEW q, q = Relevel(p, k, l)
  PROVE  /\ Orderly(q) /\ Same(p, q) /\ Queued(q) = Queued(p) /\ Asks(q, k, l)
         /\ \A x \in Keys : x # k => Keeps(p, q, x)
         /\ q.timer = p.timer /\ q.resent = p.resent /\ q.sent = p.sent /\ q.flying = p.flying
<1> DEFINE e == [key |-> k, level |-> l]
           v == [i \in DOMAIN p.queue |-> IF p.queue[i].key = k THEN e ELSE p.queue[i]]
<1>1. /\ p \in Pacers /\ p.queue \in Seq(Entries) /\ Len(p.queue) \in Nat
      /\ DOMAIN p.queue = 1..Len(p.queue) /\ \A i \in DOMAIN p.queue : p.queue[i] \in Entries
      /\ k \in Keys
  <2>1. p \in Pacers
    BY DEF Orderly
  <2> QED BY <2>1, QueueFacts, QueuedKeys
<1>2. e \in Entries /\ e.key = k /\ e.level = l
  BY <1>1 DEF Entries
<1> HIDE DEF e
<1>3. /\ v \in Seq(Entries) /\ DOMAIN v = DOMAIN p.queue
      /\ \A i \in DOMAIN v : v[i].key = p.queue[i].key /\ v[i] = IF p.queue[i].key = k THEN e ELSE p.queue[i]
  BY <1>1, <1>2
<1>4. q = [p EXCEPT !.queue = v]
  BY DEF Relevel, e
<1> HIDE DEF v
<1>5. /\ q \in Pacers /\ Same(p, q) /\ q.queue = v /\ q.flying = p.flying
      /\ q.timer = p.timer /\ q.tracking = p.tracking /\ q.sent = p.sent /\ q.resent = p.resent
  BY ONLY <1>1, <1>3, <1>4, WithQueue
<1>6. Queued(q) = Queued(p) /\ InFlight(q) = InFlight(p)
  BY <1>3, <1>5 DEF Queued, KeysIn, InFlight
<1>7. Orderly(q)
  <2>1. Distinct(q.queue)
    BY <1>3, <1>5 DEF Orderly, Distinct
  <2> QED BY <1>5, <1>6, <2>1 DEF Orderly
<1>8. Asks(q, k, l)
  <2>1. PICK i \in DOMAIN p.queue : p.queue[i].key = k
    BY DEF Queued, KeysIn
  <2>2. i \in DOMAIN q.queue /\ q.queue[i] = e
    BY <1>3, <1>5, <2>1
  <2> QED BY <2>2, <1>6 DEF Asks, e
<1>9. ASSUME NEW x \in Keys, x # k PROVE Keeps(p, q, x)
  <2>1. \A m : Asks(p, x, m) => Asks(q, x, m)
    <3> SUFFICES ASSUME NEW m, Asks(p, x, m) PROVE Asks(q, x, m)
      OBVIOUS
    <3>1. CASE x \in Queued(p)
      <4>1. PICK i \in DOMAIN p.queue : p.queue[i] = [key |-> x, level |-> m]
        BY <3>1 DEF Asks
      <4>2. i \in DOMAIN q.queue /\ q.queue[i] = [key |-> x, level |-> m]
        BY <1>3, <1>5, <4>1, <1>9
      <4> QED BY <4>2, <3>1, <1>6 DEF Asks
    <3>2. CASE x \notin Queued(p)
      BY <3>2, <1>5, <1>6 DEF Asks
    <3> QED BY <3>1, <3>2
  <2> QED BY <2>1, <1>5, <1>6 DEF Keeps, Promised, Free
<1> QED BY <1>5, <1>6, <1>7, <1>8, <1>9

(* A key joins the queue.                                                  *)
LEMMA EnqueueFacts ==
  ASSUME NEW p, Orderly(p), NEW k \in Keys, k \notin Queued(p), p.sent[k] # "full",
         NEW l \in Levels,
         NEW q, q = [p EXCEPT !.flying[k] = "no", !.queue = Append(@, [key |-> k, level |-> l])]
  PROVE  /\ Orderly(q) /\ Same(p, q) /\ Asks(q, k, l) /\ \A u : Promised(q, u, k)
         /\ \A x \in Keys : x # k => Keeps(p, q, x)
<1> DEFINE e == [key |-> k, level |-> l]
           v == Append(p.queue, e)
           w == [p.flying EXCEPT ![k] = "no"]
           n == Len(p.queue)
           r == [p EXCEPT !.flying = w]
<1>1. /\ p \in Pacers /\ p.queue \in Seq(Entries) /\ n \in Nat /\ DOMAIN p.queue = 1..n
      /\ \A i \in 1..n : p.queue[i] \in Entries
  <2>1. p \in Pacers
    BY DEF Orderly
  <2> QED BY <2>1, QueueFacts
<1>2. e \in Entries /\ e.key = k /\ e.level = l
  BY DEF Entries
<1>3. /\ w \in [Keys -> {"no", "fresh", "overdue"}] /\ w[k] = "no"
      /\ \A x \in Keys : x # k => w[x] = p.flying[x]
  BY <1>1, PacerFields
<1>4. q = [r EXCEPT !.queue = v]
  OBVIOUS
<1> HIDE DEF e, w
<1>5. /\ v \in Seq(Entries) /\ DOMAIN v = 1..(n + 1) /\ v[n + 1] = e
      /\ \A i \in 1..n : v[i] = p.queue[i]
  BY <1>1, <1>2
<1>6. /\ r \in Pacers /\ Same(p, r) /\ r.flying = w /\ r.queue = p.queue
      /\ r.timer = p.timer /\ r.tracking = p.tracking /\ r.sent = p.sent /\ r.resent = p.resent
  BY ONLY <1>1, <1>3, WithFlying
<1> HIDE DEF v, r
<1>7. /\ q \in Pacers /\ Same(r, q) /\ q.queue = v /\ q.flying = r.flying
      /\ q.timer = r.timer /\ q.tracking = r.tracking /\ q.sent = r.sent /\ q.resent = r.resent
  BY ONLY <1>4, <1>5, <1>6, WithQueue
<1>8. Orderly(r)
  <2>1. \A x \in Keys : p.flying[x] = "no" => r.flying[x] = "no"
    BY <1>3, <1>6
  <2> QED BY ONLY <1>6, <2>1, FewerFly, Orderly(p)
<1> HIDE DEF n
<1>9. \A x : x \in Queued(q) <=> x \in Queued(p) \/ x = k
  <2>1. \A x : x \in Queued(q) <=> \E i \in 1..(n + 1) : v[i].key = x
    BY <1>5, <1>7 DEF Queued, KeysIn
  <2>2. \A x : x \in Queued(p) <=> \E i \in 1..n : p.queue[i].key = x
    BY <1>1 DEF Queued, KeysIn
  <2>3. \A i : i \in 1..(n + 1) <=> i \in 1..n \/ i = n + 1
    BY <1>1
  <2> QED BY ONLY <2>1, <2>2, <2>3, <1>5, <1>2
<1>10. Distinct(q.queue)
  <2>1. \A i \in 1..n : p.queue[i].key # k
    BY <1>1 DEF Queued, KeysIn
  <2>2. \A i, j \in 1..n : p.queue[i].key = p.queue[j].key => i = j
    BY <1>1 DEF Orderly, Distinct
  <2>3. \A i : i \in 1..(n + 1) <=> i \in 1..n \/ i = n + 1
    BY <1>1
  <2> QED BY ONLY <1>2, <1>5, <1>7, <2>1, <2>2, <2>3 DEF Distinct
<1>11. Orderly(q)
  <2>1. InFlight(q) = InFlight(r)
    BY <1>7 DEF InFlight
  <2>2. \A x \in Queued(q) : q.flying[x] = "no" /\ q.sent[x] # "full"
    <3> TAKE x \in Queued(q)
    <3>1. CASE x = k
      BY <3>1, <1>3, <1>6, <1>7
    <3>2. CASE x \in Queued(p)
      <4>1. x \in Queued(r)
        BY <3>2, <1>6 DEF Queued
      <4> QED BY <4>1, <1>7, <1>8 DEF Orderly
    <3> QED BY <3>1, <3>2, <1>9
  <2> QED BY <1>7, <1>8, <1>10, <2>1, <2>2 DEF Orderly
<1>12. Asks(q, k, l) /\ \A u : Promised(q, u, k)
  <2>1. n + 1 \in DOMAIN q.queue /\ q.queue[n + 1] = [key |-> k, level |-> l]
    BY <1>1, <1>5, <1>7 DEF e
  <2> QED BY <2>1, <1>9 DEF Asks, Promised
<1>13. ASSUME NEW x \in Keys, x # k PROVE Keeps(p, q, x)
  <2>1. x \in Queued(q) <=> x \in Queued(p)
    BY <1>9, <1>13
  <2>2. q.sent[x] = p.sent[x] /\ q.resent = p.resent /\ q.flying[x] = p.flying[x]
    BY <1>3, <1>6, <1>7, <1>13
  <2>3. \A i \in DOMAIN p.queue : i \in DOMAIN q.queue /\ q.queue[i] = p.queue[i]
    BY <1>1, <1>5, <1>7
  <2> QED BY <2>1, <2>2, <2>3 DEF Keeps, Asks, Promised, Free
<1>14. Same(p, q)
  BY <1>6, <1>7 DEF Same
<1> QED BY <1>11, <1>12, <1>13, <1>14

(* What a method leaves of every key but one.                              *)
KeepsOthers(p, q, k) == Same(p, q) /\ \A x \in Keys : x # k => Keeps(p, q, x)

(* The key is told to the gateway at a level, or waits with it, and the    *)
(* sessions that are ready get its progress.                               *)
Served(q, k, l) == Asks(q, k, l) /\ \A u \in q.declared : Promised(q, u, k)

LEMMA SendKeeps ==
  ASSUME NEW p, Orderly(p), NEW k \in Keys, k \notin Queued(p), NEW l \in Levels,
         NEW q, q = SendSubscription(p, k, l)
  PROVE  Orderly(q) /\ KeepsOthers(p, q, k) /\ Served(q, k, l) /\ (Awake(p) => Awake(q))
<1>1. p \in Pacers
  BY DEF Orderly
<1>2. /\ q \in Pacers /\ Same(p, q)
      /\ q.queue = p.queue /\ q.flying = p.flying /\ q.timer = p.timer /\ q.tracking = p.tracking
      /\ q.sent[k] = l /\ q.resent[k] = p.declared
      /\ \A x \in Keys : x # k => q.sent[x] = p.sent[x] /\ q.resent[x] = p.resent[x]
  BY <1>1, SendFacts
<1>3. Queued(q) = Queued(p) /\ InFlight(q) = InFlight(p) /\ Queued(p) \subseteq Keys
  BY <1>1, <1>2, QueuedKeys DEF Queued, InFlight
<1>4. Orderly(q)
  BY <1>2, <1>3 DEF Orderly
<1>5. KeepsOthers(p, q, k)
  BY <1>2, <1>3 DEF KeepsOthers, Keeps, Asks, Promised, Free
<1>6. Served(q, k, l)
  BY <1>2, <1>3 DEF Served, Same, Asks, Promised
<1> QED BY <1>2, <1>4, <1>5, <1>6 DEF Awake

(* A key that has its slot is told again.                                  *)
LEMMA DispatchKeeps ==
  ASSUME NEW p, Orderly(p), NEW k \in InFlight(p), NEW l \in Levels,
         NEW e, e = [key |-> k, level |-> l], NEW q, q = Dispatch(p, e)
  PROVE  /\ Orderly(q) /\ KeepsOthers(p, q, k) /\ Served(q, k, l)
         /\ InFlight(q) = InFlight(p)
<1>1. p \in Pacers /\ k \in Keys /\ p.flying[k] # "no" /\ k \notin Queued(p) /\ Queued(p) \subseteq Keys
  <2>1. p \in Pacers /\ k \in Keys /\ p.flying[k] # "no" /\ k \notin Queued(p)
    BY DEF Orderly, InFlight
  <2> QED BY <2>1, QueuedKeys
<1>2. e \in Entries /\ e.key = k /\ e.level = l
  BY <1>1 DEF Entries
<1>3. /\ q \in Pacers /\ Same(p, q)
      /\ q.queue = p.queue /\ q.timer = p.timer /\ q.tracking = p.tracking
      /\ q.sent[k] = l /\ q.resent[k] = p.declared /\ q.flying[k] = "fresh"
      /\ \A x \in Keys : x # k =>
           q.sent[x] = p.sent[x] /\ q.resent[x] = p.resent[x] /\ q.flying[x] = p.flying[x]
      /\ InFlight(q) = InFlight(p) \cup {k}
  <2>1. q = Dispatch(p, e) /\ p \in Pacers
    BY DEF Orderly
  <2> QED BY ONLY <1>1, <1>2, <2>1, DispatchFacts
<1>4. Queued(q) = Queued(p) /\ InFlight(q) = InFlight(p)
  BY <1>3 DEF Queued
<1>5. Orderly(q)
  BY <1>1, <1>3, <1>4 DEF Orderly
<1>6. KeepsOthers(p, q, k)
  BY <1>3, <1>4 DEF KeepsOthers, Keeps, Asks, Promised, Free
<1>7. Served(q, k, l)
  BY <1>1, <1>3, <1>4 DEF Served, Same, Asks, Promised
<1> QED BY <1>4, <1>5, <1>6, <1>7

LEMMA KeepsServed ==
  ASSUME NEW p, NEW q, NEW k, Same(p, q), Keeps(p, q, k), NEW l, Served(p, k, l)
  PROVE  Served(q, k, l)
BY DEF Same, Keeps, Served

LEMMA OthersTrans ==
  ASSUME NEW p, NEW q, NEW r, NEW k,
         Same(p, q), \A x \in Keys : x # k => Keeps(p, q, x), KeepsOthers(q, r, k)
  PROVE  KeepsOthers(p, r, k)
BY KeepsTrans DEF KeepsOthers, Same

LEMMA OthersTrans2 ==
  ASSUME NEW p, NEW q, NEW r, NEW k, KeepsOthers(p, q, k),
         Same(q, r), \A x \in Keys : x # k => Keeps(q, r, x)
  PROVE  KeepsOthers(p, r, k)
BY KeepsTrans DEF KeepsOthers, Same

(* subscribe() of the pacer                                                *)
LEMMA PacerSubscribeFacts ==
  ASSUME NEW p, Orderly(p), p.ready, Awake(p), NEW k \in Keys, NEW l \in Levels,
         k \in Queued(p) \/ p.sent[k] # "full", NEW q, q = PacerSubscribe(p, k, l)
  PROVE  Orderly(q) /\ KeepsOthers(p, q, k) /\ Served(q, k, l) /\ Awake(q)
<1> DEFINE r == ExpireOverdue(p)
           e == [key |-> k, level |-> l]
<1>1. /\ Orderly(r) /\ Same(p, r) /\ \A x \in Keys : Keeps(p, r, x)
      /\ r.sent = p.sent /\ r.queue = p.queue /\ r.resent = p.resent /\ r.timer = p.timer
  BY ExpireFacts
<1>2. q = IF k \in Queued(r) THEN Relevel(r, k, l)
          ELSE IF k \in InFlight(r) /\ r.ready THEN Arm(Dispatch(r, e))
          ELSE Settle([r EXCEPT !.flying[k] = "no", !.queue = Append(@, e)])
  BY DEF PacerSubscribe
<1> HIDE DEF r
<1>3. r.ready /\ Awake(r) /\ Queued(r) = Queued(p) /\ \A x \in Keys : x # k => Keeps(p, r, x)
  BY <1>1 DEF Same, Awake, Queued
<1>4. CASE k \in Queued(r)
  <2>1. /\ Orderly(q) /\ Same(r, q) /\ Queued(q) = Queued(r) /\ Asks(q, k, l)
        /\ \A x \in Keys : x # k => Keeps(r, q, x)
        /\ q.timer = r.timer
    BY <1>1, <1>2, <1>4, RelevelFacts
  <2>2. KeepsOthers(p, q, k)
    BY <1>1, <1>3, <2>1, OthersTrans DEF KeepsOthers
  <2>3. Served(q, k, l)
    BY <1>4, <2>1 DEF Served, Promised
  <2>4. Awake(q)
    <3>1. r.queue # <<>>
      BY <1>4 DEF Queued, KeysIn
    <3> QED BY <3>1, <2>1, <1>3 DEF Awake
  <2> QED BY <2>1, <2>2, <2>3, <2>4
<1>5. CASE k \notin Queued(r) /\ k \in InFlight(r)
  <2> DEFINE d == Dispatch(r, e)
  <2>1. Orderly(d) /\ KeepsOthers(r, d, k) /\ Served(d, k, l) /\ InFlight(d) = InFlight(r)
    BY <1>1, <1>5, DispatchKeeps
  <2>2. q = Arm(d)
    BY <1>2, <1>3, <1>5
  <2> HIDE DEF d
  <2>3. Orderly(q) /\ Same(d, q) /\ (\A x \in Keys : Keeps(d, q, x)) /\ Awake(q)
    BY <1>5, <2>1, <2>2, ArmFacts
  <2>4. Served(q, k, l)
    BY <2>1, <2>3, KeepsServed
  <2>5. KeepsOthers(r, q, k)
    BY ONLY <2>1, <2>3, OthersTrans2
  <2>6. KeepsOthers(p, q, k)
    BY ONLY <1>1, <1>3, <2>5, OthersTrans
  <2> QED BY <2>3, <2>4, <2>6
<1>6. CASE k \notin Queued(r) /\ k \notin InFlight(r)
  <2> DEFINE d == [r EXCEPT !.flying[k] = "no", !.queue = Append(@, e)]
  <2>1. /\ Orderly(d) /\ Same(r, d) /\ Asks(d, k, l) /\ \A u : Promised(d, u, k)
        /\ \A x \in Keys : x # k => Keeps(r, d, x)
    <3>1. r.sent[k] # "full"
      BY <1>1, <1>3, <1>6
    <3> QED BY <1>1, <1>6, <3>1, EnqueueFacts
  <2>2. q = Settle(d)
    BY <1>2, <1>6
  <2> HIDE DEF d
  <2>3. Orderly(q) /\ Same(d, q) /\ (\A x \in Keys : Keeps(d, q, x)) /\ Awake(q)
    BY <1>3, <2>1, <2>2, SettleFacts DEF Same
  <2>4. Served(q, k, l)
    BY <2>1, <2>3, KeepsServed DEF Served
  <2>5. KeepsOthers(r, q, k)
    BY <2>1, <2>3, OthersTrans2 DEF KeepsOthers
  <2>6. KeepsOthers(p, q, k)
    BY ONLY <1>1, <1>3, <2>5, OthersTrans
  <2> QED BY <2>3, <2>4, <2>6
<1> QED BY <1>4, <1>5, <1>6

(* control() with a nudge, of a key that is asked for at this level, and   *)
(* with a demotion                                                         *)
LEMMA NudgeFacts ==
  ASSUME NEW p, Orderly(p), Awake(p), NEW k \in Keys, NEW l \in Levels, Asks(p, k, l),
         NEW q, q = ControlNudge(p, k, l)
  PROVE  Orderly(q) /\ KeepsOthers(p, q, k) /\ Served(q, k, l) /\ Awake(q)
<1>1. CASE k \in Queued(p)
  <2>1. q = p
    BY <1>1 DEF ControlNudge
  <2> QED BY <1>1, <2>1 DEF KeepsOthers, Same, Keeps, Served, Promised
<1>2. CASE k \notin Queued(p)
  <2>1. q = SendSubscription(p, k, l)
    BY <1>2 DEF ControlNudge
  <2> QED BY <1>2, <2>1, SendKeeps
<1> QED BY <1>1, <1>2

LEMMA DemoteFacts ==
  ASSUME NEW p, Orderly(p), Awake(p), NEW k \in Keys, NEW q, q = ControlDemote(p, k)
  PROVE  Orderly(q) /\ KeepsOthers(p, q, k) /\ Served(q, k, "price") /\ Awake(q)
<1>0. "price" \in Levels
  BY DEF Levels
<1>1. CASE k \in Queued(p)
  <2>1. q = Relevel(p, k, "price")
    BY <1>1 DEF ControlDemote
  <2>2. /\ Orderly(q) /\ Same(p, q) /\ Queued(q) = Queued(p) /\ Asks(q, k, "price")
        /\ \A x \in Keys : x # k => Keeps(p, q, x)
        /\ q.timer = p.timer
    BY <1>0, <1>1, <2>1, RelevelFacts
  <2>3. Served(q, k, "price")
    BY <1>1, <2>2 DEF Served, Promised
  <2>4. Awake(q)
    <3>1. p.queue # <<>>
      BY <1>1 DEF Queued, KeysIn
    <3> QED BY <3>1, <2>2 DEF Awake
  <2> QED BY <2>2, <2>3, <2>4 DEF KeepsOthers
<1>2. CASE k \notin Queued(p)
  <2>1. q = SendSubscription(p, k, "price")
    BY <1>2 DEF ControlDemote
  <2> QED BY <1>0, <1>2, <2>1, SendKeeps
<1> QED BY <1>1, <1>2

LEMMA UnsendKeeps ==
  ASSUME NEW p, Orderly(p), NEW k \in Keys, k \notin Queued(p), NEW q, q = SendUnsubscription(p, k)
  PROVE  /\ Orderly(q) /\ KeepsOthers(p, q, k) /\ q.sent[k] = "none" /\ (Awake(p) => Awake(q))
         /\ q.flying = p.flying /\ k \notin Queued(q)
<1>1. p \in Pacers
  BY DEF Orderly
<1>2. /\ q \in Pacers /\ Same(p, q)
      /\ q.queue = p.queue /\ q.flying = p.flying /\ q.timer = p.timer /\ q.tracking = p.tracking
      /\ q.sent[k] = "none"
      /\ \A x \in Keys : x # k => q.sent[x] = p.sent[x] /\ q.resent[x] = p.resent[x]
  BY <1>1, UnsendFacts
<1>3. Queued(q) = Queued(p) /\ InFlight(q) = InFlight(p) /\ Queued(p) \subseteq Keys
  BY <1>1, <1>2, QueuedKeys DEF Queued, InFlight
<1>4. Orderly(q)
  BY <1>2, <1>3 DEF Orderly
<1>5. KeepsOthers(p, q, k)
  BY <1>2, <1>3 DEF KeepsOthers, Keeps, Asks, Promised, Free
<1> QED BY <1>2, <1>3, <1>4, <1>5 DEF Awake

(* A key that waits is dropped.                                            *)
LEMMA DropFacts ==
  ASSUME NEW p, Orderly(p), NEW k \in Queued(p), NEW q, q = [p EXCEPT !.queue = Delete(@, k)]
  PROVE  Orderly(q) /\ KeepsOthers(p, q, k) /\ Free(q, k) /\ q.sent = p.sent
<1> DEFINE v == Delete(p.queue, k)
<1>1. p \in Pacers /\ p.queue \in Seq(Entries) /\ Distinct(p.queue)
  <2>1. p \in Pacers /\ Distinct(p.queue)
    BY DEF Orderly
  <2> QED BY <2>1, QueueFacts
<1>2. /\ v \in Seq(Entries) /\ Distinct(v) /\ KeysIn(v) = KeysIn(p.queue) \ {k}
      /\ \A e : Has(v, e) <=> e.key # k /\ Has(p.queue, e)
  BY ONLY <1>1, DeleteFacts
<1>3. q = [p EXCEPT !.queue = v]
  OBVIOUS
<1> HIDE DEF v
<1>4. /\ q \in Pacers /\ Same(p, q) /\ q.queue = v /\ q.flying = p.flying
      /\ q.timer = p.timer /\ q.tracking = p.tracking /\ q.sent = p.sent /\ q.resent = p.resent
  BY ONLY <1>1, <1>2, <1>3, WithQueue
<1>5. Queued(q) = Queued(p) \ {k} /\ InFlight(q) = InFlight(p)
  BY <1>2, <1>4 DEF Queued, InFlight
<1>6. Orderly(q)
  <2>1. \A x \in Queued(q) : q.flying[x] = "no" /\ q.sent[x] # "full"
    BY <1>4, <1>5 DEF Orderly
  <2>2. Cardinality(InFlight(q)) <= Window /\ Distinct(q.queue)
    BY <1>2, <1>4, <1>5 DEF Orderly
  <2> QED BY ONLY <1>4, <2>1, <2>2 DEF Orderly
<1>7. ASSUME NEW x \in Keys, x # k PROVE Keeps(p, q, x)
  <2>1. x \in Queued(q) <=> x \in Queued(p)
    BY <1>5, <1>7
  <2>2. \A l : Has(p.queue, [key |-> x, level |-> l]) => Has(q.queue, [key |-> x, level |-> l])
    BY <1>2, <1>4, <1>7
  <2> QED BY <2>1, <2>2, <1>4 DEF Keeps, Asks, Has, Promised, Free
<1>8. Free(q, k)
  BY <1>4, <1>5 DEF Orderly, Free
<1> QED BY <1>4, <1>6, <1>7, <1>8 DEF KeepsOthers

(* control() with an unsubscription                                        *)
LEMMA ReleaseFacts ==
  ASSUME NEW p, Orderly(p), p.ready, Awake(p), NEW k \in Keys, NEW q, q = ControlUnsubscribe(p, k)
  PROVE  Orderly(q) /\ KeepsOthers(p, q, k) /\ Free(q, k) /\ q.sent[k] # "full" /\ Awake(q)
<1>1. CASE k \in Queued(p)
  <2> DEFINE d == [p EXCEPT !.queue = Delete(@, k)]
  <2>1. Orderly(d) /\ KeepsOthers(p, d, k) /\ Free(d, k) /\ d.sent = p.sent
    BY <1>1, DropFacts
  <2>2. q = Settle(d)
    BY <1>1 DEF ControlUnsubscribe
  <2> HIDE DEF d
  <2>3. Orderly(q) /\ Same(d, q) /\ (\A x \in Keys : Keeps(d, q, x)) /\ Awake(q)
    BY <2>1, <2>2, SettleFacts DEF KeepsOthers, Same
  <2>4. KeepsOthers(p, q, k)
    BY ONLY <2>1, <2>3, OthersTrans2
  <2>5. Free(q, k) /\ q.sent[k] = p.sent[k]
    BY <2>1, <2>3 DEF Keeps
  <2>6. p.sent[k] # "full"
    BY <1>1 DEF Orderly
  <2> QED BY <2>3, <2>4, <2>5, <2>6
<1>2. CASE k \notin Queued(p) /\ k \in InFlight(p)
  <2> DEFINE c == SendUnsubscription(p, k)
             w == [c.flying EXCEPT ![k] = "no"]
             d == [c EXCEPT !.flying = w]
  <2>1. /\ Orderly(c) /\ KeepsOthers(p, c, k) /\ c.sent[k] = "none" /\ k \notin Queued(c)
        /\ c \in Pacers
    BY <1>2, UnsendKeeps DEF Orderly
  <2>2. q = Settle(d)
    BY <1>2 DEF ControlUnsubscribe
  <2>3. /\ w \in [Keys -> {"no", "fresh", "overdue"}] /\ w[k] = "no"
        /\ \A x \in Keys : c.flying[x] = "no" => w[x] = "no"
    BY <2>1, PacerFields
  <2> HIDE DEF c, w
  <2>4. /\ d \in Pacers /\ Same(c, d) /\ d.flying = w /\ d.queue = c.queue
        /\ d.sent = c.sent /\ d.resent = c.resent
    BY ONLY <2>1, <2>3, WithFlying
  <2> HIDE DEF d
  <2>5. Orderly(d) /\ \A x \in Keys : Keeps(c, d, x)
    BY ONLY <2>1, <2>3, <2>4, FewerFly
  <2>6. Orderly(q) /\ Same(d, q) /\ (\A x \in Keys : Keeps(d, q, x)) /\ Awake(q)
    BY <2>1, <2>2, <2>4, <2>5, SettleFacts DEF KeepsOthers, Same
  <2>7. KeepsOthers(p, d, k)
    BY ONLY <2>1, <2>4, <2>5, OthersTrans2
  <2>8. KeepsOthers(p, q, k)
    BY ONLY <2>6, <2>7, OthersTrans2
  <2>9. Free(d, k) /\ d.sent[k] = "none"
    BY <2>1, <2>3, <2>4 DEF Free, Queued
  <2>10. Free(q, k) /\ q.sent[k] = "none"
    BY <2>6, <2>9 DEF Keeps
  <2> QED BY <2>6, <2>8, <2>10
<1>3. CASE k \notin Queued(p) /\ k \notin InFlight(p)
  <2>1. q = SendUnsubscription(p, k)
    BY <1>3 DEF ControlUnsubscribe
  <2>2. /\ Orderly(q) /\ KeepsOthers(p, q, k) /\ q.sent[k] = "none" /\ Awake(q)
        /\ q.flying = p.flying /\ k \notin Queued(q)
    BY <1>3, <2>1, UnsendKeeps
  <2> QED BY <1>3, <2>2 DEF Free, InFlight
<1> QED BY <1>1, <1>2, <1>3

(* The deadline of a key passes, the answer of one arrives, the timer ends,*)
(* the resubscription is tracked, the connection is lost.                  *)
LEMMA OverdueFacts ==
  ASSUME NEW p, Orderly(p), NEW k \in Keys, p.flying[k] = "fresh", NEW q, q = Overdue(p, k)
  PROVE  /\ Orderly(q) /\ Same(p, q) /\ (\A x \in Keys : Keeps(p, q, x))
         /\ (Awake(p) => Awake(q)) /\ q.sent = p.sent
<1> DEFINE w == [p.flying EXCEPT ![k] = "overdue"]
           v == IF p.timer = "armed" THEN "due" ELSE p.timer
           r == [p EXCEPT !.flying = w]
<1>1. p \in Pacers
  BY DEF Orderly
<1>2. /\ w \in [Keys -> {"no", "fresh", "overdue"}]
      /\ \A x \in Keys : p.flying[x] = "no" => w[x] = "no"
  BY <1>1, PacerFields
<1>3. v \in {"off", "armed", "due"} /\ (v = "off" => p.timer = "off")
  BY <1>1, PacerFields
<1>4. q = [r EXCEPT !.timer = v]
  BY DEF Overdue
<1> HIDE DEF w, v
<1>5. /\ r \in Pacers /\ Same(p, r) /\ r.flying = w /\ r.queue = p.queue
      /\ r.timer = p.timer /\ r.tracking = p.tracking /\ r.sent = p.sent /\ r.resent = p.resent
  BY ONLY <1>1, <1>2, WithFlying
<1> HIDE DEF r
<1>6. /\ q \in Pacers /\ Same(r, q) /\ q.timer = v /\ q.queue = r.queue
      /\ q.flying = r.flying /\ q.sent = r.sent /\ q.resent = r.resent
  BY ONLY <1>3, <1>4, <1>5, WithTimer
<1>7. /\ q \in Pacers /\ q.queue = p.queue /\ q.sent = p.sent /\ q.resent = p.resent
      /\ \A x \in Keys : p.flying[x] = "no" => q.flying[x] = "no"
  BY ONLY <1>2, <1>5, <1>6
<1>8. Orderly(q) /\ \A x \in Keys : Keeps(p, q, x)
  BY ONLY <1>7, FewerFly, Orderly(p)
<1> QED BY <1>3, <1>5, <1>6, <1>7, <1>8 DEF Same, Awake

LEMMA ResponseFacts ==
  ASSUME NEW p, Orderly(p), p.ready, NEW k \in Keys, NEW q, q = OnResponse(p, k)
  PROVE  Orderly(q) /\ Same(p, q) /\ (\A x \in Keys : Keeps(p, q, x)) /\ Awake(q)
<1> DEFINE w == [p.flying EXCEPT ![k] = "no"]
           d == [p EXCEPT !.flying = w]
<1>1. p \in Pacers
  BY DEF Orderly
<1>2. /\ w \in [Keys -> {"no", "fresh", "overdue"}]
      /\ \A x \in Keys : p.flying[x] = "no" => w[x] = "no"
  BY <1>1, PacerFields
<1>3. q = Settle(d)
  BY DEF OnResponse
<1> HIDE DEF w
<1>4. /\ d \in Pacers /\ Same(p, d) /\ d.flying = w /\ d.queue = p.queue
      /\ d.sent = p.sent /\ d.resent = p.resent
  BY ONLY <1>1, <1>2, WithFlying
<1> HIDE DEF d
<1>5. Orderly(d) /\ \A x \in Keys : Keeps(p, d, x)
  BY ONLY <1>2, <1>4, FewerFly, Orderly(p)
<1>6. Orderly(q) /\ Same(d, q) /\ (\A x \in Keys : Keeps(d, q, x)) /\ Awake(q)
  BY <1>3, <1>4, <1>5, SettleFacts DEF Same
<1> QED BY <1>4, <1>5, <1>6, KeepsTrans DEF Same

LEMMA TimerFacts ==
  ASSUME NEW p, Orderly(p), NEW q, q = OnTimer(p)
  PROVE  /\ Orderly(q) /\ Same(p, q) /\ (\A x \in Keys : Keeps(p, q, x))
         /\ p.ready => Awake(q)
         /\ ~p.ready => \A x \in Keys : q.sent[x] = p.sent[x]
<1> DEFINE c == [p EXCEPT !.timer = "off"]
           d == ExpireOverdue(c)
<1>1. q = Settle(d) /\ p \in Pacers
  BY DEF OnTimer, Orderly
<1>2. /\ c \in Pacers /\ Same(p, c) /\ c.queue = p.queue
      /\ c.flying = p.flying /\ c.sent = p.sent /\ c.resent = p.resent
  BY <1>1, WithTimer
<1> HIDE DEF c
<1>3. Orderly(c) /\ \A x \in Keys : Keeps(p, c, x)
  BY ONLY <1>2, OrderlySame, Orderly(p)
<1>4. Orderly(d) /\ Same(c, d) /\ (\A x \in Keys : Keeps(c, d, x)) /\ d.sent = c.sent
  BY ONLY <1>3, ExpireFacts
<1> HIDE DEF d
<1>5. /\ Orderly(q) /\ Same(d, q) /\ (\A x \in Keys : Keeps(d, q, x))
      /\ d.ready => Awake(q)
      /\ ~d.ready => \A x \in Keys : q.sent[x] = d.sent[x]
  BY ONLY <1>1, <1>4, SettleFacts
<1>6. Same(p, d) /\ \A x \in Keys : Keeps(p, d, x)
  BY <1>2, <1>3, <1>4, KeepsTrans DEF Same
<1> QED BY <1>2, <1>4, <1>5, <1>6, KeepsTrans DEF Same

LEMMA TrackFacts ==
  ASSUME NEW p, Orderly(p), p.ready, NEW q, q = TrackUntilIdle(p)
  PROVE  Orderly(q) /\ Same(p, q) /\ (\A x \in Keys : Keeps(p, q, x)) /\ Awake(q)
<1> DEFINE c == [p EXCEPT !.tracking = TRUE]
<1>1. q = Settle(c) /\ p \in Pacers
  BY DEF TrackUntilIdle, Orderly
<1>2. /\ c \in Pacers /\ Same(p, c) /\ c.queue = p.queue
      /\ c.flying = p.flying /\ c.sent = p.sent /\ c.resent = p.resent
  BY ONLY <1>1 DEF Pacers, Same
<1> HIDE DEF c
<1>3. Orderly(c) /\ \A x \in Keys : Keeps(p, c, x)
  BY ONLY <1>2, OrderlySame, Orderly(p)
<1>4. Orderly(q) /\ Same(c, q) /\ (\A x \in Keys : Keeps(c, q, x)) /\ Awake(q)
  BY <1>1, <1>2, <1>3, SettleFacts DEF Same
<1> QED BY <1>2, <1>3, <1>4, KeepsTrans DEF Same

LEMMA ResetFacts ==
  ASSUME NEW p, Orderly(p), NEW q, q = Reset(p)
  PROVE  /\ Orderly(q) /\ Same(p, q) /\ q.sent = p.sent /\ Awake(q)
         /\ \A k \in Keys : Free(q, k)
<1> DEFINE w == [k \in Keys |-> "no"]
<1>1. p \in Pacers /\ w \in [Keys -> {"no", "fresh", "overdue"}] /\ \A k \in Keys : w[k] = "no"
  BY DEF Orderly
<1>2. q = [p EXCEPT !.timer = "off", !.flying = w, !.queue = <<>>, !.tracking = FALSE]
  BY DEF Reset
<1> HIDE DEF w
<1>3. /\ q \in Pacers /\ Same(p, q) /\ q.sent = p.sent /\ q.flying = w /\ q.queue = <<>>
  <2> DEFINE a == [p EXCEPT !.timer = "off"]
             b == [a EXCEPT !.flying = w]
             c == [b EXCEPT !.queue = <<>>]
  <2>1. q = [c EXCEPT !.tracking = FALSE]
    BY <1>2
  <2>2. /\ a \in Pacers /\ Same(p, a) /\ a.sent = p.sent
    BY ONLY <1>1, WithTimer
  <2> HIDE DEF a
  <2>3. /\ b \in Pacers /\ Same(a, b) /\ b.sent = a.sent /\ b.flying = w
    BY ONLY <2>2, <1>1, WithFlying
  <2> HIDE DEF b
  <2>4. /\ c \in Pacers /\ Same(b, c) /\ c.sent = b.sent /\ c.flying = b.flying /\ c.queue = <<>>
    <3> DEFINE v == <<>>
    <3>1. v \in Seq(Entries)
      OBVIOUS
    <3> HIDE DEF v
    <3>2. /\ c \in Pacers /\ Same(b, c) /\ c.sent = b.sent /\ c.flying = b.flying /\ c.queue = v
      <4>1. c = [b EXCEPT !.queue = v]
        BY DEF v
      <4> HIDE DEF c
      <4> QED BY ONLY <2>3, <3>1, <4>1, WithQueue
    <3> QED BY <3>2 DEF v
  <2> HIDE DEF c
  <2>5. /\ q \in Pacers /\ Same(c, q) /\ q.sent = c.sent /\ q.flying = c.flying /\ q.queue = c.queue
    BY ONLY <2>1, <2>4 DEF Pacers, Same
  <2> QED BY ONLY <2>2, <2>3, <2>4, <2>5 DEF Same
<1>4. Queued(q) = {} /\ InFlight(q) = {} /\ Distinct(q.queue)
  BY <1>1, <1>3 DEF Queued, KeysIn, InFlight, Distinct
<1>5. Cardinality(InFlight(q)) <= Window
  BY <1>4, FS_EmptySet, WindowAssumption
<1> QED BY <1>1, <1>3, <1>4, <1>5 DEF Orderly, Awake, Free

-----------------------------------------------------------------------------
(* The keys that linger, with the level each had.                          *)
LevelIn(s, k) == (CHOOSE e \in ToSet(s) : e.key = k).level

LEMMA LevelInFacts ==
  ASSUME NEW s \in Seq(Entries), Distinct(s), NEW k
  PROVE  /\ \A e : Has(s, e) /\ e.key = k => LevelIn(s, k) = e.level
         /\ k \in KeysIn(s) => /\ \E e \in Entries : Has(s, e) /\ e.key = k
                               /\ LevelIn(s, k) \in Levels
<1>1. \A e : Has(s, e) <=> e \in ToSet(s)
  BY DEF Has, ToSet
<1>2. \A e, f \in ToSet(s) : e.key = k /\ f.key = k => e = f
  BY DEF ToSet, Distinct
<1>3. ASSUME NEW e, Has(s, e), e.key = k PROVE LevelIn(s, k) = e.level
  BY <1>1, <1>2, <1>3 DEF LevelIn
<1>4. ASSUME k \in KeysIn(s)
      PROVE  (\E e \in Entries : Has(s, e) /\ e.key = k) /\ LevelIn(s, k) \in Levels
  <2>1. PICK i \in DOMAIN s : s[i].key = k
    BY <1>4 DEF KeysIn
  <2>2. s[i] \in Entries /\ Has(s, s[i])
    BY DEF Has
  <2>3. s[i].level \in Levels
    BY <2>2 DEF Entries
  <2> QED BY <1>3, <2>1, <2>2, <2>3
<1> QED BY <1>3, <1>4

LEMMA KeysInHas ==
  ASSUME NEW s, NEW k
  PROVE  k \in KeysIn(s) <=> \E e : Has(s, e) /\ e.key = k
BY DEF KeysIn, Has

(* Two sequences with the same entry of a key.                             *)
LEMMA SameEntry ==
  ASSUME NEW s \in Seq(Entries), Distinct(s), NEW t \in Seq(Entries), Distinct(t), NEW k,
         \A e : e.key = k => (Has(s, e) <=> Has(t, e))
  PROVE  /\ k \in KeysIn(s) <=> k \in KeysIn(t)
         /\ k \in KeysIn(s) => LevelIn(s, k) = LevelIn(t, k)
<1>1. k \in KeysIn(s) <=> k \in KeysIn(t)
  BY KeysInHas
<1>2. ASSUME k \in KeysIn(s) PROVE LevelIn(s, k) = LevelIn(t, k)
  <2>1. PICK e : Has(s, e) /\ e.key = k
    BY <1>2, KeysInHas
  <2>2. Has(t, e)
    BY <2>1
  <2> QED BY <2>1, <2>2, LevelInFacts
<1> QED BY <1>1, <1>2

LEMMA AppendFacts ==
  ASSUME NEW s \in Seq(Entries), Distinct(s), NEW e \in Entries, e.key \notin KeysIn(s),
         NEW t, t = Append(s, e)
  PROVE  /\ t \in Seq(Entries) /\ Distinct(t) /\ KeysIn(t) = KeysIn(s) \cup {e.key}
         /\ \A x : Has(t, x) <=> Has(s, x) \/ x = e
<1> DEFINE n == Len(s)
<1>1. /\ n \in Nat /\ DOMAIN s = 1..n /\ t \in Seq(Entries) /\ DOMAIN t = 1..(n + 1)
      /\ t[n + 1] = e /\ \A i \in 1..n : t[i] = s[i]
  OBVIOUS
<1>2. \A i : i \in 1..(n + 1) <=> i \in 1..n \/ i = n + 1
  BY <1>1
<1> HIDE DEF n
<1>3. \A x : Has(t, x) <=> Has(s, x) \/ x = e
  <2>1. \A x : Has(t, x) <=> \E i \in 1..(n + 1) : t[i] = x
    BY ONLY <1>1 DEF Has
  <2>2. \A x : Has(s, x) <=> \E i \in 1..n : s[i] = x
    BY ONLY <1>1 DEF Has
  <2> QED BY ONLY <1>1, <1>2, <2>1, <2>2
<1>4. KeysIn(t) = KeysIn(s) \cup {e.key}
  BY ONLY <1>3, KeysInHas
<1>5. Distinct(t)
  <2>1. \A i \in 1..n : s[i].key # e.key
    BY <1>1 DEF KeysIn
  <2>2. \A i, j \in 1..n : s[i].key = s[j].key => i = j
    BY <1>1 DEF Distinct
  <2> QED BY ONLY <1>1, <1>2, <2>1, <2>2 DEF Distinct
<1> QED BY <1>1, <1>3, <1>4, <1>5

-----------------------------------------------------------------------------
(* Holdings: <<t, k, l>> when the tab t holds the key k at the level l.  A *)
(* tab that changes its level holds the key twice for a moment.            *)
Holdings     == Tabs \X Keys \X Levels
At(H, k, l)  == {t \in Tabs : <<t, k, l>> \in H}
Of(H, u, k)  == {x \in Tabs \X Levels : Owner[x[1]] = u /\ <<x[1], k, x[2]>> \in H}
Watches(H, u) == {k \in Keys : Of(H, u, k) # {}}

LEMMA HoldingsFinite ==
  ASSUME NEW H, NEW u, NEW k, NEW l
  PROVE  /\ IsFiniteSet(At(H, k, l)) /\ Cardinality(At(H, k, l)) \in Nat
         /\ IsFiniteSet(Of(H, u, k)) /\ Cardinality(Of(H, u, k)) \in Nat
         /\ IsFiniteSet(Watches(H, u)) /\ Cardinality(Watches(H, u)) \in Nat
<1>1. IsFiniteSet(Tabs) /\ IsFiniteSet(Keys)
  BY FiniteAssumption
<1>2. IsFiniteSet(Levels)
  <2>1. Levels = {"price"} \cup {"full"}
    BY DEF Levels
  <2> QED BY <2>1, FS_Singleton, FS_Union
<1>3. IsFiniteSet(Tabs \X Levels)
  BY <1>1, <1>2, FS_Product
<1>4. At(H, k, l) \in SUBSET Tabs /\ Of(H, u, k) \in SUBSET (Tabs \X Levels) /\ Watches(H, u) \in SUBSET Keys
  BY DEF At, Of, Watches
<1> QED BY <1>1, <1>3, <1>4, FS_Subset, FS_CardinalityType

Grows(H, G, u, k, l) ==
  /\ Cardinality(At(G, k, l)) = Cardinality(At(H, k, l)) + 1
  /\ \A x \in Keys, m \in Levels : <<x, m>> # <<k, l>> => At(G, x, m) = At(H, x, m)
  /\ Cardinality(Of(G, u, k)) = Cardinality(Of(H, u, k)) + 1
  /\ \A v, x : <<v, x>> # <<u, k>> => Of(G, v, x) = Of(H, v, x)
  /\ Cardinality(Watches(G, u)) =
       IF Of(H, u, k) = {} THEN Cardinality(Watches(H, u)) + 1 ELSE Cardinality(Watches(H, u))
  /\ \A v : v # u => Watches(G, v) = Watches(H, v)

LEMMA OneMoreHolding ==
  ASSUME NEW H, NEW t \in Tabs, NEW k \in Keys, NEW l \in Levels, <<t, k, l>> \notin H,
         NEW G, G = H \cup {<<t, k, l>>}
  PROVE  Grows(H, G, Owner[t], k, l)
<1> DEFINE u == Owner[t]
<1>1. At(G, k, l) = At(H, k, l) \cup {t} /\ t \notin At(H, k, l)
  BY DEF At
<1>2. \A x \in Keys, m \in Levels : <<x, m>> # <<k, l>> => At(G, x, m) = At(H, x, m)
  BY DEF At
<1>3. Of(G, u, k) = Of(H, u, k) \cup {<<t, l>>} /\ <<t, l>> \notin Of(H, u, k)
  <2>1. ASSUME NEW x \in Tabs \X Levels
        PROVE  <<x[1], k, x[2]>> \in G <=> <<x[1], k, x[2]>> \in H \/ x = <<t, l>>
    OBVIOUS
  <2> QED BY <2>1 DEF Of
<1>4. \A v, x : <<v, x>> # <<u, k>> => Of(G, v, x) = Of(H, v, x)
  <2> TAKE v, x
  <2> HAVE <<v, x>> # <<u, k>>
  <2>1. ASSUME NEW y \in Tabs \X Levels
        PROVE  Owner[y[1]] = v /\ <<y[1], x, y[2]>> \in G <=> Owner[y[1]] = v /\ <<y[1], x, y[2]>> \in H
    <3>1. <<y[1], x, y[2]>> = <<t, k, l>> => y[1] = t /\ x = k
      OBVIOUS
    <3> QED BY <3>1
  <2> QED BY <2>1 DEF Of
<1>5. \A v : v # u => Watches(G, v) = Watches(H, v)
  BY <1>4 DEF Watches
<1>6. Watches(G, u) = Watches(H, u) \cup {k} /\ (k \in Watches(H, u) <=> Of(H, u, k) # {})
  BY <1>3, <1>4 DEF Watches
<1> HIDE DEF u
<1>7. Cardinality(At(G, k, l)) = Cardinality(At(H, k, l)) + 1
  BY <1>1, HoldingsFinite, FS_AddElement
<1>8. Cardinality(Of(G, u, k)) = Cardinality(Of(H, u, k)) + 1
  BY <1>3, HoldingsFinite, FS_AddElement
<1>9. Cardinality(Watches(G, u)) = IF Of(H, u, k) = {} THEN Cardinality(Watches(H, u)) + 1
                                   ELSE Cardinality(Watches(H, u))
  BY <1>6, HoldingsFinite, FS_AddElement
<1> QED BY ONLY <1>2, <1>4, <1>5, <1>7, <1>8, <1>9 DEF u, Grows

-----------------------------------------------------------------------------
(* The books of the hub: its counts are those of the holdings H, and the   *)
(* keys without a reference are those that linger.                         *)
HubOf(refs, held, active, linger, pacer) ==
  [refs |-> refs, held |-> held, active |-> active, linger |-> linger, pacer |-> pacer]
IsRecord(h) == h = HubOf(h.refs, h.held, h.active, h.linger, h.pacer)

Shape(h) ==
  /\ IsRecord(h)
  /\ h.refs \in PartialFunctions(Keys, Refs)
  /\ h.held \in [Users -> PartialFunctions(Keys, Nat)] /\ h.active \in [Users -> Nat]
  /\ \A u \in Users : DOMAIN h.held[u] \subseteq DOMAIN h.refs
  /\ h.linger \in Seq(Entries)

Lingers(h) ==
  /\ Distinct(h.linger)
  /\ \A k \in Keys : k \in Lingering(h) <=> k \in DOMAIN h.refs /\ TotalRefs(h.refs[k]) = 0

Counted(h, H) ==
  /\ \A k \in DOMAIN h.refs, l \in Levels : h.refs[k][l] = Cardinality(At(H, k, l))
  /\ \A k \in Keys \ DOMAIN h.refs : \A t \in Tabs, l \in Levels : <<t, k, l>> \notin H
  /\ \A u \in Users : /\ \A k \in Keys : HeldBy(h, u, k) = Cardinality(Of(H, u, k))
                      /\ h.active[u] = Cardinality(Watches(H, u)) /\ h.active[u] <= UserLimit
  /\ Cardinality(DOMAIN h.refs) <= GlobalLimit

Books(h, H) == H \subseteq Holdings /\ Shape(h) /\ Lingers(h) /\ Counted(h, H)

(* A method that touches the pacer alone.                                  *)
Frame(h, g) ==
  /\ IsRecord(g)
  /\ g.refs = h.refs /\ g.held = h.held /\ g.active = h.active /\ g.linger = h.linger

Wanted(h, k) == IF k \in Lingering(h) THEN LingerLevel(h, k) ELSE EffectiveLevel(h.refs[k])

LEMMA PartialFacts ==
  ASSUME NEW S, NEW T, NEW f \in PartialFunctions(S, T)
  PROVE  DOMAIN f \subseteq S /\ \A x \in DOMAIN f : f[x] \in T
BY DEF PartialFunctions

LEMMA PartialSet ==
  ASSUME NEW S, NEW T, NEW f \in PartialFunctions(S, T), NEW k \in S, NEW v \in T
  PROVE  Set(f, k, v) \in PartialFunctions(S, T)
<1>1. PICK D \in SUBSET S : f \in [D -> T]
  BY DEF PartialFunctions
<1>2. D \cup {k} \in SUBSET S /\ Set(f, k, v) \in [D \cup {k} -> T]
  BY <1>1 DEF Set
<1> QED BY <1>2 DEF PartialFunctions

LEMMA PartialWithout ==
  ASSUME NEW S, NEW T, NEW f \in PartialFunctions(S, T), NEW D
  PROVE  Restrict(f, DOMAIN f \cap D) \in PartialFunctions(S, T)
<1>1. PICK E \in SUBSET S : f \in [E -> T]
  BY DEF PartialFunctions
<1>2. E \cap D \in SUBSET S /\ Restrict(f, DOMAIN f \cap D) \in [E \cap D -> T]
  BY <1>1 DEF Restrict
<1> QED BY <1>2 DEF PartialFunctions

LEMMA WithoutIsPartial ==
  ASSUME NEW S, NEW T, NEW f \in PartialFunctions(S, T), NEW k
  PROVE  Without(f, k) \in PartialFunctions(S, T)
<1>1. PICK E \in SUBSET S : f \in [E -> T]
  BY DEF PartialFunctions
<1>2. E \ {k} \in SUBSET S /\ Without(f, k) \in [E \ {k} -> T]
  BY <1>1 DEF Without, Restrict
<1> QED BY <1>2 DEF PartialFunctions

LEMMA ShapeFacts ==
  ASSUME NEW h, Shape(h)
  PROVE  /\ DOMAIN h.refs \subseteq Keys /\ \A k \in DOMAIN h.refs : h.refs[k] \in Refs
         /\ \A u \in Users : /\ DOMAIN h.held[u] \subseteq Keys /\ DOMAIN h.held[u] \subseteq DOMAIN h.refs
                             /\ \A k \in DOMAIN h.held[u] : h.held[u][k] \in Nat
                             /\ \A k : HeldBy(h, u, k) \in Nat
         /\ IsFiniteSet(DOMAIN h.refs) /\ Cardinality(DOMAIN h.refs) \in Nat
<1>1. DOMAIN h.refs \subseteq Keys /\ \A k \in DOMAIN h.refs : h.refs[k] \in Refs
  BY PartialFacts DEF Shape
<1>2. ASSUME NEW u \in Users
      PROVE  /\ DOMAIN h.held[u] \subseteq Keys /\ DOMAIN h.held[u] \subseteq DOMAIN h.refs
             /\ \A k \in DOMAIN h.held[u] : h.held[u][k] \in Nat
  <2>1. h.held[u] \in PartialFunctions(Keys, Nat) /\ DOMAIN h.held[u] \subseteq DOMAIN h.refs
    BY DEF Shape
  <2> QED BY <2>1, PartialFacts
<1>3. \A u \in Users : \A k : HeldBy(h, u, k) \in Nat
  BY <1>2 DEF HeldBy
<1> QED BY <1>1, <1>2, <1>3, FiniteAssumption, FS_Subset, FS_CardinalityType

LEMMA RecordFacts ==
  ASSUME NEW r, NEW d, NEW a, NEW l, NEW p, NEW h, h = HubOf(r, d, a, l, p)
  PROVE  h.refs = r /\ h.held = d /\ h.active = a /\ h.linger = l /\ h.pacer = p /\ IsRecord(h)
BY DEF HubOf, IsRecord

LEMMA FrameBooks ==
  ASSUME NEW h, NEW H, Books(h, H), NEW g, Frame(h, g)
  PROVE  Books(g, H) /\ \A k : Wanted(g, k) = Wanted(h, k)
<1>1. Shape(g)
  BY DEF Books, Shape, Frame
<1> QED BY <1>1 DEF Books, Lingers, Counted, Frame, HeldBy, Lingering, Wanted, LingerLevel

LEMMA FrameTrans ==
  ASSUME NEW f, NEW g, NEW h, Frame(f, g), Frame(g, h)
  PROVE  Frame(f, h)
BY DEF Frame

LEMMA WithPacer ==
  ASSUME NEW h, Shape(h), NEW q, NEW g, g = [h EXCEPT !.pacer = q]
  PROVE  Frame(h, g) /\ g.pacer = q
<1>1. g = HubOf(h.refs, h.held, h.active, h.linger, q)
  BY DEF Shape, IsRecord, HubOf
<1> QED BY <1>1, RecordFacts DEF Frame

LEMMA RefsFacts ==
  ASSUME NEW r \in Refs
  PROVE  /\ r.full \in Nat /\ r.price \in Nat /\ TotalRefs(r) \in Nat
         /\ TotalRefs(r) = 0 <=> r.full = 0 /\ r.price = 0
         /\ EffectiveLevel(r) \in Levels
         /\ \A l \in Levels : r[l] \in Nat
BY DEF Refs, TotalRefs, EffectiveLevel, Levels

Plus(r, l) == [r EXCEPT ![l] = @ + 1]
Less(r, l) == [r EXCEPT ![l] = @ - 1]

Up(r, l, q) ==
  /\ q \in Refs /\ TotalRefs(q) = TotalRefs(r) + 1
  /\ \A m \in Levels : q[m] = IF m = l THEN r[m] + 1 ELSE r[m]
Below(r, l, q) ==
  /\ q \in Refs /\ TotalRefs(q) = TotalRefs(r) - 1
  /\ \A m \in Levels : q[m] = IF m = l THEN r[m] - 1 ELSE r[m]
  /\ EffectiveLevel(q) = EffectiveLevel(r) \/ EffectiveLevel(q) = "price"

LEMMA RefsUp ==
  ASSUME NEW r \in Refs, NEW l \in Levels
  PROVE  Up(r, l, Plus(r, l))
<1>1. CASE l = "full"
  BY <1>1 DEF Up, Plus, Refs, TotalRefs, Levels
<1>2. CASE l = "price"
  BY <1>2 DEF Up, Plus, Refs, TotalRefs, Levels
<1> QED BY <1>1, <1>2 DEF Levels

LEMMA RefsDown ==
  ASSUME NEW r \in Refs, NEW l \in Levels, r[l] # 0
  PROVE  Below(r, l, Less(r, l))
<1>1. CASE l = "full"
  BY <1>1 DEF Below, Less, Refs, TotalRefs, EffectiveLevel, Levels
<1>2. CASE l = "price"
  BY <1>2 DEF Below, Less, Refs, TotalRefs, EffectiveLevel, Levels
<1> QED BY <1>1, <1>2 DEF Levels

LEMMA SetFacts ==
  ASSUME NEW f, NEW k, NEW v, NEW g, g = Set(f, k, v)
  PROVE  /\ DOMAIN g = DOMAIN f \cup {k} /\ g[k] = v
         /\ \A x \in DOMAIN f : x # k => g[x] = f[x]
BY DEF Set

LEMMA WithoutFacts ==
  ASSUME NEW f, NEW k, NEW g, g = Without(f, k)
  PROVE  DOMAIN g = DOMAIN f \ {k} /\ \A x \in DOMAIN g : g[x] = f[x]
BY DEF Without, Restrict

LEMMA LevelsApart == "price" \in Levels /\ "full" \in Levels /\ \A l \in Levels : l = "price" \/ l = "full"
BY DEF Levels

(* What a key wants is one level.                                          *)
LEMMA WantedFacts ==
  ASSUME NEW h, NEW H, Books(h, H), NEW k \in DOMAIN h.refs
  PROVE  Wanted(h, k) \in Levels /\ Wanted(h, k) =
           IF k \in KeysIn(h.linger) THEN LevelIn(h.linger, k) ELSE EffectiveLevel(h.refs[k])
<1>1. h.linger \in Seq(Entries) /\ Distinct(h.linger) /\ h.refs[k] \in Refs
  BY ShapeFacts DEF Books, Shape, Lingers
<1>2. Wanted(h, k) = IF k \in KeysIn(h.linger) THEN LevelIn(h.linger, k) ELSE EffectiveLevel(h.refs[k])
  BY DEF Wanted, Lingering, LingerLevel, LevelIn
<1> QED BY <1>1, <1>2, LevelInFacts, RefsFacts

(* A key that lingers is nobody's.                                         *)
LEMMA LingeringIsFree ==
  ASSUME NEW h, NEW H, Books(h, H), NEW k \in Lingering(h)
  PROVE  /\ k \in Keys /\ k \in DOMAIN h.refs
         /\ \A t \in Tabs, l \in Levels : <<t, k, l>> \notin H
         /\ \A u \in Users : HeldBy(h, u, k) = 0
<1>1. k \in Keys
  <2>1. h.linger \in Seq(Entries) /\ Distinct(h.linger) /\ k \in KeysIn(h.linger)
    BY DEF Books, Shape, Lingers, Lingering
  <2>2. \E e \in Entries : e.key = k
    BY <2>1, LevelInFacts
  <2> QED BY <2>2 DEF Entries
<1>2. k \in DOMAIN h.refs /\ TotalRefs(h.refs[k]) = 0 /\ h.refs[k] \in Refs
  BY <1>1, ShapeFacts DEF Books, Lingers
<1>3. \A l \in Levels : h.refs[k][l] = 0
  BY <1>2, RefsFacts, LevelsApart
<1>4. \A l \in Levels : At(H, k, l) = {}
  <2> TAKE l \in Levels
  <2>1. Cardinality(At(H, k, l)) = 0
    BY <1>2, <1>3 DEF Books, Counted
  <2> QED BY <2>1, HoldingsFinite, FS_EmptySet
<1>5. \A t \in Tabs, l \in Levels : <<t, k, l>> \notin H
  BY <1>4 DEF At
<1>6. ASSUME NEW u \in Users PROVE HeldBy(h, u, k) = 0
  <2>1. Of(H, u, k) = {}
    BY <1>5 DEF Of
  <2> QED BY <1>1, <2>1, FS_EmptySet DEF Books, Counted
<1> QED BY <1>1, <1>2, <1>5, <1>6

(* #releaseKey of a key that lingers                                       *)
LEMMA ReleaseFields ==
  ASSUME NEW h, Shape(h), NEW k, NEW b, NEW g, g = ReleaseKey(h, k, b)
  PROVE  /\ IsRecord(g) /\ g.refs = Without(h.refs, k) /\ g.linger = Delete(h.linger, k)
         /\ g.held = [u \in Users |-> Without(h.held[u], k)]
         /\ g.active = [u \in Users |-> IF HeldBy(h, u, k) > 0 THEN h.active[u] - 1 ELSE h.active[u]]
         /\ g.pacer = IF b /\ h.pacer.ready THEN ControlUnsubscribe(h.pacer, k) ELSE h.pacer
<1> DEFINE r == Without(h.refs, k)
           d == [u \in Users |-> Without(h.held[u], k)]
           a == [u \in Users |-> IF HeldBy(h, u, k) > 0 THEN h.active[u] - 1 ELSE h.active[u]]
           l == Delete(h.linger, k)
           f == Forgotten(h, k)
<1>1. g = IF b /\ h.pacer.ready THEN [f EXCEPT !.pacer = ControlUnsubscribe(@, k)] ELSE f
  BY DEF ReleaseKey
<1>2. f = HubOf(r, d, a, l, h.pacer)
  <2>1. h = HubOf(h.refs, h.held, h.active, h.linger, h.pacer)
    BY DEF Shape, IsRecord
  <2> DEFINE c == ClearLinger(h, k)
  <2>2. c = HubOf(h.refs, h.held, h.active, l, h.pacer)
    <3>1. c = [h EXCEPT !.linger = l]
      BY DEF ClearLinger
    <3> HIDE DEF c, l
    <3> QED BY ONLY <2>1, <3>1 DEF HubOf
  <2>3. f = [c EXCEPT !.refs = Without(c.refs, k), !.held = [u \in Users |-> Without(c.held[u], k)],
                      !.active = [u \in Users |-> IF HeldBy(h, u, k) > 0 THEN c.active[u] - 1 ELSE c.active[u]]]
    BY DEF Forgotten
  <2> HIDE DEF c
  <2>4. c.refs = h.refs /\ c.held = h.held /\ c.active = h.active
    BY ONLY <2>2, RecordFacts
  <2>5. f = [c EXCEPT !.refs = r, !.held = d, !.active = a]
    BY <2>3, <2>4
  <2> HIDE DEF r, d, a, l, f
  <2> QED BY ONLY <2>2, <2>5 DEF HubOf
<1> HIDE DEF r, d, a, l, f
<1>3. f.pacer = h.pacer
  BY <1>2, RecordFacts
<1>4. g = HubOf(r, d, a, l, IF b /\ h.pacer.ready THEN ControlUnsubscribe(h.pacer, k) ELSE h.pacer)
  <2>1. [f EXCEPT !.pacer = ControlUnsubscribe(@, k)] = [f EXCEPT !.pacer = ControlUnsubscribe(h.pacer, k)]
    BY <1>3
  <2>2. [f EXCEPT !.pacer = ControlUnsubscribe(h.pacer, k)] = HubOf(r, d, a, l, ControlUnsubscribe(h.pacer, k))
    BY ONLY <1>2 DEF HubOf
  <2> QED BY ONLY <1>1, <1>2, <2>1, <2>2
<1>5. /\ IsRecord(g) /\ g.refs = r /\ g.linger = l /\ g.held = d /\ g.active = a
      /\ g.pacer = IF b /\ h.pacer.ready THEN ControlUnsubscribe(h.pacer, k) ELSE h.pacer
  BY ONLY <1>4, RecordFacts
<1> QED BY <1>5 DEF r, d, a, l

(* The key is gone, and nothing else has changed but the pacer.            *)
Releases(h, g, k) ==
  /\ Lingering(g) = Lingering(h) \ {k}
  /\ DOMAIN g.refs = DOMAIN h.refs \ {k}
  /\ Cardinality(DOMAIN g.refs) = Cardinality(DOMAIN h.refs) - 1
  /\ \A x \in DOMAIN g.refs : g.refs[x] = h.refs[x] /\ Wanted(g, x) = Wanted(h, x)
  /\ \A u \in Users : /\ DOMAIN g.held[u] = DOMAIN h.held[u] \ {k}
                      /\ g.active[u] = h.active[u] /\ \A x : HeldBy(g, u, x) = HeldBy(h, u, x)

LEMMA ReleaseBooks ==
  ASSUME NEW h, NEW H, Books(h, H), NEW k \in Lingering(h), NEW b, NEW g, g = ReleaseKey(h, k, b)
  PROVE  /\ Books(g, H) /\ Releases(h, g, k)
         /\ g.pacer = IF b /\ h.pacer.ready THEN ControlUnsubscribe(h.pacer, k) ELSE h.pacer
<1>s. Shape(h) /\ Lingers(h) /\ Counted(h, H) /\ H \subseteq Holdings
  BY DEF Books
<1>1. /\ IsRecord(g) /\ g.refs = Without(h.refs, k) /\ g.linger = Delete(h.linger, k)
      /\ g.held = [u \in Users |-> Without(h.held[u], k)]
      /\ g.active = [u \in Users |-> IF HeldBy(h, u, k) > 0 THEN h.active[u] - 1 ELSE h.active[u]]
      /\ g.pacer = IF b /\ h.pacer.ready THEN ControlUnsubscribe(h.pacer, k) ELSE h.pacer
  BY ONLY <1>s, ReleaseFields, g = ReleaseKey(h, k, b)
<1>2. /\ k \in Keys /\ k \in DOMAIN h.refs
      /\ \A t \in Tabs, l \in Levels : <<t, k, l>> \notin H
      /\ \A u \in Users : HeldBy(h, u, k) = 0
  BY LingeringIsFree
<1>3. DOMAIN g.refs = DOMAIN h.refs \ {k} /\ \A x \in DOMAIN g.refs : g.refs[x] = h.refs[x]
  <2> DEFINE r == g.refs
  <2>1. r = Without(h.refs, k)
    BY <1>1
  <2> HIDE DEF r
  <2>2. DOMAIN r = DOMAIN h.refs \ {k} /\ \A x \in DOMAIN r : r[x] = h.refs[x]
    BY ONLY <2>1 DEF Without, Restrict
  <2> QED BY <2>2 DEF r
<1>4. \A u \in Users : /\ DOMAIN g.held[u] = DOMAIN h.held[u] \ {k}
                      /\ \A x \in DOMAIN g.held[u] : g.held[u][x] = h.held[u][x]
  <2> TAKE u \in Users
  <2> DEFINE r == g.held[u]
             q == h.held[u]
  <2>1. r = Without(q, k)
    BY ONLY <1>1, u \in Users
  <2> HIDE DEF r, q
  <2>2. DOMAIN r = DOMAIN q \ {k} /\ \A x \in DOMAIN r : r[x] = q[x]
    BY ONLY <2>1 DEF Without, Restrict
  <2> QED BY ONLY <2>2 DEF r, q
<1>5. \A u \in Users : g.active[u] = h.active[u]
  BY ONLY <1>1, <1>2
<1>6. \A u \in Users : \A x : HeldBy(g, u, x) = HeldBy(h, u, x)
  <2> TAKE u \in Users
  <2> TAKE x
  <2>1. CASE x = k
    <3>1. k \notin DOMAIN g.held[u]
      BY ONLY <1>4, u \in Users
    <3> QED BY <2>1, <3>1, <1>2 DEF HeldBy
  <2>2. CASE x # k
    <3>1. x \in DOMAIN g.held[u] <=> x \in DOMAIN h.held[u]
      BY ONLY <1>4, <2>2, u \in Users
    <3> QED BY ONLY <1>4, <3>1, u \in Users DEF HeldBy
  <2> QED BY <2>1, <2>2
<1>7. /\ g.linger \in Seq(Entries) /\ Distinct(g.linger) /\ KeysIn(g.linger) = KeysIn(h.linger) \ {k}
      /\ \A e : Has(g.linger, e) <=> e.key # k /\ Has(h.linger, e)
  <2>1. h.linger \in Seq(Entries) /\ Distinct(h.linger)
    BY <1>s DEF Shape, Lingers
  <2> QED BY ONLY <1>1, <2>1, DeleteFacts
<1>8. Lingering(g) = Lingering(h) \ {k}
  BY <1>7 DEF Lingering
<1>9. Shape(g)
  <2>1. g.refs \in PartialFunctions(Keys, Refs)
    BY <1>s, <1>1, WithoutIsPartial DEF Shape
  <2>2. \A u \in Users : DOMAIN g.held[u] \subseteq DOMAIN g.refs
    BY ONLY <1>s, <1>3, <1>4 DEF Shape
  <2>3. \A u \in Users : g.held[u] \in PartialFunctions(Keys, Nat)
    BY <1>s, <1>1, WithoutIsPartial DEF Shape
  <2>4. g.held \in [Users -> PartialFunctions(Keys, Nat)] /\ g.active \in [Users -> Nat]
    BY ONLY <1>1, <1>2, <1>s, <2>3 DEF Shape
  <2> QED BY ONLY <2>1, <2>2, <2>4, <1>1, <1>7 DEF Shape
<1>10. Lingers(g)
  BY <1>s, <1>3, <1>7, <1>8 DEF Lingers
<1>11. Cardinality(DOMAIN g.refs) = Cardinality(DOMAIN h.refs) - 1 /\ Cardinality(DOMAIN g.refs) \in Nat
  <2>1. IsFiniteSet(DOMAIN h.refs) /\ DOMAIN g.refs \in SUBSET DOMAIN h.refs
    BY <1>s, <1>3, ShapeFacts
  <2> QED BY <2>1, <1>2, <1>3, FS_RemoveElement, FS_Subset, FS_CardinalityType
<1>12. Counted(g, H)
  <2>1. Cardinality(DOMAIN g.refs) <= GlobalLimit
    <3>1. Cardinality(DOMAIN h.refs) <= GlobalLimit /\ GlobalLimit \in Nat
      BY <1>s, LimitAssumption DEF Counted
    <3>2. Cardinality(DOMAIN h.refs) \in Nat
      BY <1>s, ShapeFacts
    <3> QED BY ONLY <3>1, <3>2, <1>11
  <2>2. \A x \in DOMAIN g.refs, l \in Levels : g.refs[x][l] = Cardinality(At(H, x, l))
    BY <1>s, <1>3 DEF Counted
  <2>3. \A x \in Keys \ DOMAIN g.refs : \A t \in Tabs, l \in Levels : <<t, x, l>> \notin H
    BY <1>s, <1>2, <1>3 DEF Counted
  <2>4. \A u \in Users : /\ \A x \in Keys : HeldBy(g, u, x) = Cardinality(Of(H, u, x))
                        /\ g.active[u] = Cardinality(Watches(H, u)) /\ g.active[u] <= UserLimit
    BY <1>s, <1>5, <1>6 DEF Counted
  <2> QED BY ONLY <2>1, <2>2, <2>3, <2>4 DEF Counted
<1>13. Books(g, H)
  BY <1>s, <1>9, <1>10, <1>12 DEF Books
<1>14. ASSUME NEW x \in DOMAIN g.refs PROVE Wanted(g, x) = Wanted(h, x)
  <2>1. x \in DOMAIN h.refs /\ x # k /\ g.refs[x] = h.refs[x]
    BY <1>3
  <2>2. h.linger \in Seq(Entries) /\ Distinct(h.linger)
    BY <1>s DEF Shape, Lingers
  <2>3. \A e : e.key = x => (Has(h.linger, e) <=> Has(g.linger, e))
    BY <2>1, <1>7
  <2>4. /\ x \in KeysIn(h.linger) <=> x \in KeysIn(g.linger)
        /\ x \in KeysIn(h.linger) => LevelIn(h.linger, x) = LevelIn(g.linger, x)
    BY ONLY <2>2, <2>3, <1>7, SameEntry
  <2>5. Wanted(h, x) = IF x \in KeysIn(h.linger) THEN LevelIn(h.linger, x) ELSE EffectiveLevel(h.refs[x])
    BY <2>1, WantedFacts
  <2>6. Wanted(g, x) = IF x \in KeysIn(g.linger) THEN LevelIn(g.linger, x) ELSE EffectiveLevel(g.refs[x])
    BY <1>13, WantedFacts
  <2> QED BY ONLY <2>1, <2>4, <2>5, <2>6
<1>15. Releases(h, g, k)
  BY <1>3, <1>4, <1>5, <1>6, <1>8, <1>11, <1>14 DEF Releases
<1> QED BY <1>1, <1>13, <1>15

-----------------------------------------------------------------------------
(* While the connection is ready the gateway has, or will have, the level  *)
(* a key wants, and a key the hub does not know is free; a connection that *)
(* is down has nothing.                                                    *)
AgreesAt(h, k) ==
  IF k \in DOMAIN h.refs THEN Asks(h.pacer, k, Wanted(h, k))
  ELSE Free(h.pacer, k) /\ h.pacer.sent[k] # "full"
Agrees(h) ==
  IF h.pacer.ready THEN Awake(h.pacer) /\ \A k \in Keys : AgreesAt(h, k)
  ELSE \A k \in Keys : h.pacer.sent[k] = "none"

Good(h, H) == Books(h, H) /\ Orderly(h.pacer) /\ Agrees(h)

(* A method leaves nobody without the progress of a key it knows who had   *)
(* it, or who learns the key by this method.                               *)
InformsAt(h, g, u, k) ==
  k \in DOMAIN g.held[u] =>
    \/ Promised(g.pacer, u, k)
    \/ k \in DOMAIN h.held[u] /\ ~Promised(h.pacer, u, k)
Informs(h, g) ==
  /\ Same(h.pacer, g.pacer)
  /\ h.pacer.ready => \A u \in h.pacer.declared, k \in Keys : InformsAt(h, g, u, k)

LEMMA InformsSelf ==
  ASSUME NEW h
  PROVE  Informs(h, h)
BY DEF Informs, InformsAt, Same

LEMMA InformsTrans ==
  ASSUME NEW f, NEW g, NEW h, Informs(f, g), Informs(g, h)
  PROVE  Informs(f, h)
<1>1. Same(f.pacer, h.pacer)
  BY DEF Informs, Same
<1>2. ASSUME f.pacer.ready, NEW u \in f.pacer.declared, NEW k \in Keys PROVE InformsAt(f, h, u, k)
  <2>1. InformsAt(f, g, u, k) /\ InformsAt(g, h, u, k)
    BY <1>2 DEF Informs, Same
  <2> QED BY <2>1 DEF InformsAt
<1> QED BY <1>1, <1>2 DEF Informs

(* A method that moves at most the key k in the pacer.                     *)
LEMMA InformsBy ==
  ASSUME NEW h, NEW g, NEW k, KeepsOthers(h.pacer, g.pacer, k),
         \A u \in h.pacer.declared, x \in Keys :
           x # k /\ x \in DOMAIN g.held[u] => x \in DOMAIN h.held[u],
         h.pacer.ready /\ k \in Keys => \A u \in h.pacer.declared : InformsAt(h, g, u, k)
  PROVE  Informs(h, g)
<1>1. Same(h.pacer, g.pacer) /\ \A x \in Keys : x # k => Keeps(h.pacer, g.pacer, x)
  BY DEF KeepsOthers
<1>2. ASSUME h.pacer.ready, NEW u \in h.pacer.declared, NEW x \in Keys PROVE InformsAt(h, g, u, x)
  <2>1. CASE x = k
    BY <1>2, <2>1
  <2>2. CASE x # k
    <3>1. Promised(h.pacer, u, x) => Promised(g.pacer, u, x)
      BY <1>1, <1>2, <2>2 DEF Keeps
    <3> QED BY <2>2, <3>1 DEF InformsAt
  <2> QED BY <2>1, <2>2
<1> QED BY <1>1, <1>2 DEF Informs

LEMMA AgreesKept ==
  ASSUME NEW h, NEW g, NEW k \in Keys, AgreesAt(h, k), Keeps(h.pacer, g.pacer, k),
         k \in DOMAIN g.refs <=> k \in DOMAIN h.refs,
         k \in DOMAIN h.refs => Wanted(g, k) = Wanted(h, k)
  PROVE  AgreesAt(g, k)
BY DEF AgreesAt, Keeps

(* #releaseKey leaves everything in order.                                 *)
LEMMA ReleaseGood ==
  ASSUME NEW h, NEW H, Good(h, H), NEW k \in Lingering(h), NEW g, g = ReleaseKey(h, k, TRUE)
  PROVE  Good(g, H) /\ Informs(h, g)
<1>0. Books(h, H) /\ Orderly(h.pacer) /\ Agrees(h) /\ k \in Keys /\ k \in DOMAIN h.refs
  BY LingeringIsFree DEF Good
<1>r. /\ Books(g, H) /\ Releases(h, g, k)
      /\ g.pacer = IF h.pacer.ready THEN ControlUnsubscribe(h.pacer, k) ELSE h.pacer
  <2> DEFINE b == TRUE
  <2>1. g = ReleaseKey(h, k, b)
    OBVIOUS
  <2> HIDE DEF b
  <2>2. /\ Books(g, H) /\ Releases(h, g, k)
        /\ g.pacer = IF b /\ h.pacer.ready THEN ControlUnsubscribe(h.pacer, k) ELSE h.pacer
    BY ONLY <1>0, <2>1, k \in Lingering(h), ReleaseBooks
  <2> QED BY ONLY <2>2 DEF b
<1>1. /\ Books(g, H) /\ Lingering(g) = Lingering(h) \ {k}
      /\ DOMAIN g.refs = DOMAIN h.refs \ {k}
      /\ \A x \in DOMAIN g.refs : Wanted(g, x) = Wanted(h, x)
      /\ \A u \in Users : DOMAIN g.held[u] = DOMAIN h.held[u] \ {k}
      /\ g.pacer = IF h.pacer.ready THEN ControlUnsubscribe(h.pacer, k) ELSE h.pacer
  BY ONLY <1>r DEF Releases
<1>u. h.pacer.declared \subseteq Users
  BY <1>0, PacerFields DEF Orderly
<1>2. CASE h.pacer.ready
  <2> DEFINE p == h.pacer
             q == g.pacer
  <2>1. q = ControlUnsubscribe(p, k) /\ Orderly(p) /\ p.ready /\ Awake(p)
    BY <1>0, <1>1, <1>2 DEF Agrees
  <2> HIDE DEF p, q
  <2>2. Orderly(q) /\ KeepsOthers(p, q, k) /\ Free(q, k) /\ q.sent[k] # "full" /\ Awake(q)
    BY ONLY <2>1, <1>0, ReleaseFacts
  <2> USE DEF p, q
  <2>3. ASSUME NEW x \in Keys PROVE AgreesAt(g, x)
    <3>1. CASE x = k
      BY <3>1, <2>2, <1>1 DEF AgreesAt
    <3>2. CASE x # k
      <4>1. AgreesAt(h, x) /\ Keeps(h.pacer, g.pacer, x)
        BY <1>0, <1>2, <2>2, <3>2 DEF Agrees, KeepsOthers
      <4>2. /\ x \in DOMAIN g.refs <=> x \in DOMAIN h.refs
            /\ x \in DOMAIN h.refs => Wanted(g, x) = Wanted(h, x)
        BY <1>1, <3>2
      <4> QED BY ONLY <4>1, <4>2, AgreesKept, x \in Keys
    <3> QED BY <3>1, <3>2
  <2>4. g.pacer.ready
    BY <1>2, <2>2 DEF KeepsOthers, Same
  <2>5. Good(g, H)
    BY <1>1, <2>2, <2>3, <2>4 DEF Good, Agrees
  <2>6. \A u \in h.pacer.declared : k \notin DOMAIN g.held[u]
    BY <1>1, <1>u
  <2>7. \A u \in h.pacer.declared, x \in Keys : x # k /\ x \in DOMAIN g.held[u] => x \in DOMAIN h.held[u]
    BY <1>1, <1>u
  <2>8. \A u \in h.pacer.declared : InformsAt(h, g, u, k)
    BY <2>6 DEF InformsAt
  <2> QED BY <2>2, <2>5, <2>7, <2>8, InformsBy
<1>3. CASE ~h.pacer.ready
  BY <1>0, <1>1, <1>3 DEF Good, Agrees, Informs, Same
<1> QED BY <1>2, <1>3

LEMMA MakeRoomGood ==
  ASSUME NEW h, NEW H, Good(h, H), NEW u \in Users, NEW k \in Keys, Verdict(h, u, k) = "ok",
         NEW g, g = MakeRoom(h, k)
  PROVE  /\ Good(g, H) /\ Informs(h, g)
         /\ k \in DOMAIN g.refs <=> k \in DOMAIN h.refs
         /\ k \notin DOMAIN g.refs => Cardinality(DOMAIN g.refs) < GlobalLimit
         /\ HeldBy(g, u, k) = HeldBy(h, u, k) /\ g.active[u] = h.active[u]
         /\ HeldBy(g, u, k) = 0 => g.active[u] < UserLimit
         /\ k \in DOMAIN h.refs => g = h
<1>0. Books(h, H) /\ Shape(h)
  BY DEF Good, Books
<1>1. /\ ~UserIsFull(h, u, k) /\ (NoRoom(h, k) => h.linger # <<>>)
  BY DEF Verdict
<1>2. HeldBy(h, u, k) = 0 => h.active[u] < UserLimit
  <2>1. h.active[u] \in Nat /\ UserLimit \in Nat
    BY <1>0, LimitAssumption DEF Shape
  <2> QED BY <1>1, <2>1 DEF UserIsFull
<1>3. Cardinality(DOMAIN h.refs) <= GlobalLimit /\ Cardinality(DOMAIN h.refs) \in Nat /\ GlobalLimit \in Nat
  BY <1>0, ShapeFacts, LimitAssumption DEF Books, Counted
<1>4. CASE ~NoRoom(h, k)
  <2>1. g = h
    BY <1>4 DEF MakeRoom
  <2>2. k \notin DOMAIN h.refs => Cardinality(DOMAIN h.refs) < GlobalLimit
    BY <1>3, <1>4 DEF NoRoom
  <2> QED BY <1>2, <2>1, <2>2, InformsSelf
<1>5. CASE NoRoom(h, k)
  <2> DEFINE x == h.linger[1].key
  <2>1. x \in Lingering(h)
    BY <1>0, <1>1, <1>5 DEF Shape, Lingering, KeysIn
  <2>2. g = ReleaseKey(h, x, TRUE)
    BY <1>5 DEF MakeRoom
  <2> HIDE DEF x
  <2>3. Good(g, H) /\ Informs(h, g)
    BY ONLY <2>1, <2>2, ReleaseGood, Good(h, H)
  <2>4. /\ DOMAIN g.refs = DOMAIN h.refs \ {x}
        /\ \A v \in Users : g.active[v] = h.active[v] /\ \A y : HeldBy(g, v, y) = HeldBy(h, v, y)
        /\ Cardinality(DOMAIN g.refs) = Cardinality(DOMAIN h.refs) - 1
    <3>1. Releases(h, g, x)
      BY ONLY <2>2, <1>0, <2>1, ReleaseBooks
    <3> QED BY ONLY <3>1 DEF Releases
  <2>5. k \notin DOMAIN h.refs
    BY <1>5 DEF NoRoom
  <2>6. HeldBy(g, u, k) = HeldBy(h, u, k) /\ g.active[u] = h.active[u]
    BY <2>4
  <2>7. Cardinality(DOMAIN g.refs) < GlobalLimit
    BY ONLY <1>3, <2>4
  <2> QED BY ONLY <1>2, <2>3, <2>4, <2>5, <2>6, <2>7
<1> QED BY <1>4, <1>5

-----------------------------------------------------------------------------
(* One reference more, one reference less.                                 *)

NoRefs == [full |-> 0, price |-> 0]
RefsOf(h, k) == IF k \in DOMAIN h.refs THEN h.refs[k] ELSE NoRefs
OneMore(n, x) == IF n = 0 THEN x + 1 ELSE x
OneLess(n, x) == IF n = 1 THEN x - 1 ELSE x
One(f, u, v) == [f EXCEPT ![u] = v]

LEMMA RefsOfFacts ==
  ASSUME NEW h, NEW H, Books(h, H), NEW k \in Keys
  PROVE  /\ RefsOf(h, k) \in Refs
         /\ \A l \in Levels : RefsOf(h, k)[l] = Cardinality(At(H, k, l))
<1>0. Shape(h)
  BY DEF Books
<1>1. CASE k \in DOMAIN h.refs
  BY <1>0, <1>1, ShapeFacts DEF Books, Counted, RefsOf
<1>2. CASE k \notin DOMAIN h.refs
  <2>1. RefsOf(h, k) = NoRefs
    BY <1>2 DEF RefsOf
  <2>2. \A l \in Levels : NoRefs[l] = 0
    BY DEF NoRefs, Levels
  <2>3. NoRefs \in Refs
    BY DEF NoRefs, Refs
  <2>4. \A l \in Levels : At(H, k, l) = {}
    BY <1>2 DEF Books, Counted, At
  <2> QED BY <2>1, <2>2, <2>3, <2>4, FS_EmptySet
<1> QED BY <1>1, <1>2

LEMMA AddFields ==
  ASSUME NEW h, Shape(h), NEW k, NEW u \in Users, NEW l, NEW g, g = AddReference(h, u, k, l)
  PROVE  /\ IsRecord(g)
         /\ g.refs = Set(h.refs, k, Plus(RefsOf(h, k), l))
         /\ g.held = One(h.held, u, Set(h.held[u], k, HeldBy(h, u, k) + 1))
         /\ g.active = One(h.active, u, OneMore(HeldBy(h, u, k), h.active[u]))
         /\ g.linger = Delete(h.linger, k)
         /\ g.pacer = h.pacer
<1> DEFINE c == ClearLinger(h, k)
           d == Delete(h.linger, k)
           n == HeldBy(h, u, k)
           r == Plus(RefsOf(h, k), l)
           a == OneMore(n, h.active[u])
<1>1. h = HubOf(h.refs, h.held, h.active, h.linger, h.pacer)
  BY DEF Shape, IsRecord
<1>2. c = HubOf(h.refs, h.held, h.active, d, h.pacer)
  <2>1. c = [h EXCEPT !.linger = d]
    BY DEF ClearLinger
  <2> HIDE DEF c, d
  <2> QED BY ONLY <1>1, <2>1 DEF HubOf
<1>3. g = [c EXCEPT !.held[u]   = Set(@, k, n + 1),
                    !.active[u] = IF n = 0 THEN @ + 1 ELSE @,
                    !.refs      = Set(@, k, r)]
  BY DEF AddReference, RefsOf, NoRefs, Plus
<1> HIDE DEF c, d, n, r
<1>4. c.refs = h.refs /\ c.held = h.held /\ c.active = h.active /\ c.linger = d /\ c.pacer = h.pacer
  BY ONLY <1>2, RecordFacts
<1>5. g = HubOf(Set(h.refs, k, r), [h.held EXCEPT ![u] = Set(h.held[u], k, n + 1)],
                [h.active EXCEPT ![u] = a], d, h.pacer)
  <2>1. g = [c EXCEPT !.held = [c.held EXCEPT ![u] = Set(c.held[u], k, n + 1)],
                      !.active = [c.active EXCEPT ![u] = IF n = 0 THEN c.active[u] + 1 ELSE c.active[u]],
                      !.refs = Set(c.refs, k, r)]
    BY ONLY <1>3
  <2>2. g = [c EXCEPT !.held = [h.held EXCEPT ![u] = Set(h.held[u], k, n + 1)],
                      !.active = [h.active EXCEPT ![u] = a],
                      !.refs = Set(h.refs, k, r)]
    BY ONLY <2>1, <1>4 DEF OneMore
  <2> DEFINE x == [h.held EXCEPT ![u] = Set(h.held[u], k, n + 1)]
             y == [h.active EXCEPT ![u] = a]
             z == Set(h.refs, k, r)
  <2>3. g = [c EXCEPT !.held = x, !.active = y, !.refs = z]
    BY <2>2
  <2> HIDE DEF x, y, z
  <2>4. g = HubOf(z, x, y, d, h.pacer)
    BY ONLY <2>3, <1>2 DEF HubOf
  <2> QED BY ONLY <2>4 DEF x, y, z
<1>6. /\ IsRecord(g) /\ g.refs = Set(h.refs, k, r) /\ g.held = [h.held EXCEPT ![u] = Set(h.held[u], k, n + 1)]
      /\ g.active = [h.active EXCEPT ![u] = a] /\ g.linger = d /\ g.pacer = h.pacer
  BY ONLY <1>5, RecordFacts
<1> QED BY ONLY <1>6 DEF d, n, r, One

(* What a user holds is changed for one key.                               *)
LEMMA HeldMoves ==
  ASSUME NEW h, Shape(h), NEW k \in Keys, NEW u \in Users, NEW n \in Nat,
         NEW g, g.held = One(h.held, u, Set(h.held[u], k, n))
  PROVE  /\ g.held \in [Users -> PartialFunctions(Keys, Nat)]
         /\ DOMAIN g.held[u] = DOMAIN h.held[u] \cup {k} /\ HeldBy(g, u, k) = n
         /\ \A x : x # k => HeldBy(g, u, x) = HeldBy(h, u, x)
         /\ \A v \in Users : v # u =>
              DOMAIN g.held[v] = DOMAIN h.held[v] /\ \A x : HeldBy(g, v, x) = HeldBy(h, v, x)
<1> DEFINE f == Set(h.held[u], k, n)
<1>1. h.held \in [Users -> PartialFunctions(Keys, Nat)]
  BY DEF Shape
<1>2. f \in PartialFunctions(Keys, Nat)
  BY <1>1, PartialSet
<1>3. DOMAIN f = DOMAIN h.held[u] \cup {k} /\ f[k] = n /\ \A x \in DOMAIN h.held[u] : x # k => f[x] = h.held[u][x]
  BY DEF Set
<1>4. g.held = [h.held EXCEPT ![u] = f]
  BY DEF One
<1> HIDE DEF f
<1>5. /\ g.held \in [Users -> PartialFunctions(Keys, Nat)] /\ g.held[u] = f
      /\ \A v \in Users : v # u => g.held[v] = h.held[v]
  BY ONLY <1>1, <1>2, <1>4, u \in Users
<1> QED BY ONLY <1>3, <1>5 DEF HeldBy

LEMMA ActiveMoves ==
  ASSUME NEW h, Shape(h), NEW u \in Users, NEW n \in Nat, NEW g, g.active = One(h.active, u, n)
  PROVE  /\ g.active \in [Users -> Nat] /\ g.active[u] = n
         /\ \A v \in Users : v # u => g.active[v] = h.active[v]
BY DEF Shape, One

(* The reference is counted, the key no longer lingers, nothing else has   *)
(* changed.                                                                *)
Adds(h, g, u, k) ==
  /\ DOMAIN g.refs = DOMAIN h.refs \cup {k}
  /\ \A x \in DOMAIN h.refs : x # k => Wanted(g, x) = Wanted(h, x)
  /\ Wanted(g, k) = EffectiveLevel(g.refs[k]) /\ Wanted(g, k) \in Levels
  /\ DOMAIN g.held[u] = DOMAIN h.held[u] \cup {k}
  /\ \A v \in Users : v # u => DOMAIN g.held[v] = DOMAIN h.held[v]
  /\ g.pacer = h.pacer

LEMMA AddBooks ==
  ASSUME NEW h, NEW H, Books(h, H), NEW t \in Tabs, NEW k \in Keys, NEW l \in Levels,
         <<t, k, l>> \notin H, NEW u, u = Owner[t],
         HeldBy(h, u, k) = 0 => h.active[u] < UserLimit,
         k \notin DOMAIN h.refs => Cardinality(DOMAIN h.refs) < GlobalLimit,
         NEW g, g = AddReference(h, u, k, l), NEW G, G = H \cup {<<t, k, l>>}
  PROVE  Books(g, G) /\ Adds(h, g, u, k)
<1>s. Shape(h) /\ Lingers(h) /\ Counted(h, H) /\ H \subseteq Holdings /\ u \in Users
  BY OwnerAssumption DEF Books
<1> DEFINE r == Plus(RefsOf(h, k), l)
           n == HeldBy(h, u, k)
           a == OneMore(n, h.active[u])
<1>1. /\ IsRecord(g) /\ g.refs = Set(h.refs, k, r)
      /\ g.held = One(h.held, u, Set(h.held[u], k, n + 1)) /\ g.active = One(h.active, u, a)
      /\ g.linger = Delete(h.linger, k) /\ g.pacer = h.pacer
  BY ONLY <1>s, g = AddReference(h, u, k, l), AddFields
<1>2. /\ r \in Refs /\ TotalRefs(r) > 0 /\ EffectiveLevel(r) \in Levels
      /\ \A m \in Levels : r[m] = IF m = l THEN Cardinality(At(H, k, m)) + 1 ELSE Cardinality(At(H, k, m))
  <2> DEFINE o == RefsOf(h, k)
  <2>1. o \in Refs /\ \A m \in Levels : o[m] = Cardinality(At(H, k, m))
    BY RefsOfFacts
  <2>2. Up(o, l, r)
    BY <2>1, RefsUp
  <2> HIDE DEF o, r
  <2>3. /\ r \in Refs /\ TotalRefs(r) = TotalRefs(o) + 1
        /\ \A m \in Levels : r[m] = IF m = l THEN o[m] + 1 ELSE o[m]
    BY ONLY <2>2 DEF Up
  <2>4. TotalRefs(o) \in Nat /\ EffectiveLevel(r) \in Levels
    BY ONLY <2>1, <2>3, RefsFacts
  <2> QED BY ONLY <2>1, <2>3, <2>4
<1>3. n \in Nat /\ a \in Nat /\ h.active[u] \in Nat
  BY <1>s, ShapeFacts DEF Shape, OneMore
<1> HIDE DEF r, n, a
<1>4. /\ g.refs \in PartialFunctions(Keys, Refs) /\ DOMAIN g.refs = DOMAIN h.refs \cup {k}
      /\ g.refs[k] = r /\ \A x \in DOMAIN h.refs : x # k => g.refs[x] = h.refs[x]
  <2>1. h.refs \in PartialFunctions(Keys, Refs)
    BY <1>s DEF Shape
  <2>2. Set(h.refs, k, r) \in PartialFunctions(Keys, Refs)
    BY ONLY <2>1, <1>2, k \in Keys, PartialSet
  <2> QED BY ONLY <1>1, <2>2 DEF Set
<1>5. /\ g.held \in [Users -> PartialFunctions(Keys, Nat)]
      /\ DOMAIN g.held[u] = DOMAIN h.held[u] \cup {k} /\ HeldBy(g, u, k) = n + 1
      /\ \A x : x # k => HeldBy(g, u, x) = HeldBy(h, u, x)
      /\ \A v \in Users : v # u =>
           DOMAIN g.held[v] = DOMAIN h.held[v] /\ \A x : HeldBy(g, v, x) = HeldBy(h, v, x)
  <2>1. n + 1 \in Nat
    BY <1>3
  <2> QED BY ONLY <2>1, <1>1, <1>s, k \in Keys, HeldMoves
<1>6. g.active \in [Users -> Nat] /\ g.active[u] = a /\ \A v \in Users : v # u => g.active[v] = h.active[v]
  BY ONLY <1>1, <1>3, <1>s, ActiveMoves
<1>7. /\ g.linger \in Seq(Entries) /\ Distinct(g.linger) /\ KeysIn(g.linger) = KeysIn(h.linger) \ {k}
      /\ \A e : Has(g.linger, e) <=> e.key # k /\ Has(h.linger, e)
  <2>1. h.linger \in Seq(Entries) /\ Distinct(h.linger)
    BY <1>s DEF Shape, Lingers
  <2> QED BY ONLY <1>1, <2>1, DeleteFacts
<1>8. Shape(g)
  <2>1. \A v \in Users : DOMAIN g.held[v] \subseteq DOMAIN g.refs
    BY ONLY <1>s, <1>4, <1>5 DEF Shape
  <2> QED BY ONLY <2>1, <1>1, <1>4, <1>5, <1>6, <1>7 DEF Shape
<1>9. Lingers(g)
  <2>1. ASSUME NEW x \in Keys
        PROVE  x \in KeysIn(g.linger) <=> x \in DOMAIN g.refs /\ TotalRefs(g.refs[x]) = 0
    <3>1. x \in KeysIn(h.linger) <=> x \in DOMAIN h.refs /\ TotalRefs(h.refs[x]) = 0
      BY <1>s DEF Lingers, Lingering
    <3> QED BY ONLY <1>2, <1>4, <1>7, <3>1
  <2> QED BY <2>1, <1>7 DEF Lingers, Lingering
<1>10. Counted(g, G)
  <2>0. /\ \A x \in DOMAIN h.refs, m \in Levels : h.refs[x][m] = Cardinality(At(H, x, m))
        /\ \A x \in Keys \ DOMAIN h.refs : \A y \in Tabs, m \in Levels : <<y, x, m>> \notin H
        /\ \A v \in Users : /\ \A x \in Keys : HeldBy(h, v, x) = Cardinality(Of(H, v, x))
                            /\ h.active[v] = Cardinality(Watches(H, v)) /\ h.active[v] <= UserLimit
        /\ Cardinality(DOMAIN h.refs) <= GlobalLimit
    BY <1>s DEF Counted
  <2>g. Grows(H, G, u, k, l)
    BY OneMoreHolding
  <2>1. /\ Cardinality(At(G, k, l)) = Cardinality(At(H, k, l)) + 1
        /\ \A x \in Keys, m \in Levels : <<x, m>> # <<k, l>> => At(G, x, m) = At(H, x, m)
        /\ Cardinality(Of(G, u, k)) = Cardinality(Of(H, u, k)) + 1
        /\ \A v, x : <<v, x>> # <<u, k>> => Of(G, v, x) = Of(H, v, x)
        /\ Cardinality(Watches(G, u)) =
             IF Of(H, u, k) = {} THEN Cardinality(Watches(H, u)) + 1 ELSE Cardinality(Watches(H, u))
        /\ \A v : v # u => Watches(G, v) = Watches(H, v)
    BY ONLY <2>g DEF Grows
  <2>2. ASSUME NEW x \in DOMAIN g.refs, NEW m \in Levels PROVE g.refs[x][m] = Cardinality(At(G, x, m))
    <3>1. CASE x = k /\ m = l
      BY ONLY <3>1, <1>2, <1>4, <2>1, l \in Levels
    <3>2. CASE x = k /\ m # l
      <4>1. At(G, k, m) = At(H, k, m)
        BY <2>1, <3>2
      <4> QED BY ONLY <3>2, <4>1, <1>2, <1>4, m \in Levels
    <3>3. CASE x # k
      <4>1. x \in DOMAIN h.refs /\ x \in Keys /\ g.refs[x] = h.refs[x]
        BY <3>3, <1>4, <1>s, ShapeFacts
      <4>2. At(G, x, m) = At(H, x, m)
        BY <2>1, <3>3, <4>1
      <4> QED BY ONLY <4>1, <4>2, <2>0, m \in Levels
    <3> QED BY <3>1, <3>2, <3>3
  <2>3. ASSUME NEW x \in Keys \ DOMAIN g.refs, NEW y \in Tabs, NEW m \in Levels PROVE <<y, x, m>> \notin G
    BY <1>4, <2>0
  <2>4. ASSUME NEW v \in Users, NEW x \in Keys PROVE HeldBy(g, v, x) = Cardinality(Of(G, v, x))
    <3>1. CASE v = u /\ x = k
      BY <3>1, <1>5, <2>0, <2>1 DEF n
    <3>2. CASE ~(v = u /\ x = k)
      <4>1. Of(G, v, x) = Of(H, v, x)
        BY <2>1, <3>2
      <4>2. HeldBy(g, v, x) = HeldBy(h, v, x)
        BY ONLY <3>2, <1>5, v \in Users
      <4> QED BY ONLY <4>1, <4>2, <2>0, v \in Users, x \in Keys
    <3> QED BY <3>1, <3>2
  <2>5. ASSUME NEW v \in Users PROVE g.active[v] = Cardinality(Watches(G, v)) /\ g.active[v] <= UserLimit
    <3>1. CASE v = u
      <4>1. n = 0 <=> Of(H, u, k) = {}
        <5>1. n = Cardinality(Of(H, u, k))
          BY <2>0, <1>s DEF n
        <5> QED BY <5>1, HoldingsFinite, FS_EmptySet
      <4>2. h.active[u] = Cardinality(Watches(H, u)) /\ h.active[u] <= UserLimit
        BY <2>0, <1>s
      <4>3. n = 0 => h.active[u] < UserLimit
        BY DEF n
      <4>4. a = IF n = 0 THEN h.active[u] + 1 ELSE h.active[u]
        BY DEF a, OneMore
      <4>5. UserLimit \in Nat
        BY LimitAssumption
      <4> QED BY ONLY <3>1, <4>1, <4>2, <4>3, <4>4, <4>5, <1>3, <1>6, <2>1
    <3>2. CASE v # u
      BY <3>2, <1>6, <2>0, <2>1
    <3> QED BY <3>1, <3>2
  <2>6. Cardinality(DOMAIN g.refs) <= GlobalLimit
    <3>1. IsFiniteSet(DOMAIN h.refs) /\ Cardinality(DOMAIN h.refs) \in Nat /\ GlobalLimit \in Nat
      BY <1>s, ShapeFacts, LimitAssumption
    <3>2. Cardinality(DOMAIN g.refs) = IF k \in DOMAIN h.refs THEN Cardinality(DOMAIN h.refs)
                                       ELSE Cardinality(DOMAIN h.refs) + 1
      BY <3>1, <1>4, FS_AddElement
    <3> QED BY <3>1, <3>2, <2>0
  <2> QED BY ONLY <2>2, <2>3, <2>4, <2>5, <2>6 DEF Counted
<1>11. Books(g, G)
  BY <1>s, <1>8, <1>9, <1>10 DEF Books, Holdings
<1>12. Adds(h, g, u, k)
  <2>1. ASSUME NEW x \in DOMAIN h.refs, x # k PROVE Wanted(g, x) = Wanted(h, x)
    <3>1. x \in DOMAIN g.refs /\ g.refs[x] = h.refs[x]
      BY <2>1, <1>4
    <3>2. h.linger \in Seq(Entries) /\ Distinct(h.linger)
      BY <1>s DEF Shape, Lingers
    <3>3. \A e : e.key = x => (Has(h.linger, e) <=> Has(g.linger, e))
      BY <2>1, <1>7
    <3>4. /\ x \in KeysIn(h.linger) <=> x \in KeysIn(g.linger)
          /\ x \in KeysIn(h.linger) => LevelIn(h.linger, x) = LevelIn(g.linger, x)
      BY ONLY <3>2, <3>3, <1>7, SameEntry
    <3>5. Wanted(h, x) = IF x \in KeysIn(h.linger) THEN LevelIn(h.linger, x) ELSE EffectiveLevel(h.refs[x])
      BY <2>1, WantedFacts
    <3>6. Wanted(g, x) = IF x \in KeysIn(g.linger) THEN LevelIn(g.linger, x) ELSE EffectiveLevel(g.refs[x])
      BY <3>1, <1>11, WantedFacts
    <3> QED BY ONLY <3>1, <3>4, <3>5, <3>6
  <2>2. Wanted(g, k) = EffectiveLevel(g.refs[k]) /\ Wanted(g, k) \in Levels
    <3>1. k \notin Lingering(g)
      BY <1>7 DEF Lingering
    <3> QED BY <3>1, <1>2, <1>4 DEF Wanted
  <2> QED BY <2>1, <2>2, <1>1, <1>4, <1>5 DEF Adds
<1> QED BY <1>11, <1>12

(* #sendSubscribe, the demotion and the nudge: the pacer alone.            *)
LEMMA HubSends ==
  ASSUME NEW h, Shape(h), NEW k, NEW l, NEW g, g = HubSend(h, k, l)
  PROVE  /\ Frame(h, g)
         /\ g.pacer = IF h.pacer.ready THEN PacerSubscribe(h.pacer, k, l) ELSE h.pacer
<1>1. CASE h.pacer.ready
  <2> DEFINE q == PacerSubscribe(h.pacer, k, l)
  <2>1. g = [h EXCEPT !.pacer = q]
    BY <1>1 DEF HubSend
  <2> HIDE DEF q
  <2>2. Frame(h, g) /\ g.pacer = q
    BY ONLY <2>1, Shape(h), WithPacer
  <2> QED BY <1>1, <2>2 DEF q
<1>2. CASE ~h.pacer.ready
  BY <1>2 DEF HubSend, Frame, Shape
<1> QED BY <1>1, <1>2

LEMMA HubDemotes ==
  ASSUME NEW h, Shape(h), NEW k, NEW g, g = HubDemote(h, k)
  PROVE  /\ Frame(h, g)
         /\ g.pacer = IF h.pacer.ready THEN ControlDemote(h.pacer, k) ELSE h.pacer
<1>1. CASE h.pacer.ready
  <2> DEFINE q == ControlDemote(h.pacer, k)
  <2>1. g = [h EXCEPT !.pacer = q]
    BY <1>1 DEF HubDemote
  <2> HIDE DEF q
  <2>2. Frame(h, g) /\ g.pacer = q
    BY ONLY <2>1, Shape(h), WithPacer
  <2> QED BY <1>1, <2>2 DEF q
<1>2. CASE ~h.pacer.ready
  BY <1>2 DEF HubDemote, Frame, Shape
<1> QED BY <1>1, <1>2

LEMMA HubNudges ==
  ASSUME NEW h, Shape(h), NEW k \in DOMAIN h.refs, NEW g, g = HubNudge(h, k)
  PROVE  /\ Frame(h, g)
         /\ g.pacer = IF h.pacer.ready THEN ControlNudge(h.pacer, k, EffectiveLevel(h.refs[k]))
                      ELSE h.pacer
<1>1. CASE h.pacer.ready
  <2> DEFINE q == ControlNudge(h.pacer, k, EffectiveLevel(h.refs[k]))
  <2>1. g = [h EXCEPT !.pacer = q]
    BY <1>1 DEF HubNudge
  <2> HIDE DEF q
  <2>2. Frame(h, g) /\ g.pacer = q
    BY ONLY <2>1, Shape(h), WithPacer
  <2> QED BY <1>1, <2>2 DEF q
<1>2. CASE ~h.pacer.ready
  BY <1>2 DEF HubNudge, Frame, Shape
<1> QED BY <1>1, <1>2

(* One key is served, the others are kept.                                 *)
LEMMA ServeGood ==
  ASSUME NEW h, NEW H, Books(h, H), NEW g, Frame(h, g), NEW k \in DOMAIN h.refs,
         h.pacer.ready, \A x \in Keys : x # k => AgreesAt(h, x),
         Orderly(g.pacer), KeepsOthers(h.pacer, g.pacer, k), Served(g.pacer, k, Wanted(h, k)),
         Awake(g.pacer)
  PROVE  Good(g, H) /\ g.pacer.ready /\ \A u \in h.pacer.declared : Promised(g.pacer, u, k)
<1>1. Books(g, H) /\ (\A x : Wanted(g, x) = Wanted(h, x)) /\ g.refs = h.refs
  BY FrameBooks DEF Frame
<1>2. ASSUME NEW x \in Keys PROVE AgreesAt(g, x)
  <2>1. CASE x = k
    BY <1>1, <2>1 DEF AgreesAt, Served
  <2>2. CASE x # k
    <3>1. AgreesAt(h, x) /\ Keeps(h.pacer, g.pacer, x)
      BY <2>2 DEF KeepsOthers
    <3> QED BY <1>1, <3>1, AgreesKept
  <2> QED BY <2>1, <2>2
<1>3. Same(h.pacer, g.pacer)
  BY DEF KeepsOthers
<1> QED BY <1>1, <1>2, <1>3 DEF Good, Agrees, Served, Same

LEMMA AskedIsWanted ==
  ASSUME NEW h, NEW H, Books(h, H), NEW k \in Keys
  PROVE  LevelAsked(h, k) = IF k \in DOMAIN h.refs THEN Wanted(h, k) ELSE "none"
<1>1. /\ k \in Lingering(h) <=> k \in DOMAIN h.refs /\ TotalRefs(h.refs[k]) = 0
      /\ k \in DOMAIN h.refs => TotalRefs(h.refs[k]) \in Nat
  BY ShapeFacts, RefsFacts DEF Books, Lingers
<1> QED BY <1>1 DEF LevelAsked, Wanted

(* subscribe(), after the verdict                                          *)
LEMMA HubSubscribeGood ==
  ASSUME NEW h, NEW H, Good(h, H), NEW t \in Tabs, NEW k \in Keys, NEW l \in Levels,
         <<t, k, l>> \notin H, NEW u, u = Owner[t], Verdict(h, u, k) = "ok",
         NEW f, f = HubSubscribe(h, u, k, l), NEW G, G = H \cup {<<t, k, l>>}
  PROVE  Good(f, G) /\ Informs(h, f)
<1> DEFINE room  == MakeRoom(h, k)
           g     == AddReference(room, u, k, l)
           prev  == LevelAsked(room, k)
           next  == EffectiveLevel(g.refs[k])
           nudge == k \notin DOMAIN h.held[u] /\ k \in DOMAIN h.refs
<1>1. f = IF prev # "full" /\ next # prev THEN HubSend(g, k, next)
          ELSE IF prev = "full" /\ next = "price" THEN HubDemote(g, k)
          ELSE IF nudge THEN HubNudge(g, k) ELSE g
  BY DEF HubSubscribe
<1>u. u \in Users
  BY OwnerAssumption
<1> HIDE DEF room
<1>2. /\ Good(room, H) /\ Informs(h, room)
      /\ k \in DOMAIN room.refs <=> k \in DOMAIN h.refs
      /\ k \notin DOMAIN room.refs => Cardinality(DOMAIN room.refs) < GlobalLimit
      /\ HeldBy(room, u, k) = 0 => room.active[u] < UserLimit
      /\ k \in DOMAIN h.refs => room = h
  BY <1>u, MakeRoomGood DEF room
<1> HIDE DEF g
<1>3. Books(room, H) /\ Orderly(room.pacer) /\ Agrees(room) /\ Shape(room)
  BY <1>2 DEF Good, Books
<1>4. Books(g, G) /\ Adds(room, g, u, k)
  BY <1>2, <1>3, AddBooks DEF g
<1>5. /\ g.pacer = room.pacer /\ next = Wanted(g, k) /\ next \in Levels /\ k \in DOMAIN g.refs
      /\ Shape(g)
  BY <1>4 DEF Adds, Books
<1>6. prev = IF k \in DOMAIN room.refs THEN Wanted(room, k) ELSE "none"
  BY <1>3, AskedIsWanted
<1>7. k \in DOMAIN room.refs => prev \in Levels
  BY <1>3, <1>6, WantedFacts
<1>v. room.pacer.declared \subseteq Users
  BY <1>3, PacerFields DEF Orderly
<1> HIDE DEF prev, next, nudge
<1>8. CASE ~room.pacer.ready
  <2>1. Frame(g, f) /\ f.pacer = g.pacer
    <3>1. /\ Frame(g, HubSend(g, k, next)) /\ HubSend(g, k, next).pacer = g.pacer
          /\ Frame(g, HubDemote(g, k)) /\ HubDemote(g, k).pacer = g.pacer
          /\ Frame(g, HubNudge(g, k)) /\ HubNudge(g, k).pacer = g.pacer
          /\ Frame(g, g)
      BY <1>5, <1>8 DEF HubSend, HubDemote, HubNudge, Frame, Shape
    <3> QED BY <1>1, <3>1
  <2>2. Books(f, G)
    BY <1>4, <2>1, FrameBooks
  <2>3. Good(f, G)
    BY <1>3, <1>5, <1>8, <2>1, <2>2 DEF Good, Agrees
  <2>4. Informs(room, f)
    BY <1>5, <1>8, <2>1 DEF Informs, Same
  <2> QED BY <1>2, <2>3, <2>4, InformsTrans
<1>9. CASE room.pacer.ready
  <2>0. /\ g.pacer.ready /\ Awake(g.pacer) /\ Orderly(g.pacer) /\ \A x \in Keys : AgreesAt(room, x)
    BY <1>3, <1>5, <1>9 DEF Agrees
  <2>1. \A x \in Keys : x # k => AgreesAt(g, x)
    BY <1>4, <2>0 DEF Adds, AgreesAt
  <2>2. \A v \in room.pacer.declared, x \in Keys : x # k /\ x \in DOMAIN g.held[v] => x \in DOMAIN room.held[v]
    BY <1>4, <1>v DEF Adds
  <2>3. ASSUME Frame(g, f), Orderly(f.pacer), KeepsOthers(g.pacer, f.pacer, k), Served(f.pacer, k, next),
               Awake(f.pacer)
        PROVE  Good(f, G) /\ Informs(room, f)
    <3>1. Good(f, G) /\ \A v \in g.pacer.declared : Promised(f.pacer, v, k)
      BY <1>4, <1>5, <2>0, <2>1, <2>3, ServeGood
    <3>2. \A v \in room.pacer.declared : InformsAt(room, f, v, k)
      BY <3>1, <1>5 DEF InformsAt
    <3>3. f.held = g.held
      BY <2>3 DEF Frame
    <3>4. Informs(room, f)
      BY <1>5, <2>2, <2>3, <3>2, <3>3, InformsBy
    <3> QED BY <3>1, <3>4
  <2>4. CASE prev # "full" /\ next # prev
    <3>1. f = HubSend(g, k, next)
      BY <1>1, <2>4
    <3>2. Frame(g, f) /\ f.pacer = PacerSubscribe(g.pacer, k, next)
      BY <3>1, <1>5, <2>0, HubSends
    <3>3. k \in Queued(g.pacer) \/ g.pacer.sent[k] # "full"
      BY <1>5, <1>6, <2>0, <2>4 DEF AgreesAt, Asks
    <3> DEFINE p == g.pacer
               q == f.pacer
    <3>4. Orderly(q) /\ KeepsOthers(p, q, k) /\ Served(q, k, next) /\ Awake(q)
      <4>1. q = PacerSubscribe(p, k, next) /\ p.ready /\ Awake(p) /\ Orderly(p) /\ (k \in Queued(p) \/ p.sent[k] # "full")
        BY <2>0, <3>2, <3>3
      <4> HIDE DEF p, q
      <4> QED BY ONLY <4>1, <1>5, k \in Keys, PacerSubscribeFacts
    <3>5. Good(f, G) /\ Informs(room, f)
      BY <2>3, <3>2, <3>4
    <3> QED BY <3>5, <1>2, InformsTrans
  <2>5. CASE prev = "full" /\ next = "price"
    <3>1. f = HubDemote(g, k)
      BY <1>1, <2>5
    <3>2. Frame(g, f) /\ f.pacer = ControlDemote(g.pacer, k)
      BY <3>1, <1>5, <2>0, HubDemotes
    <3>3. Orderly(f.pacer) /\ KeepsOthers(g.pacer, f.pacer, k) /\ Served(f.pacer, k, next) /\ Awake(f.pacer)
      BY <2>0, <2>5, <3>2, DemoteFacts
    <3>4. Good(f, G) /\ Informs(room, f)
      BY <2>3, <3>2, <3>3
    <3> QED BY <3>4, <1>2, InformsTrans
  <2>6. CASE ~(prev # "full" /\ next # prev) /\ ~(prev = "full" /\ next = "price")
    <3>0. prev = next /\ k \in DOMAIN room.refs /\ k \in DOMAIN h.refs /\ room = h
      BY <1>2, <1>5, <1>6, <2>6 DEF Levels
    <3>1. Asks(g.pacer, k, next)
      BY <1>5, <1>6, <2>0, <3>0 DEF AgreesAt
    <3>2. CASE nudge
      <4>1. f = HubNudge(g, k)
        BY <1>1, <2>6, <3>2
      <4>2. Frame(g, f) /\ f.pacer = ControlNudge(g.pacer, k, next)
        BY <4>1, <1>5, <2>0, HubNudges DEF next
      <4>3. Orderly(f.pacer) /\ KeepsOthers(g.pacer, f.pacer, k) /\ Served(f.pacer, k, next) /\ Awake(f.pacer)
        BY <1>5, <2>0, <3>1, <4>2, NudgeFacts
      <4>4. Good(f, G) /\ Informs(room, f)
        BY <2>3, <4>2, <4>3
      <4> QED BY <4>4, <1>2, InformsTrans
    <3>3. CASE ~nudge
      <4>1. f = g
        BY <1>1, <2>6, <3>3
      <4>2. \A x \in Keys : AgreesAt(g, x)
        BY <1>5, <2>1, <3>1 DEF AgreesAt
      <4>3. Good(f, G)
        BY <1>4, <2>0, <4>1, <4>2 DEF Good, Agrees
      <4>4. \A v \in room.pacer.declared : k \in DOMAIN g.held[v] => k \in DOMAIN room.held[v]
        BY <1>4, <1>v, <3>0, <3>3 DEF Adds, nudge
      <4>5. Informs(room, f)
        BY <1>5, <2>2, <4>1, <4>4 DEF Informs, InformsAt, Same
      <4> QED BY <4>3, <4>5, <1>2, InformsTrans
    <3> QED BY <3>2, <3>3
  <2> QED BY <2>4, <2>5, <2>6
<1> QED BY <1>8, <1>9

(* unsubscribe(): one reference less.                                      *)
LEMMA RemoveFields ==
  ASSUME NEW h, Shape(h), NEW k \in DOMAIN h.refs, NEW u \in Users, NEW l,
         HeldBy(h, u, k) # 0, NEW g, g = RemoveReference(h, u, k, l)
  PROVE  /\ IsRecord(g)
         /\ g.refs = Set(h.refs, k, Less(h.refs[k], l))
         /\ g.held = One(h.held, u, Set(h.held[u], k, HeldBy(h, u, k) - 1))
         /\ g.active = One(h.active, u, OneLess(HeldBy(h, u, k), h.active[u]))
         /\ g.linger = h.linger
         /\ g.pacer = h.pacer
<1> DEFINE n == HeldBy(h, u, k)
           r == Less(h.refs[k], l)
           a == OneLess(n, h.active[u])
           x == [h.held EXCEPT ![u] = Set(h.held[u], k, n - 1)]
           y == [h.active EXCEPT ![u] = a]
           z == Set(h.refs, k, r)
<1>1. h = HubOf(h.refs, h.held, h.active, h.linger, h.pacer)
  BY DEF Shape, IsRecord
<1>2. g = [h EXCEPT !.held[u]   = IF n = 0 THEN @ ELSE Set(@, k, n - 1),
                    !.active[u] = IF n = 1 THEN @ - 1 ELSE @,
                    !.refs      = Set(@, k, r)]
  BY DEF RemoveReference, Less
<1>3. n # 0
  OBVIOUS
<1> HIDE DEF n, r
<1>4. g = [h EXCEPT !.held = x, !.active = y, !.refs = z]
  <2>1. g = [h EXCEPT !.held = [h.held EXCEPT ![u] = Set(h.held[u], k, n - 1)],
                      !.active = [h.active EXCEPT ![u] = IF n = 1 THEN h.active[u] - 1 ELSE h.active[u]],
                      !.refs = Set(h.refs, k, r)]
    BY ONLY <1>2, <1>3
  <2> QED BY <2>1 DEF OneLess
<1> HIDE DEF x, y, z
<1>5. g = HubOf(z, x, y, h.linger, h.pacer)
  BY ONLY <1>1, <1>4 DEF HubOf
<1>6. /\ IsRecord(g) /\ g.refs = z /\ g.held = x /\ g.active = y /\ g.linger = h.linger /\ g.pacer = h.pacer
  BY ONLY <1>5, RecordFacts
<1> QED BY ONLY <1>6 DEF r, n, x, y, z, One

Removes(h, g, k, l) ==
  /\ k \in DOMAIN h.refs /\ DOMAIN g.refs = DOMAIN h.refs
  /\ h.refs[k] \in Refs /\ h.refs[k][l] # 0 /\ TotalRefs(h.refs[k]) > 0
  /\ Below(h.refs[k], l, g.refs[k]) /\ k \notin Lingering(h)
  /\ \A x \in DOMAIN h.refs : x # k => g.refs[x] = h.refs[x]
  /\ \A v \in Users : DOMAIN g.held[v] = DOMAIN h.held[v]
  /\ g.linger = h.linger /\ g.pacer = h.pacer

LEMMA RemoveCounts ==
  ASSUME NEW h, NEW H, Books(h, H), NEW t \in Tabs, NEW k \in Keys, NEW l \in Levels,
         <<t, k, l>> \in H, NEW u, u = Owner[t],
         NEW g, g = RemoveReference(h, u, k, l), NEW G, G = H \ {<<t, k, l>>}
  PROVE  G \subseteq Holdings /\ Shape(g) /\ Counted(g, G) /\ Removes(h, g, k, l)
<1>s. Shape(h) /\ Lingers(h) /\ Counted(h, H) /\ H \subseteq Holdings /\ u \in Users
  BY OwnerAssumption DEF Books
<1> DEFINE r == Less(h.refs[k], l)
           n == HeldBy(h, u, k)
           a == OneLess(n, h.active[u])
<1>c. /\ \A x \in DOMAIN h.refs, m \in Levels : h.refs[x][m] = Cardinality(At(H, x, m))
      /\ \A x \in Keys \ DOMAIN h.refs : \A y \in Tabs, m \in Levels : <<y, x, m>> \notin H
      /\ \A v \in Users : /\ \A x \in Keys : HeldBy(h, v, x) = Cardinality(Of(H, v, x))
                          /\ h.active[v] = Cardinality(Watches(H, v)) /\ h.active[v] <= UserLimit
      /\ Cardinality(DOMAIN h.refs) <= GlobalLimit
  BY <1>s DEF Counted
<1>g. Grows(G, H, u, k, l)
  <2>1. H = G \cup {<<t, k, l>>} /\ <<t, k, l>> \notin G
    OBVIOUS
  <2> QED BY ONLY <2>1, OneMoreHolding, t \in Tabs, k \in Keys, l \in Levels, u = Owner[t]
<1>d. /\ Cardinality(At(H, k, l)) = Cardinality(At(G, k, l)) + 1
      /\ \A x \in Keys, m \in Levels : <<x, m>> # <<k, l>> => At(H, x, m) = At(G, x, m)
      /\ Cardinality(Of(H, u, k)) = Cardinality(Of(G, u, k)) + 1
      /\ \A v, x : <<v, x>> # <<u, k>> => Of(H, v, x) = Of(G, v, x)
      /\ Cardinality(Watches(H, u)) =
           IF Of(G, u, k) = {} THEN Cardinality(Watches(G, u)) + 1 ELSE Cardinality(Watches(G, u))
      /\ \A v : v # u => Watches(H, v) = Watches(G, v)
  BY ONLY <1>g DEF Grows
<1>n. /\ Cardinality(At(G, k, l)) \in Nat /\ Cardinality(Of(G, u, k)) \in Nat
      /\ Cardinality(Watches(G, u)) \in Nat
      /\ Cardinality(Of(G, u, k)) = 0 <=> Of(G, u, k) = {}
  BY HoldingsFinite, FS_EmptySet
<1>k. k \in DOMAIN h.refs
  BY <1>c
<1>1. n # 0 /\ n \in Nat /\ n - 1 = Cardinality(Of(G, u, k)) /\ n - 1 \in Nat
  <2>1. n = Cardinality(Of(H, u, k))
    BY <1>c, <1>s
  <2> HIDE DEF n
  <2> QED BY ONLY <2>1, <1>d, <1>n
<1>2. /\ IsRecord(g) /\ g.refs = Set(h.refs, k, r)
      /\ g.held = One(h.held, u, Set(h.held[u], k, n - 1)) /\ g.active = One(h.active, u, a)
      /\ g.linger = h.linger /\ g.pacer = h.pacer
  BY ONLY <1>s, <1>1, <1>k, g = RemoveReference(h, u, k, l), RemoveFields
<1>3. /\ h.refs[k] \in Refs /\ h.refs[k][l] = Cardinality(At(G, k, l)) + 1 /\ h.refs[k][l] # 0
      /\ Below(h.refs[k], l, r) /\ TotalRefs(h.refs[k]) > 0
  <2>1. h.refs[k] \in Refs
    BY <1>k, <1>s, ShapeFacts
  <2>2. h.refs[k][l] = Cardinality(At(G, k, l)) + 1
    BY <1>k, <1>c, <1>d
  <2>3. h.refs[k][l] # 0
    BY ONLY <2>2, <1>n
  <2>4. Below(h.refs[k], l, r)
    BY <2>1, <2>3, RefsDown
  <2>5. TotalRefs(h.refs[k]) \in Nat /\ TotalRefs(r) \in Nat
    BY <2>1, <2>4, RefsFacts DEF Below
  <2>6. TotalRefs(h.refs[k]) > 0
    BY ONLY <2>4, <2>5 DEF Below
  <2> QED BY <2>1, <2>2, <2>3, <2>4, <2>6
<1>4. /\ r \in Refs /\ \A m \in Levels : r[m] = IF m = l THEN h.refs[k][m] - 1 ELSE h.refs[k][m]
  BY ONLY <1>3 DEF Below
<1>5. h.active[u] = Cardinality(Watches(H, u)) /\ h.active[u] <= UserLimit
  BY <1>c, <1>s
<1>6. a = Cardinality(Watches(G, u)) /\ a \in Nat /\ a <= UserLimit
  <2>1. a = IF n = 1 THEN h.active[u] - 1 ELSE h.active[u]
    BY DEF OneLess
  <2>2. UserLimit \in Nat
    BY LimitAssumption
  <2>3. n = 1 <=> Of(G, u, k) = {}
    BY ONLY <1>1, <1>n
  <2> QED BY ONLY <2>1, <2>2, <2>3, <1>5, <1>n, <1>d
<1> HIDE DEF r, n, a
<1>7. /\ g.refs \in PartialFunctions(Keys, Refs) /\ DOMAIN g.refs = DOMAIN h.refs
      /\ g.refs[k] = r /\ \A x \in DOMAIN h.refs : x # k => g.refs[x] = h.refs[x]
  <2>1. h.refs \in PartialFunctions(Keys, Refs)
    BY <1>s DEF Shape
  <2>2. Set(h.refs, k, r) \in PartialFunctions(Keys, Refs)
    BY ONLY <2>1, <1>4, k \in Keys, PartialSet
  <2> QED BY ONLY <1>2, <1>k, <2>2 DEF Set
<1>8. /\ g.held \in [Users -> PartialFunctions(Keys, Nat)]
      /\ DOMAIN g.held[u] = DOMAIN h.held[u] \cup {k} /\ HeldBy(g, u, k) = n - 1
      /\ \A x : x # k => HeldBy(g, u, x) = HeldBy(h, u, x)
      /\ \A v \in Users : v # u =>
           DOMAIN g.held[v] = DOMAIN h.held[v] /\ \A x : HeldBy(g, v, x) = HeldBy(h, v, x)
  BY ONLY <1>1, <1>2, <1>s, k \in Keys, HeldMoves
<1>9. k \in DOMAIN h.held[u]
  BY <1>1 DEF n, HeldBy
<1>10. g.active \in [Users -> Nat] /\ g.active[u] = a /\ \A v \in Users : v # u => g.active[v] = h.active[v]
  BY ONLY <1>2, <1>6, <1>s, ActiveMoves
<1>11. \A v \in Users : DOMAIN g.held[v] = DOMAIN h.held[v]
  BY ONLY <1>8, <1>9
<1>12. Shape(g)
  <2>1. \A v \in Users : DOMAIN g.held[v] \subseteq DOMAIN g.refs
    BY ONLY <1>s, <1>7, <1>11 DEF Shape
  <2>2. h.linger \in Seq(Entries)
    BY <1>s DEF Shape
  <2> QED BY ONLY <2>1, <2>2, <1>2, <1>7, <1>8, <1>10 DEF Shape
<1>13. Counted(g, G)
  <2>2. ASSUME NEW x \in DOMAIN g.refs, NEW m \in Levels PROVE g.refs[x][m] = Cardinality(At(G, x, m))
    <3>1. CASE x = k /\ m = l
      BY ONLY <3>1, <1>3, <1>4, <1>7, <1>n, l \in Levels
    <3>2. CASE x = k /\ m # l
      <4>1. At(H, k, m) = At(G, k, m)
        BY <1>d, <3>2
      <4>2. h.refs[k][m] = Cardinality(At(H, k, m))
        BY <1>c, <1>k
      <4> QED BY ONLY <3>2, <4>1, <4>2, <1>4, <1>7, m \in Levels
    <3>3. CASE x # k
      <4>1. x \in DOMAIN h.refs /\ x \in Keys /\ g.refs[x] = h.refs[x]
        BY <3>3, <1>7, <1>s, ShapeFacts
      <4>2. At(H, x, m) = At(G, x, m)
        BY <1>d, <3>3, <4>1
      <4> QED BY ONLY <4>1, <4>2, <1>c, m \in Levels
    <3> QED BY <3>1, <3>2, <3>3
  <2>3. ASSUME NEW x \in Keys \ DOMAIN g.refs, NEW y \in Tabs, NEW m \in Levels PROVE <<y, x, m>> \notin G
    BY <1>7, <1>c
  <2>4. ASSUME NEW v \in Users, NEW x \in Keys PROVE HeldBy(g, v, x) = Cardinality(Of(G, v, x))
    <3>1. CASE v = u /\ x = k
      BY <3>1, <1>1, <1>8
    <3>2. CASE ~(v = u /\ x = k)
      <4>1. Of(H, v, x) = Of(G, v, x)
        BY <1>d, <3>2
      <4>2. HeldBy(g, v, x) = HeldBy(h, v, x)
        BY ONLY <3>2, <1>8, v \in Users
      <4> QED BY ONLY <4>1, <4>2, <1>c, v \in Users, x \in Keys
    <3> QED BY <3>1, <3>2
  <2>5. ASSUME NEW v \in Users PROVE g.active[v] = Cardinality(Watches(G, v)) /\ g.active[v] <= UserLimit
    <3>1. CASE v = u
      BY ONLY <3>1, <1>6, <1>10
    <3>2. CASE v # u
      BY <3>2, <1>10, <1>c, <1>d
    <3> QED BY <3>1, <3>2
  <2>6. Cardinality(DOMAIN g.refs) <= GlobalLimit
    BY ONLY <1>7, <1>c
  <2> QED BY ONLY <2>2, <2>3, <2>4, <2>5, <2>6 DEF Counted
<1>14. k \notin Lingering(h)
  <2>1. k \in Lingering(h) => TotalRefs(h.refs[k]) = 0
    BY <1>s DEF Lingers
  <2> QED BY ONLY <2>1, <1>3
<1>15. Removes(h, g, k, l)
  BY ONLY <1>2, <1>3, <1>7, <1>11, <1>14, <1>k DEF Removes
<1> QED BY <1>s, <1>12, <1>13, <1>15

LEMMA LingerIs ==
  ASSUME NEW h, Shape(h), NEW k, NEW l, NEW g, g = Linger(h, k, l)
  PROVE  /\ IsRecord(g) /\ g.refs = h.refs /\ g.held = h.held /\ g.active = h.active
         /\ g.linger = Append(h.linger, [key |-> k, level |-> l]) /\ g.pacer = h.pacer
<1> DEFINE d == Append(h.linger, [key |-> k, level |-> l])
<1>1. h = HubOf(h.refs, h.held, h.active, h.linger, h.pacer)
  BY DEF Shape, IsRecord
<1>2. g = [h EXCEPT !.linger = d]
  BY DEF Linger
<1> HIDE DEF d
<1>3. g = HubOf(h.refs, h.held, h.active, d, h.pacer)
  BY ONLY <1>1, <1>2 DEF HubOf
<1>4. /\ IsRecord(g) /\ g.refs = h.refs /\ g.held = h.held /\ g.active = h.active
      /\ g.linger = d /\ g.pacer = h.pacer
  BY ONLY <1>3, RecordFacts
<1> QED BY <1>4 DEF d

(* A reference less, with the level of every key as it was: nothing is due *)
(* to the gateway.                                                         *)
LEMMA SameWanted ==
  ASSUME NEW h, NEW H, Good(h, H), NEW f, NEW G, Books(f, G), f.pacer = h.pacer,
         DOMAIN f.refs = DOMAIN h.refs, \A x \in DOMAIN h.refs : Wanted(f, x) = Wanted(h, x),
         \A v \in Users : DOMAIN f.held[v] = DOMAIN h.held[v]
  PROVE  Good(f, G) /\ Informs(h, f)
<1>1. Orderly(h.pacer) /\ Agrees(h) /\ h.pacer.declared \subseteq Users
  BY PacerFields DEF Good, Orderly
<1>2. \A x \in Keys : AgreesAt(h, x) => AgreesAt(f, x)
  BY DEF AgreesAt
<1>3. Good(f, G)
  BY <1>1, <1>2 DEF Good, Agrees
<1> QED BY <1>1, <1>3 DEF Informs, InformsAt, Same

LEMMA HubUnsubscribeGood ==
  ASSUME NEW h, NEW H, Good(h, H), NEW t \in Tabs, NEW k \in Keys, NEW l \in Levels,
         <<t, k, l>> \in H, NEW u, u = Owner[t],
         NEW f, f = HubUnsubscribe(h, u, k, l), NEW G, G = H \ {<<t, k, l>>}
  PROVE  Good(f, G) /\ Informs(h, f)
<1> DEFINE g   == RemoveReference(h, u, k, l)
           old == h.refs[k]
           new == g.refs[k]
<1>0. Books(h, H) /\ Orderly(h.pacer) /\ Agrees(h) /\ Shape(h) /\ Lingers(h)
  BY DEF Good, Books
<1>1. G \subseteq Holdings /\ Shape(g) /\ Counted(g, G) /\ Removes(h, g, k, l)
  BY <1>0, RemoveCounts
<1>2. f = IF k \notin DOMAIN h.refs THEN h
          ELSE IF old[l] = 0 THEN h
          ELSE IF TotalRefs(new) = 0 THEN Linger(g, k, EffectiveLevel(old))
          ELSE IF EffectiveLevel(new) = EffectiveLevel(old) THEN g
          ELSE HubDemote(g, k)
  BY DEF HubUnsubscribe
<1> HIDE DEF g, old, new
<1>3. /\ k \in DOMAIN h.refs /\ DOMAIN g.refs = DOMAIN h.refs
      /\ old \in Refs /\ old[l] # 0 /\ TotalRefs(old) > 0
      /\ Below(old, l, new) /\ k \notin Lingering(h)
      /\ \A x \in DOMAIN h.refs : x # k => g.refs[x] = h.refs[x]
      /\ \A v \in Users : DOMAIN g.held[v] = DOMAIN h.held[v]
      /\ g.linger = h.linger /\ g.pacer = h.pacer
  BY ONLY <1>1 DEF Removes, old, new
<1>4. /\ new \in Refs /\ TotalRefs(new) \in Nat
      /\ EffectiveLevel(new) = EffectiveLevel(old) \/ EffectiveLevel(new) = "price"
  <2>1. new \in Refs /\ (EffectiveLevel(new) = EffectiveLevel(old) \/ EffectiveLevel(new) = "price")
    BY ONLY <1>3 DEF Below
  <2> QED BY <2>1, RefsFacts
<1>5. /\ h.linger \in Seq(Entries) /\ Distinct(h.linger) /\ k \notin KeysIn(h.linger)
      /\ EffectiveLevel(old) \in Levels
  BY <1>0, <1>3, RefsFacts DEF Shape, Lingers, Lingering
<1>6. \A x \in Keys : x \in KeysIn(h.linger) <=> x \in DOMAIN h.refs /\ TotalRefs(h.refs[x]) = 0
  BY <1>0 DEF Lingers, Lingering
<1>7. Wanted(h, k) = EffectiveLevel(old)
  BY <1>3 DEF Wanted, old
<1>8. CASE TotalRefs(new) = 0
  <2> DEFINE e == [key |-> k, level |-> EffectiveLevel(old)]
  <2>0. e \in Entries /\ e.key = k /\ e.level = EffectiveLevel(old)
    BY <1>5 DEF Entries
  <2>1. f = Linger(g, k, EffectiveLevel(old))
    BY <1>2, <1>3, <1>8
  <2>2. /\ IsRecord(f) /\ f.refs = g.refs /\ f.held = g.held /\ f.active = g.active
        /\ f.linger = Append(h.linger, e) /\ f.pacer = h.pacer
    BY ONLY <2>1, <1>1, <1>3, LingerIs
  <2> HIDE DEF e
  <2>3. /\ f.linger \in Seq(Entries) /\ Distinct(f.linger) /\ KeysIn(f.linger) = KeysIn(h.linger) \cup {k}
        /\ \A x : Has(f.linger, x) <=> Has(h.linger, x) \/ x = e
    <3>1. e.key \notin KeysIn(h.linger)
      BY <1>5, <2>0
    <3>2. /\ f.linger \in Seq(Entries) /\ Distinct(f.linger) /\ KeysIn(f.linger) = KeysIn(h.linger) \cup {e.key}
          /\ \A x : Has(f.linger, x) <=> Has(h.linger, x) \/ x = e
      BY ONLY <1>5, <2>0, <2>2, <3>1, AppendFacts
    <3> QED BY <2>0, <3>2
  <2>4. Shape(f)
    BY ONLY <1>1, <2>2, <2>3 DEF Shape
  <2>5. Counted(f, G)
    BY ONLY <1>1, <2>2 DEF Counted, HeldBy
  <2>6. ASSUME NEW x \in Keys
        PROVE  x \in KeysIn(f.linger) <=> x \in DOMAIN f.refs /\ TotalRefs(f.refs[x]) = 0
    BY <1>3, <1>6, <1>8, <2>2, <2>3 DEF new
  <2>7. Books(f, G)
    BY <1>1, <2>3, <2>4, <2>5, <2>6 DEF Books, Lingers, Lingering
  <2>8. ASSUME NEW x \in DOMAIN h.refs PROVE Wanted(f, x) = Wanted(h, x)
    <3>1. Wanted(f, x) = IF x \in KeysIn(f.linger) THEN LevelIn(f.linger, x) ELSE EffectiveLevel(f.refs[x])
      BY <1>3, <2>2, <2>7, WantedFacts
    <3>2. CASE x = k
      <4>1. LevelIn(f.linger, k) = EffectiveLevel(old)
        BY <2>0, <2>3, LevelInFacts
      <4> QED BY <1>7, <2>3, <3>1, <3>2, <4>1
    <3>3. CASE x # k
      <4>1. \A y : y.key = x => (Has(h.linger, y) <=> Has(f.linger, y))
        BY <2>0, <2>3, <3>3
      <4>2. /\ x \in KeysIn(h.linger) <=> x \in KeysIn(f.linger)
            /\ x \in KeysIn(h.linger) => LevelIn(h.linger, x) = LevelIn(f.linger, x)
        BY ONLY <1>5, <2>3, <4>1, SameEntry
      <4>3. Wanted(h, x) = IF x \in KeysIn(h.linger) THEN LevelIn(h.linger, x) ELSE EffectiveLevel(h.refs[x])
        BY <1>0, WantedFacts
      <4>4. f.refs[x] = h.refs[x]
        BY <1>3, <2>2, <3>3
      <4> QED BY ONLY <3>1, <4>2, <4>3, <4>4
    <3> QED BY <3>2, <3>3
  <2> QED BY <1>3, <2>2, <2>7, <2>8, SameWanted
<1>9. CASE TotalRefs(new) # 0
  <2>1. Books(g, G)
    <3>1. ASSUME NEW x \in Keys
          PROVE  x \in KeysIn(g.linger) <=> x \in DOMAIN g.refs /\ TotalRefs(g.refs[x]) = 0
      BY <1>3, <1>5, <1>6, <1>9 DEF new
    <3> QED BY <1>1, <1>3, <1>5, <3>1 DEF Books, Lingers, Lingering
  <2>2. Wanted(g, k) = EffectiveLevel(new)
    BY <1>3 DEF Wanted, Lingering, new
  <2>3. ASSUME NEW x \in DOMAIN h.refs, x # k PROVE Wanted(g, x) = Wanted(h, x)
    BY <1>3, <2>3 DEF Wanted, Lingering, LingerLevel
  <2>4. CASE EffectiveLevel(new) = EffectiveLevel(old)
    <3>1. f = g
      BY <1>2, <1>3, <1>9, <2>4
    <3>2. \A x \in DOMAIN h.refs : Wanted(g, x) = Wanted(h, x)
      BY <1>7, <2>2, <2>3, <2>4
    <3> QED BY <1>3, <2>1, <3>1, <3>2, SameWanted
  <2>5. CASE EffectiveLevel(new) # EffectiveLevel(old)
    <3>1. f = HubDemote(g, k)
      BY <1>2, <1>3, <1>9, <2>5
    <3>2. Frame(g, f) /\ f.pacer = IF g.pacer.ready THEN ControlDemote(g.pacer, k) ELSE g.pacer
      BY <1>1, <3>1, HubDemotes
    <3>3. Wanted(g, k) = "price"
      BY <1>4, <2>2, <2>5
    <3>u. h.pacer.declared \subseteq Users
      BY <1>0, PacerFields DEF Orderly
    <3>4. CASE ~h.pacer.ready
      <4>1. f.pacer = h.pacer
        BY <1>3, <3>2, <3>4
      <4>2. Books(f, G)
        BY <2>1, <3>2, FrameBooks
      <4>3. Good(f, G)
        BY <1>0, <3>4, <4>1, <4>2 DEF Good, Agrees
      <4>4. Informs(h, f)
        BY <3>4, <4>1 DEF Informs, Same
      <4> QED BY <4>3, <4>4
    <3>5. CASE h.pacer.ready
      <4>1. /\ g.pacer.ready /\ Awake(g.pacer) /\ Orderly(g.pacer) /\ \A x \in Keys : AgreesAt(h, x)
        BY <1>0, <1>3, <3>5 DEF Agrees
      <4>2. \A x \in Keys : x # k => AgreesAt(g, x)
        BY <1>3, <2>3, <4>1 DEF AgreesAt
      <4>3. Orderly(f.pacer) /\ KeepsOthers(g.pacer, f.pacer, k) /\ Served(f.pacer, k, "price") /\ Awake(f.pacer)
        BY <3>2, <4>1, DemoteFacts
      <4>4. Good(f, G) /\ \A v \in g.pacer.declared : Promised(f.pacer, v, k)
        BY <1>3, <2>1, <3>2, <3>3, <4>1, <4>2, <4>3, ServeGood
      <4>5. \A v \in h.pacer.declared : InformsAt(h, f, v, k)
        BY <1>3, <4>4 DEF InformsAt
      <4>6. \A v \in h.pacer.declared : DOMAIN f.held[v] = DOMAIN h.held[v]
        BY <1>3, <3>2, <3>u DEF Frame
      <4>7. KeepsOthers(h.pacer, f.pacer, k)
        BY <1>3, <4>3
      <4>8. Informs(h, f)
        BY <4>5, <4>6, <4>7, InformsBy
      <4> QED BY <4>4, <4>8
    <3> QED BY <3>4, <3>5
  <2> QED BY <2>4, <2>5
<1> QED BY <1>8, <1>9

-----------------------------------------------------------------------------
(* The folds over keys.  Each stays among the following.                   *)
Hubs ==
  [refs : PartialFunctions(Keys, Refs), held : [Users -> PartialFunctions(Keys, Nat)],
   active : [Users -> Nat], linger : Seq(Entries), pacer : Pacers]

LEMMA ShapeIsHub ==
  ASSUME NEW h, Shape(h), h.pacer \in Pacers
  PROVE  h \in Hubs
<1>1. /\ h = [refs |-> h.refs, held |-> h.held, active |-> h.active, linger |-> h.linger, pacer |-> h.pacer]
      /\ h.refs \in PartialFunctions(Keys, Refs) /\ h.held \in [Users -> PartialFunctions(Keys, Nat)]
      /\ h.active \in [Users -> Nat] /\ h.linger \in Seq(Entries) /\ h.pacer \in Pacers
  BY DEF Shape, IsRecord, HubOf
<1> DEFINE r == h.refs
           d == h.held
           a == h.active
           l == h.linger
           p == h.pacer
<1> HIDE DEF r, d, a, l, p
<1>2. /\ h = [refs |-> r, held |-> d, active |-> a, linger |-> l, pacer |-> p]
      /\ r \in PartialFunctions(Keys, Refs) /\ d \in [Users -> PartialFunctions(Keys, Nat)]
      /\ a \in [Users -> Nat] /\ l \in Seq(Entries) /\ p \in Pacers
  BY ONLY <1>1 DEF r, d, a, l, p
<1> QED BY ONLY <1>2 DEF Hubs

LEMMA KeysFinite ==
  ASSUME NEW S \in SUBSET Keys
  PROVE  IsFiniteSet(S) /\ Chooses([s \in SUBSET S |-> CHOOSE x \in s : TRUE], S)
<1>1. IsFiniteSet(S)
  BY FiniteAssumption, FS_Subset
<1>2. ASSUME NEW s \in SUBSET S, s # {} PROVE (CHOOSE x \in s : TRUE) \in s
  BY <1>2
<1> QED BY <1>1, <1>2 DEF Chooses

(* What the tab t holds of the keys s.                                     *)
Given(t, s) == {<<t, k, tab[t][k]>> : k \in s}

LEMMA TabClosesGood ==
  ASSUME NEW H, Good(hub, H), NEW t \in Tabs, tab[t] \in PartialFunctions(Keys, Levels),
         \A k \in DOMAIN tab[t] : <<t, k, tab[t][k]>> \in H, TabCloses(t)
  PROVE  Good(hub', H \ Given(t, DOMAIN tab[t])) /\ Informs(hub, hub')
<1> DEFINE m   == tab[t]
           u   == Owner[t]
           S   == DOMAIN m
           C   == [s \in SUBSET S |-> CHOOSE x \in s : TRUE]
           G   == [y \in S \X Hubs |-> HubUnsubscribe(y[2], u, y[1], m[y[1]])]
           I   == {y \in (SUBSET S) \X Hubs : Good(y[2], H \ Given(t, y[1])) /\ Informs(hub, y[2])}
           Step(f) == [s \in SUBSET S |->
                         IF s = {} THEN hub
                         ELSE HubUnsubscribe(f[s \ {CHOOSE x \in s : TRUE}], u, CHOOSE x \in s : TRUE,
                                             m[CHOOSE x \in s : TRUE])]
<1>1. hub' = (CHOOSE f : f = Step(f))[S]
  BY DEF TabCloses, FoldSet, MapThenFoldSet
<1>2. S \in SUBSET Keys /\ \A k \in S : m[k] \in Levels /\ <<t, k, m[k]>> \in H
  BY PartialFacts
<1>3. ASSUME NEW g, NEW K, Good(g, K) PROVE g \in Hubs
  BY <1>3, ShapeIsHub DEF Good, Books, Orderly
<1>4. Given(t, {}) = {} /\ \A s \in SUBSET S : \A x \in S \ s :
        /\ H \ Given(t, s \cup {x}) = (H \ Given(t, s)) \ {<<t, x, m[x]>>}
        /\ <<t, x, m[x]>> \in H \ Given(t, s)
  BY <1>2 DEF Given
<1> HIDE DEF m, u
<1>5. IsFiniteSet(S) /\ Chooses(C, S) /\ \A s \in SUBSET S : C[s] = CHOOSE x \in s : TRUE
  BY <1>2, KeysFinite
<1>6. <<{}, hub>> \in I
  <2>1. H \ Given(t, {}) = H
    BY <1>4
  <2> QED BY <1>3, <2>1, InformsSelf
<1>7. ASSUME NEW s \in SUBSET S, NEW x \in S \ s, NEW h \in Hubs, <<s, h>> \in I
      PROVE  <<s \cup {x}, HubUnsubscribe(h, u, x, m[x])>> \in I
  <2> DEFINE f == HubUnsubscribe(h, u, x, m[x])
             K == H \ Given(t, s)
             L == H \ Given(t, s \cup {x})
  <2>1. Good(h, K) /\ Informs(hub, h)
    BY <1>7
  <2>2. L = K \ {<<t, x, m[x]>>} /\ <<t, x, m[x]>> \in K /\ x \in Keys /\ m[x] \in Levels /\ u = Owner[t]
    BY <1>2, <1>4 DEF u
  <2>f. f = HubUnsubscribe(h, u, x, m[x])
    OBVIOUS
  <2> HIDE DEF f, K, L
  <2>3. Good(f, L) /\ Informs(h, f)
    BY ONLY <2>1, <2>2, <2>f, t \in Tabs, HubUnsubscribeGood
  <2>4. Informs(hub, f) /\ f \in Hubs
    BY <1>3, <2>1, <2>3, InformsTrans
  <2>5. s \cup {x} \in SUBSET S
    OBVIOUS
  <2>6. <<s \cup {x}, f>> \in I
    BY <2>3, <2>4, <2>5 DEF L
  <2> QED BY <2>6 DEF f
<1>8. \E f : f = Step(f)
  <2>1. Invariant(I, S, Hubs, hub, G)
    BY <1>6, <1>7 DEF Invariant
  <2>2. \A x \in S, h \in Hubs : G[<<x, h>>] = HubUnsubscribe(h, u, x, m[x])
    OBVIOUS
  <2> HIDE DEF G, C, I, S
  <2>f. IsFiniteSet(S) /\ Chooses(C, S)
    BY <1>5
  <2>3. PICK f \in [SUBSET S -> Hubs] : Iterates(f, S, C, hub, G)
    BY ONLY <2>f, <2>1, FoldHolds
  <2>4. \A s \in SUBSET S : f[s] = IF s = {} THEN hub
                                   ELSE HubUnsubscribe(f[s \ {CHOOSE x \in s : TRUE}], u, CHOOSE x \in s : TRUE,
                                                       m[CHOOSE x \in s : TRUE])
    <3> TAKE s \in SUBSET S
    <3> DEFINE c == CHOOSE x \in s : TRUE
    <3>1. C[s] = c /\ (s # {} => c \in S /\ s \ {c} \in SUBSET S)
      BY <1>5 DEF Chooses
    <3>2. f[s] = IF s = {} THEN hub ELSE G[<<c, f[s \ {c}]>>]
      <4> HIDE DEF c
      <4> QED BY <2>3, <3>1 DEF Iterates
    <3> HIDE DEF c
    <3>3. s # {} => G[<<c, f[s \ {c}]>>] = HubUnsubscribe(f[s \ {c}], u, c, m[c])
      BY <2>2, <3>1
    <3>4. f[s] = IF s = {} THEN hub ELSE HubUnsubscribe(f[s \ {c}], u, c, m[c])
      BY ONLY <3>2, <3>3
    <3> QED BY ONLY <3>4 DEF c
  <2>5. f = Step(f)
    BY <2>4
  <2> QED BY <2>5
<1> DEFINE g == CHOOSE f : f = Step(f)
<1>9. g = Step(g)
  BY <1>8
<1> HIDE DEF g
<1>10. g[{}] = hub /\ \A s \in SUBSET S : s # {} => g[s] = HubUnsubscribe(g[s \ {C[s]}], u, C[s], m[C[s]])
  BY <1>5, <1>9
<1>11. ASSUME NEW s \in SUBSET S, s # {}, <<s \ {C[s]}, g[s \ {C[s]}]>> \in I
       PROVE  <<s, g[s]>> \in I
  <2>1. C[s] \in s /\ (s \ {C[s]}) \cup {C[s]} = s
    BY <1>5, <1>11 DEF Chooses
  <2>2. g[s \ {C[s]}] \in Hubs /\ C[s] \in S \ (s \ {C[s]}) /\ s \ {C[s]} \in SUBSET S
    BY <2>1, <1>11
  <2>3. <<(s \ {C[s]}) \cup {C[s]}, HubUnsubscribe(g[s \ {C[s]}], u, C[s], m[C[s]])>> \in I
    BY ONLY <2>2, <1>7, <1>11
  <2>4. g[s] = HubUnsubscribe(g[s \ {C[s]}], u, C[s], m[C[s]])
    BY <1>10, <1>11
  <2> QED BY ONLY <2>1, <2>3, <2>4
<1>12. <<S, g[S]>> \in I
  <2> HIDE DEF I, C, S
  <2> QED BY ONLY <1>5, <1>6, <1>10, <1>11, FoldKeeps
<1>13. Good(g[S], H \ Given(t, S)) /\ Informs(hub, g[S])
  BY <1>12
<1> QED BY <1>1, <1>13 DEF g, m

(* The lingering keys are let go without a word to the gateway.            *)
LetGo(h, H, s, g) ==
  /\ Books(g, H) /\ g.pacer = h.pacer /\ Lingering(g) = Lingering(h) \ s
  /\ \A u \in Users : DOMAIN g.held[u] \subseteq DOMAIN h.held[u]

LEMMA LetGoOneMore ==
  ASSUME NEW h, NEW H, NEW s \in SUBSET Lingering(h), NEW k \in Lingering(h) \ s, NEW f, LetGo(h, H, s, f),
         NEW g, g = ReleaseKey(f, k, FALSE)
  PROVE  LetGo(h, H, s \cup {k}, g)
<1> DEFINE b == FALSE
<1>1. Books(f, H) /\ k \in Lingering(f) /\ g = ReleaseKey(f, k, b) /\ f.pacer = h.pacer
  BY DEF LetGo
<1> HIDE DEF b
<1>2. /\ Books(g, H) /\ Releases(f, g, k)
      /\ g.pacer = IF b /\ f.pacer.ready THEN ControlUnsubscribe(f.pacer, k) ELSE f.pacer
  BY ONLY <1>1, ReleaseBooks
<1>3. g.pacer = h.pacer
  BY ONLY <1>1, <1>2 DEF b
<1>4. Lingering(g) = Lingering(h) \ (s \cup {k})
  BY <1>2 DEF Releases, LetGo
<1>5. \A u \in Users : DOMAIN g.held[u] \subseteq DOMAIN h.held[u]
  BY <1>2 DEF Releases, LetGo
<1> QED BY ONLY <1>2, <1>3, <1>4, <1>5 DEF LetGo

LEMMA AllLetGo ==
  ASSUME NEW h, NEW H, Books(h, H), h.pacer \in Pacers, NEW r, r = ReleaseLingering(h)
  PROVE  LetGo(h, H, Lingering(h), r)
<1> DEFINE S  == Lingering(h)
           C  == [s \in SUBSET S |-> CHOOSE x \in s : TRUE]
           G  == [y \in S \X Hubs |-> ReleaseKey(y[2], y[1], FALSE)]
           I  == {y \in (SUBSET S) \X Hubs : LetGo(h, H, y[1], y[2])}
           Step(i) == [s \in SUBSET S |->
                         IF s = {} THEN h
                         ELSE ReleaseKey(i[s \ {CHOOSE x \in s : TRUE}], (CHOOSE x \in s : TRUE), FALSE)]
<1>1. r = (CHOOSE i : i = Step(i))[S]
  BY DEF ReleaseLingering, FoldSet, MapThenFoldSet
<1>2. S \in SUBSET Keys
  BY LingeringIsFree
<1>3. ASSUME NEW s, NEW g, LetGo(h, H, s, g) PROVE g \in Hubs
  BY <1>3, ShapeIsHub DEF LetGo, Books
<1>5. IsFiniteSet(S) /\ Chooses(C, S) /\ \A s \in SUBSET S : C[s] = CHOOSE x \in s : TRUE
  BY <1>2, KeysFinite
<1>6. <<{}, h>> \in I
  <2>1. LetGo(h, H, {}, h)
    BY DEF LetGo
  <2> QED BY <1>3, <2>1
<1>7. ASSUME NEW s \in SUBSET S, NEW x \in S \ s, NEW g \in Hubs, <<s, g>> \in I
      PROVE  <<s \cup {x}, ReleaseKey(g, x, FALSE)>> \in I
  <2>1. LetGo(h, H, s, g)
    BY <1>7
  <2>2. LetGo(h, H, s \cup {x}, ReleaseKey(g, x, FALSE))
    BY <2>1, LetGoOneMore
  <2>3. ReleaseKey(g, x, FALSE) \in Hubs /\ s \cup {x} \in SUBSET S
    BY <1>3, <2>2
  <2> QED BY <2>2, <2>3
<1>8. \E f : f = Step(f)
  <2>1. Invariant(I, S, Hubs, h, G)
    BY <1>6, <1>7 DEF Invariant
  <2>2. \A x \in S, g \in Hubs : G[<<x, g>>] = ReleaseKey(g, x, FALSE)
    OBVIOUS
  <2> HIDE DEF G, C, I, S
  <2>3. IsFiniteSet(S) /\ Chooses(C, S)
    BY <1>5
  <2>4. PICK f \in [SUBSET S -> Hubs] : Iterates(f, S, C, h, G)
    BY ONLY <2>1, <2>3, FoldHolds
  <2>5. \A s \in SUBSET S : f[s] = IF s = {} THEN h
                                   ELSE ReleaseKey(f[s \ {CHOOSE x \in s : TRUE}], (CHOOSE x \in s : TRUE), FALSE)
    <3> TAKE s \in SUBSET S
    <3> DEFINE c == CHOOSE x \in s : TRUE
    <3>1. C[s] = c /\ (s # {} => c \in S /\ s \ {c} \in SUBSET S)
      BY <1>5 DEF Chooses
    <3>2. f[s] = IF s = {} THEN h ELSE G[<<c, f[s \ {c}]>>]
      <4> HIDE DEF c
      <4> QED BY <2>4, <3>1 DEF Iterates
    <3> HIDE DEF c
    <3>3. s # {} => G[<<c, f[s \ {c}]>>] = ReleaseKey(f[s \ {c}], c, FALSE)
      BY <2>2, <3>1
    <3>4. f[s] = IF s = {} THEN h ELSE ReleaseKey(f[s \ {c}], c, FALSE)
      BY ONLY <3>2, <3>3
    <3> QED BY ONLY <3>4 DEF c
  <2>6. f = Step(f)
    BY <2>5
  <2> QED BY <2>6
<1> DEFINE iter == CHOOSE f : f = Step(f)
<1>9. iter = Step(iter)
  BY <1>8
<1> HIDE DEF iter
<1>10. iter[{}] = h /\ \A s \in SUBSET S : s # {} => iter[s] = ReleaseKey(iter[s \ {C[s]}], C[s], FALSE)
  BY <1>5, <1>9
<1>11. ASSUME NEW s \in SUBSET S, s # {}, <<s \ {C[s]}, iter[s \ {C[s]}]>> \in I
       PROVE  <<s, iter[s]>> \in I
  <2>1. C[s] \in s /\ (s \ {C[s]}) \cup {C[s]} = s
    BY <1>5, <1>11 DEF Chooses
  <2>2. iter[s \ {C[s]}] \in Hubs /\ C[s] \in S \ (s \ {C[s]}) /\ s \ {C[s]} \in SUBSET S
    BY <2>1, <1>11
  <2>3. <<(s \ {C[s]}) \cup {C[s]}, ReleaseKey(iter[s \ {C[s]}], C[s], FALSE)>> \in I
    BY ONLY <2>2, <1>7, <1>11
  <2>4. iter[s] = ReleaseKey(iter[s \ {C[s]}], C[s], FALSE)
    BY <1>10, <1>11
  <2> QED BY ONLY <2>1, <2>3, <2>4
<1>12. <<S, iter[S]>> \in I
  <2> HIDE DEF I, C, S
  <2> QED BY ONLY <1>5, <1>6, <1>10, <1>11, FoldKeeps
<1>13. LetGo(h, H, S, iter[S])
  BY <1>12
<1> QED BY <1>1, <1>13 DEF iter

(* The other keys are asked for again, each at the level of its watchers.  *)
Untold(p, k) == Free(p, k) /\ p.sent[k] = "none"
Told(h, s, g) ==
  /\ Frame(h, g) /\ Same(h.pacer, g.pacer) /\ Orderly(g.pacer) /\ Awake(g.pacer)
  /\ \A k \in s : Served(g.pacer, k, Wanted(h, k))
  /\ \A k \in Keys \ s : Untold(g.pacer, k)

LEMMA ToldOneMore ==
  ASSUME NEW h, NEW H, Books(h, H), Lingering(h) = {}, h.pacer.ready,
         NEW s \in SUBSET DOMAIN h.refs, NEW k \in DOMAIN h.refs \ s, NEW f, Told(h, s, f),
         NEW g, g = HubSend(f, k, EffectiveLevel(f.refs[k]))
  PROVE  Told(h, s \cup {k}, g)
<1> DEFINE l == EffectiveLevel(f.refs[k])
           p == f.pacer
           q == g.pacer
<1>1. k \in Keys /\ s \in SUBSET Keys /\ l = Wanted(h, k) /\ l \in Levels
  <2>1. Shape(h) /\ DOMAIN h.refs \subseteq Keys
    BY ShapeFacts DEF Books
  <2>2. l = Wanted(h, k)
    BY DEF Told, Frame, Wanted
  <2> HIDE DEF l
  <2> QED BY <2>1, <2>2, WantedFacts
<1>2. Books(f, H) /\ Shape(f)
  BY FrameBooks DEF Told, Books
<1>3. g = HubSend(f, k, l)
  OBVIOUS
<1> HIDE DEF l
<1>4. Frame(f, g) /\ q = IF p.ready THEN PacerSubscribe(p, k, l) ELSE p
  BY ONLY <1>2, <1>3, HubSends
<1>5. /\ p.ready /\ Orderly(p) /\ Awake(p) /\ Same(h.pacer, p) /\ Frame(h, f)
      /\ \A x \in s : Served(p, x, Wanted(h, x))
      /\ \A x \in Keys \ s : Untold(p, x)
  BY DEF Told, Same
<1>6. p.sent[k] # "full"
  BY <1>1, <1>5 DEF Untold
<1>7. q = PacerSubscribe(p, k, l)
  BY <1>4, <1>5
<1> HIDE DEF p, q
<1>8. Orderly(q) /\ KeepsOthers(p, q, k) /\ Served(q, k, l) /\ Awake(q)
  BY ONLY <1>1, <1>5, <1>6, <1>7, PacerSubscribeFacts
<1>9. ASSUME NEW x \in s PROVE Served(q, x, Wanted(h, x))
  <2>1. Same(p, q) /\ Keeps(p, q, x) /\ Served(p, x, Wanted(h, x))
    BY <1>1, <1>5, <1>8 DEF KeepsOthers
  <2> QED BY <2>1, KeepsServed
<1>10. ASSUME NEW x \in Keys \ (s \cup {k}) PROVE Untold(q, x)
  <2>1. Keeps(p, q, x) /\ Untold(p, x)
    BY <1>1, <1>5, <1>8 DEF KeepsOthers
  <2> QED BY <2>1 DEF Keeps, Untold
<1>11. Frame(h, g)
  BY <1>4, <1>5, FrameTrans
<1>12. Same(h.pacer, q)
  BY <1>5, <1>8 DEF Same, KeepsOthers
<1>13. Served(q, k, Wanted(h, k))
  BY <1>1, <1>8
<1>14. \A x \in s \cup {k} : Served(q, x, Wanted(h, x))
  BY <1>9, <1>13
<1> QED BY ONLY <1>8, <1>10, <1>11, <1>12, <1>14 DEF Told, q

LEMMA AllTold ==
  ASSUME NEW h, NEW H, Books(h, H), Lingering(h) = {}, h.pacer.ready, Orderly(h.pacer),
         Awake(h.pacer), \A k \in Keys : Untold(h.pacer, k), NEW r, r = SendAll(h)
  PROVE  Told(h, DOMAIN h.refs, r)
<1> DEFINE S  == DOMAIN h.refs
           C  == [s \in SUBSET S |-> CHOOSE x \in s : TRUE]
           G  == [y \in S \X Hubs |-> HubSend(y[2], y[1], EffectiveLevel(y[2].refs[y[1]]))]
           I  == {y \in (SUBSET S) \X Hubs : Told(h, y[1], y[2])}
           Step(i) == [s \in SUBSET S |->
                         IF s = {} THEN h
                         ELSE HubSend(i[s \ {CHOOSE x \in s : TRUE}], (CHOOSE x \in s : TRUE),
                                      EffectiveLevel(i[s \ {CHOOSE x \in s : TRUE}].refs[(CHOOSE x \in s : TRUE)]))]
<1>1. r = (CHOOSE i : i = Step(i))[S]
  BY DEF SendAll, FoldSet, MapThenFoldSet
<1>2. S \in SUBSET Keys
  BY ShapeFacts DEF Books
<1>3. ASSUME NEW s, NEW g, Told(h, s, g) PROVE g \in Hubs
  <2>1. Shape(g)
    BY <1>3, FrameBooks DEF Told, Books
  <2> QED BY <1>3, <2>1, ShapeIsHub DEF Told, Orderly
<1>5. IsFiniteSet(S) /\ Chooses(C, S) /\ \A s \in SUBSET S : C[s] = CHOOSE x \in s : TRUE
  BY <1>2, KeysFinite
<1>6. <<{}, h>> \in I
  <2>1. Told(h, {}, h)
    BY DEF Told, Frame, Books, Shape, Same
  <2> QED BY <1>3, <2>1
<1>7. ASSUME NEW s \in SUBSET S, NEW x \in S \ s, NEW g \in Hubs, <<s, g>> \in I
      PROVE  <<s \cup {x}, HubSend(g, x, EffectiveLevel(g.refs[x]))>> \in I
  <2> DEFINE f == HubSend(g, x, EffectiveLevel(g.refs[x]))
  <2>1. Told(h, s, g) /\ f = HubSend(g, x, EffectiveLevel(g.refs[x]))
    BY <1>7
  <2> HIDE DEF f
  <2>2. Told(h, s \cup {x}, f)
    BY <2>1, ToldOneMore
  <2>3. f \in Hubs /\ s \cup {x} \in SUBSET S
    BY <1>3, <2>2
  <2>4. <<s \cup {x}, f>> \in I
    BY <2>2, <2>3
  <2> QED BY <2>4 DEF f
<1>8. \E f : f = Step(f)
  <2>1. Invariant(I, S, Hubs, h, G)
    BY <1>6, <1>7 DEF Invariant
  <2>2. \A x \in S, g \in Hubs : G[<<x, g>>] = HubSend(g, x, EffectiveLevel(g.refs[x]))
    OBVIOUS
  <2> HIDE DEF G, C, I, S
  <2>3. IsFiniteSet(S) /\ Chooses(C, S)
    BY <1>5
  <2>4. PICK f \in [SUBSET S -> Hubs] : Iterates(f, S, C, h, G)
    BY ONLY <2>1, <2>3, FoldHolds
  <2>5. \A s \in SUBSET S : f[s] = IF s = {} THEN h
                                   ELSE HubSend(f[s \ {CHOOSE x \in s : TRUE}], (CHOOSE x \in s : TRUE),
                                                EffectiveLevel(f[s \ {CHOOSE x \in s : TRUE}].refs[(CHOOSE x \in s : TRUE)]))
    <3> TAKE s \in SUBSET S
    <3> DEFINE c == CHOOSE x \in s : TRUE
    <3>1. C[s] = c /\ (s # {} => c \in S /\ s \ {c} \in SUBSET S)
      BY <1>5 DEF Chooses
    <3>2. f[s] = IF s = {} THEN h ELSE G[<<c, f[s \ {c}]>>]
      <4> HIDE DEF c
      <4> QED BY <2>4, <3>1 DEF Iterates
    <3> HIDE DEF c
    <3>3. s # {} => G[<<c, f[s \ {c}]>>] = HubSend(f[s \ {c}], c, EffectiveLevel(f[s \ {c}].refs[c]))
      BY <2>2, <3>1
    <3>4. f[s] = IF s = {} THEN h ELSE HubSend(f[s \ {c}], c, EffectiveLevel(f[s \ {c}].refs[c]))
      BY ONLY <3>2, <3>3
    <3> QED BY ONLY <3>4 DEF c
  <2>6. f = Step(f)
    BY <2>5
  <2> QED BY <2>6
<1> DEFINE iter == CHOOSE f : f = Step(f)
<1>9. iter = Step(iter)
  BY <1>8
<1> HIDE DEF iter
<1>10. iter[{}] = h /\ \A s \in SUBSET S : s # {} => iter[s] = HubSend(iter[s \ {C[s]}], C[s],
      EffectiveLevel(iter[s \ {C[s]}].refs[C[s]]))
  BY <1>5, <1>9
<1>11. ASSUME NEW s \in SUBSET S, s # {}, <<s \ {C[s]}, iter[s \ {C[s]}]>> \in I
       PROVE  <<s, iter[s]>> \in I
  <2>1. C[s] \in s /\ (s \ {C[s]}) \cup {C[s]} = s
    BY <1>5, <1>11 DEF Chooses
  <2>2. iter[s \ {C[s]}] \in Hubs /\ C[s] \in S \ (s \ {C[s]}) /\ s \ {C[s]} \in SUBSET S
    BY <2>1, <1>11
  <2>3. <<(s \ {C[s]}) \cup {C[s]}, HubSend(iter[s \ {C[s]}], C[s], EffectiveLevel(iter[s \ {C[s]}].refs[C[s]]))>> \in I
    BY ONLY <2>2, <1>7, <1>11
  <2>4. iter[s] = HubSend(iter[s \ {C[s]}], C[s], EffectiveLevel(iter[s \ {C[s]}].refs[C[s]]))
    BY <1>10, <1>11
  <2> QED BY ONLY <2>1, <2>3, <2>4
<1>12. <<S, iter[S]>> \in I
  <2> HIDE DEF I, C, S
  <2> QED BY ONLY <1>5, <1>6, <1>10, <1>11, FoldKeeps
<1>13. Told(h, S, iter[S])
  BY <1>12
<1> QED BY <1>1, <1>13 DEF iter

(* The keys a user holds are nudged when its session is ready.             *)
Nudged(h, H, s, g) ==
  /\ Frame(h, g) /\ Same(h.pacer, g.pacer) /\ Good(g, H)
  /\ h.pacer.ready => \A v \in h.pacer.declared, k \in Keys :
       Promised(h.pacer, v, k) \/ k \in s => Promised(g.pacer, v, k)

LEMMA NudgedOneMore ==
  ASSUME NEW h, NEW H, NEW s, NEW k \in DOMAIN h.refs \ Lingering(h), NEW f, Nudged(h, H, s, f),
         NEW g, g = HubNudge(f, k)
  PROVE  Nudged(h, H, s \cup {k}, g)
<1> DEFINE l == EffectiveLevel(f.refs[k])
           p == f.pacer
           q == g.pacer
<1>1. Books(f, H) /\ Shape(f) /\ Orderly(p) /\ Agrees(f) /\ Frame(h, f) /\ Same(h.pacer, p)
  BY DEF Nudged, Good, Books
<1>2. k \in DOMAIN f.refs /\ k \in Keys /\ l = Wanted(f, k) /\ l \in Levels
  <2>1. k \in DOMAIN f.refs /\ k \notin Lingering(f)
    BY <1>1 DEF Frame, Lingering
  <2>2. k \in Keys
    BY <1>1, <2>1, ShapeFacts
  <2>3. l = Wanted(f, k)
    BY <2>1 DEF Wanted
  <2> HIDE DEF l
  <2> QED BY <1>1, <2>1, <2>2, <2>3, WantedFacts
<1>3. Frame(f, g) /\ q = IF p.ready THEN ControlNudge(p, k, l) ELSE p
  BY ONLY <1>1, <1>2, g = HubNudge(f, k), HubNudges
<1>4. Frame(h, g)
  BY <1>1, <1>3, FrameTrans
<1>5. CASE ~h.pacer.ready
  <2>1. q = p /\ ~p.ready
    BY <1>1, <1>3, <1>5 DEF Same
  <2>2. Books(g, H)
    BY <1>1, <1>3, FrameBooks
  <2>3. Good(g, H)
    BY <1>1, <2>1, <2>2 DEF Good, Agrees
  <2> QED BY <1>1, <1>4, <1>5, <2>1, <2>3 DEF Nudged
<1>6. CASE h.pacer.ready
  <2>1. p.ready /\ Awake(p) /\ \A x \in Keys : AgreesAt(f, x)
    BY <1>1, <1>6 DEF Agrees, Same
  <2>2. Asks(p, k, l)
    BY <1>2, <2>1 DEF AgreesAt
  <2>3. q = ControlNudge(p, k, l)
    BY <1>3, <2>1
  <2>4. f.pacer = p /\ g.pacer = q /\ (p.ready <=> f.pacer.ready)
    OBVIOUS
  <2> HIDE DEF p, q, l
  <2>5. Orderly(q) /\ KeepsOthers(p, q, k) /\ Served(q, k, l) /\ Awake(q)
    BY ONLY <1>1, <1>2, <2>1, <2>2, <2>3, NudgeFacts
  <2>6. Good(g, H) /\ g.pacer.ready /\ \A u \in f.pacer.declared : Promised(g.pacer, u, k)
    <3>1. Served(q, k, Wanted(f, k))
      BY <1>2, <2>5
    <3> QED BY <1>1, <1>2, <1>3, <2>1, <2>4, <2>5, <3>1, ServeGood
  <2>7. Same(h.pacer, g.pacer)
    BY <1>1, <2>4, <2>5 DEF Same, KeepsOthers
  <2>8. ASSUME NEW v \in h.pacer.declared, NEW x \in Keys, Promised(h.pacer, v, x) \/ x \in s \cup {k}
        PROVE  Promised(q, v, x)
    <3>1. v \in p.declared
      BY <1>1 DEF Same
    <3>2. CASE x = k
      BY <2>4, <2>6, <3>1, <3>2
    <3>3. CASE x # k
      <4>1. Promised(p, v, x)
        BY <1>6, <2>4, <2>8, <3>3 DEF Nudged
      <4>2. Keeps(p, q, x)
        BY <2>5, <3>3 DEF KeepsOthers
      <4> QED BY <3>1, <4>1, <4>2 DEF Keeps
    <3> QED BY <3>2, <3>3
  <2> QED BY <1>4, <2>4, <2>6, <2>7, <2>8 DEF Nudged
<1> QED BY <1>5, <1>6

Kept(h, u) == {k \in DOMAIN h.held[u] : h.held[u][k] > 0}

LEMMA AllNudged ==
  ASSUME NEW h, NEW H, Good(h, H), NEW u \in Users, NEW r, r = NudgeHeld(h, u)
  PROVE  Nudged(h, H, Kept(h, u), r)
<1> DEFINE S  == Kept(h, u)
           C  == [s \in SUBSET S |-> CHOOSE x \in s : TRUE]
           G  == [y \in S \X Hubs |-> HubNudge(y[2], y[1])]
           I  == {y \in (SUBSET S) \X Hubs : Nudged(h, H, y[1], y[2])}
           Step(i) == [s \in SUBSET S |->
                         IF s = {} THEN h
                         ELSE HubNudge(i[s \ {CHOOSE x \in s : TRUE}], (CHOOSE x \in s : TRUE))]
<1>1. r = (CHOOSE i : i = Step(i))[S]
  BY DEF NudgeHeld, FoldSet, MapThenFoldSet, Kept
<1>2. S \in SUBSET Keys /\ S \subseteq DOMAIN h.refs \ Lingering(h)
  <2>1. Books(h, H) /\ Shape(h)
    BY DEF Good, Books
  <2>2. S \in SUBSET DOMAIN h.refs /\ DOMAIN h.refs \subseteq Keys
    BY <2>1, ShapeFacts DEF Kept
  <2>3. ASSUME NEW k \in S PROVE k \notin Lingering(h)
    <3>1. HeldBy(h, u, k) # 0
      <4>1. k \in DOMAIN h.held[u] /\ h.held[u][k] > 0
        BY DEF Kept
      <4> QED BY ONLY <4>1 DEF HeldBy
    <3> QED BY <2>1, <3>1, LingeringIsFree
  <2> QED BY <2>2, <2>3
<1>3. ASSUME NEW s, NEW g, Nudged(h, H, s, g) PROVE g \in Hubs
  BY <1>3, ShapeIsHub DEF Nudged, Good, Books, Orderly
<1>5. IsFiniteSet(S) /\ Chooses(C, S) /\ \A s \in SUBSET S : C[s] = CHOOSE x \in s : TRUE
  BY <1>2, KeysFinite
<1>6. <<{}, h>> \in I
  <2>1. Nudged(h, H, {}, h)
    BY DEF Nudged, Frame, Good, Books, Shape, Same
  <2> QED BY <1>3, <2>1
<1>7. ASSUME NEW s \in SUBSET S, NEW x \in S \ s, NEW g \in Hubs, <<s, g>> \in I
      PROVE  <<s \cup {x}, HubNudge(g, x)>> \in I
  <2>1. Nudged(h, H, s, g) /\ x \in DOMAIN h.refs \ Lingering(h)
    BY <1>2, <1>7
  <2>2. Nudged(h, H, s \cup {x}, HubNudge(g, x))
    BY <2>1, NudgedOneMore
  <2>3. HubNudge(g, x) \in Hubs /\ s \cup {x} \in SUBSET S
    BY <1>3, <2>2
  <2> QED BY <2>2, <2>3
<1>8. \E f : f = Step(f)
  <2>1. Invariant(I, S, Hubs, h, G)
    BY <1>6, <1>7 DEF Invariant
  <2>2. \A x \in S, g \in Hubs : G[<<x, g>>] = HubNudge(g, x)
    OBVIOUS
  <2> HIDE DEF G, C, I, S
  <2>3. IsFiniteSet(S) /\ Chooses(C, S)
    BY <1>5
  <2>4. PICK f \in [SUBSET S -> Hubs] : Iterates(f, S, C, h, G)
    BY ONLY <2>1, <2>3, FoldHolds
  <2>5. \A s \in SUBSET S : f[s] = IF s = {} THEN h
                                   ELSE HubNudge(f[s \ {CHOOSE x \in s : TRUE}], (CHOOSE x \in s : TRUE))
    <3> TAKE s \in SUBSET S
    <3> DEFINE c == CHOOSE x \in s : TRUE
    <3>1. C[s] = c /\ (s # {} => c \in S /\ s \ {c} \in SUBSET S)
      BY <1>5 DEF Chooses
    <3>2. f[s] = IF s = {} THEN h ELSE G[<<c, f[s \ {c}]>>]
      <4> HIDE DEF c
      <4> QED BY <2>4, <3>1 DEF Iterates
    <3> HIDE DEF c
    <3>3. s # {} => G[<<c, f[s \ {c}]>>] = HubNudge(f[s \ {c}], c)
      BY <2>2, <3>1
    <3>4. f[s] = IF s = {} THEN h ELSE HubNudge(f[s \ {c}], c)
      BY ONLY <3>2, <3>3
    <3> QED BY ONLY <3>4 DEF c
  <2>6. f = Step(f)
    BY <2>5
  <2> QED BY <2>6
<1> DEFINE iter == CHOOSE f : f = Step(f)
<1>9. iter = Step(iter)
  BY <1>8
<1> HIDE DEF iter
<1>10. iter[{}] = h /\ \A s \in SUBSET S : s # {} => iter[s] = HubNudge(iter[s \ {C[s]}], C[s])
  BY <1>5, <1>9
<1>11. ASSUME NEW s \in SUBSET S, s # {}, <<s \ {C[s]}, iter[s \ {C[s]}]>> \in I
       PROVE  <<s, iter[s]>> \in I
  <2>1. C[s] \in s /\ (s \ {C[s]}) \cup {C[s]} = s
    BY <1>5, <1>11 DEF Chooses
  <2>2. iter[s \ {C[s]}] \in Hubs /\ C[s] \in S \ (s \ {C[s]}) /\ s \ {C[s]} \in SUBSET S
    BY <2>1, <1>11
  <2>3. <<(s \ {C[s]}) \cup {C[s]}, HubNudge(iter[s \ {C[s]}], C[s])>> \in I
    BY ONLY <2>2, <1>7, <1>11
  <2>4. iter[s] = HubNudge(iter[s \ {C[s]}], C[s])
    BY <1>10, <1>11
  <2> QED BY ONLY <2>1, <2>3, <2>4
<1>12. <<S, iter[S]>> \in I
  <2> HIDE DEF I, C, S
  <2> QED BY ONLY <1>5, <1>6, <1>10, <1>11, FoldKeeps
<1>13. Nudged(h, H, S, iter[S])
  BY <1>12
<1> QED BY <1>1, <1>13 DEF iter

-----------------------------------------------------------------------------
(* The inductive invariant: the hub is in order for what the tabs hold,    *)
(* and every watcher has the progress of its keys or is remembered.        *)
Tables     == [Tabs -> PartialFunctions(Keys, Levels)]
HoldsOf(m) == {x \in Holdings : x[2] \in DOMAIN m[x[1]] /\ m[x[1]][x[2]] = x[3]}

Informed(h, ms) ==
  h.pacer.ready => \A u \in h.pacer.declared, k \in Keys :
    k \in DOMAIN h.held[u] => Promised(h.pacer, u, k) \/ <<u, k>> \in ms

Sound(m, h, ms) ==
  m \in Tables /\ ms \subseteq Users \X Keys /\ Good(h, HoldsOf(m)) /\ Informed(h, ms)

IInv == Sound(tab, hub, missed)

LEMMA TableMoves ==
  ASSUME NEW m \in Tables, NEW t \in Tabs, NEW f \in PartialFunctions(Keys, Levels),
         NEW n, n = One(m, t, f)
  PROVE  /\ n \in Tables
         /\ \A x \in Holdings : x \in HoldsOf(n) <=>
              IF x[1] = t THEN x[2] \in DOMAIN f /\ f[x[2]] = x[3] ELSE x \in HoldsOf(m)
<1>1. n[t] = f /\ \A s \in Tabs : s # t => n[s] = m[s]
  BY DEF One, Tables
<1>2. n \in Tables
  BY DEF One, Tables
<1>3. ASSUME NEW x \in Holdings
      PROVE  x \in HoldsOf(n) <=> IF x[1] = t THEN x[2] \in DOMAIN f /\ f[x[2]] = x[3] ELSE x \in HoldsOf(m)
  <2>1. x[1] \in Tabs
    BY DEF Holdings
  <2> QED BY ONLY <1>1, <2>1, x \in Holdings DEF HoldsOf
<1> QED BY <1>2, <1>3

LEMMA TableSet ==
  ASSUME NEW m \in Tables, NEW t \in Tabs, NEW k \in Keys, NEW l \in Levels,
         NEW n, n = One(m, t, Set(m[t], k, l))
  PROVE  /\ n \in Tables
         /\ k \notin DOMAIN m[t] => /\ <<t, k, l>> \notin HoldsOf(m)
                                    /\ HoldsOf(n) = HoldsOf(m) \cup {<<t, k, l>>}
         /\ k \in DOMAIN m[t] /\ m[t][k] # l =>
              /\ <<t, k, l>> \notin HoldsOf(m) /\ m[t][k] \in Levels /\ <<t, k, m[t][k]>> \in HoldsOf(m)
              /\ HoldsOf(n) = (HoldsOf(m) \cup {<<t, k, l>>}) \ {<<t, k, m[t][k]>>}
<1> DEFINE f == Set(m[t], k, l)
           o == m[t]
<1>1. o \in PartialFunctions(Keys, Levels)
  BY DEF Tables
<1>2. f \in PartialFunctions(Keys, Levels)
  BY <1>1, PartialSet
<1>3. DOMAIN f = DOMAIN o \cup {k} /\ f[k] = l /\ \A x \in DOMAIN o : x # k => f[x] = o[x]
  <2>1. f = Set(o, k, l)
    OBVIOUS
  <2> HIDE DEF f, o
  <2> QED BY ONLY <2>1 DEF Set
<1>4. DOMAIN o \subseteq Keys /\ \A x \in DOMAIN o : o[x] \in Levels
  BY <1>1, PartialFacts
<1> HIDE DEF f
<1>5. n = One(m, t, f)
  BY DEF f
<1>6. /\ n \in Tables
      /\ \A x \in Holdings : x \in HoldsOf(n) <=>
           IF x[1] = t THEN x[2] \in DOMAIN f /\ f[x[2]] = x[3] ELSE x \in HoldsOf(m)
  BY ONLY <1>2, <1>5, m \in Tables, t \in Tabs, TableMoves
<1>7. \A x \in Holdings : x[1] = t => (x \in HoldsOf(m) <=> x[2] \in DOMAIN o /\ o[x[2]] = x[3])
  BY DEF HoldsOf
<1>8. HoldsOf(m) \subseteq Holdings /\ HoldsOf(n) \subseteq Holdings
  BY DEF HoldsOf
<1>9. ASSUME NEW a \in Levels
      PROVE  /\ <<t, k, a>> \in Holdings /\ <<t, k, a>>[1] = t /\ <<t, k, a>>[2] = k /\ <<t, k, a>>[3] = a
             /\ \A x \in Holdings : x = <<t, k, a>> <=> x[1] = t /\ x[2] = k /\ x[3] = a
  BY DEF Holdings
<1>10. CASE k \notin DOMAIN o
  <2>1. <<t, k, l>> \notin HoldsOf(m)
    BY <1>7, <1>9, <1>10
  <2>2. ASSUME NEW x \in Holdings
        PROVE  x \in HoldsOf(n) <=> x \in HoldsOf(m) \/ x = <<t, k, l>>
    <3>1. CASE x[1] # t
      BY <1>6, <1>9, <3>1
    <3>2. CASE x[1] = t
      <4>1. x \in HoldsOf(n) <=> x[2] \in DOMAIN f /\ f[x[2]] = x[3]
        BY <1>6, <3>2
      <4>2. x \in HoldsOf(m) <=> x[2] \in DOMAIN o /\ o[x[2]] = x[3]
        BY <1>7, <3>2
      <4>3. x = <<t, k, l>> <=> x[2] = k /\ x[3] = l
        BY <1>9, <3>2
      <4> HIDE DEF o
      <4> QED BY ONLY <1>3, <1>10, <4>1, <4>2, <4>3
    <3> QED BY <3>1, <3>2
  <2>3. <<t, k, l>> \in Holdings
    BY <1>9
  <2>4. HoldsOf(n) = HoldsOf(m) \cup {<<t, k, l>>}
    BY ONLY <1>8, <2>2, <2>3
  <2> QED BY <1>6, <1>10, <2>1, <2>4
<1>11. CASE k \in DOMAIN o /\ o[k] # l
  <2>1. <<t, k, l>> \notin HoldsOf(m) /\ o[k] \in Levels /\ <<t, k, o[k]>> \in HoldsOf(m)
    BY <1>4, <1>7, <1>9, <1>11
  <2>2. ASSUME NEW x \in Holdings
        PROVE  x \in HoldsOf(n) <=> (x \in HoldsOf(m) \/ x = <<t, k, l>>) /\ x # <<t, k, o[k]>>
    <3>1. CASE x[1] # t
      BY <1>6, <1>9, <2>1, <3>1
    <3>2. CASE x[1] = t
      <4>1. x \in HoldsOf(n) <=> x[2] \in DOMAIN f /\ f[x[2]] = x[3]
        BY <1>6, <3>2
      <4>2. x \in HoldsOf(m) <=> x[2] \in DOMAIN o /\ o[x[2]] = x[3]
        BY <1>7, <3>2
      <4>3. x = <<t, k, l>> <=> x[2] = k /\ x[3] = l
        BY <1>9, <3>2
      <4>4. x = <<t, k, o[k]>> <=> x[2] = k /\ x[3] = o[k]
        BY <1>9, <2>1, <3>2
      <4> HIDE DEF o
      <4> QED BY ONLY <1>3, <1>11, <4>1, <4>2, <4>3, <4>4
    <3> QED BY <3>1, <3>2
  <2>3. <<t, k, l>> \in Holdings
    BY <1>9
  <2>4. HoldsOf(n) = (HoldsOf(m) \cup {<<t, k, l>>}) \ {<<t, k, o[k]>>}
    BY ONLY <1>8, <2>2, <2>3
  <2> QED BY <1>6, <1>11, <2>1, <2>4
<1> QED BY <1>6, <1>10, <1>11

LEMMA TableWithout ==
  ASSUME NEW m \in Tables, NEW t \in Tabs, NEW k \in DOMAIN m[t], NEW n, n = One(m, t, Without(m[t], k))
  PROVE  /\ n \in Tables /\ k \in Keys /\ m[t][k] \in Levels /\ <<t, k, m[t][k]>> \in HoldsOf(m)
         /\ HoldsOf(n) = HoldsOf(m) \ {<<t, k, m[t][k]>>}
<1> DEFINE f == Without(m[t], k)
           o == m[t]
<1>1. o \in PartialFunctions(Keys, Levels)
  BY DEF Tables
<1>2. f \in PartialFunctions(Keys, Levels)
  BY <1>1, WithoutIsPartial
<1>3. DOMAIN f = DOMAIN o \ {k} /\ \A x \in DOMAIN f : f[x] = o[x]
  <2>1. f = Without(o, k)
    OBVIOUS
  <2> HIDE DEF f, o
  <2> QED BY ONLY <2>1 DEF Without, Restrict
<1>4. k \in Keys /\ o[k] \in Levels /\ k \in DOMAIN o
  BY <1>1, PartialFacts
<1> HIDE DEF f
<1>5. n = One(m, t, f)
  BY DEF f
<1>6. /\ n \in Tables
      /\ \A x \in Holdings : x \in HoldsOf(n) <=>
           IF x[1] = t THEN x[2] \in DOMAIN f /\ f[x[2]] = x[3] ELSE x \in HoldsOf(m)
  BY ONLY <1>2, <1>5, m \in Tables, t \in Tabs, TableMoves
<1>7. \A x \in Holdings : x[1] = t => (x \in HoldsOf(m) <=> x[2] \in DOMAIN o /\ o[x[2]] = x[3])
  BY DEF HoldsOf
<1>8. HoldsOf(m) \subseteq Holdings /\ HoldsOf(n) \subseteq Holdings
  BY DEF HoldsOf
<1> DEFINE y == <<t, k, o[k]>>
<1>9. /\ y \in Holdings /\ y[1] = t /\ y[2] = k /\ y[3] = o[k]
      /\ \A x \in Holdings : x = y <=> x[1] = t /\ x[2] = k /\ x[3] = o[k]
  BY <1>4 DEF Holdings
<1> HIDE DEF y
<1>10. y \in HoldsOf(m)
  BY <1>4, <1>7, <1>9
<1>11. ASSUME NEW x \in Holdings
       PROVE  x \in HoldsOf(n) <=> x \in HoldsOf(m) /\ x # y
  <2>1. CASE x[1] # t
    BY <1>6, <1>9, <2>1
  <2>2. CASE x[1] = t
    <3>1. x \in HoldsOf(n) <=> x[2] \in DOMAIN f /\ f[x[2]] = x[3]
      BY <1>6, <2>2
    <3>2. x \in HoldsOf(m) <=> x[2] \in DOMAIN o /\ o[x[2]] = x[3]
      BY <1>7, <2>2
    <3>3. x = y <=> x[2] = k /\ x[3] = o[k]
      BY <1>9, <2>2
    <3> HIDE DEF o
    <3> QED BY ONLY <1>3, <3>1, <3>2, <3>3
  <2> QED BY <2>1, <2>2
<1>12. HoldsOf(n) = HoldsOf(m) \ {y}
  BY ONLY <1>8, <1>11
<1> QED BY <1>4, <1>6, <1>10, <1>12 DEF y

(* What is remembered after an action that leaves the hub g.               *)
Recall(h, g, ms) ==
  LET new == {m \in (g.pacer.declared \ h.pacer.declared) \X Keys :
                m[2] \in DOMAIN g.held[m[1]] /\ g.held[m[1]][m[2]] = 0}
  IN  {m \in ms \union new : /\ m[1] \in g.pacer.declared \ g.pacer.resent[m[2]]
                             /\ m[2] \in DOMAIN g.held[m[1]]}

Recalled(h, g, ms, u, k) ==
  /\ u \in g.pacer.declared /\ k \in Keys /\ u \notin g.pacer.resent[k] /\ k \in DOMAIN g.held[u]
  /\ <<u, k>> \in ms \/ (u \notin h.pacer.declared /\ g.held[u][k] = 0)

LEMMA RecallFacts ==
  ASSUME NEW h, NEW g, NEW ms, ms \subseteq Users \X Keys, g.pacer.declared \subseteq Users,
         NEW r, r = Recall(h, g, ms)
  PROVE  r \subseteq Users \X Keys /\ \A u, k : Recalled(h, g, ms, u, k) => <<u, k>> \in r
<1> DEFINE d == g.pacer.declared
           c == h.pacer.declared
           new == {m \in (d \ c) \X Keys : m[2] \in DOMAIN g.held[m[1]] /\ g.held[m[1]][m[2]] = 0}
<1>1. r = {m \in ms \cup new : m[1] \in d \ g.pacer.resent[m[2]] /\ m[2] \in DOMAIN g.held[m[1]]}
  BY DEF Recall
<1> HIDE DEF d
<1>2. new \subseteq Users \X Keys
  BY DEF d
<1>3. r \subseteq Users \X Keys
  <2> HIDE DEF new
  <2> QED BY ONLY <1>1, <1>2, ms \subseteq Users \X Keys
<1>4. ASSUME NEW u, NEW k, Recalled(h, g, ms, u, k) PROVE <<u, k>> \in r
  <2>1. /\ u \in d /\ k \in Keys /\ u \notin g.pacer.resent[k] /\ k \in DOMAIN g.held[u]
        /\ <<u, k>> \in ms \/ (u \notin c /\ g.held[u][k] = 0)
    BY <1>4 DEF Recalled, d
  <2>2. CASE <<u, k>> \in ms
    BY <1>1, <2>1, <2>2
  <2>3. CASE <<u, k>> \notin ms
    <3>1. <<u, k>> \in new
      BY <2>1, <2>3
    <3> HIDE DEF new
    <3> QED BY <1>1, <2>1, <3>1
  <2> QED BY <2>2, <2>3
<1> QED BY <1>3, <1>4

LEMMA RecallsBy ==
  ASSUME Remember
  PROVE  missed' = Recall(hub, hub', missed)
BY DEF Remember, Recall

(* An action after which nobody has lost the progress of a key.            *)
LEMMA SoundBy ==
  ASSUME NEW m, NEW h, NEW ms, Sound(m, h, ms), NEW n \in Tables, NEW g, Good(g, HoldsOf(n)),
         Informs(h, g), NEW r, r = Recall(h, g, ms)
  PROVE  Sound(n, g, r)
<1>1. ms \subseteq Users \X Keys /\ Informed(h, ms) /\ Same(h.pacer, g.pacer)
  BY DEF Sound, Informs
<1>2. g.pacer.declared \subseteq Users
  BY PacerFields DEF Good, Orderly
<1>3. r \subseteq Users \X Keys /\ \A u, k : Recalled(h, g, ms, u, k) => <<u, k>> \in r
  BY ONLY <1>1, <1>2, r = Recall(h, g, ms), RecallFacts
<1>4. ASSUME g.pacer.ready, NEW u \in g.pacer.declared, NEW k \in Keys, k \in DOMAIN g.held[u],
             ~Promised(g.pacer, u, k)
      PROVE  <<u, k>> \in r
  <2>1. h.pacer.ready /\ u \in h.pacer.declared
    BY <1>1, <1>4 DEF Same
  <2>2. k \in DOMAIN h.held[u] /\ ~Promised(h.pacer, u, k)
    BY <1>4, <2>1 DEF Informs, InformsAt
  <2>3. <<u, k>> \in ms
    BY <1>1, <2>1, <2>2 DEF Informed
  <2>4. Recalled(h, g, ms, u, k)
    BY <1>4, <2>3 DEF Recalled, Promised
  <2> QED BY <1>3, <2>4
<1>5. Informed(g, r)
  BY <1>4 DEF Informed
<1> QED BY <1>3, <1>5 DEF Sound

(* A step of the pacer alone that keeps what each key is asked for.        *)
LEMMA PacerSteps ==
  ASSUME NEW h, NEW H, Good(h, H), NEW g, Frame(h, g), Same(h.pacer, g.pacer), Orderly(g.pacer),
         \A x \in Keys : Keeps(h.pacer, g.pacer, x),
         h.pacer.ready => Awake(g.pacer),
         ~h.pacer.ready => \A x \in Keys : g.pacer.sent[x] = h.pacer.sent[x]
  PROVE  Good(g, H) /\ Informs(h, g)
<1>1. Books(g, H) /\ \A k : Wanted(g, k) = Wanted(h, k)
  BY FrameBooks DEF Good
<1>2. ASSUME NEW x \in Keys, AgreesAt(h, x) PROVE AgreesAt(g, x)
  BY <1>1, <1>2, AgreesKept DEF Frame
<1>3. Good(g, H)
  BY <1>1, <1>2 DEF Good, Agrees, Same
<1>4. Informs(h, g)
  BY DEF Informs, InformsAt, Frame, Keeps
<1> QED BY <1>3, <1>4

-----------------------------------------------------------------------------
(* The actions keep it.                                                    *)
LEMMA OwnerFacts ==
  ASSUME NEW t \in Tabs
  PROVE  Owner[t] \in Users
BY OwnerAssumption

LEMMA TabSubscribesSound ==
  ASSUME IInv, NEW t \in Tabs, NEW k \in Keys, NEW l \in Levels, TabSubscribes(t, k, l)
  PROVE  IInv'
<1> DEFINE u    == Owner[t]
           next == HubSubscribe(hub, u, k, l)
           H    == HoldsOf(tab)
           o    == tab[t][k]
<1>1. tab \in Tables /\ Good(hub, H)
  BY DEF IInv, Sound
<1>2. /\ k \in DOMAIN tab[t] => o # l
      /\ Verdict(hub, u, k) = "ok"
      /\ tab' = One(tab, t, Set(tab[t], k, l))
      /\ hub' = IF k \in DOMAIN tab[t] THEN HubUnsubscribe(next, u, k, o) ELSE next
      /\ missed' = Recall(hub, hub', missed)
  BY RecallsBy DEF TabSubscribes, One
<1>3. /\ tab' \in Tables
      /\ k \notin DOMAIN tab[t] => <<t, k, l>> \notin H /\ HoldsOf(tab') = H \cup {<<t, k, l>>}
      /\ k \in DOMAIN tab[t] /\ o # l =>
           /\ <<t, k, l>> \notin H /\ o \in Levels /\ <<t, k, o>> \in H
           /\ HoldsOf(tab') = (H \cup {<<t, k, l>>}) \ {<<t, k, o>>}
  BY ONLY <1>1, <1>2, t \in Tabs, k \in Keys, l \in Levels, TableSet
<1>4. next = HubSubscribe(hub, u, k, l) /\ u = Owner[t]
  OBVIOUS
<1> HIDE DEF next, u, o, H
<1>5. <<t, k, l>> \notin H
  BY <1>2, <1>3
<1> DEFINE G == H \cup {<<t, k, l>>}
<1>g. G = H \cup {<<t, k, l>>}
  OBVIOUS
<1> HIDE DEF G
<1>6. Good(next, G) /\ Informs(hub, next)
  BY ONLY <1>1, <1>2, <1>4, <1>5, <1>g, t \in Tabs, k \in Keys, l \in Levels, HubSubscribeGood
<1>7. Good(hub', HoldsOf(tab')) /\ Informs(hub, hub')
  <2>1. CASE k \notin DOMAIN tab[t]
    BY <1>2, <1>3, <1>6, <1>g, <2>1
  <2>2. CASE k \in DOMAIN tab[t]
    <3>1. o \in Levels /\ <<t, k, o>> \in G /\ HoldsOf(tab') = G \ {<<t, k, o>>}
      BY <1>2, <1>3, <1>g, <2>2
    <3>2. hub' = HubUnsubscribe(next, u, k, o)
      BY <1>2, <2>2
    <3>3. Good(hub', HoldsOf(tab')) /\ Informs(next, hub')
      BY ONLY <1>4, <1>6, <3>1, <3>2, t \in Tabs, k \in Keys, HubUnsubscribeGood
    <3> QED BY ONLY <1>6, <3>3, InformsTrans
  <2> QED BY <2>1, <2>2
<1> QED BY <1>2, <1>3, <1>7, SoundBy DEF IInv

LEMMA TabUnsubscribesSound ==
  ASSUME IInv, NEW t \in Tabs, NEW k \in Keys, TabUnsubscribes(t, k)
  PROVE  IInv'
<1> DEFINE u == Owner[t]
           H == HoldsOf(tab)
           o == tab[t][k]
<1>1. tab \in Tables /\ Good(hub, H)
  BY DEF IInv, Sound
<1>2. /\ k \in DOMAIN tab[t] /\ tab' = One(tab, t, Without(tab[t], k))
      /\ hub' = HubUnsubscribe(hub, u, k, o) /\ missed' = Recall(hub, hub', missed)
  BY RecallsBy DEF TabUnsubscribes, One
<1>3. tab' \in Tables /\ o \in Levels /\ <<t, k, o>> \in H /\ HoldsOf(tab') = H \ {<<t, k, o>>}
  BY ONLY <1>1, <1>2, t \in Tabs, TableWithout
<1>4. u = Owner[t]
  OBVIOUS
<1> HIDE DEF u, o, H
<1>5. Good(hub', HoldsOf(tab')) /\ Informs(hub, hub')
  BY ONLY <1>1, <1>2, <1>3, <1>4, t \in Tabs, k \in Keys, HubUnsubscribeGood
<1> QED BY <1>2, <1>3, <1>5, SoundBy DEF IInv

LEMMA TableEmpty ==
  ASSUME tab \in Tables, NEW t \in Tabs, NEW n, n = One(tab, t, Empty)
  PROVE  /\ n \in Tables /\ HoldsOf(n) = HoldsOf(tab) \ Given(t, DOMAIN tab[t])
         /\ \A k \in DOMAIN tab[t] : <<t, k, tab[t][k]>> \in HoldsOf(tab)
<1> DEFINE o == tab[t]
           D == Given(t, DOMAIN o)
<1>1. Empty \in PartialFunctions(Keys, Levels) /\ DOMAIN Empty = {}
  <2>1. Empty \in [{} -> Levels] /\ {} \in SUBSET Keys
    BY DEF Empty
  <2> QED BY <2>1 DEF PartialFunctions
<1>2. /\ n \in Tables
      /\ \A x \in Holdings : x \in HoldsOf(n) <=>
           IF x[1] = t THEN x[2] \in DOMAIN Empty /\ Empty[x[2]] = x[3] ELSE x \in HoldsOf(tab)
  BY <1>1, TableMoves
<1>3. o \in PartialFunctions(Keys, Levels)
  BY DEF Tables
<1>4. DOMAIN o \subseteq Keys /\ \A x \in DOMAIN o : o[x] \in Levels
  BY <1>3, PartialFacts
<1>5. HoldsOf(tab) \subseteq Holdings /\ HoldsOf(n) \subseteq Holdings
  BY DEF HoldsOf
<1>6. \A x \in Holdings : x[1] = t => (x \in HoldsOf(tab) <=> x[2] \in DOMAIN o /\ o[x[2]] = x[3])
  BY DEF HoldsOf
<1>7. ASSUME NEW k \in DOMAIN o PROVE <<t, k, o[k]>> \in HoldsOf(tab)
  <2>1. <<t, k, o[k]>> \in Holdings
    BY <1>4 DEF Holdings
  <2> QED BY ONLY <1>6, <2>1, <1>7
<1>8. ASSUME NEW x \in Holdings PROVE x \in D <=> x[1] = t /\ x \in HoldsOf(tab)
  <2>1. x = <<x[1], x[2], x[3]>>
    BY DEF Holdings
  <2>2. x \in D <=> \E k \in DOMAIN o : x = <<t, k, o[k]>>
    BY DEF Given
  <2>3. x \in D <=> x[1] = t /\ x[2] \in DOMAIN o /\ o[x[2]] = x[3]
    <3> HIDE DEF o, D
    <3> QED BY <2>1, <2>2
  <2> QED BY <1>6, <2>3
<1> HIDE DEF o, D
<1>9. ASSUME NEW x \in Holdings PROVE x \in HoldsOf(n) <=> x \in HoldsOf(tab) /\ x \notin D
  BY <1>1, <1>2, <1>8
<1>10. HoldsOf(n) = HoldsOf(tab) \ D
  BY ONLY <1>5, <1>9
<1> QED BY <1>2, <1>7, <1>10 DEF o, D

LEMMA TabClosesSound ==
  ASSUME IInv, NEW t \in Tabs, TabCloses(t)
  PROVE  IInv'
<1>1. tab \in Tables /\ Good(hub, HoldsOf(tab)) /\ tab[t] \in PartialFunctions(Keys, Levels)
  BY DEF IInv, Sound, Tables
<1>2. tab' = One(tab, t, Empty) /\ missed' = Recall(hub, hub', missed)
  BY RecallsBy DEF TabCloses, One
<1>3. /\ tab' \in Tables /\ HoldsOf(tab') = HoldsOf(tab) \ Given(t, DOMAIN tab[t])
      /\ \A k \in DOMAIN tab[t] : <<t, k, tab[t][k]>> \in HoldsOf(tab)
  BY ONLY <1>1, <1>2, t \in Tabs, TableEmpty
<1>4. Good(hub', HoldsOf(tab) \ Given(t, DOMAIN tab[t])) /\ Informs(hub, hub')
  BY <1>1, <1>3, TabClosesGood
<1> QED BY <1>2, <1>3, <1>4, SoundBy DEF IInv

LEMMA LingerEndsSound ==
  ASSUME IInv, LingerEnds
  PROVE  IInv'
<1> DEFINE k == hub.linger[1].key
<1>1. tab \in Tables /\ Good(hub, HoldsOf(tab)) /\ hub.linger \in Seq(Entries)
  BY DEF IInv, Sound, Good, Books, Shape
<1>2. /\ hub.linger # <<>> /\ hub' = ReleaseKey(hub, k, TRUE)
      /\ tab' = tab /\ missed' = Recall(hub, hub', missed)
  BY RecallsBy DEF LingerEnds
<1>3. k \in Lingering(hub)
  BY <1>1, <1>2 DEF Lingering, KeysIn
<1> HIDE DEF k
<1>4. Good(hub', HoldsOf(tab)) /\ Informs(hub, hub')
  BY ONLY <1>1, <1>2, <1>3, ReleaseGood
<1> QED BY <1>1, <1>2, <1>4, SoundBy DEF IInv

LEMMA AnsweredSound ==
  ASSUME IInv, NEW k \in Keys, Answered(k)
  PROVE  IInv'
<1> DEFINE q == OnResponse(hub.pacer, k)
<1>1. tab \in Tables /\ Good(hub, HoldsOf(tab)) /\ Shape(hub) /\ Orderly(hub.pacer)
  BY DEF IInv, Sound, Good, Books
<1>2. /\ hub.pacer.ready /\ hub' = [hub EXCEPT !.pacer = q]
      /\ tab' = tab /\ missed' = Recall(hub, hub', missed)
  BY RecallsBy DEF Answered
<1>3. Orderly(q) /\ Same(hub.pacer, q) /\ (\A x \in Keys : Keeps(hub.pacer, q, x)) /\ Awake(q)
  BY <1>1, <1>2, ResponseFacts
<1> HIDE DEF q
<1>4. Frame(hub, hub') /\ hub'.pacer = q
  BY ONLY <1>1, <1>2, WithPacer
<1>5. Good(hub', HoldsOf(tab)) /\ Informs(hub, hub')
  BY <1>1, <1>2, <1>3, <1>4, PacerSteps
<1> QED BY <1>1, <1>2, <1>5, SoundBy DEF IInv

LEMMA DeadlinePassesSound ==
  ASSUME IInv, NEW k \in Keys, DeadlinePasses(k)
  PROVE  IInv'
<1> DEFINE q == Overdue(hub.pacer, k)
<1>1. tab \in Tables /\ Good(hub, HoldsOf(tab)) /\ Shape(hub) /\ Orderly(hub.pacer) /\ Agrees(hub)
  BY DEF IInv, Sound, Good, Books
<1>2. /\ hub.pacer.flying[k] = "fresh" /\ hub' = [hub EXCEPT !.pacer = q]
      /\ tab' = tab /\ missed' = Recall(hub, hub', missed)
  BY RecallsBy DEF DeadlinePasses
<1>3. /\ Orderly(q) /\ Same(hub.pacer, q) /\ (\A x \in Keys : Keeps(hub.pacer, q, x))
      /\ (Awake(hub.pacer) => Awake(q)) /\ q.sent = hub.pacer.sent
  BY <1>1, <1>2, OverdueFacts
<1> HIDE DEF q
<1>4. Frame(hub, hub') /\ hub'.pacer = q
  BY ONLY <1>1, <1>2, WithPacer
<1>5. hub.pacer.ready => Awake(q)
  BY <1>1, <1>3 DEF Agrees
<1>6. Good(hub', HoldsOf(tab)) /\ Informs(hub, hub')
  BY <1>1, <1>3, <1>4, <1>5, PacerSteps
<1> QED BY <1>1, <1>2, <1>6, SoundBy DEF IInv

LEMMA TimerFiresSound ==
  ASSUME IInv, TimerFires
  PROVE  IInv'
<1> DEFINE q == OnTimer(hub.pacer)
<1>1. tab \in Tables /\ Good(hub, HoldsOf(tab)) /\ Shape(hub) /\ Orderly(hub.pacer)
  BY DEF IInv, Sound, Good, Books
<1>2. hub' = [hub EXCEPT !.pacer = q] /\ tab' = tab /\ missed' = Recall(hub, hub', missed)
  BY RecallsBy DEF TimerFires
<1>3. /\ Orderly(q) /\ Same(hub.pacer, q) /\ (\A x \in Keys : Keeps(hub.pacer, q, x))
      /\ hub.pacer.ready => Awake(q)
      /\ ~hub.pacer.ready => \A x \in Keys : q.sent[x] = hub.pacer.sent[x]
  BY <1>1, TimerFacts
<1> HIDE DEF q
<1>4. Frame(hub, hub') /\ hub'.pacer = q
  BY ONLY <1>1, <1>2, WithPacer
<1>5. Good(hub', HoldsOf(tab)) /\ Informs(hub, hub')
  BY <1>1, <1>3, <1>4, PacerSteps
<1> QED BY <1>1, <1>2, <1>5, SoundBy DEF IInv

(* The sessions and the connection change the fields of the pacer that say *)
(* who is declared and whether anything goes out at all.                   *)
LEMMA DeclareFacts ==
  ASSUME NEW p, Orderly(p), NEW u \in Users, NEW q, q = Declare(p, u)
  PROVE  /\ Orderly(q) /\ q.ready = p.ready /\ q.declared = p.declared \cup {u} /\ Queued(q) = Queued(p)
         /\ \A k, l : Asks(q, k, l) <=> Asks(p, k, l)
         /\ \A k : (Free(q, k) <=> Free(p, k)) /\ q.sent[k] = p.sent[k] /\ q.resent[k] = p.resent[k]
         /\ Awake(q) <=> Awake(p)
<1>1. /\ p \in Pacers /\ p.declared \cup {u} \in SUBSET Users
  BY PacerFields DEF Orderly
<1>2. /\ q \in Pacers /\ q.ready = p.ready /\ q.declared = p.declared \cup {u} /\ q.queue = p.queue
      /\ q.flying = p.flying /\ q.timer = p.timer /\ q.sent = p.sent /\ q.resent = p.resent
  BY <1>1 DEF Pacers, Declare
<1>3. Orderly(q)
  BY <1>2, OrderlySame
<1> QED BY <1>2, <1>3 DEF Queued, Asks, Free, Awake

LEMMA LeaveFacts ==
  ASSUME NEW p, Orderly(p), NEW u, NEW q, q = Leave(p, u)
  PROVE  /\ Orderly(q) /\ q.ready = p.ready /\ q.declared = p.declared \ {u} /\ Queued(q) = Queued(p)
         /\ \A k, l : Asks(q, k, l) <=> Asks(p, k, l)
         /\ \A k : (Free(q, k) <=> Free(p, k)) /\ q.sent[k] = p.sent[k]
         /\ \A k \in Keys : q.resent[k] = p.resent[k] \ {u}
         /\ Awake(q) <=> Awake(p)
<1> DEFINE z == [k \in Keys |-> p.resent[k] \ {u}]
           d == p.declared \ {u}
<1>1. p \in Pacers /\ d \in SUBSET Users /\ z \in [Keys -> SUBSET Users]
  BY PacerFields DEF Orderly
<1>z. q = [p EXCEPT !.declared = d, !.resent = z] /\ \A k \in Keys : z[k] = p.resent[k] \ {u}
  BY DEF Leave
<1> HIDE DEF z, d
<1>2. /\ q \in Pacers /\ q.ready = p.ready /\ q.declared = d /\ q.queue = p.queue
      /\ q.flying = p.flying /\ q.timer = p.timer /\ q.sent = p.sent /\ q.resent = z
  BY ONLY <1>1, <1>z DEF Pacers
<1>3. Queued(q) = Queued(p) /\ InFlight(q) = InFlight(p)
  BY <1>2 DEF Queued, InFlight
<1>4. Orderly(q)
  BY <1>2, <1>3 DEF Orderly
<1> QED BY <1>2, <1>3, <1>4, <1>z DEF Asks, Free, Awake, d

(* The hub with a pacer that asks the gateway for the same.                *)
LEMMA SamePacer ==
  ASSUME NEW h, NEW H, Good(h, H), NEW g, Books(g, H), g.refs = h.refs, g.linger = h.linger,
         Orderly(g.pacer), g.pacer.ready = h.pacer.ready,
         \A k, l : Asks(g.pacer, k, l) <=> Asks(h.pacer, k, l),
         \A k : (Free(g.pacer, k) <=> Free(h.pacer, k)) /\ g.pacer.sent[k] = h.pacer.sent[k],
         Awake(g.pacer) <=> Awake(h.pacer)
  PROVE  Good(g, H)
<1>1. \A k : Wanted(g, k) = Wanted(h, k)
  BY DEF Wanted, Lingering, LingerLevel
<1>2. \A k \in Keys : AgreesAt(h, k) => AgreesAt(g, k)
  BY <1>1 DEF AgreesAt
<1> QED BY <1>2 DEF Good, Agrees

LEMMA SessionReadySound ==
  ASSUME IInv, NEW u \in Users, SessionReady(u)
  PROVE  IInv'
<1> DEFINE q == Declare(hub.pacer, u)
           h == [hub EXCEPT !.pacer = q]
           H == HoldsOf(tab)
<1>1. /\ tab \in Tables /\ Good(hub, H) /\ Books(hub, H) /\ Shape(hub) /\ Orderly(hub.pacer)
      /\ missed \subseteq Users \X Keys /\ Informed(hub, missed)
  BY DEF IInv, Sound, Good, Books
<1>2. /\ u \notin hub.pacer.declared /\ hub' = NudgeHeld(h, u)
      /\ tab' = tab /\ missed' = Recall(hub, hub', missed)
  <2>1. u \notin hub.pacer.declared /\ tab' = tab /\ Remember
    BY DEF SessionReady
  <2>2. hub' = NudgeHeld(h, u)
    BY DEF SessionReady
  <2>3. missed' = Recall(hub, hub', missed)
    BY ONLY <2>1, RecallsBy
  <2> QED BY ONLY <2>1, <2>2, <2>3
<1>3. /\ Orderly(q) /\ q.ready = hub.pacer.ready /\ q.declared = hub.pacer.declared \cup {u}
      /\ Queued(q) = Queued(hub.pacer)
      /\ \A k, l : Asks(q, k, l) <=> Asks(hub.pacer, k, l)
      /\ \A k : /\ Free(q, k) <=> Free(hub.pacer, k)
                /\ q.sent[k] = hub.pacer.sent[k] /\ q.resent[k] = hub.pacer.resent[k]
      /\ Awake(q) <=> Awake(hub.pacer)
  BY ONLY <1>1, u \in Users, DeclareFacts
<1>h. h = [hub EXCEPT !.pacer = q]
  OBVIOUS
<1> HIDE DEF q, h, H
<1>4. Frame(hub, h) /\ h.pacer = q
  BY ONLY <1>1, <1>h, WithPacer
<1>5. Good(h, H)
  <2>1. Books(h, H) /\ h.refs = hub.refs /\ h.linger = hub.linger
    BY <1>1, <1>4, FrameBooks DEF Frame
  <2> QED BY ONLY <1>1, <1>3, <1>4, <2>1, SamePacer
<1>6. Nudged(h, H, Kept(h, u), hub')
  BY ONLY <1>2, <1>5, u \in Users, AllNudged
<1>7. /\ Good(hub', H) /\ hub'.held = hub.held /\ hub'.pacer.ready = hub.pacer.ready
      /\ hub'.pacer.declared = hub.pacer.declared \cup {u}
      /\ hub.pacer.ready => \A v \in hub.pacer.declared \cup {u}, k \in Keys :
           Promised(hub.pacer, v, k) \/ k \in Kept(h, u) => Promised(hub'.pacer, v, k)
  <2>1. \A v, k : Promised(q, v, k) <=> Promised(hub.pacer, v, k)
    BY <1>3 DEF Promised
  <2> QED BY <1>3, <1>4, <1>6, <2>1 DEF Nudged, Frame, Same
<1>8. missed' \subseteq Users \X Keys /\ \A v, k : Recalled(hub, hub', missed, v, k) => <<v, k>> \in missed'
  <2>1. hub'.pacer.declared \subseteq Users
    BY <1>7, PacerFields DEF Good, Orderly
  <2> QED BY ONLY <1>1, <1>2, <2>1, RecallFacts
<1>9. ASSUME hub.pacer.ready, NEW v \in hub'.pacer.declared, NEW k \in Keys, k \in DOMAIN hub'.held[v],
             ~Promised(hub'.pacer, v, k)
      PROVE  <<v, k>> \in missed'
  <2>1. ~Promised(hub.pacer, v, k) /\ k \notin Kept(h, u) /\ v \notin hub'.pacer.resent[k]
    BY <1>7, <1>9 DEF Promised
  <2>2. CASE v \in hub.pacer.declared
    <3>1. <<v, k>> \in missed
      BY <1>1, <1>7, <1>9, <2>1, <2>2 DEF Informed
    <3>2. Recalled(hub, hub', missed, v, k)
      BY <1>9, <2>1, <3>1 DEF Recalled
    <3> QED BY <1>8, <3>2
  <2>3. CASE v \notin hub.pacer.declared
    <3>1. v = u
      BY <1>7, <1>9, <2>3
    <3>2. hub'.held[v][k] = 0
      <4>1. k \in DOMAIN h.held[u] /\ h.held[u][k] = hub'.held[v][k]
        BY <1>4, <1>7, <1>9, <3>1 DEF Frame
      <4>2. h.held[u][k] \in Nat
        BY <1>5, <4>1, ShapeFacts DEF Good, Books
      <4>3. ~(h.held[u][k] > 0)
        BY <2>1, <4>1 DEF Kept
      <4> QED BY ONLY <4>1, <4>2, <4>3
    <3>3. Recalled(hub, hub', missed, v, k)
      BY <1>9, <2>1, <2>3, <3>2 DEF Recalled
    <3> QED BY <1>8, <3>3
  <2> QED BY <2>2, <2>3
<1>10. Informed(hub', missed')
  BY <1>7, <1>9 DEF Informed
<1> QED BY <1>1, <1>2, <1>7, <1>8, <1>10 DEF IInv, Sound, H

LEMMA FeedDownSound ==
  ASSUME IInv, FeedDown
  PROVE  IInv'
<1> DEFINE p == hub.pacer
           z == [k \in Keys |-> "none"]
           q == [p EXCEPT !.ready = FALSE, !.sent = z]
           H == HoldsOf(tab)
<1>1. /\ tab \in Tables /\ Good(hub, H) /\ Books(hub, H) /\ Shape(hub) /\ Orderly(p)
      /\ missed \subseteq Users \X Keys
  BY DEF IInv, Sound, Good, Books
<1>2. hub' = [hub EXCEPT !.pacer = q] /\ tab' = tab /\ missed' = Recall(hub, hub', missed)
  BY RecallsBy DEF FeedDown
<1>3. z \in [Keys -> {"none"} \cup Levels] /\ \A k \in Keys : z[k] = "none"
  OBVIOUS
<1>q. q = [p EXCEPT !.ready = FALSE, !.sent = z]
  OBVIOUS
<1> HIDE DEF p, q, z, H
<1>4. /\ q \in Pacers /\ q.ready = FALSE /\ q.sent = z /\ q.queue = p.queue /\ q.flying = p.flying
      /\ q.declared = p.declared
  <2>1. p \in Pacers
    BY <1>1 DEF Orderly
  <2> QED BY ONLY <2>1, <1>3, <1>q DEF Pacers
<1>5. Orderly(q)
  <2>1. Queued(q) = Queued(p) /\ InFlight(q) = InFlight(p) /\ Queued(p) \subseteq Keys
    BY <1>1, <1>4, QueuedKeys DEF Queued, InFlight, Orderly
  <2> QED BY <1>1, <1>3, <1>4, <2>1 DEF Orderly
<1>6. Frame(hub, hub') /\ hub'.pacer = q
  BY ONLY <1>1, <1>2, WithPacer
<1>7. Good(hub', H)
  <2>1. Books(hub', H)
    BY <1>1, <1>6, FrameBooks
  <2> QED BY <1>3, <1>4, <1>5, <1>6, <2>1 DEF Good, Agrees
<1>8. missed' \subseteq Users \X Keys
  <2>1. hub'.pacer.declared \subseteq Users
    BY <1>4, <1>6, PacerFields
  <2> QED BY ONLY <1>1, <1>2, <2>1, RecallFacts
<1>9. Informed(hub', missed')
  BY <1>4, <1>6 DEF Informed
<1> QED BY <1>1, <1>2, <1>7, <1>8, <1>9 DEF IInv, Sound, H

(* A session that is replaced: what its user held and left is forgotten.   *)
LEMMA SessionReplacedSound ==
  ASSUME IInv, NEW u \in Users, SessionReplaced(u)
  PROVE  IInv'
<1> DEFINE p == hub.pacer
           o == hub.held[u]
           f == Restrict(o, {k \in DOMAIN o : o[k] > 0})
           q == Leave(p, u)
           d == One(hub.held, u, f)
           H == HoldsOf(tab)
<1>1. /\ tab \in Tables /\ Good(hub, H) /\ Books(hub, H) /\ Shape(hub) /\ Orderly(p)
      /\ missed \subseteq Users \X Keys /\ Informed(hub, missed)
  BY DEF IInv, Sound, Good, Books
<1>2. /\ hub' = [hub EXCEPT !.held[u] = f, !.pacer = q]
      /\ tab' = tab /\ missed' = Recall(hub, hub', missed)
  BY RecallsBy DEF SessionReplaced
<1>3. /\ Orderly(q) /\ q.ready = p.ready /\ q.declared = p.declared \ {u} /\ Queued(q) = Queued(p)
      /\ \A k, l : Asks(q, k, l) <=> Asks(p, k, l)
      /\ \A k : (Free(q, k) <=> Free(p, k)) /\ q.sent[k] = p.sent[k]
      /\ \A k \in Keys : q.resent[k] = p.resent[k] \ {u}
      /\ Awake(q) <=> Awake(p)
  BY ONLY <1>1, LeaveFacts
<1>4. /\ o \in PartialFunctions(Keys, Nat) /\ hub.held \in [Users -> PartialFunctions(Keys, Nat)]
      /\ DOMAIN o \subseteq DOMAIN hub.refs
  BY <1>1 DEF Shape
<1>5. /\ DOMAIN f \subseteq DOMAIN o /\ \A k \in DOMAIN f : f[k] = o[k]
      /\ \A k \in DOMAIN o : k \notin DOMAIN f => o[k] = 0
  <2>1. \A k \in DOMAIN o : o[k] \in Nat
    BY <1>4, PartialFacts
  <2> HIDE DEF o
  <2> QED BY ONLY <2>1 DEF Restrict
<1>6. f \in PartialFunctions(Keys, Nat)
  <2> DEFINE D == {k \in DOMAIN o : o[k] > 0}
  <2>1. f = Restrict(o, DOMAIN o \cap D)
    <3>1. DOMAIN o \cap D = D
      OBVIOUS
    <3> QED BY <3>1
  <2> HIDE DEF D, f, o
  <2> QED BY ONLY <1>4, <2>1, PartialWithout
<1>7. hub = HubOf(hub.refs, hub.held, hub.active, hub.linger, hub.pacer)
  BY <1>1 DEF Shape, IsRecord
<1>d. d = [hub.held EXCEPT ![u] = f]
  BY DEF One
<1> HIDE DEF q, f, d, H
<1>8. hub' = HubOf(hub.refs, d, hub.active, hub.linger, q)
  <2> DEFINE r == hub.refs
             e == hub.held
             a == hub.active
             g == hub.linger
  <2>1. hub = HubOf(r, e, a, g, p) /\ d = [e EXCEPT ![u] = f]
    BY ONLY <1>7, <1>d
  <2> HIDE DEF r, e, a, g, p
  <2>2. hub' = HubOf(r, d, a, g, q)
    BY ONLY <1>2, <2>1 DEF HubOf
  <2> QED BY ONLY <2>2 DEF r, a, g
<1>9. /\ hub'.refs = hub.refs /\ hub'.held = d /\ hub'.active = hub.active
      /\ hub'.linger = hub.linger /\ hub'.pacer = q /\ IsRecord(hub')
  BY ONLY <1>8, RecordFacts
<1>10. /\ d \in [Users -> PartialFunctions(Keys, Nat)] /\ d[u] = f
       /\ \A v \in Users : v # u => d[v] = hub.held[v]
  BY ONLY <1>4, <1>6, <1>d
<1>11. ASSUME NEW v \in Users
       PROVE  DOMAIN d[v] \subseteq DOMAIN hub.held[v] /\ \A k : HeldBy(hub', v, k) = HeldBy(hub, v, k)
  <2>1. CASE v # u
    BY <1>9, <1>10, <2>1 DEF HeldBy
  <2>2. CASE v = u
    <3>1. d[v] = f /\ hub.held[v] = o
      BY <1>10, <2>2
    <3>2. ASSUME NEW k PROVE HeldBy(hub', v, k) = HeldBy(hub, v, k)
      <4>1. HeldBy(hub', v, k) = IF k \in DOMAIN f THEN f[k] ELSE 0
        BY <1>9, <3>1 DEF HeldBy
      <4>2. HeldBy(hub, v, k) = IF k \in DOMAIN o THEN o[k] ELSE 0
        BY <3>1 DEF HeldBy
      <4> HIDE DEF o
      <4> QED BY ONLY <1>5, <4>1, <4>2
    <3> QED BY <1>5, <3>1, <3>2
  <2> QED BY <2>1, <2>2
<1>12. Shape(hub')
  BY <1>1, <1>9, <1>10, <1>11 DEF Shape
<1>13. Books(hub', H)
  <2>1. Lingers(hub')
    BY <1>1, <1>9 DEF Books, Lingers, Lingering
  <2>2. Counted(hub', H)
    BY <1>1, <1>9, <1>11 DEF Books, Counted
  <2> QED BY <1>1, <1>12, <2>1, <2>2 DEF Books
<1>14. Good(hub', H)
  BY <1>1, <1>3, <1>9, <1>13, SamePacer
<1>15. missed' \subseteq Users \X Keys /\ \A v, k : Recalled(hub, hub', missed, v, k) => <<v, k>> \in missed'
  <2>1. hub'.pacer.declared \subseteq Users
    BY <1>3, <1>9, PacerFields DEF Orderly
  <2> QED BY ONLY <1>1, <1>2, <2>1, RecallFacts
<1>16. ASSUME hub'.pacer.ready, NEW v \in hub'.pacer.declared, NEW k \in Keys, k \in DOMAIN hub'.held[v],
              ~Promised(hub'.pacer, v, k)
       PROVE  <<v, k>> \in missed'
  <2>1. /\ hub.pacer.ready /\ v \in hub.pacer.declared /\ v # u /\ v \in Users
        /\ v \notin hub'.pacer.resent[k] /\ k \notin Queued(p)
    <3>1. p.declared \subseteq Users
      BY <1>1, PacerFields DEF Orderly
    <3> QED BY <1>3, <1>9, <1>16, <3>1 DEF Promised
  <2>2. ~Promised(p, v, k)
    BY <1>3, <1>9, <2>1 DEF Promised
  <2>3. k \in DOMAIN hub.held[v]
    BY <1>9, <1>11, <1>16, <2>1
  <2>4. <<v, k>> \in missed
    BY <1>1, <2>1, <2>2, <2>3 DEF Informed
  <2>5. Recalled(hub, hub', missed, v, k)
    BY <1>16, <2>1, <2>4 DEF Recalled
  <2> QED BY <1>15, <2>5
<1>17. Informed(hub', missed')
  BY <1>16 DEF Informed
<1> QED BY <1>1, <1>2, <1>14, <1>15, <1>17 DEF IInv, Sound, H

(* The connection is ready again: nothing of the old one is left.          *)
LEMMA FeedReadySound ==
  ASSUME IInv, FeedReady
  PROVE  IInv'
<1> DEFINE p  == hub.pacer
           p1 == [p EXCEPT !.ready = TRUE]
           h1 == [hub EXCEPT !.pacer = p1]
           p2 == Reset(p1)
           h2 == [h1 EXCEPT !.pacer = p2]
           h3 == ReleaseLingering(h2)
           h4 == SendAll(h3)
           q  == TrackUntilIdle(h4.pacer)
           H  == HoldsOf(tab)
<1>1. /\ tab \in Tables /\ Good(hub, H) /\ Books(hub, H) /\ Shape(hub) /\ Orderly(p) /\ Agrees(hub)
      /\ missed \subseteq Users \X Keys
  BY DEF IInv, Sound, Good, Books
<1>2. ~p.ready /\ hub' = ResubscribeAll(h1) /\ tab' = tab /\ missed' = Recall(hub, hub', missed)
  BY RecallsBy DEF FeedReady
<1>3. h1.pacer = p1 /\ Frame(hub, h1)
  <2>1. h1 = [hub EXCEPT !.pacer = p1]
    OBVIOUS
  <2> HIDE DEF h1, p1
  <2> QED BY ONLY <1>1, <2>1, WithPacer
<1>4. hub' = [h4 EXCEPT !.pacer = q]
  <2>1. h1.pacer = p1 /\ hub' = ResubscribeAll(h1)
    BY <1>2, <1>3
  <2> HIDE DEF h1, p1
  <2> QED BY <2>1 DEF ResubscribeAll
<1>5. p1 \in Pacers /\ p1.ready /\ p1.queue = p.queue /\ p1.flying = p.flying /\ p1.sent = p.sent /\ p1.resent = p.resent
  BY <1>1 DEF Orderly, Pacers
<1>6. Orderly(p1)
  <2> HIDE DEF p1
  <2> QED BY <1>1, <1>5, OrderlySame
<1>7. Orderly(p2) /\ Same(p1, p2) /\ p2.sent = p1.sent /\ Awake(p2) /\ \A k \in Keys : Free(p2, k)
  <2> HIDE DEF p1
  <2> QED BY <1>6, ResetFacts
<1>8. Frame(h1, h2) /\ h2.pacer = p2
  <2>1. Shape(h1) /\ h2 = [h1 EXCEPT !.pacer = p2]
    BY <1>1, <1>3, FrameBooks DEF Books
  <2> HIDE DEF h1, h2, p2
  <2> QED BY ONLY <2>1, WithPacer
<1>n. h3 = ReleaseLingering(h2) /\ h4 = SendAll(h3) /\ q = TrackUntilIdle(h4.pacer)
  OBVIOUS
<1> HIDE DEF p1, h1, p2, h2, h3, h4, q, H
<1>9. Books(h2, H) /\ h2.pacer.ready
  <2>1. Frame(hub, h2)
    BY <1>3, <1>8, FrameTrans
  <2> QED BY <1>1, <1>5, <1>7, <1>8, <2>1, FrameBooks DEF Same
<1>10. LetGo(h2, H, Lingering(h2), h3)
  <2>1. h2.pacer \in Pacers
    BY <1>7, <1>8 DEF Orderly
  <2> QED BY ONLY <1>9, <1>n, <2>1, AllLetGo
<1>11. Books(h3, H) /\ h3.pacer = p2 /\ Lingering(h3) = {}
  BY <1>8, <1>10 DEF LetGo
<1>12. p2.ready /\ \A k \in Keys : Untold(p2, k)
  <2>1. \A k \in Keys : p.sent[k] = "none"
    BY <1>1, <1>2 DEF Agrees
  <2> QED BY <1>5, <1>7, <2>1 DEF Same, Untold
<1>13. Told(h3, DOMAIN h3.refs, h4)
  BY ONLY <1>7, <1>11, <1>12, <1>n, AllTold
<1>14. Books(h4, H) /\ Shape(h4) /\ h4.refs = h3.refs /\ \A k : Wanted(h4, k) = Wanted(h3, k)
  BY <1>11, <1>13, FrameBooks DEF Told, Frame, Books
<1>15. /\ Orderly(h4.pacer) /\ h4.pacer.ready
       /\ \A k \in DOMAIN h4.refs : Served(h4.pacer, k, Wanted(h4, k))
       /\ \A k \in Keys \ DOMAIN h4.refs : Untold(h4.pacer, k)
  BY <1>11, <1>12, <1>13, <1>14 DEF Told, Same
<1>16. Orderly(q) /\ Same(h4.pacer, q) /\ (\A x \in Keys : Keeps(h4.pacer, q, x)) /\ Awake(q)
  BY ONLY <1>15, <1>n, TrackFacts
<1>17. Frame(h4, hub') /\ hub'.pacer = q
  BY ONLY <1>4, <1>14, WithPacer
<1>18. Books(hub', H) /\ hub'.refs = h4.refs /\ \A k : Wanted(hub', k) = Wanted(h4, k)
  BY <1>14, <1>17, FrameBooks DEF Frame
<1>19. DOMAIN h4.refs \subseteq Keys
  BY <1>14, ShapeFacts
<1>20. ASSUME NEW k \in DOMAIN hub'.refs PROVE Served(q, k, Wanted(hub', k))
  <2>1. k \in Keys /\ Served(h4.pacer, k, Wanted(h4, k)) /\ Keeps(h4.pacer, q, k)
    BY <1>15, <1>16, <1>18, <1>19
  <2> QED BY <1>16, <1>18, <2>1, KeepsServed
<1>21. ASSUME NEW k \in Keys \ DOMAIN hub'.refs PROVE Untold(q, k)
  BY <1>15, <1>16, <1>18 DEF Keeps, Untold
<1>22. Good(hub', H)
  <2>1. ASSUME NEW k \in Keys PROVE AgreesAt(hub', k)
    BY <1>17, <1>20, <1>21 DEF AgreesAt, Served, Untold
  <2>2. q.ready
    BY <1>15, <1>16 DEF Same
  <2> QED BY <1>16, <1>17, <1>18, <2>1, <2>2 DEF Good, Agrees
<1>23. missed' \subseteq Users \X Keys
  <2>1. hub'.pacer.declared \subseteq Users
    BY <1>16, <1>17, PacerFields DEF Orderly
  <2> QED BY ONLY <1>1, <1>2, <2>1, RecallFacts
<1>24. Informed(hub', missed')
  <2>1. ASSUME NEW u \in q.declared, NEW k \in Keys, k \in DOMAIN hub'.held[u]
        PROVE  Promised(q, u, k)
    <3>1. u \in Users
      BY <1>16, PacerFields DEF Orderly
    <3>2. k \in DOMAIN hub'.refs
      BY <1>18, <2>1, <3>1, ShapeFacts DEF Books
    <3> QED BY <1>20, <3>2 DEF Served
  <2> QED BY <1>17, <2>1 DEF Informed
<1> QED BY <1>1, <1>2, <1>22, <1>23, <1>24 DEF IInv, Sound, H

(* Initially nobody holds anything.                                        *)
LEMMA InitSound ==
  ASSUME Init
  PROVE  IInv
<1> DEFINE H == HoldsOf(tab)
           p == hub.pacer
<1>1. /\ hub.refs = Empty /\ hub.held = [u \in Users |-> Empty]
      /\ hub.active = [u \in Users |-> 0] /\ hub.linger = <<>> /\ hub.pacer = EmptyPacer
      /\ hub = HubOf(Empty, [u \in Users |-> Empty], [u \in Users |-> 0], <<>>, EmptyPacer)
      /\ tab = [t \in Tabs |-> Empty] /\ missed = {}
  BY DEF Init, HubOf
<1>2. DOMAIN Empty = {} /\ \A S, T : Empty \in PartialFunctions(S, T)
  <2>1. DOMAIN Empty = {}
    BY DEF Empty
  <2>2. ASSUME NEW S, NEW T PROVE Empty \in PartialFunctions(S, T)
    <3>1. Empty \in [{} -> T] /\ {} \in SUBSET S
      BY DEF Empty
    <3> QED BY <3>1 DEF PartialFunctions
  <2> QED BY <2>1, <2>2
<1>3. tab \in Tables /\ H = {}
  BY <1>1, <1>2 DEF Tables, HoldsOf, Holdings
<1>4. /\ p \in Pacers /\ p.ready = FALSE /\ p.queue = <<>> /\ p.declared = {}
      /\ \A k \in Keys : p.flying[k] = "no" /\ p.sent[k] = "none"
  BY <1>1 DEF EmptyPacer, Pacers
<1>5. \A s : s = <<>> => KeysIn(s) = {} /\ Distinct(s)
  BY DEF KeysIn, Distinct
<1>6. Orderly(p)
  <2>1. InFlight(p) = {} /\ Queued(p) = {}
    BY <1>4, <1>5 DEF InFlight, Queued
  <2>2. Cardinality({}) = 0 /\ Window \in Nat
    BY FS_EmptySet, WindowAssumption
  <2> QED BY <1>4, <1>5, <2>1, <2>2 DEF Orderly
<1>7. Shape(hub)
  <2>1. IsRecord(hub)
    BY <1>1 DEF IsRecord
  <2>2. \A u \in Users : hub.held[u] = Empty
    BY <1>1
  <2>3. hub.held \in [Users -> PartialFunctions(Keys, Nat)]
    BY <1>1, <1>2
  <2>4. hub.active \in [Users -> Nat] /\ hub.linger \in Seq(Entries)
    BY <1>1
  <2> QED BY <1>1, <1>2, <2>1, <2>2, <2>3, <2>4 DEF Shape
<1>8. Lingers(hub)
  BY <1>1, <1>2, <1>5 DEF Lingers, Lingering
<1>9. Counted(hub, H)
  <2>1. \A u, k : Of(H, u, k) = {}
    BY <1>3 DEF Of
  <2>2. \A u : Watches(H, u) = {}
    BY <2>1 DEF Watches
  <2>3. Cardinality({}) = 0 /\ UserLimit \in Nat /\ GlobalLimit \in Nat
    BY FS_EmptySet, LimitAssumption
  <2>4. \A u \in Users : hub.active[u] = 0 /\ \A k : HeldBy(hub, u, k) = 0
    BY <1>1, <1>2 DEF HeldBy
  <2>5. \A u \in Users : /\ \A k \in Keys : HeldBy(hub, u, k) = Cardinality(Of(H, u, k))
                         /\ hub.active[u] = Cardinality(Watches(H, u)) /\ hub.active[u] <= UserLimit
    BY <2>1, <2>2, <2>3, <2>4
  <2>6. Cardinality(DOMAIN hub.refs) <= GlobalLimit
    BY <1>1, <1>2, <2>3
  <2> QED BY <1>1, <1>2, <1>3, <2>5, <2>6 DEF Counted
<1>10. Good(hub, H)
  BY <1>3, <1>4, <1>6, <1>7, <1>8, <1>9 DEF Good, Books, Agrees
<1> QED BY <1>1, <1>3, <1>4, <1>10 DEF IInv, Sound, Informed

LEMMA StepSound ==
  ASSUME IInv, [Next]_vars
  PROVE  IInv'
<1>1. CASE UNCHANGED vars
  BY <1>1 DEF vars, IInv
<1>2. CASE \E t \in Tabs : TabCloses(t)
  BY <1>2, TabClosesSound
<1>3. CASE \E t \in Tabs, k \in Keys : TabUnsubscribes(t, k)
  BY <1>3, TabUnsubscribesSound
<1>4. CASE \E t \in Tabs, k \in Keys : \E level \in Levels : TabSubscribes(t, k, level)
  BY <1>4, TabSubscribesSound
<1>5. CASE LingerEnds
  BY <1>5, LingerEndsSound
<1>6. CASE \E u \in Users : SessionReady(u)
  BY <1>6, SessionReadySound
<1>7. CASE \E u \in Users : SessionReplaced(u)
  BY <1>7, SessionReplacedSound
<1>8. CASE FeedDown
  BY <1>8, FeedDownSound
<1>9. CASE FeedReady
  BY <1>9, FeedReadySound
<1>10. CASE \E k \in Keys : Answered(k)
  BY <1>10, AnsweredSound
<1>11. CASE \E k \in Keys : DeadlinePasses(k)
  BY <1>11, DeadlinePassesSound
<1>12. CASE TimerFires
  BY <1>12, TimerFiresSound
<1> QED
  BY <1>1, <1>2, <1>3, <1>4, <1>5, <1>6, <1>7, <1>8, <1>9, <1>10, <1>11, <1>12 DEF Next

(* The invariant on which the other theorems rest: what the hub's maps     *)
(* count is what the tabs hold, its pacer is in order, and what it asks of *)
(* the gateway is what the maps say.                                       *)
THEOREM Inductive == Spec => []IInv
<1>1. Init => IInv
  BY InitSound
<1>2. IInv /\ [Next]_vars => IInv'
  BY StepSound
<1> QED BY <1>1, <1>2, PTL DEF Spec

LEMMA TypeFollows ==
  ASSUME IInv
  PROVE  TypeOK
<1>1. tab \in Tables /\ missed \subseteq Users \X Keys /\ Shape(hub) /\ hub.pacer \in Pacers
  BY DEF IInv, Sound, Good, Books, Orderly
<1>2. DOMAIN hub = {"refs", "held", "active", "linger", "pacer"}
  <2>1. hub = HubOf(hub.refs, hub.held, hub.active, hub.linger, hub.pacer)
    BY <1>1 DEF Shape, IsRecord
  <2>2. \A r, d, a, l, p : DOMAIN HubOf(r, d, a, l, p) = {"refs", "held", "active", "linger", "pacer"}
    BY DEF HubOf
  <2> QED BY <2>1, <2>2
<1>3. IsHub(hub)
  BY <1>1, <1>2, ShapeFacts DEF IsHub, Shape
<1> QED BY <1>1, <1>3 DEF TypeOK, Tables

(* The hub's maps and the pacer keep their types: among others, no count   *)
(* of references falls below zero (#releaseUserRef, unsubscribe).          *)
THEOREM TypeCorrect == Spec => []TypeOK
BY Inductive, TypeFollows, PTL

(* A tab holds a key at one level: the tabs of a user on a key are as many *)
(* as its holdings of the key.                                             *)
LEMMA TabsAreHoldings ==
  ASSUME tab \in Tables, NEW u, NEW k
  PROVE  /\ Cardinality(TabsOn(u, k)) = Cardinality(Of(HoldsOf(tab), u, k))
         /\ TabsOn(u, k) # {} <=> Of(HoldsOf(tab), u, k) # {}
<1> DEFINE S == TabsOn(u, k)
           T == Of(HoldsOf(tab), u, k)
           f == [t \in S |-> <<t, tab[t][k]>>]
<1>1. IsFiniteSet(S)
  <2>1. S \in SUBSET Tabs
    BY DEF TabsOn
  <2> QED BY <2>1, FiniteAssumption, FS_Subset
<1>2. ASSUME NEW t \in S
      PROVE  t \in Tabs /\ k \in Keys /\ tab[t][k] \in Levels /\ Owner[t] = u /\ k \in DOMAIN tab[t]
  <2>1. t \in Tabs /\ Owner[t] = u /\ k \in DOMAIN tab[t]
    BY DEF TabsOn
  <2>2. tab[t] \in PartialFunctions(Keys, Levels)
    BY <2>1 DEF Tables
  <2> QED BY <2>1, <2>2, PartialFacts
<1>3. ASSUME NEW t \in S PROVE <<t, tab[t][k]>> \in T
  <2> DEFINE l == tab[t][k]
             x == <<t, k, l>>
  <2>1. t \in Tabs /\ k \in Keys /\ l \in Levels /\ Owner[t] = u /\ k \in DOMAIN tab[t]
    BY <1>2
  <2>2. x \in Holdings /\ x[1] = t /\ x[2] = k /\ x[3] = tab[t][k]
    BY <2>1 DEF Holdings
  <2>3. x \in HoldsOf(tab)
    <3> HIDE DEF x, l
    <3> QED BY <2>1, <2>2 DEF HoldsOf
  <2> HIDE DEF l
  <2>4. <<t, l>> \in Tabs \X Levels /\ <<t, l>>[1] = t /\ <<t, l>>[2] = l
    BY <2>1
  <2>5. <<t, l>> \in T
    BY <2>1, <2>3, <2>4 DEF Of
  <2> QED BY <2>5 DEF l
<1>4. ASSUME NEW y \in T PROVE y[1] \in S /\ y = <<y[1], tab[y[1]][k]>>
  <2>1. y \in Tabs \X Levels /\ Owner[y[1]] = u /\ <<y[1], k, y[2]>> \in HoldsOf(tab)
    BY DEF Of
  <2>2. k \in DOMAIN tab[y[1]] /\ tab[y[1]][k] = y[2]
    BY <2>1 DEF HoldsOf
  <2>3. y = <<y[1], y[2]>> /\ y[1] \in Tabs
    BY <2>1
  <2> QED BY <2>1, <2>2, <2>3 DEF TabsOn
<1> HIDE DEF S, T
<1>5. f \in [S -> T] /\ \A t \in S : f[t] = <<t, tab[t][k]>>
  BY <1>3
<1>6. \A a, b \in S : f[a] = f[b] => a = b
  BY <1>5
<1>7. \A y \in T : \E t \in S : f[t] = y
  BY <1>4, <1>5
<1> HIDE DEF f
<1>8. f \in Bijection(S, T)
  BY ONLY <1>5, <1>6, <1>7 DEF Bijection, Injection, Surjection, IsInjective
<1>9. Cardinality(T) = Cardinality(S)
  <2>1. ExistsBijection(S, T)
    BY <1>8 DEF ExistsBijection
  <2> QED BY ONLY <1>1, <2>1, FS_Bijection
<1>10. S # {} <=> T # {}
  BY <1>3, <1>4
<1> QED BY <1>9, <1>10 DEF S, T

LEMMA CountsFollow ==
  ASSUME IInv
  PROVE  CountsHolders
<1> DEFINE H == HoldsOf(tab)
<1>1. tab \in Tables /\ Shape(hub) /\ Lingers(hub) /\ Counted(hub, H)
  BY DEF IInv, Sound, Good, Books
<1>2. ASSUME NEW t \in Tabs PROVE DOMAIN tab[t] \subseteq Keys /\ \A k \in DOMAIN tab[t] : tab[t][k] \in Levels
  <2>1. tab[t] \in PartialFunctions(Keys, Levels)
    BY <1>1 DEF Tables
  <2> QED BY <2>1, PartialFacts
<1>3. ASSUME NEW t \in Tabs, NEW k \in Keys, NEW l \in Levels
      PROVE  <<t, k, l>> \in H <=> k \in DOMAIN tab[t] /\ tab[t][k] = l
  <2> DEFINE x == <<t, k, l>>
  <2>1. x \in Holdings /\ x[1] = t /\ x[2] = k /\ x[3] = l
    BY DEF Holdings
  <2> HIDE DEF x
  <2>2. x \in H <=> k \in DOMAIN tab[t] /\ tab[t][k] = l
    BY <2>1 DEF HoldsOf
  <2> QED BY <2>2 DEF x
<1> HIDE DEF H
<1>4. ASSUME NEW k \in Keys, NEW l \in Levels PROVE Holders(k, l) = At(H, k, l)
  BY <1>3 DEF Holders, At
<1>5. ASSUME NEW k \in Keys
      PROVE  IF k \in DOMAIN hub.refs
             THEN /\ \A level \in Levels : hub.refs[k][level] = Cardinality(Holders(k, level))
                  /\ k \in Lingering(hub) <=> TotalRefs(hub.refs[k]) = 0
             ELSE \A t \in Tabs : k \notin DOMAIN tab[t]
  <2>1. CASE k \in DOMAIN hub.refs
    BY <1>1, <1>4, <2>1 DEF Counted, Lingers
  <2>2. CASE k \notin DOMAIN hub.refs
    <3>1. \A t \in Tabs, l \in Levels : <<t, k, l>> \notin H
      BY <1>1, <2>2 DEF Counted
    <3>2. ASSUME NEW t \in Tabs, k \in DOMAIN tab[t] PROVE FALSE
      BY <1>2, <1>3, <3>1, <3>2
    <3> QED BY <2>2, <3>2
  <2> QED BY <2>1, <2>2
<1>6. ASSUME NEW u \in Users
      PROVE  /\ DOMAIN hub.held[u] \subseteq DOMAIN hub.refs
             /\ \A k \in Keys : HeldBy(hub, u, k) = Cardinality(TabsOn(u, k))
             /\ hub.active[u] = Cardinality({k \in Keys : TabsOn(u, k) # {}})
             /\ hub.active[u] <= UserLimit
  <2>1. \A k : Cardinality(TabsOn(u, k)) = Cardinality(Of(H, u, k)) /\ (TabsOn(u, k) # {} <=> Of(H, u, k) # {})
    BY <1>1, TabsAreHoldings DEF H
  <2>2. {k \in Keys : TabsOn(u, k) # {}} = Watches(H, u)
    BY <2>1 DEF Watches
  <2> QED BY <1>1, <2>1, <2>2 DEF Counted, Shape
<1>7. Cardinality(DOMAIN hub.refs) <= GlobalLimit
  BY <1>1 DEF Counted
<1> QED BY <1>5, <1>6, <1>7 DEF CountsHolders

(* subscribe(), unsubscribe(), #releaseKey and the close of a tab keep the *)
(* three maps of the hub true to the tabs, and both limits, through every  *)
(* eviction, reconnect and change of level.                                *)
THEOREM CountsCorrect == Spec => []CountsHolders
BY Inductive, CountsFollow, PTL

(* A key waits once.                                                       *)
LEMMA QueueLength ==
  ASSUME NEW p, Orderly(p)
  PROVE  Len(p.queue) = Cardinality(Queued(p))
<1> DEFINE n == Len(p.queue)
           S == 1..n
           T == Queued(p)
           f == [i \in S |-> p.queue[i].key]
<1>1. n \in Nat /\ DOMAIN p.queue = S /\ Distinct(p.queue)
  BY QueueFacts DEF Orderly
<1>2. T = {p.queue[i].key : i \in S}
  BY <1>1 DEF Queued, KeysIn
<1>3. \A i, j \in S : p.queue[i].key = p.queue[j].key => i = j
  BY <1>1 DEF Distinct
<1> HIDE DEF T, S
<1>4. f \in [S -> T] /\ \A i \in S : f[i] = p.queue[i].key
  BY <1>2
<1> HIDE DEF f
<1>5. f \in Bijection(S, T)
  BY <1>2, <1>3, <1>4 DEF Bijection, Injection, Surjection, IsInjective
<1>6. ExistsBijection(1..n, T)
  BY <1>5 DEF ExistsBijection, S
<1> HIDE DEF n
<1>7. Cardinality(T) = n
  BY ONLY <1>1, <1>6, FS_CountingElements
<1> QED BY <1>7 DEF T, n

LEMMA UpstreamFollowed ==
  ASSUME IInv
  PROVE  UpstreamFollows
<1> DEFINE p == hub.pacer
<1>1. Books(hub, HoldsOf(tab)) /\ Shape(hub) /\ Orderly(p) /\ Agrees(hub) /\ DOMAIN hub.refs \subseteq Keys
  BY ShapeFacts DEF IInv, Sound, Good, Books
<1>2. CASE ~p.ready
  BY <1>2 DEF UpstreamFollows, UpstreamAgrees, NoLostWakeup
<1>3. CASE p.ready
  <2>1. Awake(p) /\ \A k \in Keys : AgreesAt(hub, k)
    BY <1>1, <1>3 DEF Agrees
  <2>2. ASSUME NEW k \in DOMAIN hub.refs
        PROVE  IF k \in Queued(p) THEN \E i \in DOMAIN p.queue : p.queue[i] = [key |-> k, level |-> Wanted(hub, k)]
               ELSE p.sent[k] = Wanted(hub, k)
    BY <1>1, <2>1 DEF AgreesAt, Asks
  <2>3. ASSUME NEW k \in Keys \ DOMAIN hub.refs
        PROVE  k \notin Queued(p) /\ p.sent[k] # "full" /\ p.flying[k] = "no"
    BY <2>1 DEF AgreesAt, Free
  <2>4. Queued(p) \intersect InFlight(p) = {} /\ Cardinality(InFlight(p)) <= Window
    BY <1>1 DEF Orderly, InFlight
  <2>5. Len(p.queue) = Cardinality(Queued(p))
    BY <1>1, QueueLength
  <2>6. NoLostWakeup
    BY <2>1 DEF NoLostWakeup, Awake
  <2>7. UpstreamAgrees
    BY <2>2, <2>3, <2>4, <2>5 DEF UpstreamAgrees, Wanted
  <2> QED BY <2>6, <2>7 DEF UpstreamFollows
<1> QED BY <1>2, <1>3

(* While the connection is ready each watched key is subscribed at the     *)
(* level of its watchers or waits with that level, whatever overtakes what *)
(* in the pacer, and while a key waits the timer that sends it is set      *)
(* (subscribe-pacer.ts #settle, #arm, #expireOverdue).                     *)
THEOREM UpstreamCorrect == Spec => []UpstreamFollows
BY Inductive, UpstreamFollowed, PTL

LEMMA WatchersServed ==
  ASSUME IInv
  PROVE  WatchersGetProgress
<1>1. Informed(hub, missed)
  BY DEF IInv, Sound
<1>2. \A u, k : HasProgress(u, k) <=> Promised(hub.pacer, u, k)
  BY DEF HasProgress, Promised
<1>3. ASSUME NEW u, NEW k, HeldBy(hub, u, k) > 0 PROVE k \in DOMAIN hub.held[u]
  BY <1>3 DEF HeldBy
<1> QED BY <1>1, <1>2, <1>3 DEF WatchersGetProgress, Informed

(* The nudges of subscribe() and of a session that becomes ready leave no  *)
(* watcher without the progress of its keys, but the ones that took their  *)
(* first look before their session was ready and left.                     *)
THEOREM ProgressCorrect == Spec => []WatchersGetProgress
BY Inductive, WatchersServed, PTL
=============================================================================
