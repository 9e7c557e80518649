-------------------------- MODULE OrderHandler_proofs --------------------------
(***************************************************************************)
(* Proofs about OrderHandler, for every set of tabs, request ids and       *)
(* messages and every bound.                                               *)
(*                                                                         *)
(* The inductive invariant is TypeOK, the properties themselves, and what  *)
(* they need: ids and request ids name one pending request each, the       *)
(* outcome of a pending request is open, and a cancellation notice tells   *)
(* of an order that was cancelled.                                         *)
(***************************************************************************)
EXTENDS OrderHandler, TLAPS

IdsUnique == \A e, f \in pending : e.id = f.id => e = f

RidsUnique == \A e, f \in pending : e.conn = f.conn /\ e.rid = f.rid => e = f

PendingIsOpen ==
  \A e \in pending : e.id \in DOMAIN outcome /\ ~outcome[e.id].gone /\ outcome[e.id].msg = e.msg

CancelNotices == \A n \in notices : n.type = "C" => n.org \in cancelled

IInv ==
  /\ TypeOK
  /\ IdsUnique /\ RidsUnique /\ PendingIsOpen /\ CancelNotices
  /\ GuardIsPending /\ NoTwin /\ OneAnswer /\ CancelledIsTrue

LEMMA InitIInv == Init => IInv
<1> SUFFICES ASSUME Init PROVE IInv
  OBVIOUS
<1>1. TypeOK
  BY DEF Init, TypeOK
<1>2. IdsUnique /\ RidsUnique /\ PendingIsOpen /\ CancelNotices /\ NoTwin /\ GuardIsPending
  BY DEF Init, IdsUnique, RidsUnique, PendingIsOpen, CancelNotices, NoTwin, GuardIsPending
<1>3. OneAnswer /\ CancelledIsTrue
  BY DEF Init, OneAnswer, CancelledIsTrue
<1> QED BY <1>1, <1>2, <1>3 DEF IInv

-----------------------------------------------------------------------------
(* Helpers.                                                                *)

LEMMA KeysType == ASSUME NEW e \in Entry PROVE DupKey(e.msg) \in Keys
BY DEF Entry, Keys

(* A request that is over: what Told makes of the outcome.                 *)
LEMMA ToldOutcome ==
  ASSUME TypeOK, NEW m \in Messages, NEW answers \in Nat,
         NEW status \in {"none", "rejected"}, Told(m, answers, status)
  PROVE  /\ outcome' \in Seq(Outcome)
         /\ Len(outcome') = Len(outcome) + 1
         /\ \A i \in 1..Len(outcome) : outcome'[i] = outcome[i]
         /\ outcome'[Len(outcome) + 1] =
              [answers |-> answers, by |-> -1, gone |-> FALSE, msg |-> m, status |-> status]
<1> DEFINE new == [answers |-> answers, by |-> -1, gone |-> FALSE, msg |-> m, status |-> status]
<1>1. new \in Outcome
  BY DEF Outcome
<1>2. outcome \in Seq(Outcome) /\ outcome' = Append(outcome, new)
  BY DEF TypeOK, Told
<1> HIDE DEF new
<1>3. /\ outcome' \in Seq(Outcome)
      /\ Len(outcome') = Len(outcome) + 1
      /\ \A i \in 1..Len(outcome) : outcome'[i] = outcome[i]
      /\ outcome'[Len(outcome) + 1] = new
  BY <1>1, <1>2
<1> QED BY <1>3 DEF new

(* What Finish makes of the outcome.                                       *)
LEMMA FinishOutcome ==
  ASSUME TypeOK, NEW e \in pending, NEW by \in Int, e.id \in DOMAIN outcome,
         NEW status \in {"rejected", "timeout", "accepted", "cancelled", "filled",
                         "partially_filled"},
         Finish(e, status, by)
  PROVE  /\ outcome' \in Seq(Outcome)
         /\ DOMAIN outcome' = DOMAIN outcome
         /\ \A i \in DOMAIN outcome : i # e.id => outcome'[i] = outcome[i]
         /\ outcome'[e.id].answers = outcome[e.id].answers + 1
         /\ outcome'[e.id].gone = outcome[e.id].gone
         /\ outcome'[e.id].msg = outcome[e.id].msg
         /\ outcome'[e.id].status = status
<1>1. outcome \in [1..Len(outcome) -> Outcome] /\ Len(outcome) \in Nat
  BY DEF TypeOK
<1> DEFINE answers == outcome[e.id].answers + 1
<1> DEFINE new == [outcome[e.id] EXCEPT !.answers = answers, !.status = status, !.by = by]
<1>2. outcome' = [outcome EXCEPT ![e.id] = new]
  BY DEF Finish
<1>3. new \in Outcome /\ new.answers = outcome[e.id].answers + 1 /\ new.status = status
      /\ new.gone = outcome[e.id].gone /\ new.msg = outcome[e.id].msg
  <2> DEFINE o == outcome[e.id]
  <2>1. o \in Outcome
    BY <1>1
  <2>2. answers \in Nat
    BY <2>1 DEF Outcome
  <2>3. new = [o EXCEPT !.answers = answers, !.status = status, !.by = by]
    OBVIOUS
  <2> HIDE DEF answers, new, o
  <2>4. /\ new \in Outcome
        /\ new.answers = answers /\ new.status = status
        /\ new.gone = o.gone /\ new.msg = o.msg
    BY <2>1, <2>2, <2>3 DEF Outcome
  <2> QED BY <2>4 DEF answers, o
<1> HIDE DEF new
<1>4. outcome' \in [1..Len(outcome) -> Outcome]
  BY <1>1, <1>2, <1>3
<1>5. outcome' \in Seq(Outcome)
  BY <1>1, <1>4
<1> QED BY <1>1, <1>2, <1>3, <1>5

-----------------------------------------------------------------------------
(* The duplicate guard: a request more, one less, a tab less.              *)

LEMMA GuardClaimed ==
  ASSUME IInv, NEW c \in Conns, NEW rid \in Rids, NEW m \in Messages, Sent(c, rid, m)
  PROVE  GuardIsPending' /\ NoTwin' /\ RidsUnique'
<1> DEFINE e == [id |-> NewId, conn |-> c, rid |-> rid, msg |-> m]
<1>1. /\ pending' = pending \cup {e}
      /\ claims' = [claims EXCEPT ![c] = @ \cup {rid}]
      /\ dupKeys' = [dupKeys EXCEPT ![c] = @ \cup {DupKey(m)}]
      /\ userDupKeys' = userDupKeys \cup {DupKey(m)}
      /\ rid \notin claims[c] /\ DupKey(m) \notin userDupKeys
  BY DEF Sent, Duplicate
<1>2. e.conn = c /\ e.rid = rid /\ e.msg = m
  OBVIOUS
<1> HIDE DEF e
<1>3. /\ claims \in [Conns -> SUBSET Rids] /\ dupKeys \in [Conns -> SUBSET Keys]
      /\ userDupKeys = {DupKey(f.msg) : f \in pending}
      /\ \A d \in Conns : claims[d] = {f.rid : f \in {x \in pending : x.conn = d}}
      /\ \A d \in Conns : dupKeys[d] = {DupKey(f.msg) : f \in {x \in pending : x.conn = d}}
  BY DEF IInv, TypeOK, GuardIsPending
<1>4. userDupKeys' = {DupKey(f.msg) : f \in pending'}
  BY <1>1, <1>2, <1>3
<1>5. ASSUME NEW d \in Conns
      PROVE  /\ claims'[d] = {f.rid : f \in {x \in pending' : x.conn = d}}
             /\ dupKeys'[d] = {DupKey(f.msg) : f \in {x \in pending' : x.conn = d}}
  <2>1. CASE d = c
    <3>1. claims'[d] = claims[d] \cup {rid} /\ dupKeys'[d] = dupKeys[d] \cup {DupKey(m)}
      BY <1>1, <1>3, <2>1
    <3>2. {x \in pending' : x.conn = d} = {x \in pending : x.conn = d} \cup {e}
      BY <1>1, <1>2, <2>1
    <3> QED BY <1>2, <1>3, <3>1, <3>2
  <2>2. CASE d # c
    <3>1. claims'[d] = claims[d] /\ dupKeys'[d] = dupKeys[d]
      BY <1>1, <1>3, <2>2
    <3>2. {x \in pending' : x.conn = d} = {x \in pending : x.conn = d}
      BY <1>1, <1>2, <2>2
    <3> QED BY <1>3, <3>1, <3>2
  <2> QED BY <2>1, <2>2
<1>6. NoTwin'
  <2>1. \A f \in pending : DupKey(f.msg) # DupKey(m)
    BY <1>1, <1>3
  <2> QED BY <1>1, <1>2, <2>1 DEF IInv, NoTwin
<1>7. RidsUnique'
  <2>1. \A f \in pending : f.conn = c => f.rid # rid
    BY <1>1, <1>3
  <2> QED BY <1>1, <1>2, <2>1 DEF IInv, RidsUnique
<1> QED BY <1>4, <1>5, <1>6, <1>7 DEF GuardIsPending

LEMMA GuardReleased ==
  ASSUME IInv, NEW e \in pending, Release(e), pending' = pending \ {e}
  PROVE  GuardIsPending'
<1>1. /\ claims \in [Conns -> SUBSET Rids] /\ dupKeys \in [Conns -> SUBSET Keys]
      /\ userDupKeys = {DupKey(f.msg) : f \in pending}
      /\ \A d \in Conns : claims[d] = {f.rid : f \in {x \in pending : x.conn = d}}
      /\ \A d \in Conns : dupKeys[d] = {DupKey(f.msg) : f \in {x \in pending : x.conn = d}}
      /\ e.conn \in Conns
  BY DEF IInv, TypeOK, GuardIsPending, Entry
<1>2. \A f \in pending' : DupKey(f.msg) # DupKey(e.msg)
  BY DEF IInv, NoTwin
<1>3. \A f \in pending' : f.conn = e.conn => f.rid # e.rid
  BY DEF IInv, RidsUnique
<1>4. userDupKeys' = userDupKeys \ {DupKey(e.msg)}
  <2>1. DupKey(e.msg) \in dupKeys[e.conn]
    BY <1>1
  <2> QED BY <2>1 DEF Release
<1>5. userDupKeys' = {DupKey(f.msg) : f \in pending'}
  BY <1>1, <1>2, <1>4
<1>6. ASSUME NEW d \in Conns
      PROVE  /\ claims'[d] = {f.rid : f \in {x \in pending' : x.conn = d}}
             /\ dupKeys'[d] = {DupKey(f.msg) : f \in {x \in pending' : x.conn = d}}
  <2>1. CASE d = e.conn
    <3>1. claims'[d] = claims[d] \ {e.rid} /\ dupKeys'[d] = dupKeys[d] \ {DupKey(e.msg)}
      BY <1>1, <2>1 DEF Release
    <3>2. {x \in pending' : x.conn = d} = {x \in pending : x.conn = d} \ {e}
      OBVIOUS
    <3>3. claims'[d] = {f.rid : f \in {x \in pending' : x.conn = d}}
      BY <1>1, <1>3, <2>1, <3>1, <3>2
    <3>4. dupKeys'[d] = {DupKey(f.msg) : f \in {x \in pending' : x.conn = d}}
      BY <1>1, <1>2, <2>1, <3>1, <3>2
    <3> QED BY <3>3, <3>4
  <2>2. CASE d # e.conn
    <3>1. claims'[d] = claims[d] /\ dupKeys'[d] = dupKeys[d]
      BY <1>1, <2>2 DEF Release
    <3>2. {x \in pending' : x.conn = d} = {x \in pending : x.conn = d}
      BY <2>2
    <3> QED BY <1>1, <3>1, <3>2
  <2> QED BY <2>1, <2>2
<1> QED BY <1>5, <1>6 DEF GuardIsPending

LEMMA GuardClosed ==
  ASSUME IInv, NEW c \in Conns, ConnCloses(c)
  PROVE  GuardIsPending'
<1>1. /\ claims \in [Conns -> SUBSET Rids] /\ dupKeys \in [Conns -> SUBSET Keys]
      /\ userDupKeys = {DupKey(f.msg) : f \in pending}
      /\ \A d \in Conns : claims[d] = {f.rid : f \in {x \in pending : x.conn = d}}
      /\ \A d \in Conns : dupKeys[d] = {DupKey(f.msg) : f \in {x \in pending : x.conn = d}}
  BY DEF IInv, TypeOK, GuardIsPending
<1>2. /\ pending' = {e \in pending : e.conn # c}
      /\ claims' = [claims EXCEPT ![c] = {}]
      /\ userDupKeys' = userDupKeys \ dupKeys[c]
      /\ dupKeys' = [dupKeys EXCEPT ![c] = {}]
  BY DEF ConnCloses
<1>3. \A f \in pending' : DupKey(f.msg) \notin dupKeys[c]
  BY <1>1, <1>2 DEF IInv, NoTwin
<1>4. userDupKeys' = {DupKey(f.msg) : f \in pending'}
  <2>1. ASSUME NEW k \in userDupKeys' PROVE k \in {DupKey(f.msg) : f \in pending'}
    <3>1. PICK f \in pending : k = DupKey(f.msg)
      BY <1>1, <1>2, <2>1
    <3>2. f.conn # c
      BY <1>1, <1>2, <2>1, <3>1
    <3> QED BY <1>2, <3>1, <3>2
  <2>2. {DupKey(f.msg) : f \in pending'} \subseteq userDupKeys'
    BY <1>1, <1>2, <1>3
  <2> QED BY <2>1, <2>2
<1>5. ASSUME NEW d \in Conns
      PROVE  /\ claims'[d] = {f.rid : f \in {x \in pending' : x.conn = d}}
             /\ dupKeys'[d] = {DupKey(f.msg) : f \in {x \in pending' : x.conn = d}}
  <2>1. CASE d = c
    BY <1>1, <1>2, <2>1
  <2>2. CASE d # c
    <3>1. claims'[d] = claims[d] /\ dupKeys'[d] = dupKeys[d]
      BY <1>1, <1>2, <2>2
    <3>2. {x \in pending' : x.conn = d} = {x \in pending : x.conn = d}
      BY <1>2, <2>2
    <3> QED BY <1>1, <3>1, <3>2
  <2> QED BY <2>1, <2>2
<1> QED BY <1>4, <1>5 DEF GuardIsPending

-----------------------------------------------------------------------------
(* Steps of the relay.                                                     *)

LEMMA RefusedStep ==
  ASSUME IInv, NEW c \in Conns, NEW rid \in Rids, NEW m \in Messages,
         DuplicateRefused(c, rid, m) \/ GateRefuses(c, rid, m)
  PROVE  IInv'
<1>1. Told(m, 1, "rejected") /\ UNCHANGED <<guard, pending, exchange, foreign>>
  BY DEF DuplicateRefused, GateRefuses
<1>2. TypeOK /\ PendingIsOpen /\ OneAnswer /\ CancelledIsTrue
  BY DEF IInv
<1>3. Len(outcome) \in Nat /\ DOMAIN outcome = 1..Len(outcome)
  BY <1>2 DEF TypeOK
<1>4. /\ outcome' \in Seq(Outcome) /\ Len(outcome') = Len(outcome) + 1
      /\ \A i \in 1..Len(outcome) : outcome'[i] = outcome[i]
      /\ outcome'[Len(outcome) + 1] =
           [answers |-> 1, by |-> -1, gone |-> FALSE, msg |-> m, status |-> "rejected"]
  BY <1>1, <1>2, ToldOutcome
<1>5. DOMAIN outcome' = DOMAIN outcome \cup {Len(outcome) + 1}
  BY <1>3, <1>4
<1>6. pending' = pending /\ cancelled' = cancelled /\ \A e \in pending : e.id # Len(outcome) + 1
  BY <1>1, <1>2, <1>3 DEF exchange, PendingIsOpen
<1>7. TypeOK'
  BY <1>1, <1>2, <1>4 DEF TypeOK, guard, exchange
<1>8. PendingIsOpen'
  BY <1>2, <1>3, <1>4, <1>5, <1>6 DEF PendingIsOpen
<1>9. OneAnswer'
  BY <1>2, <1>3, <1>4, <1>5, <1>6 DEF OneAnswer
<1>10. CancelledIsTrue'
  BY <1>2, <1>3, <1>4, <1>5, <1>6 DEF CancelledIsTrue
<1>11. IdsUnique' /\ RidsUnique' /\ CancelNotices' /\ GuardIsPending' /\ NoTwin'
  BY <1>1 DEF guard, exchange, IInv, IdsUnique, RidsUnique, CancelNotices, GuardIsPending, NoTwin
<1> QED BY <1>7, <1>8, <1>9, <1>10, <1>11 DEF IInv

LEMMA SentStep ==
  ASSUME IInv, NEW c \in Conns, NEW rid \in Rids, NEW m \in Messages, Sent(c, rid, m)
  PROVE  IInv'
<1> DEFINE e == [id |-> NewId, conn |-> c, rid |-> rid, msg |-> m]
<1>1. /\ Told(m, 0, "none")
      /\ pending' = pending \cup {e} /\ wire' = wire \cup {e}
      /\ claims' = [claims EXCEPT ![c] = @ \cup {rid}]
      /\ dupKeys' = [dupKeys EXCEPT ![c] = @ \cup {DupKey(m)}]
      /\ userDupKeys' = userDupKeys \cup {DupKey(m)}
      /\ UNCHANGED <<notices, cancelled, working, gateway, foreign>>
  BY DEF Sent
<1>2. TypeOK /\ IdsUnique /\ PendingIsOpen /\ OneAnswer /\ CancelledIsTrue
  BY DEF IInv
<1>3. Len(outcome) \in Nat /\ DOMAIN outcome = 1..Len(outcome)
  BY <1>2 DEF TypeOK
<1>4. /\ outcome' \in Seq(Outcome) /\ Len(outcome') = Len(outcome) + 1
      /\ \A i \in 1..Len(outcome) : outcome'[i] = outcome[i]
      /\ outcome'[Len(outcome) + 1] =
           [answers |-> 0, by |-> -1, gone |-> FALSE, msg |-> m, status |-> "none"]
  BY <1>1, <1>2, ToldOutcome
<1>5. DOMAIN outcome' = DOMAIN outcome \cup {Len(outcome) + 1}
  BY <1>3, <1>4
<1>6. e \in Entry /\ e.id = Len(outcome) + 1 /\ e.msg = m
  BY <1>3 DEF Entry, NewId
<1> HIDE DEF e
<1>7. \A f \in pending : f.id # e.id
  BY <1>2, <1>3, <1>6 DEF PendingIsOpen
<1>8. TypeOK'
  BY <1>1, <1>2, <1>4, <1>6 DEF TypeOK, Keys
<1>9. IdsUnique' /\ CancelNotices'
  BY <1>1, <1>2, <1>7 DEF IdsUnique, CancelNotices, IInv
<1>10. PendingIsOpen'
  BY <1>1, <1>2, <1>3, <1>4, <1>5, <1>6, <1>7 DEF PendingIsOpen
<1>11. OneAnswer'
  BY <1>1, <1>2, <1>3, <1>4, <1>5, <1>6, <1>7 DEF OneAnswer
<1>12. CancelledIsTrue'
  BY <1>1, <1>2, <1>3, <1>4, <1>5 DEF CancelledIsTrue
<1> QED BY <1>8, <1>9, <1>10, <1>11, <1>12, GuardClaimed DEF IInv

(* Finish, by a notice or by the timeout.                                  *)
LEMMA FinishStep ==
  ASSUME IInv, NEW e \in pending, NEW by \in Int,
         NEW status \in {"rejected", "timeout", "accepted", "cancelled", "filled",
                         "partially_filled"},
         status = "cancelled" => e.msg.kind = "C" /\ e.msg.org \in cancelled,
         Finish(e, status, by),
         notices' \subseteq notices, UNCHANGED <<wire, cancelled, working, gateway, foreign>>
  PROVE  IInv'
<1>1. TypeOK /\ IdsUnique /\ PendingIsOpen /\ OneAnswer /\ CancelledIsTrue
  BY DEF IInv
<1>2. pending' = pending \ {e} /\ Release(e)
  BY DEF Finish
<1>3. e.id \in DOMAIN outcome /\ ~outcome[e.id].gone /\ outcome[e.id].msg = e.msg
  BY <1>1 DEF PendingIsOpen
<1>4. /\ outcome' \in Seq(Outcome) /\ DOMAIN outcome' = DOMAIN outcome
      /\ \A i \in DOMAIN outcome : i # e.id => outcome'[i] = outcome[i]
      /\ outcome'[e.id].answers = outcome[e.id].answers + 1
      /\ outcome'[e.id].gone = outcome[e.id].gone /\ outcome'[e.id].msg = outcome[e.id].msg
      /\ outcome'[e.id].status = status
  BY <1>1, <1>3, FinishOutcome
<1>5. \A f \in pending' : f.id # e.id
  BY <1>1, <1>2 DEF IdsUnique
<1>6. TypeOK'
  <2>1. /\ claims' \in [Conns -> SUBSET Rids] /\ dupKeys' \in [Conns -> SUBSET Keys]
        /\ userDupKeys' \in SUBSET Keys
    BY <1>1, <1>2 DEF TypeOK, Release
  <2> QED BY <1>1, <1>2, <1>4, <2>1 DEF TypeOK
<1>7. PendingIsOpen'
  BY <1>1, <1>2, <1>4, <1>5 DEF PendingIsOpen
<1>8. OneAnswer'
  <2>1. outcome[e.id].answers = 0 /\ outcome'[e.id].answers = 1
    BY <1>1, <1>3, <1>4 DEF OneAnswer
  <2>2. ASSUME NEW i \in DOMAIN outcome, i # e.id
        PROVE  (\E f \in pending' : f.id = i) <=> (\E f \in pending : f.id = i)
    BY <1>2, <2>2
  <2> QED BY <1>1, <1>3, <1>4, <1>5, <2>1, <2>2 DEF OneAnswer
<1>9. CancelledIsTrue'
  BY <1>1, <1>3, <1>4 DEF CancelledIsTrue
<1>10. IdsUnique' /\ RidsUnique' /\ NoTwin' /\ CancelNotices'
  BY <1>2 DEF IInv, IdsUnique, RidsUnique, NoTwin, CancelNotices
<1>11. GuardIsPending'
  BY <1>2, GuardReleased
<1> QED BY <1>6, <1>7, <1>8, <1>9, <1>10, <1>11 DEF IInv

LEMMA TimeoutStep == ASSUME IInv, NEW e \in pending, Timeout(e) PROVE IInv'
BY FinishStep DEF Timeout, exchange

(* A notice that cancels is about an order that was cancelled, and settles *)
(* only a cancel of that order.                                            *)
LEMMA CancelSettled ==
  ASSUME IInv, NEW n \in notices, NEW e \in NarrowPending(pending, n)
  PROVE  /\ e \in pending
         /\ Status(n, e.msg) = "cancelled" => e.msg.kind = "C" /\ e.msg.org \in cancelled
<1>1. e \in Hard(pending, n)
  BY DEF NarrowPending, Pool, ByPrice, ByQty, BySide, ByNew, Refine
<1>2. e \in ByOrgOrderNo(pending, n)
  BY <1>1 DEF Hard
<1>3. e \in pending
  BY <1>2 DEF ByOrgOrderNo
<1>4. ASSUME Status(n, e.msg) = "cancelled" PROVE e.msg.kind = "C" /\ e.msg.org \in cancelled
  <2>1. n.type = "C"
    BY <1>4 DEF Status
  <2>2. n.org \in cancelled /\ n.org # 0
    BY <2>1, MessagesAssumption DEF IInv, CancelNotices, TypeOK
  <2>3. e.msg.org = n.org
    BY <1>2, <2>2 DEF ByOrgOrderNo
  <2>4. KindAxis(n) = "C"
    BY <1>1, <2>1 DEF Hard, KindAxis, Answerable
  <2> QED BY <1>1, <2>2, <2>3, <2>4 DEF Hard
<1> QED BY <1>3, <1>4

LEMMA NoticeStep == ASSUME IInv, NEW n \in notices, NoticeArrives(n) PROVE IInv'
<1>1. /\ notices' = notices \ {n} /\ UNCHANGED <<wire, cancelled, working, gateway, foreign>>
      /\ \/ UNCHANGED <<guard, pending, outcome>>
         \/ \E e \in NarrowPending(pending, n) : Finish(e, Status(n, e.msg), n.of)
  BY DEF NoticeArrives
<1>2. CASE UNCHANGED <<guard, pending, outcome>>
  BY <1>1, <1>2 DEF IInv, TypeOK, guard, IdsUnique, RidsUnique, PendingIsOpen, CancelNotices,
     GuardIsPending, NoTwin, OneAnswer, CancelledIsTrue
<1>3. CASE \E e \in NarrowPending(pending, n) : Finish(e, Status(n, e.msg), n.of)
  <2>1. PICK e \in NarrowPending(pending, n) : Finish(e, Status(n, e.msg), n.of)
    BY <1>3
  <2>2. n \in Notice /\ n.of \in Int
    <3>1. n \in Notice
      BY DEF IInv, TypeOK
    <3>2. n.of \in Nat
      BY <3>1 DEF Notice
    <3> QED BY <3>1, <3>2
  <2>3. Status(n, e.msg) \in {"rejected", "timeout", "accepted", "cancelled", "filled",
                              "partially_filled"}
    BY <2>2 DEF Status, Notice
  <2> QED BY <1>1, <2>1, <2>2, <2>3, CancelSettled, FinishStep
<1> QED BY <1>1, <1>2, <1>3

LEMMA ConnClosesStep == ASSUME IInv, NEW c \in Conns, ConnCloses(c) PROVE IInv'
<1>1. TypeOK /\ PendingIsOpen /\ OneAnswer /\ CancelledIsTrue /\ IdsUnique
  BY DEF IInv
<1>2. /\ pending' = {e \in pending : e.conn # c}
      /\ claims' = [claims EXCEPT ![c] = {}]
      /\ userDupKeys' = userDupKeys \ dupKeys[c]
      /\ dupKeys' = [dupKeys EXCEPT ![c] = {}]
      /\ UNCHANGED <<exchange, foreign>>
  BY DEF ConnCloses
<1> DEFINE left(i) == \E e \in pending : e.conn = c /\ e.id = i
<1>3. /\ DOMAIN outcome' = DOMAIN outcome
      /\ \A i \in DOMAIN outcome : outcome'[i] = [outcome[i] EXCEPT !.gone = @ \/ left(i)]
  BY DEF ConnCloses
<1>4. Len(outcome) \in Nat /\ DOMAIN outcome = 1..Len(outcome)
      /\ \A i \in DOMAIN outcome : outcome[i] \in Outcome
  BY <1>1 DEF TypeOK
<1>5. ASSUME NEW i \in DOMAIN outcome
      PROVE  /\ outcome'[i] \in Outcome
             /\ outcome'[i].gone = (outcome[i].gone \/ left(i))
             /\ outcome'[i].answers = outcome[i].answers /\ outcome'[i].msg = outcome[i].msg
             /\ outcome'[i].status = outcome[i].status
  <2> DEFINE o == outcome[i]
  <2> DEFINE gone == o.gone \/ left(i)
  <2>1. o \in Outcome /\ gone \in BOOLEAN
    BY <1>4 DEF Outcome
  <2>2. outcome'[i] = [o EXCEPT !.gone = gone]
    BY <1>3
  <2> HIDE DEF o, gone
  <2>3. /\ outcome'[i] \in Outcome /\ outcome'[i].gone = gone
        /\ outcome'[i].answers = o.answers /\ outcome'[i].msg = o.msg
        /\ outcome'[i].status = o.status
    BY <2>1, <2>2 DEF Outcome
  <2> QED BY <2>3 DEF o, gone
<1>6. outcome' \in Seq(Outcome)
  <2>1. outcome' = [i \in 1..Len(outcome) |-> outcome'[i]]
    BY <1>4 DEF ConnCloses
  <2> QED BY <1>4, <1>5, <2>1
<1> HIDE DEF left
<1>7. TypeOK'
  BY <1>1, <1>2, <1>6 DEF TypeOK, exchange
<1>8. PendingIsOpen'
  <2>1. ASSUME NEW e \in pending' PROVE ~left(e.id)
    BY <1>1, <1>2, <2>1 DEF left, IdsUnique
  <2> QED BY <1>1, <1>2, <1>3, <1>5, <2>1 DEF PendingIsOpen
<1>9. OneAnswer'
  <2>1. ASSUME NEW i \in DOMAIN outcome
        PROVE  (\E e \in pending : e.id = i) <=> left(i) \/ \E e \in pending' : e.id = i
    BY <1>2 DEF left
  <2>2. ASSUME NEW i \in DOMAIN outcome'
        PROVE  outcome'[i].answers =
                 IF outcome'[i].gone \/ \E e \in pending' : e.id = i THEN 0 ELSE 1
    BY <1>1, <1>3, <1>5, <2>1, ZenonT(60) DEF OneAnswer
  <2> QED BY <2>2 DEF OneAnswer
<1>10. CancelledIsTrue'
  BY <1>1, <1>2, <1>3, <1>5 DEF CancelledIsTrue, exchange
<1>11. IdsUnique' /\ RidsUnique' /\ NoTwin' /\ CancelNotices'
  BY <1>2 DEF IInv, IdsUnique, RidsUnique, NoTwin, CancelNotices, exchange
<1> QED BY <1>7, <1>8, <1>9, <1>10, <1>11, GuardClosed DEF IInv

-----------------------------------------------------------------------------
(* Steps of the gateway and the exchange.                                  *)

LEMMA SendsNotice ==
  ASSUME IInv, NEW n \in Notice, Sends(n), cancelled \subseteq cancelled',
         n.type = "C" => n.org \in cancelled'
  PROVE  notices' \subseteq Notice /\ CancelNotices'
<1>1. PICK s \in Notice : /\ notices' = notices \cup {s}
                          /\ s.type = "C" => n.type = "C" /\ s.org = n.org
  <2>1. CASE gateway = "full"
    BY <2>1 DEF Sends
  <2>2. CASE gateway = "nokind"
    <3>1. [n EXCEPT !.kind = ""] \in Notice /\ [n EXCEPT !.kind = ""].type = n.type
          /\ [n EXCEPT !.kind = ""].org = n.org
      BY DEF Notice
    <3> QED BY <2>2, <3>1 DEF Sends
  <2>3. CASE gateway = "bare"
    <3>1. [n EXCEPT !.kind = "", !.type = "", !.org = 0] \in Notice
          /\ [n EXCEPT !.kind = "", !.type = "", !.org = 0].type = ""
      BY DEF Notice
    <3> QED BY <2>3, <3>1 DEF Sends
  <2> QED BY <2>1, <2>2, <2>3 DEF IInv, TypeOK
<1> QED BY <1>1 DEF IInv, TypeOK, CancelNotices

(* What the relay keeps is left alone; an order once cancelled stays so.   *)
LEMMA OutsideStep ==
  ASSUME IInv, UNCHANGED <<guard, pending, outcome, gateway>>, cancelled \subseteq cancelled',
         wire' \subseteq Entry, working' \subseteq Entry, cancelled' \subseteq Resting,
         notices' \subseteq Notice, CancelNotices', foreign' \in Nat
  PROVE  IInv'
<1>1. TypeOK'
  BY DEF IInv, TypeOK, guard
<1>2. CancelledIsTrue'
  BY DEF IInv, CancelledIsTrue
<1> QED BY <1>1, <1>2 DEF IInv, guard, IdsUnique, RidsUnique, PendingIsOpen, GuardIsPending,
                          NoTwin, OneAnswer

LEMMA NoticeOfType ==
  ASSUME NEW e \in Entry, NEW type \in {"A", "E", "C", "M", "R"}
  PROVE  /\ NoticeOf(e, type) \in Notice
         /\ NoticeOf(e, type).type = type /\ NoticeOf(e, type).org = e.msg.org
<1>1. e.msg \in Message /\ e.id \in Nat
  BY MessagesAssumption DEF Entry
<1>2. /\ e.msg.kind \in {"N", "M", "C", ""} /\ e.msg.org \in Nat /\ e.msg.qty \in Nat
      /\ e.msg.price \in Nat /\ e.msg.side \in {"B", "S", "-"}
  BY <1>1 DEF Message
<1> QED BY <1>1, <1>2 DEF NoticeOf, Notice

LEMMA AcceptsStep == ASSUME IInv, NEW e \in wire, Accepts(e) PROVE IInv'
<1>1. e \in Entry /\ e.msg \in Message
  BY MessagesAssumption DEF IInv, TypeOK, Entry
<1> DEFINE type == CASE e.msg.kind = "N" -> "A" [] e.msg.kind = "M" -> "M" [] e.msg.kind = "C" -> "C"
<1>2. /\ e.msg.kind \in {"N", "M", "C"} /\ type \in {"A", "M", "C"}
      /\ type = "C" => e.msg.kind = "C"
  BY <1>1 DEF Message
<1>3. Sends(NoticeOf(e, type))
  BY DEF Accepts
<1> HIDE DEF type
<1>4. /\ e.msg.kind = "C" => cancelled' = cancelled \cup {e.msg.org}
      /\ e.msg.kind # "C" => cancelled' = cancelled
      /\ e.msg.org \in {0} \cup (Resting \ cancelled)
  BY DEF Accepts
<1>5. e.msg.kind = "C" => e.msg.org # 0
  BY <1>1, MessagesAssumption DEF IInv, TypeOK, Entry
<1>6. cancelled' \subseteq Resting /\ cancelled \subseteq cancelled'
  BY <1>4, <1>5 DEF IInv, TypeOK
<1>7. notices' \subseteq Notice /\ CancelNotices'
  BY <1>1, <1>2, <1>3, <1>4, <1>6, NoticeOfType, SendsNotice
<1>8. /\ UNCHANGED <<guard, pending, outcome, gateway, foreign>>
      /\ wire' \subseteq Entry /\ working' \subseteq Entry
  BY <1>1 DEF Accepts, IInv, TypeOK
<1> QED BY <1>6, <1>7, <1>8, OutsideStep DEF IInv, TypeOK

LEMMA RejectsStep == ASSUME IInv, NEW e \in wire, Rejects(e) PROVE IInv'
<1>1. e \in Entry
  BY DEF IInv, TypeOK
<1>2. Sends(NoticeOf(e, "R")) /\ UNCHANGED cancelled
  BY DEF Rejects
<1>3. notices' \subseteq Notice /\ CancelNotices'
  BY <1>1, <1>2, NoticeOfType, SendsNotice
<1> QED BY <1>3, OutsideStep DEF Rejects, IInv, TypeOK

LEMMA FillsStep == ASSUME IInv, NEW e \in working, Fills(e) PROVE IInv'
<1>1. e \in Entry /\ e.msg.qty \in Nat
  BY MessagesAssumption DEF IInv, TypeOK, Entry, Message
<1>2. PICK qty \in 1..e.msg.qty : Sends([NoticeOf(e, "E") EXCEPT !.qty = qty])
  BY DEF Fills
<1> DEFINE n == NoticeOf(e, "E")
<1>3. n \in Notice /\ n.type = "E" /\ qty \in Nat
  BY <1>1, NoticeOfType
<1> HIDE DEF n
<1>4. [n EXCEPT !.qty = qty] \in Notice /\ [n EXCEPT !.qty = qty].type = "E"
  BY <1>3 DEF Notice
<1>5. notices' \subseteq Notice /\ CancelNotices'
  <2>1. Sends([n EXCEPT !.qty = qty]) /\ UNCHANGED cancelled
    BY <1>2 DEF Fills, n
  <2> QED BY <1>4, <2>1, SendsNotice
<1> QED BY <1>5, OutsideStep DEF Fills, IInv, TypeOK

LEMMA ForeignNoticeStep == ASSUME IInv, ForeignNotice PROVE IInv'
<1>1. foreign' \in Nat /\ UNCHANGED <<guard, pending, outcome, wire, working, gateway>>
  BY DEF ForeignNotice, IInv, TypeOK
<1>2. CASE \E m \in Messages, type \in {"A", "R", "E"} :
             /\ Sends([ type |-> type, kind |-> "N", org |-> 0, side |-> m.side, qty |-> m.qty,
                        price |-> m.price, ok |-> type # "R", of |-> 0 ])
             /\ UNCHANGED cancelled
  <2>1. PICK m \in Messages, type \in {"A", "R", "E"} :
          /\ Sends([ type |-> type, kind |-> "N", org |-> 0, side |-> m.side, qty |-> m.qty,
                     price |-> m.price, ok |-> type # "R", of |-> 0 ])
          /\ UNCHANGED cancelled
    BY <1>2
  <2> DEFINE n == [ type |-> type, kind |-> "N", org |-> 0, side |-> m.side, qty |-> m.qty,
                    price |-> m.price, ok |-> type # "R", of |-> 0 ]
  <2>2. n \in Notice /\ n.type # "C"
    <3>1. m.side \in {"B", "S", "-"} /\ m.qty \in Nat /\ m.price \in Nat
      BY MessagesAssumption DEF Message
    <3> QED BY <3>1 DEF Notice
  <2>3. Sends(n) /\ UNCHANGED cancelled
    BY <2>1
  <2> HIDE DEF n
  <2>4. notices' \subseteq Notice /\ CancelNotices'
    BY <2>2, <2>3, SendsNotice
  <2> QED BY <1>1, <2>3, <2>4, OutsideStep DEF IInv, TypeOK
<1>3. CASE \E o \in Resting \ cancelled :
             /\ Sends([ type |-> "C", kind |-> "C", org |-> o, side |-> "B", qty |-> 1,
                        price |-> 1, ok |-> TRUE, of |-> 0 ])
             /\ cancelled' = cancelled \cup {o}
  <2>1. PICK o \in Resting \ cancelled :
          /\ Sends([ type |-> "C", kind |-> "C", org |-> o, side |-> "B", qty |-> 1,
                     price |-> 1, ok |-> TRUE, of |-> 0 ])
          /\ cancelled' = cancelled \cup {o}
    BY <1>3
  <2> DEFINE n == [ type |-> "C", kind |-> "C", org |-> o, side |-> "B", qty |-> 1,
                    price |-> 1, ok |-> TRUE, of |-> 0 ]
  <2>2. n \in Notice /\ n.org = o
    BY MessagesAssumption DEF Notice
  <2>3. Sends(n) /\ cancelled' = cancelled \cup {o}
    BY <2>1
  <2> HIDE DEF n
  <2>4. notices' \subseteq Notice /\ CancelNotices'
    BY <2>2, <2>3, SendsNotice
  <2> QED BY <1>1, <2>3, <2>4, OutsideStep DEF IInv, TypeOK
<1> QED BY <1>2, <1>3 DEF ForeignNotice

LEMMA StepIInv == IInv /\ [Next]_vars => IInv'
<1> SUFFICES ASSUME IInv, [Next]_vars PROVE IInv'
  OBVIOUS
<1>1. CASE UNCHANGED vars
  BY <1>1 DEF vars, guard, exchange, IInv, TypeOK, IdsUnique, RidsUnique, PendingIsOpen,
     CancelNotices, GuardIsPending, NoTwin, OneAnswer, CancelledIsTrue
<1>2. ASSUME NEW c \in Conns, NEW rid \in Rids, NEW m \in Messages, Handle(c, rid, m) PROVE IInv'
  BY <1>2, RefusedStep, SentStep DEF Handle
<1>3. CASE \E c \in Conns : ConnCloses(c)
  BY <1>3, ConnClosesStep
<1>4. CASE \E e \in pending : Timeout(e)
  BY <1>4, TimeoutStep
<1>5. CASE \E n \in notices : NoticeArrives(n)
  BY <1>5, NoticeStep
<1>6. CASE \/ \E e \in wire : Accepts(e) \/ Rejects(e)
           \/ \E e \in working : Fills(e)
           \/ ForeignNotice
  BY <1>6, AcceptsStep, RejectsStep, FillsStep, ForeignNoticeStep
<1> QED BY <1>1, <1>2, <1>3, <1>4, <1>5, <1>6 DEF Next

LEMMA Invariance == Spec => []IInv
BY InitIInv, StepIInv, PTL DEF Spec

-----------------------------------------------------------------------------
(* The state variables keep their types.                                   *)
THEOREM TypeCorrect == Spec => []TypeOK
<1>1. IInv => TypeOK
  BY DEF IInv
<1> QED BY <1>1, Invariance, PTL

(* The duplicate guard is the pending requests, after every release: by a  *)
(* notice, by the timeout, by a gate, by a closed tab.                     *)
THEOREM GuardMatchesPending == Spec => []GuardIsPending
<1>1. IInv => GuardIsPending
  BY DEF IInv
<1> QED BY <1>1, Invariance, PTL

(* The same order is never pending twice, whatever tab asks.               *)
THEOREM NoTwinIsPending == Spec => []NoTwin
<1>1. IInv => NoTwin
  BY DEF IInv
<1> QED BY <1>1, Invariance, PTL

(* Both together.                                                          *)
THEOREM GuardsAreExact == Spec => []GuardIsExact
<1>1. GuardIsPending /\ NoTwin => GuardIsExact
  BY DEF GuardIsExact
<1> QED BY <1>1, GuardMatchesPending, NoTwinIsPending, PTL

(* Every request that is over was answered once, unless its tab was gone.  *)
THEOREM AnsweredOnce == Spec => []OneAnswer
<1>1. IInv => OneAnswer
  BY DEF IInv
<1> QED BY <1>1, Invariance, PTL

(* Only a cancel of a cancelled order is told "cancelled", with gateways   *)
(* of every age and with other terminals on the same stock.                *)
THEOREM CancelledIsTold == Spec => []CancelledIsTrue
<1>1. IInv => CancelledIsTrue
  BY DEF IInv
<1> QED BY <1>1, Invariance, PTL

-----------------------------------------------------------------------------
(* Requests a notice cannot tell apart stay together at every axis.        *)
Together(P) ==
  P \subseteq pending /\ \A e \in P, f \in pending : Looks(f.msg) = Looks(e.msg) => f \in P

LEMMA LooksSame ==
  ASSUME NEW e, NEW f, Looks(f.msg) = Looks(e.msg)
  PROVE  /\ f.msg.kind = e.msg.kind /\ f.msg.org = e.msg.org /\ f.msg.side = e.msg.side
         /\ f.msg.qty = e.msg.qty /\ f.msg.price = e.msg.price
BY DEF Looks

LEMMA PoolTogether == ASSUME NEW n PROVE Together(Pool(pending, n))
<1> DEFINE P1 == Hard(pending, n)
<1> DEFINE P2 == ByNew(P1, n)
<1> DEFINE P3 == BySide(P2, n)
<1> DEFINE P4 == ByQty(P3, n)
<1> DEFINE P5 == ByPrice(P4, n)
<1>1. Together(P1)
  BY LooksSame DEF Together, Hard, ByOrgOrderNo, Refers
<1>2. Together(P2)
  <2> HIDE DEF P1
  <2> QED BY <1>1, LooksSame DEF Together, ByNew, Refine, Refers
<1>3. Together(P3)
  <2> HIDE DEF P2
  <2> QED BY <1>2, LooksSame DEF Together, BySide, Refine, Refers
<1>4. Together(P4)
  <2> HIDE DEF P3
  <2> QED BY <1>3, LooksSame DEF Together, ByQty, Refine
<1>5. Together(P5)
  <2> HIDE DEF P4
  <2> QED BY <1>4, LooksSame DEF Together, ByPrice, Refine
<1> QED BY <1>5 DEF Pool

(* A notice that is gone has arrived: no other step takes one.             *)
LEMMA NoticeTaken ==
  ASSUME [Next]_vars, NEW n \in notices \ notices'
  PROVE  NoticeArrives(n)
<1>1. ~UNCHANGED vars
  BY DEF vars, exchange
<1>2. ASSUME NEW c \in Conns, NEW rid \in Rids, NEW m \in Messages, Handle(c, rid, m)
      PROVE  FALSE
  BY <1>2 DEF Handle, DuplicateRefused, GateRefuses, Sent, exchange
<1>3. ASSUME NEW c \in Conns, ConnCloses(c) PROVE FALSE
  BY <1>3 DEF ConnCloses, exchange
<1>4. ASSUME NEW x \in pending, Timeout(x) PROVE FALSE
  BY <1>4 DEF Timeout, exchange
<1>5. ~(\E x \in wire : Accepts(x) \/ Rejects(x)) /\ ~(\E x \in working : Fills(x))
  BY DEF Accepts, Rejects, Fills, Sends
<1>6. ~ForeignNotice
  BY DEF ForeignNotice, Sends
<1>7. PICK x \in notices : NoticeArrives(x)
  BY <1>1, <1>2, <1>3, <1>4, <1>5, <1>6 DEF Next
<1>8. x = n
  BY <1>7 DEF NoticeArrives
<1> QED BY <1>7, <1>8

(* Of two pending requests a notice cannot tell apart it settles neither.  *)
THEOREM NoticesDoNotGuess == Spec => NoGuess
<1> DEFINE Step == \A n \in notices \ notices', e \in pending \ pending', f \in pending :
                     Looks(f.msg) = Looks(e.msg) => f = e
<1>1. ASSUME [Next]_vars PROVE Step
  <2> SUFFICES ASSUME NEW n \in notices \ notices', NEW e \in pending \ pending',
                      NEW f \in pending, Looks(f.msg) = Looks(e.msg)
               PROVE  f = e
    OBVIOUS
  <2>1. NoticeArrives(n)
    BY <1>1, NoticeTaken
  <2>2. PICK x \in NarrowPending(pending, n) : pending' = pending \ {x}
    BY <2>1 DEF NoticeArrives, Finish
  <2>3. e = x /\ e \in Pool(pending, n)
    BY <2>2 DEF NarrowPending
  <2>4. f \in Pool(pending, n)
    BY <2>3, PoolTogether DEF Together
  <2> QED BY <2>2, <2>3, <2>4 DEF NarrowPending
<1> QED BY <1>1, PTL DEF Spec, NoGuess

-----------------------------------------------------------------------------
(* A notice of a gateway that says everything fits the request it answers, *)
(* whatever of that request: its acceptance, a rejection, a fill.          *)
Fits(n, m) ==
  /\ n.kind = m.kind /\ n.org = m.org /\ n.price = m.price
  /\ n.type = "E" \/ n.qty = m.qty
  /\ m.kind = "N" => n.side = m.side
  /\ n.type = "C" => m.kind = "C"
  /\ n.type = "M" => m.kind = "M"
  /\ n.type = "E" => m.kind \in {"N", "M"}

(* What is on its way is of the request of its id.                         *)
Underway ==
  /\ \A x \in wire \cup working : x.id \in DOMAIN outcome
  /\ \A x \in wire \cup working, e \in pending : x.id = e.id => x = e
  /\ \A x \in working : x.msg.kind # "C"
  /\ \A n \in notices : n.of # 0 => n.of \in DOMAIN outcome

NoticesFit ==
  gateway = "full" => \A n \in notices, e \in pending : e.id = n.of => Fits(n, e.msg)

OInv == IInv /\ Underway /\ NoticesFit

(* A request that fits stays a candidate at every axis.                    *)
LEMMA OwnIsCandidate ==
  ASSUME IInv, NEW n \in Notice, NEW e \in pending, Fits(n, e.msg)
  PROVE  e \in Pool(pending, n)
<1> DEFINE P1 == Hard(pending, n)
<1> DEFINE P2 == ByNew(P1, n)
<1> DEFINE P3 == BySide(P2, n)
<1> DEFINE P4 == ByQty(P3, n)
<1> DEFINE P5 == ByPrice(P4, n)
<1>1. e.msg \in Message /\ (e.msg.org = 0 <=> e.msg.kind = "N")
  BY MessagesAssumption DEF IInv, TypeOK, Entry
<1>2. n.kind = e.msg.kind /\ n.kind \in {"N", "M", "C"}
  BY <1>1 DEF Fits, Message
<1>3. e \in ByOrgOrderNo(pending, n)
  BY <1>1 DEF ByOrgOrderNo, Fits, Refers
<1>4. n.kind \in Answerable(n)
  BY <1>2 DEF Answerable, Fits, Notice
<1>5. KindAxis(n) = e.msg.kind
  BY <1>2 DEF KindAxis
<1>6. e \in P1
  BY <1>2, <1>3, <1>4, <1>5 DEF Hard, Fits, Refers
<1>7. \A x \in P1 : x.msg.kind = e.msg.kind
  BY <1>2, <1>5 DEF Hard
<1>8. e \in P2 /\ P2 \subseteq P1
  <2> HIDE DEF P1
  <2> QED BY <1>6, <1>7 DEF ByNew, Refine, Refers
<1>9. e \in P3
  <2> HIDE DEF P1, P2
  <2> QED BY <1>7, <1>8 DEF BySide, Refine, Refers, Fits
<1>10. e \in P4
  <2> HIDE DEF P3
  <2> QED BY <1>9 DEF ByQty, Refine, Fits
<1>11. e \in P5
  <2> HIDE DEF P4
  <2> QED BY <1>10 DEF ByPrice, Refine, Fits
<1> QED BY <1>11 DEF Pool

-----------------------------------------------------------------------------
(* The relay leaves the way of a request alone: fewer requests are pending *)
(* and fewer notices are under way, or a new one is sent.                  *)
LEMMA RelayStep ==
  ASSUME OInv, pending' \subseteq pending, wire' = wire, working' = working,
         gateway' = gateway, notices' \subseteq notices, DOMAIN outcome \subseteq DOMAIN outcome'
  PROVE  Underway' /\ NoticesFit'
BY DEF OInv, Underway, NoticesFit

LEMMA HandleUnderway ==
  ASSUME OInv, NEW c \in Conns, NEW rid \in Rids, NEW m \in Messages, Handle(c, rid, m)
  PROVE  Underway' /\ NoticesFit'
<1>1. TypeOK /\ PendingIsOpen /\ Len(outcome) \in Nat /\ DOMAIN outcome = 1..Len(outcome)
  BY DEF OInv, IInv, TypeOK
<1>2. PICK answers \in {0, 1}, status \in {"none", "rejected"} : Told(m, answers, status)
  BY DEF Handle, DuplicateRefused, GateRefuses, Sent
<1>3. DOMAIN outcome' = DOMAIN outcome \cup {Len(outcome) + 1}
  <2> outcome' \in Seq(Outcome) /\ Len(outcome') = Len(outcome) + 1
    BY <1>1, <1>2, ToldOutcome
  <2> QED BY <1>1
<1>4. CASE DuplicateRefused(c, rid, m) \/ GateRefuses(c, rid, m)
  <2> UNCHANGED <<pending, wire, working, gateway, notices>>
    BY <1>4 DEF DuplicateRefused, GateRefuses, exchange
  <2> QED BY <1>3, RelayStep
<1>5. CASE Sent(c, rid, m)
  <2> DEFINE e == [id |-> NewId, conn |-> c, rid |-> rid, msg |-> m]
  <2>1. /\ pending' = pending \cup {e} /\ wire' = wire \cup {e}
        /\ UNCHANGED <<notices, working, gateway>>
    BY <1>5 DEF Sent
  <2>2. e.id = Len(outcome) + 1
    BY DEF NewId
  <2> HIDE DEF e
  <2>3. e.id \notin DOMAIN outcome /\ e.id # 0 /\ e.id \in DOMAIN outcome'
    BY <1>1, <1>3, <2>2
  <2>4. \A f \in pending : f.id \in DOMAIN outcome
    BY <1>1 DEF PendingIsOpen
  <2>5. Underway'
    BY <1>3, <2>1, <2>3, <2>4 DEF OInv, Underway
  <2>6. NoticesFit'
    BY <2>1, <2>3 DEF OInv, Underway, NoticesFit
  <2> QED BY <2>5, <2>6
<1> QED BY <1>4, <1>5 DEF Handle

LEMMA EndUnderway ==
  ASSUME OInv, \/ \E c \in Conns : ConnCloses(c)
               \/ \E e \in pending : Timeout(e)
               \/ \E n \in notices : NoticeArrives(n)
               \/ UNCHANGED vars
  PROVE  Underway' /\ NoticesFit'
<1>1. UNCHANGED <<wire, working, gateway>> /\ notices' \subseteq notices
  BY DEF ConnCloses, Timeout, NoticeArrives, vars, exchange
<1>2. pending' \subseteq pending
  BY DEF ConnCloses, Timeout, NoticeArrives, Finish, vars, guard
<1>3. DOMAIN outcome' = DOMAIN outcome
  BY DEF ConnCloses, Timeout, NoticeArrives, Finish, vars, guard
<1> QED BY <1>1, <1>2, <1>3, RelayStep

(* A notice is sent; what is on its way is what was, or moves on.          *)
LEMMA SendsUnderway ==
  ASSUME OInv, NEW n, Sends(n), UNCHANGED <<pending, outcome, gateway>>,
         wire' \cup working' \subseteq wire \cup working,
         \A x \in working' : x.msg.kind # "C",
         n.of # 0 => n.of \in DOMAIN outcome, n \in Notice,
         \A e \in pending : e.id = n.of => Fits(n, e.msg)
  PROVE  Underway' /\ NoticesFit'
<1>1. PICK s : /\ notices' = notices \cup {s} /\ s.of = n.of
               /\ gateway = "full" => s = n
  <2>1. CASE gateway = "full"
    BY <2>1 DEF Sends
  <2>2. CASE gateway = "nokind"
    <3> [n EXCEPT !.kind = ""].of = n.of
      BY DEF Notice
    <3> QED BY <2>2 DEF Sends
  <2>3. CASE gateway = "bare"
    <3> [n EXCEPT !.kind = "", !.type = "", !.org = 0].of = n.of
      BY DEF Notice
    <3> QED BY <2>3 DEF Sends
  <2> QED BY <2>1, <2>2, <2>3 DEF OInv, IInv, TypeOK
<1>2. Underway'
  BY <1>1 DEF OInv, Underway
<1>3. NoticesFit'
  BY <1>1 DEF OInv, NoticesFit
<1> QED BY <1>2, <1>3

(* A notice of a request fits it.                                          *)
LEMMA NoticeFits ==
  ASSUME OInv, NEW e \in wire \cup working, NEW type \in {"A", "E", "C", "M", "R"},
         type = "A" => e.msg.kind = "N", type = "C" => e.msg.kind = "C",
         type = "M" => e.msg.kind = "M", type = "E" => e.msg.kind \in {"N", "M"}
  PROVE  /\ NoticeOf(e, type) \in Notice
         /\ NoticeOf(e, type).of \in DOMAIN outcome
         /\ \A f \in pending : f.id = NoticeOf(e, type).of => f = e
         /\ Fits(NoticeOf(e, type), e.msg)
<1>1. e \in Entry
  BY DEF OInv, IInv, TypeOK
<1>2. NoticeOf(e, type) \in Notice /\ NoticeOf(e, type).of = e.id
  BY <1>1, NoticeOfType, ZenonT(60) DEF NoticeOf
<1>3. Fits(NoticeOf(e, type), e.msg)
  BY DEF Fits, NoticeOf
<1> QED BY <1>2, <1>3 DEF OInv, Underway

LEMMA AcceptsUnderway == ASSUME OInv, NEW e \in wire, Accepts(e) PROVE Underway' /\ NoticesFit'
<1>1. e.msg \in Message
  BY MessagesAssumption DEF OInv, IInv, TypeOK, Entry
<1> DEFINE type == CASE e.msg.kind = "N" -> "A" [] e.msg.kind = "M" -> "M" [] e.msg.kind = "C" -> "C"
<1>2. /\ type \in {"A", "M", "C"} /\ (type = "A" => e.msg.kind = "N")
      /\ (type = "M" => e.msg.kind = "M") /\ (type = "C" => e.msg.kind = "C")
  BY <1>1 DEF Message
<1>3. Sends(NoticeOf(e, type)) /\ UNCHANGED <<pending, outcome, gateway>>
  BY DEF Accepts
<1> HIDE DEF type
<1>4. /\ wire' \cup working' \subseteq wire \cup working
      /\ \A x \in working' : x.msg.kind # "C"
  BY DEF Accepts, OInv, Underway
<1> QED BY <1>2, <1>3, <1>4, NoticeFits, SendsUnderway

LEMMA RejectsUnderway == ASSUME OInv, NEW e \in wire, Rejects(e) PROVE Underway' /\ NoticesFit'
<1>1. /\ Sends(NoticeOf(e, "R")) /\ UNCHANGED <<pending, outcome, gateway>>
      /\ wire' \cup working' \subseteq wire \cup working
      /\ \A x \in working' : x.msg.kind # "C"
  BY DEF Rejects, OInv, Underway
<1> QED BY <1>1, NoticeFits, SendsUnderway

LEMMA FillsUnderway == ASSUME OInv, NEW e \in working, Fills(e) PROVE Underway' /\ NoticesFit'
<1>1. e.msg \in Message /\ e.msg.qty \in Nat
  BY MessagesAssumption DEF OInv, IInv, TypeOK, Entry, Message
<1>2. e.msg.kind \in {"N", "M"}
  BY <1>1 DEF OInv, Underway, Message
<1> DEFINE n == NoticeOf(e, "E")
<1>3. /\ n \in Notice /\ n.type = "E" /\ n.of \in DOMAIN outcome /\ Fits(n, e.msg)
      /\ \A f \in pending : f.id = n.of => f = e
  BY <1>2, NoticeFits DEF NoticeOf
<1>4. PICK qty \in 1..e.msg.qty : Sends([n EXCEPT !.qty = qty])
  BY DEF Fills
<1> HIDE DEF n
<1> DEFINE s == [n EXCEPT !.qty = qty]
<1>5. s \in Notice /\ s.of = n.of /\ Fits(s, e.msg)
  <2>1. qty \in Nat
    BY <1>1
  <2> QED BY <1>3, <2>1 DEF Notice, Fits
<1>6. /\ UNCHANGED <<pending, outcome, gateway>>
      /\ wire' \cup working' \subseteq wire \cup working
      /\ \A x \in working' : x.msg.kind # "C"
  BY DEF Fills, OInv, Underway
<1>7. Sends(s)
  BY <1>4
<1> HIDE DEF s
<1> QED BY <1>3, <1>5, <1>6, <1>7, SendsUnderway

LEMMA ForeignUnderway == ASSUME OInv, ForeignNotice PROVE Underway' /\ NoticesFit'
<1>1. PICK n \in Notice : Sends(n) /\ n.of = 0
  <2>1. CASE \E m \in Messages, type \in {"A", "R", "E"} :
               Sends([ type |-> type, kind |-> "N", org |-> 0, side |-> m.side, qty |-> m.qty,
                       price |-> m.price, ok |-> type # "R", of |-> 0 ])
    <3>1. PICK m \in Messages, type \in {"A", "R", "E"} :
               Sends([ type |-> type, kind |-> "N", org |-> 0, side |-> m.side, qty |-> m.qty,
                       price |-> m.price, ok |-> type # "R", of |-> 0 ])
      BY <2>1
    <3> DEFINE s == [ type |-> type, kind |-> "N", org |-> 0, side |-> m.side, qty |-> m.qty,
                      price |-> m.price, ok |-> type # "R", of |-> 0 ]
    <3>2. m.side \in {"B", "S", "-"} /\ m.qty \in Nat /\ m.price \in Nat
      BY MessagesAssumption DEF Message
    <3>3. s \in Notice /\ s.of = 0
      BY <3>2 DEF Notice
    <3>4. Sends(s)
      BY <3>1
    <3> HIDE DEF s
    <3> QED BY <3>3, <3>4
  <2>2. CASE \E o \in Resting :
               Sends([ type |-> "C", kind |-> "C", org |-> o, side |-> "B", qty |-> 1,
                       price |-> 1, ok |-> TRUE, of |-> 0 ])
    <3>1. PICK o \in Resting :
               Sends([ type |-> "C", kind |-> "C", org |-> o, side |-> "B", qty |-> 1,
                       price |-> 1, ok |-> TRUE, of |-> 0 ])
      BY <2>2
    <3> DEFINE s == [ type |-> "C", kind |-> "C", org |-> o, side |-> "B", qty |-> 1,
                      price |-> 1, ok |-> TRUE, of |-> 0 ]
    <3>2. s \in Notice /\ s.of = 0
      BY MessagesAssumption DEF Notice
    <3>3. Sends(s)
      BY <3>1
    <3> HIDE DEF s
    <3> QED BY <3>2, <3>3
  <2> QED BY <2>1, <2>2 DEF ForeignNotice
<1>2. /\ UNCHANGED <<pending, outcome, gateway>> /\ wire' = wire /\ working' = working
      /\ \A x \in working' : x.msg.kind # "C"
  BY DEF ForeignNotice, guard, OInv, Underway
<1>3. \A e \in pending : e.id # 0
  <2>1. Len(outcome) \in Nat /\ DOMAIN outcome = 1..Len(outcome)
    BY DEF OInv, IInv, TypeOK
  <2> QED BY <2>1 DEF OInv, IInv, PendingIsOpen
<1> QED BY <1>1, <1>2, <1>3, SendsUnderway

LEMMA OwnInvariance == Spec => []OInv
<1>1. Init => Underway /\ NoticesFit
  BY DEF Init, Underway, NoticesFit
<1>2. OInv /\ [Next]_vars => Underway' /\ NoticesFit'
  BY HandleUnderway, EndUnderway, AcceptsUnderway, RejectsUnderway, FillsUnderway,
     ForeignUnderway DEF Next
<1>3. OInv <=> IInv /\ Underway /\ NoticesFit
  BY DEF OInv
<1> QED BY <1>1, <1>2, <1>3, InitIInv, StepIInv, PTL DEF Spec

(* While the request it answers is pending, a notice of a gateway that     *)
(* says what kind of request it answers settles no other.                  *)
THEOREM OwnRequestFirst == Spec => OwnFirst
<1> DEFINE Step == \A n \in notices \ notices' :
                     gateway = "full" /\ (\E e \in pending : e.id = n.of) =>
                       \A e \in pending \ pending' : e.id = n.of
<1>1. ASSUME OInv, [Next]_vars PROVE Step
  <2> SUFFICES ASSUME NEW n \in notices \ notices', gateway = "full",
                      NEW own \in pending, own.id = n.of,
                      NEW e \in pending \ pending'
               PROVE  e.id = n.of
    OBVIOUS
  <2>1. NoticeArrives(n)
    BY <1>1, NoticeTaken
  <2>2. PICK x \in NarrowPending(pending, n) : pending' = pending \ {x}
    BY <2>1 DEF NoticeArrives, Finish
  <2>3. own \in Pool(pending, n)
    BY <1>1, OwnIsCandidate DEF OInv, NoticesFit, IInv, TypeOK
  <2> QED BY <2>2, <2>3 DEF NarrowPending
<1> QED BY <1>1, OwnInvariance, PTL DEF Spec, OwnFirst
=============================================================================
