----------------------------- MODULE OrderHandler -----------------------------
(***************************************************************************)
(* The order requests of one user on one stock:                            *)
(*   relay/src/ws/order-handler.ts    duplicate guard, pending requests,   *)
(*                                    notices matched to them, the timeout *)
(*   relay/src/order/notice-status.ts what a notice says of a request      *)
(* and, external, the gateway and the exchange, which answer the orders    *)
(* sent, and send notices of orders this relay did not send.               *)
(*                                                                         *)
(* handle() has no await between its first check and the send, so it is    *)
(* one action; the id of a request is its place in `outcome`.  Users and   *)
(* stocks share nothing but the code: a notice is matched among the        *)
(* pending requests of its user and its ISIN.                              *)
(***************************************************************************)
EXTENDS Integers, Sequences, FiniteSets

CONSTANTS Conns,        \* connections (tabs) of the user
          Rids,         \* request ids a tab makes
          Messages,     \* the requests that are made, see Message
          Resting,      \* numbers of orders on the book from the start
          MaxRequests,  \* bound on the requests
          MaxForeign    \* bound on the notices of others' orders

(* A request: kind N new, M modify, C cancel; org is the order it is about *)
(* (0 for a new one).  A cancel carries no side.                           *)
Message == [ kind : {"N", "M", "C"}, account : Nat, org : Nat, side : {"B", "S", "-"},
             qty : Nat, price : Nat ]

ASSUME MessagesAssumption ==
  /\ Messages \subseteq Message
  /\ Resting \subseteq Nat \ {0}
  /\ \A m \in Messages : (m.kind = "N") <=> (m.org = 0)
ASSUME BoundsAssumption == MaxRequests \in Nat /\ MaxForeign \in Nat

VARIABLES
  claims,       \* ConnState.claims: Conns -> rids being handled
  dupKeys,      \* ConnState.dupKeys: Conns -> keys this connection holds
  userDupKeys,  \* userDupKeys of the user
  pending,      \* ConnState.pending of all connections, as Entries
  outcome,      \* what each request was told so far, see Outcome
  wire,         \* entries sent, not dealt with by the gateway
  notices,      \* notices on their way to the relay
  cancelled,    \* orders of Resting that were cancelled
  working,      \* entries of new or modifying orders that may still be filled
  gateway,      \* how much the gateway fills in: "full", "nokind", "bare"
  foreign       \* notices of others' orders so far

guard == <<claims, dupKeys, userDupKeys>>
exchange == <<wire, notices, cancelled, working, gateway>>
vars == <<guard, pending, outcome, exchange, foreign>>

Entry == [ id : Nat, conn : Conns, rid : Rids, msg : Messages ]

(* answers: results sent to the tab; by: the request the notice that       *)
(* settled it was about, 0 when it was another terminal's order, -1 when   *)
(* the relay decided; gone: the tab closed while the request was pending.  *)
Outcome == [ answers : Nat, by : Int, gone : BOOLEAN, msg : Messages,
             status : {"none", "rejected", "timeout", "accepted", "cancelled",
                       "filled", "partially_filled"} ]

(* type and kind are "" when the gateway leaves them out; of: the request  *)
(* the notice answers, 0 for another terminal's.                           *)
Notice == [ type : {"A", "E", "C", "M", "R", ""}, kind : {"N", "M", "C", ""}, org : Nat,
            side : {"B", "S", "-"}, qty : Nat, price : Nat, ok : BOOLEAN, of : Nat ]

(* dupKey: a new order is its account and terms, a cancel the order it     *)
(* cancels, a modify that order and the new terms.                         *)
DupKey(m) ==
  [ account |-> m.account, org |-> m.org, what |-> IF m.kind = "N" THEN m.side ELSE m.kind,
    qty |-> IF m.kind = "C" THEN 0 ELSE m.qty, price |-> IF m.kind = "C" THEN 0 ELSE m.price ]

Keys == {DupKey(m) : m \in Messages}

TypeOK ==
  /\ claims \in [Conns -> SUBSET Rids]
  /\ dupKeys \in [Conns -> SUBSET Keys]
  /\ userDupKeys \in SUBSET Keys
  /\ pending \in SUBSET Entry
  /\ outcome \in Seq(Outcome)
  /\ wire \in SUBSET Entry
  /\ notices \in SUBSET Notice
  /\ cancelled \in SUBSET Resting
  /\ working \in SUBSET Entry
  /\ gateway \in {"full", "nokind", "bare"}
  /\ foreign \in Nat

Init ==
  /\ claims = [c \in Conns |-> {}]
  /\ dupKeys = [c \in Conns |-> {}]
  /\ userDupKeys = {}
  /\ pending = {}
  /\ outcome = <<>>
  /\ wire = {} /\ notices = {} /\ cancelled = {} /\ working = {}
  /\ gateway \in {"full", "nokind", "bare"}
  /\ foreign = 0

-----------------------------------------------------------------------------
(* narrowPending: the candidates a notice may be about, for a set P of     *)
(* entries.  What the notice carries is a hard filter.                     *)

Refers(e) == e.msg.kind # "N"

ByOrgOrderNo(P, n) == IF n.org = 0 THEN P ELSE {e \in P : Refers(e) /\ e.msg.org = n.org}

(* REQUEST_KIND_BY_WIRE, then REQUEST_KIND_BY_NOTICE_TYPE                  *)
KindAxis(n) ==
  IF n.kind # "" THEN n.kind
  ELSE CASE n.type = "C" -> "C" [] n.type = "M" -> "M" [] n.type = "E" -> "N" [] OTHER -> ""

(* ANSWERABLE_KINDS_BY_NOTICE_TYPE                                         *)
Answerable(n) ==
  CASE n.type = "C" -> {"C"} [] n.type = "M" -> {"M"} [] n.type = "E" -> {"N", "M"}
    [] OTHER -> {"N", "M", "C"}

(* Mutant of Hard: before WR-03 the kind of the request was no axis.       *)
HardAnyKind(P, n) ==
  {e \in ByOrgOrderNo(P, n) : n.type \in {"C", "M"} => Refers(e)}

Hard(P, n) ==
  {e \in ByOrgOrderNo(P, n) :
     /\ n.type \in {"C", "M"} => Refers(e)
     /\ n.kind # "" => n.kind \in Answerable(n)
     /\ KindAxis(n) # "" => e.msg.kind = KindAxis(n)}

(* refine: an axis that leaves nothing is no axis.                         *)
Refine(pool, kept) == IF kept = {} THEN pool ELSE kept

(* NEW_ORDER_NOTICE_TYPES                                                  *)
IsNew(n) == n.type \in {"A", "E"}

ByNew(P, n) == IF IsNew(n) THEN Refine(P, {e \in P : ~Refers(e)}) ELSE P

BySide(P, n) ==
  IF IsNew(n) /\ n.side # "-" THEN Refine(P, {e \in P : ~Refers(e) /\ e.msg.side = n.side}) ELSE P

(* Mutant of ByQty: the quantity of a fill is taken for the order's.       *)
ByQtyOfFill(P, n) == IF n.qty > 0 THEN Refine(P, {e \in P : e.msg.qty = n.qty}) ELSE P

ByQty(P, n) == IF n.type # "E" /\ n.qty > 0 THEN Refine(P, {e \in P : e.msg.qty = n.qty}) ELSE P

ByPrice(P, n) ==
  IF n.type # "E" /\ n.price > 0 THEN Refine(P, {e \in P : e.msg.price = n.price}) ELSE P

Pool(P, n) == ByPrice(ByQty(BySide(ByNew(Hard(P, n), n), n), n), n)

(* Mutant of NarrowPending: the oldest of what is left.                    *)
NarrowPendingOldest(P, n) == {e \in Pool(P, n) : \A x \in Pool(P, n) : e.id <= x.id}

(* The one entry left, or none.                                            *)
NarrowPending(P, n) == {e \in Pool(P, n) : \A x \in Pool(P, n) : x = e}

(* Mutant of Status: a confirmed modification is a status of its own.      *)
StatusModified(n, m) ==
  CASE n.type = "R" -> "rejected" [] n.type = "A" -> "accepted" [] n.type = "C" -> "cancelled"
    [] n.type = "M" -> "modified"
    [] n.type = "E" -> IF n.qty >= m.qty THEN "filled" ELSE "partially_filled"
    [] OTHER -> IF n.ok THEN "accepted" ELSE "rejected"

(* statusOf                                                                *)
Status(n, m) ==
  CASE n.type = "R" -> "rejected"
    [] n.type \in {"A", "M"} -> "accepted"
    [] n.type = "C" -> "cancelled"
    [] n.type = "E" -> IF n.qty >= m.qty THEN "filled" ELSE "partially_filled"
    [] OTHER -> IF n.ok THEN "accepted" ELSE "rejected"

-----------------------------------------------------------------------------
(* handle()                                                                *)

NewId == Len(outcome) + 1

Requested(m) == Len(outcome) < MaxRequests

Told(m, answers, status) ==
  outcome' = Append(outcome, [answers |-> answers, by |-> -1, gone |-> FALSE, msg |-> m,
                              status |-> status])

(* Mutant of Duplicate: the guard of one tab does not see the other's.     *)
DuplicateInTab(c, rid, m) == rid \in claims[c] \/ DupKey(m) \in dupKeys[c]

(* The check before everything else.                                       *)
Duplicate(c, rid, m) == rid \in claims[c] \/ DupKey(m) \in userDupKeys

DuplicateRefused(c, rid, m) ==
  /\ Requested(m) /\ Duplicate(c, rid, m)
  /\ Told(m, 1, "rejected")
  /\ UNCHANGED <<guard, pending, exchange, foreign>>

(* No ready session, an account it does not allow, an unknown stock, a     *)
(* message that cannot be built, or a send that fails: claimed and, in the *)
(* same call, released again.                                              *)
GateRefuses(c, rid, m) ==
  /\ Requested(m) /\ ~Duplicate(c, rid, m)
  /\ Told(m, 1, "rejected")
  /\ UNCHANGED <<guard, pending, exchange, foreign>>

Sent(c, rid, m) ==
  LET e == [id |-> NewId, conn |-> c, rid |-> rid, msg |-> m]
  IN /\ Requested(m) /\ ~Duplicate(c, rid, m)
     /\ claims' = [claims EXCEPT ![c] = @ \cup {rid}]
     /\ dupKeys' = [dupKeys EXCEPT ![c] = @ \cup {DupKey(m)}]
     /\ userDupKeys' = userDupKeys \cup {DupKey(m)}
     /\ pending' = pending \cup {e}
     /\ Told(m, 0, "none")
     /\ wire' = wire \cup {e}
     /\ UNCHANGED <<notices, cancelled, working, gateway, foreign>>

(* release: the user's key is freed only by the connection that holds it.  *)
Release(e) ==
  /\ claims' = [claims EXCEPT ![e.conn] = @ \ {e.rid}]
  /\ dupKeys' = [dupKeys EXCEPT ![e.conn] = @ \ {DupKey(e.msg)}]
  /\ userDupKeys' = IF DupKey(e.msg) \in dupKeys[e.conn]
                      THEN userDupKeys \ {DupKey(e.msg)} ELSE userDupKeys

(* Mutant of Finish: the entry is answered and stays.                      *)
FinishKeepsEntry(e, status, by) ==
  /\ outcome' = [outcome EXCEPT ![e.id].answers = @ + 1, ![e.id].status = status, ![e.id].by = by]
  /\ UNCHANGED pending
  /\ Release(e)

(* finish: the entry is dropped, its claims released, its tab told.        *)
Finish(e, status, by) ==
  /\ outcome' = [outcome EXCEPT ![e.id].answers = @ + 1, ![e.id].status = status, ![e.id].by = by]
  /\ pending' = pending \ {e}
  /\ Release(e)

(* Five seconds: the result is not known.                                  *)
Timeout(e) ==
  /\ e \in pending
  /\ Finish(e, "timeout", -1)
  /\ UNCHANGED <<exchange, foreign>>

(* The "order" listener.                                                   *)
NoticeArrives(n) ==
  /\ n \in notices
  /\ notices' = notices \ {n}
  /\ IF NarrowPending(pending, n) = {} THEN UNCHANGED <<guard, pending, outcome>>
     ELSE \E e \in NarrowPending(pending, n) : Finish(e, Status(n, e.msg), n.of)
  /\ UNCHANGED <<wire, cancelled, working, gateway, foreign>>

(* closeConn                                                               *)
ConnCloses(c) ==
  /\ \E e \in pending : e.conn = c
  /\ pending' = {e \in pending : e.conn # c}
  /\ claims' = [claims EXCEPT ![c] = {}]
  /\ userDupKeys' = userDupKeys \ dupKeys[c]
  /\ dupKeys' = [dupKeys EXCEPT ![c] = {}]
  /\ outcome' = [i \in DOMAIN outcome |->
                   [outcome[i] EXCEPT !.gone = @ \/ \E e \in pending : e.conn = c /\ e.id = i]]
  /\ UNCHANGED <<exchange, foreign>>

-----------------------------------------------------------------------------
(* The gateway and the exchange (external).  A gateway from before the     *)
(* request kind leaves it out, an older one the type and the number too.   *)
(* A request or notice that is lost is one whose step is never taken, and  *)
(* notices overtake one another: nothing forces the steps or their order.  *)

Sends(n) ==
  notices' = notices \cup
    {CASE gateway = "full" -> n
       [] gateway = "nokind" -> [n EXCEPT !.kind = ""]
       [] gateway = "bare" -> [n EXCEPT !.kind = "", !.type = "", !.org = 0]}

NoticeOf(e, type) ==
  [ type |-> type, kind |-> e.msg.kind, org |-> e.msg.org, qty |-> e.msg.qty,
    price |-> e.msg.price, ok |-> type # "R", of |-> e.id,
    side |-> IF e.msg.kind = "C" THEN "B" ELSE e.msg.side ]

(* A cancel or a modification is accepted of an order still on the book.   *)
Accepts(e) ==
  /\ e \in wire /\ e.msg.org \in {0} \cup (Resting \ cancelled)
  /\ wire' = wire \ {e}
  /\ Sends(NoticeOf(e, CASE e.msg.kind = "N" -> "A" [] e.msg.kind = "M" -> "M"
                         [] e.msg.kind = "C" -> "C"))
  /\ cancelled' = IF e.msg.kind = "C" THEN cancelled \cup {e.msg.org} ELSE cancelled
  /\ working' = IF e.msg.kind = "C" THEN {x \in working : x.msg.org # e.msg.org}
                                    ELSE working \cup {e}
  /\ UNCHANGED <<guard, pending, outcome, gateway, foreign>>

Rejects(e) ==
  /\ e \in wire
  /\ wire' = wire \ {e}
  /\ Sends(NoticeOf(e, "R"))
  /\ UNCHANGED <<guard, pending, outcome, cancelled, working, gateway, foreign>>

(* A fill carries what was executed, at what price.                        *)
Fills(e) ==
  /\ e \in working
  /\ working' = working \ {e}
  /\ \E qty \in 1..e.msg.qty : Sends([NoticeOf(e, "E") EXCEPT !.qty = qty])
  /\ UNCHANGED <<guard, pending, outcome, wire, cancelled, gateway, foreign>>

(* An automatic order, or another terminal's, is accepted, rejected or     *)
(* filled; or a resting order is cancelled from there.                     *)
ForeignNotice ==
  /\ foreign < MaxForeign /\ foreign' = foreign + 1
  /\ \/ \E m \in Messages, type \in {"A", "R", "E"} :
          /\ m.kind = "N"
          /\ Sends([ type |-> type, kind |-> "N", org |-> 0, side |-> m.side, qty |-> m.qty,
                     price |-> m.price, ok |-> type # "R", of |-> 0 ])
          /\ UNCHANGED cancelled
     \/ \E o \in Resting \ cancelled :
          /\ Sends([ type |-> "C", kind |-> "C", org |-> o, side |-> "B", qty |-> 1, price |-> 1,
                     ok |-> TRUE, of |-> 0 ])
          /\ cancelled' = cancelled \cup {o}
  /\ UNCHANGED <<guard, pending, outcome, wire, working, gateway>>

-----------------------------------------------------------------------------
Handle(c, rid, m) ==
  DuplicateRefused(c, rid, m) \/ GateRefuses(c, rid, m) \/ Sent(c, rid, m)

Next ==
  \/ \E c \in Conns, rid \in Rids, m \in Messages : Handle(c, rid, m)
  \/ \E c \in Conns : ConnCloses(c)
  \/ \E e \in pending : Timeout(e)
  \/ \E n \in notices : NoticeArrives(n)
  \/ \E e \in wire : Accepts(e) \/ Rejects(e)
  \/ \E e \in working : Fills(e)
  \/ ForeignNotice

Spec == Init /\ [][Next]_vars
-----------------------------------------------------------------------------
(* The duplicate guard is exactly the pending requests, whatever ended the *)
(* others: no request that is over blocks the same order (T-16-33), and no *)
(* pending one is unguarded.                                               *)
GuardIsPending ==
  /\ userDupKeys = {DupKey(e.msg) : e \in pending}
  /\ \A c \in Conns :
       /\ claims[c] = {e.rid : e \in {x \in pending : x.conn = c}}
       /\ dupKeys[c] = {DupKey(e.msg) : e \in {x \in pending : x.conn = c}}

(* Two requests for the same order are never pending at once, from one tab *)
(* or from two (T-16-10, T-16-31).                                         *)
NoTwin == \A e, f \in pending : DupKey(e.msg) = DupKey(f.msg) => e = f

(* Together: the guard admits an order exactly when it is not pending.     *)
GuardIsExact == GuardIsPending /\ NoTwin

(* Every request is told its result once, unless its tab closed while it   *)
(* was pending; a notice and the timeout do not both answer it.            *)
OneAnswer ==
  \A i \in DOMAIN outcome :
    outcome[i].answers =
      IF outcome[i].gone \/ \E e \in pending : e.id = i THEN 0 ELSE 1

(* "cancelled" is told only of a cancel, and the order it is about was     *)
(* cancelled: a live order is never shown as cancelled (GC-CR-01, WR-03).  *)
CancelledIsTrue ==
  \A i \in DOMAIN outcome :
    outcome[i].status = "cancelled" => outcome[i].msg.kind = "C" /\ outcome[i].msg.org \in cancelled

(* While the request a notice answers is pending, the notice settles no    *)
(* other request, if the gateway says what kind of request it answers.     *)
OwnFirst ==
  [][ \A n \in notices \ notices' :
        gateway = "full" /\ (\E e \in pending : e.id = n.of) =>
          \A e \in pending \ pending' : e.id = n.of ]_vars

(* What the requests have in common for a notice.                          *)
Looks(m) == [kind |-> m.kind, org |-> m.org, side |-> m.side, qty |-> m.qty, price |-> m.price]

(* Of two pending requests a notice cannot tell apart it settles neither:  *)
(* "잘못 귀속된 결과는 결과가 없는 것보다 나쁘다".                         *)
NoGuess ==
  [][ \A n \in notices \ notices', e \in pending \ pending', f \in pending :
        Looks(f.msg) = Looks(e.msg) => f = e ]_vars

(* A new order is told a result only by its own notice: the notices of     *)
(* another terminal's orders and the fills that follow an acceptance are   *)
(* not for the pending ones ("대기 밖 통보(접수 이후의 체결·자동주문·      *)
(* 다른 단말 주문)는 여기서 할 일이 없다").                                *)
ResultIsOwn ==
  \A i \in DOMAIN outcome : outcome[i].msg.kind = "N" => outcome[i].by \in {-1, i}
=============================================================================
