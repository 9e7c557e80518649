--------------------------- MODULE DmaSession_proofs ---------------------------
(***************************************************************************)
(* Proofs about DmaSession, for every set of accounts and every bound.     *)
(*                                                                         *)
(* The inductive invariant is TypeOK and Shape.  Shape ties the state of   *)
(* the session to the state of its socket: which states go with an open    *)
(* line, what is armed when, and what the history says then.               *)
(***************************************************************************)
EXTENDS DmaSession, FiniteSetTheorems, TLAPS

Over == state \in Terminal \/ closed

(* The reconnect loop is on exactly while the session is not over.         *)
LoopShape ==
  /\ Over => client.sock = "none" /\ client.retry = 0 /\ ~client.auto
  /\ ~Over => client.auto
  /\ state = "idle" => client.sock = "none" /\ client.retry = 0 /\ hist.downs = 0
  /\ closed => state # "idle"
  /\ client.retry # 0 => client.sock = "none"
  /\ hist.refused => Over

(* Which states go with which socket.                                      *)
SocketShape ==
  /\ client.sock # "open" => conn = NoConn
  /\ client.sock = "open" => state \in {"logging_in", "declaring", "ready"}
  /\ ~Over /\ client.sock \in {"none", "connecting"} =>
       state \in {"idle", "connecting", "reconnecting"}
  /\ ~Over /\ client.sock = "none" /\ state # "idle" => client.retry # 0

(* Which deadlines are armed.                                              *)
TimerShape ==
  /\ client.sock \in {"none", "connecting"} => timers = NoTimers /\ pendingDeclare = {}
  /\ timers.login \in {0, client.gen}
  /\ timers.account \in {0, client.gen}
  /\ timers.declare \in {0, client.gen}
  /\ client.sock = "open" /\ state = "logging_in" => timers.login # 0
  /\ client.sock = "open" /\ state = "declaring" => timers.account # 0
  /\ pendingDeclare # {} => timers.declare # 0

(* The allow list against what the gateway listed and the 87s removed.     *)
AccountShape ==
  /\ state = "declaring" => accounts \subseteq pendingAccounts \cup hist.confirmed
  /\ state = "ready" => pendingAccounts = {} /\ accounts \subseteq hist.confirmed
  /\ accounts \cap hist.dropped = {}
  /\ pendingDeclare \cap hist.dropped = {}

(* Generations and the reconnect counter.                                  *)
CountShape ==
  /\ hist.readyGen <= client.gen
  /\ state \in {"logging_in", "declaring"} /\ ~Over => hist.readyGen < client.gen
  /\ state = "ready" /\ ~Over => hist.readyGen = client.gen
  /\ client.sock = "open" => client.gen > 0
  /\ client.retry # 0 => client.retry = hist.downs
  /\ ~Over /\ client.sock # "none" => client.attempts = hist.downs

Shape == LoopShape /\ SocketShape /\ TimerShape /\ AccountShape /\ CountShape

IInv == TypeOK /\ Shape

-----------------------------------------------------------------------------
LEMMA InitTypeOK == Init => TypeOK
<1> SUFFICES ASSUME Init PROVE TypeOK
  OBVIOUS
<1>1. conn \in ConnRecord
  BY DEF Init, NoConn, ConnRecord
<1>2. client \in ClientRecord /\ hist \in HistRecord /\ gateway \in GatewayRecord
  BY DEF Init, ClientRecord, HistRecord, GatewayRecord
<1>3. timers \in [login : Nat, account : Nat, declare : Nat]
  BY DEF Init, NoTimers
<1>4. notices \in Seq(SUBSET Accounts)
  BY DEF Init
<1>5. bootPhase \in BOOLEAN /\ closed \in BOOLEAN
  BY Zenon DEF Init
<1>6. /\ state \in States
      /\ accounts \in SUBSET Accounts
      /\ pendingAccounts \in SUBSET Accounts
      /\ pendingDeclare \in SUBSET Accounts
      /\ declareRespLeft \in Nat /\ password \in Nat
      /\ faults \in Nat /\ edits \in Nat
  BY DEF Init, States
<1> QED BY <1>1, <1>2, <1>3, <1>4, <1>5, <1>6, Zenon DEF TypeOK

LEMMA InitShape == Init => Shape
BY DEF Init, Shape, LoopShape, SocketShape, TimerShape, AccountShape, CountShape,
       Over, Terminal, NoTimers

(* A permutation of a list of accounts turned into requests.               *)
LEMMA DeclarationsType ==
  ASSUME NEW S \in SUBSET Accounts, NEW order \in Orders(S)
  PROVE  Declarations(order) \in Seq(Request) /\ Cardinality(S) \in Nat
<1>1. Cardinality(S) \in Nat
  BY AccountsAssumption, FS_Subset, FS_CardinalityType
<1>2. order \in [1..Cardinality(S) -> S]
  BY DEF Orders
<1>3. \A i \in 1..Cardinality(S) :
        [type |-> "declare", pw |-> 0, for |-> {order[i]}] \in Request
  BY <1>2 DEF Request
<1>4. Declarations(order) \in [1..Cardinality(S) -> Request]
  BY <1>2, <1>3 DEF Declarations
<1> QED BY <1>1, <1>4

(* What each client operation keeps of its type.                           *)
LEMMA ClientTypes ==
  ASSUME NEW c \in ClientRecord
  PROVE  /\ Connect(c) \in ClientRecord
         /\ OnConnected(c) \in ClientRecord
         /\ Destroy(c) \in ClientRecord
         /\ Destroy(StopReconnect(c)) \in ClientRecord
         /\ DropTransport(c) \in ClientRecord
         /\ ResetReconnectAttempts(c) \in ClientRecord
         /\ TransportDown(c) \in ClientRecord
<1>1. c.gen + 1 \in Nat /\ (IF c.auto THEN c.attempts + 1 ELSE 0) \in Nat
  BY DEF ClientRecord
<1>2. Connect(c) \in ClientRecord
  BY DEF ClientRecord, Connect, OpenSocket
<1>3. OnConnected(c) \in ClientRecord
  BY <1>1 DEF ClientRecord, OnConnected
<1>4. Destroy(c) \in ClientRecord
  BY <1>1 DEF ClientRecord, Destroy
<1>5. Destroy(StopReconnect(c)) \in ClientRecord
  BY <1>1 DEF ClientRecord, Destroy, StopReconnect
<1>6. DropTransport(c) \in ClientRecord /\ ResetReconnectAttempts(c) \in ClientRecord
  BY DEF ClientRecord, DropTransport, ResetReconnectAttempts
<1>7. TransportDown(c) \in ClientRecord
  BY <1>1 DEF ClientRecord, TransportDown
<1> QED BY <1>2, <1>3, <1>4, <1>5, <1>6, <1>7

(* Delivering an answer keeps the line well typed.                         *)
LEMMA AnsweredType ==
  ASSUME TypeOK, conn.resps # <<>>
  PROVE  Answered \in ConnRecord /\ Head(conn.resps) \in Response
<1>1. conn \in ConnRecord
  BY DEF TypeOK
<1>2. conn.resps \in Seq(Response)
  BY <1>1 DEF ConnRecord
<1>3. Tail(conn.resps) \in Seq(Response) /\ Head(conn.resps) \in Response
  BY <1>2
<1> QED BY <1>1, <1>3 DEF ConnRecord, Answered

LEMMA NoConnType == NoConn \in ConnRecord
BY DEF NoConn, ConnRecord

LEMMA LineAfterType ==
  ASSUME NEW k \in ConnRecord, LineAfter(k)
  PROVE  conn' \in ConnRecord
BY NoConnType DEF LineAfter

-----------------------------------------------------------------------------
(* #fail, from any live line: the session is over, or the line is dropped  *)
(* and the state kept until the socket closes.                             *)
LEMMA FailStep ==
  ASSUME IInv, ~Over, client.sock \in {"open", "closing"},
         NEW s \in States \ (Terminal \cup {"idle"}),
         s = state \/ (state = "logging_in" /\ s = "declaring"),
         NEW k \in ConnRecord,
         Fail(s), LineAfter(k), UNCHANGED <<bootPhase, closed>>,
         hist'.readyGen = hist.readyGen, hist'.downs = hist.downs,
         hist'.refused = hist.refused
  PROVE  /\ client' \in ClientRecord /\ conn' \in ConnRecord
         /\ timers' = NoTimers /\ pendingDeclare' = {} /\ declareRespLeft' = 0
         /\ state' \in States \ {"idle", "ready"} \/ state' = state
         /\ LoopShape' /\ SocketShape' /\ TimerShape' /\ CountShape'
<1>1. client \in ClientRecord /\ hist.readyGen \in Nat /\ hist.downs \in Nat
  BY DEF IInv, TypeOK, HistRecord
<1>2. client' \in ClientRecord /\ conn' \in ConnRecord
  BY <1>1, ClientTypes, LineAfterType DEF Fail
<1>3. timers' = NoTimers /\ pendingDeclare' = {} /\ declareRespLeft' = 0
  BY DEF Fail, ClearTimers
<1>4. CASE bootPhase
  <2>1. /\ client'.sock = "none" /\ client'.retry = 0 /\ client'.auto = FALSE
        /\ client'.gen = client.gen + 1
    BY <1>1, <1>4 DEF Fail, Destroy, ClientRecord
  <2>2. state' = "failed" /\ conn' = NoConn
    BY <1>4, <2>1 DEF Fail, LineAfter
  <2>3. LoopShape' /\ SocketShape' /\ TimerShape'
    BY <1>3, <2>1, <2>2 DEF LoopShape, SocketShape, TimerShape, Over, Terminal, NoTimers
  <2>4. CountShape'
    BY <1>1, <2>1, <2>2 DEF IInv, Shape, CountShape, Over, Terminal, ClientRecord
  <2> QED BY <1>2, <1>3, <2>2, <2>3, <2>4 DEF States
<1>5. CASE ~bootPhase
  <2>1. client' = [client EXCEPT !.sock = "closing"] /\ state' = s /\ conn' = NoConn
    BY <1>1, <1>5 DEF Fail, DropTransport, LineAfter, ClientRecord
  <2>2. /\ client'.sock = "closing" /\ client'.retry = client.retry /\ client'.gen = client.gen
        /\ client'.attempts = client.attempts
    BY <1>1, <2>1 DEF ClientRecord
  <2>3. client'.auto = client.auto
    BY <1>1, <2>1 DEF ClientRecord
  <2>4. LoopShape'
    <3>1. ~hist'.refused
      BY DEF IInv, Shape, LoopShape
    <3> QED BY <2>1, <2>2, <2>3, <3>1 DEF IInv, Shape, LoopShape, Over, Terminal
  <2>5. SocketShape' /\ TimerShape'
    BY <1>3, <2>1, <2>2 DEF SocketShape, TimerShape, NoTimers, Over
  <2>6. CountShape'
    BY <1>1, <2>1, <2>2 DEF IInv, Shape, LoopShape, CountShape, Over, Terminal, ClientRecord
  <2> QED BY <1>2, <1>3, <2>1, <2>4, <2>5, <2>6
<1> QED BY <1>4, <1>5

(* #fail leaves what the session knows about its accounts alone.           *)
LEMMA FailKeeps ==
  ASSUME IInv, ~Over, client.sock \in {"open", "closing"}, state \in States \ (Terminal \cup {"idle"}),
         NEW k \in ConnRecord, Fail(state), LineAfter(k), faults' \in Nat,
         UNCHANGED <<bootPhase, accounts, pendingAccounts, password, closed, gateway, notices,
                     edits, hist>>
  PROVE  IInv'
<1>1. /\ client' \in ClientRecord /\ conn' \in ConnRecord
      /\ timers' = NoTimers /\ pendingDeclare' = {} /\ declareRespLeft' = 0
      /\ state' \in States \ {"idle", "ready"} \/ state' = state
      /\ LoopShape' /\ SocketShape' /\ TimerShape' /\ CountShape'
  <2>1. /\ UNCHANGED <<bootPhase, closed>> /\ state \in States \ (Terminal \cup {"idle"})
        /\ hist'.readyGen = hist.readyGen /\ hist'.downs = hist.downs
        /\ hist'.refused = hist.refused
    OBVIOUS
  <2> QED BY <2>1, FailStep, Zenon
<1>2. state' = state \/ state' = "failed"
  BY DEF Fail
<1>3. TypeOK'
  BY <1>1 DEF IInv, TypeOK, NoTimers
<1>4. AccountShape'
  BY <1>1, <1>2 DEF IInv, Shape, AccountShape
<1> QED BY <1>1, <1>3, <1>4 DEF IInv, Shape

-----------------------------------------------------------------------------
(* The actions, one lemma each.  First those the session does not see.     *)
LEMMA OutsideStep ==
  ASSUME IInv, UNCHANGED <<session, client, hist>>,
         conn' \in ConnRecord, client.sock # "open" => conn' = conn,
         gateway' \in GatewayRecord, notices' \in Seq(SUBSET Accounts),
         faults' \in Nat, edits' \in Nat
  PROVE  IInv'
<1>1. TypeOK'
  BY DEF IInv, TypeOK, session
<1>2. Shape'
  BY DEF IInv, Shape, LoopShape, SocketShape, TimerShape, AccountShape, CountShape, Over, session
<1> QED BY <1>1, <1>2 DEF IInv

LEMMA GatewayAnswersStep == ASSUME IInv, GatewayAnswers PROVE IInv'
<1>1. /\ UNCHANGED <<session, client, hist, gateway, notices, edits>>
      /\ client.sock = "open" /\ conn.reqs # <<>>
  BY DEF GatewayAnswers, admin
<1>2. /\ conn \in ConnRecord /\ conn.reqs \in Seq(Request) /\ conn.resps \in Seq(Response)
      /\ conn.registered \in SUBSET Accounts /\ gateway.toml \in SUBSET Accounts
  BY DEF IInv, TypeOK, ConnRecord, GatewayRecord
<1>3. Head(conn.reqs) \in Request /\ Tail(conn.reqs) \in Seq(Request)
  BY <1>1, <1>2
<1> DEFINE r == Head(conn.reqs)
           reply(type, list) == [type |-> type, list |-> list, for |-> r.for]
           answer(type, list, registered) ==
             [conn EXCEPT !.reqs = Tail(@), !.resps = Append(@, reply(type, list)),
                          !.registered = registered]
           lost(registered) == [conn EXCEPT !.reqs = Tail(@), !.registered = registered]
           listed == (conn.registered \cup r.for) \cap gateway.toml
<1>4. ASSUME NEW type \in {"accepted", "refused", "broken", "accounts"},
             NEW list \in SUBSET Accounts, NEW registered \in SUBSET Accounts
      PROVE  answer(type, list, registered) \in ConnRecord
  <2>1. reply(type, list) \in Response
    BY <1>3 DEF Response, Request
  <2>2. Append(conn.resps, reply(type, list)) \in Seq(Response)
    BY <1>2, <2>1
  <2> QED BY <1>2, <1>3, <2>2 DEF ConnRecord
<1>5. lost(listed) \in ConnRecord
  <2>1. listed \in SUBSET Accounts
    BY <1>2
  <2> HIDE DEF listed
  <2> QED BY <1>2, <1>3, <2>1 DEF ConnRecord
<1>6. conn' \in ConnRecord
  <2>1. {} \in SUBSET Accounts /\ listed \in SUBSET Accounts
    BY <1>2
  <2>2. \/ \E others \in SUBSET gateway.toml : conn' = answer("accepted", gateway.toml, others)
        \/ conn' = answer("refused", {}, {})
        \/ conn' = answer("broken", {}, {})
        \/ conn' = answer("accounts", listed, listed)
        \/ conn' = lost(listed)
    BY Zenon DEF GatewayAnswers
  <2> HIDE DEF answer, lost, listed
  <2> QED BY <1>2, <1>4, <1>5, <2>1, <2>2
<1>7. faults' \in Nat
  <2>1. faults' = faults \/ faults' = faults + 1
    BY Zenon DEF GatewayAnswers, Fault
  <2> QED BY <2>1 DEF IInv, TypeOK
<1>8. gateway \in GatewayRecord /\ notices \in Seq(SUBSET Accounts) /\ edits \in Nat
  BY DEF IInv, TypeOK
<1> QED BY <1>1, <1>6, <1>7, <1>8, OutsideStep

LEMMA GatewayHangsStep == ASSUME IInv, GatewayHangs PROVE IInv'
<1>1. conn' \in ConnRecord
  BY DEF GatewayHangs, IInv, TypeOK, ConnRecord
<1>2. faults' \in Nat
  BY DEF GatewayHangs, Fault, IInv, TypeOK
<1> QED BY <1>1, <1>2, OutsideStep DEF GatewayHangs, IInv, TypeOK, admin

LEMMA AdminEditsAccountsStep == ASSUME IInv, AdminEditsAccounts PROVE IInv'
<1>1. gateway' \in GatewayRecord /\ notices' \in Seq(SUBSET Accounts) /\ edits' \in Nat
  BY DEF AdminEditsAccounts, Edit, IInv, TypeOK, GatewayRecord
<1> QED BY <1>1, OutsideStep DEF AdminEditsAccounts, IInv, TypeOK

LEMMA AdminChangesPasswordStep == ASSUME IInv, AdminChangesPassword PROVE IInv'
<1>1. gateway' \in GatewayRecord /\ edits' \in Nat
  BY SMTT(60) DEF AdminChangesPassword, Edit, IInv, TypeOK, GatewayRecord
<1> QED BY <1>1, OutsideStep DEF AdminChangesPassword, IInv, TypeOK

LEMMA AdminDeletesUserStep == ASSUME IInv, AdminDeletesUser PROVE IInv'
<1>1. gateway' \in GatewayRecord /\ edits' \in Nat
  BY DEF AdminDeletesUser, Edit, IInv, TypeOK, GatewayRecord
<1> QED BY <1>1, OutsideStep DEF AdminDeletesUser, IInv, TypeOK

LEMMA AdminReconnectsStep == ASSUME IInv, AdminReconnects PROVE IInv'
<1>1. notices' \in Seq(SUBSET Accounts) /\ faults' \in Nat
  BY DEF AdminReconnects, Fault, IInv, TypeOK, GatewayRecord
<1> QED BY <1>1, OutsideStep DEF AdminReconnects, IInv, TypeOK

-----------------------------------------------------------------------------
(* Lifetime.                                                               *)
LEMMA StartStep == ASSUME IInv, Start PROVE IInv'
<1>1. TypeOK'
  BY ClientTypes DEF IInv, TypeOK, Start, session, admin, States
<1>2. Shape'
  BY DEF IInv, TypeOK, Shape, LoopShape, SocketShape, TimerShape, AccountShape, CountShape,
         Over, Terminal, NoTimers, Start, Connect, OpenSocket, ClientRecord, HistRecord, admin
<1> QED BY <1>1, <1>2 DEF IInv

LEMMA CloseStep == ASSUME IInv, Close PROVE IInv'
<1>1. TypeOK'
  BY ClientTypes, LineAfterType DEF IInv, TypeOK, Close, ClearTimers, NoTimers, admin
<1>2. Shape'
  BY DEF IInv, TypeOK, Shape, LoopShape, SocketShape, TimerShape, AccountShape, CountShape,
         Over, Terminal, NoTimers, Close, ClearTimers, Destroy, LineAfter, ClientRecord,
         HistRecord, admin
<1> QED BY <1>1, <1>2 DEF IInv

(* terminate() after a deleted user.                                       *)
LEMMA TerminateStep == ASSUME IInv, Terminate PROVE IInv'
<1>1. TypeOK'
  <2>1. client' \in ClientRecord
    BY ClientTypes DEF IInv, TypeOK, admin, session, Terminate, ClearTimers, LineAfter
  <2>2. conn' \in ConnRecord
    BY <2>1, AnsweredType, LineAfterType, NoConnType DEF IInv, TypeOK, admin, session,
       Terminate, ClearTimers, Destroy, StopReconnect
  <2>3. hist' \in HistRecord
    BY AnsweredType DEF IInv, TypeOK, HistRecord, Response, admin, session, Terminate,
       ClearTimers, Destroy, StopReconnect, LineAfter
  <2>4. timers' \in [login : Nat, account : Nat, declare : Nat]
    BY DEF IInv, TypeOK, NoTimers, ClientRecord, admin, session, Terminate, ClearTimers,
       Destroy, StopReconnect, LineAfter
  <2>5. gateway' \in GatewayRecord /\ notices' \in Seq(SUBSET Accounts)
    BY DEF IInv, TypeOK, admin, session, Terminate
  <2>6. /\ state' \in States
        /\ accounts' \in SUBSET Accounts /\ pendingAccounts' \in SUBSET Accounts
        /\ pendingDeclare' \in SUBSET Accounts /\ declareRespLeft' \in Nat
        /\ password' \in Nat /\ faults' \in Nat /\ edits' \in Nat
    BY AnsweredType DEF IInv, TypeOK, States, Response, admin, session, Terminate,
       ClearTimers, Destroy, StopReconnect, LineAfter
  <2>7. bootPhase' \in BOOLEAN /\ closed' \in BOOLEAN
    BY Zenon DEF IInv, TypeOK, session, Terminate, ClearTimers, Destroy, StopReconnect,
       LineAfter
  <2> QED BY <2>1, <2>2, <2>3, <2>4, <2>5, <2>6, <2>7, Zenon DEF TypeOK
<1>2. LoopShape'
  BY DEF IInv, TypeOK, Shape, LoopShape, SocketShape, TimerShape, AccountShape, CountShape,
      Over, Terminal, NoTimers, ClientRecord, HistRecord, admin, session, Terminate,
      ClearTimers, Destroy, StopReconnect, LineAfter
<1>3. SocketShape'
  BY DEF IInv, TypeOK, Shape, LoopShape, SocketShape, TimerShape, AccountShape, CountShape,
      Over, Terminal, NoTimers, ClientRecord, HistRecord, admin, session, Terminate,
      ClearTimers, Destroy, StopReconnect, LineAfter
<1>4. TimerShape'
  BY DEF IInv, TypeOK, Shape, LoopShape, SocketShape, TimerShape, AccountShape, CountShape,
      Over, Terminal, NoTimers, ClientRecord, HistRecord, admin, session, Terminate,
      ClearTimers, Destroy, StopReconnect, LineAfter
<1>5. AccountShape'
  BY DEF IInv, TypeOK, Shape, LoopShape, SocketShape, TimerShape, AccountShape, CountShape,
      Over, Terminal, NoTimers, ClientRecord, HistRecord, admin, session, Terminate,
      ClearTimers, Destroy, StopReconnect, LineAfter
<1>6. CountShape'
  BY DEF IInv, TypeOK, Shape, LoopShape, SocketShape, TimerShape, AccountShape, CountShape,
      Over, Terminal, NoTimers, ClientRecord, HistRecord, admin, session, Terminate,
      ClearTimers, Destroy, StopReconnect, LineAfter
<1> QED BY <1>1, <1>2, <1>3, <1>4, <1>5, <1>6 DEF IInv, Shape

(* setPassword().                                                          *)
LEMMA SetPasswordStep == ASSUME IInv, SetPassword PROVE IInv'
<1>1. TypeOK'
  BY DEF IInv, TypeOK, States, ClientRecord, GatewayRecord, admin, session, SetPassword,
      GatewayRecord
<1>2. LoopShape'
  BY DEF IInv, TypeOK, Shape, LoopShape, SocketShape, TimerShape, AccountShape, CountShape,
      Over, Terminal, NoTimers, ClientRecord, HistRecord, admin, session, SetPassword,
      GatewayRecord
<1>3. SocketShape'
  BY DEF IInv, TypeOK, Shape, LoopShape, SocketShape, TimerShape, AccountShape, CountShape,
      Over, Terminal, NoTimers, ClientRecord, HistRecord, admin, session, SetPassword,
      GatewayRecord
<1>4. TimerShape'
  BY DEF IInv, TypeOK, Shape, LoopShape, SocketShape, TimerShape, AccountShape, CountShape,
      Over, Terminal, NoTimers, ClientRecord, HistRecord, admin, session, SetPassword,
      GatewayRecord
<1>5. AccountShape'
  BY DEF IInv, TypeOK, Shape, LoopShape, SocketShape, TimerShape, AccountShape, CountShape,
      Over, Terminal, NoTimers, ClientRecord, HistRecord, admin, session, SetPassword,
      GatewayRecord
<1>6. CountShape'
  BY DEF IInv, TypeOK, Shape, LoopShape, SocketShape, TimerShape, AccountShape, CountShape,
      Over, Terminal, NoTimers, ClientRecord, HistRecord, admin, session, SetPassword,
      GatewayRecord
<1> QED BY <1>1, <1>2, <1>3, <1>4, <1>5, <1>6 DEF IInv, Shape

-----------------------------------------------------------------------------(* The line.                                                               *)
(* A new line: generation one higher, the login deadline armed.            *)
LEMMA TcpConnectedStep == ASSUME IInv, TcpConnected PROVE IInv'
<1>1. TypeOK'
  <2>1. client' \in ClientRecord
    BY ClientTypes DEF IInv, TypeOK, admin, session, TcpConnected, NoConn
  <2>2. conn' \in ConnRecord
    <3>1. <<[type |-> "login", pw |-> password, for |-> {}]>> \in Seq(Request)
      BY DEF IInv, TypeOK, Request
    <3>2. [NoConn EXCEPT !.reqs = <<[type |-> "login", pw |-> password, for |-> {}]>>] \in ConnRecord
      BY <3>1, NoConnType DEF ConnRecord
    <3> QED BY <3>2, NoConnType DEF TcpConnected
  <2>3. hist' \in HistRecord
    BY AnsweredType DEF IInv, TypeOK, HistRecord, Response, admin, session, TcpConnected,
       OnConnected, NoConn
  <2>4. timers' \in [login : Nat, account : Nat, declare : Nat]
    BY DEF IInv, TypeOK, NoTimers, ClientRecord, admin, session, TcpConnected, OnConnected,
       NoConn
  <2>5. gateway' \in GatewayRecord /\ notices' \in Seq(SUBSET Accounts)
    BY DEF IInv, TypeOK, admin, session, TcpConnected
  <2>6. /\ state' \in States
        /\ accounts' \in SUBSET Accounts /\ pendingAccounts' \in SUBSET Accounts
        /\ pendingDeclare' \in SUBSET Accounts /\ declareRespLeft' \in Nat
        /\ password' \in Nat /\ faults' \in Nat /\ edits' \in Nat
    BY AnsweredType DEF IInv, TypeOK, States, Response, admin, session, TcpConnected,
       OnConnected, NoConn
  <2>7. bootPhase' \in BOOLEAN /\ closed' \in BOOLEAN
    BY Zenon DEF IInv, TypeOK, session, TcpConnected, OnConnected, NoConn
  <2> QED BY <2>1, <2>2, <2>3, <2>4, <2>5, <2>6, <2>7, Zenon DEF TypeOK
<1>2. LoopShape'
  BY DEF IInv, TypeOK, Shape, LoopShape, SocketShape, TimerShape, AccountShape, CountShape,
      Over, Terminal, NoTimers, ClientRecord, HistRecord, admin, session, TcpConnected,
      OnConnected, NoConn
<1>3. SocketShape'
  BY DEF IInv, TypeOK, Shape, LoopShape, SocketShape, TimerShape, AccountShape, CountShape,
      Over, Terminal, NoTimers, ClientRecord, HistRecord, admin, session, TcpConnected,
      OnConnected, NoConn
<1>4. TimerShape'
  BY DEF IInv, TypeOK, Shape, LoopShape, SocketShape, TimerShape, AccountShape, CountShape,
      Over, Terminal, NoTimers, ClientRecord, HistRecord, admin, session, TcpConnected,
      OnConnected, NoConn
<1>5. AccountShape'
  BY DEF IInv, TypeOK, Shape, LoopShape, SocketShape, TimerShape, AccountShape, CountShape,
      Over, Terminal, NoTimers, ClientRecord, HistRecord, admin, session, TcpConnected,
      OnConnected, NoConn
<1>6. CountShape'
  BY DEF IInv, TypeOK, Shape, LoopShape, SocketShape, TimerShape, AccountShape, CountShape,
      Over, Terminal, NoTimers, ClientRecord, HistRecord, admin, session, TcpConnected,
      OnConnected, NoConn
<1> QED BY <1>1, <1>2, <1>3, <1>4, <1>5, <1>6 DEF IInv, Shape

(* A line on which the LoginReq could not be written.                      *)
LEMMA LoginSendFailsStep == ASSUME IInv, LoginSendFails PROVE IInv'
<1>1. TypeOK'
  <2>1. client' \in ClientRecord
    BY ClientTypes DEF IInv, TypeOK, admin, session, LoginSendFails, ClearTimers, Fault,
       LineAfter
  <2>2. conn' \in ConnRecord
    BY <2>1, AnsweredType, LineAfterType, NoConnType DEF IInv, TypeOK, admin, session,
       LoginSendFails, ClearTimers, Fault, Destroy, DropTransport, OnConnected
  <2>3. hist' \in HistRecord
    BY AnsweredType DEF IInv, TypeOK, HistRecord, Response, admin, session, LoginSendFails,
       ClearTimers, Fault, Destroy, DropTransport, OnConnected, LineAfter
  <2>4. timers' \in [login : Nat, account : Nat, declare : Nat]
    BY DEF IInv, TypeOK, NoTimers, ClientRecord, admin, session, LoginSendFails, ClearTimers,
       Fault, Destroy, DropTransport, OnConnected, LineAfter
  <2>5. gateway' \in GatewayRecord /\ notices' \in Seq(SUBSET Accounts)
    BY DEF IInv, TypeOK, admin, session, LoginSendFails
  <2>6. /\ state' \in States
        /\ accounts' \in SUBSET Accounts /\ pendingAccounts' \in SUBSET Accounts
        /\ pendingDeclare' \in SUBSET Accounts /\ declareRespLeft' \in Nat
        /\ password' \in Nat /\ faults' \in Nat /\ edits' \in Nat
    BY AnsweredType DEF IInv, TypeOK, States, Response, admin, session, LoginSendFails,
       ClearTimers, Fault, Destroy, DropTransport, OnConnected, LineAfter
  <2>7. bootPhase' \in BOOLEAN /\ closed' \in BOOLEAN
    BY Zenon DEF IInv, TypeOK, session, LoginSendFails, ClearTimers, Fault, Destroy,
       DropTransport, OnConnected, LineAfter
  <2> QED BY <2>1, <2>2, <2>3, <2>4, <2>5, <2>6, <2>7, Zenon DEF TypeOK
<1>2. LoopShape'
  BY DEF IInv, TypeOK, Shape, LoopShape, SocketShape, TimerShape, AccountShape, CountShape,
      Over, Terminal, NoTimers, ClientRecord, HistRecord, admin, session, LoginSendFails,
      ClearTimers, Fault, Destroy, DropTransport, OnConnected, LineAfter
<1>3. SocketShape'
  BY DEF IInv, TypeOK, Shape, LoopShape, SocketShape, TimerShape, AccountShape, CountShape,
      Over, Terminal, NoTimers, ClientRecord, HistRecord, admin, session, LoginSendFails,
      ClearTimers, Fault, Destroy, DropTransport, OnConnected, LineAfter
<1>4. TimerShape'
  BY DEF IInv, TypeOK, Shape, LoopShape, SocketShape, TimerShape, AccountShape, CountShape,
      Over, Terminal, NoTimers, ClientRecord, HistRecord, admin, session, LoginSendFails,
      ClearTimers, Fault, Destroy, DropTransport, OnConnected, LineAfter
<1>5. AccountShape'
  BY DEF IInv, TypeOK, Shape, LoopShape, SocketShape, TimerShape, AccountShape, CountShape,
      Over, Terminal, NoTimers, ClientRecord, HistRecord, admin, session, LoginSendFails,
      ClearTimers, Fault, Destroy, DropTransport, OnConnected, LineAfter
<1>6. CountShape'
  BY DEF IInv, TypeOK, Shape, LoopShape, SocketShape, TimerShape, AccountShape, CountShape,
      Over, Terminal, NoTimers, ClientRecord, HistRecord, admin, session, LoginSendFails,
      ClearTimers, Fault, Destroy, DropTransport, OnConnected, LineAfter
<1> QED BY <1>1, <1>2, <1>3, <1>4, <1>5, <1>6 DEF IInv, Shape

(* The socket starts closing; nothing else moves until its close event.    *)
LEMMA LineBreaksStep == ASSUME IInv, LineBreaks PROVE IInv'
<1>1. TypeOK'
  <2>1. client' \in ClientRecord
    BY ClientTypes DEF IInv, TypeOK, admin, session, LineBreaks, Fault, LineAfter
  <2>2. conn' \in ConnRecord
    BY <2>1, AnsweredType, LineAfterType, NoConnType DEF IInv, TypeOK, admin, session,
       LineBreaks, Fault, DropTransport
  <2>3. hist' \in HistRecord
    BY AnsweredType DEF IInv, TypeOK, HistRecord, Response, admin, session, LineBreaks,
       Fault, DropTransport, LineAfter
  <2>4. timers' \in [login : Nat, account : Nat, declare : Nat]
    BY DEF IInv, TypeOK, NoTimers, ClientRecord, admin, session, LineBreaks, Fault,
       DropTransport, LineAfter
  <2>5. gateway' \in GatewayRecord /\ notices' \in Seq(SUBSET Accounts)
    BY DEF IInv, TypeOK, admin, session, LineBreaks
  <2>6. /\ state' \in States
        /\ accounts' \in SUBSET Accounts /\ pendingAccounts' \in SUBSET Accounts
        /\ pendingDeclare' \in SUBSET Accounts /\ declareRespLeft' \in Nat
        /\ password' \in Nat /\ faults' \in Nat /\ edits' \in Nat
    BY AnsweredType DEF IInv, TypeOK, States, Response, admin, session, LineBreaks, Fault,
       DropTransport, LineAfter
  <2>7. bootPhase' \in BOOLEAN /\ closed' \in BOOLEAN
    BY Zenon DEF IInv, TypeOK, session, LineBreaks, Fault, DropTransport, LineAfter
  <2> QED BY <2>1, <2>2, <2>3, <2>4, <2>5, <2>6, <2>7, Zenon DEF TypeOK
<1>2. LoopShape'
  BY DEF IInv, TypeOK, Shape, LoopShape, SocketShape, TimerShape, AccountShape, CountShape,
      Over, Terminal, NoTimers, ClientRecord, HistRecord, admin, session, LineBreaks, Fault,
      DropTransport, LineAfter
<1>3. SocketShape'
  BY DEF IInv, TypeOK, Shape, LoopShape, SocketShape, TimerShape, AccountShape, CountShape,
      Over, Terminal, NoTimers, ClientRecord, HistRecord, admin, session, LineBreaks, Fault,
      DropTransport, LineAfter
<1>4. TimerShape'
  BY DEF IInv, TypeOK, Shape, LoopShape, SocketShape, TimerShape, AccountShape, CountShape,
      Over, Terminal, NoTimers, ClientRecord, HistRecord, admin, session, LineBreaks, Fault,
      DropTransport, LineAfter
<1>5. AccountShape'
  BY DEF IInv, TypeOK, Shape, LoopShape, SocketShape, TimerShape, AccountShape, CountShape,
      Over, Terminal, NoTimers, ClientRecord, HistRecord, admin, session, LineBreaks, Fault,
      DropTransport, LineAfter
<1>6. CountShape'
  BY DEF IInv, TypeOK, Shape, LoopShape, SocketShape, TimerShape, AccountShape, CountShape,
      Over, Terminal, NoTimers, ClientRecord, HistRecord, admin, session, LineBreaks, Fault,
      DropTransport, LineAfter
<1> QED BY <1>1, <1>2, <1>3, <1>4, <1>5, <1>6 DEF IInv, Shape

(* The close event clears every deadline before a timer is armed.          *)
LEMMA SocketClosedStep == ASSUME IInv, SocketClosed PROVE IInv'
<1>1. TypeOK'
  <2>1. client' \in ClientRecord
    BY ClientTypes DEF IInv, TypeOK, admin, session, SocketClosed, ClearTimers
  <2>2. conn' \in ConnRecord
    BY <2>1, AnsweredType, LineAfterType, NoConnType DEF IInv, TypeOK, admin, session,
       SocketClosed, ClearTimers, TransportDown
  <2>3. hist' \in HistRecord
    <3>1. hist.downs + 1 \in Nat
      BY DEF IInv, TypeOK, HistRecord
    <3> QED BY <3>1, AnsweredType DEF IInv, TypeOK, HistRecord, admin, session, SocketClosed,
           ClearTimers, TransportDown
  <2>4. timers' \in [login : Nat, account : Nat, declare : Nat]
    BY DEF IInv, TypeOK, NoTimers, ClientRecord, admin, session, SocketClosed, ClearTimers,
       TransportDown
  <2>5. gateway' \in GatewayRecord /\ notices' \in Seq(SUBSET Accounts)
    BY DEF IInv, TypeOK, admin, session, SocketClosed
  <2>6. /\ state' \in States
        /\ accounts' \in SUBSET Accounts /\ pendingAccounts' \in SUBSET Accounts
        /\ pendingDeclare' \in SUBSET Accounts /\ declareRespLeft' \in Nat
        /\ password' \in Nat /\ faults' \in Nat /\ edits' \in Nat
    BY AnsweredType DEF IInv, TypeOK, States, Response, admin, session, SocketClosed,
       ClearTimers, TransportDown
  <2>7. bootPhase' \in BOOLEAN /\ closed' \in BOOLEAN
    BY Zenon DEF IInv, TypeOK, session, SocketClosed, ClearTimers, TransportDown
  <2> QED BY <2>1, <2>2, <2>3, <2>4, <2>5, <2>6, <2>7, Zenon DEF TypeOK
<1>2. LoopShape'
  BY DEF IInv, TypeOK, Shape, LoopShape, SocketShape, TimerShape, AccountShape, CountShape,
      Over, Terminal, NoTimers, ClientRecord, HistRecord, admin, session, SocketClosed,
      ClearTimers, TransportDown
<1>3. SocketShape'
  BY DEF IInv, TypeOK, Shape, LoopShape, SocketShape, TimerShape, AccountShape, CountShape,
      Over, Terminal, NoTimers, ClientRecord, HistRecord, admin, session, SocketClosed,
      ClearTimers, TransportDown
<1>4. TimerShape'
  BY DEF IInv, TypeOK, Shape, LoopShape, SocketShape, TimerShape, AccountShape, CountShape,
      Over, Terminal, NoTimers, ClientRecord, HistRecord, admin, session, SocketClosed,
      ClearTimers, TransportDown
<1>5. AccountShape'
  BY DEF IInv, TypeOK, Shape, LoopShape, SocketShape, TimerShape, AccountShape, CountShape,
      Over, Terminal, NoTimers, ClientRecord, HistRecord, admin, session, SocketClosed,
      ClearTimers, TransportDown
<1>6. CountShape'
  BY DEF IInv, TypeOK, Shape, LoopShape, SocketShape, TimerShape, AccountShape, CountShape,
      Over, Terminal, NoTimers, ClientRecord, HistRecord, admin, session, SocketClosed,
      ClearTimers, TransportDown
<1> QED BY <1>1, <1>2, <1>3, <1>4, <1>5, <1>6 DEF IInv, Shape

(* The next attempt, counted.                                              *)
LEMMA ReconnectTimerFiresStep == ASSUME IInv, ReconnectTimerFires PROVE IInv'
<1>1. TypeOK'
  BY DEF IInv, TypeOK, States, ClientRecord, GatewayRecord, admin, session,
      ReconnectTimerFires, OpenSocket
<1>2. LoopShape'
  BY DEF IInv, TypeOK, Shape, LoopShape, SocketShape, TimerShape, AccountShape, CountShape,
      Over, Terminal, NoTimers, ClientRecord, HistRecord, admin, session, ReconnectTimerFires,
      OpenSocket
<1>3. SocketShape'
  BY DEF IInv, TypeOK, Shape, LoopShape, SocketShape, TimerShape, AccountShape, CountShape,
      Over, Terminal, NoTimers, ClientRecord, HistRecord, admin, session, ReconnectTimerFires,
      OpenSocket
<1>4. TimerShape'
  BY DEF IInv, TypeOK, Shape, LoopShape, SocketShape, TimerShape, AccountShape, CountShape,
      Over, Terminal, NoTimers, ClientRecord, HistRecord, admin, session, ReconnectTimerFires,
      OpenSocket
<1>5. AccountShape'
  BY DEF IInv, TypeOK, Shape, LoopShape, SocketShape, TimerShape, AccountShape, CountShape,
      Over, Terminal, NoTimers, ClientRecord, HistRecord, admin, session, ReconnectTimerFires,
      OpenSocket
<1>6. CountShape'
  BY DEF IInv, TypeOK, Shape, LoopShape, SocketShape, TimerShape, AccountShape, CountShape,
      Over, Terminal, NoTimers, ClientRecord, HistRecord, admin, session, ReconnectTimerFires,
      OpenSocket
<1> QED BY <1>1, <1>2, <1>3, <1>4, <1>5, <1>6 DEF IInv, Shape

-----------------------------------------------------------------------------
(* Answers.                                                                *)
(* The refusal ends the loop, the line and the deadlines.                  *)
LEMMA LoginRefusedStep == ASSUME IInv, LoginRefused PROVE IInv'
<1>1. TypeOK'
  <2>1. client' \in ClientRecord
    BY ClientTypes DEF IInv, TypeOK, admin, session, LoginRefused, LoginFrame, FailNoRetry,
       ClearTimers, LineAfter
  <2>2. conn' \in ConnRecord
    BY <2>1, AnsweredType, LineAfterType, NoConnType DEF IInv, TypeOK, admin, session,
       LoginRefused, LoginFrame, FailNoRetry, ClearTimers, Destroy, StopReconnect
  <2>3. hist' \in HistRecord
    BY AnsweredType DEF IInv, TypeOK, HistRecord, Response, admin, session, LoginRefused,
       LoginFrame, FailNoRetry, ClearTimers, Destroy, StopReconnect, LineAfter
  <2>4. timers' \in [login : Nat, account : Nat, declare : Nat]
    BY DEF IInv, TypeOK, NoTimers, ClientRecord, admin, session, LoginRefused, LoginFrame,
       FailNoRetry, ClearTimers, Destroy, StopReconnect, LineAfter
  <2>5. gateway' \in GatewayRecord /\ notices' \in Seq(SUBSET Accounts)
    BY DEF IInv, TypeOK, admin, session, LoginRefused
  <2>6. /\ state' \in States
        /\ accounts' \in SUBSET Accounts /\ pendingAccounts' \in SUBSET Accounts
        /\ pendingDeclare' \in SUBSET Accounts /\ declareRespLeft' \in Nat
        /\ password' \in Nat /\ faults' \in Nat /\ edits' \in Nat
    BY AnsweredType DEF IInv, TypeOK, States, Response, admin, session, LoginRefused,
       LoginFrame, FailNoRetry, ClearTimers, Destroy, StopReconnect, LineAfter
  <2>7. bootPhase' \in BOOLEAN /\ closed' \in BOOLEAN
    BY Zenon DEF IInv, TypeOK, session, LoginRefused, LoginFrame, FailNoRetry, ClearTimers,
       Destroy, StopReconnect, LineAfter
  <2> QED BY <2>1, <2>2, <2>3, <2>4, <2>5, <2>6, <2>7, Zenon DEF TypeOK
<1>2. LoopShape'
  BY DEF IInv, TypeOK, Shape, LoopShape, SocketShape, TimerShape, AccountShape, CountShape,
      Over, Terminal, NoTimers, ClientRecord, HistRecord, admin, session, LoginRefused,
      LoginFrame, FailNoRetry, ClearTimers, Destroy, StopReconnect, LineAfter
<1>3. SocketShape'
  BY DEF IInv, TypeOK, Shape, LoopShape, SocketShape, TimerShape, AccountShape, CountShape,
      Over, Terminal, NoTimers, ClientRecord, HistRecord, admin, session, LoginRefused,
      LoginFrame, FailNoRetry, ClearTimers, Destroy, StopReconnect, LineAfter
<1>4. TimerShape'
  BY DEF IInv, TypeOK, Shape, LoopShape, SocketShape, TimerShape, AccountShape, CountShape,
      Over, Terminal, NoTimers, ClientRecord, HistRecord, admin, session, LoginRefused,
      LoginFrame, FailNoRetry, ClearTimers, Destroy, StopReconnect, LineAfter
<1>5. AccountShape'
  BY DEF IInv, TypeOK, Shape, LoopShape, SocketShape, TimerShape, AccountShape, CountShape,
      Over, Terminal, NoTimers, ClientRecord, HistRecord, admin, session, LoginRefused,
      LoginFrame, FailNoRetry, ClearTimers, Destroy, StopReconnect, LineAfter
<1>6. CountShape'
  BY DEF IInv, TypeOK, Shape, LoopShape, SocketShape, TimerShape, AccountShape, CountShape,
      Over, Terminal, NoTimers, ClientRecord, HistRecord, admin, session, LoginRefused,
      LoginFrame, FailNoRetry, ClearTimers, Destroy, StopReconnect, LineAfter
<1> QED BY <1>1, <1>2, <1>3, <1>4, <1>5, <1>6 DEF IInv, Shape

(* A confirmed declaration; the last one makes the session ready.          *)
LEMMA BootDeclaredStep == ASSUME IInv, BootDeclared PROVE IInv'
<1>1. TypeOK'
  <2>1. client' \in ClientRecord
    BY ClientTypes DEF IInv, TypeOK, admin, session, BootDeclared, AccountFrame, Confirm
  <2>2. conn' \in ConnRecord
    BY <2>1, AnsweredType, LineAfterType, NoConnType DEF IInv, TypeOK, admin, session,
       BootDeclared, AccountFrame, Confirm, ResetReconnectAttempts
  <2>3. hist' \in HistRecord
    <3>1. client.gen \in Nat /\ Head(conn.resps).list \in SUBSET Accounts
      BY AnsweredType DEF IInv, TypeOK, ClientRecord, Response, BootDeclared, AccountFrame
    <3>2. \/ hist' = [hist EXCEPT !.confirmed = @ \cup Head(conn.resps).list]
          \/ hist' = [hist EXCEPT !.confirmed = @ \cup Head(conn.resps).list,
                                  !.readyGen = client.gen, !.downs = 0]
      BY Zenon DEF BootDeclared, Confirm
    <3>3. hist \in HistRecord /\ hist.confirmed \cup Head(conn.resps).list \in SUBSET Accounts
      BY <3>1 DEF IInv, TypeOK, HistRecord
    <3>4. ASSUME NEW c \in SUBSET Accounts
          PROVE  /\ [hist EXCEPT !.confirmed = c] \in HistRecord
                 /\ [hist EXCEPT !.confirmed = c, !.readyGen = client.gen, !.downs = 0] \in HistRecord
      BY <3>1, <3>3 DEF HistRecord
    <3> QED BY <3>2, <3>3, <3>4, Zenon
  <2>4. timers' \in [login : Nat, account : Nat, declare : Nat]
    BY DEF IInv, TypeOK, NoTimers, ClientRecord, admin, session, BootDeclared, AccountFrame,
       Confirm, ResetReconnectAttempts
  <2>5. gateway' \in GatewayRecord /\ notices' \in Seq(SUBSET Accounts)
    BY DEF IInv, TypeOK, admin, session, BootDeclared
  <2>6. /\ state' \in States
        /\ accounts' \in SUBSET Accounts /\ pendingAccounts' \in SUBSET Accounts
        /\ pendingDeclare' \in SUBSET Accounts /\ declareRespLeft' \in Nat
        /\ password' \in Nat /\ faults' \in Nat /\ edits' \in Nat
    BY AnsweredType DEF IInv, TypeOK, States, Response, admin, session, BootDeclared,
       AccountFrame, Confirm, ResetReconnectAttempts
  <2>7. bootPhase' \in BOOLEAN /\ closed' \in BOOLEAN
    BY Zenon DEF IInv, TypeOK, session, BootDeclared, AccountFrame, Confirm,
       ResetReconnectAttempts
  <2> QED BY <2>1, <2>2, <2>3, <2>4, <2>5, <2>6, <2>7, Zenon DEF TypeOK
<1>2. LoopShape'
  <2>1. ~Over /\ ~hist.refused /\ hist \in HistRecord
    BY DEF BootDeclared, AccountFrame, IInv, TypeOK, Shape, LoopShape
  <2>2. ~hist'.refused
    BY <2>1 DEF BootDeclared, Confirm, HistRecord
  <2>3. ~Over' /\ state' # "idle"
    BY <2>1 DEF BootDeclared, Over, Terminal
  <2>4. client' = client \/ client' = [client EXCEPT !.attempts = 0]
    BY Zenon DEF BootDeclared, ResetReconnectAttempts
  <2>5. client'.auto = client.auto /\ client'.retry = client.retry /\ client'.sock = client.sock
    BY <2>4 DEF IInv, TypeOK, ClientRecord
  <2> QED BY <2>1, <2>2, <2>3, <2>5 DEF IInv, Shape, LoopShape
<1>3. SocketShape'
  BY DEF IInv, TypeOK, Shape, LoopShape, SocketShape, TimerShape, AccountShape, CountShape,
      Over, Terminal, NoTimers, ClientRecord, HistRecord, admin, session, BootDeclared,
      AccountFrame, Confirm, ResetReconnectAttempts
<1>4. TimerShape'
  BY DEF IInv, TypeOK, Shape, LoopShape, SocketShape, TimerShape, AccountShape, CountShape,
      Over, Terminal, NoTimers, ClientRecord, HistRecord, admin, session, BootDeclared,
      AccountFrame, Confirm, ResetReconnectAttempts
<1>5. AccountShape'
  <2>1. /\ accounts' = accounts
        /\ hist'.confirmed = hist.confirmed \cup Head(conn.resps).list
        /\ hist'.dropped = hist.dropped
        /\ pendingDeclare' = pendingDeclare
        /\ pendingAccounts' = pendingAccounts \ Head(conn.resps).list
    BY DEF BootDeclared, Confirm, IInv, TypeOK, HistRecord
  <2>2. state = "declaring" /\ (state' = "declaring" \/ pendingAccounts' = {})
    BY DEF BootDeclared, session
  <2> QED BY <2>1, <2>2 DEF IInv, Shape, AccountShape
<1>6. CountShape'
  <2>1. /\ client.gen \in Nat /\ client \in ClientRecord /\ hist \in HistRecord
        /\ client.sock = "open" /\ state = "declaring" /\ client.retry = 0
    BY DEF BootDeclared, AccountFrame, IInv, TypeOK, Shape, LoopShape, ClientRecord
  <2>2. CASE pendingAccounts \ Head(conn.resps).list # {}
    <3>1. /\ client' = client /\ state' = state /\ closed' = closed
          /\ hist'.readyGen = hist.readyGen /\ hist'.downs = hist.downs
      BY <2>1, <2>2 DEF BootDeclared, Confirm, HistRecord
    <3> QED BY <3>1 DEF IInv, Shape, CountShape, Over
  <2>3. CASE pendingAccounts \ Head(conn.resps).list = {}
    <3>1. /\ client'.gen = client.gen /\ client'.retry = 0 /\ client'.attempts = 0
          /\ client'.sock = "open" /\ state' = "ready"
          /\ hist'.readyGen = client.gen /\ hist'.downs = 0
      BY <2>1, <2>3 DEF BootDeclared, ResetReconnectAttempts, ClientRecord, HistRecord
    <3>2. client.gen > 0
      BY <2>1 DEF IInv, Shape, CountShape
    <3> QED BY <2>1, <3>1, <3>2 DEF CountShape
  <2> QED BY <2>2, <2>3
<1> QED BY <1>1, <1>2, <1>3, <1>4, <1>5, <1>6 DEF IInv, Shape

(* An account list nobody waits for.                                       *)
LEMMA StrayAccountListStep == ASSUME IInv, StrayAccountList PROVE IInv'
<1>1. TypeOK'
  <2>1. client' \in ClientRecord
    BY ClientTypes DEF IInv, TypeOK, admin, session, StrayAccountList, AccountFrame, Confirm
  <2>2. conn' \in ConnRecord
    BY <2>1, AnsweredType, LineAfterType, NoConnType DEF IInv, TypeOK, admin, session,
       StrayAccountList, AccountFrame, Confirm
  <2>3. hist' \in HistRecord
    BY AnsweredType DEF IInv, TypeOK, HistRecord, Response, admin, session, StrayAccountList,
       AccountFrame, Confirm
  <2>4. timers' \in [login : Nat, account : Nat, declare : Nat]
    BY DEF IInv, TypeOK, NoTimers, ClientRecord, admin, session, StrayAccountList,
       AccountFrame, Confirm
  <2>5. gateway' \in GatewayRecord /\ notices' \in Seq(SUBSET Accounts)
    BY DEF IInv, TypeOK, admin, session, StrayAccountList
  <2>6. /\ state' \in States
        /\ accounts' \in SUBSET Accounts /\ pendingAccounts' \in SUBSET Accounts
        /\ pendingDeclare' \in SUBSET Accounts /\ declareRespLeft' \in Nat
        /\ password' \in Nat /\ faults' \in Nat /\ edits' \in Nat
    BY AnsweredType DEF IInv, TypeOK, States, Response, admin, session, StrayAccountList,
       AccountFrame, Confirm
  <2>7. bootPhase' \in BOOLEAN /\ closed' \in BOOLEAN
    BY Zenon DEF IInv, TypeOK, session, StrayAccountList, AccountFrame, Confirm
  <2> QED BY <2>1, <2>2, <2>3, <2>4, <2>5, <2>6, <2>7, Zenon DEF TypeOK
<1>2. LoopShape'
  BY DEF IInv, TypeOK, Shape, LoopShape, SocketShape, TimerShape, AccountShape, CountShape,
      Over, Terminal, NoTimers, ClientRecord, HistRecord, admin, session, StrayAccountList,
      AccountFrame, Confirm
<1>3. SocketShape'
  BY DEF IInv, TypeOK, Shape, LoopShape, SocketShape, TimerShape, AccountShape, CountShape,
      Over, Terminal, NoTimers, ClientRecord, HistRecord, admin, session, StrayAccountList,
      AccountFrame, Confirm
<1>4. TimerShape'
  BY DEF IInv, TypeOK, Shape, LoopShape, SocketShape, TimerShape, AccountShape, CountShape,
      Over, Terminal, NoTimers, ClientRecord, HistRecord, admin, session, StrayAccountList,
      AccountFrame, Confirm
<1>5. AccountShape'
  BY DEF IInv, TypeOK, Shape, LoopShape, SocketShape, TimerShape, AccountShape, CountShape,
      Over, Terminal, NoTimers, ClientRecord, HistRecord, admin, session, StrayAccountList,
      AccountFrame, Confirm
<1>6. CountShape'
  BY DEF IInv, TypeOK, Shape, LoopShape, SocketShape, TimerShape, AccountShape, CountShape,
      Over, Terminal, NoTimers, ClientRecord, HistRecord, admin, session, StrayAccountList,
      AccountFrame, Confirm
<1> QED BY <1>1, <1>2, <1>3, <1>4, <1>5, <1>6 DEF IInv, Shape

(* The answer to a declaration made while ready.                           *)
LEMMA DeclareAnsweredStep == ASSUME IInv, DeclareAnswered PROVE IInv'
<1>1. TypeOK'
  <2>1. client' \in ClientRecord
    BY ClientTypes DEF IInv, TypeOK, admin, session, DeclareAnswered, AccountFrame, Confirm
  <2>2. conn' \in ConnRecord
    BY <2>1, AnsweredType, LineAfterType, NoConnType DEF IInv, TypeOK, admin, session,
       DeclareAnswered, AccountFrame, Confirm
  <2>3. hist' \in HistRecord
    BY AnsweredType DEF IInv, TypeOK, HistRecord, Response, admin, session, DeclareAnswered,
       AccountFrame, Confirm
  <2>4. timers' \in [login : Nat, account : Nat, declare : Nat]
    BY DEF IInv, TypeOK, NoTimers, ClientRecord, admin, session, DeclareAnswered,
       AccountFrame, Confirm
  <2>5. gateway' \in GatewayRecord /\ notices' \in Seq(SUBSET Accounts)
    BY DEF IInv, TypeOK, admin, session, DeclareAnswered
  <2>6. /\ state' \in States
        /\ accounts' \in SUBSET Accounts /\ pendingAccounts' \in SUBSET Accounts
        /\ pendingDeclare' \in SUBSET Accounts /\ declareRespLeft' \in Nat
        /\ password' \in Nat /\ faults' \in Nat /\ edits' \in Nat
    BY AnsweredType DEF IInv, TypeOK, States, Response, admin, session, DeclareAnswered,
       AccountFrame, Confirm
  <2>7. bootPhase' \in BOOLEAN /\ closed' \in BOOLEAN
    BY Zenon DEF IInv, TypeOK, session, DeclareAnswered, AccountFrame, Confirm
  <2> QED BY <2>1, <2>2, <2>3, <2>4, <2>5, <2>6, <2>7, Zenon DEF TypeOK
<1>2. LoopShape'
  BY DEF IInv, TypeOK, Shape, LoopShape, SocketShape, TimerShape, AccountShape, CountShape,
      Over, Terminal, NoTimers, ClientRecord, HistRecord, admin, session, DeclareAnswered,
      AccountFrame, Confirm
<1>3. SocketShape'
  BY DEF IInv, TypeOK, Shape, LoopShape, SocketShape, TimerShape, AccountShape, CountShape,
      Over, Terminal, NoTimers, ClientRecord, HistRecord, admin, session, DeclareAnswered,
      AccountFrame, Confirm
<1>4. TimerShape'
  BY DEF IInv, TypeOK, Shape, LoopShape, SocketShape, TimerShape, AccountShape, CountShape,
      Over, Terminal, NoTimers, ClientRecord, HistRecord, admin, session, DeclareAnswered,
      AccountFrame, Confirm
<1>5. AccountShape'
  BY DEF IInv, TypeOK, Shape, LoopShape, SocketShape, TimerShape, AccountShape, CountShape,
      Over, Terminal, NoTimers, ClientRecord, HistRecord, admin, session, DeclareAnswered,
      AccountFrame, Confirm
<1>6. CountShape'
  BY DEF IInv, TypeOK, Shape, LoopShape, SocketShape, TimerShape, AccountShape, CountShape,
      Over, Terminal, NoTimers, ClientRecord, HistRecord, admin, session, DeclareAnswered,
      AccountFrame, Confirm
<1> QED BY <1>1, <1>2, <1>3, <1>4, <1>5, <1>6 DEF IInv, Shape

(* The deadline of those declarations.                                     *)
LEMMA DeclareTimeoutStep == ASSUME IInv, DeclareTimeout PROVE IInv'
<1>1. TypeOK'
  BY SMTT(60) DEF IInv, TypeOK, States, ClientRecord, GatewayRecord, admin, session, DeclareTimeout,
      DeadlinePasses, Fault
<1>2. LoopShape'
  BY DEF IInv, TypeOK, Shape, LoopShape, SocketShape, TimerShape, AccountShape, CountShape,
      Over, Terminal, NoTimers, ClientRecord, HistRecord, admin, session, DeclareTimeout,
      DeadlinePasses, Fault
<1>3. SocketShape'
  BY DEF IInv, TypeOK, Shape, LoopShape, SocketShape, TimerShape, AccountShape, CountShape,
      Over, Terminal, NoTimers, ClientRecord, HistRecord, admin, session, DeclareTimeout,
      DeadlinePasses, Fault
<1>4. TimerShape'
  BY DEF IInv, TypeOK, Shape, LoopShape, SocketShape, TimerShape, AccountShape, CountShape,
      Over, Terminal, NoTimers, ClientRecord, HistRecord, admin, session, DeclareTimeout,
      DeadlinePasses, Fault
<1>5. AccountShape'
  BY DEF IInv, TypeOK, Shape, LoopShape, SocketShape, TimerShape, AccountShape, CountShape,
      Over, Terminal, NoTimers, ClientRecord, HistRecord, admin, session, DeclareTimeout,
      DeadlinePasses, Fault
<1>6. CountShape'
  BY DEF IInv, TypeOK, Shape, LoopShape, SocketShape, TimerShape, AccountShape, CountShape,
      Over, Terminal, NoTimers, ClientRecord, HistRecord, admin, session, DeclareTimeout,
      DeadlinePasses, Fault
<1> QED BY <1>1, <1>2, <1>3, <1>4, <1>5, <1>6 DEF IInv, Shape


(* A login that cannot be read: the boot fails, or the line is dropped.    *)
LEMMA LoginBrokenStep == ASSUME IInv, LoginBroken PROVE IInv'
<1>1. /\ client.sock = "open" /\ conn.resps # <<>> /\ state = "logging_in"
      /\ Fail(state) /\ LineAfter(Answered)
      /\ UNCHANGED <<bootPhase, accounts, pendingAccounts, password, closed, gateway, notices,
                     edits, faults, hist>>
  BY DEF LoginBroken, LoginFrame, admin
<1>2. ~Over /\ Answered \in ConnRecord
  BY <1>1, AnsweredType DEF IInv, Shape, LoopShape
<1>3. faults' \in Nat /\ state \in States \ (Terminal \cup {"idle"})
  BY <1>1 DEF IInv, TypeOK, Terminal, States
<1> QED BY <1>1, <1>2, <1>3, FailKeeps

LEMMA LoginTimeoutStep == ASSUME IInv, LoginTimeout PROVE IInv'
<1>1. /\ timers.login # 0 /\ LineAfter(conn)
      /\ UNCHANGED <<bootPhase, accounts, pendingAccounts, password, closed, gateway, notices,
                     edits, hist>>
  BY DEF LoginTimeout, admin
<1>2. client.sock \in {"open", "closing"} /\ timers.login = client.gen
  BY <1>1 DEF IInv, TypeOK, ClientRecord, Shape, TimerShape, NoTimers
<1>3. ~Over /\ state \notin Terminal \cup {"idle"} /\ state \in States
  BY <1>2 DEF IInv, TypeOK, Shape, LoopShape, Over
<1>4. Fail(state)
  BY <1>2, <1>3 DEF LoginTimeout
<1>5. faults' \in Nat
  BY DEF LoginTimeout, DeadlinePasses, Fault, IInv, TypeOK
<1>6. conn \in ConnRecord
  BY DEF IInv, TypeOK
<1> QED BY <1>1, <1>2, <1>3, <1>4, <1>5, <1>6, FailKeeps

LEMMA AccountTimeoutStep == ASSUME IInv, AccountTimeout PROVE IInv'
<1>1. /\ timers.account # 0 /\ LineAfter(conn)
      /\ UNCHANGED <<bootPhase, accounts, pendingAccounts, password, closed, gateway, notices,
                     edits, hist>>
  BY DEF AccountTimeout, admin
<1>2. client.sock \in {"open", "closing"} /\ timers.account = client.gen
  BY <1>1 DEF IInv, TypeOK, ClientRecord, Shape, TimerShape, NoTimers
<1>3. ~Over /\ state \notin Terminal \cup {"idle"} /\ state \in States
  BY <1>2 DEF IInv, TypeOK, Shape, LoopShape, Over
<1>4. Fail(state)
  BY <1>2, <1>3 DEF AccountTimeout
<1>5. faults' \in Nat
  BY DEF AccountTimeout, DeadlinePasses, Fault, IInv, TypeOK
<1>6. conn \in ConnRecord
  BY DEF IInv, TypeOK
<1> QED BY <1>1, <1>2, <1>3, <1>4, <1>5, <1>6, FailKeeps

(* An accepted login: every account is allowed and pending, and either the *)
(* declarations are on the line or their failure is handled by #fail.      *)
LEMMA LoginAcceptedStep == ASSUME IInv, LoginAccepted PROVE IInv'
<1> DEFINE list == Head(conn.resps).list
<1>1. /\ client.sock = "open" /\ conn.resps # <<>> /\ state = "logging_in"
      /\ accounts' = list /\ pendingAccounts' = list
      /\ hist' = [hist EXCEPT !.dropped = {}]
      /\ UNCHANGED <<bootPhase, password, closed, gateway, notices, edits>>
  BY DEF LoginAccepted, LoginFrame, admin
<1>2. Answered \in ConnRecord /\ list \in SUBSET Accounts
  BY <1>1, AnsweredType DEF IInv, Response
<1>3. ~Over /\ hist \in HistRecord
  BY <1>1 DEF IInv, TypeOK, Shape, LoopShape
<1>4. /\ hist' \in HistRecord /\ hist'.readyGen = hist.readyGen /\ hist'.downs = hist.downs
      /\ hist'.dropped = {} /\ hist'.refused = hist.refused
  BY <1>1, <1>3 DEF HistRecord
<1>5. AccountShape' \/ state' = "ready" \/ pendingDeclare' # {}
  BY <1>1, <1>4 DEF AccountShape
<1>6. CASE /\ Fault /\ Fail("declaring") /\ LineAfter(Answered)
  <2>1. /\ client' \in ClientRecord /\ conn' \in ConnRecord
        /\ timers' = NoTimers /\ pendingDeclare' = {} /\ declareRespLeft' = 0
        /\ state' \in States \ {"idle", "ready"} \/ state' = state
        /\ LoopShape' /\ SocketShape' /\ TimerShape' /\ CountShape'
    BY <1>1, <1>2, <1>3, <1>4, <1>6, FailStep DEF States, Terminal
  <2>2. faults' \in Nat
    BY <1>6 DEF Fault, IInv, TypeOK
  <2>3. TypeOK'
    BY <1>1, <1>2, <1>4, <2>1, <2>2 DEF IInv, TypeOK, NoTimers
  <2>4. state' # "ready"
    BY <1>1, <2>1
  <2> QED BY <1>5, <2>1, <2>3, <2>4 DEF IInv, Shape
<1>7. CASE \E order \in Orders(list) :
             /\ state' = "declaring"
             /\ conn' = [Answered EXCEPT !.reqs = @ \o Declarations(order)]
             /\ timers' = [timers EXCEPT !.login = 0, !.account = client.gen]
             /\ UNCHANGED <<pendingDeclare, declareRespLeft, client, faults>>
  <2>1. PICK order \in Orders(list) :
             /\ state' = "declaring"
             /\ conn' = [Answered EXCEPT !.reqs = @ \o Declarations(order)]
             /\ timers' = [timers EXCEPT !.login = 0, !.account = client.gen]
             /\ UNCHANGED <<pendingDeclare, declareRespLeft, client, faults>>
    BY <1>7
  <2>2. conn' \in ConnRecord
    <3>1. Declarations(order) \in Seq(Request)
      BY <1>2, DeclarationsType
    <3>2. Answered.reqs \o Declarations(order) \in Seq(Request)
      BY <1>2, <3>1 DEF ConnRecord
    <3> QED BY <1>2, <2>1, <3>2 DEF ConnRecord
  <2>3. client.gen \in Nat /\ client.gen > 0
    BY <1>1 DEF IInv, TypeOK, ClientRecord, Shape, CountShape
  <2>4. TypeOK'
    BY <1>1, <1>2, <1>4, <2>1, <2>2, <2>3 DEF IInv, TypeOK, States
  <2>5. /\ timers'.login = 0 /\ timers'.account = client.gen
        /\ timers'.declare = timers.declare
    BY <2>1 DEF IInv, TypeOK
  <2>6. LoopShape' /\ SocketShape' /\ CountShape'
    BY <1>1, <1>3, <1>4, <2>1 DEF IInv, Shape, LoopShape, SocketShape, CountShape, Over, Terminal
  <2>7. TimerShape'
    BY <1>1, <2>1, <2>3, <2>5 DEF IInv, Shape, TimerShape
  <2>8. AccountShape'
    BY <1>1, <1>4, <2>1 DEF AccountShape
  <2> QED BY <2>4, <2>6, <2>7, <2>8 DEF IInv, Shape
<1> QED BY <1>6, <1>7, Zenon DEF LoginAccepted

(* An 87: removals first, then the new declarations, whole or cut short.   *)
LEMMA SnapshotAppliedStep == ASSUME IInv, SnapshotApplied PROVE IInv'
<1> DEFINE list == Head(notices)
           gone == accounts \ list
           keep == accounts \ gone
           wait == pendingDeclare \ gone
           fresh == IF state = "ready" THEN list \ (keep \cup wait) ELSE {}
<1>1. /\ notices # <<>> /\ ~closed /\ notices' = Tail(notices) /\ accounts' = keep
      /\ hist' = [hist EXCEPT !.dropped = (@ \cup gone) \ list]
      /\ UNCHANGED <<state, bootPhase, pendingAccounts, password, closed, gateway, edits>>
  BY Zenon DEF SnapshotApplied
<1>2. /\ list \in SUBSET Accounts /\ notices' \in Seq(SUBSET Accounts)
      /\ fresh \in SUBSET Accounts /\ keep \in SUBSET Accounts /\ wait \in SUBSET Accounts
      /\ fresh # {} => state = "ready"
  BY <1>1 DEF IInv, TypeOK
<1>3. /\ hist' \in HistRecord /\ hist'.readyGen = hist.readyGen /\ hist'.downs = hist.downs
      /\ hist'.confirmed = hist.confirmed /\ hist'.dropped = (hist.dropped \cup gone) \ list
  BY <1>1, <1>2 DEF IInv, TypeOK, HistRecord
<1>4. \A sent \in SUBSET fresh : Cardinality(sent) \in Nat /\ sent \in SUBSET Accounts
  BY <1>2, AccountsAssumption, FS_Subset, FS_CardinalityType
<1>5. pendingDeclare' \subseteq wait \cup fresh => AccountShape'
  BY <1>1, <1>3 DEF IInv, Shape, AccountShape
<1>6. client.gen \in Nat /\ (client.sock = "open" => client.gen > 0)
  BY DEF IInv, TypeOK, ClientRecord, Shape, CountShape
<1> HIDE DEF fresh, wait, keep, gone, list
<1>7. CASE /\ pendingDeclare' = wait
           /\ UNCHANGED <<declareRespLeft, timers, client, conn, faults>>
  <2>1. TypeOK'
    BY <1>1, <1>2, <1>3, <1>7 DEF IInv, TypeOK
  <2>2. LoopShape' /\ SocketShape' /\ CountShape'
    BY <1>1, <1>3, <1>7 DEF IInv, Shape, LoopShape, SocketShape, CountShape, Over
  <2>3. TimerShape'
    BY <1>1, <1>7 DEF IInv, Shape, TimerShape, wait
  <2> QED BY <1>5, <1>7, <2>1, <2>2, <2>3 DEF IInv, Shape
<1>8. CASE /\ fresh # {} /\ client.sock = "open"
           /\ \E order \in Orders(fresh) :
                conn' = [conn EXCEPT !.reqs = @ \o Declarations(order)]
           /\ pendingDeclare' = wait \cup fresh
           /\ declareRespLeft' = declareRespLeft + Cardinality(fresh)
           /\ timers' = [timers EXCEPT !.declare = client.gen]
           /\ UNCHANGED <<client, faults>>
  <2>1. PICK order \in Orders(fresh) : conn' = [conn EXCEPT !.reqs = @ \o Declarations(order)]
    BY <1>8
  <2>2. conn' \in ConnRecord
    <3>1. Declarations(order) \in Seq(Request) /\ conn \in ConnRecord
      BY <1>2, DeclarationsType DEF IInv, TypeOK
    <3>2. conn.reqs \o Declarations(order) \in Seq(Request)
      BY <3>1 DEF ConnRecord
    <3> QED BY <2>1, <3>1, <3>2 DEF ConnRecord
  <2>3. declareRespLeft' \in Nat /\ pendingDeclare' \in SUBSET Accounts
    BY <1>2, <1>4, <1>8 DEF IInv, TypeOK
  <2>4. TypeOK'
    BY <1>1, <1>2, <1>3, <1>6, <1>8, <2>2, <2>3 DEF IInv, TypeOK
  <2>5. LoopShape' /\ SocketShape' /\ CountShape'
    BY <1>1, <1>3, <1>8 DEF IInv, Shape, LoopShape, SocketShape, CountShape, Over
  <2>6. /\ timers'.login = timers.login /\ timers'.account = timers.account
        /\ timers'.declare = client.gen
    BY <1>8 DEF IInv, TypeOK
  <2>7. TimerShape'
    BY <1>1, <1>6, <1>8, <2>6 DEF IInv, Shape, TimerShape
  <2> QED BY <1>5, <1>8, <2>4, <2>5, <2>7 DEF IInv, Shape
<1>9. CASE /\ fresh # {} /\ client.sock = "open"
           /\ Fault
           /\ \E sent \in SUBSET fresh :
                /\ sent # fresh
                /\ pendingDeclare' = wait \cup sent
                /\ declareRespLeft' = declareRespLeft + Cardinality(sent)
                /\ timers' = IF sent = {} THEN timers
                                          ELSE [timers EXCEPT !.declare = client.gen]
           /\ client' = DropTransport(client)
           /\ LineAfter(conn)
  <2>1. PICK sent \in SUBSET fresh :
                /\ pendingDeclare' = wait \cup sent
                /\ declareRespLeft' = declareRespLeft + Cardinality(sent)
                /\ timers' = IF sent = {} THEN timers
                                          ELSE [timers EXCEPT !.declare = client.gen]
    BY <1>9
  <2>2. client' \in ClientRecord /\ conn' \in ConnRecord /\ faults' \in Nat
    BY <1>9, ClientTypes, LineAfterType DEF IInv, TypeOK, Fault
  <2>3. declareRespLeft' \in Nat /\ pendingDeclare' \in SUBSET Accounts
    BY <1>2, <1>4, <2>1 DEF IInv, TypeOK
  <2>4. timers' \in [login : Nat, account : Nat, declare : Nat]
    BY <1>6, <2>1 DEF IInv, TypeOK
  <2>5. TypeOK'
    BY <1>1, <1>2, <1>3, <2>2, <2>3, <2>4 DEF IInv, TypeOK
  <2>6. /\ client'.sock = "closing" /\ client'.gen = client.gen /\ client'.retry = client.retry
        /\ client'.attempts = client.attempts /\ client' = [client EXCEPT !.sock = "closing"]
        /\ conn' = NoConn
    BY <1>9 DEF IInv, TypeOK, ClientRecord, DropTransport, LineAfter
  <2>7. client'.auto = client.auto /\ state = "ready"
    BY <1>2, <1>9, <2>6 DEF IInv, TypeOK, ClientRecord
  <2>8. LoopShape'
    BY <1>1, <1>3, <1>9, <2>6, <2>7 DEF IInv, Shape, LoopShape, Over, Terminal
  <2>9. SocketShape' /\ CountShape'
    BY <1>1, <1>3, <1>9, <2>6, <2>7 DEF IInv, Shape, SocketShape, CountShape, Over
  <2>10. /\ timers'.login = timers.login /\ timers'.account = timers.account
         /\ timers'.declare = IF sent = {} THEN timers.declare ELSE client.gen
    BY <2>1 DEF IInv, TypeOK
  <2>11. TimerShape'
    <3>1. pendingDeclare' # {} => timers'.declare # 0
      BY <1>6, <1>9, <2>1, <2>10 DEF IInv, Shape, TimerShape, wait
    <3> QED BY <2>6, <2>10, <3>1 DEF IInv, Shape, TimerShape
  <2>12. pendingDeclare' \subseteq wait \cup fresh
    BY <2>1
  <2> QED BY <1>5, <2>5, <2>8, <2>9, <2>11, <2>12 DEF IInv, Shape
<1> QED BY <1>7, <1>8, <1>9, Zenon DEF SnapshotApplied, fresh, wait, keep, gone, list

-----------------------------------------------------------------------------
LEMMA StepInv == IInv /\ [Next]_vars => IInv'
<1> SUFFICES ASSUME IInv, [Next]_vars PROVE IInv'
  OBVIOUS
<1>1. CASE Start \/ Close \/ Terminate \/ SetPassword
  BY <1>1, StartStep, CloseStep, TerminateStep, SetPasswordStep
<1>2. CASE TcpConnected \/ LoginSendFails \/ LineBreaks \/ SocketClosed \/ ReconnectTimerFires
  BY <1>2, TcpConnectedStep, LoginSendFailsStep, LineBreaksStep, SocketClosedStep,
     ReconnectTimerFiresStep
<1>3. CASE Deliver \/ SnapshotApplied \/ TimerFires
  BY <1>3, LoginBrokenStep, LoginRefusedStep, LoginAcceptedStep, BootDeclaredStep,
     StrayAccountListStep, DeclareAnsweredStep, SnapshotAppliedStep, LoginTimeoutStep,
     AccountTimeoutStep, DeclareTimeoutStep DEF Deliver, TimerFires
<1>4. CASE \/ GatewayAnswers \/ GatewayHangs
           \/ AdminEditsAccounts \/ AdminChangesPassword \/ AdminDeletesUser \/ AdminReconnects
  BY <1>4, GatewayAnswersStep, GatewayHangsStep, AdminEditsAccountsStep,
     AdminChangesPasswordStep, AdminDeletesUserStep, AdminReconnectsStep
<1>5. CASE UNCHANGED vars
  <2>1. UNCHANGED <<session, client, hist, conn, gateway, notices, faults, edits>>
    BY <1>5 DEF vars, admin
  <2> QED BY <2>1, OutsideStep DEF IInv, TypeOK
<1> QED BY <1>1, <1>2, <1>3, <1>4, <1>5, Zenon DEF Next

(* The inductive invariant holds in every behaviour.                       *)
LEMMA Invariance == Spec => []IInv
<1>1. Init => IInv
  BY InitTypeOK, InitShape DEF IInv
<1> QED BY <1>1, StepInv, PTL DEF Spec

(* Type correctness of the session, its line and its timers.               *)
THEOREM TypeCorrect == Spec => []TypeOK
<1>1. IInv => TypeOK
  BY DEF IInv
<1> QED BY <1>1, Invariance, PTL

(* A refused, failed, deleted or closed session has no socket, no          *)
(* reconnect timer and no deadline (#failNoRetry, #fail, terminate, close).*)
THEOREM TerminalSessionsAreQuiet == Spec => []TerminalIsQuiet
<1>1. IInv => TerminalIsQuiet
  BY DEF IInv, Shape, LoopShape, TimerShape, TerminalIsQuiet, Over
<1> QED BY <1>1, Invariance, PTL

(* A live session always has an event or a timer that will move it.        *)
THEOREM LiveSessionsAreNotWedged == Spec => []NeverWedged
<1>1. IInv => NeverWedged
  BY DEF IInv, TypeOK, ClientRecord, Shape, SocketShape, TimerShape, NeverWedged, Over
<1> QED BY <1>1, Invariance, PTL

(* The generation guard of the three deadlines never sees an old line:     *)
(* every armed deadline belongs to the line in use.                        *)
THEOREM DeadlinesFollowTheLine == Spec => []NoStaleTimer
<1>1. IInv => NoStaleTimer
  BY DEF IInv, Shape, TimerShape, NoStaleTimer
<1> QED BY <1>1, Invariance, PTL

(* Orders are allowed only on accounts the gateway listed on this line.    *)
THEOREM ReadyAccountsAreDeclared == Spec => []ReadyIsDeclared
<1>1. IInv => ReadyIsDeclared
  BY DEF IInv, Shape, AccountShape, ReadyIsDeclared
<1> QED BY <1>1, Invariance, PTL

(* No late answer restores an account an 87 took off the allow list.       *)
THEOREM RemovedAccountsStayRemoved == Spec => []RemovedStaysRemoved
<1>1. IInv => RemovedStaysRemoved
  BY DEF IInv, Shape, AccountShape, RemovedStaysRemoved
<1> QED BY <1>1, Invariance, PTL

(* What a ready session allows.                                            *)
THEOREM AllowListsAreSound == Spec => []AllowListIsSound
<1>1. ReadyIsDeclared /\ RemovedStaysRemoved => AllowListIsSound
  BY DEF AllowListIsSound
<1> QED BY <1>1, ReadyAccountsAreDeclared, RemovedAccountsStayRemoved, PTL

(* The back-off counts every line lost since the last ready.               *)
THEOREM BackoffIsCounted == Spec => []BackoffCountsFailures
<1>1. IInv => BackoffCountsFailures
  BY DEF IInv, Shape, CountShape, BackoffCountsFailures
<1> QED BY <1>1, Invariance, PTL

(* The four together.                                                      *)
THEOREM SessionsAreDriven == Spec => []DrivenOrSilent
<1>1. TerminalIsQuiet /\ NeverWedged /\ NoStaleTimer /\ BackoffCountsFailures => DrivenOrSilent
  BY DEF DrivenOrSilent
<1> QED BY <1>1, TerminalSessionsAreQuiet, LiveSessionsAreNotWedged, DeadlinesFollowTheLine,
           BackoffIsCounted, PTL

(* A refusal is never forgotten.                                           *)
LEMMA RefusedForGood == ASSUME IInv, [Next]_vars, hist.refused PROVE hist'.refused
<1>1. hist \in HistRecord
  BY DEF IInv, TypeOK
<1>2. CASE TcpConnected \/ LoginSendFails \/ SocketClosed \/ LoginAccepted \/ SnapshotApplied
  BY <1>1, <1>2 DEF TcpConnected, LoginSendFails, SocketClosed, LoginAccepted, SnapshotApplied,
                    HistRecord
<1>3. CASE LoginRefused
  BY <1>1, <1>3 DEF LoginRefused, HistRecord
<1>4. CASE BootDeclared \/ StrayAccountList \/ DeclareAnswered
  BY <1>1, <1>4 DEF BootDeclared, StrayAccountList, DeclareAnswered, Confirm, HistRecord
<1>5. CASE UNCHANGED hist
  BY <1>5
<1>6. \/ TcpConnected \/ LoginSendFails \/ SocketClosed \/ LoginAccepted \/ SnapshotApplied
      \/ LoginRefused \/ BootDeclared \/ StrayAccountList \/ DeclareAnswered
      \/ UNCHANGED hist
  BY Zenon DEF Next, vars, Deliver, TimerFires, Start, Close, Terminate, SetPassword, LineBreaks,
     ReconnectTimerFires, LoginBroken, LoginTimeout, AccountTimeout, DeclareTimeout,
     GatewayAnswers, GatewayHangs, AdminEditsAccounts, AdminChangesPassword, AdminDeletesUser,
     AdminReconnects
<1> QED BY <1>2, <1>3, <1>4, <1>5, <1>6

(* Once the gateway's refusal reached the session, no step sends a         *)
(* LoginReq (#failNoRetry; D-16, T-15-10).                                 *)
THEOREM RefusalIsFinal == Spec => NoLoginAfterRefusal
<1>1. ASSUME IInv, IInv', [Next]_vars PROVE hist.refused => ~LoginSent
  <2> SUFFICES ASSUME hist.refused PROVE ~LoginSent
    OBVIOUS
  <2>1. Over'
    BY <1>1, RefusedForGood DEF IInv, Shape, LoopShape
  <2>2. conn' = NoConn
    BY <1>1, <2>1 DEF IInv, Shape, LoopShape, SocketShape
  <2> QED BY <2>2 DEF LoginSent, NoConn
<1>2. IInv /\ IInv' /\ [Next]_vars => [hist.refused => ~LoginSent]_vars
  BY <1>1
<1> QED BY <1>2, Invariance, PTL DEF Spec, NoLoginAfterRefusal

-----------------------------------------------------------------------------
(* The refinement: what a step does to the phase, the generation and the   *)
(* last announcement.                                                      *)
Seen == <<Phase, client.gen, hist.readyGen>>

Shown == Lifecycle!Next \/ UNCHANGED Seen

(* #fail: the session ends, or nothing is seen of it until the line closes.*)
LEMMA FailShown ==
  ASSUME IInv, NEW s, Fail(s), UNCHANGED closed, hist'.readyGen = hist.readyGen, ~Over,
         s = state \/ (state = "logging_in" /\ s = "declaring")
  PROVE  Shown
<1>1. client \in ClientRecord
  BY DEF IInv, TypeOK
<1>2. CASE bootPhase
  <2>1. state' = "failed" /\ client'.gen = client.gen + 1
    BY <1>1, <1>2 DEF Fail, Destroy, ClientRecord
  <2>2. Phase' = "over"
    BY <2>1 DEF Phase, Terminal
  <2> QED BY <2>1, <2>2 DEF Shown, Lifecycle!Next, Lifecycle!End
<1>3. CASE ~bootPhase
  <2>1. state' = s /\ client'.gen = client.gen
    BY <1>1, <1>3 DEF Fail, DropTransport, ClientRecord
  <2>2. Phase' = Phase
    BY <2>1 DEF Phase, Terminal
  <2> QED BY <2>1, <2>2 DEF Shown, Seen
<1> QED BY <1>2, <1>3

(* Steps that end the session, whatever it was.                            *)
LEMMA EndShown ==
  ASSUME IInv, Close \/ Terminate \/ LoginRefused
  PROVE  Shown
<1>1. client \in ClientRecord /\ hist \in HistRecord
  BY DEF IInv, TypeOK
<1>2. state' \in Terminal \/ closed'
  BY DEF Close, Terminate, LoginRefused, FailNoRetry, Terminal
<1>3. client'.gen = client.gen + 1
  BY <1>1 DEF Close, Terminate, LoginRefused, FailNoRetry, Destroy, StopReconnect, ClientRecord
<1>4. hist'.readyGen = hist.readyGen
  BY <1>1 DEF Close, Terminate, LoginRefused, HistRecord
<1>5. Phase' = "over"
  BY <1>2, Zenon DEF Phase
<1> QED BY <1>3, <1>4, <1>5 DEF Shown, Lifecycle!Next, Lifecycle!End

(* Steps of which nothing is seen.                                         *)
LEMMA Hidden ==
  ASSUME Phase' = Phase, client'.gen = client.gen, hist'.readyGen = hist.readyGen
  PROVE  Shown
BY DEF Shown, Seen

LEMMA StepShown == ASSUME IInv, Next PROVE Shown
<1>1. client \in ClientRecord /\ hist \in HistRecord
  BY DEF IInv, TypeOK
<1>2. CASE Start
  <2>1. Phase = "down" /\ Phase' = "down"
    BY <1>2 DEF Start, Phase, Terminal, IInv, Shape, LoopShape
  <2>2. client'.gen = client.gen /\ hist' = hist
    BY <1>1, <1>2 DEF Start, Connect, OpenSocket, ClientRecord
  <2> QED BY <2>1, <2>2, Hidden
<1>3. CASE Close \/ Terminate \/ LoginRefused
  BY <1>3, EndShown
<1>4. CASE SetPassword
  BY <1>4, Hidden DEF SetPassword, Phase
<1>5. CASE TcpConnected
  <2>1. ~Over /\ client.sock = "connecting" /\ state \in {"idle", "connecting", "reconnecting"}
    BY <1>5 DEF TcpConnected, IInv, Shape, LoopShape, SocketShape
  <2>2. state' = "logging_in" /\ closed' = closed /\ hist'.readyGen = hist.readyGen
    BY <1>1, <1>5, <2>1 DEF TcpConnected, Over, HistRecord
  <2>3. client'.gen = client.gen + 1
    BY <1>1, <1>5 DEF TcpConnected, OnConnected, ClientRecord
  <2>4. Phase = "down" /\ Phase' = "booting"
    BY <2>1, <2>2 DEF Phase, Over, Terminal
  <2> QED BY <2>2, <2>3, <2>4 DEF Shown, Lifecycle!Next, Lifecycle!LineUp
<1>6. CASE LoginSendFails
  <2>1. ~Over /\ client.sock = "connecting" /\ state \in {"idle", "connecting", "reconnecting"}
    BY <1>6 DEF LoginSendFails, IInv, Shape, LoopShape, SocketShape
  <2>2. closed' = closed /\ hist'.readyGen = hist.readyGen
    BY <1>1, <1>6 DEF LoginSendFails, HistRecord
  <2>3. CASE bootPhase
    <3>1. client'.gen = client.gen + 2 /\ state' = "failed"
      BY <1>1, <1>6, <2>3 DEF LoginSendFails, OnConnected, Destroy, ClientRecord
    <3>2. Phase' = "over"
      BY <3>1 DEF Phase, Terminal
    <3> QED BY <2>2, <3>1, <3>2 DEF Shown, Lifecycle!Next, Lifecycle!End
  <2>4. CASE ~bootPhase
    <3>1. client'.gen = client.gen + 1 /\ state' = "logging_in"
      BY <1>1, <1>6, <2>4 DEF LoginSendFails, OnConnected, DropTransport, ClientRecord
    <3>2. Phase = "down" /\ Phase' = "booting"
      BY <2>1, <2>2, <3>1 DEF Phase, Over, Terminal
    <3> QED BY <2>2, <3>1, <3>2 DEF Shown, Lifecycle!Next, Lifecycle!LineUp
  <2> QED BY <2>3, <2>4
<1>7. CASE LineBreaks
  BY <1>1, <1>7, Hidden DEF LineBreaks, DropTransport, session, Phase, ClientRecord
<1>8. CASE SocketClosed
  <2>1. ~Over /\ client.auto
    BY <1>8 DEF SocketClosed, IInv, Shape, LoopShape
  <2>2. /\ state' = "reconnecting" /\ closed' = closed /\ client'.gen = client.gen + 1
        /\ hist'.readyGen = hist.readyGen
    BY <1>1, <1>8, <2>1 DEF SocketClosed, TransportDown, Over, ClientRecord, HistRecord
  <2>3. Phase \in {"down", "booting", "ready"} /\ Phase' = "down"
    BY <2>1, <2>2 DEF Phase, Over, Terminal
  <2> QED BY <2>2, <2>3 DEF Shown, Lifecycle!Next, Lifecycle!LineLost
<1>9. CASE ReconnectTimerFires
  <2>1. client'.gen = client.gen
    BY <1>1, <1>9 DEF ReconnectTimerFires, OpenSocket, ClientRecord
  <2> QED BY <1>9, <2>1, Hidden DEF ReconnectTimerFires, session, Phase
<1>10. CASE LoginBroken
  <2>1. Fail(state) /\ UNCHANGED <<closed, hist>> /\ ~Over
    BY <1>10 DEF LoginBroken, LoginFrame, IInv, Shape, LoopShape
  <2> QED BY <2>1, FailShown, Zenon
<1>11. CASE LoginAccepted
  <2>1. UNCHANGED closed /\ hist'.readyGen = hist.readyGen /\ ~Over /\ state = "logging_in"
    BY <1>1, <1>11 DEF LoginAccepted, LoginFrame, IInv, Shape, LoopShape, HistRecord
  <2>2. Fail("declaring") \/ (state' = "declaring" /\ client' = client)
    BY <1>11, Zenon DEF LoginAccepted
  <2>3. CASE Fail("declaring")
    BY <2>1, <2>3, FailShown
  <2>4. CASE state' = "declaring" /\ client' = client
    BY <2>1, <2>4, Hidden DEF Phase, Over, Terminal
  <2> QED BY <2>2, <2>3, <2>4
<1>12. CASE BootDeclared
  <2>1. ~Over /\ state = "declaring" /\ closed' = closed
    BY <1>12 DEF BootDeclared, AccountFrame, IInv, Shape, LoopShape
  <2>2. Phase = "booting" /\ hist.readyGen < client.gen
    BY <2>1 DEF Phase, Over, Terminal, IInv, Shape, CountShape
  <2>3. CASE pendingAccounts \ Head(conn.resps).list # {}
    <3>1. state' = state /\ client' = client /\ hist'.readyGen = hist.readyGen
      BY <1>1, <1>12, <2>3 DEF BootDeclared, Confirm, HistRecord
    <3> QED BY <2>1, <3>1, Hidden DEF Phase
  <2>4. CASE pendingAccounts \ Head(conn.resps).list = {}
    <3>1. state' = "ready" /\ client'.gen = client.gen /\ hist'.readyGen = client.gen
      BY <1>1, <1>12, <2>4 DEF BootDeclared, ResetReconnectAttempts, ClientRecord, HistRecord
    <3>2. Phase' = "ready"
      BY <2>1, <3>1 DEF Phase, Over, Terminal
    <3> QED BY <2>2, <3>1, <3>2 DEF Shown, Lifecycle!Next, Lifecycle!BecomeReady
  <2> QED BY <2>3, <2>4
<1>13. CASE StrayAccountList
  BY <1>1, <1>13, Hidden DEF StrayAccountList, Confirm, session, Phase, HistRecord
<1>14. CASE DeclareAnswered
  BY <1>1, <1>14, Hidden DEF DeclareAnswered, Confirm, Phase, HistRecord
<1>15. CASE SnapshotApplied
  <2>1. UNCHANGED <<state, closed>> /\ hist'.readyGen = hist.readyGen
    BY <1>1, <1>15 DEF SnapshotApplied, HistRecord
  <2>2. client' = client \/ client' = DropTransport(client)
    BY <1>15, Zenon DEF SnapshotApplied
  <2>3. client'.gen = client.gen
    BY <1>1, <2>2 DEF DropTransport, ClientRecord
  <2> QED BY <2>1, <2>3, Hidden DEF Phase
<1>16. CASE LoginTimeout \/ AccountTimeout
  <2>1. UNCHANGED <<closed, hist>> /\ (timers.login # 0 \/ timers.account # 0)
    BY <1>16 DEF LoginTimeout, AccountTimeout
  <2>2. ~Over
    BY <2>1 DEF IInv, TypeOK, Shape, LoopShape, TimerShape, NoTimers
  <2>3. Fail(state) \/ UNCHANGED <<state, client>>
    BY <1>16 DEF LoginTimeout, AccountTimeout
  <2>4. CASE Fail(state)
    BY <2>1, <2>2, <2>4, FailShown, Zenon
  <2>5. CASE UNCHANGED <<state, client>>
    BY <2>1, <2>5, Hidden DEF Phase
  <2> QED BY <2>3, <2>4, <2>5
<1>17. CASE DeclareTimeout
  BY <1>17, Hidden DEF DeclareTimeout, Phase
<1>18. CASE \/ GatewayAnswers \/ GatewayHangs
            \/ AdminEditsAccounts \/ AdminChangesPassword \/ AdminDeletesUser \/ AdminReconnects
  <2>1. UNCHANGED <<session, client, hist>>
    BY <1>18, Zenon DEF GatewayAnswers, GatewayHangs, AdminEditsAccounts, AdminChangesPassword,
       AdminDeletesUser, AdminReconnects
  <2> QED BY <2>1, Hidden DEF session, Phase
<1> QED BY <1>2, <1>3, <1>4, <1>5, <1>6, <1>7, <1>8, <1>9, <1>10, <1>11, <1>12, <1>13, <1>14,
           <1>15, <1>16, <1>17, <1>18, Zenon DEF Next, Deliver, TimerFires

(* The parts above the session see the life cycle of SessionLifecycle: one *)
(* ready event per line, none after the end, a new generation per line.    *)
THEOREM SessionRefinesLifecycle == Spec => LifecycleSpec
<1>1. Init => Lifecycle!Init
  BY DEF Init, Lifecycle!Init, Phase, Terminal
<1>2. IInv /\ [Next]_vars => [Lifecycle!Next]_(Lifecycle!vars)
  <2> SUFFICES ASSUME IInv, [Next]_vars PROVE [Lifecycle!Next]_(Lifecycle!vars)
    OBVIOUS
  <2>1. CASE Next
    BY <2>1, StepShown DEF Shown, Seen, Lifecycle!vars
  <2>2. CASE UNCHANGED vars
    BY <2>2 DEF vars, session, Phase, Lifecycle!vars
  <2> QED BY <2>1, <2>2
<1> QED BY <1>1, <1>2, Invariance, PTL DEF Spec, LifecycleSpec, Lifecycle!Spec

(* So a session the parts above take for ready was announced on the very   *)
(* line it is on: by the life cycle alone.                                 *)
THEOREM ReadyEventsAreCurrent == Spec => []Lifecycle!ReadyIsAnnounced
<1>1. Lifecycle!Init => Lifecycle!ReadyIsAnnounced
  BY DEF Lifecycle!Init, Lifecycle!ReadyIsAnnounced
<1>2. Lifecycle!ReadyIsAnnounced /\ [Lifecycle!Next]_(Lifecycle!vars) => Lifecycle!ReadyIsAnnounced'
  BY DEF Lifecycle!ReadyIsAnnounced, Lifecycle!Next, Lifecycle!vars, Lifecycle!LineUp,
     Lifecycle!BecomeReady, Lifecycle!LineLost, Lifecycle!End
<1> QED BY <1>1, <1>2, SessionRefinesLifecycle, PTL DEF LifecycleSpec, Lifecycle!Spec
=============================================================================
