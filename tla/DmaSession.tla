------------------------------ MODULE DmaSession ------------------------------
(***************************************************************************)
(* One gateway session of one user on one server:                          *)
(*   relay/src/dma/dma-client.ts   the TCP line: socket, generation,       *)
(*                                 reconnect timer and back-off            *)
(*   relay/src/dma/session.ts      login, account declaration, ready       *)
(*   relay/src/admin/session-sync.ts   an 87 (the server's users.toml)     *)
(*                                 applied to the open session             *)
(* and, external, the gateway behind the socket and the Admin that edits   *)
(* users.toml.                                                             *)
(*                                                                         *)
(* The code is one event loop, so a handler, with every synchronous call   *)
(* it makes (DmaClient emits, DmaSession handles), is one action.  The     *)
(* line keeps two queues: requests not answered yet and answers not        *)
(* delivered yet.                                                          *)
(***************************************************************************)
EXTENDS Integers, Sequences, FiniteSets

CONSTANTS Accounts,    \* account numbers the DMA user may be given
          MaxFaults,   \* bound on line, gateway and timing faults
          MaxEdits     \* bound on the Admin's edits

ASSUME AccountsAssumption == IsFiniteSet(Accounts)
ASSUME BoundsAssumption == MaxFaults \in Nat /\ MaxEdits \in Nat

VARIABLES
  state,            \* session.ts #state
  bootPhase,        \* #bootPhase: never ready yet
  accounts,         \* #accounts, the allow list orders are checked against
  pendingAccounts,  \* #pendingAccounts: boot declarations not confirmed
  pendingDeclare,   \* #pendingDeclare: declarations made while ready
  declareRespLeft,  \* #declareRespLeft
  timers,           \* #loginTimer, #accountTimer, #declareTimer: the
                    \* generation each captured, 0 when not armed
  password,         \* #password, as a version number
  closed,           \* close() was called
  client,           \* dma-client.ts, see ClientRecord
  conn,             \* the line, see ConnRecord
  gateway,          \* users.toml of this user, see GatewayRecord
  notices,          \* 87 lists sent, not applied yet
  faults, edits,    \* what the bounds have used up
  hist              \* history the properties refer to, see HistRecord

session == <<state, bootPhase, accounts, pendingAccounts, pendingDeclare,
             declareRespLeft, timers, password, closed>>
admin == <<gateway, notices, edits>>
vars == <<session, client, conn, admin, faults, hist>>

States == {"idle", "connecting", "logging_in", "declaring", "ready", "reconnecting",
           "failed", "session_rejected", "unauthorized"}

(* TERMINAL_STATES                                                         *)
Terminal == {"failed", "session_rejected", "unauthorized"}

(* sock: "closing" is a destroyed socket whose 'close' event is pending.   *)
(* retry: the attempt number the armed reconnect timer captured, 0 if none.*)
ClientRecord ==
  [ sock : {"none", "connecting", "open", "closing"},
    gen : Nat, auto : BOOLEAN, attempts : Nat, retry : Nat ]

(* for: the account a declaration, or its answer, is about.                *)
Request  == [ type : {"login", "declare"}, pw : Nat, for : SUBSET Accounts ]
Response == [ type : {"accepted", "refused", "broken", "accounts"},
              list : SUBSET Accounts, for : SUBSET Accounts ]

ConnRecord ==
  [ reqs : Seq(Request), resps : Seq(Response),
    registered : SUBSET Accounts, hung : BOOLEAN ]

(* password 0: the user was deleted.                                       *)
GatewayRecord == [ toml : SUBSET Accounts, password : Nat ]

(* refused: a refusal was delivered; confirmed: accounts listed by the     *)
(* gateway on this line; readyGen: generation of the last ready event;     *)
(* downs: lines lost since then; dropped: accounts an 87 took off the      *)
(* allow list since the last login, and no later 87 listed again.          *)
HistRecord ==
  [ refused : BOOLEAN, confirmed : SUBSET Accounts, readyGen : Nat,
    downs : Nat, dropped : SUBSET Accounts ]

NoTimers == [login |-> 0, account |-> 0, declare |-> 0]
NoConn == [reqs |-> <<>>, resps |-> <<>>, registered |-> {}, hung |-> FALSE]

TypeOK ==
  /\ state \in States
  /\ bootPhase \in BOOLEAN /\ closed \in BOOLEAN
  /\ accounts \in SUBSET Accounts
  /\ pendingAccounts \in SUBSET Accounts
  /\ pendingDeclare \in SUBSET Accounts
  /\ declareRespLeft \in Nat
  /\ timers \in [login : Nat, account : Nat, declare : Nat]
  /\ password \in Nat
  /\ client \in ClientRecord
  /\ conn \in ConnRecord
  /\ gateway \in GatewayRecord
  /\ notices \in Seq(SUBSET Accounts)
  /\ faults \in Nat /\ edits \in Nat
  /\ hist \in HistRecord

Init ==
  /\ state = "idle"
  /\ bootPhase = TRUE
  /\ accounts = {} /\ pendingAccounts = {} /\ pendingDeclare = {}
  /\ declareRespLeft = 0
  /\ timers = NoTimers
  /\ password = 1
  /\ closed = FALSE
  /\ client = [sock |-> "none", gen |-> 0, auto |-> TRUE, attempts |-> 0, retry |-> 0]
  /\ conn = NoConn
  /\ gateway \in [toml : SUBSET Accounts, password : {1, 2}]
  /\ notices = <<>>
  /\ faults = 0 /\ edits = 0
  /\ hist = [refused |-> FALSE, confirmed |-> {}, readyGen |-> 0, downs |-> 0, dropped |-> {}]

-----------------------------------------------------------------------------
(* dma-client.ts: what each operation makes of the client.                 *)

OpenSocket(c) == IF c.sock = "none" THEN [c EXCEPT !.sock = "connecting"] ELSE c

Connect(c) ==
  IF c.sock = "none" THEN OpenSocket([c EXCEPT !.auto = TRUE, !.attempts = 0]) ELSE c

OnConnected(c) == [c EXCEPT !.sock = "open", !.gen = @ + 1]

StopReconnect(c) == [c EXCEPT !.auto = FALSE, !.retry = 0]

Destroy(c) == [c EXCEPT !.auto = FALSE, !.retry = 0, !.sock = "none", !.gen = @ + 1]

DropTransport(c) == IF c.sock = "none" THEN c ELSE [c EXCEPT !.sock = "closing"]

ResetReconnectAttempts(c) == [c EXCEPT !.attempts = 0]

(* The 'close' event, then #onTransportDown and #scheduleReconnect.        *)
TransportDown(c) ==
  [c EXCEPT !.sock = "none", !.gen = @ + 1,
            !.retry = IF c.auto THEN c.attempts + 1 ELSE 0]

-----------------------------------------------------------------------------
(* Parts of the session's handlers.                                        *)

(* A fault is spent.                                                       *)
Fault == faults < MaxFaults /\ faults' = faults + 1

(* What is left of the line once the handler is done with the socket.      *)
LineAfter(k) == conn' = IF client'.sock = "open" THEN k ELSE NoConn

Answered == [conn EXCEPT !.resps = Tail(@)]

(* #clearTimers                                                            *)
ClearTimers == timers' = NoTimers /\ pendingDeclare' = {} /\ declareRespLeft' = 0

(* #fail: before the first ready the session is over; after it only the    *)
(* line is dropped, and the state `s` is kept until the close event.       *)
Fail(s) ==
  /\ ClearTimers
  /\ client' = IF bootPhase THEN Destroy(client) ELSE DropTransport(client)
  /\ state' = IF bootPhase THEN "failed" ELSE s

(* Mutant of FailNoRetry: a refused login handled like any other failure.  *)
FailNoRetryAsFail == Fail(state)

(* #failNoRetry                                                            *)
FailNoRetry ==
  /\ ClearTimers
  /\ client' = Destroy(StopReconnect(client))
  /\ state' = "session_rejected"

(* The orders in which the accounts of a list can be declared.             *)
Orders(S) == { f \in [1..Cardinality(S) -> S] : \A i, j \in DOMAIN f : f[i] = f[j] => i = j }

Declarations(order) ==
  [i \in DOMAIN order |-> [type |-> "declare", pw |-> 0, for |-> {order[i]}]]

-----------------------------------------------------------------------------
(* Lifetime.                                                               *)

Start ==
  /\ state = "idle"
  /\ bootPhase' = TRUE
  /\ state' = "connecting"
  /\ client' = Connect(client)
  /\ UNCHANGED <<accounts, pendingAccounts, pendingDeclare, declareRespLeft, timers,
                 password, closed, conn, admin, faults, hist>>

(* close(), from SessionManager: the state stays what it was.              *)
Close ==
  /\ state # "idle" /\ ~closed
  /\ ClearTimers
  /\ client' = Destroy(client)
  /\ closed' = TRUE
  /\ LineAfter(conn)
  /\ UNCHANGED <<state, bootPhase, accounts, pendingAccounts, password, admin, faults, hist>>

(* terminate("unauthorized"), from AdminDispatcher after a deleted user.   *)
Terminate ==
  /\ gateway.password = 0
  /\ state \notin {"idle", "unauthorized"} /\ ~closed
  /\ ClearTimers
  /\ accounts' = {}
  /\ client' = Destroy(StopReconnect(client))
  /\ state' = "unauthorized"
  /\ LineAfter(conn)
  /\ UNCHANGED <<bootPhase, pendingAccounts, password, closed, admin, faults, hist>>

(* setPassword, from AdminDispatcher once the gateway took the new one.    *)
SetPassword ==
  /\ ~closed
  /\ gateway.password \notin {0, password}
  /\ password' = gateway.password
  /\ UNCHANGED <<state, bootPhase, accounts, pendingAccounts, pendingDeclare,
                 declareRespLeft, timers, closed, client, conn, admin, faults, hist>>

-----------------------------------------------------------------------------
(* The line.                                                               *)

(* The socket connects: #onConnected, then #onTransportUp, which logs in.  *)
TcpConnected ==
  /\ client.sock = "connecting"
  /\ client' = OnConnected(client)
  /\ hist' = [hist EXCEPT !.confirmed = {}]
  /\ IF state \in Terminal
       THEN /\ conn' = NoConn
            /\ UNCHANGED <<state, timers>>
       ELSE /\ state' = "logging_in"
            /\ conn' = [NoConn EXCEPT !.reqs = <<[type |-> "login", pw |-> password, for |-> {}]>>]
            /\ timers' = [timers EXCEPT !.login = client'.gen]
  /\ UNCHANGED <<bootPhase, accounts, pendingAccounts, pendingDeclare, declareRespLeft,
                 password, closed, admin, faults>>

(* The LoginReq cannot be written: the socket is destroyed in send() and   *)
(* #onTransportUp fails the boot.                                          *)
LoginSendFails ==
  /\ client.sock = "connecting" /\ state \notin Terminal
  /\ Fault
  /\ ClearTimers
  /\ client' = IF bootPhase THEN Destroy(OnConnected(client))
                            ELSE DropTransport(OnConnected(client))
  /\ state' = IF bootPhase THEN "failed" ELSE "logging_in"
  /\ hist' = [hist EXCEPT !.confirmed = {}]
  /\ LineAfter(conn)
  /\ UNCHANGED <<bootPhase, accounts, pendingAccounts, password, closed, admin>>

(* Refused or timed out connects, a line the gateway closes, an error, a   *)
(* stalled send, a lost frame boundary: the socket is being closed.        *)
LineBreaks ==
  /\ client.sock \in {"connecting", "open"}
  /\ Fault
  /\ client' = DropTransport(client)
  /\ LineAfter(conn)
  /\ UNCHANGED <<session, admin, hist>>

(* Mutant of SocketClosed: the loss is not shown, the session stays ready. *)
SocketClosedKeepsState ==
  /\ client.sock = "closing"
  /\ ClearTimers
  /\ client' = TransportDown(client)
  /\ hist' = [hist EXCEPT !.downs = @ + 1]
  /\ UNCHANGED <<state, bootPhase, accounts, pendingAccounts, password, closed, conn,
                 admin, faults>>

(* Mutant of SocketClosed: the old cap, after which the user has to retry. *)
SocketClosedCapped ==
  /\ client.sock = "closing"
  /\ ClearTimers
  /\ client' = TransportDown(client)
  /\ state' = IF client.attempts >= 1 THEN "manual_required" ELSE "reconnecting"
  /\ hist' = [hist EXCEPT !.downs = @ + 1]
  /\ UNCHANGED <<bootPhase, accounts, pendingAccounts, password, closed, conn, admin, faults>>

(* The 'close' event.                                                      *)
SocketClosed ==
  /\ client.sock = "closing"
  /\ ClearTimers
  /\ client' = TransportDown(client)
  /\ state' = IF client.auto /\ state \notin Terminal THEN "reconnecting" ELSE state
  /\ hist' = [hist EXCEPT !.downs = @ + 1]
  /\ UNCHANGED <<bootPhase, accounts, pendingAccounts, password, closed, conn, admin, faults>>

(* Mutant of ReconnectTimerFires: the second attempt is not made.          *)
ReconnectTimerGivesUp ==
  /\ client.retry # 0
  /\ client' = LET c == [client EXCEPT !.retry = 0]
               IN IF c.auto /\ client.retry < 2
                    THEN OpenSocket([c EXCEPT !.attempts = client.retry]) ELSE c
  /\ UNCHANGED <<session, conn, admin, faults, hist>>

ReconnectTimerFires ==
  /\ client.retry # 0
  /\ client' = LET c == [client EXCEPT !.retry = 0]
               IN IF c.auto THEN OpenSocket([c EXCEPT !.attempts = client.retry]) ELSE c
  /\ UNCHANGED <<session, conn, admin, faults, hist>>

-----------------------------------------------------------------------------
(* Boot: the answers to the login and to the boot declarations.            *)

LoginFrame == /\ client.sock = "open" /\ conn.resps # <<>>
              /\ Head(conn.resps).type \in {"accepted", "refused", "broken"}

(* An unparsable LoginResp.                                                *)
LoginBroken ==
  /\ LoginFrame /\ Head(conn.resps).type = "broken" /\ state = "logging_in"
  /\ Fail(state)
  /\ LineAfter(Answered)
  /\ UNCHANGED <<bootPhase, accounts, pendingAccounts, password, closed, admin, faults, hist>>

(* A refusal, or an accepted login without accounts.                       *)
LoginRefused ==
  /\ LoginFrame /\ state = "logging_in"
  /\ \/ Head(conn.resps).type = "refused"
     \/ Head(conn.resps).type = "accepted" /\ Head(conn.resps).list = {}
  /\ FailNoRetry
  /\ LineAfter(Answered)
  /\ hist' = [hist EXCEPT !.refused = @ \/ Head(conn.resps).type = "refused"]
  /\ UNCHANGED <<bootPhase, accounts, pendingAccounts, password, closed, admin, faults>>

(* #onLoginAccepted: every account is declared, without waiting, and one   *)
(* deadline covers them all.                                               *)
LoginAccepted ==
  LET list == Head(conn.resps).list
  IN /\ LoginFrame /\ state = "logging_in"
     /\ Head(conn.resps).type = "accepted" /\ list # {}
     /\ accounts' = list
     /\ pendingAccounts' = list
     /\ hist' = [hist EXCEPT !.dropped = {}]
     /\ \/ \E order \in Orders(list) :
             /\ state' = "declaring"
             /\ conn' = [Answered EXCEPT !.reqs = @ \o Declarations(order)]
             /\ timers' = [timers EXCEPT !.login = 0, !.account = client.gen]
             /\ UNCHANGED <<pendingDeclare, declareRespLeft, client, faults>>
        \/ /\ Fault              \* a declaration cannot be written
           /\ Fail("declaring")
           /\ LineAfter(Answered)
     /\ UNCHANGED <<bootPhase, password, closed, admin>>

AccountFrame == /\ client.sock = "open" /\ conn.resps # <<>>
                /\ Head(conn.resps).type = "accounts"

Confirm(list) == hist' = [hist EXCEPT !.confirmed = @ \cup list]

(* #onAccountListResp while declaring: the lists accumulate; when every    *)
(* declared account was listed, #onAccountsMatched makes the session ready.*)
BootDeclared ==
  LET list == Head(conn.resps).list
      left == pendingAccounts \ list
  IN /\ AccountFrame /\ state = "declaring"
     /\ pendingAccounts' = left
     /\ conn' = Answered
     /\ IF left # {}
          THEN /\ Confirm(list)
               /\ UNCHANGED <<state, bootPhase, timers, client>>
          ELSE /\ client' = ResetReconnectAttempts(client)
               /\ timers' = [timers EXCEPT !.account = 0]
               /\ state' = "ready"
               /\ bootPhase' = FALSE
               /\ hist' = [hist EXCEPT !.confirmed = @ \cup list,
                                       !.readyGen = client.gen, !.downs = 0]
     /\ UNCHANGED <<accounts, pendingDeclare, declareRespLeft, password, closed, admin, faults>>

(* An account list nobody waits for.                                       *)
StrayAccountList ==
  /\ AccountFrame
  /\ state # "declaring" /\ ~(state = "ready" /\ pendingDeclare # {})
  /\ conn' = Answered
  /\ Confirm(Head(conn.resps).list)
  /\ UNCHANGED <<session, client, admin, faults>>

-----------------------------------------------------------------------------
(* Accounts added and removed while the session is open.                   *)

(* Mutant of DeclareAnswered: everything the server lists is allowed.      *)
DeclareAnsweredTrustsList ==
  LET list == Head(conn.resps).list
      rest == pendingDeclare \ list
      left == IF declareRespLeft = 0 THEN 0 ELSE declareRespLeft - 1
      over == rest = {} \/ left = 0
  IN /\ AccountFrame /\ state = "ready" /\ pendingDeclare # {}
     /\ accounts' = accounts \cup list
     /\ pendingDeclare' = IF over THEN {} ELSE rest
     /\ declareRespLeft' = IF over THEN 0 ELSE left
     /\ timers' = IF over THEN [timers EXCEPT !.declare = 0] ELSE timers
     /\ conn' = Answered
     /\ Confirm(list)
     /\ UNCHANGED <<state, bootPhase, pendingAccounts, password, closed, client, admin, faults>>

(* #onDeclareResp: pending accounts on the list are allowed; after as many *)
(* answers as declarations the rest is dropped (#settleDeclare).           *)
DeclareAnswered ==
  LET list == Head(conn.resps).list
      rest == pendingDeclare \ list
      left == IF declareRespLeft = 0 THEN 0 ELSE declareRespLeft - 1
      over == rest = {} \/ left = 0
  IN /\ AccountFrame /\ state = "ready" /\ pendingDeclare # {}
     /\ accounts' = accounts \cup (pendingDeclare \cap list)
     /\ pendingDeclare' = IF over THEN {} ELSE rest
     /\ declareRespLeft' = IF over THEN 0 ELSE left
     /\ timers' = IF over THEN [timers EXCEPT !.declare = 0] ELSE timers
     /\ conn' = Answered
     /\ Confirm(list)
     /\ UNCHANGED <<state, bootPhase, pendingAccounts, password, closed, client, admin, faults>>

(* Mutant of SnapshotApplied: a new declaration is sent without a deadline.*)
SnapshotAppliedNoDeadline ==
  LET list  == Head(notices)
      gone  == accounts \ list
      keep  == accounts \ gone
      wait  == pendingDeclare \ gone
      fresh == IF state = "ready" THEN list \ (keep \cup wait) ELSE {}
  IN /\ notices # <<>> /\ ~closed
     /\ notices' = Tail(notices)
     /\ accounts' = keep
     /\ hist' = [hist EXCEPT !.dropped = (@ \cup gone) \ list]
     /\ \/ /\ fresh = {} \/ client.sock # "open"
           /\ pendingDeclare' = wait
           /\ UNCHANGED <<declareRespLeft, timers, client, conn, faults>>
        \/ /\ fresh # {} /\ client.sock = "open"
           /\ \E order \in Orders(fresh) :
                conn' = [conn EXCEPT !.reqs = @ \o Declarations(order)]
           /\ pendingDeclare' = wait \cup fresh
           /\ declareRespLeft' = declareRespLeft + Cardinality(fresh)
           /\ UNCHANGED <<timers, client, faults>>
     /\ UNCHANGED <<state, bootPhase, pendingAccounts, password, closed, gateway, edits>>

(* AdminSessionSync applies an 87: the accounts of the allow list that it  *)
(* omits are removed (removeAllowedAccounts, which also forgets their      *)
(* pending declarations), then the new ones are declared if the session is *)
(* ready (declareAccounts).                                                *)
SnapshotApplied ==
  LET list  == Head(notices)
      gone  == accounts \ list
      keep  == accounts \ gone
      wait  == pendingDeclare \ gone
      fresh == IF state = "ready" THEN list \ (keep \cup wait) ELSE {}
  IN /\ notices # <<>> /\ ~closed
     /\ notices' = Tail(notices)
     /\ accounts' = keep
     /\ hist' = [hist EXCEPT !.dropped = (@ \cup gone) \ list]
     /\ \/ /\ fresh = {} \/ client.sock # "open"   \* nothing to send, or send() is false
           /\ pendingDeclare' = wait
           /\ UNCHANGED <<declareRespLeft, timers, client, conn, faults>>
        \/ /\ fresh # {} /\ client.sock = "open"
           /\ \E order \in Orders(fresh) :
                conn' = [conn EXCEPT !.reqs = @ \o Declarations(order)]
           /\ pendingDeclare' = wait \cup fresh
           /\ declareRespLeft' = declareRespLeft + Cardinality(fresh)
           /\ timers' = [timers EXCEPT !.declare = client.gen]
           /\ UNCHANGED <<client, faults>>
        \/ /\ fresh # {} /\ client.sock = "open"   \* a write throws after `sent`
           /\ Fault
           /\ \E sent \in SUBSET fresh :
                /\ sent # fresh
                /\ pendingDeclare' = wait \cup sent
                /\ declareRespLeft' = declareRespLeft + Cardinality(sent)
                /\ timers' = IF sent = {} THEN timers
                                          ELSE [timers EXCEPT !.declare = client.gen]
           /\ client' = DropTransport(client)
           /\ LineAfter(conn)
     /\ UNCHANGED <<state, bootPhase, pendingAccounts, password, closed, gateway, edits>>

-----------------------------------------------------------------------------
(* Deadlines.  A deadline passes freely when the gateway is silent; while  *)
(* an answer is still on its way its passing is a fault.                   *)
DeadlinePasses ==
  IF conn.hung \/ (conn.reqs = <<>> /\ conn.resps = <<>>) THEN UNCHANGED faults ELSE Fault

LoginTimeout ==
  /\ timers.login # 0
  /\ DeadlinePasses
  /\ IF timers.login = client.gen /\ state \notin Terminal
       THEN Fail(state)
       ELSE /\ timers' = [timers EXCEPT !.login = 0]
            /\ UNCHANGED <<state, pendingDeclare, declareRespLeft, client>>
  /\ LineAfter(conn)
  /\ UNCHANGED <<bootPhase, accounts, pendingAccounts, password, closed, admin, hist>>

AccountTimeout ==
  /\ timers.account # 0
  /\ DeadlinePasses
  /\ IF timers.account = client.gen /\ state \notin Terminal
       THEN Fail(state)
       ELSE /\ timers' = [timers EXCEPT !.account = 0]
            /\ UNCHANGED <<state, pendingDeclare, declareRespLeft, client>>
  /\ LineAfter(conn)
  /\ UNCHANGED <<bootPhase, accounts, pendingAccounts, password, closed, admin, hist>>

DeclareTimeout ==
  /\ timers.declare # 0
  /\ DeadlinePasses
  /\ timers' = [timers EXCEPT !.declare = 0]
  /\ IF timers.declare = client.gen
       THEN pendingDeclare' = {} /\ declareRespLeft' = 0
       ELSE UNCHANGED <<pendingDeclare, declareRespLeft>>
  /\ UNCHANGED <<state, bootPhase, accounts, pendingAccounts, password, closed,
                 client, conn, admin, hist>>

-----------------------------------------------------------------------------
(* The gateway (external): answers in order; a login is checked against    *)
(* users.toml as it is then, a declaration registers the account if        *)
(* users.toml has it, and every account list is the registered accounts.   *)
(* Another client of the same user may have registered some before.        *)
GatewayAnswers ==
  LET r == Head(conn.reqs)
      listed == (conn.registered \cup r.for) \cap gateway.toml
      reply(type, list) == [type |-> type, list |-> list, for |-> r.for]
      answer(resp, registered) ==
        conn' = [conn EXCEPT !.reqs = Tail(@), !.resps = Append(@, resp),
                             !.registered = registered]
  IN /\ client.sock = "open" /\ ~conn.hung /\ conn.reqs # <<>>
     /\ \/ /\ r.type = "login" /\ r.pw = gateway.password
           /\ \E others \in SUBSET gateway.toml :
                answer(reply("accepted", gateway.toml), others)
           /\ UNCHANGED faults
        \/ /\ r.type = "login" /\ r.pw # gateway.password
           /\ answer(reply("refused", {}), {})
           /\ UNCHANGED faults
        \/ /\ r.type = "login" /\ Fault
           /\ answer(reply("broken", {}), {})
        \/ /\ r.type = "declare"
           /\ answer(reply("accounts", listed), listed)
           /\ UNCHANGED faults
        \/ /\ r.type = "declare" /\ Fault      \* the answer is lost
           /\ conn' = [conn EXCEPT !.reqs = Tail(@), !.registered = listed]
     /\ UNCHANGED <<session, client, admin, hist>>

GatewayHangs ==
  /\ client.sock = "open" /\ ~conn.hung
  /\ Fault
  /\ conn' = [conn EXCEPT !.hung = TRUE]
  /\ UNCHANGED <<session, client, admin, hist>>

(* The Admin (external): users.toml changes on the gateway first; the 87   *)
(* travels on the Admin connection, not on this line.                      *)
Edit == edits < MaxEdits /\ edits' = edits + 1

AdminEditsAccounts ==
  /\ Edit /\ gateway.password # 0
  /\ \E list \in SUBSET Accounts :
       /\ list # gateway.toml
       /\ gateway' = [gateway EXCEPT !.toml = list]
       /\ notices' = Append(notices, list)
  /\ UNCHANGED <<session, client, conn, faults, hist>>

AdminChangesPassword ==
  /\ Edit /\ gateway.password # 0
  /\ gateway' = [gateway EXCEPT !.password = @ + 1]
  /\ UNCHANGED <<session, client, conn, notices, faults, hist>>

(* The user is deleted: the 87s no longer mention it.                      *)
AdminDeletesUser ==
  /\ Edit /\ gateway.password # 0
  /\ gateway' = [toml |-> {}, password |-> 0]
  /\ UNCHANGED <<session, client, conn, notices, faults, hist>>

(* The Admin connection drops the 87s in flight and gets a new one.        *)
AdminReconnects ==
  /\ Fault /\ gateway.password # 0 /\ notices # <<gateway.toml>>
  /\ notices' = <<gateway.toml>>
  /\ UNCHANGED <<session, client, conn, gateway, edits, hist>>

-----------------------------------------------------------------------------
Deliver == \/ LoginBroken \/ LoginRefused \/ LoginAccepted \/ BootDeclared
           \/ StrayAccountList \/ DeclareAnswered
TimerFires == LoginTimeout \/ AccountTimeout \/ DeclareTimeout

Next ==
  \/ Start \/ Close \/ Terminate \/ SetPassword
  \/ TcpConnected \/ LoginSendFails \/ LineBreaks \/ SocketClosed \/ ReconnectTimerFires
  \/ Deliver \/ SnapshotApplied \/ TimerFires
  \/ GatewayAnswers \/ GatewayHangs
  \/ AdminEditsAccounts \/ AdminChangesPassword \/ AdminDeletesUser \/ AdminReconnects

(* Node runs due timers and socket events; a connect succeeds or fails     *)
(* (its own timer is 3 s); a gateway that is not hung answers.             *)
Fairness ==
  /\ WF_vars(Start)
  /\ WF_vars(TcpConnected) /\ WF_vars(SocketClosed) /\ WF_vars(ReconnectTimerFires)
  /\ WF_vars(GatewayAnswers) /\ WF_vars(Deliver) /\ WF_vars(TimerFires)

Spec == Init /\ [][Next]_vars /\ Fairness

-----------------------------------------------------------------------------
(* A session that is over, or closed, is silent: no socket, no reconnect   *)
(* timer, no deadline, and the reconnect loop is off (session.ts: "루프를  *)
(* 먼저 끊고 연결을 정리한다").                                            *)
TerminalIsQuiet ==
  state \in Terminal \/ closed =>
    /\ client.sock = "none" /\ client.retry = 0 /\ ~client.auto
    /\ timers = NoTimers /\ pendingDeclare = {}

(* A session that is not over always has something that will move it: a    *)
(* connect or close under way, a reconnect timer, or the deadline of the   *)
(* step it is in; a declaration made while ready has its own deadline.     *)
NeverWedged ==
  state # "idle" /\ state \notin Terminal /\ ~closed =>
    CASE client.sock = "none" -> client.retry # 0
      [] client.sock = "open" ->
           /\ state \in {"logging_in", "declaring", "ready"}
           /\ state = "logging_in" => timers.login # 0
           /\ state = "declaring" => timers.account # 0
           /\ pendingDeclare # {} => timers.declare # 0
      [] OTHER -> TRUE

(* No deadline outlives its line: a failure of an old line is never        *)
(* reported late (the comment on #clearTimers).                            *)
NoStaleTimer ==
  \A t \in {timers.login, timers.account, timers.declare} : t # 0 => t = client.gen

(* The armed reconnect timer counts every line lost since the last ready:  *)
(* the back-off starts over only when the session was usable again, not    *)
(* when TCP connected (dma-client.ts resetReconnectAttempts).              *)
BackoffCountsFailures == client.retry # 0 => client.retry = hist.downs

(* Together: a session is moved by its own line, its deadlines and a       *)
(* back-off that counts every failure until it is over, and by nothing     *)
(* after that.                                                             *)
DrivenOrSilent == TerminalIsQuiet /\ NeverWedged /\ NoStaleTimer /\ BackoffCountsFailures

(* A ready session allows orders only on accounts the gateway listed on    *)
(* this very line (T-15-01).                                               *)
ReadyIsDeclared ==
  state = "ready" /\ ~closed => pendingAccounts = {} /\ accounts \subseteq hist.confirmed

(* An account that was on the allow list when an 87 took it off comes back *)
(* only through a later 87 that lists it, or a new login; no late answer   *)
(* restores it.  An account whose declaration was not answered yet when    *)
(* the 87 left it out was not on the list: NoRevokedAccount is about it.   *)
RemovedStaysRemoved == accounts \cap hist.dropped = {}

(* Together: each account a ready session allows was listed by an answer   *)
(* of the gateway on this very line, and is none that an 87 took off the   *)
(* list and no later 87 or login brought back.                             *)
AllowListIsSound == ReadyIsDeclared /\ RemovedStaysRemoved

LoginSent == \E i \in DOMAIN conn'.reqs : conn'.reqs[i].type = "login" /\ conn'.reqs # conn.reqs

(* After the gateway's refusal reached the session no LoginReq is sent     *)
(* again, whatever happens to the line (D-16, T-15-10: the KB account      *)
(* locks).                                                                 *)
NoLoginAfterRefusal == [][hist.refused => ~LoginSent]_vars

(* A session whose line is lost reconnects until it is ready again or is   *)
(* over; nothing but the end of the faults is needed.                      *)
EventuallySettles ==
  state \in {"connecting", "logging_in", "declaring", "reconnecting"}
    ~> state \in {"ready"} \cup Terminal \/ closed

(* What the parts above see of the session.                                *)
Phase ==
  IF state \in Terminal \/ closed THEN "over"
  ELSE CASE state \in {"logging_in", "declaring"} -> "booting"
         [] state = "ready" -> "ready"
         [] OTHER -> "down"

Lifecycle == INSTANCE SessionLifecycle WITH
  phase <- Phase, epoch <- client.gen, announced <- hist.readyGen

(* The session keeps the promise of SessionLifecycle: the parts above see  *)
(* one ready event per line and never a ready session on another line.     *)
LifecycleSpec == Lifecycle!Spec

(* session.ts: an account missing from an 87 is off the list at once and a *)
(* late answer must not bring it back ("늦은 응답이 되살리지 않게").  An   *)
(* account a ready session allows is in users.toml, or the 87 that takes   *)
(* it away is still on its way.                                            *)
NoRevokedAccount ==
  state = "ready" /\ ~closed /\ gateway.password # 0 =>
    \A a \in accounts \ gateway.toml : \E i \in DOMAIN notices : a \notin notices[i]
=============================================================================
