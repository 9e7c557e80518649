----------------------------- MODULE AdminDispatch -----------------------------
(***************************************************************************)
(* relay/src/admin/dispatcher.ts and planner.ts: the rows of the database  *)
(* say which accounts of a DMA user are to be on which server; a call      *)
(* brings the servers in line with the rows, tells the Admin what came of  *)
(* it by a deadline, and records it.  The calls for a user wait for one    *)
(* another; within a call the servers are worked on in parallel, each a    *)
(* job that awaits its connection (AdminConn), the password and the        *)
(* database.  One DMA user; its rows are written by the routes of          *)
(* admin-api.ts through the functions of the database.                     *)
(***************************************************************************)
EXTENDS AdminConn

CONSTANTS Servers,      \* enabled servers with an administration connection
          Calls,        \* calls of the routes; each happens once
          FirstRows,    \* <<server, account>>: the rows at the start
          FirstValues,  \* ... and the values
          Foreign,      \* <<server, account>>: on the server, by other tools
          Puts,         \* what an Admin may put: account, value and servers
          MaxMishaps    \* bound on lost lines, late answers, commands of others,
                        \* refusals and failed writes of the database, together

ASSUME FirstRowsAssumption ==
  /\ FirstRows \union Foreign \subseteq Servers \X Accounts
  /\ FirstRows \intersect Foreign = {}
  /\ FirstValues \in [Accounts -> Values]
ASSUME PutsAssumption ==
  \A p \in Puts : /\ p.account \in Accounts /\ p.value \in Values
                 /\ p.servers # {} /\ p.servers \subseteq Servers
                 /\ \A s \in p.servers : <<s, p.account>> \notin Foreign
ASSUME BoundsAssumption == MaxMishaps \in Nat

VARIABLES
  db,      \* the user's rows, values and recorded results
  conn,    \* the connection of each server
  call,    \* the calls
  chain,   \* #chains: the calls that wait, the running one first
  intent,  \* what the running call has read
  secret,  \* the password it has read, once for all servers
  job,     \* its work on each server
  last,    \* history: what the last call found at each server
  doubt,   \* history: an answer of the server came too late
  lost,    \* history: a result was not recorded, or rows that were written
           \* were told as an error and no call followed
  budget   \* mishaps left

vars == <<db, conn, call, chain, intent, secret, job, last, doubt, lost, budget>>

States   == {"none", "active", "removing"}
Verdicts == {"none", "ok", "failed", "timeout", "offline"}

NoChip == [s \in Servers |-> "none"]
NoRows == [s \in Servers |-> [a \in Accounts |-> "none"]]
Idle   == [phase |-> "off", ops |-> <<>>, removed |-> {}, result |-> "none"]

(* chip: the results of the last record, by server. *)
Databases ==
  [ user : BOOLEAN, rows : [Servers -> [Accounts -> States]],
    value : [Accounts -> Values], chip : [Servers -> Verdicts] ]

(* fold: the answer at the deadline; folded: what it records.              *)
(* answer: what the Admin was told, the outcome of the call itself or, at  *)
(* the deadline, what was known; "deleted" is deleted: true, "error" what  *)
(* the database threw.                                                     *)
CallStates ==
  [ kind   : {"none", "put", "remove", "redo", "delete"},
    step   : {"new", "committed", "waiting", "reading", "running", "deleting", "over"},
    fold   : {"no", "reading", "recording", "done"},
    folded : [Servers -> Verdicts],
    answer : {"none", "full", "folded", "deleted", "error"} ]

Planned == [op : CreateUser..RemoveAccount, accounts : SUBSET Accounts]

TypeOK ==
  /\ db \in Databases
  /\ \A s \in Servers : IsConn(conn[s])
  /\ call \in [Calls -> CallStates]
  /\ \A i \in DOMAIN chain : chain[i] \in Calls
  /\ \A i \in 2..Len(chain) : call[chain[i]].step = "waiting"
  /\ intent.rows \in [Servers -> [Accounts -> States]] /\ intent.value \in [Accounts -> Values]
  /\ secret \in {"unread", "read", "bad"}
  /\ \A s \in Servers :
       /\ job[s].phase \in {"off", "refresh", "password", "op", "settle", "done"}
       /\ \A i \in DOMAIN job[s].ops : job[s].ops[i] \in Planned
       /\ job[s].removed \subseteq Accounts /\ job[s].result \in Verdicts
  /\ last \in [Servers -> Verdicts] /\ doubt \in BOOLEAN /\ lost \in BOOLEAN
  /\ budget \in 0..MaxMishaps

-----------------------------------------------------------------------------
(* diffServerAccounts and planServerOps: what a server is sent, given what *)
(* the call has read and the file of the server.                           *)
RowsOf(s)   == intent.rows[s]
Active(s)   == {a \in Accounts : RowsOf(s)[a] = "active"}
Removing(s) == {a \in Accounts : RowsOf(s)[a] = "removing"}
InFile(file) == {a \in Accounts : file[a] # Absent}

Each(op, accounts) ==
  [i \in 1..Cardinality(accounts) |->
     [op |-> op, accounts |-> {SetToSeq(accounts)[i]}]]

Writes(s, file) ==
  LET writes == Each(PutAccount, {a \in Active(s) : file[a] # intent.value[a]})
  IN  IF UserPresent(file) \/ writes = <<>> THEN writes
      ELSE <<[writes[1] EXCEPT !.op = CreateUser]>> \o Tail(writes)

(* The user goes with the last account, since a server refuses to remove   *)
(* that, but only if no account is there that the rows do not have.        *)
Removals(s, file) ==
  LET gone == Removing(s) \intersect InFile(file)
  IN  IF gone # {} /\ Active(s) = {} /\ InFile(file) \subseteq Removing(s)
      THEN <<[op |-> RemoveUser, accounts |-> gone]>>
      ELSE Each(RemoveAccount, gone)

Plan(s, file) ==
  [ops |-> Writes(s, file) \o Removals(s, file), settled |-> Removing(s) \ InFile(file)]

(* interpretAdminResult *)
Succeeded(op, code) ==
  \/ code = Done
  \/ op = RemoveAccount /\ code = NoSuchAccount
  \/ op = RemoveUser /\ code = NoSuchUser

-----------------------------------------------------------------------------
(* #applyServer between two awaits, on x: the connection of the server and *)
(* the job.                                                                *)
Deleting(r) == call[r].kind = "delete"

(* The end: what is known to be gone is settled whatever the result was;   *)
(* for a deletion, all rows or none.                                       *)
Conclude(x, r, result) ==
  [x EXCEPT !.job.result = result, !.job.ops = <<>>,
            !.job.phase = IF IF Deleting(r) THEN result = "ok" ELSE x.job.removed # {}
                          THEN "settle" ELSE "done"]

CommandOf(op) ==
  IF op.op = RemoveUser THEN Command(RemoveUser, Absent, Absent)
  ELSE LET a == CHOOSE a \in op.accounts : TRUE
       IN  Command(op.op, a, IF op.op = RemoveAccount THEN Absent ELSE intent.value[a])

(* The next operation; only the one that creates a user needs the password. *)
Proceed(x, r, password) ==
  IF x.job.ops = <<>> THEN Conclude(x, r, "ok")
  ELSE LET op == Head(x.job.ops)
           c  == Issue(x.conn, CommandOf(op))
       IN  IF op.op = CreateUser /\ password = "unread" THEN [x EXCEPT !.job.phase = "password"]
           ELSE IF op.op = CreateUser /\ password = "bad" THEN Conclude(x, r, "failed")
           ELSE IF c.out = Offline THEN Conclude(x, r, "offline")
           ELSE [x EXCEPT !.conn = c, !.job.phase = "op"]

(* Without a file of this line nothing is sent.  A plan that writes        *)
(* accounts is made again from a file the server is asked for.             *)
StartJob(s, r) ==
  LET x    == [conn |-> conn[s], job |-> Idle]
      plan == Plan(s, conn[s].cache)
  IN  IF conn[s].cache = Absent
      THEN [x EXCEPT !.job.phase = "done", !.job.result = "offline"]
      ELSE IF \E i \in DOMAIN plan.ops : plan.ops[i].op \in {CreateUser, PutAccount}
      THEN [x EXCEPT !.conn = Issue(conn[s], Lister), !.job.phase = "refresh"]
      ELSE Proceed([x EXCEPT !.job.ops = plan.ops, !.job.removed = plan.settled], r, secret)

AfterRefresh(x, s, r, outcome) ==
  LET plan == Plan(s, outcome.file)
  IN  IF outcome.kind # "result"
      THEN [x EXCEPT !.job.phase = "done", !.job.result = outcome.kind]
      ELSE Proceed([x EXCEPT !.job.ops = plan.ops, !.job.removed = plan.settled], r, secret)

(* The first failure ends the job. *)
AfterOp(x, r, outcome) ==
  LET op   == Head(x.job.ops)
      gone == IF op.op \in {RemoveAccount, RemoveUser} THEN op.accounts ELSE {}
  IN  IF outcome.kind # "result" THEN Conclude(x, r, outcome.kind)
      ELSE IF ~Succeeded(op.op, outcome.code) THEN Conclude(x, r, "failed")
      ELSE Proceed([x EXCEPT !.job.ops = Tail(@), !.job.removed = @ \union gone], r, secret)

(* A method of the connection has given c; the job goes on in the same     *)
(* turn if it was given the outcome it awaits.                             *)
Resume(s, c) ==
  LET x == [conn |-> [c EXCEPT !.out = NoOutcome], job |-> job[s]]
  IN  IF c.out = NoOutcome THEN x
      ELSE IF job[s].phase = "refresh" THEN AfterRefresh(x, s, Head(chain), c.out)
      ELSE AfterOp(x, Head(chain), c.out)

ConnStep(s, c) ==
  LET x == Resume(s, c)
  IN  conn' = [conn EXCEPT ![s] = x.conn] /\ job' = [job EXCEPT ![s] = x.job]

AllDone == \A s \in Servers : job[s].phase \in {"off", "done"}

Mishap == budget > 0 /\ budget' = budget - 1

-----------------------------------------------------------------------------
(* The line. *)
LineUp(s) ==
  /\ ~conn[s].up
  /\ ConnStep(s, HandleUp(conn[s]))
  /\ UNCHANGED <<db, call, chain, intent, secret, last, doubt, lost, budget>>

LineDown(s) ==
  /\ conn[s].up /\ Mishap
  /\ ConnStep(s, HandleDown(conn[s]))
  /\ UNCHANGED <<db, call, chain, intent, secret, last, doubt, lost>>

Gateway(s) ==
  /\ conn[s].wire # <<>>
  /\ \/ UNCHANGED budget /\ ConnStep(s, Serve(conn[s], FALSE))
     \/ Head(conn[s].wire).command.op # ListUsers /\ Mishap
        /\ ConnStep(s, Serve(conn[s], TRUE))
  /\ UNCHANGED <<db, call, chain, intent, secret, last, doubt, lost>>

Frame(s) ==
  /\ conn[s].back # <<>>
  /\ ConnStep(s, HandleFrame(conn[s]))
  /\ UNCHANGED <<db, call, chain, intent, secret, last, doubt, lost, budget>>

Timeout(s) ==
  /\ Mishap
  /\ \/ AwaitsAnswer(conn[s]) /\ ConnStep(s, CommandTimesOut(conn[s]))
     \/ HoldsResult(conn[s]) /\ ConnStep(s, SnapshotTimesOut(conn[s]))
  /\ doubt' = TRUE
  /\ UNCHANGED <<db, call, chain, intent, secret, last, lost>>

OtherCommand(s) ==
  /\ conn[s].up /\ Mishap
  /\ ConnStep(s, Issue(conn[s], OtherUsers))
  /\ UNCHANGED <<db, call, chain, intent, secret, last, doubt, lost>>

-----------------------------------------------------------------------------
(* The routes write the rows, then call the dispatcher. *)
Committed(r, kind) == call' = [call EXCEPT ![r].kind = kind, ![r].step = "committed"]

(* dma_admin_put_account: active on these servers, removing on the others. *)
CommitPut(r, a, v, servers) ==
  /\ db' = [db EXCEPT !.value[a] = v,
                      !.rows = [s \in Servers |-> [db.rows[s] EXCEPT ![a] =
                                  IF s \in servers THEN "active"
                                  ELSE IF db.rows[s][a] = "active" THEN "removing"
                                  ELSE db.rows[s][a]]]]
  /\ Committed(r, "put")

(* dma_admin_mark_account_removed: not the last account with a server. *)
CommitRemove(r, a) ==
  /\ \E s \in Servers : db.rows[s][a] # "none"
  /\ \E s \in Servers, b \in Accounts \ {a} : db.rows[s][b] = "active"
  /\ db' = [db EXCEPT !.rows = [s \in Servers |-> [db.rows[s] EXCEPT ![a] =
                                  IF db.rows[s][a] = "active" THEN "removing"
                                  ELSE db.rows[s][a]]]]
  /\ Committed(r, "remove")

Commit(r) ==
  /\ call[r].step = "new" /\ db.user
  /\ \/ \E p \in Puts : CommitPut(r, p.account, p.value, p.servers)
     \/ \E a \in Accounts : CommitRemove(r, a)
     \/ \E kind \in {"redo", "delete"} : Committed(r, kind) /\ UNCHANGED db
  /\ UNCHANGED <<conn, chain, intent, secret, job, last, doubt, lost, budget>>

(* The rows are written but the answer of the database is lost: the route  *)
(* tells an error and does not call the dispatcher.                        *)
AnswerLost(r) ==
  /\ call[r].step = "committed" /\ call[r].kind \in {"put", "remove"} /\ Mishap
  /\ call' = [call EXCEPT ![r].kind = "none", ![r].step = "over", ![r].answer = "error"]
  /\ lost' = TRUE
  /\ UNCHANGED <<db, conn, chain, intent, secret, job, last, doubt>>

(* #serial *)
Enqueue(r) ==
  /\ call[r].step = "committed"
  /\ call' = [call EXCEPT ![r].step = "waiting"]
  /\ chain' = Append(chain, r)
  /\ UNCHANGED <<db, conn, intent, secret, job, last, doubt, lost, budget>>

(* What a call works with: a deletion takes every row as removing. *)
ReadRows(r) ==
  [ rows |-> [s \in Servers |-> [a \in Accounts |->
                IF Deleting(r) /\ db.rows[s][a] # "none" THEN "removing" ELSE db.rows[s][a]]],
    value |-> db.value ]
KeysOf(rows) == {s \in Servers : \E a \in Accounts : rows[s][a] # "none"}

(* Mutant of ReadIntent: a call does not wait for the one before. *)
ReadIntentAnyTime(r) ==
  /\ call[r].step = "waiting"
  /\ call' = [call EXCEPT ![r].step = "reading"]
  /\ intent' = ReadRows(r)
  /\ UNCHANGED <<db, conn, chain, secret, job, last, doubt, lost, budget>>

(* Its turn: the rows are read ... *)
ReadIntent(r) ==
  /\ chain # <<>> /\ r = Head(chain) /\ call[r].step = "waiting"
  /\ call' = [call EXCEPT ![r].step = "reading"]
  /\ intent' = ReadRows(r)
  /\ UNCHANGED <<db, conn, chain, secret, job, last, doubt, lost, budget>>

(* ... and every server that has some is started, #fanOut. *)
Begin(r) ==
  /\ call[r].step = "reading"
  /\ call' = [call EXCEPT ![r].step = "running"]
  /\ LET x == [s \in KeysOf(intent.rows) |-> StartJob(s, r)]
     IN  /\ conn' = [s \in Servers |-> IF s \in DOMAIN x THEN x[s].conn ELSE conn[s]]
         /\ job'  = [s \in Servers |-> IF s \in DOMAIN x THEN x[s].job ELSE Idle]
  /\ UNCHANGED <<db, chain, intent, secret, last, doubt, lost, budget>>

(* #passwordSource: all servers of the call share one read. *)
PasswordRead ==
  /\ \E s \in Servers : job[s].phase = "password"
  /\ \/ secret' = "read" /\ UNCHANGED budget
     \/ secret' = "bad" /\ Mishap
  /\ LET waiting == {s \in Servers : job[s].phase = "password"}
         x == [s \in waiting |->
                 Proceed([conn |-> conn[s], job |-> job[s]], Head(chain), secret')]
     IN  /\ conn' = [s \in Servers |-> IF s \in waiting THEN x[s].conn ELSE conn[s]]
         /\ job'  = [s \in Servers |-> IF s \in waiting THEN x[s].job ELSE job[s]]
  /\ UNCHANGED <<db, call, chain, intent, last, doubt, lost>>

(* dma_admin_settle_server: rows that are removing still; for a deletion   *)
(* all rows of the server.                                                 *)
SettledRows(s) ==
  [a \in Accounts |->
     IF Deleting(Head(chain)) \/ (a \in job[s].removed /\ db.rows[s][a] = "removing")
     THEN "none" ELSE db.rows[s][a]]

(* #settle: a failure does not change the result, so it does not matter    *)
(* whether the answer of a write that was done arrives; nor for Record.    *)
Settle(s) ==
  /\ job[s].phase = "settle"
  /\ job' = [job EXCEPT ![s].phase = "done", ![s].removed = {}]
  /\ \/ db' = [db EXCEPT !.rows[s] = SettledRows(s)] /\ UNCHANGED budget
     \/ UNCHANGED db /\ Mishap
  /\ UNCHANGED <<conn, call, chain, intent, secret, last, doubt, lost>>

-----------------------------------------------------------------------------
(* progress.finished *)
Finished(r) ==
  call[r].step \in {"deleting", "over"} \/ (call[r].step = "running" /\ AllDone)

(* dma_admin_record_results: nothing for a user that is gone. *)
Record(results) ==
  \/ /\ db' = [db EXCEPT !.chip = [s \in Servers |->
                 IF results[s] = "none" \/ ~db.user THEN @[s] ELSE results[s]]]
     /\ UNCHANGED <<lost, budget>>
  \/ UNCHANGED db /\ lost' = TRUE /\ Mishap

(* #answerBy, the timer: the servers that are not done are answered for as *)
(* timeouts; a call that has not started reads the rows first.             *)
Fold(r, keys) ==
  LET results == [s \in Servers |->
        IF s \notin keys THEN "none"
        ELSE IF call[r].step = "running" /\ job[s].phase = "done"
        THEN job[s].result ELSE "timeout"]
  IN  call' = [call EXCEPT ![r].folded = results, ![r].answer = "folded",
                           ![r].fold = IF keys = {} THEN "done" ELSE "recording"]

Deadline(r) ==
  /\ call[r].step \in {"waiting", "reading", "running"} /\ ~Finished(r)
  /\ call[r].answer = "none" /\ call[r].fold = "no"
  /\ IF call[r].step = "running" THEN Fold(r, KeysOf(intent.rows))
     ELSE call' = [call EXCEPT ![r].fold = "reading"]
  /\ UNCHANGED <<db, conn, chain, intent, secret, job, last, doubt, lost, budget>>

(* The rows have been read: what finished meanwhile wins. *)
FoldRead(r) ==
  /\ call[r].fold = "reading"
  /\ IF Finished(r) THEN call' = [call EXCEPT ![r].fold = "no"]
     ELSE Fold(r, KeysOf(db.rows))
  /\ UNCHANGED <<db, conn, chain, intent, secret, job, last, doubt, lost, budget>>

FoldRecorded(r) ==
  /\ call[r].fold = "recording"
  /\ Record(call[r].folded)
  /\ call' = [call EXCEPT ![r].fold = "done", ![r].folded = NoChip]
  /\ UNCHANGED <<conn, chain, intent, secret, job, last, doubt>>

-----------------------------------------------------------------------------
(* The call is over, and the next one has its turn. *)
Over(r, answer) ==
  /\ call' = [call EXCEPT ![r].step = "over", ![r].kind = "none",
                          ![r].answer = IF @ = "none" THEN answer ELSE @]
  /\ chain' = Tail(chain)
  /\ job' = [s \in Servers |-> Idle]
  /\ intent' = [rows |-> NoRows, value |-> FirstValues]
  /\ secret' = "unread"

(* Mutant of AfterRecord: a deletion goes on though it was answered. *)
AfterRecordAnyway(r) ==
  IF ~Deleting(r) THEN Over(r, "full")
  ELSE IF \E s \in Servers : job[s].result \notin {"none", "ok"} THEN Over(r, "full")
  ELSE call' = [call EXCEPT ![r].step = "deleting"] /\ UNCHANGED <<chain, job, intent, secret>>

(* deleteUser: the user goes if every server was ok, unless the Admin has  *)
(* been told that it does not.                                             *)
AfterRecord(r) ==
  IF ~Deleting(r) THEN Over(r, "full")
  ELSE IF call[r].fold = "done" \/ \E s \in Servers : job[s].result \notin {"none", "ok"}
  THEN Over(r, "full")
  ELSE call' = [call EXCEPT ![r].step = "deleting"] /\ UNCHANGED <<chain, job, intent, secret>>

(* Mutant of RecordFinal: it does not wait for the record of the deadline. *)
RecordFinalAtOnce(r) ==
  /\ call[r].step = "running" /\ AllDone
  /\ LET results == [s \in Servers |-> job[s].result]
     IN  /\ Record(results)
         /\ last' = [s \in Servers |-> IF results[s] = "none" THEN last[s] ELSE results[s]]
  /\ AfterRecord(r)
  /\ UNCHANGED <<conn, doubt>>

(* #recordFinal *)
RecordFinal(r) ==
  /\ call[r].step = "running" /\ AllDone /\ call[r].fold # "recording"
  /\ LET results == [s \in Servers |-> job[s].result]
     IN  /\ Record(results)
         /\ last' = [s \in Servers |-> IF results[s] = "none" THEN last[s] ELSE results[s]]
  /\ AfterRecord(r)
  /\ UNCHANGED <<conn, doubt>>

(* dma_admin_delete_dma_user: not while rows remain; results go with it.   *)
(* Every other error is told as such: there was no user, the delete was    *)
(* not done, or it was done and only its answer was lost.                  *)
DeleteUser(r) ==
  /\ call[r].step = "deleting"
  /\ \/ /\ db.user /\ db.rows = NoRows
        /\ db' = [db EXCEPT !.user = FALSE, !.chip = NoChip] /\ last' = NoChip
        /\ \/ Over(r, "deleted") /\ UNCHANGED budget
           \/ Over(r, "error") /\ Mishap
     \/ db.user /\ db.rows # NoRows /\ Over(r, "full") /\ UNCHANGED <<db, last, budget>>
     \/ ~db.user /\ Over(r, "error") /\ UNCHANGED <<db, last, budget>>
     \/ Over(r, "error") /\ Mishap /\ UNCHANGED <<db, last>>
  /\ UNCHANGED <<conn, doubt, lost>>

-----------------------------------------------------------------------------
(* The servers have what the rows say and the foreign accounts; the lines  *)
(* are up and each file has been listed.                                   *)
Init ==
  /\ db = [ user |-> TRUE, value |-> FirstValues, chip |-> NoChip,
            rows |-> [s \in Servers |-> [a \in Accounts |->
                        IF <<s, a>> \in FirstRows THEN "active" ELSE "none"]] ]
  /\ conn = [s \in Servers |-> ListedConn([a \in Accounts |->
               IF <<s, a>> \in FirstRows \union Foreign THEN FirstValues[a] ELSE Absent])]
  /\ call = [r \in Calls |-> [ kind |-> "none", step |-> "new", fold |-> "no",
                               folded |-> NoChip, answer |-> "none" ]]
  /\ chain = <<>> /\ intent = [rows |-> NoRows, value |-> FirstValues]
  /\ secret = "unread" /\ job = [s \in Servers |-> Idle]
  /\ last = NoChip /\ doubt = FALSE /\ lost = FALSE
  /\ budget = MaxMishaps

Next ==
  \/ \E s \in Servers : \/ LineUp(s) \/ LineDown(s) \/ Gateway(s) \/ Frame(s)
                        \/ Timeout(s) \/ OtherCommand(s) \/ Settle(s)
  \/ \E r \in Calls : \/ Commit(r) \/ AnswerLost(r) \/ Enqueue(r) \/ ReadIntent(r) \/ Begin(r)
                      \/ Deadline(r) \/ FoldRead(r) \/ FoldRecorded(r)
                      \/ RecordFinal(r) \/ DeleteUser(r)
  \/ PasswordRead

Spec == Init /\ [][Next]_vars

-----------------------------------------------------------------------------
(* Every job that waits for its connection has exactly one command there,  *)
(* queued or in flight, and a queue has a command in flight before it,     *)
(* whose answer or timer sends the next one: nobody waits for nothing,     *)
(* whatever the order of answers, late answers, timeouts and lost lines    *)
(* (AdminConn: #pump, #finish, #failAll).                                  *)
JobCommands(c) ==
  Cardinality({i \in DOMAIN c.queue : c.queue[i].by = "job"})
    + IF c.flying # NoFlight /\ c.flying.command.by = "job" THEN 1 ELSE 0

CommandsAreHeld ==
  \A s \in Servers :
    /\ JobCommands(conn[s]) = IF job[s].phase \in {"refresh", "op"} THEN 1 ELSE 0
    /\ conn[s].queue # <<>> => conn[s].flying # NoFlight
    /\ conn[s].flying # NoFlight => conn[s].up

(* A server that a call reports ok has the accounts of this user as the    *)
(* call read them: those it wants with their values, none of those it      *)
(* removes; provided no answer came too late (AdminDispatch: the plan from *)
(* the remembered file, its renewal, and the operations in order).         *)
OkIsApplied ==
  doubt \/ \A s \in Servers :
    job[s].phase = "done" /\ job[s].result = "ok" =>
      \A a \in Accounts :
        /\ RowsOf(s)[a] = "active" => conn[s].file[a] = intent.value[a]
        /\ RowsOf(s)[a] = "removing" => conn[s].file[a] = Absent

(* An account without a row is on a server exactly if other tools put it   *)
(* there: a row is settled only once the account is gone, and no call      *)
(* takes an account the rows never had; provided no answer came too late.  *)
RowsFollowFiles ==
  doubt \/ \A s \in Servers, a \in Accounts :
    db.rows[s][a] = "none" => (conn[s].file[a] # Absent <=> <<s, a>> \in Foreign)

(* When no call is under way, every record was written and every write of  *)
(* a route was followed by its call, the result shown for a server with    *)
(* rows is what the last call found there, not the timeout that was        *)
(* recorded at its deadline (#recordFinal, #answerBy).                     *)
ChipIsTrue ==
  chain = <<>> /\ ~lost /\ (\A r \in Calls : call[r].step # "committed") =>
    \A s \in KeysOf(db.rows) : db.chip[s] = last[s]

(* Together: what an Admin reads of a server, the ok of a call, the rows   *)
(* and the result shown, is what the gateway's file bears out.             *)
ResultsAreTrue == OkIsApplied /\ RowsFollowFiles /\ ChipIsTrue

(* The call that takes the user out of the database tells its Admin so, or *)
(* that it failed (its answer was lost), never "not deleted": not at its   *)
(* end, and not at the deadline before; "deleted" is told of a user that   *)
(* is gone; and no Admin is answered twice (deleteUser, #answerBy).        *)
AnswersAreTrue ==
  /\ db.user /\ ~db'.user =>
       \E r \in Calls : call[r].step = "deleting" /\ call'[r].answer \in {"deleted", "error"}
  /\ \A r \in Calls : /\ call'[r].answer = "deleted" => ~db'.user
                      /\ call[r].answer # "none" => call'[r].answer = call[r].answer
DeleteIsTold == [][AnswersAreTrue]_vars
=============================================================================
