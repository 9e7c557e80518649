-------------------------- MODULE AdminDispatch_proofs --------------------------
(***************************************************************************)
(* Proofs about AdminDispatch, for every finite set of accounts and every  *)
(* set of servers, values and calls.                                       *)
(*                                                                         *)
(* The results: ResultsInv says, of a connection whoever waits for it,     *)
(* that its commands go out one at a time and that what it remembers is    *)
(* the gateway's file, or a change is on its way of which it will be told; *)
(* of a job, that what is left of its plan covers what the file lacks; of  *)
(* the rows, that what they do not name is not on a server; of the results *)
(* shown, that another call is still to come or they are the last found.   *)
(* The connection is proved method by method (Answered, Told), the plan on *)
(* its own (PlanFacts, PendingServed, PendingDone), and the steps of the   *)
(* dispatcher from both.                                                   *)
(*                                                                         *)
(* The deletion: an answer at the deadline leaves the fold recording or    *)
(* done, and either keeps the call from deleting.                          *)
(***************************************************************************)
EXTENDS AdminDispatch, FiniteSetTheorems, SequenceTheorems, TLAPS

-----------------------------------------------------------------------------
(* The connection, whoever waits for its answers.                          *)

Frames == [type : {"resp"}, code : Nat, rev : Nat, own : BOOLEAN]
            \cup [type : {"snapshot"}, file : Files, rev : Nat]
Flights == {NoFlight} \cup [await : {"resp", "snapshot"}, command : Commands]
Outcomes == [kind : {"result", "offline", "timeout"}, code : Nat, file : Files \cup {Absent}]
Revisions == Nat \ {0}
Conns ==
  [ up : BOOLEAN, queue : Seq(Commands), flying : Flights, cache : Files \cup {Absent},
    rev : Nat, out : {NoOutcome} \cup Outcomes, wire : Seq(Requests), back : Seq(Frames),
    file : Files, users_rev : Revisions ]

Flies(c) == c.flying # NoFlight
(* The commands of the job: queued, or in flight and not answered for. *)
JobCmds(c) ==
  {c.queue[i] : i \in {j \in DOMAIN c.queue : c.queue[j].by = "job"}}
    \cup IF Flies(c) /\ c.flying.command.by = "job" THEN {c.flying.command} ELSE {}
WellFormed(command) ==
  /\ command.by = "other" => command.op = SetCost
  /\ command.op \in {CreateUser, PutAccount, RemoveAccount} => command.account \in Accounts
Alone(c) ==
  /\ \A i, j \in DOMAIN c.queue : c.queue[i].by = "job" /\ c.queue[j].by = "job" => i = j
  /\ Flies(c) /\ c.flying.command.by = "job" => \A i \in DOMAIN c.queue : c.queue[i].by = "other"

(* What is always so, the first between the steps of a method too. *)
Core(c) ==
  /\ c \in Conns
  /\ c.queue # <<>> \/ Flies(c) => c.up
  /\ ~c.up => c.wire = <<>> /\ c.back = <<>> /\ c.cache = Absent
  /\ Alone(c)
  /\ \A i \in DOMAIN c.queue : WellFormed(c.queue[i])
  /\ Flies(c) => WellFormed(c.flying.command) /\
       (c.flying.await = "resp" => c.flying.command.op # ListUsers)
  /\ c.rev <= c.users_rev
  /\ \A i \in DOMAIN c.back : c.back[i].rev <= c.users_rev
ConnInv(c) == Core(c) /\ (c.queue # <<>> => Flies(c))

(* What a command that succeeded has left in the file. *)
Took(file, command) ==
  /\ command.op \in {CreateUser, PutAccount} => file[command.account] = command.value
  /\ command.op = RemoveAccount => file[command.account] = Absent
  /\ command.op = RemoveUser => file = Nobody

Changes(i, s) == s[i].command.op # ListUsers
Answers(i, s) == s[i].type = "resp"

(* Only the command in flight is on the line, once, as a request or as an  *)
(* answer.                                                                 *)
OneOnLine(c) ==
  /\ \A i \in DOMAIN c.wire : Changes(i, c.wire) =>
       c.wire[i].own /\ c.flying.await = "resp" /\ c.wire[i].command = c.flying.command
  /\ \A i, j \in DOMAIN c.wire : Changes(i, c.wire) /\ Changes(j, c.wire) => i = j
  /\ \A i \in DOMAIN c.back : Answers(i, c.back) =>
       c.back[i].own /\ c.flying.await = "resp" /\ \A j \in DOMAIN c.wire : ~Changes(j, c.wire)
  /\ \A i, j \in DOMAIN c.back : Answers(i, c.back) /\ Answers(j, c.back) => i = j

(* A success is one. *)
SuccessHolds(c) ==
  /\ \A i \in DOMAIN c.back : Answers(i, c.back) =>
       (Succeeded(c.flying.command.op, c.back[i].code) => Took(c.file, c.flying.command))
  /\ HoldsResult(c) => Took(c.file, c.flying.command)

(* The file of a frame or of the cache is the gateway's, unless a command  *)
(* of the job has changed it: then its answer shows another revision, and  *)
(* the file comes after it.                                                *)
FilesShown(c, n) == \A i \in DOMAIN c.back : i > n /\ ~Answers(i, c.back) => c.back[i].file = c.file
Current(c) == c.cache \in {c.file, Absent} /\ FilesShown(c, 0)
Changing(c) ==
  /\ Flies(c) /\ c.flying.command.by = "job" /\ c.flying.command.op # ListUsers
  /\ \/ c.flying.await = "snapshot" /\ FilesShown(c, 0)
     \/ \E k \in DOMAIN c.back :
          /\ Answers(k, c.back) /\ c.back[k].code = Done /\ FilesShown(c, k)
          /\ c.rev < c.back[k].rev
          /\ \A i \in DOMAIN c.back : i < k => c.back[i].rev < c.back[k].rev
FilesAreKnown(c) == Current(c) \/ Changing(c)

(* What is so while no answer came too late. *)
LineInv(c) == OneOnLine(c) /\ SuccessHolds(c) /\ FilesAreKnown(c)

-----------------------------------------------------------------------------
(* The job on a server. *)
PlannedOps == [op : CreateUser..RemoveAccount, accounts : (SUBSET Accounts) \ {{}}]
Jobs ==
  [ phase : {"off", "refresh", "password", "op", "settle", "done"}, ops : Seq(PlannedOps),
    removed : SUBSET Accounts, result : Verdicts ]

(* What the job has its connection do. *)
Awaited(j) ==
  IF j.phase = "refresh" THEN {Lister}
  ELSE IF j.phase = "op" THEN {CommandOf(Head(j.ops))} ELSE {}

JobShape(j, r) ==
  /\ j \in Jobs
  /\ j.ops # <<>> <=> j.phase \in {"op", "password"}
  /\ j.result # "none" <=> j.phase \in {"settle", "done"}
  /\ j.phase = "off" => j = Idle
  /\ j.phase = "settle" /\ Deleting(r) => j.result = "ok"

Writing == {CreateUser, PutAccount}
OpFits(s, op, file) ==
  /\ op.op \in Writing => \E a \in Active(s) : op.accounts = {a}
  /\ op.op = RemoveAccount => \E a \in Removing(s) : op.accounts = {a}
  /\ op.op = RemoveUser => /\ op.accounts \subseteq Removing(s)
                           /\ Active(s) = {} /\ InFile(file) \subseteq Removing(s)
(* What is left to do covers what the file lacks. *)
Covers(s, j, file) ==
  /\ \A a \in Active(s) : file[a] = intent.value[a] \/
       \E i \in DOMAIN j.ops : j.ops[i].op \in Writing /\ a \in j.ops[i].accounts
  /\ \A a \in Removing(s) : file[a] = Absent \/
       \E i \in DOMAIN j.ops : j.ops[i].op \notin Writing /\ a \in j.ops[i].accounts
(* What a server still needs, and what has been done. *)
Worked(s, j, file) ==
  /\ \A i \in DOMAIN j.ops : OpFits(s, j.ops[i], file)
  /\ j.removed \subseteq Removing(s) /\ \A a \in j.removed : file[a] = Absent
  /\ j.phase \in {"op", "password"} \/ j.result = "ok" => Covers(s, j, file)

(* A server of the running call r, x its connection and job; late: some    *)
(* answer came too late.                                                   *)
ServerInv(s, r, x, late) ==
  /\ ConnInv(x.conn) /\ x.conn.out = NoOutcome /\ JobCmds(x.conn) = Awaited(x.job)
  /\ JobShape(x.job, r)
  /\ late \/ (LineInv(x.conn) /\ Worked(s, x.job, x.conn.file))

At(s) == [conn |-> conn[s], job |-> job[s]]

-----------------------------------------------------------------------------
(* The calls. *)
Turn == {"waiting", "reading", "running", "deleting"}
Runner == Head(chain)
InTurn(steps) == chain # <<>> /\ call[Runner].step \in steps

ChainShape ==
  /\ chain \in Seq(Calls)
  /\ \A i, j \in DOMAIN chain : chain[i] = chain[j] => i = j
  /\ \A r \in Calls : call[r].step \in Turn <=> \E i \in DOMAIN chain : chain[i] = r
  /\ \A i \in DOMAIN chain : i > 1 => call[chain[i]].step = "waiting"

FoldShape ==
  \A r \in Calls :
    /\ call[r].fold = "recording" => call[r].step \in {"waiting", "reading", "running"}
    /\ call[r].fold = "reading" => call[r].step \notin {"new", "committed"}

JobsShape ==
  /\ \A s \in Servers : job[s].phase # "off" => InTurn({"running", "deleting"})
  /\ InTurn({"running"}) => \A s \in Servers : job[s].phase # "off" <=> s \in KeysOf(intent.rows)
  /\ InTurn({"deleting"}) => AllDone
  /\ ~InTurn({"reading", "running", "deleting"}) => intent.rows = NoRows

Base == 
  /\ db \in Databases
  /\ call \in [Calls -> CallStates]
  /\ intent \in [rows : [Servers -> [Accounts -> States]], value : [Accounts -> Values]]
  /\ secret \in {"unread", "read", "bad"}
  /\ conn = [s \in Servers |-> conn[s]] /\ job = [s \in Servers |-> job[s]]
  /\ last \in [Servers -> Verdicts] /\ doubt \in BOOLEAN /\ lost \in BOOLEAN
  /\ budget \in 0..MaxMishaps

(* Rows and files. *)
Mine(s, a) == <<s, a>> \notin Foreign
RowsInv ==
  /\ ~db.user => db.rows = NoRows
  /\ \A s \in Servers, a \in Accounts :
       /\ db.rows[s][a] # "none" => Mine(s, a)
       /\ intent.rows[s][a] # "none" => Mine(s, a)
       /\ intent.rows[s][a] # "none" /\ job[s].phase # "done" => db.rows[s][a] # "none"
  /\ InTurn({"reading", "running"}) /\ Deleting(Runner) => \A s \in Servers : Active(s) = {}
  /\ doubt \/ RowsFollowFiles
  /\ doubt \/ (InTurn({"reading", "running"}) =>
       \A s \in Servers, a \in Accounts :
         intent.rows[s][a] = "none" => (conn[s].file[a] # Absent <=> ~Mine(s, a)))

(* The results. *)
Coming == \E r \in Calls : call[r].step \in {"committed", "waiting"}
ChipInv ==
  /\ lost \/ (InTurn({"reading", "running"}) =>
       \A s \in KeysOf(db.rows) : Coming \/ s \in KeysOf(intent.rows))
  /\ lost \/ \A s \in KeysOf(db.rows) :
       \/ db.chip[s] = last[s] \/ Coming
       \/ InTurn({"reading", "running"}) /\ s \in KeysOf(intent.rows)

ResultsInv ==
  /\ Base /\ ChainShape /\ FoldShape /\ JobsShape
  /\ \A s \in Servers : ServerInv(s, Runner, At(s), doubt)
  /\ RowsInv /\ ChipInv

-----------------------------------------------------------------------------
(* The fields of a connection. *)

LEMMA ConnFields ==
  ASSUME NEW c \in Conns
  PROVE  /\ c.up \in BOOLEAN /\ c.queue \in Seq(Commands) /\ c.flying \in Flights
         /\ c.cache \in Files \cup {Absent} /\ c.rev \in Nat /\ c.users_rev \in Nat /\ c.users_rev # 0
         /\ c.wire \in Seq(Requests) /\ c.back \in Seq(Frames) /\ c.file \in Files
         /\ c.out \in {NoOutcome} \cup Outcomes
BY DEF Conns, Revisions

LEMMA FlightFacts ==
  ASSUME NEW f \in Flights
  PROVE  /\ f # NoFlight => f.command \in Commands /\ f.await \in {"resp", "snapshot"}
         /\ f = NoFlight => f.await = "none"
BY DEF Flights, NoFlight

LEMMA FrameFacts ==
  ASSUME NEW f \in Frames
  PROVE  /\ f.type \in {"resp", "snapshot"} /\ f.rev \in Nat
         /\ f.type = "resp" => f.code \in Nat /\ f.own \in BOOLEAN
         /\ f.type # "resp" => f.file \in Files
BY DEF Frames

LEMMA CommandFacts ==
  ASSUME NEW m \in Commands
  PROVE  /\ m.op \in 1..6 /\ m.account \in Accounts \cup {Absent}
         /\ m.value \in Values \cup {Absent} /\ m.by \in {"job", "other"}
BY DEF Commands, CreateUser, SetCost

LEMMA ListerFacts ==
  /\ Lister \in Commands /\ WellFormed(Lister) /\ Lister.op = ListUsers /\ Lister.by = "job"
  /\ OtherUsers \in Commands /\ WellFormed(OtherUsers) /\ OtherUsers.op = SetCost /\ OtherUsers.by = "other"
BY DEF Lister, OtherUsers, Command, Commands, WellFormed, CreateUser, RemoveUser, PutAccount, RemoveAccount,
       ListUsers, SetCost

(* A sequence that loses its head. *)
LEMMA TailFacts ==
  ASSUME NEW T, NEW q \in Seq(T), q # <<>>
  PROVE  /\ Head(q) = q[1] /\ Head(q) \in T /\ 1 \in DOMAIN q /\ Tail(q) \in Seq(T)
         /\ \A i : i \in DOMAIN Tail(q) <=> i \in Nat /\ i >= 1 /\ i + 1 \in DOMAIN q
         /\ \A i \in DOMAIN Tail(q) : Tail(q)[i] = q[i + 1] /\ i \in Nat
         /\ \A i \in DOMAIN q : i \in Nat /\ i >= 1
         /\ \A i \in DOMAIN q : i # 1 => i - 1 \in DOMAIN Tail(q) /\ Tail(q)[i - 1] = q[i]
OBVIOUS

LEMMA AppendFacts ==
  ASSUME NEW T, NEW q \in Seq(T), NEW e \in T
  PROVE  /\ Append(q, e) \in Seq(T) /\ Append(q, e) # <<>>
         /\ DOMAIN Append(q, e) = DOMAIN q \cup {Len(q) + 1}
         /\ Len(q) + 1 \notin DOMAIN q
         /\ \A i \in DOMAIN q : Append(q, e)[i] = q[i] /\ i \in Nat /\ i < Len(q) + 1
         /\ Append(q, e)[Len(q) + 1] = e
OBVIOUS

(* A command is sent. *)
LEMMA SendFacts ==
  ASSUME NEW c \in Conns, NEW m \in Commands
  PROVE  LET d == Send(c, m)
         IN  /\ d \in Conns
             /\ d.up = c.up /\ d.queue = c.queue /\ d.cache = c.cache /\ d.rev = c.rev
             /\ d.out = c.out /\ d.back = c.back /\ d.file = c.file /\ d.users_rev = c.users_rev
             /\ d.wire = Append(c.wire, [command |-> m, own |-> TRUE])
             /\ d.flying.command = m /\ d.flying # NoFlight
             /\ d.flying.await = IF m.op = ListUsers THEN "snapshot" ELSE "resp"
<1> DEFINE e == [command |-> m, own |-> TRUE]
           f == [await |-> IF m.op = ListUsers THEN "snapshot" ELSE "resp", command |-> m]
<1>1. e \in Requests /\ f \in Flights /\ f # NoFlight
  BY DEF Requests, Flights, NoFlight
<1>2. Append(c.wire, e) \in Seq(Requests)
  BY <1>1, ConnFields, AppendFacts
<1>3. Send(c, m) = [[c EXCEPT !.wire = Append(@, e)] EXCEPT !.flying = f]
  BY DEF Send, Transmit
<1>4. f.command = m /\ f.await = IF m.op = ListUsers THEN "snapshot" ELSE "resp"
  OBVIOUS
<1> HIDE DEF e, f
<1>5. [[c EXCEPT !.wire = Append(@, e)] EXCEPT !.flying = f] \in Conns
  BY <1>1, <1>2 DEF Conns
<1>6. LET d == [[c EXCEPT !.wire = Append(@, e)] EXCEPT !.flying = f]
      IN  /\ d.up = c.up /\ d.queue = c.queue /\ d.cache = c.cache /\ d.rev = c.rev
          /\ d.out = c.out /\ d.back = c.back /\ d.file = c.file /\ d.users_rev = c.users_rev
          /\ d.wire = Append(c.wire, e) /\ d.flying = f
  BY DEF Conns
<1> QED BY <1>1, <1>3, <1>4, <1>5, <1>6 DEF e

(* #rev of a new line. *)
LEMMA CountFromOne ==
  ASSUME NEW h \in Conns
  PROVE  LET k == [h EXCEPT !.users_rev = 1]
         IN  /\ k \in Conns /\ k.users_rev = 1 /\ k.rev = h.rev
             /\ k.queue = h.queue /\ k.flying = h.flying /\ k.file = h.file
             /\ k.cache = h.cache /\ k.out = h.out /\ k.up = h.up
             /\ k.wire = h.wire /\ k.back = h.back
<1>1. 1 \in Revisions
  BY DEF Revisions
<1> QED BY <1>1 DEF Conns

LEMMA JobCmdsMember ==
  ASSUME NEW c, NEW m
  PROVE  m \in JobCmds(c) <=>
           \/ \E i \in DOMAIN c.queue : c.queue[i].by = "job" /\ m = c.queue[i]
           \/ Flies(c) /\ c.flying.command.by = "job" /\ m = c.flying.command
BY DEF JobCmds

(* #pump *)
LEMMA PumpFacts ==
  ASSUME NEW c, Core(c)
  PROVE  LET d == Pump(c)
         IN  /\ ConnInv(d) /\ JobCmds(d) = JobCmds(c)
             /\ d.up = c.up /\ d.cache = c.cache /\ d.rev = c.rev /\ d.out = c.out
             /\ d.back = c.back /\ d.file = c.file /\ d.users_rev = c.users_rev
             /\ \/ d = c
                \/ /\ ~Flies(c) /\ d.flying.command \in Commands /\ d.flying # NoFlight
                   /\ d.wire = Append(c.wire, [command |-> d.flying.command, own |-> TRUE])
                   /\ d.flying.await = IF d.flying.command.op = ListUsers THEN "snapshot" ELSE "resp"
<1>1. CASE ~(~Flies(c) /\ c.queue # <<>>)
  <2>1. Pump(c) = c
    BY <1>1 DEF Pump, Flies
  <2> QED BY <1>1, <2>1 DEF ConnInv
<1>2. CASE ~Flies(c) /\ c.queue # <<>>
  <2> DEFINE m == Head(c.queue)
             b == [c EXCEPT !.queue = Tail(@)]
             d == Send(b, m)
  <2>0. c \in Conns /\ c.queue \in Seq(Commands) /\ c.queue # <<>>
    BY <1>2, ConnFields DEF Core
  <2>1. m = c.queue[1] /\ m \in Commands /\ 1 \in DOMAIN c.queue
    BY <2>0, TailFacts
  <2>2. Tail(c.queue) \in Seq(Commands)
    BY <2>0, TailFacts
  <2>3. b \in Conns
    BY <2>0, <2>2 DEF Conns
  <2>4. /\ b.up = c.up /\ b.cache = c.cache /\ b.rev = c.rev /\ b.out = c.out /\ b.back = c.back
        /\ b.file = c.file /\ b.users_rev = c.users_rev /\ b.wire = c.wire /\ b.queue = Tail(c.queue)
    BY <2>0 DEF Conns
  <2>5. Pump(c) = d
    BY <1>2 DEF Pump, Flies
  <2> HIDE DEF m, b
  <2>6. /\ d \in Conns
        /\ d.up = c.up /\ d.queue = Tail(c.queue) /\ d.cache = c.cache /\ d.rev = c.rev
        /\ d.out = c.out /\ d.back = c.back /\ d.file = c.file /\ d.users_rev = c.users_rev
        /\ d.wire = Append(c.wire, [command |-> m, own |-> TRUE])
        /\ d.flying.command = m /\ d.flying # NoFlight
        /\ d.flying.await = IF m.op = ListUsers THEN "snapshot" ELSE "resp"
    BY <2>1, <2>3, <2>4, SendFacts, SMTT(30)
  <2> HIDE DEF d
  <2>7. \A i \in DOMAIN d.queue : d.queue[i] = c.queue[i + 1] /\ i + 1 \in DOMAIN c.queue /\ i + 1 # 1
    BY <2>0, <2>6, TailFacts
  <2>8. \A i \in DOMAIN c.queue : i # 1 => i - 1 \in DOMAIN d.queue /\ d.queue[i - 1] = c.queue[i]
    BY <2>0, <2>6, TailFacts
  <2>9. Alone(d)
    <3>1. Alone(c)
      BY DEF Core
    <3>2. \A i, j \in DOMAIN d.queue : d.queue[i].by = "job" /\ d.queue[j].by = "job" => i = j
      <4> SUFFICES ASSUME NEW i \in DOMAIN d.queue, NEW j \in DOMAIN d.queue,
                          d.queue[i].by = "job", d.queue[j].by = "job" PROVE i = j
        OBVIOUS
      <4>1. i + 1 = j + 1
        BY <2>7, <3>1 DEF Alone
      <4>2. i \in Nat /\ j \in Nat
        BY <2>0, <2>2, <2>6, TailFacts
      <4> QED BY <4>1, <4>2
    <3>3. ASSUME m.by = "job", NEW i \in DOMAIN d.queue PROVE d.queue[i].by = "other"
      <4>1. d.queue[i] \in Commands
        BY <2>2, <2>6
      <4>2. d.queue[i].by # "job"
        BY <2>1, <2>7, <3>1, <3>3 DEF Alone
      <4> QED BY <4>1, <4>2, CommandFacts
    <3> QED BY <2>6, <3>2, <3>3 DEF Alone
  <2>10. Core(d) /\ Flies(d)
    <3>1. /\ WellFormed(m) /\ c.up
          /\ \A i \in DOMAIN d.queue : WellFormed(d.queue[i])
      BY <1>2, <2>1, <2>7 DEF Core
    <3>2. d.flying.await = "resp" => d.flying.command.op # ListUsers
      BY <2>6
    <3>3. /\ c.rev <= c.users_rev /\ \A i \in DOMAIN c.back : c.back[i].rev <= c.users_rev
      BY DEF Core
    <3>4. d.up
      BY <2>6, <3>1
    <3>5. d.rev <= d.users_rev /\ \A i \in DOMAIN d.back : d.back[i].rev <= d.users_rev
      BY <2>6, <3>3
    <3>6. WellFormed(d.flying.command)
      BY <2>6, <3>1
    <3> QED BY <2>6, <2>9, <3>1, <3>2, <3>4, <3>5, <3>6 DEF Core, Flies
  <2>11. \A n : n \in JobCmds(d) <=> n \in JobCmds(c)
    <3>1. ASSUME NEW n, n \in JobCmds(d) PROVE n \in JobCmds(c)
      <4>1. CASE \E i \in DOMAIN d.queue : d.queue[i].by = "job" /\ n = d.queue[i]
        BY <2>7, <4>1, JobCmdsMember
      <4>2. CASE m.by = "job" /\ n = m
        BY <2>1, <4>2, JobCmdsMember
      <4>3. \/ \E i \in DOMAIN d.queue : d.queue[i].by = "job" /\ n = d.queue[i]
            \/ d.flying.command.by = "job" /\ n = d.flying.command
        BY <3>1, JobCmdsMember, Zenon
      <4> QED BY <2>6, <4>1, <4>2, <4>3
    <3>2. ASSUME NEW n, n \in JobCmds(c) PROVE n \in JobCmds(d)
      <4>1. PICK i \in DOMAIN c.queue : c.queue[i].by = "job" /\ n = c.queue[i]
        BY <1>2, <3>2, JobCmdsMember
      <4>2. CASE i = 1
        BY <2>1, <2>6, <2>10, <4>1, <4>2, JobCmdsMember
      <4>3. CASE i # 1
        BY <2>8, <4>1, <4>3, JobCmdsMember
      <4> QED BY <4>2, <4>3
    <3> QED BY <3>1, <3>2
  <2> HIDE DEF JobCmds
  <2>12. JobCmds(d) = JobCmds(c)
    BY <2>11 DEF JobCmds
  <2> QED BY <1>2, <2>1, <2>5, <2>6, <2>10, <2>12 DEF ConnInv
<1> QED BY <1>1, <1>2

LEMMA PumpLine ==
  ASSUME NEW c, Core(c), LineInv(c)
  PROVE  LineInv(Pump(c))
<1> DEFINE d == Pump(c)
<1>1. /\ d.cache = c.cache /\ d.rev = c.rev /\ d.back = c.back /\ d.file = c.file
      /\ \/ d = c
         \/ /\ ~Flies(c) /\ d.flying.command \in Commands /\ d.flying # NoFlight
            /\ d.wire = Append(c.wire, [command |-> d.flying.command, own |-> TRUE])
            /\ d.flying.await = IF d.flying.command.op = ListUsers THEN "snapshot" ELSE "resp"
  BY PumpFacts
<1> HIDE DEF d
<1>2. CASE d = c
  BY <1>2 DEF d
<1>3. CASE d # c
  <2>1. ~Flies(c) /\ c.flying.await = "none"
    BY <1>1, <1>3, ConnFields, FlightFacts DEF Core, Flies
  <2>2. /\ \A i \in DOMAIN c.wire : ~Changes(i, c.wire)
        /\ \A i \in DOMAIN c.back : ~Answers(i, c.back)
    BY <2>1 DEF LineInv, OneOnLine
  <2>3. Current(c)
    BY <2>1 DEF LineInv, FilesAreKnown, Changing
  <2> DEFINE m == d.flying.command
             e == [command |-> m, own |-> TRUE]
  <2>4. e \in Requests /\ c.wire \in Seq(Requests) /\ d.wire = Append(c.wire, e)
    BY <1>1, <1>3, ConnFields DEF Requests, Core
  <2>5. e.command = m /\ e.own
    OBVIOUS
  <2>6. d.flying.await = IF m.op = ListUsers THEN "snapshot" ELSE "resp"
    BY <1>1, <1>3
  <2> HIDE DEF e
  <2>7. /\ \A i \in DOMAIN c.wire : ~Changes(i, d.wire)
        /\ DOMAIN d.wire = DOMAIN c.wire \cup {Len(c.wire) + 1}
        /\ d.wire[Len(c.wire) + 1] = e
    BY <2>2, <2>4, AppendFacts DEF Changes
  <2>8. OneOnLine(d)
    <3>1. ASSUME NEW i \in DOMAIN d.wire, Changes(i, d.wire)
          PROVE  /\ d.wire[i].own /\ d.flying.await = "resp" /\ d.wire[i].command = d.flying.command
                 /\ i = Len(c.wire) + 1
      BY <2>5, <2>6, <2>7, <3>1 DEF Changes
    <3>2. \A i \in DOMAIN d.back : ~Answers(i, d.back)
      BY <1>1, <2>2 DEF Answers
    <3> QED BY <3>1, <3>2 DEF OneOnLine
  <2>9. SuccessHolds(d)
    <3>1. ~HoldsResult(d)
      BY <2>6 DEF HoldsResult
    <3>2. \A i \in DOMAIN d.back : ~Answers(i, d.back)
      BY <1>1, <2>2 DEF Answers
    <3> QED BY <3>1, <3>2 DEF SuccessHolds
  <2>10. Current(d)
    BY <1>1, <2>3 DEF Current, FilesShown, Answers
  <2> QED BY <2>8, <2>9, <2>10 DEF LineInv, FilesAreKnown, d
<1> QED BY <1>2, <1>3 DEF d

(* Two connections that have the same line. *)
LEMMA SameLine ==
  ASSUME NEW c, NEW d, LineInv(c), d.wire = c.wire, d.flying = c.flying, d.back = c.back,
         d.file = c.file, d.cache = c.cache, d.rev = c.rev
  PROVE  LineInv(d)
<1>1. OneOnLine(d)
  BY DEF LineInv, OneOnLine
<1>2. SuccessHolds(d)
  BY DEF LineInv, SuccessHolds, HoldsResult
<1>3. Current(c) => Current(d)
  BY DEF Current, FilesShown
<1>4. Changing(c) => Changing(d)
  BY DEF Changing, FilesShown, Flies
<1> QED BY <1>1, <1>2, <1>3, <1>4 DEF LineInv, FilesAreKnown

LEMMA ResolveFacts ==
  ASSUME NEW c \in Conns, NEW m, NEW o \in Outcomes
  PROVE  LET d == Resolve(c, m, o)
         IN  /\ d \in Conns
             /\ d.up = c.up /\ d.queue = c.queue /\ d.cache = c.cache /\ d.rev = c.rev
             /\ d.back = c.back /\ d.file = c.file /\ d.users_rev = c.users_rev
             /\ d.wire = c.wire /\ d.flying = c.flying
             /\ d.out = IF m.by = "job" THEN o ELSE c.out
BY DEF Resolve, Conns

(* The outcome is nobody's business but the job's. *)
LEMMA SameCore ==
  ASSUME NEW c, NEW d \in Conns, Core(c), d.up = c.up, d.queue = c.queue, d.cache = c.cache,
         d.rev = c.rev, d.back = c.back, d.file = c.file, d.users_rev = c.users_rev,
         d.wire = c.wire, d.flying = c.flying
  PROVE  Core(d) /\ JobCmds(d) = JobCmds(c) /\ (ConnInv(c) => ConnInv(d))
BY DEF Core, ConnInv, Alone, Flies, JobCmds

(* command() *)
LEMMA IssueFacts ==
  ASSUME NEW c, ConnInv(c), c.up, NEW m \in Commands, WellFormed(m),
         m.by = "job" => JobCmds(c) = {}
  PROVE  LET d == Issue(c, m)
         IN  /\ ConnInv(d) /\ d.out = c.out /\ d.file = c.file /\ d.cache = c.cache
             /\ JobCmds(d) = JobCmds(c) \cup IF m.by = "job" THEN {m} ELSE {}
             /\ LineInv(c) => LineInv(d)
<1> DEFINE b == [c EXCEPT !.queue = Append(@, m)]
<1>0. c \in Conns /\ c.queue \in Seq(Commands) /\ Core(c)
  BY ConnFields DEF ConnInv, Core
<1>1. Append(c.queue, m) \in Seq(Commands)
  BY <1>0
<1>2. b \in Conns
  BY <1>0, <1>1 DEF Conns
<1>3. /\ b.up = c.up /\ b.cache = c.cache /\ b.rev = c.rev /\ b.out = c.out /\ b.back = c.back
      /\ b.file = c.file /\ b.users_rev = c.users_rev /\ b.wire = c.wire /\ b.flying = c.flying
      /\ b.queue = Append(c.queue, m)
  BY <1>0 DEF Conns
<1>4. Issue(c, m) = Pump(b)
  BY DEF Issue
<1> HIDE DEF b
<1>5. /\ DOMAIN b.queue = DOMAIN c.queue \cup {Len(c.queue) + 1}
      /\ Len(c.queue) + 1 \notin DOMAIN c.queue
      /\ \A i \in DOMAIN c.queue : b.queue[i] = c.queue[i]
      /\ b.queue[Len(c.queue) + 1] = m
  BY <1>0, <1>3, AppendFacts
<1>6. m.by = "job" => /\ \A i \in DOMAIN c.queue : c.queue[i].by # "job"
                      /\ ~(Flies(c) /\ c.flying.command.by = "job")
  <2> SUFFICES ASSUME m.by = "job" PROVE /\ \A i \in DOMAIN c.queue : c.queue[i].by # "job"
                                         /\ ~(Flies(c) /\ c.flying.command.by = "job")
    OBVIOUS
  <2> QED BY JobCmdsMember
<1>7. Alone(b)
  <2>1. Alone(c)
    BY <1>0 DEF Core
  <2>2. ASSUME NEW i \in DOMAIN b.queue, NEW j \in DOMAIN b.queue, b.queue[i].by = "job", b.queue[j].by = "job"
        PROVE  i = j
    <3>1. CASE m.by = "job"
      BY <1>5, <1>6, <2>2, <3>1
    <3>2. CASE m.by # "job"
      BY <1>5, <2>1, <2>2, <3>2 DEF Alone
    <3> QED BY <3>1, <3>2
  <2>3. ASSUME Flies(b), b.flying.command.by = "job", NEW i \in DOMAIN b.queue
        PROVE  b.queue[i].by = "other"
    <3>1. Flies(c) /\ c.flying.command.by = "job"
      BY <1>3, <2>3 DEF Flies
    <3>2. m.by = "other"
      BY <1>6, <3>1, CommandFacts
    <3> QED BY <1>5, <2>1, <3>1, <3>2 DEF Alone
  <2> QED BY <2>2, <2>3 DEF Alone
<1>8. Core(b)
  <2>1. \A i \in DOMAIN b.queue : WellFormed(b.queue[i])
    BY <1>0, <1>5 DEF Core
  <2> QED BY <1>0, <1>2, <1>3, <1>7, <2>1 DEF Core, Flies
<1>9. JobCmds(b) = JobCmds(c) \cup IF m.by = "job" THEN {m} ELSE {}
  <2>1. ASSUME NEW n PROVE n \in JobCmds(b) <=> n \in JobCmds(c) \/ (m.by = "job" /\ n = m)
    <3>1. Flies(b) <=> Flies(c)
      BY <1>3 DEF Flies
    <3>2. (\E i \in DOMAIN b.queue : b.queue[i].by = "job" /\ n = b.queue[i])
            <=> \/ \E i \in DOMAIN c.queue : c.queue[i].by = "job" /\ n = c.queue[i]
                \/ m.by = "job" /\ n = m
      BY <1>5
    <3> QED BY <1>3, <3>1, <3>2, JobCmdsMember
  <2> QED BY <2>1
<1>10. LineInv(c) => LineInv(b)
  BY <1>3, SameLine
<1>11. LineInv(b) => LineInv(Pump(b))
  BY <1>8, PumpLine
<1>12. LET d == Pump(b)
       IN  /\ ConnInv(d) /\ JobCmds(d) = JobCmds(b) /\ d.out = b.out /\ d.file = b.file /\ d.cache = b.cache
  BY <1>8, PumpFacts
<1> QED BY <1>3, <1>4, <1>9, <1>10, <1>11, <1>12

(* Nothing is on the line for the command in flight. *)
Quiet(c) ==
  /\ \A i \in DOMAIN c.wire : ~Changes(i, c.wire)
  /\ \A i \in DOMAIN c.back : ~Answers(i, c.back)

(* #finish *)
LEMMA FinishFacts ==
  ASSUME NEW c, ConnInv(c), Flies(c), NEW o \in Outcomes
  PROVE  LET d == Finish(c, o)
         IN  /\ ConnInv(d) /\ d.file = c.file
             /\ IF c.flying.command.by = "job"
                THEN d.out = o /\ JobCmds(d) = {} /\ JobCmds(c) = {c.flying.command}
                ELSE d.out = c.out /\ JobCmds(d) = JobCmds(c)
             /\ Quiet(c) /\ Current(c) => LineInv(d)
<1> DEFINE a == [c EXCEPT !.flying = NoFlight]
           b == Resolve(a, c.flying.command, o)
<1>0. c \in Conns /\ Core(c)
  BY DEF ConnInv, Core
<1>1. a \in Conns
  BY <1>0 DEF Conns, Flights
<1>2. /\ a.up = c.up /\ a.cache = c.cache /\ a.rev = c.rev /\ a.out = c.out /\ a.back = c.back
      /\ a.file = c.file /\ a.users_rev = c.users_rev /\ a.wire = c.wire /\ a.flying = NoFlight
      /\ a.queue = c.queue
  BY <1>0 DEF Conns
<1>3. Finish(c, o) = Pump(b)
  BY DEF Finish
<1> HIDE DEF a
<1>4. /\ b \in Conns
      /\ b.up = a.up /\ b.queue = a.queue /\ b.cache = a.cache /\ b.rev = a.rev
      /\ b.back = a.back /\ b.file = a.file /\ b.users_rev = a.users_rev
      /\ b.wire = a.wire /\ b.flying = a.flying
      /\ b.out = IF c.flying.command.by = "job" THEN o ELSE a.out
  BY <1>1, ResolveFacts
<1> HIDE DEF b
<1>5. ~Flies(b)
  BY <1>2, <1>4 DEF Flies
<1>6. b.up = c.up /\ b.queue = c.queue /\ b.cache = c.cache /\ b.rev = c.rev /\ b.back = c.back
      /\ b.file = c.file /\ b.users_rev = c.users_rev /\ b.wire = c.wire
  BY <1>2, <1>4
<1>7. Core(b)
  <2>1. Alone(b)
    BY <1>0, <1>5, <1>6 DEF Core, Alone
  <2> QED BY <1>0, <1>4, <1>5, <1>6, <2>1 DEF Core
<1>8. LET d == Pump(b)
      IN  /\ ConnInv(d) /\ JobCmds(d) = JobCmds(b) /\ d.out = b.out /\ d.file = b.file
  BY <1>7, PumpFacts
<1>9. Quiet(c) /\ Current(c) => LineInv(Pump(b))
  <2> SUFFICES ASSUME Quiet(c), Current(c) PROVE LineInv(b)
    BY <1>7, PumpLine
  <2>1. b.flying.await = "none"
    BY <1>2, <1>4 DEF NoFlight
  <2>2. OneOnLine(b) /\ SuccessHolds(b)
    BY <1>6, <2>1 DEF Quiet, OneOnLine, SuccessHolds, HoldsResult
  <2>3. Current(b)
    BY <1>6 DEF Current, FilesShown
  <2> QED BY <2>2, <2>3 DEF LineInv, FilesAreKnown
<1>10. ASSUME NEW n
       PROVE  /\ n \in JobCmds(b) <=> \E i \in DOMAIN c.queue : c.queue[i].by = "job" /\ n = c.queue[i]
              /\ n \in JobCmds(c) <=>
                   \/ \E i \in DOMAIN c.queue : c.queue[i].by = "job" /\ n = c.queue[i]
                   \/ c.flying.command.by = "job" /\ n = c.flying.command
  BY <1>5, <1>6, JobCmdsMember
<1>11. CASE c.flying.command.by = "job"
  <2>1. \A i \in DOMAIN c.queue : c.queue[i].by # "job"
    BY <1>0, <1>11 DEF Core, Alone
  <2>2. JobCmds(b) = {} /\ JobCmds(c) = {c.flying.command}
    BY <1>10, <1>11, <2>1
  <2> QED BY <1>3, <1>4, <1>6, <1>8, <1>9, <1>11, <2>2
<1>12. CASE c.flying.command.by # "job"
  <2>1. \A n : n \in JobCmds(b) <=> n \in JobCmds(c)
    BY <1>10, <1>12
  <2>2. JobCmds(b) = JobCmds(c)
    BY <2>1 DEF JobCmds
  <2> QED BY <1>2, <1>3, <1>4, <1>6, <1>8, <1>9, <1>12, <2>2
<1> QED BY <1>11, <1>12

-----------------------------------------------------------------------------
(* The methods of the connection: whom they answer, and with what.         *)

(* The job is answered once, and has no command then. *)
Answered(c, d) ==
  /\ ConnInv(d)
  /\ IF d.out = NoOutcome THEN JobCmds(d) = JobCmds(c)
     ELSE d.out \in Outcomes /\ JobCmds(d) = {} /\ JobCmds(c) # {}

(* It is told the truth. *)
Told(c, d) ==
  /\ LineInv(d)
  /\ d.out # NoOutcome /\ d.out.kind = "result" =>
       \A m \in JobCmds(c) : /\ Succeeded(m.op, d.out.code) => Took(d.file, m)
                             /\ m.op = ListUsers => d.out.file = d.file

LEMMA OutcomeFacts ==
  /\ Offline \in Outcomes /\ TimedOut \in Outcomes
  /\ Offline.kind = "offline" /\ TimedOut.kind = "timeout"
  /\ \A code \in Nat, file \in Files \cup {Absent} :
       LET o == Outcome("result", code, file)
       IN  o \in Outcomes /\ o.kind = "result" /\ o.code = code /\ o.file = file
  /\ \A o \in Outcomes : o # NoOutcome
BY DEF Offline, TimedOut, Outcome, Outcomes, NoOutcome, Done

TrueOf(c, o) ==
  o.kind = "result" =>
    /\ Succeeded(c.flying.command.op, o.code) => Took(c.file, c.flying.command)
    /\ c.flying.command.op = ListUsers => o.file = c.file

(* What #finish gives, with c the connection before the method. *)
LEMMA FinishAnswers ==
  ASSUME NEW c, c.out = NoOutcome, NEW e, ConnInv(e), Flies(e), e.out = NoOutcome,
         JobCmds(e) = JobCmds(c), NEW o \in Outcomes
  PROVE  /\ Answered(c, Finish(e, o)) /\ Finish(e, o).file = e.file
         /\ Quiet(e) /\ Current(e) /\ TrueOf(e, o) => Told(c, Finish(e, o))
<1> DEFINE d == Finish(e, o)
<1>1. /\ ConnInv(d) /\ d.file = e.file
      /\ IF e.flying.command.by = "job"
         THEN d.out = o /\ JobCmds(d) = {} /\ JobCmds(e) = {e.flying.command}
         ELSE d.out = e.out /\ JobCmds(d) = JobCmds(e)
      /\ Quiet(e) /\ Current(e) => LineInv(d)
  BY FinishFacts
<1> HIDE DEF d
<1>2. o # NoOutcome
  BY OutcomeFacts
<1>3. Answered(c, d)
  BY <1>1, <1>2 DEF Answered
<1>4. ASSUME Quiet(e), Current(e), TrueOf(e, o) PROVE Told(c, d)
  BY <1>1, <1>4 DEF Told, TrueOf
<1> QED BY <1>1, <1>3, <1>4 DEF d

LEMMA TransmitFacts ==
  ASSUME NEW c \in Conns, NEW m \in Commands, NEW own \in BOOLEAN
  PROVE  LET d == Transmit(c, m, own)
         IN  /\ d \in Conns
             /\ d.up = c.up /\ d.queue = c.queue /\ d.cache = c.cache /\ d.rev = c.rev
             /\ d.out = c.out /\ d.back = c.back /\ d.file = c.file /\ d.users_rev = c.users_rev
             /\ d.flying = c.flying /\ d.wire = Append(c.wire, [command |-> m, own |-> own])
<1> DEFINE e == [command |-> m, own |-> own]
<1>1. e \in Requests
  BY DEF Requests
<1>2. Append(c.wire, e) \in Seq(Requests)
  BY <1>1, ConnFields
<1>3. Transmit(c, m, own) = [c EXCEPT !.wire = Append(@, e)]
  BY DEF Transmit
<1> HIDE DEF e
<1>4. LET d == [c EXCEPT !.wire = Append(@, e)]
      IN  /\ d \in Conns
          /\ d.up = c.up /\ d.queue = c.queue /\ d.cache = c.cache /\ d.rev = c.rev
          /\ d.out = c.out /\ d.back = c.back /\ d.file = c.file /\ d.users_rev = c.users_rev
          /\ d.flying = c.flying /\ d.wire = Append(c.wire, e)
  BY <1>2 DEF Conns
<1> QED BY <1>3, <1>4 DEF e

(* #requestSnapshot; the line is up. *)
LEMMA RequestFacts ==
  ASSUME NEW c, Core(c), c.up
  PROVE  LET d == RequestSnapshot(c)
         IN  /\ Core(d) /\ JobCmds(d) = JobCmds(c) /\ d.file = c.file /\ d.out = c.out
             /\ d.flying = c.flying /\ d.queue = c.queue
             /\ LineInv(c) => LineInv(d)
<1> DEFINE d == RequestSnapshot(c)
           e == [command |-> Lister, own |-> FALSE]
<1>0. c \in Conns /\ Lister \in Commands
  BY ListerFacts DEF Core
<1>1. /\ d \in Conns
      /\ d.up = c.up /\ d.queue = c.queue /\ d.cache = c.cache /\ d.rev = c.rev
      /\ d.out = c.out /\ d.back = c.back /\ d.file = c.file /\ d.users_rev = c.users_rev
      /\ d.flying = c.flying /\ d.wire = Append(c.wire, e)
  BY <1>0, TransmitFacts DEF RequestSnapshot
<1>2. e \in Requests /\ e.command.op = ListUsers
  BY <1>0, ListerFacts DEF Requests
<1> HIDE DEF d, e
<1>3. Core(d) /\ JobCmds(d) = JobCmds(c)
  BY <1>1 DEF Core, Alone, Flies, JobCmds
<1>4. /\ DOMAIN d.wire = DOMAIN c.wire \cup {Len(c.wire) + 1}
      /\ \A i \in DOMAIN c.wire : d.wire[i] = c.wire[i]
      /\ d.wire[Len(c.wire) + 1] = e
  BY <1>0, <1>1, <1>2, ConnFields, AppendFacts
<1>5. \A i \in DOMAIN d.wire : Changes(i, d.wire) => i \in DOMAIN c.wire /\ Changes(i, c.wire)
  BY <1>2, <1>4 DEF Changes
<1>6. ASSUME LineInv(c) PROVE LineInv(d)
  <2>1. OneOnLine(c)
    BY <1>6 DEF LineInv
  <2>2. OneOnLine(d)
    BY <1>1, <1>4, <1>5, <2>1 DEF OneOnLine
  <2>3. SuccessHolds(d)
    BY <1>1, <1>6 DEF LineInv, SuccessHolds, HoldsResult
  <2>4. Current(c) => Current(d)
    BY <1>1 DEF Current, FilesShown
  <2>5. Changing(c) => Changing(d)
    BY <1>1 DEF Changing, FilesShown, Flies
  <2> QED BY <1>6, <2>2, <2>3, <2>4, <2>5 DEF LineInv, FilesAreKnown
<1> QED BY <1>1, <1>3, <1>6 DEF d

(* #handleUp *)
LEMMA HandleUpFacts ==
  ASSUME NEW c, ConnInv(c), c.out = NoOutcome, ~c.up
  PROVE  LET d == HandleUp(c)
         IN  Answered(c, d) /\ d.file = c.file /\ (LineInv(c) => Told(c, d))
<1> DEFINE b == [c EXCEPT !.up = TRUE]
<1>0. c \in Conns /\ Core(c) /\ c.queue = <<>> /\ ~Flies(c)
  BY DEF ConnInv, Core
<1>1. /\ b \in Conns /\ b.up /\ b.queue = c.queue /\ b.cache = c.cache /\ b.rev = c.rev
      /\ b.out = c.out /\ b.back = c.back /\ b.file = c.file /\ b.users_rev = c.users_rev
      /\ b.flying = c.flying /\ b.wire = c.wire
  BY <1>0 DEF Conns
<1>2. HandleUp(c) = RequestSnapshot(b)
  BY DEF HandleUp
<1> HIDE DEF b
<1>3. Core(b) /\ JobCmds(b) = JobCmds(c)
  BY <1>0, <1>1 DEF Core, Alone, Flies, JobCmds
<1>4. LineInv(c) => LineInv(b)
  BY <1>1, SameLine
<1>5. LET d == RequestSnapshot(b)
      IN  /\ Core(d) /\ JobCmds(d) = JobCmds(b) /\ d.file = b.file /\ d.out = b.out
          /\ d.flying = b.flying /\ d.queue = b.queue
          /\ LineInv(b) => LineInv(d)
  BY <1>1, <1>3, RequestFacts
<1> QED BY <1>0, <1>1, <1>2, <1>3, <1>4, <1>5 DEF Answered, Told, ConnInv, Flies

(* #handleDown and #failAll *)
LEMMA HandleDownFacts ==
  ASSUME NEW c, ConnInv(c), c.out = NoOutcome
  PROVE  LET d == HandleDown(c)
         IN  Answered(c, d) /\ d.file = c.file /\ (LineInv(c) => Told(c, d))
<1> DEFINE b == [c EXCEPT !.cache = Absent]
           n == [b EXCEPT !.flying = NoFlight, !.queue = <<>>]
           waits == \E i \in DOMAIN c.queue : c.queue[i].by = "job"
           o == IF HoldsResult(c) THEN Outcome("result", Done, Absent) ELSE Offline
           f == FailAll(b)
           d == HandleDown(c)
<1>0. c \in Conns /\ Core(c)
  BY DEF ConnInv, Core
<1>1. /\ b \in Conns /\ b.cache = Absent /\ b.queue = c.queue /\ b.flying = c.flying
      /\ b.out = c.out /\ b.file = c.file
  BY <1>0 DEF Conns
<1>2. n \in Conns /\ n.queue = <<>> /\ n.flying = NoFlight /\ n.out = c.out
      /\ n.file = c.file /\ n.cache = Absent
  <2>1. NoFlight \in Flights /\ <<>> \in Seq(Commands)
    BY DEF Flights
  <2> HIDE DEF b
  <2> QED BY <1>1, <2>1 DEF Conns
<1>3. f = IF waits THEN [n EXCEPT !.out = Offline]
          ELSE IF c.flying = NoFlight THEN n ELSE Resolve(n, c.flying.command, o)
  <2> HIDE DEF b
  <2> QED BY <1>1 DEF FailAll, HoldsResult
<1>4. o \in Outcomes /\ Offline \in Outcomes /\ Done \in Nat
  BY OutcomeFacts DEF Done
<1> HIDE DEF n, o, b
<1>5. /\ f \in Conns /\ f.queue = <<>> /\ f.flying = NoFlight /\ f.file = c.file /\ f.cache = Absent
      /\ f.out = IF waits THEN Offline
                 ELSE IF Flies(c) /\ c.flying.command.by = "job" THEN o ELSE c.out
  <2>1. CASE waits
    <3>1. f = [n EXCEPT !.out = Offline]
      BY <1>3, <2>1
    <3> QED BY <1>2, <1>4, <2>1, <3>1 DEF Conns
  <2>2. CASE ~waits /\ c.flying = NoFlight
    BY <1>2, <1>3, <2>2 DEF Flies
  <2>3. CASE ~waits /\ c.flying # NoFlight
    BY <1>2, <1>3, <1>4, <2>3, ResolveFacts DEF Flies
  <2> QED BY <2>1, <2>2, <2>3
<1>6. d = [f EXCEPT !.up = FALSE, !.wire = <<>>, !.back = <<>>, !.rev = 0, !.users_rev = 1]
  BY DEF HandleDown, b
<1> HIDE DEF f, d
<1>7. /\ d \in Conns /\ d.queue = <<>> /\ d.flying = NoFlight /\ d.file = c.file /\ d.cache = Absent
      /\ d.out = f.out /\ ~d.up /\ d.wire = <<>> /\ d.back = <<>> /\ d.rev = 0 /\ d.users_rev = 1
  <2>1. <<>> \in Seq(Requests) /\ <<>> \in Seq(Frames)
    OBVIOUS
  <2>2. [f EXCEPT !.up = FALSE, !.wire = <<>>, !.back = <<>>] \in Conns
    BY <1>5, <2>1 DEF Conns
  <2> DEFINE g == [f EXCEPT !.up = FALSE, !.wire = <<>>, !.back = <<>>]
  <2>3. /\ g.queue = <<>> /\ g.flying = NoFlight /\ g.file = c.file /\ g.cache = Absent
        /\ g.out = f.out /\ ~g.up /\ g.wire = <<>> /\ g.back = <<>>
    BY <1>5 DEF Conns
  <2>4. d = [g EXCEPT !.rev = 0, !.users_rev = 1]
    BY <1>5, <1>6 DEF Conns
  <2> HIDE DEF g
  <2>5. g \in Conns
    BY <2>2 DEF g
  <2>6. [g EXCEPT !.rev = 0] \in Conns /\ [g EXCEPT !.rev = 0].rev = 0
    BY <2>5 DEF Conns
  <2>8. LET h == [g EXCEPT !.rev = 0]
        IN  /\ d = [h EXCEPT !.users_rev = 1]
            /\ h.queue = <<>> /\ h.flying = NoFlight /\ h.file = c.file /\ h.cache = Absent
            /\ h.out = f.out /\ ~h.up /\ h.wire = <<>> /\ h.back = <<>>
    BY <2>3, <2>4, <2>5 DEF Conns
  <2> QED BY <2>6, <2>8, CountFromOne
<1>8. ConnInv(d) /\ JobCmds(d) = {}
  BY <1>7 DEF ConnInv, Core, Alone, Flies, JobCmds
<1>9. Answered(c, d)
  <2>1. CASE waits
    <3>1. PICK i \in DOMAIN c.queue : c.queue[i].by = "job"
      BY <2>1
    <3>2. c.queue[i] \in JobCmds(c)
      BY <3>1, JobCmdsMember
    <3> QED BY <1>4, <1>5, <1>7, <1>8, <2>1, <3>2, OutcomeFacts DEF Answered
  <2>2. CASE ~waits /\ Flies(c) /\ c.flying.command.by = "job"
    <3>1. c.flying.command \in JobCmds(c)
      BY <2>2, JobCmdsMember
    <3> QED BY <1>4, <1>5, <1>7, <1>8, <2>2, <3>1, OutcomeFacts DEF Answered
  <2>3. CASE ~waits /\ ~(Flies(c) /\ c.flying.command.by = "job")
    <3>1. \A m : m \notin JobCmds(c)
      BY <2>3, JobCmdsMember
    <3>2. JobCmds(c) = {}
      BY <3>1
    <3> QED BY <1>5, <1>7, <1>8, <2>3, <3>2 DEF Answered
  <2> QED BY <2>1, <2>2, <2>3
<1>10. ASSUME LineInv(c) PROVE Told(c, d)
  <2>1. d.flying.await = "none"
    BY <1>7 DEF NoFlight
  <2>2. LineInv(d)
    BY <1>7, <2>1 DEF LineInv, OneOnLine, SuccessHolds, HoldsResult, FilesAreKnown, Current, FilesShown
  <2>3. ASSUME d.out # NoOutcome, d.out.kind = "result", NEW m \in JobCmds(c)
        PROVE  /\ Succeeded(m.op, d.out.code) => Took(d.file, m)
               /\ m.op = ListUsers => d.out.file = d.file
    <3>1. ~waits /\ HoldsResult(c) /\ Flies(c) /\ c.flying.command.by = "job"
      BY <1>5, <1>7, <2>3, OutcomeFacts DEF o
    <3>2. m = c.flying.command
      BY <3>1, JobCmdsMember
    <3>3. Took(c.file, m)
      BY <1>10, <3>1, <3>2 DEF LineInv, SuccessHolds
    <3>4. m.op # ListUsers
      BY <3>1, <3>2 DEF HoldsResult
    <3> QED BY <1>7, <3>3, <3>4
  <2> QED BY <2>2, <2>3 DEF Told
<1> QED BY <1>7, <1>9, <1>10 DEF d

(* The timers. *)
LEMMA DisownFacts ==
  /\ \A w \in Seq(Requests) : Disown(w) \in Seq(Requests) /\ (w = <<>> => Disown(w) = <<>>)
  /\ \A b \in Seq(Frames) :
       /\ Disown(b) \in Seq(Frames) /\ (b = <<>> => Disown(b) = <<>>)
       /\ DOMAIN Disown(b) = DOMAIN b /\ \A i \in DOMAIN b : Disown(b)[i].rev = b[i].rev
<1>1. \A r \in Requests : "own" \in DOMAIN r /\ [r EXCEPT !.own = FALSE] \in Requests
  BY DEF Requests
<1>2. ASSUME NEW f \in Frames
      PROVE  LET g == IF "own" \in DOMAIN f THEN [f EXCEPT !.own = FALSE] ELSE f
             IN  g \in Frames /\ g.rev = f.rev
  BY DEF Frames
<1>3. ASSUME NEW w \in Seq(Requests)
      PROVE  Disown(w) \in Seq(Requests) /\ (w = <<>> => Disown(w) = <<>>)
  <2>1. DOMAIN w = 1..Len(w) /\ Len(w) \in Nat
    OBVIOUS
  <2>2. Disown(w) = [i \in 1..Len(w) |-> IF "own" \in DOMAIN w[i] THEN [w[i] EXCEPT !.own = FALSE] ELSE w[i]]
    BY <2>1 DEF Disown
  <2>3. \A i \in 1..Len(w) : (IF "own" \in DOMAIN w[i] THEN [w[i] EXCEPT !.own = FALSE] ELSE w[i]) \in Requests
    BY <1>1, <2>1
  <2>4. Disown(w) \in Seq(Requests)
    BY <2>1, <2>2, <2>3, IsASeq
  <2>5. w = <<>> => Disown(w) = <<>>
    BY <2>1, <2>2, <2>4
  <2> QED BY <2>4, <2>5
<1>4. ASSUME NEW b \in Seq(Frames)
      PROVE  /\ Disown(b) \in Seq(Frames) /\ (b = <<>> => Disown(b) = <<>>)
             /\ DOMAIN Disown(b) = DOMAIN b /\ \A i \in DOMAIN b : Disown(b)[i].rev = b[i].rev
  <2>1. DOMAIN b = 1..Len(b) /\ Len(b) \in Nat
    OBVIOUS
  <2> DEFINE g(f) == IF "own" \in DOMAIN f THEN [f EXCEPT !.own = FALSE] ELSE f
  <2>2. Disown(b) = [i \in 1..Len(b) |-> g(b[i])]
    BY <2>1 DEF Disown
  <2>3. \A i \in 1..Len(b) : g(b[i]) \in Frames /\ g(b[i]).rev = b[i].rev
    BY <1>2, <2>1
  <2> HIDE DEF g
  <2>4. Disown(b) \in Seq(Frames)
    BY <2>1, <2>2, <2>3, IsASeq
  <2>5. b = <<>> => Disown(b) = <<>>
    BY <2>1, <2>2, <2>4
  <2> QED BY <2>1, <2>2, <2>3, <2>4, <2>5
<1> QED BY <1>3, <1>4

LEMMA CommandTimesOutFacts ==
  ASSUME NEW c, ConnInv(c), c.out = NoOutcome, Flies(c)
  PROVE  Answered(c, CommandTimesOut(c)) /\ CommandTimesOut(c).file = c.file
<1> DEFINE e == [c EXCEPT !.wire = Disown(@), !.back = Disown(@)]
<1>0. c \in Conns /\ Core(c)
  BY DEF ConnInv, Core
<1>1. /\ Disown(c.wire) \in Seq(Requests) /\ (c.wire = <<>> => Disown(c.wire) = <<>>)
      /\ Disown(c.back) \in Seq(Frames) /\ (c.back = <<>> => Disown(c.back) = <<>>)
      /\ DOMAIN Disown(c.back) = DOMAIN c.back
      /\ \A i \in DOMAIN c.back : Disown(c.back)[i].rev = c.back[i].rev
  BY <1>0, ConnFields, DisownFacts
<1>2. /\ e \in Conns /\ e.up = c.up /\ e.queue = c.queue /\ e.cache = c.cache /\ e.rev = c.rev
      /\ e.out = c.out /\ e.file = c.file /\ e.users_rev = c.users_rev /\ e.flying = c.flying
      /\ e.wire = Disown(c.wire) /\ e.back = Disown(c.back)
  BY <1>0, <1>1 DEF Conns
<1>3. CommandTimesOut(c) = Finish(e, TimedOut)
  BY DEF CommandTimesOut
<1> HIDE DEF e
<1>4. Alone(e) /\ JobCmds(e) = JobCmds(c)
  BY <1>0, <1>2 DEF Core, Alone, Flies, JobCmds
<1>5. ConnInv(e) /\ Flies(e)
  BY <1>0, <1>1, <1>2, <1>4 DEF ConnInv, Core, Flies
<1> QED BY <1>2, <1>3, <1>4, <1>5, OutcomeFacts, FinishAnswers

LEMMA SnapshotTimesOutFacts ==
  ASSUME NEW c, ConnInv(c), c.out = NoOutcome, Flies(c)
  PROVE  Answered(c, SnapshotTimesOut(c)) /\ SnapshotTimesOut(c).file = c.file
<1> DEFINE e == RequestSnapshot(c)
           o == Outcome("result", Done, Absent)
<1>1. Core(c) /\ c.up
  BY DEF ConnInv, Core
<1>2. /\ Core(e) /\ JobCmds(e) = JobCmds(c) /\ e.file = c.file /\ e.out = c.out
      /\ e.flying = c.flying /\ e.queue = c.queue
  BY <1>1, RequestFacts
<1>3. SnapshotTimesOut(c) = Finish(e, o)
  BY DEF SnapshotTimesOut
<1> HIDE DEF e
<1>4. ConnInv(e) /\ Flies(e)
  BY <1>2 DEF ConnInv, Flies
<1>5. o \in Outcomes
  BY OutcomeFacts DEF Done
<1> QED BY <1>2, <1>3, <1>4, <1>5, FinishAnswers

(* #onSnapshot, when the frame is taken off. *)
Shifted(c, d) ==
  /\ d \in Conns
  /\ d.up = c.up /\ d.queue = c.queue /\ d.out = c.out /\ d.file = c.file
  /\ d.users_rev = c.users_rev /\ d.wire = c.wire /\ d.back = Tail(c.back)

LEMMA ShiftFacts ==
  ASSUME NEW c, ConnInv(c), c.back # <<>>
  PROVE  LET d == [c EXCEPT !.back = Tail(@)]
         IN  /\ Shifted(c, d) /\ d.flying = c.flying /\ d.cache = c.cache /\ d.rev = c.rev
             /\ Head(c.back) \in Frames /\ Head(c.back).rev <= c.users_rev
             /\ Head(c.back) = c.back[1] /\ 1 \in DOMAIN c.back
<1>1. c \in Conns /\ c.back \in Seq(Frames)
  BY ConnFields DEF ConnInv, Core
<1>2. /\ Head(c.back) \in Frames /\ Head(c.back) = c.back[1] /\ 1 \in DOMAIN c.back
      /\ Tail(c.back) \in Seq(Frames)
  BY <1>1, TailFacts
<1>3. LET d == [c EXCEPT !.back = Tail(@)]
      IN  Shifted(c, d) /\ d.flying = c.flying /\ d.cache = c.cache /\ d.rev = c.rev
  BY <1>1, <1>2 DEF Conns, Shifted
<1>4. c.back[1].rev <= c.users_rev
  BY <1>2 DEF ConnInv, Core
<1> QED BY <1>2, <1>3, <1>4

LEMMA ShiftCore ==
  ASSUME NEW c, ConnInv(c), c.back # <<>>, NEW d, Shifted(c, d), d.rev <= d.users_rev,
         d.flying.command = c.flying.command, Flies(d) <=> Flies(c),
         d.flying.await = "resp" => c.flying.await = "resp"
  PROVE  ConnInv(d) /\ JobCmds(d) = JobCmds(c)
<1>1. c \in Conns /\ c.back \in Seq(Frames)
  BY ConnFields DEF ConnInv, Core
<1>2. c.up
  BY DEF ConnInv, Core
<1>3. \A i \in DOMAIN d.back : d.back[i].rev <= d.users_rev
  BY <1>1, TailFacts DEF Shifted, ConnInv, Core
<1>4. Alone(d) /\ JobCmds(d) = JobCmds(c)
  BY DEF Shifted, Alone, JobCmds, ConnInv, Core
<1> QED BY <1>2, <1>3, <1>4 DEF Shifted, ConnInv, Core

(* What the frames that are left show. *)
LEMMA ShiftLine ==
  ASSUME NEW c, c \in Conns, c.back # <<>>, NEW d, Shifted(c, d)
  PROVE  /\ \A i \in DOMAIN d.back : /\ i + 1 \in DOMAIN c.back /\ d.back[i] = c.back[i + 1]
                                     /\ Answers(i, d.back) <=> Answers(i + 1, c.back)
                                     /\ i \in Nat /\ i + 1 # 1
         /\ \A i \in DOMAIN c.back : i \in Nat /\ i >= 1
         /\ \A k \in Nat : FilesShown(c, k + 1) => FilesShown(d, k)
         /\ FilesShown(c, 0) => FilesShown(d, 0)
<1>1. c.back \in Seq(Frames)
  BY ConnFields
<1>2. /\ \A i \in DOMAIN d.back : i + 1 \in DOMAIN c.back /\ d.back[i] = c.back[i + 1] /\ i \in Nat
                                  /\ i + 1 # 1
      /\ \A i \in DOMAIN c.back : i \in Nat /\ i >= 1
  BY <1>1, TailFacts DEF Shifted
<1>3. \A i \in DOMAIN d.back : Answers(i, d.back) <=> Answers(i + 1, c.back)
  BY <1>2 DEF Answers
<1>4. \A k \in Nat : FilesShown(c, k + 1) => FilesShown(d, k)
  <2> SUFFICES ASSUME NEW k \in Nat, FilesShown(c, k + 1), NEW i \in DOMAIN d.back, i > k, ~Answers(i, d.back)
               PROVE  d.back[i].file = d.file
    BY DEF FilesShown
  <2>1. i + 1 > k + 1 /\ ~Answers(i + 1, c.back) /\ i + 1 \in DOMAIN c.back
    BY <1>2, <1>3
  <2> QED BY <1>2, <2>1 DEF FilesShown, Shifted
<1>5. FilesShown(c, 0) => FilesShown(d, 0)
  <2> SUFFICES ASSUME FilesShown(c, 0), NEW i \in DOMAIN d.back, ~Answers(i, d.back)
               PROVE  d.back[i].file = d.file
    BY DEF FilesShown
  <2>1. i + 1 > 0 /\ ~Answers(i + 1, c.back) /\ i + 1 \in DOMAIN c.back
    BY <1>2, <1>3
  <2> QED BY <1>2, <2>1 DEF FilesShown, Shifted
<1> QED BY <1>2, <1>3, <1>4, <1>5

LEMMA RecountFacts ==
  ASSUME NEW c, NEW e, Answered(c, e)
  PROVE  /\ Answered(c, Recount(e)) /\ Recount(e).file = e.file
         /\ Told(c, e) => Told(c, Recount(e))
<1> DEFINE d == Recount(e)
<1>1. CASE ~(e.wire = <<>> /\ e.back = <<>> /\ e.rev = e.users_rev)
  BY <1>1 DEF Recount
<1>2. CASE e.wire = <<>> /\ e.back = <<>> /\ e.rev = e.users_rev
  <2>1. e \in Conns /\ Core(e) /\ ConnInv(e)
    BY DEF Answered, ConnInv, Core
  <2>2. d = [e EXCEPT !.rev = 1, !.users_rev = 1]
    BY <1>2 DEF Recount
  <2> HIDE DEF d
  <2>a. LET h == [e EXCEPT !.rev = 1]
        IN  /\ h \in Conns /\ h.up = e.up /\ h.queue = e.queue /\ h.cache = e.cache /\ h.rev = 1
            /\ h.out = e.out /\ h.file = e.file /\ h.flying = e.flying
            /\ h.wire = e.wire /\ h.back = e.back /\ d = [h EXCEPT !.users_rev = 1]
    BY <2>1, <2>2 DEF Conns
  <2>3. /\ d \in Conns /\ d.up = e.up /\ d.queue = e.queue /\ d.cache = e.cache /\ d.rev = 1
        /\ d.out = e.out /\ d.file = e.file /\ d.users_rev = 1 /\ d.flying = e.flying
        /\ d.wire = <<>> /\ d.back = <<>>
    BY <1>2, <2>a, CountFromOne
  <2>4. Alone(d) /\ JobCmds(d) = JobCmds(e)
    BY <2>1, <2>3 DEF Core, Alone, Flies, JobCmds
  <2>5. ConnInv(d)
    BY <1>2, <2>1, <2>3, <2>4 DEF ConnInv, Core, Flies
  <2>6. Answered(c, d)
    BY <2>3, <2>4, <2>5 DEF Answered
  <2>7. ASSUME LineInv(e) PROVE LineInv(d)
    <3>1. OneOnLine(d) /\ SuccessHolds(d)
      BY <1>2, <2>3, <2>7 DEF LineInv, OneOnLine, SuccessHolds, HoldsResult
    <3>2. Current(e) => Current(d)
      BY <2>3, <1>2 DEF Current, FilesShown
    <3>3. Changing(e) => Changing(d)
      BY <2>3, <1>2 DEF Changing, FilesShown, Flies
    <3> QED BY <2>7, <3>1, <3>2, <3>3 DEF LineInv, FilesAreKnown
  <2>8. Told(c, e) => Told(c, d)
    BY <2>3, <2>7 DEF Told
  <2> QED BY <2>3, <2>6, <2>8 DEF d
<1> QED BY <1>1, <1>2

(* What is left of the line once a frame that is no answer is taken off. *)
LEMMA SnapshotLine ==
  ASSUME NEW c, ConnInv(c), c.back # <<>>, LineInv(c), Head(c.back).type = "snapshot",
         NEW e, Shifted(c, e), e.flying = c.flying, e.cache = Head(c.back).file, e.rev = Head(c.back).rev
  PROVE  LineInv(e) /\ (e.flying.await = "snapshot" => Quiet(e) /\ Current(e) /\ e.cache = e.file)
<1> DEFINE frame == Head(c.back)
<1>0. c \in Conns /\ c.back \in Seq(Frames) /\ frame = c.back[1] /\ 1 \in DOMAIN c.back
  BY ConnFields, TailFacts DEF ConnInv, Core
<1>1. /\ \A i \in DOMAIN e.back : /\ i + 1 \in DOMAIN c.back /\ e.back[i] = c.back[i + 1]
                                  /\ Answers(i, e.back) <=> Answers(i + 1, c.back)
                                  /\ i \in Nat /\ i + 1 # 1
      /\ \A i \in DOMAIN c.back : i \in Nat /\ i >= 1
      /\ \A k \in Nat : FilesShown(c, k + 1) => FilesShown(e, k)
      /\ FilesShown(c, 0) => FilesShown(e, 0)
  BY <1>0, ShiftLine
<1>2. ~Answers(1, c.back)
  BY <1>0 DEF Answers
<1>3. OneOnLine(e)
  <2>1. OneOnLine(c)
    BY DEF LineInv
  <2>2. ASSUME NEW i \in DOMAIN e.back, Answers(i, e.back)
        PROVE  e.back[i].own /\ e.flying.await = "resp" /\ \A j \in DOMAIN e.wire : ~Changes(j, e.wire)
    BY <1>1, <2>1, <2>2 DEF OneOnLine, Shifted
  <2>3. ASSUME NEW i \in DOMAIN e.back, Answers(i, e.back), NEW j \in DOMAIN e.back, Answers(j, e.back)
        PROVE  i = j
    <3>1. i + 1 = j + 1
      BY <1>1, <2>1, <2>3 DEF OneOnLine
    <3> QED BY <1>1, <3>1
  <2>4. /\ \A i \in DOMAIN e.wire : Changes(i, e.wire) =>
             e.wire[i].own /\ e.flying.await = "resp" /\ e.wire[i].command = e.flying.command
        /\ \A i, j \in DOMAIN e.wire : Changes(i, e.wire) /\ Changes(j, e.wire) => i = j
    BY <2>1 DEF OneOnLine, Shifted
  <2> QED BY <2>2, <2>3, <2>4 DEF OneOnLine
<1>4. SuccessHolds(e)
  BY <1>1 DEF LineInv, SuccessHolds, HoldsResult, Shifted
<1>5. FilesShown(c, 0) => Current(e) /\ e.cache = e.file
  <2> SUFFICES ASSUME FilesShown(c, 0) PROVE Current(e) /\ e.cache = e.file
    OBVIOUS
  <2>1. frame.file = c.file
    BY <1>0, <1>2 DEF FilesShown
  <2> QED BY <1>1, <2>1 DEF Current, Shifted
<1>6. CASE FilesShown(c, 0)
  <2>1. LineInv(e)
    BY <1>3, <1>4, <1>5, <1>6 DEF LineInv, FilesAreKnown
  <2>2. e.flying.await = "snapshot" => Quiet(e)
    BY <1>3 DEF OneOnLine, Quiet
  <2> QED BY <1>5, <1>6, <2>1, <2>2
<1>7. CASE ~FilesShown(c, 0)
  <2>1. Changing(c) /\ c.flying.await # "snapshot"
    <3>1. Changing(c)
      BY <1>7 DEF LineInv, FilesAreKnown, Current
    <3>2. PICK k \in DOMAIN c.back : Answers(k, c.back)
      BY <1>7, <3>1 DEF Changing
    <3>3. c.flying.await = "resp"
      BY <3>2 DEF LineInv, OneOnLine
    <3> QED BY <3>1, <3>3
  <2>2. PICK k \in DOMAIN c.back :
          /\ Answers(k, c.back) /\ c.back[k].code = Done /\ FilesShown(c, k)
          /\ c.rev < c.back[k].rev
          /\ \A i \in DOMAIN c.back : i < k => c.back[i].rev < c.back[k].rev
    BY <2>1 DEF Changing
  <2>3. k \in Nat /\ k > 1
    BY <1>1, <1>2, <2>2
  <2>4. k - 1 \in DOMAIN e.back /\ e.back[k - 1] = c.back[k] /\ (k - 1) + 1 = k /\ k - 1 \in Nat
    BY <1>0, <2>2, <2>3, TailFacts DEF Shifted
  <2>5. Answers(k - 1, e.back) /\ e.back[k - 1].code = Done /\ FilesShown(e, k - 1)
    BY <1>1, <2>2, <2>4
  <2>6. e.rev < e.back[k - 1].rev
    BY <1>0, <2>2, <2>3, <2>4
  <2>7. \A i \in DOMAIN e.back : i < k - 1 => e.back[i].rev < e.back[k - 1].rev
    <3> SUFFICES ASSUME NEW i \in DOMAIN e.back, i < k - 1 PROVE e.back[i].rev < e.back[k - 1].rev
      OBVIOUS
    <3>1. i + 1 < k
      BY <1>1, <2>3
    <3> QED BY <1>1, <2>2, <2>4, <3>1
  <2>8. Changing(e)
    BY <2>1, <2>4, <2>5, <2>6, <2>7 DEF Changing, Flies
  <2> QED BY <1>3, <1>4, <2>1, <2>8 DEF LineInv, FilesAreKnown
<1> QED BY <1>6, <1>7

(* #onSnapshot *)
LEMMA OnSnapshotFacts ==
  ASSUME NEW c, ConnInv(c), c.out = NoOutcome, c.back # <<>>, Head(c.back).type = "snapshot"
  PROVE  LET d == OnSnapshot([c EXCEPT !.back = Tail(@)], Head(c.back))
         IN  Answered(c, d) /\ d.file = c.file /\ (LineInv(c) => Told(c, d))
<1> DEFINE b == [c EXCEPT !.back = Tail(@)]
           frame == Head(c.back)
           e == [b EXCEPT !.cache = frame.file, !.rev = frame.rev]
           o == Outcome("result", Done, frame.file)
<1>1. /\ Shifted(c, b) /\ b.flying = c.flying /\ frame \in Frames /\ frame.rev <= c.users_rev
  BY ShiftFacts
<1>2. frame.file \in Files /\ frame.rev \in Nat
  BY <1>1, FrameFacts
<1> HIDE DEF b, frame
<1>3. Shifted(c, e) /\ e.flying = c.flying /\ e.cache = frame.file /\ e.rev = frame.rev
  BY <1>1, <1>2 DEF Shifted, Conns
<1> HIDE DEF e
<1>4. ConnInv(e) /\ JobCmds(e) = JobCmds(c)
  BY <1>1, <1>3, ShiftCore DEF Shifted, Flies
<1>5. OnSnapshot(b, frame) = IF c.flying.await = "snapshot" THEN Finish(e, o) ELSE e
  BY <1>1 DEF OnSnapshot, e
<1>6. LineInv(c) => LineInv(e) /\ (e.flying.await = "snapshot" => Quiet(e) /\ Current(e) /\ e.cache = e.file)
  BY <1>3, SnapshotLine DEF frame
<1>7. CASE c.flying.await = "snapshot"
  <2>1. Flies(e)
    BY <1>3, <1>7 DEF Flies, NoFlight
  <2>2. o \in Outcomes /\ o.code = Done /\ o.file = frame.file
    BY <1>2, OutcomeFacts DEF Done
  <2>3. e.out = NoOutcome /\ e.file = c.file
    BY <1>3 DEF Shifted
  <2>4. ASSUME LineInv(c) PROVE TrueOf(e, o)
    <3>1. e.cache = e.file
      BY <1>3, <1>6, <1>7, <2>4
    <3>2. c.flying.command.op # ListUsers => Took(c.file, c.flying.command)
      BY <1>7, <2>4 DEF LineInv, SuccessHolds, HoldsResult
    <3>3. c.flying.command.op = ListUsers => Took(c.file, c.flying.command)
      BY DEF Took, ListUsers, CreateUser, PutAccount, RemoveAccount, RemoveUser
    <3> QED BY <1>3, <2>2, <2>3, <3>1, <3>2, <3>3 DEF TrueOf
  <2>5. Answered(c, Finish(e, o)) /\ Finish(e, o).file = e.file
    BY <1>4, <2>1, <2>2, <2>3, FinishAnswers
  <2>6. LineInv(c) => Told(c, Finish(e, o))
    BY <1>3, <1>4, <1>6, <1>7, <2>1, <2>2, <2>3, <2>4, FinishAnswers
  <2> QED BY <1>5, <1>7, <2>3, <2>5, <2>6 DEF b, frame
<1>8. CASE c.flying.await # "snapshot"
  <2>1. e.out = NoOutcome /\ e.file = c.file
    BY <1>3 DEF Shifted
  <2>2. Answered(c, e) /\ (LineInv(c) => Told(c, e))
    BY <1>4, <1>6, <2>1 DEF Answered, Told
  <2> QED BY <1>5, <1>8, <2>1, <2>2 DEF b, frame
<1> QED BY <1>7, <1>8

(* #onCommandResp: the answer of the command in flight is taken off; then  *)
(* no other is on the line.                                                *)
LEMMA AnswerLine ==
  ASSUME NEW c, ConnInv(c), c.back # <<>>, LineInv(c), Head(c.back).type = "resp",
         NEW e, Shifted(c, e), e.flying.command = c.flying.command, e.cache = c.cache
  PROVE  /\ c.flying.await = "resp" /\ Head(c.back).own /\ Quiet(e)
         /\ Succeeded(c.flying.command.op, Head(c.back).code) => Took(e.file, e.flying.command)
         /\ \/ Current(e)
            \/ /\ Flies(c) /\ c.flying.command.by = "job" /\ c.flying.command.op # ListUsers
               /\ Head(c.back).code = Done /\ c.rev < Head(c.back).rev /\ FilesShown(e, 0)
<1> DEFINE frame == Head(c.back)
<1>0. c \in Conns /\ c.back \in Seq(Frames) /\ frame = c.back[1] /\ 1 \in DOMAIN c.back
  BY ConnFields, TailFacts DEF ConnInv, Core
<1>1. /\ \A i \in DOMAIN e.back : /\ i + 1 \in DOMAIN c.back /\ e.back[i] = c.back[i + 1]
                                  /\ Answers(i, e.back) <=> Answers(i + 1, c.back)
                                  /\ i \in Nat /\ i + 1 # 1
      /\ \A i \in DOMAIN c.back : i \in Nat /\ i >= 1
      /\ \A k \in Nat : FilesShown(c, k + 1) => FilesShown(e, k)
      /\ FilesShown(c, 0) => FilesShown(e, 0)
  BY <1>0, ShiftLine
<1>2. Answers(1, c.back)
  BY <1>0 DEF Answers
<1>3. OneOnLine(c) /\ SuccessHolds(c) /\ FilesAreKnown(c)
  BY DEF LineInv
<1>4. c.flying.await = "resp" /\ frame.own
  BY <1>0, <1>2, <1>3 DEF OneOnLine
<1>5. Quiet(e)
  <2>1. \A i \in DOMAIN e.wire : ~Changes(i, e.wire)
    BY <1>0, <1>2, <1>3 DEF OneOnLine, Shifted
  <2>2. \A i \in DOMAIN e.back : ~Answers(i, e.back)
    BY <1>0, <1>1, <1>2, <1>3 DEF OneOnLine
  <2> QED BY <2>1, <2>2 DEF Quiet
<1>6. Succeeded(c.flying.command.op, frame.code) => Took(e.file, e.flying.command)
  BY <1>0, <1>2, <1>3 DEF SuccessHolds, Shifted
<1>7. Current(c) => Current(e)
  BY <1>1 DEF Current, Shifted
<1>8. ASSUME Changing(c)
      PROVE  /\ Flies(c) /\ c.flying.command.by = "job" /\ c.flying.command.op # ListUsers
             /\ frame.code = Done /\ c.rev < frame.rev /\ FilesShown(e, 0)
  <2>1. PICK k \in DOMAIN c.back :
          /\ Answers(k, c.back) /\ c.back[k].code = Done /\ FilesShown(c, k)
          /\ c.rev < c.back[k].rev
    BY <1>4, <1>8 DEF Changing
  <2>2. k = 1
    BY <1>0, <1>2, <1>3, <2>1 DEF OneOnLine
  <2>3. FilesShown(c, 0 + 1)
    BY <2>1, <2>2
  <2>4. FilesShown(e, 0)
    BY <1>1, <2>3
  <2> QED BY <1>0, <1>8, <2>1, <2>2, <2>4 DEF Changing
<1> QED BY <1>3, <1>4, <1>5, <1>6, <1>7, <1>8 DEF FilesAreKnown

(* #onCommandResp *)
LEMMA OnCommandRespFacts ==
  ASSUME NEW c, ConnInv(c), c.out = NoOutcome, c.back # <<>>, Head(c.back).type = "resp"
  PROVE  LET d == OnCommandResp([c EXCEPT !.back = Tail(@)], Head(c.back))
         IN  Answered(c, d) /\ d.file = c.file /\ (LineInv(c) => Told(c, d))
<1> DEFINE b == [c EXCEPT !.back = Tail(@)]
           frame == Head(c.back)
           e == [b EXCEPT !.rev = frame.rev]
           h == [e EXCEPT !.flying.await = "snapshot"]
           o == Outcome("result", frame.code, Absent)
<1>1. /\ Shifted(c, b) /\ b.flying = c.flying /\ b.cache = c.cache /\ b.rev = c.rev
      /\ frame \in Frames /\ frame.rev <= c.users_rev
  BY ShiftFacts
<1>2. frame.rev \in Nat /\ frame.code \in Nat /\ frame.own \in BOOLEAN
  BY <1>1, FrameFacts
<1>3. OnCommandResp(b, frame) =
        IF c.flying.await # "resp" \/ ~frame.own THEN b
        ELSE IF frame.code = Done /\ (c.rev = 0 \/ c.rev # frame.rev) THEN h
        ELSE Finish(e, o)
  BY <1>1 DEF OnCommandResp, Changed
<1> HIDE DEF b, frame
<1>4. Shifted(c, e) /\ e.flying = c.flying /\ e.cache = c.cache /\ e.rev = frame.rev
  BY <1>1, <1>2 DEF Shifted, Conns
<1> HIDE DEF e
<1>5. ConnInv(e) /\ JobCmds(e) = JobCmds(c) /\ e.out = NoOutcome /\ e.file = c.file
  BY <1>1, <1>4, ShiftCore DEF Shifted, Flies
<1>6. CASE c.flying.await # "resp" \/ ~frame.own
  <2>1. ConnInv(b) /\ JobCmds(b) = JobCmds(c)
    <3>1. b.rev <= b.users_rev
      BY <1>1 DEF Shifted, ConnInv, Core
    <3> QED BY <1>1, <3>1, ShiftCore DEF Flies
  <2>2. b.out = NoOutcome /\ b.file = c.file
    BY <1>1 DEF Shifted
  <2>3. Answered(c, b)
    BY <2>1, <2>2 DEF Answered
  <2>4. ~LineInv(c)
    BY <1>4, <1>6, AnswerLine DEF frame
  <2> QED BY <1>3, <1>6, <2>2, <2>3, <2>4 DEF b, frame
<1>7. CASE c.flying.await = "resp" /\ frame.own /\ frame.code = Done /\ (c.rev = 0 \/ c.rev # frame.rev)
  <2> DEFINE f == [c.flying EXCEPT !.await = "snapshot"]
  <2>1. Flies(c) /\ c.flying \in Flights /\ c.flying.command.op # ListUsers
    BY <1>7, ConnFields DEF Flies, NoFlight, ConnInv, Core
  <2>2. f \in Flights /\ f.command = c.flying.command /\ f.await = "snapshot" /\ f # NoFlight
    <3>1. c.flying \in [await : {"resp", "snapshot"}, command : Commands]
      BY <2>1 DEF Flies, Flights
    <3>2. f \in [await : {"resp", "snapshot"}, command : Commands]
      BY <3>1
    <3> QED BY <3>1, <3>2 DEF Flights, NoFlight
  <2>3. h = [e EXCEPT !.flying = f]
    BY <1>4 DEF Shifted, Conns
  <2> HIDE DEF f, h
  <2>4. Shifted(c, h) /\ h.flying = f /\ h.cache = c.cache /\ h.rev = frame.rev
    BY <1>4, <2>2, <2>3 DEF Shifted, Conns
  <2>5. h.rev <= h.users_rev /\ h.out = NoOutcome /\ h.file = c.file /\ Flies(h)
    BY <1>1, <2>2, <2>4 DEF Shifted, Flies
  <2>6. ConnInv(h) /\ JobCmds(h) = JobCmds(c)
    BY <2>1, <2>2, <2>4, <2>5, ShiftCore
  <2>7. Answered(c, h)
    BY <2>5, <2>6 DEF Answered
  <2>8. ASSUME LineInv(c) PROVE LineInv(h)
    <3>1. /\ Quiet(h)
          /\ Succeeded(c.flying.command.op, Done) => Took(h.file, h.flying.command)
          /\ Current(h) \/ (c.flying.command.by = "job" /\ FilesShown(h, 0))
      BY <1>7, <2>2, <2>4, <2>8, AnswerLine DEF frame
    <3>2. OneOnLine(h)
      BY <3>1 DEF OneOnLine, Quiet
    <3>3. Took(h.file, h.flying.command)
      BY <3>1 DEF Succeeded
    <3>4. SuccessHolds(h)
      BY <3>1, <3>3 DEF SuccessHolds, Quiet
    <3>5. FilesAreKnown(h)
      BY <2>1, <2>2, <2>4, <2>5, <3>1 DEF FilesAreKnown, Changing
    <3> QED BY <3>2, <3>4, <3>5 DEF LineInv
  <2>9. LineInv(c) => Told(c, h)
    BY <2>5, <2>8 DEF Told
  <2> QED BY <1>3, <1>7, <2>5, <2>7, <2>9 DEF b, frame
<1>8. CASE c.flying.await = "resp" /\ frame.own /\ ~(frame.code = Done /\ (c.rev = 0 \/ c.rev # frame.rev))
  <2>1. Flies(e) /\ c.flying.command.op # ListUsers
    BY <1>4, <1>8 DEF Flies, NoFlight, ConnInv, Core
  <2>2. o \in Outcomes /\ o.code = frame.code
    BY <1>2, OutcomeFacts
  <2>3. ASSUME LineInv(c) PROVE Quiet(e) /\ Current(e) /\ TrueOf(e, o)
    <3>1. /\ Quiet(e)
          /\ Succeeded(c.flying.command.op, frame.code) => Took(e.file, e.flying.command)
          /\ Current(e) \/ (frame.code = Done /\ c.rev < frame.rev)
      BY <1>4, <2>3, AnswerLine DEF frame
    <3>2. Current(e)
      <4>1. c.rev \in Nat
        BY ConnFields DEF ConnInv, Core
      <4> QED BY <1>2, <1>8, <3>1, <4>1
    <3>3. TrueOf(e, o)
      BY <1>4, <2>1, <2>2, <3>1 DEF TrueOf
    <3> QED BY <3>1, <3>2, <3>3
  <2> HIDE DEF o
  <2>4. Answered(c, Finish(e, o)) /\ Finish(e, o).file = e.file
    BY <1>5, <2>1, <2>2, FinishAnswers
  <2>5. LineInv(c) => Told(c, Finish(e, o))
    BY <1>5, <2>1, <2>2, <2>3, FinishAnswers
  <2> QED BY <1>3, <1>5, <1>8, <2>4, <2>5 DEF b, frame
<1> QED BY <1>2, <1>6, <1>7, <1>8

(* #handleFrame *)
LEMMA HandleFrameFacts ==
  ASSUME NEW c, ConnInv(c), c.out = NoOutcome, c.back # <<>>
  PROVE  LET d == HandleFrame(c)
         IN  Answered(c, d) /\ d.file = c.file /\ (LineInv(c) => Told(c, d))
<1> DEFINE b == [c EXCEPT !.back = Tail(@)]
           frame == Head(c.back)
           e == IF frame.type = "resp" THEN OnCommandResp(b, frame) ELSE OnSnapshot(b, frame)
<1>1. HandleFrame(c) = Recount(e)
  BY DEF HandleFrame
<1>2. frame \in Frames
  BY ShiftFacts
<1>3. frame.type \in {"resp", "snapshot"}
  BY <1>2, FrameFacts
<1>4. Answered(c, e) /\ e.file = c.file /\ (LineInv(c) => Told(c, e))
  BY <1>3, OnCommandRespFacts, OnSnapshotFacts
<1> HIDE DEF e
<1> QED BY <1>1, <1>4, RecountFacts

-----------------------------------------------------------------------------
(* The gateway. *)

LEMMA ServedFacts ==
  ASSUME NEW file \in Files, NEW m \in Commands
  PROVE  /\ Served(file, m) \in Files
         /\ m.op = SetCost => Served(file, m) = file
         /\ m.op = ListUsers => Served(file, m) = file /\ Code(file, m) = Done
         /\ Code(file, m) \in Nat
         /\ WellFormed(m) /\ Code(file, m) = Done => Took(Served(file, m), m)
         /\ Succeeded(m.op, Code(file, m)) /\ Code(file, m) # Done => Took(file, m)
<1> USE DEF Done, CreateUser, PutAccount, RemoveAccount, RemoveUser, ListUsers, SetCost,
            NoSuchUser, NoSuchAccount, LastAccount
<1>0. m.op \in 1..6 /\ m.value \in Values \cup {Absent} /\ Nobody \in Files
  BY CommandFacts DEF Nobody, Files
<1>1. CASE m.op \in {CreateUser, PutAccount}
  <2>1. Served(file, m) = [file EXCEPT ![m.account] = m.value]
    BY <1>1 DEF Served
  <2>2. [file EXCEPT ![m.account] = m.value] \in Files
    BY <1>0 DEF Files
  <2>3. WellFormed(m) => [file EXCEPT ![m.account] = m.value][m.account] = m.value
    BY <1>1 DEF WellFormed, Files
  <2>4. Code(file, m) \in {Done, NoSuchUser}
    BY <1>1 DEF Code
  <2> QED BY <1>1, <2>1, <2>2, <2>3, <2>4 DEF Took, Succeeded
<1>2. CASE m.op = RemoveAccount
  <2>1. Served(file, m) = [file EXCEPT ![m.account] = Absent]
    BY <1>2 DEF Served
  <2>2. [file EXCEPT ![m.account] = Absent] \in Files
    BY DEF Files
  <2>3. WellFormed(m) => [file EXCEPT ![m.account] = Absent][m.account] = Absent
    BY <1>2 DEF WellFormed, Files
  <2>4. /\ Code(file, m) \in {Done, NoSuchUser, NoSuchAccount, LastAccount}
        /\ Code(file, m) = NoSuchAccount => file[m.account] = Absent
    BY <1>2 DEF Code
  <2> QED BY <1>2, <2>1, <2>2, <2>3, <2>4 DEF Took, Succeeded
<1>3. CASE m.op = RemoveUser
  <2>1. Served(file, m) = Nobody
    BY <1>3 DEF Served
  <2>2. /\ Code(file, m) \in {Done, NoSuchUser}
        /\ Code(file, m) = NoSuchUser => ~UserPresent(file)
    BY <1>3 DEF Code
  <2>3. ~UserPresent(file) => file = Nobody
    BY DEF UserPresent, Nobody, Files
  <2> QED BY <1>0, <1>3, <2>1, <2>2, <2>3 DEF Took, Succeeded
<1>4. CASE m.op \in {ListUsers, SetCost}
  <2>1. Served(file, m) = file /\ Code(file, m) = Done
    BY <1>4 DEF Served, Code
  <2> QED BY <1>4, <2>1 DEF Took
<1> QED BY <1>0, <1>1, <1>2, <1>3, <1>4

(* What the gateway does with a request, by the fields of the connection.  *)
LEMMA ServeFields ==
  ASSUME NEW c, ConnInv(c), c.wire # <<>>, NEW refuse \in BOOLEAN
  PROVE  LET m == Head(c.wire).command
             d == Serve(c, refuse)
             moved == d.users_rev # c.users_rev
         IN  /\ m \in Commands /\ Head(c.wire).own \in BOOLEAN
             /\ d \in Conns /\ d.up = c.up /\ d.queue = c.queue /\ d.flying = c.flying
             /\ d.cache = c.cache /\ d.rev = c.rev /\ d.out = c.out /\ d.wire = Tail(c.wire)
             /\ c.users_rev <= d.users_rev
             /\ \E code \in Nat :
                  /\ \/ code = Busy /\ d.file = c.file
                     \/ code = Code(c.file, m) /\ d.file = IF code = Done THEN Served(c.file, m) ELSE c.file
                  /\ d.file # c.file => moved
                  /\ moved => code = Done /\ m.op # ListUsers /\ d.users_rev = c.users_rev + 1
                  /\ d.back = IF m.op = ListUsers THEN Append(c.back, Snapshot(d.file, d.users_rev))
                              ELSE IF ~moved THEN Append(c.back, Resp(code, d.users_rev, Head(c.wire).own))
                              ELSE Append(Append(c.back, Resp(code, d.users_rev, Head(c.wire).own)),
                                          Snapshot(d.file, d.users_rev))
<1> DEFINE head == Head(c.wire)
           m == head.command
           code == IF refuse THEN Busy ELSE Code(c.file, m)
           file == IF code = Done THEN Served(c.file, m) ELSE c.file
           changes == m.op = SetCost \/ file # c.file
           rev == IF code = Done /\ changes THEN c.users_rev + 1 ELSE c.users_rev
           b == [c EXCEPT !.wire = Tail(@), !.file = file, !.users_rev = rev]
           d == Serve(c, refuse)
           back == IF m.op = ListUsers THEN Append(c.back, Snapshot(file, rev))
                   ELSE IF rev = c.users_rev THEN Append(c.back, Resp(code, rev, head.own))
                   ELSE c.back \o <<Resp(code, rev, head.own), Snapshot(file, rev)>>
<1>0. /\ c \in Conns /\ c.wire \in Seq(Requests) /\ c.back \in Seq(Frames) /\ c.file \in Files
      /\ c.users_rev \in Nat /\ c.users_rev # 0
  BY ConnFields DEF ConnInv, Core
<1>1. head \in Requests /\ Tail(c.wire) \in Seq(Requests)
  BY <1>0, TailFacts
<1>2. m \in Commands /\ head.own \in BOOLEAN
  BY <1>1 DEF Requests
<1> HIDE DEF head
<1>3. /\ Served(c.file, m) \in Files /\ Code(c.file, m) \in Nat /\ Busy \in Nat
      /\ m.op = ListUsers => Served(c.file, m) = c.file
  BY <1>0, <1>2, ServedFacts DEF Busy
<1> HIDE DEF m
<1>4. code \in Nat /\ file \in Files
  BY <1>0, <1>3
<1>5. /\ rev \in Nat /\ c.users_rev <= rev /\ rev \in Revisions
      /\ rev # c.users_rev => code = Done /\ m.op # ListUsers /\ rev = c.users_rev + 1
      /\ file # c.file => rev # c.users_rev
  <2>1. m.op = ListUsers => m.op # SetCost
    BY DEF ListUsers, SetCost
  <2>2. file # c.file => code = Done
    OBVIOUS
  <2>3. m.op = ListUsers => file = c.file
    BY <1>3
  <2> HIDE DEF code, file
  <2> QED BY <1>0, <2>1, <2>2, <2>3 DEF Revisions
<1>6. \/ code = Busy /\ file = c.file
      \/ code = Code(c.file, m) /\ file = IF code = Done THEN Served(c.file, m) ELSE c.file
  BY DEF Busy, Done
<1>7. d = [b EXCEPT !.back = back]
  <2>0. b.back = c.back
    BY <1>0 DEF Conns
  <2> QED BY <2>0, ZenonT(60) DEF Serve, head, m
<1> HIDE DEF code, file, rev
<1>8. /\ Resp(code, rev, head.own) \in Frames /\ Snapshot(file, rev) \in Frames
  BY <1>2, <1>4, <1>5 DEF Frames, Resp, Snapshot
<1>9. back \in Seq(Frames) /\ c.back \o <<Resp(code, rev, head.own), Snapshot(file, rev)>> =
                              Append(Append(c.back, Resp(code, rev, head.own)), Snapshot(file, rev))
  <2> DEFINE f == Resp(code, rev, head.own)
             g == Snapshot(file, rev)
  <2>1. f \in Frames /\ g \in Frames
    BY <1>8
  <2> HIDE DEF f, g
  <2>2. \A q \in Seq(Frames) : q \o <<f, g>> = Append(Append(q, f), g) /\ q \o <<f, g>> \in Seq(Frames)
    BY <2>1
  <2>3. Append(c.back, g) \in Seq(Frames) /\ Append(c.back, f) \in Seq(Frames)
    BY <1>0, <2>1
  <2> QED BY <1>0, <2>2, <2>3 DEF f, g
<1>10. b \in Conns /\ b.up = c.up /\ b.queue = c.queue /\ b.flying = c.flying
       /\ b.cache = c.cache /\ b.rev = c.rev /\ b.out = c.out /\ b.wire = Tail(c.wire)
       /\ b.file = file /\ b.users_rev = rev
  BY <1>0, <1>1, <1>4, <1>5 DEF Conns
<1>11. back = IF m.op = ListUsers THEN Append(c.back, Snapshot(file, rev))
              ELSE IF ~(rev # c.users_rev) THEN Append(c.back, Resp(code, rev, head.own))
              ELSE Append(Append(c.back, Resp(code, rev, head.own)), Snapshot(file, rev))
  BY <1>9
<1> HIDE DEF b, back
<1>12. /\ d \in Conns /\ d.up = c.up /\ d.queue = c.queue /\ d.flying = c.flying
       /\ d.cache = c.cache /\ d.rev = c.rev /\ d.out = c.out /\ d.wire = Tail(c.wire)
       /\ d.file = file /\ d.users_rev = rev /\ d.back = back
  BY <1>7, <1>9, <1>10 DEF Conns
<1> HIDE DEF d
<1>13. /\ m \in Commands /\ head.own \in BOOLEAN
       /\ d \in Conns /\ d.up = c.up /\ d.queue = c.queue /\ d.flying = c.flying
       /\ d.cache = c.cache /\ d.rev = c.rev /\ d.out = c.out /\ d.wire = Tail(c.wire)
       /\ c.users_rev <= d.users_rev
       /\ code \in Nat
       /\ \/ code = Busy /\ d.file = c.file
          \/ code = Code(c.file, m) /\ d.file = IF code = Done THEN Served(c.file, m) ELSE c.file
       /\ d.file # c.file => d.users_rev # c.users_rev
       /\ d.users_rev # c.users_rev => code = Done /\ m.op # ListUsers /\ d.users_rev = c.users_rev + 1
       /\ d.back = IF m.op = ListUsers THEN Append(c.back, Snapshot(d.file, d.users_rev))
                   ELSE IF ~(d.users_rev # c.users_rev) THEN Append(c.back, Resp(code, d.users_rev, head.own))
                   ELSE Append(Append(c.back, Resp(code, d.users_rev, head.own)),
                               Snapshot(d.file, d.users_rev))
  BY <1>2, <1>4, <1>5, <1>6, <1>11, <1>12
<1> QED BY <1>13 DEF d, m, head

(* A request is taken off the line. *)
LEMMA WireFacts ==
  ASSUME NEW c, ConnInv(c), c.wire # <<>>, NEW d, d.wire = Tail(c.wire)
  PROVE  /\ Head(c.wire) = c.wire[1] /\ 1 \in DOMAIN c.wire
         /\ \A i \in DOMAIN d.wire : /\ i + 1 \in DOMAIN c.wire /\ d.wire[i] = c.wire[i + 1]
                                     /\ Changes(i, d.wire) <=> Changes(i + 1, c.wire)
                                     /\ i \in Nat /\ i + 1 # 1
<1>1. c.wire \in Seq(Requests)
  BY ConnFields DEF ConnInv, Core
<1> QED BY <1>1, TailFacts DEF Changes

(* A file is appended that is the gateway's, and nothing has changed. *)
LEMMA ListServed ==
  ASSUME NEW c, ConnInv(c), c.wire # <<>>, LineInv(c), Head(c.wire).command.op = ListUsers,
         NEW d \in Conns, d.flying = c.flying, d.cache = c.cache, d.rev = c.rev,
         d.wire = Tail(c.wire), d.file = c.file, NEW rev \in Nat,
         d.back = Append(c.back, Snapshot(c.file, rev))
  PROVE  LineInv(d)
<1> DEFINE f == Snapshot(c.file, rev)
           n == Len(c.back) + 1
<1>0. c \in Conns /\ c.back \in Seq(Frames) /\ c.file \in Files
  BY ConnFields DEF ConnInv, Core
<1>1. f \in Frames /\ f.type = "snapshot" /\ f.file = c.file
  BY <1>0 DEF Snapshot, Frames
<1> HIDE DEF f
<1>2. /\ DOMAIN d.back = DOMAIN c.back \cup {n} /\ n \notin DOMAIN c.back
      /\ \A i \in DOMAIN c.back : d.back[i] = c.back[i] /\ i \in Nat /\ i < n
      /\ d.back[n] = f
  BY <1>0, <1>1, AppendFacts DEF f
<1> HIDE DEF n
<1>3. \A i \in DOMAIN d.back : Answers(i, d.back) <=> i \in DOMAIN c.back /\ Answers(i, c.back)
  BY <1>1, <1>2 DEF Answers
<1>4. \A i \in DOMAIN d.wire : /\ i + 1 \in DOMAIN c.wire /\ d.wire[i] = c.wire[i + 1]
                               /\ Changes(i, d.wire) <=> Changes(i + 1, c.wire)
                               /\ i \in Nat /\ i + 1 # 1
  BY WireFacts
<1>5. OneOnLine(c) /\ SuccessHolds(c) /\ FilesAreKnown(c)
  BY DEF LineInv
<1>6. OneOnLine(d)
  <2>1. \A i \in DOMAIN d.wire : Changes(i, d.wire) =>
          d.wire[i].own /\ d.flying.await = "resp" /\ d.wire[i].command = d.flying.command
    BY <1>4, <1>5 DEF OneOnLine
  <2>2. ASSUME NEW i \in DOMAIN d.wire, NEW j \in DOMAIN d.wire, Changes(i, d.wire), Changes(j, d.wire)
        PROVE  i = j
    <3>1. i + 1 = j + 1
      BY <1>4, <1>5, <2>2 DEF OneOnLine
    <3> QED BY <1>4, <3>1
  <2>3. \A i \in DOMAIN d.back : Answers(i, d.back) =>
          d.back[i].own /\ d.flying.await = "resp" /\ \A j \in DOMAIN d.wire : ~Changes(j, d.wire)
    BY <1>2, <1>3, <1>4, <1>5 DEF OneOnLine
  <2>4. \A i, j \in DOMAIN d.back : Answers(i, d.back) /\ Answers(j, d.back) => i = j
    BY <1>3, <1>5 DEF OneOnLine
  <2> QED BY <2>1, <2>2, <2>3, <2>4 DEF OneOnLine
<1>7. SuccessHolds(d)
  BY <1>2, <1>3, <1>5 DEF SuccessHolds, HoldsResult
<1>8. \A k : FilesShown(c, k) => FilesShown(d, k)
  BY <1>1, <1>2, <1>3 DEF FilesShown
<1>9. Current(c) => Current(d)
  BY <1>8 DEF Current
<1>10. Changing(c) => Changing(d)
  <2> SUFFICES ASSUME Changing(c) PROVE Changing(d)
    OBVIOUS
  <2>1. CASE c.flying.await = "snapshot" /\ FilesShown(c, 0)
    BY <1>8, <2>1 DEF Changing, Flies
  <2>2. CASE \E k \in DOMAIN c.back :
               /\ Answers(k, c.back) /\ c.back[k].code = Done /\ FilesShown(c, k)
               /\ c.rev < c.back[k].rev
               /\ \A i \in DOMAIN c.back : i < k => c.back[i].rev < c.back[k].rev
    <3>1. PICK k \in DOMAIN c.back :
            /\ Answers(k, c.back) /\ c.back[k].code = Done /\ FilesShown(c, k)
            /\ c.rev < c.back[k].rev
            /\ \A i \in DOMAIN c.back : i < k => c.back[i].rev < c.back[k].rev
      BY <2>2
    <3>2. /\ k \in DOMAIN d.back /\ Answers(k, d.back) /\ d.back[k].code = Done /\ FilesShown(d, k)
          /\ d.rev < d.back[k].rev
      BY <1>2, <1>3, <1>8, <3>1
    <3>3. \A i \in DOMAIN d.back : i < k => d.back[i].rev < d.back[k].rev
      <4>1. k \in Nat /\ k < n /\ n \in Nat
        BY <1>0, <1>2, <3>1 DEF n
      <4>2. ~(n < k)
        BY <4>1
      <4> QED BY <1>2, <3>1, <4>2
    <3> QED BY <3>2, <3>3 DEF Changing, Flies
  <2> QED BY <2>1, <2>2 DEF Changing
<1> QED BY <1>5, <1>6, <1>7, <1>9, <1>10 DEF LineInv, FilesAreKnown

(* What is on the line when a command is served. *)
LEMMA CommandOnLine ==
  ASSUME NEW c, ConnInv(c), c.wire # <<>>, LineInv(c), Head(c.wire).command.op # ListUsers,
         NEW d, d.wire = Tail(c.wire)
  PROVE  /\ Head(c.wire).own /\ c.flying.await = "resp" /\ Head(c.wire).command = c.flying.command
         /\ Flies(c) /\ c.flying.command.op # ListUsers
         /\ \A i \in DOMAIN d.wire : ~Changes(i, d.wire)
         /\ \A i \in DOMAIN c.back : ~Answers(i, c.back)
         /\ Current(c)
<1>1. OneOnLine(c) /\ FilesAreKnown(c)
  BY DEF LineInv
<1>2. /\ \A i \in DOMAIN d.wire : /\ i + 1 \in DOMAIN c.wire /\ d.wire[i] = c.wire[i + 1]
                                  /\ Changes(i, d.wire) <=> Changes(i + 1, c.wire)
                                  /\ i \in Nat /\ i + 1 # 1
      /\ Head(c.wire) = c.wire[1] /\ 1 \in DOMAIN c.wire
  BY WireFacts
<1>3. Changes(1, c.wire)
  BY <1>2 DEF Changes
<1>4. Head(c.wire).own /\ c.flying.await = "resp" /\ Head(c.wire).command = c.flying.command
  BY <1>1, <1>2, <1>3 DEF OneOnLine
<1>5. \A i \in DOMAIN d.wire : ~Changes(i, d.wire)
  BY <1>1, <1>2, <1>3 DEF OneOnLine
<1>6. \A i \in DOMAIN c.back : ~Answers(i, c.back)
  BY <1>1, <1>2, <1>3 DEF OneOnLine
<1>7. Flies(c)
  BY <1>4 DEF Flies, NoFlight
<1>8. ~Changing(c)
  BY <1>4, <1>6 DEF Changing
<1> QED BY <1>1, <1>4, <1>5, <1>6, <1>7, <1>8 DEF FilesAreKnown

(* An answer without a change, and the file is as it was. *)
LEMMA AnswerServed ==
  ASSUME NEW c, ConnInv(c), c.wire # <<>>, LineInv(c), Head(c.wire).command.op # ListUsers,
         NEW d \in Conns, d.flying = c.flying, d.cache = c.cache, d.rev = c.rev,
         d.wire = Tail(c.wire), d.file = c.file, NEW rev \in Nat, NEW code \in Nat,
         Succeeded(c.flying.command.op, code) => Took(c.file, c.flying.command),
         d.back = Append(c.back, Resp(code, rev, Head(c.wire).own))
  PROVE  LineInv(d)
<1> DEFINE own == Head(c.wire).own
           f == Resp(code, rev, own)
           n == Len(c.back) + 1
<1>0. c \in Conns /\ c.back \in Seq(Frames)
  BY ConnFields DEF ConnInv, Core
<1>1. /\ own /\ c.flying.await = "resp" /\ Head(c.wire).command = c.flying.command
      /\ Flies(c) /\ c.flying.command.op # ListUsers
      /\ \A i \in DOMAIN d.wire : ~Changes(i, d.wire)
      /\ \A i \in DOMAIN c.back : ~Answers(i, c.back)
      /\ Current(c)
  BY CommandOnLine
<1>2. own \in BOOLEAN
  BY ServeFields
<1> HIDE DEF own
<1>3. f \in Frames /\ f.type = "resp" /\ f.own /\ f.code = code
  BY <1>1, <1>2 DEF Resp, Frames
<1>4. d.back = Append(c.back, f)
  BY DEF own
<1> HIDE DEF f
<1>5. /\ DOMAIN d.back = DOMAIN c.back \cup {n} /\ n \notin DOMAIN c.back
      /\ \A i \in DOMAIN c.back : d.back[i] = c.back[i]
      /\ d.back[n] = f
  BY <1>0, <1>3, <1>4, AppendFacts
<1> HIDE DEF n
<1>6. \A i \in DOMAIN d.back : Answers(i, d.back) <=> i = n
  BY <1>1, <1>3, <1>5 DEF Answers
<1>7. OneOnLine(d)
  BY <1>1, <1>3, <1>5, <1>6 DEF OneOnLine
<1>8. SuccessHolds(d)
  BY <1>1, <1>3, <1>5, <1>6 DEF SuccessHolds, HoldsResult
<1>9. Current(d)
  BY <1>1, <1>5, <1>6 DEF Current, FilesShown
<1> QED BY <1>7, <1>8, <1>9 DEF LineInv, FilesAreKnown

(* A change is answered by its result and the file. *)
LEMMA ChangeServed ==
  ASSUME NEW c, ConnInv(c), c.wire # <<>>, LineInv(c), Head(c.wire).command.op # ListUsers,
         NEW d \in Conns, d.flying = c.flying, d.cache = c.cache, d.rev = c.rev,
         d.wire = Tail(c.wire), d.users_rev = c.users_rev + 1,
         c.flying.command.by = "job" \/ d.file = c.file,
         Took(d.file, c.flying.command),
         d.back = Append(Append(c.back, Resp(Done, d.users_rev, Head(c.wire).own)),
                         Snapshot(d.file, d.users_rev))
  PROVE  LineInv(d)
<1> DEFINE own == Head(c.wire).own
           f == Resp(Done, d.users_rev, own)
           g == Snapshot(d.file, d.users_rev)
           n == Len(c.back) + 1
           one == Append(c.back, f)
<1>0. /\ c \in Conns /\ c.back \in Seq(Frames) /\ d.file \in Files /\ d.users_rev \in Nat
      /\ c.users_rev \in Nat /\ c.rev \in Nat
  BY ConnFields DEF ConnInv, Core
<1>1. /\ own /\ c.flying.await = "resp" /\ Head(c.wire).command = c.flying.command
      /\ Flies(c) /\ c.flying.command.op # ListUsers
      /\ \A i \in DOMAIN d.wire : ~Changes(i, d.wire)
      /\ \A i \in DOMAIN c.back : ~Answers(i, c.back)
      /\ Current(c)
  BY CommandOnLine
<1>2. own \in BOOLEAN
  BY ServeFields
<1> HIDE DEF own
<1>3. /\ f \in Frames /\ f.type = "resp" /\ f.own /\ f.code = Done /\ f.rev = d.users_rev
      /\ g \in Frames /\ g.type = "snapshot" /\ g.file = d.file
  BY <1>0, <1>1, <1>2 DEF Resp, Snapshot, Frames, Done
<1>4. d.back = Append(one, g)
  BY DEF own
<1> HIDE DEF f, g
<1>5. /\ one \in Seq(Frames) /\ DOMAIN one = DOMAIN c.back \cup {n} /\ n \notin DOMAIN c.back
      /\ \A i \in DOMAIN c.back : one[i] = c.back[i] /\ i \in Nat /\ i < n
      /\ one[n] = f /\ Len(one) = n /\ n \in Nat
  BY <1>0, <1>3, AppendFacts
<1> HIDE DEF one, n
<1>6. /\ DOMAIN d.back = DOMAIN one \cup {n + 1} /\ n + 1 \notin DOMAIN one
      /\ \A i \in DOMAIN one : d.back[i] = one[i]
      /\ d.back[n + 1] = g
  BY <1>3, <1>4, <1>5, AppendFacts
<1>7. /\ DOMAIN d.back = DOMAIN c.back \cup {n, n + 1} /\ d.back[n] = f /\ d.back[n + 1] = g
      /\ \A i \in DOMAIN c.back : d.back[i] = c.back[i] /\ i \in Nat /\ i < n
  BY <1>5, <1>6
<1>8. \A i \in DOMAIN d.back : Answers(i, d.back) <=> i = n
  BY <1>1, <1>3, <1>5, <1>6, <1>7 DEF Answers
<1>9. OneOnLine(d)
  BY <1>1, <1>3, <1>7, <1>8 DEF OneOnLine
<1>10. SuccessHolds(d)
  BY <1>1, <1>8 DEF SuccessHolds, HoldsResult
<1>11. CASE d.file = c.file
  <2>1. Current(d)
    BY <1>1, <1>3, <1>7, <1>8, <1>11 DEF Current, FilesShown
  <2> QED BY <1>9, <1>10, <2>1 DEF LineInv, FilesAreKnown
<1>12. CASE c.flying.command.by = "job"
  <2>1. n \in DOMAIN d.back /\ Answers(n, d.back) /\ d.back[n].code = Done
    BY <1>3, <1>7, <1>8
  <2>2. FilesShown(d, n)
    BY <1>3, <1>5, <1>7 DEF FilesShown
  <2>3. c.rev <= c.users_rev /\ \A i \in DOMAIN c.back : c.back[i].rev <= c.users_rev
    BY DEF ConnInv, Core
  <2>4. d.rev < d.back[n].rev
    BY <1>0, <1>3, <1>7, <2>3, SMTT(30)
  <2>5. \A i \in DOMAIN d.back : i < n => d.back[i].rev < d.back[n].rev
    <3> SUFFICES ASSUME NEW i \in DOMAIN d.back, i < n PROVE d.back[i].rev < d.back[n].rev
      OBVIOUS
    <3>1. i \in DOMAIN c.back
      BY <1>5, <1>7
    <3>2. c.back[i].rev \in Nat
      BY <1>0, <3>1, FrameFacts
    <3>3. d.back[i].rev <= c.users_rev
      BY <1>7, <2>3, <3>1
    <3>4. d.back[n].rev = c.users_rev + 1
      BY <1>3, <1>7
    <3>5. d.back[i].rev \in Nat
      BY <1>7, <3>1, <3>2
    <3> QED BY ONLY <1>0, <3>3, <3>4, <3>5
  <2>6. Changing(d)
    BY <1>1, <1>12, <2>1, <2>2, <2>4, <2>5 DEF Changing, Flies
  <2> QED BY <1>9, <1>10, <2>6 DEF LineInv, FilesAreKnown
<1> QED BY <1>11, <1>12

(* A request served: the file changes only for a command of the job. *)
LEMMA ServeFacts ==
  ASSUME NEW c, ConnInv(c), c.out = NoOutcome, c.wire # <<>>, NEW refuse \in BOOLEAN
  PROVE  LET d == Serve(c, refuse)
         IN  /\ Answered(c, d) /\ d.out = NoOutcome
             /\ LineInv(c) =>
                  /\ Told(c, d)
                  /\ d.file = c.file \/ \E m \in JobCmds(c) : m.op # ListUsers /\ d.file = Served(c.file, m)
<1> DEFINE m == Head(c.wire).command
           d == Serve(c, refuse)
<1>0. /\ c \in Conns /\ c.back \in Seq(Frames) /\ c.file \in Files /\ c.users_rev \in Nat /\ c.rev \in Nat
      /\ c.flying \in Flights /\ c.wire \in Seq(Requests)
  BY ConnFields DEF ConnInv, Core
<1>1. /\ m \in Commands /\ Head(c.wire).own \in BOOLEAN
      /\ d \in Conns /\ d.up = c.up /\ d.queue = c.queue /\ d.flying = c.flying
      /\ d.cache = c.cache /\ d.rev = c.rev /\ d.out = c.out /\ d.wire = Tail(c.wire)
      /\ c.users_rev <= d.users_rev
  BY ServeFields
<1>2. PICK code \in Nat :
        /\ \/ code = Busy /\ d.file = c.file
           \/ code = Code(c.file, m) /\ d.file = IF code = Done THEN Served(c.file, m) ELSE c.file
        /\ d.file # c.file => d.users_rev # c.users_rev
        /\ d.users_rev # c.users_rev => code = Done /\ m.op # ListUsers /\ d.users_rev = c.users_rev + 1
        /\ d.back = IF m.op = ListUsers THEN Append(c.back, Snapshot(d.file, d.users_rev))
                    ELSE IF ~(d.users_rev # c.users_rev) THEN Append(c.back, Resp(code, d.users_rev, Head(c.wire).own))
                    ELSE Append(Append(c.back, Resp(code, d.users_rev, Head(c.wire).own)),
                                Snapshot(d.file, d.users_rev))
  BY ServeFields
<1> HIDE DEF m, d
<1>3. d.file \in Files /\ d.users_rev \in Nat /\ d.back \in Seq(Frames)
  BY <1>1, ConnFields
<1>4. Alone(d) /\ JobCmds(d) = JobCmds(c)
  BY <1>1 DEF Alone, Flies, JobCmds, ConnInv, Core
<1>5. c.up
  BY DEF ConnInv, Core
<1>6. \A i \in DOMAIN d.back : d.back[i].rev <= d.users_rev
  <2>1. ASSUME NEW q \in Seq(Frames), \A i \in DOMAIN q : q[i].rev <= d.users_rev,
               NEW f \in Frames, f.rev = d.users_rev
        PROVE  Append(q, f) \in Seq(Frames) /\ \A i \in DOMAIN Append(q, f) : Append(q, f)[i].rev <= d.users_rev
    BY <1>3, <2>1, AppendFacts
  <2>2. \A i \in DOMAIN c.back : c.back[i].rev <= d.users_rev
    <3> SUFFICES ASSUME NEW i \in DOMAIN c.back PROVE c.back[i].rev <= d.users_rev
      OBVIOUS
    <3>1. c.back[i].rev <= c.users_rev /\ c.back[i].rev \in Nat
      BY <1>0, FrameFacts DEF ConnInv, Core
    <3> QED BY <1>0, <1>1, <1>3, <3>1
  <2> DEFINE f == Resp(code, d.users_rev, Head(c.wire).own)
             g == Snapshot(d.file, d.users_rev)
  <2>3. f \in Frames /\ f.rev = d.users_rev /\ g \in Frames /\ g.rev = d.users_rev
    BY <1>1, <1>3 DEF Resp, Snapshot, Frames
  <2>4. d.back \in {Append(c.back, g), Append(c.back, f), Append(Append(c.back, f), g)}
    BY <1>2
  <2> HIDE DEF f, g
  <2>5. /\ \A i \in DOMAIN Append(c.back, g) : Append(c.back, g)[i].rev <= d.users_rev
        /\ \A i \in DOMAIN Append(c.back, f) : Append(c.back, f)[i].rev <= d.users_rev
        /\ Append(c.back, f) \in Seq(Frames)
    BY <1>0, <2>1, <2>2, <2>3
  <2>6. \A i \in DOMAIN Append(Append(c.back, f), g) : Append(Append(c.back, f), g)[i].rev <= d.users_rev
    BY <2>1, <2>3, <2>5
  <2> QED BY <2>4, <2>5, <2>6
<1>7. ConnInv(d)
  <2>1. d.rev <= d.users_rev
    BY <1>0, <1>1, <1>3 DEF ConnInv, Core
  <2> QED BY <1>1, <1>4, <1>5, <1>6, <2>1 DEF ConnInv, Core, Flies
<1>8. Answered(c, d) /\ d.out = NoOutcome
  BY <1>1, <1>4, <1>7 DEF Answered
<1>9. ASSUME LineInv(c)
      PROVE  /\ LineInv(d)
             /\ d.file = c.file \/ \E n \in JobCmds(c) : n.op # ListUsers /\ d.file = Served(c.file, n)
  <2>1. CASE m.op = ListUsers
    <3>1. d.file = c.file /\ d.back = Append(c.back, Snapshot(c.file, d.users_rev))
      BY <1>2, <2>1
    <3> QED BY <1>1, <1>3, <1>9, <2>1, <3>1, ListServed DEF m
  <2>2. CASE m.op # ListUsers
    <3>1. /\ c.flying.await = "resp" /\ m = c.flying.command /\ Flies(c) /\ m.op # ListUsers
      BY <1>1, <1>9, <2>2, CommandOnLine DEF m
    <3>2. WellFormed(m)
      BY <3>1 DEF ConnInv, Core
    <3>3. /\ m.op = SetCost => Served(c.file, m) = c.file
          /\ Code(c.file, m) = Done => Took(Served(c.file, m), m)
          /\ Succeeded(m.op, Code(c.file, m)) /\ Code(c.file, m) # Done => Took(c.file, m)
      BY <1>0, <1>1, <3>2, ServedFacts
    <3>4. code = Done => Took(d.file, m) /\ d.file = Served(c.file, m)
      BY <1>2, <3>3 DEF Busy, Done
    <3>5. ~Succeeded(m.op, Busy)
      BY DEF Succeeded, Busy, Done, NoSuchAccount, NoSuchUser
    <3>6. CASE d.users_rev = c.users_rev
      <4>1. d.file = c.file /\ d.back = Append(c.back, Resp(code, d.users_rev, Head(c.wire).own))
        BY <1>2, <2>2, <3>6
      <4>2. Succeeded(m.op, code) => Took(c.file, m)
        BY <1>2, <3>3, <3>4, <3>5, <4>1
      <4> QED BY <1>1, <1>3, <1>9, <2>2, <3>1, <4>1, <4>2, AnswerServed DEF m
    <3>7. CASE d.users_rev # c.users_rev
      <4>1. /\ code = Done /\ d.users_rev = c.users_rev + 1
            /\ d.back = Append(Append(c.back, Resp(Done, d.users_rev, Head(c.wire).own)),
                               Snapshot(d.file, d.users_rev))
        BY <1>2, <2>2, <3>7
      <4>2. Took(d.file, m) /\ d.file = Served(c.file, m)
        BY <3>4, <4>1
      <4>3. m.by = "job" \/ d.file = c.file
        BY <1>1, <3>2, <3>3, <4>2, CommandFacts DEF WellFormed
      <4>4. LineInv(d)
        BY <1>1, <1>9, <2>2, <3>1, <4>1, <4>2, <4>3, ChangeServed DEF m
      <4>5. m.by = "job" => m \in JobCmds(c)
        BY <3>1, JobCmdsMember
      <4> QED BY <2>2, <4>2, <4>3, <4>4, <4>5
    <3> QED BY <3>6, <3>7
  <2> QED BY <2>1, <2>2
<1> QED BY <1>8, <1>9 DEF d, Told

-----------------------------------------------------------------------------
(* The plan. *)

(* One operation for each account. *)
LEMMA EachFacts ==
  ASSUME NEW op \in CreateUser..RemoveAccount, NEW S \in SUBSET Accounts
  PROVE  /\ Each(op, S) \in Seq(PlannedOps)
         /\ \A i \in DOMAIN Each(op, S) :
              Each(op, S)[i].op = op /\ \E a \in S : Each(op, S)[i].accounts = {a}
         /\ \A a \in S : \E i \in DOMAIN Each(op, S) :
              Each(op, S)[i].op = op /\ Each(op, S)[i].accounts = {a}
<1> DEFINE n == Cardinality(S)
           f == SetToSeq(S)
           e == [i \in 1..n |-> [op |-> op, accounts |-> {f[i]}]]
<1>1. IsFiniteSet(S) /\ n \in Nat
  BY AccountsAssumption, FS_Subset, FS_CardinalityType
<1>2. ExistsBijection(1..n, S)
  BY <1>1, FS_CardinalityType
<1>3. \E g \in [1..n -> S] : IsInjective(g)
  BY <1>2 DEF ExistsBijection, Bijection, Injection
<1>4. f \in [1..n -> S] /\ IsInjective(f)
  BY <1>3 DEF SetToSeq
<1> HIDE DEF f
<1>5. f \in Injection(1..n, S)
  BY <1>4 DEF Injection
<1>6. IsFiniteSet(1..n) /\ Cardinality(1..n) = n
  BY <1>1, FS_Interval
<1> HIDE DEF n
<1>7. f \in Surjection(1..n, S)
  BY <1>1, <1>5, <1>6, FS_Injection DEF n
<1>8. \A a \in S : \E i \in 1..n : f[i] = a
  BY <1>7 DEF Surjection
<1>9. Each(op, S) = e
  BY DEF Each, e, n, f
<1>10. \A i \in 1..n : [op |-> op, accounts |-> {f[i]}] \in PlannedOps
  BY <1>4 DEF PlannedOps
<1>11. e \in Seq(PlannedOps)
  BY <1>1, <1>10, IsASeq
<1>12. DOMAIN e = 1..n /\ \A i \in 1..n : e[i].op = op /\ e[i].accounts = {f[i]} /\ f[i] \in S
  BY <1>4
<1> HIDE DEF e
<1> QED BY <1>8, <1>9, <1>11, <1>12

LEMMA OpNumbers ==
  /\ CreateUser = 1 /\ RemoveUser = 2 /\ PutAccount = 3 /\ RemoveAccount = 4
  /\ ListUsers = 5 /\ SetCost = 6
BY DEF CreateUser, RemoveUser, PutAccount, RemoveAccount, ListUsers, SetCost

(* What is written is active, one account each. *)
LEMMA WritesFacts ==
  ASSUME NEW s, NEW file
  PROVE  /\ Writes(s, file) \in Seq(PlannedOps)
         /\ \A i \in DOMAIN Writes(s, file) :
              /\ Writes(s, file)[i].op \in Writing
              /\ \E a \in Active(s) : Writes(s, file)[i].accounts = {a}
         /\ \A a \in Active(s) : file[a] = intent.value[a] \/
              \E i \in DOMAIN Writes(s, file) :
                Writes(s, file)[i].op \in Writing /\ a \in Writes(s, file)[i].accounts
<1> DEFINE S == {a \in Active(s) : file[a] # intent.value[a]}
           w == Each(PutAccount, S)
           v == <<[w[1] EXCEPT !.op = CreateUser]>> \o Tail(w)
<1>1. S \in SUBSET Accounts /\ PutAccount \in CreateUser..RemoveAccount
  BY OpNumbers DEF Active
<1>2. /\ w \in Seq(PlannedOps)
      /\ \A i \in DOMAIN w : w[i].op = PutAccount /\ \E a \in S : w[i].accounts = {a}
      /\ \A a \in S : \E i \in DOMAIN w : w[i].op = PutAccount /\ w[i].accounts = {a}
  BY <1>1, EachFacts, ZenonT(60)
<1> HIDE DEF w
<1>3. Writes(s, file) = IF UserPresent(file) \/ w = <<>> THEN w ELSE v
  BY DEF Writes, w
<1>4. ASSUME w # <<>>
      PROVE  /\ v \in Seq(PlannedOps) /\ DOMAIN v = DOMAIN w
             /\ \A i \in DOMAIN w : v[i].op \in Writing /\ v[i].accounts = w[i].accounts
  <2> DEFINE h == [w[1] EXCEPT !.op = CreateUser]
  <2>1. 1 \in DOMAIN w /\ w[1] \in PlannedOps
    BY <1>2, <1>4
  <2>2. h \in PlannedOps /\ h.op = CreateUser /\ h.accounts = w[1].accounts
    BY <2>1, OpNumbers DEF PlannedOps
  <2> HIDE DEF h
  <2>3. /\ <<h>> \o Tail(w) \in Seq(PlannedOps) /\ DOMAIN (<<h>> \o Tail(w)) = DOMAIN w
        /\ (<<h>> \o Tail(w))[1] = h
        /\ \A i \in DOMAIN w : i # 1 => (<<h>> \o Tail(w))[i] = w[i]
    BY <1>2, <1>4, <2>2, SMTT(30)
  <2> QED BY <1>2, <2>2, <2>3 DEF h, Writing
<1>5. S \subseteq Active(s) /\ \A a \in Active(s) : file[a] = intent.value[a] \/ a \in S
  OBVIOUS
<1> HIDE DEF v, S
<1> DEFINE Good(q) ==
      /\ q \in Seq(PlannedOps)
      /\ \A i \in DOMAIN q : q[i].op \in Writing /\ \E a \in Active(s) : q[i].accounts = {a}
      /\ \A a \in Active(s) : file[a] = intent.value[a] \/
           \E i \in DOMAIN q : q[i].op \in Writing /\ a \in q[i].accounts
<1>6. Good(w)
  <2>1. \A i \in DOMAIN w : w[i].op \in Writing /\ \E a \in Active(s) : w[i].accounts = {a}
    BY <1>2, <1>5 DEF Writing
  <2>2. ASSUME NEW a \in Active(s), file[a] # intent.value[a]
        PROVE  \E i \in DOMAIN w : w[i].op \in Writing /\ a \in w[i].accounts
    <3>1. PICK i \in DOMAIN w : w[i].accounts = {a}
      BY <1>2, <1>5, <2>2
    <3> QED BY <2>1, <3>1
  <2> QED BY <1>2, <2>1, <2>2
<1>7. ASSUME w # <<>> PROVE Good(v)
  <2>1. \A i \in DOMAIN v : v[i].op \in Writing /\ \E a \in Active(s) : v[i].accounts = {a}
    BY <1>4, <1>6, <1>7
  <2>2. \A a \in Active(s) : file[a] = intent.value[a] \/
          \E i \in DOMAIN v : v[i].op \in Writing /\ a \in v[i].accounts
    <3> SUFFICES ASSUME NEW a \in Active(s), file[a] # intent.value[a]
                 PROVE  \E i \in DOMAIN v : v[i].op \in Writing /\ a \in v[i].accounts
      OBVIOUS
    <3>1. PICK i \in DOMAIN w : a \in w[i].accounts
      BY <1>6
    <3>2. i \in DOMAIN v /\ v[i].op \in Writing /\ v[i].accounts = w[i].accounts
      BY <1>4, <1>7
    <3> QED BY <3>1, <3>2
  <2> QED BY <1>4, <1>7, <2>1, <2>2
<1>8. Good(Writes(s, file))
  <2>1. CASE UserPresent(file) \/ w = <<>>
    BY <1>3, <1>6, <2>1, Zenon
  <2>2. CASE ~(UserPresent(file) \/ w = <<>>)
    BY <1>3, <1>7, <2>2, Zenon
  <2> QED BY <2>1, <2>2
<1> QED BY <1>8

(* What is removed is removing, and the user only with nothing left. *)
LEMMA RemovalsFacts ==
  ASSUME NEW s, NEW file
  PROVE  /\ Removals(s, file) \in Seq(PlannedOps)
         /\ \A i \in DOMAIN Removals(s, file) :
              Removals(s, file)[i].op \notin Writing /\ OpFits(s, Removals(s, file)[i], file)
         /\ \A a \in Removing(s) : a \notin InFile(file) \/
              \E i \in DOMAIN Removals(s, file) :
                Removals(s, file)[i].op \notin Writing /\ a \in Removals(s, file)[i].accounts
<1> DEFINE gone == Removing(s) \intersect InFile(file)
           all == <<[op |-> RemoveUser, accounts |-> gone]>>
           e == Each(RemoveAccount, gone)
<1>1. gone \in SUBSET Accounts /\ RemoveAccount \in CreateUser..RemoveAccount
  BY OpNumbers DEF Removing
<1>2. RemoveUser \notin Writing /\ RemoveAccount \notin Writing /\ RemoveUser # RemoveAccount
      /\ RemoveUser \in CreateUser..RemoveAccount
  BY OpNumbers DEF Writing
<1>3. CASE gone # {} /\ Active(s) = {} /\ InFile(file) \subseteq Removing(s)
  <2>1. Removals(s, file) = all
    BY <1>3 DEF Removals
  <2>2. [op |-> RemoveUser, accounts |-> gone] \in PlannedOps
    BY <1>1, <1>2, <1>3 DEF PlannedOps
  <2>3. all \in Seq(PlannedOps) /\ DOMAIN all = {1} /\ all[1].op = RemoveUser /\ all[1].accounts = gone
    BY <2>2
  <2> HIDE DEF all, gone
  <2>4. OpFits(s, all[1], file)
    BY <1>2, <1>3, <2>3 DEF OpFits, gone
  <2> QED BY <1>2, <2>1, <2>3, <2>4 DEF gone
<1>4. CASE ~(gone # {} /\ Active(s) = {} /\ InFile(file) \subseteq Removing(s))
  <2>1. Removals(s, file) = e
    BY <1>4 DEF Removals
  <2>2. /\ e \in Seq(PlannedOps)
        /\ \A i \in DOMAIN e : e[i].op = RemoveAccount /\ \E a \in gone : e[i].accounts = {a}
        /\ \A a \in gone : \E i \in DOMAIN e : e[i].op = RemoveAccount /\ e[i].accounts = {a}
    BY <1>1, EachFacts
  <2> HIDE DEF e
  <2>3. \A i \in DOMAIN e : e[i].op \notin Writing /\ OpFits(s, e[i], file)
    BY <1>2, <2>2 DEF OpFits
  <2> QED BY <1>2, <2>1, <2>2, <2>3, ZenonT(60)
<1> QED BY <1>3, <1>4

(* The plan covers what the file lacks. *)
LEMMA PlanFacts ==
  ASSUME NEW s, NEW file, NEW j, j.ops = Plan(s, file).ops
  PROVE  /\ Plan(s, file).ops \in Seq(PlannedOps) /\ Plan(s, file).settled \in SUBSET Accounts
         /\ \A i \in DOMAIN j.ops : OpFits(s, j.ops[i], file)
         /\ Plan(s, file).settled \subseteq Removing(s)
         /\ \A a \in Plan(s, file).settled : file[a] = Absent
         /\ Covers(s, j, file)
<1> DEFINE w == Writes(s, file)
           g == Removals(s, file)
<1>1. /\ w \in Seq(PlannedOps)
      /\ \A i \in DOMAIN w : w[i].op \in Writing /\ \E a \in Active(s) : w[i].accounts = {a}
      /\ \A a \in Active(s) : file[a] = intent.value[a] \/
           \E i \in DOMAIN w : w[i].op \in Writing /\ a \in w[i].accounts
  BY WritesFacts
<1>2. /\ g \in Seq(PlannedOps)
      /\ \A i \in DOMAIN g : g[i].op \notin Writing /\ OpFits(s, g[i], file)
      /\ \A a \in Removing(s) : a \notin InFile(file) \/
           \E i \in DOMAIN g : g[i].op \notin Writing /\ a \in g[i].accounts
  BY RemovalsFacts
<1>3. j.ops = w \o g /\ Plan(s, file).ops = w \o g /\ Plan(s, file).settled = Removing(s) \ InFile(file)
  BY DEF Plan
<1> HIDE DEF w, g
<1>4. w \o g \in Seq(PlannedOps)
  BY <1>1, <1>2
<1>5. /\ \A i \in DOMAIN w : i \in DOMAIN (w \o g) /\ (w \o g)[i] = w[i]
      /\ \A i \in DOMAIN g : i + Len(w) \in DOMAIN (w \o g) /\ (w \o g)[i + Len(w)] = g[i]
      /\ \A k \in DOMAIN (w \o g) :
           k \in DOMAIN w \/ (k - Len(w) \in DOMAIN g /\ (w \o g)[k] = g[k - Len(w)])
  BY <1>1, <1>2
<1>6. \A i \in DOMAIN w : OpFits(s, w[i], file)
  BY <1>1, OpNumbers DEF OpFits, Writing
<1>7. \A i \in DOMAIN j.ops : OpFits(s, j.ops[i], file)
  BY <1>2, <1>3, <1>5, <1>6
<1>8. \A a \in Removing(s) : a \in Accounts /\ (a \notin InFile(file) => file[a] = Absent)
  BY DEF Removing, InFile
<1>9. Covers(s, j, file)
  <2>1. ASSUME NEW a \in Active(s), file[a] # intent.value[a]
        PROVE  \E i \in DOMAIN j.ops : j.ops[i].op \in Writing /\ a \in j.ops[i].accounts
    <3>1. PICK i \in DOMAIN w : w[i].op \in Writing /\ a \in w[i].accounts
      BY <1>1, <2>1
    <3> QED BY <1>3, <1>5, <3>1
  <2>2. ASSUME NEW a \in Removing(s), file[a] # Absent
        PROVE  \E i \in DOMAIN j.ops : j.ops[i].op \notin Writing /\ a \in j.ops[i].accounts
    <3>1. PICK i \in DOMAIN g : g[i].op \notin Writing /\ a \in g[i].accounts
      BY <1>2, <1>8, <2>2
    <3> QED BY <1>3, <1>5, <3>1, ZenonT(60)
  <2> QED BY <2>1, <2>2 DEF Covers
<1> QED BY <1>3, <1>4, <1>7, <1>8, <1>9

-----------------------------------------------------------------------------
(* The operations of a job. *)
Values_read == intent.value \in [Accounts -> Values]

LEMMA CommandOfFacts ==
  ASSUME NEW op \in PlannedOps, Values_read
  PROVE  LET m == CommandOf(op)
         IN  /\ m \in Commands /\ m.by = "job" /\ WellFormed(m) /\ m.op = op.op /\ m.op # ListUsers
             /\ \A a : op.op # RemoveUser /\ op.accounts = {a} =>
                  m.account = a /\ m.value = IF op.op = RemoveAccount THEN Absent ELSE intent.value[a]
<1>1. op.op \in 1..4 /\ op.accounts \subseteq Accounts /\ op.accounts # {}
  BY OpNumbers DEF PlannedOps
<1>2. CASE op.op = RemoveUser
  BY <1>1, <1>2, OpNumbers DEF CommandOf, Command, Commands, WellFormed
<1>3. CASE op.op # RemoveUser
  <2> DEFINE a == CHOOSE a \in op.accounts : TRUE
             v == IF op.op = RemoveAccount THEN Absent ELSE intent.value[a]
  <2>1. a \in op.accounts /\ \A b : op.accounts = {b} => a = b
    BY <1>1
  <2>2. CommandOf(op) = Command(op.op, a, v)
    BY <1>3 DEF CommandOf
  <2> HIDE DEF a
  <2>3. a \in Accounts /\ v \in Values \cup {Absent}
    BY <1>1, <2>1 DEF Values_read
  <2> HIDE DEF v
  <2>4. Command(op.op, a, v) = [op |-> op.op, account |-> a, value |-> v, by |-> "job"]
    BY DEF Command
  <2>5. CommandOf(op) \in Commands
    BY <1>1, <2>2, <2>3, <2>4, OpNumbers DEF Commands
  <2>6. /\ CommandOf(op).op = op.op /\ CommandOf(op).by = "job"
        /\ CommandOf(op).account = a /\ CommandOf(op).value = v
    BY <2>2, <2>4
  <2>7. WellFormed(CommandOf(op))
    BY <2>3, <2>6 DEF WellFormed
  <2> QED BY <1>1, <2>1, <2>5, <2>6, <2>7, OpNumbers DEF v
<1> QED BY <1>2, <1>3

LEMMA ServedCases ==
  ASSUME NEW file, NEW m
  PROVE  /\ m.op \in {CreateUser, PutAccount} => Served(file, m) = [file EXCEPT ![m.account] = m.value]
         /\ m.op = RemoveAccount => Served(file, m) = [file EXCEPT ![m.account] = Absent]
         /\ m.op = RemoveUser => Served(file, m) = Nobody
<1> USE DEF CreateUser, PutAccount, RemoveAccount, RemoveUser
<1>1. CASE m.op \in {CreateUser, PutAccount}
  <2>1. Served(file, m) = [file EXCEPT ![m.account] = m.value]
    BY <1>1 DEF Served
  <2> QED BY <1>1, <2>1, OpNumbers
<1>2. CASE m.op = RemoveAccount
  <2>1. Served(file, m) = [file EXCEPT ![m.account] = Absent]
    BY <1>2 DEF Served
  <2> QED BY <1>2, <2>1, OpNumbers
<1>3. CASE m.op = RemoveUser
  <2>1. Served(file, m) = Nobody
    BY <1>3 DEF Served
  <2> QED BY <1>3, <2>1, OpNumbers
<1> QED BY <1>1, <1>2, <1>3

(* What is left to do on a file, and what has been done. *)
Pending(s, j, file) ==
  /\ \A i \in DOMAIN j.ops : OpFits(s, j.ops[i], file)
  /\ j.removed \subseteq Removing(s) /\ \A a \in j.removed : file[a] = Absent
  /\ Covers(s, j, file)

LEMMA RowKinds ==
  ASSUME NEW s
  PROVE  /\ Active(s) \subseteq Accounts /\ Removing(s) \subseteq Accounts
         /\ Active(s) \intersect Removing(s) = {}
         /\ \A a \in Accounts : RowsOf(s)[a] = "none" => a \notin Active(s) /\ a \notin Removing(s)
BY DEF Active, Removing

(* A command of the plan that is carried out leaves the rest of the plan,  *)
(* and what no row names.                                                  *)
LEMMA PendingServed ==
  ASSUME NEW s, NEW j \in Jobs, j.ops # <<>>, NEW file \in Files, Values_read, Pending(s, j, file)
  PROVE  LET f == Served(file, CommandOf(Head(j.ops)))
         IN  Pending(s, j, f) /\ \A a \in Accounts : RowsOf(s)[a] = "none" => f[a] = file[a]
<1> DEFINE op == Head(j.ops)
           m == CommandOf(op)
           f == Served(file, m)
<1>1. j.ops \in Seq(PlannedOps) /\ op \in PlannedOps /\ op = j.ops[1] /\ 1 \in DOMAIN j.ops
  BY TailFacts DEF Jobs
<1>2. /\ m.op = op.op /\ op.op \in 1..4
      /\ \A a : op.op # RemoveUser /\ op.accounts = {a} =>
           m.account = a /\ m.value = IF op.op = RemoveAccount THEN Absent ELSE intent.value[a]
  BY <1>1, CommandOfFacts, OpNumbers DEF PlannedOps
<1>3. OpFits(s, op, file)
  BY <1>1 DEF Pending
<1>4. /\ Active(s) \subseteq Accounts /\ Removing(s) \subseteq Accounts
      /\ Active(s) \intersect Removing(s) = {}
      /\ \A a \in Accounts : RowsOf(s)[a] = "none" => a \notin Active(s) /\ a \notin Removing(s)
  BY RowKinds
<1> HIDE DEF op, m
<1>5. CASE op.op \in Writing
  <2>1. PICK a \in Active(s) : op.accounts = {a}
    BY <1>3, <1>5 DEF OpFits
  <2>2. f = [file EXCEPT ![a] = intent.value[a]]
    <3>1. m.op \in {CreateUser, PutAccount} /\ m.account = a /\ m.value = intent.value[a]
      BY <1>2, <1>5, <2>1, OpNumbers DEF Writing
    <3> QED BY <3>1, ServedCases
  <2> HIDE DEF f
  <2>3. \A b \in Accounts : f[b] = IF b = a THEN intent.value[a] ELSE file[b]
    BY <1>4, <2>1, <2>2 DEF Files
  <2>4. \A i \in DOMAIN j.ops : OpFits(s, j.ops[i], f)
    BY <2>1 DEF Pending, OpFits
  <2>5. \A b \in j.removed : f[b] = Absent
    BY <1>4, <2>1, <2>3 DEF Pending
  <2>6. Covers(s, j, f)
    BY <1>4, <2>1, <2>3 DEF Pending, Covers
  <2> QED BY <1>4, <2>1, <2>3, <2>4, <2>5, <2>6 DEF Pending, f, m, op
<1>6. CASE op.op = RemoveAccount
  <2>1. PICK a \in Removing(s) : op.accounts = {a}
    BY <1>3, <1>6 DEF OpFits
  <2>2. f = [file EXCEPT ![a] = Absent]
    <3>1. op.op # RemoveUser /\ op.accounts = {a}
      BY <1>6, <2>1, OpNumbers
    <3>2. m.op = RemoveAccount /\ m.account = a
      BY <1>2, <1>6, <3>1, Zenon
    <3> QED BY <3>2, ServedCases
  <2> HIDE DEF f
  <2>3. \A b \in Accounts : f[b] = IF b = a THEN Absent ELSE file[b]
    BY <1>4, <2>1, <2>2 DEF Files
  <2>4. \A i \in DOMAIN j.ops : OpFits(s, j.ops[i], f)
    <3>1. InFile(f) \subseteq InFile(file)
      BY <2>3 DEF InFile
    <3> HIDE DEF InFile
    <3> QED BY <3>1 DEF Pending, OpFits
  <2>5. \A b \in j.removed : f[b] = Absent
    BY <1>4, <2>3 DEF Pending
  <2>6. Covers(s, j, f)
    BY <1>4, <2>1, <2>3 DEF Pending, Covers
  <2> QED BY <1>4, <2>1, <2>3, <2>4, <2>5, <2>6 DEF Pending, f, m, op
<1>7. CASE op.op = RemoveUser
  <2>1. op.accounts \subseteq Removing(s) /\ Active(s) = {} /\ InFile(file) \subseteq Removing(s)
    BY <1>3, <1>7 DEF OpFits
  <2>2. f = Nobody
    BY <1>2, <1>7, ServedCases
  <2> HIDE DEF f
  <2>3. \A b \in Accounts : f[b] = Absent /\ (b \notin Removing(s) => file[b] = Absent)
    BY <2>1, <2>2 DEF Nobody, InFile
  <2>4. \A i \in DOMAIN j.ops : OpFits(s, j.ops[i], f)
    <3>1. InFile(f) = {}
      BY <2>3 DEF InFile
    <3> HIDE DEF InFile
    <3> QED BY <3>1 DEF Pending, OpFits
  <2>5. \A b \in j.removed : f[b] = Absent
    BY <1>4, <2>3 DEF Pending
  <2>6. Covers(s, j, f)
    BY <1>4, <2>1, <2>3 DEF Covers
  <2> QED BY <1>4, <2>3, <2>4, <2>5, <2>6 DEF Pending, f, m, op
<1> QED BY <1>2, <1>5, <1>6, <1>7, OpNumbers DEF Writing

(* A command of the plan that was carried out is done. *)
LEMMA PendingDone ==
  ASSUME NEW s, NEW j \in Jobs, j.ops # <<>>, NEW file \in Files, Values_read, Pending(s, j, file),
         Took(file, CommandOf(Head(j.ops))), NEW k, k.ops = Tail(j.ops),
         k.removed = j.removed \union
           IF Head(j.ops).op \in {RemoveAccount, RemoveUser} THEN Head(j.ops).accounts ELSE {}
  PROVE  Pending(s, k, file)
<1> DEFINE op == Head(j.ops)
           m == CommandOf(op)
<1>1. /\ j.ops \in Seq(PlannedOps) /\ op \in PlannedOps /\ op = j.ops[1] /\ 1 \in DOMAIN j.ops
      /\ \A i \in DOMAIN k.ops : i + 1 \in DOMAIN j.ops /\ k.ops[i] = j.ops[i + 1]
      /\ \A i \in DOMAIN j.ops : i # 1 => i - 1 \in DOMAIN k.ops /\ k.ops[i - 1] = j.ops[i]
  BY TailFacts DEF Jobs
<1>2. /\ m.op = op.op /\ op.op \in 1..4
      /\ \A a : op.op # RemoveUser /\ op.accounts = {a} =>
           m.account = a /\ m.value = IF op.op = RemoveAccount THEN Absent ELSE intent.value[a]
  BY <1>1, CommandOfFacts, OpNumbers DEF PlannedOps
<1>3. OpFits(s, op, file)
  BY <1>1 DEF Pending
<1>4. Active(s) \subseteq Accounts /\ Removing(s) \subseteq Accounts
  BY RowKinds
<1>5. Took(file, m)
  OBVIOUS
<1> HIDE DEF m, op
<1>6. \A a \in op.accounts : op.op \in Writing => file[a] = intent.value[a]
  BY <1>2, <1>3, <1>5, OpNumbers DEF OpFits, Took, Writing
<1>7. \A a \in op.accounts : op.op \notin Writing => a \in Removing(s) /\ file[a] = Absent
  <2>1. CASE op.op = RemoveAccount
    <3>1. PICK a \in Removing(s) : op.accounts = {a}
      BY <1>3, <2>1 DEF OpFits
    <3>2. m.account = a /\ m.op = RemoveAccount
      <4>1. op.op # RemoveUser
        BY <2>1, OpNumbers
      <4> QED BY ONLY <1>2, <2>1, <3>1, <4>1, Zenon
    <3>3. file[a] = Absent
      BY <1>5, <3>2 DEF Took
    <3> QED BY <3>1, <3>3
  <2>2. CASE op.op = RemoveUser
    BY <1>2, <1>3, <1>4, <1>5, <2>2, OpNumbers DEF OpFits, Took, Nobody
  <2> QED BY <1>2, <2>1, <2>2, OpNumbers DEF Writing
<1>8. \A i \in DOMAIN k.ops : OpFits(s, k.ops[i], file)
  BY <1>1 DEF Pending
<1>9. k.removed \subseteq Removing(s) /\ \A a \in k.removed : file[a] = Absent
  <2>1. op.op \in {RemoveAccount, RemoveUser} => op.op \notin Writing
    BY OpNumbers DEF Writing
  <2> QED BY <1>7, <2>1 DEF Pending, op
<1>10. Covers(s, k, file)
  <2>1. ASSUME NEW a \in Active(s), file[a] # intent.value[a]
        PROVE  \E i \in DOMAIN k.ops : k.ops[i].op \in Writing /\ a \in k.ops[i].accounts
    <3>1. PICK i \in DOMAIN j.ops : j.ops[i].op \in Writing /\ a \in j.ops[i].accounts
      BY <2>1 DEF Pending, Covers
    <3>2. i # 1
      BY <1>1, <1>6, <2>1, <3>1
    <3> QED BY <1>1, <3>1, <3>2
  <2>2. ASSUME NEW a \in Removing(s), file[a] # Absent
        PROVE  \E i \in DOMAIN k.ops : k.ops[i].op \notin Writing /\ a \in k.ops[i].accounts
    <3>1. PICK i \in DOMAIN j.ops : j.ops[i].op \notin Writing /\ a \in j.ops[i].accounts
      BY <2>2 DEF Pending, Covers
    <3>2. i # 1
      BY <1>1, <1>7, <2>2, <3>1
    <3> QED BY <1>1, <3>1, <3>2
  <2> QED BY <2>1, <2>2 DEF Covers
<1> QED BY <1>8, <1>9, <1>10 DEF Pending

-----------------------------------------------------------------------------
(* The job between two awaits. *)
Ready(s, x, late) ==
  /\ x \in [conn : Conns, job : Jobs]
  /\ ConnInv(x.conn) /\ x.conn.out = NoOutcome /\ JobCmds(x.conn) = {}
  /\ x.job.result = "none"
  /\ late \/ (LineInv(x.conn) /\ Pending(s, x.job, x.conn.file))

LEMMA JobFields ==
  ASSUME NEW j \in Jobs
  PROVE  /\ j.phase \in {"off", "refresh", "password", "op", "settle", "done"}
         /\ j.ops \in Seq(PlannedOps) /\ j.removed \in SUBSET Accounts /\ j.result \in Verdicts
BY DEF Jobs

LEMMA ConcludeFields ==
  ASSUME NEW x \in [conn : Conns, job : Jobs], NEW r, NEW result \in Verdicts
  PROVE  LET y == Conclude(x, r, result)
         IN  /\ y \in [conn : Conns, job : Jobs] /\ y.conn = x.conn
             /\ y.job.result = result /\ y.job.ops = <<>> /\ y.job.removed = x.job.removed
             /\ y.job.phase \in {"settle", "done"}
             /\ y.job.phase = "settle" /\ Deleting(r) => result = "ok"
<1> DEFINE y == Conclude(x, r, result)
           q == IF IF Deleting(r) THEN result = "ok" ELSE x.job.removed # {} THEN "settle" ELSE "done"
           k == [x.job EXCEPT !.result = result, !.ops = <<>>, !.phase = q]
<1>1. y = [x EXCEPT !.job.result = result, !.job.ops = <<>>, !.job.phase = q]
  BY DEF Conclude
<1>2. q \in {"settle", "done"} /\ (q = "settle" /\ Deleting(r) => result = "ok")
  OBVIOUS
<1> HIDE DEF q, y
<1>3. x.job \in Jobs /\ x.conn \in Conns
  OBVIOUS
<1>4. y = [x EXCEPT !.job = k]
  BY ONLY <1>1, x \in [conn : Conns, job : Jobs]
<1>5. <<>> \in Seq(PlannedOps)
  OBVIOUS
<1>6. k \in Jobs /\ k.result = result /\ k.ops = <<>> /\ k.removed = x.job.removed /\ k.phase = q
  BY <1>2, <1>3, <1>5 DEF Jobs
<1> HIDE DEF k
<1>7. y \in [conn : Conns, job : Jobs] /\ y.conn = x.conn /\ y.job = k
  BY <1>4, <1>6
<1> QED BY <1>2, <1>6, <1>7 DEF y

LEMMA VerdictNames == "ok" \in Verdicts /\ "failed" \in Verdicts /\ "offline" \in Verdicts
                      /\ "timeout" \in Verdicts /\ "none" \in Verdicts
BY DEF Verdicts

(* The job is over, unless a write of the database is left. *)
LEMMA ConcludeFacts ==
  ASSUME NEW s, NEW x, NEW late, Ready(s, x, late), NEW r, NEW result \in Verdicts \ {"none"},
         result = "ok" => x.job.ops = <<>>
  PROVE  LET y == Conclude(x, r, result)
         IN  ServerInv(s, r, y, late) /\ y.job.phase # "off" /\ y.conn.file = x.conn.file
<1> DEFINE y == Conclude(x, r, result)
<1>1. /\ y \in [conn : Conns, job : Jobs] /\ y.conn = x.conn
      /\ y.job.result = result /\ y.job.ops = <<>> /\ y.job.removed = x.job.removed
      /\ y.job.phase \in {"settle", "done"}
      /\ y.job.phase = "settle" /\ Deleting(r) => result = "ok"
  BY ConcludeFields DEF Ready
<1> HIDE DEF y
<1>2. JobShape(y.job, r)
  BY <1>1 DEF JobShape
<1>3. Awaited(y.job) = {}
  BY <1>1 DEF Awaited
<1>4. ASSUME Pending(s, x.job, x.conn.file) PROVE Worked(s, y.job, y.conn.file)
  BY <1>1, <1>4 DEF Pending, Worked, Covers
<1> QED BY <1>1, <1>2, <1>3, <1>4 DEF ServerInv, Ready, y

LEMMA CommandSent ==
  ASSUME NEW c, ConnInv(c), c.out = NoOutcome, NEW m \in Commands, WellFormed(m), m.by = "job",
         JobCmds(c) = {}
  PROVE  LET d == Issue(c, m)
         IN  IF c.up THEN /\ ConnInv(d) /\ d.out = NoOutcome /\ JobCmds(d) = {m} /\ d.file = c.file
                          /\ d.cache = c.cache /\ (LineInv(c) => LineInv(d))
             ELSE d.out = Offline
<1>1. CASE c.up
  <2> DEFINE d == Issue(c, m)
  <2>1. /\ ConnInv(d) /\ d.out = c.out /\ d.file = c.file /\ d.cache = c.cache
        /\ JobCmds(d) = JobCmds(c) \cup IF m.by = "job" THEN {m} ELSE {}
        /\ LineInv(c) => LineInv(d)
    BY <1>1, IssueFacts
  <2> HIDE DEF d
  <2> QED BY <1>1, <2>1 DEF d
<1>2. CASE ~c.up
  <2>1. c \in Conns /\ Offline \in Outcomes
    BY OutcomeFacts DEF ConnInv, Core
  <2>2. Resolve(c, m, Offline).out = Offline
    BY <2>1, ResolveFacts
  <2>3. Issue(c, m) = Resolve(c, m, Offline)
    BY <1>2 DEF Issue
  <2> QED BY <1>2, <2>2, <2>3
<1> QED BY <1>1, <1>2

LEMMA PhaseFields ==
  ASSUME NEW x \in [conn : Conns, job : Jobs],
         NEW p \in {"off", "refresh", "password", "op", "settle", "done"}
  PROVE  LET y == [x EXCEPT !.job.phase = p]
         IN  /\ y \in [conn : Conns, job : Jobs] /\ y.conn = x.conn
             /\ y.job.phase = p /\ y.job.ops = x.job.ops /\ y.job.removed = x.job.removed
             /\ y.job.result = x.job.result
<1> DEFINE y == [x EXCEPT !.job.phase = p]
           k == [x.job EXCEPT !.phase = p]
<1>1. x.job \in Jobs
  OBVIOUS
<1>2. k \in Jobs /\ k.phase = p /\ k.ops = x.job.ops /\ k.removed = x.job.removed /\ k.result = x.job.result
  BY <1>1 DEF Jobs
<1>3. y = [x EXCEPT !.job = k]
  OBVIOUS
<1> HIDE DEF k, y
<1>4. y \in [conn : Conns, job : Jobs] /\ y.conn = x.conn /\ y.job = k
  BY <1>2, <1>3
<1> QED BY <1>2, <1>4 DEF y

LEMMA ConnFieldOfPair ==
  ASSUME NEW x \in [conn : Conns, job : Jobs], NEW c \in Conns
  PROVE  LET y == [x EXCEPT !.conn = c]
         IN  y \in [conn : Conns, job : Jobs] /\ y.conn = c /\ y.job = x.job
OBVIOUS

(* The next operation, if any. *)
LEMMA ProceedFacts ==
  ASSUME NEW s, NEW x, NEW late, Ready(s, x, late), Values_read, NEW r, NEW password
  PROVE  LET y == Proceed(x, r, password)
         IN  ServerInv(s, r, y, late) /\ y.job.phase # "off" /\ y.conn.file = x.conn.file
<1> DEFINE y == Proceed(x, r, password)
           op == Head(x.job.ops)
           m == CommandOf(op)
           c == Issue(x.conn, m)
           Good(z) == ServerInv(s, r, z, late) /\ z.job.phase # "off" /\ z.conn.file = x.conn.file
<1>0. /\ x \in [conn : Conns, job : Jobs] /\ x.conn \in Conns /\ x.job \in Jobs
      /\ x.job.ops \in Seq(PlannedOps) /\ x.job.result = "none"
      /\ ConnInv(x.conn) /\ x.conn.out = NoOutcome /\ JobCmds(x.conn) = {}
  BY JobFields DEF Ready
<1>1. CASE x.job.ops = <<>>
  <2>1. y = Conclude(x, r, "ok")
    BY <1>1 DEF Proceed
  <2>2. "ok" \in Verdicts \ {"none"}
    BY VerdictNames
  <2> QED BY <1>1, <2>1, <2>2, ConcludeFacts
<1>2. CASE x.job.ops # <<>>
  <2>0. op \in PlannedOps /\ x.job.ops # <<>>
    BY <1>0, <1>2, TailFacts
  <2>1. m \in Commands /\ m.by = "job" /\ WellFormed(m)
    BY <2>0, CommandOfFacts
  <2>2. y = IF op.op = CreateUser /\ password = "unread" THEN [x EXCEPT !.job.phase = "password"]
            ELSE IF op.op = CreateUser /\ password = "bad" THEN Conclude(x, r, "failed")
            ELSE IF c.out = Offline THEN Conclude(x, r, "offline")
            ELSE [x EXCEPT !.conn = c, !.job.phase = "op"]
    BY <1>2 DEF Proceed
  <2>3. ASSUME NEW result \in {"failed", "offline"} PROVE Good(Conclude(x, r, result))
    <3>1. result \in Verdicts \ {"none"} /\ result # "ok"
      BY VerdictNames
    <3> QED BY <3>1, ConcludeFacts
  <2>4. Pending(s, x.job, x.conn.file) \/ late
    BY DEF Ready
  <2>5. Good([x EXCEPT !.job.phase = "password"])
    <3> DEFINE z == [x EXCEPT !.job.phase = "password"]
    <3>1. /\ z \in [conn : Conns, job : Jobs] /\ z.conn = x.conn
          /\ z.job.phase = "password" /\ z.job.ops = x.job.ops /\ z.job.removed = x.job.removed
          /\ z.job.result = x.job.result
      BY <1>0, PhaseFields
    <3> HIDE DEF z
    <3>2. JobShape(z.job, r)
      BY <1>0, <1>2, <3>1 DEF JobShape
    <3>3. Awaited(z.job) = {}
      BY <3>1 DEF Awaited
    <3>4. Pending(s, x.job, x.conn.file) => Worked(s, z.job, z.conn.file)
      BY <3>1 DEF Pending, Worked, Covers
    <3>5. ServerInv(s, r, z, late)
      BY <1>0, <3>1, <3>2, <3>3, <3>4 DEF ServerInv, Ready
    <3> QED BY <3>1, <3>5 DEF z
  <2>6. ASSUME c.out # Offline PROVE Good([x EXCEPT !.conn = c, !.job.phase = "op"])
    <3> DEFINE w == [x EXCEPT !.conn = c]
               z == [w EXCEPT !.job.phase = "op"]
    <3>1. /\ ConnInv(c) /\ c.out = NoOutcome /\ JobCmds(c) = {m} /\ c.file = x.conn.file
          /\ LineInv(x.conn) => LineInv(c)
      BY <1>0, <2>1, <2>6, CommandSent
    <3>2. c \in Conns
      BY <3>1 DEF ConnInv, Core
    <3> HIDE DEF c, m, op
    <3>3. w \in [conn : Conns, job : Jobs] /\ w.conn = c /\ w.job = x.job
      BY <1>0, <3>2, ConnFieldOfPair
    <3>4. [x EXCEPT !.conn = c, !.job.phase = "op"] = z
      BY ONLY <1>0
    <3> HIDE DEF w
    <3>5. /\ z \in [conn : Conns, job : Jobs] /\ z.conn = w.conn
          /\ z.job.phase = "op" /\ z.job.ops = w.job.ops /\ z.job.removed = w.job.removed
          /\ z.job.result = w.job.result
      BY <3>3, PhaseFields
    <3> HIDE DEF z
    <3>6. JobShape(z.job, r)
      BY <1>0, <1>2, <3>3, <3>5 DEF JobShape
    <3>7. Awaited(z.job) = {m}
      BY <3>3, <3>5 DEF Awaited, m, op
    <3>8. Pending(s, x.job, x.conn.file) => Worked(s, z.job, z.conn.file)
      BY <3>1, <3>3, <3>5 DEF Pending, Worked, Covers
    <3>9. ServerInv(s, r, z, late)
      BY <3>1, <3>3, <3>5, <3>6, <3>7, <3>8 DEF ServerInv, Ready
    <3> QED BY <3>1, <3>3, <3>4, <3>5, <3>9
  <2> HIDE DEF c, op, m
  <2>7. Good(y)
    BY <2>2, <2>3, <2>5, <2>6, Zenon DEF y
  <2> QED BY <2>7
<1> QED BY <1>1, <1>2

Replanned(x, ops, gone) == [x EXCEPT !.job.ops = ops, !.job.removed = gone]

LEMMA PlanFields ==
  ASSUME NEW x \in [conn : Conns, job : Jobs], NEW ops \in Seq(PlannedOps), NEW gone \in SUBSET Accounts
  PROVE  LET y == Replanned(x, ops, gone)
         IN  /\ y \in [conn : Conns, job : Jobs] /\ y.conn = x.conn /\ y.job.ops = ops
             /\ y.job.removed = gone /\ y.job.result = x.job.result /\ y.job.phase = x.job.phase
<1> DEFINE y == Replanned(x, ops, gone)
           k == [x.job EXCEPT !.ops = ops, !.removed = gone]
<1>1. x.job \in Jobs
  OBVIOUS
<1>2. k \in Jobs /\ k.phase = x.job.phase /\ k.ops = ops /\ k.removed = gone /\ k.result = x.job.result
  BY <1>1 DEF Jobs
<1>3. y = [x EXCEPT !.job = k]
  BY DEF Replanned
<1> HIDE DEF k, y
<1>4. y \in [conn : Conns, job : Jobs] /\ y.conn = x.conn /\ y.job = k
  BY <1>2, <1>3
<1> QED BY <1>2, <1>4 DEF y

Rest(x) ==
  /\ x \in [conn : Conns, job : Jobs] /\ ConnInv(x.conn) /\ x.conn.out = NoOutcome
  /\ JobCmds(x.conn) = {} /\ x.job.result = "none"
FileKnown(x, file, late) == late \/ (LineInv(x.conn) /\ file = x.conn.file)
Moved(s, r, x, y, late) ==
  ServerInv(s, r, y, late) /\ y.job.phase # "off" /\ y.conn.file = x.conn.file

(* A plan from a file that is the server's. *)
LEMMA PlannedFacts ==
  ASSUME NEW s, NEW x, NEW late, NEW file, NEW r, NEW password,
         Values_read, Rest(x), FileKnown(x, file, late)
  PROVE  Moved(s, r, x, Proceed(Replanned(x, Plan(s, file).ops, Plan(s, file).settled), r, password), late)
<1> USE DEF Rest, FileKnown, Moved
<1> DEFINE ops == Plan(s, file).ops
           gone == Plan(s, file).settled
           w == Replanned(x, ops, gone)
<1>1. ops \in Seq(PlannedOps) /\ gone \in SUBSET Accounts
  <2>1. [ops |-> ops].ops = Plan(s, file).ops
    OBVIOUS
  <2> QED BY <2>1, PlanFacts
<1> HIDE DEF ops, gone
<1> HIDE DEF w
<1>2. /\ w \in [conn : Conns, job : Jobs] /\ w.conn = x.conn /\ w.job.ops = ops
      /\ w.job.removed = gone /\ w.job.result = x.job.result
  BY <1>1, PlanFields DEF w
<1> DEFINE k == w.job
<1>a. k.ops = ops /\ k.removed = gone
  BY <1>2
<1> HIDE DEF k
<1>b. k.ops = Plan(s, file).ops
  BY <1>a DEF ops
<1>c. /\ \A i \in DOMAIN k.ops : OpFits(s, k.ops[i], file)
      /\ gone \subseteq Removing(s)
      /\ \A b \in gone : file[b] = Absent
      /\ Covers(s, k, file)
  BY <1>b, PlanFacts, ZenonT(60) DEF gone
<1>3. Pending(s, w.job, file)
  BY <1>a, <1>c DEF Pending, k
<1>4. Ready(s, w, late)
  BY <1>2, <1>3 DEF Ready
<1>5. LET y == Proceed(w, r, password)
      IN  ServerInv(s, r, y, late) /\ y.job.phase # "off" /\ y.conn.file = w.conn.file
  BY <1>4, ProceedFacts
<1> QED BY <1>2, <1>5 DEF w, ops, gone

(* A method of the connection has given d to the job. *)
Stopped(x, v) == [x EXCEPT !.job.phase = "done", !.job.result = v]

LEMMA StopFields ==
  ASSUME NEW x \in [conn : Conns, job : Jobs], NEW v \in Verdicts
  PROVE  LET y == Stopped(x, v)
         IN  /\ y \in [conn : Conns, job : Jobs] /\ y.conn = x.conn /\ y.job.phase = "done"
             /\ y.job.result = v /\ y.job.ops = x.job.ops /\ y.job.removed = x.job.removed
<1> DEFINE y == Stopped(x, v)
           k == [x.job EXCEPT !.phase = "done", !.result = v]
<1>1. x.job \in Jobs
  OBVIOUS
<1>2. k \in Jobs /\ k.phase = "done" /\ k.ops = x.job.ops /\ k.removed = x.job.removed /\ k.result = v
  BY <1>1 DEF Jobs
<1>3. y = [x EXCEPT !.job = k]
  BY DEF Stopped
<1> HIDE DEF k, y
<1>4. y \in [conn : Conns, job : Jobs] /\ y.conn = x.conn /\ y.job = k
  BY <1>2, <1>3
<1> QED BY <1>2, <1>4 DEF y

LEMMA StopFacts ==
  ASSUME NEW s, NEW r, NEW late, NEW x \in [conn : Conns, job : Jobs],
         ConnInv(x.conn), x.conn.out = NoOutcome, JobCmds(x.conn) = {}, x.job.ops = <<>>,
         late \/ (LineInv(x.conn) /\ x.job.removed \subseteq Removing(s)
                    /\ \A a \in x.job.removed : x.conn.file[a] = Absent),
         NEW v \in {"offline", "timeout"}
  PROVE  LET y == Stopped(x, v)
         IN  ServerInv(s, r, y, late) /\ y.job.phase # "off" /\ y.conn.file = x.conn.file
<1> DEFINE y == Stopped(x, v)
<1>1. v \in Verdicts /\ v # "none" /\ v # "ok"
  BY VerdictNames
<1>2. /\ y \in [conn : Conns, job : Jobs] /\ y.conn = x.conn /\ y.job.phase = "done"
      /\ y.job.result = v /\ y.job.ops = x.job.ops /\ y.job.removed = x.job.removed
  BY <1>1, StopFields
<1> HIDE DEF y
<1>3. JobShape(y.job, r) /\ Awaited(y.job) = {}
  BY <1>1, <1>2 DEF JobShape, Awaited
<1>4. late \/ Worked(s, y.job, y.conn.file)
  BY <1>1, <1>2 DEF Worked
<1>5. ServerInv(s, r, y, late)
  BY <1>2, <1>3, <1>4 DEF ServerInv
<1> QED BY <1>2, <1>5 DEF y

LEMMA OutcomeKinds ==
  ASSUME NEW o \in Outcomes
  PROVE  o.kind \in {"result", "offline", "timeout"} /\ o.code \in Nat
BY DEF Outcomes

(* A job that has been given the file it asked for. *)
ListGiven(s, x, o, late) ==
  /\ x.job.ops = <<>> /\ o \in Outcomes
  /\ late \/ /\ LineInv(x.conn) /\ x.job.removed \subseteq Removing(s)
             /\ \A a \in x.job.removed : x.conn.file[a] = Absent
             /\ o.kind = "result" => o.file = x.conn.file

LEMMA AfterRefreshFacts ==
  ASSUME NEW s, NEW late, NEW x, NEW r, NEW o, Values_read, Rest(x), ListGiven(s, x, o, late)
  PROVE  Moved(s, r, x, AfterRefresh(x, s, r, o), late)
<1> USE DEF Rest, ListGiven, Moved
<1> DEFINE Good(y) == ServerInv(s, r, y, late) /\ y.job.phase # "off" /\ y.conn.file = x.conn.file
<1>1. CASE o.kind # "result"
  <2>1. o.kind \in {"offline", "timeout"}
    BY <1>1, OutcomeKinds
  <2>2. Good(Stopped(x, o.kind))
    BY <2>1, StopFacts
  <2>3. AfterRefresh(x, s, r, o) = Stopped(x, o.kind)
    BY <1>1 DEF AfterRefresh, Stopped
  <2> QED BY <2>2, <2>3
<1>2. CASE o.kind = "result"
  <2> DEFINE plan == Plan(s, o.file)
             z == Proceed(Replanned(x, plan.ops, plan.settled), r, secret)
  <2>1. late \/ (LineInv(x.conn) /\ o.file = x.conn.file)
    BY <1>2
  <2>2. Good(z)
    <3> DEFINE f == o.file
    <3>1. late \/ (LineInv(x.conn) /\ f = x.conn.file)
      BY <2>1
    <3> HIDE DEF f
    <3>2. FileKnown(x, f, late) /\ Rest(x)
      BY <3>1 DEF FileKnown
    <3> HIDE DEF Rest, Moved, ListGiven
    <3>3. Moved(s, r, x, Proceed(Replanned(x, Plan(s, f).ops, Plan(s, f).settled), r, secret), late)
      BY ONLY <3>2, Values_read, PlannedFacts, Zenon
    <3> QED BY <3>3 DEF f, Moved
  <2>3. AfterRefresh(x, s, r, o) = z
    BY <1>2 DEF AfterRefresh, Replanned
  <2> HIDE DEF z
  <2> QED BY <2>2, <2>3
<1> QED BY <1>1, <1>2

(* A job that has been told what came of an operation. *)
OpAnswered(s, x, o, late) ==
  /\ x.job.ops # <<>> /\ o \in Outcomes
  /\ late \/ /\ LineInv(x.conn) /\ Pending(s, x.job, x.conn.file)
             /\ o.kind = "result" /\ Succeeded(Head(x.job.ops).op, o.code)
                  => Took(x.conn.file, CommandOf(Head(x.job.ops)))

LEMMA AfterOpFacts ==
  ASSUME NEW s, NEW late, NEW x, NEW r, NEW o, Values_read, Rest(x), OpAnswered(s, x, o, late)
  PROVE  Moved(s, r, x, AfterOp(x, r, o), late)
<1> USE DEF Rest, OpAnswered, Moved
<1> DEFINE Good(y) == ServerInv(s, r, y, late) /\ y.job.phase # "off" /\ y.conn.file = x.conn.file
           op == Head(x.job.ops)
           gone == IF op.op \in {RemoveAccount, RemoveUser} THEN op.accounts ELSE {}
           w == [x EXCEPT !.job.ops = Tail(@), !.job.removed = @ \union gone]
<1>0. Ready(s, x, late) /\ x.job \in Jobs /\ x.job.ops \in Seq(PlannedOps) /\ x.job.removed \in SUBSET Accounts
  BY JobFields DEF Ready
<1>1. ASSUME NEW v \in {"offline", "timeout", "failed"} PROVE Good(Conclude(x, r, v))
  <2>1. v \in Verdicts \ {"none"} /\ v # "ok"
    BY VerdictNames
  <2> QED BY <1>0, <2>1, ConcludeFacts
<1>2. ASSUME late \/ Took(x.conn.file, CommandOf(op)) PROVE Good(Proceed(w, r, secret))
  <2> DEFINE ops == Tail(x.job.ops)
             removed == x.job.removed \union gone
             k == w.job
  <2>1. op \in PlannedOps /\ ops \in Seq(PlannedOps)
    BY <1>0, TailFacts
  <2>2. removed \in SUBSET Accounts
    BY <1>0, <2>1 DEF PlannedOps
  <2>3. w = Replanned(x, ops, removed)
    BY DEF Replanned
  <2> HIDE DEF w, ops, removed
  <2>5. /\ w \in [conn : Conns, job : Jobs] /\ w.conn = x.conn /\ k.ops = ops
        /\ k.removed = removed /\ k.result = x.job.result
    BY <2>1, <2>2, <2>3, PlanFields
  <2> HIDE DEF k
  <2>6. x.conn.file \in Files
    BY ConnFields DEF ConnInv, Core
  <2>7. late \/ Pending(s, k, x.conn.file)
    <3>1. k.ops = Tail(x.job.ops) /\ k.removed = x.job.removed \union gone
      BY <2>5 DEF ops, removed
    <3> QED BY <1>0, <1>2, <2>6, <3>1, PendingDone
  <2>8. Ready(s, w, late)
    BY <2>5, <2>7 DEF Ready, k
  <2>9. Good(Proceed(w, r, secret))
    BY <2>5, <2>8, ProceedFacts
  <2> QED BY <2>9
<1>3. AfterOp(x, r, o) = IF o.kind # "result" THEN Conclude(x, r, o.kind)
                         ELSE IF ~Succeeded(op.op, o.code) THEN Conclude(x, r, "failed")
                         ELSE Proceed(w, r, secret)
  BY DEF AfterOp
<1>4. CASE o.kind # "result"
  BY <1>1, <1>3, <1>4, OutcomeKinds
<1>5. CASE o.kind = "result" /\ ~Succeeded(op.op, o.code)
  BY <1>1, <1>3, <1>5, SMTT(30)
<1>6. CASE o.kind = "result" /\ Succeeded(op.op, o.code)
  BY <1>2, <1>3, <1>6
<1> QED BY <1>4, <1>5, <1>6

(* A job starts, on the file the connection remembers. *)
LEMMA StartJobFacts ==
  ASSUME NEW s, NEW late, Values_read, NEW r, ConnInv(conn[s]), conn[s].out = NoOutcome,
         JobCmds(conn[s]) = {}, late \/ LineInv(conn[s])
  PROVE  LET y == StartJob(s, r)
         IN  ServerInv(s, r, y, late) /\ y.job.phase # "off" /\ y.conn.file = conn[s].file
<1> DEFINE x == [conn |-> conn[s], job |-> Idle]
           file == conn[s].cache
           plan == Plan(s, conn[s].cache)
           Good(y) == ServerInv(s, r, y, late) /\ y.job.phase # "off" /\ y.conn.file = x.conn.file
<1>1. Idle \in Jobs /\ Idle.ops = <<>> /\ Idle.removed = {} /\ Idle.result = "none"
  BY VerdictNames DEF Idle, Jobs
<1>2. conn[s] \in Conns
  BY DEF ConnInv, Core
<1>3. x \in [conn : Conns, job : Jobs] /\ x.conn = conn[s] /\ x.job = Idle
  BY <1>1, <1>2
<1> HIDE DEF x
<1>4. CASE conn[s].cache = Absent
  <2>1. late \/ (LineInv(x.conn) /\ x.job.removed \subseteq Removing(s)
                    /\ \A a \in x.job.removed : x.conn.file[a] = Absent)
    BY <1>1, <1>3
  <2>2. Good(Stopped(x, "offline"))
    BY <1>1, <1>3, <2>1, StopFacts
  <2>3. StartJob(s, r) = Stopped(x, "offline")
    BY <1>4 DEF StartJob, Stopped, x
  <2> QED BY <1>3, <2>2, <2>3
<1>5. CASE conn[s].cache # Absent /\ \E i \in DOMAIN plan.ops : plan.ops[i].op \in {CreateUser, PutAccount}
  <2> DEFINE d == Issue(conn[s], Lister)
             w == [x EXCEPT !.conn = d]
             z == [w EXCEPT !.job.phase = "refresh"]
  <2>1. conn[s].up
    BY <1>5 DEF ConnInv, Core
  <2>2. /\ ConnInv(d) /\ d.out = NoOutcome /\ JobCmds(d) = {Lister} /\ d.file = conn[s].file
        /\ LineInv(conn[s]) => LineInv(d)
    BY <2>1, ListerFacts, CommandSent
  <2>3. d \in Conns
    BY <2>2 DEF ConnInv, Core
  <2>4. StartJob(s, r) = [x EXCEPT !.conn = d, !.job.phase = "refresh"]
    BY <1>5 DEF StartJob, x
  <2> HIDE DEF d
  <2>5. w \in [conn : Conns, job : Jobs] /\ w.conn = d /\ w.job = x.job
    BY <1>3, <2>3, ConnFieldOfPair
  <2>6. [x EXCEPT !.conn = d, !.job.phase = "refresh"] = z
    BY ONLY <1>3
  <2> HIDE DEF w
  <2>7. /\ z \in [conn : Conns, job : Jobs] /\ z.conn = w.conn
        /\ z.job.phase = "refresh" /\ z.job.ops = w.job.ops /\ z.job.removed = w.job.removed
        /\ z.job.result = w.job.result
    BY <2>5, PhaseFields
  <2> HIDE DEF z
  <2>8. JobShape(z.job, r) /\ Awaited(z.job) = {Lister}
    BY <1>1, <1>3, <2>5, <2>7 DEF JobShape, Awaited
  <2>9. Worked(s, z.job, z.conn.file)
    BY <1>1, <1>3, <2>5, <2>7 DEF Worked
  <2>10. ServerInv(s, r, z, late)
    BY <2>2, <2>5, <2>7, <2>8, <2>9 DEF ServerInv
  <2> QED BY <1>3, <2>2, <2>4, <2>5, <2>6, <2>7, <2>10
<1>6. CASE conn[s].cache # Absent /\ ~\E i \in DOMAIN plan.ops : plan.ops[i].op \in {CreateUser, PutAccount}
  <2>1. late \/ (LineInv(x.conn) /\ file = x.conn.file)
    BY <1>3, <1>6, JobCmdsMember DEF LineInv, FilesAreKnown, Current, Changing
  <2>2. StartJob(s, r) = Proceed(Replanned(x, plan.ops, plan.settled), r, secret)
    BY <1>6 DEF StartJob, Replanned, x
  <2> HIDE DEF file
  <2>3. Rest(x) /\ FileKnown(x, file, late)
    BY <1>1, <1>3, <2>1 DEF Rest, FileKnown
  <2>4. Moved(s, r, x, Proceed(Replanned(x, Plan(s, file).ops, Plan(s, file).settled), r, secret), late)
    BY ONLY <2>3, Values_read, PlannedFacts, Zenon
  <2> QED BY <1>3, <2>2, <2>4, SMTT(30) DEF Moved, file
<1> QED BY <1>4, <1>5, <1>6

(* The outcome is taken off the connection. *)
Taken(d) == [d EXCEPT !.out = NoOutcome]

LEMMA TakenFacts ==
  ASSUME NEW d, ConnInv(d)
  PROVE  /\ ConnInv(Taken(d)) /\ Taken(d).out = NoOutcome /\ Taken(d).file = d.file
         /\ JobCmds(Taken(d)) = JobCmds(d)
         /\ LineInv(d) => LineInv(Taken(d))
         /\ d.out = NoOutcome => Taken(d) = d
<1> DEFINE e == Taken(d)
<1>1. d \in Conns /\ Core(d)
  BY DEF ConnInv, Core
<1>2. /\ e \in Conns /\ e.up = d.up /\ e.queue = d.queue /\ e.cache = d.cache
      /\ e.rev = d.rev /\ e.back = d.back /\ e.file = d.file /\ e.users_rev = d.users_rev
      /\ e.wire = d.wire /\ e.flying = d.flying /\ e.out = NoOutcome
      /\ d.out = NoOutcome => e = d
  BY <1>1 DEF Taken, Conns
<1> HIDE DEF e
<1>3. ConnInv(e) /\ JobCmds(e) = JobCmds(d)
  BY <1>1, <1>2, SameCore
<1>4. LineInv(d) => LineInv(e)
  BY <1>2, SameLine
<1> QED BY <1>2, <1>3, <1>4 DEF e

(* The job goes on with what a method of its connection gave. *)
LEMMA ResumeFacts ==
  ASSUME NEW s, Values_read, ServerInv(s, Runner, At(s), doubt), job[s] \in Jobs,
         NEW d, Answered(conn[s], d), d.file = conn[s].file, NEW late,
         late \/ (~doubt /\ Told(conn[s], d))
  PROVE  LET y == Resume(s, d)
         IN  /\ ServerInv(s, Runner, y, late) /\ y.conn.file = d.file
             /\ y.job.phase # "off" <=> job[s].phase # "off"
             /\ job[s].phase \in {"settle", "done", "password", "off"} => y.job = job[s]
<1> DEFINE x == [conn |-> Taken(d), job |-> job[s]]
           y == Resume(s, d)
<1>1. /\ At(s).conn = conn[s] /\ At(s).job = job[s]
      /\ JobCmds(conn[s]) = Awaited(job[s]) /\ JobShape(job[s], Runner)
      /\ doubt \/ Worked(s, job[s], conn[s].file)
  BY DEF ServerInv, At
<1>2. /\ ConnInv(d) /\ ConnInv(Taken(d)) /\ Taken(d).out = NoOutcome /\ Taken(d).file = d.file
      /\ JobCmds(Taken(d)) = JobCmds(d)
      /\ LineInv(d) => LineInv(Taken(d))
      /\ d.out = NoOutcome => Taken(d) = d
  BY TakenFacts DEF Answered
<1>3. Taken(d) \in Conns
  BY <1>2 DEF ConnInv, Core
<1>4. x \in [conn : Conns, job : Jobs] /\ x.conn = Taken(d) /\ x.job = job[s]
  BY <1>3
<1>5. late \/ (LineInv(x.conn) /\ Worked(s, x.job, x.conn.file))
  BY <1>1, <1>2, <1>4 DEF Told
<1>6. y = IF d.out = NoOutcome THEN x
          ELSE IF job[s].phase = "refresh" THEN AfterRefresh(x, s, Runner, d.out)
          ELSE AfterOp(x, Runner, d.out)
  BY DEF Resume, Taken, Runner
<1> HIDE DEF x, y
<1>7. CASE d.out = NoOutcome
  <2>1. JobCmds(x.conn) = Awaited(x.job)
    BY <1>1, <1>2, <1>4, <1>7 DEF Answered
  <2>2. ServerInv(s, Runner, x, late)
    BY <1>1, <1>2, <1>4, <1>5, <2>1 DEF ServerInv
  <2> QED BY <1>2, <1>4, <1>6, <1>7, <2>2 DEF y
<1>8. CASE d.out # NoOutcome
  <2>1. d.out \in Outcomes /\ JobCmds(x.conn) = {} /\ Awaited(job[s]) # {}
    BY <1>1, <1>2, <1>4, <1>8 DEF Answered
  <2>2. job[s].phase \in {"refresh", "op"}
    BY <2>1 DEF Awaited
  <2>3. x.job.result = "none"
    BY <1>1, <1>4, <2>2 DEF JobShape
  <2>4. ConnInv(x.conn) /\ x.conn.out = NoOutcome /\ x.conn.file = d.file
    BY <1>2, <1>4
  <2>5. CASE job[s].phase = "refresh"
    <3>1. x.job.ops = <<>> /\ JobCmds(conn[s]) = {Lister}
      BY <1>1, <1>4, <2>5 DEF JobShape, Awaited
    <3>2. late \/ (d.out.kind = "result" => d.out.file = x.conn.file)
      BY <1>8, <2>4, <3>1, ListerFacts DEF Told
    <3>3. late \/ /\ LineInv(x.conn) /\ x.job.removed \subseteq Removing(s)
                  /\ \A a \in x.job.removed : x.conn.file[a] = Absent
                  /\ d.out.kind = "result" => d.out.file = x.conn.file
      BY <1>5, <3>2 DEF Worked
    <3> DEFINE o == d.out
               z == AfterRefresh(x, s, Runner, o)
    <3> HIDE DEF o
    <3>a. Rest(x) /\ ListGiven(s, x, o, late)
      BY <1>4, <2>1, <2>3, <2>4, <3>1, <3>3 DEF Rest, ListGiven, o
    <3>b. Moved(s, Runner, x, AfterRefresh(x, s, Runner, o), late)
      BY ONLY <3>a, Values_read, AfterRefreshFacts, Zenon
    <3>4. ServerInv(s, Runner, z, late) /\ z.job.phase # "off" /\ z.conn.file = x.conn.file
      BY <3>b DEF Moved
    <3>5. y = z
      BY <1>6, <1>8, <2>5 DEF o
    <3> HIDE DEF z
    <3> QED BY <2>4, <2>5, <3>4, <3>5 DEF y
  <2>6. CASE job[s].phase = "op"
    <3> DEFINE m == CommandOf(Head(job[s].ops))
    <3>1. x.job.ops # <<>> /\ JobCmds(conn[s]) = {m}
      BY <1>1, <1>4, <2>6 DEF JobShape, Awaited
    <3>2. x.job.ops \in Seq(PlannedOps)
      BY <1>4, JobFields
    <3>3. m.op = Head(job[s].ops).op
      BY <1>4, <3>1, <3>2, TailFacts, CommandOfFacts
    <3>4. late \/ (d.out.kind = "result" /\ Succeeded(m.op, d.out.code) => Took(d.file, m))
      BY <1>8, <3>1 DEF Told
    <3>5. late \/ Pending(s, x.job, x.conn.file)
      BY <1>4, <1>5, <2>6 DEF Worked, Pending
    <3>6. late \/ /\ LineInv(x.conn) /\ Pending(s, x.job, x.conn.file)
                  /\ d.out.kind = "result" /\ Succeeded(Head(x.job.ops).op, d.out.code)
                       => Took(x.conn.file, CommandOf(Head(x.job.ops)))
      BY <1>4, <1>5, <2>4, <3>3, <3>4, <3>5
    <3> DEFINE o == d.out
               z == AfterOp(x, Runner, o)
    <3> HIDE DEF o, m
    <3>a. Rest(x) /\ OpAnswered(s, x, o, late)
      BY <1>4, <2>1, <2>3, <2>4, <3>1, <3>6 DEF Rest, OpAnswered, o
    <3>b. Moved(s, Runner, x, AfterOp(x, Runner, o), late)
      BY ONLY <3>a, Values_read, AfterOpFacts, Zenon
    <3>7. ServerInv(s, Runner, z, late) /\ z.job.phase # "off" /\ z.conn.file = x.conn.file
      BY <3>b DEF Moved
    <3>8. y = z
      BY <1>6, <1>8, <2>6 DEF o
    <3> HIDE DEF z
    <3> QED BY <2>4, <2>6, <3>7, <3>8 DEF y
  <2> QED BY <2>2, <2>5, <2>6
<1> QED BY <1>7, <1>8

-----------------------------------------------------------------------------
(* The steps. *)

(* What a server's state is worth after a step that reads nothing anew. *)
LEMMA ServerFrame ==
  ASSUME NEW s, NEW x, ServerInv(s, Runner, x, doubt'), intent' = intent,
         x.job.phase = "settle" => (Deleting(Runner)' <=> Deleting(Runner)),
         conn'[s] = x.conn, job'[s] = x.job
  PROVE  ServerInv(s, Runner, At(s), doubt)'
<1>1. At(s)'.conn = x.conn /\ At(s)'.job = x.job
  BY DEF At
<1>2. JobShape(x.job, Runner) => JobShape(x.job, Runner)'
  BY DEF JobShape
<1>3. Awaited(x.job)' = Awaited(x.job)
  BY DEF Awaited, CommandOf
<1>4. \A j, file : Worked(s, j, file)' <=> Worked(s, j, file)
  BY DEF Worked, Covers, OpFits, Active, Removing, RowsOf
<1>5. /\ ConnInv(x.conn) /\ x.conn.out = NoOutcome /\ JobCmds(x.conn) = Awaited(x.job)'
      /\ JobShape(x.job, Runner)' /\ (doubt' \/ (LineInv(x.conn) /\ Worked(s, x.job, x.conn.file)'))
  BY <1>2, <1>3, <1>4 DEF ServerInv
<1>6. (ConnInv(At(s).conn) /\ At(s).conn.out = NoOutcome /\ (LineInv(x.conn) => LineInv(At(s).conn)))'
  BY <1>1, <1>5
<1>7. (JobCmds(At(s).conn) = Awaited(At(s).job))'
  BY <1>1, <1>5 DEF Awaited, CommandOf
<1>8. JobShape(At(s).job, Runner)'
  BY <1>1, <1>5 DEF JobShape
<1>9. Worked(s, x.job, x.conn.file)' => Worked(s, At(s).job, At(s).conn.file)'
  <2>0. PICK k : k = At(s)'
    OBVIOUS
  <2>1. k.conn = x.conn /\ k.job = x.job
    BY <1>1, <2>0
  <2>2. Worked(s, x.job, x.conn.file)' => Worked(s, k.job, k.conn.file)'
    BY <2>1 DEF Worked, Covers, OpFits, Active, Removing, RowsOf
  <2> QED BY <2>0, <2>2 DEF Worked, Covers, OpFits, Active, Removing, RowsOf
<1>10. (doubt \/ (LineInv(At(s).conn) /\ Worked(s, At(s).job, At(s).conn.file)))'
  BY <1>5, <1>6, <1>9
<1> QED BY <1>6, <1>7, <1>8, <1>10 DEF ServerInv

(* No call moves on. *)
SameSteps ==
  chain' = chain /\ \A r \in Calls : call'[r].step = call[r].step /\ call'[r].kind = call[r].kind

LEMMA SameTurns ==
  ASSUME ChainShape, SameSteps
  PROVE  /\ ChainShape' /\ Runner' = Runner
         /\ chain # <<>> => Runner \in Calls /\ (Deleting(Runner)' <=> Deleting(Runner))
         /\ \A S : InTurn(S)' <=> InTurn(S)
         /\ Coming' <=> Coming
<1>1. chain' = chain /\ Runner' = Runner
  BY DEF SameSteps, Runner
<1>2. chain # <<>> => Runner \in Calls
  BY TailFacts DEF ChainShape, Runner
<1>3. \A i \in DOMAIN chain : chain[i] \in Calls
  BY DEF ChainShape
<1>4. ChainShape'
  BY <1>1, <1>3 DEF ChainShape, SameSteps, Turn
<1>5. chain # <<>> => (Deleting(Runner)' <=> Deleting(Runner))
  BY <1>1, <1>2 DEF SameSteps, Deleting
<1>6. \A S : InTurn(S)' <=> InTurn(S)
  BY <1>1, <1>2 DEF SameSteps, InTurn
<1>7. Coming' <=> Coming
  BY DEF Coming, SameSteps
<1> QED BY <1>1, <1>2, <1>4, <1>5, <1>6, <1>7

(* The invariant, by server. *)
LEMMA BaseFacts ==
  ASSUME ResultsInv
  PROVE  /\ Values_read /\ \A s \in Servers : job[s] \in Jobs /\ JobShape(job[s], Runner)
         /\ \A s \in Servers : /\ ServerInv(s, Runner, At(s), doubt)
                               /\ ConnInv(conn[s]) /\ conn[s] \in Conns /\ conn[s].out = NoOutcome
                               /\ doubt \/ LineInv(conn[s])
                               /\ JobCmds(conn[s]) = Awaited(job[s])
                               /\ doubt \/ Worked(s, job[s], conn[s].file)
<1>1. Values_read
  BY DEF ResultsInv, Base, Values_read
<1>2. ASSUME NEW s \in Servers
      PROVE  /\ ServerInv(s, Runner, At(s), doubt)
             /\ ConnInv(conn[s]) /\ conn[s] \in Conns /\ conn[s].out = NoOutcome
             /\ doubt \/ LineInv(conn[s])
             /\ JobCmds(conn[s]) = Awaited(job[s])
             /\ doubt \/ Worked(s, job[s], conn[s].file)
             /\ job[s] \in Jobs /\ JobShape(job[s], Runner)
  <2>1. ServerInv(s, Runner, At(s), doubt) /\ At(s).conn = conn[s] /\ At(s).job = job[s]
    BY DEF ResultsInv, At
  <2> QED BY <2>1 DEF ServerInv, JobShape, ConnInv, Core
<1> QED BY <1>1, <1>2

(* The file changes only for an operation, and only at accounts with a row. *)
FileKept(s, file) ==
  \/ file = conn[s].file
  \/ job[s].phase = "op" /\ \A a \in Accounts : RowsOf(s)[a] = "none" => file[a] = conn[s].file[a]

(* A step of one server, on the line or in the job. *)
ServerMoves(s, y) ==
  /\ ServerInv(s, Runner, y, doubt')
  /\ y.job.phase # "off" <=> job[s].phase # "off"
  /\ job[s].phase = "done" => y.job.phase = "done"
  /\ doubt' \/ FileKept(s, y.conn.file)
  /\ conn' = [conn EXCEPT ![s] = y.conn] /\ job' = [job EXCEPT ![s] = y.job]
  /\ doubt' \in BOOLEAN /\ (doubt => doubt') /\ budget' \in 0..MaxMishaps
  /\ UNCHANGED <<db, call, chain, intent, secret, last, lost>>

LEMMA ServerMovesInv ==
  ASSUME ResultsInv, NEW s \in Servers, NEW y, ServerMoves(s, y)
  PROVE  ResultsInv'
<1>0. /\ db' = db /\ call' = call /\ chain' = chain /\ intent' = intent /\ secret' = secret
      /\ last' = last /\ lost' = lost
  BY DEF ServerMoves
<1>1. /\ conn'[s] = y.conn /\ job'[s] = y.job
      /\ \A t \in Servers : t # s => conn'[t] = conn[t] /\ job'[t] = job[t]
  BY DEF ResultsInv, Base, ServerMoves
<1>2. Base'
  <2>1. conn' = [t \in Servers |-> conn'[t]] /\ job' = [t \in Servers |-> job'[t]]
    BY DEF ResultsInv, Base, ServerMoves
  <2> QED BY <1>0, <2>1 DEF ResultsInv, Base, ServerMoves
<1>3. ChainShape /\ SameSteps
  BY <1>0 DEF ResultsInv, SameSteps
<1>4. /\ ChainShape' /\ Runner' = Runner /\ (\A S : InTurn(S)' <=> InTurn(S)) /\ (Coming' <=> Coming)
      /\ (Deleting(Runner)' <=> Deleting(Runner))
  BY <1>0, <1>3, SameTurns DEF Deleting, Runner
<1>5. FoldShape'
  BY <1>0 DEF ResultsInv, FoldShape
<1>6. \A t \in Servers : /\ job'[t].phase # "off" <=> job[t].phase # "off"
                         /\ job[t].phase = "done" => job'[t].phase = "done"
  BY <1>1 DEF ServerMoves
<1>7. JobsShape'
  <2>1. JobsShape
    BY DEF ResultsInv
  <2>2. AllDone => AllDone'
    BY <1>6 DEF AllDone
  <2>3. KeysOf(intent.rows)' = KeysOf(intent.rows)
    BY <1>0 DEF KeysOf
  <2> QED BY <1>0, <1>4, <1>6, <2>1, <2>2, <2>3 DEF JobsShape
<1>8. \A t \in Servers : ServerInv(t, Runner, At(t), doubt)'
  <2> TAKE t \in Servers
  <2>1. CASE t = s
    BY <1>0, <1>1, <1>4, <2>1, ServerFrame DEF ServerMoves
  <2>2. CASE t # s
    <3>1. ServerInv(t, Runner, At(t), doubt')
      BY BaseFacts DEF ServerMoves, ServerInv
    <3>2. conn'[t] = At(t).conn /\ job'[t] = At(t).job
      BY <1>1, <2>2 DEF At
    <3> QED BY <1>0, <1>4, <3>1, <3>2, ServerFrame
  <2> QED BY <2>1, <2>2
<1>9. RowsInv'
  <2>1. RowsInv
    BY DEF ResultsInv
  <2>2. doubt' \/ \A t \in Servers, a \in Accounts :
          conn'[t].file[a] = conn[t].file[a] \/
            (t = s /\ job[s].phase = "op" /\ intent.rows[t][a] # "none")
    BY <1>1 DEF ServerMoves, FileKept, RowsOf
  <2>3. \A a \in Accounts : job[s].phase = "op" /\ intent.rows[s][a] # "none" => db.rows[s][a] # "none"
    BY <2>1 DEF RowsInv
  <2>4. doubt' \/ RowsFollowFiles'
    <3>1. doubt' \/ RowsFollowFiles
      BY <2>1 DEF RowsInv, ServerMoves
    <3> QED BY <1>0, <2>2, <2>3, <3>1 DEF RowsFollowFiles, ServerMoves
  <2>5. doubt' \/ (InTurn({"reading", "running"})' =>
          \A t \in Servers, a \in Accounts :
            intent'.rows[t][a] = "none" => (conn'[t].file[a] # Absent <=> ~Mine(t, a)))
    BY <1>0, <1>4, <2>1, <2>2 DEF RowsInv, ServerMoves
  <2>6. \A t \in Servers : Active(t)' = Active(t)
    BY <1>0 DEF Active, RowsOf
  <2> QED BY <1>0, <1>4, <1>6, <2>1, <2>4, <2>5, <2>6 DEF RowsInv, Mine
<1>10. ChipInv'
  <2>1. KeysOf(intent.rows)' = KeysOf(intent.rows) /\ KeysOf(db.rows)' = KeysOf(db.rows)
    BY <1>0 DEF KeysOf
  <2> QED BY <1>0, <1>4, <2>1 DEF ResultsInv, ChipInv
<1> QED BY <1>2, <1>4, <1>5, <1>7, <1>8, <1>9, <1>10 DEF ResultsInv

(* A method of the connection, and the job after it. *)
LEMMA ConnStepInv ==
  ASSUME ResultsInv, NEW s \in Servers, NEW d, Answered(conn[s], d), d.file = conn[s].file,
         doubt' \/ (~doubt /\ Told(conn[s], d)), ConnStep(s, d),
         doubt' \in BOOLEAN, doubt => doubt', budget' \in 0..MaxMishaps,
         UNCHANGED <<db, call, chain, intent, secret, last, lost>>
  PROVE  ResultsInv'
<1> DEFINE y == Resume(s, d)
<1>1. /\ Values_read /\ ServerInv(s, Runner, At(s), doubt) /\ job[s] \in Jobs
  BY BaseFacts
<1>2. /\ ServerInv(s, Runner, y, doubt') /\ y.conn.file = d.file
      /\ y.job.phase # "off" <=> job[s].phase # "off"
      /\ job[s].phase \in {"settle", "done", "password", "off"} => y.job = job[s]
  BY <1>1, ResumeFacts
<1>3. conn' = [conn EXCEPT ![s] = y.conn] /\ job' = [job EXCEPT ![s] = y.job]
  BY DEF ConnStep
<1> HIDE DEF y
<1>4. ServerMoves(s, y)
  BY <1>2, <1>3 DEF ServerMoves, FileKept
<1> QED BY <1>4, ServerMovesInv

LEMMA BudgetFacts ==
  ASSUME ResultsInv
  PROVE  /\ budget \in 0..MaxMishaps /\ (Mishap => budget' \in 0..MaxMishaps)
         /\ doubt \in BOOLEAN /\ lost \in BOOLEAN
BY BoundsAssumption DEF ResultsInv, Base, Mishap

LEMMA LineUpInv ==
  ASSUME ResultsInv, NEW s \in Servers, LineUp(s)
  PROVE  ResultsInv'
<1>1. Answered(conn[s], HandleUp(conn[s])) /\ HandleUp(conn[s]).file = conn[s].file
      /\ (LineInv(conn[s]) => Told(conn[s], HandleUp(conn[s])))
  BY BaseFacts, HandleUpFacts DEF LineUp
<1>2. doubt' \/ (~doubt /\ Told(conn[s], HandleUp(conn[s])))
  BY <1>1, BaseFacts DEF LineUp
<1> QED BY <1>1, <1>2, BudgetFacts, ConnStepInv DEF LineUp

LEMMA LineDownInv ==
  ASSUME ResultsInv, NEW s \in Servers, LineDown(s)
  PROVE  ResultsInv'
<1>1. Answered(conn[s], HandleDown(conn[s])) /\ HandleDown(conn[s]).file = conn[s].file
      /\ (LineInv(conn[s]) => Told(conn[s], HandleDown(conn[s])))
  BY BaseFacts, HandleDownFacts
<1>2. doubt' \/ (~doubt /\ Told(conn[s], HandleDown(conn[s])))
  BY <1>1, BaseFacts DEF LineDown
<1> QED BY <1>1, <1>2, BudgetFacts, ConnStepInv DEF LineDown

LEMMA FrameInv ==
  ASSUME ResultsInv, NEW s \in Servers, Frame(s)
  PROVE  ResultsInv'
<1>1. Answered(conn[s], HandleFrame(conn[s])) /\ HandleFrame(conn[s]).file = conn[s].file
      /\ (LineInv(conn[s]) => Told(conn[s], HandleFrame(conn[s])))
  BY BaseFacts, HandleFrameFacts DEF Frame
<1>2. doubt' \/ (~doubt /\ Told(conn[s], HandleFrame(conn[s])))
  BY <1>1, BaseFacts DEF Frame
<1> QED BY <1>1, <1>2, BudgetFacts, ConnStepInv DEF Frame

LEMMA TimeoutInv ==
  ASSUME ResultsInv, NEW s \in Servers, Timeout(s)
  PROVE  ResultsInv'
<1>1. PICK d : /\ Answered(conn[s], d) /\ d.file = conn[s].file /\ ConnStep(s, d)
  <2>1. CASE AwaitsAnswer(conn[s]) /\ ConnStep(s, CommandTimesOut(conn[s]))
    <3>1. Flies(conn[s])
      BY <2>1 DEF AwaitsAnswer, Flies
    <3> QED BY <2>1, <3>1, BaseFacts, CommandTimesOutFacts
  <2>2. CASE HoldsResult(conn[s]) /\ ConnStep(s, SnapshotTimesOut(conn[s]))
    <3>1. Flies(conn[s])
      BY <2>2 DEF HoldsResult, Flies, NoFlight
    <3> QED BY <2>2, <3>1, BaseFacts, SnapshotTimesOutFacts
  <2> QED BY <2>1, <2>2 DEF Timeout
<1>2. doubt' = TRUE /\ budget' \in 0..MaxMishaps /\ UNCHANGED <<db, call, chain, intent, secret, last, lost>>
  BY BudgetFacts DEF Timeout
<1> QED BY <1>1, <1>2, ConnStepInv

LEMMA OtherCommandInv ==
  ASSUME ResultsInv, NEW s \in Servers, OtherCommand(s)
  PROVE  ResultsInv'
<1> DEFINE c == conn[s]
           d == Issue(c, OtherUsers)
<1>1. ConnInv(c) /\ c.out = NoOutcome /\ (doubt \/ LineInv(c)) /\ c.up
  BY BaseFacts DEF OtherCommand
<1>2. /\ ConnInv(d) /\ d.out = c.out /\ d.file = c.file
      /\ JobCmds(d) = JobCmds(c) \cup IF OtherUsers.by = "job" THEN {OtherUsers} ELSE {}
      /\ LineInv(c) => LineInv(d)
  BY <1>1, ListerFacts, IssueFacts
<1>3. Answered(c, d) /\ (LineInv(c) => Told(c, d))
  BY <1>1, <1>2, ListerFacts DEF Answered, Told
<1>4. ConnStep(s, d)
  BY DEF OtherCommand
<1> HIDE DEF d
<1>5. doubt' \/ (~doubt /\ Told(conn[s], d))
  BY <1>1, <1>3 DEF OtherCommand
<1> QED BY <1>2, <1>3, <1>4, <1>5, BudgetFacts, ConnStepInv DEF OtherCommand

LEMMA GatewayInv ==
  ASSUME ResultsInv, NEW s \in Servers, Gateway(s)
  PROVE  ResultsInv'
<1>1. PICK refuse \in BOOLEAN : ConnStep(s, Serve(conn[s], refuse))
  BY DEF Gateway
<1> DEFINE c == conn[s]
           d == Serve(c, refuse)
           y == [conn |-> d, job |-> job[s]]
<1>2. c.wire # <<>> /\ ConnInv(c) /\ c \in Conns /\ c.out = NoOutcome /\ (doubt \/ LineInv(c)) /\ c.file \in Files
  BY BaseFacts, ConnFields DEF Gateway
<1>3. /\ Answered(c, d) /\ d.out = NoOutcome
      /\ LineInv(c) =>
           /\ Told(c, d)
           /\ d.file = c.file \/ \E m \in JobCmds(c) : m.op # ListUsers /\ d.file = Served(c.file, m)
  BY <1>2, ServeFacts
<1> HIDE DEF d
<1>4. ConnInv(d) /\ d.out = NoOutcome /\ JobCmds(d) = Awaited(job[s]) /\ (LineInv(c) => LineInv(d))
  BY <1>3, BaseFacts DEF Answered, Told
<1>5. Resume(s, d) = [conn |-> Taken(d), job |-> job[s]] /\ Taken(d) = d
  BY <1>3, <1>4, TakenFacts DEF Resume, Taken
<1>6. conn' = [conn EXCEPT ![s] = y.conn] /\ job' = [job EXCEPT ![s] = y.job]
  BY <1>1, <1>5 DEF ConnStep, d
<1>7. JobShape(job[s], Runner) /\ job[s] \in Jobs /\ Values_read
      /\ (doubt \/ (LineInv(c) /\ Worked(s, job[s], c.file)))
  BY BaseFacts
<1>8. doubt \/ (Worked(s, job[s], d.file) /\ FileKept(s, d.file))
  <2> SUFFICES ASSUME ~doubt PROVE Worked(s, job[s], d.file) /\ FileKept(s, d.file)
    OBVIOUS
  <2>1. CASE d.file = c.file
    BY <1>7, <2>1 DEF FileKept
  <2>2. CASE \E m \in JobCmds(c) : m.op # ListUsers /\ d.file = Served(c.file, m)
    <3>1. PICK m \in Awaited(job[s]) : m.op # ListUsers /\ d.file = Served(c.file, m)
      BY <2>2, BaseFacts
    <3>2. job[s].phase = "op" /\ m = CommandOf(Head(job[s].ops))
      BY <3>1, ListerFacts DEF Awaited
    <3>3. job[s].ops # <<>> /\ job[s].result # "ok"
      BY <1>7, <3>2 DEF JobShape
    <3>4. Pending(s, job[s], c.file)
      BY <1>7, <3>2 DEF Worked, Pending
    <3>5. Pending(s, job[s], d.file) /\ \A a \in Accounts : RowsOf(s)[a] = "none" => d.file[a] = c.file[a]
      BY <1>2, <1>7, <3>1, <3>2, <3>3, <3>4, PendingServed
    <3> QED BY <3>2, <3>5 DEF Pending, Worked, FileKept
  <2> QED BY <1>2, <1>3, <2>1, <2>2
<1>9. ServerInv(s, Runner, y, doubt)
  BY <1>2, <1>4, <1>7, <1>8 DEF ServerInv
<1>10. budget' \in 0..MaxMishaps /\ UNCHANGED <<db, call, chain, intent, secret, last, lost, doubt>>
  BY BudgetFacts DEF Gateway
<1>11. ServerMoves(s, y)
  BY <1>6, <1>8, <1>9, <1>10, BudgetFacts DEF ServerMoves
<1> QED BY <1>11, ServerMovesInv

(* The call whose turn it is. *)
LEMMA RunnerFacts ==
  ASSUME ChainShape, NEW r \in Calls
  PROVE  /\ call[r].step \in {"reading", "running", "deleting"} => chain # <<>> /\ r = Runner
         /\ chain # <<>> => Runner \in Calls /\ call[Runner].step \in Turn
         /\ call[r].step \notin Turn /\ chain # <<>> => Runner # r
<1>1. chain # <<>> => Runner = chain[1] /\ 1 \in DOMAIN chain /\ Runner \in Calls
  BY TailFacts DEF ChainShape, Runner
<1>2. ASSUME call[r].step \in {"reading", "running", "deleting"} PROVE chain # <<>> /\ r = Runner
  <2>1. PICK i \in DOMAIN chain : chain[i] = r
    BY <1>2 DEF ChainShape, Turn
  <2>2. chain # <<>> /\ (i = 1 \/ i > 1)
    BY <2>1 DEF ChainShape
  <2>3. i = 1
    BY <1>2, <2>1, <2>2 DEF ChainShape
  <2> QED BY <1>1, <2>1, <2>2, <2>3
<1>3. chain # <<>> => call[Runner].step \in Turn
  BY <1>1 DEF ChainShape
<1> QED BY <1>1, <1>2, <1>3

(* Nothing happens to the servers. *)
LEMMA KeepServers ==
  ASSUME ResultsInv, conn' = conn, job' = job, intent' = intent, doubt' = doubt,
         \A s \in Servers : job[s].phase = "settle" => (Deleting(Runner)' <=> Deleting(Runner))
  PROVE  \A s \in Servers : ServerInv(s, Runner, At(s), doubt)'
<1> TAKE s \in Servers
<1>1. ServerInv(s, Runner, At(s), doubt') /\ conn'[s] = At(s).conn /\ job'[s] = At(s).job
      /\ At(s).job = job[s]
  BY BaseFacts DEF At
<1> QED BY <1>1, ServerFrame

(* A call that is not in the chain goes on outside it. *)
LEMMA OutsideTurns ==
  ASSUME ChainShape, NEW r \in Calls, call[r].step \notin Turn, call'[r].step \notin Turn,
         chain' = chain,
         \A q \in Calls \ {r} : call'[q].step = call[q].step /\ call'[q].kind = call[q].kind
  PROVE  /\ ChainShape' /\ Runner' = Runner
         /\ chain # <<>> => (Deleting(Runner)' <=> Deleting(Runner))
         /\ \A S : InTurn(S)' <=> InTurn(S)
<1>1. Runner' = Runner
  BY DEF Runner
<1>2. chain # <<>> => Runner \in Calls /\ Runner # r
  BY RunnerFacts
<1>3. \A i \in DOMAIN chain : chain[i] \in Calls /\ chain[i] # r
  BY DEF ChainShape
<1>4. ChainShape'
  BY <1>3 DEF ChainShape
<1> QED BY <1>1, <1>2, <1>4 DEF Deleting, InTurn

(* Between calls there are no jobs. *)
LEMMA NobodyAtWork ==
  ASSUME ResultsInv, ~InTurn({"running", "deleting"})
  PROVE  \A s \in Servers : job[s] = Idle /\ job[s].phase = "off"
BY BaseFacts DEF ResultsInv, JobsShape, JobShape

(* What a route may write: rows only of accounts that are this user's. *)
RowsWritten ==
  /\ db' \in Databases /\ db'.user = db.user /\ db'.chip = db.chip
  /\ \A s \in Servers, a \in Accounts :
       /\ db'.rows[s][a] = "none" => db.rows[s][a] = "none"
       /\ db'.rows[s][a] # "none" => db.rows[s][a] # "none" \/ Mine(s, a)

LEMMA DbFields ==
  ASSUME NEW d \in Databases
  PROVE  /\ d.user \in BOOLEAN /\ d.rows \in [Servers -> [Accounts -> States]]
         /\ d.value \in [Accounts -> Values] /\ d.chip \in [Servers -> Verdicts]
BY DEF Databases

LEMMA WithRows ==
  ASSUME NEW d \in Databases, NEW rows \in [Servers -> [Accounts -> States]]
  PROVE  LET e == [d EXCEPT !.rows = rows]
         IN  /\ e \in Databases /\ e.user = d.user /\ e.rows = rows /\ e.value = d.value /\ e.chip = d.chip
BY DEF Databases

LEMMA WithValue ==
  ASSUME NEW d \in Databases, NEW a, NEW v \in Values
  PROVE  LET e == [d EXCEPT !.value[a] = v]
         IN  /\ e \in Databases /\ e.user = d.user /\ e.rows = d.rows /\ e.chip = d.chip
<1> DEFINE e == [d EXCEPT !.value[a] = v]
           w == [d.value EXCEPT ![a] = v]
<1>1. w \in [Accounts -> Values]
  BY DbFields
<1>2. e = [d EXCEPT !.value = w]
  BY DEF Databases
<1> HIDE DEF w, e
<1>3. e \in Databases /\ e.user = d.user /\ e.rows = d.rows /\ e.chip = d.chip
  BY <1>1, <1>2 DEF Databases
<1> QED BY <1>3 DEF e

LEMMA CommitPutRows ==
  ASSUME db \in Databases, NEW r \in Calls, NEW p \in Puts, CommitPut(r, p.account, p.value, p.servers)
  PROVE  RowsWritten
<1> DEFINE a == p.account
           rows == [s \in Servers |-> [db.rows[s] EXCEPT ![a] =
                      IF s \in p.servers THEN "active"
                      ELSE IF db.rows[s][a] = "active" THEN "removing" ELSE db.rows[s][a]]]
           e == [db EXCEPT !.value[a] = p.value]
<1>1. a \in Accounts /\ p.value \in Values /\ \A s \in p.servers : Mine(s, a)
  BY PutsAssumption DEF Mine
<1>2. e \in Databases /\ e.user = db.user /\ e.rows = db.rows /\ e.chip = db.chip
  BY <1>1, WithValue
<1>3. db' = [e EXCEPT !.rows = rows]
  BY <1>2 DEF CommitPut
<1>4. \A s \in Servers : db.rows[s] \in [Accounts -> States]
  BY DbFields
<1>5. \A s \in Servers : rows[s] \in [Accounts -> States]
  BY <1>4 DEF States
<1>6. rows \in [Servers -> [Accounts -> States]]
  BY <1>5
<1>7. \A s \in Servers, b \in Accounts :
        /\ rows[s][b] = "none" => db.rows[s][b] = "none"
        /\ rows[s][b] # "none" => db.rows[s][b] # "none" \/ (b = a /\ s \in p.servers)
  BY <1>4
<1> HIDE DEF rows, e
<1>8. db' \in Databases /\ db'.user = e.user /\ db'.rows = rows /\ db'.chip = e.chip
  BY <1>2, <1>3, <1>6, WithRows
<1> QED BY <1>1, <1>2, <1>7, <1>8 DEF RowsWritten

LEMMA CommitRemoveRows ==
  ASSUME db \in Databases, NEW r \in Calls, NEW a \in Accounts, CommitRemove(r, a)
  PROVE  RowsWritten
<1> DEFINE rows == [s \in Servers |-> [db.rows[s] EXCEPT ![a] =
                      IF db.rows[s][a] = "active" THEN "removing" ELSE db.rows[s][a]]]
<1>1. db' = [db EXCEPT !.rows = rows]
  BY DEF CommitRemove
<1>2. \A s \in Servers : db.rows[s] \in [Accounts -> States]
  BY DbFields
<1>3. \A s \in Servers : rows[s] \in [Accounts -> States]
  BY <1>2 DEF States
<1>4. rows \in [Servers -> [Accounts -> States]]
  BY <1>3
<1>5. \A s \in Servers, b \in Accounts :
        /\ rows[s][b] = "none" => db.rows[s][b] = "none"
        /\ rows[s][b] # "none" => db.rows[s][b] # "none"
  BY <1>2
<1> HIDE DEF rows
<1>6. db' \in Databases /\ db'.user = db.user /\ db'.rows = rows /\ db'.chip = db.chip
  BY <1>1, <1>4, WithRows
<1> QED BY <1>5, <1>6 DEF RowsWritten

LEMMA CallFields ==
  ASSUME Base, NEW r \in Calls
  PROVE  /\ call \in [Calls -> CallStates]
         /\ call[r].kind \in {"none", "put", "remove", "redo", "delete"}
         /\ call[r].step \in {"new", "committed", "waiting", "reading", "running", "deleting", "over"}
         /\ call[r].fold \in {"no", "reading", "recording", "done"}
         /\ call[r].folded \in [Servers -> Verdicts]
         /\ call[r].answer \in {"none", "full", "folded", "deleted", "error"}
BY DEF Base, CallStates

(* One call is written. *)
OneWritten(r, q) ==
  /\ call' \in [Calls -> CallStates] /\ call'[r] = q /\ q \in CallStates
  /\ \A p \in Calls \ {r} : call'[p] = call[p]

LEMMA CallWritten ==
  ASSUME Base, NEW r \in Calls, NEW q \in CallStates, call' = [call EXCEPT ![r] = q]
  PROVE  OneWritten(r, q)
BY DEF Base, OneWritten

Kinds == {"none", "put", "remove", "redo", "delete"}
Steps == {"new", "committed", "waiting", "reading", "running", "deleting", "over"}

LEMMA WithStep ==
  ASSUME NEW q \in CallStates, NEW step \in Steps
  PROVE  LET k == [q EXCEPT !.step = step]
         IN  /\ k \in CallStates /\ k.kind = q.kind /\ k.step = step /\ k.fold = q.fold
             /\ k.folded = q.folded /\ k.answer = q.answer
BY DEF CallStates, Steps

LEMMA WithKind ==
  ASSUME NEW q \in CallStates, NEW kind \in Kinds
  PROVE  LET k == [q EXCEPT !.kind = kind]
         IN  /\ k \in CallStates /\ k.kind = kind /\ k.step = q.step /\ k.fold = q.fold
             /\ k.folded = q.folded /\ k.answer = q.answer
BY DEF CallStates, Kinds

(* One call has another kind and step. *)
Entered(r, kind, step) ==
  /\ call' \in [Calls -> CallStates]
  /\ call'[r].kind = kind /\ call'[r].step = step /\ call'[r].fold = call[r].fold
  /\ call'[r].answer = call[r].answer /\ call'[r].folded = call[r].folded
  /\ \A p \in Calls \ {r} : call'[p] = call[p]

LEMMA StepWritten ==
  ASSUME Base, NEW r \in Calls, NEW step \in Steps, call' = [call EXCEPT ![r].step = step]
  PROVE  Entered(r, call[r].kind, step)
<1> DEFINE q == call[r]
           k == [q EXCEPT !.step = step]
<1>1. call \in [Calls -> CallStates] /\ q \in CallStates
  BY DEF Base
<1>2. call' = [call EXCEPT ![r] = k]
  BY <1>1
<1> HIDE DEF q
<1>3. /\ k \in CallStates /\ k.kind = q.kind /\ k.step = step /\ k.fold = q.fold
      /\ k.folded = q.folded /\ k.answer = q.answer
  BY <1>1, WithStep
<1> HIDE DEF k
<1>4. OneWritten(r, k)
  BY <1>2, <1>3, CallWritten
<1> QED BY <1>3, <1>4 DEF OneWritten, Entered, q

LEMMA KindWritten ==
  ASSUME Base, NEW r \in Calls, NEW kind \in Kinds, NEW step \in Steps,
         call' = [call EXCEPT ![r].kind = kind, ![r].step = step]
  PROVE  Entered(r, kind, step)
<1> DEFINE q == call[r]
           h == [q EXCEPT !.kind = kind]
           k == [h EXCEPT !.step = step]
<1>1. call \in [Calls -> CallStates] /\ q \in CallStates
  BY DEF Base
<1>2. call' = [call EXCEPT ![r] = k]
  BY <1>1
<1> HIDE DEF q
<1>3. /\ h \in CallStates /\ h.kind = kind /\ h.fold = q.fold
      /\ h.folded = q.folded /\ h.answer = q.answer
  BY <1>1, WithKind
<1> HIDE DEF h
<1>4. /\ k \in CallStates /\ k.kind = kind /\ k.step = step /\ k.fold = q.fold
      /\ k.folded = q.folded /\ k.answer = q.answer
  BY <1>3, WithStep
<1> HIDE DEF k
<1>5. OneWritten(r, k)
  BY <1>2, <1>4, CallWritten
<1> QED BY <1>4, <1>5 DEF OneWritten, Entered, q

(* A route has written its rows: they follow the files as before. *)
LEMMA RowsWrittenInv ==
  ASSUME ResultsInv, RowsWritten, conn' = conn, intent' = intent, job' = job, doubt' = doubt,
         db.user, \A S : InTurn(S)' <=> InTurn(S), Runner' = Runner,
         chain # <<>> => (Deleting(Runner)' <=> Deleting(Runner))
  PROVE  RowsInv'
<1>1. RowsInv
  BY DEF ResultsInv
<1>2. \A s \in Servers, a \in Accounts :
        /\ db'.rows[s][a] = "none" => db.rows[s][a] = "none"
        /\ db'.rows[s][a] # "none" => Mine(s, a)
  BY <1>1 DEF RowsInv, RowsWritten
<1>3. doubt \/ RowsFollowFiles'
  BY <1>1, <1>2 DEF RowsInv, RowsFollowFiles
<1>4. \A s \in Servers : Active(s)' = Active(s)
  BY DEF Active, RowsOf
<1>5. InTurn({"reading", "running"}) => chain # <<>>
  BY DEF InTurn
<1>6. /\ ~db'.user => db'.rows = NoRows
      /\ \A s \in Servers, a \in Accounts :
           /\ db'.rows[s][a] # "none" => Mine(s, a)
           /\ intent'.rows[s][a] # "none" => Mine(s, a)
           /\ intent'.rows[s][a] # "none" /\ job'[s].phase # "done" => db'.rows[s][a] # "none"
  BY <1>1, <1>2 DEF RowsInv, RowsWritten
<1>7. InTurn({"reading", "running"})' /\ Deleting(Runner)' => \A s \in Servers : Active(s)' = {}
  BY <1>1, <1>4, <1>5 DEF RowsInv
<1>8. doubt' \/ (InTurn({"reading", "running"})' =>
       \A s \in Servers, a \in Accounts :
         intent'.rows[s][a] = "none" => (conn'[s].file[a] # Absent <=> ~Mine(s, a)))
  BY <1>1 DEF RowsInv
<1> QED BY <1>3, <1>6, <1>7, <1>8 DEF RowsInv, Mine

LEMMA JobsShapeFrame ==
  ASSUME JobsShape, intent' = intent, job' = job, \A S : InTurn(S)' <=> InTurn(S)
  PROVE  JobsShape'
BY DEF JobsShape, KeysOf, AllDone

(* The routes: committed calls are still to come. *)
LEMMA CommitResults ==
  ASSUME ResultsInv, NEW r \in Calls, Commit(r)
  PROVE  ResultsInv'
<1>0. /\ conn' = conn /\ chain' = chain /\ intent' = intent /\ secret' = secret /\ job' = job
      /\ last' = last /\ doubt' = doubt /\ lost' = lost /\ budget' = budget
      /\ call[r].step = "new" /\ db.user
  BY DEF Commit
<1>1. PICK kind \in {"put", "remove", "redo", "delete"} : Committed(r, kind)
  <2>1. ASSUME NEW p \in Puts, CommitPut(r, p.account, p.value, p.servers) PROVE Committed(r, "put")
    BY <2>1 DEF CommitPut
  <2>2. ASSUME NEW a \in Accounts, CommitRemove(r, a) PROVE Committed(r, "remove")
    BY <2>2 DEF CommitRemove
  <2>3. \/ Committed(r, "put") \/ Committed(r, "remove")
        \/ \E kind \in {"redo", "delete"} : Committed(r, kind)
    BY <2>1, <2>2 DEF Commit
  <2> QED BY <2>3
<1>2. Base /\ ChainShape
  BY DEF ResultsInv
<1>3. RowsWritten
  <2>1. db \in Databases
    BY <1>2 DEF Base
  <2>2. db' = db => RowsWritten
    BY <2>1 DEF RowsWritten
  <2> QED BY <2>1, <2>2, CommitPutRows, CommitRemoveRows DEF Commit
<1>4. call \in [Calls -> CallStates]
  BY <1>2 DEF Base
<1>5. /\ call'[r].step = "committed" /\ call'[r].kind = kind /\ call'[r].fold = call[r].fold
      /\ call' \in [Calls -> CallStates]
      /\ \A q \in Calls \ {r} : call'[q] = call[q]
  <2>1. Entered(r, kind, "committed")
    BY <1>1, <1>2, KindWritten DEF Committed, Kinds, Steps
  <2> QED BY <2>1, SMTT(30) DEF Entered
<1>6. /\ ChainShape' /\ Runner' = Runner
      /\ chain # <<>> => (Deleting(Runner)' <=> Deleting(Runner))
      /\ \A S : InTurn(S)' <=> InTurn(S)
  BY <1>0, <1>2, <1>5, OutsideTurns DEF Turn
<1>7. Base'
  BY <1>0, <1>2, <1>3, <1>5 DEF Base, RowsWritten
<1>8. FoldShape'
  BY <1>0, <1>5 DEF ResultsInv, FoldShape
<1>9. JobsShape'
  BY <1>0, <1>6, JobsShapeFrame DEF ResultsInv
<1>10. \A s \in Servers : ServerInv(s, Runner, At(s), doubt)'
  <2>1. \A s \in Servers : job[s].phase = "settle" => chain # <<>>
    BY DEF ResultsInv, JobsShape, InTurn
  <2> QED BY <1>0, <1>6, <2>1, KeepServers
<1>11. RowsInv'
  BY <1>0, <1>3, <1>6, RowsWrittenInv
<1>12. ChipInv'
  <2>1. Coming'
    BY <1>5 DEF Coming
  <2> QED BY <2>1 DEF ChipInv
<1> QED BY <1>6, <1>7, <1>8, <1>9, <1>10, <1>11, <1>12 DEF ResultsInv

(* Rows, values and results stay as they are. *)
LEMMA RowsFrame ==
  ASSUME ResultsInv, db'.rows = db.rows, db'.user = db.user,
         conn' = conn, intent' = intent, job' = job, doubt' = doubt,
         \A S : InTurn(S)' <=> InTurn(S), Runner' = Runner,
         chain # <<>> => (Deleting(Runner)' <=> Deleting(Runner))
  PROVE  RowsInv'
<1>1. RowsInv
  BY DEF ResultsInv
<1>2. RowsFollowFiles' <=> RowsFollowFiles
  BY DEF RowsFollowFiles
<1>3. \A s \in Servers : Active(s)' = Active(s)
  BY DEF Active, RowsOf
<1>4. InTurn({"reading", "running"}) => chain # <<>>
  BY DEF InTurn
<1> QED BY <1>1, <1>2, <1>3, <1>4 DEF RowsInv, Mine

LEMMA EnqueueResults ==
  ASSUME ResultsInv, NEW r \in Calls, Enqueue(r)
  PROVE  ResultsInv'
<1>0. /\ db' = db /\ conn' = conn /\ intent' = intent /\ secret' = secret /\ job' = job
      /\ last' = last /\ doubt' = doubt /\ lost' = lost /\ budget' = budget
      /\ call[r].step = "committed" /\ chain' = Append(chain, r)
  BY DEF Enqueue
<1>1. Base /\ ChainShape /\ call \in [Calls -> CallStates] /\ chain \in Seq(Calls)
  BY DEF ResultsInv, Base, ChainShape
<1>2. /\ call'[r].step = "waiting" /\ call'[r].kind = call[r].kind /\ call'[r].fold = call[r].fold
      /\ call' \in [Calls -> CallStates]
      /\ \A q \in Calls \ {r} : call'[q] = call[q]
  <2>1. Entered(r, call[r].kind, "waiting")
    BY <1>1, StepWritten DEF Enqueue, Steps
  <2> QED BY <2>1 DEF Entered
<1>3. \A i \in DOMAIN chain : chain[i] \in Calls /\ chain[i] # r
  BY <1>0, <1>1 DEF ChainShape, Turn
<1>4. /\ Append(chain, r) \in Seq(Calls) /\ Append(chain, r) # <<>>
      /\ DOMAIN Append(chain, r) = DOMAIN chain \cup {Len(chain) + 1}
      /\ Len(chain) + 1 \notin DOMAIN chain
      /\ \A i \in DOMAIN chain : Append(chain, r)[i] = chain[i] /\ i \in Nat /\ i < Len(chain) + 1
      /\ Append(chain, r)[Len(chain) + 1] = r
  BY <1>1, AppendFacts
<1>5. chain # <<>> => Runner' = Runner /\ Runner \in Calls /\ Runner # r /\ call[Runner].step \in Turn
  BY <1>0, <1>1, <1>4, RunnerFacts DEF Runner, Turn
<1>6. chain = <<>> => Runner' = r
  BY <1>0 DEF Runner
<1>7. ChainShape'
  <2> DEFINE c == Append(chain, r)
             n == Len(chain) + 1
  <2> HIDE DEF c, n
  <2>1. /\ c \in Seq(Calls) /\ DOMAIN c = DOMAIN chain \cup {n} /\ n \notin DOMAIN chain /\ c[n] = r
        /\ \A i \in DOMAIN chain : c[i] = chain[i] /\ chain[i] \in Calls /\ chain[i] # r
    BY <1>3, <1>4 DEF c, n
  <2>2. \A i, j \in DOMAIN c : c[i] = c[j] => i = j
    BY <1>1, <2>1 DEF ChainShape
  <2>3. \A q \in Calls : call'[q].step \in Turn <=> \E i \in DOMAIN c : c[i] = q
    BY <1>0, <1>1, <1>2, <2>1 DEF ChainShape, Turn
  <2>4. \A i \in DOMAIN c : i > 1 => call'[c[i]].step = "waiting"
    BY <1>1, <1>2, <2>1 DEF ChainShape
  <2>5. chain' = c
    BY <1>0 DEF c
  <2> QED BY <2>1, <2>2, <2>3, <2>4, <2>5 DEF ChainShape
<1>8. /\ InTurn({"reading", "running", "deleting"})' <=> InTurn({"reading", "running", "deleting"})
      /\ InTurn({"running", "deleting"})' <=> InTurn({"running", "deleting"})
      /\ InTurn({"reading", "running"})' <=> InTurn({"reading", "running"})
      /\ InTurn({"running"})' <=> InTurn({"running"})
      /\ InTurn({"deleting"})' <=> InTurn({"deleting"})
  BY <1>0, <1>2, <1>4, <1>5, <1>6 DEF InTurn
<1>9. chain # <<>> => (Deleting(Runner)' <=> Deleting(Runner))
  BY <1>2, <1>5 DEF Deleting
<1>10. InTurn({"reading", "running"}) => chain # <<>>
  BY DEF InTurn
<1>11. Base'
  BY <1>0, <1>1, <1>2 DEF Base
<1>12. FoldShape'
  BY <1>0, <1>2 DEF ResultsInv, FoldShape
<1>13. JobsShape'
  BY <1>0, <1>8 DEF ResultsInv, JobsShape, KeysOf, AllDone
<1>14. \A s \in Servers : ServerInv(s, Runner, At(s), doubt)'
  <2>1. \A s \in Servers : job[s].phase = "settle" => chain # <<>>
    BY DEF ResultsInv, JobsShape, InTurn
  <2> QED BY <1>0, <1>9, <2>1, KeepServers
<1>15. RowsInv'
  <2>1. RowsInv
    BY DEF ResultsInv
  <2>2. RowsFollowFiles' <=> RowsFollowFiles
    BY <1>0 DEF RowsFollowFiles
  <2>3. \A s \in Servers : Active(s)' = Active(s)
    BY <1>0 DEF Active, RowsOf
  <2> QED BY <1>0, <1>8, <1>9, <1>10, <2>1, <2>2, <2>3 DEF RowsInv, Mine
<1>16. ChipInv'
  <2>1. Coming'
    BY <1>2 DEF Coming
  <2> QED BY <2>1 DEF ChipInv
<1> QED BY <1>7, <1>11, <1>12, <1>13, <1>14, <1>15, <1>16 DEF ResultsInv

(* The call whose turn it is goes on. *)
LEMMA HeadMoves ==
  ASSUME ChainShape, chain # <<>>, NEW r, r = Runner, chain' = chain, NEW kind, NEW step \in Turn,
         Entered(r, kind, step), kind = call[r].kind
  PROVE  /\ r \in Calls /\ ChainShape' /\ Runner' = Runner
         /\ Deleting(Runner)' <=> Deleting(Runner)
         /\ \A S : (InTurn(S) <=> call[r].step \in S) /\ (InTurn(S)' <=> step \in S)
<1>1. r = chain[1] /\ 1 \in DOMAIN chain /\ r \in Calls
  BY TailFacts DEF ChainShape, Runner
<1>2. call[r].step \in Turn
  BY <1>1 DEF ChainShape
<1>3. \A i \in DOMAIN chain : chain[i] \in Calls /\ (i > 1 => chain[i] # r)
  BY <1>1 DEF ChainShape
<1>4. Runner' = Runner
  BY DEF Runner
<1>5. ChainShape'
  BY <1>1, <1>2, <1>3 DEF ChainShape, Entered
<1>6. call'[r].step = step /\ call'[r].kind = call[r].kind
  BY DEF Entered
<1> QED BY <1>1, <1>4, <1>5, <1>6 DEF InTurn, Deleting

(* Nothing is under way for a server any more, or not yet. *)
LEMMA IdleNext ==
  ASSUME NEW s, ServerInv(s, Runner, At(s), doubt), Awaited(job[s]) = {},
         conn'[s] = conn[s], job'[s] = Idle, doubt => doubt'
  PROVE  ServerInv(s, Runner, At(s), doubt)'
<1>1. At(s).conn = conn[s] /\ At(s).job = job[s] /\ At(s)'.conn = conn[s] /\ At(s)'.job = Idle
  BY DEF At
<1>2. Idle \in Jobs /\ Idle.ops = <<>> /\ Idle.removed = {} /\ Idle.result = "none" /\ Idle.phase = "off"
  BY VerdictNames DEF Idle, Jobs
<1>3. ConnInv(conn[s]) /\ conn[s].out = NoOutcome /\ JobCmds(conn[s]) = {} /\ (doubt' \/ LineInv(conn[s]))
  BY <1>1 DEF ServerInv
<1>4. (ConnInv(At(s).conn) /\ At(s).conn.out = NoOutcome /\ (doubt \/ LineInv(At(s).conn)))'
  BY <1>1, <1>3
<1>5. (JobCmds(At(s).conn) = Awaited(At(s).job))'
  BY <1>1, <1>2, <1>3 DEF Awaited
<1>6. JobShape(At(s).job, Runner)'
  BY <1>1, <1>2 DEF JobShape
<1>7. Worked(s, At(s).job, At(s).conn.file)'
  BY <1>1, <1>2 DEF Worked
<1> QED BY <1>4, <1>5, <1>6, <1>7 DEF ServerInv

(* A deletion takes every row as removing. *)
LEMMA ReadFields ==
  ASSUME db \in Databases, NEW r
  PROVE  /\ ReadRows(r) \in [rows : [Servers -> [Accounts -> States]], value : [Accounts -> Values]]
         /\ \A s \in Servers, a \in Accounts :
              /\ ReadRows(r).rows[s][a] = "none" <=> db.rows[s][a] = "none"
              /\ Deleting(r) => ReadRows(r).rows[s][a] # "active"
         /\ KeysOf(ReadRows(r).rows) = KeysOf(db.rows)
<1> DEFINE rows == [s \in Servers |-> [a \in Accounts |->
                      IF Deleting(r) /\ db.rows[s][a] # "none" THEN "removing" ELSE db.rows[s][a]]]
<1>1. db.rows \in [Servers -> [Accounts -> States]] /\ db.value \in [Accounts -> Values]
  BY DbFields
<1>2. \A s \in Servers, a \in Accounts :
        /\ db.rows[s][a] \in States /\ rows[s][a] \in States
        /\ rows[s][a] = "none" <=> db.rows[s][a] = "none"
        /\ Deleting(r) => rows[s][a] # "active"
  BY <1>1 DEF States
<1>3. rows \in [Servers -> [Accounts -> States]]
  BY <1>1 DEF States
<1>4. ReadRows(r) = [rows |-> rows, value |-> db.value]
  BY DEF ReadRows
<1> HIDE DEF rows
<1>5. KeysOf(rows) = KeysOf(db.rows)
  BY <1>2 DEF KeysOf
<1> QED BY <1>1, <1>2, <1>3, <1>4, <1>5

(* The rows are read when no job is there to be misled by them. *)
LEMMA ReadIntentResults ==
  ASSUME ResultsInv, NEW r \in Calls, ReadIntent(r)
  PROVE  ResultsInv'
<1>0. /\ db' = db /\ conn' = conn /\ chain' = chain /\ secret' = secret /\ job' = job
      /\ last' = last /\ doubt' = doubt /\ lost' = lost /\ budget' = budget
      /\ call[r].step = "waiting" /\ chain # <<>> /\ r = Runner /\ intent' = ReadRows(r)
  BY DEF ReadIntent, Runner
<1>1. Base /\ ChainShape /\ db \in Databases
  BY DEF ResultsInv, Base
<1>2. Entered(r, call[r].kind, "reading")
  BY <1>1, StepWritten DEF ReadIntent, Steps
<1>3. /\ ChainShape' /\ Runner' = Runner
      /\ Deleting(Runner)' <=> Deleting(Runner)
      /\ \A S : (InTurn(S) <=> call[r].step \in S) /\ (InTurn(S)' <=> "reading" \in S)
  BY <1>0, <1>1, <1>2, HeadMoves DEF Turn
<1>4. \A s \in Servers : job[s] = Idle /\ job[s].phase = "off"
  BY <1>0, <1>3, NobodyAtWork
<1>5. /\ intent' \in [rows : [Servers -> [Accounts -> States]], value : [Accounts -> Values]]
      /\ \A s \in Servers, a \in Accounts :
           /\ intent'.rows[s][a] = "none" <=> db.rows[s][a] = "none"
           /\ Deleting(r) => intent'.rows[s][a] # "active"
      /\ KeysOf(intent'.rows) = KeysOf(db.rows)
  BY <1>0, <1>1, ReadFields
<1>6. Base'
  BY <1>0, <1>1, <1>2, <1>5 DEF Base, Entered
<1>7. FoldShape'
  BY <1>0, <1>2 DEF ResultsInv, FoldShape, Entered
<1>8. JobsShape'
  BY <1>0, <1>3, <1>4 DEF JobsShape
<1>9. \A s \in Servers : ServerInv(s, Runner, At(s), doubt)'
  <2> TAKE s \in Servers
  <2>1. Awaited(job[s]) = {}
    BY <1>4 DEF Awaited
  <2> QED BY <1>0, <1>4, <2>1, BaseFacts, IdleNext
<1>10. RowsInv'
  <2>1. RowsInv
    BY DEF ResultsInv
  <2>2. doubt' \/ RowsFollowFiles'
    BY <1>0, <2>1 DEF RowsInv, RowsFollowFiles
  <2>3. Deleting(r) => \A s \in Servers : Active(s)' = {}
    BY <1>5 DEF Active, RowsOf
  <2>4. doubt' \/ \A s \in Servers, a \in Accounts :
           intent'.rows[s][a] = "none" => (conn'[s].file[a] # Absent <=> ~Mine(s, a))
    BY <1>0, <1>5, <2>1 DEF RowsInv, RowsFollowFiles, Mine
  <2>5. \A s \in Servers, a \in Accounts :
          /\ db'.rows[s][a] # "none" => Mine(s, a)
          /\ intent'.rows[s][a] # "none" => Mine(s, a) /\ db'.rows[s][a] # "none"
    BY <1>0, <1>5, <2>1 DEF RowsInv
  <2>6. ~db'.user => db'.rows = NoRows
    BY <1>0, <2>1 DEF RowsInv
  <2> QED BY <1>0, <1>3, <2>2, <2>3, <2>4, <2>5, <2>6 DEF RowsInv, Mine
<1>11. ChipInv'
  BY <1>0, <1>3, <1>5 DEF ChipInv, KeysOf
<1> QED BY <1>3, <1>6, <1>7, <1>8, <1>9, <1>10, <1>11 DEF ResultsInv

(* The work of the servers goes on; their files do not change. *)
LEMMA FilesFrame ==
  ASSUME ResultsInv, db' = db, intent' = intent, doubt' = doubt,
         \A s \in Servers : /\ conn'[s].file = conn[s].file
                            /\ job[s].phase = "done" => job'[s].phase = "done",
         InTurn({"reading", "running"})' <=> InTurn({"reading", "running"}), Runner' = Runner,
         Deleting(Runner)' <=> Deleting(Runner)
  PROVE  RowsInv'
<1>1. RowsInv
  BY DEF ResultsInv
<1>2. RowsFollowFiles' <=> RowsFollowFiles
  BY DEF RowsFollowFiles
<1>3. \A s \in Servers : Active(s)' = Active(s)
  BY DEF Active, RowsOf
<1> QED BY <1>1, <1>2, <1>3 DEF RowsInv, Mine

(* Every server with rows gets its job. *)
LEMMA BeginResults ==
  ASSUME ResultsInv, NEW r \in Calls, Begin(r)
  PROVE  ResultsInv'
<1>0. /\ db' = db /\ chain' = chain /\ secret' = secret /\ intent' = intent
      /\ last' = last /\ doubt' = doubt /\ lost' = lost /\ budget' = budget
      /\ call[r].step = "reading"
  BY DEF Begin
<1>1. Base /\ ChainShape /\ call[r].step \notin {"running", "deleting"}
  BY <1>0 DEF ResultsInv
<1>2. chain # <<>> /\ r = Runner
  BY <1>0, <1>1, RunnerFacts
<1>3. Entered(r, call[r].kind, "running")
  BY <1>1, StepWritten DEF Begin, Steps
<1>4. /\ ChainShape' /\ Runner' = Runner
      /\ Deleting(Runner)' <=> Deleting(Runner)
      /\ \A S : (InTurn(S) <=> call[r].step \in S) /\ (InTurn(S)' <=> "running" \in S)
  BY <1>0, <1>1, <1>2, <1>3, HeadMoves DEF Turn
<1>5. \A s \in Servers : job[s] = Idle /\ job[s].phase = "off" /\ Awaited(job[s]) = {}
  BY <1>1, <1>4, NobodyAtWork DEF Awaited
<1>6. ASSUME NEW s \in KeysOf(intent.rows)
      PROVE  LET y == StartJob(s, r)
             IN  ServerInv(s, r, y, doubt) /\ y.job.phase # "off" /\ y.conn.file = conn[s].file
  <2>1. s \in Servers
    BY DEF KeysOf
  <2>2. /\ Values_read /\ ConnInv(conn[s]) /\ conn[s].out = NoOutcome /\ JobCmds(conn[s]) = {}
        /\ (doubt \/ LineInv(conn[s]))
    BY <1>5, <2>1, BaseFacts
  <2> QED BY <2>2, StartJobFacts
<1>7. \A s \in Servers :
        /\ s \in KeysOf(intent.rows) => conn'[s] = StartJob(s, r).conn /\ job'[s] = StartJob(s, r).job
        /\ s \notin KeysOf(intent.rows) => conn'[s] = conn[s] /\ job'[s] = Idle
  BY DEF Begin
<1>8. Base'
  <2>1. conn' = [s \in Servers |-> conn'[s]] /\ job' = [s \in Servers |-> job'[s]]
    BY DEF Begin
  <2> QED BY <1>0, <1>1, <1>3, <2>1 DEF Base, Entered
<1>9. FoldShape'
  BY <1>0, <1>3 DEF ResultsInv, FoldShape, Entered
<1>10. \A s \in Servers : job'[s].phase # "off" <=> s \in KeysOf(intent.rows)
  BY <1>5, <1>6, <1>7 DEF Idle
<1>11. JobsShape'
  BY <1>0, <1>4, <1>10 DEF JobsShape, KeysOf
<1>12. \A s \in Servers : ServerInv(s, Runner, At(s), doubt)'
  <2> TAKE s \in Servers
  <2>1. CASE s \in KeysOf(intent.rows)
    <3>1. ServerInv(s, Runner, StartJob(s, r), doubt')
      BY <1>0, <1>2, <1>6, <2>1
    <3> QED BY <1>0, <1>4, <1>7, <2>1, <3>1, ServerFrame
  <2>2. CASE s \notin KeysOf(intent.rows)
    BY <1>0, <1>5, <1>7, <2>2, BaseFacts, IdleNext
  <2> QED BY <2>1, <2>2
<1>13. RowsInv'
  <2>1. \A s \in Servers : /\ conn'[s].file = conn[s].file
                           /\ job[s].phase = "done" => job'[s].phase = "done"
    BY <1>5, <1>6, <1>7
  <2>2. InTurn({"reading", "running"})' <=> InTurn({"reading", "running"})
    BY <1>0, <1>4
  <2> QED BY <1>0, <1>4, <2>1, <2>2, FilesFrame
<1>14. ChipInv'
  <2>1. Coming' <=> Coming
    BY <1>0, <1>3 DEF Coming, Entered
  <2> QED BY <1>0, <1>4, <2>1 DEF ResultsInv, ChipInv, KeysOf
<1> QED BY <1>4, <1>8, <1>9, <1>11, <1>12, <1>13, <1>14 DEF ResultsInv

(* All servers that waited for the password go on. *)
LEMMA PasswordReadResults ==
  ASSUME ResultsInv, PasswordRead
  PROVE  ResultsInv'
<1> DEFINE waiting == {s \in Servers : job[s].phase = "password"}
           y(s) == Proceed([conn |-> conn[s], job |-> job[s]], Head(chain), secret')
<1>0. /\ db' = db /\ chain' = chain /\ call' = call /\ intent' = intent
      /\ last' = last /\ doubt' = doubt /\ lost' = lost
      /\ budget' \in 0..MaxMishaps /\ secret' \in {"read", "bad"}
  BY BudgetFacts DEF PasswordRead
<1>1. Base /\ ChainShape /\ SameSteps
  BY <1>0 DEF ResultsInv, SameSteps
<1>2. /\ ChainShape' /\ Runner' = Runner /\ (\A S : InTurn(S)' <=> InTurn(S)) /\ (Coming' <=> Coming)
      /\ (Deleting(Runner)' <=> Deleting(Runner))
  BY <1>0, <1>1, SameTurns DEF Deleting, Runner
<1>3. ASSUME NEW s \in waiting
      PROVE  ServerInv(s, Runner, y(s), doubt) /\ y(s).job.phase # "off" /\ y(s).conn.file = conn[s].file
  <2> DEFINE x == [conn |-> conn[s], job |-> job[s]]
  <2>1. s \in Servers /\ job[s].phase = "password"
    OBVIOUS
  <2>2. /\ Values_read /\ ConnInv(conn[s]) /\ conn[s] \in Conns /\ conn[s].out = NoOutcome
        /\ doubt \/ LineInv(conn[s])
        /\ JobCmds(conn[s]) = Awaited(job[s])
        /\ doubt \/ Worked(s, job[s], conn[s].file)
        /\ job[s] \in Jobs /\ JobShape(job[s], Runner)
    BY <2>1, BaseFacts
  <2>3. job[s].result = "none" /\ Awaited(job[s]) = {}
    BY <2>1, <2>2 DEF JobShape, Awaited
  <2>4. doubt \/ Pending(s, job[s], conn[s].file)
    BY <2>1, <2>2 DEF Worked, Pending
  <2>5. Ready(s, x, doubt) /\ x.conn = conn[s]
    BY <2>2, <2>3, <2>4 DEF Ready
  <2> HIDE DEF x
  <2>6. LET z == Proceed(x, Runner, secret')
        IN  ServerInv(s, Runner, z, doubt) /\ z.job.phase # "off" /\ z.conn.file = x.conn.file
    BY <2>2, <2>5, ProceedFacts
  <2> QED BY <2>5, <2>6 DEF x, Runner
<1>4. \A s \in Servers :
        /\ s \in waiting => conn'[s] = y(s).conn /\ job'[s] = y(s).job
        /\ s \notin waiting => conn'[s] = conn[s] /\ job'[s] = job[s]
  BY DEF PasswordRead
<1>5. Base'
  <2>1. conn' = [s \in Servers |-> conn'[s]] /\ job' = [s \in Servers |-> job'[s]]
    BY DEF PasswordRead
  <2> QED BY <1>0, <1>1, <2>1 DEF Base
<1> HIDE DEF y
<1>6. \A s \in Servers : /\ conn'[s].file = conn[s].file
                         /\ job'[s].phase # "off" <=> job[s].phase # "off"
                         /\ job[s].phase = "done" => job'[s].phase = "done"
                         /\ job[s].phase \in {"off", "done"} => job'[s] = job[s]
  BY <1>3, <1>4
<1>7. FoldShape'
  BY <1>0 DEF ResultsInv, FoldShape
<1>8. JobsShape'
  <2>1. AllDone => AllDone'
    BY <1>6 DEF AllDone
  <2> QED BY <1>0, <1>2, <1>6, <2>1 DEF ResultsInv, JobsShape, KeysOf
<1>9. \A s \in Servers : ServerInv(s, Runner, At(s), doubt)'
  <2> TAKE s \in Servers
  <2>1. CASE s \in waiting
    <3>1. ServerInv(s, Runner, y(s), doubt')
      BY <1>0, <1>3, <2>1
    <3> QED BY <1>0, <1>2, <1>4, <2>1, <3>1, ServerFrame
  <2>2. CASE s \notin waiting
    <3>1. ServerInv(s, Runner, At(s), doubt') /\ conn'[s] = At(s).conn /\ job'[s] = At(s).job
      BY <1>0, <1>4, <2>2, BaseFacts DEF At
    <3> QED BY <1>0, <1>2, <3>1, ServerFrame
  <2> QED BY <2>1, <2>2
<1>10. RowsInv'
  BY <1>0, <1>2, <1>6, FilesFrame
<1>11. ChipInv'
  BY <1>0, <1>2 DEF ResultsInv, ChipInv, KeysOf
<1> QED BY <1>2, <1>5, <1>7, <1>8, <1>9, <1>10, <1>11 DEF ResultsInv

(* What the database and a job are after settling. *)
Settled(s) == [db EXCEPT !.rows[s] = SettledRows(s)]
JobSettled(j) == [j EXCEPT !.phase = "done", !.removed = {}]

LEMMA SettledFields ==
  ASSUME db \in Databases, NEW s \in Servers
  PROVE  /\ Settled(s) \in Databases /\ Settled(s).user = db.user /\ Settled(s).chip = db.chip
         /\ \A t \in Servers, a \in Accounts :
              Settled(s).rows[t][a] = IF t = s THEN SettledRows(s)[a] ELSE db.rows[t][a]
<1> DEFINE rows == [db.rows EXCEPT ![s] = SettledRows(s)]
<1>1. db.rows \in [Servers -> [Accounts -> States]]
  BY DbFields
<1>2. SettledRows(s) \in [Accounts -> States]
  BY <1>1 DEF SettledRows, States
<1>3. rows \in [Servers -> [Accounts -> States]]
  BY <1>1, <1>2
<1>4. \A t \in Servers : rows[t] = IF t = s THEN SettledRows(s) ELSE db.rows[t]
  BY <1>1
<1>5. Settled(s) = [db EXCEPT !.rows = rows]
  BY DEF Databases, Settled
<1> HIDE DEF rows
<1>6. LET e == [db EXCEPT !.rows = rows]
      IN  e \in Databases /\ e.user = db.user /\ e.rows = rows /\ e.chip = db.chip
  BY <1>3, WithRows
<1>7. /\ Settled(s) \in Databases /\ Settled(s).user = db.user
      /\ Settled(s).rows = rows /\ Settled(s).chip = db.chip
  BY <1>5, <1>6
<1> QED BY <1>4, <1>7

LEMMA SettleJob ==
  ASSUME NEW j \in Jobs
  PROVE  /\ JobSettled(j) \in Jobs /\ JobSettled(j).phase = "done" /\ JobSettled(j).removed = {}
         /\ JobSettled(j).ops = j.ops /\ JobSettled(j).result = j.result
BY DEF Jobs, JobSettled

LEMMA SettleWrites ==
  ASSUME db \in Databases, job = [t \in Servers |-> job[t]], NEW s \in Servers, Settle(s)
  PROVE  /\ db' = Settled(s) \/ db' = db
         /\ job'[s] = JobSettled(job[s]) /\ \A t \in Servers : t # s => job'[t] = job[t]
         /\ job' = [t \in Servers |-> job'[t]]
<1> DEFINE k == JobSettled(job[s])
<1>1. job' = [job EXCEPT ![s] = k]
  BY DEF Settle, JobSettled
<1>2. db' = Settled(s) \/ db' = db
  BY DEF Settle, Settled
<1> HIDE DEF k
<1>3. job'[s] = k /\ (\A t \in Servers : t # s => job'[t] = job[t]) /\ job' = [t \in Servers |-> job'[t]]
  BY <1>1
<1> QED BY <1>2, <1>3 DEF k

(* A row is given up only when its account is gone from the server. *)
LEMMA SettleResults ==
  ASSUME ResultsInv, NEW s \in Servers, Settle(s)
  PROVE  ResultsInv'
<1> DEFINE k == JobSettled(job[s])
           y == [conn |-> conn[s], job |-> k]
<1>0. /\ conn' = conn /\ chain' = chain /\ call' = call /\ intent' = intent /\ secret' = secret
      /\ last' = last /\ doubt' = doubt /\ lost' = lost /\ job[s].phase = "settle"
      /\ budget' \in 0..MaxMishaps
  BY BudgetFacts DEF Settle
<1>1. Base /\ ChainShape /\ SameSteps /\ RowsInv /\ db \in Databases
  BY <1>0 DEF ResultsInv, SameSteps, Base
<1>2. /\ ChainShape' /\ Runner' = Runner /\ (\A S : InTurn(S)' <=> InTurn(S)) /\ (Coming' <=> Coming)
      /\ (Deleting(Runner)' <=> Deleting(Runner))
  BY <1>0, <1>1, SameTurns DEF Deleting, Runner
<1>3. /\ job[s] \in Jobs /\ JobShape(job[s], Runner)
      /\ ConnInv(conn[s]) /\ conn[s].out = NoOutcome /\ JobCmds(conn[s]) = Awaited(job[s])
      /\ doubt \/ (LineInv(conn[s]) /\ Worked(s, job[s], conn[s].file))
  BY BaseFacts
<1>4. /\ k \in Jobs /\ k.phase = "done" /\ k.removed = {} /\ k.ops = job[s].ops
      /\ k.result = job[s].result
  BY <1>3, SettleJob
<1>5. job[s].ops = <<>> /\ job[s].result # "none"
  BY <1>0, <1>3 DEF JobShape
<1>6. db' = Settled(s) \/ db' = db
  BY <1>1, SettleWrites DEF Base
<1>7. /\ job'[s] = k /\ (\A t \in Servers : t # s => job'[t] = job[t])
      /\ job' = [t \in Servers |-> job'[t]]
  BY <1>1, SettleWrites DEF Base
<1> HIDE DEF k
<1>8. ServerInv(s, Runner, y, doubt)
  <2>1. JobShape(k, Runner) /\ Awaited(k) = {} /\ Awaited(job[s]) = {}
    BY <1>0, <1>4, <1>5 DEF JobShape, Awaited
  <2>2. doubt \/ Worked(s, k, conn[s].file)
    BY <1>3, <1>4, <1>5 DEF Worked, Covers
  <2> QED BY <1>3, <2>1, <2>2 DEF ServerInv
<1>9. /\ db' \in Databases /\ db'.user = db.user /\ db'.chip = db.chip
      /\ \A t \in Servers, a \in Accounts :
           \/ db'.rows[t][a] = db.rows[t][a]
           \/ t = s /\ db'.rows[t][a] = SettledRows(s)[a]
  <2>1. CASE db' = db
    BY <1>1, <2>1
  <2>2. CASE db' = Settled(s)
    BY <1>1, <2>2, SettledFields
  <2> QED BY <1>6, <2>1, <2>2
<1>10. ASSUME NEW a \in Accounts
       PROVE  \/ SettledRows(s)[a] = db.rows[s][a]
              \/ /\ SettledRows(s)[a] = "none"
                 /\ doubt \/ db.rows[s][a] = "none" \/ conn[s].file[a] = Absent
  <2>1. CASE ~Deleting(Runner)
    BY <1>3, <2>1 DEF SettledRows, Worked, Runner
  <2>2. CASE Deleting(Runner)
    <3>1. SettledRows(s)[a] = "none"
      BY <2>2 DEF SettledRows, Runner
    <3>2. job[s].result = "ok" /\ (doubt \/ Covers(s, job[s], conn[s].file))
      BY <1>0, <1>3, <2>2 DEF JobShape, Worked
    <3>3. InTurn({"running", "deleting"}) /\ ~(InTurn({"deleting"}))
      BY <1>0 DEF ResultsInv, JobsShape, AllDone
    <3>4. InTurn({"reading", "running"})
      BY <3>3 DEF InTurn
    <3>5. Active(s) = {}
      BY <1>1, <2>2, <3>4 DEF RowsInv
    <3>6. intent.rows[s][a] \in States
      BY <1>1 DEF Base
    <3>7. intent.rows[s][a] = "none" \/ a \in Removing(s)
      BY <3>5, <3>6 DEF Active, Removing, RowsOf, States
    <3>8. intent.rows[s][a] = "none" => doubt \/ db.rows[s][a] = "none" \/ conn[s].file[a] = Absent
      BY <1>1, <3>4 DEF RowsInv
    <3>9. a \in Removing(s) => doubt \/ conn[s].file[a] = Absent
      BY <1>5, <3>2 DEF Covers
    <3> QED BY <3>1, <3>7, <3>8, <3>9
  <2> QED BY <2>1, <2>2
<1>11. \A t \in Servers, a \in Accounts :
         \/ db'.rows[t][a] = db.rows[t][a]
         \/ /\ t = s /\ db'.rows[t][a] = "none"
            /\ doubt \/ db.rows[t][a] = "none" \/ conn[t].file[a] = Absent
  BY <1>9, <1>10
<1>12. Base'
  BY <1>0, <1>1, <1>7, <1>9 DEF Base
<1>13. FoldShape'
  BY <1>0 DEF ResultsInv, FoldShape
<1>14. JobsShape'
  <2>1. \A t \in Servers : job'[t].phase # "off" <=> job[t].phase # "off"
    BY <1>0, <1>4, <1>7
  <2>2. AllDone => AllDone'
    BY <1>4, <1>7 DEF AllDone
  <2> QED BY <1>0, <1>2, <2>1, <2>2 DEF ResultsInv, JobsShape, KeysOf
<1>15. \A t \in Servers : ServerInv(t, Runner, At(t), doubt)'
  <2> TAKE t \in Servers
  <2>1. CASE t = s
    <3>1. ServerInv(s, Runner, y, doubt') /\ conn'[s] = y.conn /\ job'[s] = y.job
      BY <1>0, <1>7, <1>8
    <3> HIDE DEF y
    <3> QED BY <1>0, <1>2, <2>1, <3>1, ServerFrame
  <2>2. CASE t # s
    <3>1. ServerInv(t, Runner, At(t), doubt') /\ conn'[t] = At(t).conn /\ job'[t] = At(t).job
      BY <1>0, <1>7, <2>2, BaseFacts DEF At
    <3> QED BY <1>0, <1>2, <3>1, ServerFrame
  <2> QED BY <2>1, <2>2
<1>16. RowsInv'
  <2>1. \A t \in Servers : Active(t)' = Active(t)
    BY <1>0 DEF Active, RowsOf
  <2>2. ~db'.user => db'.rows = NoRows
    <3> SUFFICES ASSUME ~db'.user PROVE db'.rows = NoRows
      OBVIOUS
    <3>1. db.rows = NoRows /\ db'.rows \in [Servers -> [Accounts -> States]]
      BY <1>1, <1>9, DbFields DEF RowsInv
    <3>2. \A t \in Servers, a \in Accounts : db'.rows[t][a] = "none"
      BY <1>11, <3>1 DEF NoRows
    <3>3. \A t \in Servers : db'.rows[t] = [a \in Accounts |-> "none"]
      BY <3>1, <3>2
    <3> QED BY <3>1, <3>3 DEF NoRows
  <2>3. doubt' \/ RowsFollowFiles'
    <3>1. doubt \/ \A t \in Servers, a \in Accounts :
            db'.rows[t][a] = "none" => (conn[t].file[a] # Absent <=> <<t, a>> \in Foreign)
      <4> SUFFICES ASSUME ~doubt, NEW t \in Servers, NEW a \in Accounts, db'.rows[t][a] = "none"
                   PROVE  conn[t].file[a] # Absent <=> <<t, a>> \in Foreign
        OBVIOUS
      <4>1. CASE db.rows[t][a] = "none"
        BY <1>1, <4>1 DEF RowsInv, RowsFollowFiles
      <4>2. CASE db.rows[t][a] # "none"
        BY <1>1, <1>11, <4>2 DEF RowsInv, Mine
      <4> QED BY <4>1, <4>2
    <3> QED BY <1>0, <3>1 DEF RowsFollowFiles
  <2>4. \A t \in Servers, a \in Accounts :
          /\ db'.rows[t][a] # "none" => Mine(t, a)
          /\ intent'.rows[t][a] # "none" => Mine(t, a)
          /\ intent'.rows[t][a] # "none" /\ job'[t].phase # "done" => db'.rows[t][a] # "none"
    BY <1>0, <1>1, <1>4, <1>7, <1>11 DEF RowsInv
  <2> QED BY <1>0, <1>1, <1>2, <2>1, <2>2, <2>3, <2>4 DEF RowsInv, Mine
<1>17. ChipInv'
  <2>1. KeysOf(db'.rows) \subseteq KeysOf(db.rows)
    BY <1>11 DEF KeysOf
  <2> QED BY <1>0, <1>2, <1>9, <2>1 DEF ResultsInv, ChipInv, KeysOf
<1> QED BY <1>2, <1>12, <1>13, <1>14, <1>15, <1>16, <1>17 DEF ResultsInv

(* The answer at the deadline: only the phase of the fold moves. *)
FoldPhases == {"no", "reading", "recording", "done"}
Tellings == {"none", "full", "folded", "deleted", "error"}
Folded(q, folded, answer, fold) ==
  [q EXCEPT !.folded = folded, !.answer = answer, !.fold = fold]
FoldMoved(r, fold) ==
  /\ call' \in [Calls -> CallStates]
  /\ call'[r].kind = call[r].kind /\ call'[r].step = call[r].step /\ call'[r].fold = fold
  /\ \A p \in Calls \ {r} : call'[p] = call[p]

LEMMA WithFold ==
  ASSUME NEW q \in CallStates, NEW folded \in [Servers -> Verdicts], NEW answer \in Tellings,
         NEW fold \in FoldPhases
  PROVE  /\ Folded(q, folded, answer, fold) \in CallStates
         /\ Folded(q, folded, answer, fold).kind = q.kind
         /\ Folded(q, folded, answer, fold).step = q.step
         /\ Folded(q, folded, answer, fold).fold = fold
<1> DEFINE h == [q EXCEPT !.folded = folded]
           k == [h EXCEPT !.answer = answer]
           m == [k EXCEPT !.fold = fold]
<1>1. h \in CallStates /\ h.kind = q.kind /\ h.step = q.step
  BY DEF CallStates
<1>2. Folded(q, folded, answer, fold) = m
  BY DEF Folded, CallStates
<1> HIDE DEF h
<1>3. k \in CallStates /\ k.kind = q.kind /\ k.step = q.step
  BY <1>1 DEF CallStates, Tellings
<1> HIDE DEF k
<1>4. m \in CallStates /\ m.kind = q.kind /\ m.step = q.step /\ m.fold = fold
  BY <1>3 DEF CallStates, FoldPhases
<1> QED BY <1>2, <1>4

LEMMA FoldWritten ==
  ASSUME Base, NEW r \in Calls, NEW folded \in [Servers -> Verdicts], NEW answer \in Tellings,
         NEW fold \in FoldPhases, call' = [call EXCEPT ![r] = Folded(call[r], folded, answer, fold)]
  PROVE  FoldMoved(r, fold)
<1> DEFINE k == Folded(call[r], folded, answer, fold)
<1>1. call[r] \in CallStates
  BY DEF Base
<1>2. k \in CallStates /\ k.kind = call[r].kind /\ k.step = call[r].step /\ k.fold = fold
  BY <1>1, WithFold
<1>3. call' = [call EXCEPT ![r] = k]
  OBVIOUS
<1> HIDE DEF k
<1>4. OneWritten(r, k)
  BY <1>2, <1>3, CallWritten
<1> QED BY <1>2, <1>4 DEF OneWritten, FoldMoved

LEMMA FoldGiven ==
  ASSUME ResultsInv, NEW r \in Calls, NEW keys, Fold(r, keys)
  PROVE  \E fold \in {"recording", "done"} : FoldMoved(r, fold)
<1> DEFINE results == [s \in Servers |->
             IF s \notin keys THEN "none"
             ELSE IF call[r].step = "running" /\ job[s].phase = "done"
             THEN job[s].result ELSE "timeout"]
           fold == IF keys = {} THEN "done" ELSE "recording"
<1>1. \A s \in Servers : job[s].result \in Verdicts
  BY BaseFacts DEF Jobs
<1>2. results \in [Servers -> Verdicts]
  BY <1>1, VerdictNames DEF Verdicts
<1>3. fold \in {"recording", "done"} /\ fold \in FoldPhases /\ "folded" \in Tellings
  BY DEF FoldPhases, Tellings
<1>4. Base /\ call \in [Calls -> CallStates]
  BY DEF ResultsInv, Base
<1>5. call' = [call EXCEPT ![r].folded = results, ![r].answer = "folded", ![r].fold = fold]
  BY Zenon DEF Fold
<1> HIDE DEF results, fold
<1>6. call' = [call EXCEPT ![r] = Folded(call[r], results, "folded", fold)]
  BY <1>4, <1>5 DEF Folded
<1> QED BY <1>2, <1>3, <1>4, <1>6, FoldWritten

LEMMA PhaseSet ==
  ASSUME Base, NEW r \in Calls, NEW fold \in FoldPhases, call' = [call EXCEPT ![r].fold = fold]
  PROVE  FoldMoved(r, fold)
<1>1. call[r] \in CallStates /\ call[r].folded \in [Servers -> Verdicts] /\ call[r].answer \in Tellings
  BY CallFields DEF Tellings, Base
<1>2. PICK folded \in [Servers -> Verdicts], answer \in Tellings :
        folded = call[r].folded /\ answer = call[r].answer
  BY <1>1
<1>3. call' = [call EXCEPT ![r] = Folded(call[r], folded, answer, fold)]
  BY <1>1, <1>2 DEF Folded, CallStates
<1> QED BY <1>3, FoldWritten

(* What the fold may do to the results shown. *)
ChipMoves(r) ==
  /\ db' \in Databases /\ db'.rows = db.rows /\ db'.user = db.user
  /\ lost' \in BOOLEAN /\ (lost => lost') /\ budget' \in 0..MaxMishaps
  /\ db'.chip = db.chip \/ call[r].step \in {"waiting", "reading", "running"}

LEMMA FoldFrame ==
  ASSUME ResultsInv, NEW r \in Calls, NEW fold, FoldMoved(r, fold), ChipMoves(r),
         fold = "recording" => call[r].step \in {"waiting", "reading", "running"},
         fold = "reading" => call[r].step \notin {"new", "committed"},
         UNCHANGED <<conn, chain, intent, secret, job, last, doubt>>
  PROVE  ResultsInv'
<1>0. /\ conn' = conn /\ chain' = chain /\ intent' = intent /\ secret' = secret /\ job' = job
      /\ last' = last /\ doubt' = doubt
  OBVIOUS
<1>1. Base /\ ChainShape /\ SameSteps
  BY <1>0 DEF ResultsInv, FoldMoved, SameSteps
<1>2. /\ ChainShape' /\ Runner' = Runner
      /\ chain # <<>> => (Deleting(Runner)' <=> Deleting(Runner))
      /\ (\A S : InTurn(S)' <=> InTurn(S)) /\ (Coming' <=> Coming)
  BY <1>1, SameTurns
<1>3. Base'
  BY <1>0, <1>1 DEF Base, FoldMoved, ChipMoves
<1>4. FoldShape'
  BY DEF ResultsInv, FoldShape, FoldMoved
<1>5. JobsShape'
  BY <1>0, <1>2, JobsShapeFrame DEF ResultsInv
<1>6. \A s \in Servers : ServerInv(s, Runner, At(s), doubt)'
  <2>1. \A s \in Servers : job[s].phase = "settle" => chain # <<>>
    BY DEF ResultsInv, JobsShape, InTurn
  <2> QED BY <1>0, <1>2, <2>1, KeepServers
<1>7. RowsInv'
  BY <1>0, <1>2, RowsFrame DEF ChipMoves
<1>8. ChipInv'
  <2>1. ChipInv /\ (lost => lost') /\ KeysOf(db.rows)' = KeysOf(db.rows) /\ KeysOf(intent.rows)' = KeysOf(intent.rows)
    BY <1>0 DEF ResultsInv, KeysOf, ChipMoves
  <2>2. CASE db'.chip = db.chip
    BY <1>0, <1>2, <2>1, <2>2 DEF ChipInv, ChipMoves
  <2>3. CASE call[r].step = "waiting"
    <3>1. Coming
      BY <2>3 DEF Coming
    <3> QED BY <1>2, <3>1 DEF ChipInv
  <2>4. CASE call[r].step \in {"reading", "running"}
    <3>1. chain # <<>> /\ r = Runner
      BY <1>1, <2>4, RunnerFacts
    <3>2. InTurn({"reading", "running"})
      BY <2>4, <3>1 DEF InTurn
    <3> QED BY <1>2, <2>1, <3>2 DEF ChipInv
  <2> QED BY <2>2, <2>3, <2>4 DEF ChipMoves
<1> QED BY <1>2, <1>3, <1>4, <1>5, <1>6, <1>7, <1>8 DEF ResultsInv

LEMMA SameChip ==
  ASSUME ResultsInv, NEW r, db' = db, lost' = lost, budget' = budget
  PROVE  ChipMoves(r)
BY DEF ResultsInv, Base, ChipMoves

LEMMA DeadlineResults ==
  ASSUME ResultsInv, NEW r \in Calls, Deadline(r)
  PROVE  ResultsInv'
<1>1. /\ ChipMoves(r) /\ UNCHANGED <<conn, chain, intent, secret, job, last, doubt>>
      /\ call[r].step \in {"waiting", "reading", "running"}
  BY SameChip DEF Deadline
<1>2. Base
  BY DEF ResultsInv
<1>3. CASE call[r].step = "running"
  <2>1. Fold(r, KeysOf(intent.rows))
    BY <1>3 DEF Deadline
  <2>2. PICK fold \in {"recording", "done"} : FoldMoved(r, fold)
    BY <2>1, FoldGiven
  <2> QED BY <1>1, <2>2, FoldFrame
<1>4. CASE call[r].step # "running"
  <2>1. call' = [call EXCEPT ![r].fold = "reading"]
    BY <1>4 DEF Deadline
  <2>2. FoldMoved(r, "reading")
    BY <1>2, <2>1, PhaseSet DEF FoldPhases
  <2> QED BY <1>1, <2>2, FoldFrame
<1> QED BY <1>3, <1>4

LEMMA FoldReadResults ==
  ASSUME ResultsInv, NEW r \in Calls, FoldRead(r)
  PROVE  ResultsInv'
<1>1. /\ ChipMoves(r) /\ UNCHANGED <<conn, chain, intent, secret, job, last, doubt>>
      /\ call[r].fold = "reading"
  BY SameChip DEF FoldRead
<1>2. Base /\ call[r].step \notin {"new", "committed"}
      /\ call[r].step \in {"new", "committed", "waiting", "reading", "running", "deleting", "over"}
  BY <1>1, CallFields DEF ResultsInv, FoldShape
<1>3. CASE Finished(r)
  <2>1. call' = [call EXCEPT ![r].fold = "no"]
    BY <1>3 DEF FoldRead
  <2>2. FoldMoved(r, "no")
    BY <1>2, <2>1, PhaseSet DEF FoldPhases
  <2> QED BY <1>1, <2>2, FoldFrame
<1>4. CASE ~Finished(r)
  <2>1. Fold(r, KeysOf(db.rows)) /\ call[r].step \notin {"deleting", "over"}
    BY <1>4 DEF FoldRead, Finished
  <2>2. PICK fold \in {"recording", "done"} : FoldMoved(r, fold)
    BY <2>1, FoldGiven
  <2> QED BY <1>1, <1>2, <2>1, <2>2, FoldFrame
<1> QED BY <1>3, <1>4

LEMMA WithChip ==
  ASSUME NEW d \in Databases, NEW chip \in [Servers -> Verdicts]
  PROVE  LET e == [d EXCEPT !.chip = chip]
         IN  /\ e \in Databases /\ e.user = d.user /\ e.rows = d.rows /\ e.chip = chip
BY DEF Databases

(* What a record leaves. *)
LEMMA RecordWrites ==
  ASSUME ResultsInv, NEW results \in [Servers -> Verdicts], Record(results)
  PROVE  /\ db' \in Databases /\ db'.rows = db.rows /\ db'.user = db.user
         /\ lost' \in BOOLEAN /\ (lost => lost') /\ budget' \in 0..MaxMishaps
         /\ \/ lost'
            \/ \A s \in Servers :
                 db'.chip[s] = IF results[s] = "none" \/ ~db.user THEN db.chip[s] ELSE results[s]
<1> DEFINE chip == [s \in Servers |->
             IF results[s] = "none" \/ ~db.user THEN db.chip[s] ELSE results[s]]
<1>1. db \in Databases /\ lost \in BOOLEAN /\ budget \in 0..MaxMishaps
      /\ (Mishap => budget' \in 0..MaxMishaps)
  BY BudgetFacts DEF ResultsInv, Base
<1>2. chip \in [Servers -> Verdicts]
  BY <1>1, DbFields
<1>3. CASE db' = [db EXCEPT !.chip = chip] /\ UNCHANGED <<lost, budget>>
  <2> HIDE DEF chip
  <2>1. db' \in Databases /\ db'.user = db.user /\ db'.rows = db.rows /\ db'.chip = chip
    BY <1>1, <1>2, <1>3, WithChip
  <2> QED BY <1>1, <1>3, <2>1 DEF chip
<1>4. CASE UNCHANGED db /\ lost' = TRUE /\ Mishap
  BY <1>1, <1>4
<1>5. \/ db' = [db EXCEPT !.chip = chip] /\ UNCHANGED <<lost, budget>>
      \/ UNCHANGED db /\ lost' = TRUE /\ Mishap
  BY DEF Record
<1> QED BY <1>3, <1>4, <1>5

LEMMA FoldRecordedResults ==
  ASSUME ResultsInv, NEW r \in Calls, FoldRecorded(r)
  PROVE  ResultsInv'
<1>1. Base /\ call[r].folded \in [Servers -> Verdicts] /\ call[r].answer \in Tellings
      /\ call[r] \in CallStates /\ call \in [Calls -> CallStates]
  BY CallFields DEF ResultsInv, Base, Tellings
<1>2. call[r].step \in {"waiting", "reading", "running"}
  BY DEF FoldRecorded, ResultsInv, FoldShape
<1>3. ChipMoves(r)
  BY <1>1, <1>2, RecordWrites DEF FoldRecorded, ChipMoves
<1>4. NoChip \in [Servers -> Verdicts]
  BY DEF NoChip, Verdicts
<1>5. call' = [call EXCEPT ![r] = Folded(call[r], NoChip, call[r].answer, "done")]
  BY <1>1 DEF FoldRecorded, Folded, CallStates
<1>6. FoldMoved(r, "done")
  BY <1>1, <1>4, <1>5, FoldWritten DEF FoldPhases
<1>7. UNCHANGED <<conn, chain, intent, secret, job, last, doubt>>
  BY DEF FoldRecorded
<1> QED BY <1>3, <1>6, <1>7, FoldFrame

(* The end of a call. *)
OverCall(q, answer) ==
  [q EXCEPT !.step = "over", !.kind = "none", !.answer = IF @ = "none" THEN answer ELSE @]

LEMMA OverCallFields ==
  ASSUME NEW q \in CallStates, NEW answer \in {"full", "deleted", "error"}
  PROVE  /\ OverCall(q, answer) \in CallStates /\ OverCall(q, answer).step = "over"
         /\ OverCall(q, answer).fold = q.fold
<1> DEFINE h == [q EXCEPT !.step = "over"]
           k == [h EXCEPT !.kind = "none"]
           told == IF q.answer = "none" THEN answer ELSE q.answer
           m == [k EXCEPT !.answer = told]
<1>1. h \in CallStates /\ h.fold = q.fold /\ h.step = "over" /\ h.answer = q.answer
  BY DEF CallStates
<1>2. told \in Tellings /\ OverCall(q, answer) = m
  BY DEF OverCall, CallStates, Tellings
<1> HIDE DEF h, told
<1>3. k \in CallStates /\ k.fold = q.fold /\ k.step = "over"
  BY <1>1 DEF CallStates
<1> HIDE DEF k
<1>4. m \in CallStates /\ m.fold = q.fold /\ m.step = "over"
  BY <1>2, <1>3 DEF CallStates, Tellings
<1> QED BY <1>2, <1>4

Ended(r) ==
  /\ call' \in [Calls -> CallStates] /\ call'[r].step = "over" /\ call'[r].fold = call[r].fold
  /\ \A p \in Calls \ {r} : call'[p] = call[p]

(* A call that is over moved no other. *)
LEMMA OverWritten ==
  ASSUME Base, NEW r \in Calls, NEW answer \in {"full", "deleted", "error"}, Over(r, answer)
  PROVE  Ended(r)
<1> DEFINE k == OverCall(call[r], answer)
<1>1. call[r] \in CallStates /\ call \in [Calls -> CallStates]
  BY DEF Base
<1>2. k \in CallStates /\ k.step = "over" /\ k.fold = call[r].fold
  BY <1>1, OverCallFields
<1>3. call' = [call EXCEPT ![r] = k]
  BY <1>1 DEF Over, OverCall, CallStates
<1> HIDE DEF k
<1>4. OneWritten(r, k)
  BY <1>2, <1>3, CallWritten
<1> QED BY <1>2, <1>4 DEF OneWritten, Ended

(* The write of a route whose answer is lost: no call follows. *)
UntoldCall(q) == [q EXCEPT !.kind = "none", !.step = "over", !.answer = "error"]

LEMMA UntoldFields ==
  ASSUME NEW q \in CallStates
  PROVE  /\ UntoldCall(q) \in CallStates /\ UntoldCall(q).step = "over"
         /\ UntoldCall(q).fold = q.fold
BY DEF UntoldCall, CallStates

LEMMA AnswerLostResults ==
  ASSUME ResultsInv, NEW r \in Calls, AnswerLost(r)
  PROVE  ResultsInv'
<1>0. /\ db' = db /\ conn' = conn /\ chain' = chain /\ intent' = intent /\ secret' = secret
      /\ job' = job /\ last' = last /\ doubt' = doubt /\ lost' = TRUE
      /\ budget' \in 0..MaxMishaps /\ call[r].step = "committed"
  BY BudgetFacts DEF AnswerLost, ResultsInv, Base
<1>1. Base /\ ChainShape
  BY DEF ResultsInv
<1>2. Ended(r)
  <2> DEFINE k == UntoldCall(call[r])
  <2>1. call[r] \in CallStates /\ call \in [Calls -> CallStates]
    BY <1>1 DEF Base
  <2>2. k \in CallStates /\ k.step = "over" /\ k.fold = call[r].fold
    BY <2>1, UntoldFields
  <2>3. call' = [call EXCEPT ![r] = k]
    BY <2>1 DEF AnswerLost, UntoldCall
  <2> HIDE DEF k
  <2>4. OneWritten(r, k)
    BY <1>1, <2>2, <2>3, CallWritten
  <2> QED BY <2>2, <2>4 DEF OneWritten, Ended
<1>3. /\ ChainShape' /\ Runner' = Runner
      /\ chain # <<>> => (Deleting(Runner)' <=> Deleting(Runner))
      /\ \A S : InTurn(S)' <=> InTurn(S)
  BY <1>0, <1>1, <1>2, OutsideTurns DEF Turn, Ended
<1>4. Base'
  BY <1>0, <1>1, <1>2 DEF Base, Ended
<1>5. FoldShape'
  BY <1>0, <1>2 DEF ResultsInv, FoldShape, Ended
<1>6. JobsShape'
  BY <1>0, <1>3, JobsShapeFrame DEF ResultsInv
<1>7. \A s \in Servers : ServerInv(s, Runner, At(s), doubt)'
  <2>1. \A s \in Servers : job[s].phase = "settle" => chain # <<>>
    BY DEF ResultsInv, JobsShape, InTurn
  <2> QED BY <1>0, <1>3, <2>1, KeepServers
<1>8. RowsInv'
  BY <1>0, <1>3, RowsFrame
<1>9. ChipInv'
  BY <1>0 DEF ChipInv
<1> QED BY <1>3, <1>4, <1>5, <1>6, <1>7, <1>8, <1>9 DEF ResultsInv

(* The next call has its turn, and has not begun. *)
LEMMA TurnEnds ==
  ASSUME ChainShape, NEW r \in Calls, call[r].step \in {"running", "deleting"},
         chain' = Tail(chain), Ended(r)
  PROVE  /\ ChainShape' /\ (Coming' <=> Coming)
         /\ \A S : InTurn(S)' => "waiting" \in S
<1>1. chain # <<>> /\ r = chain[1] /\ chain \in Seq(Calls) /\ r = Runner
  BY RunnerFacts DEF Runner, ChainShape
<1>2. /\ Tail(chain) \in Seq(Calls)
      /\ \A i \in DOMAIN Tail(chain) : Tail(chain)[i] = chain[i + 1] /\ i + 1 \in DOMAIN chain /\ i + 1 > 1
      /\ \A i \in DOMAIN chain : i > 1 => i - 1 \in DOMAIN Tail(chain) /\ i = (i - 1) + 1
      /\ 1 \in DOMAIN chain /\ \A i \in DOMAIN chain : i = 1 \/ i > 1
  BY <1>1
<1>3. \A i \in DOMAIN Tail(chain) :
        /\ Tail(chain)[i] \in Calls /\ Tail(chain)[i] # r
        /\ call[Tail(chain)[i]].step = "waiting" /\ call'[Tail(chain)[i]].step = "waiting"
  <2> TAKE i \in DOMAIN Tail(chain)
  <2>1. Tail(chain)[i] = chain[i + 1] /\ i + 1 \in DOMAIN chain /\ i + 1 > 1 /\ i + 1 # 1
    BY <1>1, <1>2
  <2>2. chain[i + 1] \in Calls /\ chain[i + 1] # r /\ call[chain[i + 1]].step = "waiting"
    BY <1>1, <1>2, <2>1 DEF ChainShape
  <2> QED BY <2>1, <2>2 DEF Ended
<1>4. ASSUME NEW i \in DOMAIN Tail(chain), NEW j \in DOMAIN Tail(chain), Tail(chain)[i] = Tail(chain)[j]
      PROVE  i = j
  <2>1. i + 1 = j + 1
    BY <1>2, <1>4 DEF ChainShape
  <2>2. i \in Nat /\ j \in Nat
    BY <1>2, SMTT(30)
  <2> QED BY <2>1, <2>2
<1>5. ASSUME NEW q \in Calls
      PROVE  call'[q].step \in Turn <=> \E i \in DOMAIN Tail(chain) : Tail(chain)[i] = q
  <2>1. CASE q = r
    BY <1>3, <2>1 DEF Ended, Turn
  <2>2. CASE q # r
    <3>1. call[q].step \in Turn <=> \E i \in DOMAIN chain : chain[i] = q
      BY DEF ChainShape
    <3>2. ASSUME NEW i \in DOMAIN chain, chain[i] = q
          PROVE  \E k \in DOMAIN Tail(chain) : Tail(chain)[k] = q
      <4>1. i > 1
        BY <1>1, <1>2, <2>2, <3>2
      <4> QED BY <1>2, <3>2, <4>1
    <3>3. ASSUME NEW i \in DOMAIN Tail(chain), Tail(chain)[i] = q
          PROVE  \E k \in DOMAIN chain : chain[k] = q
      BY <1>2, <3>3
    <3> QED BY <2>2, <3>1, <3>2, <3>3 DEF Ended
  <2> QED BY <2>1, <2>2
<1>6. ChainShape'
  BY <1>2, <1>3, <1>4, <1>5 DEF ChainShape
<1>7. Coming' <=> Coming
  BY DEF Coming, Ended
<1>8. ASSUME NEW S, InTurn(S)' PROVE "waiting" \in S
  <2> DEFINE c == Tail(chain)
  <2>1. c # <<>> /\ call'[Head(c)].step \in S /\ c \in Seq(Calls)
    BY <1>2, <1>8 DEF InTurn, Runner
  <2> HIDE DEF c
  <2>2. Head(c) = c[1] /\ 1 \in DOMAIN c
    BY <2>1
  <2> QED BY <1>3, <2>1, <2>2 DEF c
<1> QED BY <1>6, <1>7, <1>8

(* What a call leaves behind when it is over, but for the results. *)
LEMMA OverFrame ==
  ASSUME ResultsInv, NEW r \in Calls, call[r].step \in {"running", "deleting"}, AllDone,
         call[r].fold # "recording", NEW answer \in {"full", "deleted", "error"}, Over(r, answer),
         conn' = conn, doubt' = doubt, lost' \in BOOLEAN, budget' \in 0..MaxMishaps,
         last' \in [Servers -> Verdicts], db' \in Databases, db'.rows = db.rows,
         ~db'.user => db'.rows = NoRows, ChipInv'
  PROVE  ResultsInv'
<1>0. /\ chain' = Tail(chain) /\ job' = [s \in Servers |-> Idle]
      /\ intent' = [rows |-> NoRows, value |-> FirstValues] /\ secret' = "unread"
  BY DEF Over
<1>1. Base /\ ChainShape /\ FoldShape /\ RowsInv
  BY DEF ResultsInv
<1>2. Ended(r)
  BY <1>1, OverWritten
<1>3. /\ ChainShape' /\ \A S : InTurn(S)' => "waiting" \in S
  BY <1>0, <1>1, <1>2, TurnEnds
<1>4. NoRows \in [Servers -> [Accounts -> States]] /\ FirstValues \in [Accounts -> Values]
  BY FirstRowsAssumption DEF NoRows, States
<1>5. \A s \in Servers : job'[s] = Idle /\ job'[s].phase = "off" /\ \A a \in Accounts : intent'.rows[s][a] = "none"
  BY <1>0 DEF Idle, NoRows
<1>6. Base'
  <2>1. conn' = [s \in Servers |-> conn'[s]] /\ job' = [s \in Servers |-> job'[s]]
    BY <1>0, <1>1 DEF Base
  <2>2. intent' \in [rows : [Servers -> [Accounts -> States]], value : [Accounts -> Values]]
    BY <1>0, <1>4
  <2> QED BY <1>0, <1>1, <1>2, <2>1, <2>2 DEF Base, Ended
<1>7. FoldShape'
  BY <1>1, <1>2 DEF FoldShape, Ended
<1>8. JobsShape'
  BY <1>0, <1>3, <1>5 DEF JobsShape
<1>9. \A s \in Servers : ServerInv(s, Runner, At(s), doubt)'
  <2> TAKE s \in Servers
  <2>1. ServerInv(s, Runner, At(s), doubt)
    BY BaseFacts
  <2>2. Awaited(job[s]) = {}
    BY DEF AllDone, Awaited
  <2>3. conn'[s] = conn[s] /\ job'[s] = Idle /\ (doubt => doubt')
    BY <1>5
  <2> QED BY <2>1, <2>2, <2>3, IdleNext
<1>10. RowsInv'
  <2>1. ~InTurn({"reading", "running"})'
    BY <1>3
  <2>2. doubt' \/ RowsFollowFiles'
    BY <1>1 DEF RowsInv, RowsFollowFiles
  <2> QED BY <1>1, <1>5, <2>1, <2>2 DEF RowsInv, Mine
<1> QED BY <1>3, <1>6, <1>7, <1>8, <1>9, <1>10 DEF ResultsInv

(* The results of a call that nobody waits behind are the last found. *)
LEMMA LastShown ==
  ASSUME ResultsInv, NEW r \in Calls, RecordFinal(r), ~lost', ~Coming, NEW s \in KeysOf(db.rows)
  PROVE  db'.chip[s] = last'[s]
<1> DEFINE results == [t \in Servers |-> job[t].result]
<1>1. results \in [Servers -> Verdicts]
  BY BaseFacts DEF Jobs
<1>2. /\ s \in Servers /\ db.user
  <2>1. PICK a \in Accounts : s \in Servers /\ db.rows[s][a] # "none"
    BY DEF KeysOf
  <2>2. NoRows[s][a] = "none"
    BY <2>1 DEF NoRows
  <2> QED BY <2>1, <2>2 DEF ResultsInv, RowsInv
<1>3. InTurn({"running"}) /\ InTurn({"reading", "running"})
  BY RunnerFacts DEF RecordFinal, InTurn, ResultsInv
<1>4. s \in KeysOf(intent.rows)
  <2>1. ~lost
    BY DEF RecordFinal, Record
  <2> QED BY <1>3, <2>1 DEF ResultsInv, ChipInv
<1>5. job[s].phase = "done"
  BY <1>2, <1>3, <1>4 DEF ResultsInv, JobsShape, RecordFinal, AllDone
<1>6. results[s] # "none" /\ results[s] = job[s].result
  BY <1>2, <1>5, BaseFacts DEF JobShape
<1>7. Record(results) /\ last'[s] = IF results[s] = "none" THEN last[s] ELSE results[s]
  BY <1>2 DEF RecordFinal
<1> HIDE DEF results
<1>8. db'.chip[s] = IF results[s] = "none" \/ ~db.user THEN db.chip[s] ELSE results[s]
  BY <1>1, <1>2, <1>7, RecordWrites
<1> QED BY <1>2, <1>6, <1>7, <1>8

LEMMA RecordFinalFields ==
  ASSUME ResultsInv, NEW r \in Calls, RecordFinal(r)
  PROVE  /\ db' \in Databases /\ db'.rows = db.rows /\ db'.user = db.user
         /\ lost' \in BOOLEAN /\ (lost => lost') /\ budget' \in 0..MaxMishaps
         /\ last' \in [Servers -> Verdicts] /\ conn' = conn /\ doubt' = doubt
         /\ call[r].step = "running" /\ AllDone /\ call[r].fold # "recording"
<1> DEFINE results == [t \in Servers |-> job[t].result]
<1>1. results \in [Servers -> Verdicts] /\ last \in [Servers -> Verdicts]
  BY BaseFacts DEF Jobs, ResultsInv, Base
<1>2. Record(results) /\ last' = [t \in Servers |-> IF results[t] = "none" THEN last[t] ELSE results[t]]
  BY DEF RecordFinal
<1> HIDE DEF results
<1>3. last' \in [Servers -> Verdicts]
  BY <1>1, <1>2
<1>4. /\ db' \in Databases /\ db'.rows = db.rows /\ db'.user = db.user
      /\ lost' \in BOOLEAN /\ (lost => lost') /\ budget' \in 0..MaxMishaps
  BY <1>1, <1>2, RecordWrites
<1> QED BY <1>3, <1>4 DEF RecordFinal

(* The call is recorded; it is over or goes on to delete the user. *)
LEMMA RecordFinalResults ==
  ASSUME ResultsInv, NEW r \in Calls, RecordFinal(r)
  PROVE  ResultsInv'
<1>1. /\ db' \in Databases /\ db'.rows = db.rows /\ db'.user = db.user
      /\ lost' \in BOOLEAN /\ (lost => lost') /\ budget' \in 0..MaxMishaps
      /\ last' \in [Servers -> Verdicts] /\ conn' = conn /\ doubt' = doubt
      /\ call[r].step = "running" /\ AllDone /\ call[r].fold # "recording"
  BY RecordFinalFields
<1>2. Base /\ ChainShape /\ RowsInv /\ FoldShape /\ JobsShape
  BY DEF ResultsInv
<1>3. chain # <<>> /\ r = Runner
  BY <1>1, <1>2, RunnerFacts
<1>4. KeysOf(db.rows)' = KeysOf(db.rows)
  BY <1>1 DEF KeysOf
<1>5. ASSUME Coming' <=> Coming, ~InTurn({"reading", "running"})' PROVE ChipInv'
  <2>1. lost' \/ \A s \in KeysOf(db.rows) : db'.chip[s] = last'[s] \/ Coming
    BY LastShown
  <2> QED BY <1>4, <1>5, <2>1 DEF ChipInv
<1>6. CASE Over(r, "full")
  <2>0. chain' = Tail(chain)
    BY <1>6 DEF Over
  <2>1. Ended(r) /\ chain' = Tail(chain)
    BY <1>2, <1>6, <2>0, OverWritten
  <2>2. (Coming' <=> Coming) /\ ~InTurn({"reading", "running"})'
    BY <1>1, <1>2, <2>1, TurnEnds
  <2>3. ChipInv' /\ (~db'.user => db'.rows = NoRows)
    BY <1>1, <1>2, <1>5, <2>2 DEF RowsInv
  <2> QED BY <1>1, <1>6, <2>3, OverFrame
<1>7. CASE /\ call' = [call EXCEPT ![r].step = "deleting"]
           /\ UNCHANGED <<chain, job, intent, secret>>
  <2>0. chain' = chain /\ job' = job /\ intent' = intent /\ secret' = secret
    BY <1>7
  <2>1. Entered(r, call[r].kind, "deleting")
    BY <1>2, <1>7, StepWritten DEF Steps
  <2>2. /\ ChainShape' /\ Runner' = Runner /\ (Deleting(Runner)' <=> Deleting(Runner))
        /\ \A S : (InTurn(S) <=> call[r].step \in S) /\ (InTurn(S)' <=> "deleting" \in S)
    BY <1>2, <1>3, <2>0, <2>1, HeadMoves DEF Turn
  <2>3. Coming' <=> Coming
    BY <1>1, <2>1 DEF Coming, Entered
  <2>4. Base'
    BY <1>1, <1>2, <2>0, <2>1 DEF Base, Entered
  <2>5. FoldShape'
    BY <1>1, <1>2, <2>1 DEF FoldShape, Entered
  <2>6. JobsShape'
    BY <1>1, <1>2, <2>0, <2>2 DEF JobsShape, AllDone
  <2>7. \A s \in Servers : ServerInv(s, Runner, At(s), doubt)'
    BY <1>1, <2>0, <2>2, KeepServers
  <2>8. RowsInv'
    <3>1. RowsFollowFiles' <=> RowsFollowFiles
      BY <1>1 DEF RowsFollowFiles
    <3> QED BY <1>1, <1>2, <2>0, <2>2, <3>1 DEF RowsInv, Mine
  <2>9. ChipInv'
    BY <1>5, <2>2, <2>3
  <2> QED BY <2>2, <2>4, <2>5, <2>6, <2>7, <2>8, <2>9 DEF ResultsInv
<1> QED BY <1>6, <1>7 DEF RecordFinal, AfterRecord

(* The user goes without rows, so nothing is shown of a server. *)
LEMMA DeleteUserResults ==
  ASSUME ResultsInv, NEW r \in Calls, DeleteUser(r)
  PROVE  ResultsInv'
<1>1. /\ conn' = conn /\ doubt' = doubt /\ lost' = lost /\ call[r].step = "deleting"
      /\ budget' \in 0..MaxMishaps /\ lost' \in BOOLEAN
  BY BudgetFacts DEF DeleteUser
<1>2. Base /\ ChainShape /\ RowsInv /\ FoldShape /\ JobsShape /\ ChipInv
      /\ db \in Databases /\ last \in [Servers -> Verdicts]
  BY DEF ResultsInv, Base
<1>3. chain # <<>> /\ r = Runner
  BY <1>1, <1>2, RunnerFacts
<1>4. InTurn({"deleting"}) /\ ~InTurn({"reading", "running"}) /\ AllDone
  BY <1>1, <1>2, <1>3 DEF InTurn, JobsShape
<1>5. call[r].fold # "recording"
  BY <1>1, <1>2 DEF FoldShape
<1>6. PICK answer \in {"full", "deleted", "error"} :
        /\ Over(r, answer)
        /\ \/ db' = db /\ last' = last
           \/ /\ db.rows = NoRows /\ last' = NoChip
              /\ db' = [db EXCEPT !.user = FALSE, !.chip = NoChip]
  BY DEF DeleteUser
<1>7. Ended(r) /\ chain' = Tail(chain)
  <2>1. chain' = Tail(chain)
    BY <1>6 DEF Over
  <2> QED BY <1>2, <1>6, <2>1, OverWritten
<1>8. (Coming' <=> Coming) /\ ~InTurn({"reading", "running"})'
  BY <1>1, <1>2, <1>7, TurnEnds
<1>9. CASE db' = db /\ last' = last
  <2>1. KeysOf(db.rows)' = KeysOf(db.rows)
    BY <1>9 DEF KeysOf
  <2>2. ChipInv'
    BY <1>1, <1>2, <1>4, <1>8, <1>9, <2>1 DEF ChipInv
  <2>3. db' \in Databases /\ db'.rows = db.rows /\ (~db'.user => db'.rows = NoRows)
        /\ last' \in [Servers -> Verdicts]
    BY <1>2, <1>9 DEF RowsInv
  <2> QED BY <1>1, <1>4, <1>5, <1>6, <2>2, <2>3, OverFrame
<1>10. CASE /\ db.rows = NoRows /\ last' = NoChip
            /\ db' = [db EXCEPT !.user = FALSE, !.chip = NoChip]
  <2> DEFINE e == [db EXCEPT !.user = FALSE]
  <2>1. NoChip \in [Servers -> Verdicts]
    BY DEF NoChip, Verdicts
  <2>2. e \in Databases /\ e.rows = db.rows
    BY <1>2 DEF Databases
  <2>3. db' = [e EXCEPT !.chip = NoChip]
    BY <1>2, <1>10 DEF Databases
  <2> HIDE DEF e
  <2> DEFINE f == [e EXCEPT !.chip = NoChip]
  <2>35. f \in Databases /\ f.rows = e.rows
    BY <2>1, <2>2, WithChip
  <2> HIDE DEF f
  <2>4. db' \in Databases /\ db'.rows = NoRows
    BY <1>10, <2>2, <2>3, <2>35 DEF f
  <2>5. KeysOf(db.rows)' = {}
    BY <2>4 DEF KeysOf, NoRows
  <2>6. ChipInv'
    BY <2>5 DEF ChipInv
  <2> QED BY <1>1, <1>4, <1>5, <1>6, <1>10, <2>1, <2>4, <2>6, OverFrame
<1> QED BY <1>6, <1>9, <1>10

-----------------------------------------------------------------------------
(* The start: the lines are up, the files listed and nothing is under way. *)
LEMMA ListedFacts ==
  ASSUME NEW file \in Files
  PROVE  /\ ConnInv(ListedConn(file)) /\ LineInv(ListedConn(file)) /\ JobCmds(ListedConn(file)) = {}
         /\ ListedConn(file).out = NoOutcome /\ ListedConn(file).file = file
<1> DEFINE c == ListedConn(file)
<1>1. /\ c.up = TRUE /\ c.queue = <<>> /\ c.flying = NoFlight /\ c.cache = file /\ c.rev = 1
      /\ c.out = NoOutcome /\ c.wire = <<>> /\ c.back = <<>> /\ c.file = file /\ c.users_rev = 1
  BY DEF ListedConn
<1>2. 1 \in Revisions /\ 1 \in Nat /\ <<>> \in Seq(Commands) /\ <<>> \in Seq(Requests) /\ <<>> \in Seq(Frames)
  BY DEF Revisions
<1>3. c \in Conns
  BY <1>2 DEF ListedConn, Conns, Flights
<1> HIDE DEF c
<1>4. ~Flies(c) /\ ~HoldsResult(c) /\ DOMAIN c.queue = {} /\ DOMAIN c.wire = {} /\ DOMAIN c.back = {}
  BY <1>1 DEF Flies, HoldsResult, NoFlight
<1>5. ConnInv(c)
  BY <1>1, <1>3, <1>4 DEF ConnInv, Core, Alone
<1>6. LineInv(c)
  BY <1>1, <1>4 DEF LineInv, OneOnLine, SuccessHolds, FilesAreKnown, Current, FilesShown
<1>7. JobCmds(c) = {}
  BY <1>4 DEF JobCmds
<1> QED BY <1>1, <1>5, <1>6, <1>7 DEF c

LEMMA InitResults == Init => ResultsInv
<1> SUFFICES ASSUME Init PROVE ResultsInv
  OBVIOUS
<1> DEFINE rows == [s \in Servers |-> [a \in Accounts |-> IF <<s, a>> \in FirstRows THEN "active" ELSE "none"]]
           File(s) == [a \in Accounts |->
                         IF <<s, a>> \in FirstRows \union Foreign THEN FirstValues[a] ELSE Absent]
<1>1. /\ chain = <<>> /\ intent = [rows |-> NoRows, value |-> FirstValues] /\ secret = "unread"
      /\ job = [s \in Servers |-> Idle] /\ last = NoChip /\ doubt = FALSE /\ lost = FALSE
      /\ budget = MaxMishaps
  BY DEF Init
<1>2. /\ db.user = TRUE /\ db.rows = rows /\ db.chip = NoChip /\ db \in Databases
  <2>1. rows \in [Servers -> [Accounts -> States]] /\ NoChip \in [Servers -> Verdicts]
    BY DEF NoChip, States, Verdicts
  <2>2. db = [user |-> TRUE, value |-> FirstValues, chip |-> NoChip, rows |-> rows]
    BY DEF Init
  <2> HIDE DEF rows
  <2> QED BY <2>1, <2>2, FirstRowsAssumption DEF Databases
<1>3. \A s \in Servers : File(s) \in Files
  BY FirstRowsAssumption DEF Files
<1>4. /\ conn = [s \in Servers |-> ListedConn(File(s))]
      /\ conn = [s \in Servers |-> conn[s]] /\ job = [s \in Servers |-> job[s]]
  <2>1. conn = [s \in Servers |-> ListedConn(File(s))] /\ job = [s \in Servers |-> Idle]
    BY DEF Init
  <2> HIDE DEF File
  <2> QED BY <2>1
<1>5. \A s \in Servers : /\ conn[s] = ListedConn(File(s)) /\ conn[s].file = File(s) /\ job[s] = Idle
                         /\ ConnInv(conn[s]) /\ LineInv(conn[s]) /\ JobCmds(conn[s]) = {}
                         /\ conn[s].out = NoOutcome
  BY <1>1, <1>3, <1>4, ListedFacts
<1>6. /\ call \in [Calls -> CallStates]
      /\ \A r \in Calls : call[r].step = "new" /\ call[r].fold = "no"
  <2> DEFINE q == [ kind |-> "none", step |-> "new", fold |-> "no", folded |-> NoChip, answer |-> "none" ]
  <2>1. q \in CallStates /\ q.step = "new" /\ q.fold = "no"
    BY DEF CallStates, NoChip, Verdicts
  <2>2. call = [r \in Calls |-> q]
    BY DEF Init
  <2> HIDE DEF q
  <2> QED BY <2>1, <2>2
<1>7. NoRows \in [Servers -> [Accounts -> States]] /\ NoChip \in [Servers -> Verdicts]
      /\ FirstValues \in [Accounts -> Values] /\ MaxMishaps \in Nat
  BY FirstRowsAssumption, BoundsAssumption DEF NoRows, NoChip, States, Verdicts
<1>8. Base
  <2>1. intent \in [rows : [Servers -> [Accounts -> States]], value : [Accounts -> Values]]
    BY <1>1, <1>7
  <2>2. secret \in {"unread", "read", "bad"} /\ doubt \in BOOLEAN /\ lost \in BOOLEAN
        /\ last \in [Servers -> Verdicts] /\ budget \in 0..MaxMishaps
    <3>1. budget \in 0..MaxMishaps
      BY <1>1, <1>7
    <3>2. last \in [Servers -> Verdicts]
      BY <1>1, <1>7
    <3> QED BY <1>1, <3>1, <3>2
  <2> QED BY <1>2, <1>4, <1>6, <2>1, <2>2 DEF Base
<1>9. ~Coming /\ \A S : ~InTurn(S)
  BY <1>1, <1>6 DEF Coming, InTurn
<1>10. ChainShape
  BY <1>1, <1>6 DEF ChainShape, Turn
<1>11. FoldShape
  BY <1>6 DEF FoldShape
<1>12. JobsShape
  BY <1>1, <1>5, <1>9 DEF JobsShape, Idle
<1>13. ASSUME NEW s \in Servers PROVE ServerInv(s, Runner, At(s), doubt)
  <2>1. /\ Idle \in Jobs /\ Idle.ops = <<>> /\ Idle.phase = "off" /\ Idle.removed = {} /\ Idle.result = "none"
    BY DEF Idle, Jobs, Verdicts
  <2>2. JobShape(Idle, Runner) /\ Awaited(Idle) = {}
    BY <2>1 DEF JobShape, Awaited
  <2>3. Worked(s, Idle, conn[s].file)
    BY <2>1 DEF Worked
  <2>4. At(s).conn = conn[s] /\ At(s).job = Idle
    BY <1>5 DEF At
  <2> QED BY <1>5, <2>2, <2>3, <2>4 DEF ServerInv
<1>14. RowsInv
  <2>1. \A s \in Servers, a \in Accounts :
          /\ db.rows[s][a] # "none" <=> <<s, a>> \in FirstRows
          /\ conn[s].file[a] # Absent <=> <<s, a>> \in FirstRows \union Foreign
          /\ intent.rows[s][a] = "none"
    <3>1. \A a \in Accounts : FirstValues[a] \in Values /\ FirstValues[a] # Absent
      BY FirstRowsAssumption, ValuesAssumption
    <3>2. \A s \in Servers, a \in Accounts :
            File(s)[a] # Absent <=> <<s, a>> \in FirstRows \union Foreign
      BY <3>1
    <3>3. \A s \in Servers, a \in Accounts : rows[s][a] # "none" <=> <<s, a>> \in FirstRows
      OBVIOUS
    <3>4. \A s \in Servers, a \in Accounts : intent.rows[s][a] = "none"
      BY <1>1 DEF NoRows
    <3>5. db.rows = rows /\ \A s \in Servers : conn[s].file = File(s)
      BY <1>2, <1>5
    <3> HIDE DEF rows, File
    <3> QED BY ONLY <3>2, <3>3, <3>4, <3>5, ZenonT(60)
  <2>2. \A s \in Servers, a \in Accounts : <<s, a>> \in FirstRows => <<s, a>> \notin Foreign
    BY FirstRowsAssumption
  <2> HIDE DEF rows, File
  <2> QED BY <1>2, <1>9, <2>1, <2>2 DEF RowsInv, Mine, RowsFollowFiles
<1>15. ChipInv
  BY <1>1, <1>2, <1>9 DEF ChipInv, KeysOf
<1> QED BY <1>8, <1>10, <1>11, <1>12, <1>13, <1>14, <1>15 DEF ResultsInv

LEMMA StutterResults ==
  ASSUME ResultsInv, vars' = vars
  PROVE  ResultsInv'
<1>1. /\ db' = db /\ conn' = conn /\ call' = call /\ chain' = chain /\ intent' = intent
      /\ secret' = secret /\ job' = job /\ last' = last /\ doubt' = doubt /\ lost' = lost
      /\ budget' = budget
  BY DEF vars
<1>2. Base /\ ChainShape /\ FoldShape /\ JobsShape /\ SameSteps /\ ChipInv
  BY <1>1 DEF ResultsInv, SameSteps
<1>3. /\ ChainShape' /\ Runner' = Runner
      /\ chain # <<>> => (Deleting(Runner)' <=> Deleting(Runner))
      /\ (\A S : InTurn(S)' <=> InTurn(S)) /\ (Coming' <=> Coming)
  BY <1>2, SameTurns
<1>4. Base' /\ FoldShape'
  BY <1>1, <1>2 DEF Base, FoldShape
<1>5. JobsShape'
  BY <1>1, <1>2, <1>3, JobsShapeFrame
<1>6. \A s \in Servers : ServerInv(s, Runner, At(s), doubt)'
  <2>1. Deleting(Runner)' <=> Deleting(Runner)
    BY <1>1 DEF Deleting, Runner
  <2> QED BY <1>1, <2>1, KeepServers
<1>7. RowsInv'
  BY <1>1, <1>3, RowsFrame
<1>8. ChipInv'
  BY <1>1, <1>2, <1>3 DEF ChipInv, KeysOf
<1> QED BY <1>3, <1>4, <1>5, <1>6, <1>7, <1>8 DEF ResultsInv

LEMMA ResultsNext == ResultsInv /\ [Next]_vars => ResultsInv'
<1> SUFFICES ASSUME ResultsInv, [Next]_vars PROVE ResultsInv'
  OBVIOUS
<1>1. CASE \E s \in Servers : \/ LineUp(s) \/ LineDown(s) \/ Gateway(s) \/ Frame(s)
                              \/ Timeout(s) \/ OtherCommand(s) \/ Settle(s)
  BY <1>1, LineUpInv, LineDownInv, GatewayInv, FrameInv, TimeoutInv, OtherCommandInv, SettleResults
<1>2. CASE \E r \in Calls : \/ Commit(r) \/ AnswerLost(r) \/ Enqueue(r) \/ ReadIntent(r) \/ Begin(r)
                            \/ Deadline(r) \/ FoldRead(r) \/ FoldRecorded(r)
                            \/ RecordFinal(r) \/ DeleteUser(r)
  BY <1>2, CommitResults, AnswerLostResults, EnqueueResults, ReadIntentResults, BeginResults, DeadlineResults,
     FoldReadResults, FoldRecordedResults, RecordFinalResults, DeleteUserResults
<1>3. CASE PasswordRead
  BY <1>3, PasswordReadResults
<1>4. CASE vars' = vars
  BY <1>4, StutterResults
<1> QED BY <1>1, <1>2, <1>3, <1>4 DEF Next

(* The invariant holds (dispatcher.ts and admin-conn.ts, every method and  *)
(* await between two methods).                                             *)
THEOREM ResultsHold == Spec => []ResultsInv
BY InitResults, ResultsNext, PTL DEF Spec

-----------------------------------------------------------------------------
(* What the invariant says of the connections, the jobs and the calls is   *)
(* of the declared types (dispatcher.ts, admin-conn.ts).                   *)
THEOREM TypeCorrect == Spec => []TypeOK
<1>1. ResultsInv => TypeOK
  <2> SUFFICES ASSUME ResultsInv PROVE TypeOK
    OBVIOUS
  <2>1. Base /\ ChainShape
    BY DEF ResultsInv
  <2>2. ASSUME NEW s \in Servers PROVE IsConn(conn[s])
    <3> DEFINE c == conn[s]
    <3>1. c \in Conns /\ c.out = NoOutcome
      BY BaseFacts
    <3> HIDE DEF c
    <3>2. c.flying # NoFlight => c.flying.await \in {"resp", "snapshot"} /\ c.flying.command \in Commands
      BY <3>1, ConnFields, FlightFacts
    <3>3. \A i \in DOMAIN c.back : c.back[i].type \in {"resp", "snapshot"}
      BY <3>1, ConnFields, FrameFacts
    <3>4. /\ c.up \in BOOLEAN /\ c.cache \in Files \union {Absent} /\ c.rev \in Nat
          /\ c.users_rev \in Nat \ {0} /\ c.file \in Files
          /\ \A i \in DOMAIN c.queue : c.queue[i] \in Commands
          /\ \A i \in DOMAIN c.wire : c.wire[i] \in Requests
      BY <3>1, ConnFields
    <3> QED BY <3>1, <3>2, <3>3, <3>4 DEF IsConn, c
  <2>3. ASSUME NEW s \in Servers
        PROVE  /\ job[s].phase \in {"off", "refresh", "password", "op", "settle", "done"}
               /\ \A i \in DOMAIN job[s].ops : job[s].ops[i] \in Planned
               /\ job[s].removed \subseteq Accounts /\ job[s].result \in Verdicts
    <3>1. job[s] \in Jobs
      BY BaseFacts
    <3>2. /\ job[s].phase \in {"off", "refresh", "password", "op", "settle", "done"}
          /\ job[s].ops \in Seq(PlannedOps) /\ job[s].removed \subseteq Accounts
          /\ job[s].result \in Verdicts
      BY <3>1 DEF Jobs
    <3>3. \A i \in DOMAIN job[s].ops : job[s].ops[i] \in PlannedOps
      BY <3>2
    <3>4. PlannedOps \subseteq Planned
      BY DEF PlannedOps, Planned
    <3> QED BY <3>2, <3>3, <3>4
  <2>4. /\ \A i \in DOMAIN chain : chain[i] \in Calls
        /\ \A i \in 2..Len(chain) : call[chain[i]].step = "waiting"
    BY <2>1 DEF ChainShape
  <2>5. intent.rows \in [Servers -> [Accounts -> States]] /\ intent.value \in [Accounts -> Values]
    BY <2>1 DEF Base
  <2> QED BY <2>1, <2>2, <2>3, <2>4, <2>5 DEF TypeOK, Base
<1> QED BY <1>1, ResultsHold, PTL

(* The commands of a job at its connection, counted. *)
LEMMA CommandsCounted ==
  ASSUME NEW c, Core(c)
  PROVE  JobCommands(c) = IF JobCmds(c) = {} THEN 0 ELSE 1
<1> DEFINE I == {i \in DOMAIN c.queue : c.queue[i].by = "job"}
           flies == c.flying # NoFlight /\ c.flying.command.by = "job"
<1>1. JobCmds(c) = {c.queue[i] : i \in I} \cup IF flies THEN {c.flying.command} ELSE {}
  BY DEF JobCmds, Flies
<1>2. \A i, j \in I : i = j
  BY DEF Core, Alone
<1>3. flies => I = {}
  BY DEF Core, Alone, Flies
<1>4. JobCommands(c) = Cardinality(I) + IF flies THEN 1 ELSE 0
  BY DEF JobCommands
<1> HIDE DEF I, flies
<1>5. CASE I = {}
  <2>1. Cardinality(I) = 0
    BY <1>5, FS_EmptySet
  <2> QED BY <1>1, <1>4, <1>5, <2>1
<1>6. CASE I # {}
  <2>1. PICK i : I = {i}
    BY <1>2, <1>6
  <2>2. Cardinality(I) = 1 /\ ~flies
    BY <1>3, <2>1, FS_Singleton
  <2> QED BY <1>1, <1>4, <2>1, <2>2
<1> QED BY <1>5, <1>6

(* A job that waits for its connection has one command there, and a queue  *)
(* has a command in flight whose answer, timer or lost line sends the next *)
(* (admin-conn.ts: #pump, #finish, #failAll).                              *)
THEOREM CommandsHeld == Spec => []CommandsAreHeld
<1>1. ResultsInv => CommandsAreHeld
  <2> SUFFICES ASSUME ResultsInv PROVE CommandsAreHeld
    OBVIOUS
  <2>1. ASSUME NEW s \in Servers
        PROVE  /\ JobCommands(conn[s]) = IF job[s].phase \in {"refresh", "op"} THEN 1 ELSE 0
               /\ conn[s].queue # <<>> => conn[s].flying # NoFlight
               /\ conn[s].flying # NoFlight => conn[s].up
    <3>1. ConnInv(conn[s]) /\ Core(conn[s]) /\ JobCmds(conn[s]) = Awaited(job[s])
      BY BaseFacts DEF ConnInv
    <3>2. Awaited(job[s]) = {} <=> job[s].phase \notin {"refresh", "op"}
      BY DEF Awaited
    <3>3. JobCommands(conn[s]) = IF job[s].phase \in {"refresh", "op"} THEN 1 ELSE 0
      BY <3>1, <3>2, CommandsCounted
    <3> QED BY <3>1, <3>3 DEF ConnInv, Core, Flies
  <2> QED BY <2>1 DEF CommandsAreHeld
<1> QED BY <1>1, ResultsHold, PTL

(* While no answer came too late, a server reported ok has what the call   *)
(* wanted, and a row is given up only when its account is gone; and while  *)
(* every record was written, what is shown of a server is what the last    *)
(* call found, not the timeout of its deadline (dispatcher.ts: #settle,    *)
(* #applyServer, #recordFinal, #answerBy).                                 *)
THEOREM ResultsTrue == Spec => []ResultsAreTrue
<1>1. ResultsInv => ResultsAreTrue
  <2> SUFFICES ASSUME ResultsInv PROVE ResultsAreTrue
    OBVIOUS
  <2>1. OkIsApplied
    <3> SUFFICES ASSUME ~doubt, NEW s \in Servers, job[s].phase = "done", job[s].result = "ok",
                        NEW a \in Accounts
                 PROVE  /\ RowsOf(s)[a] = "active" => conn[s].file[a] = intent.value[a]
                        /\ RowsOf(s)[a] = "removing" => conn[s].file[a] = Absent
      BY DEF OkIsApplied
    <3>1. JobShape(job[s], Runner) /\ Worked(s, job[s], conn[s].file)
      BY BaseFacts
    <3>2. Covers(s, job[s], conn[s].file) /\ DOMAIN job[s].ops = {}
      BY <3>1 DEF JobShape, Worked
    <3> QED BY <3>2 DEF Covers, Active, Removing
  <2>2. RowsFollowFiles
    BY DEF ResultsInv, RowsInv, RowsFollowFiles
  <2>3. ChipIsTrue
    <3> SUFFICES ASSUME chain = <<>>, ~lost, \A r \in Calls : call[r].step # "committed"
                 PROVE  \A s \in KeysOf(db.rows) : db.chip[s] = last[s]
      BY DEF ChipIsTrue
    <3>1. ~Coming
      BY DEF Coming, ResultsInv, ChainShape, Turn
    <3> QED BY <3>1 DEF ResultsInv, ChipInv, InTurn
  <2> QED BY <2>1, <2>2, <2>3 DEF ResultsAreTrue
<1> QED BY <1>1, ResultsHold, PTL

-----------------------------------------------------------------------------
(* What the Admin who deletes a user is told.  The answer of the call and  *)
(* the answer at its deadline are given by two chains of awaits that run   *)
(* beside one another; they exclude one another by the phase of the fold.  *)

(* What the steps need of the types: the fields there are. *)
Fields ==
  /\ DOMAIN call = Calls
  /\ \A r \in Calls : DOMAIN call[r] = {"kind", "step", "fold", "folded", "answer"}
  /\ DOMAIN db = {"user", "rows", "value", "chip"}

(* A call that waits to be called, or is about to delete, has not been     *)
(* answered for; what was told at the deadline is being recorded or has    *)
(* been; the other answers end a call.                                     *)
AnswersInOrder ==
  \A r \in Calls :
    /\ call[r].step \in {"new", "committed", "deleting"} => call[r].answer = "none"
    /\ call[r].step \in {"new", "committed"} => call[r].fold = "no"
    /\ call[r].answer = "folded" => call[r].fold \in {"recording", "done"}
    /\ call[r].answer \in {"none", "folded"} \/ call[r].step = "over"

(* "deleted" was told of a user that is gone. *)
ToldIsGone == \A r \in Calls : call[r].answer = "deleted" => ~db.user

IInv == Fields /\ AnswersInOrder /\ ToldIsGone

(* What each step does to the answers. *)
AnswersStay == \A q \in Calls : call[q].answer # "none" => call'[q].answer = call[q].answer
HoldsStill  == IInv' /\ AnswersStay /\ db'.user = db.user
Moves  ==
  /\ IInv' /\ AnswersStay
  /\ \/ db'.user = db.user
     \/ \E r \in Calls : call[r].step = "deleting" /\ call'[r].answer \in {"deleted", "error"}

-----------------------------------------------------------------------------
(* Steps that give no answer. *)
LEMMA NoAnswer ==
  ASSUME IInv, call' = call, DOMAIN db' = DOMAIN db, db'.user = db.user
  PROVE  HoldsStill
BY DEF IInv, Fields, AnswersInOrder, ToldIsGone, HoldsStill, AnswersStay

(* The call moves on before it is answered by itself. *)
LEMMA CallMoves ==
  ASSUME IInv, NEW r \in Calls, NEW kind, NEW step,
         call[r].step \notin {"deleting", "over"}, step \notin {"new", "deleting", "over"},
         step = "committed" => call[r].step = "new",
         call' = [call EXCEPT ![r].kind = kind, ![r].step = step],
         DOMAIN db' = DOMAIN db, db'.user = db.user
  PROVE  HoldsStill
<1>1. /\ DOMAIN call' = Calls
      /\ call'[r].step = step /\ call'[r].answer = call[r].answer
      /\ call'[r].fold = call[r].fold
      /\ DOMAIN call'[r] = {"kind", "step", "fold", "folded", "answer"}
  BY DEF IInv, Fields
<1>2. \A q \in Calls \ {r} : call'[q] = call[q]
  BY DEF IInv, Fields
<1>3. Fields'
  BY <1>1, <1>2 DEF IInv, Fields
<1>4. AnswersInOrder'
  BY <1>1, <1>2 DEF IInv, AnswersInOrder
<1>5. \A q \in Calls : call'[q].answer = call[q].answer
  BY <1>1, <1>2
<1>6. ToldIsGone' /\ AnswersStay
  BY <1>5 DEF IInv, ToldIsGone, AnswersStay
<1> QED BY <1>3, <1>4, <1>6 DEF IInv, HoldsStill

(* The phase of the fold changes. *)
LEMMA FoldMoves ==
  ASSUME IInv, NEW r \in Calls, NEW fold, NEW answer, NEW folded,
         call' = [call EXCEPT ![r].folded = folded, ![r].answer = answer, ![r].fold = fold],
         call[r].step \notin {"new", "committed"},
         \/ answer = call[r].answer /\ (answer = "folded" => fold \in {"recording", "done"})
         \/ /\ answer = "folded" /\ fold \in {"recording", "done"} /\ call[r].answer = "none"
            /\ call[r].step \notin {"deleting", "over"},
         DOMAIN db' = DOMAIN db, db'.user = db.user
  PROVE  HoldsStill
<1>1. /\ DOMAIN call' = Calls
      /\ call'[r].step = call[r].step /\ call'[r].answer = answer
      /\ call'[r].fold = fold
      /\ DOMAIN call'[r] = {"kind", "step", "fold", "folded", "answer"}
  BY DEF IInv, Fields
<1>2. \A q \in Calls \ {r} : call'[q] = call[q]
  BY DEF IInv, Fields
<1>3. Fields'
  BY <1>1, <1>2 DEF IInv, Fields
<1>4. AnswersInOrder'
  BY <1>1, <1>2 DEF IInv, AnswersInOrder
<1>5. AnswersStay /\ \A q \in Calls : call'[q].answer = "deleted" => call[q].answer = "deleted"
  BY <1>1, <1>2 DEF AnswersStay
<1>6. ToldIsGone'
  BY <1>5 DEF IInv, ToldIsGone
<1> QED BY <1>3, <1>4, <1>5, <1>6 DEF IInv, HoldsStill

(* The end of a call; what it says of the user is true. *)
LEMMA OverInv ==
  ASSUME IInv, NEW r \in Calls, NEW answer \in {"full", "deleted", "error"}, Over(r, answer),
         DOMAIN db' = DOMAIN db, ~db.user => ~db'.user, answer = "deleted" => ~db'.user
  PROVE  IInv' /\ AnswersStay /\ (call[r].answer = "none" => call'[r].answer = answer)
<1>1. /\ DOMAIN call' = Calls
      /\ call'[r].step = "over" /\ call'[r].fold = call[r].fold
      /\ call'[r].answer = IF call[r].answer = "none" THEN answer ELSE call[r].answer
      /\ DOMAIN call'[r] = {"kind", "step", "fold", "folded", "answer"}
  BY DEF IInv, Fields, Over
<1>2. \A q \in Calls \ {r} : call'[q] = call[q]
  BY DEF IInv, Fields, Over
<1>3. Fields'
  BY <1>1, <1>2 DEF IInv, Fields
<1>4. AnswersInOrder'
  BY <1>1, <1>2 DEF IInv, AnswersInOrder
<1>5. AnswersStay /\ \A q \in Calls \ {r} : call'[q].answer = call[q].answer
  BY <1>1, <1>2 DEF AnswersStay
<1>6. ToldIsGone'
  BY <1>1, <1>5 DEF IInv, ToldIsGone
<1> QED BY <1>1, <1>3, <1>4, <1>5, <1>6 DEF IInv

-----------------------------------------------------------------------------
(* The steps. *)
LEMMA CommitInv ==
  ASSUME IInv, NEW r \in Calls, Commit(r)
  PROVE  HoldsStill
<1>1. PICK kind : Committed(r, kind)
  BY DEF Commit, CommitPut, CommitRemove
<1>2. DOMAIN db' = DOMAIN db /\ db'.user = db.user
  BY DEF Commit, CommitPut, CommitRemove, IInv, Fields
<1>3. call[r].step = "new"
  BY DEF Commit
<1>4. call' = [call EXCEPT ![r].kind = kind, ![r].step = "committed"]
  BY <1>1 DEF Committed
<1>5. call[r].step \notin {"deleting", "over"} /\ "committed" \notin {"new", "deleting", "over"}
  BY <1>3
<1> QED BY <1>2, <1>3, <1>4, <1>5, CallMoves

LEMMA AnswerLostInv ==
  ASSUME IInv, NEW r \in Calls, AnswerLost(r)
  PROVE  HoldsStill
<1>1. /\ db' = db /\ call[r].step = "committed"
      /\ call' = [call EXCEPT ![r].kind = "none", ![r].step = "over", ![r].answer = "error"]
  BY DEF AnswerLost
<1>2. /\ DOMAIN call' = Calls
      /\ call'[r].step = "over" /\ call'[r].answer = "error" /\ call'[r].fold = call[r].fold
      /\ DOMAIN call'[r] = {"kind", "step", "fold", "folded", "answer"}
  BY <1>1 DEF IInv, Fields
<1>3. \A q \in Calls \ {r} : call'[q] = call[q]
  BY <1>1 DEF IInv, Fields
<1>4. call[r].answer = "none"
  BY <1>1 DEF IInv, AnswersInOrder
<1>5. Fields'
  BY <1>1, <1>2, <1>3 DEF IInv, Fields
<1>6. AnswersInOrder'
  BY <1>2, <1>3 DEF IInv, AnswersInOrder
<1>7. AnswersStay /\ ToldIsGone'
  BY <1>1, <1>2, <1>3, <1>4 DEF IInv, ToldIsGone, AnswersStay
<1> QED BY <1>1, <1>5, <1>6, <1>7 DEF IInv, HoldsStill

LEMMA TurnInv ==
  ASSUME IInv, NEW r \in Calls, Enqueue(r) \/ ReadIntent(r) \/ Begin(r)
  PROVE  HoldsStill
<1>1. PICK step \in {"waiting", "reading", "running"} :
        call' = [call EXCEPT ![r].step = step]
  BY DEF Enqueue, ReadIntent, Begin
<1>2. call' = [call EXCEPT ![r].kind = call[r].kind, ![r].step = step]
  BY <1>1 DEF IInv, Fields
<1>3. call[r].step \in {"committed", "waiting", "reading"} /\ db' = db
  BY DEF Enqueue, ReadIntent, Begin
<1> QED BY <1>2, <1>3, CallMoves

LEMMA FoldInv ==
  ASSUME IInv, NEW r \in Calls, NEW keys, Fold(r, keys), db' = db, call[r].answer = "none",
         call[r].step \notin {"new", "committed", "deleting", "over"}
  PROVE  HoldsStill
<1>1. PICK folded : call' = [call EXCEPT ![r].folded = folded, ![r].answer = "folded",
                               ![r].fold = IF keys = {} THEN "done" ELSE "recording"]
  BY DEF Fold
<1> QED BY <1>1, FoldMoves, ZenonT(60)

LEMMA FoldsInv ==
  ASSUME IInv, NEW r \in Calls, Deadline(r) \/ FoldRead(r) \/ FoldRecorded(r)
  PROVE  HoldsStill
<1>0. call[r].step \notin {"new", "committed"}
  BY DEF Deadline, FoldRead, FoldRecorded, IInv, AnswersInOrder
<1>1. CASE Deadline(r) /\ call[r].step = "running"
  <2> Fold(r, KeysOf(intent.rows)) /\ db' = db /\ call[r].answer = "none"
    BY <1>1 DEF Deadline
  <2> QED BY <1>1, FoldInv
<1>2. CASE Deadline(r) /\ call[r].step # "running"
  <2>1. call' = [call EXCEPT ![r].fold = "reading"] /\ db' = db /\ call[r].answer = "none"
    BY <1>2 DEF Deadline
  <2>2. call' = [call EXCEPT ![r].folded = call[r].folded, ![r].answer = call[r].answer,
                             ![r].fold = "reading"]
    BY <2>1 DEF IInv, Fields
  <2> QED BY <1>0, <2>1, <2>2, FoldMoves, ZenonT(60)
<1>3. CASE FoldRead(r) /\ Finished(r)
  <2>1. /\ call' = [call EXCEPT ![r].fold = "no"] /\ db' = db
        /\ call[r].fold = "reading"
    BY <1>3 DEF FoldRead
  <2>2. call' = [call EXCEPT ![r].folded = call[r].folded, ![r].answer = call[r].answer,
                             ![r].fold = "no"]
    BY <2>1 DEF IInv, Fields
  <2>3. call[r].answer # "folded"
    BY <2>1 DEF IInv, AnswersInOrder
  <2>4. DOMAIN db' = DOMAIN db /\ db'.user = db.user
    BY <2>1
  <2> QED BY <1>0, <2>2, <2>3, <2>4, FoldMoves
<1>4. CASE FoldRead(r) /\ ~Finished(r)
  <2>1. /\ Fold(r, KeysOf(db.rows)) /\ db' = db /\ call[r].step \notin {"deleting", "over"}
        /\ call[r].fold = "reading"
    BY <1>4 DEF FoldRead, Finished
  <2>2. call[r].answer = "none"
    BY <2>1 DEF IInv, AnswersInOrder
  <2> QED BY <1>0, <2>1, <2>2, FoldInv
<1>5. CASE FoldRecorded(r)
  <2>1. call' = [call EXCEPT ![r].fold = "done", ![r].folded = NoChip]
    BY <1>5 DEF FoldRecorded
  <2>2. call' = [call EXCEPT ![r].folded = NoChip, ![r].answer = call[r].answer,
                             ![r].fold = "done"]
    BY <2>1 DEF IInv, Fields
  <2>3. DOMAIN db' = DOMAIN db /\ db'.user = db.user
    BY <1>5 DEF FoldRecorded, Record, IInv, Fields
  <2> QED BY <1>0, <2>2, <2>3, FoldMoves
<1> QED BY <1>1, <1>2, <1>3, <1>4, <1>5

LEMMA RecordFinalInv ==
  ASSUME IInv, NEW r \in Calls, RecordFinal(r)
  PROVE  HoldsStill
<1>1. call[r].step = "running" /\ call[r].fold # "recording" /\ AfterRecord(r)
  BY DEF RecordFinal
<1>2. DOMAIN db' = DOMAIN db /\ db'.user = db.user
  BY DEF RecordFinal, Record, IInv, Fields
<1>3. CASE Over(r, "full")
  BY <1>2, <1>3, OverInv DEF HoldsStill
<1>4. CASE ~Over(r, "full")
  <2>1. call' = [call EXCEPT ![r].step = "deleting"] /\ call[r].fold # "done"
    BY <1>1, <1>4 DEF AfterRecord
  <2>2. call[r].answer = "none"
    BY <1>1, <2>1 DEF IInv, AnswersInOrder
  <2>3. /\ DOMAIN call' = Calls
        /\ call'[r].step = "deleting" /\ call'[r].answer = "none"
        /\ DOMAIN call'[r] = {"kind", "step", "fold", "folded", "answer"}
    BY <2>1, <2>2 DEF IInv, Fields
  <2>4. \A q \in Calls \ {r} : call'[q] = call[q]
    BY <2>1 DEF IInv, Fields
  <2>5. Fields' /\ AnswersInOrder'
    BY <1>2, <2>3, <2>4 DEF IInv, Fields, AnswersInOrder
  <2>6. ToldIsGone' /\ AnswersStay
    BY <1>2, <2>2, <2>3, <2>4 DEF IInv, ToldIsGone, AnswersStay
  <2> QED BY <1>2, <2>5, <2>6 DEF IInv, HoldsStill
<1> QED BY <1>3, <1>4

(* The delete is done and told, or done and its answer lost, or not done. *)
LEMMA DeleteUserInv ==
  ASSUME IInv, NEW r \in Calls, DeleteUser(r)
  PROVE  Moves
<1>1. call[r].step = "deleting" /\ call[r].answer = "none"
  BY DEF DeleteUser, IInv, AnswersInOrder
<1>2. CASE /\ Over(r, "deleted") \/ Over(r, "error")
           /\ db' = [db EXCEPT !.user = FALSE, !.chip = NoChip]
  <2>1. DOMAIN db' = DOMAIN db /\ ~db'.user
    BY <1>2 DEF IInv, Fields
  <2>2. PICK answer \in {"deleted", "error"} : Over(r, answer)
    BY <1>2
  <2>3. IInv' /\ AnswersStay /\ call'[r].answer = answer
    BY <1>1, <2>1, <2>2, OverInv
  <2> QED BY <1>1, <2>3 DEF Moves
<1>3. CASE (Over(r, "full") \/ Over(r, "error")) /\ db' = db
  <2>1. PICK answer \in {"full", "error"} : Over(r, answer)
    BY <1>3
  <2>2. IInv' /\ AnswersStay
    BY <1>3, <2>1, OverInv
  <2> QED BY <1>3, <2>2 DEF Moves
<1> QED BY <1>2, <1>3 DEF DeleteUser

-----------------------------------------------------------------------------
LEMMA InvInit == Init => IInv
<1> SUFFICES ASSUME Init PROVE IInv
  OBVIOUS
<1>1. Fields
  BY DEF Init, Fields
<1>2. \A r \in Calls : call[r].step = "new" /\ call[r].answer = "none" /\ call[r].fold = "no"
  BY DEF Init
<1> QED BY <1>1, <1>2 DEF IInv, AnswersInOrder, ToldIsGone

LEMMA EveryMove == IInv /\ [Next]_vars => Moves
<1> SUFFICES ASSUME IInv, [Next]_vars PROVE Moves
  OBVIOUS
<1>0. HoldsStill => Moves
  BY DEF HoldsStill, Moves
<1>1. ASSUME NEW s \in Servers,
             LineUp(s) \/ LineDown(s) \/ Gateway(s) \/ Frame(s) \/ Timeout(s) \/ OtherCommand(s)
      PROVE  HoldsStill
  <2> call' = call /\ db' = db
    BY <1>1 DEF LineUp, LineDown, Gateway, Frame, Timeout, OtherCommand
  <2> QED BY NoAnswer
<1>2. ASSUME NEW s \in Servers, Settle(s)
      PROVE  HoldsStill
  <2> call' = call /\ DOMAIN db' = DOMAIN db /\ db'.user = db.user
    BY <1>2 DEF Settle, IInv, Fields
  <2> QED BY NoAnswer
<1>3. CASE PasswordRead \/ vars' = vars
  <2> call' = call /\ db' = db
    BY <1>3 DEF PasswordRead, vars
  <2> QED BY <1>0, NoAnswer
<1>4. CASE \E r \in Calls : \/ Commit(r) \/ AnswerLost(r) \/ Enqueue(r) \/ ReadIntent(r) \/ Begin(r)
                            \/ Deadline(r) \/ FoldRead(r) \/ FoldRecorded(r)
                            \/ RecordFinal(r) \/ DeleteUser(r)
  BY <1>0, <1>4, CommitInv, AnswerLostInv, TurnInv, FoldsInv, RecordFinalInv, DeleteUserInv
<1> QED BY <1>0, <1>1, <1>2, <1>3, <1>4 DEF Next

LEMMA InvNext == IInv /\ [Next]_vars => IInv'
BY EveryMove DEF Moves

(* The call that takes the user out of the database told its Admin so or   *)
(* told an error, never "not deleted"; "deleted" is told of a user that is *)
(* gone; and no Admin is answered twice (dispatcher.ts: deleteUser,        *)
(* #answerBy).                                                             *)
THEOREM DeletionIsTold == Spec => DeleteIsTold
<1>1. IInv /\ IInv' /\ Moves => AnswersAreTrue
  BY DEF Moves, AnswersStay, AnswersAreTrue, IInv, ToldIsGone
<1>2. IInv /\ [Next]_vars => [AnswersAreTrue]_vars
  BY <1>1, EveryMove DEF Moves
<1> QED BY InvInit, InvNext, <1>2, PTL DEF Spec, DeleteIsTold

(* What the Admin was told at the deadline is written down or being        *)
(* written, and a call that still may delete has told nobody anything.     *)
THEOREM AnswersAreOrdered == Spec => []AnswersInOrder
<1>1. IInv => AnswersInOrder
  BY DEF IInv
<1> QED BY InvInit, InvNext, <1>1, PTL DEF Spec
=============================================================================
