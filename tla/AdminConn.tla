------------------------------- MODULE AdminConn -------------------------------
(***************************************************************************)
(* relay/src/admin/admin-conn.ts: the one administration connection to a   *)
(* gateway.  Commands (44) queue and go out one at a time.  The answer of  *)
(* a command is a result (86), which carries its request id; a change is   *)
(* followed by the users file (87), and the command that lists the users   *)
(* is answered by 87 alone.  An 87 carries no request id, so it is matched *)
(* by its place.  Every operation is an operator on the record of the      *)
(* connection, as it is one synchronous method; the record also holds the  *)
(* two directions of the line and, from the use made of it, the gateway.   *)
(*                                                                         *)
(* The login of this connection is that of the other observers             *)
(* (JournalFeed, QuoteSwitch); here it is up, which is isReady, or not.    *)
(***************************************************************************)
EXTENDS Integers, Sequences, SequencesExt, FiniteSets

CONSTANTS Accounts,  \* accounts of the one DMA user
          Values,    \* what a file or the database says of an account
          Absent     \* the account is not in the file; no file is known

ASSUME AccountsAssumption == IsFiniteSet(Accounts)
ASSUME ValuesAssumption == Absent \notin Values

Files == [Accounts -> Values \union {Absent}]

(* Operations (ADMIN_OP).  CreateUser carries the first account.          *)
(* SetCost stands for the commands that change the file and               *)
(* nothing this user's plan reads: those of other users, op 6 and op 7.    *)
CreateUser == 1
RemoveUser == 2
PutAccount == 3
RemoveAccount == 4
ListUsers == 5
SetCost == 6

(* codes of 86, as interpretAdminResult tells them apart *)
Done == 0
NoSuchUser == 4
NoSuchAccount == 8
Busy == 9
LastAccount == 12

(* by: who awaits the command, the dispatcher's job for this user or       *)
(* somebody else.                                                          *)
Commands == [ op : CreateUser..SetCost, account : Accounts \union {Absent},
              value : Values \union {Absent}, by : {"job", "other"} ]

Command(op, account, value) ==
  [op |-> op, account |-> account, value |-> value, by |-> "job"]
Lister     == Command(ListUsers, Absent, Absent)
OtherUsers == [Command(SetCost, Absent, Absent) EXCEPT !.by = "other"]

NoFlight  == [await |-> "none"]
NoOutcome == [kind |-> "none"]

(* own: the request id is the one of the command in flight.                *)
Requests == [command : Commands, own : BOOLEAN]
Resp(code, rev, own) == [type |-> "resp", code |-> code, rev |-> rev, own |-> own]
Snapshot(file, rev)  == [type |-> "snapshot", file |-> file, rev |-> rev]

(* flying: #inFlight.  await: awaiting.  The held 86 is always code 0.     *)
(* rev: #rev of this generation, 0 when there is none.                     *)
(* out: the outcome a method has just given the dispatcher's job.          *)
ListedConn(file) ==
  [ up |-> TRUE, queue |-> <<>>, flying |-> NoFlight, cache |-> file, rev |-> 1,
    out |-> NoOutcome, wire |-> <<>>, back |-> <<>>, file |-> file, users_rev |-> 1 ]

IsConn(c) ==
  /\ c.up \in BOOLEAN
  /\ \A i \in DOMAIN c.queue : c.queue[i] \in Commands
  /\ c.flying = NoFlight \/ (c.flying.await \in {"resp", "snapshot"} /\ c.flying.command \in Commands)
  /\ c.cache \in Files \union {Absent}
  /\ c.rev \in Nat /\ c.users_rev \in Nat \ {0}
  /\ c.out = NoOutcome
  /\ \A i \in DOMAIN c.wire : c.wire[i] \in Requests
  /\ \A i \in DOMAIN c.back : c.back[i].type \in {"resp", "snapshot"}
  /\ c.file \in Files

-----------------------------------------------------------------------------
Outcome(kind, code, file) == [kind |-> kind, code |-> code, file |-> file]
Offline  == Outcome("offline", Done, Absent)
TimedOut == Outcome("timeout", Done, Absent)

(* resolve(): the promise of the command; only the job's is followed. *)
Resolve(c, command, outcome) ==
  IF command.by = "job" THEN [c EXCEPT !.out = outcome] ELSE c

(* What #pump and #requestSnapshot send. *)
Transmit(c, command, own) ==
  [c EXCEPT !.wire = Append(@, [command |-> command, own |-> own])]

Send(c, command) ==
  [Transmit(c, command, TRUE) EXCEPT
     !.flying = [await |-> IF command.op = ListUsers THEN "snapshot" ELSE "resp",
                 command |-> command]]

(* #pump: the queue is empty whenever the line is down, see FailAll. *)
Pump(c) ==
  IF c.flying = NoFlight /\ c.queue # <<>>
  THEN Send([c EXCEPT !.queue = Tail(@)], Head(c.queue))
  ELSE c

(* #finish *)
Finish(c, outcome) ==
  Pump(Resolve([c EXCEPT !.flying = NoFlight], c.flying.command, outcome))

(* command() *)
Issue(c, command) ==
  IF c.up THEN Pump([c EXCEPT !.queue = Append(@, command)])
          ELSE Resolve(c, command, Offline)

(* #requestSnapshot: a list nobody waits for. *)
RequestSnapshot(c) == Transmit(c, Lister, FALSE)

(* #onSnapshot: the file replaces the cache and answers whoever waits for  *)
(* one.                                                                    *)
OnSnapshot(c, frame) ==
  LET d == [c EXCEPT !.cache = frame.file, !.rev = frame.rev]
  IN  IF c.flying.await = "snapshot"
      THEN Finish(d, Outcome("result", Done, frame.file))
      ELSE d

(* #onCommandResp: a change is success with another users_rev than the     *)
(* last one seen on this line.                                             *)
Changed(c, frame) == frame.code = Done /\ (c.rev = 0 \/ c.rev # frame.rev)

(* #onCommandResp: a result of another request is dropped. *)
OnCommandResp(c, frame) ==
  LET d == [c EXCEPT !.rev = frame.rev]
  IN  IF c.flying.await # "resp" \/ ~frame.own THEN c
      ELSE IF Changed(c, frame) THEN [d EXCEPT !.flying.await = "snapshot"]
      ELSE Finish(d, Outcome("result", frame.code, Absent))

(* Revisions are only compared with the one seen before: the model counts  *)
(* from 1 again when the relay has seen the last.                          *)
Recount(c) ==
  IF c.wire = <<>> /\ c.back = <<>> /\ c.rev = c.users_rev
  THEN [c EXCEPT !.rev = 1, !.users_rev = 1] ELSE c

(* #handleFrame of 86 and 87; every other frame is dropped. *)
HandleFrame(c) ==
  LET frame == Head(c.back)
      d     == [c EXCEPT !.back = Tail(@)]
  IN  Recount(IF frame.type = "resp" THEN OnCommandResp(d, frame) ELSE OnSnapshot(d, frame))

(* After the 86 of a change: #inFlight waits for its 87 with ... *)
HoldsResult(c) == c.flying.await = "snapshot" /\ c.flying.command.op # ListUsers
(* ... the timer of ADMIN_SNAPSHOT_WAIT_MS, else with ADMIN_COMMAND_TIMEOUT_MS. *)
AwaitsAnswer(c) == c.flying # NoFlight /\ ~HoldsResult(c)

Disown(s) == [i \in DOMAIN s |-> IF "own" \in DOMAIN s[i]
                                 THEN [s[i] EXCEPT !.own = FALSE] ELSE s[i]]

CommandTimesOut(c) ==
  Finish([c EXCEPT !.wire = Disown(@), !.back = Disown(@)], TimedOut)

SnapshotTimesOut(c) ==
  Finish(RequestSnapshot(c), Outcome("result", Done, Absent))

(* Mutant of FailAll: a command that waits for its 87 is forgotten. *)
FailAllButHeld(c) ==
  LET none   == [c EXCEPT !.flying = NoFlight, !.queue = <<>>]
      waits  == \E i \in DOMAIN c.queue : c.queue[i].by = "job"
  IN  IF waits \/ (AwaitsAnswer(c) /\ c.flying.command.by = "job")
      THEN [none EXCEPT !.out = Offline] ELSE none

(* #failAll: a command that only waits for its 87 was carried out. *)
FailAll(c) ==
  LET none   == [c EXCEPT !.flying = NoFlight, !.queue = <<>>]
      waits  == \E i \in DOMAIN c.queue : c.queue[i].by = "job"
  IN  IF waits THEN [none EXCEPT !.out = Offline]
      ELSE IF c.flying = NoFlight THEN none
      ELSE Resolve(none, c.flying.command,
                   IF HoldsResult(c) THEN Outcome("result", Done, Absent)
                                     ELSE Offline)

(* #handleDown, #dropTransport and #halt.  What was on the line is lost.   *)
(* The gateway counts from 1 again if it restarted; revisions of two lines *)
(* are never compared.                                                     *)
HandleDown(c) ==
  [FailAll([c EXCEPT !.cache = Absent]) EXCEPT
     !.up = FALSE, !.wire = <<>>, !.back = <<>>, !.rev = 0, !.users_rev = 1]

(* #handleUp and #onLogin: each line starts with a list. *)
HandleUp(c) == RequestSnapshot([c EXCEPT !.up = TRUE])

-----------------------------------------------------------------------------
(* The gateway (external): requests of a line in order.  A user has at     *)
(* least one account.                                                      *)
UserPresent(file) == \E a \in Accounts : file[a] # Absent
Nobody == [a \in Accounts |-> Absent]

Served(file, command) ==
  CASE command.op = CreateUser -> [file EXCEPT ![command.account] = command.value]
    [] command.op = PutAccount -> [file EXCEPT ![command.account] = command.value]
    [] command.op = RemoveAccount -> [file EXCEPT ![command.account] = Absent]
    [] command.op = RemoveUser -> Nobody
    [] OTHER -> file

Code(file, command) ==
  CASE command.op \in {PutAccount, RemoveAccount, RemoveUser} /\ ~UserPresent(file) -> NoSuchUser
    [] command.op = RemoveAccount /\ file[command.account] = Absent -> NoSuchAccount
    [] command.op = RemoveAccount /\ Served(file, command) = Nobody -> LastAccount
    [] OTHER -> Done

(* refuse: another program has the file, which any change may meet. *)
Serve(c, refuse) ==
  LET head    == Head(c.wire)
      command == head.command
      code    == IF refuse THEN Busy ELSE Code(c.file, command)
      file    == IF code = Done THEN Served(c.file, command) ELSE c.file
      changes == command.op = SetCost \/ file # c.file
      rev     == IF code = Done /\ changes THEN c.users_rev + 1 ELSE c.users_rev
      d       == [c EXCEPT !.wire = Tail(@), !.file = file, !.users_rev = rev]
  IN  IF command.op = ListUsers
      THEN [d EXCEPT !.back = Append(@, Snapshot(file, rev))]
      ELSE IF rev = c.users_rev
      THEN [d EXCEPT !.back = Append(@, Resp(code, rev, head.own))]
      ELSE [d EXCEPT !.back = @ \o <<Resp(code, rev, head.own), Snapshot(file, rev)>>]
=============================================================================
