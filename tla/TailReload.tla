------------------------------ MODULE TailReload ------------------------------
(***************************************************************************)
(* relay/src/util/tail-reload.ts: the reload coordinator shared by the     *)
(* access map, the server registry and the per-account order servers.      *)
(*                                                                         *)
(* Two slots: `running`, the one read in progress, and `tail`, the one     *)
(* read that starts when it ends.  now() joins the tail while a read runs, *)
(* shared() joins the running read.  A caller is one call of now() or      *)
(* shared() whose promise is a row of `call`; the data source is a version *)
(* counter that commits move forward.                                      *)
(***************************************************************************)
EXTENDS Integers

CONSTANTS Callers,       \* calls of now() and shared(); each happens once
          MaxVersion     \* bound on the commits of the data source

ASSUME MaxVersionAssumption == MaxVersion \in Nat

VARIABLES
  running,   \* #running: phase of the read in progress
             \*   "idle", "sent" (load() called), "read" (source sampled)
  sampled,   \* the version that read will resolve to
  tail,      \* #tail # null
  closed,    \* #closed
  version,   \* the data source: the last committed version
  call       \* Callers -> the promise each call holds

reloadVars == <<running, sampled, tail, closed, version, call>>

Versions == 0..MaxVersion

(* slot: where the promise hangs ("handed": resolved, after close(), with  *)
(* the read the tail was waiting behind); want: the version committed when *)
(* now() was called (0 for shared()); got: the version it resolved to.     *)
CallRecord ==
  [ slot : {"new", "run", "tail", "resolved", "handed", "rejected"},
    kind : {"now", "shared"},
    want : Versions,
    got  : Versions ]

ReloadTypeOK ==
  /\ running \in {"idle", "sent", "read"}
  /\ sampled \in Versions
  /\ tail \in BOOLEAN
  /\ closed \in BOOLEAN
  /\ version \in Versions
  /\ call \in [Callers -> CallRecord]

ReloadInit ==
  /\ running = "idle"
  /\ sampled = 0
  /\ tail = FALSE
  /\ closed = FALSE
  /\ version = 0
  /\ call = [c \in Callers |-> [slot |-> "new", kind |-> "now", want |-> 0, got |-> 0]]

-----------------------------------------------------------------------------
(* #start: nothing is loaded after close(); the promise of a refused start *)
(* is already rejected.                                                    *)
Start == /\ running' = IF closed THEN "idle" ELSE "sent"
         /\ sampled' = 0

(* Mutant of StartSlot: after close() a refused start hands out no promise.*)
StartSlotNull == IF closed THEN "null" ELSE "run"

StartSlot == IF closed THEN "rejected" ELSE "run"

Shared(c) ==
  /\ call[c].slot = "new"
  /\ call' = [call EXCEPT ![c] = [ slot |-> IF running = "idle" THEN StartSlot ELSE "run",
                                   kind |-> "shared", want |-> 0, got |-> 0 ]]
  /\ IF running = "idle" THEN Start ELSE UNCHANGED <<running, sampled>>
  /\ UNCHANGED <<tail, closed, version>>

(* Mutant of Now: before 29-28 a forced reload shared the running read.     *)
NowJoinsRunning(c) ==
  /\ call[c].slot = "new"
  /\ call' = [call EXCEPT ![c] = [ slot |-> IF running = "idle" THEN StartSlot ELSE "run",
                                   kind |-> "now", want |-> version, got |-> 0 ]]
  /\ IF running = "idle" THEN Start ELSE UNCHANGED <<running, sampled>>
  /\ UNCHANGED <<tail, closed, version>>

Now(c) ==
  /\ call[c].slot = "new"
  /\ call' = [call EXCEPT ![c] = [ slot |-> IF running = "idle" THEN StartSlot ELSE "tail",
                                   kind |-> "now", want |-> version, got |-> 0 ]]
  /\ IF running = "idle" THEN Start /\ UNCHANGED tail
                         ELSE tail' = TRUE /\ UNCHANGED <<running, sampled>>
  /\ UNCHANGED <<closed, version>>

Close ==
  /\ ~closed
  /\ closed' = TRUE
  /\ UNCHANGED <<running, sampled, tail, version, call>>

(* Mutant of Settle: close() drops the tail without resolving its callers. *)
SettleForgetsTail(outcome) ==
  /\ call' = [c \in Callers |->
                CASE call[c].slot = "run" ->
                       [call[c] EXCEPT !.slot = outcome,
                                       !.got = IF outcome = "resolved" THEN sampled ELSE 0]
                  [] call[c].slot = "tail" /\ ~closed -> [call[c] EXCEPT !.slot = "run"]
                  [] OTHER -> call[c]]
  /\ IF tail THEN Start ELSE running' = "idle" /\ sampled' = 0
  /\ tail' = FALSE
  /\ UNCHANGED <<closed, version>>

(* #settle: the callers of the finished read get its outcome; the tail is  *)
(* promoted to a new read, or, after close(), takes the same outcome.      *)
Settle(outcome) ==
  LET got == IF outcome = "resolved" THEN sampled ELSE 0
      handed == IF outcome = "resolved" THEN "handed" ELSE "rejected"
  IN /\ call' = [c \in Callers |->
                   CASE call[c].slot = "run" -> [call[c] EXCEPT !.slot = outcome, !.got = got]
                     [] call[c].slot = "tail" /\ closed ->
                          [call[c] EXCEPT !.slot = handed, !.got = got]
                     [] call[c].slot = "tail" /\ ~closed -> [call[c] EXCEPT !.slot = "run"]
                     [] OTHER -> call[c]]
     /\ IF tail THEN Start ELSE running' = "idle" /\ sampled' = 0
     /\ tail' = FALSE
     /\ UNCHANGED <<closed, version>>

LoadSucceeds == running = "read" /\ Settle("resolved")

LoadFails == running \in {"sent", "read"} /\ Settle("rejected")

-----------------------------------------------------------------------------
(* The data source (external: an RPC to the database).                     *)
Commit ==
  /\ version < MaxVersion
  /\ version' = version + 1
  /\ UNCHANGED <<running, sampled, tail, closed, call>>

Sample ==
  /\ running = "sent"
  /\ running' = "read"
  /\ sampled' = version
  /\ UNCHANGED <<tail, closed, version, call>>

-----------------------------------------------------------------------------
LoadEnds == LoadSucceeds \/ LoadFails

ReloadNext ==
  \/ \E c \in Callers : Now(c) \/ Shared(c)
  \/ Close
  \/ LoadEnds
  \/ Commit
  \/ Sample

(* An RPC that was sent is answered or fails.                              *)
ReloadFairness == WF_reloadVars(Sample) /\ WF_reloadVars(LoadEnds)

ReloadSpec == ReloadInit /\ [][ReloadNext]_reloadVars /\ ReloadFairness

-----------------------------------------------------------------------------
(* A forced reload asked for after a commit returns what a read started    *)
(* after that commit saw, however the calls overlapped.  The one exception *)
(* is the rule of close(): a tail not started yet takes the older read.    *)
FreshReload ==
  \A c \in Callers :
    call[c].slot = "resolved" /\ call[c].kind = "now" => call[c].got >= call[c].want

(* A caller parked on the tail has a tail slot that will be promoted, and  *)
(* a caller on the running read has a read: no promise is left hanging.    *)
NobodyOrphaned ==
  \A c \in Callers :
    /\ call[c].slot = "run" => running # "idle"
    /\ call[c].slot = "tail" => running # "idle" /\ tail

(* Every call is settled in the end, through close() too.                  *)
EveryCallSettles ==
  \A c \in Callers : call[c].slot \in {"run", "tail"} ~> call[c].slot \in {"resolved", "handed", "rejected"}
=============================================================================
