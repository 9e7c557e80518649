---------------------------- MODULE SessionManager ----------------------------
(***************************************************************************)
(* relay/src/dma/session-manager.ts for one user: one entry per order      *)
(* server, with a reference count and a grace timer.  Users share nothing  *)
(* here (the key is user and server), so one user is enough.               *)
(*                                                                         *)
(* A DmaSession is the number of its login on that server, counted by      *)
(* `opened`; `live` holds the sessions not close()d yet.  The life of one  *)
(* session is DmaSession; here it is up, failed or refused.                *)
(***************************************************************************)
EXTENDS Integers

CONSTANTS Servers,     \* order servers
          MaxOpens     \* bound on the sessions opened on one server

ASSUME MaxOpensAssumption == MaxOpens \in Nat

VARIABLES
  entry,    \* #sessions: Servers -> Entry; session 0 when there is none
  opened,   \* Servers -> number of sessions opened so far
  live      \* Servers -> sessions not closed

manager == <<entry, opened, live>>

(* state: "up" any state but "failed" (RETRYABLE_DEAD_STATES) and          *)
(* "refused" (NO_RETRY_STATES: session_rejected, unauthorized).            *)
Entry == [ session : Nat, state : {"up", "failed", "refused"},
           refCount : Nat, grace : BOOLEAN ]

NoEntry == [session |-> 0, state |-> "up", refCount |-> 0, grace |-> FALSE]

ManagerTypeOK ==
  /\ entry \in [Servers -> Entry]
  /\ opened \in [Servers -> Nat]
  /\ live \in [Servers -> SUBSET Nat]

ManagerInit ==
  /\ entry = [s \in Servers |-> NoEntry]
  /\ opened = [s \in Servers |-> 0]
  /\ live = [s \in Servers |-> {}]

Present(s) == entry[s].session # 0

-----------------------------------------------------------------------------
(* Mutant of Opens: a refused session is logged in again on a new visit.   *)
OpensAfterRefusal(s) ==
  ~Present(s) \/ (entry[s].refCount = 0 /\ entry[s].state \in {"failed", "refused"})

(* acquireOn opens a new session when there is none, or when the one there *)
(* failed and nobody holds it.                                             *)
Opens(s) == ~Present(s) \/ (entry[s].refCount = 0 /\ entry[s].state = "failed")

(* n calls of acquireOn for one server, one after the other.               *)
Acquired(s, n) ==
  IF n = 0 THEN entry[s]
  ELSE IF Opens(s)
    THEN [session |-> opened[s] + 1, state |-> "up", refCount |-> n, grace |-> FALSE]
    ELSE [entry[s] EXCEPT !.refCount = @ + n, !.grace = FALSE]

(* Mutant of Acquire: the failed session is forgotten, not closed.         *)
AcquireLeavesOld(count) ==
  LET new == {s \in Servers : count[s] > 0 /\ Opens(s)}
  IN /\ \A s \in new : opened[s] < MaxOpens
     /\ entry' = [s \in Servers |-> Acquired(s, count[s])]
     /\ opened' = [s \in Servers |-> IF s \in new THEN opened[s] + 1 ELSE opened[s]]
     /\ live' = [s \in Servers |-> IF s \in new THEN live[s] \cup {opened[s] + 1} ELSE live[s]]

(* acquireOn, count[s] times on each server; a replaced session is closed. *)
Acquire(count) ==
  LET new == {s \in Servers : count[s] > 0 /\ Opens(s)}
  IN /\ \A s \in new : opened[s] < MaxOpens
     /\ entry' = [s \in Servers |-> Acquired(s, count[s])]
     /\ opened' = [s \in Servers |-> IF s \in new THEN opened[s] + 1 ELSE opened[s]]
     /\ live' = [s \in Servers |->
                   IF s \in new THEN (live[s] \ {entry[s].session}) \cup {opened[s] + 1}
                                ELSE live[s]]

(* release, n times: no entry, no effect; at 0 the grace timer is armed.   *)
Released(s, n) ==
  IF n = 0 \/ ~Present(s) THEN entry[s]
  ELSE LET left == IF entry[s].refCount > n THEN entry[s].refCount - n ELSE 0
       IN [entry[s] EXCEPT !.refCount = left, !.grace = @ \/ left = 0]

(* Mutant of Release: the last tab's release forgets the grace timer.      *)
ReleaseNoGrace(count) ==
  /\ entry' = [s \in Servers |->
                 [Released(s, count[s]) EXCEPT !.grace = entry[s].grace]]
  /\ UNCHANGED <<opened, live>>

Release(count) ==
  /\ entry' = [s \in Servers |-> Released(s, count[s])]
  /\ UNCHANGED <<opened, live>>

(* Mutant of ReleaseSession: release by key, the code before GC-01.        *)
ReleaseSessionByKey(s, session) ==
  /\ entry' = [entry EXCEPT ![s] = Released(s, 1)]
  /\ UNCHANGED <<opened, live>>

(* releaseSession: only if the entry still holds that very session.        *)
ReleaseSession(s, session) ==
  /\ entry' = IF entry[s].session = session THEN [entry EXCEPT ![s] = Released(s, 1)] ELSE entry
  /\ UNCHANGED <<opened, live>>

(* The grace timer of release.                                             *)
GraceExpires(s) ==
  /\ entry[s].grace
  /\ entry' = [entry EXCEPT ![s] = NoEntry]
  /\ live' = [live EXCEPT ![s] = @ \ {entry[s].session}]
  /\ UNCHANGED opened

(* dropUser: every entry of the user goes, its session is closed.          *)
DropUser ==
  /\ entry' = [s \in Servers |-> NoEntry]
  /\ live' = [s \in Servers |-> live[s] \ {entry[s].session}]
  /\ UNCHANGED opened

(* closeForDmaUser: the session ends as unauthorized, the entry stays.     *)
CloseForDmaUser(s) ==
  /\ Present(s) /\ entry[s].state # "refused"
  /\ entry' = [entry EXCEPT ![s].state = "refused"]
  /\ UNCHANGED <<opened, live>>

(* What DmaSession does meanwhile: a boot fails, a login is refused.       *)
SessionEnds(s) ==
  /\ Present(s) /\ entry[s].state = "up"
  /\ \E end \in {"failed", "refused"} : entry' = [entry EXCEPT ![s].state = end]
  /\ UNCHANGED <<opened, live>>
=============================================================================
