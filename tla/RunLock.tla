------------------------------- MODULE RunLock -------------------------------
(***************************************************************************)
(* web/src/lib/demo/state.ts: the one run lock of the demo server, shared  *)
(* by the one-click, the wallet and the maker mode.  It is a variable of   *)
(* the process: nothing is written down, no run is asked for on release,   *)
(* and a lock older than its time limit counts as abandoned.  The path a   *)
(* run was started for is recorded there too, for nobody to read.          *)
(***************************************************************************)
EXTENDS Integers

CONSTANTS
  RunIds,        \* the match ids a run may be given
  NoId,          \* no match id attached yet
  RUN_LOCK_TTL

ASSUME RunLockAssumption == NoId \notin RunIds /\ RUN_LOCK_TTL \in Nat

VARIABLE currentRun

RunLock == [startedAt : Nat, matchId : RunIds \cup {NoId}]

NoRun == [startedAt |-> 0, matchId |-> "no run"]

RunLockTypeOK == currentRun \in RunLock \cup {NoRun}

RunLockInit == currentRun = NoRun

tryAcquireRunLock(t) ==
  /\ currentRun = NoRun \/ t - currentRun.startedAt >= RUN_LOCK_TTL
  /\ currentRun' = [startedAt |-> t, matchId |-> NoId]

\* Whichever run is the current one gets the id.
attachMatchId(id) ==
  currentRun' = IF currentRun = NoRun THEN NoRun
                                      ELSE [currentRun EXCEPT !.matchId = id]

\* Whichever run is the current one loses the lock.
releaseRunLock == currentRun' = NoRun
=============================================================================
