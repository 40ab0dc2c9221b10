------------------------------- MODULE JobPool -------------------------------
(***************************************************************************)
(* What the batch manager src/run/Thread_Mgr.py promises (src/README.md,   *)
(* "max_thread Specifies the maximum number of scripts allowed to run      *)
(* simultaneously. The manager will automatically start the next script    *)
(* once a running one completes"), with no thread, lock, list or sleep in  *)
(* it: a pool of jobs, a limit that can be changed at any time, and a job  *)
(* that starts only when fewer jobs than the limit are running, up to a    *)
(* slack, which is 0 in the promise as it is worded.                       *)
(***************************************************************************)
EXTENDS Naturals, FiniteSets

CONSTANTS Job,    \* the commands bash ./sh/<i>.sh
          Slack   \* jobs above the limit: starts that were not seen in time

VARIABLES pending, running, limit

poolVars == <<pending, running, limit>>

PoolInit ==
  /\ pending = Job
  /\ running = {}
  /\ limit \in Nat

(* A job starts only below the limit in force. *)
PoolStart(j) ==
  /\ j \in pending
  /\ Cardinality(running) < limit + Slack
  /\ pending' = pending \ {j}
  /\ running' = running \cup {j}
  /\ UNCHANGED limit

PoolFinish(j) ==
  /\ j \in running
  /\ running' = running \ {j}
  /\ UNCHANGED <<pending, limit>>

(* Lowering the limit stops nothing that runs. *)
PoolLimit ==
  /\ limit' \in Nat
  /\ UNCHANGED <<pending, running>>

(* The machine stops; every job is to be considered again. *)
PoolCrash ==
  /\ pending' = Job
  /\ running' = {}
  /\ limit' \in Nat

PoolNext ==
  \/ \E j \in Job : PoolStart(j) \/ PoolFinish(j)
  \/ PoolLimit
  \/ PoolCrash

PoolSpec == PoolInit /\ [][PoolNext]_poolVars
==============================================================================
