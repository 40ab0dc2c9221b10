------------------------------ MODULE ThreadMgr ------------------------------
(***************************************************************************)
(* src/run/Thread_Mgr.py, the batch manager, with the scripts that         *)
(* src/run/gen_sh.py generates for it.                                     *)
(*                                                                         *)
(* The main thread walks the commands in order.  For each it re-reads      *)
(* Thread_Cfg.json, waits until the list of registered threads is shorter  *)
(* than max_thread and memory permits, starts a thread and sleeps.  The    *)
(* started thread registers ITSELF in thread_list under the lock, runs the *)
(* script and unregisters under the lock; the main thread reads            *)
(* len(thread_list) without the lock.  A script skips an encode whose log  *)
(* says "finished", and otherwise truncates the log and runs the encoder.  *)
(*                                                                         *)
(* The environment edits the configuration file (a reader may meet it half *)
(* written), drives memory above and below mem_threshold, makes an encode  *)
(* fail, schedules a started thread later than the short pause, and stops  *)
(* the machine, after which the manager is started again.  Each is bounded *)
(* by a budget.                                                            *)
(***************************************************************************)
EXTENDS Naturals, FiniteSets

CONSTANTS
  NJobs,        \* number of commands (300 in the source)
  Limit,        \* the values an operator writes as max_thread
  Torn,         \* Thread_Cfg.json between its truncation and its writing
  MaxLates,     \* how often a thread may register later than the 0.02 s pause
  MaxEdits, MaxSwings, MaxFails, MaxCrashes   \* budgets of the environment

ASSUME NJobsAssumption == NJobs \in Nat
ASSUME LimitAssumption == Limit \subseteq Nat
ASSUME TornAssumption == Torn \notin Nat
ASSUME BudgetAssumption ==
  {MaxLates, MaxEdits, MaxSwings, MaxFails, MaxCrashes} \subseteq Nat

Job == 0 .. NJobs - 1

VARIABLES
  pc,           \* where the main thread stands
  cmd,          \* the command the main thread is at
  max_thread,   \* the global read from the configuration file
  thread_list,  \* indices registered under the lock
  st,           \* where each command's thread stands
  log,          \* the text file each script greps and writes
  cfg,          \* Thread_Cfg.json: a limit, or Torn
  mem_over,     \* memory use is above mem_threshold
  failed,       \* commands whose encode failed since the manager started
  budget        \* what is left of the environment's budgets

mgrVars == <<pc, cmd, max_thread, thread_list>>
envVars == <<cfg, mem_over, budget>>
vars == <<pc, cmd, max_thread, thread_list, st, log, cfg, mem_over, failed, budget>>

Live == {j \in Job : st[j] \notin {"new", "done"}}
Unregistered == {j \in Job : st[j] = "spawned"}

Init ==
  /\ pc = "read" /\ cmd = 0 /\ max_thread = 1
  /\ thread_list = {} /\ failed = {}
  /\ st = [j \in Job |-> "new"]
  /\ log = [j \in Job |-> "absent"]
  /\ cfg \in Limit
  /\ mem_over \in BOOLEAN
  /\ budget = [edits |-> MaxEdits, swings |-> MaxSwings,
               fails |-> MaxFails, crashes |-> MaxCrashes, lates |-> MaxLates]
-----------------------------------------------------------------------------
(* The main thread. *)

(* Read_Cfg: a half-written file makes json.loads raise, which ends the    *)
(* main thread; the started threads are not daemons and go on.             *)
ReadCfg(from, to) ==
  /\ pc = from
  /\ IF cfg = Torn
       THEN pc' = "raised" /\ UNCHANGED max_thread
       ELSE pc' = to /\ max_thread' = cfg
  /\ UNCHANGED <<cmd, thread_list, st, log, failed, envVars>>

TakeCommand ==      \* the for loop
  /\ pc = "read"
  /\ cmd < NJobs
  /\ ReadCfg("read", "test_len")

CommandsExhausted ==
  /\ pc = "read"
  /\ cmd = NJobs
  /\ pc' = "drain"
  /\ UNCHANGED <<cmd, max_thread, thread_list, st, log, failed, envVars>>

TestLength ==       \* len(thread_list) >= max_thread, read without the lock
  /\ pc = "test_len"
  /\ pc' = IF Cardinality(thread_list) >= max_thread THEN "reread" ELSE "test_mem"
  /\ UNCHANGED <<cmd, max_thread, thread_list, st, log, failed, envVars>>

TestMemory ==       \* not mem_permit(): evaluated only below max_thread
  /\ pc = "test_mem"
  /\ pc' = IF mem_over THEN "reread" ELSE "start"
  /\ UNCHANGED <<cmd, max_thread, thread_list, st, log, failed, envVars>>

RereadWithoutReading == \* mutant: the wait loop does not read the file again
  /\ pc = "reread"
  /\ pc' = "test_len"
  /\ UNCHANGED <<cmd, max_thread, thread_list, st, log, failed, envVars>>

Reread == ReadCfg("reread", "test_len")     \* then sleep(60)

StartThread ==      \* thread.start(); the pause depends on the list's length
  /\ pc = "start"
  /\ st' = [st EXCEPT ![cmd] = "spawned"]
  /\ cmd' = cmd + 1
  /\ pc' = "choose_pause"
  /\ UNCHANGED <<max_thread, thread_list, log, failed, envVars>>

ChoosePause ==
  /\ pc = "choose_pause"
  /\ pc' = IF Cardinality(thread_list) <= 1 THEN "brief" ELSE "long"
  /\ UNCHANGED <<cmd, max_thread, thread_list, st, log, failed, envVars>>

WakeUpAtOnce ==         \* mutant: no pause after thread.start()
  /\ pc \in {"brief", "long"}
  /\ pc' = "read"
  /\ UNCHANGED <<cmd, max_thread, thread_list, st, log, failed, envVars>>

(* The started thread registered during the pause.                         *)
WakeUp ==
  /\ pc \in {"brief", "long"}
  /\ Unregistered = {}
  /\ pc' = "read"
  /\ UNCHANGED <<cmd, max_thread, thread_list, st, log, failed, envVars>>

(* It did not: ten seconds are taken to be enough, 0.02 s may not be.      *)
WakeUpEarly ==
  /\ pc = "brief"
  /\ Unregistered # {}
  /\ budget.lates > 0
  /\ budget' = [budget EXCEPT !.lates = @ - 1]
  /\ pc' = "read"
  /\ UNCHANGED <<cmd, max_thread, thread_list, st, log, failed, cfg, mem_over>>

Drain ==            \* while len(thread_list) > 0: sleep(40)
  /\ pc = "drain"
  /\ thread_list = {}
  /\ pc' = "joining"
  /\ UNCHANGED <<cmd, max_thread, thread_list, st, log, failed, envVars>>

JoinNobody ==           \* mutant: daemon threads
  /\ pc \in {"joining", "raised"}
  /\ pc' = IF pc = "joining" THEN "exited" ELSE "died"
  /\ UNCHANGED <<cmd, max_thread, thread_list, st, log, failed, envVars>>

(* exit(), or the end of an exception: the interpreter joins every         *)
(* non-daemon thread before the process ends.                              *)
Join ==
  /\ pc \in {"joining", "raised"}
  /\ Live = {}
  /\ pc' = IF pc = "joining" THEN "exited" ELSE "died"
  /\ UNCHANGED <<cmd, max_thread, thread_list, st, log, failed, envVars>>
-----------------------------------------------------------------------------
(* thread_cmd, one thread per started command. *)

Register(j) ==      \* with lock: thread_list.append(index)
  /\ st[j] = "spawned"
  /\ thread_list' = thread_list \cup {j}
  /\ st' = [st EXCEPT ![j] = "script"]
  /\ UNCHANGED <<pc, cmd, max_thread, log, failed, envVars>>

GrepSkips(j) ==     \* grep -c finished found it: exit 0
  /\ st[j] = "script"
  /\ log[j] = "finished"
  /\ st' = [st EXCEPT ![j] = "ended"]
  /\ UNCHANGED <<mgrVars, log, failed, envVars>>

EncodeStarts(j) ==  \* no log, or none that says finished: "> log" truncates
  /\ st[j] = "script"
  /\ log[j] # "finished"
  /\ st' = [st EXCEPT ![j] = "encoding"]
  /\ log' = [log EXCEPT ![j] = "partial"]
  /\ UNCHANGED <<mgrVars, failed, envVars>>

EncodeFinishes(j) ==
  /\ st[j] = "encoding"
  /\ st' = [st EXCEPT ![j] = "ended"]
  /\ log' = [log EXCEPT ![j] = "finished"]
  /\ UNCHANGED <<mgrVars, failed, envVars>>

EncodeFails(j) ==   \* os.system ignores the exit status
  /\ st[j] = "encoding"
  /\ budget.fails > 0
  /\ budget' = [budget EXCEPT !.fails = @ - 1]
  /\ st' = [st EXCEPT ![j] = "ended"]
  /\ failed' = failed \cup {j}
  /\ UNCHANGED <<mgrVars, log, cfg, mem_over>>

Unregister(j) ==    \* with lock: thread_list.remove(index)
  /\ st[j] = "ended"
  /\ thread_list' = thread_list \ {j}
  /\ st' = [st EXCEPT ![j] = "done"]
  /\ UNCHANGED <<pc, cmd, max_thread, log, failed, envVars>>
-----------------------------------------------------------------------------
(* The environment. *)

BeginEdit ==
  /\ budget.edits > 0 /\ cfg # Torn
  /\ cfg' = Torn
  /\ budget' = [budget EXCEPT !.edits = @ - 1]
  /\ UNCHANGED <<mgrVars, st, log, mem_over, failed>>

EndEdit ==
  /\ cfg = Torn
  /\ cfg' \in Limit
  /\ UNCHANGED <<mgrVars, st, log, mem_over, failed, budget>>

ReplaceCfg ==       \* an editor that renames a complete file into place
  /\ budget.edits > 0 /\ cfg # Torn
  /\ cfg' \in Limit \ {cfg}
  /\ budget' = [budget EXCEPT !.edits = @ - 1]
  /\ UNCHANGED <<mgrVars, st, log, mem_over, failed>>

MemorySwings ==
  /\ budget.swings > 0
  /\ budget' = [budget EXCEPT !.swings = @ - 1]
  /\ mem_over' = ~mem_over
  /\ UNCHANGED <<mgrVars, st, log, cfg, failed>>

(* The machine stops and the manager is started again: its memory and the  *)
(* encoders are gone, the logs stay.  Also the operator's next session     *)
(* after the manager has ended.                                            *)
Restart ==
  /\ budget.crashes > 0
  /\ budget' = [budget EXCEPT !.crashes = @ - 1]
  /\ pc' = "read" /\ cmd' = 0 /\ max_thread' = 1
  /\ thread_list' = {} /\ failed' = {}
  /\ st' = [j \in Job |-> "new"]
  /\ UNCHANGED <<log, cfg, mem_over>>
-----------------------------------------------------------------------------
Main ==
  \/ TakeCommand \/ CommandsExhausted \/ TestLength \/ TestMemory \/ Reread
  \/ StartThread \/ ChoosePause \/ WakeUp \/ WakeUpEarly \/ Drain \/ Join

Thread(j) ==
  \/ Register(j) \/ GrepSkips(j) \/ EncodeStarts(j)
  \/ EncodeFinishes(j) \/ EncodeFails(j) \/ Unregister(j)

Env == BeginEdit \/ EndEdit \/ ReplaceCfg \/ MemorySwings \/ Restart

Next == Main \/ (\E j \in Job : Thread(j)) \/ Env

Spec == Init /\ [][Next]_vars

(* The operating system schedules the main thread and every started one,   *)
(* and an encoder that runs ends.                                          *)
FairSpec == Spec /\ WF_vars(Main) /\ \A j \in Job : WF_vars(Thread(j))
-----------------------------------------------------------------------------
Budgets == [edits : Nat, swings : Nat, fails : Nat, crashes : Nat, lates : Nat]

TypeOK ==
  /\ pc \in {"read", "test_len", "test_mem", "reread", "start", "choose_pause",
             "brief", "long", "drain", "joining", "exited", "raised", "died"}
  /\ cmd \in 0 .. NJobs
  /\ max_thread \in Limit \cup {1}
  /\ thread_list \subseteq Job
  /\ st \in [Job -> {"new", "spawned", "script", "encoding", "ended", "done"}]
  /\ log \in [Job -> {"absent", "partial", "finished"}]
  /\ cfg \in Limit \cup {Torn}
  /\ mem_over \in BOOLEAN
  /\ failed \subseteq Job
  /\ budget \in Budgets

(* thread_list is exactly the threads between their two critical sections, *)
(* so remove(index) always finds its index (it would raise ValueError).    *)
ListIsRegisteredThreads ==
  thread_list = {j \in Job : st[j] \in {"script", "encoding", "ended"}}

(* When the process is gone, no encoder of its is left running, and every  *)
(* command has a finished log or was seen to fail: leaving the drain loop  *)
(* before the last thread registered (thread_list still empty) must not    *)
(* cut a job off.                                                          *)
ExitLeavesNothingBehind ==
  pc = "exited" =>
    /\ Live = {} /\ thread_list = {}
    /\ \A j \in Job : log[j] = "finished" \/ j \in failed

(* README: max_thread is the maximum number of scripts that run at a time. *)
(* Stated of the threads themselves, not of the list they register in, at  *)
(* the moment a new one is started: it is exceeded by no more than the     *)
(* number of registrations that came too late.                             *)
StartsBelowLimit ==
  [][\A j \in Job : st[j] = "new" /\ st'[j] = "spawned"
       => Cardinality(Live) < max_thread + (MaxLates - budget.lates)]_vars

(* The same sentence, stated of the scripts that run (docs: README line 50).*)
ScriptsWithinMaxThread ==
  Cardinality({j \in Job : st[j] \in {"script", "encoding"}}) <= max_thread

(* What the pool promises, under the mapping: a job runs from the start of *)
(* its thread to its end.                                                  *)
Pool == INSTANCE JobPool WITH
          pending <- {j \in Job : st[j] = "new"},
          running <- Live,
          limit <- max_thread,
          Slack <- MaxLates
ImplementsPool == Pool!PoolSpec

(* Once the configuration stays readable and allows a thread, memory stays *)
(* below the threshold and the machine stays up, every command is run and  *)
(* the manager ends, or it had already died of a half-written file.        *)
Favourable == cfg \notin {Torn, 0} /\ ~mem_over
Terminates == <>[]Favourable => <>(pc \in {"exited", "died"})
=============================================================================
