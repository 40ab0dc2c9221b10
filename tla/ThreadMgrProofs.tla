--------------------------- MODULE ThreadMgrProofs ---------------------------
(***************************************************************************)
(* Proofs about ThreadMgr, for any number of commands and any limits.      *)
(*                                                                         *)
(* Two inductive invariants.  Inv needs no assumption on time: it ties     *)
(* thread_list to the threads' states, the started commands to cmd, and    *)
(* every ended thread to a complete log or a recorded failure.  LateInv    *)
(* counts the started threads that are not registered while the main       *)
(* thread tests the length, without the lock: no more than the starts that *)
(* came too late, so that with none of them the test bounds the threads    *)
(* and not only the list.                                                  *)
(***************************************************************************)
EXTENDS ThreadMgr, FiniteSetTheorems, TLAPS

AtCommand == {"test_len", "test_mem", "reread", "start"}
AtEnd == {"drain", "joining", "exited"}

Inv ==
  /\ TypeOK
  /\ ListIsRegisteredThreads
  /\ \A j \in Job : st[j] = "new" <=> j >= cmd
  /\ pc \in AtCommand => cmd < NJobs
  /\ pc \in AtEnd => cmd = NJobs
  /\ \A j \in Job : st[j] \in {"ended", "done"} => log[j] = "finished" \/ j \in failed
  /\ pc = "exited" => Live = {}

Pauses == {"choose_pause", "brief", "long"}
Lates == MaxLates - budget.lates

LateInv ==
  /\ Lates \in Nat
  /\ Cardinality(Unregistered) <= Lates + (IF pc \in Pauses THEN 1 ELSE 0)
  /\ pc \in {"test_mem", "start"} => Cardinality(Live) < max_thread + Lates

(* Spending from a budget leaves it one.                                   *)
LEMMA Spent ==
  ASSUME NEW b \in Budgets, NEW c,
         \/ b.edits > 0 /\ c = [b EXCEPT !.edits = @ - 1]
         \/ b.swings > 0 /\ c = [b EXCEPT !.swings = @ - 1]
         \/ b.fails > 0 /\ c = [b EXCEPT !.fails = @ - 1]
         \/ b.crashes > 0 /\ c = [b EXCEPT !.crashes = @ - 1]
         \/ b.lates > 0 /\ c = [b EXCEPT !.lates = @ - 1]
  PROVE  c \in Budgets
  BY DEF Budgets

(* Inv holds initially.                                                    *)
LEMMA InvInit == Init => Inv
  BY NJobsAssumption, BudgetAssumption DEF Init, Inv, Budgets, TypeOK, ListIsRegisteredThreads, Job, Live,
     AtCommand, AtEnd

(* Every step of the manager, of a thread and of the environment keeps it. *)
LEMMA InvNext == Inv /\ [Next]_vars => Inv'
<1> SUFFICES ASSUME Inv, [Next]_vars PROVE Inv'
  OBVIOUS
<1> USE NJobsAssumption DEF Inv, TypeOK, ListIsRegisteredThreads, Live, AtCommand,
        AtEnd, mgrVars, envVars, Job
<1>1. CASE TakeCommand
  BY <1>1 DEF TakeCommand, ReadCfg
<1>2. CASE CommandsExhausted
  BY <1>2 DEF CommandsExhausted
<1>3. CASE TestLength
  BY <1>3 DEF TestLength
<1>4. CASE TestMemory
  BY <1>4 DEF TestMemory
<1>5. CASE Reread
  BY <1>5 DEF Reread, ReadCfg
<1>6. CASE StartThread
  BY <1>6 DEF StartThread
<1>7. CASE ChoosePause
  BY <1>7 DEF ChoosePause
<1>8. CASE WakeUp
  BY <1>8 DEF WakeUp
<1>8a. CASE WakeUpEarly
  <2>1. budget' \in Budgets
    BY <1>8a, Spent DEF WakeUpEarly
  <2>2. QED
    BY <1>8a, <2>1 DEF WakeUpEarly
<1>9. CASE Drain
  BY <1>9 DEF Drain
<1>10. CASE Join
  BY <1>10 DEF Join
<1>11. ASSUME NEW j \in Job, Thread(j) PROVE Inv'
  <2>1. CASE Register(j)
    BY <2>1 DEF Register
  <2>2. CASE GrepSkips(j)
    BY <2>2 DEF GrepSkips
  <2>3. CASE EncodeStarts(j)
    BY <2>3 DEF EncodeStarts
  <2>4. CASE EncodeFinishes(j)
    BY <2>4 DEF EncodeFinishes
  <2>5. CASE EncodeFails(j)
    <3>1. budget' \in Budgets
      BY <2>5, Spent DEF EncodeFails
    <3>2. QED
      BY <2>5, <3>1 DEF EncodeFails
  <2>6. CASE Unregister(j)
    BY <2>6 DEF Unregister
  <2>7. QED
    BY <1>11, <2>1, <2>2, <2>3, <2>4, <2>5, <2>6 DEF Thread
<1>12. CASE BeginEdit
  <2>1. budget' \in Budgets
    BY <1>12, Spent DEF BeginEdit
  <2>2. QED
    BY <1>12, <2>1 DEF BeginEdit
<1>13. CASE EndEdit
  BY <1>13 DEF EndEdit
<1>14. CASE ReplaceCfg
  <2>1. budget' \in Budgets
    BY <1>14, Spent DEF ReplaceCfg
  <2>2. QED
    BY <1>14, <2>1 DEF ReplaceCfg
<1>15. CASE MemorySwings
  <2>1. budget' \in Budgets
    BY <1>15, Spent DEF MemorySwings
  <2>2. QED
    BY <1>15, <2>1 DEF MemorySwings
<1>16. CASE Restart
  <2>1. budget' \in Budgets
    BY <1>16, Spent DEF Restart
  <2>2. QED
    BY <1>16, <2>1 DEF Restart
<1>17. CASE UNCHANGED vars
  BY <1>17 DEF vars
<1>18. QED
  BY <1>1, <1>2, <1>3, <1>4, <1>5, <1>6, <1>7, <1>8, <1>8a, <1>9, <1>10, <1>11,
     <1>12, <1>13, <1>14, <1>15, <1>16, <1>17 DEF Next, Main, Env

(* Inv is an invariant of the manager, however late threads register.      *)
THEOREM Invariance == Spec => []Inv
<1>1. Init => Inv
  BY InvInit
<1>2. Inv /\ [Next]_vars => Inv'
  BY InvNext
<1>3. QED
  BY <1>1, <1>2, PTL DEF Spec

(* The types of the manager's variables.                                   *)
THEOREM TypeCorrect == Spec => []TypeOK
<1>1. Inv => TypeOK
  BY DEF Inv
<1>2. QED
  BY <1>1, Invariance, PTL

(* thread_list.remove(index) always finds its index.                       *)
THEOREM ListCorrect == Spec => []ListIsRegisteredThreads
<1>1. Inv => ListIsRegisteredThreads
  BY DEF Inv
<1>2. QED
  BY <1>1, Invariance, PTL

(* The process never ends with an encoder running or a command untried,    *)
(* even when the drain loop ran before the last thread registered.         *)
THEOREM ExitCorrect == Spec => []ExitLeavesNothingBehind
<1>1. Inv => ExitLeavesNothingBehind
  BY NJobsAssumption DEF Inv, ExitLeavesNothingBehind, TypeOK,
     ListIsRegisteredThreads, Live, AtEnd, Job
<1>2. QED
  BY <1>1, Invariance, PTL
-----------------------------------------------------------------------------
(* Sets of commands are finite, and a subset has no more elements.         *)
LEMMA JobsFinite ==
  ASSUME NEW S, S \subseteq Job
  PROVE  IsFiniteSet(S) /\ Cardinality(S) \in Nat
<1>1. IsFiniteSet(0 .. NJobs - 1)
  BY NJobsAssumption, FS_Interval
<1>2. QED
  BY <1>1, FS_Subset, FS_CardinalityType DEF Job

LEMMA JobsMonotone ==
  ASSUME NEW S, NEW T, S \subseteq T, T \subseteq Job
  PROVE  Cardinality(S) <= Cardinality(T)
  BY JobsFinite, FS_Subset

LEMMA OneMoreJob ==
  ASSUME NEW S, NEW T, NEW j \in Job, S \subseteq Job, T \subseteq S \cup {j}
  PROVE  Cardinality(T) <= Cardinality(S) + 1
<1>1. IsFiniteSet(S) /\ Cardinality(S) \in Nat
  BY JobsFinite
<1>2. IsFiniteSet(S \cup {j}) /\ Cardinality(S \cup {j}) <= Cardinality(S) + 1
  BY <1>1, FS_AddElement
<1>3. Cardinality(T) <= Cardinality(S \cup {j})
  BY <1>2, FS_Subset
<1>4. Cardinality(T) \in Nat /\ Cardinality(S \cup {j}) \in Nat
  BY <1>2, FS_Subset, FS_CardinalityType
<1>5. QED
  BY <1>1, <1>2, <1>3, <1>4

(* The live threads are the registered and the unregistered ones.          *)
LEMMA LiveSplit ==
  ASSUME Inv
  PROVE  /\ Unregistered \subseteq Job /\ Live \subseteq Job
         /\ Cardinality(Unregistered) \in Nat /\ Cardinality(Live) \in Nat
         /\ Cardinality(Live) = Cardinality(thread_list) + Cardinality(Unregistered)
         /\ Cardinality(thread_list) \in Nat
<1>1. /\ Unregistered \subseteq Job /\ Live \subseteq Job /\ thread_list \subseteq Job
      /\ Live = thread_list \cup Unregistered /\ thread_list \cap Unregistered = {}
  BY DEF Inv, TypeOK, ListIsRegisteredThreads, Unregistered, Live
<1>2. /\ IsFiniteSet(thread_list) /\ IsFiniteSet(Unregistered)
      /\ Cardinality(Unregistered) \in Nat /\ Cardinality(Live) \in Nat
      /\ Cardinality(thread_list) \in Nat
  BY <1>1, JobsFinite
<1>3. Cardinality(thread_list \cup Unregistered)
        = Cardinality(thread_list) + Cardinality(Unregistered)
          - Cardinality(thread_list \cap Unregistered)
  BY <1>2, FS_Union
<1>4. Cardinality(thread_list \cap Unregistered) = 0
  BY <1>1, FS_EmptySet
<1>5. QED
  BY <1>1, <1>2, <1>3, <1>4

(* A step that starts nothing leaves no more threads unregistered, and no  *)
(* more of them live; if it also keeps the place, the limit and the lates, *)
(* it keeps the count.                                                     *)
LEMMA NoStart ==
  ASSUME Inv, Inv', LateInv, Live' \subseteq Live, Unregistered' \subseteq Unregistered,
         Lates' = Lates, max_thread' = max_thread,
         pc \in Pauses => pc' \in Pauses,
         pc' \in {"test_mem", "start"} => pc \in {"test_mem", "start"}
  PROVE  LateInv'
<1>1. /\ Cardinality(Live') <= Cardinality(Live)
      /\ Cardinality(Unregistered') <= Cardinality(Unregistered)
  BY LiveSplit, JobsMonotone
<1>2. /\ Cardinality(Live) \in Nat /\ Cardinality(Unregistered) \in Nat
      /\ Cardinality(Live') \in Nat /\ Cardinality(Unregistered') \in Nat
  <2>1. Live' \subseteq Job /\ Unregistered' \subseteq Job
    BY LiveSplit
  <2>2. QED
    BY <2>1, LiveSplit, JobsFinite
<1>3. max_thread \in Nat
  BY LimitAssumption DEF Inv, TypeOK
<1>4. QED
  BY <1>1, <1>2, <1>3 DEF LateInv, Pauses

(* The lates are counted when the main thread goes on too early, and the   *)
(* tested length, lates added, bounds the threads until the next start.    *)
LEMMA LateNext ==
  ASSUME Inv, LateInv, [Next]_vars
  PROVE  LateInv'
<1>0. Inv'
  BY InvNext
<1> USE DEF mgrVars, envVars
<1>1. CASE TakeCommand \/ Reread
  <2>1. /\ st' = st /\ budget' = budget /\ pc' \notin {"test_mem", "start"}
        /\ pc \notin Pauses
    BY <1>1 DEF TakeCommand, Reread, ReadCfg, Pauses
  <2>2. Unregistered' = Unregistered /\ Lates' = Lates
    BY <2>1 DEF Unregistered, Lates
  <2>3. Cardinality(Unregistered) \in Nat /\ Lates \in Nat
    BY LiveSplit DEF LateInv
  <2>4. QED
    BY <2>1, <2>2, <2>3 DEF LateInv
<1>2. CASE TestLength
  <2>1. /\ st' = st /\ budget' = budget /\ max_thread' = max_thread
        /\ pc = "test_len"
        /\ pc' = "test_mem" => ~(Cardinality(thread_list) >= max_thread)
        /\ pc' \in {"test_mem", "reread"}
    BY <1>2 DEF TestLength
  <2>2. Unregistered' = Unregistered /\ Lates' = Lates /\ Live' = Live
    BY <2>1 DEF Unregistered, Lates, Live
  <2>3. max_thread \in Nat /\ Lates \in Nat
    BY LimitAssumption DEF Inv, TypeOK, LateInv
  <2>4. Cardinality(Unregistered) <= Lates
    BY <2>1, <2>3, LiveSplit DEF LateInv, Pauses
  <2>5. pc' = "test_mem" => Cardinality(Live) < max_thread + Lates
    BY <2>1, <2>3, <2>4, LiveSplit
  <2>6. QED
    BY <2>1, <2>2, <2>3, <2>4, <2>5, LiveSplit DEF LateInv, Pauses
<1>3. CASE TestMemory \/ CommandsExhausted \/ ChoosePause \/ Drain \/ Join
  <2>1. /\ st' = st /\ budget' = budget /\ max_thread' = max_thread
        /\ pc \in Pauses => pc' \in Pauses
        /\ pc' \in {"test_mem", "start"} => pc \in {"test_mem", "start"}
    BY <1>3 DEF TestMemory, CommandsExhausted, ChoosePause, Drain, Join, Pauses
  <2>2. Unregistered' = Unregistered /\ Lates' = Lates /\ Live' = Live
    BY <2>1 DEF Unregistered, Lates, Live
  <2>3. QED
    BY <1>0, <2>1, <2>2, NoStart
<1>4. CASE StartThread
  <2>1. /\ pc = "start" /\ pc' = "choose_pause" /\ budget' = budget
        /\ st' = [st EXCEPT ![cmd] = "spawned"] /\ cmd \in Job
    BY <1>4, NJobsAssumption DEF StartThread, Inv, TypeOK, AtCommand, Job
  <2>2. Unregistered' \subseteq Unregistered \cup {cmd} /\ Lates' = Lates
    BY <2>1 DEF Unregistered, Lates, Inv, TypeOK
  <2>3. Cardinality(Unregistered') <= Cardinality(Unregistered) + 1
    BY <2>1, <2>2, LiveSplit, OneMoreJob
  <2>4. Cardinality(Unregistered') \in Nat
    <3>1. Unregistered' \subseteq Job
      BY <1>0, <2>1, <2>2, LiveSplit
    <3>2. QED
      BY <3>1, JobsFinite
  <2>5. QED
    BY <2>1, <2>2, <2>3, <2>4, LiveSplit DEF LateInv, Pauses
<1>5. CASE WakeUp
  <2>1. /\ st' = st /\ budget' = budget /\ Unregistered = {} /\ pc' = "read"
    BY <1>5 DEF WakeUp
  <2>2. Unregistered' = {} /\ Lates' = Lates
    BY <2>1 DEF Unregistered, Lates
  <2>3. QED
    BY <2>1, <2>2, FS_EmptySet DEF LateInv, Pauses
<1>6. CASE WakeUpEarly
  <2>1. /\ st' = st /\ pc = "brief" /\ pc' = "read"
        /\ budget' = [budget EXCEPT !.lates = @ - 1]
    BY <1>6 DEF WakeUpEarly
  <2>2. Unregistered' = Unregistered /\ Lates' = Lates + 1
    BY <2>1, BudgetAssumption DEF Unregistered, Lates, Inv, TypeOK, Budgets
  <2>3. QED
    BY <2>1, <2>2, LiveSplit DEF LateInv, Pauses
<1>7. ASSUME NEW j \in Job, Thread(j) PROVE LateInv'
  <2>1. /\ Lates' = Lates /\ max_thread' = max_thread /\ pc' = pc
    BY <1>7 DEF Thread, Register, GrepSkips, EncodeStarts, EncodeFinishes, EncodeFails,
       Unregister, Lates, Inv, TypeOK, Budgets
  <2>2. PICK s \in {"script", "encoding", "ended", "done"} :
          st' = [st EXCEPT ![j] = s]
    BY <1>7 DEF Thread, Register, GrepSkips, EncodeStarts, EncodeFinishes, EncodeFails,
       Unregister
  <2>3. st[j] \in {"spawned", "script", "encoding", "ended"}
    BY <1>7 DEF Thread, Register, GrepSkips, EncodeStarts, EncodeFinishes, EncodeFails,
       Unregister
  <2>4. Live' \subseteq Live /\ Unregistered' \subseteq Unregistered
    BY <2>2, <2>3 DEF Live, Unregistered, Inv, TypeOK
  <2>5. QED
    BY <1>0, <2>1, <2>4, NoStart
<1>8. CASE BeginEdit \/ EndEdit \/ ReplaceCfg \/ MemorySwings \/ UNCHANGED vars
  <2>1. /\ st' = st /\ max_thread' = max_thread /\ pc' = pc /\ Lates' = Lates
    BY <1>8 DEF BeginEdit, EndEdit, ReplaceCfg, MemorySwings, vars, Lates, Inv, TypeOK, Budgets
  <2>2. Unregistered' = Unregistered /\ Live' = Live
    BY <2>1 DEF Unregistered, Live
  <2>3. QED
    BY <1>0, <2>1, <2>2, NoStart
<1>9. CASE Restart
  <2>1. /\ Unregistered' = {} /\ Lates' = Lates /\ pc' = "read"
    BY <1>9 DEF Restart, Unregistered, Lates, Inv, TypeOK, Budgets
  <2>2. QED
    BY <2>1, FS_EmptySet DEF LateInv, Pauses
<1>10. QED
  BY <1>1, <1>2, <1>3, <1>4, <1>5, <1>6, <1>7, <1>8, <1>9 DEF Next, Main, Env

(* The two invariants hold together.                                       *)
THEOREM LateInvariance == Spec => [](Inv /\ LateInv)
<1>1. Init => Inv /\ LateInv
  <2>1. ASSUME Init PROVE LateInv
    <3>1. Unregistered = {} /\ Lates = 0 /\ pc = "read"
      BY <2>1, BudgetAssumption DEF Init, Unregistered, Lates
    <3>2. QED
      BY <3>1, FS_EmptySet DEF LateInv, Pauses
  <2>2. QED
    BY <2>1, InvInit
<1>2. Inv /\ LateInv /\ [Next]_vars => (Inv /\ LateInv)'
  BY InvNext, LateNext
<1>3. QED
  BY <1>1, <1>2, PTL DEF Spec

(* At the moment of a start the live threads exceed the registered ones by *)
(* no more than the lates.                                                 *)
LEMMA StartStep ==
  ASSUME Inv, LateInv, StartThread
  PROVE  /\ Cardinality(Live) < max_thread + Lates
         /\ cmd \in Job /\ st[cmd] = "new"
<1>1. cmd \in Job
  BY NJobsAssumption DEF StartThread, Inv, TypeOK, AtCommand, Job
<1>2. QED
  BY <1>1, NJobsAssumption DEF StartThread, Inv, LateInv, TypeOK, Job

(* A step that starts some command's thread is StartThread.                *)
LEMMA OnlyStartThreadStarts ==
  ASSUME Inv, [Next]_vars, NEW j \in Job, st[j] = "new", st'[j] # "new"
  PROVE  StartThread
  BY DEF Inv, TypeOK, Next, Main, Thread, Env, vars, mgrVars, envVars, ReadCfg,
     TakeCommand, CommandsExhausted, TestLength, TestMemory, Reread,
     ChoosePause, WakeUp, WakeUpEarly, Drain, Join, Register, GrepSkips, EncodeStarts,
     EncodeFinishes, EncodeFails, Unregister, BeginEdit, EndEdit, ReplaceCfg,
     MemorySwings, Restart

(* README's sentence about max_thread, for every number of commands and    *)
(* every sequence of edits: exceeded by no more than the lates.            *)
THEOREM StartsCorrect == Spec => StartsBelowLimit
<1>1. Inv /\ LateInv /\ [Next]_vars
        => [\A j \in Job : st[j] = "new" /\ st'[j] = "spawned"
              => Cardinality(Live) < max_thread + (MaxLates - budget.lates)]_vars
  BY StartStep, OnlyStartThreadStarts DEF Lates
<1>2. QED
  BY <1>1, LateInvariance, PTL DEF Spec, StartsBelowLimit

(* The manager implements the abstract pool, with the lates for its slack. *)
THEOREM PoolImplemented == Spec => ImplementsPool
<1> USE NJobsAssumption, LimitAssumption
<1>1. Init => Pool!PoolInit
  BY DEF Init, Pool!PoolInit, Live
<1>2. Inv /\ LateInv /\ [Next]_vars => [Pool!PoolNext]_(Pool!poolVars)
  <2> SUFFICES ASSUME Inv, LateInv, [Next]_vars
               PROVE  [Pool!PoolNext]_(Pool!poolVars)
    OBVIOUS
  <2> USE DEF Pool!poolVars, Pool!PoolNext, Live, mgrVars, envVars
  <2>0. TypeOK /\ max_thread \in Nat
    BY DEF Inv, TypeOK
  <2>1. CASE TakeCommand \/ Reread
    <3>1. max_thread' \in Nat /\ st' = st
      BY <2>0, <2>1, TornAssumption DEF TakeCommand, Reread, ReadCfg, TypeOK
    <3>2. QED
      BY <3>1 DEF Pool!PoolLimit
  <2>2. CASE \/ CommandsExhausted \/ TestLength \/ TestMemory \/ ChoosePause
             \/ WakeUp \/ WakeUpEarly \/ Drain \/ Join
    <3>1. max_thread' = max_thread /\ st' = st
      BY <2>2 DEF CommandsExhausted, TestLength, TestMemory, ChoosePause, WakeUp,
         WakeUpEarly, Drain, Join
    <3>2. QED
      BY <3>1
  <2>3. CASE StartThread
    <3>1. Cardinality(Live) < max_thread + MaxLates /\ cmd \in Job /\ st[cmd] = "new"
      <4>1. Lates <= MaxLates /\ Lates \in Nat
        BY <2>0, BudgetAssumption DEF Lates, LateInv, TypeOK, Budgets
      <4>2. QED
        BY <2>0, <2>3, <4>1, StartStep, LiveSplit, BudgetAssumption
    <3>2. max_thread' = max_thread /\ st' = [st EXCEPT ![cmd] = "spawned"]
      BY <2>3 DEF StartThread
    <3>3. Pool!Cardinality(Live) = Cardinality(Live)
      BY DEF Pool!Cardinality, Cardinality
    <3>4. PICK j \in Job : j = cmd
      BY <3>1
    <3>5. Pool!PoolStart(j)
      BY <2>0, <3>1, <3>2, <3>3, <3>4 DEF Pool!PoolStart, TypeOK
    <3>6. QED
      BY <3>5
  <2>4. ASSUME NEW j \in Job, Thread(j) PROVE [Pool!PoolNext]_(Pool!poolVars)
    <3>1. CASE Unregister(j)
      <4>1. Pool!PoolFinish(j)
        BY <2>0, <3>1 DEF Unregister, Pool!PoolFinish, TypeOK
      <4>2. QED
        BY <4>1
    <3>2. CASE \/ Register(j) \/ GrepSkips(j) \/ EncodeStarts(j)
               \/ EncodeFinishes(j) \/ EncodeFails(j)
      <4>1. PICK s \in {"script", "encoding", "ended"} :
              st' = [st EXCEPT ![j] = s]
        BY <3>2 DEF Register, GrepSkips, EncodeStarts, EncodeFinishes, EncodeFails
      <4>2. st[j] \in {"spawned", "script", "encoding"} /\ max_thread' = max_thread
        BY <3>2 DEF Register, GrepSkips, EncodeStarts, EncodeFinishes, EncodeFails
      <4>3. QED
        BY <2>0, <4>1, <4>2 DEF TypeOK
    <3>3. QED
      BY <2>4, <3>1, <3>2 DEF Thread
  <2>5. CASE BeginEdit \/ EndEdit \/ ReplaceCfg \/ MemorySwings \/ UNCHANGED vars
    <3>1. max_thread' = max_thread /\ st' = st
      BY <2>5 DEF BeginEdit, EndEdit, ReplaceCfg, MemorySwings, vars
    <3>2. QED
      BY <3>1
  <2>6. CASE Restart
    <3>1. Pool!PoolCrash
      BY <2>6 DEF Restart, Pool!PoolCrash
    <3>2. QED
      BY <3>1
  <2>7. QED
    BY <2>1, <2>2, <2>3, <2>4, <2>5, <2>6 DEF Next, Main, Env
<1>3. QED
  BY <1>1, <1>2, LateInvariance, PTL DEF Spec, ImplementsPool, Pool!PoolSpec
=============================================================================
