--------------------------- MODULE SchedulerProofs ---------------------------
(***************************************************************************)
(* Proofs about Scheduler for any set of CPUs, any length of the thread     *)
(* list and any set of events.                                              *)
(***************************************************************************)
EXTENDS Scheduler, TLAPS

(***************************************************************************)
(* Type correctness.  TypeOK is not inductive alone: an action that indexes *)
(* the thread table by current, subject or built needs to know that its     *)
(* program counter implies the pointer is not null.                         *)
(***************************************************************************)
HasSubject == {"watchdog_make", "elf_lock", "vfs_make", "t_new", "t_old",
               "t_switch", "f_copy", "f_wake"}
HasBuilt == {"vfs", "vfs_make", "elf_done"}
HasCurrent == {"run", "b_set", "s_set", "f_lock", "f_create", "f_copy",
               "f_wake", "k_lock", "k_kill", "t_old"}

PointersOK ==
    \A c \in CPUs :
      /\ pc[c] \in HasSubject => subject[c] \in Slots
      /\ pc[c] \in HasBuilt => built[c] \in Slots
      /\ pc[c] \in HasCurrent => current[c] \in Slots

TypeInv == TypeOK /\ PointersOK

USE CpuAssumption, ThreadAssumption, EventAssumption, WorkloadAssumption
USE DEF Slots, nullptr, kernel_vmm, kernel_thread

LEMMA TypeInit == Init => TypeInv
BY DEF Init, TypeInv, TypeOK, PointersOK, HasSubject, HasBuilt, HasCurrent,
       ThreadStates, Rax, PCs, FreshContext, FreshRegs

\* Creating a thread and making it a kernel thread preserve the types, whatever
\* step follows (next), provided the step that follows needs no other pointer.
LEMMA TypeCreate ==
  ASSUME TypeInv, NEW c \in CPUs, NEW priv \in {0, 1}, NEW next \in PCs,
         create_blocked_thread(c, priv, next),
         next \in HasBuilt => built[c] \in Slots,
         next \in HasCurrent => current[c] \in Slots
  PROVE  TypeInv'
<1>1. PICK t \in Slots :
        /\ TakesSlot(t)
        /\ n_threads' = IF Reusable # {} THEN n_threads ELSE n_threads + 1
        /\ state' = [state EXCEPT ![t] = "SILENT"]
        /\ privileged' = [privileged EXCEPT ![t] = priv]
        /\ context' = [context EXCEPT ![t] = FreshContext]
        /\ left' = [left EXCEPT ![t] = FreshRegs]
        /\ subject' = [subject EXCEPT ![c] = t]
        /\ pc' = [pc EXCEPT ![c] = next]
        /\ UNCHANGED <<event, count, thread_lock, scheduler_mutex, current,
                       regs, cr3, scan, built, ret>>
  BY Zenon DEF create_blocked_thread, Goto
<1>2. n_threads' \in 1 .. MaxThreads
  BY <1>1 DEF TypeInv, TypeOK, TakesSlot
<1>3. state' \in [Slots -> ThreadStates] /\ privileged' \in [Slots -> {0, 1}]
  BY Zenon, <1>1 DEF TypeInv, TypeOK, ThreadStates
<1>4. /\ context' \in [Slots -> [pos : {0, 1}, rax : Rax, cr3 : Slots \cup {nullptr}]]
      /\ left' \in [Slots -> [pos : {0, 1}, rax : Rax]]
  BY Zenon, <1>1 DEF TypeInv, TypeOK, Rax, FreshContext, FreshRegs
<1>5. pc' \in [CPUs -> PCs] /\ subject' \in [CPUs -> Slots \cup {nullptr}]
  BY <1>1 DEF TypeInv, TypeOK
<1>6. TypeOK'
  BY Zenon, <1>1, <1>2, <1>3, <1>4, <1>5 DEF TypeInv, TypeOK
<1>7. PointersOK'
  BY <1>1 DEF TypeInv, TypeOK, PointersOK
<1>8. QED BY <1>6, <1>7 DEF TypeInv

LEMMA TypeMake ==
  ASSUME TypeInv, NEW c \in CPUs, NEW next \in PCs,
         make_kernel_thread(c, next), subject[c] \in Slots,
         next \in HasBuilt => built[c] \in Slots,
         next \notin HasCurrent
  PROVE  TypeInv'
<1>1. state' \in [Slots -> ThreadStates] /\ privileged' \in [Slots -> {0, 1}]
  BY Zenon DEF TypeInv, TypeOK, ThreadStates, make_kernel_thread
<1>2. context' \in [Slots -> [pos : {0, 1}, rax : Rax, cr3 : Slots \cup {nullptr}]]
  BY DEF TypeInv, TypeOK, make_kernel_thread, WithSpace
<1>3. TypeOK'
  BY Zenon, <1>1, <1>2 DEF TypeInv, TypeOK, make_kernel_thread, Goto, localVars
<1>4. PointersOK'
  BY DEF TypeInv, TypeOK, PointersOK, make_kernel_thread, Goto, localVars
<1>5. QED BY <1>3, <1>4 DEF TypeInv

LEMMA TypeEnter ==
  ASSUME TypeInv, NEW c \in CPUs, NEW rax \in Rax, NEW expect \in Rax,
         current[c] \in Slots, Enter(c, rax, expect)
  PROVE  /\ regs' \in [CPUs -> [pos : {0, 1}, rax : Rax]]
         /\ left' \in [Slots -> [pos : {0, 1}, rax : Rax]]
<1>1. regs[c].pos \in {0, 1}
  BY DEF TypeInv, TypeOK
<1>2. PICK p \in {0, 1} : p = 1 - regs[c].pos
  BY <1>1
<1>3. /\ regs' = [regs EXCEPT ![c] = [pos |-> p, rax |-> rax]]
      /\ left' = [left EXCEPT ![current[c]] = [pos |-> p, rax |-> expect]]
  BY <1>2 DEF Enter
<1>4. QED BY <1>3 DEF TypeInv, TypeOK

LEMMA TypeStep == TypeInv /\ [Next]_vars => TypeInv'
<1> SUFFICES ASSUME TypeInv, [Next]_vars PROVE TypeInv'
  OBVIOUS
<1> USE DEF HasSubject, HasBuilt, HasCurrent, Goto
<1>0. ASSUME NEW c \in CPUs, ElfUnreadable(c) PROVE TypeInv'
  <2>1. TypeOK'
    BY Zenon, <1>0 DEF TypeInv, TypeOK, PointersOK, threadVars, localVars, ThreadStates, Rax, PCs,
       ElfUnreadable
  <2>2. PointersOK'
    BY <1>0 DEF TypeInv, TypeOK, PointersOK, threadVars, localVars, ElfUnreadable
  <2>3. QED BY <2>1, <2>2 DEF TypeInv
<1>1. ASSUME NEW c \in CPUs, init_cpu(c) PROVE TypeInv'
  <2>1. TypeOK'
    BY SMTT(30), <1>1 DEF TypeInv, TypeOK, PointersOK, threadVars, localVars, ThreadStates, Rax, PCs,
       init_cpu
  <2>2. PointersOK'
    BY <1>1 DEF TypeInv, TypeOK, PointersOK, threadVars, localVars, init_cpu
  <2>3. QED BY <2>1, <2>2 DEF TypeInv
<1>2. ASSUME NEW c \in CPUs, StartWatchdog(c) PROVE TypeInv'
  BY Zenon, <1>2, TypeCreate DEF StartWatchdog, TypeInv, TypeOK, PointersOK, PCs
<1>3. ASSUME NEW c \in CPUs, MakeWatchdog(c) PROVE TypeInv'
  BY <1>3, TypeMake DEF MakeWatchdog, TypeInv, PointersOK, PCs
<1>4. ASSUME NEW c \in CPUs, StartElf(c) PROVE TypeInv'
  BY Zenon, <1>4, TypeCreate DEF StartElf, TypeInv, TypeOK, PointersOK, PCs
<1>5. ASSUME NEW c \in CPUs, LockElf(c) PROVE TypeInv'
  <2>1. TypeOK'
    BY SMTT(30), <1>5 DEF TypeInv, TypeOK, PointersOK, threadVars, localVars, ThreadStates, Rax, PCs,
       LockElf, WithSpace
  <2>2. PointersOK'
    BY <1>5 DEF TypeInv, TypeOK, PointersOK, threadVars, localVars, LockElf, WithSpace
  <2>3. QED BY <2>1, <2>2 DEF TypeInv
<1>6. ASSUME NEW c \in CPUs, StartVfs(c) PROVE TypeInv'
  BY Zenon, <1>6, TypeCreate DEF StartVfs, TypeInv, TypeOK, PointersOK, PCs
<1>7. ASSUME NEW c \in CPUs, MakeVfs(c) PROVE TypeInv'
  BY <1>7, TypeMake DEF MakeVfs, TypeInv, PointersOK, PCs
<1>8. ASSUME NEW c \in CPUs, NEW loaded \in LoadResults, FinishElf(c, loaded) PROVE TypeInv'
  <2>1. TypeOK'
    BY Zenon, <1>8 DEF TypeInv, TypeOK, PointersOK, threadVars, localVars, ThreadStates, Rax, PCs,
       FinishElf
  <2>2. PointersOK'
    BY <1>8 DEF TypeInv, TypeOK, PointersOK, threadVars, localVars, FinishElf
  <2>3. QED BY <2>1, <2>2 DEF TypeInv
<1>9. ASSUME NEW c \in CPUs, Tick(c) PROVE TypeInv'
  <2>1. /\ regs' \in [CPUs -> [pos : {0, 1}, rax : Rax]]
        /\ left' \in [Slots -> [pos : {0, 1}, rax : Rax]]
    <3>1. CASE pc[c] = "run" /\ Enter(c, "user", "user")
      BY <3>1, TypeEnter DEF TypeInv, PointersOK, Rax
    <3>2. CASE UNCHANGED <<regs, left>>
      BY <3>2 DEF TypeInv, TypeOK
    <3>3. QED BY <1>9, <3>1, <3>2 DEF Tick
  <2>2. pc' \in [CPUs -> PCs]
    BY <1>9 DEF TypeInv, TypeOK, Tick, PCs
  <2>3. TypeOK'
    BY Zenon, <1>9, <2>1, <2>2 DEF TypeInv, TypeOK, threadVars, Tick
  <2>4. PointersOK'
    BY <1>9 DEF TypeInv, TypeOK, PointersOK, threadVars, Tick
  <2>5. QED BY <2>3, <2>4 DEF TypeInv
<1>10. ASSUME NEW c \in CPUs, NEW op \in Ops, Syscall(c, op) PROVE TypeInv'
  <2>1. current[c] \in Slots /\ pc[c] = "run"
    BY <1>10 DEF TypeInv, PointersOK, Syscall
  <2>2. /\ regs' \in [CPUs -> [pos : {0, 1}, rax : Rax]]
        /\ left' \in [Slots -> [pos : {0, 1}, rax : Rax]]
    BY <1>10, <2>1, TypeEnter DEF Syscall, Rax
  <2>3. FirstStep(op) \in {"t_lock", "b_set", "s_set", "f_lock", "k_lock"}
    BY DEF FirstStep, AllOps
  <2>4. pc' = [pc EXCEPT ![c] = FirstStep(op)]
    BY <1>10 DEF Syscall
  <2>5. pc' \in [CPUs -> PCs]
    BY <2>3, <2>4 DEF TypeInv, TypeOK, PCs
  <2>6. cr3' \in [CPUs -> Slots \cup {kernel_vmm}] /\ ret' \in [CPUs -> {"none", "zero"}]
    BY <1>10 DEF TypeInv, TypeOK, Syscall
  <2>7. UNCHANGED <<n_threads, state, event, privileged, context, count, thread_lock,
                    scheduler_mutex, current, scan, subject, built>>
    BY <1>10 DEF Syscall, threadVars
  <2>8. TypeOK'
    BY <2>2, <2>5, <2>6, <2>7 DEF TypeInv, TypeOK
  <2>9. PointersOK'
    BY Zenon, <2>1, <2>3, <2>4, <2>7 DEF TypeInv, TypeOK, PointersOK
  <2>10. QED BY <2>8, <2>9 DEF TypeInv
<1>11. ASSUME NEW c \in CPUs, NEW e \in Events, trigger(c, e) PROVE TypeInv'
  <2>1. count' \in [Events -> 0 .. MaxCount]
    BY <1>11 DEF TypeInv, TypeOK, trigger
  <2>2. TypeOK'
    BY Zenon, <1>11, <2>1 DEF TypeInv, TypeOK, threadVars, localVars, trigger
  <2>3. PointersOK'
    BY <1>11 DEF TypeInv, PointersOK, localVars, trigger
  <2>4. QED BY <2>2, <2>3 DEF TypeInv
<1>12. ASSUME NEW c \in CPUs, LockScheduler(c) PROVE TypeInv'
  <2>1. TypeOK'
    BY SMTT(30), <1>12 DEF TypeInv, TypeOK, PointersOK, threadVars, localVars, ThreadStates, Rax, PCs,
       LockScheduler, ScanStart
  <2>2. PointersOK'
    BY <1>12 DEF TypeInv, TypeOK, PointersOK, threadVars, localVars, LockScheduler, ScanStart
  <2>3. QED BY <2>1, <2>2 DEF TypeInv
<1>13. ASSUME NEW c \in CPUs, PickThread(c) PROVE TypeInv'
  <2>1. scan[c] \in Slots /\ event[scan[c]] \in Events
    BY DEF TypeInv, TypeOK
  <2>2. count' \in [Events -> 0 .. MaxCount]
    <3>1. CASE state[scan[c]] = "BLOCKED"
      <4>1. count[event[scan[c]]] > 0
        BY <1>13, <3>1 DEF PickThread, Consumed, Runnable
      <4>2. count' = [count EXCEPT ![event[scan[c]]] = @ - 1]
        BY <1>13, <3>1 DEF PickThread, Consumed
      <4>3. QED BY <2>1, <4>1, <4>2 DEF TypeInv, TypeOK
    <3>2. CASE state[scan[c]] # "BLOCKED"
      BY <1>13, <3>2 DEF TypeInv, TypeOK, PickThread, Consumed
    <3>3. QED BY <3>1, <3>2
  <2>3. state' \in [Slots -> ThreadStates] /\ pc' \in [CPUs -> PCs]
        /\ subject' \in [CPUs -> Slots \cup {nullptr}]
    BY <1>13, <2>1 DEF TypeInv, TypeOK, PickThread, Consumed, ThreadStates, PCs
  <2>4. TypeOK'
    BY Zenon, <1>13, <2>2, <2>3 DEF TypeInv, TypeOK, PickThread, Consumed
  <2>5. PointersOK'
    BY <1>13, <2>1 DEF TypeInv, TypeOK, PointersOK, PickThread, Consumed
  <2>6. QED BY <2>4, <2>5 DEF TypeInv
<1>14. ASSUME NEW c \in CPUs, SkipThread(c) PROVE TypeInv'
  <2>1. scan' \in [CPUs -> Slots]
    BY <1>14 DEF TypeInv, TypeOK, SkipThread, ScanNext
  <2>2. pc' \in [CPUs -> PCs]
    BY <1>14 DEF TypeInv, TypeOK, SkipThread, PCs
  <2>3. TypeOK'
    BY Zenon, <1>14, <2>1, <2>2 DEF TypeInv, TypeOK, SkipThread, threadVars
  <2>4. PointersOK'
    BY <1>14 DEF TypeInv, TypeOK, PointersOK, SkipThread
  <2>5. QED BY <2>3, <2>4 DEF TypeInv
<1>15. ASSUME NEW c \in CPUs, LockNew(c) PROVE TypeInv'
  <2>1. TypeOK'
    BY Zenon, <1>15 DEF TypeInv, TypeOK, PointersOK, threadVars, localVars, ThreadStates, Rax, PCs,
       LockNew
  <2>2. PointersOK'
    BY <1>15 DEF TypeInv, TypeOK, PointersOK, threadVars, localVars, LockNew
  <2>3. QED BY <2>1, <2>2 DEF TypeInv
<1>16. ASSUME NEW c \in CPUs, LockOld(c) PROVE TypeInv'
  <2>1. TypeOK'
    BY Zenon, <1>16 DEF TypeInv, TypeOK, PointersOK, threadVars, localVars, ThreadStates, Rax, PCs,
       LockOld
  <2>2. PointersOK'
    BY <1>16 DEF TypeInv, TypeOK, PointersOK, threadVars, localVars, LockOld
  <2>3. QED BY <2>1, <2>2 DEF TypeInv
<1>17. ASSUME NEW c \in CPUs, SwitchThread(c) PROVE TypeInv'
  <2> DEFINE old == current[c]
             new == subject[c]
             saved == IF old = nullptr THEN context
                      ELSE [context EXCEPT ![old] = save_context(c)]
  <2>1. new \in Slots /\ old \in Slots \cup {nullptr}
    BY <1>17 DEF TypeInv, TypeOK, PointersOK, SwitchThread, SavedContexts, Parked
  <2>2. saved \in [Slots -> [pos : {0, 1}, rax : Rax, cr3 : Slots \cup {nullptr}]]
    BY Zenon, <2>1 DEF TypeInv, TypeOK, save_context
  <2>3. context' = saved
    BY <1>17 DEF SwitchThread, SavedContexts, Parked
  <2>4. regs' \in [CPUs -> [pos : {0, 1}, rax : Rax]]
    <3>1. saved[new].pos \in {0, 1}
          /\ (IF ret[c] = "none" THEN saved[new].rax ELSE ret[c]) \in Rax
      BY <2>1, <2>2 DEF TypeInv, TypeOK, Rax
    <3>2. regs' = [regs EXCEPT ![c] =
                     [pos |-> saved[new].pos,
                      rax |-> IF ret[c] = "none" THEN saved[new].rax ELSE ret[c]]]
      BY <1>17 DEF SwitchThread, SavedContexts, Parked
    <3> HIDE DEF saved, old, new
    <3>3. QED BY <3>1, <3>2 DEF TypeInv, TypeOK
  <2>5. cr3' \in [CPUs -> Slots \cup {kernel_vmm}]
    BY <1>17, <2>1 DEF TypeInv, TypeOK, SwitchThread, SavedContexts, Parked
  <2>6. state' \in [Slots -> ThreadStates]
    BY <1>17, <2>1 DEF TypeInv, TypeOK, SwitchThread, SavedContexts, Parked, ThreadStates
  <2>7. thread_lock' \in [Slots -> {0, 1}] /\ scheduler_mutex' \in {0, 1}
    BY <1>17 DEF TypeInv, TypeOK, SwitchThread, SavedContexts, Parked
  <2>8. current' \in [CPUs -> Slots \cup {nullptr}] /\ pc' \in [CPUs -> PCs]
    BY <1>17, <2>1 DEF TypeInv, TypeOK, SwitchThread, SavedContexts, Parked, PCs
  <2>9. UNCHANGED <<n_threads, event, count, privileged, scan, subject, built, ret, left>>
    BY <1>17 DEF SwitchThread, SavedContexts, Parked, localVars
  <2>10. TypeOK'
    <3> HIDE DEF saved, old, new
    <3> QED BY <2>2, <2>3, <2>4, <2>5, <2>6, <2>7, <2>8, <2>9 DEF TypeInv, TypeOK
  <2>11. PointersOK'
    BY <1>17, <2>1 DEF TypeInv, TypeOK, PointersOK, SwitchThread, SavedContexts, Parked, localVars
  <2>12. QED BY <2>10, <2>11 DEF TypeInv
<1>18. ASSUME NEW c \in CPUs, idle_cpu(c) PROVE TypeInv'
  <2>1. TypeOK'
    BY Zenon, <1>18 DEF TypeInv, TypeOK, PointersOK, threadVars, localVars, ThreadStates, Rax, PCs,
       idle_cpu, SavedContexts, Parked, save_context, FreshRegs
  <2>2. PointersOK'
    BY <1>18 DEF TypeInv, TypeOK, PointersOK, threadVars, localVars, idle_cpu, SavedContexts, Parked,
       save_context, FreshRegs
  <2>3. QED BY <2>1, <2>2 DEF TypeInv
<1>19. ASSUME NEW c \in CPUs, NEW e \in Events, block(c, e) PROVE TypeInv'
  <2>1. TypeOK'
    BY Zenon, <1>19 DEF TypeInv, TypeOK, PointersOK, threadVars, localVars, ThreadStates, Rax, PCs,
       block
  <2>2. PointersOK'
    BY <1>19 DEF TypeInv, TypeOK, PointersOK, threadVars, localVars, block
  <2>3. QED BY <2>1, <2>2 DEF TypeInv
<1>20. ASSUME NEW c \in CPUs, set_state(c) PROVE TypeInv'
  <2>1. TypeOK'
    BY Zenon, <1>20 DEF TypeInv, TypeOK, PointersOK, threadVars, localVars, ThreadStates, Rax, PCs,
       set_state
  <2>2. PointersOK'
    BY <1>20 DEF TypeInv, TypeOK, PointersOK, threadVars, localVars, set_state
  <2>3. QED BY <2>1, <2>2 DEF TypeInv
<1>21. ASSUME NEW c \in CPUs, ForkLock(c) PROVE TypeInv'
  <2>1. TypeOK'
    BY Zenon, <1>21 DEF TypeInv, TypeOK, PointersOK, threadVars, localVars, ThreadStates, Rax, PCs,
       ForkLock
  <2>2. PointersOK'
    BY <1>21 DEF TypeInv, TypeOK, PointersOK, threadVars, localVars, ForkLock
  <2>3. QED BY <2>1, <2>2 DEF TypeInv
<1>22. ASSUME NEW c \in CPUs, ForkCreate(c) PROVE TypeInv'
  BY Zenon, <1>22, TypeCreate DEF ForkCreate, TypeInv, TypeOK, PointersOK, PCs
<1>23. ASSUME NEW c \in CPUs, ForkCopy(c) PROVE TypeInv'
  <2>1. TypeOK'
    BY Zenon, <1>23 DEF TypeInv, TypeOK, PointersOK, threadVars, localVars, ThreadStates, Rax, PCs,
       ForkCopy, save_context
  <2>2. PointersOK'
    BY <1>23 DEF TypeInv, TypeOK, PointersOK, threadVars, localVars, ForkCopy, save_context
  <2>3. QED BY <2>1, <2>2 DEF TypeInv
<1>24. ASSUME NEW c \in CPUs, ForkWake(c) PROVE TypeInv'
  <2>1. TypeOK'
    BY Zenon, <1>24 DEF TypeInv, TypeOK, PointersOK, threadVars, localVars, ThreadStates, Rax, PCs,
       ForkWake
  <2>2. PointersOK'
    BY <1>24 DEF TypeInv, TypeOK, PointersOK, threadVars, localVars, ForkWake
  <2>3. QED BY <2>1, <2>2 DEF TypeInv
<1>25. ASSUME NEW c \in CPUs, KillLock(c) PROVE TypeInv'
  <2>1. TypeOK'
    BY Zenon, <1>25 DEF TypeInv, TypeOK, PointersOK, threadVars, localVars, ThreadStates, Rax, PCs,
       KillLock
  <2>2. PointersOK'
    BY <1>25 DEF TypeInv, TypeOK, PointersOK, threadVars, localVars, KillLock
  <2>3. QED BY <2>1, <2>2 DEF TypeInv
<1>26. ASSUME NEW c \in CPUs, KillThread(c) PROVE TypeInv'
  <2>1. TypeOK'
    BY Zenon, <1>26 DEF TypeInv, TypeOK, PointersOK, threadVars, localVars, ThreadStates, Rax, PCs,
       KillThread, FreshContext
  <2>2. PointersOK'
    BY <1>26 DEF TypeInv, TypeOK, PointersOK, threadVars, localVars, KillThread, FreshContext
  <2>3. QED BY <2>1, <2>2 DEF TypeInv
<1>27. CASE UNCHANGED vars
  BY Zenon, <1>27 DEF vars, TypeInv, TypeOK, PointersOK
<1>28. QED
  BY <1>0, <1>1, <1>2, <1>3, <1>4, <1>5, <1>6, <1>7, <1>8, <1>9, <1>10, <1>11, <1>12, <1>13,
     <1>14, <1>15, <1>16, <1>17, <1>18, <1>19, <1>20, <1>21, <1>22, <1>23, <1>24, <1>25, <1>26, <1>27
     DEF Next, CpuStep, KernelStep, boot, timer_handler, fork, kill

\* The thread table, the locks and the per-CPU pointers keep their types in
\* every reachable state, for any number of CPUs, threads and events.
THEOREM TypeCorrect == Spec => []TypeOK
<1>1. Spec => []TypeInv
  BY TypeInit, TypeStep, PTL DEF Spec
<1>2. TypeInv => TypeOK
  BY DEF TypeInv
<1>3. QED BY <1>1, <1>2, PTL

==============================================================================
