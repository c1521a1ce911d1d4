--------------------------- MODULE SchedulerUpProofs ---------------------------
(***************************************************************************)
(* Proof that on a single CPU no handler ever waits for a lock, whichever   *)
(* system calls the threads make, for any number of threads and events.     *)
(***************************************************************************)
EXTENDS SchedulerProofs

USE CpuAssumption, ThreadAssumption, EventAssumption, WorkloadAssumption
USE DEF Slots, nullptr, kernel_vmm, kernel_thread

\* One processor, and a dynamic loader that can be read: start_elf_executable
\* otherwise returns with the new thread's lock held for ever.
Uniprocessor == CPUs = {BSP} /\ LoadResults \subseteq {TRUE}

(***************************************************************************)
(* The inductive invariant ties each lock bit to the point the CPU is at,   *)
(* and shows that the locks one handler takes belong to different threads:  *)
(* the entries it works on are in use, and a created entry was not.         *)
(***************************************************************************)
Booting == {"watchdog", "watchdog_make", "elf", "elf_lock", "vfs", "vfs_make",
            "elf_done", "init_cpu"}
Critical == {"t_scan", "t_new", "t_old", "t_switch", "i_idle"}

Held(c) == {t \in Slots :
    \/ pc[c] \in {"t_old", "t_switch"} /\ t = subject[c]
    \/ pc[c] \in {"t_switch", "f_create", "f_copy", "k_kill"} /\ t = current[c]
    \/ pc[c] \in HasBuilt /\ t = built[c]}

Alive(t) == state[t] # "DISABLED"
Unlisted == \A t \in Slots : t >= n_threads => ~Alive(t)
PointersAlive ==
    \A c \in CPUs :
      /\ current[c] # nullptr => Alive(current[c])
      /\ pc[c] \in Booting => Alive(kernel_thread)
      /\ pc[c] \in HasSubject => Alive(subject[c])
      /\ pc[c] \in HasBuilt => Alive(built[c])
Distinct ==
    \A c \in CPUs :
      /\ pc[c] \in {"t_old", "f_copy"} => current[c] # subject[c]
      /\ pc[c] = "vfs_make" => subject[c] # built[c]
LocksHeld == \A c \in CPUs : \A t \in Slots : thread_lock[t] = 1 <=> t \in Held(c)
MutexHeld == \A c \in CPUs : scheduler_mutex = 1 <=> pc[c] \in Critical

LockInv == Unlisted /\ PointersAlive /\ Distinct /\ LocksHeld /\ MutexHeld

LEMMA LockInit == Uniprocessor /\ Init => LockInv
BY DEF Uniprocessor, Init, LockInv, Unlisted, PointersAlive, Alive, Distinct, LocksHeld, MutexHeld,
   Held, Booting, Critical, HasBuilt, HasSubject

\* create_blocked_thread takes an entry that nothing points to.
LEMMA LockCreate ==
  ASSUME Uniprocessor, TypeInv, LockInv, NEW c \in CPUs, NEW priv,
         NEW next \in {"watchdog_make", "elf_lock", "vfs_make", "f_copy"},
         create_blocked_thread(c, priv, next),
         next \in {"watchdog_make", "elf_lock"} => pc[c] \in {"watchdog", "elf"},
         next = "vfs_make" => pc[c] = "vfs",
         next = "f_copy" => pc[c] = "f_create"
  PROVE  LockInv'
<1>1. PICK t \in Slots : /\ TakesSlot(t)
                         /\ n_threads' = IF Reusable # {} THEN n_threads ELSE n_threads + 1
                         /\ state' = [state EXCEPT ![t] = "SILENT"]
                         /\ subject' = [subject EXCEPT ![c] = t]
                         /\ pc' = [pc EXCEPT ![c] = next]
                         /\ UNCHANGED <<thread_lock, scheduler_mutex, current, built>>
  BY Zenon DEF create_blocked_thread, Goto
<1>2. /\ ~Alive(t) /\ \A u \in Slots : u >= n_threads' => u >= n_threads /\ u # t
  <2>1. CASE Reusable # {}
    BY <1>1, <2>1 DEF TakesSlot, Reusable, Listed, Alive, TypeInv, TypeOK
  <2>2. CASE Reusable = {}
    BY <1>1, <2>2 DEF TakesSlot, LockInv, Unlisted, TypeInv, TypeOK
  <2>3. QED BY <2>1, <2>2
<1>3. \A u \in Slots : state'[u] = IF u = t THEN "SILENT" ELSE state[u]
  BY <1>1 DEF TypeInv, TypeOK
<1>4. \A d \in CPUs : d = c /\ pc'[d] = next /\ subject'[d] = t
  BY <1>1 DEF Uniprocessor, TypeInv, TypeOK
<1>5. Unlisted'
  BY <1>2, <1>3 DEF LockInv, Unlisted, Alive
<1>6. PointersAlive'
  BY <1>1, <1>3, <1>4 DEF LockInv, PointersAlive, Alive, Booting, HasBuilt, TypeInv, TypeOK,
     PointersOK
<1>7. Distinct'
  BY <1>1, <1>2, <1>4 DEF LockInv, PointersAlive, HasBuilt, TypeInv, PointersOK, Distinct
<1>8. LocksHeld'
  BY <1>1, <1>4 DEF LockInv, LocksHeld, Held, HasBuilt
<1>9. MutexHeld'
  BY <1>1, <1>4 DEF LockInv, MutexHeld, Critical
<1>10. QED BY <1>5, <1>6, <1>7, <1>8, <1>9 DEF LockInv

LEMMA LockStep ==
  ASSUME Uniprocessor, TypeInv, LockInv, [Next]_vars
  PROVE  LockInv'
<1>0. ASSUME NEW c \in CPUs, ElfUnreadable(c) PROVE LockInv'
  <2>1. Unlisted' /\ PointersAlive' /\ Distinct'
    BY <1>0 DEF ElfUnreadable, Uniprocessor, LockInv, Unlisted, PointersAlive, Alive,
       Booting, Distinct, HasBuilt, HasSubject, HasCurrent, TypeInv, TypeOK, PointersOK, Goto,
       threadVars, localVars
  <2>2. LocksHeld' /\ MutexHeld'
    BY <1>0 DEF ElfUnreadable, Uniprocessor, LockInv, Distinct, LocksHeld, Held, MutexHeld,
       Critical, HasBuilt, HasSubject, HasCurrent, TypeInv, TypeOK, PointersOK, Goto,
       threadVars, localVars
  <2>3. QED BY <2>1, <2>2 DEF LockInv
<1>1. ASSUME NEW c \in CPUs, init_cpu(c) PROVE LockInv'
  <2>1. Unlisted' /\ PointersAlive' /\ Distinct'
    BY <1>1 DEF init_cpu, Uniprocessor, LockInv, Unlisted, PointersAlive, Alive, Booting,
       Distinct, HasBuilt, HasSubject, HasCurrent, TypeInv, TypeOK, PointersOK, Goto,
       threadVars, localVars
  <2>2. LocksHeld' /\ MutexHeld'
    BY <1>1 DEF init_cpu, Uniprocessor, LockInv, Distinct, LocksHeld, Held, MutexHeld,
       Critical, HasBuilt, HasSubject, HasCurrent, TypeInv, TypeOK, PointersOK, Goto,
       threadVars, localVars
  <2>3. QED BY <2>1, <2>2 DEF LockInv
<1>2. ASSUME NEW c \in CPUs, StartWatchdog(c) PROVE LockInv'
  BY <1>2, LockCreate DEF StartWatchdog
<1>3. ASSUME NEW c \in CPUs, MakeWatchdog(c) PROVE LockInv'
  <2>1. Unlisted' /\ PointersAlive' /\ Distinct'
    BY <1>3 DEF MakeWatchdog, make_kernel_thread, Uniprocessor, LockInv, Unlisted,
       PointersAlive, Alive, Booting, Distinct, HasBuilt, HasSubject, HasCurrent, TypeInv,
       TypeOK, PointersOK, Goto, threadVars, localVars
  <2>2. LocksHeld' /\ MutexHeld'
    BY <1>3 DEF MakeWatchdog, make_kernel_thread, Uniprocessor, LockInv, Distinct, LocksHeld,
       Held, MutexHeld, Critical, HasBuilt, HasSubject, HasCurrent, TypeInv, TypeOK, PointersOK,
       Goto, threadVars, localVars
  <2>3. QED BY <2>1, <2>2 DEF LockInv
<1>4. ASSUME NEW c \in CPUs, StartElf(c) PROVE LockInv'
  BY <1>4, LockCreate DEF StartElf
<1>5. ASSUME NEW c \in CPUs, LockElf(c) PROVE LockInv'
  <2>1. Unlisted' /\ PointersAlive' /\ Distinct'
    BY <1>5 DEF LockElf, WithSpace, Uniprocessor, LockInv, Unlisted, PointersAlive, Alive,
       Booting, Distinct, HasBuilt, HasSubject, HasCurrent, TypeInv, TypeOK, PointersOK, Goto,
       threadVars, localVars
  <2>2. LocksHeld' /\ MutexHeld'
    BY <1>5 DEF LockElf, WithSpace, Uniprocessor, LockInv, Distinct, LocksHeld, Held,
       MutexHeld, Critical, HasBuilt, HasSubject, HasCurrent, TypeInv, TypeOK, PointersOK, Goto,
       threadVars, localVars
  <2>3. QED BY <2>1, <2>2 DEF LockInv
<1>6. ASSUME NEW c \in CPUs, StartVfs(c) PROVE LockInv'
  BY <1>6, LockCreate DEF StartVfs
<1>7. ASSUME NEW c \in CPUs, MakeVfs(c) PROVE LockInv'
  <2>1. Unlisted' /\ PointersAlive' /\ Distinct'
    BY <1>7 DEF MakeVfs, make_kernel_thread, Uniprocessor, LockInv, Unlisted, PointersAlive,
       Alive, Booting, Distinct, HasBuilt, HasSubject, HasCurrent, TypeInv, TypeOK, PointersOK,
       Goto, threadVars, localVars
  <2>2. LocksHeld' /\ MutexHeld'
    BY <1>7 DEF MakeVfs, make_kernel_thread, Uniprocessor, LockInv, Distinct, LocksHeld,
       Held, MutexHeld, Critical, HasBuilt, HasSubject, HasCurrent, TypeInv, TypeOK, PointersOK,
       Goto, threadVars, localVars
  <2>3. QED BY <2>1, <2>2 DEF LockInv
<1>8. ASSUME NEW c \in CPUs, NEW loaded \in LoadResults, FinishElf(c, loaded) PROVE LockInv'
  <2>0. loaded
    BY Zenon DEF Uniprocessor
  <2>1. Unlisted' /\ PointersAlive' /\ Distinct'
    BY <1>8, <2>0 DEF FinishElf, Uniprocessor, LockInv, Unlisted, PointersAlive, Alive,
       Booting, Distinct, HasBuilt, HasSubject, HasCurrent, TypeInv, TypeOK, PointersOK, Goto,
       threadVars, localVars
  <2>2. LocksHeld' /\ MutexHeld'
    <3>1. /\ thread_lock' = [thread_lock EXCEPT ![built[c]] = 0]
          /\ pc' = [pc EXCEPT ![c] = "init_cpu"] /\ pc[c] = "elf_done"
          /\ scheduler_mutex' = scheduler_mutex
      BY <1>8, <2>0 DEF FinishElf, Goto
    <3>2. \A d \in CPUs : d = c /\ pc'[d] = "init_cpu"
      BY <3>1 DEF Uniprocessor, TypeInv, TypeOK
    <3>3. built[c] \in Slots /\ \A t \in Slots : thread_lock[t] = 1 <=> t = built[c]
      BY <3>1 DEF LockInv, LocksHeld, Held, HasBuilt, TypeInv, PointersOK
    <3>4. \A t \in Slots : thread_lock'[t] = 0
      BY <3>1, <3>3 DEF TypeInv, TypeOK
    <3>5. QED
      BY <3>1, <3>2, <3>4 DEF LockInv, LocksHeld, Held, HasBuilt, MutexHeld, Critical
  <2>3. QED BY <2>1, <2>2 DEF LockInv
<1>9. ASSUME NEW c \in CPUs, Tick(c) PROVE LockInv'
  <2>1. Unlisted' /\ PointersAlive' /\ Distinct'
    BY <1>9 DEF Tick, Uniprocessor, LockInv, Unlisted, PointersAlive, Alive, Booting,
       Distinct, HasBuilt, HasSubject, HasCurrent, TypeInv, TypeOK, PointersOK, Goto,
       threadVars, localVars
  <2>2. LocksHeld' /\ MutexHeld'
    BY SMTT(30), <1>9 DEF Tick, Uniprocessor, LockInv, Distinct, LocksHeld, Held, MutexHeld, Critical,
       HasBuilt, HasSubject, HasCurrent, TypeInv, TypeOK, PointersOK, Goto, threadVars,
       localVars
  <2>3. QED BY <2>1, <2>2 DEF LockInv
<1>10. ASSUME NEW c \in CPUs, NEW op \in Ops, Syscall(c, op) PROVE LockInv'
  <2>0. FirstStep(op) \in {"t_lock", "b_set", "s_set", "f_lock", "k_lock"}
    BY DEF FirstStep, AllOps
  <2>1. Unlisted' /\ PointersAlive' /\ Distinct'
    BY SMTT(30), <1>10, <2>0 DEF Syscall, Uniprocessor, LockInv, Unlisted, PointersAlive, Alive,
       Booting, Distinct, HasBuilt, HasSubject, HasCurrent, TypeInv, TypeOK, PointersOK, Goto,
       threadVars, localVars
  <2>2. LocksHeld' /\ MutexHeld'
    <3>1. /\ pc[c] = "run" /\ \A d \in CPUs : d = c /\ pc'[d] = FirstStep(op)
          /\ UNCHANGED <<thread_lock, scheduler_mutex>>
      BY <1>10 DEF Syscall, Goto, Uniprocessor, TypeInv, TypeOK
    <3>2. \A t \in Slots : thread_lock'[t] # 1
      BY <3>1 DEF LockInv, LocksHeld, Held, HasBuilt
    <3>3. QED
      BY <2>0, <3>1, <3>2 DEF LockInv, LocksHeld, Held, HasBuilt, MutexHeld, Critical
  <2>3. QED BY <2>1, <2>2 DEF LockInv
<1>11. ASSUME NEW c \in CPUs, NEW e \in Events, trigger(c, e) PROVE LockInv'
  <2>1. Unlisted' /\ PointersAlive' /\ Distinct'
    BY <1>11 DEF trigger, Uniprocessor, LockInv, Unlisted, PointersAlive, Alive, Booting,
       Distinct, HasBuilt, HasSubject, HasCurrent, TypeInv, TypeOK, PointersOK, Goto,
       threadVars, localVars
  <2>2. LocksHeld' /\ MutexHeld'
    BY <1>11 DEF trigger, Uniprocessor, LockInv, Distinct, LocksHeld, Held, MutexHeld,
       Critical, HasBuilt, HasSubject, HasCurrent, TypeInv, TypeOK, PointersOK, Goto,
       threadVars, localVars
  <2>3. QED BY <2>1, <2>2 DEF LockInv
<1>12. ASSUME NEW c \in CPUs, LockScheduler(c) PROVE LockInv'
  <2>1. Unlisted' /\ PointersAlive' /\ Distinct'
    BY <1>12 DEF LockScheduler, ScanStart, Uniprocessor, LockInv, Unlisted, PointersAlive,
       Alive, Booting, Distinct, HasBuilt, HasSubject, HasCurrent, TypeInv, TypeOK, PointersOK,
       Goto, threadVars, localVars
  <2>2. LocksHeld' /\ MutexHeld'
    BY <1>12 DEF LockScheduler, ScanStart, Uniprocessor, LockInv, Distinct, LocksHeld, Held,
       MutexHeld, Critical, HasBuilt, HasSubject, HasCurrent, TypeInv, TypeOK, PointersOK, Goto,
       threadVars, localVars
  <2>3. QED BY <2>1, <2>2 DEF LockInv
<1>13. ASSUME NEW c \in CPUs, PickThread(c) PROVE LockInv'
  <2>1. Unlisted' /\ PointersAlive' /\ Distinct'
    BY <1>13 DEF PickThread, Consumed, Runnable, Uniprocessor, LockInv, Unlisted, PointersAlive, Alive,
       Booting, Distinct, HasBuilt, HasSubject, HasCurrent, TypeInv, TypeOK, PointersOK, Goto,
       threadVars, localVars
  <2>2. LocksHeld' /\ MutexHeld'
    BY <1>13 DEF PickThread, Consumed, Runnable, Uniprocessor, LockInv, Distinct, LocksHeld, Held,
       MutexHeld, Critical, HasBuilt, HasSubject, HasCurrent, TypeInv, TypeOK, PointersOK, Goto,
       threadVars, localVars
  <2>3. QED BY <2>1, <2>2 DEF LockInv
<1>14. ASSUME NEW c \in CPUs, SkipThread(c) PROVE LockInv'
  <2>1. Unlisted' /\ PointersAlive' /\ Distinct'
    BY <1>14 DEF SkipThread, Uniprocessor, LockInv, Unlisted, PointersAlive, Alive, Booting,
       Distinct, HasBuilt, HasSubject, HasCurrent, TypeInv, TypeOK, PointersOK, Goto,
       threadVars, localVars
  <2>2. LocksHeld' /\ MutexHeld'
    BY <1>14 DEF SkipThread, Uniprocessor, LockInv, Distinct, LocksHeld, Held, MutexHeld,
       Critical, HasBuilt, HasSubject, HasCurrent, TypeInv, TypeOK, PointersOK, Goto,
       threadVars, localVars
  <2>3. QED BY <2>1, <2>2 DEF LockInv
<1>15. ASSUME NEW c \in CPUs, LockNew(c) PROVE LockInv'
  <2>1. Unlisted' /\ PointersAlive' /\ Distinct'
    BY <1>15 DEF LockNew, Uniprocessor, LockInv, Unlisted, PointersAlive, Alive, Booting,
       Distinct, HasBuilt, HasSubject, HasCurrent, TypeInv, TypeOK, PointersOK, Goto,
       threadVars, localVars
  <2>2. LocksHeld' /\ MutexHeld'
    BY <1>15 DEF LockNew, Uniprocessor, LockInv, Distinct, LocksHeld, Held, MutexHeld,
       Critical, HasBuilt, HasSubject, HasCurrent, TypeInv, TypeOK, PointersOK, Goto,
       threadVars, localVars
  <2>3. QED BY <2>1, <2>2 DEF LockInv
<1>16. ASSUME NEW c \in CPUs, LockOld(c) PROVE LockInv'
  <2>1. Unlisted' /\ PointersAlive' /\ Distinct'
    BY <1>16 DEF LockOld, Uniprocessor, LockInv, Unlisted, PointersAlive, Alive, Booting,
       Distinct, HasBuilt, HasSubject, HasCurrent, TypeInv, TypeOK, PointersOK, Goto,
       threadVars, localVars
  <2>2. LocksHeld' /\ MutexHeld'
    BY SMTT(30), <1>16 DEF LockOld, Uniprocessor, LockInv, Distinct, LocksHeld, Held, MutexHeld,
       Critical, HasBuilt, HasSubject, HasCurrent, TypeInv, TypeOK, PointersOK, Goto,
       threadVars, localVars
  <2>3. QED BY <2>1, <2>2 DEF LockInv
<1>17. ASSUME NEW c \in CPUs, SwitchThread(c) PROVE LockInv'
  <2>1. Unlisted' /\ PointersAlive' /\ Distinct'
    BY SMTT(30), <1>17 DEF SwitchThread, SavedContexts, Parked, Uniprocessor, LockInv, Unlisted, PointersAlive, Alive,
       Booting, Distinct, HasBuilt, HasSubject, HasCurrent, TypeInv, TypeOK, PointersOK, Goto,
       threadVars, localVars
  <2>2. LocksHeld' /\ MutexHeld'
    BY <1>17 DEF SwitchThread, SavedContexts, Parked, Uniprocessor, LockInv, Distinct, LocksHeld, Held, MutexHeld,
       Critical, HasBuilt, HasSubject, HasCurrent, TypeInv, TypeOK, PointersOK, Goto,
       threadVars, localVars
  <2>3. QED BY <2>1, <2>2 DEF LockInv
<1>18. ASSUME NEW c \in CPUs, idle_cpu(c) PROVE LockInv'
  <2>1. Unlisted' /\ PointersAlive' /\ Distinct'
    BY <1>18 DEF idle_cpu, SavedContexts, Parked, Uniprocessor, LockInv, Unlisted, PointersAlive, Alive, Booting,
       Distinct, HasBuilt, HasSubject, HasCurrent, TypeInv, TypeOK, PointersOK, Goto,
       threadVars, localVars
  <2>2. LocksHeld' /\ MutexHeld'
    <3>1. /\ pc[c] \in {"i_idle", "k_idle"} /\ \A d \in CPUs : d = c /\ pc'[d] = "idle"
          /\ scheduler_mutex' = 0 /\ UNCHANGED thread_lock
      BY <1>18 DEF idle_cpu, SavedContexts, Parked, Goto, Uniprocessor, TypeInv, TypeOK
    <3>2. \A t \in Slots : thread_lock'[t] # 1
      BY <3>1 DEF LockInv, LocksHeld, Held, HasBuilt
    <3>3. QED BY <3>1, <3>2 DEF LocksHeld, Held, HasBuilt, MutexHeld, Critical
  <2>3. QED BY <2>1, <2>2 DEF LockInv
<1>19. ASSUME NEW c \in CPUs, NEW e \in Events, block(c, e) PROVE LockInv'
  <2>1. Unlisted' /\ PointersAlive' /\ Distinct'
    BY <1>19 DEF block, Uniprocessor, LockInv, Unlisted, PointersAlive, Alive, Booting,
       Distinct, HasBuilt, HasSubject, HasCurrent, TypeInv, TypeOK, PointersOK, Goto,
       threadVars, localVars
  <2>2. LocksHeld' /\ MutexHeld'
    BY <1>19 DEF block, Uniprocessor, LockInv, Distinct, LocksHeld, Held, MutexHeld,
       Critical, HasBuilt, HasSubject, HasCurrent, TypeInv, TypeOK, PointersOK, Goto,
       threadVars, localVars
  <2>3. QED BY <2>1, <2>2 DEF LockInv
<1>20. ASSUME NEW c \in CPUs, set_state(c) PROVE LockInv'
  <2>1. Unlisted' /\ PointersAlive' /\ Distinct'
    BY <1>20 DEF set_state, Uniprocessor, LockInv, Unlisted, PointersAlive, Alive, Booting,
       Distinct, HasBuilt, HasSubject, HasCurrent, TypeInv, TypeOK, PointersOK, Goto,
       threadVars, localVars
  <2>2. LocksHeld' /\ MutexHeld'
    BY <1>20 DEF set_state, Uniprocessor, LockInv, Distinct, LocksHeld, Held, MutexHeld,
       Critical, HasBuilt, HasSubject, HasCurrent, TypeInv, TypeOK, PointersOK, Goto,
       threadVars, localVars
  <2>3. QED BY <2>1, <2>2 DEF LockInv
<1>21. ASSUME NEW c \in CPUs, ForkLock(c) PROVE LockInv'
  <2>1. Unlisted' /\ PointersAlive' /\ Distinct'
    BY <1>21 DEF ForkLock, Uniprocessor, LockInv, Unlisted, PointersAlive, Alive, Booting,
       Distinct, HasBuilt, HasSubject, HasCurrent, TypeInv, TypeOK, PointersOK, Goto,
       threadVars, localVars
  <2>2. LocksHeld' /\ MutexHeld'
    BY <1>21 DEF ForkLock, Uniprocessor, LockInv, Distinct, LocksHeld, Held, MutexHeld,
       Critical, HasBuilt, HasSubject, HasCurrent, TypeInv, TypeOK, PointersOK, Goto,
       threadVars, localVars
  <2>3. QED BY <2>1, <2>2 DEF LockInv
<1>22. ASSUME NEW c \in CPUs, ForkCreate(c) PROVE LockInv'
  BY <1>22, LockCreate DEF ForkCreate
<1>23. ASSUME NEW c \in CPUs, ForkCopy(c) PROVE LockInv'
  <2>1. Unlisted' /\ PointersAlive' /\ Distinct'
    BY <1>23 DEF ForkCopy, Uniprocessor, LockInv, Unlisted, PointersAlive, Alive, Booting,
       Distinct, HasBuilt, HasSubject, HasCurrent, TypeInv, TypeOK, PointersOK, Goto,
       threadVars, localVars
  <2>2. LocksHeld' /\ MutexHeld'
    BY <1>23 DEF ForkCopy, Uniprocessor, LockInv, Distinct, LocksHeld, Held, MutexHeld,
       Critical, HasBuilt, HasSubject, HasCurrent, TypeInv, TypeOK, PointersOK, Goto,
       threadVars, localVars
  <2>3. QED BY <2>1, <2>2 DEF LockInv
<1>24. ASSUME NEW c \in CPUs, ForkWake(c) PROVE LockInv'
  <2>1. Unlisted' /\ PointersAlive' /\ Distinct'
    BY <1>24 DEF ForkWake, Uniprocessor, LockInv, Unlisted, PointersAlive, Alive, Booting,
       Distinct, HasBuilt, HasSubject, HasCurrent, TypeInv, TypeOK, PointersOK, Goto,
       threadVars, localVars
  <2>2. LocksHeld' /\ MutexHeld'
    BY <1>24 DEF ForkWake, Uniprocessor, LockInv, Distinct, LocksHeld, Held, MutexHeld,
       Critical, HasBuilt, HasSubject, HasCurrent, TypeInv, TypeOK, PointersOK, Goto,
       threadVars, localVars
  <2>3. QED BY <2>1, <2>2 DEF LockInv
<1>25. ASSUME NEW c \in CPUs, KillLock(c) PROVE LockInv'
  <2>1. Unlisted' /\ PointersAlive' /\ Distinct'
    BY <1>25 DEF KillLock, Uniprocessor, LockInv, Unlisted, PointersAlive, Alive, Booting,
       Distinct, HasBuilt, HasSubject, HasCurrent, TypeInv, TypeOK, PointersOK, Goto,
       threadVars, localVars
  <2>2. LocksHeld' /\ MutexHeld'
    BY <1>25 DEF KillLock, Uniprocessor, LockInv, Distinct, LocksHeld, Held, MutexHeld,
       Critical, HasBuilt, HasSubject, HasCurrent, TypeInv, TypeOK, PointersOK, Goto,
       threadVars, localVars
  <2>3. QED BY <2>1, <2>2 DEF LockInv
<1>26. ASSUME NEW c \in CPUs, KillThread(c) PROVE LockInv'
  <2>1. Unlisted' /\ PointersAlive' /\ Distinct'
    BY <1>26 DEF KillThread, Uniprocessor, LockInv, Unlisted, PointersAlive, Alive, Booting,
       Distinct, HasBuilt, HasSubject, HasCurrent, TypeInv, TypeOK, PointersOK, Goto,
       threadVars, localVars
  <2>2. LocksHeld' /\ MutexHeld'
    BY <1>26 DEF KillThread, Uniprocessor, LockInv, Distinct, LocksHeld, Held, MutexHeld,
       Critical, HasBuilt, HasSubject, HasCurrent, TypeInv, TypeOK, PointersOK, Goto,
       threadVars, localVars
  <2>3. QED BY <2>1, <2>2 DEF LockInv
<1>27. CASE UNCHANGED vars
  BY <1>27 DEF vars, LockInv, Unlisted, PointersAlive, Alive, Distinct, LocksHeld, MutexHeld, Held
<1>28. QED
  BY <1>0, <1>1, <1>2, <1>3, <1>4, <1>5, <1>6, <1>7, <1>8, <1>9, <1>10, <1>11, <1>12, <1>13,
     <1>14, <1>15, <1>16, <1>17, <1>18, <1>19, <1>20, <1>21, <1>22, <1>23, <1>24, <1>25, <1>26,
     <1>27
     DEF Next, CpuStep, KernelStep, boot, timer_handler, fork, kill

\* On a single CPU every handler finds the locks it asks for free, so it never
\* spins with interrupts off: each path of timer_handler, block, fork, kill and
\* start_elf_executable releases what it took and takes no lock twice.
THEOREM HandlersNeverSpin ==
  ASSUME Uniprocessor PROVE Spec => []NeverSpins
<1>1. Init => TypeInv /\ LockInv
  BY TypeInit, LockInit
<1>2. TypeInv /\ LockInv /\ [Next]_vars => (TypeInv /\ LockInv)'
  BY TypeStep, LockStep
<1>3. TypeInv /\ LockInv => NeverSpins
  <2> SUFFICES ASSUME TypeInv, LockInv, NEW c \in CPUs
               PROVE  /\ \A t \in LocksWanted(c) \ {nullptr} : thread_lock[t] = 0
                      /\ WantsScheduler(c) => scheduler_mutex = 0
    BY DEF NeverSpins
  <2>1. LocksWanted(c) \subseteq Slots \cup {nullptr}
    BY DEF LocksWanted, TypeInv, TypeOK
  <2>2. LocksWanted(c) \cap Held(c) = {}
    BY DEF LocksWanted, Held, LockInv, Distinct, HasBuilt
  <2>3. WantsScheduler(c) => pc[c] \notin Critical
    BY DEF WantsScheduler, Critical
  <2>4. QED BY <2>1, <2>2, <2>3 DEF LockInv, LocksHeld, MutexHeld, TypeInv, TypeOK
<1>4. QED BY <1>1, <1>2, <1>3, PTL DEF Spec

================================================================================
