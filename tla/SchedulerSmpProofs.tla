-------------------------- MODULE SchedulerSmpProofs --------------------------
(***************************************************************************)
(* Proof that a thread is on one CPU at a time, for any set of CPUs.        *)
(***************************************************************************)
EXTENDS SchedulerProofs

USE CpuAssumption, ThreadAssumption, EventAssumption, WorkloadAssumption
USE DEF Slots, nullptr, kernel_vmm, kernel_thread

(***************************************************************************)
(* Ownership.  When the workload neither blocks on events nor kills threads *)
(* (the two calls that give up a thread outside scheduler_mutex's critical  *)
(* section), the scheduler is correct on any number of CPUs.  The inductive *)
(* invariant says who may touch a thread: the one CPU inside the critical   *)
(* section, the CPU it is current on, or the CPU that is creating it.       *)
(***************************************************************************)
Quiet == "block" \notin Ops /\ "kill" \notin Ops

InCS == {"t_scan", "t_new", "t_old", "t_switch", "i_idle"}
Picking == {"t_new", "t_old", "t_switch"}
Creating == {"watchdog_make", "elf_lock", "vfs_make", "f_copy", "f_wake"}
Booting == {"watchdog", "watchdog_make", "elf", "elf_lock", "vfs", "vfs_make",
            "elf_done", "init_cpu"}
Calling == {"s_set", "f_lock", "f_create", "f_copy", "f_wake"}

Unborn(c) == {t \in Slots : \/ pc[c] \in Creating /\ t = subject[c]
                            \/ pc[c] \in HasBuilt /\ t = built[c]}

MutualExclusion ==
    /\ \A c \in CPUs : pc[c] \in InCS => scheduler_mutex = 1
    /\ \A c, d \in CPUs : pc[c] \in InCS /\ pc[d] \in InCS => c = d
CallsMade ==
    /\ \A c \in CPUs : pc[c] \notin {"b_set", "k_lock", "k_kill", "k_idle"}
    /\ \A c \in CPUs : pc[c] \in Calling => current[c] # kernel_thread
    /\ \A c \in CPUs : pc[c] \in Booting => current[c] = nullptr
StatesUsed ==
    /\ \A t \in Slots : state[t] # "BLOCKED"
    /\ \A t \in Slots : state[t] = "DISABLED" <=> t >= n_threads
    /\ state[kernel_thread] = "SILENT"
CurrentOwned ==
    \A c \in CPUs : current[c] \notin {nullptr, kernel_thread} =>
      state[current[c]] \in {"RUNNING", "SILENT"}
PickedIdle ==
    \A c \in CPUs : pc[c] \in Picking => state[subject[c]] = "IDLE"
UnbornHidden ==
    \A c \in CPUs : \A t \in Unborn(c) :
      /\ state[t] = "SILENT" /\ t # kernel_thread
      /\ \A d \in CPUs : current[d] # t
UnbornDistinct ==
    /\ \A c, d \in CPUs : c # d => Unborn(c) \cap Unborn(d) = {}
    /\ \A c \in CPUs : pc[c] = "vfs_make" => subject[c] # built[c]

Ownership ==
    /\ MutualExclusion /\ CallsMade /\ StatesUsed
    /\ CurrentOwned /\ PickedIdle /\ UnbornHidden /\ UnbornDistinct
    /\ OneCpu /\ NoThreadLost

\* With no DISABLED entry in use, create_blocked_thread extends the list: the
\* new thread's slot was beyond its end, so no CPU knows it yet.
LEMMA CreateFacts ==
  ASSUME TypeInv, StatesUsed, CurrentOwned, UnbornHidden, NEW c \in CPUs, NEW priv, NEW next,
         create_blocked_thread(c, priv, next)
  PROVE  /\ n_threads \in Slots /\ n_threads' = n_threads + 1
         /\ state[n_threads] = "DISABLED"
         /\ state' = [state EXCEPT ![n_threads] = "SILENT"]
         /\ \A d \in CPUs : current[d] # n_threads /\ n_threads \notin Unborn(d)
         /\ context' = [context EXCEPT ![n_threads] = FreshContext]
         /\ left' = [left EXCEPT ![n_threads] = FreshRegs]
         /\ subject' = [subject EXCEPT ![c] = n_threads]
         /\ pc' = [pc EXCEPT ![c] = next]
         /\ UNCHANGED <<scheduler_mutex, current, regs, cr3, built>>
<1>1. Reusable = {}
  BY DEF TypeInv, TypeOK, StatesUsed, Reusable, Listed
<1>2. PICK t \in Slots : /\ TakesSlot(t)
                         /\ n_threads' = IF Reusable # {} THEN n_threads ELSE n_threads + 1
                         /\ state' = [state EXCEPT ![t] = "SILENT"]
                         /\ context' = [context EXCEPT ![t] = FreshContext]
                         /\ left' = [left EXCEPT ![t] = FreshRegs]
                         /\ subject' = [subject EXCEPT ![c] = t]
                         /\ pc' = [pc EXCEPT ![c] = next]
                         /\ UNCHANGED <<scheduler_mutex, current, regs, cr3, built>>
  BY Zenon DEF create_blocked_thread, Goto
<1>3. t = n_threads /\ n_threads' = n_threads + 1
  BY <1>1, <1>2 DEF TakesSlot
<1>4. state[n_threads] = "DISABLED"
  BY <1>2, <1>3 DEF TypeInv, TypeOK, StatesUsed
<1>5. \A d \in CPUs : current[d] # n_threads
  <2>1. n_threads \notin {nullptr, kernel_thread}
    BY DEF TypeInv, TypeOK
  <2>2. QED BY <1>4, <2>1 DEF CurrentOwned
<1>6. \A d \in CPUs : n_threads \notin Unborn(d)
  BY <1>4 DEF UnbornHidden
<1>7. QED BY <1>2, <1>3, <1>4, <1>5, <1>6

\* Slots that are being created are nobody's current thread and not IDLE.
LEMMA UnbornFacts ==
  ASSUME TypeInv, Ownership, NEW d \in CPUs
  PROVE  /\ pc[d] \in Creating => subject[d] \in Unborn(d)
         /\ pc[d] \in HasBuilt => built[d] \in Unborn(d)
BY DEF TypeInv, TypeOK, PointersOK, HasSubject, HasBuilt, Creating, Unborn

LEMMA OwnershipCreate ==
  ASSUME TypeInv, Ownership, NEW c \in CPUs, NEW priv,
         NEW next \in {"watchdog_make", "elf_lock", "vfs_make", "f_copy"},
         create_blocked_thread(c, priv, next),
         next \in {"watchdog_make", "elf_lock", "vfs_make"} => pc[c] \in Booting,
         next = "vfs_make" => pc[c] = "vfs",
         next = "f_copy" => pc[c] = "f_create"
  PROVE  Ownership'
<1> USE DEF Ownership
<1>1. /\ n_threads \in Slots /\ n_threads' = n_threads + 1
      /\ state[n_threads] = "DISABLED"
      /\ state' = [state EXCEPT ![n_threads] = "SILENT"]
      /\ \A d \in CPUs : current[d] # n_threads /\ n_threads \notin Unborn(d)
      /\ subject' = [subject EXCEPT ![c] = n_threads]
      /\ pc' = [pc EXCEPT ![c] = next]
      /\ UNCHANGED <<scheduler_mutex, current, built>>
  BY CreateFacts
<1>2. MutualExclusion'
  BY <1>1 DEF TypeInv, TypeOK, MutualExclusion, InCS
<1>3. CallsMade'
  BY <1>1 DEF TypeInv, TypeOK, CallsMade, Calling, Booting
<1>4. StatesUsed'
  BY <1>1 DEF TypeInv, TypeOK, StatesUsed
<1>5. CurrentOwned' /\ OneCpu' /\ NoThreadLost'
  BY <1>1 DEF TypeInv, TypeOK, CurrentOwned, OneCpu, NoThreadLost
<1>6. PickedIdle'
  BY <1>1 DEF TypeInv, TypeOK, PickedIdle, Picking
<1>7. \A d \in CPUs : Unborn(d)' \subseteq Unborn(d) \cup (IF d = c THEN {n_threads} ELSE {})
  BY <1>1 DEF TypeInv, TypeOK, Unborn, Creating, HasBuilt
<1>8. UnbornHidden'
  BY <1>1, <1>7 DEF TypeInv, TypeOK, UnbornHidden, StatesUsed
<1>9. UnbornDistinct'
  <2>1. \A d, e \in CPUs : d # e => Unborn(d)' \cap Unborn(e)' = {}
    BY <1>1, <1>7 DEF UnbornDistinct
  <2>2. \A d \in CPUs : pc'[d] = "vfs_make" => subject'[d] # built'[d]
    BY <1>1 DEF TypeInv, TypeOK, UnbornDistinct, Unborn, HasBuilt
  <2>3. QED BY <2>1, <2>2 DEF UnbornDistinct
<1>10. QED BY <1>2, <1>3, <1>4, <1>5, <1>6, <1>8, <1>9

\* A step that only moves one CPU's program counter between places of the same
\* kind, or out of them, disturbs nothing.
LEMMA OwnershipFrame ==
  ASSUME TypeInv, Ownership, NEW c \in CPUs, NEW next \in PCs,
         pc' = [pc EXCEPT ![c] = next],
         UNCHANGED <<n_threads, state, current, scheduler_mutex, subject>>,
         \A d \in CPUs : d # c => built'[d] = built[d],
         Unborn(c)' \subseteq Unborn(c),
         next \in InCS => pc[c] \in InCS,
         next \in Picking => pc[c] \in Picking,
         next \in Booting => pc[c] \in Booting,
         next \notin {"b_set", "k_lock", "k_kill", "k_idle", "vfs_make"},
         next \in Calling => current[c] # kernel_thread
  PROVE  Ownership'
<1> USE DEF Ownership
<1>1. \A d \in CPUs : d # c => pc'[d] = pc[d]
  BY DEF TypeInv, TypeOK
<1>2. pc'[c] = next
  BY DEF TypeInv, TypeOK
<1>3. MutualExclusion'
  BY <1>1, <1>2 DEF MutualExclusion
<1>4. CallsMade'
  BY <1>1, <1>2 DEF CallsMade
<1>5. StatesUsed' /\ CurrentOwned' /\ OneCpu' /\ NoThreadLost'
  BY DEF StatesUsed, CurrentOwned, OneCpu, NoThreadLost
<1>6. PickedIdle'
  BY <1>1, <1>2 DEF PickedIdle
<1>7. \A d \in CPUs : Unborn(d)' \subseteq Unborn(d)
  <2>1. ASSUME NEW d \in CPUs, d # c PROVE Unborn(d)' = Unborn(d)
    BY <1>1, <2>1 DEF Unborn
  <2>2. QED BY <2>1
<1>8. UnbornHidden'
  BY <1>7 DEF UnbornHidden
<1>9. UnbornDistinct'
  BY <1>1, <1>2, <1>7 DEF UnbornDistinct
<1>10. QED BY <1>3, <1>4, <1>5, <1>6, <1>8, <1>9

\* A thread under creation becomes IDLE: no CPU has it, no CPU has picked it.
LEMMA OwnershipWake ==
  ASSUME TypeInv, Ownership, NEW c \in CPUs, NEW t \in Unborn(c), NEW next \in PCs,
         state' = [state EXCEPT ![t] = "IDLE"],
         pc' = [pc EXCEPT ![c] = next],
         UNCHANGED <<n_threads, current, scheduler_mutex, subject, built>>,
         Unborn(c)' \subseteq Unborn(c) \ {t},
         next \in {"elf", "elf_done", "init_cpu", "run"},
         next = "run" \/ pc[c] \in Booting
  PROVE  Ownership'
<1> USE DEF Ownership
<1>1. \A d \in CPUs : d # c => pc'[d] = pc[d]
  BY DEF TypeInv, TypeOK
<1>2. pc'[c] = next
  BY DEF TypeInv, TypeOK
<1>3. t \in Slots /\ state[t] = "SILENT" /\ t # kernel_thread /\ \A d \in CPUs : current[d] # t
  BY DEF UnbornHidden, Unborn
<1>4. \A u \in Slots : state'[u] = IF u = t THEN "IDLE" ELSE state[u]
  BY <1>3 DEF TypeInv, TypeOK
<1>5. MutualExclusion' /\ CallsMade'
  BY <1>1, <1>2 DEF MutualExclusion, CallsMade, InCS, Calling, Booting
<1>6. StatesUsed'
  <2>1. kernel_thread \in Slots
    OBVIOUS
  <2>2. QED BY <1>3, <1>4, <2>1 DEF StatesUsed
<1>7. CurrentOwned' /\ OneCpu' /\ NoThreadLost'
  <2>1. \A d \in CPUs : current[d] \in Slots \cup {nullptr}
    BY DEF TypeInv, TypeOK
  <2>2. QED BY <1>3, <1>4, <2>1 DEF CurrentOwned, OneCpu, NoThreadLost
<1>8. PickedIdle'
  <2>1. \A d \in CPUs : pc[d] \in Picking => subject[d] \in Slots
    BY DEF TypeInv, PointersOK, Picking, HasSubject
  <2>2. QED BY <1>1, <1>2, <1>4, <2>1 DEF PickedIdle, Picking
<1>9. \A d \in CPUs : Unborn(d)' \subseteq Unborn(d) \ {t}
  <2>1. ASSUME NEW d \in CPUs, d # c PROVE Unborn(d)' = Unborn(d)
    BY <1>1, <2>1 DEF Unborn
  <2>2. QED BY <2>1 DEF UnbornDistinct
<1>10. UnbornHidden'
  <2>1. \A d \in CPUs : Unborn(d) \subseteq Slots
    BY DEF Unborn
  <2>2. QED BY <1>4, <1>9, <2>1 DEF UnbornHidden
<1>11. UnbornDistinct'
  BY <1>1, <1>2, <1>9 DEF UnbornDistinct
<1>12. QED BY <1>5, <1>6, <1>7, <1>8, <1>10, <1>11

LEMMA OwnershipSwitch ==
  ASSUME TypeInv, Ownership, NEW c \in CPUs, SwitchThread(c)
  PROVE  Ownership'
<1> USE DEF Ownership
<1> DEFINE old == current[c]
           new == subject[c]
<1>1. /\ pc[c] = "t_switch" /\ pc' = [pc EXCEPT ![c] = "run"]
      /\ current' = [current EXCEPT ![c] = new]
      /\ scheduler_mutex' = 0
      /\ UNCHANGED <<n_threads, subject, built>>
  BY DEF SwitchThread, SavedContexts, Parked, Goto, localVars
<1>2. new \in Slots /\ state[new] = "IDLE"
  BY <1>1 DEF TypeInv, PointersOK, HasSubject, PickedIdle, Picking
<1>3. new # kernel_thread
  BY <1>2 DEF StatesUsed
<1>4. \A d \in CPUs : current[d] # new
  BY <1>2, <1>3 DEF CurrentOwned
<1>5. \A t \in Slots : state'[t] = IF t = new THEN "RUNNING"
                                   ELSE IF t = old /\ state[t] = "RUNNING" THEN "IDLE" ELSE state[t]
  BY <1>2, <1>4 DEF SwitchThread, SavedContexts, Parked, TypeInv, TypeOK
<1>6. /\ \A d \in CPUs : d # c => pc'[d] = pc[d] /\ current'[d] = current[d]
      /\ pc'[c] = "run" /\ current'[c] = new
      /\ \A d \in CPUs : current[d] \in Slots \cup {nullptr}
  BY <1>1 DEF TypeInv, TypeOK
<1> HIDE DEF old, new
<1>7. \A d \in CPUs : d # c => pc[d] \notin InCS
  BY <1>1 DEF MutualExclusion, InCS
<1>8. MutualExclusion' /\ CallsMade' /\ PickedIdle'
  BY <1>1, <1>6, <1>7 DEF MutualExclusion, CallsMade, PickedIdle, InCS, Picking, Calling, Booting
<1>9. StatesUsed'
  <2>1. kernel_thread \in Slots
    OBVIOUS
  <2>2. n_threads' = n_threads
    BY <1>1
  <2>3. QED BY <1>2, <1>3, <1>5, <2>1, <2>2 DEF StatesUsed
<1>10. OneCpu'
  BY <1>4, <1>6 DEF OneCpu
<1>11. CurrentOwned'
  <2>1. ASSUME NEW d \in CPUs, d # c, current[d] \notin {nullptr, kernel_thread}
        PROVE  state'[current[d]] = state[current[d]]
    <3>1. current[d] # old
      BY <2>1 DEF OneCpu, old
    <3>2. QED BY <1>4, <1>5, <1>6, <2>1, <3>1
  <2>2. state'[new] = "RUNNING"
    BY <1>2, <1>5
  <2>3. QED BY <1>6, <2>1, <2>2 DEF CurrentOwned
<1>12. NoThreadLost'
  BY <1>2, <1>5, <1>6 DEF NoThreadLost, old
<1>13. \A d \in CPUs : Unborn(d)' \subseteq Unborn(d)
  BY <1>1, <1>6 DEF Unborn, Creating, HasBuilt
<1>14. UnbornHidden'
  <2>1. \A d \in CPUs : Unborn(d) \subseteq Slots
    BY DEF Unborn
  <2>2. QED BY <1>2, <1>5, <1>6, <1>13, <2>1 DEF UnbornHidden
<1>15. UnbornDistinct'
  BY <1>1, <1>6, <1>13 DEF UnbornDistinct
<1>16. QED BY <1>8, <1>9, <1>10, <1>11, <1>12, <1>14, <1>15

LEMMA OwnershipIdle ==
  ASSUME TypeInv, Ownership, NEW c \in CPUs, idle_cpu(c)
  PROVE  Ownership'
<1> USE DEF Ownership
<1> DEFINE old == current[c]
<1>1. /\ pc[c] = "i_idle" /\ pc' = [pc EXCEPT ![c] = "idle"]
      /\ current' = [current EXCEPT ![c] = nullptr]
      /\ scheduler_mutex' = 0
      /\ UNCHANGED <<n_threads, subject, built>>
  BY DEF idle_cpu, SavedContexts, Parked, Goto, localVars, CallsMade
<1>2. \A t \in Slots : state'[t] = IF t = old /\ state[t] = "RUNNING" THEN "IDLE" ELSE state[t]
  BY DEF idle_cpu, SavedContexts, Parked, TypeInv, TypeOK
<1>3. /\ \A d \in CPUs : d # c => pc'[d] = pc[d] /\ current'[d] = current[d]
      /\ pc'[c] = "idle" /\ current'[c] = nullptr
      /\ \A d \in CPUs : current[d] \in Slots \cup {nullptr}
  BY <1>1 DEF TypeInv, TypeOK
<1>4. \A d \in CPUs : d # c => pc[d] \notin InCS
  BY <1>1 DEF MutualExclusion, InCS
<1>5. MutualExclusion' /\ CallsMade' /\ PickedIdle'
  BY <1>1, <1>3, <1>4 DEF MutualExclusion, CallsMade, PickedIdle, InCS, Picking, Calling, Booting
<1>6. StatesUsed'
  <2>1. kernel_thread \in Slots
    OBVIOUS
  <2>2. QED BY <1>1, <1>2, <2>1 DEF StatesUsed
<1>7. OneCpu' /\ CurrentOwned'
  BY <1>2, <1>3 DEF OneCpu, CurrentOwned
<1>8. NoThreadLost'
  BY <1>2, <1>3 DEF NoThreadLost
<1>9. \A d \in CPUs : Unborn(d)' \subseteq Unborn(d)
  BY <1>1, <1>3 DEF Unborn, Creating, HasBuilt
<1>10. UnbornHidden'
  <2>1. \A d \in CPUs : Unborn(d) \subseteq Slots
    BY DEF Unborn
  <2>2. QED BY <1>2, <1>3, <1>9, <2>1 DEF UnbornHidden
<1>11. UnbornDistinct'
  BY <1>1, <1>3, <1>9 DEF UnbornDistinct
<1>12. QED BY <1>5, <1>6, <1>7, <1>8, <1>10, <1>11

LEMMA OwnershipSilent ==
  ASSUME TypeInv, Ownership, NEW c \in CPUs, set_state(c)
  PROVE  Ownership'
<1> USE DEF Ownership
<1> DEFINE t == current[c]
<1>1. /\ pc[c] = "s_set" /\ pc' = [pc EXCEPT ![c] = "run"]
      /\ UNCHANGED <<n_threads, current, scheduler_mutex, subject, built>>
  BY DEF set_state, Goto, localVars
<1>2. t \in Slots /\ t # kernel_thread
  BY <1>1 DEF TypeInv, PointersOK, HasCurrent, CallsMade, Calling
<1>3. state[t] \in {"RUNNING", "SILENT"}
  BY <1>2 DEF CurrentOwned
<1>4. \A u \in Slots : state'[u] = IF u = t THEN "SILENT" ELSE state[u]
  BY <1>2 DEF set_state, TypeInv, TypeOK
<1>5. /\ \A d \in CPUs : d # c => pc'[d] = pc[d]
      /\ pc'[c] = "run"
      /\ \A d \in CPUs : current[d] \in Slots \cup {nullptr}
  BY <1>1 DEF TypeInv, TypeOK
<1>6. MutualExclusion' /\ CallsMade'
  BY <1>1, <1>5 DEF MutualExclusion, CallsMade, InCS, Calling, Booting
<1>7. StatesUsed'
  <2>1. kernel_thread \in Slots
    OBVIOUS
  <2>2. QED BY <1>1, <1>2, <1>3, <1>4, <2>1 DEF StatesUsed
<1>8. PickedIdle'
  <2>1. \A d \in CPUs : pc[d] \in Picking => subject[d] \in Slots
    BY DEF TypeInv, PointersOK, Picking, HasSubject
  <2>2. QED BY <1>1, <1>3, <1>4, <1>5, <2>1 DEF PickedIdle, Picking
<1>9. CurrentOwned' /\ OneCpu' /\ NoThreadLost'
  BY <1>1, <1>4, <1>5 DEF CurrentOwned, OneCpu, NoThreadLost
<1>10. \A d \in CPUs : Unborn(d)' \subseteq Unborn(d)
  BY <1>1, <1>5 DEF Unborn, Creating, HasBuilt
<1>11. UnbornHidden'
  <2>1. \A d \in CPUs : Unborn(d) \subseteq Slots
    BY DEF Unborn
  <2>2. QED BY <1>1, <1>4, <1>10, <2>1 DEF UnbornHidden
<1>12. UnbornDistinct'
  BY <1>1, <1>5, <1>10 DEF UnbornDistinct
<1>13. QED BY <1>6, <1>7, <1>8, <1>9, <1>11, <1>12

LEMMA OwnershipStep ==
  ASSUME Quiet, TypeInv, Ownership, [Next]_vars
  PROVE  Ownership'
<1>0. ASSUME NEW c \in CPUs, ElfUnreadable(c) PROVE Ownership'
  <2>1. Unborn(c)' \subseteq Unborn(c)
    BY <1>0 DEF ElfUnreadable, Goto, localVars, Unborn, Creating, HasBuilt, TypeInv, TypeOK
  <2>2. QED
    BY Zenon, <1>0, <2>1, OwnershipFrame DEF ElfUnreadable, Goto, threadVars, localVars, InCS,
       Picking, Booting, Calling, PCs
<1>1. ASSUME NEW c \in CPUs, init_cpu(c) PROVE Ownership'
  <2>1. /\ \A d \in CPUs : d # c => pc'[d] = pc[d] /\ current'[d] = current[d]
        /\ pc'[c] = "run" /\ current'[c] = kernel_thread
        /\ pc[c] = "init_cpu" /\ current[c] = nullptr
        /\ UNCHANGED <<n_threads, state, scheduler_mutex, subject, built>>
    BY <1>1 DEF init_cpu, Goto, threadVars, localVars, TypeInv, TypeOK, Ownership, CallsMade,
       Booting
  <2>2. MutualExclusion' /\ CallsMade' /\ StatesUsed'
    BY <2>1 DEF Ownership, MutualExclusion, CallsMade, StatesUsed, InCS, Calling, Booting
  <2>3. CurrentOwned' /\ OneCpu' /\ PickedIdle'
    BY <2>1 DEF Ownership, CurrentOwned, OneCpu, PickedIdle, Picking
  <2>4. NoThreadLost'
    BY <2>1 DEF Ownership, NoThreadLost
  <2>5. \A d \in CPUs : Unborn(d)' \subseteq Unborn(d)
    BY <2>1 DEF Unborn, Creating, HasBuilt
  <2>6. UnbornHidden' /\ UnbornDistinct'
    BY <2>1, <2>5 DEF Ownership, UnbornHidden, UnbornDistinct
  <2>7. QED BY <2>2, <2>3, <2>4, <2>6 DEF Ownership
<1>2. ASSUME NEW c \in CPUs, StartWatchdog(c) PROVE Ownership'
  BY <1>2, OwnershipCreate DEF StartWatchdog, Booting
<1>3. ASSUME NEW c \in CPUs, MakeWatchdog(c) PROVE Ownership'
  <2>1. subject[c] \in Unborn(c)
    BY <1>3 DEF MakeWatchdog, make_kernel_thread, Unborn, Creating, HasBuilt, TypeInv,
       PointersOK, HasSubject
  <2>2. Unborn(c)' \subseteq Unborn(c) \ {subject[c]}
    BY <1>3 DEF MakeWatchdog, make_kernel_thread, Goto, localVars, Unborn, Creating,
       HasBuilt, TypeInv, TypeOK
  <2>3. QED
    BY Zenon, <1>3, <2>1, <2>2, OwnershipWake DEF MakeWatchdog, make_kernel_thread, Goto,
       localVars, Booting, PCs
<1>4. ASSUME NEW c \in CPUs, StartElf(c) PROVE Ownership'
  BY <1>4, OwnershipCreate DEF StartElf, Booting
<1>5. ASSUME NEW c \in CPUs, LockElf(c) PROVE Ownership'
  <2>1. Unborn(c)' \subseteq Unborn(c)
    BY <1>5 DEF LockElf, Goto, localVars, Unborn, Creating, HasBuilt, TypeInv, TypeOK
  <2>2. \A d \in CPUs : d # c => built'[d] = built[d]
    BY <1>5 DEF LockElf, localVars, TypeInv, TypeOK
  <2>3. current[c] # kernel_thread \/ pc[c] \notin Calling
    BY DEF Ownership, CallsMade
  <2>4. QED
    BY Zenon, <1>5, <2>1, <2>2, <2>3, OwnershipFrame DEF LockElf, Goto, localVars, InCS, Picking,
       Booting, Calling, PCs
<1>6. ASSUME NEW c \in CPUs, StartVfs(c) PROVE Ownership'
  BY <1>6, OwnershipCreate DEF StartVfs, Booting
<1>7. ASSUME NEW c \in CPUs, MakeVfs(c) PROVE Ownership'
  <2>1. subject[c] \in Unborn(c)
    BY <1>7 DEF MakeVfs, make_kernel_thread, Unborn, Creating, HasBuilt, TypeInv,
       PointersOK, HasSubject
  <2>0. subject[c] # built[c]
    BY <1>7 DEF MakeVfs, Ownership, UnbornDistinct
  <2>2. Unborn(c)' \subseteq Unborn(c) \ {subject[c]}
    BY <1>7, <2>0 DEF MakeVfs, make_kernel_thread, Goto, localVars, Unborn, Creating,
       HasBuilt, TypeInv, TypeOK
  <2>3. QED
    BY Zenon, <1>7, <2>1, <2>2, OwnershipWake DEF MakeVfs, make_kernel_thread, Goto, localVars,
       Booting, PCs
<1>8. ASSUME NEW c \in CPUs, NEW loaded \in LoadResults, FinishElf(c, loaded) PROVE Ownership'
  <2>1. built[c] \in Unborn(c) /\ pc[c] = "elf_done"
    BY <1>8, UnbornFacts DEF FinishElf, HasBuilt
  <2>2. /\ pc' = [pc EXCEPT ![c] = "init_cpu"]
        /\ UNCHANGED <<n_threads, current, scheduler_mutex, subject, built>>
    BY <1>8 DEF FinishElf, Goto, localVars
  <2>3. Unborn(c)' = {}
    BY <2>2 DEF Unborn, Creating, HasBuilt, TypeInv, TypeOK
  <2>4. CASE loaded
    BY Zenon, <1>8, <2>1, <2>2, <2>3, <2>4, OwnershipWake DEF FinishElf, Booting, PCs
  <2>5. CASE ~loaded
    BY Zenon, <1>8, <2>1, <2>2, <2>3, <2>5, OwnershipFrame DEF FinishElf, InCS, Picking,
       Booting, Calling, PCs
  <2>6. QED BY <2>4, <2>5
<1>9. ASSUME NEW c \in CPUs, Tick(c) PROVE Ownership'
  <2>1. Unborn(c)' \subseteq Unborn(c)
    BY <1>9 DEF Tick, Goto, localVars, Unborn, Creating, HasBuilt, TypeInv, TypeOK
  <2>2. QED
    BY Zenon, <1>9, <2>1, OwnershipFrame DEF Tick, Goto, threadVars, localVars, InCS, Picking,
       Booting, Calling, PCs, Ownership, CallsMade
<1>10. ASSUME NEW c \in CPUs, NEW op \in Ops, Syscall(c, op) PROVE Ownership'
  <2>1. FirstStep(op) \in {"t_lock", "s_set", "f_lock"}
    BY DEF FirstStep, AllOps, Quiet
  <2>2. /\ pc' = [pc EXCEPT ![c] = FirstStep(op)] /\ pc[c] = "run"
        /\ current[c] # kernel_thread
        /\ UNCHANGED <<n_threads, state, current, scheduler_mutex, subject, built>>
    BY <1>10 DEF Syscall, Goto, threadVars
  <2>3. Unborn(c)' \subseteq Unborn(c)
    BY <2>1, <2>2 DEF Unborn, Creating, HasBuilt, TypeInv, TypeOK
  <2>4. QED
    BY Zenon, <2>1, <2>2, <2>3, OwnershipFrame DEF InCS, Picking, Booting, PCs
<1>11. ASSUME NEW c \in CPUs, NEW e \in Events, trigger(c, e) PROVE Ownership'
  <2>1. UNCHANGED <<n_threads, state, current, scheduler_mutex, pc, subject, built>>
    BY <1>11 DEF trigger, threadVars, localVars
  <2>2. QED
    BY <2>1 DEF Ownership, MutualExclusion, CallsMade, StatesUsed, CurrentOwned,
       PickedIdle, UnbornHidden, UnbornDistinct, OneCpu, NoThreadLost, Unborn
<1>12. ASSUME NEW c \in CPUs, LockScheduler(c) PROVE Ownership'
  <2>1. /\ \A d \in CPUs : d # c => pc'[d] = pc[d]
        /\ pc'[c] = "t_scan" /\ scheduler_mutex = 0 /\ scheduler_mutex' = 1
        /\ UNCHANGED <<n_threads, state, current, subject, built>>
    BY <1>12 DEF LockScheduler, Goto, threadVars, TypeInv, TypeOK
  <2>2. MutualExclusion' /\ CallsMade' /\ StatesUsed'
    BY <2>1 DEF Ownership, MutualExclusion, CallsMade, StatesUsed, InCS, Calling, Booting
  <2>3. CurrentOwned' /\ OneCpu' /\ PickedIdle' /\ NoThreadLost'
    BY <2>1 DEF Ownership, CurrentOwned, OneCpu, PickedIdle, Picking, NoThreadLost
  <2>4. \A d \in CPUs : Unborn(d)' \subseteq Unborn(d)
    BY <2>1 DEF Unborn, Creating, HasBuilt
  <2>5. UnbornHidden' /\ UnbornDistinct'
    BY <2>1, <2>4 DEF Ownership, UnbornHidden, UnbornDistinct
  <2>6. QED BY <2>2, <2>3, <2>5 DEF Ownership
<1>13. ASSUME NEW c \in CPUs, PickThread(c) PROVE Ownership'
  <2>1. scan[c] \in Slots /\ state[scan[c]] = "IDLE"
    BY <1>13 DEF PickThread, Consumed, Runnable, Ownership, StatesUsed, TypeInv, TypeOK
  <2>2. /\ \A d \in CPUs : d # c => pc'[d] = pc[d] /\ subject'[d] = subject[d]
        /\ pc[c] = "t_scan" /\ pc'[c] = "t_new" /\ subject'[c] = scan[c]
        /\ UNCHANGED <<n_threads, scheduler_mutex, current, built>>
        /\ state' = state
    BY <1>13, <2>1 DEF PickThread, Consumed, Goto, TypeInv, TypeOK
  <2>3. MutualExclusion' /\ CallsMade' /\ StatesUsed'
    BY <2>2 DEF Ownership, MutualExclusion, CallsMade, StatesUsed, InCS, Calling, Booting
  <2>4. CurrentOwned' /\ OneCpu' /\ NoThreadLost'
    BY <2>2 DEF Ownership, CurrentOwned, OneCpu, NoThreadLost
  <2>5. PickedIdle'
    BY <2>1, <2>2 DEF Ownership, PickedIdle, Picking
  <2>6. \A d \in CPUs : Unborn(d)' \subseteq Unborn(d)
    BY <2>2 DEF Unborn, Creating, HasBuilt
  <2>7. UnbornHidden' /\ UnbornDistinct'
    BY <2>2, <2>6 DEF Ownership, UnbornHidden, UnbornDistinct
  <2>8. QED BY <2>3, <2>4, <2>5, <2>7 DEF Ownership
<1>14. ASSUME NEW c \in CPUs, SkipThread(c) PROVE Ownership'
  <2>1. Unborn(c)' \subseteq Unborn(c)
    BY <1>14 DEF SkipThread, Goto, localVars, Unborn, Creating, HasBuilt, TypeInv, TypeOK
  <2>2. QED
    BY Zenon, <1>14, <2>1, OwnershipFrame DEF SkipThread, Goto, threadVars, localVars, InCS, Picking,
       Booting, Calling, PCs, Ownership, CallsMade
<1>15. ASSUME NEW c \in CPUs, LockNew(c) PROVE Ownership'
  <2>1. Unborn(c)' \subseteq Unborn(c)
    BY <1>15 DEF LockNew, Goto, localVars, Unborn, Creating, HasBuilt, TypeInv, TypeOK
  <2>2. QED
    BY Zenon, <1>15, <2>1, OwnershipFrame DEF LockNew, Goto, threadVars, localVars, InCS, Picking,
       Booting, Calling, PCs, Ownership, CallsMade
<1>16. ASSUME NEW c \in CPUs, LockOld(c) PROVE Ownership'
  <2>1. Unborn(c)' \subseteq Unborn(c)
    BY <1>16 DEF LockOld, Goto, localVars, Unborn, Creating, HasBuilt, TypeInv, TypeOK
  <2>2. QED
    BY Zenon, <1>16, <2>1, OwnershipFrame DEF LockOld, Goto, threadVars, localVars, InCS, Picking,
       Booting, Calling, PCs, Ownership, CallsMade
<1>17. ASSUME NEW c \in CPUs, SwitchThread(c) PROVE Ownership'
  BY <1>17, OwnershipSwitch
<1>18. ASSUME NEW c \in CPUs, idle_cpu(c) PROVE Ownership'
  BY <1>18, OwnershipIdle
<1>19. ASSUME NEW c \in CPUs, NEW e \in Events, block(c, e) PROVE Ownership'
  BY <1>19 DEF block, Ownership, CallsMade
<1>20. ASSUME NEW c \in CPUs, set_state(c) PROVE Ownership'
  BY <1>20, OwnershipSilent
<1>21. ASSUME NEW c \in CPUs, ForkLock(c) PROVE Ownership'
  <2>1. Unborn(c)' \subseteq Unborn(c)
    BY <1>21 DEF ForkLock, Goto, localVars, Unborn, Creating, HasBuilt, TypeInv, TypeOK
  <2>2. QED
    BY Zenon, <1>21, <2>1, OwnershipFrame DEF ForkLock, Goto, threadVars, localVars, InCS, Picking,
       Booting, Calling, PCs, Ownership, CallsMade
<1>22. ASSUME NEW c \in CPUs, ForkCreate(c) PROVE Ownership'
  BY <1>22, OwnershipCreate DEF ForkCreate, Booting
<1>23. ASSUME NEW c \in CPUs, ForkCopy(c) PROVE Ownership'
  <2>1. Unborn(c)' \subseteq Unborn(c)
    BY <1>23 DEF ForkCopy, Goto, localVars, Unborn, Creating, HasBuilt, TypeInv, TypeOK
  <2>2. \A d \in CPUs : d # c => built'[d] = built[d]
    BY <1>23 DEF ForkCopy, localVars, TypeInv, TypeOK
  <2>3. current[c] # kernel_thread \/ pc[c] \notin Calling
    BY DEF Ownership, CallsMade
  <2>4. QED
    BY Zenon, <1>23, <2>1, <2>2, <2>3, OwnershipFrame DEF ForkCopy, Goto, localVars, InCS, Picking,
       Booting, Calling, PCs
<1>24. ASSUME NEW c \in CPUs, ForkWake(c) PROVE Ownership'
  <2>1. subject[c] \in Unborn(c)
    BY <1>24 DEF ForkWake, Unborn, Creating, HasBuilt, TypeInv, PointersOK, HasSubject
  <2>2. Unborn(c)' \subseteq Unborn(c) \ {subject[c]}
    BY <1>24 DEF ForkWake, Goto, localVars, Unborn, Creating, HasBuilt, TypeInv, TypeOK
  <2>3. QED
    BY Zenon, <1>24, <2>1, <2>2, OwnershipWake DEF ForkWake, Goto, localVars, Booting, PCs
<1>25. ASSUME NEW c \in CPUs, KillLock(c) PROVE Ownership'
  BY <1>25 DEF KillLock, Ownership, CallsMade
<1>26. ASSUME NEW c \in CPUs, KillThread(c) PROVE Ownership'
  BY <1>26 DEF KillThread, Ownership, CallsMade
<1>27. CASE UNCHANGED vars
  BY <1>27 DEF vars, Ownership, MutualExclusion, CallsMade, StatesUsed, CurrentOwned,
     PickedIdle, UnbornHidden, UnbornDistinct, OneCpu, NoThreadLost, Unborn
<1>28. QED
  BY <1>0, <1>1, <1>2, <1>3, <1>4, <1>5, <1>6, <1>7, <1>8, <1>9, <1>10, <1>11, <1>12, <1>13,
     <1>14, <1>15, <1>16, <1>17, <1>18, <1>19, <1>20, <1>21, <1>22, <1>23, <1>24, <1>25, <1>26, <1>27
     DEF Next, CpuStep, KernelStep, boot, timer_handler, fork, kill

LEMMA OwnershipInit == Init => Ownership
BY DEF Init, Ownership, MutualExclusion, CallsMade, StatesUsed, CurrentOwned,
   PickedIdle, UnbornHidden, UnbornDistinct, OneCpu, NoThreadLost, Unborn, InCS,
   Picking, Creating, Calling, Booting, HasBuilt

LEMMA OwnershipInvariant ==
  ASSUME Quiet PROVE Spec => [](TypeInv /\ Ownership)
<1>1. Init => TypeInv /\ Ownership
  BY TypeInit, OwnershipInit
<1>2. TypeInv /\ Ownership /\ [Next]_vars => (TypeInv /\ Ownership)'
  BY TypeStep, OwnershipStep
<1>3. QED BY <1>1, <1>2, PTL DEF Spec

\* On any number of CPUs, timer_handler, yield, fork and set_state never let two
\* CPUs have the same current thread (scheduler_mutex and the IDLE check in
\* check_thread suffice).
THEOREM ThreadOnOneCpu ==
  ASSUME Quiet PROVE Spec => []OneCpu
<1>1. TypeInv /\ Ownership => OneCpu
  BY DEF Ownership
<1>2. QED BY <1>1, OwnershipInvariant, PTL

\* Under the same calls no thread is left marked RUNNING without a CPU.
THEOREM RunningHasCpu ==
  ASSUME Quiet PROVE Spec => []NoThreadLost
<1>1. TypeInv /\ Ownership => NoThreadLost
  BY DEF Ownership
<1>2. QED BY <1>1, OwnershipInvariant, PTL

==============================================================================
