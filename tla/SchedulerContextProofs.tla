------------------------ MODULE SchedulerContextProofs ------------------------
(***************************************************************************)
(* Proof that a thread resumes with its own registers and address space,    *)
(* for any set of CPUs.                                                     *)
(***************************************************************************)
EXTENDS SchedulerSmpProofs

USE CpuAssumption, ThreadAssumption, EventAssumption, WorkloadAssumption
USE DEF Slots, nullptr, kernel_vmm, kernel_thread

(***************************************************************************)
(* Contexts.  The registers of a thread are in exactly one place: in the    *)
(* CPU it is current on, or in thread::context, also while it is created.   *)
(***************************************************************************)
Saved(t) == context[t].pos = left[t].pos /\ context[t].cr3 = t
ContextSaved == \A t \in Slots : state[t] = "IDLE" => Saved(t)
ContextLoaded ==
    \A c \in CPUs : current[c] \notin {nullptr, kernel_thread} =>
      regs[c].pos = left[current[c]].pos /\ cr3[c] = current[c]
ContextPrepared ==
    \A c \in CPUs :
      /\ pc[c] \in {"watchdog_make", "elf_lock", "vfs_make"} =>
           context[subject[c]].pos = left[subject[c]].pos
      /\ pc[c] = "f_wake" => Saved(subject[c])
      /\ pc[c] \in HasBuilt => Saved(built[c])
Contexts == ContextSaved /\ ContextLoaded /\ ContextPrepared

LEMMA ContextsInit == Init => Contexts
BY DEF Init, Contexts, ContextSaved, ContextLoaded, ContextPrepared, HasBuilt

LEMMA ContextsCreate ==
  ASSUME TypeInv, Ownership, Contexts, NEW c \in CPUs, NEW priv,
         NEW next \in {"watchdog_make", "elf_lock", "vfs_make", "f_copy"},
         create_blocked_thread(c, priv, next),
         next = "vfs_make" => pc[c] = "vfs"
  PROVE  Contexts'
<1> DEFINE n == n_threads
<1>1. /\ n \in Slots
      /\ state' = [state EXCEPT ![n] = "SILENT"]
      /\ \A d \in CPUs : current[d] # n /\ n \notin Unborn(d)
      /\ context' = [context EXCEPT ![n] = FreshContext]
      /\ left' = [left EXCEPT ![n] = FreshRegs]
      /\ subject' = [subject EXCEPT ![c] = n]
      /\ pc' = [pc EXCEPT ![c] = next]
      /\ UNCHANGED <<current, regs, cr3, built>>
  BY CreateFacts DEF Ownership
<1>2. \A t \in Slots : t # n => context'[t] = context[t] /\ left'[t] = left[t] /\ state'[t] = state[t]
  BY <1>1 DEF TypeInv, TypeOK
<1>3. context'[n].pos = left'[n].pos /\ state'[n] = "SILENT"
  BY <1>1 DEF TypeInv, TypeOK, FreshContext, FreshRegs
<1>4. /\ \A d \in CPUs : d # c => pc'[d] = pc[d] /\ subject'[d] = subject[d]
      /\ pc'[c] = next /\ subject'[c] = n
      /\ \A d \in CPUs : current[d] \in Slots \cup {nullptr}
  BY <1>1 DEF TypeInv, TypeOK
<1> HIDE DEF n
<1>5. ContextSaved'
  BY <1>2, <1>3 DEF Contexts, ContextSaved, Saved
<1>6. ContextLoaded'
  BY <1>1, <1>2, <1>4 DEF Contexts, ContextLoaded
<1>7. ASSUME NEW d \in CPUs
      PROVE  /\ pc'[d] \in {"watchdog_make", "elf_lock", "vfs_make"} =>
                  context'[subject'[d]].pos = left'[subject'[d]].pos
             /\ pc'[d] = "f_wake" => Saved(subject[d])' /\ d # c
             /\ pc'[d] \in HasBuilt => Saved(built[d])'
  <2>1. pc[d] \in Creating => subject[d] \in Slots \ {n}
    BY <1>1, UnbornFacts DEF Unborn
  <2>2. pc[d] \in HasBuilt => built[d] \in Slots \ {n}
    BY <1>1, UnbornFacts DEF Unborn
  <2>3. pc'[d] \in HasBuilt => pc[d] \in HasBuilt
    BY <1>4 DEF HasBuilt
  <2>4. CASE d = c
    BY <1>1, <1>2, <1>3, <1>4, <2>2, <2>3, <2>4 DEF Contexts, ContextPrepared, Saved
  <2>5. CASE d # c
    BY <1>1, <1>2, <1>4, <2>1, <2>2, <2>5 DEF Contexts, ContextPrepared, Saved, Creating
  <2>6. QED BY <2>4, <2>5
<1>8. ContextPrepared'
  BY <1>7 DEF ContextPrepared, Saved
<1>9. QED BY <1>5, <1>6, <1>8 DEF Contexts

\* Entering the kernel moves the running thread's position and nobody else's.
LEMMA ContextsEnter ==
  ASSUME TypeInv, Ownership, Contexts, NEW c \in CPUs, NEW rax, NEW expect, NEW next,
         Enter(c, rax, expect), pc[c] = "run", pc' = [pc EXCEPT ![c] = next],
         next \notin Creating \cup HasBuilt,
         UNCHANGED <<state, current, context, cr3, subject, built>>
  PROVE  Contexts'
<1> DEFINE t == current[c]
<1>1. t \in Slots /\ state[t] # "IDLE"
  BY DEF TypeInv, PointersOK, HasCurrent, Ownership, CurrentOwned, StatesUsed
<1>2. PICK p : /\ regs' = [regs EXCEPT ![c] = [pos |-> p, rax |-> rax]]
               /\ left' = [left EXCEPT ![t] = [pos |-> p, rax |-> expect]]
  BY Zenon DEF Enter
<1>3. /\ \A u \in Slots : u # t => left'[u] = left[u]
      /\ left'[t].pos = p /\ regs'[c].pos = p
      /\ \A d \in CPUs : d # c => regs'[d] = regs[d] /\ pc'[d] = pc[d]
      /\ pc'[c] = next
      /\ \A d \in CPUs : current[d] \in Slots \cup {nullptr}
  BY <1>1, <1>2 DEF TypeInv, TypeOK
<1>4. ContextSaved'
  BY <1>1, <1>3 DEF Contexts, ContextSaved, Saved
<1>5. ContextLoaded'
  <2>1. ASSUME NEW d \in CPUs, d # c, current[d] \notin {nullptr, kernel_thread}
        PROVE  current[d] # t
    BY <2>1 DEF Ownership, OneCpu
  <2>2. QED BY <1>3, <2>1 DEF Contexts, ContextLoaded
<1>6. ContextPrepared'
  <2>1. \A d \in CPUs : \A u \in Unborn(d) : u \in Slots /\ u # t
    BY DEF Ownership, UnbornHidden, Unborn
  <2>2. \A d \in CPUs : pc'[d] \in Creating \cup HasBuilt => d # c
    BY <1>3
  <2>3. \A d \in CPUs : /\ pc[d] \in Creating => subject[d] \in Slots \ {t}
                        /\ pc[d] \in HasBuilt => built[d] \in Slots \ {t}
    BY <2>1, UnbornFacts
  <2>4. QED BY <1>3, <2>2, <2>3 DEF Contexts, ContextPrepared, Saved, Creating
<1>7. QED BY <1>4, <1>5, <1>6 DEF Contexts

LEMMA ContextsMake ==
  ASSUME TypeInv, Ownership, Contexts, NEW c \in CPUs, NEW next,
         make_kernel_thread(c, next), pc[c] \in {"watchdog_make", "vfs_make"},
         next \in {"elf", "elf_done"}, next = "elf_done" => pc[c] = "vfs_make"
  PROVE  Contexts'
<1> DEFINE t == subject[c]
<1>1. /\ context' = [context EXCEPT ![t] = WithSpace(@, t)]
      /\ state' = [state EXCEPT ![t] = "IDLE"]
      /\ pc' = [pc EXCEPT ![c] = next]
      /\ UNCHANGED <<current, regs, cr3, subject, built, left>>
  BY DEF make_kernel_thread, Goto, localVars
<1>2. t \in Unborn(c) /\ t \in Slots
  BY UnbornFacts DEF Creating, Unborn
<1>3. \A d \in CPUs : current[d] # t
  BY <1>2 DEF Ownership, UnbornHidden
<1>4. /\ \A u \in Slots : u # t => context'[u] = context[u] /\ state'[u] = state[u]
      /\ context'[t].pos = context[t].pos /\ context'[t].cr3 = t
      /\ \A d \in CPUs : d # c => pc'[d] = pc[d]
      /\ pc'[c] = next
  BY <1>1, <1>2 DEF TypeInv, TypeOK, WithSpace
<1>5. ContextSaved'
  BY <1>1, <1>4 DEF Contexts, ContextSaved, ContextPrepared, Saved
<1>6. ContextLoaded'
  BY <1>1 DEF Contexts, ContextLoaded
<1>7. \A d \in CPUs : /\ d # c /\ pc[d] \in Creating => subject[d] \in Slots \ {t}
                      /\ pc'[d] \in HasBuilt => pc[d] \in HasBuilt /\ built[d] \in Slots \ {t}
  <2>1. \A d \in CPUs : d # c => t \notin Unborn(d)
    BY <1>2 DEF Ownership, UnbornDistinct
  <2>2. pc'[c] \in HasBuilt => pc[c] \in HasBuilt /\ built[c] # t
    BY <1>4 DEF Ownership, UnbornDistinct, HasBuilt
  <2>3. QED BY <1>4, <2>1, <2>2, UnbornFacts DEF Unborn
<1>8. ContextPrepared'
  BY <1>1, <1>4, <1>7 DEF Contexts, ContextPrepared, Saved, Creating
<1>9. QED BY <1>5, <1>6, <1>8 DEF Contexts

LEMMA ContextsIdle ==
  ASSUME TypeInv, Ownership, Contexts, NEW c \in CPUs, idle_cpu(c)
  PROVE  Contexts'
<1> DEFINE old == current[c]
<1>1. /\ pc[c] = "i_idle" /\ pc' = [pc EXCEPT ![c] = "idle"]
      /\ context' = IF old = nullptr THEN context
                    ELSE [context EXCEPT ![old] = save_context(c)]
      /\ current' = [current EXCEPT ![c] = nullptr]
      /\ cr3' = [cr3 EXCEPT ![c] = kernel_vmm]
      /\ regs' = [regs EXCEPT ![c] = FreshRegs]
      /\ UNCHANGED <<subject, built, left>>
  BY DEF idle_cpu, SavedContexts, Parked, Goto, localVars, Ownership, CallsMade
<1>2. \A t \in Slots : state'[t] = IF t = old /\ state[t] = "RUNNING" THEN "IDLE" ELSE state[t]
  BY DEF idle_cpu, SavedContexts, Parked, TypeInv, TypeOK
<1>3. /\ \A t \in Slots : t # old => context'[t] = context[t]
      /\ old # nullptr => old \in Slots /\ context'[old].pos = regs[c].pos /\ context'[old].cr3 = cr3[c]
      /\ \A d \in CPUs : d # c => /\ pc'[d] = pc[d] /\ current'[d] = current[d]
                                   /\ regs'[d] = regs[d] /\ cr3'[d] = cr3[d]
      /\ pc'[c] = "idle" /\ current'[c] = nullptr
  BY <1>1 DEF TypeInv, TypeOK, save_context
<1>4. ContextSaved'
  <2>1. \A t \in Slots : t # old /\ state'[t] = "IDLE" => Saved(t)'
    BY <1>1, <1>2, <1>3 DEF Contexts, ContextSaved, Saved
  <2>2. old \in Slots /\ state'[old] = "IDLE" =>
          context'[old].pos = left'[old].pos /\ context'[old].cr3 = old
    <3>1. state[kernel_thread] = "SILENT" /\ (old \notin {nullptr, kernel_thread} => state[old] # "IDLE")
      BY DEF Ownership, CurrentOwned, StatesUsed
    <3>2. QED BY <1>1, <1>2, <1>3, <3>1 DEF Contexts, ContextLoaded, Saved
  <2>3. QED BY <2>1, <2>2 DEF ContextSaved, Saved
<1>5. ContextLoaded'
  BY <1>1, <1>3 DEF Contexts, ContextLoaded
<1>6. ContextPrepared'
  <2>1. \A d \in CPUs : /\ pc[d] \in Creating => subject[d] \in Slots \ {old}
                        /\ pc[d] \in HasBuilt => built[d] \in Slots \ {old}
    BY UnbornFacts DEF Ownership, UnbornHidden, Unborn
  <2>2. QED BY <1>1, <1>3, <2>1 DEF Contexts, ContextPrepared, Saved, Creating, HasBuilt
<1>7. QED BY <1>4, <1>5, <1>6 DEF Contexts

LEMMA ContextsSwitch ==
  ASSUME TypeInv, Ownership, Contexts, NEW c \in CPUs, SwitchThread(c)
  PROVE  Contexts'
<1> DEFINE old == current[c]
           new == subject[c]
           saved == IF old = nullptr THEN context
                    ELSE [context EXCEPT ![old] = save_context(c)]
<1>1. /\ pc[c] = "t_switch" /\ pc' = [pc EXCEPT ![c] = "run"]
      /\ context' = saved
      /\ current' = [current EXCEPT ![c] = new]
      /\ cr3' = IF old = nullptr \/ saved[old].cr3 # saved[new].cr3
                THEN [cr3 EXCEPT ![c] = new] ELSE cr3
      /\ regs' = [regs EXCEPT ![c] =
                    [pos |-> saved[new].pos,
                     rax |-> IF ret[c] = "none" THEN saved[new].rax ELSE ret[c]]]
      /\ UNCHANGED <<subject, built, left>>
  BY DEF SwitchThread, SavedContexts, Parked, Goto, localVars
<1>2. new \in Slots /\ state[new] = "IDLE"
  BY <1>1 DEF TypeInv, PointersOK, HasSubject, Ownership, PickedIdle, Picking
<1>3. new # old
  BY <1>2 DEF Ownership, StatesUsed, CurrentOwned
<1>4. \A t \in Slots : state'[t] = IF t = new THEN "RUNNING"
                                   ELSE IF t = old /\ state[t] = "RUNNING" THEN "IDLE" ELSE state[t]
  BY <1>2, <1>3 DEF SwitchThread, SavedContexts, Parked, TypeInv, TypeOK
<1>5. /\ \A t \in Slots : t # old => saved[t] = context[t]
      /\ old # nullptr => old \in Slots /\ saved[old].pos = regs[c].pos /\ saved[old].cr3 = cr3[c]
  BY DEF TypeInv, TypeOK, save_context
<1> HIDE DEF saved
<1>6. /\ \A d \in CPUs : d # c => /\ pc'[d] = pc[d] /\ current'[d] = current[d]
                                   /\ regs'[d] = regs[d] /\ cr3'[d] = cr3[d]
      /\ pc'[c] = "run" /\ current'[c] = new
      /\ regs'[c].pos = saved[new].pos
  BY <1>1 DEF TypeInv, TypeOK
<1>7. cr3'[c] = new /\ regs'[c].pos = left[new].pos
  <2>1. saved[new].pos = left[new].pos /\ saved[new].cr3 = new
    BY <1>2, <1>3, <1>5 DEF Contexts, ContextSaved, Saved
  <2>2. CASE old = nullptr \/ saved[old].cr3 # saved[new].cr3
    BY <1>1, <1>6, <2>1, <2>2 DEF TypeInv, TypeOK
  <2>3. CASE old # nullptr /\ saved[old].cr3 = saved[new].cr3
    BY <1>1, <1>5, <1>6, <2>1, <2>3
  <2>4. QED BY <2>2, <2>3
<1>8. ContextSaved'
  <2>1. \A t \in Slots : t # old /\ state'[t] = "IDLE" => Saved(t)'
    BY <1>1, <1>4, <1>5 DEF Contexts, ContextSaved, Saved
  <2>2. old \in Slots /\ state'[old] = "IDLE" =>
          context'[old].pos = left'[old].pos /\ context'[old].cr3 = old
    <3>1. state[kernel_thread] = "SILENT" /\ (old \notin {nullptr, kernel_thread} => state[old] # "IDLE")
      BY DEF Ownership, CurrentOwned, StatesUsed
    <3>2. QED BY <1>1, <1>3, <1>4, <1>5, <3>1 DEF Contexts, ContextLoaded, Saved
  <2>3. QED BY <2>1, <2>2 DEF ContextSaved, Saved
<1>9. ContextLoaded'
  BY <1>1, <1>6, <1>7 DEF Contexts, ContextLoaded
<1>10. ContextPrepared'
  <2>1. \A d \in CPUs : /\ pc[d] \in Creating => subject[d] \in Slots \ {old}
                        /\ pc[d] \in HasBuilt => built[d] \in Slots \ {old}
    BY UnbornFacts DEF Ownership, UnbornHidden, Unborn
  <2>2. QED BY <1>1, <1>5, <1>6, <2>1 DEF Contexts, ContextPrepared, Saved, Creating, HasBuilt
<1>11. QED BY <1>8, <1>9, <1>10 DEF Contexts

LEMMA ContextsFork ==
  ASSUME TypeInv, Ownership, Contexts, NEW c \in CPUs, ForkCopy(c)
  PROVE  Contexts'
<1> DEFINE parent == current[c]
           child == subject[c]
<1>1. /\ pc[c] = "f_copy" /\ pc' = [pc EXCEPT ![c] = "f_wake"]
      /\ context' = [context EXCEPT ![parent] = save_context(c),
                                    ![child] = [pos |-> regs[c].pos, rax |-> "zero",
                                                cr3 |-> child]]
      /\ left' = [left EXCEPT ![child] = [pos |-> regs[c].pos, rax |-> "zero"]]
      /\ UNCHANGED <<state, current, regs, cr3, subject, built>>
  BY DEF ForkCopy, Goto, localVars
<1>2. /\ child \in Unborn(c) /\ child \in Slots /\ parent \in Slots
      /\ parent # kernel_thread
  BY <1>1, UnbornFacts DEF Creating, Unborn, TypeInv, PointersOK, HasCurrent, Ownership,
     CallsMade, Calling
<1>3. /\ state[child] = "SILENT" /\ state[parent] # "IDLE"
      /\ \A d \in CPUs : current[d] # child
  BY <1>2 DEF Ownership, UnbornHidden, CurrentOwned
<1>4. /\ \A t \in Slots : t \notin {parent, child} => context'[t] = context[t]
      /\ \A t \in Slots : t # child => left'[t] = left[t]
      /\ context'[child].pos = left'[child].pos /\ context'[child].cr3 = child
      /\ \A d \in CPUs : d # c => pc'[d] = pc[d]
      /\ pc'[c] = "f_wake"
      /\ \A d \in CPUs : current[d] \in Slots \cup {nullptr}
  BY Zenon, <1>1, <1>2 DEF TypeInv, TypeOK
<1>5. ContextSaved'
  <2>1. \A t \in Slots : state'[t] = "IDLE" => t \notin {parent, child} /\ Saved(t)
    BY <1>1, <1>2, <1>3 DEF Contexts, ContextSaved
  <2>2. QED BY <1>4, <2>1 DEF ContextSaved, Saved
<1>6. ContextLoaded'
  BY <1>1, <1>3, <1>4 DEF Contexts, ContextLoaded
<1>7. ContextPrepared'
  <2>1. \A d \in CPUs : d # c =>
          /\ pc[d] \in Creating => subject[d] \in Slots \ {parent, child}
          /\ pc[d] \in HasBuilt => built[d] \in Slots \ {parent, child}
    BY <1>2, UnbornFacts DEF Ownership, UnbornHidden, UnbornDistinct, Unborn
  <2>2. ASSUME NEW d \in CPUs
        PROVE  /\ pc'[d] \in {"watchdog_make", "elf_lock", "vfs_make"} =>
                    context'[subject'[d]].pos = left'[subject'[d]].pos
               /\ pc'[d] = "f_wake" => Saved(subject[d])'
               /\ pc'[d] \in HasBuilt => Saved(built[d])'
    <3>1. CASE d = c
      BY Zenon, <1>1, <1>4, <3>1 DEF Saved, HasBuilt
    <3>2. CASE d # c
      <4>1. /\ pc'[d] = pc[d] /\ subject'[d] = subject[d] /\ built'[d] = built[d]
            /\ \A t \in Slots \ {parent, child} :
                 context'[t] = context[t] /\ left'[t] = left[t]
        BY Zenon, <1>1, <1>4, <3>2
      <4>2. QED BY <2>1, <3>2, <4>1 DEF Contexts, ContextPrepared, Saved, Creating
    <3>3. QED BY <3>1, <3>2
  <2>3. QED BY <2>2 DEF ContextPrepared, Saved
<1>8. QED BY <1>5, <1>6, <1>7 DEF Contexts

\* A step that leaves every saved and loaded context alone.
LEMMA ContextsFrame ==
  ASSUME TypeInv, Contexts, NEW c \in CPUs, NEW next,
         pc' = [pc EXCEPT ![c] = next], next \notin Creating \cup HasBuilt,
         UNCHANGED <<context, cr3, built, left>>,
         \A d \in CPUs : d # c => subject'[d] = subject[d],
         \A d \in CPUs : current'[d] = current[d] \/ current'[d] = kernel_thread,
         \A d \in CPUs : regs'[d].pos = regs[d].pos,
         \A t \in Slots : state'[t] = "IDLE" => state[t] = "IDLE" \/ Saved(t)
  PROVE  Contexts'
<1>1. pc'[c] = next /\ \A d \in CPUs : d # c => pc'[d] = pc[d]
  BY DEF TypeInv, TypeOK
<1>2. ContextSaved'
  BY DEF Contexts, ContextSaved, Saved
<1>3. ContextLoaded'
  BY DEF Contexts, ContextLoaded
<1>4. ContextPrepared'
  BY <1>1 DEF Contexts, ContextPrepared, Saved, Creating
<1>5. QED BY <1>2, <1>3, <1>4 DEF Contexts

LEMMA ContextsStep ==
  ASSUME Quiet, TypeInv, Ownership, Contexts, [Next]_vars
  PROVE  Contexts'
<1>0. ASSUME NEW c \in CPUs, ElfUnreadable(c) PROVE Contexts'
  BY Zenon, <1>0, ContextsFrame DEF ElfUnreadable, Goto, threadVars, localVars, Creating, HasBuilt
<1>1. ASSUME NEW c \in CPUs, init_cpu(c) PROVE Contexts'
  <2>1. \A d \in CPUs : current'[d] = current[d] \/ current'[d] = kernel_thread
    BY <1>1 DEF init_cpu, TypeInv, TypeOK
  <2>2. QED
    BY Zenon, <1>1, <2>1, ContextsFrame DEF init_cpu, Goto, threadVars, localVars, Creating, HasBuilt
<1>2. ASSUME NEW c \in CPUs, StartWatchdog(c) PROVE Contexts'
  BY <1>2, ContextsCreate DEF StartWatchdog
<1>3. ASSUME NEW c \in CPUs, MakeWatchdog(c) PROVE Contexts'
  BY <1>3, ContextsMake DEF MakeWatchdog
<1>4. ASSUME NEW c \in CPUs, StartElf(c) PROVE Contexts'
  BY <1>4, ContextsCreate DEF StartElf
<1>5. ASSUME NEW c \in CPUs, LockElf(c) PROVE Contexts'
  <2> DEFINE t == subject[c]
  <2>1. t \in Unborn(c) /\ t \in Slots
    BY <1>5, UnbornFacts DEF LockElf, Creating, Unborn
  <2>2. /\ \A u \in Slots : u # t => context'[u] = context[u]
        /\ context'[t].pos = context[t].pos /\ context'[t].cr3 = t
        /\ UNCHANGED <<state, current, regs, subject, left>>
    BY <1>5, <2>1 DEF LockElf, WithSpace, TypeInv, TypeOK
  <2>3. /\ \A d \in CPUs : d # c => pc'[d] = pc[d] /\ cr3'[d] = cr3[d] /\ built'[d] = built[d]
        /\ pc'[c] = "vfs" /\ built'[c] = t
    BY <1>5 DEF LockElf, Goto, TypeInv, TypeOK
  <2>4. pc[c] = "elf_lock" /\ current[c] = nullptr /\ state[t] = "SILENT"
    BY <1>5, <2>1 DEF LockElf, Ownership, CallsMade, Booting, UnbornHidden
  <2>5. context[t].pos = left[t].pos
    BY <2>4 DEF Contexts, ContextPrepared
  <2>6. ContextSaved'
    BY <2>2, <2>4 DEF Contexts, ContextSaved, Saved
  <2>7. ContextLoaded'
    BY <2>2, <2>3, <2>4 DEF Contexts, ContextLoaded
  <2>8. ContextPrepared'
    <3>1. \A d \in CPUs : d # c =>
            /\ pc[d] \in Creating => subject[d] \in Slots \ {t}
            /\ pc[d] \in HasBuilt => built[d] \in Slots \ {t}
      BY <2>1, UnbornFacts DEF Ownership, UnbornDistinct, Unborn
    <3>2. Saved(built[c])'
      BY <2>2, <2>3, <2>5 DEF Saved
    <3>3. QED BY <2>2, <2>3, <3>1, <3>2 DEF Contexts, ContextPrepared, Saved, Creating, HasBuilt
  <2>9. QED BY <2>6, <2>7, <2>8 DEF Contexts
<1>6. ASSUME NEW c \in CPUs, StartVfs(c) PROVE Contexts'
  BY <1>6, ContextsCreate DEF StartVfs
<1>7. ASSUME NEW c \in CPUs, MakeVfs(c) PROVE Contexts'
  BY <1>7, ContextsMake DEF MakeVfs
<1>8. ASSUME NEW c \in CPUs, NEW loaded \in LoadResults, FinishElf(c, loaded) PROVE Contexts'
  <2>1. built[c] \in Slots /\ Saved(built[c])
    BY <1>8, UnbornFacts DEF FinishElf, HasBuilt, Unborn, Contexts, ContextPrepared
  <2>2. /\ \A t \in Slots : state'[t] = "IDLE" => state[t] = "IDLE" \/ t = built[c]
        /\ \A d \in CPUs : d # c => pc'[d] = pc[d] /\ cr3'[d] = cr3[d]
        /\ pc'[c] = "init_cpu" /\ current[c] = nullptr
        /\ UNCHANGED <<context, current, regs, subject, built, left>>
    <3>1. current[c] = nullptr
      BY <1>8 DEF FinishElf, Ownership, CallsMade, Booting
    <3>2. QED BY <1>8, <2>1, <3>1 DEF FinishElf, Goto, localVars, TypeInv, TypeOK
  <2>3. ContextSaved'
    BY <2>1, <2>2 DEF Contexts, ContextSaved, Saved
  <2>4. ContextLoaded'
    BY <2>2 DEF Contexts, ContextLoaded
  <2>5. ContextPrepared'
    BY <2>2 DEF Contexts, ContextPrepared, Saved, HasBuilt
  <2>6. QED BY <2>3, <2>4, <2>5 DEF Contexts
<1>9. ASSUME NEW c \in CPUs, Tick(c) PROVE Contexts'
  <2>1. CASE pc[c] = "run" /\ Enter(c, "user", "user")
    BY Zenon, <1>9, <2>1, ContextsEnter DEF Tick, Goto, threadVars, Creating, HasBuilt
  <2>2. CASE pc[c] = "idle" /\ UNCHANGED <<regs, left>>
    BY <1>9, <2>2 DEF Tick, Goto, threadVars, Contexts, ContextSaved, ContextLoaded,
       ContextPrepared, Saved, HasBuilt, TypeInv, TypeOK
  <2>3. QED BY <1>9, <2>1, <2>2 DEF Tick
<1>10. ASSUME NEW c \in CPUs, NEW op \in Ops, Syscall(c, op) PROVE Contexts'
  <2>1. FirstStep(op) \in {"t_lock", "s_set", "f_lock"} /\ op # "kill"
    BY DEF FirstStep, AllOps, Quiet
  <2>2. QED
    BY Zenon, <1>10, <2>1, ContextsEnter DEF Syscall, Goto, threadVars, Creating, HasBuilt
<1>11. ASSUME NEW c \in CPUs, NEW e \in Events, trigger(c, e) PROVE Contexts'
  BY <1>11 DEF trigger, threadVars, localVars, Contexts, ContextSaved, ContextLoaded,
     ContextPrepared, Saved
<1>12. ASSUME NEW c \in CPUs, LockScheduler(c) PROVE Contexts'
  <2>1. UNCHANGED <<context, cr3, built, left, subject, current, regs, state>>
    BY <1>12 DEF LockScheduler, threadVars
  <2>2. QED
    BY Zenon, <1>12, <2>1, ContextsFrame DEF LockScheduler, Goto, threadVars, localVars, Creating, HasBuilt
<1>13. ASSUME NEW c \in CPUs, PickThread(c) PROVE Contexts'
  <2>1. /\ \A t \in Slots : state'[t] = "IDLE" => state[t] = "IDLE" \/ Saved(t)
        /\ \A d \in CPUs : d # c => subject'[d] = subject[d]
    <3>1. state[scan[c]] = "IDLE"
      BY <1>13 DEF PickThread, Consumed, Runnable, Ownership, StatesUsed, TypeInv, TypeOK
    <3>2. QED BY <1>13, <3>1 DEF PickThread, Consumed, TypeInv, TypeOK
  <2>2. QED
    BY Zenon, <1>13, <2>1, ContextsFrame DEF PickThread, Consumed, Goto, threadVars, localVars, Creating, HasBuilt
<1>14. ASSUME NEW c \in CPUs, SkipThread(c) PROVE Contexts'
  BY Zenon, <1>14, ContextsFrame DEF SkipThread, Goto, threadVars, localVars, Creating, HasBuilt
<1>15. ASSUME NEW c \in CPUs, LockNew(c) PROVE Contexts'
  BY Zenon, <1>15, ContextsFrame DEF LockNew, Goto, threadVars, localVars, Creating, HasBuilt
<1>16. ASSUME NEW c \in CPUs, LockOld(c) PROVE Contexts'
  BY Zenon, <1>16, ContextsFrame DEF LockOld, Goto, threadVars, localVars, Creating, HasBuilt
<1>17. ASSUME NEW c \in CPUs, SwitchThread(c) PROVE Contexts'
  BY <1>17, ContextsSwitch
<1>18. ASSUME NEW c \in CPUs, idle_cpu(c) PROVE Contexts'
  BY <1>18, ContextsIdle
<1>19. ASSUME NEW c \in CPUs, NEW e \in Events, block(c, e) PROVE Contexts'
  BY <1>19 DEF block, Ownership, CallsMade
<1>20. ASSUME NEW c \in CPUs, set_state(c) PROVE Contexts'
  <2>1. \A t \in Slots : state'[t] = "IDLE" => state[t] = "IDLE" \/ Saved(t)
    BY <1>20 DEF set_state, TypeInv, TypeOK
  <2>2. QED
    BY Zenon, <1>20, <2>1, ContextsFrame DEF set_state, Goto, threadVars, localVars, Creating, HasBuilt
<1>21. ASSUME NEW c \in CPUs, ForkLock(c) PROVE Contexts'
  BY Zenon, <1>21, ContextsFrame DEF ForkLock, Goto, threadVars, localVars, Creating, HasBuilt
<1>22. ASSUME NEW c \in CPUs, ForkCreate(c) PROVE Contexts'
  BY <1>22, ContextsCreate DEF ForkCreate
<1>23. ASSUME NEW c \in CPUs, ForkCopy(c) PROVE Contexts'
  BY <1>23, ContextsFork
<1>24. ASSUME NEW c \in CPUs, ForkWake(c) PROVE Contexts'
  <2>1. /\ \A t \in Slots : state'[t] = "IDLE" => state[t] = "IDLE" \/ Saved(t)
        /\ \A d \in CPUs : regs'[d].pos = regs[d].pos
    BY <1>24 DEF ForkWake, TypeInv, TypeOK, Contexts, ContextPrepared
  <2>2. QED
    BY Zenon, <1>24, <2>1, ContextsFrame DEF ForkWake, Goto, threadVars, localVars, Creating, HasBuilt
<1>25. ASSUME NEW c \in CPUs, KillLock(c) PROVE Contexts'
  BY <1>25 DEF KillLock, Ownership, CallsMade
<1>26. ASSUME NEW c \in CPUs, KillThread(c) PROVE Contexts'
  BY <1>26 DEF KillThread, Ownership, CallsMade
<1>27. CASE UNCHANGED vars
  BY <1>27 DEF vars, Contexts, ContextSaved, ContextLoaded, ContextPrepared, Saved
<1>28. QED
  BY <1>0, <1>1, <1>2, <1>3, <1>4, <1>5, <1>6, <1>7, <1>8, <1>9, <1>10, <1>11, <1>12, <1>13,
     <1>14, <1>15, <1>16, <1>17, <1>18, <1>19, <1>20, <1>21, <1>22, <1>23, <1>24, <1>25, <1>26, <1>27
     DEF Next, CpuStep, KernelStep, boot, timer_handler, fork, kill

\* When the workload neither blocks nor kills, a CPU in user mode executes its
\* current thread from the position where it stopped and in its own address
\* space: save_context, switch_context, idle_cpu and fork keep each context in
\* exactly one place.
THEOREM ContextPreserved ==
  ASSUME Quiet PROVE Spec => []ResumesWhereItStopped
<1>1. Init => TypeInv /\ Ownership /\ Contexts
  BY TypeInit, OwnershipInit, ContextsInit
<1>2. TypeInv /\ Ownership /\ Contexts /\ [Next]_vars => (TypeInv /\ Ownership /\ Contexts)'
  BY TypeStep, OwnershipStep, ContextsStep
<1>3. TypeInv => \A c \in CPUs : pc[c] = "run" => current[c] # nullptr
  BY DEF TypeInv, PointersOK, HasCurrent
<1>4. TypeInv /\ Ownership /\ Contexts => ResumesWhereItStopped
  BY <1>3 DEF Contexts, ContextLoaded, ResumesWhereItStopped
<1>5. QED BY <1>1, <1>2, <1>4, PTL DEF Spec

==============================================================================
