------------------------------ MODULE Scheduler ------------------------------
(***************************************************************************)
(* The thread scheduler of the Sigma kernel (kernel/source/proc/process.cpp *)
(* with the system calls of syscall.cpp that reach it and the thread        *)
(* creation of kernel_main.cpp and elf.cpp).                                *)
(*                                                                          *)
(* Every interrupt gate clears IF, so a handler is never interrupted on its *)
(* own CPU; handlers of different CPUs interleave at their lock operations. *)
(* One action is one critical section or one lock acquisition; an           *)
(* acquisition is enabled when the lock's bit is clear.                     *)
(***************************************************************************)
EXTENDS Integers, FiniteSets

CONSTANTS
    CPUs,         \* the processors listed in the MADT
    BSP,          \* the processor that runs kernel_main
    MaxThreads,   \* bound: length of thread_list
    Events,       \* generic::event objects threads block on
    MaxCount,     \* bound: pending triggers of an event
    Ops,          \* the system calls the workload issues
    LoadResults   \* outcomes of reading the executable and its loader

Slots == 0 .. MaxThreads - 1          \* positions in thread_list, equal to tids
nullptr == -1
kernel_vmm == -1                      \* the kernel's own address space
kernel_thread == 0

ThreadStates == {"DISABLED", "IDLE", "RUNNING", "BLOCKED", "SILENT"}
AllOps == {"yield", "block", "silent", "fork", "kill"}
Rax == {"user", "func", "zero", "tid"}
PCs == {"watchdog", "watchdog_make", "elf", "elf_lock", "vfs", "vfs_make",
        "elf_done", "init_cpu", "run", "idle", "t_lock", "t_scan", "t_new",
        "t_old", "t_switch", "i_idle", "b_set", "s_set", "f_lock", "f_create",
        "f_copy", "f_wake", "k_lock", "k_kill", "k_idle"}

ASSUME CpuAssumption == BSP \in CPUs
ASSUME ThreadAssumption == MaxThreads \in Nat /\ MaxThreads > 3
ASSUME EventAssumption == Events # {} /\ MaxCount \in Nat
ASSUME WorkloadAssumption == Ops \subseteq AllOps /\ LoadResults \subseteq BOOLEAN

VARIABLES
    n_threads,        \* length of thread_list
    state,            \* thread::state
    event,            \* thread::event
    count,            \* event::count
    privileged,       \* 1: thread::privilege is KERNEL
    context,          \* thread::context: position, rax and address space
    thread_lock,      \* thread::thread_lock, the spinlock's bit
    scheduler_mutex,  \* the global scheduler spinlock's bit
    current,          \* managed_cpu::current_thread
    pc,               \* where each CPU is
    regs,             \* the registers the CPU returns to (idt_registers)
    cr3,              \* the address space loaded on the CPU
    scan,             \* schedule(): the list entry looked at
    subject,          \* new_thread of timer_handler, child of fork, ...
    built,            \* start_elf_executable: new_thread, locked meanwhile
    ret,              \* rax that syscall_handler writes after timer_handler
    left              \* ghost: the registers a thread must next see

threadVars == <<n_threads, state, event, privileged, context>>
localVars == <<scan, subject, built, ret>>
vars == <<n_threads, state, event, count, privileged, context, thread_lock,
          scheduler_mutex, current, pc, regs, cr3, scan, subject, built, ret,
          left>>

FreshContext == [pos |-> 0, rax |-> "zero", cr3 |-> nullptr]
FreshRegs == [pos |-> 0, rax |-> "zero"]
WithSpace(ctx, t) == [pos |-> ctx.pos, rax |-> ctx.rax, cr3 |-> t]
Listed == {t \in Slots : t < n_threads}
Goto(c, label) == pc' = [pc EXCEPT ![c] = label]

(***************************************************************************)
(* init_multitasking (235-247): kernel_thread is the only list entry.  The  *)
(* APs are started right after it and reach init_cpu on their own; the BSP  *)
(* goes on to create the first threads.                                     *)
(***************************************************************************)
Init ==
    /\ n_threads = 1
    /\ state = [t \in Slots |-> IF t = kernel_thread THEN "SILENT" ELSE "DISABLED"]
    /\ event = [t \in Slots |-> CHOOSE e \in Events : TRUE]
    /\ count = [e \in Events |-> 0]
    /\ privileged = [t \in Slots |-> 0]
    /\ context = [t \in Slots |-> FreshContext]
    /\ thread_lock = [t \in Slots |-> 0]
    /\ scheduler_mutex = 0
    /\ current = [c \in CPUs |-> nullptr]
    /\ pc = [c \in CPUs |-> IF c = BSP THEN "watchdog" ELSE "init_cpu"]
    /\ regs = [c \in CPUs |-> FreshRegs]
    /\ cr3 = [c \in CPUs |-> kernel_vmm]
    /\ scan = [c \in CPUs |-> 0]
    /\ subject = [c \in CPUs |-> nullptr]
    /\ built = [c \in CPUs |-> nullptr]
    /\ ret = [c \in CPUs |-> "none"]
    /\ left = [t \in Slots |-> FreshRegs]

(***************************************************************************)
(* init_cpu: the CPU's timer starts and kernel_thread is what it "runs".    *)
(***************************************************************************)
init_cpu(c) ==
    /\ pc[c] = "init_cpu"
    /\ current' = [current EXCEPT ![c] = kernel_thread]
    /\ Goto(c, "run")
    /\ UNCHANGED <<threadVars, count, thread_lock, scheduler_mutex, regs, cr3,
                   localVars, left>>

(***************************************************************************)
(* create_blocked_thread: under scheduler_mutex, the first DISABLED entry   *)
(* is reused, otherwise the list grows; create_thread_int resets the entry. *)
(***************************************************************************)
Reusable == {t \in Listed : state[t] = "DISABLED"}
TakesSlot(t) ==
    IF Reusable # {} THEN t \in Reusable /\ \A u \in Reusable : t <= u
                     ELSE t = n_threads

create_blocked_thread(c, priv, next) == \E t \in Slots :
    /\ TakesSlot(t)
    /\ scheduler_mutex = 0
    /\ thread_lock[t] = 0
    /\ n_threads' = IF Reusable # {} THEN n_threads ELSE n_threads + 1
    /\ state' = [state EXCEPT ![t] = "SILENT"]
    /\ privileged' = [privileged EXCEPT ![t] = priv]
    /\ context' = [context EXCEPT ![t] = FreshContext]
    /\ left' = [left EXCEPT ![t] = FreshRegs]
    /\ subject' = [subject EXCEPT ![c] = t]
    /\ Goto(c, next)
    /\ UNCHANGED <<event, count, thread_lock, scheduler_mutex, current, regs,
                   cr3, scan, built, ret>>

(***************************************************************************)
(* make_kernel_thread: give the thread its address space and entry, IDLE.   *)
(***************************************************************************)
make_kernel_thread(c, next) ==
    LET t == subject[c] IN
    /\ thread_lock[t] = 0
    /\ context' = [context EXCEPT ![t] = WithSpace(@, t)]
    /\ privileged' = [privileged EXCEPT ![t] = 1]
    /\ state' = [state EXCEPT ![t] = "IDLE"]
    /\ Goto(c, next)
    /\ UNCHANGED <<n_threads, event, count, thread_lock, scheduler_mutex,
                   current, regs, cr3, localVars, left>>

(***************************************************************************)
(* kernel_main: the heap watchdog, then start_elf_executable, which creates *)
(* the driver's thread, keeps its lock while it creates the kernel thread   *)
(* that serves its files, and releases it at the end.  It returns early     *)
(* when the executable cannot be read, and with the lock still held when    *)
(* its dynamic loader cannot.                                               *)
(***************************************************************************)
StartWatchdog(c) == pc[c] = "watchdog" /\ create_blocked_thread(c, 1, "watchdog_make")
MakeWatchdog(c) == pc[c] = "watchdog_make" /\ make_kernel_thread(c, "elf")
StartElf(c) == pc[c] = "elf" /\ create_blocked_thread(c, 0, "elf_lock")
ElfUnreadable(c) ==
    /\ pc[c] = "elf"
    /\ FALSE \in LoadResults
    /\ Goto(c, "init_cpu")
    /\ UNCHANGED <<threadVars, count, thread_lock, scheduler_mutex, current, regs,
                   cr3, localVars, left>>
StartVfs(c) == pc[c] = "vfs" /\ create_blocked_thread(c, 1, "vfs_make")
MakeVfs(c) == pc[c] = "vfs_make" /\ make_kernel_thread(c, "elf_done")

LockElf(c) ==
    LET t == subject[c] IN
    /\ pc[c] = "elf_lock"
    /\ thread_lock[t] = 0
    /\ thread_lock' = [thread_lock EXCEPT ![t] = 1]
    /\ cr3' = [cr3 EXCEPT ![c] = t]
    /\ context' = [context EXCEPT ![t] = WithSpace(@, t)]
    /\ built' = [built EXCEPT ![c] = t]
    /\ Goto(c, "vfs")
    /\ UNCHANGED <<n_threads, state, event, count, privileged, scheduler_mutex,
                   current, regs, scan, subject, ret, left>>

FinishElf(c, loaded) ==
    LET t == built[c] IN
    /\ pc[c] = "elf_done"
    /\ IF loaded
       THEN /\ cr3' = [cr3 EXCEPT ![c] = kernel_vmm]
            /\ state' = [state EXCEPT ![t] = "IDLE"]
            /\ thread_lock' = [thread_lock EXCEPT ![t] = 0]
       ELSE UNCHANGED <<cr3, state, thread_lock>>
    /\ Goto(c, "init_cpu")
    /\ UNCHANGED <<n_threads, event, count, privileged, context,
                   scheduler_mutex, current, regs, localVars, left>>

boot(c) ==
    \/ StartWatchdog(c) \/ MakeWatchdog(c)
    \/ StartElf(c) \/ ElfUnreadable(c) \/ LockElf(c) \/ StartVfs(c) \/ MakeVfs(c)
    \/ \E loaded \in LoadResults : FinishElf(c, loaded)

(***************************************************************************)
(* Entering the kernel.  The thread has executed since it was resumed: its  *)
(* position moved on.  A timer interrupt must find the registers again as   *)
(* it left them; a system call returns with its return value in rax.        *)
(***************************************************************************)
Enter(c, rax, expect) ==
    LET p == 1 - regs[c].pos IN
    /\ regs' = [regs EXCEPT ![c] = [pos |-> p, rax |-> rax]]
    /\ left' = [left EXCEPT ![current[c]] = [pos |-> p, rax |-> expect]]

Tick(c) ==
    /\ \/ pc[c] = "run" /\ Enter(c, "user", "user")
       \/ pc[c] = "idle" /\ UNCHANGED <<regs, left>>
    /\ ret' = [ret EXCEPT ![c] = "none"]
    /\ Goto(c, "t_lock")
    /\ UNCHANGED <<threadVars, count, thread_lock, scheduler_mutex, current,
                   cr3, scan, subject, built>>

\* Room in the bounded list for one more creation besides those under way.
CanCreate ==
    Cardinality({c \in CPUs : pc[c] \in {"f_lock", "f_create"}})
      < Cardinality({t \in Slots : t >= n_threads \/ state[t] = "DISABLED"})

FirstStep(op) == CASE op = "yield" -> "t_lock"
                   [] op = "block" -> "b_set"
                   [] op = "silent" -> "s_set"
                   [] op = "fork" -> "f_lock"
                   [] op = "kill" -> "k_lock"

\* syscall_handler up to the first lock of the call; all but yield begin with
\* get_current_thread, which waits for scheduler_mutex.  kill first loads the
\* kernel's address space.
Syscall(c, op) ==
    /\ pc[c] = "run"
    /\ current[c] # kernel_thread
    /\ privileged[current[c]] = 0
    /\ op # "yield" => scheduler_mutex = 0
    /\ op = "fork" => CanCreate
    /\ Enter(c, IF op \in {"block", "silent"} THEN "zero" ELSE "func",
                IF op = "fork" THEN "tid" ELSE "zero")
    /\ ret' = [ret EXCEPT ![c] = "zero"]
    /\ cr3' = IF op = "kill" THEN [cr3 EXCEPT ![c] = kernel_vmm] ELSE cr3
    /\ Goto(c, FirstStep(op))
    /\ UNCHANGED <<threadVars, count, thread_lock, scheduler_mutex, current,
                   scan, subject, built>>

(***************************************************************************)
(* event::trigger, by an IPC send of the running thread or by the handler   *)
(* of a device interrupt.                                                   *)
(***************************************************************************)
trigger(c, e) ==
    /\ pc[c] \in {"run", "idle"}
    /\ count[e] < MaxCount
    /\ count' = [count EXCEPT ![e] = @ + 1]
    /\ UNCHANGED <<threadVars, thread_lock, scheduler_mutex, current, pc, regs,
                   cr3, localVars, left>>

(***************************************************************************)
(* timer_handler.  schedule looks at the list entries one by one from the   *)
(* current thread (included) to the end, then from the head to the current  *)
(* thread; with no current thread, from the head to the end.                *)
(***************************************************************************)
ScanStartAtHead(c) == 0
ScanStart(c) == IF current[c] = nullptr THEN 0 ELSE current[c]
ScanNext(c) == IF scan[c] + 1 < n_threads THEN scan[c] + 1 ELSE 0

LockSchedulerRacy(c) ==
    /\ pc[c] = "t_lock"
    /\ scheduler_mutex' = 1
    /\ scan' = [scan EXCEPT ![c] = ScanStart(c)]
    /\ Goto(c, "t_scan")
    /\ UNCHANGED <<threadVars, count, thread_lock, current, regs, cr3, subject,
                   built, ret, left>>

LockScheduler(c) ==
    /\ pc[c] = "t_lock"
    /\ scheduler_mutex = 0
    /\ scheduler_mutex' = 1
    /\ scan' = [scan EXCEPT ![c] = ScanStart(c)]
    /\ Goto(c, "t_scan")
    /\ UNCHANGED <<threadVars, count, thread_lock, current, regs, cr3, subject,
                   built, ret, left>>

RunnableIdleOnly(t) == state[t] = "IDLE"
Runnable(t) == \/ state[t] = "IDLE"
               \/ state[t] = "BLOCKED" /\ count[event[t]] > 0

\* A BLOCKED thread is picked by consuming one trigger of its event.
ConsumedAlways(t) == [count EXCEPT ![event[t]] = @ - 1]
ConsumedNever(t) == count
Consumed(t) == IF state[t] = "BLOCKED" THEN [count EXCEPT ![event[t]] = @ - 1] ELSE count

PickThread(c) ==
    LET t == scan[c] IN
    /\ pc[c] = "t_scan"
    /\ thread_lock[t] = 0
    /\ Runnable(t)
    /\ count' = Consumed(t)
    /\ state' = [state EXCEPT ![t] = "IDLE"]
    /\ subject' = [subject EXCEPT ![c] = t]
    /\ Goto(c, "t_new")
    /\ UNCHANGED <<n_threads, event, privileged, context, thread_lock,
                   scheduler_mutex, current, regs, cr3, scan, built, ret, left>>

SkipThread(c) ==
    LET t == scan[c] IN
    /\ pc[c] = "t_scan"
    /\ thread_lock[t] = 0
    /\ ~Runnable(t)
    /\ scan' = [scan EXCEPT ![c] = ScanNext(c)]
    /\ Goto(c, IF ScanNext(c) = ScanStart(c) THEN "i_idle" ELSE "t_scan")
    /\ UNCHANGED <<threadVars, count, thread_lock, scheduler_mutex, current,
                   regs, cr3, subject, built, ret, left>>

LockNewTwice(c) ==
    LET new == subject[c] IN
    /\ pc[c] = "t_new"
    /\ thread_lock[new] = 0
    /\ thread_lock' = [thread_lock EXCEPT ![new] = 1]
    /\ Goto(c, IF current[c] = nullptr THEN "t_switch" ELSE "t_old")
    /\ UNCHANGED <<threadVars, count, scheduler_mutex, current, regs, cr3,
                   localVars, left>>

LockNew(c) ==
    LET new == subject[c] IN
    /\ pc[c] = "t_new"
    /\ thread_lock[new] = 0
    /\ thread_lock' = [thread_lock EXCEPT ![new] = 1]
    /\ Goto(c, IF current[c] \in {nullptr, new} THEN "t_switch" ELSE "t_old")
    /\ UNCHANGED <<threadVars, count, scheduler_mutex, current, regs, cr3,
                   localVars, left>>

LockOld(c) ==
    LET old == current[c] IN
    /\ pc[c] = "t_old"
    /\ thread_lock[old] = 0
    /\ thread_lock' = [thread_lock EXCEPT ![old] = 1]
    /\ Goto(c, "t_switch")
    /\ UNCHANGED <<threadVars, count, scheduler_mutex, current, regs, cr3,
                   localVars, left>>

save_context(c) == [pos |-> regs[c].pos, rax |-> regs[c].rax, cr3 |-> cr3[c]]

\* The contexts and states after the current thread, if any, is set aside.
NothingSaved(c) == context
SavedContexts(c) ==
    IF current[c] = nullptr THEN context
    ELSE [context EXCEPT ![current[c]] = save_context(c)]

NothingParked(c) == state
Parked(c) ==
    IF current[c] # nullptr /\ state[current[c]] = "RUNNING"
    THEN [state EXCEPT ![current[c]] = "IDLE"] ELSE state

\* switch_context, the state changes and the unlocks of timer_handler (220-233),
\* and the rax that syscall_handler then writes into the frame it returns to.
SwitchThread(c) ==
    LET old == current[c]
        new == subject[c]
        saved == SavedContexts(c)
    IN
    /\ pc[c] = "t_switch"
    /\ context' = saved
    /\ regs' = [regs EXCEPT ![c] =
                  [pos |-> saved[new].pos,
                   rax |-> IF ret[c] = "none" THEN saved[new].rax ELSE ret[c]]]
    /\ cr3' = IF old = nullptr \/ saved[old].cr3 # saved[new].cr3
              THEN [cr3 EXCEPT ![c] = new] ELSE cr3
    /\ state' = [Parked(c) EXCEPT ![new] = "RUNNING"]
    /\ thread_lock' = [t \in Slots |-> IF t \in {old, new} THEN 0 ELSE thread_lock[t]]
    /\ current' = [current EXCEPT ![c] = new]
    /\ scheduler_mutex' = 0
    /\ Goto(c, "run")
    /\ UNCHANGED <<n_threads, event, count, privileged, localVars, left>>

(***************************************************************************)
(* idle_cpu: park the current thread, release scheduler_mutex, halt.        *)
(***************************************************************************)
idle_cpu(c) ==
    LET old == current[c] IN
    /\ pc[c] \in {"i_idle", "k_idle"}
    /\ old # nullptr => thread_lock[old] = 0
    /\ context' = SavedContexts(c)
    /\ state' = Parked(c)
    /\ current' = [current EXCEPT ![c] = nullptr]
    /\ scheduler_mutex' = 0
    /\ cr3' = [cr3 EXCEPT ![c] = kernel_vmm]
    /\ regs' = [regs EXCEPT ![c] = FreshRegs]
    /\ Goto(c, "idle")
    /\ UNCHANGED <<n_threads, event, count, privileged, thread_lock, localVars, left>>

timer_handler(c) ==
    \/ LockScheduler(c) \/ PickThread(c) \/ SkipThread(c) \/ LockNew(c)
    \/ LockOld(c) \/ SwitchThread(c) \/ idle_cpu(c)

(***************************************************************************)
(* thread::block: record the event, BLOCKED, then timer_handler.            *)
(***************************************************************************)
block(c, e) ==
    LET t == current[c] IN
    /\ pc[c] = "b_set"
    /\ thread_lock[t] = 0
    /\ event' = [event EXCEPT ![t] = e]
    /\ state' = [state EXCEPT ![t] = "BLOCKED"]
    /\ Goto(c, "t_lock")
    /\ UNCHANGED <<n_threads, count, privileged, context, thread_lock,
                   scheduler_mutex, current, regs, cr3, localVars, left>>

\* set_state(SILENT): block_thread with blockForever; the call returns at once.
set_state(c) ==
    LET t == current[c] IN
    /\ pc[c] = "s_set"
    /\ thread_lock[t] = 0
    /\ state' = [state EXCEPT ![t] = "SILENT"]
    /\ Goto(c, "run")
    /\ UNCHANGED <<n_threads, event, count, privileged, context, thread_lock,
                   scheduler_mutex, current, regs, cr3, localVars, left>>

(***************************************************************************)
(* fork: with the parent locked a SILENT child is created, receives the     *)
(* parent's registers and an address space of its own, and is woken.        *)
(***************************************************************************)
ForkLock(c) ==
    LET parent == current[c] IN
    /\ pc[c] = "f_lock"
    /\ thread_lock[parent] = 0
    /\ thread_lock' = [thread_lock EXCEPT ![parent] = 1]
    /\ Goto(c, "f_create")
    /\ UNCHANGED <<threadVars, count, scheduler_mutex, current, regs, cr3,
                   localVars, left>>

ForkCreate(c) ==
    pc[c] = "f_create" /\ create_blocked_thread(c, privileged[current[c]], "f_copy")

ForkCopy(c) ==
    LET parent == current[c]
        child == subject[c]
    IN
    /\ pc[c] = "f_copy"
    /\ thread_lock[child] = 0
    /\ context' = [context EXCEPT ![parent] = save_context(c),
                                  ![child] = [pos |-> regs[c].pos, rax |-> "zero",
                                              cr3 |-> child]]
    /\ left' = [left EXCEPT ![child] = [pos |-> regs[c].pos, rax |-> "zero"]]
    /\ thread_lock' = [thread_lock EXCEPT ![parent] = 0]
    /\ Goto(c, "f_wake")
    /\ UNCHANGED <<n_threads, state, event, count, privileged, scheduler_mutex,
                   current, regs, cr3, localVars>>

\* child->wake(), and fork's return to user mode.
ForkWake(c) ==
    LET child == subject[c] IN
    /\ pc[c] = "f_wake"
    /\ thread_lock[child] = 0
    /\ state' = [state EXCEPT ![child] = "IDLE"]
    /\ regs' = [regs EXCEPT ![c] = [pos |-> @.pos, rax |-> "tid"]]
    /\ Goto(c, "run")
    /\ UNCHANGED <<n_threads, event, count, privileged, context, thread_lock,
                   scheduler_mutex, current, cr3, localVars, left>>

fork(c) == ForkLock(c) \/ ForkCreate(c) \/ ForkCopy(c) \/ ForkWake(c)

(***************************************************************************)
(* kill: the thread's entry becomes DISABLED and the CPU has no thread.     *)
(* scheduler_mutex is released here (395) and again by idle_cpu (191).      *)
(***************************************************************************)
KillLock(c) ==
    LET t == current[c] IN
    /\ pc[c] = "k_lock"
    /\ thread_lock[t] = 0
    /\ thread_lock' = [thread_lock EXCEPT ![t] = 1]
    /\ Goto(c, "k_kill")
    /\ UNCHANGED <<threadVars, count, scheduler_mutex, current, regs, cr3,
                   localVars, left>>

KillThread(c) ==
    LET t == current[c] IN
    /\ pc[c] = "k_kill"
    /\ scheduler_mutex = 0
    /\ state' = [state EXCEPT ![t] = "DISABLED"]
    /\ context' = [context EXCEPT ![t] = FreshContext]
    /\ privileged' = [privileged EXCEPT ![t] = 0]
    /\ thread_lock' = [thread_lock EXCEPT ![t] = 0]
    /\ current' = [current EXCEPT ![c] = nullptr]
    /\ Goto(c, "k_idle")
    /\ UNCHANGED <<n_threads, event, count, scheduler_mutex, regs, cr3,
                   localVars, left>>

kill(c) == KillLock(c) \/ KillThread(c)

(***************************************************************************)
(* A step a CPU takes inside the kernel, and the whole system.              *)
(***************************************************************************)
KernelStep(c) ==
    \/ boot(c) \/ init_cpu(c)
    \/ timer_handler(c)
    \/ \E e \in Events : block(c, e)
    \/ set_state(c)
    \/ fork(c)
    \/ kill(c)

CpuStep(c) ==
    \/ KernelStep(c)
    \/ Tick(c)
    \/ \E op \in Ops : Syscall(c, op)
    \/ \E e \in Events : trigger(c, e)

Next == \E c \in CPUs : CpuStep(c)

Spec == Init /\ [][Next]_vars

(***************************************************************************)
(* A CPU that can take a kernel step takes it: it executes instructions.    *)
(* The LAPIC timer is periodic (init_cpu, 255) and its interrupt stays      *)
(* pending while a handler runs, so a CPU that returns to user mode or to   *)
(* the idle loop again and again is interrupted (strong fairness).          *)
(***************************************************************************)
Fairness == \A c \in CPUs : WF_vars(KernelStep(c)) /\ SF_vars(Tick(c))
FairSpec == Spec /\ Fairness

(***************************************************************************)
(* Properties                                                               *)
(***************************************************************************)

\* Types of the thread table, the locks and the per-CPU state, and the bounds:
\* no index outside the list, no event counter below zero.
TypeOK ==
    /\ n_threads \in 1 .. MaxThreads
    /\ state \in [Slots -> ThreadStates]
    /\ event \in [Slots -> Events]
    /\ count \in [Events -> 0 .. MaxCount]
    /\ privileged \in [Slots -> {0, 1}]
    /\ context \in [Slots -> [pos : {0, 1}, rax : Rax, cr3 : Slots \cup {nullptr}]]
    /\ thread_lock \in [Slots -> {0, 1}]
    /\ scheduler_mutex \in {0, 1}
    /\ current \in [CPUs -> Slots \cup {nullptr}]
    /\ pc \in [CPUs -> PCs]
    /\ regs \in [CPUs -> [pos : {0, 1}, rax : Rax]]
    /\ cr3 \in [CPUs -> Slots \cup {kernel_vmm}]
    /\ scan \in [CPUs -> Slots]
    /\ subject \in [CPUs -> Slots \cup {nullptr}]
    /\ built \in [CPUs -> Slots \cup {nullptr}]
    /\ ret \in [CPUs -> {"none", "zero"}]
    /\ left \in [Slots -> [pos : {0, 1}, rax : Rax]]

\* A thread is the current thread of at most one CPU: timer_handler never gives
\* a thread to a second CPU while the first still executes it.
OneCpu ==
    \A c, d \in CPUs :
      current[c] = current[d] /\ current[c] \notin {nullptr, kernel_thread} => c = d

\* A thread marked RUNNING is some CPU's current thread.  check_thread never
\* picks a RUNNING thread, so one that no CPU owns would be lost for ever.
NoThreadLost ==
    \A t \in Slots : state[t] = "RUNNING" => \E c \in CPUs : current[c] = t

\* In user mode a CPU executes its current thread, at the position where that
\* thread last stopped and in that thread's address space, whichever path
\* (switch, idle, fork, slot reuse) its context took meanwhile.
ResumesWhereItStopped ==
    \A c \in CPUs : pc[c] = "run" /\ current[c] # kernel_thread =>
      /\ current[c] # nullptr
      /\ regs[c].pos = left[current[c]].pos
      /\ cr3[c] = current[c]

\* A thread that a timer interrupt stopped is "picked up at a later date"
\* (process.cpp:175) with the accumulator it was stopped with.
PreemptedKeepsRax ==
    \A c \in CPUs : pc[c] = "run" /\ current[c] \notin {nullptr, kernel_thread} =>
      (left[current[c]].rax = "user" => regs[c].rax = "user")

\* On a single CPU a handler finds every lock it asks for free.  It runs with
\* interrupts off, so a lock left held by an earlier handler, or taken twice by
\* this one (new_thread = old_thread in timer_handler), would hang the machine.
LocksWanted(c) ==
    CASE pc[c] \in {"t_scan"} -> {scan[c]}
      [] pc[c] \in {"watchdog_make", "elf_lock", "vfs_make", "t_new", "f_copy", "f_wake"}
           -> {subject[c]}
      [] pc[c] \in {"t_old", "i_idle", "b_set", "s_set", "f_lock", "k_lock"} -> {current[c]}
      [] OTHER -> {}
WantsScheduler(c) ==
    pc[c] \in {"watchdog", "elf", "vfs", "t_lock", "f_create", "k_kill"}
NeverSpins ==
    \A c \in CPUs :
      /\ \A t \in LocksWanted(c) \ {nullptr} : thread_lock[t] = 0
      /\ WantsScheduler(c) => scheduler_mutex = 0

\* Only a trigger ends a wait: a BLOCKED thread leaves that state by consuming
\* exactly one trigger of the event it waits for.
BlockedUntilTriggered ==
    [][\A t \in Slots : state[t] = "BLOCKED" /\ state'[t] # "BLOCKED" =>
         count[event[t]] > 0 /\ count' = [count EXCEPT ![event[t]] = @ - 1]]_vars

\* A runnable thread gets a CPU, provided threads stop being killed: after a
\* kill the scan starts again at the head of the list, and threads that fork
\* and die in low slots could keep a later one waiting.
KillStops == <>[][\A c \in CPUs : ~KillThread(c)]_vars
NoStarvation ==
    KillStops => \A t \in Slots : (state[t] = "IDLE") ~> (state[t] # "IDLE")

\* A wake-up is not lost: a thread blocked on a triggered event stops waiting,
\* or another waiter of the same event takes the trigger.
WakeupDelivered ==
    KillStops => \A t \in Slots, e \in Events :
      (state[t] = "BLOCKED" /\ event[t] = e /\ count[e] > 0)
        ~> (state[t] # "BLOCKED" \/ count[e] = 0)

\* The boot processor reaches enable_cpu_tasking, where it waits "for an APIC
\* timer IRQ to arrive for the first scheduling task" (kernel_main.cpp:56).
ReachesFirstTask == <>(pc[BSP] = "run")

==============================================================================
