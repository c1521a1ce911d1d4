-------------------------------- MODULE Pcid --------------------------------
(***************************************************************************)
(* Address spaces on the processors (src/kernel/source/arch/x86_64/        *)
(* paging.cpp, regions pcid_context and paging; the calls come from        *)
(* process.cpp).  A processor keeps n_pcids slots, each naming the context *)
(* last used under that process context identifier, and reloads CR3        *)
(* without invalidating when a context still has its slot.                 *)
(*                                                                         *)
(* A context is the vmm member of a thread, or the one of the kernel.  The *)
(* TLB holds, for each translation of a user page, the identifier it was   *)
(* loaded under and the life of the context it came from: kill leaves the  *)
(* thread entry and its vmm object to the next thread.                     *)
(***************************************************************************)
EXTENDS Integers, FiniteSets

CONSTANTS CPUs, Tids,
          n_pcids,      \* identifiers a processor uses
          Tables,       \* frames that hold top level tables
          MaxStamp,     \* bound on the context switches of a processor
          MaxLives      \* bound on the threads that use one entry of the list

ASSUME PcidAssumption ==
    /\ n_pcids \in Nat \ {0} /\ Tids \subseteq Nat \ {0}
    /\ IsFiniteSet(Tables) /\ Cardinality(Tables) > Cardinality(Tids)

VARIABLES features,   \* entry.features of each processor
          ctxs,       \* entry.pcid_context: slots, active_context, next_timestamp
          cr3, tlb,   \* of each processor
          cur,        \* managed_cpu::current_thread
          saved,      \* context.cr3 of each thread
          table,      \* paging_info of each context
          tstate,     \* state of each thread
          life        \* how many threads have used this entry

pcidVars == <<features, ctxs, cr3, tlb, cur, saved, table, tstate, life>>

Slots == 0 .. n_pcids - 1
Kernel == 0
None == -1
Contexts == Tids \union {Kernel}
NoTable == 0
\* kernel_thread: current on a processor before its first switch, never scheduled.
KernelThread == -2
NoCr3 == [table |-> NoTable, pcid |-> 0]

\* The constructor gives a slot its number only.  The stamps and pointers it leaves
\* are whatever was on the stack: no pointer to a context, and any stamp.
Garbage == {0, 2}
pcid_cpu_context(stamps) ==
    [slots |-> [i \in Slots |-> [ctx |-> None, stamp |-> stamps[i]]], active |-> 0, next |-> 0]

\* mov to CR3 (external).  Without PCID everything goes; with it, what was loaded
\* under the new identifier goes unless bit 63 is set.
Load(c, t, pcid, keep) ==
    /\ cr3' = [cr3 EXCEPT ![c] = [table |-> t, pcid |-> pcid]]
    /\ tlb' = [tlb EXCEPT ![c] =
                 IF "pcid" \notin features[c] THEN {}
                 ELSE IF keep THEN @ ELSE {e \in @ : e.pcid # pcid}]

Stamped(k, i, ctx) ==
    [k EXCEPT !.slots[i] = [ctx |-> ctx, stamp |-> k.next], !.next = @ + 1, !.active = i]

\* set_context(): the slot still names the context, its translations are kept.
Resume(c, i) ==
    /\ Load(c, table[ctxs[c].slots[i].ctx], i, TRUE)
    /\ ctxs' = [ctxs EXCEPT ![c] = Stamped(@, i, @.slots[i].ctx)]

Take_keep(c, i, ctx) ==
    /\ Load(c, table[ctx], i, TRUE)
    /\ ctxs' = [ctxs EXCEPT ![c] = Stamped(@, i, ctx)]

\* set_context(context): the slot is taken over.
Take(c, i, ctx) ==
    /\ Load(c, table[ctx], i, FALSE)
    /\ ctxs' = [ctxs EXCEPT ![c] = Stamped(@, i, ctx)]

\* The scan starts from slot 0 and moves to a strictly older one.
Oldest(k) ==
    CHOOSE i \in Slots : \A j \in Slots :
        k.slots[i].stamp < k.slots[j].stamp \/ (k.slots[i].stamp = k.slots[j].stamp /\ i <= j)

set_current_info(c, ctx) ==
    LET k == ctxs[c]
        naming == {i \in Slots : k.slots[i].ctx = ctx}
        first == CHOOSE i \in naming : \A j \in naming : i <= j IN
    IF "pcid" \notin features[c] THEN Take(c, 0, ctx)
    ELSE IF naming = {} THEN Take(c, Oldest(k), ctx)
    ELSE IF first = k.active THEN UNCHANGED <<ctxs, cr3, tlb>>
    ELSE Resume(c, first)

PcidInit ==
    /\ features = [c \in CPUs |-> {}]
    /\ ctxs \in [CPUs -> {pcid_cpu_context(s) : s \in [Slots -> Garbage]}]
    /\ cr3 = [c \in CPUs |-> NoCr3]
    /\ tlb = [c \in CPUs |-> {}]
    /\ cur = [c \in CPUs |-> KernelThread]
    /\ saved = [t \in Tids |-> NoCr3]
    /\ table = [x \in Contexts |-> NoTable]
    /\ tstate = [t \in Tids |-> "disabled"]
    /\ life = [t \in Tids |-> 0]

\* context::init: pmm::alloc_block picks the frame of the new table.
FreeTables == {f \in Tables : \A x \in Contexts : table[x] # f}

----------------------------------------------------------------------------
\* Where a processor may run the steps below: the kernel lets it schedule.
MayStamp(c) == ctxs[c].next < MaxStamp

\* create_blocked_thread and make_kernel_thread: the first entry that is not in
\* use, its vmm cloned from the kernel's (deinit, init), its CR3 without identifier.
make_kernel_thread(t) ==
    /\ tstate[t] = "disabled" /\ life[t] < MaxLives
    /\ \A u \in Tids : u < t => tstate[u] # "disabled"
    /\ \E f \in (FreeTables \union {table[t]}) \ {NoTable} :
           /\ table' = [table EXCEPT ![t] = f]
           /\ saved' = [saved EXCEPT ![t] = [table |-> f, pcid |-> 0]]
    /\ tstate' = [tstate EXCEPT ![t] = "idle"]
    /\ UNCHANGED <<features, ctxs, cr3, tlb, cur, life>>

\* save_context, as far as CR3 goes: the register with its identifier.
SaveCr3(c) == IF cur[c] \in Tids THEN [saved EXCEPT ![cur[c]] = cr3[c]] ELSE saved
Unloaded(c) == IF cur[c] \in Tids THEN [tstate EXCEPT ![cur[c]] = "idle"] ELSE tstate

\* timer_handler with a thread to run: switch_context changes the address space
\* unless the thread that leaves was saved with the same CR3.
switch_context(c, t) ==
    /\ tstate[t] = "idle" /\ MayStamp(c)
    /\ saved' = SaveCr3(c)
    /\ IF cur[c] \in Tids /\ saved'[cur[c]] = saved[t]
       THEN UNCHANGED <<ctxs, cr3, tlb>>
       ELSE set_current_info(c, t)
    /\ tstate' = [Unloaded(c) EXCEPT ![t] = "running"]
    /\ cur' = [cur EXCEPT ![c] = t]
    /\ UNCHANGED <<features, table, life>>

\* timer_handler with none: idle_cpu saves the thread and runs on the kernel's tables.
idle_cpu(c) ==
    /\ MayStamp(c)
    /\ \A t \in Tids : tstate[t] # "idle"
    /\ saved' = SaveCr3(c)
    /\ tstate' = Unloaded(c)
    /\ cur' = [cur EXCEPT ![c] = None]
    /\ set_current_info(c, Kernel)
    /\ UNCHANGED <<features, table, life>>

\* kill: the processor leaves the address space, whose tables go and come anew.
kill(c) ==
    LET t == cur[c] IN
    /\ t \in Tids /\ MayStamp(c)
    /\ set_current_info(c, Kernel)
    /\ \E f \in FreeTables \union {table[t]} : table' = [table EXCEPT ![t] = f]
    /\ saved' = [saved EXCEPT ![t] = NoCr3]
    /\ tstate' = [tstate EXCEPT ![t] = "disabled"]
    /\ life' = [life EXCEPT ![t] = @ + 1]
    /\ cur' = [cur EXCEPT ![c] = None]
    /\ UNCHANGED features

Lives(x) == IF x \in Tids THEN life[x] ELSE 0

\* The processor translates an address (external): the walk fills the TLB.
Touch(c) ==
    /\ \E x \in Contexts :
           /\ table[x] = cr3[c].table
           /\ tlb' = [tlb EXCEPT ![c] = @ \union {[pcid |-> cr3[c].pcid, ctx |-> x, life |-> Lives(x)]}]
    /\ UNCHANGED <<features, ctxs, cr3, cur, saved, table, tstate, life>>

----------------------------------------------------------------------------
Running(c) == IF cur[c] \in Tids THEN cur[c] ELSE Kernel

\* A processor that runs a thread translates its addresses by that thread's
\* tables, and the translations kept under its identifier were made for the
\* same entry of the thread list (set_current_info, switch_context, kill).
TlbOwn ==
    \A c \in CPUs : cr3[c] # NoCr3 =>
        /\ cr3[c].table = table[Running(c)]
        /\ \A e \in tlb[c] : e.pcid = cr3[c].pcid => e.ctx = Running(c)
=============================================================================
