------------------------------ MODULE MCKernel ------------------------------
(***************************************************************************)
(* The kernel from reset on: Smp boots the processors, then they switch    *)
(* address spaces (Pcid) or call the allocator (Heap).  A machine says     *)
(* what the kernel finds and which of the two it does after boot.          *)
(***************************************************************************)
EXTENDS Smp, Heap

CONSTANTS MaxBlocks,    \* bound on the blocks the heap is extended by
          MaxBrk        \* bound on the end of the heap

kernelVars == <<smpVars, pcidVars, heapVars>>

Modern == {"sse", "fxsave", "xsave", "avx", "pge", "pat", "smep", "smap", "umip", "x2apic"}
Old == {"sse", "fxsave", "pge", "pat"}
GoodHpet == [uids |-> <<1, 0>>, table |-> "memory", crs |-> "none", base |-> 1,
             vendor |-> 32902, clk |-> 69841279, rev |-> 1]
Plain == [cpuid |-> Old, args |-> {}, aps |-> << >>, absent |-> {}, stacks |-> 2,
          hpet |-> GoodHpet, tmeOn |-> FALSE, tmeAes |-> TRUE, work |-> "boot"]

\* Starting two or three processors: all there, one absent, no frames for the last.
Boots ==
    {[Plain EXCEPT !.aps = <<1, 2, 3>>, !.stacks = 3]} \union
    {[Plain EXCEPT !.aps = <<1, 2>>, !.absent = a, !.stacks = s] : a \in {{}, {1}}, s \in {1, 2}}
\* What a processor has and the command line, with one more processor.
Variants ==
    {[Plain EXCEPT !.aps = <<1>>, !.cpuid = f, !.args = a] :
        f \in {Old, Modern, Modern \union {"pcid", "invpcid", "tme"}, Old \ {"pat"}, Old \ {"fxsave"}},
        a \in {{}, {"nosmap", "nopcid", "nox2apic"}, {"nosmep", "noumip", "noinvpcid", "enable_tsd", "notme"}}}
\* High precision timers the kernel accepts or refuses.
Timers ==
    {[Plain EXCEPT !.hpet = h] : h \in
        {[GoodHpet EXCEPT !.uids = <<-1>>], [GoodHpet EXCEPT !.uids = <<1>>],
         [GoodHpet EXCEPT !.table = "none"], [GoodHpet EXCEPT !.table = "none", !.crs = "memory"],
         [GoodHpet EXCEPT !.table = "io"], [GoodHpet EXCEPT !.base = 0],
         [GoodHpet EXCEPT !.vendor = 65535], [GoodHpet EXCEPT !.clk = 0],
         [GoodHpet EXCEPT !.clk = 100000001], [GoodHpet EXCEPT !.rev = 0]}}
Switching ==
    {[Plain EXCEPT !.aps = <<1>>, !.cpuid = f, !.work = "switch"] :
        f \in {Modern, Modern \union {"pcid", "invpcid"}}}
Allocating == {[Plain EXCEPT !.cpuid = Modern, !.work = "heap"]}
MCMachines == Boots \union Variants \union Timers \union Switching \union Allocating

Does(w) == machine.work = w

\* What the slots hold before they are used only matters to processors that switch.
Init ==
    /\ SmpInit /\ HeapInit
    /\ \A c \in CPUs, i \in Slots : ctxs[c].slots[i].stamp # 0 =>
           Does("switch") /\ "pcid" \in machine.cpuid /\ c < 2

Boot(A) == A /\ UNCHANGED heapVars
Switch(A) == Does("switch") /\ A /\ UNCHANGED <<smpVars, heapVars>>
Allocate(A) == Does("heap") /\ Schedules(Bsp) /\ A /\ UNCHANGED <<smpVars, pcidVars>>

MayExtend == Len(list) < MaxBlocks /\ brk < MaxBrk

Next ==
    \/ Boot(KernelEarly)
    \/ Boot(KernelTables)
    \/ Boot(KernelSet)
    \/ KernelDevices /\ HeapStart
    \/ Boot(NoStack)
    \/ Boot(SendInit)
    \/ Boot(SendSipi)
    \/ Boot(SendSipiAgain)
    \/ Boot(Booted)
    \/ Boot(GiveUp)
    \/ Boot(KernelTasking)
    \/ \E c \in CPUs : Boot(ResetEnds(c))
    \/ \E c \in CPUs : Boot(TrampolineCode(c))
    \/ \E c \in CPUs : Boot(LoadStack(c))
    \/ \E c \in CPUs : Boot(SetBooted(c))
    \/ \E c \in CPUs : Boot(smp_kernel_main(c))
    \/ \E c \in CPUs : Boot(ApSet(c))
    \/ \E c \in CPUs : Boot(init_cpu(c))
    \/ \E t \in Tids : Switch(BspAt("tasking") /\ make_kernel_thread(t))
    \/ \E c \in CPUs, t \in Tids : Switch(Schedules(c) /\ switch_context(c, t))
    \/ \E c \in CPUs : Switch(Schedules(c) /\ idle_cpu(c))
    \/ \E c \in CPUs : Switch(Schedules(c) /\ kill(c))
    \/ \E c \in CPUs : Switch(Schedules(c) /\ Touch(c))
    \/ \E p \in Clients, size \in Sizes : Allocate(MayExtend /\ Alloc(p, "alloc", size, 16))
    \/ \E p \in Clients, size \in Sizes : Allocate(MayExtend /\ Alloc(p, "alloc_a", size, simd.align))
    \/ \E p \in Clients : \E g \in owned[p] : Allocate(Free(p, g))
    \/ \E p \in Clients : \E g \in owned[p], size \in Sizes : Allocate(MayExtend /\ Realloc(p, g, size))
    \/ \E p \in Clients : Allocate(Acquire(p))
    \/ \E p \in Clients : Allocate(Find(p))
    \/ \E p \in Clients : Allocate(Morecore(p))
    \/ \E p \in Clients : Allocate(Fill(p))
    \/ \E p \in Clients : Allocate(Link(p))
    \/ \E p \in Clients : Allocate(Mark(p))
    \/ \E p \in Clients : Allocate(Unlock(p))
    \/ Allocate(WatchdogWakes)
    \/ Allocate(check_for_corruption)

Spec == Init /\ [][Next]_kernelVars
=============================================================================
