--------------------------------- MODULE Smp ---------------------------------
(***************************************************************************)
(* From reset to the first thread: kernel_early.asm, kernel_main.cpp,      *)
(* smp.cpp and trampoline.S, with what they run on each processor          *)
(* (cpu.cpp, gdt.cpp, the local APIC of apic.cpp, hpet.cpp, simd.cpp).     *)
(* The boot processor starts the others one by one through a page of code, *)
(* a stack pointer and a flag they all share; each goes on by itself as    *)
(* soon as it has set the flag.                                            *)
(*                                                                         *)
(* A processor may be slow for longer than the boot processor waits, and   *)
(* may miss the first start-up message while it is still in reset.  What   *)
(* two processors on one stack do to each other is not followed.           *)
(***************************************************************************)
EXTENDS Pcid, Sequences, TLC

CONSTANT SmpMachines    \* the machines the kernel may be booted on

VARIABLES machine,
          bsp,          \* step of the boot processor, processors left to start
          trampoline,   \* trampoline_stack, trampoline_paging, trampoline_booted
          cpu,          \* each processor: step, stack, entry, control bits, XCR0, ...
          stacks,       \* runs of frames left for the stacks of processors
          entries,      \* entries made in cpu_list
          simd,         \* how proc::simd saves, once it is initialised
          gaveup        \* processors whose start was reported as failed

smpVars == <<machine, bsp, trampoline, cpu, stacks, entries, simd, gaveup>>

Bsp == 0
Has(f) == f \in machine.cpuid
Arg(a) == a \in machine.args
When(cond, s) == IF cond THEN s ELSE {}

----------------------------------------------------------------------------
\* kernel_early.asm: initialize_sse, _osxsave, _efer, _cr0 and _cr4.
early_control ==
    When(Has("sse"), {"osfxsr", "osxmmexcpt"}) \union When(Has("xsave"), {"osxsave"})
        \union {"sce", "nxe", "wp"} \union When(Has("pge"), {"pge"})

\* trampoline.S: what a processor has when it reaches 64 bit code.
trampoline_control == {"pge", "nxe"}

\* gdt::init and add_tss: the descriptors by index, and the selector of the TSS.
gdt_init == <<"null", "kernel code", "user code", "user data">>
Selectors == (0 :> "null") @@ (8 :> "kernel code") @@ (16 :> "user code") @@ (24 :> "user data")
add_tss(g) == [gdt |-> g \o <<"tss", "tss high">>, tr |-> Len(g) * 8]

\* lapic::init: the register interface, by what the processor has.
x2apic == Has("x2apic") /\ ~Arg("nox2apic")

\* misc_early_features_init.
feature_control ==
    When(Arg("enable_tsd"), {"tsd"})
        \union When(Has("smep") /\ ~Arg("nosmep"), {"smep"})
        \union When(Has("smap") /\ ~Arg("nosmap"), {"smap"})
        \union When(Has("umip") /\ ~Arg("noumip"), {"umip"})
        \union {"pat"}
        \union When(Has("pcid") /\ ~Arg("nopcid"), {"pcide"})
features_found ==
    When(Has("smap") /\ ~Arg("nosmap"), {"smap"})
        \union When(Has("pcid") /\ ~Arg("nopcid"),
                    {"pcid"} \union When(Has("invpcid") /\ ~Arg("noinvpcid"), {"invpcid"}))
xcr0_found ==
    When(Has("xsave"), {"fpu"} \union When(Has("sse"), {"sse"}) \union When(Has("avx"), {"avx"}))
\* pat::init gives up where there is no PAT.
FeaturesPanic == ~Has("pat")

\* tme::init: the boot processor turns memory encryption on, if firmware has not.
tme_control == When(~Arg("notme") /\ Has("tme") /\ ~machine.tmeOn /\ machine.tmeAes, {"tme"})

\* proc::simd::init: the mechanism and the alignment its areas need.
simd_init ==
    CASE Has("xsave") -> [how |-> "xsave", align |-> 64]
      [] ~Has("xsave") /\ Has("fxsave") -> [how |-> "fxsave", align |-> 16]
      [] OTHER -> [how |-> "panic", align |-> 0]

\* hpet::init_hpet: the first AML device whose _UID is 0 or absent; its base from
\* the table, or from _CRS; a block that answers as one that exists.
HpetPanics ==
    LET h == machine.hpet
        device == \E i \in DOMAIN h.uids : h.uids[i] \in {0, -1} IN
    \/ ~device
    \/ h.table = "none" /\ h.crs # "memory"
    \/ h.table = "io"
    \/ h.base = 0
    \/ h.vendor = 65535
    \/ ~(h.clk <= 100000000) \/ h.clk = 0
    \/ h.rev = 0

\* tss::init: seven interrupt stacks, here named by the processor's entry; the stack
\* for entries from user mode comes with enable_cpu_tasking.
ist_n_entries == 7
tss_init(e) == [ist |-> [i \in 1 .. ist_n_entries |-> <<e, i>>], rsp0 |-> 0]

\* lapic::enable_timer: the local timer's entry, masked while it is calibrated.
cpu_quantum_interrupt_vector == 248
NoTimer == [vector |-> 0, mode |-> "one shot", masked |-> TRUE]
enable_timer(vector, mode) == [vector |-> vector, mode |-> mode, masked |-> FALSE]

----------------------------------------------------------------------------
NoCpu == [step |-> "off", stack |-> 0, entry |-> 0, control |-> {}, xcr0 |-> {},
          gdt |-> << >>, tr |-> 0, tss |-> [ist |-> << >>, rsp0 |-> 0], timer |-> NoTimer]
\* The boot processor's stack is part of the kernel image.
BspCpu == [NoCpu EXCEPT !.step = "boot", !.stack = -1]

SmpInit ==
    /\ PcidInit
    /\ machine \in SmpMachines
    /\ bsp = [step |-> "early", left |-> << >>]
    /\ trampoline = [stack |-> 0, paging |-> NoTable, booted |-> FALSE]
    /\ cpu = [c \in CPUs |-> IF c = Bsp THEN BspCpu ELSE NoCpu]
    /\ stacks = machine.stacks
    /\ entries = 0
    /\ simd = [how |-> "none", align |-> 0]
    /\ gaveup = {}

Leaves == <<cur, saved, tstate, life>>
BspGoes(s) == bsp' = [bsp EXCEPT !.step = s]
BspAt(s) == bsp.step = s

\* cpu_list.empty_entry: the first entry is static, the others come from the heap
\* one by one, so that each caller has its own whatever becomes of the list.
empty_entry == entries' = entries + 1

\* The entry of a processor: set_gs, gdt.init, tss.init, add_tss, tss.load.
WithEntry(k) ==
    [k EXCEPT !.entry = entries + 1, !.tss = tss_init(entries + 1),
              !.gdt = add_tss(gdt_init).gdt, !.tr = add_tss(gdt_init).tr]

\* _kernel_early, and kernel_main to line 86.
KernelEarly ==
    /\ BspAt("early")
    /\ cpu' = [cpu EXCEPT ![Bsp] =
                 [WithEntry(@) EXCEPT !.control = early_control \union feature_control, !.xcr0 = xcr0_found]]
    /\ empty_entry
    /\ features' = [features EXCEPT ![Bsp] = features_found]
    /\ BspGoes(IF FeaturesPanic THEN "panic" ELSE "memory")
    /\ UNCHANGED <<machine, trampoline, stacks, simd, gaveup, ctxs, cr3, tlb, table>> /\ UNCHANGED Leaves

\* The kernel's own tables are built, then used.
KernelTables ==
    /\ BspAt("memory")
    /\ \E f \in FreeTables : table' = [table EXCEPT ![Kernel] = f]
    /\ BspGoes("set")
    /\ UNCHANGED <<machine, trampoline, cpu, stacks, entries, simd, gaveup, features, ctxs, cr3, tlb>> /\ UNCHANGED Leaves

KernelSet ==
    /\ BspAt("set")
    /\ set_current_info(Bsp, Kernel)
    /\ BspGoes("devices")
    /\ UNCHANGED <<machine, trampoline, cpu, stacks, entries, simd, gaveup, features, table>> /\ UNCHANGED Leaves

\* Stacks, tables of the firmware, local APIC, HPET, init_multitasking.
KernelDevices ==
    /\ BspAt("devices")
    /\ features' = [features EXCEPT ![Bsp] = @ \union When(x2apic, {"x2apic"})]
    /\ simd' = simd_init
    /\ bsp' = IF HpetPanics \/ simd'.how = "panic"
              THEN [bsp EXCEPT !.step = "panic"]
              ELSE [step |-> "boot_aps", left |-> machine.aps]
    /\ UNCHANGED <<machine, trampoline, cpu, stacks, entries, gaveup, ctxs, cr3, tlb, table>> /\ UNCHANGED Leaves

----------------------------------------------------------------------------
\* boot_cpu, from the stack to the start-up message.
Target == Head(bsp.left)
SmpOnly == UNCHANGED <<machine, features, ctxs, cr3, tlb, table, entries, simd>> /\ UNCHANGED Leaves
Done == [step |-> "boot_aps", left |-> Tail(bsp.left)]

\* alloc_n_blocks finds nothing: this processor is left alone.
NoStack ==
    /\ BspAt("boot_aps") /\ bsp.left # << >> /\ stacks = 0
    /\ bsp' = Done
    /\ SmpOnly /\ UNCHANGED <<trampoline, cpu, stacks, gaveup>>

\* The stack is published and INIT sent: the processor is in reset for a while.
SendInit ==
    /\ BspAt("boot_aps") /\ bsp.left # << >> /\ stacks > 0
    /\ stacks' = stacks - 1
    /\ trampoline' = [trampoline EXCEPT !.stack = stacks, !.paging = table[Kernel]]
    /\ cpu' = [cpu EXCEPT ![Target] = [NoCpu EXCEPT !.step = "reset"]]
    /\ BspGoes("sipi")
    /\ SmpOnly /\ UNCHANGED gaveup

\* A start-up message counts only where one is awaited.
Started(k) == IF k.step = "wait_sipi" THEN [k EXCEPT !.step = "real"] ELSE k

\* lapic::send_ipi_raw with a start-up message.
send_sipi == cpu' = [cpu EXCEPT ![Target] = Started(@)]

SendSipi ==
    /\ BspAt("sipi")
    /\ send_sipi
    /\ BspGoes("wait_for_boot")
    /\ SmpOnly /\ UNCHANGED <<trampoline, stacks, gaveup>>

\* boot_apic's wait runs out: the message is sent again.
SendSipiAgain ==
    /\ BspAt("wait_for_boot") /\ ~trampoline.booted
    /\ send_sipi
    /\ BspGoes("wait_again")
    /\ SmpOnly /\ UNCHANGED <<trampoline, stacks, gaveup>>

clear_booted_flag == trampoline' = [trampoline EXCEPT !.booted = FALSE]

\* A wait that finds the flag set; boot_cpu waits once more and finds it again.
Booted ==
    /\ bsp.step \in {"wait_for_boot", "wait_again"} /\ trampoline.booted
    /\ clear_booted_flag
    /\ bsp' = Done
    /\ SmpOnly /\ UNCHANGED <<cpu, stacks, gaveup>>

\* boot_cpu's wait runs out too.
GiveUp ==
    /\ BspAt("wait_again") /\ ~trampoline.booted
    /\ gaveup' = gaveup \union {Target}
    /\ clear_booted_flag
    /\ bsp' = Done
    /\ SmpOnly /\ UNCHANGED <<cpu, stacks>>

\* boot_aps is through: late features, the first threads, enable_cpu_tasking.
KernelTasking ==
    /\ BspAt("boot_aps") /\ bsp.left = << >>
    /\ cpu' = [cpu EXCEPT ![Bsp] = [@ EXCEPT !.control = @ \union tme_control, !.step = "tasking"]]
    /\ BspGoes("tasking")
    /\ UNCHANGED <<machine, trampoline, stacks, entries, simd, gaveup, features, ctxs, cr3, tlb, table>> /\ UNCHANGED Leaves

----------------------------------------------------------------------------
ApAt(c, s) == c # Bsp /\ cpu[c].step = s
ApGoes(c, s) == cpu' = [cpu EXCEPT ![c].step = s]
ApOnly == UNCHANGED <<machine, bsp, stacks, simd, gaveup>> /\ UNCHANGED Leaves

\* Reset ends (external).  A processor that is listed but absent never gets here.
ResetEnds(c) ==
    /\ ApAt(c, "reset") /\ c \notin machine.absent
    /\ ApGoes(c, "wait_sipi")
    /\ ApOnly /\ UNCHANGED <<trampoline, entries, features, ctxs, cr3, tlb, table>>

TrampolineCode_flag(c) ==
    /\ ApAt(c, "real")
    /\ cpu' = [cpu EXCEPT ![c].step = "long", ![c].control = trampoline_control]
    /\ trampoline' = [trampoline EXCEPT !.booted = TRUE]
    /\ ApOnly /\ UNCHANGED <<entries, features, ctxs, cr3, tlb, table>>

\* trampoline.S: real mode, protected mode, long mode on tables of its own.
TrampolineCode(c) ==
    /\ ApAt(c, "real")
    /\ cpu' = [cpu EXCEPT ![c].step = "long", ![c].control = trampoline_control]
    /\ ApOnly /\ UNCHANGED <<trampoline, entries, features, ctxs, cr3, tlb, table>>

\* _smp_kernel_early: tables and stack, then the flag.
LoadStack(c) ==
    /\ ApAt(c, "long")
    /\ Load(c, trampoline.paging, 0, FALSE)
    /\ cpu' = [cpu EXCEPT ![c].step = "flag", ![c].stack = trampoline.stack]
    /\ ApOnly /\ UNCHANGED <<trampoline, entries, features, ctxs, table>>

SetBooted(c) ==
    /\ ApAt(c, "flag")
    /\ trampoline' = [trampoline EXCEPT !.booted = TRUE]
    /\ cpu' = [cpu EXCEPT ![c].step = "main", ![c].control = @ \union early_control]
    /\ ApOnly /\ UNCHANGED <<entries, features, ctxs, cr3, tlb, table>>

\* smp_kernel_main to line 222.
smp_kernel_main(c) ==
    /\ ApAt(c, "main")
    /\ cpu' = [cpu EXCEPT ![c] =
                 [WithEntry(@) EXCEPT !.control = @ \union feature_control, !.xcr0 = xcr0_found,
                                      !.step = IF FeaturesPanic THEN "panic" ELSE "set"]]
    /\ empty_entry
    /\ features' = [features EXCEPT ![c] = When(x2apic, {"x2apic"}) \union features_found]
    /\ ApOnly /\ UNCHANGED <<trampoline, ctxs, cr3, tlb, table>>

ApSet(c) ==
    /\ ApAt(c, "set")
    /\ set_current_info(c, Kernel)
    /\ ApGoes(c, "tasking")
    /\ ApOnly /\ UNCHANGED <<trampoline, entries, features, table>>

\* enable_cpu_tasking, init_cpu: the stack for interrupts from user mode is that of
\* the entry, and the timer of this processor is started.
init_cpu(c) ==
    /\ cpu[c].step = "tasking"
    /\ cpu' = [cpu EXCEPT ![c].step = "run", ![c].tss.rsp0 = cpu[c].entry,
                          ![c].timer = enable_timer(cpu_quantum_interrupt_vector, "periodic")]
    /\ ApOnly /\ UNCHANGED <<trampoline, entries, features, ctxs, cr3, tlb, table>>

----------------------------------------------------------------------------
Schedules(c) == cpu[c].step = "run"
Late == {c \in gaveup : cpu[c].stack # 0}

\* Every processor that schedules threads has an entry of its own, the control
\* bits, features and XCR0 of the boot processor, which a thread that moves needs,
\* selectors that name the descriptors gdt.h says, and the means to save SIMD
\* state; and a stack of its own, as long as none came up after its start was
\* reported as failed (boot_cpu, _smp_kernel_early, smp_kernel_main, simd::init).
CpusPrepared ==
    \A c \in CPUs : Schedules(c) =>
        /\ cpu[c].control \ {"tme"} = cpu[Bsp].control \ {"tme"}
        /\ features[c] = features[Bsp] /\ cpu[c].xcr0 = cpu[Bsp].xcr0
        /\ simd.how = "xsave" => "osxsave" \in cpu[c].control
        /\ \A sel \in DOMAIN Selectors : cpu[c].gdt[sel \div 8 + 1] = Selectors[sel]
        /\ cpu[c].gdt[cpu[c].tr \div 8 + 1] = "tss"
        /\ cpu[c].tss.rsp0 # 0 /\ ~ cpu[c].timer.masked
        /\ \A d \in CPUs \ {c} : cpu[d].entry # cpu[c].entry
        /\ Late = {} => \A d \in CPUs \ {c} : cpu[d].stack # cpu[c].stack
=============================================================================
