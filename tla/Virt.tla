--------------------------------- MODULE Virt ---------------------------------
(***************************************************************************)
(* Virtual machines: the vctl system call of virt.cpp and its SVM back end,  *)
(* svm.cpp and svm_low.asm.                                                 *)
(*                                                                         *)
(* Of the machine, this module reads svm: the processor is an AMD one with   *)
(* SVM and nested paging, not disabled by the firmware.                      *)
(***************************************************************************)
EXTENDS Iommu

CONSTANT GuestPages     \* guest physical pages

VARIABLES vspaces,      \* [type, npt]: npt maps guest pages to host frames
          vcpus,        \* [type, space, regs, simd, host]: the images of the guest's registers,
                        \* and the host's bases and SIMD state, kept while it runs
          regs,         \* CPU -> whose values its registers hold, 0 the host's
          vctl_lock     \* the mutex of vctl is held

vmVars == <<vspaces, vcpus, regs, vctl_lock>>

HostRegs == [gif |-> TRUE, base |-> 0, simd |-> 0, tss |-> "available", pat |-> 0]

\* svm::init sets the feature of the processor.
svm_init(m) == m.svm
get_type == IF svm_init(machine) THEN "Svm" ELSE "None"

\* virt.cpp: every operation does nothing for an object of type None.
vspace_ctor == [type |-> get_type, npt |-> << >>]

vspace_map(s, g, p) == IF s.type = "None" THEN s ELSE [s EXCEPT !.npt = (g :> p) @@ @]

vcpu_ctor(k, space) ==
    [type |-> get_type, space |-> space, regs |-> "reset", simd |-> k,
     host |-> [base |-> 0, simd |-> 0]]

\* svm::vcpu's assertion on the type of its space; it holds, the type is the machine's.
VcpuAsserts(space) == get_type = "Svm" /\ vspaces[space].type # "Svm"

set_regs(v) == IF v.type = "None" THEN v ELSE [v EXCEPT !.regs = "set"]

VirtInit ==
    /\ vspaces = << >> /\ vcpus = << >>
    /\ regs = [c \in CPUs |-> HostRegs]
    /\ vctl_lock = FALSE

-----------------------------------------------------------------------------
VctlCommands == {"vcreate_vspace", "vcreate_vcpu", "vmap", "vmap_phys", "vset_regs", "vget_regs", "vrun"}

EnterVctl(c, cmd, arg) ==
    /\ Syscall(c) /\ ~ vctl_lock
    /\ vctl_lock' = TRUE
    /\ call' = [call EXCEPT ![c] = [at |-> "body", cmd |-> cmd, arg |-> arg, vec |-> 0]]
    /\ cpu' = [cpu EXCEPT ![c] = "kernel"]
    /\ UNCHANGED <<machine, bootPc, acpi_tables, madt, handlers, redir, irr, pciVars, devctl_lock,
                   current, threads, catalogue, irqs, driver, starts, vtVars, vspaces, vcpus, regs>>

TypeWanted(cmd) == IF cmd \in {"vcreate_vcpu", "vmap", "vmap_phys"} THEN "vspace" ELSE "vcpu"
Object(c) == get(current[c], call[c].arg, TypeWanted(call[c].cmd))

\* The call is over: the guard releases the mutex.
Return(c) ==
    /\ vctl_lock' = FALSE
    /\ call' = [call EXCEPT ![c] = NoCall]
    /\ cpu' = [cpu EXCEPT ![c] = "user"]

\* No such handle: the null object is followed.  A handle of another type: the assertion.
VctlFails(c) ==
    /\ cpu[c] = "kernel" /\ call[c].at = "body" /\ call[c].cmd \in VctlCommands \ {"vcreate_vspace"}
    /\ Object(c) <= 0
    /\ Stop(c, IF Object(c) = 0 THEN "halt" ELSE "panic")
    /\ UNCHANGED <<machine, bootPc, acpi_tables, madt, handlers, redir, irr, pciVars, dvVars,
                   vtVars, vmVars>>

CreateVspace(c) ==
    /\ InBody(c, "vcreate_vspace")
    /\ vspaces' = Append(vspaces, vspace_ctor)
    /\ catalogue' = push(current[c], [type |-> "vspace", ref |-> Len(vspaces) + 1])
    /\ Return(c)
    /\ UNCHANGED <<machine, bootPc, acpi_tables, madt, handlers, redir, irr, pciVars, devctl_lock,
                   current, threads, irqs, driver, starts, vtVars, vcpus, regs>>

CreateVcpu(c) ==
    /\ InBody(c, "vcreate_vcpu") /\ Object(c) > 0 /\ ~ VcpuAsserts(Object(c))
    /\ vcpus' = Append(vcpus, vcpu_ctor(Len(vcpus) + 1, Object(c)))
    /\ catalogue' = push(current[c], [type |-> "vcpu", ref |-> Len(vcpus) + 1])
    /\ Return(c)
    /\ UNCHANGED <<machine, bootPc, acpi_tables, madt, handlers, redir, irr, pciVars, devctl_lock,
                   current, threads, irqs, driver, starts, vtVars, vspaces, regs>>

\* get_phys answers -1 for an address the thread has not mapped, and it is mapped so.
Unmapped == -1

MapVspace(c) ==
    /\ InBody(c, "vmap") /\ Object(c) > 0
    /\ \E g \in GuestPages, p \in {q \in Frames : frames[q] = current[c]} \cup {Unmapped} :
           vspaces' = [vspaces EXCEPT ![Object(c)] = vspace_map(@, g, p)]
    /\ Return(c)
    /\ UNCHANGED <<machine, bootPc, acpi_tables, madt, handlers, redir, irr, pciVars, devctl_lock,
                   current, threads, catalogue, irqs, driver, starts, vtVars, vcpus, regs>>

\* Any frame the caller names.
MapVspacePhys(c) ==
    /\ InBody(c, "vmap_phys") /\ Object(c) > 0
    /\ \E g \in GuestPages, p \in Frames :
           vspaces' = [vspaces EXCEPT ![Object(c)] = vspace_map(@, g, p)]
    /\ Return(c)
    /\ UNCHANGED <<machine, bootPc, acpi_tables, madt, handlers, redir, irr, pciVars, devctl_lock,
                   current, threads, catalogue, irqs, driver, starts, vtVars, vcpus, regs>>

\* GetRegs and SetRegs.
AccessRegs(c) ==
    /\ InBody(c, "vset_regs") \/ InBody(c, "vget_regs")
    /\ Object(c) > 0
    /\ vcpus' = IF call[c].cmd = "vset_regs" THEN [vcpus EXCEPT ![Object(c)] = set_regs(@)] ELSE vcpus
    /\ Return(c)
    /\ UNCHANGED <<machine, bootPc, acpi_tables, madt, handlers, redir, irr, pciVars, devctl_lock,
                   current, threads, catalogue, irqs, driver, starts, vtVars, vspaces, regs>>

-----------------------------------------------------------------------------
(* vcpu::run.                                                               *)

RunNone(c) ==
    /\ InBody(c, "vrun") /\ Object(c) > 0 /\ vcpus[Object(c)].type = "None"
    /\ Return(c)
    /\ UNCHANGED <<machine, bootPc, acpi_tables, madt, handlers, redir, irr, pciVars, devctl_lock,
                   current, threads, catalogue, irqs, driver, starts, vtVars, vspaces, vcpus, regs>>

RunFrame == <<inVars, pciVars, devctl_lock, current, threads, catalogue, irqs, driver, starts,
              vtVars, vspaces, vctl_lock>>

\* clgi, the host's bases and SIMD state are kept, the guest's SIMD state is loaded.
SaveHost(c) ==
    /\ InBody(c, "vrun") /\ Object(c) > 0 /\ vcpus[Object(c)].type = "Svm"
    /\ Goto(c, "vmrun")
    /\ vcpus' = [vcpus EXCEPT ![Object(c)].host = [base |-> regs[c].base, simd |-> regs[c].simd]]
    /\ regs' = [regs EXCEPT ![c].gif = FALSE, ![c].simd = vcpus[Object(c)].simd]
    /\ UNCHANGED RunFrame

\* _vmrun: the guest's registers replace the host's until the exit, when the guest's are
\* stored and the host's come back from the stack.  vmload left the guest's bases, and
\* the task register and the PAT are the guest's.
Vmrun(c) ==
    /\ call[c].at = "vmrun"
    /\ Goto(c, "exit")
    /\ regs' = [regs EXCEPT ![c].base = Object(c), ![c].tss = "busy", ![c].pat = Object(c)]
    /\ UNCHANGED vcpus
    /\ UNCHANGED RunFrame

\* Mutant: the guest's state is saved after the host's has been restored.
GuestSimd_late(c) == vcpus[Object(c)].host.simd

\* What guest_simd.save stores and host_simd.restore loads.
HostSimd(c) == vcpus[Object(c)].host.simd
GuestSimd(c) == regs[c].simd

\* The SIMD states change places, the bases, the TSS and the PAT are the host's again, stgi.
RestoreHost(c) ==
    /\ call[c].at = "exit"
    /\ Goto(c, "vmexit")
    /\ vcpus' = [vcpus EXCEPT ![Object(c)].simd = GuestSimd(c)]
    /\ regs' = [regs EXCEPT ![c] = [gif |-> TRUE, base |-> vcpus[Object(c)].host.base,
                                    simd |-> HostSimd(c), tss |-> "available", pat |-> 0]]
    /\ UNCHANGED RunFrame

\* What a guest can do that the intercepts of the VMCB stop.
GuestExits(c) ==
    {"exception", "rdtsc", "hlt", "vmmcall", "invalid64", "cpuid"}
    \cup (IF GuestPages \subseteq DOMAIN vspaces[vcpus[Object(c)].space].npt THEN {} ELSE {"npf"})

\* The switch on the exit code: the reason reported, or "halt".  Port accesses are
\* decoded, but not intercepted; the label for an invalid VMCB has 32 bits, the code 64.
ExitReason(e) ==
    CASE e = "exception" -> "Interrupt"
      [] e = "rdtsc" -> "Rdtsc"
      [] e = "hlt" -> "Hlt"
      [] e = "io" -> "Port"
      [] e = "vmmcall" -> "Hypercall"
      [] e = "invalid32" -> "InvalidInternalState"
      [] OTHER -> "halt"

HandleExit(c) ==
    /\ call[c].at = "vmexit"
    /\ \E e \in GuestExits(c) :
        IF ExitReason(e) = "halt"
        THEN Stop(c, "halt") /\ UNCHANGED <<call, vctl_lock>>
        ELSE Return(c)
    /\ UNCHANGED <<machine, bootPc, acpi_tables, madt, handlers, redir, irr, pciVars, devctl_lock,
                   current, threads, catalogue, irqs, driver, starts, vtVars, vspaces, vcpus, regs>>

(***************************************************************************)
(* A guest leaves no trace: whenever a thread runs, the registers of its     *)
(* processor are the host's and the global interrupt flag is set; and the    *)
(* image kept of a guest that is not running is that guest's own.            *)
(***************************************************************************)
GuestLeavesNoTrace ==
    /\ \A c \in CPUs : cpu[c] = "user" => regs[c] = HostRegs
    /\ \A k \in DOMAIN vcpus :
         (\A c \in CPUs : call[c].at \notin {"vmrun", "exit"}) => vcpus[k].simd = k
=============================================================================
