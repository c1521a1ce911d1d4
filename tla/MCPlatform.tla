------------------------------ MODULE MCPlatform ------------------------------
(***************************************************************************)
(* The machine seen from the kernel: firmware tables, interrupt controllers, *)
(* PCI, the devctl and vctl system calls, the IOMMU and virtual machines,    *)
(* from the boot on each of a few machines to drivers at work.               *)
(***************************************************************************)
EXTENDS Virt

vars == <<inVars, pciVars, dvVars, vtVars, vmVars>>

-----------------------------------------------------------------------------
(* The machines.                                                            *)

Dev(class, pin, msi) ==
    [vendor |-> 1, class |-> class, pin |-> pin, header |-> 0, multi |-> FALSE, secondary |-> 0,
     bars |-> <<"mem", "io", "mem64", "upper">>, msi |-> msi, agp |-> {}, node |-> FALSE]
Bridge(pin, secondary, node) ==
    [Dev("bridge", pin, FALSE) EXCEPT !.header = 1, !.secondary = secondary, !.node = node]
Row(slot, pin, gsi) == [slot |-> slot, fn |-> -1, pin |-> pin - 1, gsi |-> gsi]
Item(type, a, b, c) == [type |-> type, a |-> a, b |-> b, c |-> c]
Tables(sigs) == [i \in DOMAIN sigs |-> [sig |-> sigs[i], ok |-> TRUE]]

\* A desktop with PICs and no PCI Express: a bridge without a _PRT, a function behind it,
\* a display function with AGP, and a multi-function device with a gap.
Desktop ==
    [name |-> "Desktop", rsdp |-> TRUE, rootOk |-> TRUE,
     tables |-> Tables(<<"FACP", "APIC", "HPET">>), legacy |-> TRUE,
     madt |-> <<Item("lapic", 0, 1, 0), Item("lapic", 1, 0, 0), Item("ioapic", 100, 0, 0),
                Item("iso", 0, 2, 0), Item("iso", 9, 9, 15), Item("other", 0, 0, 0)>>,
     redirs |-> (100 :> 24), sci |-> 9, msiAllowed |-> TRUE, mcfg |-> << >>,
     functions |-> (<<0, 0, 0, 0>> :> [Dev("host", 0, FALSE) EXCEPT !.agp = {1, 2, 9}])
                @@ (<<0, 0, 2, 0>> :> Bridge(1, 1, TRUE))
                @@ (<<0, 0, 3, 0>> :> [Dev("disk", 1, TRUE) EXCEPT !.multi = TRUE])
                @@ (<<0, 0, 3, 2>> :> Dev("disk", 3, FALSE))
                @@ (<<0, 1, 5, 0>> :> Dev("net", 2, TRUE)),
     roots |-> <<[seg |-> 0, bbn |-> 0]>>,
     prt |-> (<<0, 0>> :> <<Row(2, 1, 16), Row(2, 3, 18), Row(3, 1, 17), Row(3, 3, 19)>>),
     dmar |-> << >>, behind |-> << >>, svm |-> TRUE]

\* A server: two segments through an MCFG, a bridge with a _PRT below one without, an
\* IOMMU for each segment, two I/O APICs, no PICs.
Server ==
    [Desktop EXCEPT !.name = "Server",
        !.tables = Tables(<<"FACP", "APIC", "MCFG", "DMAR">>), !.legacy = FALSE,
        !.madt = <<Item("x2apic", 0, 1, 0), Item("x2apic", 1, 2, 0), Item("ioapic", 100, 0, 0),
                   Item("ioapic", 101, 24, 0)>>,
        !.redirs = (100 :> 24) @@ (101 :> 8), !.sci = 25,
        !.mcfg = <<[seg |-> 0, first |-> 0, last |-> 3], [seg |-> 1, first |-> 0, last |-> 1]>>,
        !.functions = (<<0, 0, 0, 0>> :> [Dev("host", 0, FALSE) EXCEPT !.agp = {0, 3}])
                   @@ (<<0, 0, 1, 0>> :> Bridge(1, 1, TRUE)) @@ (<<0, 1, 6, 0>> :> Bridge(2, 2, TRUE))
                   @@ (<<0, 2, 3, 0>> :> Dev("disk", 4, TRUE)) @@ (<<0, 2, 7, 0>> :> Bridge(1, 3, FALSE))
                   @@ (<<0, 3, 9, 0>> :> Dev("gpu", 2, FALSE))
                   @@ (<<1, 1, 4, 0>> :> Dev("net", 1, TRUE)),
        !.roots = <<[seg |-> 0, bbn |-> 0], [seg |-> 1, bbn |-> 1]>>,
        !.prt = (<<0, 0>> :> <<Row(1, 1, 20), Row(1, 4, 23)>>)
             @@ (<<0, 2>> :> <<Row(3, 4, 30), Row(7, 3, 31)>>) @@ (<<1, 1>> :> <<Row(4, 1, 28)>>),
        !.dmar = <<[type |-> "drhd", seg |-> 0, levels |-> 4], [type |-> "rmrr", seg |-> 0, levels |-> 0],
                   [type |-> "drhd", seg |-> 1, levels |-> 3]>>,
        !.behind = (<<0, 2, 3, 0>> :> 1) @@ (<<1, 1, 4, 0>> :> 2),
        !.svm = FALSE]

\* Machines on which the boot or a driver goes wrong.
NoRsdp == [Desktop EXCEPT !.name = "NoRsdp", !.rsdp = FALSE]
BadMadt ==
    [Desktop EXCEPT !.name = "BadMadt",
        !.tables = <<[sig |-> "FACP", ok |-> TRUE], [sig |-> "APIC", ok |-> FALSE]>>]
SecondRoot ==       \* a second root bus of segment 0
    [Desktop EXCEPT !.name = "SecondRoot", !.roots = Append(@, [seg |-> 0, bbn |-> 2]),
                    !.functions = (<<0, 2, 1, 0>> :> Dev("net", 1, TRUE)) @@ @]
Unconfigured ==     \* a bridge whose secondary bus was left at 0
    [Desktop EXCEPT !.name = "Unconfigured", !.functions = (<<0, 0, 2, 0>> :> Bridge(1, 0, TRUE))]
TwoUnits ==         \* two remapping units in one segment
    [Server EXCEPT !.name = "TwoUnits",
                   !.dmar = <<[type |-> "drhd", seg |-> 0, levels |-> 4],
                              [type |-> "drhd", seg |-> 0, levels |-> 4]>>,
                   !.behind = (<<0, 2, 3, 0>> :> 2)]
NoLevels ==
    [Server EXCEPT !.name = "NoLevels", !.dmar = <<[type |-> "drhd", seg |-> 0, levels |-> 0]>>,
                   !.behind = << >>]

-----------------------------------------------------------------------------
(* The workloads: what they do on the machine, and how many handles they get. *)

Workloads ==
    [power  |-> [ops |-> {"isa", "spurious", "exception", "resource", "tick"}, objects |-> 0],
     irqs   |-> [ops |-> {"enable_irq", "wait_on_irq", "msi", "tick", "phys"}, objects |-> 2],
     dma    |-> [ops |-> {"claim", "phys", "kill", "tick"}, objects |-> 0],
     guests |-> [ops |-> {"phys", "vctl"}, objects |-> 3]]

\* The workloads that tell a machine from the others.
On(name) ==
    CASE name \in {"NoRsdp", "BadMadt", "SecondRoot", "Unconfigured"} -> {"power"}
      [] name \in {"TwoUnits", "NoLevels"} -> {"dma"}
      [] OTHER -> DOMAIN Workloads \ (IF name = "Desktop" THEN {"dma"} ELSE {})

MCMachines ==
    UNION {{("work" :> w) @@ m : w \in On(m.name)} :
              m \in {Desktop, Server, NoRsdp, BadMadt, SecondRoot, Unconfigured, TwoUnits, NoLevels}}

SmpMachines == {m \in MCMachines : m.name = "Desktop" /\ m.work = "irqs"}

Does(op) == op \in Workloads[machine.work].ops
MayCreate == Len(irqs) + Len(vspaces) + Len(vcpus) < Workloads[machine.work].objects

-----------------------------------------------------------------------------
Init == InterruptsInit /\ PciInit /\ DevicesInit /\ IommuInit /\ VirtInit

Hardware ==
    \/ Does("isa") /\ IsaInterrupt /\ UNCHANGED <<pciVars, dvVars, vtVars, vmVars>>
    \/ Does("spurious") /\ SpuriousInterrupt /\ UNCHANGED <<pciVars, dvVars, vtVars, vmVars>>
    \/ Does("msi") /\ MsiArrives /\ UNCHANGED <<vtVars, vmVars>>
    \/ DmaFault /\ UNCHANGED vmVars

Boot ==
    \/ (FindTables \/ InitIoapics \/ init_sci \/ StartTasking)
       /\ UNCHANGED <<pciVars, dvVars, vtVars, vmVars>>
    \/ parse_pci /\ UNCHANGED <<dvVars, vtVars, vmVars>>

Interrupt ==
    \/ SciHandler /\ UNCHANGED <<pciVars, dvVars, vtVars, vmVars>>
    \/ isr_spurious /\ UNCHANGED <<pciVars, dvVars, vtVars, vmVars>>
    \/ IrqHandler /\ UNCHANGED <<vtVars, vmVars>>
    \/ VtdFaultHandler /\ UNCHANGED vmVars
    \/ \E c \in CPUs, n \in {13, 14} :
          Does("exception") /\ Exception(c, n) /\ UNCHANGED <<pciVars, dvVars, vtVars, vmVars>>
    \/ \E c \in CPUs :
          (Does("tick") \/ current[c] = 0) /\ Tick(c) /\ UNCHANGED <<vtVars, vmVars>>

Ids(c) == 0 .. Len(catalogue[current[c]])

EnterDevctl(c) ==
    \/ \E d \in Found : Does("claim") /\ Enter(c, "claim", d)
    \/ \E d \in Found : Does("enable_irq") /\ MayCreate /\ Enter(c, "enable_irq", d)
    \/ \E index \in 6 .. 7 : Does("resource") /\ Enter(c, "resource", index)
    \/ \E id \in Ids(c) : Does("wait_on_irq") /\ Enter(c, "wait_on_irq", id)

Devctl(c) ==
    \/ UserMode(c) /\ EnterDevctl(c) /\ UNCHANGED <<vtVars, vmVars>>
    \/ ClaimAndNote(c) /\ UNCHANGED vmVars
    \/ (Fails(c) \/ Query(c) \/ EnableIrq(c) \/ RegisterIrq(c) \/ WaitOnIrq(c) \/ Block(c) \/ Leave(c))
       /\ UNCHANGED <<vtVars, vmVars>>

EnterVirt(c) ==
    \/ MayCreate /\ EnterVctl(c, "vcreate_vspace", 0)
    \/ \E id \in Ids(c) : MayCreate /\ EnterVctl(c, "vcreate_vcpu", id)
    \/ \E id \in Ids(c), cmd \in VctlCommands \ {"vcreate_vspace", "vcreate_vcpu"} :
           EnterVctl(c, cmd, id)

Vctl(c) ==
    \/ UserMode(c) /\ Does("vctl") /\ EnterVirt(c)
    \/ VctlFails(c) \/ CreateVspace(c) \/ CreateVcpu(c) \/ MapVspace(c) \/ MapVspacePhys(c)
    \/ AccessRegs(c) \/ RunNone(c) \/ SaveHost(c) \/ Vmrun(c) \/ RestoreHost(c) \/ HandleExit(c)

Process(c) ==
    \/ Does("phys") /\ (Does("claim") \/ iommu = "none") /\ GetPhysRegion(c) /\ UNCHANGED vmVars
    \/ Does("kill") /\ Kill(c) /\ UNCHANGED vmVars
    \/ \E t \in Tids : create_thread_int(c, t) /\ UNCHANGED <<vtVars, vmVars>>

Next ==
    \/ Boot \/ Hardware \/ Interrupt
    \/ \E c \in CPUs : Devctl(c) \/ Vctl(c) \/ Process(c)

Spec == Init /\ [][Next]_vars

-----------------------------------------------------------------------------
(* What firmware says of a function, independently of the walk of pci.cpp.   *)

RootBus(seg, bus) == \E i \in DOMAIN machine.roots : machine.roots[i] = [seg |-> seg, bbn |-> bus]

\* The bridge a function is behind.
Upstream(a) ==
    CHOOSE b \in DOMAIN machine.functions :
        machine.functions[b].class = "bridge" /\ Seg(b) = Seg(a) /\ machine.functions[b].secondary = Bus(a)

\* From a function up to the one on a root bus.
RECURSIVE Path(_)
Path(a) == IF RootBus(Seg(a), Bus(a)) THEN <<a>> ELSE <<a>> \o Path(Upstream(a))

\* The bridges on the way up rotate the pin by the slots passed, up to the first bus with
\* a _PRT: the GSI of its row, or -1.
FirmwareRoute(a) ==
    LET path == Path(a)
        pin == machine.functions[a].pin
        turned(i) == ((pin - 1 + FoldLeft(LAMBDA x, y : x + y, 0,
                                          [j \in 1 .. i - 1 |-> Slot(path[j])])) % 4) + 1
        i == SelectInSeq(path, LAMBDA x : <<Seg(x), Bus(x)>> \in DOMAIN machine.prt)
    IN  IF pin = 0 \/ i = 0 THEN -1
        ELSE PrtLookup(machine.prt[<<Seg(a), Bus(path[i])>>], path[i], turned(i))

\* Every bridge leads to a bus of its own, every root bus has the number of its segment, and
\* there is one for segment 0.
Configured ==
    /\ \A b \in DOMAIN machine.functions :
         machine.functions[b].class = "bridge" => machine.functions[b].secondary > Bus(b)
    /\ \A i \in DOMAIN machine.roots : machine.roots[i].seg = machine.roots[i].bbn
    /\ RootBus(0, 0)

(***************************************************************************)
(* On a configured machine parse_pci lists every function exactly once, and  *)
(* the entry find_device returns for it has the interrupt firmware routes to *)
(* its pin; no interrupt is found where firmware routes none.  On such a     *)
(* machine the enumeration neither panics nor runs out of stack.             *)
(***************************************************************************)
RoutesMatchFirmware ==
    /\ bootPc = "tasking" =>
         /\ \A a \in DOMAIN machine.functions :
              LET i == find_device(a)
              IN  /\ Cardinality({d \in Listed : DeviceAt(d).address = a}) = 1
                  /\ i # 0 /\ pci_devices[i].exists
                  /\ pci_devices[i].has_irq = (FirmwareRoute(a) >= 0)
                  /\ pci_devices[i].has_irq => pci_devices[i].gsi = FirmwareRoute(a)
         /\ Len(device_list) = Cardinality(DOMAIN machine.functions)
    /\ bootPc = "stop" /\ get_table("APIC") => ~ Configured

(***************************************************************************)
(* Whatever may interrupt CPU 0 while it runs a thread has its handler: the  *)
(* unmasked lines of the I/O APICs, the devices whose MSI devctl enabled,     *)
(* whose vector triggers an event made for that device, and the fault         *)
(* interrupts of the remapping units.  Only so does sigma_isr_handler return. *)
(***************************************************************************)
SourcesHandled ==
    cpu[Bsp] = "user" =>
        /\ \A g \in DOMAIN redir :
             LET h == HandlerAt(handlers, redir[g].vector)
             IN  ~ redir[g].masked => h.callback # NoCallback /\ h.is_irq
        /\ \A a \in DOMAIN config :
             LET h == HandlerAt(handlers, config[a])
             IN  /\ h.is_irq
                 /\ \E k \in DOMAIN irqs : /\ h.callback = <<"irq", k>>
                                           /\ irqs[k].device = a /\ irqs[k].vector = config[a]
        /\ \A e \in DOMAIN engines :
             HandlerAt(handlers, engines[e].vector) = Handler(<<"vtd", e>>, TRUE, FALSE)
=============================================================================
