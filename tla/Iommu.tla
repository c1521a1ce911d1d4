-------------------------------- MODULE Iommu --------------------------------
(***************************************************************************)
(* DMA remapping: vt-d.cpp, sl_paging.cpp and the part of process.cpp that   *)
(* maps a thread's physical pages for the devices it drives.  The engines    *)
(* are set up the first time a thread asks for physical memory.              *)
(*                                                                         *)
(* Of the machine, this module reads                                        *)
(*   dmar     the entries of the DMAR table, [type, seg, levels]             *)
(*   behind   address -> the remapping unit the function's requests go to    *)
(***************************************************************************)
EXTENDS Devices

CONSTANT Frames         \* page frames handed to threads

VARIABLES iommu,        \* "none", "off" (no DMAR) or "on"
          engines,      \* [seg, vector, used, contexts]: contexts maps an address to its pages
          frames,       \* frame -> thread that has it, 0 when free
          heads,        \* history: the frames that are the first of their region
          early,        \* history: <<descriptor, frame>>, the frame was there before the claim
          released      \* history: <<thread, frame>>, freed when the thread was killed

vtVars == <<iommu, engines, frames, heads, early, released>>

\* bitmap::get_free_bit: the first clear bit.  Nothing sets it afterwards, so every
\* context of an engine has domain 1.
get_free_bit(used) == Min((0 .. 15) \ used)

sl_paging_map(pages, p) == pages \cup {p}

DrhdEntries == SelectSeq(machine.dmar, LAMBDA e : e.type = "drhd")

\* The constructor of iommu and of its engines: each takes a vector for its faults.
AddEngine(acc, drhd) ==
    LET vec == get_free_vector(acc.handlers)
    IN  [handlers |-> register_interrupt_handler(acc.handlers, vec,
                          Handler(<<"vtd", Len(acc.engines) + 1>>, TRUE, FALSE)),
         engines |-> Append(acc.engines,
                            [seg |-> drhd.seg, vector |-> vec, used |-> {0}, contexts |-> << >>]),
         asserts |-> acc.asserts \/ drhd.levels = 0]

InitEngines ==
    LET none == [handlers |-> handlers, engines |-> << >>, asserts |-> FALSE]
    IN  IF get_table("DMAR") THEN FoldLeft(AddEngine, none, DrhdEntries) ELSE none

\* Mutant: the first engine serves every segment.
EngineFor_first(es, a) == IF es = << >> THEN 0 ELSE 1

\* iommu::get_translation: the engine found by segment, 0 for the PANIC.
EngineFor(es, a) == SelectInSeq(es, LAMBDA e : e.seg = Seg(a))

\* device_context_table::get_translation makes the context of a function once.
get_translation(e, a) ==
    IF a \in DOMAIN e.contexts THEN e
    ELSE [e EXCEPT !.contexts = (a :> [domain |-> get_free_bit(e.used), pages |-> {}]) @@ @]

MapFor(es, a, p) ==
    LET i == EngineFor(es, a)
    IN  [es EXCEPT ![i] = [get_translation(es[i], a) EXCEPT
                              !.contexts[a].pages = sl_paging_map(@, p)]]

DrivenBy(t) == {d \in Listed : DriverOf(d) = t}

MapForAll(es, ds, p) ==
    FoldLeft(LAMBDA acc, d : MapFor(acc, DeviceAt(d).address, p), es, SetToSeq(ds))

-----------------------------------------------------------------------------
IommuInit ==
    /\ iommu = "none" /\ engines = << >>
    /\ frames = [p \in Frames |-> 0]
    /\ heads = {} /\ early = {} /\ released = {}

\* get_phys_region: the frames go to the thread, the first of them into the translation
\* of every device it has claimed.
GetPhysRegion(c) ==
    /\ Syscall(c)
    /\ \E p, last \in Frames :
        /\ p <= last /\ \A q \in p .. last : frames[q] = 0
        /\ heads' = heads \cup {p}
        /\ LET t == current[c]
               made == IF iommu = "none" THEN InitEngines
                       ELSE [handlers |-> handlers, engines |-> engines, asserts |-> FALSE]
               active == IF iommu = "none" THEN get_table("DMAR") ELSE iommu = "on"
               panics == \/ made.asserts
                         \/ active /\ \E d \in DrivenBy(t) :
                                EngineFor(made.engines, DeviceAt(d).address) = 0
           IN  /\ frames' = [q \in Frames |-> IF q \in p .. last THEN t ELSE frames[q]]
               /\ handlers' = made.handlers
               /\ engines' = IF active /\ ~ panics THEN MapForAll(made.engines, DrivenBy(t), p)
                             ELSE made.engines
               /\ iommu' = IF active THEN "on" ELSE "off"
               /\ IF panics THEN Stop(c, "panic") ELSE UNCHANGED cpu
    /\ UNCHANGED <<machine, bootPc, acpi_tables, madt, redir, irr, pciVars, dvVars, early, released>>

ClaimAndNote(c) ==
    /\ Claim(c)
    /\ early' = IF DriverOf(call[c].arg) # 0 THEN early
                ELSE early \cup {<<call[c].arg, p>> : p \in {q \in Frames : frames[q] = current[c]}}
    /\ UNCHANGED <<iommu, engines, frames, heads, released>>

\* A thread ends: its frames are freed; its claims, its interrupts and the translations
\* of its devices stay.
Kill(c) ==
    /\ Syscall(c)
    /\ LET t == current[c]
           mine == {p \in Frames : frames[p] = t}
       IN  /\ frames' = [p \in Frames |-> IF p \in mine THEN 0 ELSE frames[p]]
           /\ heads' = heads \ mine
           /\ released' = released \cup {<<t, p>> : p \in mine}
           /\ early' = {x \in early : x[2] \notin mine}
           /\ schedule(c, [threads EXCEPT ![t] = [state |-> "dead", on |-> 0]])
    /\ UNCHANGED <<inVars, pciVars, devctl_lock, call, catalogue, driver, starts, iommu, engines>>

\* The pages a function reaches through the unit in front of it.
Reaches(a) ==
    LET e == engines[machine.behind[a]]
    IN  IF a \in DOMAIN e.contexts THEN e.contexts[a].pages ELSE {}

\* A device told by its driver to use a page of the driver, which its unit refuses.
DmaFault ==
    /\ iommu = "on" /\ cpu[Bsp] \notin Stopped
    /\ \E d \in Listed, p \in Frames :
        /\ DriverOf(d) # 0 /\ frames[p] = DriverOf(d)
        /\ DeviceAt(d).address \in DOMAIN machine.behind
        /\ p \notin Reaches(DeviceAt(d).address)
        /\ irr' = irr \cup {engines[machine.behind[DeviceAt(d).address]].vector}
    /\ UNCHANGED <<machine, bootPc, acpi_tables, madt, handlers, redir, cpu, pciVars, dvVars, vtVars>>

\* The fault handler looks the device up, prints, and halts the processor.
VtdFaultHandler ==
    \E v \in irr, e \in DOMAIN engines :
        /\ Accepts(v) /\ HandlerAt(handlers, v).callback = <<"vtd", e>>
        /\ irr' = irr \ {v}
        /\ Stop(Bsp, "halt")
        /\ UNCHANGED <<machine, bootPc, acpi_tables, madt, handlers, redir, pciVars, dvVars, vtVars>>

OneUnitPerSegment ==
    \A i, j \in DOMAIN DrhdEntries : DrhdEntries[i].seg = DrhdEntries[j].seg => i = j

(***************************************************************************)
(* On a machine with one remapping unit per segment, a device reaches a page *)
(* only if the thread that drives it has the page, or had it when it was     *)
(* killed; and it reaches the first page of every region its driver asked    *)
(* for after claiming it.                                                   *)
(***************************************************************************)
DmaExactly ==
    iommu = "on" /\ cpu[Bsp] # "panic" /\ OneUnitPerSegment =>
        \A d \in {x \in Listed : DeviceAt(x).address \in DOMAIN machine.behind} :
            LET pages == Reaches(DeviceAt(d).address)
                t == DriverOf(d)
            IN  /\ \A p \in pages : frames[p] = t \/ <<t, p>> \in released
                /\ \A p \in heads : t # 0 /\ frames[p] = t => p \in pages \/ <<d, p>> \in early
=============================================================================
