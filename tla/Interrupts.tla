----------------------------- MODULE Interrupts -----------------------------
(***************************************************************************)
(* Interrupt vectors and interrupt controllers: the handler table and the   *)
(* dispatcher of idt.cpp, the ACPI table list of acpi.cpp, the MADT of      *)
(* madt.cpp, the I/O APICs of apic.cpp and the SCI.                         *)
(*                                                                         *)
(* A machine is a record of what firmware and hardware present.  Of it, this *)
(* module reads                                                             *)
(*   rsdp, rootOk   the RSDP was found, the RSDT or XSDT has a good checksum *)
(*   tables         the tables it lists, [sig, ok], ok when the sum is zero  *)
(*   legacy         MADT flag: the machine also has 8259 PICs               *)
(*   madt           MADT items [type, a, b, c]                              *)
(*   redirs         number of redirection entries of the I/O APIC at a base  *)
(*   sci            FADT: the interrupt of the SCI                          *)
(***************************************************************************)
EXTENDS Integers, Sequences, FiniteSets, SequencesExt

CONSTANTS Machines,     \* the machines considered
          CPUs          \* processors; 0 boots the others and takes the device interrupts

VARIABLES machine,      \* the machine booted on
          bootPc,       \* where kernel_main is
          acpi_tables,  \* signatures of the tables accepted
          madt,         \* what madt::parse collected
          handlers,     \* vector -> handler; a vector outside the domain has none
          redir,        \* GSI -> redirection entry, of the I/O APICs initialised
          irr,          \* vectors pending at CPU 0
          cpu           \* CPU -> "boot", "user" (interrupts on), "kernel" (off), or stopped

inVars == <<machine, bootPc, acpi_tables, madt, handlers, redir, irr, cpu>>

Bsp == 0
Stopped == {"halt", "spin", "panic", "off"}

\* A bit of the flags of a MADT or FADT field.
bit_test(flags, n) == (flags \div 2 ^ n) % 2 = 1

\* idt::init: every vector goes through the common stub but the spurious one, which
\* returns at once; only the gate of the system call may be used from user mode.
idt_entry(stub, dpl) == [stub |-> stub, dpl |-> dpl]
Gate(v) == idt_entry(IF v = 255 THEN "iretq" ELSE "isr_stub", IF v = 249 THEN 3 ELSE 0)

NoCallback == <<"none">>
Handler(callback, is_irq, should_iret) ==
    [callback |-> callback, is_irq |-> is_irq, should_iret |-> should_iret]

HandlerAt(h, v) == IF v \in DOMAIN h THEN h[v] ELSE Handler(NoCallback, FALSE, FALSE)

\* Highest free vector below the fixed ones; -1, as a byte, when none is left.
get_free_vector(h) ==
    LET free(v) == HandlerAt(h, v).callback = NoCallback
    IN  IF \A v \in 1 .. 246 : ~ free(v) THEN 255
        ELSE CHOOSE v \in 1 .. 246 : free(v) /\ \A w \in v + 1 .. 246 : ~ free(w)

\* Mutant: an entry that has only a status is not replaced.
register_unless_present(h, v, r) == IF v \in DOMAIN h THEN h ELSE (v :> r) @@ h

register_interrupt_handler(h, v, r) ==
    [x \in DOMAIN h \cup {v} |-> IF x = v THEN r ELSE h[x]]

register_irq_status(h, v, is_irq) ==
    register_interrupt_handler(h, v, [HandlerAt(h, v) EXCEPT !.is_irq = is_irq])

register_generic_handlers == (14 :> Handler(<<"page_fault">>, FALSE, FALSE))

-----------------------------------------------------------------------------
(* ACPI tables and the MADT.                                               *)

do_checksum(table) == table.ok

\* acpi::init: without an RSDP, or with a root table that does not sum to zero, no
\* table is known.
TablesFound(m) ==
    IF m.rsdp /\ m.rootOk
    THEN LET good == SelectSeq(m.tables, do_checksum)
         IN  [i \in DOMAIN good |-> good[i].sig]
    ELSE << >>

get_table(sig) == \E i \in DOMAIN acpi_tables : acpi_tables[i] = sig

EmptyMadt == [legacy |-> FALSE, cpus |-> << >>, ioapics |-> << >>, isos |-> << >>]

parse_lapic(p, item) ==
    IF bit_test(item.b, 0) \/ (~ bit_test(item.b, 0) /\ bit_test(item.b, 1))
    THEN [p EXCEPT !.cpus = Append(@, [lapic_id |-> item.a, bsp |-> item.a = Bsp])]
    ELSE p

parse_ioapic(p, item) ==
    [p EXCEPT !.ioapics = Append(@, [base |-> item.a, gsi_base |-> item.b])]

parse_iso(p, item) ==
    [p EXCEPT !.isos = Append(@, [source |-> item.a, gsi |-> item.b, flags |-> item.c])]

parse_item(p, item) ==
    CASE item.type \in {"lapic", "x2apic"} -> parse_lapic(p, item)
      [] item.type = "ioapic" -> parse_ioapic(p, item)
      [] item.type = "iso" -> parse_iso(p, item)
      [] OTHER -> p

madt_parse(m) == FoldLeft(parse_item, [EmptyMadt EXCEPT !.legacy = m.legacy], m.madt)

-----------------------------------------------------------------------------
(* I/O APICs.  A GSI no I/O APIC serves has no entry: writing it does nothing. *)

MaskedEntry == [vector |-> 0, masked |-> TRUE, low |-> FALSE, level |-> FALSE]

\* ioapic_device::init masks every entry.
ioapics_init(m, p) ==
    LET gsis(i) == LET io == p.ioapics[i] IN io.gsi_base .. io.gsi_base + m.redirs[io.base] - 1
    IN  [g \in UNION {gsis(i) : i \in DOMAIN p.ioapics} |-> MaskedEntry]

\* Writing an entry from its fields leaves it unmasked.
set_entry(r, gsi, vector, flags) ==
    [g \in DOMAIN r |->
        IF g # gsi THEN r[g]
        ELSE [vector |-> vector, masked |-> FALSE,
              low |-> bit_test(flags, 1), level |-> bit_test(flags, 3)]]

SetMask(r, gsi, masked) ==
    [g \in DOMAIN r |-> IF g = gsi THEN [r[g] EXCEPT !.masked = masked] ELSE r[g]]

mask_gsi(r, gsi) == SetMask(r, gsi, TRUE)
unmask_gsi(r, gsi) == SetMask(r, gsi, FALSE)

\* First override of an ISA interrupt, or 0.
OverrideOf(p, irq) == SelectInSeq(p.isos, LAMBDA iso : iso.source = irq)

GsiOf(p, irq) == LET i == OverrideOf(p, irq) IN IF i = 0 THEN irq ELSE p.isos[i].gsi

unmask_irq(r, p, irq) == unmask_gsi(r, GsiOf(p, irq))

\* One turn of the loop of ioapic::init over the ISA interrupts.
MapIsaIrq(p, r, irq) ==
    LET i == OverrideOf(p, irq)
        flags == IF i = 0 THEN 0 ELSE p.isos[i].flags
    IN  mask_gsi(set_entry(r, GsiOf(p, irq), irq + 32, flags), GsiOf(p, irq))

IsaIrqs == <<0, 1>> \o [i \in 1 .. 13 |-> i + 2]

ioapic_init(m, p) ==
    LET r == ioapics_init(m, p)
    IN  IF p.legacy THEN FoldLeft(LAMBDA acc, irq : MapIsaIrq(p, acc, irq), r, IsaIrqs) ELSE r

IsaHandlers(p, h) ==
    IF p.legacy
    THEN FoldLeft(LAMBDA acc, irq : register_irq_status(acc, irq + 32, TRUE), h, IsaIrqs)
    ELSE h

-----------------------------------------------------------------------------
InterruptsInit ==
    /\ machine \in Machines
    /\ bootPc = "acpi"
    /\ acpi_tables = << >> /\ madt = EmptyMadt
    /\ handlers = register_generic_handlers
    /\ redir = << >>
    /\ irr = {}
    /\ cpu = [c \in CPUs |-> "boot"]

Stop(c, how) == cpu' = [cpu EXCEPT ![c] = how]

\* acpi::init, then the MADT: without one the boot ends in a panic.
FindTables ==
    /\ bootPc = "acpi"
    /\ acpi_tables' = TablesFound(machine)
    /\ bootPc' = IF \E i \in DOMAIN acpi_tables' : acpi_tables'[i] = "APIC" THEN "ioapic" ELSE "stop"
    /\ IF bootPc' = "stop" THEN Stop(Bsp, "panic") ELSE UNCHANGED cpu
    /\ madt' = IF bootPc' = "stop" THEN madt ELSE madt_parse(machine)
    /\ UNCHANGED <<machine, handlers, redir, irr>>

\* register_irq_status(33), then ioapic::init.
InitIoapics ==
    /\ bootPc = "ioapic"
    /\ redir' = ioapic_init(machine, madt)
    /\ handlers' = IsaHandlers(madt, register_irq_status(handlers, 33, TRUE))
    /\ bootPc' = "sci"
    /\ UNCHANGED <<machine, acpi_tables, madt, irr, cpu>>

\* acpi::init_sci.  The flags it passes for a machine without PICs are bits of a
\* redirection entry, which set_entry does not look at.
init_sci ==
    /\ bootPc = "sci"
    /\ LET r == IF madt.legacy THEN redir
                ELSE set_entry(redir, machine.sci, machine.sci + 32, 2 ^ 13 + 2 ^ 15)
       IN  redir' = unmask_irq(r, madt, machine.sci)
    /\ handlers' = register_interrupt_handler(handlers, machine.sci + 32,
                                              Handler(<<"sci">>, TRUE, FALSE))
    /\ bootPc' = "pci"
    /\ UNCHANGED <<machine, acpi_tables, madt, irr, cpu>>

\* init_multitasking, init_syscall and init_ipi register the last handlers; then the
\* processors turn interrupts on.
StartTasking ==
    /\ bootPc = "tasking"
    /\ handlers' = (248 :> Handler(<<"timer">>, TRUE, FALSE))
                   @@ (249 :> Handler(<<"syscall">>, FALSE, TRUE))
                   @@ (250 :> Handler(<<"ping">>, TRUE, FALSE))
                   @@ (251 :> Handler(<<"shootdown">>, TRUE, FALSE)) @@ handlers
    /\ bootPc' = "done"
    /\ cpu' = [c \in CPUs |-> "user"]
    /\ UNCHANGED <<machine, acpi_tables, madt, redir, irr>>

\* What sigma_isr_handler leaves of the processor when the callback has returned:
\* an interrupt nobody expects is never left.
AfterCallback(h) == IF ~ h.should_iret /\ ~ h.is_irq THEN "spin" ELSE "user"

\* CPU 0 takes its highest pending vector.
TakesHighest(v) == cpu[Bsp] = "user" /\ v \in irr /\ \A w \in irr : w <= v

\* ... and sigma_isr_handler runs.
Accepts(v) == TakesHighest(v) /\ Gate(v).stub = "isr_stub"

\* isr255.
isr_spurious ==
    /\ TakesHighest(255) /\ Gate(255).stub = "iretq"
    /\ irr' = irr \ {255}
    /\ UNCHANGED <<machine, bootPc, acpi_tables, madt, handlers, redir, cpu>>

\* The interrupt of an unmasked redirection entry.
IsaInterrupt ==
    /\ cpu[Bsp] \notin Stopped
    /\ \E g \in DOMAIN redir : ~ redir[g].masked /\ irr' = irr \cup {redir[g].vector}
    /\ UNCHANGED <<machine, bootPc, acpi_tables, madt, handlers, redir, cpu>>

\* The local APIC delivers its spurious vector when an interrupt goes away.
SpuriousInterrupt ==
    /\ cpu[Bsp] = "user" /\ 255 \notin irr
    /\ irr' = irr \cup {255}
    /\ UNCHANGED <<machine, bootPc, acpi_tables, madt, handlers, redir, cpu>>

\* The SCI: the power button switches the machine off, any other event is printed.
SciHandler ==
    \E v \in irr :
        /\ Accepts(v) /\ HandlerAt(handlers, v).callback = <<"sci">>
        /\ irr' = irr \ {v}
        /\ \/ cpu' = [c \in CPUs |-> "off"]
           \/ Stop(Bsp, AfterCallback(HandlerAt(handlers, v)))
        /\ UNCHANGED <<machine, bootPc, acpi_tables, madt, handlers, redir>>

\* An exception of the code a processor runs: a page fault halts the processor, any
\* other exception has no callback and is never left.
Exception(c, n) ==
    /\ cpu[c] = "user"
    /\ LET h == HandlerAt(handlers, n)
       IN  Stop(c, IF h.callback = <<"page_fault">> THEN "halt" ELSE AfterCallback(h))
    /\ UNCHANGED <<machine, bootPc, acpi_tables, madt, handlers, redir, irr>>
=============================================================================
