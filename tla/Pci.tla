--------------------------------- MODULE Pci ---------------------------------
(***************************************************************************)
(* PCI enumeration and interrupt routing: pci.cpp.                          *)
(*                                                                         *)
(* Of the machine, this module reads                                        *)
(*   mcfg       the MCFG entries [seg, first, last], used when there is one  *)
(*   functions  address <<seg, bus, slot, function>> -> configuration space  *)
(*   roots      the root buses in the order of the namespace, [seg, bbn]     *)
(*   prt        <<seg, bus>> -> rows of the _PRT of the node heading the bus *)
(* A node of the namespace is named by the bus it heads.                     *)
(***************************************************************************)
EXTENDS Interrupts

CONSTANT PciDepth       \* bridges the kernel stack has room to follow

VARIABLES pci_devices,  \* every entry of the list, those of absent functions included
          device_list,  \* generic::device: index into pci_devices, in order of addition
          config        \* address -> what the kernel or a driver wrote to it

pciVars == <<pci_devices, device_list, config>>

Seg(a) == a[1]
Bus(a) == a[2]
Slot(a) == a[3]
Fn(a) == a[4]

\* All ones where nothing answers; zero where no MCFG entry covers the bus.
AbsentConfig ==
    [vendor |-> 65535, class |-> "none", pin |-> 255, header |-> 127, multi |-> TRUE,
     secondary |-> 255, bars |-> << >>, msi |-> FALSE, agp |-> {}, node |-> FALSE]
ZeroConfig ==
    [vendor |-> 0, class |-> "none", pin |-> 0, header |-> 0, multi |-> FALSE,
     secondary |-> 0, bars |-> << >>, msi |-> FALSE, agp |-> {}, node |-> FALSE]

legacy_read(a) ==
    LET b == <<0, Bus(a), Slot(a), Fn(a)>>      \* the segment is ignored
    IN  IF b \in DOMAIN machine.functions THEN machine.functions[b] ELSE AbsentConfig

mcfg_pci_read(a) ==
    IF \E i \in DOMAIN machine.mcfg :
           machine.mcfg[i].seg = Seg(a) /\ Bus(a) \in machine.mcfg[i].first .. machine.mcfg[i].last
    THEN IF a \in DOMAIN machine.functions THEN machine.functions[a] ELSE AbsentConfig
    ELSE ZeroConfig

\* init_pci chooses the access by the presence of an MCFG.
pci_read(a) == IF get_table("MCFG") THEN mcfg_pci_read(a) ELSE legacy_read(a)

\* read_bar, for the kinds of register: an unimplemented one reads zero and sizes to
\* zero; the upper half of a 64-bit one is read again as a register of its own.
read_bar(kind) ==
    CASE kind = "io" -> "io"
      [] kind = "unimplemented" -> "invalid"
      [] OTHER -> "mem"

ReadBars(cfg) ==
    LET n == CASE cfg.header = 0 -> 6 [] cfg.header = 1 -> 3 [] OTHER -> 0
    IN  [i \in 1 .. n |-> read_bar(IF i <= Len(cfg.bars) THEN cfg.bars[i] ELSE "unimplemented")]

\* The AGP speed taken from the status bits, and the command bits written for it.
agp_speed(status) ==
    IF 3 \in status
    THEN CASE 1 \in status -> 8 [] 0 \in status -> 4 [] OTHER -> 0
    ELSE CASE 1 \in status -> 2 [] 2 \in status -> 4 [] OTHER -> 0

agp_command(status) ==
    LET speed == agp_speed(status)
        rate == CASE speed = 0 -> {} [] speed = 8 \/ speed = 2 -> {1}
                  [] 3 \in status -> {0} [] OTHER -> {2}
    IN  {8} \cup rate \cup (IF 3 \in status \/ 9 \in status THEN {9} ELSE {})

EmptyEntry ==
    [exists |-> FALSE, address |-> <<0, 0, 0, 0>>, parent |-> 0, is_bridge |-> FALSE,
     class |-> "none", bars |-> << >>, msi |-> FALSE, agp |-> {},
     node |-> << >>, has_irq |-> FALSE, gsi |-> 0]

-----------------------------------------------------------------------------
(* Enumeration.  The lists built so far are passed along: [pci, list, deep]. *)

RECURSIVE enumerate_bus(_, _, _, _, _)

\* The entry is made before the function is known to exist, and stays when it does not.
enumerate_function(acc, a, parent, depth) ==
    LET cfg == pci_read(a)
        i == Len(acc.pci) + 1
        entry == [EmptyEntry EXCEPT
                    !.exists = TRUE, !.parent = parent, !.address = a, !.class = cfg.class,
                    !.is_bridge = (cfg.class = "bridge"), !.msi = cfg.msi,
                    !.bars = ReadBars([cfg EXCEPT
                                !.header = pci_read(<<Seg(a), Bus(a), Slot(a), 0>>).header]),
                    !.agp = IF cfg.agp = {} THEN {} ELSE agp_command(cfg.agp)]
        added == [acc EXCEPT !.pci = Append(@, entry)]
        below == IF cfg.class = "bridge"
                 THEN enumerate_bus(added, Seg(a), cfg.secondary, i, depth + 1)
                 ELSE added
    IN  IF cfg.vendor = 65535 THEN [acc EXCEPT !.pci = Append(@, EmptyEntry)]
        ELSE [below EXCEPT !.list = Append(@, i)]

\* A device that answers: all its functions are looked at when function 0 says so.
enumerate_device(acc, seg, bus, slot, parent, depth) ==
    LET last == IF pci_read(<<seg, bus, slot, 0>>).multi THEN 7 ELSE 0
    IN  FoldLeft(LAMBDA s, fn : enumerate_function(s, <<seg, bus, slot, fn>>, parent, depth),
                 acc, [i \in 1 .. last + 1 |-> i - 1])

AnsweringSlots(seg, bus) ==
    SelectSeq([i \in 1 .. 32 |-> i - 1], LAMBDA slot : pci_read(<<seg, bus, slot, 0>>).vendor # 65535)

\* Nothing stops the descent but the kernel stack.
enumerate_bus(acc, seg, bus, parent, depth) ==
    IF acc.deep \/ depth > PciDepth THEN [acc EXCEPT !.deep = TRUE]
    ELSE FoldLeft(LAMBDA s, slot : enumerate_device(s, seg, bus, slot, parent, depth),
                  acc, AnsweringSlots(seg, bus))

enumerate_roots ==
    FoldLeft(LAMBDA s, root : enumerate_bus(s, root.seg, root.bbn, 0, 0),
             [pci |-> << >>, list |-> << >>, deep |-> FALSE], machine.roots)

-----------------------------------------------------------------------------
(* Interrupt routing.                                                       *)

\* parse_pci stores _BBN in the segment of a root and _SEG in its bus.
RootEntry(root) == [seg |-> root.bbn, bus |-> root.seg, node |-> <<root.seg, root.bbn>>]

\* The node of the root bus at seg and bus, << >> when there is none.
pci_get_root_bus(seg, bus) ==
    LET i == SelectInSeq(machine.roots,
                         LAMBDA r : RootEntry(r).seg = seg /\ RootEntry(r).bus = bus)
    IN  IF i = 0 THEN << >> ELSE RootEntry(machine.roots[i]).node

\* lai_pci_find_device: the node of a function on the bus a node heads.
lai_pci_find_device(bus, slot, fn) ==
    LET a == <<bus[1], bus[2], slot, fn>>
    IN  IF a \in DOMAIN machine.functions /\ machine.functions[a].node
        THEN <<bus[1], machine.functions[a].secondary>> ELSE << >>

\* Parents come before their children in the list, so their node is known.
pci_find_node(devs, i) ==
    LET d == devs[i]
        root == pci_get_root_bus(Seg(d.address), Bus(d.address))
        bus == IF root # << >> THEN root ELSE devs[d.parent].node
    IN  IF bus = << >> THEN << >>
        ELSE lai_pci_find_device(bus, Slot(d.address), Fn(d.address))

\* The PANIC of pci_find_node.
NoBusNode(d) ==
    d.is_bridge /\ d.parent = 0 /\ pci_get_root_bus(Seg(d.address), Bus(d.address)) = << >>

FindNodes(devs) ==
    FoldLeft(LAMBDA s, i : IF s[i].is_bridge THEN [s EXCEPT ![i].node = pci_find_node(s, i)] ELSE s,
             devs, [i \in DOMAIN devs |-> i])

HasPrt(node) == node \in DOMAIN machine.prt

\* Mutant: the pins counted from 1 are rotated as if counted from 0.
swizzle_from_zero(pin, slot) == (pin + (slot % 4)) % 4

swizzle(pin, slot) == (((pin - 1) + (slot % 4)) % 4) + 1

\* The first row of a _PRT for a function and pin: its GSI, or -1.
PrtLookup(rows, a, pin) ==
    LET i == SelectInSeq(rows, LAMBDA r : /\ r.slot = Slot(a) /\ r.fn \in {Fn(a), -1}
                                          /\ r.pin = pin - 1)
    IN  IF i = 0 THEN -1 ELSE rows[i].gsi

\* Climbs from a function to the nearest bridge with a _PRT, or to the root: the GSI,
\* -1 when no row matches, -2 for the PANIC.
RECURSIVE RouteFrom(_, _, _)
RouteFrom(devs, i, pin) ==
    LET d == devs[i]
        root == pci_get_root_bus(Seg(d.address), Bus(d.address))
    IN  IF d.parent # 0
        THEN IF HasPrt(devs[d.parent].node)
             THEN PrtLookup(machine.prt[devs[d.parent].node], d.address, pin)
             ELSE RouteFrom(devs, d.parent, swizzle(pin, Slot(d.address)))
        ELSE IF root = << >> THEN -2
             ELSE IF HasPrt(root) THEN PrtLookup(machine.prt[root], d.address, pin) ELSE -1

RouteOf(devs, i) ==
    LET pin == pci_read(devs[i].address).pin IN IF pin = 0 THEN -1 ELSE RouteFrom(devs, i, pin)

pci_route_all_irqs(devs) ==
    [i \in DOMAIN devs |->
        LET gsi == RouteOf(devs, i)
        IN  [devs[i] EXCEPT !.has_irq = (gsi >= 0), !.gsi = IF gsi >= 0 THEN gsi ELSE 0]]

-----------------------------------------------------------------------------
PciInit == pci_devices = << >> /\ device_list = << >> /\ config = << >>

parse_pci ==
    /\ bootPc = "pci"
    /\ LET found == enumerate_roots
           nodes == FindNodes(found.pci)
           panics == \/ \E i \in DOMAIN found.pci : NoBusNode(found.pci[i])
                     \/ \E i \in DOMAIN nodes : RouteOf(nodes, i) = -2
       IN  /\ bootPc' = IF found.deep \/ panics THEN "stop" ELSE "tasking"
           /\ IF bootPc' = "stop" THEN Stop(Bsp, IF found.deep THEN "halt" ELSE "panic")
              ELSE UNCHANGED cpu
           /\ pci_devices' = IF bootPc' = "stop" THEN << >> ELSE pci_route_all_irqs(nodes)
           /\ device_list' = found.list
    /\ UNCHANGED <<machine, acpi_tables, madt, handlers, redir, irr, config>>

\* find_device: the first entry with the coordinates, 0 for the PANIC.
find_device(a) == SelectInSeq(pci_devices, LAMBDA d : d.address = a)
=============================================================================
