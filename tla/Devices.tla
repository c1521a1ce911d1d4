------------------------------- MODULE Devices -------------------------------
(***************************************************************************)
(* The devctl system call, the handles it gives out and the interrupts that  *)
(* wake the threads waiting on them: device.cpp, user_handle.hpp, event.hpp  *)
(* and pci::device::install_msi.                                            *)
(*                                                                         *)
(* The call runs with interrupts off on its processor.  The scheduler is     *)
(* reduced to what devctl needs of it: any thread that may run is chosen.    *)
(***************************************************************************)
EXTENDS Pci

CONSTANTS Tids,         \* threads; user threads have identifiers above 0
          MaxTriggers,  \* bound on the interrupts an event counts
          MaxStarts     \* bound on the threads started

VARIABLES devctl_lock,  \* the mutex is held
          call,         \* CPU -> the system call it is in, [at, cmd, arg, vec]
          current,      \* CPU -> thread, 0 when idle
          threads,      \* thread -> [state, on], on the object of the event blocked on
          catalogue,    \* thread -> handles [type, ref]; the id of the first is 0
          irqs,         \* irq_handle objects, never freed: [vector, device, count]
          driver,       \* descriptor -> thread that claimed it; 0 outside the domain
          starts        \* threads started so far

dvVars == <<devctl_lock, call, current, threads, catalogue, irqs, driver, starts>>

NoCall == [at |-> "none", cmd |-> "none", arg |-> 0, vec |-> 0]
NoDevice == -1

DriverOf(d) == IF d \in DOMAIN driver THEN driver[d] ELSE 0
DeviceAt(d) == pci_devices[device_list[d + 1]]
Listed == 0 .. Len(device_list) - 1

\* The descriptor of a function by coordinates, and of the n-th of a class.
find_pci_node(a) ==
    LET i == SelectInSeq(device_list, LAMBDA k : pci_devices[k].address = a)
    IN  IF i = 0 THEN NoDevice ELSE i - 1

find_pci_class_node(class, n) ==
    LET ofClass == SelectSeq([i \in DOMAIN device_list |-> i - 1],
                             LAMBDA d : DeviceAt(d).class = class)
    IN  IF n < Len(ofClass) THEN ofClass[n + 1] ELSE NoDevice

\* The descriptors the find commands can return; the list does not change after boot.
Found ==
    {find_pci_class_node("disk", n) : n \in 0 .. 2}
    \cup {find_pci_node(a) : a \in {x \in DOMAIN machine.functions : machine.functions[x].class = "net"}}

\* get_resource_region fails its assertion for indices above 6, one past the last register.
ResourceAsserts(d, index) == d \in Listed /\ ~ (index <= 6)

push(t, handle) == [catalogue EXCEPT ![t] = Append(@, handle)]

\* catalogue.get<T>: the object, 0 when there is no such id, -1 for the assertion on its type.
get(t, id, type) ==
    IF id + 1 \notin DOMAIN catalogue[t] THEN 0
    ELSE IF catalogue[t][id + 1].type = type THEN catalogue[t][id + 1].ref ELSE -1

has_triggered(k) == irqs[k].count > 0

\* Threads the scheduler may switch to on c.
Candidates(ts) ==
    {t \in Tids : ts[t].state = "ready" \/ (ts[t].state = "blocked" /\ has_triggered(ts[t].on))}

\* c switches from whatever it runs to a candidate, which takes its trigger, or idles.
SwitchTo(c, ts, t) ==
    /\ current' = [current EXCEPT ![c] = t]
    /\ threads' = IF t = 0 THEN ts ELSE [ts EXCEPT ![t] = [state |-> "running", on |-> 0]]
    /\ irqs' = IF t # 0 /\ ts[t].state = "blocked"
               THEN [irqs EXCEPT ![ts[t].on].count = @ - 1] ELSE irqs

schedule(c, ts) ==
    IF Candidates(ts) = {} THEN SwitchTo(c, ts, 0)
    ELSE \E t \in Candidates(ts) : SwitchTo(c, ts, t)

-----------------------------------------------------------------------------
DevicesInit ==
    /\ devctl_lock = FALSE
    /\ call = [c \in CPUs |-> NoCall]
    /\ current = [c \in CPUs |-> 0]
    /\ threads = [t \in Tids |-> [state |-> "ready", on |-> 0]]
    /\ catalogue = [t \in Tids |-> << >>]
    /\ irqs = << >> /\ driver = << >> /\ starts = 0

UserMode(c) == cpu[c] = "user" /\ current[c] # 0

\* A thread makes a system call.
Syscall(c) == UserMode(c) /\ Gate(249).dpl = 3

\* lock_guard: the call waits for the mutex with interrupts off.
Enter(c, cmd, arg) ==
    /\ Syscall(c) /\ ~ devctl_lock
    /\ devctl_lock' = TRUE
    /\ call' = [call EXCEPT ![c] = [at |-> "body", cmd |-> cmd, arg |-> arg, vec |-> 0]]
    /\ cpu' = [cpu EXCEPT ![c] = "kernel"]
    /\ UNCHANGED <<machine, bootPc, acpi_tables, madt, handlers, redir, irr, pciVars, current,
                   threads, catalogue, irqs, driver, starts>>

InBody(c, cmd) == cpu[c] = "kernel" /\ call[c].at = "body" /\ call[c].cmd = cmd
Goto(c, at) == call' = [call EXCEPT ![c].at = at]

\* operator[] of the device list panics outside the list.
OutOfList(d) == d \notin Listed

\* The assertions of install_msi.
MsiAsserts(d) == d \in Listed => ~ (DeviceAt(d).msi /\ machine.msiAllowed)

CmdPanics(c) ==
    LET d == call[c].arg
    IN  CASE call[c].cmd = "claim" -> OutOfList(d)
          [] call[c].cmd = "enable_irq" -> OutOfList(d) \/ MsiAsserts(d)
          [] call[c].cmd = "resource" -> ResourceAsserts(0, d)
          [] call[c].cmd = "wait_on_irq" -> get(current[c], d, "irq") <= 0
          [] OTHER -> FALSE

\* A failed assertion, an index outside the list, or a handle that is not there.
Fails(c) ==
    /\ cpu[c] = "kernel" /\ call[c].at = "body" /\ CmdPanics(c)
    /\ Stop(c, IF call[c].cmd = "wait_on_irq" /\ get(current[c], call[c].arg, "irq") = 0
               THEN "halt" ELSE "panic")
    /\ UNCHANGED <<machine, bootPc, acpi_tables, madt, handlers, redir, irr, pciVars, dvVars>>

\* nop, the find commands, get_resource_region, read_pci and unknown commands.
Query(c) ==
    /\ InBody(c, "resource") /\ ~ CmdPanics(c)
    /\ Goto(c, "leave")
    /\ UNCHANGED <<inVars, pciVars, devctl_lock, current, threads, catalogue, irqs, driver, starts>>

Claim(c) ==
    /\ InBody(c, "claim") /\ ~ CmdPanics(c)
    /\ driver' = IF DriverOf(call[c].arg) = 0 THEN (call[c].arg :> current[c]) @@ driver ELSE driver
    /\ Goto(c, "leave")
    /\ UNCHANGED <<inVars, pciVars, devctl_lock, current, threads, catalogue, irqs, starts>>

\* install_msi: from here the device sends the vector to CPU 0.
install_msi(a, vec) == config' = (a :> vec) @@ config

EnableIrq(c) ==
    /\ InBody(c, "enable_irq") /\ ~ CmdPanics(c)
    /\ LET vec == get_free_vector(handlers)
       IN  /\ install_msi(DeviceAt(call[c].arg).address, vec)
           /\ call' = [call EXCEPT ![c].at = "register", ![c].vec = vec]
    /\ UNCHANGED <<inVars, pci_devices, device_list, devctl_lock, current, threads, catalogue,
                   irqs, driver, starts>>

RegisterIrq(c) ==
    /\ call[c].at = "register"
    /\ LET k == Len(irqs) + 1
           vec == call[c].vec
       IN  /\ irqs' = Append(irqs, [vector |-> vec, device |-> DeviceAt(call[c].arg).address,
                                    count |-> 0])
           /\ handlers' = register_interrupt_handler(handlers, vec, Handler(<<"irq", k>>, TRUE, FALSE))
           /\ catalogue' = push(current[c], [type |-> "irq", ref |-> k])
    /\ Goto(c, "leave")
    /\ UNCHANGED <<machine, bootPc, acpi_tables, madt, redir, irr, cpu, pciVars, devctl_lock,
                   current, threads, driver, starts>>

\* wait_on_irq unlocks the mutex first ...
WaitOnIrq(c) ==
    /\ InBody(c, "wait_on_irq") /\ ~ CmdPanics(c)
    /\ devctl_lock' = FALSE
    /\ Goto(c, "block")
    /\ UNCHANGED <<inVars, pciVars, current, threads, catalogue, irqs, driver, starts>>

\* ... then blocks: the frame of another thread replaces the caller's and block returns to
\* devctl, or there is no other thread and idle_cpu does not return.
Block(c) ==
    /\ call[c].at = "block"
    /\ LET ts == [threads EXCEPT ![current[c]] =
                     [state |-> "blocked", on |-> get(current[c], call[c].arg, "irq")]]
       IN  /\ schedule(c, ts)
           /\ IF Candidates(ts) = {}
              THEN call' = [call EXCEPT ![c] = NoCall] /\ cpu' = [cpu EXCEPT ![c] = "user"]
              ELSE Goto(c, "unlock") /\ UNCHANGED cpu
    /\ UNCHANGED <<machine, bootPc, acpi_tables, madt, handlers, redir, irr, pciVars, devctl_lock,
                   catalogue, driver, starts>>

\* The lock_guard unlocks the mutex, once more after a wait.
Leave(c) ==
    /\ call[c].at \in {"leave", "unlock"}
    /\ devctl_lock' = FALSE
    /\ call' = [call EXCEPT ![c] = NoCall]
    /\ cpu' = [cpu EXCEPT ![c] = "user"]
    /\ UNCHANGED <<machine, bootPc, acpi_tables, madt, handlers, redir, irr, pciVars, current,
                   threads, catalogue, irqs, driver, starts>>

-----------------------------------------------------------------------------
\* A device with MSI enabled raises its interrupt; one already pending absorbs it.
MsiArrives ==
    /\ cpu[Bsp] \notin Stopped
    /\ \E a \in DOMAIN config : irr' = irr \cup {config[a]}
    /\ UNCHANGED <<machine, bootPc, acpi_tables, madt, handlers, redir, cpu, pciVars, dvVars>>

\* The callback of an irq_handle triggers its event; a vector installed and not yet
\* registered has no callback.
IrqHandler ==
    \E v \in irr :
        LET h == HandlerAt(handlers, v)
            k == IF h.callback[1] = "irq" THEN h.callback[2] ELSE 0
        IN
        /\ Accepts(v) /\ h.callback[1] \in {"irq", "none"}
        /\ k # 0 => irqs[k].count < MaxTriggers
        /\ irr' = irr \ {v}
        /\ irqs' = IF k = 0 THEN irqs ELSE [irqs EXCEPT ![k].count = @ + 1]
        /\ Stop(Bsp, AfterCallback(h))
        /\ UNCHANGED <<machine, bootPc, acpi_tables, madt, handlers, redir, pciVars, devctl_lock,
                       call, current, threads, catalogue, driver, starts>>

\* The timer interrupt, and the idle loop: the running thread becomes ready.
Tick(c) ==
    /\ cpu[c] = "user"
    /\ schedule(c, IF current[c] = 0 THEN threads
                   ELSE [threads EXCEPT ![current[c]].state = "ready"])
    /\ UNCHANGED <<inVars, pciVars, devctl_lock, call, catalogue, driver, starts>>

\* A thread is started in the slot of a dead one: it has the same identifier and no handle.
create_thread_int(c, t) ==
    /\ Syscall(c)
    /\ threads[t].state = "dead" /\ starts < MaxStarts
    /\ starts' = starts + 1
    /\ threads' = [threads EXCEPT ![t] = [state |-> "ready", on |-> 0]]
    /\ catalogue' = [catalogue EXCEPT ![t] = << >>]
    /\ UNCHANGED <<inVars, pciVars, devctl_lock, call, current, irqs, driver>>

\* c is in the body of devctl, past the lock and before the unlock.
InDevctl(c) ==
    call[c].at \in {"body", "register", "leave"}
    /\ call[c].cmd \in {"claim", "enable_irq", "resource", "wait_on_irq"}

(***************************************************************************)
(* devctl is exclusive: its lock_guard keeps a second processor out of the   *)
(* body.  wait_on_irq unlocks by hand and relies on "block isn't returning"  *)
(* for the guard not to unlock again.                                       *)
(***************************************************************************)
DevctlExclusive == \A c, d \in CPUs : InDevctl(c) /\ InDevctl(d) => c = d
=============================================================================
