-------------------------------- MODULE Xhci --------------------------------
(***************************************************************************)
(* The xHCI driver (drivers/usb/xhci): the constructor takes the controller *)
(* over, resets and starts it, resets the ports, and enumerates the device  *)
(* on every port that is active.  A command goes on the command ring and a  *)
(* control request on a port's transfer ring; the driver then handles       *)
(* interrupts until the event it waits for has come by on the event ring.   *)
(*                                                                          *)
(* The controller is external.  It posts an event for each command and each *)
(* control request; a request that fails is reported for one of its earlier *)
(* TRBs.  It interrupts when it posts an event while no interrupt is        *)
(* pending, and again if events remain when the pending one is acknowledged.*)
(* It stays on the first lap of its event ring (4096 events).               *)
(***************************************************************************)
EXTENDS Integers, FiniteSets, Sequences

CONSTANTS
    XhLayouts,      \* the controllers considered: port -> major revision
    XhRing,         \* TRBs on a command or transfer ring
    XhWrap,         \* events after which the driver goes back to the first entry
    XhMaxStrings    \* string descriptors a device names

VARIABLES
    xhPc, xhPort,   \* where the driver is, and the port it works on
    xhMajor,        \* the port -> major map of this controller
    xhActive, xhReset,  \* per port: active, and whether its last reset succeeded
    xhOp,           \* the command or control request waited for
    xhIndex,        \* its place on its ring, counted over all rings
    xhFinished,     \* the places with finished = true
    xhStrings,      \* string descriptors still to be read from the device
    xhStale,        \* a setup TRB without its status TRB is on the ring (ghost)
    xhDeq, xhCycle, \* the driver's place on the event ring, and its cycle bit
    xhHandled,      \* an event was seen since the interrupt
    xhIrq,          \* interrupts the kernel holds for wait_on_irq
    xhHw,           \* the controller: running, halted, owner, ip, erdp, served
    xhPosted,       \* the events posted so far
    xhAnswer

xhVars == <<xhPc, xhPort, xhMajor, xhActive, xhReset, xhOp, xhIndex, xhFinished,
            xhStrings, xhStale, xhDeq, xhCycle, xhHandled, xhIrq, xhHw, xhPosted, xhAnswer>>
XhEvents == <<xhDeq, xhCycle, xhHandled, xhIrq, xhPosted>>
XhDevice == <<xhIndex, xhFinished, xhStrings, xhStale, xhAnswer>>
XhPortVars == <<xhPort, xhMajor, xhActive, xhReset>>

XhPortSet == DOMAIN xhMajor
LastPort == Cardinality(XhPortSet) - 1

(***************************************************************************)
(* setup_port_protocols: ports are numbered per major revision; a USB 2 and *)
(* a USB 3 port with the same number are one connector.                     *)
(***************************************************************************)
Offset(p) == Cardinality({q \in XhPortSet : q < p /\ xhMajor[q] = xhMajor[p]})
PairsOf(p) == {q \in XhPortSet : Offset(q) = Offset(p) /\ xhMajor[q] # xhMajor[p]}
HasPair(p) == PairsOf(p) # {}
OtherPort(p) == IF HasPair(p) THEN CHOOSE q \in PairsOf(p) : TRUE ELSE 0

XhciInit ==
    /\ xhPc = "main" /\ xhPort = 0 /\ xhMajor \in XhLayouts
    /\ xhActive = [p \in XhPortSet |-> FALSE] /\ xhReset = xhActive
    /\ xhOp = "none" /\ xhIndex = 0 /\ xhFinished = {} /\ xhStrings = 0 /\ xhStale = FALSE
    /\ xhDeq = 0 /\ xhCycle = 1 /\ xhHandled = FALSE /\ xhIrq = 0
    /\ \E bios, run \in BOOLEAN :
         xhHw = [bios |-> bios, osWants |-> FALSE, run |-> run, halted |-> ~run,
                 resetting |-> FALSE, ip |-> FALSE, erdp |-> 0, served |-> TRUE]
    /\ xhPosted = << >> /\ xhAnswer = "none"

XhGoto(pc) ==
    xhPc' = pc /\ UNCHANGED <<XhPortVars, xhOp, XhDevice, XhEvents>>

\* main: find a controller and claim it (see NvmeMain).
XhciMain ==
    /\ xhPc = "main"
    /\ UNCHANGED xhHw
    /\ XhGoto("handoff") \/ XhGoto("absent")
\* The walk over the extended capabilities: ask for the controller when the
\* firmware owns it.
RequestHandoff ==
    /\ xhPc = "handoff"
    /\ xhHw' = [xhHw EXCEPT !.osWants = xhHw.bios]
    /\ XhGoto("owned")
\* stop_execution, once the firmware has let go.
do_bios_os_handoff == ~xhHw.bios
StopExecution ==
    /\ xhPc = "owned" /\ do_bios_os_handoff
    /\ xhHw' = [xhHw EXCEPT !.run = FALSE]
    /\ XhGoto("stopping")
\* reset_controller asserts that the controller is halted.
ResetController ==
    /\ xhPc = "stopping" /\ xhHw.halted
    /\ xhHw' = [xhHw EXCEPT !.resetting = TRUE]
    /\ XhGoto("resetting")
\* The reset is over and the controller ready: install the context array, the
\* scratchpads, the rings, and start.  Any allocation may fail.
StartExecution ==
    /\ xhPc = "resetting" /\ ~xhHw.resetting
    /\ \/ UNCHANGED xhHw /\ XhGoto("failed")
       \/ xhHw' = [xhHw EXCEPT !.run = TRUE] /\ XhGoto("starting")
\* start_execution returns; setup_port_protocols marks the ports.
PortsActive ==
    [p \in XhPortSet |-> xhMajor[p] = 3 \/ (xhMajor[p] = 2 /\ ~HasPair(p))]
SetupPorts ==
    /\ xhPc = "starting" /\ ~xhHw.halted
    /\ xhPc' = "reset3"
    /\ xhActive' = PortsActive
    /\ UNCHANGED <<xhPort, xhMajor, xhReset, xhOp, xhHw, XhDevice, XhEvents>>

\* The controller posts an event, and interrupts if no interrupt is pending.
Posting(e) ==
    /\ xhPosted' = Append(xhPosted, e)
    /\ xhHw' = [xhHw EXCEPT !.ip = TRUE, !.served = @ \/ e.type # "port"]
    /\ xhIrq' = IF xhHw.ip THEN xhIrq ELSE xhIrq + 1
    /\ UNCHANGED <<xhDeq, xhCycle, xhHandled>>

NoPairOff(p, ok) ==
    LET paired == IF ~ok /\ xhMajor[p] = 3
                  THEN [xhActive EXCEPT ![OtherPort(p)] = TRUE] ELSE xhActive
    IN  [paired EXCEPT ![p] = ok]
\* reset_port and the assignment of its result: a USB 2 port that works turns
\* its pair off, a USB 3 port that fails turns its other port on.
ActiveAfter(p, ok) ==
    LET paired == IF ok /\ xhMajor[p] = 2 /\ HasPair(p)
                  THEN [xhActive EXCEPT ![OtherPort(p)] = FALSE]
                  ELSE IF ~ok /\ xhMajor[p] = 3
                       THEN [xhActive EXCEPT ![OtherPort(p)] = TRUE] ELSE xhActive
    IN  [paired EXCEPT ![p] = ok]

ResetPort ==
    LET major == IF xhPc = "reset3" THEN 3 ELSE 2
    IN  /\ xhPc \in {"reset3", "reset2"}
        /\ IF xhActive[xhPort] /\ xhMajor[xhPort] = major
           THEN \E ok \in BOOLEAN :
                  /\ xhActive' = ActiveAfter(xhPort, ok)
                  /\ xhReset' = [xhReset EXCEPT ![xhPort] = ok]
                  /\ IF ok THEN Posting([type |-> "port", index |-> 0, ok |-> TRUE])
                           ELSE UNCHANGED <<XhEvents, xhHw>>
           ELSE UNCHANGED <<xhActive, xhReset, XhEvents, xhHw>>
        /\ xhPort' = IF xhPort < LastPort THEN xhPort + 1 ELSE 0
        /\ xhPc' = IF xhPort < LastPort THEN xhPc
                   ELSE IF xhPc = "reset3" THEN "reset2" ELSE "ports"
        /\ UNCHANGED <<xhMajor, xhOp, XhDevice>>

\* The loop of init_ports goes on with the next port.
NextUsbPort ==
    /\ xhPort' = IF xhPort < LastPort THEN xhPort + 1 ELSE xhPort
    /\ xhPc' = IF xhPort < LastPort THEN "ports" ELSE "done"
SkipPort ==
    /\ xhPc = "ports" /\ ~xhActive[xhPort]
    /\ NextUsbPort
    /\ UNCHANGED <<xhMajor, xhActive, xhReset, xhOp, xhHw, XhDevice, XhEvents>>

\* get_trb: the next place on a ring, whose last TRB links back to the first.
get_trb(i) == IF i + 1 = XhRing - 1 THEN 0 ELSE i + 1
\* send_command and send_control up to the doorbell.
Doorbell(op) ==
    /\ xhOp' = op /\ xhPc' = "wait"
    /\ xhIndex' = get_trb(xhIndex)
    /\ xhHw' = [xhHw EXCEPT !.served = FALSE]
    /\ UNCHANGED <<XhPortVars, xhFinished, xhAnswer, XhEvents>>
EnableSlot ==
    /\ xhPc = "ports" /\ xhActive[xhPort]
    /\ Doorbell("enable_slot")
    /\ UNCHANGED <<xhStrings, xhStale>>
\* send_control: without memory for the data it leaves its setup TRB behind and
\* the caller finds zeros.
AfterControl(left) ==
    /\ xhStrings' = left
    /\ IF left = 0 THEN NextUsbPort ELSE xhPc' = "control" /\ UNCHANGED xhPort
    /\ xhOp' = "string"
StringsLeft == IF xhOp = "descriptor" THEN 0 ELSE xhStrings - 1
SendControl ==
    /\ xhPc = "control"
    /\ \/ Doorbell(xhOp) /\ UNCHANGED <<xhStrings, xhStale>>
       \/ /\ xhStale' = TRUE
          /\ AfterControl(StringsLeft)
          /\ UNCHANGED <<xhMajor, xhActive, xhReset, xhIndex, xhFinished, xhAnswer, xhHw,
                         XhEvents>>

(***************************************************************************)
(* The wait: handle_irq in a loop until the event has been seen.            *)
(***************************************************************************)
XhSeen == xhIndex \in xhFinished
AckFirst ==
    /\ xhPc = "wait" /\ ~XhSeen /\ xhIrq > 0
    /\ xhPc' = "events" /\ xhHandled' = FALSE
    /\ xhHw' = [xhHw EXCEPT !.ip = xhDeq # Len(xhPosted)]
    /\ xhIrq' = IF xhHw'.ip THEN xhIrq ELSE xhIrq - 1
    /\ UNCHANGED <<XhPortVars, xhOp, XhDevice, xhDeq, xhCycle, xhPosted>>
WaitOnIrq ==
    /\ xhPc = "wait" /\ ~XhSeen /\ xhIrq > 0
    /\ xhIrq' = xhIrq - 1 /\ xhPc' = "events" /\ xhHandled' = FALSE
    /\ UNCHANGED <<XhPortVars, xhOp, XhDevice, xhDeq, xhCycle, xhHw, xhPosted>>

CycleBit(i) == IF i < Len(xhPosted) THEN 1 ELSE 0
XhVisible == CycleBit(xhDeq) = xhCycle
HandleEvent ==
    LET e == xhPosted[xhDeq + 1]
        wraps == xhDeq + 1 = XhWrap
    IN  /\ xhPc = "events" /\ XhVisible
        /\ xhFinished' = IF e.type = "port" THEN xhFinished ELSE xhFinished \cup {e.index}
        /\ xhDeq' = IF wraps THEN 0 ELSE xhDeq + 1
        /\ xhCycle' = IF wraps THEN 1 - xhCycle ELSE xhCycle
        /\ xhHandled' = TRUE
        /\ UNCHANGED <<xhPc, XhPortVars, xhOp, xhIndex, xhStrings, xhStale, xhIrq, xhHw,
                       xhPosted, xhAnswer>>

\* Acknowledge; the dequeue pointer is null if no event was seen.
Dequeue == IF xhHandled THEN xhDeq ELSE -1
AckIrq ==
    LET again == Dequeue # Len(xhPosted)
    IN  /\ xhPc = "events" /\ ~XhVisible
        /\ xhPc' = "wait"
        /\ xhHw' = [xhHw EXCEPT !.ip = again, !.erdp = Dequeue]
        /\ xhIrq' = IF again THEN xhIrq + 1 ELSE xhIrq
        /\ UNCHANGED <<XhPortVars, xhOp, XhDevice, xhDeq, xhCycle, xhHandled, xhPosted>>

\* The event is there.  A command that failed ends the work on the port; the
\* result of a control request is not looked at.
XhLastEvent ==
    LET mine == {i \in DOMAIN xhPosted : xhPosted[i].type # "port" /\ xhPosted[i].index = xhIndex}
    IN  xhPosted[CHOOSE i \in mine : TRUE]
CommandSucceeded == XhLastEvent.ok
Commands == {"enable_slot", "address_device", "configure_ep"}
CommandReturns ==
    /\ xhPc = "wait" /\ XhSeen /\ xhOp \in Commands
    /\ xhAnswer' = IF CommandSucceeded THEN "ok" ELSE "error"
    /\ IF CommandSucceeded
       THEN xhPc' = (IF xhOp = "configure_ep" THEN "control" ELSE "command") /\ UNCHANGED xhPort
       ELSE NextUsbPort
    /\ xhOp' = IF xhOp = "configure_ep" THEN "descriptor" ELSE xhOp
    /\ xhStale' = FALSE        \* a port has a transfer ring of its own
    /\ UNCHANGED <<xhMajor, xhActive, xhReset, xhIndex, xhFinished, xhStrings, xhHw, XhEvents>>
\* AddressDevice after EnableSlot, ConfigureEp after AddressDevice.
NextCommand ==
    /\ xhPc = "command"
    /\ Doorbell(IF xhOp = "enable_slot" THEN "address_device" ELSE "configure_ep")
    /\ UNCHANGED <<xhStrings, xhStale>>
\* The device descriptor names n strings.
ControlReturns(n) ==
    /\ xhPc = "wait" /\ XhSeen /\ xhOp \in {"descriptor", "string"}
    /\ xhAnswer' = "ok"
    /\ AfterControl(IF xhOp = "descriptor" THEN n ELSE xhStrings - 1)
    /\ UNCHANGED <<xhMajor, xhActive, xhReset, xhIndex, xhFinished, xhStale, xhHw, XhEvents>>

XhciDriver ==
    \/ XhciMain \/ RequestHandoff \/ StopExecution \/ ResetController \/ StartExecution \/ SetupPorts
    \/ ResetPort \/ SkipPort \/ EnableSlot \/ NextCommand \/ SendControl \/ WaitOnIrq
    \/ HandleEvent \/ AckIrq \/ CommandReturns
    \/ \E n \in 0 .. XhMaxStrings : ControlReturns(n)

(***************************************************************************)
(* The controller and the firmware.                                         *)
(***************************************************************************)
XhHwFollow ==
    /\ \/ xhHw.halted = xhHw.run /\ xhHw' = [xhHw EXCEPT !.halted = ~xhHw.run]
       \/ xhHw.resetting /\ xhHw' = [xhHw EXCEPT !.resetting = FALSE]
       \/ xhHw.bios /\ xhHw.osWants /\ xhHw' = [xhHw EXCEPT !.bios = FALSE]
    /\ UNCHANGED <<xhPc, XhPortVars, xhOp, XhDevice, XhEvents>>
\* A failed request, or one behind a stray setup TRB, is reported for a TRB the
\* driver does not wait for (0 here).
XhHwServe(ok) ==
    /\ ~xhHw.served
    /\ Posting([type |-> "done", ok |-> ok,
                index |-> IF xhOp \in Commands \/ (ok /\ ~xhStale) THEN xhIndex ELSE 0])
    /\ UNCHANGED <<xhPc, XhPortVars, xhOp, XhDevice>>
XhciHw == XhHwFollow \/ \E ok \in BOOLEAN : XhHwServe(ok)
XhciNext == XhciDriver \/ XhciHw

XhWaiting == xhPc \in {"wait", "events"}
XhPhase == IF ~XhWaiting THEN "idle" ELSE IF xhHw.served THEN "served" ELSE "issued"
\* The event waited for was reported for another TRB, or lies behind the point
\* where the driver went back to the start of the event ring.
XhNoAnswer ==
    /\ XhWaiting
    /\ xhCycle = 0 \/ (xhHw.served /\ \A i \in DOMAIN xhPosted :
                                         xhPosted[i].type = "done" => xhPosted[i].index # xhIndex)

XhTypeOK ==
    /\ xhPc \in {"main", "absent", "handoff", "owned", "stopping", "resetting", "failed", "starting", "reset3",
                 "reset2", "ports", "command", "control", "wait", "events", "done"}
    /\ xhPort \in XhPortSet /\ xhActive \in [XhPortSet -> BOOLEAN]
    /\ xhDeq \in 0 .. XhWrap /\ xhCycle \in {0, 1} /\ xhIrq \in 0 .. 1

(***************************************************************************)
(* When init_ports starts to enumerate, a connector is used through one of  *)
(* its two ports only, and every port it uses was reset successfully; the   *)
(* second half needs every USB 3 port to have a pair, because the other     *)
(* port of one that has none is port 0.                                     *)
(***************************************************************************)
XhPortsReady ==
    xhPc \notin {"main", "absent", "handoff", "owned", "stopping", "resetting", "failed", "starting",
                "reset3", "reset2"} =>
      \A p \in XhPortSet : xhActive[p] =>
        /\ \A q \in PairsOf(p) : ~xhActive[q]
        /\ (\A q \in XhPortSet : xhMajor[q] = 3 => HasPair(q)) => xhReset[p]

(***************************************************************************)
(* handle_irq writes a null dequeue pointer when it finds no event; until   *)
(* the driver has gone once around its part of the event ring every         *)
(* interrupt it takes comes with an event, so it never does.                *)
(***************************************************************************)
XhIrqHasEvent == xhHw.erdp = -1 => xhCycle = 0
=============================================================================
