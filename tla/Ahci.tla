-------------------------------- MODULE Ahci --------------------------------
(***************************************************************************)
(* The AHCI driver (drivers/storage/ahci): the constructor takes the        *)
(* controller over from the firmware, then brings the ports up one by one   *)
(* and identifies what is attached; read_sector reads through a port that   *)
(* is up.  A command is a bit of the port's command-issue register, which   *)
(* the controller clears when the command is done.                          *)
(*                                                                          *)
(* The controller is external.  It follows the start bits with some delay.  *)
(* On an error it raises the task-file interrupt status, leaves the command *)
(* bit set and stops working on the port; the driver clears neither.        *)
(***************************************************************************)
EXTENDS Integers, FiniteSets

CONSTANTS
    AhPorts,    \* the implemented ports are 0 .. AhPorts - 1
    AhSlots,    \* n_command_slots
    AhMaxReads  \* bound: sectors read

VARIABLES
    ahPc,       \* where the driver is
    ahPort,     \* the port it is working on
    ahOp,       \* the command being prepared or waited for
    ahSlot,     \* and its slot
    ahUp,       \* the ports the constructor brought up
    ahLink,     \* what the controller finds on each port
    ahRegs,     \* per port: the registers the driver and the controller share
    ahBios,     \* BOHC: the firmware's and the driver's ownership bits
    ahErrors,   \* per port: commands that ended in an error (ghost)
    ahReads, ahAnswer

ahVars == <<ahPc, ahPort, ahOp, ahSlot, ahUp, ahLink, ahRegs, ahBios, ahErrors,
            ahReads, ahAnswer>>
AhDevice == <<ahLink, ahBios>>

AhPortSet == 0 .. AhPorts - 1
Slots == 0 .. AhSlots - 1
\* ssts.det, ssts.ipm and the signature, as far as the constructor tells them apart.
Links == {"empty", "no_reset", "asleep", "nothing", "sata", "satapi", "other"}
Regs == [st : BOOLEAN, fre : BOOLEAN, cr : BOOLEAN, fr : BOOLEAN,
         ci : SUBSET Slots, tfes : BOOLEAN, error : BOOLEAN, busy : BOOLEAN]

AhciInit ==
    /\ ahPc = "main" /\ ahPort = 0 /\ ahOp = "none" /\ ahSlot = 0 /\ ahUp = {}
    /\ ahLink \in [AhPortSet -> Links]
    /\ ahBios \in [boh : BOOLEAN, bos : BOOLEAN, oos : {FALSE}]
    /\ \E on, busy \in BOOLEAN :      \* what the firmware left behind
         ahRegs = [p \in AhPortSet |->
                     [st |-> on, fre |-> on, cr |-> on, fr |-> on, ci |-> {},
                      tfes |-> on, error |-> FALSE, busy |-> busy]]
    /\ ahErrors = [p \in AhPortSet |-> 0] /\ ahReads = 0 /\ ahAnswer = "none"

\* main: find a controller and claim it (see NvmeMain).
AhciMain ==
    /\ ahPc = "main"
    /\ ahPc' \in {"own", "absent"}
    /\ UNCHANGED <<ahPort, ahOp, ahSlot, ahUp, ahRegs, ahErrors, ahReads, ahAnswer, AhDevice>>

\* bios_gain_ownership: the driver gives up if, after a delay, its own bit is
\* clear and the firmware's is set; it has just set its own.
Ownership ==
    /\ ahPc = "own"
    /\ ahBios' = [ahBios EXCEPT !.oos = ahBios.boh]
    /\ ahPc' = IF ahBios.boh /\ ~ahBios'.oos /\ ahBios.bos THEN "done" ELSE "port"
    /\ UNCHANGED <<ahPort, ahOp, ahSlot, ahUp, ahLink, ahRegs, ahErrors, ahReads, ahAnswer>>

\* The head of the loop over the ports, up to clearing the start bit in
\* wait_idle; the port's memory may not be available.
NextPort == IF ahPort + 1 < AhPorts THEN "port" ELSE "done"
Skip ==
    /\ ahPc' = NextPort
    /\ ahPort' = IF ahPort + 1 < AhPorts THEN ahPort + 1 ELSE ahPort
Probe ==
    /\ ahPc = "port"
    /\ CASE ahLink[ahPort] \in {"no_reset", "nothing"} ->
              ahPc' = "done" /\ UNCHANGED <<ahPort, ahRegs>>
         [] ahLink[ahPort] \in {"empty", "asleep"} -> Skip /\ UNCHANGED ahRegs
         [] OTHER ->
              \/ Skip /\ UNCHANGED ahRegs
              \/ /\ ahRegs' = [ahRegs EXCEPT ![ahPort].st = FALSE]
                 /\ ahPc' = "idle_cr" /\ UNCHANGED ahPort
    /\ UNCHANGED <<ahOp, ahSlot, ahUp, ahErrors, ahReads, ahAnswer, AhDevice>>

\* wait_idle's first loop, and its second write.
StopReceive ==
    /\ ahPc = "idle_cr" /\ ~ahRegs[ahPort].cr
    /\ ahRegs' = [ahRegs EXCEPT ![ahPort].fre = FALSE]
    /\ ahPc' = "idle_fr"
    /\ UNCHANGED <<ahPort, ahOp, ahSlot, ahUp, ahErrors, ahReads, ahAnswer, AhDevice>>

\* The port is idle: install its memory, start it, clear its interrupt status.
StartPort ==
    /\ ahPc = "idle_fr" /\ ~ahRegs[ahPort].fr
    /\ ahRegs' = [ahRegs EXCEPT ![ahPort].st = TRUE, ![ahPort].fre = TRUE,
                                ![ahPort].tfes = FALSE]
    /\ ahPc' = "started"
    /\ UNCHANGED <<ahPort, ahOp, ahSlot, ahUp, ahErrors, ahReads, ahAnswer, AhDevice>>

\* identify and pi_read_capacity: each allocates, issues and awaits one command.
Identify == ahPc' = "allocate" /\ ahOp' = "identify"
PiReadCapacity == ahPc' = "allocate" /\ ahOp' = "capacity"

\* After a fixed delay: the port is skipped unless it runs by now.
CheckStarted ==
    /\ ahPc = "started"
    /\ IF ahRegs[ahPort].cr /\ ahRegs[ahPort].fr
       THEN Identify /\ ahUp' = ahUp \cup {ahPort}
            /\ UNCHANGED ahPort
       ELSE Skip /\ UNCHANGED <<ahOp, ahUp>>
    /\ UNCHANGED <<ahSlot, ahRegs, ahErrors, ahReads, ahAnswer, AhDevice>>

\* What follows a command, whether it succeeded or not.
After(op) ==
    CASE op = "read" -> ahPc' = "done" /\ ahOp' = "none" /\ UNCHANGED ahPort
      [] op = "identify" /\ ahLink[ahPort] = "satapi" -> PiReadCapacity /\ UNCHANGED ahPort
      [] OTHER -> Skip /\ ahOp' = "none"

FirstSlotOnly(p) == IF 0 \in ahRegs[p].ci THEN -1 ELSE 0
\* get_free_command_slot looks only at the command-issue register.
get_free_command_slot(p) ==
    LET free == Slots \ ahRegs[p].ci
    IN  IF free = {} THEN -1 ELSE CHOOSE s \in free : \A t \in free : s <= t

\* allocate_command and the assertion on its result.  No slot and no memory for
\* the command table both end in a failed assertion; without memory for the data
\* the command is given up before it is issued.
Allocate ==
    LET s == get_free_command_slot(ahPort)
    IN  /\ ahPc = "allocate"
        /\ IF s = -1
           THEN ahPc' = "no_slot" /\ UNCHANGED <<ahPort, ahOp, ahSlot>>
           ELSE \/ ahPc' = "no_memory" /\ UNCHANGED <<ahPort, ahOp, ahSlot>>
                \/ After(ahOp) /\ UNCHANGED ahSlot
                \/ ahPc' = "ready" /\ ahSlot' = s /\ UNCHANGED <<ahPort, ahOp>>
        /\ UNCHANGED <<ahUp, ahRegs, ahErrors, ahReads, ahAnswer, AhDevice>>

\* The device is not busy, then set the command's bit.
wait_ready(p) == ~ahRegs[p].busy
IssueCommand ==
    /\ ahPc = "ready" /\ wait_ready(ahPort)
    /\ ahRegs' = [ahRegs EXCEPT ![ahPort].ci = @ \cup {ahSlot}]
    /\ ahPc' = "wait"
    /\ UNCHANGED <<ahPort, ahOp, ahSlot, ahUp, ahErrors, ahReads, ahAnswer, AhDevice>>

IgnoreErrors == ahPc = "wait" /\ FALSE /\ UNCHANGED ahVars
\* The poll: the bit is clear, or an error is reported.  identify asserts that
\* the data's checksum is right.
CommandDone ==
    /\ ahPc = "wait" /\ ahSlot \notin ahRegs[ahPort].ci
    /\ \/ After(ahOp)
       \/ ahOp = "identify" /\ ahPc' = "bad_identity" /\ UNCHANGED <<ahOp, ahPort>>
    /\ ahAnswer' = "ok"
    /\ UNCHANGED <<ahSlot, ahUp, ahRegs, ahErrors, ahReads, AhDevice>>
CommandError ==
    /\ ahPc = "wait" /\ ahSlot \in ahRegs[ahPort].ci
    /\ ahRegs[ahPort].tfes /\ ahRegs[ahPort].error
    /\ After(ahOp)
    /\ ahAnswer' = "error"
    /\ ahErrors' = [ahErrors EXCEPT ![ahPort] = @ + 1]
    /\ UNCHANGED <<ahSlot, ahUp, ahRegs, ahReads, AhDevice>>

\* read_sector on a port that is up.
AhRead(p) ==
    /\ ahPc = "done" /\ p \in ahUp /\ ahReads < AhMaxReads
    /\ ahPc' = "allocate" /\ ahOp' = "read" /\ ahPort' = p /\ ahReads' = ahReads + 1
    /\ UNCHANGED <<ahSlot, ahUp, ahRegs, ahErrors, ahAnswer, AhDevice>>

(***************************************************************************)
(* The controller and the firmware.                                         *)
(***************************************************************************)
AhHwFollow(p) ==
    /\ ahRegs[p].cr # ahRegs[p].st \/ ahRegs[p].fr # ahRegs[p].fre
    /\ ahRegs' = [ahRegs EXCEPT ![p].cr = ahRegs[p].st, ![p].fr = ahRegs[p].fre]
AhHwIdle(p) == ahRegs[p].busy /\ ahRegs' = [ahRegs EXCEPT ![p].busy = FALSE]
AhHwServe(p, failed) ==
    /\ ahRegs[p].cr /\ ~ahRegs[p].busy /\ ahRegs[p].ci # {} /\ ~ahRegs[p].tfes
    /\ \E s \in ahRegs[p].ci :
         ahRegs' = IF failed
                   THEN [ahRegs EXCEPT ![p].tfes = TRUE, ![p].error = TRUE]
                   ELSE [ahRegs EXCEPT ![p].ci = @ \ {s}]
AhciHw ==
    /\ \E p \in AhPortSet :
         \/ AhHwFollow(p) \/ AhHwIdle(p)
         \/ \E failed \in BOOLEAN : AhHwServe(p, failed)
    /\ UNCHANGED <<ahPc, ahPort, ahOp, ahSlot, ahUp, ahErrors, ahReads, ahAnswer, AhDevice>>

AhciDriver ==
    \/ AhciMain \/ Ownership \/ Probe \/ StopReceive \/ StartPort \/ CheckStarted \/ Allocate
    \/ IssueCommand \/ CommandDone \/ CommandError
AhciNext == AhciDriver \/ AhciHw \/ \E p \in AhPortSet : AhRead(p)

AhWaiting == ahPc = "wait"
AhPhase ==
    IF ~AhWaiting THEN "idle"
    ELSE IF ahSlot \in ahRegs[ahPort].ci THEN "issued" ELSE "served"

AhTypeOK ==
    /\ ahPc \in {"main", "absent", "own", "port", "idle_cr", "idle_fr", "started", "allocate",
                 "ready", "wait", "done", "no_slot", "no_memory",
                 "bad_identity"}
    /\ ahPort \in AhPortSet /\ ahSlot \in Slots /\ ahUp \subseteq AhPortSet
    /\ ahOp \in {"none", "identify", "capacity", "read"}
    /\ ahRegs \in [AhPortSet -> Regs]

(***************************************************************************)
(* The command slots of a port that are taken are exactly those of the      *)
(* commands that ended in an error and of the one being waited for; so the  *)
(* assertion on a free slot fails only after as many errors as the port has *)
(* slots.  The driver itself never frees a slot.                            *)
(***************************************************************************)
AhSlotsAccounted ==
    /\ \A p \in AhPortSet :
         Cardinality(ahRegs[p].ci) =
             ahErrors[p] + (IF AhPhase = "issued" /\ ahPort = p THEN 1 ELSE 0)
    /\ ahPc = "no_slot" => ahErrors[ahPort] >= AhSlots
=============================================================================
