------------------------------ MODULE MCDrivers ------------------------------
(***************************************************************************)
(* The user-space programs that drive devices or serve files.  They share   *)
(* no state with one another, so a behaviour is that of one of them: the    *)
(* initial state chooses which, and on what hardware.  The four drivers are *)
(* shown to be command ports.                                               *)
(***************************************************************************)
EXTENDS Nvme, Ahci, Ata, Xhci, Zeta

VARIABLE program

vars == <<program, nvVars, ahVars, atVars, xhVars, ztVars>>
Programs == {"nvme", "ahci", "ata", "xhci", "zeta"}

Init ==
    /\ program \in Programs
    /\ NvmeInit /\ (program # "nvme" => nvHw.enabled /\ nvHw.v11)
    /\ XhciInit /\ (program # "xhci" => /\ xhHw.bios /\ xhHw.run
                                        /\ xhMajor = CHOOSE l \in XhLayouts : TRUE)
    /\ ZetaInit
    /\ AhciInit /\ (program # "ahci" => /\ \A p \in AhPortSet : ahLink[p] = "empty"
                                        /\ ahBios.boh /\ ahBios.bos
                                        /\ \A p \in AhPortSet : ahRegs[p].st /\ ahRegs[p].busy)
    /\ AtaInit /\ (program # "ata" => /\ atBus.floating /\ atBus.retains /\ atBus.resetSelects0
                                      /\ atHw.sel = 0 /\ atHw.busy = No
                                      /\ \A d \in AtDrives : atBus.kind[d] = "missing")

NvmeStep == program = "nvme" /\ NvmeNext /\ UNCHANGED <<program, ahVars, atVars, xhVars, ztVars>>
AhciStep == program = "ahci" /\ AhciNext /\ UNCHANGED <<program, nvVars, atVars, xhVars, ztVars>>
AtaStep == program = "ata" /\ AtaNext /\ UNCHANGED <<program, nvVars, ahVars, xhVars, ztVars>>
XhciStep == program = "xhci" /\ XhciNext /\ UNCHANGED <<program, nvVars, ahVars, atVars, ztVars>>
ZetaStep == program = "zeta" /\ ZetaNext /\ UNCHANGED <<program, nvVars, ahVars, atVars, xhVars>>
Next == NvmeStep \/ AhciStep \/ AtaStep \/ XhciStep \/ ZetaStep

\* A driver that can take a step takes one (a thread that spins is scheduled), and
\* so does a device that has work.
Fairness ==
    /\ WF_nvVars(program = "nvme" /\ NvmeDriver) /\ WF_nvVars(program = "nvme" /\ NvmeHw)
    /\ WF_ahVars(program = "ahci" /\ AhciDriver) /\ WF_ahVars(program = "ahci" /\ AhciHw)
    /\ WF_atVars(program = "ata" /\ AtaDriver) /\ WF_atVars(program = "ata" /\ AtaHw)
    /\ WF_xhVars(program = "xhci" /\ XhciDriver) /\ WF_xhVars(program = "xhci" /\ XhciHw)
Spec == Init /\ [][Next]_vars /\ Fairness

Sizes == (1 :> 2) @@ (3 :> 1)
Layouts ==
    {[p \in 0 .. 2 |-> IF p < 2 THEN 2 ELSE 3], [p \in 0 .. 2 |-> IF p > 0 THEN 2 ELSE 3],
     [p \in 0 .. 2 |-> IF p < 2 THEN 3 ELSE 2]}
Paths ==
    {[rel |-> FALSE, parts |-> p] : p \in SeqOf({"dev", "null", ".", ".."}, 3) \ {<< >>}}
    \cup {[rel |-> FALSE, parts |-> <<"dev">> \o p] :
            p \in {<<"kmsg">>, <<"null", "..", "zero">>, <<".", "..", "null">>}}
    \cup {[rel |-> TRUE, parts |-> p] : p \in {<<"dev">>, <<"dev", "null">>, <<"null">>}}

\* The state of each program has its type; in particular the ring indices of the
\* NVMe queues and the xHCI event ring stay inside their rings.
DriversTypeOK ==
    NvTypeOK /\ AhTypeOK /\ AtTypeOK /\ XhTypeOK /\ ZtTypeOK

Phase ==
    CASE program = "nvme" -> NvPhase [] program = "ahci" -> AhPhase
      [] program = "ata" -> AtPhase [] program = "xhci" -> XhPhase [] OTHER -> "idle"
Answer ==
    CASE program = "nvme" -> nvAnswer [] program = "ahci" -> ahAnswer
      [] program = "ata" -> atAnswer [] program = "xhci" -> xhAnswer [] OTHER -> "none"
Port == INSTANCE CommandPort WITH phase <- Phase, answer <- Answer

(***************************************************************************)
(* Every driver is a command port: the phase bit of NVMe, the command-issue *)
(* bit of AHCI, the DRQ bit of ATA and the finished flag of xHCI each tell  *)
(* it truly that the command it sent last has been carried out, over any    *)
(* number of laps of the rings, and it never takes an old answer for it.    *)
(***************************************************************************)
RefinesCommandPort == Port!Spec

(***************************************************************************)
(* A command that was issued is answered or given up, except that the ATA   *)
(* driver polls forever when its IDENTIFY went to a drive without data, and *)
(* the xHCI driver waits forever when a request failed or when its event    *)
(* lies beyond the part of the event ring it reads.                         *)
(***************************************************************************)
CommandsFinish ==
    Phase # "idle" ~> \/ Phase = "idle"
                      \/ program = "ata" /\ AtNoAnswer
                      \/ program = "xhci" /\ XhNoAnswer
=============================================================================
