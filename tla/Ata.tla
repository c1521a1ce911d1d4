-------------------------------- MODULE Ata ---------------------------------
(***************************************************************************)
(* The ATA driver (drivers/storage/ata): init tests one channel and then    *)
(* resets and identifies its two drives in turn, by polling the status      *)
(* register.  Drive 0 is the master, drive 1 the slave.                     *)
(*                                                                          *)
(* The channel is external: a drive may be missing, may fail its reset, may *)
(* be a packet device (which shows another signature and aborts IDENTIFY)   *)
(* and is busy for a while after a reset or a command.  A software reset    *)
(* selects drive 0 on some channels and keeps the selection on others.      *)
(***************************************************************************)
EXTENDS Integers

VARIABLES
    atPc,       \* where the driver is
    atDrive,    \* the drive init_drive is working on
    atCached,   \* cur_selected: the drive last selected, -1 before the first
    atRefused,  \* select_drive gave up for this drive (ghost)
    atExists,   \* flags.exists of the two drives
    atPass,     \* identify_16 or identify_32
    atSent,     \* the drive that was given the last IDENTIFY (ghost)
    atBus,      \* the channel: what is there, and how a reset behaves
    atHw,       \* the drive selected, and its status
    atAnswer

atVars == <<atPc, atDrive, atCached, atRefused, atExists, atPass, atSent, atBus, atHw,
            atAnswer>>

AtDrives == {0, 1}
AtKinds == {"disk", "packet", "missing", "broken"}
AtSelected == atBus.kind[atHw.sel]
\* A drive that is not there reads as neither busy nor ready.
AtBusy(d) == atBus.kind[d] # "missing" /\ atHw.busy[d]
AtDrq(d) == atBus.kind[d] # "missing" /\ atHw.drq[d]
AtFault(d) == atBus.kind[d] # "missing" /\ atHw.error[d]
No == [d \in AtDrives |-> FALSE]

AtaInit ==
    /\ atPc = "main" /\ atDrive = 0 /\ atCached = -1 /\ atRefused = FALSE
    /\ atExists = [d \in AtDrives |-> FALSE] /\ atPass = 16 /\ atSent = 0
    /\ atBus \in [kind : [AtDrives -> AtKinds], floating : BOOLEAN, retains : BOOLEAN,
                  resetSelects0 : BOOLEAN]
    /\ atHw \in [sel : AtDrives, busy : [AtDrives -> BOOLEAN], drq : {No}, error : {No}]
    /\ atAnswer = "none"

\* main: find a controller; the result of claiming it changes nothing.
AtaMain ==
    /\ atPc = "main"
    /\ atPc' \in {"probe", "absent"}
    /\ UNCHANGED <<atDrive, atCached, atRefused, atExists, atPass, atSent, atBus, atHw, atAnswer>>

\* init: is there anything on the channel?
AtProbe ==
    /\ atPc = "probe"
    /\ atPc' = IF atBus.floating \/ ~atBus.retains THEN "done" ELSE "reset"
    /\ UNCHANGED <<atDrive, atCached, atRefused, atExists, atPass, atSent, atBus, atHw, atAnswer>>

\* init_drive: select the drive by hand and reset the channel.  cur_selected is
\* not told.
AtReset ==
    /\ atPc = "reset"
    /\ atHw' = [sel |-> IF atBus.resetSelects0 THEN 0 ELSE atDrive,
                busy |-> [d \in AtDrives |-> TRUE], drq |-> No, error |-> No]
    /\ atPc' = "reset_wait" /\ atRefused' = FALSE
    /\ UNCHANGED <<atDrive, atCached, atExists, atPass, atSent, atBus, atAnswer>>

\* init_drive returns; init goes on with the slave.
DriveDone(exists) ==
    /\ atExists' = [atExists EXCEPT ![atDrive] = exists]
    /\ atPc' = IF atDrive = 0 THEN "reset" ELSE "done"
    /\ atDrive' = 1 /\ atPass' = 16

\* wait_busy_clear, then the reset's result and the signature; for a drive that
\* is missing, the other drive's zeros may be read.
Signature ==
    /\ atPc = "reset_wait" /\ ~AtBusy(atHw.sel)
    /\ \/ AtSelected # "disk" /\ DriveDone(FALSE)
       \/ /\ AtSelected \in {"disk", "missing"}
          /\ atPc' = "select" /\ UNCHANGED <<atExists, atDrive, atPass>>
    /\ UNCHANGED <<atCached, atRefused, atSent, atBus, atHw, atAnswer>>

(***************************************************************************)
(* select_drive.  Nothing is done when the drive is the one last selected.  *)
(* Otherwise the switch is given up when the drive selected before, or the  *)
(* one selected now, is busy or has data to give; the caller goes on.       *)
(***************************************************************************)
AlwaysCached == atCached # -1
CachedDrive == atCached = atDrive
Occupied(d) == AtBusy(d) \/ AtDrq(d)
SelectDrive ==
    LET refused == Occupied(atHw.sel)
        failed == refused \/ Occupied(atDrive)
    IN  /\ atPc = "select"
        /\ atPc' = "select_wait"
        /\ atHw' = IF CachedDrive \/ refused THEN atHw ELSE [atHw EXCEPT !.sel = atDrive]
        /\ atCached' = IF CachedDrive \/ failed THEN atCached ELSE atDrive
        /\ atRefused' = (~CachedDrive /\ failed)
        /\ UNCHANGED <<atDrive, atExists, atPass, atSent, atBus, atAnswer>>

\* wait_busy_clear (its result is ignored), then the command.  Writing it makes
\* the drive busy and drops the data it still had.
SendIdentify ==
    /\ atPc = "select_wait" /\ (~AtBusy(atHw.sel) \/ AtFault(atHw.sel))
    /\ atHw' = [atHw EXCEPT !.busy[atHw.sel] = TRUE, !.drq[atHw.sel] = FALSE,
                            !.error[atHw.sel] = FALSE]
    /\ atSent' = atHw.sel
    /\ atPc' = "drq"
    /\ UNCHANGED <<atDrive, atCached, atRefused, atExists, atPass, atBus, atAnswer>>

\* The drive has data: read 512 bytes, then check them or compare them.  The
\* bytes are read from I/O port 0, so neither outcome depends on the drive, and
\* the drive's data is not taken from it.
IdentifyDone ==
    /\ atPc = "drq" /\ AtDrq(atHw.sel)
    /\ atAnswer' = "ok"
    /\ IF atPass = 16
       THEN \/ atPc' = "select" /\ atPass' = 32 /\ UNCHANGED <<atExists, atDrive>>
            \/ DriveDone(FALSE)
       ELSE DriveDone(TRUE)
    /\ UNCHANGED <<atCached, atRefused, atSent, atBus, atHw>>

AtaDriver ==
    \/ AtaMain \/ AtProbe \/ AtReset \/ Signature \/ SelectDrive \/ SendIdentify \/ IdentifyDone

\* A drive ends its reset, or answers IDENTIFY.
AtaHw ==
    /\ \E d \in AtDrives :
         LET answers == atPc = "drq" /\ d = atHw.sel
         IN  /\ AtBusy(d)
             /\ atHw' = [atHw EXCEPT !.busy[d] = FALSE,
                                     !.drq[d] = answers /\ atBus.kind[d] = "disk",
                                     !.error[d] = answers /\ atBus.kind[d] # "disk"]
    /\ UNCHANGED <<atPc, atDrive, atCached, atRefused, atExists, atPass, atSent, atBus, atAnswer>>

AtaNext == AtaDriver \/ AtaHw

AtWaiting == atPc = "drq"
AtPhase ==
    IF ~AtWaiting THEN "idle" ELSE IF AtDrq(atHw.sel) THEN "served" ELSE "issued"
\* IDENTIFY went to a drive that will never have data: the driver polls forever.
AtNoAnswer == AtWaiting /\ AtSelected # "disk"

AtTypeOK ==
    /\ atPc \in {"main", "absent", "probe", "reset", "reset_wait", "select", "select_wait", "drq", "done"}
    /\ atDrive \in AtDrives /\ atCached \in AtDrives \cup {-1}
    /\ atPass \in {16, 32} /\ atExists \in [AtDrives -> BOOLEAN]

(***************************************************************************)
(* An IDENTIFY reaches the drive init_drive was called for, unless          *)
(* select_drive reported that it could not select it: the drive             *)
(* cur_selected remembers is the one the channel has selected whenever      *)
(* select_drive relies on it, although resets change the selection behind   *)
(* its back.                                                                *)
(***************************************************************************)
AtIdentifiesItsDrive == AtWaiting /\ ~atRefused => atSent = atDrive
=============================================================================
