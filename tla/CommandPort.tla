----------------------------- MODULE CommandPort -----------------------------
(***************************************************************************)
(* What a device driver's command path promises: one command is outstanding *)
(* at a time, and the driver reports success for it only after the device   *)
(* has carried that command out.  Giving up with an error is always allowed.*)
(***************************************************************************)
VARIABLES phase, answer

Init == phase = "idle" /\ answer = "none"

Issue == phase = "idle" /\ phase' = "issued" /\ UNCHANGED answer

Serve == phase = "issued" /\ phase' = "served" /\ UNCHANGED answer

Succeed == phase = "served" /\ phase' = "idle" /\ answer' = "ok"

Fail == phase # "idle" /\ phase' = "idle" /\ answer' = "error"

Next == Issue \/ Serve \/ Succeed \/ Fail

Spec == Init /\ [][Next]_<<phase, answer>>
==============================================================================
