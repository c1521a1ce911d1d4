------------------------------- MODULE Mailbox -------------------------------
(***************************************************************************)
(* What message passing promises: a message that was sent is received once  *)
(* at most, and stays pending until then.  No order is promised: a queue of *)
(* the kernel gives back its newest message first.                          *)
(***************************************************************************)
CONSTANT Messages

VARIABLES pending, received

Init == pending = {} /\ received = {}

Send(m) ==
    /\ m \notin pending \cup received
    /\ pending' = pending \cup {m}
    /\ UNCHANGED received

Receive(m) ==
    /\ m \in pending
    /\ pending' = pending \ {m}
    /\ received' = received \cup {m}

Next == \E m \in Messages : Send(m) \/ Receive(m)

Spec == Init /\ [][Next]_<<pending, received>>
==============================================================================
