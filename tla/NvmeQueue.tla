------------------------------ MODULE NvmeQueue ------------------------------
(***************************************************************************)
(* One queue pair of an NVMe controller (drivers/storage/nvme/source/       *)
(* queue.cpp) and the controller's side of it.  Both queues are rings in    *)
(* memory.  The driver tells a new completion from an old one only by the   *)
(* phase bit, which the controller inverts on every lap of its ring.        *)
(*                                                                          *)
(* The driver never marks a command id as used: every command carries id 0. *)
(* The model numbers the commands instead (sent, served and the field of of *)
(* a completion are ghosts), so that a stale completion can be told apart.  *)
(***************************************************************************)
EXTENDS Integers

CONSTANTS
    NEntries,       \* n_entries: the length of both rings
    IndexModulus    \* how many values head and tail have (2^16 in the code)

ASSUME QueueAssumption ==
    /\ NEntries \in Nat /\ IndexModulus \in Nat
    /\ 2 <= NEntries /\ NEntries < IndexModulus

QueueIndex == 0 .. NEntries - 1
Completion == [phase : {0, 1}, of : Nat, failed : BOOLEAN]
QueuePair == [tail : QueueIndex, head : QueueIndex, expected : {0, 1},
         queue : [QueueIndex -> Completion], bell : QueueIndex, fetched : QueueIndex,
         posted : QueueIndex, phase : {0, 1}, sent : Nat, served : Nat]

\* get_phys_region returns zeroed memory, so every phase bit starts as 0.
EmptyCompletion == [phase |-> 0, of |-> 0, failed |-> FALSE]

\* The constructors; a controller starts its first lap with phase 1.
queue_pair ==
    [tail |-> 0, head |-> 0, expected |-> 1,
     queue |-> [i \in QueueIndex |-> EmptyCompletion], bell |-> 0, fetched |-> 0,
     posted |-> 0, phase |-> 1, sent |-> 0, served |-> 0]

\* tail++ and head++ on a uint16_t, then back to the start at the end.
WrapOnly(i) == (i + 1) % IndexModulus
Advance(i) == IF WrapOnly(i) = NEntries THEN 0 ELSE WrapOnly(i)

\* send_command: copy the command to the tail and ring the doorbell.
send_command(p) ==
    [p EXCEPT !.tail = Advance(p.tail), !.bell = Advance(p.tail), !.sent = @ + 1]

\* The controller takes the oldest command and posts its completion.
QueueHasWork(p) == p.fetched # p.bell
PhaseAfter(p) == IF p.posted + 1 = NEntries THEN 1 - p.phase ELSE p.phase
PostCompletion(p, failed) ==
    [p EXCEPT !.fetched = (@ + 1) % NEntries,
              !.queue[p.posted] = [phase |-> p.phase, of |-> p.served + 1,
                                   failed |-> failed],
              !.posted = (@ + 1) % NEntries,
              !.phase = PhaseAfter(p), !.served = @ + 1]

\* send_and_wait: the poll, and what it does once the phase bit matches.
CompletionSeen(p) == p.queue[p.head].phase = p.expected
CompletionFailed(p) == p.queue[p.head].failed
SamePhase(p) == p.expected
ExpectedAfter(p) ==
    IF WrapOnly(p.head) = NEntries THEN 1 - p.expected ELSE p.expected
TakeCompletion(p) ==
    [p EXCEPT !.head = Advance(p.head), !.expected = ExpectedAfter(p)]
==============================================================================
