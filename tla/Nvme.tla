-------------------------------- MODULE Nvme --------------------------------
(***************************************************************************)
(* The NVMe driver (drivers/storage/nvme): the constructor of io_controller *)
(* brings the controller up and then works through a list of admin commands *)
(* that grows with what the controller answers; read_sector sends a command *)
(* on the I/O queue.  One command is outstanding at a time.                 *)
(*                                                                          *)
(* The controller is external: it is ready some time after it was enabled,  *)
(* answers the commands of a queue it knows in order, and any of them may   *)
(* fail.  Buffers are zeroed when they are allocated, so a command that     *)
(* failed leaves zeros for the driver to read.                              *)
(***************************************************************************)
EXTENDS NvmeQueue, Sequences, FiniteSets

CONSTANTS
    NsSize,     \* the namespaces of the controller: id -> number of blocks
    MaxReads    \* bound: sectors read

VARIABLES
    nvPc,       \* where the driver is
    nvTodo,     \* the admin commands the constructor has still to send
    nvPair,     \* the admin queue (0) and the I/O queue (1)
    nvNs,       \* namespaces: id -> n_lbas, for the ids looked up so far
    nvHw,       \* the controller: ready, and the queues it was told about
    nvReads,    \* sectors read so far
    nvAnswer    \* how the last command ended

nvVars == <<nvPc, nvTodo, nvPair, nvNs, nvHw, nvReads, nvAnswer>>

Command(op, ns) == [op |-> op, ns |-> ns]
\* Commands whose buffer is allocated first.
NeedsBuffer == {"identify_controller", "active_list", "identify_namespace"}
QueueOf == IF nvPc = "wait_io" THEN 1 ELSE 0
SeqOfSet(S) == CHOOSE s \in [1 .. Cardinality(S) -> S] : \A x \in S : \E i \in DOMAIN s : s[i] = x

NvmeInit ==
    /\ nvPc = "main" /\ nvTodo = << >>
    /\ nvPair = [q \in {0, 1} |-> queue_pair]
    /\ nvNs = << >>
    /\ nvHw \in [enabled : BOOLEAN, ready : BOOLEAN, cq : {FALSE}, sq : {FALSE},
                 v11 : BOOLEAN]
    /\ nvHw.ready = nvHw.enabled
    /\ nvReads = 0 /\ nvAnswer = "none"

\* main: find a controller and claim it.  The kernel answers a claim with 0 or 1,
\* never with the -1 main tests for, so the claim of another driver is not noticed.
NvmeMain ==
    /\ nvPc = "main"
    /\ nvPc' \in {"reset", "absent"}
    /\ UNCHANGED <<nvTodo, nvPair, nvNs, nvHw, nvReads, nvAnswer>>

\* reset_subsystem, then CC.EN = 0.
Disable ==
    /\ nvPc = "reset"
    /\ nvPc' = "stopping"
    /\ nvHw' = [nvHw EXCEPT !.enabled = FALSE]
    /\ UNCHANGED <<nvTodo, nvPair, nvNs, nvReads, nvAnswer>>

\* CSTS.RDY is 0: install the admin queue and set CC.EN.  Without memory for
\* the queue its pointer is never set, and the first command faults.
Enable ==
    /\ nvPc = "stopping" /\ ~nvHw.ready
    /\ nvHw' = [nvHw EXCEPT !.enabled = TRUE]
    /\ nvPc' \in {"starting", "no_queue"}
    /\ UNCHANGED <<nvTodo, nvPair, nvNs, nvReads, nvAnswer>>

\* CSTS.RDY is 1: the commands the constructor sends in any case.
Started ==
    /\ nvPc = "starting" /\ nvHw.ready
    /\ nvPc' = "command"
    /\ nvTodo' = <<Command("identify_controller", 0), Command("set_features", 0),
                   Command("create_cq", 1), Command("create_sq", 1)>>
    /\ UNCHANGED <<nvPair, nvNs, nvHw, nvReads, nvAnswer>>

\* send_command for the next admin command.
SendAdmin ==
    /\ nvPc = "command" /\ nvTodo # << >>
    /\ nvPair' = [nvPair EXCEPT ![0] = send_command(@)]
    /\ nvPc' = "wait_admin"
    /\ UNCHANGED <<nvTodo, nvNs, nvHw, nvReads, nvAnswer>>

(***************************************************************************)
(* What the constructor does with an answer.  info is what it finds in the  *)
(* buffer: the controller's data, or zeros.                                 *)
(***************************************************************************)
Queries(info) ==
    IF nvHw.v11
    THEN IF info = << >> THEN << >> ELSE <<Command("active_list", 0)>>
    ELSE <<Command("identify_namespace", 1)>>
Identifies(info) ==
    [i \in DOMAIN info |-> Command("identify_namespace", info[i])]
NewWork(c, info) ==
    CASE c.op = "identify_controller" -> Queries(info)
      [] c.op = "active_list" -> Identifies(info)
      [] OTHER -> << >>
\* namespaces[nsid], which adds an empty entry for an id it does not know.
Lookup(ns, id) == IF id \in DOMAIN ns THEN ns[id] ELSE 0
Recorded(ns, id, n) == [i \in DOMAIN ns \cup {id} |-> IF i = id THEN n ELSE ns[i]]
Buffer(failed) == IF failed THEN << >> ELSE SeqOfSet(DOMAIN NsSize)
Identified(id, failed) == IF failed \/ id \notin DOMAIN NsSize THEN 0 ELSE NsSize[id]

\* The buffer of the next command could not be allocated: it is not sent, and
\* the constructor goes on with what it has.
NoBuffer ==
    /\ nvPc = "command" /\ nvTodo # << >> /\ Head(nvTodo).op \in NeedsBuffer
    /\ nvTodo' = NewWork(Head(nvTodo), << >>) \o Tail(nvTodo)
    /\ UNCHANGED <<nvPc, nvPair, nvNs, nvHw, nvReads, nvAnswer>>

\* send_and_wait returns to the constructor.
AdminDone ==
    LET p == nvPair[0]
        c == Head(nvTodo)
        failed == CompletionFailed(p)
    IN  /\ nvPc = "wait_admin" /\ CompletionSeen(p)
        /\ nvPair' = [nvPair EXCEPT ![0] = TakeCompletion(p)]
        /\ nvTodo' = NewWork(c, Buffer(failed)) \o Tail(nvTodo)
        /\ nvNs' = IF c.op = "identify_namespace"
                   THEN Recorded(nvNs, c.ns, Identified(c.ns, failed)) ELSE nvNs
        /\ nvPc' = IF failed /\ c.op \in {"create_cq", "create_sq"}
                   THEN "unregistered" ELSE "command"
        /\ nvAnswer' = IF failed THEN "error" ELSE "ok"
        /\ UNCHANGED <<nvHw, nvReads>>

\* The constructor is done; the I/O queue it registered may have no memory.
Constructed ==
    /\ nvPc = "command" /\ nvTodo = << >>
    /\ nvPc' \in {"ready", "no_queue"}
    /\ UNCHANGED <<nvTodo, nvPair, nvNs, nvHw, nvReads, nvAnswer>>

\* read_sector: refused, or sent on the I/O queue.
ReadSector(id, lba) ==
    /\ nvPc = "ready" /\ nvReads < MaxReads
    /\ nvReads' = nvReads + 1
    /\ nvNs' = Recorded(nvNs, id, Lookup(nvNs, id))
    /\ \/ UNCHANGED <<nvPc, nvPair>>       \* out of range, or no buffer
       \/ /\ lba < Lookup(nvNs, id)
          /\ nvPair' = [nvPair EXCEPT ![1] = send_command(@)]
          /\ nvPc' = "wait_io"
    /\ UNCHANGED <<nvTodo, nvHw, nvAnswer>>

\* The buffer's contents are returned, whatever the completion's status.
SectorDone ==
    /\ nvPc = "wait_io" /\ CompletionSeen(nvPair[1])
    /\ nvPair' = [nvPair EXCEPT ![1] = TakeCompletion(@)]
    /\ nvPc' = "ready"
    /\ nvAnswer' = "ok"
    /\ UNCHANGED <<nvTodo, nvNs, nvHw, nvReads>>

(***************************************************************************)
(* The controller.                                                          *)
(***************************************************************************)
NvmeHwReady ==
    /\ nvHw.ready # nvHw.enabled
    /\ nvHw' = [nvHw EXCEPT !.ready = nvHw.enabled]
    /\ UNCHANGED <<nvPc, nvTodo, nvPair, nvNs, nvReads, nvAnswer>>

Serves(q) == nvHw.ready /\ (q = 1 => nvHw.cq /\ nvHw.sq)
NvmeHwServe(q, failed) ==
    /\ Serves(q) /\ QueueHasWork(nvPair[q])
    /\ nvPair' = [nvPair EXCEPT ![q] = PostCompletion(@, failed)]
    /\ nvHw' = IF q = 0 /\ ~failed
               THEN [nvHw EXCEPT !.cq = @ \/ Head(nvTodo).op = "create_cq",
                                 !.sq = @ \/ Head(nvTodo).op = "create_sq"]
               ELSE nvHw
    /\ UNCHANGED <<nvPc, nvTodo, nvNs, nvReads, nvAnswer>>

NvmeDriver ==
    \/ NvmeMain \/ Disable \/ Enable \/ Started \/ SendAdmin \/ NoBuffer \/ AdminDone
    \/ Constructed \/ SectorDone
NvmeHw == NvmeHwReady \/ \E q \in {0, 1}, failed \in BOOLEAN : NvmeHwServe(q, failed)
NvmeNext ==
    \/ NvmeDriver
    \/ NvmeHw
    \/ \E id \in DOMAIN NsSize \cup {0}, lba \in 0 .. 1 : ReadSector(id, lba)

\* The abstract command port: a command is served once the controller has
\* posted the completion of the command last sent.
NvWaiting == nvPc \in {"wait_admin", "wait_io"}
NvPhase ==
    IF ~NvWaiting THEN "idle"
    ELSE IF nvPair[QueueOf].served = nvPair[QueueOf].sent THEN "served" ELSE "issued"

NvTypeOK ==
    /\ nvPc \in {"main", "absent", "reset", "stopping", "no_queue", "starting", "command", "wait_admin",
                 "unregistered", "ready", "wait_io"}
    /\ nvPair \in [{0, 1} -> QueuePair]
    /\ DOMAIN nvNs \subseteq DOMAIN NsSize \cup {0, 1}
    /\ nvAnswer \in {"none", "ok", "error"}
=============================================================================
