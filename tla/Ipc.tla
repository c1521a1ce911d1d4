--------------------------------- MODULE Ipc ---------------------------------
(***************************************************************************)
(* Message passing (proc/ipc.cpp) between a user thread and the kernel      *)
(* thread that serves its file requests (serve_kernel_vfs).  A ring has two *)
(* ends: a, the server, and b, the client that start_elf_executable made    *)
(* together with it; each thread's handle names its own ring.  Every call   *)
(* on a queue holds the queue's lock and is one action.                     *)
(*                                                                          *)
(* The client makes its calls as libkbus does: send, block on the receive   *)
(* event, ask for the size, receive.  Messages are reduced to the command,  *)
(* the number of the call they belong to and their size.  "write_other_fd"  *)
(* stands for every request that stops the kernel.                          *)
(***************************************************************************)
EXTENDS Integers, Sequences, FiniteSets

CONSTANTS
    Rings,       \* the rings made at start-up
    Commands,    \* the commands clients send
    MaxCalls     \* bound: calls of one client

Answered == {"write", "seek", "tell"}
AllCommands == Answered \cup {"write_other_fd", "other"}
ASSUME CommandAssumption == Commands \subseteq AllCommands
ASSUME CallAssumption == MaxCalls \in Nat

VARIABLES
    a_queue, a_event,   \* messages and pending triggers for the server
    b_queue, b_event,   \* and for the client
    a_pc, a_size, a_msg,            \* the server: position, buffer, request
    b_pc, b_size, b_msg,            \* the client: position, buffer, reply
    calls,              \* calls the client has started
    command,            \* the command of its current call
    panicked,           \* a PANIC or a failed ASSERT has stopped the kernel
    received            \* ghost: every message that was received, with its ring

queues == <<a_queue, a_event, b_queue, b_event>>
server == <<a_pc, a_size, a_msg>>
client == <<b_pc, b_size, b_msg, calls, command>>
vars == <<queues, server, client, panicked, received>>

\* A write carries its buffer, the answer to tell carries an offset.
RequestSize(c) == IF c \in {"write", "write_other_fd"} THEN 2 ELSE 1
ReplySize(c) == IF c = "tell" THEN 2 ELSE 1
\* The request of a client's call, and the server's answer to a request.
request(c, n) == [command |-> c, call |-> n, size |-> RequestSize(c)]
response(m) == [command |-> m.command, call |-> m.call, size |-> ReplySize(m.command)]
Message == [command : AllCommands, call : 1 .. MaxCalls, size : 1 .. 2]
None == [command |-> "none", call |-> 0, size |-> 0]

Init ==
    /\ a_queue = [r \in Rings |-> << >>] /\ a_event = [r \in Rings |-> 0]
    /\ b_queue = [r \in Rings |-> << >>] /\ b_event = [r \in Rings |-> 0]
    /\ a_pc = [r \in Rings |-> "poll"]
    /\ a_size = [r \in Rings |-> 0] /\ a_msg = [r \in Rings |-> None]
    /\ b_pc = [r \in Rings |-> "user"]
    /\ b_size = [r \in Rings |-> 0] /\ b_msg = [r \in Rings |-> None]
    /\ calls = [r \in Rings |-> 0] /\ command = [r \in Rings |-> "none"]
    /\ panicked = FALSE
    /\ received = {}

(***************************************************************************)
(* queue::send and queue::receive.  types::queue pushes and pops at the end.*)
(***************************************************************************)
Pushed(q, m) == Append(q, m)
Top(q) == q[Len(q)]
Kept(q) == q
Popped(q) == IF q = << >> THEN q ELSE SubSeq(q, 1, Len(q) - 1)
Taken(q) == IF q = << >> THEN None ELSE Top(q)
get_top_message_size(q) == IF q = << >> THEN 0 ELSE Top(q).size

Triggered(n) == n + 1

(***************************************************************************)
(* The client.                                                              *)
(***************************************************************************)
Send(r) == \E c \in Commands :
    /\ ~panicked /\ b_pc[r] = "user" /\ calls[r] < MaxCalls
    /\ calls' = [calls EXCEPT ![r] = @ + 1]
    /\ command' = [command EXCEPT ![r] = c]
    /\ a_queue' = [a_queue EXCEPT ![r] = Pushed(@, request(c, calls[r] + 1))]
    /\ a_event' = [a_event EXCEPT ![r] = Triggered(@)]
    /\ b_pc' = [b_pc EXCEPT ![r] = "sent"]
    /\ UNCHANGED <<b_queue, b_event, b_size, b_msg, server, panicked, received>>

\* The answer may be there before the client blocks.
BlockClearsEvent(r) ==
    /\ ~panicked /\ b_pc[r] = "sent"
    /\ b_event' = [b_event EXCEPT ![r] = 0]
    /\ b_pc' = [b_pc EXCEPT ![r] = "blocked"]
    /\ UNCHANGED <<a_queue, a_event, b_queue, b_size, b_msg, calls, command, server,
                   panicked, received>>

Block(r) ==
    /\ ~panicked /\ b_pc[r] = "sent"
    /\ b_pc' = [b_pc EXCEPT ![r] = "blocked"]
    /\ UNCHANGED <<queues, b_size, b_msg, calls, command, server, panicked, received>>

\* The scheduler finds the event triggered and consumes one trigger.
WakeUntriggered(r) ==
    /\ ~panicked /\ b_pc[r] = "blocked"
    /\ b_event' = [b_event EXCEPT ![r] = @ - 1]
    /\ b_pc' = [b_pc EXCEPT ![r] = "size"]
    /\ UNCHANGED <<a_queue, a_event, b_queue, b_size, b_msg, calls, command, server,
                   panicked, received>>

WakeKeepsTrigger(r) ==
    /\ ~panicked /\ b_pc[r] = "blocked" /\ b_event[r] > 0
    /\ b_pc' = [b_pc EXCEPT ![r] = "size"]
    /\ UNCHANGED <<queues, b_size, b_msg, calls, command, server, panicked, received>>

Wake(r) ==
    /\ ~panicked /\ b_pc[r] = "blocked" /\ b_event[r] > 0
    /\ b_event' = [b_event EXCEPT ![r] = @ - 1]
    /\ b_pc' = [b_pc EXCEPT ![r] = "size"]
    /\ UNCHANGED <<a_queue, a_event, b_queue, b_size, b_msg, calls, command, server,
                   panicked, received>>

GetSize(r) ==
    /\ ~panicked /\ b_pc[r] = "size"
    /\ b_size' = [b_size EXCEPT ![r] = get_top_message_size(b_queue[r])]
    /\ b_pc' = [b_pc EXCEPT ![r] = "receive"]
    /\ UNCHANGED <<queues, b_msg, calls, command, server, panicked, received>>

Receive(r) ==
    /\ ~panicked /\ b_pc[r] = "receive"
    /\ b_msg' = [b_msg EXCEPT ![r] = Taken(b_queue[r])]
    /\ b_queue' = [b_queue EXCEPT ![r] = Popped(@)]
    /\ received' = received \cup ({<<r, "b", Taken(b_queue[r])>>} \ {<<r, "b", None>>})
    /\ b_pc' = [b_pc EXCEPT ![r] = "user"]
    /\ UNCHANGED <<a_queue, a_event, b_event, b_size, calls, command, server, panicked>>

(***************************************************************************)
(* serve_kernel_vfs.                                                        *)
(***************************************************************************)
Poll(r) ==
    /\ ~panicked /\ a_pc[r] = "poll" /\ a_queue[r] # << >>
    /\ a_pc' = [a_pc EXCEPT ![r] = "size"]
    /\ UNCHANGED <<queues, a_size, a_msg, client, panicked, received>>

ServerGetSize(r) ==
    /\ ~panicked /\ a_pc[r] = "size"
    /\ a_size' = [a_size EXCEPT ![r] = get_top_message_size(a_queue[r])]
    /\ a_pc' = [a_pc EXCEPT ![r] = "receive"]
    /\ UNCHANGED <<queues, a_msg, client, panicked, received>>

\* Nothing to receive is a PANIC here.
ServerReceive(r) ==
    /\ ~panicked /\ a_pc[r] = "receive"
    /\ panicked' = (a_queue[r] = << >>)
    /\ a_msg' = [a_msg EXCEPT ![r] = Taken(a_queue[r])]
    /\ a_queue' = [a_queue EXCEPT ![r] = Popped(@)]
    /\ received' = received \cup ({<<r, "a", Taken(a_queue[r])>>} \ {<<r, "a", None>>})
    /\ a_pc' = [a_pc EXCEPT ![r] = "serve"]
    /\ UNCHANGED <<a_event, b_queue, b_event, a_size, client>>

\* A write to stdout or stderr, a seek and a tell are answered.
Reply(r) ==
    /\ ~panicked /\ a_pc[r] = "serve" /\ a_msg[r].command \in Answered
    /\ b_queue' = [b_queue EXCEPT ![r] = Pushed(@, response(a_msg[r]))]
    /\ b_event' = [b_event EXCEPT ![r] = Triggered(@)]
    /\ a_pc' = [a_pc EXCEPT ![r] = "poll"]
    /\ UNCHANGED <<a_queue, a_event, a_size, a_msg, client, panicked, received>>

\* Another descriptor stops the kernel, another command is not answered.
UnknownFd(r) ==
    /\ ~panicked /\ a_pc[r] = "serve" /\ a_msg[r].command = "write_other_fd"
    /\ panicked' = TRUE
    /\ UNCHANGED <<queues, server, client, received>>

UnknownCommand(r) ==
    /\ ~panicked /\ a_pc[r] = "serve" /\ a_msg[r].command = "other"
    /\ a_pc' = [a_pc EXCEPT ![r] = "poll"]
    /\ UNCHANGED <<queues, a_size, a_msg, client, panicked, received>>

Client(r) == Send(r) \/ Block(r) \/ Wake(r) \/ GetSize(r) \/ Receive(r)
Server(r) ==
    \/ Poll(r) \/ ServerGetSize(r) \/ ServerReceive(r) \/ Reply(r)
    \/ UnknownFd(r) \/ UnknownCommand(r)

Next == \E r \in Rings : Client(r) \/ Server(r)

Spec == Init /\ [][Next]_vars

\* Both threads are scheduled again and again; a call that has started goes on.
FairSpec ==
    /\ Spec
    /\ \A r \in Rings : 
         /\ WF_vars(Block(r) \/ Wake(r) \/ GetSize(r) \/ Receive(r))
         /\ WF_vars(Server(r))

(***************************************************************************)
(* Properties                                                               *)
(***************************************************************************)

\* Types of the queues, of the events and of the two threads' positions.
TypeOK ==
    /\ a_queue \in [Rings -> Seq(Message)] /\ b_queue \in [Rings -> Seq(Message)]
    /\ a_event \in [Rings -> Nat] /\ b_event \in [Rings -> Nat]
    /\ a_pc \in [Rings -> {"poll", "size", "receive", "serve"}]
    /\ b_pc \in [Rings -> {"user", "sent", "blocked", "size", "receive"}]
    /\ a_size \in [Rings -> 0 .. 2] /\ b_size \in [Rings -> 0 .. 2]
    /\ a_msg \in [Rings -> Message \cup {None}] /\ b_msg \in [Rings -> Message \cup {None}]
    /\ calls \in [Rings -> 0 .. MaxCalls]
    /\ command \in [Rings -> AllCommands \cup {"none"}]
    /\ panicked \in BOOLEAN

\* The message a receive copies out fits the buffer that was made for the size
\* asked for before: it is the same message, although the lock was released in
\* between and the queue gives its newest message.
ReceiveFits ==
    \A r \in Rings :
        /\ b_pc[r] = "receive" /\ b_queue[r] # << >> => Top(b_queue[r]).size <= b_size[r]
        /\ a_pc[r] = "receive" /\ a_queue[r] # << >> => Top(a_queue[r]).size <= a_size[r]

\* A thread that was woken on its receive event finds a message, and the kernel
\* server one that it has seen in the queue ("Failed to recieve" is not reached).
WokenFindsMessage ==
    \A r \in Rings :
        /\ b_pc[r] \in {"size", "receive"} => b_queue[r] # << >>
        /\ a_pc[r] \in {"size", "receive"} => a_queue[r] # << >>

\* A client that has come back from a call holds the answer to this call and not
\* one to an earlier call.
ReplyBelongsToCall ==
    \A r \in Rings : b_pc[r] = "user" /\ calls[r] > 0 =>
        b_msg[r].call = calls[r] /\ b_msg[r].command = command[r]

\* The messages that wait in a ring's queues, and in all.
Queued(r) ==
    {<<r, "a", a_queue[r][i]>> : i \in DOMAIN a_queue[r]}
    \cup {<<r, "b", b_queue[r][i]>> : i \in DOMAIN b_queue[r]}
Pending == UNION {Queued(r) : r \in Rings}
Delivery == INSTANCE Mailbox WITH Messages <- Rings \X {"a", "b"} \X Message,
                                  pending <- Pending
\* Every message that was sent waits until it is received, and is received once at
\* most: the queues implement the mailbox.
RefinesMailbox == Delivery!Spec

\* A call with a command the server knows comes back, unless another client's
\* write to an unknown descriptor has stopped the kernel.
CallsReturn ==
    \A r \in Rings :
        (b_pc[r] = "sent" /\ command[r] \in Answered) ~> (b_pc[r] = "user" \/ panicked)
==============================================================================
