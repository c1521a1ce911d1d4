------------------------------ MODULE IpcProofs ------------------------------
(***************************************************************************)
(* The call between a client and its kernel server is a strict exchange:    *)
(* at every moment its ring is in one of six phases, and holds one message  *)
(* at most.  The phases are the inductive invariant; what the properties of *)
(* Ipc say is read off them.                                                *)
(***************************************************************************)
EXTENDS Ipc, TLAPS

Request(r) == request(command[r], calls[r])
Answer(r) == response(Request(r))

InCall(r) == command[r] \in AllCommands /\ calls[r] \in 1 .. MaxCalls
Waiting(r) == b_pc[r] \in {"sent", "blocked"} /\ InCall(r)
Empty(r) == a_queue[r] = << >> /\ b_queue[r] = << >> /\ b_event[r] = 0

\* The client runs; the server has nothing to do.
Idle(r) ==
    /\ b_pc[r] = "user" /\ a_pc[r] = "poll" /\ Empty(r)
    /\ calls[r] \in 0 .. MaxCalls
    /\ calls[r] > 0 => InCall(r) /\ b_msg[r] = Answer(r)
\* The request is queued.
Requested(r) ==
    /\ Waiting(r) /\ a_pc[r] \in {"poll", "size", "receive"}
    /\ a_queue[r] = <<Request(r)>> /\ b_queue[r] = << >> /\ b_event[r] = 0
    /\ a_pc[r] = "receive" => a_size[r] = RequestSize(command[r])
\* The server has taken it.
Serving(r) == Waiting(r) /\ a_pc[r] = "serve" /\ Empty(r) /\ a_msg[r] = Request(r)
\* The answer is queued and the client not yet awake.
Replied(r) ==
    /\ Waiting(r) /\ a_pc[r] = "poll"
    /\ a_queue[r] = << >> /\ b_queue[r] = <<Answer(r)>> /\ b_event[r] = 1
\* The client fetches the answer.
Collecting(r) ==
    /\ b_pc[r] \in {"size", "receive"} /\ InCall(r) /\ a_pc[r] = "poll"
    /\ a_queue[r] = << >> /\ b_queue[r] = <<Answer(r)>> /\ b_event[r] = 0
    /\ b_pc[r] = "receive" => b_size[r] = ReplySize(command[r])
\* The command was not answered.
Ignored(r) == Waiting(r) /\ a_pc[r] = "poll" /\ Empty(r)

Phase(r) ==
    Idle(r) \/ Requested(r) \/ Serving(r) \/ Replied(r) \/ Collecting(r) \/ Ignored(r)

\* What was received belongs to a call that has started, and the answer to the
\* current call is received only when the call is over.
Past(r, d, m) ==
    /\ m.call <= calls[r]
    /\ d = "b" /\ m.call = calls[r] => b_pc[r] = "user"

AllPast ==
    \A r \in Rings, d \in {"a", "b"}, m \in Message :
        <<r, d, m>> \in received => Past(r, d, m)

Inv ==
    /\ TypeOK
    /\ \A r \in Rings : Phase(r)
    /\ AllPast

Same(r) ==
    /\ a_queue'[r] = a_queue[r] /\ b_queue'[r] = b_queue[r] /\ b_event'[r] = b_event[r]
    /\ a_pc'[r] = a_pc[r] /\ a_size'[r] = a_size[r] /\ a_msg'[r] = a_msg[r]
    /\ b_pc'[r] = b_pc[r] /\ b_size'[r] = b_size[r] /\ b_msg'[r] = b_msg[r]
    /\ calls'[r] = calls[r] /\ command'[r] = command[r]

\* A queue with one message gives back this message and is empty then.
LEMMA OneMessage ==
    ASSUME NEW m
    PROVE  /\ <<m>> # << >> /\ Top(<<m>>) = m /\ Popped(<<m>>) = << >>
           /\ Taken(<<m>>) = m /\ Pushed(<< >>, m) = <<m>>
           /\ get_top_message_size(<<m>>) = m.size
<1>1. <<m>> # << >> /\ Len(<<m>>) = 1 /\ <<m>>[1] = m
  OBVIOUS
<1>2. SubSeq(<<m>>, 1, 0) = << >> /\ Append(<< >>, m) = <<m>>
  OBVIOUS
<1> QED  BY <1>1, <1>2 DEF Top, Popped, Taken, Pushed, get_top_message_size

\* A queue of one message is a queue of messages.
LEMMA OneTyped ==
    ASSUME NEW m \in Message
    PROVE  <<m>> \in Seq(Message)
OBVIOUS

\* Requests and answers are messages; they carry the command and the call.
LEMMA MessageOf ==
    ASSUME NEW c \in AllCommands, NEW n \in 1 .. MaxCalls
    PROVE  /\ request(c, n) \in Message /\ request(c, n).command = c
           /\ request(c, n).call = n /\ request(c, n).size = RequestSize(c)
           /\ response(request(c, n)) \in Message
           /\ response(request(c, n)).command = c /\ response(request(c, n)).call = n
           /\ response(request(c, n)).size = ReplySize(c)
           /\ RequestSize(c) \in 1 .. 2 /\ ReplySize(c) \in 1 .. 2
<1>1. RequestSize(c) \in 1 .. 2 /\ ReplySize(c) \in 1 .. 2
  BY DEF RequestSize, ReplySize
<1>2. request(c, n) \in Message /\ request(c, n).command = c
      /\ request(c, n).call = n /\ request(c, n).size = RequestSize(c)
  BY <1>1 DEF request, Message
<1> QED  BY <1>1, <1>2 DEF response, Message

\* In a call, both its messages are messages.
LEMMA CallMessages ==
    ASSUME NEW r, InCall(r)
    PROVE  /\ Request(r) \in Message /\ Answer(r) \in Message
           /\ Request(r).call = calls[r] /\ Answer(r).call = calls[r]
           /\ Request(r).command = command[r] /\ Answer(r).command = command[r]
           /\ Request(r).size = RequestSize(command[r])
           /\ Answer(r).size = ReplySize(command[r])
           /\ RequestSize(command[r]) \in 1 .. 2 /\ ReplySize(command[r]) \in 1 .. 2
BY MessageOf DEF InCall, Request, Answer

\* A ring that a step leaves alone stays in its phase.
LEMMA PhaseFrame ==
    ASSUME NEW r, Phase(r), Same(r)
    PROVE  Phase(r)'
BY DEF Phase, Same, Idle, Requested, Serving, Replied, Collecting, Ignored, Waiting,
       InCall, Empty, Request, Answer

\* A send makes the idle ring's first and only message.
LEMMA SendKeeps ==
    ASSUME Inv, NEW r \in Rings, Send(r)
    PROVE  Inv'
<1> USE DEF queues, server, client
<1>0. PICK c \in Commands : Send(r)!(c)
  BY DEF Send
<1>1. Idle(r)
  BY DEF Inv, Phase, Idle, Requested, Serving, Replied, Collecting, Ignored, Waiting,
     InCall, Empty, Send
<1>2. /\ c \in AllCommands /\ calls[r] + 1 \in 1 .. MaxCalls
      /\ request(c, calls[r] + 1) \in Message /\ request(c, calls[r] + 1).call = calls[r] + 1
  BY <1>0, <1>1, MessageOf, CommandAssumption, CallAssumption DEF Idle
<1>3. \A s \in Rings \ {r} : Phase(s)'
  <2>1. \A s \in Rings \ {r} : Phase(s) /\ Same(s)
    BY <1>0 DEF Inv, TypeOK, Same
  <2> QED  BY <2>1, PhaseFrame
<1>4. Requested(r)'
  BY <1>0, <1>1, OneMessage, <1>2 DEF Inv, TypeOK, Idle, Requested, Waiting, InCall, Empty,
     Request, Answer
<1>5. Phase(r)'
  BY <1>4 DEF Phase
<1>a. Pushed(a_queue[r], request(c, calls[r] + 1)) \in Seq(Message)
  BY <1>1, <1>2, OneMessage, OneTyped DEF Idle, Empty
<1>b. Triggered(a_event[r]) \in Nat
  BY DEF Inv, TypeOK, Triggered
<1>6. TypeOK'
  BY <1>0, <1>a, <1>b, <1>2 DEF Inv, TypeOK
<1>7. AllPast'
  BY <1>0, <1>1, OneMessage, <1>2 DEF Inv, TypeOK, AllPast, Past, Message, Idle, Waiting, Empty
<1> QED  BY <1>3, <1>5, <1>6, <1>7 DEF Inv

\* Blocking changes no message; the phase stays what it was.
LEMMA BlockKeeps ==
    ASSUME Inv, NEW r \in Rings, Block(r)
    PROVE  Inv'
<1> USE DEF queues, server, client
<1>1. Waiting(r)
  BY DEF Inv, Phase, Idle, Requested, Serving, Replied, Collecting, Ignored, Waiting,
     InCall, Empty, Block
<1>2. /\ InCall(r)
      /\ Request(r) \in Message /\ Answer(r) \in Message
      /\ Request(r).call = calls[r] /\ Answer(r).call = calls[r]
      /\ Request(r).size = RequestSize(command[r]) /\ Answer(r).size = ReplySize(command[r])
      /\ RequestSize(command[r]) \in 1 .. 2 /\ ReplySize(command[r]) \in 1 .. 2
  BY <1>1, CallMessages DEF Waiting
<1>3. \A s \in Rings \ {r} : Phase(s)'
  <2>1. \A s \in Rings \ {r} : Phase(s) /\ Same(s)
    BY DEF Inv, TypeOK, Same, Block
  <2> QED  BY <2>1, PhaseFrame
<1>5. Phase(r)'
  BY DEF Inv, TypeOK, Phase, Idle, Requested, Serving, Replied, Collecting, Ignored,
     Waiting, InCall, Empty, Request, Answer, Block
<1>6. TypeOK'
  BY <1>1, <1>2 DEF Inv, TypeOK, Waiting, Empty, Block
<1>7. AllPast'
  BY <1>1, <1>2 DEF Inv, TypeOK, AllPast, Past, Message, Waiting, Empty, Block
<1> QED  BY <1>3, <1>5, <1>6, <1>7 DEF Inv

\* A client is woken by the trigger of its answer.
LEMMA WakeKeeps ==
    ASSUME Inv, NEW r \in Rings, Wake(r)
    PROVE  Inv'
<1> USE DEF queues, server, client
<1>1. Replied(r)
  BY DEF Inv, Phase, Idle, Requested, Serving, Replied, Collecting, Ignored, Waiting,
     InCall, Empty, Wake
<1>2. /\ InCall(r)
      /\ Request(r) \in Message /\ Answer(r) \in Message
      /\ Request(r).call = calls[r] /\ Answer(r).call = calls[r]
      /\ Request(r).size = RequestSize(command[r]) /\ Answer(r).size = ReplySize(command[r])
      /\ RequestSize(command[r]) \in 1 .. 2 /\ ReplySize(command[r]) \in 1 .. 2
  BY <1>1, CallMessages DEF Waiting, Replied
<1>3. \A s \in Rings \ {r} : Phase(s)'
  <2>1. \A s \in Rings \ {r} : Phase(s) /\ Same(s)
    BY DEF Inv, TypeOK, Same, Wake
  <2> QED  BY <2>1, PhaseFrame
<1>4. Collecting(r)'
  BY <1>1, <1>2 DEF Inv, TypeOK, Replied, Collecting, Waiting, InCall, Empty, Request,
     Answer, Wake
<1>5. Phase(r)'
  BY <1>4 DEF Phase
<1>6. TypeOK'
  BY <1>1, <1>2 DEF Inv, TypeOK, Replied, Waiting, Empty, Wake
<1>7. AllPast'
  BY <1>1, <1>2 DEF Inv, TypeOK, AllPast, Past, Message, Replied, Waiting, Empty, Wake
<1> QED  BY <1>3, <1>5, <1>6, <1>7 DEF Inv

\* The size asked for is the size of the answer.
LEMMA GetSizeKeeps ==
    ASSUME Inv, NEW r \in Rings, GetSize(r)
    PROVE  Inv'
<1> USE DEF queues, server, client
<1>1. Collecting(r)
  BY DEF Inv, Phase, Idle, Requested, Serving, Replied, Collecting, Ignored, Waiting,
     InCall, Empty, GetSize
<1>2. /\ InCall(r)
      /\ Request(r) \in Message /\ Answer(r) \in Message
      /\ Request(r).call = calls[r] /\ Answer(r).call = calls[r]
      /\ Request(r).size = RequestSize(command[r]) /\ Answer(r).size = ReplySize(command[r])
      /\ RequestSize(command[r]) \in 1 .. 2 /\ ReplySize(command[r]) \in 1 .. 2
  BY <1>1, CallMessages DEF Waiting, Collecting
<1>3. \A s \in Rings \ {r} : Phase(s)'
  <2>1. \A s \in Rings \ {r} : Phase(s) /\ Same(s)
    BY DEF Inv, TypeOK, Same, GetSize
  <2> QED  BY <2>1, PhaseFrame
<1>4. Collecting(r)'
  BY <1>1, OneMessage, <1>2 DEF Inv, TypeOK, Collecting, Waiting, InCall, Empty, Request,
     Answer, GetSize
<1>5. Phase(r)'
  BY <1>4 DEF Phase
<1>a. get_top_message_size(b_queue[r]) \in 0 .. 2
  BY <1>1, <1>2, OneMessage DEF Collecting
<1>6. TypeOK'
  BY <1>a, <1>2 DEF Inv, TypeOK, GetSize
<1>7. AllPast'
  BY <1>1, OneMessage, <1>2 DEF Inv, TypeOK, AllPast, Past, Message, Collecting, Waiting,
     Empty, GetSize
<1> QED  BY <1>3, <1>5, <1>6, <1>7 DEF Inv

\* The client receives the answer to its call.
LEMMA ReceiveKeeps ==
    ASSUME Inv, NEW r \in Rings, Receive(r)
    PROVE  Inv'
<1> USE DEF queues, server, client
<1>1. Collecting(r)
  BY DEF Inv, Phase, Idle, Requested, Serving, Replied, Collecting, Ignored, Waiting,
     InCall, Empty, Receive
<1>2. /\ InCall(r)
      /\ Request(r) \in Message /\ Answer(r) \in Message
      /\ Request(r).call = calls[r] /\ Answer(r).call = calls[r]
      /\ Request(r).size = RequestSize(command[r]) /\ Answer(r).size = ReplySize(command[r])
      /\ RequestSize(command[r]) \in 1 .. 2 /\ ReplySize(command[r]) \in 1 .. 2
  BY <1>1, CallMessages DEF Waiting, Collecting
<1>3. \A s \in Rings \ {r} : Phase(s)'
  <2>1. \A s \in Rings \ {r} : Phase(s) /\ Same(s)
    BY DEF Inv, TypeOK, Same, Receive
  <2> QED  BY <2>1, PhaseFrame
<1>4. Idle(r)'
  BY <1>1, OneMessage, <1>2 DEF Inv, TypeOK, Collecting, Idle, Waiting, InCall, Empty,
     Request, Answer, Receive
<1>5. Phase(r)'
  BY <1>4 DEF Phase
<1>6. TypeOK'
  BY <1>1, OneMessage, <1>2 DEF Inv, TypeOK, Collecting, Waiting, Empty, Receive
<1>7. AllPast'
  BY <1>1, OneMessage, <1>2 DEF Inv, TypeOK, AllPast, Past, Message, Collecting, Waiting,
     Empty, Receive
<1> QED  BY <1>3, <1>5, <1>6, <1>7 DEF Inv

\* The server sees the request.
LEMMA PollKeeps ==
    ASSUME Inv, NEW r \in Rings, Poll(r)
    PROVE  Inv'
<1> USE DEF queues, server, client
<1>1. Requested(r)
  BY DEF Inv, Phase, Idle, Requested, Serving, Replied, Collecting, Ignored, Waiting,
     InCall, Empty, Poll
<1>2. /\ InCall(r)
      /\ Request(r) \in Message /\ Answer(r) \in Message
      /\ Request(r).call = calls[r] /\ Answer(r).call = calls[r]
      /\ Request(r).size = RequestSize(command[r]) /\ Answer(r).size = ReplySize(command[r])
      /\ RequestSize(command[r]) \in 1 .. 2 /\ ReplySize(command[r]) \in 1 .. 2
  BY <1>1, CallMessages DEF Waiting, Requested
<1>3. \A s \in Rings \ {r} : Phase(s)'
  <2>1. \A s \in Rings \ {r} : Phase(s) /\ Same(s)
    BY DEF Inv, TypeOK, Same, Poll
  <2> QED  BY <2>1, PhaseFrame
<1>4. Requested(r)'
  BY <1>1, <1>2 DEF Inv, TypeOK, Requested, Waiting, InCall, Empty, Request, Answer, Poll
<1>5. Phase(r)'
  BY <1>4 DEF Phase
<1>6. TypeOK'
  BY <1>1, <1>2 DEF Inv, TypeOK, Requested, Waiting, Empty, Poll
<1>7. AllPast'
  BY <1>1, <1>2 DEF Inv, TypeOK, AllPast, Past, Message, Requested, Waiting, Empty, Poll
<1> QED  BY <1>3, <1>5, <1>6, <1>7 DEF Inv

\* The size asked for is the size of the request.
LEMMA ServerGetSizeKeeps ==
    ASSUME Inv, NEW r \in Rings, ServerGetSize(r)
    PROVE  Inv'
<1> USE DEF queues, server, client
<1>1. Requested(r)
  BY DEF Inv, Phase, Idle, Requested, Serving, Replied, Collecting, Ignored, Waiting,
     InCall, Empty, ServerGetSize
<1>2. /\ InCall(r)
      /\ Request(r) \in Message /\ Answer(r) \in Message
      /\ Request(r).call = calls[r] /\ Answer(r).call = calls[r]
      /\ Request(r).size = RequestSize(command[r]) /\ Answer(r).size = ReplySize(command[r])
      /\ RequestSize(command[r]) \in 1 .. 2 /\ ReplySize(command[r]) \in 1 .. 2
  BY <1>1, CallMessages DEF Waiting, Requested
<1>3. \A s \in Rings \ {r} : Phase(s)'
  <2>1. \A s \in Rings \ {r} : Phase(s) /\ Same(s)
    BY DEF Inv, TypeOK, Same, ServerGetSize
  <2> QED  BY <2>1, PhaseFrame
<1>4. Requested(r)'
  BY <1>1, OneMessage, <1>2 DEF Inv, TypeOK, Requested, Waiting, InCall, Empty, Request,
     Answer, ServerGetSize
<1>5. Phase(r)'
  BY <1>4 DEF Phase
<1>a. get_top_message_size(a_queue[r]) \in 0 .. 2
  BY <1>1, <1>2, OneMessage DEF Requested
<1>6. TypeOK'
  BY <1>a, <1>2 DEF Inv, TypeOK, ServerGetSize
<1>7. AllPast'
  BY <1>1, OneMessage, <1>2 DEF Inv, TypeOK, AllPast, Past, Message, Requested, Waiting,
     Empty, ServerGetSize
<1> QED  BY <1>3, <1>5, <1>6, <1>7 DEF Inv

\* The server receives the request and does not panic.
LEMMA ServerReceiveKeeps ==
    ASSUME Inv, NEW r \in Rings, ServerReceive(r)
    PROVE  Inv'
<1> USE DEF queues, server, client
<1>1. Requested(r)
  BY DEF Inv, Phase, Idle, Requested, Serving, Replied, Collecting, Ignored, Waiting,
     InCall, Empty, ServerReceive
<1>2. /\ InCall(r)
      /\ Request(r) \in Message /\ Answer(r) \in Message
      /\ Request(r).call = calls[r] /\ Answer(r).call = calls[r]
      /\ Request(r).size = RequestSize(command[r]) /\ Answer(r).size = ReplySize(command[r])
      /\ RequestSize(command[r]) \in 1 .. 2 /\ ReplySize(command[r]) \in 1 .. 2
  BY <1>1, CallMessages DEF Waiting, Requested
<1>3. \A s \in Rings \ {r} : Phase(s)'
  <2>1. \A s \in Rings \ {r} : Phase(s) /\ Same(s)
    BY DEF Inv, TypeOK, Same, ServerReceive
  <2> QED  BY <2>1, PhaseFrame
<1>4. Serving(r)'
  BY <1>1, OneMessage, <1>2 DEF Inv, TypeOK, Requested, Serving, Waiting, InCall, Empty,
     Request, Answer, ServerReceive
<1>5. Phase(r)'
  BY <1>4 DEF Phase
<1>6. TypeOK'
  BY <1>1, OneMessage, <1>2 DEF Inv, TypeOK, Requested, Waiting, Empty, ServerReceive
<1>7. AllPast'
  BY <1>1, OneMessage, <1>2 DEF Inv, TypeOK, AllPast, Past, Message, Requested, Waiting,
     Empty, ServerReceive
<1> QED  BY <1>3, <1>5, <1>6, <1>7 DEF Inv

\* The answer is the only message of the ring.
LEMMA ReplyKeeps ==
    ASSUME Inv, NEW r \in Rings, Reply(r)
    PROVE  Inv'
<1> USE DEF queues, server, client
<1>1. Serving(r)
  BY DEF Inv, Phase, Idle, Requested, Serving, Replied, Collecting, Ignored, Waiting,
     InCall, Empty, Reply
<1>2. /\ InCall(r)
      /\ Request(r) \in Message /\ Answer(r) \in Message
      /\ Request(r).call = calls[r] /\ Answer(r).call = calls[r]
      /\ Request(r).size = RequestSize(command[r]) /\ Answer(r).size = ReplySize(command[r])
      /\ RequestSize(command[r]) \in 1 .. 2 /\ ReplySize(command[r]) \in 1 .. 2
  BY <1>1, CallMessages DEF Waiting, Serving
<1>3. \A s \in Rings \ {r} : Phase(s)'
  <2>1. \A s \in Rings \ {r} : Phase(s) /\ Same(s)
    BY DEF Inv, TypeOK, Same, Reply
  <2> QED  BY <2>1, PhaseFrame
<1>r. Pushed(b_queue[r], response(a_msg[r])) = <<Answer(r)>>
  BY <1>1, OneMessage DEF Serving, Empty, Answer
<1>4. Replied(r)'
  BY <1>1, <1>r, <1>2 DEF Inv, TypeOK, Serving, Replied, Waiting, InCall, Empty, Request,
     Answer, Reply, Triggered
<1>5. Phase(r)'
  BY <1>4 DEF Phase
<1>a. Pushed(b_queue[r], response(a_msg[r])) \in Seq(Message)
  BY <1>r, <1>2, OneTyped
<1>b. Triggered(b_event[r]) \in Nat
  BY DEF Inv, TypeOK, Triggered
<1>6. TypeOK'
  BY <1>a, <1>b, <1>2 DEF Inv, TypeOK, Reply
<1>7. AllPast'
  BY <1>1, <1>2 DEF Inv, TypeOK, AllPast, Past, Message, Serving, Waiting, Empty, Reply
<1> QED  BY <1>3, <1>5, <1>6, <1>7 DEF Inv

\* A write to an unknown descriptor changes no ring.
LEMMA UnknownFdKeeps ==
    ASSUME Inv, NEW r \in Rings, UnknownFd(r)
    PROVE  Inv'
<1> USE DEF queues, server, client
<1>1. Serving(r)
  BY DEF Inv, Phase, Idle, Requested, Serving, Replied, Collecting, Ignored, Waiting,
     InCall, Empty, UnknownFd
<1>2. /\ InCall(r)
      /\ Request(r) \in Message /\ Answer(r) \in Message
      /\ Request(r).call = calls[r] /\ Answer(r).call = calls[r]
      /\ Request(r).size = RequestSize(command[r]) /\ Answer(r).size = ReplySize(command[r])
      /\ RequestSize(command[r]) \in 1 .. 2 /\ ReplySize(command[r]) \in 1 .. 2
  BY <1>1, CallMessages DEF Waiting, Serving
<1>3. \A s \in Rings \ {r} : Phase(s)'
  <2>1. \A s \in Rings \ {r} : Phase(s) /\ Same(s)
    BY DEF Inv, TypeOK, Same, UnknownFd
  <2> QED  BY <2>1, PhaseFrame
<1>4. Serving(r)'
  BY <1>1, <1>2 DEF Inv, TypeOK, Serving, Waiting, InCall, Empty, Request, Answer, UnknownFd
<1>5. Phase(r)'
  BY <1>4 DEF Phase
<1>6. TypeOK'
  BY <1>1, <1>2 DEF Inv, TypeOK, Serving, Waiting, Empty, UnknownFd
<1>7. AllPast'
  BY <1>1, <1>2 DEF Inv, TypeOK, AllPast, Past, Message, Serving, Waiting, Empty, UnknownFd
<1> QED  BY <1>3, <1>5, <1>6, <1>7 DEF Inv

\* An unknown command leaves the ring empty.
LEMMA UnknownCommandKeeps ==
    ASSUME Inv, NEW r \in Rings, UnknownCommand(r)
    PROVE  Inv'
<1> USE DEF queues, server, client
<1>1. Serving(r)
  BY DEF Inv, Phase, Idle, Requested, Serving, Replied, Collecting, Ignored, Waiting,
     InCall, Empty, UnknownCommand
<1>2. /\ InCall(r)
      /\ Request(r) \in Message /\ Answer(r) \in Message
      /\ Request(r).call = calls[r] /\ Answer(r).call = calls[r]
      /\ Request(r).size = RequestSize(command[r]) /\ Answer(r).size = ReplySize(command[r])
      /\ RequestSize(command[r]) \in 1 .. 2 /\ ReplySize(command[r]) \in 1 .. 2
  BY <1>1, CallMessages DEF Waiting, Serving
<1>3. \A s \in Rings \ {r} : Phase(s)'
  <2>1. \A s \in Rings \ {r} : Phase(s) /\ Same(s)
    BY DEF Inv, TypeOK, Same, UnknownCommand
  <2> QED  BY <2>1, PhaseFrame
<1>4. Ignored(r)'
  BY <1>1, <1>2 DEF Inv, TypeOK, Serving, Ignored, Waiting, InCall, Empty, Request, Answer,
     UnknownCommand
<1>5. Phase(r)'
  BY <1>4 DEF Phase
<1>6. TypeOK'
  BY <1>1, <1>2 DEF Inv, TypeOK, Serving, Waiting, Empty, UnknownCommand
<1>7. AllPast'
  BY <1>1, <1>2 DEF Inv, TypeOK, AllPast, Past, Message, Serving, Waiting, Empty, UnknownCommand
<1> QED  BY <1>3, <1>5, <1>6, <1>7 DEF Inv

\* The phases hold at the start.
LEMMA InvInit ==
    ASSUME Init
    PROVE  Inv
<1>1. TypeOK
  <2>1. << >> \in Seq(Message) /\ 0 \in 0 .. MaxCalls
    BY CallAssumption
  <2>2. a_queue \in [Rings -> Seq(Message)] /\ b_queue \in [Rings -> Seq(Message)]
    BY <2>1 DEF Init
  <2>3. /\ a_event \in [Rings -> Nat] /\ b_event \in [Rings -> Nat]
        /\ a_size \in [Rings -> 0 .. 2] /\ b_size \in [Rings -> 0 .. 2]
        /\ calls \in [Rings -> 0 .. MaxCalls]
    BY <2>1 DEF Init
  <2>4. a_msg \in [Rings -> Message \cup {None}] /\ b_msg \in [Rings -> Message \cup {None}]
    BY DEF Init
  <2>5. /\ a_pc \in [Rings -> {"poll", "size", "receive", "serve"}]
        /\ b_pc \in [Rings -> {"user", "sent", "blocked", "size", "receive"}]
        /\ command \in [Rings -> AllCommands \cup {"none"}]
        /\ panicked \in BOOLEAN
    BY DEF Init
  <2> QED  BY <2>2, <2>3, <2>4, <2>5 DEF TypeOK
<1>2. \A r \in Rings : Idle(r)
  BY CallAssumption DEF Init, Idle, Empty
<1>3. AllPast
  BY DEF Init, AllPast
<1> QED  BY <1>1, <1>2, <1>3 DEF Inv, Phase

\* Every step keeps them.
LEMMA InvStep ==
    ASSUME Inv, [Next]_vars
    PROVE  Inv'
<1>1. ASSUME NEW r \in Rings, Client(r) PROVE Inv'
  BY <1>1, SendKeeps, BlockKeeps, WakeKeeps, GetSizeKeeps, ReceiveKeeps DEF Client
<1>2. ASSUME NEW r \in Rings, Server(r) PROVE Inv'
  BY <1>2, PollKeeps, ServerGetSizeKeeps, ServerReceiveKeeps, ReplyKeeps, UnknownFdKeeps,
     UnknownCommandKeeps DEF Server
<1>3. CASE UNCHANGED vars
  <2> USE <1>3 DEF vars, queues, server, client
  <2>1. TypeOK' /\ AllPast'
    BY DEF Inv, TypeOK, AllPast, Past
  <2>2. \A r \in Rings : Same(r)
    BY DEF Same
  <2> QED  BY <2>1, <2>2, PhaseFrame DEF Inv
<1> QED  BY <1>1, <1>2, <1>3 DEF Next

\* They hold in every state the threads reach.
LEMMA InvAlways == Spec => []Inv
BY InvInit, InvStep, PTL DEF Spec

\* The queues, the events and the positions of both threads keep their types: an
\* event's count is never consumed below zero.
THEOREM IpcTypes == Spec => []TypeOK
<1>1. Inv => TypeOK
  BY DEF Inv
<1> QED  BY <1>1, InvAlways, PTL

\* For every number of rings and calls, a receive fits the buffer made for the size
\* asked for before it: no message comes in between in the synchronous exchange.
THEOREM ReceivesFit == Spec => []ReceiveFits
<1>1. ASSUME Inv PROVE ReceiveFits
  <2> SUFFICES ASSUME NEW r \in Rings
               PROVE  /\ b_pc[r] = "receive" /\ b_queue[r] # << >> => Top(b_queue[r]).size <= b_size[r]
                      /\ a_pc[r] = "receive" /\ a_queue[r] # << >> => Top(a_queue[r]).size <= a_size[r]
    BY DEF ReceiveFits
  <2>1. CASE a_pc[r] = "receive"
    <3>1. Requested(r) /\ InCall(r)
      BY <1>1, <2>1 DEF Inv, Phase, Idle, Requested, Serving, Replied, Collecting,
         Ignored, Waiting
    <3>2. Top(a_queue[r]).size = a_size[r] /\ a_size[r] \in 1 .. 2
      BY <2>1, <3>1, OneMessage, CallMessages DEF Requested
    <3> QED  BY <3>1, <3>2 DEF Requested, Waiting
  <2>2. CASE b_pc[r] = "receive"
    <3>1. Collecting(r)
      BY <1>1, <2>2 DEF Inv, Phase, Idle, Requested, Serving, Replied, Collecting,
         Ignored, Waiting
    <3>2. Top(b_queue[r]).size = b_size[r] /\ b_size[r] \in 1 .. 2
      BY <2>2, <3>1, OneMessage, CallMessages DEF Collecting
    <3> QED  BY <3>1, <3>2 DEF Collecting
  <2> QED  BY <2>1, <2>2
<1> QED  BY <1>1, InvAlways, PTL

\* A woken client and the kernel server that has seen a message find one: the PANIC
\* after a failed receive is not reached.
THEOREM WokenFind == Spec => []WokenFindsMessage
<1>1. ASSUME Inv PROVE WokenFindsMessage
  BY <1>1, OneMessage DEF WokenFindsMessage, Inv, Phase, Idle, Requested, Serving, Replied,
     Collecting, Ignored, Waiting
<1> QED  BY <1>1, InvAlways, PTL

\* The answer a client comes back with is the answer to its last call.
THEOREM RepliesBelong == Spec => []ReplyBelongsToCall
<1>1. ASSUME Inv PROVE ReplyBelongsToCall
  BY <1>1, CallMessages DEF ReplyBelongsToCall, Inv, Phase, Idle, Requested, Serving, Replied,
     Collecting, Ignored, Waiting
<1> QED  BY <1>1, InvAlways, PTL

\* A message waits when it is in a queue of one of the rings.
LEMMA PendingOf ==
    ASSUME NEW x
    PROVE  x \in Pending <=> \E r \in Rings : x \in Queued(r)
BY DEF Pending

\* What waits in a ring, phase by phase.
LEMMA QueuedOf ==
    ASSUME NEW r
    PROVE  /\ a_queue[r] = << >> /\ b_queue[r] = << >> => Queued(r) = {}
           /\ \A m : a_queue[r] = <<m>> /\ b_queue[r] = << >> => Queued(r) = {<<r, "a", m>>}
           /\ \A m : a_queue[r] = << >> /\ b_queue[r] = <<m>> => Queued(r) = {<<r, "b", m>>}
<1>1. DOMAIN << >> = {} /\ \A m : DOMAIN <<m>> = {1} /\ <<m>>[1] = m
  OBVIOUS
<1> QED  BY <1>1 DEF Queued

\* A step that leaves the queues of all other rings alone changes what waits by what
\* it changes in its own ring.
LEMMA PendingFrame ==
    ASSUME NEW r \in Rings,
           \A s \in Rings \ {r} : a_queue'[s] = a_queue[s] /\ b_queue'[s] = b_queue[s],
           NEW x
    PROVE  x \in Pending' <=> \/ x \in Queued(r)'
                              \/ \E s \in Rings \ {r} : x \in Queued(s)
<1>1. \A s \in Rings \ {r} : Queued(s)' = Queued(s)
  BY DEF Queued
<1>2. x \in Pending' <=> \E s \in Rings : x \in Queued(s)'
  BY DEF Pending
<1> QED  BY <1>1, <1>2

\* A message of a ring waits in no other ring.
LEMMA QueuedApart ==
    ASSUME NEW r, NEW s, r # s, NEW d, NEW m
    PROVE  <<r, d, m>> \notin Queued(s)
BY DEF Queued

\* Sending adds a message that is neither waiting nor received before.
LEMMA AddsMessage ==
    ASSUME NEW r \in Rings, NEW d \in {"a", "b"}, NEW m \in Message,
           \A s \in Rings \ {r} : a_queue'[s] = a_queue[s] /\ b_queue'[s] = b_queue[s],
           Queued(r) = {}, Queued(r)' = {<<r, d, m>>},
           <<r, d, m>> \notin received, received' = received
    PROVE  Delivery!Send(<<r, d, m>>)
<1>1. <<r, d, m>> \notin Pending
  BY PendingOf, QueuedApart
<1>2. Pending' = Pending \cup {<<r, d, m>>}
  BY PendingOf, PendingFrame
<1> QED  BY <1>1, <1>2 DEF Delivery!Send

\* Receiving takes it out.
LEMMA TakesMessage ==
    ASSUME NEW r \in Rings, NEW d \in {"a", "b"}, NEW m \in Message,
           \A s \in Rings \ {r} : a_queue'[s] = a_queue[s] /\ b_queue'[s] = b_queue[s],
           Queued(r) = {<<r, d, m>>}, Queued(r)' = {},
           received' = received \cup {<<r, d, m>>}
    PROVE  Delivery!Receive(<<r, d, m>>)
<1>1. <<r, d, m>> \in Pending
  BY PendingOf
<1>2. Pending' = Pending \ {<<r, d, m>>}
  BY PendingOf, PendingFrame, QueuedApart
<1> QED  BY <1>1, <1>2 DEF Delivery!Receive

\* A message is not the absence of one.
LEMMA NoneIsNoMessage == None \notin Message
BY DEF None, Message, AllCommands, Answered

\* Every step of the two threads is a send, a receive or nothing to the mailbox.
LEMMA StepSimulates ==
    ASSUME Inv, [Next]_vars
    PROVE  [Delivery!Next]_<<Pending, received>>
<1> USE DEF queues, server, client
<1>1. ASSUME NEW r \in Rings, Send(r) PROVE Delivery!Next
  <2>1. PICK c \in Commands : Send(r)!(c)
    BY <1>1 DEF Send
  <2>2. Idle(r)
    BY <1>1 DEF Inv, Phase, Idle, Requested, Serving, Replied, Collecting, Ignored,
       Waiting, Send
  <2> DEFINE m == request(c, calls[r] + 1)
  <2>3. m \in Message /\ m.call = calls[r] + 1 /\ calls[r] \in Nat
    BY <2>1, <2>2, MessageOf, CommandAssumption, CallAssumption DEF Idle
  <2>4. a_queue'[r] = <<m>> /\ b_queue'[r] = << >> /\ a_queue[r] = << >> /\ b_queue[r] = << >>
    BY <2>1, <2>2, OneMessage DEF Inv, TypeOK, Idle, Empty
  <2> HIDE DEF m
  <2>5. Queued(r) = {} /\ Queued(r)' = {<<r, "a", m>>}
    <3>1. Queued(r) = {}
      BY <2>4, QueuedOf
    <3>2. Queued(r)' = {<<r, "a", m>>}
      BY <2>4 DEF Queued
    <3> QED  BY <3>1, <3>2
  <2>6. <<r, "a", m>> \notin received
    BY <2>3 DEF Inv, AllPast, Past
  <2>7. /\ \A s \in Rings \ {r} : a_queue'[s] = a_queue[s] /\ b_queue'[s] = b_queue[s]
        /\ received' = received
    BY <2>1 DEF Inv, TypeOK
  <2>8. Delivery!Send(<<r, "a", m>>)
    BY <2>3, <2>5, <2>6, <2>7, AddsMessage
  <2> QED  BY <2>3, <2>8 DEF Delivery!Next
<1>2. ASSUME NEW r \in Rings, Reply(r) PROVE Delivery!Next
  <2>1. Serving(r) /\ InCall(r)
    BY <1>2 DEF Inv, Phase, Idle, Requested, Serving, Replied, Collecting, Ignored,
       Waiting, Reply
  <2> DEFINE m == Answer(r)
  <2>2. m \in Message /\ m.call = calls[r]
    BY <2>1, CallMessages
  <2>3. a_queue'[r] = << >> /\ b_queue'[r] = <<m>> /\ a_queue[r] = << >> /\ b_queue[r] = << >>
    BY <1>2, <2>1, OneMessage DEF Inv, TypeOK, Serving, Empty, Answer, Reply
  <2> HIDE DEF m
  <2>4. Queued(r) = {}
    BY <2>3, QueuedOf
  <2>5. Queued(r)' = {<<r, "b", m>>}
    BY <2>3 DEF Queued
  <2>6. <<r, "b", m>> \notin received
    BY <2>1, <2>2 DEF Inv, AllPast, Past, Serving, Waiting
  <2>7. /\ \A s \in Rings \ {r} : a_queue'[s] = a_queue[s] /\ b_queue'[s] = b_queue[s]
        /\ received' = received
    BY <1>2 DEF Inv, TypeOK, Reply
  <2>8. Delivery!Send(<<r, "b", m>>)
    BY <2>2, <2>4, <2>5, <2>6, <2>7, AddsMessage
  <2> QED  BY <2>2, <2>8 DEF Delivery!Next
<1>3. ASSUME NEW r \in Rings, Receive(r) PROVE Delivery!Next
  <2>1. Collecting(r) /\ InCall(r)
    BY <1>3 DEF Inv, Phase, Idle, Requested, Serving, Replied, Collecting, Ignored,
       Waiting, Receive
  <2> DEFINE m == Answer(r)
  <2>2. m \in Message /\ m # None
    BY <2>1, CallMessages, NoneIsNoMessage
  <2>3. a_queue'[r] = << >> /\ b_queue'[r] = << >> /\ a_queue[r] = << >> /\ b_queue[r] = <<m>>
    BY <1>3, <2>1, OneMessage DEF Inv, TypeOK, Collecting, Receive
  <2> HIDE DEF m
  <2>4. Queued(r) = {<<r, "b", m>>}
    BY <2>3, QueuedOf
  <2>5. Queued(r)' = {}
    BY <2>3 DEF Queued
  <2>6. Taken(b_queue[r]) = m
    BY <2>3, OneMessage
  <2>7. /\ \A s \in Rings \ {r} : a_queue'[s] = a_queue[s] /\ b_queue'[s] = b_queue[s]
        /\ received' = received \cup {<<r, "b", m>>}
    BY <1>3, <2>2, <2>6 DEF Inv, TypeOK, Receive
  <2>8. Delivery!Receive(<<r, "b", m>>)
    BY <2>2, <2>4, <2>5, <2>7, TakesMessage
  <2> QED  BY <2>2, <2>8 DEF Delivery!Next
<1>4. ASSUME NEW r \in Rings, ServerReceive(r) PROVE Delivery!Next
  <2>1. Requested(r) /\ InCall(r)
    BY <1>4 DEF Inv, Phase, Idle, Requested, Serving, Replied, Collecting, Ignored,
       Waiting, ServerReceive
  <2> DEFINE m == Request(r)
  <2>2. m \in Message /\ m # None
    BY <2>1, CallMessages, NoneIsNoMessage
  <2>3. a_queue'[r] = << >> /\ b_queue'[r] = << >> /\ a_queue[r] = <<m>> /\ b_queue[r] = << >>
    BY <1>4, <2>1, OneMessage DEF Inv, TypeOK, Requested, ServerReceive
  <2> HIDE DEF m
  <2>4. Queued(r) = {<<r, "a", m>>}
    BY <2>3, QueuedOf
  <2>5. Queued(r)' = {}
    BY <2>3 DEF Queued
  <2>6. Taken(a_queue[r]) = m
    BY <2>3, OneMessage
  <2>7. /\ \A s \in Rings \ {r} : a_queue'[s] = a_queue[s] /\ b_queue'[s] = b_queue[s]
        /\ received' = received \cup {<<r, "a", m>>}
    BY <1>4, <2>2, <2>6 DEF Inv, TypeOK, ServerReceive
  <2>8. Delivery!Receive(<<r, "a", m>>)
    BY <2>2, <2>4, <2>5, <2>7, TakesMessage
  <2> QED  BY <2>2, <2>8 DEF Delivery!Next
<1>5. ASSUME UNCHANGED <<a_queue, b_queue, received>> PROVE UNCHANGED <<Pending, received>>
  BY <1>5 DEF Pending, Queued
<1>6. ASSUME NEW r \in Rings,
             Block(r) \/ Wake(r) \/ GetSize(r) \/ Poll(r) \/ ServerGetSize(r) \/ UnknownFd(r)
             \/ UnknownCommand(r)
      PROVE  UNCHANGED <<a_queue, b_queue, received>>
  BY <1>6 DEF Block, Wake, GetSize, Poll, ServerGetSize, UnknownFd, UnknownCommand
<1>7. ASSUME UNCHANGED vars PROVE UNCHANGED <<a_queue, b_queue, received>>
  BY <1>7 DEF vars
<1> QED  BY <1>1, <1>2, <1>3, <1>4, <1>5, <1>6, <1>7 DEF Next, Client, Server

\* The rings implement the mailbox: no message is received twice or out of nothing,
\* for every number of rings and calls.
THEOREM IpcImplementsMailbox == Spec => RefinesMailbox
<1>1. ASSUME Init PROVE Delivery!Init
  <2>1. \A r \in Rings : Queued(r) = {}
    BY <1>1, QueuedOf DEF Init
  <2>2. Pending = {}
    BY <2>1, PendingOf
  <2> QED  BY <1>1, <2>2 DEF Init, Delivery!Init
<1>2. Inv /\ [Next]_vars => [Delivery!Next]_<<Pending, received>>
  BY StepSimulates
<1> QED  BY <1>1, <1>2, InvAlways, PTL DEF Spec, RefinesMailbox, Delivery!Spec
==============================================================================
