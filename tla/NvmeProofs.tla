----------------------------- MODULE NvmeProofs -----------------------------
(***************************************************************************)
(* One queue pair with its driver and its controller, for rings of every   *)
(* length: send_and_wait never takes an old completion for the answer to   *)
(* the command it waits for, although it looks at the phase bit alone.     *)
(***************************************************************************)
EXTENDS NvmeQueue, TLAPS

VARIABLES pair, waiting
pairVars == <<pair, waiting>>

PairInit == pair = queue_pair /\ waiting = FALSE

\* send_and_wait: the command is sent, then the head entry is polled until it is new.
Send == ~waiting /\ waiting' = TRUE /\ pair' = send_command(pair)
Serve(failed) == QueueHasWork(pair) /\ pair' = PostCompletion(pair, failed) /\ waiting' = waiting
Take == waiting /\ CompletionSeen(pair) /\ pair' = TakeCompletion(pair) /\ waiting' = FALSE

PairNext == Send \/ (\E failed \in BOOLEAN : Serve(failed)) \/ Take
PairSpec == PairInit /\ [][PairNext]_pairVars

\* What the poll of send_and_wait accepts is the completion of the command sent last,
\* and this command has been served.
AnswerIsOwn ==
    waiting /\ CompletionSeen(pair) =>
        pair.queue[pair.head].of = pair.sent /\ pair.served = pair.sent

-----------------------------------------------------------------------------
\* The ring behind the controller holds this lap's phase, the ring before it the
\* other one.
Lap(p) == \A i \in QueueIndex : p.queue[i].phase = IF i < p.posted THEN p.phase ELSE 1 - p.phase

Level(p) == p.fetched = p.posted /\ p.bell = p.tail

Idle(p) == p.tail = p.posted /\ p.head = p.posted /\ p.expected = p.phase /\ p.sent = p.served
Pending(p) ==
    /\ p.tail = Advance(p.posted) /\ p.head = p.posted
    /\ p.expected = p.phase /\ p.sent = p.served + 1
Answered(p) ==
    /\ p.tail = p.posted /\ p.posted = Advance(p.head) /\ p.phase = ExpectedAfter(p)
    /\ p.sent = p.served /\ p.queue[p.head].of = p.sent

PairInv ==
    /\ pair \in QueuePair /\ waiting \in BOOLEAN
    /\ Lap(pair) /\ Level(pair)
    /\ \/ ~waiting /\ Idle(pair)
       \/ waiting /\ Pending(pair)
       \/ waiting /\ Answered(pair)

\* Both sides advance alike: the driver by comparing, the controller by a remainder.
LEMMA AdvanceFact ==
    ASSUME NEW i \in QueueIndex
    PROVE  /\ WrapOnly(i) = i + 1
           /\ Advance(i) = IF i + 1 = NEntries THEN 0 ELSE i + 1
           /\ Advance(i) \in QueueIndex /\ Advance(i) # i
           /\ (i + 1) % NEntries = Advance(i)
<1>1. i + 1 < IndexModulus /\ i + 1 \in Nat /\ i + 1 <= NEntries
  BY QueueAssumption DEF QueueIndex
<1>2. (i + 1) % IndexModulus = i + 1
  BY <1>1, QueueAssumption
<1>3. CASE i + 1 = NEntries
  <2>1. NEntries % NEntries = 0
    BY QueueAssumption
  <2> QED  BY <1>2, <1>3, <2>1, QueueAssumption DEF WrapOnly, Advance, QueueIndex
<1>4. CASE i + 1 < NEntries
  <2>1. (i + 1) % NEntries = i + 1
    BY <1>1, <1>4, QueueAssumption
  <2> QED  BY <1>2, <1>4, <2>1, QueueAssumption DEF WrapOnly, Advance, QueueIndex
<1> QED  BY <1>1, <1>3, <1>4, QueueAssumption

\* send_command moves the tail, and nothing the poll looks at.
LEMMA SendFact ==
    ASSUME NEW p \in QueuePair
    PROVE  LET q == send_command(p) IN
           /\ q \in QueuePair
           /\ q.tail = Advance(p.tail) /\ q.bell = Advance(p.tail) /\ q.sent = p.sent + 1
           /\ q.head = p.head /\ q.expected = p.expected /\ q.queue = p.queue
           /\ q.fetched = p.fetched /\ q.posted = p.posted /\ q.phase = p.phase
           /\ q.served = p.served
<1>1. Advance(p.tail) \in QueueIndex
  BY AdvanceFact DEF QueuePair
<1>2. p.sent + 1 \in Nat
  BY DEF QueuePair
<1> HIDE DEF Advance, QueueIndex
<1> QED  BY <1>1, <1>2 DEF send_command, QueuePair

\* The controller writes the entry it is at and moves on.
LEMMA PostFact ==
    ASSUME NEW p \in QueuePair, NEW failed \in BOOLEAN
    PROVE  LET q == PostCompletion(p, failed) IN
           /\ q \in QueuePair
           /\ q.fetched = Advance(p.fetched) /\ q.posted = Advance(p.posted)
           /\ q.phase = PhaseAfter(p) /\ q.served = p.served + 1
           /\ q.queue[p.posted].phase = p.phase /\ q.queue[p.posted].of = p.served + 1
           /\ \A i \in QueueIndex \ {p.posted} : q.queue[i] = p.queue[i]
           /\ q.tail = p.tail /\ q.bell = p.bell /\ q.head = p.head
           /\ q.expected = p.expected /\ q.sent = p.sent
<1> DEFINE c == [phase |-> p.phase, of |-> p.served + 1, failed |-> failed]
           f == [p.queue EXCEPT ![p.posted] = c]
<1>1. (p.fetched + 1) % NEntries = Advance(p.fetched) /\ (p.posted + 1) % NEntries = Advance(p.posted)
  BY AdvanceFact DEF QueuePair
<1>2. Advance(p.fetched) \in QueueIndex /\ Advance(p.posted) \in QueueIndex
  BY AdvanceFact DEF QueuePair
<1>3. PhaseAfter(p) \in {0, 1}
  BY DEF PhaseAfter, QueuePair
<1>4. c \in Completion /\ c.phase = p.phase /\ c.of = p.served + 1
  BY DEF Completion, QueuePair
<1>5. /\ f \in [QueueIndex -> Completion] /\ f[p.posted] = c
      /\ \A i \in QueueIndex \ {p.posted} : f[i] = p.queue[i]
  BY <1>4 DEF QueuePair
<1>6. PostCompletion(p, failed) =
        [p EXCEPT !.fetched = Advance(p.fetched), !.queue = f, !.posted = Advance(p.posted),
                  !.phase = PhaseAfter(p), !.served = p.served + 1]
  BY <1>1 DEF PostCompletion, QueuePair
<1>7. p.served + 1 \in Nat
  BY DEF QueuePair
<1> HIDE DEF Advance, QueueIndex, PhaseAfter, c, f
<1>8. /\ PostCompletion(p, failed) \in QueuePair
      /\ PostCompletion(p, failed).queue = f
  BY <1>2, <1>3, <1>5, <1>6, <1>7 DEF QueuePair
<1> QED  BY <1>4, <1>5, <1>6, <1>7, <1>8 DEF QueuePair

\* The driver moves its head, and its phase at the end of a lap.
LEMMA TakeFact ==
    ASSUME NEW p \in QueuePair
    PROVE  LET q == TakeCompletion(p) IN
           /\ q \in QueuePair
           /\ q.head = Advance(p.head) /\ q.expected = ExpectedAfter(p)
           /\ q.tail = p.tail /\ q.bell = p.bell /\ q.sent = p.sent /\ q.queue = p.queue
           /\ q.fetched = p.fetched /\ q.posted = p.posted /\ q.phase = p.phase
           /\ q.served = p.served
<1>1. Advance(p.head) \in QueueIndex
  BY AdvanceFact DEF QueuePair
<1>2. ExpectedAfter(p) \in {0, 1}
  BY DEF ExpectedAfter, QueuePair
<1> HIDE DEF Advance, QueueIndex, ExpectedAfter
<1> QED  BY <1>1, <1>2 DEF TakeCompletion, QueuePair

\* A pair as its constructor makes it satisfies the invariant.
LEMMA InvInit == PairInit => PairInv
<1> SUFFICES ASSUME PairInit PROVE PairInv
  OBVIOUS
<1>1. EmptyCompletion \in Completion
  BY DEF EmptyCompletion, Completion
<1>2. 0 \in QueueIndex
  BY QueueAssumption DEF QueueIndex
<1>3. pair \in QueuePair
  BY <1>1, <1>2 DEF PairInit, queue_pair, QueuePair
<1>4. Lap(pair)
  BY DEF PairInit, queue_pair, Lap, EmptyCompletion, QueueIndex
<1> QED  BY <1>3, <1>4 DEF PairInv, PairInit, queue_pair, Level, Idle

\* Sending a command makes the pair pending.
LEMMA InvSend == PairInv /\ Send => PairInv'
<1> SUFFICES ASSUME PairInv, Send PROVE PairInv'
  OBVIOUS
<1>1. pair \in QueuePair /\ pair' = send_command(pair) /\ Idle(pair)
  BY DEF PairInv, Send
<1>2. pair' \in QueuePair /\ waiting' \in BOOLEAN
  BY <1>1, SendFact DEF Send
<1>3. Lap(pair') /\ Level(pair')
  BY <1>1, SendFact DEF PairInv, Lap, Level
<1>4. Pending(pair')
  BY <1>1, SendFact DEF Idle, Pending
<1> QED  BY <1>2, <1>3, <1>4 DEF PairInv, Send

\* Serving it, with success or failure, makes the pair answered.
LEMMA InvServe == ASSUME NEW failed \in BOOLEAN PROVE PairInv /\ Serve(failed) => PairInv'
<1> SUFFICES ASSUME PairInv, Serve(failed) PROVE PairInv'
  OBVIOUS
<1>1. pair \in QueuePair /\ pair' = PostCompletion(pair, failed) /\ pair.fetched # pair.bell
  BY DEF PairInv, Serve, QueueHasWork
<1>2. waiting /\ Pending(pair)
  BY <1>1 DEF PairInv, Level, Idle, Answered
<1>3. pair.posted \in QueueIndex /\ pair.phase \in {0, 1} /\ pair.expected \in {0, 1}
  BY <1>1 DEF QueuePair
<1>4. pair' \in QueuePair /\ waiting'
  BY <1>1, <1>2, PostFact DEF Serve
<1>5. Level(pair')
  BY <1>1, PostFact DEF PairInv, Level
<1>6. Advance(pair.posted) = IF pair.posted + 1 = NEntries THEN 0 ELSE pair.posted + 1
  BY <1>3, AdvanceFact
<1>7. Lap(pair')
  <2> SUFFICES ASSUME NEW i \in QueueIndex
               PROVE  pair'.queue[i].phase = IF i < pair'.posted THEN pair'.phase ELSE 1 - pair'.phase
    BY DEF Lap
  <2>1. i \in Int /\ 0 <= i /\ i < NEntries /\ pair.posted \in Int /\ pair.posted < NEntries
    BY <1>3, QueueAssumption DEF QueueIndex
  <2>2. pair'.posted = Advance(pair.posted) /\ pair'.phase = PhaseAfter(pair)
    BY <1>1, PostFact
  <2>3. pair'.queue[i].phase =
          IF i = pair.posted THEN pair.phase ELSE IF i < pair.posted THEN pair.phase ELSE 1 - pair.phase
    BY <1>1, PostFact DEF PairInv, Lap
  <2> QED  BY <1>3, <1>6, <2>1, <2>2, <2>3, QueueAssumption DEF PhaseAfter
<1>8. Answered(pair')
  <2>1. pair'.head = pair.posted /\ pair'.posted = Advance(pair.posted) /\ pair'.tail = Advance(pair.posted)
    BY <1>1, <1>2, PostFact DEF Pending
  <2>2. pair'.sent = pair'.served /\ pair'.queue[pair.posted].of = pair'.sent
    BY <1>1, <1>2, PostFact DEF Pending
  <2>3. pair'.phase = ExpectedAfter(pair')
    BY <1>1, <1>2, <1>3, <2>1, PostFact, AdvanceFact DEF Pending, PhaseAfter, ExpectedAfter
  <2> QED  BY <2>1, <2>2, <2>3 DEF Answered
<1> QED  BY <1>4, <1>5, <1>7, <1>8 DEF PairInv

\* A completion is seen only when the pair has been answered.
LEMMA SeenIsAnswered == PairInv /\ waiting /\ CompletionSeen(pair) => Answered(pair)
<1> SUFFICES ASSUME PairInv, waiting, CompletionSeen(pair), Pending(pair) PROVE FALSE
  BY DEF PairInv
<1>1. pair.posted \in QueueIndex /\ pair.posted \in Int /\ pair.phase \in {0, 1}
  BY DEF PairInv, QueuePair, QueueIndex
<1>2. pair.queue[pair.posted].phase = 1 - pair.phase
  BY <1>1 DEF PairInv, Lap
<1> QED  BY <1>1, <1>2 DEF Pending, CompletionSeen

\* Taking the answer makes the pair idle again.
LEMMA InvTake == PairInv /\ Take => PairInv'
<1> SUFFICES ASSUME PairInv, Take PROVE PairInv'
  OBVIOUS
<1>1. pair \in QueuePair /\ pair' = TakeCompletion(pair) /\ Answered(pair)
  BY SeenIsAnswered DEF PairInv, Take
<1>2. pair' \in QueuePair /\ waiting' \in BOOLEAN
  BY <1>1, TakeFact DEF Take
<1>3. Lap(pair') /\ Level(pair')
  BY <1>1, TakeFact DEF PairInv, Lap, Level
<1>4. Idle(pair')
  BY <1>1, TakeFact DEF Idle, Answered
<1> QED  BY <1>2, <1>3, <1>4 DEF PairInv, Take

\* The phases are an invariant of every pair, whatever its length.
THEOREM PairInvariant == PairSpec => []PairInv
<1>1. PairInv /\ [PairNext]_pairVars => PairInv'
  <2> SUFFICES ASSUME PairInv, [PairNext]_pairVars PROVE PairInv'
    OBVIOUS
  <2>1. CASE UNCHANGED pairVars
    BY <2>1 DEF PairInv, Lap, Level, Idle, Pending, Answered, pairVars
  <2>2. CASE Send
    BY <2>2, InvSend
  <2>3. CASE \E failed \in BOOLEAN : Serve(failed)
    BY <2>3, InvServe
  <2>4. CASE Take
    BY <2>4, InvTake
  <2> QED  BY <2>1, <2>2, <2>3, <2>4 DEF PairNext
<1> QED  BY <1>1, InvInit, PTL DEF PairSpec

\* send_and_wait returns the completion of its own command, for every length of the
\* rings that 16 bit indices can tell apart.
THEOREM PollTakesOwnCompletion == PairSpec => []AnswerIsOwn
<1>1. PairInv => AnswerIsOwn
  BY SeenIsAnswered DEF AnswerIsOwn, Answered
<1> QED  BY <1>1, PairInvariant, PTL
=============================================================================
