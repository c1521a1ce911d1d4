----------------------------- MODULE HeapProofs -----------------------------
(***************************************************************************)
(* The heap is sound for any number of clients, any sizes and any amount   *)
(* of memory.  The invariant follows who holds a block: a client holds     *)
(* what it owns, what it is about to free and what it is about to be       *)
(* given.  No two clients hold the same block, a block that is held is not *)
(* marked free, and only the holder of the mutex moves a block between     *)
(* free and held.                                                          *)
(***************************************************************************)
EXTENDS Heap, TLAPS

Ops == {"none", "alloc", "alloc_a", "free", "realloc"}
Inside == {"find", "morecore", "fill", "link", "mark", "unlock"}
Steps == {"idle", "lock"} \union Inside
HeaderRec == [size : Nat, free : BOOLEAN, magic : BOOLEAN]
CallRec == [op : Ops, size : Nat, align : Alignments, old : Int, ret : Int]
GrantRec == [ptr : Int, size : Nat, align : Alignments]

HeapTypeOK ==
    /\ list \in Seq(Nat)
    /\ mem \in [DOMAIN mem -> HeaderRec] /\ DOMAIN mem \subseteq Nat
    /\ brk \in Nat /\ mapped \in Nat /\ frames \in Nat
    /\ mutex \in Clients \union {Nobody}
    /\ step \in [Clients -> Steps]
    /\ call \in [Clients -> CallRec]
    /\ owned \in [Clients -> SUBSET GrantRec]
    /\ watch \in Nat /\ alarm \in BOOLEAN

\* Only the holder of the mutex is inside.
Locked == \A p \in Clients : step[p] \in Inside <=> mutex = p

Owns(p) == {g.ptr : g \in owned[p]}
Frees(p) == IF call[p].op = "free" /\ step[p] \in {"lock", "mark"} THEN {call[p].old} ELSE {}
Gets(p) == IF step[p] \in {"fill", "link", "unlock"} /\ call[p].ret # 0 THEN {call[p].ret} ELSE {}
Holds(p) == Owns(p) \union Frees(p) \union Gets(p)

\* Where a client is says what it asked for.
Called ==
    \A p \in Clients :
        /\ step[p] = "idle" => call[p].op = "none"
        /\ step[p] = "lock" => call[p].op # "none"
        /\ step[p] = "find" => call[p].op \in {"alloc", "realloc"}
        /\ step[p] \in {"morecore", "fill", "link"} => call[p].op \in {"alloc", "alloc_a", "realloc"}
        /\ step[p] = "mark" => call[p].op = "free"
        /\ step[p] \in {"lock", "find", "morecore"} \/ call[p].op = "free" => call[p].ret = 0
        /\ step[p] \in {"fill", "link"} => call[p].ret # 0
        /\ call[p].op # "alloc_a" => call[p].align = 16
        /\ call[p].op = "realloc" => call[p].old \in Owns(p)

\* Blocks with their headers are disjoint, below the end and in mapped pages.
Blocks ==
    /\ brk >= HeapBase
    /\ \A a \in DOMAIN mem :
           /\ a >= HeapBase /\ a % 16 = 0
           /\ a + header_size + mem[a].size <= brk /\ a + header_size + mem[a].size <= mapped
    /\ \A a, b \in DOMAIN mem :
           a # b => Disjoint(a, header_size + mem[a].size, b, header_size + mem[b].size)

\* A block that is being made lies above all others and has room for its size.
Fresh ==
    \A p \in Clients : step[p] = "fill" =>
        /\ call[p].ret + call[p].size <= brk /\ call[p].ret + call[p].size <= mapped
        /\ \A b \in DOMAIN mem \ {HeaderOf(call[p].ret)} :
               b + header_size + mem[b].size <= HeaderOf(call[p].ret)

\* What a client gets suits its request.
Suits ==
    \A p \in Clients : step[p] \in {"fill", "link", "unlock"} /\ call[p].ret # 0 =>
        /\ call[p].ret % call[p].align = 0
        /\ step[p] # "fill" => call[p].size <= mem[HeaderOf(call[p].ret)].size

Live(x) == HeaderOf(x) \in DOMAIN mem /\ mem[HeaderOf(x)].free = FALSE
HeldLive == \A p \in Clients : \A x \in Holds(p) : Live(x)
HeldOnce == \A p, q \in Clients : p # q => Holds(p) \intersect Holds(q) = {}
HeldOneWay ==
    \A p \in Clients : Owns(p) \intersect Frees(p) = {} /\ Owns(p) \intersect Gets(p) = {}

\* A grant fits its block, and a block has one grant.
Granted ==
    \A p \in Clients :
        /\ \A g \in owned[p] : g.size <= mem[HeaderOf(g.ptr)].size /\ g.ptr % g.align = 0
        /\ \A g, h \in owned[p] : g.ptr = h.ptr => g = h

\* Linked headers are complete; the watchdog is at one of them.
Watched ==
    /\ \A i \in DOMAIN list : list[i] \in DOMAIN mem /\ mem[list[i]].magic = TRUE
    /\ \A p \in Clients : step[p] = "link" => mem[HeaderOf(call[p].ret)].magic = TRUE
    /\ watch <= Len(list) /\ alarm = FALSE

HeapInv ==
    /\ HeapTypeOK /\ Locked /\ Called
    /\ Blocks /\ Fresh /\ Suits
    /\ HeldLive /\ HeldOnce /\ HeldOneWay /\ Granted
    /\ Watched
-----------------------------------------------------------------------------
\* The records the code builds have the types the invariant gives them.
LEMMA NoCallTyped ==
    NoCall \in CallRec /\ NoCall.op = "none" /\ NoCall.ret = 0 /\ NoCall.align = 16
BY DEF NoCall, CallRec, Ops, Alignments

LEMMA FreeCall ==
    ASSUME NEW old \in Int
    PROVE  LET c == [NoCall EXCEPT !.op = "free", !.old = old] IN
           c \in CallRec /\ c.op = "free" /\ c.old = old /\ c.ret = 0 /\ c.align = 16
BY NoCallTyped DEF CallRec, Ops

\* A client that takes no part keeps what it holds.
LEMMA OtherHolds ==
    ASSUME NEW q \in Clients, step'[q] = step[q], call'[q] = call[q], owned'[q] = owned[q]
    PROVE  Owns(q)' = Owns(q) /\ Frees(q)' = Frees(q) /\ Gets(q)' = Gets(q) /\ Holds(q)' = Holds(q)
<1>1. Owns(q)' = Owns(q)
  BY DEF Owns
<1>2. Frees(q)' = Frees(q)
  BY DEF Frees
<1>3. Gets(q)' = Gets(q)
  BY DEF Gets
<1> QED  BY <1>1, <1>2, <1>3 DEF Holds

\* When nobody holds more, and what is held stays live, holding stays as it was.
LEMMA HoldsShrink ==
    ASSUME HeldLive, HeldOnce,
           \A q \in Clients : Holds(q)' \subseteq Holds(q),
           \A q \in Clients : \A x \in Holds(q)' : Live(x) => Live(x)'
    PROVE  HeldLive' /\ HeldOnce'
<1>1. HeldLive'
  BY DEF HeldLive
<1>2. HeldOnce'
  BY DEF HeldOnce
<1> QED  BY <1>1, <1>2

\* An empty heap that nobody uses satisfies the invariant.
LEMMA InitInv == HeapInit => HeapInv
<1> SUFFICES ASSUME HeapInit PROVE HeapInv
  OBVIOUS
<1>1. HeapTypeOK
  <2>1. mem \in [DOMAIN mem -> HeaderRec] /\ DOMAIN mem \subseteq Nat
    BY DEF HeapInit
  <2>2. step \in [Clients -> Steps] /\ call \in [Clients -> CallRec] /\ owned \in [Clients -> SUBSET GrantRec]
    BY NoCallTyped DEF HeapInit, Steps
  <2>3. list \in Seq(Nat) /\ brk \in Nat /\ mapped \in Nat /\ frames \in Nat /\ watch \in Nat
    BY HeapAssumption DEF HeapInit, HeapBase
  <2> QED  BY <2>1, <2>2, <2>3 DEF HeapInit, HeapTypeOK
<1>2. Locked
  BY HeapAssumption DEF HeapInit, Locked, Nobody, Inside
<1>3. Called /\ Fresh /\ Suits
  BY NoCallTyped DEF HeapInit, Called, Fresh, Suits
<1>4. Blocks
  BY DEF HeapInit, Blocks, HeapBase
<1>5. \A p \in Clients : Owns(p) = {} /\ Frees(p) = {} /\ Gets(p) = {}
  BY NoCallTyped DEF HeapInit, Owns, Frees, Gets
<1>6. HeldLive /\ HeldOnce /\ HeldOneWay
  BY <1>5 DEF HeldLive, HeldOnce, HeldOneWay, Holds
<1>7. Granted /\ Watched
  BY DEF HeapInit, Granted, Watched
<1> QED  BY <1>1, <1>2, <1>3, <1>4, <1>6, <1>7 DEF HeapInv

\* alloc::init only maps pages.
LEMMA StartInv == HeapInv /\ HeapStart => HeapInv'
<1> SUFFICES ASSUME HeapInv, HeapStart PROVE HeapInv'
  OBVIOUS
<1>1. mapped' \in Nat /\ frames' \in Nat /\ mapped' >= mapped
  BY DEF HeapInv, HeapTypeOK, HeapStart, init_pages, block_size
<1>2. HeapTypeOK' /\ Locked'
  BY <1>1 DEF HeapInv, HeapTypeOK, Locked, HeapStart
<1>3. \A q \in Clients : Owns(q)' = Owns(q) /\ Frees(q)' = Frees(q) /\ Gets(q)' = Gets(q) /\ Holds(q)' = Holds(q)
  BY OtherHolds DEF HeapStart
<1>4. Called' /\ Suits'
  BY <1>3 DEF HeapInv, Called, Suits, HeapStart
<1>5. Blocks'
  BY <1>1 DEF HeapInv, HeapTypeOK, HeaderRec, Blocks, HeapStart, header_size
<1>6. Fresh'
  BY <1>1 DEF HeapInv, HeapTypeOK, CallRec, Fresh, HeapStart
<1>7. HeldLive' /\ HeldOnce' /\ HeldOneWay'
  BY <1>3 DEF HeapInv, HeldLive, HeldOnce, HeldOneWay, Live, HeapStart
<1>8. Granted' /\ Watched'
  BY DEF HeapInv, Granted, Watched, HeapStart
<1> QED  BY <1>2, <1>4, <1>5, <1>6, <1>7, <1>8 DEF HeapInv
\* A call that is refused at once leaves everything as it was.
LEMMA StutterInv == HeapInv /\ UNCHANGED heapVars => HeapInv'
<1> SUFFICES ASSUME HeapInv, UNCHANGED heapVars PROVE HeapInv'
  OBVIOUS
<1> USE DEF HeapInv, heapVars
<1>1. HeapTypeOK' /\ Locked'
  BY DEF HeapTypeOK, Locked
<1>2. \A q \in Clients : Owns(q)' = Owns(q) /\ Frees(q)' = Frees(q) /\ Gets(q)' = Gets(q) /\ Holds(q)' = Holds(q)
  BY OtherHolds
<1>3. Called' /\ Blocks' /\ Fresh' /\ Suits'
  BY <1>2 DEF Called, Blocks, Fresh, Suits
<1>4. HeldLive' /\ HeldOnce' /\ HeldOneWay'
  BY <1>2 DEF HeldLive, HeldOnce, HeldOneWay, Live
<1>5. Granted' /\ Watched'
  BY DEF Granted, Watched
<1> QED  BY <1>1, <1>3, <1>4, <1>5

\* A call that starts holds nothing new.
LEMMA AllocInv ==
    ASSUME NEW p \in Clients, NEW op \in {"alloc", "alloc_a"}, NEW size \in Sizes, NEW align \in Alignments
    PROVE  HeapInv /\ Alloc(p, op, size, align) => HeapInv'
<1> SUFFICES ASSUME HeapInv, Alloc(p, op, size, align) PROVE HeapInv'
  OBVIOUS
<1> DEFINE c == [NoCall EXCEPT !.op = op, !.size = size, !.align = align]
<1>1. CASE op = "alloc" /\ size = 0
  <2>1. UNCHANGED heapVars
    BY <1>1 DEF Alloc, heapVars
  <2> QED  BY <2>1, StutterInv
<1>2. CASE ~ (op = "alloc" /\ size = 0)
  <2>0. op \in Ops /\ size \in Nat
    BY HeapAssumption DEF Ops
  <2>1. c \in CallRec /\ c.op = op /\ c.align = align /\ c.ret = 0
    BY <2>0, NoCallTyped DEF CallRec
  <2> HIDE DEF c
  <2>2. /\ step[p] = "idle" /\ step' = [step EXCEPT ![p] = "lock"] /\ call' = [call EXCEPT ![p] = c]
        /\ UNCHANGED <<list, mem, brk, mapped, frames, mutex, owned, watch, alarm>>
        /\ op = "alloc" => align = 16
    BY <1>2 DEF Alloc, Goto, c
  <2>3. HeapTypeOK'
    BY <2>1, <2>2 DEF HeapInv, HeapTypeOK, Steps
  <2>4. /\ step'[p] = "lock" /\ call'[p] = c
        /\ \A q \in Clients \ {p} : step'[q] = step[q] /\ call'[q] = call[q]
    BY <2>2 DEF HeapInv, HeapTypeOK
  <2>5. \A q \in Clients \ {p} : Owns(q)' = Owns(q) /\ Frees(q)' = Frees(q) /\ Gets(q)' = Gets(q) /\ Holds(q)' = Holds(q)
    BY <2>2, <2>4, OtherHolds
  <2>6. Owns(p)' = Owns(p) /\ Frees(p)' = {} /\ Gets(p)' = {}
    BY <2>1, <2>2, <2>4 DEF Owns, Frees, Gets
  <2>7. Locked'
    BY <2>2, <2>4 DEF HeapInv, Locked, Inside
  <2>8. Called'
    BY <2>1, <2>2, <2>4, <2>5 DEF HeapInv, Called
  <2>9. Blocks' /\ Fresh' /\ Suits'
    BY <2>2, <2>4 DEF HeapInv, Blocks, Fresh, Suits
  <2>10. \A q \in Clients : Holds(q)' \subseteq Holds(q)
    BY <2>5, <2>6 DEF Holds
  <2>11. HeldLive' /\ HeldOnce'
    BY <2>2, <2>10, HoldsShrink DEF HeapInv, Live
  <2>12. HeldOneWay'
    BY <2>5, <2>6 DEF HeapInv, HeldOneWay
  <2>13. Granted' /\ Watched'
    BY <2>2, <2>4 DEF HeapInv, Granted, Watched
  <2> QED  BY <2>3, <2>7, <2>8, <2>9, <2>11, <2>12, <2>13 DEF HeapInv
<1> QED  BY <1>1, <1>2

\* free: the block is held for the call instead of owned.
LEMMA FreeInv ==
    ASSUME NEW p \in Clients, NEW g \in owned[p]
    PROVE  HeapInv /\ Free(p, g) => HeapInv'
<1> SUFFICES ASSUME HeapInv, Free(p, g) PROVE HeapInv'
  OBVIOUS
<1> DEFINE c == [NoCall EXCEPT !.op = "free", !.old = g.ptr]
<1>1. g \in GrantRec /\ g.ptr \in Int
  BY DEF HeapInv, HeapTypeOK, GrantRec
<1>2. c \in CallRec /\ c.op = "free" /\ c.old = g.ptr /\ c.ret = 0 /\ c.align = 16
  BY <1>1, FreeCall
<1> HIDE DEF c
<1>3. /\ step[p] = "idle" /\ step' = [step EXCEPT ![p] = "lock"] /\ call' = [call EXCEPT ![p] = c]
      /\ owned' = [owned EXCEPT ![p] = owned[p] \ {g}]
      /\ UNCHANGED <<list, mem, brk, mapped, frames, mutex, watch, alarm>>
  BY DEF Free, Goto, c
<1>4. HeapTypeOK'
  BY <1>2, <1>3 DEF HeapInv, HeapTypeOK, Steps
<1>5. /\ step'[p] = "lock" /\ call'[p] = c /\ owned'[p] = owned[p] \ {g}
      /\ \A q \in Clients \ {p} : step'[q] = step[q] /\ call'[q] = call[q] /\ owned'[q] = owned[q]
  BY <1>3 DEF HeapInv, HeapTypeOK
<1>6. \A q \in Clients \ {p} : Owns(q)' = Owns(q) /\ Frees(q)' = Frees(q) /\ Gets(q)' = Gets(q) /\ Holds(q)' = Holds(q)
  BY <1>3, <1>5, OtherHolds
<1>7. Owns(p)' = Owns(p) \ {g.ptr} /\ Frees(p)' = {g.ptr} /\ Gets(p)' = {} /\ g.ptr \in Owns(p)
  BY <1>2, <1>3, <1>5 DEF HeapInv, Granted, Owns, Frees, Gets
<1>8. Locked'
  BY <1>3, <1>5 DEF HeapInv, Locked, Inside
<1>9. Called'
  BY <1>2, <1>3, <1>5, <1>6 DEF HeapInv, Called
<1>10. Blocks' /\ Fresh' /\ Suits'
  BY <1>3, <1>5 DEF HeapInv, Blocks, Fresh, Suits
<1>11. \A q \in Clients : Holds(q)' \subseteq Holds(q)
  BY <1>6, <1>7 DEF Holds
<1>12. HeldLive' /\ HeldOnce'
  BY <1>3, <1>11, HoldsShrink DEF HeapInv, Live
<1>13. HeldOneWay'
  BY <1>6, <1>7 DEF HeapInv, HeldOneWay
<1>14. Granted' /\ Watched'
  BY <1>3, <1>5 DEF HeapInv, Granted, Watched
<1> QED  BY <1>4, <1>8, <1>9, <1>10, <1>12, <1>13, <1>14 DEF HeapInv
\* realloc: a block that is large enough changes its grant only; otherwise alloc
\* is entered with the block still owned.
LEMMA ReallocInv ==
    ASSUME NEW p \in Clients, NEW g \in owned[p], NEW size \in Sizes
    PROVE  HeapInv /\ Realloc(p, g, size) => HeapInv'
<1> SUFFICES ASSUME HeapInv, Realloc(p, g, size) PROVE HeapInv'
  OBVIOUS
<1> DEFINE h == mem[HeaderOf(g.ptr)]
           n == [g EXCEPT !.size = size, !.align = 16]
           c == [op |-> "realloc", size |-> size, align |-> 16, old |-> g.ptr, ret |-> 0]
<1>1. size \in Nat /\ g \in GrantRec /\ g.ptr \in Int /\ g.ptr \in Owns(p)
  BY HeapAssumption DEF HeapInv, HeapTypeOK, GrantRec, Owns
<1>2. /\ step[p] = "idle" /\ UNCHANGED <<list, mem, brk, mapped, frames, mutex, watch, alarm>>
      /\ \/ UNCHANGED <<step, call, owned>>
         \/ h.size >= size /\ owned' = [owned EXCEPT ![p] = (owned[p] \ {g}) \union {n}] /\ UNCHANGED <<step, call>>
         \/ call' = [call EXCEPT ![p] = c] /\ step' = [step EXCEPT ![p] = "lock"] /\ UNCHANGED owned
  BY DEF Realloc, Goto
<1>3. CASE UNCHANGED <<step, call, owned>>
  BY <1>2, <1>3, StutterInv DEF heapVars
<1>4. CASE h.size >= size /\ owned' = [owned EXCEPT ![p] = (owned[p] \ {g}) \union {n}] /\ UNCHANGED <<step, call>>
  <2>1. n \in GrantRec /\ n.ptr = g.ptr /\ n.size = size /\ n.align = 16
    BY <1>1 DEF GrantRec, Alignments
  <2> HIDE DEF n
  <2>2. HeapTypeOK'
    BY <1>2, <1>4, <2>1 DEF HeapInv, HeapTypeOK
  <2>3. owned'[p] = (owned[p] \ {g}) \union {n} /\ \A q \in Clients \ {p} : owned'[q] = owned[q]
    BY <1>4 DEF HeapInv, HeapTypeOK
  <2>4. \A q \in Clients : Owns(q)' = Owns(q)
    <3>1. Owns(p)' = Owns(p)
      BY <2>1, <2>3, <1>1 DEF HeapInv, Granted, Owns
    <3> QED  BY <3>1, <2>3 DEF Owns
  <2>5. \A q \in Clients : Frees(q)' = Frees(q) /\ Gets(q)' = Gets(q)
    BY <1>4 DEF Frees, Gets
  <2>6. \A q \in Clients : Holds(q)' = Holds(q)
    BY <2>4, <2>5 DEF Holds
  <2>7. g.ptr % 16 = 0
    <3>1. g.ptr % g.align = 0 /\ g.align \in {16, 64}
      BY <1>1 DEF HeapInv, Granted, GrantRec, Alignments
    <3> QED  BY <1>1, <3>1
  <2>8. Locked' /\ Called' /\ Blocks' /\ Fresh' /\ Suits'
    BY <1>2, <1>4, <2>4 DEF HeapInv, Locked, Called, Blocks, Fresh, Suits
  <2>9. HeldLive' /\ HeldOnce' /\ HeldOneWay'
    BY <1>2, <2>4, <2>5, <2>6 DEF HeapInv, HeldLive, HeldOnce, HeldOneWay, Live
  <2>10. size <= mem[HeaderOf(n.ptr)].size
    <3>1. HeaderOf(g.ptr) \in DOMAIN mem
      BY <1>1 DEF HeapInv, HeldLive, Live, Holds
    <3> QED  BY <1>1, <1>4, <2>1, <3>1 DEF HeapInv, HeapTypeOK, HeaderRec
  <2>11. Granted'
    BY <1>2, <2>1, <2>3, <2>7, <2>10 DEF HeapInv, Granted
  <2>12. Watched'
    BY <1>2, <1>4 DEF HeapInv, Watched
  <2> QED  BY <2>2, <2>8, <2>9, <2>11, <2>12 DEF HeapInv
<1>5. CASE call' = [call EXCEPT ![p] = c] /\ step' = [step EXCEPT ![p] = "lock"] /\ UNCHANGED owned
  <2>1. c \in CallRec /\ c.op = "realloc" /\ c.align = 16 /\ c.ret = 0 /\ c.old = g.ptr
    BY <1>1 DEF CallRec, Ops, Alignments
  <2> HIDE DEF c
  <2>2. HeapTypeOK'
    BY <1>2, <1>5, <2>1 DEF HeapInv, HeapTypeOK, Steps
  <2>3. /\ step'[p] = "lock" /\ call'[p] = c
        /\ \A q \in Clients \ {p} : step'[q] = step[q] /\ call'[q] = call[q]
    BY <1>5 DEF HeapInv, HeapTypeOK
  <2>4. \A q \in Clients \ {p} : Owns(q)' = Owns(q) /\ Frees(q)' = Frees(q) /\ Gets(q)' = Gets(q) /\ Holds(q)' = Holds(q)
    BY <1>5, <2>3, OtherHolds
  <2>5. Owns(p)' = Owns(p) /\ Frees(p)' = {} /\ Gets(p)' = {}
    BY <1>5, <2>1, <2>3 DEF Owns, Frees, Gets
  <2>6. Locked'
    BY <1>2, <2>3 DEF HeapInv, Locked, Inside
  <2>7. Called'
    BY <1>1, <1>2, <2>1, <2>3, <2>4, <2>5 DEF HeapInv, Called
  <2>8. Blocks' /\ Fresh' /\ Suits'
    BY <1>2, <2>3 DEF HeapInv, Blocks, Fresh, Suits
  <2>9. \A q \in Clients : Holds(q)' \subseteq Holds(q)
    BY <2>4, <2>5 DEF Holds
  <2>10. HeldLive' /\ HeldOnce'
    BY <1>2, <2>9, HoldsShrink DEF HeapInv, Live
  <2>11. HeldOneWay'
    BY <2>4, <2>5 DEF HeapInv, HeldOneWay
  <2>12. Granted' /\ Watched'
    BY <1>2, <1>5, <2>3 DEF HeapInv, Granted, Watched
  <2> QED  BY <2>2, <2>6, <2>7, <2>8, <2>10, <2>11, <2>12 DEF HeapInv
<1> QED  BY <1>2, <1>3, <1>4, <1>5

\* The mutex lets one client in.
LEMMA AcquireInv == ASSUME NEW p \in Clients PROVE HeapInv /\ Acquire(p) => HeapInv'
<1> SUFFICES ASSUME HeapInv, Acquire(p) PROVE HeapInv'
  OBVIOUS
<1> DEFINE s == CASE call[p].op = "free" -> "mark" [] call[p].op = "alloc_a" -> "morecore" [] OTHER -> "find"
<1>1. /\ step[p] = "lock" /\ mutex = Nobody /\ mutex' = p /\ step' = [step EXCEPT ![p] = s]
      /\ UNCHANGED <<list, mem, brk, mapped, frames, call, owned, watch, alarm>>
  BY DEF Acquire, Goto
<1>2. call[p].op \in Ops \ {"none"}
  BY <1>1 DEF HeapInv, HeapTypeOK, CallRec, Called
<1>3. /\ s \in {"mark", "morecore", "find"} /\ (s = "mark" <=> call[p].op = "free")
      /\ s = "morecore" => call[p].op = "alloc_a"
      /\ s = "find" => call[p].op \in {"alloc", "realloc"}
  BY <1>2 DEF Ops
<1> HIDE DEF s
<1>4. HeapTypeOK'
  BY <1>1, <1>3 DEF HeapInv, HeapTypeOK, Steps, Inside
<1>5. step'[p] = s /\ \A q \in Clients \ {p} : step'[q] = step[q]
  BY <1>1 DEF HeapInv, HeapTypeOK
<1>6. Locked'
  BY <1>1, <1>3, <1>5, HeapAssumption DEF HeapInv, Locked, Inside, Nobody
<1>7. \A q \in Clients : Owns(q)' = Owns(q)
  BY <1>1 DEF Owns
<1>8. \A q \in Clients : Frees(q)' = Frees(q) /\ Gets(q)' = Gets(q)
  BY <1>1, <1>3, <1>5 DEF Frees, Gets
<1>9. \A q \in Clients : Holds(q)' = Holds(q)
  BY <1>7, <1>8 DEF Holds
<1>10. Called'
  BY <1>1, <1>2, <1>3, <1>5, <1>7 DEF HeapInv, Called, Ops
<1>11. Blocks' /\ Fresh' /\ Suits'
  BY <1>1, <1>3, <1>5 DEF HeapInv, Blocks, Fresh, Suits
<1>12. HeldLive' /\ HeldOnce' /\ HeldOneWay'
  BY <1>1, <1>7, <1>8, <1>9 DEF HeapInv, HeldLive, HeldOnce, HeldOneWay, Live
<1>13. Granted' /\ Watched'
  BY <1>1, <1>3, <1>5 DEF HeapInv, Granted, Watched
<1> QED  BY <1>4, <1>6, <1>10, <1>11, <1>12, <1>13 DEF HeapInv

\* The free flag of a header changes nothing else.
LEMMA FreeFlag ==
    ASSUME HeapTypeOK, NEW a \in DOMAIN mem, NEW v \in BOOLEAN, mem' = [mem EXCEPT ![a].free = v]
    PROVE  /\ DOMAIN mem' = DOMAIN mem /\ mem' \in [DOMAIN mem' -> HeaderRec]
           /\ \A x \in DOMAIN mem : mem'[x].size = mem[x].size /\ mem'[x].magic = mem[x].magic
           /\ mem'[a].free = v /\ \A x \in DOMAIN mem \ {a} : mem'[x] = mem[x]
<1>1. mem \in [DOMAIN mem -> HeaderRec]
  BY DEF HeapTypeOK
<1>2. mem[a] \in HeaderRec
  BY <1>1
<1> DEFINE h == [mem[a] EXCEPT !.free = v]
<1>3. h \in HeaderRec /\ h.size = mem[a].size /\ h.magic = mem[a].magic /\ h.free = v
  BY <1>2 DEF HeaderRec
<1>4. mem' = [mem EXCEPT ![a] = h]
  OBVIOUS
<1> HIDE DEF h
<1> QED  BY <1>1, <1>3, <1>4

\* alloc and realloc take the first free block that fits: nobody holds it.
LEMMA FindInv == ASSUME NEW p \in Clients PROVE HeapInv /\ Find(p) => HeapInv'
<1> SUFFICES ASSUME HeapInv, Find(p) PROVE HeapInv'
  OBVIOUS
<1> DEFINE found == get_free_block(call[p].size)
           i == CHOOSE i \in found : TRUE
           a == list[i]
<1>1. /\ step[p] = "find" /\ UNCHANGED <<list, brk, mapped, frames, mutex, owned, watch, alarm>>
      /\ \/ found = {} /\ step' = [step EXCEPT ![p] = "morecore"] /\ UNCHANGED <<mem, call>>
         \/ /\ found # {} /\ step' = [step EXCEPT ![p] = "unlock"]
            /\ IF mem[a].magic
               THEN mem' = [mem EXCEPT ![a].free = FALSE] /\ call' = [call EXCEPT ![p].ret = Payload(a)]
               ELSE UNCHANGED <<mem, call>>
  BY DEF Find, Goto, Returns
<1>2. call[p].op \in {"alloc", "realloc"} /\ call[p].ret = 0 /\ call[p].align = 16 /\ call[p] \in CallRec
  BY <1>1 DEF HeapInv, HeapTypeOK, Called
<1>3. Frees(p) = {} /\ Gets(p) = {}
  BY <1>1, <1>2 DEF Frees, Gets
<1>4. CASE found = {} /\ step' = [step EXCEPT ![p] = "morecore"] /\ UNCHANGED <<mem, call>>
  <2>1. HeapTypeOK'
    BY <1>1, <1>4 DEF HeapInv, HeapTypeOK, Steps, Inside
  <2>2. step'[p] = "morecore" /\ \A q \in Clients \ {p} : step'[q] = step[q]
    BY <1>4 DEF HeapInv, HeapTypeOK
  <2>3. \A q \in Clients \ {p} : Owns(q)' = Owns(q) /\ Frees(q)' = Frees(q) /\ Gets(q)' = Gets(q) /\ Holds(q)' = Holds(q)
    BY <1>1, <1>4, <2>2, OtherHolds
  <2>4. Owns(p)' = Owns(p) /\ Frees(p)' = {} /\ Gets(p)' = {}
    BY <1>1, <1>2, <1>4, <2>2 DEF Owns, Frees, Gets
  <2>5. Locked'
    BY <1>1, <2>2 DEF HeapInv, Locked, Inside
  <2>6. Called'
    BY <1>1, <1>2, <1>4, <2>2, <2>3, <2>4 DEF HeapInv, Called
  <2>7. Blocks' /\ Fresh' /\ Suits'
    BY <1>1, <1>4, <2>2 DEF HeapInv, Blocks, Fresh, Suits
  <2>8. \A q \in Clients : Holds(q)' \subseteq Holds(q)
    BY <2>3, <2>4 DEF Holds
  <2>9. HeldLive' /\ HeldOnce'
    BY <1>4, <2>8, HoldsShrink DEF HeapInv, Live
  <2>10. HeldOneWay'
    BY <2>3, <2>4 DEF HeapInv, HeldOneWay
  <2>11. Granted' /\ Watched'
    BY <1>1, <1>4, <2>2 DEF HeapInv, Granted, Watched
  <2> QED  BY <2>1, <2>5, <2>6, <2>7, <2>9, <2>10, <2>11 DEF HeapInv
<1>5. CASE /\ found # {} /\ step' = [step EXCEPT ![p] = "unlock"]
           /\ IF mem[a].magic
              THEN mem' = [mem EXCEPT ![a].free = FALSE] /\ call' = [call EXCEPT ![p].ret = Payload(a)]
              ELSE UNCHANGED <<mem, call>>
  <2>1. i \in DOMAIN list /\ mem[a].free /\ mem[a].size >= call[p].size
    <3>1. i \in found
      BY <1>5
    <3> QED  BY <3>1 DEF get_free_block, Fits
  <2> HIDE DEF i
  <2>2. a \in DOMAIN mem /\ mem[a].magic = TRUE
    BY <2>1 DEF HeapInv, Watched
  <2>3. a \in Nat /\ a >= 4096 /\ a % 16 = 0
    BY <2>2 DEF HeapInv, HeapTypeOK, Blocks, HeapBase
  <2> HIDE DEF a, found
  <2>4. mem' = [mem EXCEPT ![a].free = FALSE] /\ call' = [call EXCEPT ![p].ret = Payload(a)]
    BY <1>5, <2>2
  <2> DEFINE x == Payload(a)
  <2>5. x \in Int /\ x # 0 /\ HeaderOf(x) = a /\ x % 16 = 0
    BY <2>3 DEF Payload, HeaderOf, header_size
  <2>6. /\ DOMAIN mem' = DOMAIN mem /\ mem' \in [DOMAIN mem' -> HeaderRec]
        /\ \A y \in DOMAIN mem : mem'[y].size = mem[y].size /\ mem'[y].magic = mem[y].magic
        /\ mem'[a].free = FALSE /\ \A y \in DOMAIN mem \ {a} : mem'[y] = mem[y]
    BY <2>2, <2>4, FreeFlag DEF HeapInv
  <2> DEFINE c == [call[p] EXCEPT !.ret = x]
  <2>7. /\ c \in CallRec /\ c.op = call[p].op /\ c.size = call[p].size /\ c.align = call[p].align
        /\ c.old = call[p].old /\ c.ret = x
    BY <1>2, <2>5 DEF CallRec
  <2>8. call' = [call EXCEPT ![p] = c]
    BY <2>4
  <2> HIDE DEF c, x
  <2>9. HeapTypeOK'
    BY <1>1, <1>5, <2>6, <2>7, <2>8 DEF HeapInv, HeapTypeOK, Steps, Inside
  <2>10. /\ step'[p] = "unlock" /\ call'[p] = c
         /\ \A q \in Clients \ {p} : step'[q] = step[q] /\ call'[q] = call[q]
    BY <1>5, <2>8 DEF HeapInv, HeapTypeOK
  <2>11. \A q \in Clients \ {p} : Owns(q)' = Owns(q) /\ Frees(q)' = Frees(q) /\ Gets(q)' = Gets(q) /\ Holds(q)' = Holds(q)
    BY <1>1, <2>10, OtherHolds
  <2>12. Owns(p)' = Owns(p) /\ Frees(p)' = {} /\ Gets(p)' = {x}
    BY <1>1, <1>2, <2>5, <2>7, <2>10 DEF Owns, Frees, Gets
  <2>13. \A q \in Clients : x \notin Holds(q)
    BY <2>1, <2>5 DEF HeapInv, HeldLive, Live
  <2>14. Holds(p)' = Holds(p) \union {x}
    BY <1>3, <2>12 DEF Holds
  <2>15. \A q \in Clients : \A y \in Holds(q) : HeaderOf(y) \in DOMAIN mem \ {a} /\ mem'[HeaderOf(y)] = mem[HeaderOf(y)]
    <3>1. \A q \in Clients : \A y \in Holds(q) : HeaderOf(y) \in DOMAIN mem /\ mem[HeaderOf(y)].free = FALSE
      BY DEF HeapInv, HeldLive, Live
    <3> QED  BY <3>1, <2>1, <2>6
  <2>16. Locked'
    BY <1>1, <2>10 DEF HeapInv, Locked, Inside
  <2>17. Called'
    BY <1>2, <2>7, <2>10, <2>11, <2>12 DEF HeapInv, Called
  <2>18. Blocks'
    BY <1>1, <2>6 DEF HeapInv, Blocks
  <2>19. \A q \in Clients \ {p} : step[q] \notin Inside
    BY <1>1 DEF HeapInv, Locked, Inside
  <2>20. Fresh' /\ Suits'
    BY <1>2, <2>1, <2>2, <2>5, <2>6, <2>7, <2>10, <2>19 DEF Fresh, Suits, Inside
  <2>21. HeldLive'
    BY <2>2, <2>5, <2>6, <2>11, <2>14, <2>15 DEF HeapInv, HeldLive, Live
  <2>22. HeldOnce'
    BY <2>11, <2>13, <2>14 DEF HeapInv, HeldOnce
  <2>23. HeldOneWay'
    BY <2>11, <2>12, <2>13 DEF HeapInv, HeldOneWay, Holds
  <2>24. Granted'
    <3>1. \A q \in Clients : \A g \in owned[q] : g.ptr \in Holds(q)
      BY DEF Holds, Owns
    <3> QED  BY <1>1, <2>15, <3>1 DEF HeapInv, Granted
  <2>25. Watched'
    BY <1>1, <2>6, <2>10, <2>19 DEF HeapInv, Watched, Inside
  <2> QED  BY <2>9, <2>16, <2>17, <2>18, <2>20, <2>21, <2>22, <2>23, <2>24, <2>25 DEF HeapInv
<1> QED  BY <1>1, <1>4, <1>5

\* Pointers and headers correspond one to one.
LEMMA HeaderOnce ==
    ASSUME NEW x \in Int, NEW y \in Int, HeaderOf(x) = HeaderOf(y) PROVE x = y
BY DEF HeaderOf, header_size

\* Everything held is a number.
LEMMA HoldsInt == ASSUME HeapTypeOK, NEW q \in Clients PROVE Holds(q) \subseteq Int
<1>1. call[q] \in CallRec /\ owned[q] \subseteq GrantRec
  BY DEF HeapTypeOK
<1>2. call[q].old \in Int /\ call[q].ret \in Int /\ \A g \in owned[q] : g.ptr \in Int
  BY <1>1 DEF CallRec, GrantRec
<1> QED  BY <1>2 DEF Holds, Owns, Frees, Gets

\* The header of a new block is written while only its maker knows it.
LEMMA FillInv == ASSUME NEW p \in Clients PROVE HeapInv /\ Fill(p) => HeapInv'
<1> SUFFICES ASSUME HeapInv, Fill(p) PROVE HeapInv'
  OBVIOUS
<1> DEFINE x == call[p].ret
           b == HeaderOf(x)
           n == call[p].size
           h == Header(n)
<1>1. /\ step[p] = "fill" /\ mem' = [mem EXCEPT ![b] = h] /\ step' = [step EXCEPT ![p] = "link"]
      /\ UNCHANGED <<list, brk, mapped, frames, mutex, call, owned, watch, alarm>>
  BY DEF Fill, Goto, After
<1>2. n \in Nat /\ x \in Int /\ x # 0 /\ call[p].op \in {"alloc", "alloc_a", "realloc"}
  BY <1>1 DEF HeapInv, HeapTypeOK, CallRec, Called
<1>3. h \in HeaderRec /\ h.size = n /\ h.free = FALSE /\ h.magic = TRUE
  BY <1>2 DEF HeaderRec, Header
<1>4. x \in Gets(p) /\ x \in Holds(p)
  BY <1>1, <1>2 DEF Gets, Holds
<1>5. b \in DOMAIN mem /\ b \in Nat /\ x = b + header_size
  BY <1>2, <1>4 DEF HeapInv, HeapTypeOK, HeldLive, Live, HeaderOf, header_size
<1>6. /\ x + n <= brk /\ x + n <= mapped
      /\ \A y \in DOMAIN mem \ {b} : y + header_size + mem[y].size <= b
  BY <1>1 DEF HeapInv, Fresh
<1>7. x % call[p].align = 0
  BY <1>1, <1>2 DEF HeapInv, Suits
<1> HIDE DEF h
<1>8. DOMAIN mem' = DOMAIN mem /\ mem'[b] = h /\ \A y \in DOMAIN mem \ {b} : mem'[y] = mem[y]
  BY <1>1, <1>5 DEF HeapInv, HeapTypeOK
<1>9. HeapTypeOK'
  BY <1>1, <1>3, <1>5 DEF HeapInv, HeapTypeOK, Steps, Inside
<1>10. step'[p] = "link" /\ \A q \in Clients \ {p} : step'[q] = step[q]
  BY <1>1 DEF HeapInv, HeapTypeOK
<1>11. \A q \in Clients : Owns(q)' = Owns(q)
  BY <1>1 DEF Owns
<1>12. \A q \in Clients : Frees(q)' = Frees(q) /\ Gets(q)' = Gets(q)
  BY <1>1, <1>2, <1>10 DEF Frees, Gets
<1>13. \A q \in Clients : Holds(q)' = Holds(q)
  BY <1>11, <1>12 DEF Holds
<1>14. \A q \in Clients \ {p} : step[q] \notin Inside
  BY <1>1 DEF HeapInv, Locked, Inside
<1>15. Locked'
  BY <1>1, <1>10 DEF HeapInv, Locked, Inside
<1>16. Called'
  BY <1>1, <1>2, <1>10, <1>11 DEF HeapInv, Called
<1>17. Blocks'
  <2>1. \A y \in DOMAIN mem : y \in Nat /\ mem[y].size \in Nat
    BY DEF HeapInv, HeapTypeOK, HeaderRec
  <2>2. \A y \in DOMAIN mem :
           /\ y >= HeapBase /\ y % 16 = 0
           /\ y + header_size + mem'[y].size <= brk /\ y + header_size + mem'[y].size <= mapped
    BY <1>3, <1>5, <1>6, <1>8 DEF HeapInv, Blocks
  <2>3. \A y \in DOMAIN mem \ {b} : Disjoint(y, header_size + mem'[y].size, b, header_size + mem'[b].size)
                                 /\ Disjoint(b, header_size + mem'[b].size, y, header_size + mem'[y].size)
    BY <1>5, <1>6, <1>8, <2>1 DEF Disjoint, header_size
  <2>4. \A y, z \in DOMAIN mem \ {b} : y # z => Disjoint(y, header_size + mem'[y].size, z, header_size + mem'[z].size)
    BY <1>8 DEF HeapInv, Blocks
  <2> QED  BY <1>1, <1>8, <2>2, <2>3, <2>4 DEF HeapInv, Blocks
<1>18. Fresh' /\ Suits'
  BY <1>1, <1>2, <1>3, <1>7, <1>8, <1>10, <1>14 DEF Fresh, Suits, Inside
<1>19. HeldLive'
  BY <1>3, <1>8, <1>13 DEF HeapInv, HeldLive, Live
<1>20. HeldOnce' /\ HeldOneWay'
  BY <1>11, <1>12, <1>13 DEF HeapInv, HeldOnce, HeldOneWay
<1>21. \A q \in Clients : \A g \in owned[q] : HeaderOf(g.ptr) \in DOMAIN mem \ {b}
  <2> TAKE q \in Clients
  <2> TAKE g \in owned[q]
  <2>1. g.ptr \in Owns(q) /\ g.ptr \in Holds(q) /\ g.ptr \in Int
    BY HoldsInt DEF HeapInv, Owns, Holds
  <2>2. g.ptr # x
    BY <1>4, <2>1 DEF HeapInv, HeldOnce, HeldOneWay
  <2> QED  BY <1>2, <2>1, <2>2, HeaderOnce DEF HeapInv, HeldLive, Live
<1>22. Granted'
  BY <1>1, <1>8, <1>21 DEF HeapInv, Granted
<1>23. Watched'
  BY <1>1, <1>3, <1>8, <1>10, <1>14 DEF HeapInv, Watched, Inside
<1> QED  BY <1>9, <1>15, <1>16, <1>17, <1>18, <1>19, <1>20, <1>22, <1>23 DEF HeapInv

\* A complete header becomes the last of the list.
LEMMA LinkInv == ASSUME NEW p \in Clients PROVE HeapInv /\ Link(p) => HeapInv'
<1> SUFFICES ASSUME HeapInv, Link(p) PROVE HeapInv'
  OBVIOUS
<1> DEFINE b == HeaderOf(call[p].ret)
<1>1. /\ step[p] = "link" /\ list' = Append(list, b) /\ step' = [step EXCEPT ![p] = "unlock"]
      /\ UNCHANGED <<mem, brk, mapped, frames, mutex, call, owned, watch, alarm>>
  BY DEF Link, Goto, After
<1>2. call[p].ret # 0 /\ call[p].op \in {"alloc", "alloc_a", "realloc"}
  BY <1>1 DEF HeapInv, Called
<1>3. b \in DOMAIN mem /\ b \in Nat /\ mem[b].magic = TRUE
  <2>1. call[p].ret \in Holds(p)
    BY <1>1, <1>2 DEF Gets, Holds
  <2> QED  BY <1>1, <2>1 DEF HeapInv, HeapTypeOK, HeldLive, Live, Watched
<1> HIDE DEF b
<1>4. HeapTypeOK'
  BY <1>1, <1>3 DEF HeapInv, HeapTypeOK, Steps, Inside
<1>5. step'[p] = "unlock" /\ \A q \in Clients \ {p} : step'[q] = step[q]
  BY <1>1 DEF HeapInv, HeapTypeOK
<1>6. \A q \in Clients : Owns(q)' = Owns(q)
  BY <1>1 DEF Owns
<1>7. \A q \in Clients : Frees(q)' = Frees(q) /\ Gets(q)' = Gets(q)
  BY <1>1, <1>2, <1>5 DEF Frees, Gets
<1>8. \A q \in Clients : Holds(q)' = Holds(q)
  BY <1>6, <1>7 DEF Holds
<1>9. Locked'
  BY <1>1, <1>5 DEF HeapInv, Locked, Inside
<1>10. Called'
  BY <1>1, <1>2, <1>5, <1>6 DEF HeapInv, Called
<1>11. Blocks' /\ Fresh' /\ Suits'
  BY <1>1, <1>5 DEF HeapInv, Blocks, Fresh, Suits
<1>12. HeldLive' /\ HeldOnce' /\ HeldOneWay'
  BY <1>1, <1>6, <1>7, <1>8 DEF HeapInv, HeldLive, HeldOnce, HeldOneWay, Live
<1>13. Granted'
  BY <1>1 DEF HeapInv, Granted
<1>14. Watched'
  <2>1. list \in Seq(Nat) /\ watch \in Nat /\ watch <= Len(list)
    BY DEF HeapInv, HeapTypeOK, Watched
  <2>2. /\ Len(list') = Len(list) + 1 /\ DOMAIN list' = 1 .. Len(list) + 1 /\ DOMAIN list = 1 .. Len(list)
        /\ list'[Len(list) + 1] = b /\ \A i \in 1 .. Len(list) : list'[i] = list[i]
    BY <1>1, <1>3, <2>1
  <2>3. \A i \in DOMAIN list' : list'[i] \in DOMAIN mem /\ mem[list'[i]].magic = TRUE
    BY <1>3, <2>1, <2>2 DEF HeapInv, Watched
  <2> QED  BY <1>1, <1>5, <2>1, <2>2, <2>3 DEF HeapInv, Watched
<1> QED  BY <1>4, <1>9, <1>10, <1>11, <1>12, <1>13, <1>14 DEF HeapInv

\* free marks a block only its caller holds, and the caller lets go of it.
LEMMA MarkInv == ASSUME NEW p \in Clients PROVE HeapInv /\ Mark(p) => HeapInv'
<1> SUFFICES ASSUME HeapInv, Mark(p) PROVE HeapInv'
  OBVIOUS
<1> DEFINE x == call[p].old
           a == HeaderOf(x)
<1>1. /\ step[p] = "mark" /\ step' = [step EXCEPT ![p] = "unlock"]
      /\ mem' = mem \/ mem' = [mem EXCEPT ![a].free = TRUE]
      /\ UNCHANGED <<list, brk, mapped, frames, mutex, call, owned, watch, alarm>>
  BY DEF Mark, Goto
<1>2. call[p].op = "free" /\ call[p].ret = 0 /\ x \in Int
  BY <1>1 DEF HeapInv, HeapTypeOK, CallRec, Called
<1>3. x \in Frees(p) /\ x \in Holds(p) /\ Gets(p) = {}
  BY <1>1, <1>2 DEF Frees, Gets, Holds
<1>4. a \in DOMAIN mem
  BY <1>3 DEF HeapInv, HeldLive, Live
<1>5. /\ DOMAIN mem' = DOMAIN mem /\ mem' \in [DOMAIN mem' -> HeaderRec]
      /\ \A y \in DOMAIN mem : mem'[y].size = mem[y].size /\ mem'[y].magic = mem[y].magic
      /\ \A y \in DOMAIN mem \ {a} : mem'[y] = mem[y]
  <2>1. CASE mem' = mem
    BY <2>1 DEF HeapInv, HeapTypeOK
  <2>2. CASE mem' = [mem EXCEPT ![a].free = TRUE]
    BY <1>4, <2>2, FreeFlag DEF HeapInv
  <2> QED  BY <1>1, <2>1, <2>2
<1>6. HeapTypeOK'
  BY <1>1, <1>5 DEF HeapInv, HeapTypeOK, Steps, Inside
<1>7. step'[p] = "unlock" /\ \A q \in Clients \ {p} : step'[q] = step[q]
  BY <1>1 DEF HeapInv, HeapTypeOK
<1>8. \A q \in Clients \ {p} : Owns(q)' = Owns(q) /\ Frees(q)' = Frees(q) /\ Gets(q)' = Gets(q) /\ Holds(q)' = Holds(q)
  BY <1>1, <1>7, OtherHolds
<1>9. Owns(p)' = Owns(p) /\ Frees(p)' = {} /\ Gets(p)' = {}
  BY <1>1, <1>2, <1>7 DEF Owns, Frees, Gets
<1>10. x \notin Owns(p) /\ \A q \in Clients \ {p} : x \notin Holds(q)
  BY <1>3 DEF HeapInv, HeldOneWay, HeldOnce
<1>11. \A q \in Clients : Holds(q)' \subseteq Holds(q) /\ x \notin Holds(q)'
  BY <1>8, <1>9, <1>10 DEF Holds
<1>12. \A q \in Clients : \A y \in Holds(q)' : HeaderOf(y) \in DOMAIN mem \ {a} /\ mem'[HeaderOf(y)] = mem[HeaderOf(y)]
  <2> TAKE q \in Clients
  <2> TAKE y \in Holds(q)'
  <2>1. y \in Int /\ y # x /\ HeaderOf(y) \in DOMAIN mem
    BY <1>11, HoldsInt DEF HeapInv, HeldLive, Live
  <2> QED  BY <1>2, <1>5, <2>1, HeaderOnce
<1>13. \A q \in Clients \ {p} : step[q] \notin Inside
  BY <1>1 DEF HeapInv, Locked, Inside
<1>14. Locked'
  BY <1>1, <1>7 DEF HeapInv, Locked, Inside
<1>15. Called'
  BY <1>1, <1>2, <1>7, <1>8 DEF HeapInv, Called
<1>16. Blocks'
  BY <1>1, <1>5 DEF HeapInv, Blocks
<1>17. Fresh' /\ Suits'
  BY <1>1, <1>2, <1>7, <1>13 DEF Fresh, Suits, Inside
<1>18. HeldLive' /\ HeldOnce'
  BY <1>5, <1>11, <1>12, HoldsShrink DEF HeapInv, Live
<1>19. HeldOneWay'
  BY <1>8, <1>9 DEF HeapInv, HeldOneWay
<1>20. Granted'
  <2>1. \A q \in Clients : \A g \in owned[q] : g.ptr \in Holds(q)'
    BY <1>1 DEF Holds, Owns
  <2> QED  BY <1>1, <1>12, <2>1 DEF HeapInv, Granted
<1>21. Watched'
  BY <1>1, <1>5, <1>7, <1>13 DEF HeapInv, Watched, Inside
<1> QED  BY <1>6, <1>14, <1>15, <1>16, <1>17, <1>18, <1>19, <1>20, <1>21 DEF HeapInv

\* The mutex is left; what the caller got it owns, and what realloc moved out of
\* it is about to free.
LEMMA UnlockInv == ASSUME NEW p \in Clients PROVE HeapInv /\ Unlock(p) => HeapInv'
<1> SUFFICES ASSUME HeapInv, Unlock(p) PROVE HeapInv'
  OBVIOUS
<1> DEFINE c == call[p]
           grant == [ptr |-> c.ret, size |-> c.size, align |-> c.align]
           given == IF c.ret = 0 THEN {} ELSE {grant}
           moves == c.op = "realloc" /\ c.ret # 0
           moved == {g \in owned[p] : g.ptr = c.old}
           kept == IF moves THEN owned[p] \ moved ELSE owned[p]
           next == IF moves THEN [NoCall EXCEPT !.op = "free", !.old = c.old] ELSE NoCall
           s == IF moves THEN "lock" ELSE "idle"
<1>1. /\ step[p] = "unlock" /\ mutex' = Nobody /\ owned' = [owned EXCEPT ![p] = kept \union given]
      /\ call' = [call EXCEPT ![p] = next] /\ step' = [step EXCEPT ![p] = s]
      /\ UNCHANGED <<list, mem, brk, mapped, frames, watch, alarm>>
  <2>1. CASE moves
    BY <2>1 DEF Unlock, Goto
  <2>2. CASE ~moves
    BY <2>2 DEF Unlock, Goto
  <2> QED  BY <2>1, <2>2
<1>2. c \in CallRec /\ owned[p] \subseteq GrantRec
  BY DEF HeapInv, HeapTypeOK
<1>3. c.ret \in Int /\ c.old \in Int /\ c.size \in Nat /\ c.align \in Alignments
  BY <1>2 DEF CallRec
<1>4. grant \in GrantRec /\ grant.ptr = c.ret /\ grant.size = c.size /\ grant.align = c.align
  BY <1>3 DEF GrantRec
<1>5. next \in CallRec /\ next.ret = 0 /\ next.align = 16 /\ next.old \in Int
      /\ (moves => next.op = "free" /\ next.old = c.old) /\ (~moves => next.op = "none")
  BY <1>3, NoCallTyped, FreeCall DEF CallRec
<1> HIDE DEF grant, next
<1>6. HeapTypeOK'
  BY <1>1, <1>2, <1>4, <1>5 DEF HeapInv, HeapTypeOK, Steps
<1>7. /\ step'[p] = s /\ call'[p] = next /\ owned'[p] = kept \union given
      /\ \A q \in Clients \ {p} : step'[q] = step[q] /\ call'[q] = call[q] /\ owned'[q] = owned[q]
  BY <1>1 DEF HeapInv, HeapTypeOK
<1>8. \A q \in Clients \ {p} : Owns(q)' = Owns(q) /\ Frees(q)' = Frees(q) /\ Gets(q)' = Gets(q) /\ Holds(q)' = Holds(q)
  BY <1>7, OtherHolds
<1>9. Frees(p) = {} /\ Gets(p) = (IF c.ret = 0 THEN {} ELSE {c.ret})
  BY <1>1 DEF Frees, Gets
<1>10. Frees(p)' = (IF moves THEN {c.old} ELSE {}) /\ Gets(p)' = {}
  BY <1>5, <1>7 DEF Frees, Gets
<1>11. Owns(p)' = (IF moves THEN Owns(p) \ {c.old} ELSE Owns(p)) \union Gets(p)
  BY <1>4, <1>7, <1>9 DEF Owns
<1>12. moves => c.old \in Owns(p)
  BY DEF HeapInv, Called
<1>13. Holds(p)' = Holds(p)
  BY <1>9, <1>10, <1>11, <1>12 DEF Holds
<1>14. Owns(p) \intersect Gets(p) = {}
  BY DEF HeapInv, HeldOneWay
<1>15. Locked'
  BY <1>1, <1>7, HeapAssumption DEF HeapInv, Locked, Inside, Nobody
<1>16. Called'
  BY <1>5, <1>7, <1>8 DEF HeapInv, Called
<1>17. Blocks'
  BY <1>1 DEF HeapInv, Blocks
<1>18. Fresh' /\ Suits'
  BY <1>1, <1>7 DEF HeapInv, Fresh, Suits
<1>19. HeldLive' /\ HeldOnce'
  BY <1>1, <1>8, <1>13, HoldsShrink DEF HeapInv, Live
<1>20. HeldOneWay'
  BY <1>8, <1>10, <1>11, <1>12, <1>14 DEF HeapInv, HeldOneWay
<1>21. c.ret # 0 => grant.size <= mem[HeaderOf(grant.ptr)].size /\ grant.ptr % grant.align = 0
  BY <1>1, <1>4 DEF HeapInv, Suits
<1>22. c.ret # 0 => \A g \in owned[p] : g.ptr # c.ret
  BY <1>9, <1>14 DEF Owns
<1>23. Granted'
  BY <1>1, <1>4, <1>7, <1>21, <1>22 DEF HeapInv, Granted
<1>24. Watched'
  BY <1>1, <1>7 DEF HeapInv, Watched
<1> QED  BY <1>6, <1>15, <1>16, <1>17, <1>18, <1>19, <1>20, <1>23, <1>24 DEF HeapInv

\* Rounding up to 16 or 64 goes to the next multiple.
LEMMA AlignUp ==
    ASSUME NEW n \in Nat, NEW k \in Alignments
    PROVE  ALIGN_UP(n, k) \in Nat /\ ALIGN_UP(n, k) >= n /\ ALIGN_UP(n, k) % k = 0 /\ ALIGN_UP(n, k) % 16 = 0
<1>1. CASE k = 16
  <2>1. PICK m \in Nat : m = (n + 15) \div 16
    OBVIOUS
  <2>2. n <= 16 * m
    BY <2>1
  <2> QED  BY <1>1, <2>1, <2>2 DEF ALIGN_UP
<1>2. CASE k = 64
  <2>1. PICK m \in Nat : m = (n + 63) \div 64
    OBVIOUS
  <2>2. n <= 64 * m
    BY <2>1
  <2> QED  BY <1>2, <2>1, <2>2 DEF ALIGN_UP
<1> QED  BY <1>1, <1>2 DEF Alignments

\* morecore maps pages until the first unmapped one is beyond the end.
LEMMA PagesReach ==
    ASSUME HeapTypeOK, NEW end \in Nat
    PROVE  /\ PagesWanted(end) \in Nat
           /\ mapped + PagesWanted(end) * block_size \in Nat
           /\ mapped + PagesWanted(end) * block_size >= mapped
           /\ mapped + PagesWanted(end) * block_size >= end
<1>1. mapped \in Nat
  BY DEF HeapTypeOK
<1>2. CASE mapped > end
  BY <1>1, <1>2 DEF PagesWanted, block_size
<1>3. CASE ~(mapped > end)
  <2>1. PICK m \in Nat : m = (end - mapped) \div 4096
    BY <1>1, <1>3
  <2>2. end - mapped < 4096 * (m + 1)
    BY <1>1, <1>3, <2>1
  <2> QED  BY <1>1, <1>3, <2>1, <2>2 DEF PagesWanted, block_size
<1> QED  BY <1>2, <1>3

\* A new block begins at or above the end of all others; without frames for it
\* only the end and the mapped pages move.
LEMMA MorecoreInv == ASSUME NEW p \in Clients PROVE HeapInv /\ Morecore(p) => HeapInv'
<1> SUFFICES ASSUME HeapInv, Morecore(p) PROVE HeapInv'
  OBVIOUS
<1> DEFINE a == NewBlock(AlignAsked(p))
           size == call[p].size
           end == a + TotalSize(size)
           n == PagesWanted(end)
           x == Payload(a)
           c == [call[p] EXCEPT !.ret = x]
<1>1. /\ step[p] = "morecore" /\ brk' = end /\ UNCHANGED <<list, mutex, owned, watch, alarm>>
      /\ \/ /\ n <= frames /\ mapped' = mapped + n * block_size /\ frames' = frames - n
            /\ mem' = [y \in (DOMAIN mem) \union {a} |-> IF y = a THEN Blank ELSE mem[y]]
            /\ call' = [call EXCEPT ![p] = c] /\ step' = [step EXCEPT ![p] = "fill"]
         \/ /\ mapped' = mapped + frames * block_size /\ frames' = 0
            /\ step' = [step EXCEPT ![p] = "unlock"] /\ UNCHANGED <<mem, call>>
  BY DEF Morecore, Goto, Returns, After
<1>2. /\ call[p].op \in {"alloc", "alloc_a", "realloc"} /\ call[p].ret = 0 /\ call[p] \in CallRec
      /\ call[p].op # "alloc_a" => call[p].align = 16
  BY <1>1 DEF HeapInv, HeapTypeOK, Called
<1>3. size \in Nat /\ call[p].align \in Alignments /\ AlignAsked(p) \in Alignments /\ brk \in Nat /\ mapped \in Nat /\ frames \in Nat
  BY <1>2 DEF CallRec, AlignAsked, Alignments, HeapInv, HeapTypeOK
<1>4. a \in Nat /\ a >= brk /\ a >= HeapBase /\ a % 16 = 0 /\ a % AlignAsked(p) = 0
  <2>1. a \in Nat /\ a >= brk /\ a % 16 = 0 /\ a % AlignAsked(p) = 0
    BY <1>3, AlignUp DEF NewBlock
  <2> QED  BY <1>3, <2>1 DEF HeapInv, Blocks, HeapBase
<1> HIDE DEF a
<1>5. x \in Int /\ x # 0 /\ HeaderOf(x) = a /\ x = a + header_size
  BY <1>4 DEF Payload, HeaderOf, header_size, HeapBase
<1>6. x % call[p].align = 0
  <2>1. CASE call[p].align = AlignAsked(p)
    BY <1>3, <1>4, <1>5, <2>1 DEF header_size, Alignments
  <2>2. CASE call[p].align = 16
    BY <1>4, <1>5, <2>2 DEF header_size
  <2> QED  BY <1>2, <2>1, <2>2 DEF AlignAsked
<1>7. end \in Nat /\ end = x + size /\ end >= a + header_size /\ end >= brk
  BY <1>3, <1>4, <1>5 DEF TotalSize, header_size
<1>8. n \in Nat /\ mapped + n * block_size \in Nat /\ mapped + n * block_size >= mapped /\ mapped + n * block_size >= end
  BY <1>7, PagesReach DEF HeapInv
<1> HIDE DEF n, end
<1>9. \A y \in DOMAIN mem : /\ y \in Nat /\ mem[y].size \in Nat /\ y + header_size + mem[y].size <= a
                            /\ y # a
  <2>1. \A y \in DOMAIN mem : y \in Nat /\ mem[y].size \in Nat /\ y + header_size + mem[y].size <= brk
    BY DEF HeapInv, HeapTypeOK, HeaderRec, Blocks
  <2> QED  BY <1>3, <1>4, <2>1 DEF header_size
<1>10. Frees(p) = {} /\ Gets(p) = {}
  BY <1>1, <1>2 DEF Frees, Gets
<1>11. \A q \in Clients \ {p} : step[q] \notin Inside
  BY <1>1 DEF HeapInv, Locked, Inside
<1>12. CASE /\ n <= frames /\ mapped' = mapped + n * block_size /\ frames' = frames - n
            /\ mem' = [y \in (DOMAIN mem) \union {a} |-> IF y = a THEN Blank ELSE mem[y]]
            /\ call' = [call EXCEPT ![p] = c] /\ step' = [step EXCEPT ![p] = "fill"]
  <2>1. /\ c \in CallRec /\ c.op = call[p].op /\ c.size = size /\ c.align = call[p].align
        /\ c.old = call[p].old /\ c.ret = x
    BY <1>2, <1>5 DEF CallRec
  <2>2. Blank \in HeaderRec /\ Blank.size = 0 /\ Blank.free = FALSE
    BY DEF Blank, HeaderRec
  <2> HIDE DEF c
  <2>3. /\ DOMAIN mem' = DOMAIN mem \union {a} /\ mem'[a] = Blank
        /\ \A y \in DOMAIN mem : mem'[y] = mem[y]
    BY <1>9, <1>12
  <2>4. HeapTypeOK'
    <3>1. mem' \in [DOMAIN mem' -> HeaderRec] /\ DOMAIN mem' \subseteq Nat
      BY <1>4, <1>12, <2>2, <2>3 DEF HeapInv, HeapTypeOK
    <3>2. frames' \in Nat
      BY <1>3, <1>8, <1>12
    <3> QED  BY <1>1, <1>7, <1>8, <1>12, <2>1, <3>1, <3>2 DEF HeapInv, HeapTypeOK, Steps, Inside
  <2>5. /\ step'[p] = "fill" /\ call'[p] = c
        /\ \A q \in Clients \ {p} : step'[q] = step[q] /\ call'[q] = call[q]
    BY <1>12 DEF HeapInv, HeapTypeOK
  <2>6. \A q \in Clients \ {p} : Owns(q)' = Owns(q) /\ Frees(q)' = Frees(q) /\ Gets(q)' = Gets(q) /\ Holds(q)' = Holds(q)
    BY <1>1, <2>5, OtherHolds
  <2>7. Owns(p)' = Owns(p) /\ Frees(p)' = {} /\ Gets(p)' = {x}
    BY <1>1, <1>2, <1>5, <2>1, <2>5 DEF Owns, Frees, Gets
  <2>8. \A q \in Clients : \A y \in Holds(q) : HeaderOf(y) \in DOMAIN mem /\ mem'[HeaderOf(y)] = mem[HeaderOf(y)] /\ y # x
    BY <1>5, <1>9, <2>3 DEF HeapInv, HeldLive, Live
  <2>9. Holds(p)' = Holds(p) \union {x}
    BY <1>10, <2>7 DEF Holds
  <2>10. Locked'
    BY <1>1, <2>5 DEF HeapInv, Locked, Inside
  <2>11. Called'
    BY <1>2, <1>5, <2>1, <2>5, <2>6, <2>7 DEF HeapInv, Called
  <2>12. Blocks'
    <3>1. brk' >= HeapBase
      BY <1>1, <1>4, <1>7 DEF header_size, HeapBase
    <3>2. \A y \in DOMAIN mem' :
             /\ y >= HeapBase /\ y % 16 = 0
             /\ y + header_size + mem'[y].size <= end /\ y + header_size + mem'[y].size <= mapped'
      <4>1. ASSUME NEW y \in DOMAIN mem
            PROVE  /\ y >= HeapBase /\ y % 16 = 0
                   /\ y + header_size + mem'[y].size <= end /\ y + header_size + mem'[y].size <= mapped'
        <5>1. y >= HeapBase /\ y % 16 = 0 /\ y + header_size + mem[y].size <= mapped
          BY DEF HeapInv, Blocks
        <5> QED  BY <1>3, <1>4, <1>7, <1>8, <1>9, <1>12, <2>3, <5>1 DEF header_size
      <4>2. a + header_size + mem'[a].size <= end /\ a + header_size + mem'[a].size <= mapped'
        BY <1>4, <1>7, <1>8, <1>12, <2>2, <2>3 DEF header_size
      <4> QED  BY <1>4, <2>3, <4>1, <4>2
    <3>3. \A y, z \in DOMAIN mem' : y # z => Disjoint(y, header_size + mem'[y].size, z, header_size + mem'[z].size)
      <4>1. \A y \in DOMAIN mem : Disjoint(y, header_size + mem'[y].size, a, header_size + mem'[a].size)
                               /\ Disjoint(a, header_size + mem'[a].size, y, header_size + mem'[y].size)
        BY <1>4, <1>9, <2>2, <2>3 DEF Disjoint, header_size
      <4>2. \A y, z \in DOMAIN mem : y # z => Disjoint(y, header_size + mem'[y].size, z, header_size + mem'[z].size)
        BY <2>3 DEF HeapInv, Blocks
      <4> QED  BY <2>3, <4>1, <4>2
    <3> QED  BY <1>1, <3>1, <3>2, <3>3 DEF Blocks
  <2>13. Fresh'
    <3>1. x + size <= brk' /\ x + size <= mapped'
      BY <1>1, <1>7, <1>8, <1>12
    <3>2. \A y \in DOMAIN mem' \ {a} : y + header_size + mem'[y].size <= a
      BY <1>9, <2>3
    <3> QED  BY <1>5, <1>11, <2>1, <2>5, <3>1, <3>2 DEF Fresh, Inside
  <2>14. Suits'
    BY <1>6, <1>11, <2>1, <2>5 DEF Suits, Inside
  <2>15. HeldLive'
    BY <1>5, <2>2, <2>3, <2>6, <2>8, <2>9 DEF HeapInv, HeldLive, Live
  <2>16. HeldOnce'
    BY <2>6, <2>8, <2>9 DEF HeapInv, HeldOnce
  <2>17. HeldOneWay'
    BY <2>6, <2>7, <2>8 DEF HeapInv, HeldOneWay, Holds
  <2>18. Granted'
    <3>1. \A q \in Clients : \A g \in owned[q] : g.ptr \in Holds(q)
      BY DEF Holds, Owns
    <3> QED  BY <1>1, <2>8, <3>1 DEF HeapInv, Granted
  <2>19. Watched'
    BY <1>1, <1>11, <2>3, <2>5 DEF HeapInv, Watched, Inside
  <2> QED  BY <2>4, <2>10, <2>11, <2>12, <2>13, <2>14, <2>15, <2>16, <2>17, <2>18, <2>19 DEF HeapInv
<1>13. CASE /\ mapped' = mapped + frames * block_size /\ frames' = 0
            /\ step' = [step EXCEPT ![p] = "unlock"] /\ UNCHANGED <<mem, call>>
  <2>1. mapped' \in Nat /\ mapped' >= mapped
    BY <1>3, <1>13 DEF block_size
  <2>2. HeapTypeOK'
    BY <1>1, <1>7, <1>13, <2>1 DEF HeapInv, HeapTypeOK, Steps, Inside
  <2>3. step'[p] = "unlock" /\ \A q \in Clients \ {p} : step'[q] = step[q]
    BY <1>13 DEF HeapInv, HeapTypeOK
  <2>4. \A q \in Clients : Owns(q)' = Owns(q)
    BY <1>1 DEF Owns
  <2>5. \A q \in Clients : Frees(q)' = Frees(q) /\ Gets(q)' = Gets(q)
    BY <1>1, <1>2, <1>13, <2>3 DEF Frees, Gets
  <2>6. \A q \in Clients : Holds(q)' = Holds(q)
    BY <2>4, <2>5 DEF Holds
  <2>7. Locked'
    BY <1>1, <2>3 DEF HeapInv, Locked, Inside
  <2>8. Called'
    BY <1>2, <1>13, <2>3, <2>4 DEF HeapInv, Called
  <2>9. Blocks'
    <3>1. brk' >= HeapBase
      BY <1>1, <1>4, <1>7 DEF header_size, HeapBase
    <3>2. \A y \in DOMAIN mem : y + header_size + mem[y].size <= end /\ y + header_size + mem[y].size <= mapped'
      <4> TAKE y \in DOMAIN mem
      <4>1. y + header_size + mem[y].size <= mapped
        BY DEF HeapInv, Blocks
      <4> QED  BY <1>3, <1>4, <1>7, <1>9, <2>1, <4>1 DEF header_size
    <3> QED  BY <1>1, <1>13, <3>1, <3>2 DEF HeapInv, Blocks
  <2>10. Fresh' /\ Suits'
    BY <1>2, <1>11, <1>13, <2>3 DEF Fresh, Suits, Inside
  <2>11. HeldLive' /\ HeldOnce' /\ HeldOneWay'
    BY <1>13, <2>4, <2>5, <2>6 DEF HeapInv, HeldLive, HeldOnce, HeldOneWay, Live
  <2>12. Granted' /\ Watched'
    BY <1>1, <1>11, <1>13, <2>3 DEF HeapInv, Granted, Watched, Inside
  <2> QED  BY <2>2, <2>7, <2>8, <2>9, <2>10, <2>11, <2>12 DEF HeapInv
<1> QED  BY <1>1, <1>12, <1>13

\* The watchdog only meets headers that are complete.
LEMMA WatchInv == HeapInv /\ (WatchdogWakes \/ check_for_corruption) => HeapInv'
<1> SUFFICES ASSUME HeapInv, WatchdogWakes \/ check_for_corruption PROVE HeapInv'
  OBVIOUS
<1>1. UNCHANGED <<list, mem, brk, mapped, frames, mutex, step, call, owned>>
  BY DEF WatchdogWakes, check_for_corruption
<1>2. list \in Seq(Nat) /\ watch \in Nat /\ watch <= Len(list) /\ alarm = FALSE
  BY DEF HeapInv, HeapTypeOK, Watched
<1>3. watch' \in Nat /\ watch' <= Len(list) /\ alarm' = FALSE
  <2>1. CASE WatchdogWakes
    <3>1. Len(list) \in Nat /\ Len(list) # 0
      BY <1>2, <2>1 DEF WatchdogWakes
    <3> QED  BY <1>2, <2>1, <3>1 DEF WatchdogWakes
  <2>2. CASE check_for_corruption
    <3>1. watch \in DOMAIN list /\ Len(list) \in Nat
      BY <1>2, <2>2 DEF check_for_corruption
    <3>2. mem[list[watch]].magic
      BY <3>1 DEF HeapInv, Watched
    <3> QED  BY <1>2, <2>2, <3>1, <3>2 DEF check_for_corruption
  <2> QED  BY <2>1, <2>2
<1>4. HeapTypeOK'
  BY <1>1, <1>3 DEF HeapInv, HeapTypeOK
<1>5. Locked' /\ Blocks' /\ Fresh' /\ Suits' /\ Granted'
  BY <1>1 DEF HeapInv, Locked, Blocks, Fresh, Suits, Granted
<1>6. \A q \in Clients : Owns(q)' = Owns(q) /\ Frees(q)' = Frees(q) /\ Gets(q)' = Gets(q) /\ Holds(q)' = Holds(q)
  BY <1>1, OtherHolds
<1>7. Called'
  BY <1>1, <1>6 DEF HeapInv, Called
<1>8. HeldLive' /\ HeldOnce' /\ HeldOneWay'
  BY <1>1, <1>6 DEF HeapInv, HeldLive, HeldOnce, HeldOneWay, Live
<1>9. Watched'
  BY <1>1, <1>3 DEF HeapInv, Watched
<1> QED  BY <1>4, <1>5, <1>7, <1>8, <1>9 DEF HeapInv

\* Every step of every client and of the watchdog keeps the invariant.
THEOREM HeapInvariant == HeapSpec => []HeapInv
<1>1. HeapInv /\ [HeapNext]_heapVars => HeapInv'
  <2> SUFFICES ASSUME HeapInv, [HeapNext]_heapVars PROVE HeapInv'
    OBVIOUS
  <2>1. CASE HeapStart
    BY <2>1, StartInv
  <2>2. ASSUME NEW p \in Clients, NEW op \in {"alloc", "alloc_a"}, NEW size \in Sizes, NEW align \in Alignments,
               Alloc(p, op, size, align)
        PROVE  HeapInv'
    BY <2>2, AllocInv
  <2>3. ASSUME NEW p \in Clients, NEW g \in owned[p], Free(p, g) PROVE HeapInv'
    BY <2>3, FreeInv
  <2>4. ASSUME NEW p \in Clients, NEW g \in owned[p], NEW size \in Sizes, Realloc(p, g, size) PROVE HeapInv'
    BY <2>4, ReallocInv
  <2>5. ASSUME NEW p \in Clients, HeapStep(p) PROVE HeapInv'
    BY <2>5, AcquireInv, FindInv, MorecoreInv, FillInv, LinkInv, MarkInv, UnlockInv DEF HeapStep
  <2>6. CASE WatchdogWakes \/ check_for_corruption
    BY <2>6, WatchInv
  <2>7. CASE UNCHANGED heapVars
    BY <2>7, StutterInv
  <2> QED  BY <2>1, <2>2, <2>3, <2>4, <2>5, <2>6, <2>7 DEF HeapNext
<1> QED  BY <1>1, InitInv, PTL DEF HeapSpec

\* A grant lies in its own block, behind the header.
LEMMA GrantInBlock ==
    ASSUME HeapInv, NEW p \in Clients, NEW g \in owned[p]
    PROVE  LET a == HeaderOf(g.ptr) IN
           /\ a \in DOMAIN mem /\ a \in Nat /\ g.ptr = a + header_size /\ g.ptr \in Int
           /\ g.size \in Nat /\ mem[a].size \in Nat /\ g.size <= mem[a].size
           /\ g.ptr % g.align = 0
<1>1. g.ptr \in Int /\ g.size \in Nat
  BY DEF HeapInv, HeapTypeOK, GrantRec
<1>2. HeaderOf(g.ptr) \in DOMAIN mem
  BY DEF HeapInv, HeldLive, Live, Holds, Owns
<1>3. HeaderOf(g.ptr) \in Nat /\ mem[HeaderOf(g.ptr)].size \in Nat
  BY <1>2 DEF HeapInv, HeapTypeOK, HeaderRec
<1>4. g.ptr = HeaderOf(g.ptr) + header_size
  BY <1>1 DEF HeaderOf, header_size
<1> QED  BY <1>1, <1>2, <1>3, <1>4 DEF HeapInv, Granted

\* Blocks given out by alloc, alloc_a and realloc never overlap each other or a
\* header, lie in mapped pages and are aligned as asked, for any number of
\* clients, any sizes and any number of frames.
THEOREM HeapIsSound == HeapSpec => []HeapSound
<1>1. HeapInv => HeapSound
  <2> SUFFICES ASSUME HeapInv PROVE HeapSound
    OBVIOUS
  <2>1. ASSUME NEW p \in Clients, NEW q \in Clients, NEW g \in owned[p], NEW h \in owned[q], ~(p = q /\ g = h)
        PROVE  Disjoint(g.ptr, g.size, h.ptr, h.size)
    <3> DEFINE a == HeaderOf(g.ptr)
               b == HeaderOf(h.ptr)
    <3>1. g.ptr # h.ptr
      BY <2>1 DEF HeapInv, HeldOnce, Holds, Owns, Granted
    <3>2. /\ a \in DOMAIN mem /\ a \in Nat /\ g.ptr = a + header_size
          /\ g.size \in Nat /\ mem[a].size \in Nat /\ g.size <= mem[a].size
      BY GrantInBlock
    <3>3. /\ b \in DOMAIN mem /\ b \in Nat /\ h.ptr = b + header_size
          /\ h.size \in Nat /\ mem[b].size \in Nat /\ h.size <= mem[b].size
      BY GrantInBlock
    <3> HIDE DEF a, b
    <3>4. Disjoint(a, header_size + mem[a].size, b, header_size + mem[b].size)
      BY <3>1, <3>2, <3>3 DEF HeapInv, Blocks
    <3> QED  BY <3>2, <3>3, <3>4 DEF Disjoint, header_size
  <2>2. ASSUME NEW p \in Clients, NEW g \in owned[p]
        PROVE  /\ \A i \in DOMAIN list : Disjoint(g.ptr, g.size, list[i], header_size)
               /\ g.ptr >= HeapBase /\ g.ptr + g.size <= mapped
               /\ g.ptr % g.align = 0
    <3> DEFINE a == HeaderOf(g.ptr)
    <3>1. /\ a \in DOMAIN mem /\ a \in Nat /\ g.ptr = a + header_size /\ g.ptr % g.align = 0
          /\ g.size \in Nat /\ mem[a].size \in Nat /\ g.size <= mem[a].size
      BY GrantInBlock
    <3> HIDE DEF a
    <3>2. ASSUME NEW i \in DOMAIN list PROVE Disjoint(g.ptr, g.size, list[i], header_size)
      <4> DEFINE b == list[i]
      <4>1. b \in DOMAIN mem
        BY DEF HeapInv, Watched
      <4>2. b \in Nat /\ mem[b].size \in Nat
        BY <4>1 DEF HeapInv, HeapTypeOK, HeaderRec
      <4> HIDE DEF b
      <4>3. CASE b = a
        BY <3>1, <4>3 DEF Disjoint, header_size, b
      <4>4. CASE b # a
        <5>1. Disjoint(a, header_size + mem[a].size, b, header_size + mem[b].size)
          BY <3>1, <4>1, <4>4 DEF HeapInv, Blocks
        <5>2. Disjoint(g.ptr, g.size, b, header_size)
          BY <3>1, <4>2, <5>1 DEF Disjoint, header_size
        <5> QED  BY <5>2 DEF b
      <4> QED  BY <4>3, <4>4
    <3>3. mapped \in Nat /\ a >= HeapBase /\ a + header_size + mem[a].size <= mapped
      BY <3>1 DEF HeapInv, HeapTypeOK, Blocks
    <3>4. g.ptr >= HeapBase /\ g.ptr + g.size <= mapped
      BY <3>1, <3>3 DEF header_size, HeapBase
    <3> QED  BY <3>1, <3>2, <3>4
  <2> QED  BY <2>1, <2>2 DEF HeapSound, Grants
<1> QED  BY <1>1, HeapInvariant, PTL

\* check_for_corruption, which takes no lock, reports nothing while clients
\* extend the list: a header is written before it is linked, and none is unlinked.
THEOREM WatchdogStaysQuiet == HeapSpec => []WatchdogQuiet
<1>1. HeapInv => WatchdogQuiet
  BY DEF HeapInv, Watched, WatchdogQuiet
<1> QED  BY <1>1, HeapInvariant, PTL
=============================================================================
