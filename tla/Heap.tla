-------------------------------- MODULE Heap --------------------------------
(***************************************************************************)
(* The kernel heap (src/kernel/source/mm/alloc.cpp): a list of headers,    *)
(* each followed by its block, that only ever grows at its end.  alloc,    *)
(* alloc_a and free run under alloc_global_mutex; realloc looks at the     *)
(* header of its block before it takes the mutex, and the watchdog thread  *)
(* of kernel_main walks the list without taking it.  Clients are the       *)
(* threads in the kernel, on different processors or preempting each       *)
(* other.  A client frees and resizes only what it was given.              *)
(*                                                                         *)
(* Addresses are bytes from HeapBase.  Stores reach other processors in    *)
(* program order, as they do on x86.                                       *)
(***************************************************************************)
EXTENDS Integers, Sequences

CONSTANTS Clients,      \* threads that call the allocator
          Sizes,        \* sizes they ask for
          HeapFrames    \* frames the physical memory manager has for the heap

ASSUME HeapAssumption == Sizes \subseteq Nat /\ HeapFrames \in Nat /\ "nobody" \notin Clients

VARIABLES list,     \* the headers from head to tail, by address
          mem,      \* what is stored in a header
          brk,      \* current_heap_offset
          mapped,   \* current_heap_page_offset
          frames,   \* frames left
          mutex,    \* the client that holds alloc_global_mutex
          step,     \* where a client is in the allocator
          call,     \* what it asked for
          owned,    \* what it was given: pointer, size and alignment it asked for
          watch,    \* header the watchdog looks at next, 0 while it sleeps
          alarm     \* the watchdog has reported corruption

heapVars == <<list, mem, brk, mapped, frames, mutex, step, call, owned, watch, alarm>>

HeapBase == 4096
block_size == 4096
header_size == 64
Nobody == "nobody"

ALIGN_UP(n, a) == ((n + a - 1) \div a) * a
\* alloc promises what operator new must; alloc_a what a SIMD area needs.
Alignments == {16, 64}

NoCall == [op |-> "none", size |-> 0, align |-> 16, old |-> 0, ret |-> 0]
Header(size) == [size |-> size, free |-> FALSE, magic |-> TRUE]
Blank == [size |-> 0, free |-> FALSE, magic |-> FALSE]
HeaderOf(ptr) == ptr - header_size
Payload(a) == a + header_size

HeapInit ==
    /\ list = << >> /\ mem = [a \in {} |-> Blank]
    /\ brk = HeapBase /\ mapped = HeapBase /\ frames = HeapFrames
    /\ mutex = Nobody
    /\ step = [p \in Clients |-> "idle"]
    /\ call = [p \in Clients |-> NoCall]
    /\ owned = [p \in Clients |-> {}]
    /\ watch = 0 /\ alarm = FALSE

\* init: four pages to start with, before any client runs.
init_pages == 4
HeapStarted == mapped > HeapBase
HeapStart ==
    /\ ~HeapStarted /\ frames >= init_pages
    /\ mapped' = mapped + init_pages * block_size
    /\ frames' = frames - init_pages
    /\ UNCHANGED <<list, mem, brk, mutex, step, call, owned, watch, alarm>>

----------------------------------------------------------------------------
After_linkfirst(s) ==
    CASE s = "morecore" -> "link"
      [] s = "link" -> "fill"
      [] s = "fill" -> "unlock"

\* The steps of a call in the order the code takes them.
After(s) ==
    CASE s = "morecore" -> "fill"
      [] s = "fill" -> "link"
      [] s = "link" -> "unlock"

Goto(p, s) == step' = [step EXCEPT ![p] = s]
Returns(p, ptr) == call' = [call EXCEPT ![p].ret = ptr]

\* alloc and alloc_a.  alloc of nothing returns at once.
Alloc(p, op, size, align) ==
    /\ HeapStarted /\ step[p] = "idle"
    /\ op = "alloc" => align = 16
    /\ IF op = "alloc" /\ size = 0
       THEN UNCHANGED <<step, call>>
       ELSE /\ Goto(p, "lock")
            /\ call' = [call EXCEPT ![p] = [NoCall EXCEPT !.op = op, !.size = size, !.align = align]]
    /\ UNCHANGED <<list, mem, brk, mapped, frames, mutex, owned, watch, alarm>>

Free(p, g) ==
    /\ step[p] = "idle" /\ g \in owned[p]
    /\ owned' = [owned EXCEPT ![p] = @ \ {g}]
    /\ call' = [call EXCEPT ![p] = [NoCall EXCEPT !.op = "free", !.old = g.ptr]]
    /\ Goto(p, "lock")
    /\ UNCHANGED <<list, mem, brk, mapped, frames, mutex, watch, alarm>>

\* realloc reads the header without the mutex.  A block that is large enough is
\* returned, one with a broken header is refused, otherwise alloc is called.
Realloc(p, g, size) ==
    LET h == mem[HeaderOf(g.ptr)] IN
    /\ step[p] = "idle" /\ g \in owned[p] /\ size > 0
    /\ CASE h.free \/ ~h.magic -> UNCHANGED <<step, call, owned>>
         [] h.magic /\ ~h.free /\ h.size >= size ->
                /\ owned' = [owned EXCEPT ![p] = (@ \ {g}) \union {[g EXCEPT !.size = size, !.align = 16]}]
                /\ UNCHANGED <<step, call>>
         [] OTHER ->
                /\ call' = [call EXCEPT ![p] = [op |-> "realloc", size |-> size, align |-> 16,
                                                old |-> g.ptr, ret |-> 0]]
                /\ Goto(p, "lock")
                /\ UNCHANGED owned
    /\ UNCHANGED <<list, mem, brk, mapped, frames, mutex, watch, alarm>>

Acquire(p) ==
    /\ step[p] = "lock" /\ mutex = Nobody
    /\ mutex' = p
    /\ Goto(p, CASE call[p].op = "free" -> "mark"
                 [] call[p].op = "alloc_a" -> "morecore"
                 [] OTHER -> "find")
    /\ UNCHANGED <<list, mem, brk, mapped, frames, call, owned, watch, alarm>>

Fits(i, size) == mem[list[i]].free /\ mem[list[i]].size >= size
get_free_block(size) ==
    {i \in DOMAIN list : Fits(i, size) /\ \A j \in 1 .. i - 1 : ~Fits(j, size)}

\* A free block with a broken header makes alloc return null.
Find(p) ==
    LET found == get_free_block(call[p].size) IN
    /\ step[p] = "find"
    /\ IF found = {}
       THEN Goto(p, "morecore") /\ UNCHANGED <<mem, call>>
       ELSE LET a == list[CHOOSE i \in found : TRUE] IN
            /\ IF mem[a].magic
               THEN mem' = [mem EXCEPT ![a].free = FALSE] /\ Returns(p, Payload(a))
               ELSE UNCHANGED <<mem, call>>
            /\ Goto(p, "unlock")
    /\ UNCHANGED <<list, brk, mapped, frames, mutex, owned, watch, alarm>>

----------------------------------------------------------------------------
\* morecore: pages are mapped while the first unmapped one is not beyond the end.
PagesWanted(end) == IF mapped > end THEN 0 ELSE (end - mapped) \div block_size + 1
TotalSize_body(size) == size
TotalSize(size) == size + header_size
NewBlock(align) == ALIGN_UP(brk, align)
\* alloc asks for its header at a multiple of 64, whatever its caller needs.
AlignAsked(p) == IF call[p].op = "alloc_a" THEN call[p].align ELSE 64

\* When frames run out the pages mapped and the end moved so far stay as they are.
Morecore(p) ==
    LET a == NewBlock(AlignAsked(p))
        end == a + TotalSize(call[p].size)
        n == PagesWanted(end) IN
    /\ step[p] = "morecore"
    /\ brk' = end
    /\ IF n <= frames
       THEN /\ mapped' = mapped + n * block_size /\ frames' = frames - n
            /\ mem' = [x \in (DOMAIN mem) \union {a} |-> IF x = a THEN Blank ELSE mem[x]]
            /\ Returns(p, Payload(a))
            /\ Goto(p, After("morecore"))
       ELSE /\ mapped' = mapped + frames * block_size /\ frames' = 0
            /\ Goto(p, "unlock")
            /\ UNCHANGED <<mem, call>>
    /\ UNCHANGED <<list, mutex, owned, watch, alarm>>

Fill(p) ==
    /\ step[p] = "fill"
    /\ mem' = [mem EXCEPT ![HeaderOf(call[p].ret)] = Header(call[p].size)]
    /\ Goto(p, After("fill"))
    /\ UNCHANGED <<list, brk, mapped, frames, mutex, call, owned, watch, alarm>>

Link(p) ==
    /\ step[p] = "link"
    /\ list' = Append(list, HeaderOf(call[p].ret))
    /\ Goto(p, After("link"))
    /\ UNCHANGED <<mem, brk, mapped, frames, mutex, call, owned, watch, alarm>>

\* free.  A broken header and a block that is free already are refused.
Mark(p) ==
    LET a == HeaderOf(call[p].old) IN
    /\ step[p] = "mark"
    /\ mem' = IF mem[a].magic /\ ~mem[a].free THEN [mem EXCEPT ![a].free = TRUE] ELSE mem
    /\ Goto(p, "unlock")
    /\ UNCHANGED <<list, brk, mapped, frames, mutex, call, owned, watch, alarm>>

\* The guard of the mutex goes, and the caller has its answer.  realloc that got
\* a block goes on to free the old one, after copying it.
Unlock(p) ==
    LET c == call[p]
        grant == [ptr |-> c.ret, size |-> c.size, align |-> c.align]
        given == IF c.ret = 0 THEN {} ELSE {grant}
        moved == {g \in owned[p] : g.ptr = c.old} IN
    /\ step[p] = "unlock"
    /\ mutex' = Nobody
    /\ owned' = [owned EXCEPT ![p] =
                   IF c.op = "realloc" /\ c.ret # 0 THEN (@ \ moved) \union given ELSE @ \union given]
    /\ IF c.op = "realloc" /\ c.ret # 0
       THEN /\ call' = [call EXCEPT ![p] = [NoCall EXCEPT !.op = "free", !.old = c.old]]
            /\ Goto(p, "lock")
       ELSE /\ call' = [call EXCEPT ![p] = NoCall]
            /\ Goto(p, "idle")
    /\ UNCHANGED <<list, mem, brk, mapped, frames, watch, alarm>>

----------------------------------------------------------------------------
\* The watchdog thread: check_for_corruption, one header at a time, then sleep.
WatchdogWakes ==
    /\ watch = 0 /\ ~alarm /\ list # << >>
    /\ watch' = 1
    /\ UNCHANGED <<list, mem, brk, mapped, frames, mutex, step, call, owned, alarm>>

check_for_corruption ==
    /\ watch > 0
    /\ IF mem[list[watch]].magic
       THEN watch' = (IF watch < Len(list) THEN watch + 1 ELSE 0) /\ UNCHANGED alarm
       ELSE watch' = 0 /\ alarm' = TRUE
    /\ UNCHANGED <<list, mem, brk, mapped, frames, mutex, step, call, owned>>

\* A step of a call that is under way.
HeapStep(p) ==
    \/ Acquire(p)
    \/ Find(p)
    \/ Morecore(p)
    \/ Fill(p)
    \/ Link(p)
    \/ Mark(p)
    \/ Unlock(p)

HeapNext ==
    \/ HeapStart
    \/ \E p \in Clients, op \in {"alloc", "alloc_a"}, size \in Sizes, align \in Alignments : Alloc(p, op, size, align)
    \/ \E p \in Clients : \E g \in owned[p] : Free(p, g)
    \/ \E p \in Clients : \E g \in owned[p], size \in Sizes : Realloc(p, g, size)
    \/ \E p \in Clients : HeapStep(p)
    \/ WatchdogWakes
    \/ check_for_corruption

HeapSpec == HeapInit /\ [][HeapNext]_heapVars

----------------------------------------------------------------------------
Disjoint(a, m, b, n) == a + m <= b \/ b + n <= a
Grants == UNION {owned[p] : p \in Clients}

\* What clients hold is theirs alone: blocks given out do not overlap each other
\* or a header, lie in pages that are mapped, and are aligned as was asked
\* (alloc, alloc_a, realloc, free; the PANIC of simd.cpp:27 relies on it).
HeapSound ==
    /\ \A p, q \in Clients : \A g \in owned[p], h \in owned[q] :
           (p = q /\ g = h) \/ Disjoint(g.ptr, g.size, h.ptr, h.size)
    /\ \A g \in Grants :
           /\ \A i \in DOMAIN list : Disjoint(g.ptr, g.size, list[i], header_size)
           /\ g.ptr >= HeapBase /\ g.ptr + g.size <= mapped
           /\ g.ptr % g.align = 0

\* The watchdog walks the list while clients extend it without ever reporting a
\* header that is not corrupt: a header is complete before it is linked.
WatchdogQuiet == ~alarm
=============================================================================
