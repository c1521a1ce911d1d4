--------------------------------- MODULE Pmm ---------------------------------
(***************************************************************************)
(* The physical memory manager (kernel/source/mm/pmm.cpp): a stack of       *)
(* ranges of free pages.  pmm_global_mutex makes every call atomic.         *)
(* Addresses are page numbers: block_size is 1.                             *)
(***************************************************************************)
EXTENDS Integers, Sequences

CONSTANTS
    MaxPage,     \* the highest physical page
    StackSize    \* entries between stack_base and stack_top

ASSUME PageAssumption == MaxPage \in Nat /\ StackSize \in Nat

VARIABLES
    stack,       \* the rle_stack_entry records from stack_base to stack_pointer
    owned,       \* ghost: the pages callers hold
    lost,        \* ghost: pages that left the stack without being returned
    panicked     \* the PANIC that stopped the kernel, if any

pmmVars == <<stack, owned, lost, panicked>>

Pages == 1 .. MaxPage
Entry == [base : Nat, n_pages : Nat]
Run(p, n) == p .. p + n - 1
PagesOf(e) == Run(e.base, e.n_pages)
FreePages == UNION {PagesOf(stack[i]) : i \in DOMAIN stack}

(***************************************************************************)
(* alloc_block: empty entries on top are popped and dropped, the first page *)
(* of the next one is returned and its rest pushed back.                    *)
(***************************************************************************)
Topmost(i) ==
    /\ i \in DOMAIN stack
    /\ stack[i].n_pages # 0
    /\ \A j \in DOMAIN stack : j > i => stack[j].n_pages = 0

WholeEntry(e) == <<e>>
RestOf(e) == IF e.n_pages = 1 THEN << >>
             ELSE <<[base |-> e.base + 1, n_pages |-> e.n_pages - 1]>>

alloc_block(p) == \E i \in DOMAIN stack :
    /\ panicked = "no"
    /\ Topmost(i)
    /\ p = stack[i].base
    /\ stack' = SubSeq(stack, 1, i - 1) \o RestOf(stack[i])
    /\ owned' = owned \cup {p}
    /\ UNCHANGED <<lost, panicked>>

\* pop on an empty stack: "RLE Stack underflow".
TopEmpty == stack = << >> \/ stack[Len(stack)].n_pages = 0
NoEntry == stack = << >>
NothingLeft == \A i \in DOMAIN stack : stack[i].n_pages = 0

Underflow ==
    /\ panicked = "no"
    /\ NothingLeft
    /\ panicked' = "underflow"
    /\ UNCHANGED <<stack, owned, lost>>

(***************************************************************************)
(* alloc_n_blocks: the loop has no break, so n pages are cut off every      *)
(* entry that has them and the last such entry's are returned.              *)
(***************************************************************************)
FitsAlmost(n) == {i \in DOMAIN stack : stack[i].n_pages + 1 >= n}
Fits(n) == {i \in DOMAIN stack : stack[i].n_pages >= n}

alloc_n_blocks(n, p) == \E last \in Fits(n) :
    /\ panicked = "no"
    /\ \A i \in Fits(n) : i <= last
    /\ p = stack[last].base
    /\ stack' = [i \in DOMAIN stack |->
                   IF i \in Fits(n)
                   THEN [base |-> stack[i].base + n, n_pages |-> stack[i].n_pages - n]
                   ELSE stack[i]]
    /\ owned' = owned \cup Run(p, n)
    /\ lost' = lost \cup UNION {Run(stack[i].base, n) : i \in Fits(n) \ {last}}
    /\ UNCHANGED panicked

OutOfMemory(n) ==
    /\ panicked = "no"
    /\ Fits(n) = {}
    /\ panicked' = "out of memory"
    /\ UNCHANGED <<stack, owned, lost>>

(***************************************************************************)
(* free_block: the page joins the first entry, from the bottom, that it     *)
(* touches, or is pushed as an entry of its own.                            *)
(***************************************************************************)
Under(p, e) == p + 1 = e.base
Above(p, e) == e.base + e.n_pages = p
Touches(p) == {i \in DOMAIN stack : Under(p, stack[i]) \/ Above(p, stack[i])}
JoinedAtTheTop(p, e) == [base |-> e.base, n_pages |-> e.n_pages + 1]
JoinedNotGrown(p, e) == [base |-> IF Under(p, e) THEN p ELSE e.base, n_pages |-> e.n_pages]
Joined(p, e) ==
    [base |-> IF Under(p, e) THEN p ELSE e.base, n_pages |-> e.n_pages + 1]

free_block(p) ==
    /\ panicked = "no"
    /\ \/ \E i \in Touches(p) :
            /\ \A j \in Touches(p) : i <= j
            /\ stack' = [stack EXCEPT ![i] = Joined(p, stack[i])]
            /\ owned' = owned \ {p}
            /\ UNCHANGED panicked
       \/ /\ Touches(p) = {} /\ Len(stack) + 2 # StackSize
          /\ stack' = Append(stack, [base |-> p, n_pages |-> 1])
          /\ owned' = owned \ {p}
          /\ UNCHANGED panicked
       \/ /\ Touches(p) = {} /\ Len(stack) + 2 = StackSize
          /\ panicked' = "overflow"
          /\ UNCHANGED <<stack, owned>>
    /\ UNCHANGED lost

(***************************************************************************)
(* The manager with callers that give back only what they hold.             *)
(***************************************************************************)
Disjoint ==
    \A i, j \in DOMAIN stack : i # j => PagesOf(stack[i]) \cap PagesOf(stack[j]) = {}

PmmInit ==
    /\ stack \in Seq(Entry)
    /\ FreePages \subseteq Pages
    /\ Disjoint
    /\ owned \subseteq Pages \ FreePages
    /\ lost = {} /\ panicked = "no"

PmmNext ==
    \/ \E p \in Pages : alloc_block(p)
    \/ \E n, p \in Nat : alloc_n_blocks(n, p)
    \/ \E p \in owned : free_block(p)
    \/ Underflow
    \/ \E n \in Nat : OutOfMemory(n)

PmmSpec == PmmInit /\ [][PmmNext]_pmmVars

(***************************************************************************)
(* Properties                                                               *)
(***************************************************************************)

\* No page is handed out twice: a page is on the stack once at most, and not
\* while a caller of alloc_block or alloc_n_blocks holds it.
FreeOnce ==
    /\ Disjoint
    /\ FreePages \cap owned = {}

\* The manager implements the set of free pages it stands for.
PhysicalMemory == INSTANCE PhysMem WITH free <- FreePages
RefinesPhysMem == PhysicalMemory!Spec
==============================================================================
