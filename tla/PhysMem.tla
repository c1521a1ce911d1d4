------------------------------- MODULE PhysMem -------------------------------
(***************************************************************************)
(* What mm::pmm promises its callers, without its stack of ranges: a page   *)
(* that is handed out was free, and stays out of circulation until it is    *)
(* given back.  A contiguous request may cost more pages than it returns    *)
(* (alloc_n_blocks), but never one that is in use.                          *)
(***************************************************************************)
EXTENDS Integers

CONSTANT MaxPage              \* the highest physical page

VARIABLES free, owned

Pages == 1 .. MaxPage         \* page 0 is below the memory that is managed

Init == free \subseteq Pages /\ owned \subseteq Pages /\ free \cap owned = {}

Alloc == \E p \in free :
    /\ free' = free \ {p}
    /\ owned' = owned \cup {p}

AllocRun == \E p \in Pages, n \in 0 .. MaxPage :
    LET run == p .. p + n - 1 IN
    /\ run \subseteq free
    /\ free' \subseteq free \ run
    /\ owned' = owned \cup run

Free == \E p \in owned :
    /\ free' = free \cup {p}
    /\ owned' = owned \ {p}

Next == Alloc \/ AllocRun \/ Free

Spec == Init /\ [][Next]_<<free, owned>>
==============================================================================
