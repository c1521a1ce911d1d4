------------------------------- MODULE PmmBoot -------------------------------
(***************************************************************************)
(* mm::pmm::init: from the boot loader's memory map to the first stack of   *)
(* free ranges.  It runs once, alone, so it is an operator on the map:      *)
(*   b.mmap      the available regions, in the order of the map;            *)
(*   b.reserved  the inclusive page ranges of the kernel image with its     *)
(*               stack of entries, the boot data, the initrd and the        *)
(*               symbol tables.                                             *)
(***************************************************************************)
EXTENDS Integers, Sequences, SequencesExt

CONSTANTS
    Low,         \* the first page above 1 MiB
    PageSpan     \* page counts wrap at this value (2^64 / block_size)

PushRegionFullLength(s, e) ==
    IF e.base + e.n_pages < Low THEN s
    ELSE Append(s, IF e.base < Low THEN [base |-> Low, n_pages |-> e.n_pages] ELSE e)
PushRegion(s, e) ==
    IF e.base + e.n_pages < Low THEN s
    ELSE Append(s, IF e.base < Low
                   THEN [base |-> Low, n_pages |-> e.n_pages - (Low - e.base)]
                   ELSE e)

\* x is compared with the slot above the top, which sort_stack has popped and
\* not yet overwritten, and then with each entry popped on the way down.
sorted_insert(popped, s, x) ==
    IF s = << >> \/ x.base < popped[Len(s) + 1].base THEN Append(s, x)
    ELSE LET i == SelectLastInSeq(s, LAMBDA e : x.base < e.base)
         IN InsertAt(s, IF i = 0 THEN 1 ELSE i, x)

sort_stack(s) ==
    FoldLeft(LAMBDA acc, x : IF x.n_pages = 0 THEN acc ELSE sorted_insert(s, acc, x),
             << >>, s)

\* Replace the entry that holds addr by the part below it, push the part above.
\* The upper limit is inclusive: at addr = limit the part above wraps.
ReservedUpTo(addr, e) == addr <= e.base + e.n_pages
reserve_block(s, addr) ==
    LET i == SelectInSeq(s, LAMBDA e :
               addr >= e.base /\ ReservedUpTo(addr, e) /\ e.n_pages # 0)
        first == [base |-> s[i].base, n_pages |-> addr - s[i].base]
        second == [base |-> addr + 1,
                   n_pages |-> (s[i].base + s[i].n_pages - (addr + 1)) % PageSpan]
    IN CASE i = 0 -> s
         [] i # 0 /\ first.n_pages = 0 -> [s EXCEPT ![i] = second]
         [] i # 0 /\ first.n_pages # 0 /\ second.n_pages = 0 -> [s EXCEPT ![i] = first]
         [] OTHER -> Append([s EXCEPT ![i] = first], second)

ReserveRange(s, r) ==
    FoldLeft(reserve_block, s, [k \in 1 .. r.last - r.first + 1 |-> r.first + k - 1])

init(b) ==
    sort_stack(FoldLeft(ReserveRange, sort_stack(FoldLeft(PushRegion, << >>, b.mmap)),
                        b.reserved))

\* What init is for: the pages of the map above 1 MiB that nothing reserves.
Usable(b) ==
    (UNION {b.mmap[i].base .. b.mmap[i].base + b.mmap[i].n_pages - 1 : i \in DOMAIN b.mmap}
       \ 0 .. Low - 1)
    \ UNION {b.reserved[i].first .. b.reserved[i].last : i \in DOMAIN b.reserved}
==============================================================================
