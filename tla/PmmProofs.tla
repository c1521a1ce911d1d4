------------------------------ MODULE PmmProofs ------------------------------
(***************************************************************************)
(* Proofs about the physical memory manager, for every amount of memory:    *)
(* no page is handed out twice, and the stack of ranges implements the      *)
(* abstract set of free pages.                                              *)
(***************************************************************************)
EXTENDS Pmm, TLAPS

\* FreeOnce needs the entries to be well formed and to stay inside memory.
PmmInv ==
    /\ stack \in Seq(Entry)
    /\ FreePages \subseteq Pages
    /\ owned \subseteq Pages
    /\ FreeOnce

\* A page is free when some entry of the stack covers it.
LEMMA FreePage ==
    ASSUME NEW q
    PROVE  q \in FreePages <=> \E i \in DOMAIN stack : q \in PagesOf(stack[i])
BY DEF FreePages

\* The same for the stack after a step.
LEMMA FreePageNext ==
    ASSUME NEW q
    PROVE  q \in FreePages' <=> \E i \in DOMAIN stack' : q \in PagesOf(stack'[i])
BY DEF FreePages, PagesOf, Run

\* What an entry covers.
LEMMA Covered ==
    ASSUME NEW e \in Entry, NEW q
    PROVE  q \in PagesOf(e) <=> q \in Int /\ e.base <= q /\ q < e.base + e.n_pages
BY DEF PagesOf, Run, Entry

\* A step that only cuts pages off entries keeps them disjoint and frees nothing.
LEMMA Shrinking ==
    ASSUME Disjoint, DOMAIN stack' \subseteq DOMAIN stack,
           \A j \in DOMAIN stack' : PagesOf(stack'[j]) \subseteq PagesOf(stack[j])
    PROVE  Disjoint' /\ FreePages' \subseteq FreePages
<1>1. Disjoint'
  <2> SUFFICES ASSUME NEW i \in DOMAIN stack', NEW j \in DOMAIN stack', i # j
               PROVE  PagesOf(stack'[i]) \cap PagesOf(stack'[j]) = {}
    BY DEF Disjoint, PagesOf, Run
  <2>1. PagesOf(stack[i]) \cap PagesOf(stack[j]) = {}
    BY DEF Disjoint
  <2> QED BY <2>1
<1>2. FreePages' \subseteq FreePages
  BY FreePage, FreePageNext
<1> QED BY <1>1, <1>2

\* alloc_block returns a free page and takes exactly that page off the stack.
LEMMA AllocBlock ==
    ASSUME PmmInv, NEW p, alloc_block(p)
    PROVE  /\ stack' \in Seq(Entry) /\ Disjoint'
           /\ p \in FreePages
           /\ FreePages' = FreePages \ {p}
<1>1. PICK i \in DOMAIN stack : /\ Topmost(i) /\ p = stack[i].base
                                /\ stack' = SubSeq(stack, 1, i - 1) \o RestOf(stack[i])
  BY DEF alloc_block
<1>2. /\ stack \in Seq(Entry) /\ i \in 1 .. Len(stack) /\ stack[i] \in Entry
      /\ stack[i].n_pages # 0
  BY <1>1 DEF PmmInv, Topmost
<1>3. stack[i].base \in Nat /\ stack[i].n_pages \in Nat \ {0} /\ p = stack[i].base
  BY <1>1, <1>2 DEF Entry
<1> DEFINE low == SubSeq(stack, 1, i - 1)
           cut == [base |-> p + 1, n_pages |-> stack[i].n_pages - 1]
<1>4. low \in Seq(Entry) /\ Len(low) = i - 1 /\ \A j \in 1 .. i - 1 : low[j] = stack[j]
  BY <1>2
<1>5. cut \in Entry /\ cut.base = p + 1 /\ cut.n_pages = stack[i].n_pages - 1
  BY <1>3 DEF Entry
<1>6. ASSUME NEW j \in DOMAIN stack, j > i PROVE PagesOf(stack[j]) = {}
  <2>1. stack[j] \in Entry /\ stack[j].n_pages = 0
    BY <1>6, <1>1, <1>2 DEF Topmost
  <2> QED BY <2>1 DEF Entry, PagesOf, Run
<1>7. CASE stack[i].n_pages = 1
  <2>1. stack' = low
    BY <1>7, <1>1, <1>4 DEF RestOf
  <2> HIDE DEF low, cut
  <2>2. /\ stack' \in Seq(Entry) /\ DOMAIN stack' = 1 .. i - 1
        /\ \A j \in 1 .. i - 1 : stack'[j] = stack[j]
    BY <2>1, <1>2, <1>4
  <2>3. PagesOf(stack[i]) = {p}
    BY <1>7, <1>2, <1>3 DEF PagesOf, Run
  <2>4. Disjoint' /\ FreePages' \subseteq FreePages
    BY <2>2, <1>2, Shrinking DEF PmmInv, FreeOnce
  <2>5. ASSUME NEW q PROVE q \in FreePages' <=> q \in FreePages /\ q # p
    <3>1. ASSUME q \in FreePages' PROVE q # p
      <4>1. PICK j \in 1 .. i - 1 : q \in PagesOf(stack[j])
        BY <3>1, <2>2, FreePageNext
      <4>2. PagesOf(stack[j]) \cap PagesOf(stack[i]) = {} 
        BY <1>2 DEF PmmInv, FreeOnce, Disjoint
      <4> QED BY <4>1, <4>2, <2>3
    <3>2. ASSUME q \in FreePages, q # p PROVE q \in FreePages'
      <4>1. PICK j \in DOMAIN stack : q \in PagesOf(stack[j])
        BY <3>2, FreePage
      <4>2. j <= i
        BY <4>1, <1>2, <1>6
      <4>3. j \in 1 .. i - 1
        BY <4>1, <4>2, <3>2, <2>3, <1>2
      <4> QED BY <4>1, <4>3, <2>2, FreePageNext
    <3> QED BY <3>1, <3>2, <2>4
  <2>6. p \in FreePages
    BY <2>3, <1>1, FreePage
  <2> QED BY <2>2, <2>4, <2>5, <2>6
<1>8. CASE stack[i].n_pages # 1
  <2>1. stack' = low \o <<cut>>
    BY <1>8, <1>1 DEF RestOf
  <2> HIDE DEF low, cut
  <2>2. /\ stack' \in Seq(Entry) /\ DOMAIN stack' = 1 .. i
        /\ \A j \in 1 .. i - 1 : stack'[j] = stack[j]
        /\ stack'[i] = cut
    BY <2>1, <1>2, <1>4, <1>5
  <2>3. p \in PagesOf(stack[i]) /\ PagesOf(cut) = PagesOf(stack[i]) \ {p}
    BY <1>5, <1>2, <1>3 DEF PagesOf, Run
  <2>4. Disjoint' /\ FreePages' \subseteq FreePages
    BY <2>2, <2>3, <1>2, Shrinking DEF PmmInv, FreeOnce
  <2>5. ASSUME NEW q PROVE q \in FreePages' <=> q \in FreePages /\ q # p
    <3>1. ASSUME q \in FreePages' PROVE q # p
      <4>1. PICK j \in 1 .. i : q \in PagesOf(stack'[j])
        BY <3>1, <2>2, FreePageNext
      <4>2. CASE j = i
        BY <4>1, <4>2, <2>2, <2>3
      <4>3. CASE j # i
        <5>1. PagesOf(stack[j]) \cap PagesOf(stack[i]) = {}
          BY <4>3, <1>2 DEF PmmInv, FreeOnce, Disjoint
        <5>2. stack'[j] = stack[j]
          BY <4>3, <2>2, <1>2
        <5> QED BY <4>1, <5>1, <5>2, <2>3
      <4> QED BY <4>2, <4>3
    <3>2. ASSUME q \in FreePages, q # p PROVE q \in FreePages'
      <4>1. PICK j \in DOMAIN stack : q \in PagesOf(stack[j])
        BY <3>2, FreePage
      <4>2. j <= i
        BY <4>1, <1>2, <1>6
      <4>3. j \in 1 .. i /\ q \in PagesOf(stack'[j])
        BY <4>1, <4>2, <3>2, <2>2, <2>3, <1>2
      <4> QED BY <4>3, <2>2, FreePageNext
    <3> QED BY <3>1, <3>2, <2>4
  <2>6. p \in FreePages
    BY <2>3, <1>1, FreePage
  <2> QED BY <2>2, <2>4, <2>5, <2>6
<1> QED BY <1>7, <1>8

\* alloc_n_blocks cuts pages off entries: those it returns were free, and of the
\* free pages it adds none.
LEMMA AllocNBlocks ==
    ASSUME PmmInv, NEW n \in Nat, NEW p \in Nat, alloc_n_blocks(n, p)
    PROVE  /\ stack' \in Seq(Entry) /\ Disjoint'
           /\ Run(p, n) \subseteq FreePages
           /\ FreePages' \subseteq FreePages \ Run(p, n)
           /\ n = 0 => FreePages' = FreePages
<1>1. PICK last \in Fits(n) : p = stack[last].base
  BY DEF alloc_n_blocks
<1> DEFINE cut(i) == [base |-> stack[i].base + n, n_pages |-> stack[i].n_pages - n]
<1>2. stack' = [i \in DOMAIN stack |-> IF i \in Fits(n) THEN cut(i) ELSE stack[i]]
  BY DEF alloc_n_blocks
<1>3. stack \in Seq(Entry) /\ DOMAIN stack = 1 .. Len(stack) /\ Len(stack) \in Nat
  BY DEF PmmInv
<1>4. \A i \in DOMAIN stack : /\ stack[i] \in Entry
                              /\ stack[i].base \in Nat /\ stack[i].n_pages \in Nat
  <2> SUFFICES ASSUME NEW i \in DOMAIN stack
               PROVE  /\ stack[i] \in Entry
                      /\ stack[i].base \in Nat /\ stack[i].n_pages \in Nat
    OBVIOUS
  <2>1. stack[i] \in Entry
    BY <1>3
  <2> QED BY <2>1 DEF Entry
<1>5. \A i \in Fits(n) : cut(i) \in Entry
  BY <1>4 DEF Fits, Entry
<1>6. \A i \in Fits(n) : /\ i \in DOMAIN stack
                         /\ Run(stack[i].base, n) \subseteq PagesOf(stack[i])
                         /\ PagesOf(cut(i)) = PagesOf(stack[i]) \ Run(stack[i].base, n)
  BY <1>4 DEF Fits, PagesOf, Run
<1> HIDE DEF cut
<1>7. /\ DOMAIN stack' = DOMAIN stack
      /\ \A i \in DOMAIN stack : stack'[i] = IF i \in Fits(n) THEN cut(i) ELSE stack[i]
  BY <1>2
<1>8. stack' \in Seq(Entry)
  BY <1>2, <1>3, <1>4, <1>5
<1>9. \A j \in DOMAIN stack' : PagesOf(stack'[j]) \subseteq PagesOf(stack[j])
  BY <1>6, <1>7
<1>10. Disjoint' /\ FreePages' \subseteq FreePages
  BY <1>7, <1>9, Shrinking DEF PmmInv, FreeOnce
<1>11. Run(p, n) \subseteq FreePages
  BY <1>1, <1>6, FreePage
<1>12. ASSUME NEW q \in Run(p, n), q \in FreePages' PROVE FALSE
  <2>1. PICK j \in DOMAIN stack : q \in PagesOf(stack'[j])
    BY <1>12, <1>7, FreePageNext
  <2>2. q \in PagesOf(stack[last]) /\ q \in PagesOf(stack[j])
    BY <2>1, <1>1, <1>6, <1>7, <1>9
  <2>3. j = last
    BY <2>2, <1>6 DEF PmmInv, FreeOnce, Disjoint
  <2> QED BY <2>1, <2>3, <1>1, <1>6, <1>7
<1>13. ASSUME n = 0, NEW q \in FreePages PROVE q \in FreePages'
  <2>1. PICK j \in DOMAIN stack : q \in PagesOf(stack[j])
    BY FreePage
  <2>2. \A i \in Fits(n) : Run(stack[i].base, n) = {}
    BY <1>13, <1>4, <1>6 DEF Run
  <2>3. PagesOf(stack'[j]) = PagesOf(stack[j])
    BY <2>2, <1>6, <1>7
  <2> QED BY <2>1, <2>3, <1>7, FreePageNext
<1> QED BY <1>8, <1>10, <1>11, <1>12, <1>13

\* Joining a page to an entry it touches adds that page and no other.
LEMMA JoinedPages ==
    ASSUME NEW e \in Entry, NEW p \in Pages, Under(p, e) \/ Above(p, e)
    PROVE  Joined(p, e) \in Entry /\ PagesOf(Joined(p, e)) = PagesOf(e) \cup {p}
<1>1. e.base \in Nat /\ e.n_pages \in Nat /\ p \in Nat
  BY PageAssumption DEF Entry, Pages
<1>2. CASE Under(p, e)
  <2>1. Joined(p, e).base = p /\ Joined(p, e).n_pages = e.n_pages + 1
    BY <1>2 DEF Joined
  <2>2. Joined(p, e) \in Entry
    BY <1>1, <1>2 DEF Joined, Entry
  <2> QED BY <2>1, <2>2, <1>1, <1>2 DEF Under, PagesOf, Run
<1>3. CASE ~Under(p, e)
  <2>1. Joined(p, e).base = e.base /\ Joined(p, e).n_pages = e.n_pages + 1
    BY <1>3 DEF Joined
  <2>2. Joined(p, e) \in Entry
    BY <1>1, <1>3 DEF Joined, Entry
  <2> QED BY <2>1, <2>2, <1>1, <1>3 DEF Above, PagesOf, Run
<1> QED BY <1>2, <1>3

\* free_block puts exactly the page it is given back, unless it stops the kernel.
LEMMA FreeBlock ==
    ASSUME PmmInv, NEW p \in owned, free_block(p)
    PROVE  /\ stack' \in Seq(Entry) /\ Disjoint'
           /\ \/ FreePages' = FreePages \cup {p} /\ owned' = owned \ {p}
              \/ UNCHANGED <<stack, owned>>
<1>1. p \in Pages /\ p \notin FreePages
  BY DEF PmmInv, FreeOnce
<1>2. stack \in Seq(Entry) /\ DOMAIN stack = 1 .. Len(stack) /\ Len(stack) \in Nat
  BY DEF PmmInv
<1>3. \A j \in DOMAIN stack : stack[j] \in Entry /\ p \notin PagesOf(stack[j])
  BY <1>1, <1>2, FreePage
<1>4. ASSUME NEW i \in Touches(p), stack' = [stack EXCEPT ![i] = Joined(p, stack[i])]
      PROVE  /\ stack' \in Seq(Entry) /\ Disjoint'
             /\ FreePages' = FreePages \cup {p}
  <2>1. i \in DOMAIN stack /\ (Under(p, stack[i]) \/ Above(p, stack[i]))
    BY DEF Touches
  <2>2. Joined(p, stack[i]) \in Entry /\ PagesOf(Joined(p, stack[i])) = PagesOf(stack[i]) \cup {p}
    BY <2>1, <1>1, <1>3, JoinedPages
  <2>3. /\ stack' \in Seq(Entry) /\ DOMAIN stack' = DOMAIN stack
        /\ stack'[i] = Joined(p, stack[i])
        /\ \A j \in DOMAIN stack : j # i => stack'[j] = stack[j]
    BY <1>4, <1>2, <2>1, <2>2
  <2>4. Disjoint'
    <3> SUFFICES ASSUME NEW j \in DOMAIN stack', NEW k \in DOMAIN stack', j # k
                 PROVE  PagesOf(stack'[j]) \cap PagesOf(stack'[k]) = {}
      BY DEF Disjoint, PagesOf, Run
    <3>1. PagesOf(stack[j]) \cap PagesOf(stack[k]) = {}
      BY <2>3 DEF PmmInv, FreeOnce, Disjoint
    <3> QED BY <3>1, <2>2, <2>3, <1>3
  <2>5. ASSUME NEW q PROVE q \in FreePages' <=> q \in FreePages \/ q = p
    BY <2>1, <2>2, <2>3, FreePage, FreePageNext
  <2> QED BY <2>3, <2>4, <2>5
<1>5. ASSUME stack' = Append(stack, [base |-> p, n_pages |-> 1])
      PROVE  /\ stack' \in Seq(Entry) /\ Disjoint'
             /\ FreePages' = FreePages \cup {p}
  <2> DEFINE new == [base |-> p, n_pages |-> 1]
  <2>1. new \in Entry /\ PagesOf(new) = {p}
    BY <1>1, PageAssumption DEF Pages, Entry, PagesOf, Run
  <2>2. /\ stack' \in Seq(Entry) /\ DOMAIN stack' = 1 .. Len(stack) + 1
        /\ stack'[Len(stack) + 1] = new
        /\ \A j \in DOMAIN stack : stack'[j] = stack[j]
    BY <1>5, <1>2, <2>1
  <2> HIDE DEF new
  <2>3. \A j \in DOMAIN stack' : j \in DOMAIN stack \/ j = Len(stack) + 1
    BY <2>2, <1>2
  <2>4. Disjoint'
    <3> SUFFICES ASSUME NEW j \in DOMAIN stack', NEW k \in DOMAIN stack', j # k
                 PROVE  PagesOf(stack'[j]) \cap PagesOf(stack'[k]) = {}
      BY DEF Disjoint, PagesOf, Run
    <3>1. j \in DOMAIN stack /\ k \in DOMAIN stack =>
             PagesOf(stack[j]) \cap PagesOf(stack[k]) = {}
      BY DEF PmmInv, FreeOnce, Disjoint
    <3> QED BY <3>1, <2>1, <2>2, <2>3, <1>3
  <2>5. ASSUME NEW q PROVE q \in FreePages' <=> q \in FreePages \/ q = p
    <3>1. Len(stack) + 1 \in DOMAIN stack' /\ DOMAIN stack \subseteq DOMAIN stack'
      BY <2>2, <1>2
    <3> QED BY <3>1, <2>1, <2>2, <2>3, FreePage, FreePageNext
  <2> QED BY <2>2, <2>4, <2>5
<1>6. ASSUME UNCHANGED <<stack, owned>> PROVE stack' \in Seq(Entry) /\ Disjoint'
  BY <1>6, <1>2 DEF PmmInv, FreeOnce, Disjoint, PagesOf, Run
<1> QED BY <1>4, <1>5, <1>6 DEF free_block

\* The inductive step.
LEMMA PmmStep == PmmInv /\ [PmmNext]_pmmVars => PmmInv'
<1> SUFFICES ASSUME PmmInv, [PmmNext]_pmmVars PROVE PmmInv'
  OBVIOUS
<1>1. FreePages \subseteq Pages /\ owned \subseteq Pages /\ FreePages \cap owned = {}
  BY DEF PmmInv, FreeOnce
<1>2. ASSUME NEW p \in Pages, alloc_block(p) PROVE PmmInv'
  <2>1. owned' = owned \cup {p}
    BY <1>2 DEF alloc_block
  <2>2. stack' \in Seq(Entry) /\ Disjoint' /\ FreePages' = FreePages \ {p}
    BY <1>2, AllocBlock
  <2> QED BY <2>1, <2>2, <1>1 DEF PmmInv, FreeOnce, Pages
<1>3. ASSUME NEW n \in Nat, NEW p \in Nat, alloc_n_blocks(n, p) PROVE PmmInv'
  <2>1. owned' = owned \cup Run(p, n)
    BY <1>3 DEF alloc_n_blocks
  <2>2. /\ stack' \in Seq(Entry) /\ Disjoint' /\ Run(p, n) \subseteq FreePages
        /\ FreePages' \subseteq FreePages \ Run(p, n)
    BY <1>3, AllocNBlocks
  <2> QED BY <2>1, <2>2, <1>1 DEF PmmInv, FreeOnce, Pages
<1>4. ASSUME UNCHANGED <<stack, owned>> PROVE PmmInv'
  BY <1>4 DEF PmmInv, FreeOnce, Disjoint, FreePages, PagesOf, Run, Pages
<1>5. ASSUME NEW p \in owned, free_block(p) PROVE PmmInv'
  <2>1. stack' \in Seq(Entry) /\ Disjoint'
    BY <1>5, FreeBlock
  <2>2. CASE FreePages' = FreePages \cup {p} /\ owned' = owned \ {p}
    BY <2>1, <2>2, <1>1 DEF PmmInv, FreeOnce, Pages
  <2> QED BY <2>2, <1>4, <1>5, FreeBlock
<1> QED BY <1>2, <1>3, <1>4, <1>5 DEF PmmNext, pmmVars, Underflow, OutOfMemory

\* No page is handed out twice, whatever the callers of alloc_block,
\* alloc_n_blocks and free_block do with pages they hold.
THEOREM NoPageTwice == PmmSpec => []FreeOnce
<1>1. PmmInit => PmmInv
  BY DEF PmmInit, PmmInv, FreeOnce
<1>2. PmmInv => FreeOnce
  BY DEF PmmInv
<1> QED BY <1>1, <1>2, PmmStep, PTL DEF PmmSpec

\* A step of the manager is a step of the abstract memory or leaves it alone.
LEMMA PmmSimulates ==
    PmmInv /\ [PmmNext]_pmmVars => [PhysicalMemory!Next]_<<FreePages, owned>>
<1> SUFFICES ASSUME PmmInv, [PmmNext]_pmmVars
             PROVE  PhysicalMemory!Next \/ (FreePages' = FreePages /\ owned' = owned)
  OBVIOUS
<1>1. ASSUME NEW p \in Pages, alloc_block(p) PROVE PhysicalMemory!Alloc
  <2>1. owned' = owned \cup {p}
    BY <1>1 DEF alloc_block
  <2> QED BY <2>1, <1>1, AllocBlock DEF PhysicalMemory!Alloc
<1>2. ASSUME NEW n \in Nat, NEW p \in Nat, alloc_n_blocks(n, p)
      PROVE  PhysicalMemory!AllocRun \/ (FreePages' = FreePages /\ owned' = owned)
  <2>1. owned' = owned \cup Run(p, n)
    BY <1>2 DEF alloc_n_blocks
  <2>2. /\ Run(p, n) \subseteq FreePages /\ FreePages' \subseteq FreePages \ Run(p, n)
        /\ n = 0 => FreePages' = FreePages
    BY <1>2, AllocNBlocks
  <2>3. CASE n = 0
    BY <2>1, <2>2, <2>3 DEF Run
  <2>4. CASE n # 0
    <3>1. p \in Run(p, n) /\ p + n - 1 \in Run(p, n)
      BY <2>4 DEF Run
    <3>2. p \in Pages /\ n \in 0 .. MaxPage
      BY <3>1, <2>2, PageAssumption DEF PmmInv, Pages
    <3> QED BY <3>2, <2>1, <2>2 DEF PhysicalMemory!AllocRun, PhysicalMemory!Pages, Pages, Run
  <2> QED BY <2>3, <2>4
<1>3. ASSUME NEW p \in owned, free_block(p)
      PROVE  PhysicalMemory!Free \/ (FreePages' = FreePages /\ owned' = owned)
  <2>1. CASE FreePages' = FreePages \cup {p} /\ owned' = owned \ {p}
    BY <2>1 DEF PhysicalMemory!Free
  <2>2. CASE UNCHANGED <<stack, owned>>
    BY <2>2 DEF FreePages, PagesOf, Run
  <2> QED BY <2>1, <2>2, <1>3, FreeBlock
<1>4. ASSUME UNCHANGED <<stack, owned>> PROVE FreePages' = FreePages /\ owned' = owned
  BY <1>4 DEF FreePages, PagesOf, Run
<1> QED BY <1>1, <1>2, <1>3, <1>4 DEF PmmNext, pmmVars, Underflow, OutOfMemory, PhysicalMemory!Next

\* The stack of ranges implements the set of free pages its callers rely on.
THEOREM PmmImplementsPhysMem == PmmSpec => RefinesPhysMem
<1>1. PmmInit => PmmInv /\ PhysicalMemory!Init
  BY DEF PmmInit, PmmInv, FreeOnce, PhysicalMemory!Init, PhysicalMemory!Pages, Pages
<1> QED BY <1>1, PmmStep, PmmSimulates, PTL DEF PmmSpec, RefinesPhysMem, PhysicalMemory!Spec
==============================================================================
