------------------------------- MODULE Memory -------------------------------
(***************************************************************************)
(* The memory of threads: their page tables (arch/x86_64/paging.cpp), the   *)
(* frames recorded in thread_resources and the system calls that change     *)
(* them (process.cpp, elf.cpp), on top of the physical memory manager.      *)
(*                                                                          *)
(* A handler is a job of its thread; the CPUs' handlers interleave at each  *)
(* call of the memory manager, so one action is one such call and what the  *)
(* code does up to the next.  Page tables have Levels levels of Fanout      *)
(* entries (4 and 512 in the code), the algorithm being the same at each.   *)
(***************************************************************************)
EXTENDS Pmm, PmmBoot, FiniteSets

CONSTANTS
    Slots,        \* entries of thread_list
    MaxVirt,      \* bound: user pages are 0 .. MaxVirt
    Levels,       \* levels of page tables
    Fanout,       \* entries of a table
    Sizes,        \* pages asked for by one call
    MaxFrames,    \* bound: frames of one thread
    MaxCalls,     \* bound: allocations for kernel objects
    Fixed,        \* addresses that callers of map_anonymous choose themselves
    BootInputs,   \* memory maps and reserved ranges
    Dropped       \* pages that init takes at its end and forgets (10 in the code)

VARIABLES
    boot,         \* the boot data the kernel started from
    used,         \* slots in use
    root,         \* context::paging_info, 0 for nullptr
    table,        \* frames of the lower tables, 0 where not present
    page,         \* frames of the user pages, 0 where not present
    frames,       \* thread_resources::frames
    job,          \* what each thread's handler has still to do
    kernel,       \* pages of kernel objects
    calls         \* allocations for kernel objects so far

vars == <<pmmVars, boot, used, root, table, page, frames, job, kernel, calls>>
kernelVars == <<kernel, calls>>
spaceVars == <<root, table, page, frames>>

Virt == 0 .. MaxVirt
TableIds == UNION {{<<l, v \div (Fanout ^ l)>> : v \in Virt} : l \in 1 .. Levels - 1}
Path(v) == {<<l, v \div (Fanout ^ l)>> : l \in 1 .. Levels - 1}
Idle == [op |-> "none", space |-> 0, frees |-> << >>, root |-> FALSE,
         todo |-> << >>, frame |-> 0]
Mapped(t) == {v \in Virt : page[t][v] # 0}

TakePage(s) ==
    LET i == SelectLastInSeq(s, LAMBDA e : e.n_pages # 0)
    IN SubSeq(s, 1, i - 1) \o RestOf(s[i])

Init ==
    /\ boot \in BootInputs
    /\ stack = FoldLeft(LAMBDA s, k : TakePage(s), init(boot), [k \in 1 .. Dropped |-> k])
    /\ owned = UNION {PagesOf(init(boot)[i]) : i \in DOMAIN init(boot)} \ FreePages
    /\ lost = {} /\ panicked = "no"
    /\ used = {}
    /\ root = [t \in Slots |-> 0]
    /\ table = [t \in Slots |-> [i \in TableIds |-> 0]]
    /\ page = [t \in Slots |-> [v \in Virt |-> 0]]
    /\ frames = [t \in Slots |-> << >>]
    /\ job = [t \in Slots |-> Idle]
    /\ kernel = {} /\ calls = 0

(***************************************************************************)
(* Kernel objects: the heap, page tables of the kernel, stacks of the APs   *)
(* (smp.cpp:39), and the blocks of guests and IOMMU contexts, which are     *)
(* freed again (svm.cpp:203, sl_paging.cpp:14).                             *)
(***************************************************************************)
KernelCall == calls < MaxCalls /\ calls' = calls + 1

KernelAlloc == \E p \in Pages :
    /\ KernelCall
    /\ alloc_block(p)
    /\ kernel' = kernel \cup {p}
    /\ UNCHANGED <<boot, used, spaceVars, job>>

KernelAllocRun == \E n \in Sizes, p \in Pages :
    /\ KernelCall
    /\ alloc_n_blocks(n, p)
    /\ kernel' = kernel \cup Run(p, n)
    /\ UNCHANGED <<boot, used, spaceVars, job>>

KernelFree == \E p \in kernel :
    /\ free_block(p)
    /\ kernel' = kernel \ {p}
    /\ UNCHANGED <<boot, used, spaceVars, job, calls>>

(***************************************************************************)
(* context::deinit frees the tables in post-order and the root, and leaves  *)
(* paging_info as it is.  clone_paging_info deinits and calls init, which   *)
(* finds paging_info set and deinits again before it takes a new root; the  *)
(* lower half of the kernel's tables, which is cloned, is empty.            *)
(***************************************************************************)
LastLeaf(i) == (i[2] + 1) * Fanout ^ i[1]
PostOrder(i, j) == LastLeaf(i) < LastLeaf(j) \/ (LastLeaf(i) = LastLeaf(j) /\ i[1] < j[1])
deinit(t) ==
    LET ids == SetToSortSeq({i \in TableIds : table[t][i] # 0}, PostOrder)
    IN IF root[t] = 0 THEN << >>
       ELSE [k \in DOMAIN ids |-> table[t][ids[k]]] \o <<root[t]>>

clone_paging_info(t) == [Idle EXCEPT !.space = t, !.root = TRUE, !.frees = deinit(t) \o deinit(t)]

(***************************************************************************)
(* The calls a thread makes.  map_anonymous takes the lowest free range or  *)
(* the address it is given; expand_thread_stack and load_executable map     *)
(* pages at addresses of their own choice in the same way.  Callers ask for *)
(* PROT_READ, without which map_anonymous would not set the present bit,    *)
(* and the search area is large enough for get_free_range to find a range.  *)
(***************************************************************************)
FreeRange(t, n) == {v \in Virt : v + n - 1 <= MaxVirt /\ v .. v + n - 1 \cap Mapped(t) = {}}
get_free_range(t, n) == CHOOSE v \in FreeRange(t, n) : \A u \in FreeRange(t, n) : v <= u
Upwards(v, n) == [k \in 1 .. n |-> v + k - 1]

Ready(t) == panicked = "no" /\ t \in used /\ \A u \in Slots : job[u] = Idle \/ t \notin {u, job[u].space}
Start(t, j) == job' = [job EXCEPT ![t] = j]

map_anonymous(t) == \E n \in Sizes, v \in Virt :
    /\ Ready(t)
    /\ Len(frames[t]) + n <= MaxFrames
    /\ v + n - 1 <= MaxVirt
    /\ \/ FreeRange(t, n) # {} /\ v = get_free_range(t, n)
       \/ v \in Fixed
    /\ Start(t, [Idle EXCEPT !.op = "map", !.space = t, !.todo = Upwards(v, n)])
    /\ UNCHANGED <<pmmVars, boot, used, spaceVars, kernelVars>>

get_phys_region(t) == \E n \in Sizes, p \in Pages :
    /\ Ready(t)
    /\ Len(frames[t]) + n <= MaxFrames
    /\ FreeRange(t, n) # {}
    /\ alloc_n_blocks(n, p)
    /\ frames' = [frames EXCEPT ![t] = @ \o Upwards(p, n)]
    /\ Start(t, [Idle EXCEPT !.op = "region", !.space = t,
                             !.todo = Upwards(get_free_range(t, n), n), !.frame = p])
    /\ UNCHANGED <<boot, used, root, table, page, kernelVars>>

\* create_blocked_thread, which takes the first slot not in use, and
\* clone_paging_info, by the kernel.
NewSlot(t) == t \notin used /\ \A u \in Slots \ used : t <= u

create_thread(t) ==
    /\ panicked = "no" /\ NewSlot(t)
    /\ used' = used \cup {t}
    /\ Start(t, [clone_paging_info(t) EXCEPT !.op = "create"])
    /\ UNCHANGED <<pmmVars, boot, spaceVars, kernelVars>>

\* fork_address_space copies every page of the parent, lowest address first.
\* The kernel maps all of memory, so its own map_page calls take no page.
PagesAbove(t) == SetToSortSeq(Mapped(t) \ {0}, <)
PagesToCopy(t) == SetToSortSeq(Mapped(t), <)

fork(t) == \E child \in Slots :
    /\ Ready(t) /\ NewSlot(child)
    /\ used' = used \cup {child}
    /\ Start(t, [clone_paging_info(child) EXCEPT
                    !.op = "fork", !.todo = PagesToCopy(t)])
    /\ UNCHANGED <<pmmVars, boot, spaceVars, kernelVars>>

\* kill frees every frame, then the tables (deinit) and the tables again (init);
\* resources.frames keeps its entries.
kill(t) ==
    /\ Ready(t)
    /\ Start(t, [clone_paging_info(t) EXCEPT !.op = "kill", !.frees = frames[t] \o @])
    /\ UNCHANGED <<pmmVars, boot, used, spaceVars, kernelVars>>

(***************************************************************************)
(* The steps of a job: the frees and the new root of a context, then for    *)
(* each page its frame, the tables map_page finds missing (from the top     *)
(* level down), and the entry itself.                                       *)
(***************************************************************************)
Busy(t) == panicked = "no" /\ job[t] # Idle
FreeNext(t) ==
    /\ Busy(t) /\ job[t].frees # << >>
    /\ free_block(Head(job[t].frees))
    /\ job' = [job EXCEPT ![t].frees = Tail(@)]
    /\ UNCHANGED <<boot, used, spaceVars, kernelVars>>

\* The handler returns after its last page; kill then leaves a free slot.
Advance(t, j) == job' = [job EXCEPT ![t] = IF j.todo = << >> THEN Idle ELSE j]
Remaining(t) == IF job[t].op = "kill" THEN used \ {t} ELSE used

NewRoot(t) == \E p \in Pages :
    /\ Busy(t) /\ job[t].frees = << >> /\ job[t].root
    /\ alloc_block(p)
    /\ root' = [root EXCEPT ![job[t].space] = p]
    /\ table' = [table EXCEPT ![job[t].space] = [i \in TableIds |-> 0]]
    /\ page' = [page EXCEPT ![job[t].space] = [v \in Virt |-> 0]]
    /\ Advance(t, [job[t] EXCEPT !.root = FALSE])
    /\ used' = Remaining(t)
    /\ UNCHANGED <<boot, frames, kernelVars>>

Working(t) == Busy(t) /\ ~job[t].root

NextFrame(t) == \E p \in Pages :
    /\ Working(t) /\ job[t].frame = 0
    /\ alloc_block(p)
    /\ job' = [job EXCEPT ![t].frame = p]
    /\ UNCHANGED <<boot, used, spaceVars, kernelVars>>

Missing(t) == {i \in Path(Head(job[t].todo)) : table[job[t].space][i] = 0}

AddTable(t) ==
    /\ Working(t) /\ job[t].frame # 0
    /\ \E i \in Missing(t), p \in Pages :
         /\ \A k \in Missing(t) : k[1] <= i[1]
         /\ alloc_block(p)
         /\ table' = [table EXCEPT ![job[t].space][i] = p]
    /\ UNCHANGED <<boot, used, root, page, frames, job, kernelVars>>

AlsoFork(t) == job[t].op \in {"region", "fork"}
Recorded(t) == job[t].op = "region"

\* The frames of get_phys_region are consecutive and already recorded.
map_page(t) ==
    /\ Working(t) /\ job[t].frame # 0 /\ Missing(t) = {}
    /\ page' = [page EXCEPT ![job[t].space][Head(job[t].todo)] = job[t].frame]
    /\ frames' = IF Recorded(t) THEN frames
                 ELSE [frames EXCEPT ![job[t].space] = Append(@, job[t].frame)]
    /\ Advance(t, [job[t] EXCEPT !.todo = Tail(@),
                                 !.frame = IF Recorded(t) THEN @ + 1 ELSE 0])
    /\ UNCHANGED <<pmmVars, boot, used, root, table, kernelVars>>

\* A call that finds no memory stops the kernel.
Stop(panic) == panic /\ UNCHANGED <<boot, used, spaceVars, job, kernelVars>>
OutOfPages == Stop(Underflow) \/ \E n \in Sizes : Stop(OutOfMemory(n))

Handler(t) ==
    \/ NewRoot(t) \/ NextFrame(t) \/ AddTable(t) \/ map_page(t)
    \/ Busy(t) /\ Stop(Underflow)

Next ==
    \/ KernelAlloc \/ KernelAllocRun \/ KernelFree \/ OutOfPages
    \/ \E t \in Slots : \/ create_thread(t) \/ map_anonymous(t) \/ get_phys_region(t) \/ fork(t)
                      \/ Handler(t)

Spec == Init /\ [][Next]_vars

\* A CPU executes the handler it has entered to its end.
FairSpec == Spec /\ \A t \in Slots : WF_vars(Handler(t))

\* The same with threads that exit.
NextWithKill == Next \/ \E t \in Slots : kill(t) \/ FreeNext(t)
SpecWithKill == Init /\ [][NextWithKill]_vars

(***************************************************************************)
(* Properties                                                               *)
(***************************************************************************)

\* Types of the free list, the page tables and the handlers' progress.
TypeOK ==
    /\ stack \in Seq(Entry) /\ Len(stack) <= StackSize
    /\ owned \subseteq Pages /\ lost \subseteq Pages /\ kernel \subseteq Pages
    /\ panicked \in {"no", "underflow", "out of memory", "overflow"}
    /\ used \subseteq Slots
    /\ root \in [Slots -> {0} \cup Pages]
    /\ table \in [Slots -> [TableIds -> {0} \cup Pages]]
    /\ page \in [Slots -> [Virt -> {0} \cup Pages]]
    /\ frames \in [Slots -> Seq(Pages)]
    /\ \A t \in Slots : job[t].op \in {"none", "create", "map", "region", "fork", "kill"}

\* A thread whose address space is not being set up or torn down.
Live(t) == t \in used /\ \A u \in Slots : ~(job[u].space = t /\ job[u].root)
Uses(p) ==
    {<<"root", t>> : t \in {u \in used : Live(u) /\ root[u] = p}}
    \cup {<<"table", x>> : x \in {y \in used \X TableIds : Live(y[1]) /\ table[y[1]][y[2]] = p}}
    \cup {<<"page", x>> : x \in {y \in used \X Virt : Live(y[1]) /\ page[y[1]][y[2]] = p}}
    \cup {<<"kernel">> : q \in {p} \cap kernel}
    \cup {<<"free">> : q \in {p} \cap FreePages}

\* A page has one use: the root, a table or a mapping of one live thread, a
\* kernel object, or a place on the free stack.  Two uses would let one thread's
\* write change another's memory or page tables.
OneUse == \A p \in Pages : Cardinality(Uses(p)) <= 1

Holds(t) == {root[t]} \cup {table[t][i] : i \in TableIds} \cup {page[t][v] : v \in Virt}

\* A thread in a slot that another has left starts "with a clean slate, make sure
\* no data leaks to the next thread" (create_thread_int): no two live threads
\* hold the same page.
NothingShared ==
    \A t, u \in used : t # u /\ Live(t) /\ Live(u) => Holds(t) \cap Holds(u) \subseteq {0}

\* Every page of the machine that init may hand out is free, held by a caller or
\* cut off by alloc_n_blocks; none that init reserved is among them.
PagesAccounted == FreePages \cup owned \cup lost = Usable(boot)

\* kill gives back all that a thread maps: a frame in a thread's page tables is
\* recorded in its resources (the physical memory of devices is not modelled).
MappingsRecorded == \A t \in used : {page[t][v] : v \in Mapped(t)} \subseteq ToSet(frames[t])

\* alloc_block stops the kernel only when no page is free, although empty entries
\* stay on the stack, and the stack has room for every page that is freed.
PanicsOnlyWhenOut ==
    /\ panicked = "underflow" => FreePages = {}
    /\ panicked # "overflow"

\* When fork returns, the child maps the addresses the parent maps.
ForkCopiesAll ==
    [][\A t, child \in Slots :
          job[t].op = "fork" /\ job[t].space = child /\ job'[t] = Idle
          => Mapped(child)' = Mapped(t)]_vars

\* Every handler comes to its end, or the kernel has stopped for want of memory.
HandlersFinish == \A t \in Slots : (job[t] # Idle) ~> (job[t] = Idle \/ panicked # "no")
==============================================================================
