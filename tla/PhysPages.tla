------------------------------ MODULE PhysPages ------------------------------
(***************************************************************************)
(* The physical page allocator of kernel/memory.c: alloc_phys_pages and    *)
(* free_phys_pages over the table phys_mmap, called by any processor.      *)
(*                                                                         *)
(* What runs under phys_mmap_mutex is one step.  free_phys_pages is more   *)
(* than that: when the table is full it drops phys_mmap_mutex, takes       *)
(* phys_mmap_ext_mutex, maps the freed page at the end of the table        *)
(* (map_page, which allocates when a paging structure is missing) and only *)
(* then raises the capacity.  Other processors run between these steps.    *)
(*                                                                         *)
(* `use' is a ghost variable: it says what every frame is used for, from   *)
(* what the callers were told, independently of the table.                 *)
(***************************************************************************)
EXTENDS MemoryMap, FiniteSets

CONSTANTS Procs,        \* processors
          Frames,       \* page frames the firmware gave to the kernel
          InitTables,   \* the tables init_mmap may have built of them
          SlotsPerPage, \* ranges that fit in a page (0x1000/sizeof(memory_range))
          MaxSlots,     \* slots in the region reserved (phys_mmap_max_size)
          MaxRun,       \* the longest run anybody allocates or frees
          Nobody        \* phys_mmap_ext_mutex is free

ASSUME FramesAssumption == Frames \subseteq Nat \ {0}
ASSUME SizesAssumption == /\ SlotsPerPage \in Nat \ {0}
                          /\ MaxSlots \in Nat
                          /\ MaxRun \in Nat
ASSUME TablesAssumption ==
    \A tab \in InitTables :
      /\ tab \in Seq(Ranges)
      /\ Len(tab) <= SlotsPerPage
      /\ Sound(tab)
      /\ Covered(tab) = Frames
ASSUME NobodyAssumption == Nobody \notin Procs

VARIABLES ranges,    \* phys_mmap.memory_ranges, up to range_count
          max,       \* phys_mmap.max_range_count
          backed,    \* the slots of the table whose page is mapped
          ext,       \* holder of phys_mmap_ext_mutex
          pc, arg,   \* per processor: where it is in free_phys_pages, and its arguments
          use,       \* ghost: what each frame is used for
          wide       \* ghost: a run of several pages has become table space

vars == <<ranges, max, backed, ext, pc, arg, use, wide>>

Uses == {"free",    \* nobody's
         "owned",   \* handed out by alloc_phys_pages, in the caller's hands
         "freeing", \* given back, free_phys_pages has not returned
         "table",   \* holds entries of the table itself
         "paging",  \* holds a page table made for the table
         "lost"}    \* given back, but recorded nowhere

PCs == {"idle", "extend", "map", "grow",
        "faulted",   \* page fault under phys_mmap_mutex: halted, mutex kept
        "panicked"}  \* no page for a page table: halted, ext mutex kept

TypeOK == /\ ranges \in Seq(Ranges)
          /\ max \in Nat
          /\ backed \subseteq Nat
          /\ ext \in Procs \cup {Nobody}
          /\ pc \in [Procs -> PCs]
          /\ arg \in [Procs -> Ranges]
          /\ use \in [Frames -> Uses]
          /\ wide \in BOOLEAN

Init == /\ ranges \in InitTables
        /\ max = SlotsPerPage               \* PHYS_MMAP_INIT_MAX_RANGE_COUNT
        /\ backed = Run(0, SlotsPerPage)
        /\ ext = Nobody
        /\ pc = [p \in Procs |-> "idle"]
        /\ arg = [p \in Procs |-> memory_range(0, 0)]
        /\ use = [f \in Frames |-> "free"]
        /\ wide = FALSE

Goto(p, label) == pc' = [pc EXCEPT ![p] = label]
Done(p) == Goto(p, "idle") /\ arg' = [arg EXCEPT ![p] = memory_range(0, 0)]
UseFor(S, u) == use' = [f \in Frames |-> IF f \in S THEN u ELSE use[f]]

\* phys_mmap_mutex is held across steps only by a processor that halted in it.
PhysMutexFree == \A q \in Procs : pc[q] # "faulted"

\* Plausible slips, for the mutants.
CheckForgetsNewPages(n) == max < MaxSlots
RefuseUnchecked(p) ==
    /\ pc[p] = "extend" /\ ext = Nobody
    /\ UseFor(Run(arg[p].base, arg[p].pages), "lost")
    /\ Done(p)
    /\ UNCHANGED <<ranges, max, backed, ext, wide>>
GrowByOneMore(p) ==
    /\ pc[p] = "grow" /\ max' = max + (arg[p].pages + 1) * SlotsPerPage
    /\ ext' = Nobody /\ Done(p)
    /\ UNCHANGED <<ranges, backed, use, wide>>

-----------------------------------------------------------------------------
(* alloc_phys_pages(n): one critical section; 0 means "no pages".          *)
alloc_phys_pages(p, n) ==
    /\ pc[p] = "idle" /\ PhysMutexFree
    /\ LET got == mmap_get_pages(ranges, n)
       IN  /\ ranges' = got.tab
           /\ UseFor(IF got.addr = 0 THEN {} ELSE Run(got.addr, n), "owned")
    /\ UNCHANGED <<max, backed, ext, pc, arg, wide>>

(* free_phys_pages, the critical section under phys_mmap_mutex.  A store   *)
(* into a slot whose page is not mapped is a page fault.  A run of no      *)
(* pages, which kfree's trimming of the heap can ask for with whatever the *)
(* page table holds behind the heap (0 stands for it here), is refused by  *)
(* mmap_add_range_merge and goes on to the extension like a full table.    *)
CallerMayFree(base, n) == \A f \in Run(base, n) : f \in Frames /\ use[f] = "owned"

SlotMissing(tab) == Len(tab) > Len(ranges) /\ Len(ranges) \notin backed

free_phys_pages(p, base, n) ==
    /\ pc[p] = "idle" /\ PhysMutexFree /\ CallerMayFree(base, n)
    /\ LET added == mmap_add_range_merge(ranges, max, base, n)
       IN  \/ /\ added.ok /\ ~SlotMissing(added.tab)
              /\ ranges' = added.tab
              /\ UseFor(Run(base, n), "free")
              /\ UNCHANGED <<pc, arg>>
           \/ /\ added.ok /\ SlotMissing(added.tab)
              /\ Goto(p, "faulted")
              /\ UNCHANGED <<ranges, use, arg>>
           \/ /\ ~added.ok
              /\ Goto(p, "extend")
              /\ arg' = [arg EXCEPT ![p] = memory_range(base, n)]
              /\ UseFor(Run(base, n), "freeing")
              /\ UNCHANGED ranges
    /\ UNCHANGED <<max, backed, ext, wide>>

(* The check under phys_mmap_ext_mutex; without space the pages are gone.  *)
RegionHasSpace(n) == max + n * SlotsPerPage < MaxSlots

Refuse(p) ==
    /\ pc[p] = "extend" /\ ext = Nobody /\ ~RegionHasSpace(arg[p].pages)
    /\ UseFor(Run(arg[p].base, arg[p].pages), "lost")
    /\ Done(p)
    /\ UNCHANGED <<ranges, max, backed, ext, wide>>

Extend(p) ==
    /\ pc[p] = "extend" /\ ext = Nobody /\ RegionHasSpace(arg[p].pages)
    /\ ext' = p
    /\ Goto(p, "map")
    /\ UNCHANGED <<ranges, max, backed, arg, use, wide>>

(* map_page(memory_ranges + max_range_count, base_addr) maps ONE page,     *)
(* however long the run is: the rest of a longer run is recorded nowhere.  *)
(* `taken' is the page map_page allocates for a page table when the        *)
(* region's next page lies in a new 2 MiB stretch, or nothing.             *)
MapsTablePage(p, taken) ==
    LET r == arg[p]
    IN  /\ pc[p] = "map"
        /\ backed' = backed \cup Run(max, SlotsPerPage)
        /\ wide' = (wide \/ r.pages > 1)
        /\ use' = [f \in Frames |->
                     CASE f \in taken -> "paging"
                       [] f \in Run(r.base, r.pages) ->
                            IF f = r.base THEN "table" ELSE "lost"
                       [] OTHER -> use[f]]
        /\ Goto(p, "grow")
        /\ UNCHANGED <<max, ext, arg>>

MapTablePage(p) == MapsTablePage(p, {}) /\ UNCHANGED ranges

MapWithPageTable(p) ==
    /\ PhysMutexFree
    /\ LET got == mmap_get_pages(ranges, 1)
       IN  /\ got.addr # 0
           /\ MapsTablePage(p, {got.addr})
           /\ ranges' = got.tab

NoPageForPageTable(p) ==
    /\ pc[p] = "map" /\ PhysMutexFree
    /\ mmap_get_pages(ranges, 1).addr = 0
    /\ Goto(p, "panicked")
    /\ UNCHANGED <<ranges, max, backed, ext, arg, use, wide>>

Grow(p) ==
    /\ pc[p] = "grow"
    /\ max' = max + arg[p].pages * SlotsPerPage
    /\ ext' = Nobody
    /\ Done(p)
    /\ UNCHANGED <<ranges, backed, use, wide>>

Next == \E p \in Procs :
          \/ \E n \in 1 .. MaxRun : alloc_phys_pages(p, n)
          \/ \E base \in Frames, n \in 1 .. MaxRun : free_phys_pages(p, base, n)
          \/ free_phys_pages(p, 0, 0)
          \/ Refuse(p)
          \/ Extend(p)
          \/ MapTablePage(p)
          \/ MapWithPageTable(p)
          \/ NoPageForPageTable(p)
          \/ Grow(p)

(* No fairness: map_page (memory.c:121) takes paging_mutex, a spin lock     *)
(* without a queue, and waits for the answers of all processors, so that a *)
(* processor may stay at "map" with phys_mmap_ext_mutex for ever.          *)
Spec == Init /\ [][Next]_vars

-----------------------------------------------------------------------------
(* The table describes exactly the free frames, each of them once: no      *)
(* overlap, no empty range, nothing that a caller, the table or a page     *)
(* table is using (memory.c:84-127, mmap.c:5-51).                          *)
TableTrue ==
    /\ Sound(ranges)
    /\ Covered(ranges) = {f \in Frames : use[f] = "free"}

(* A frame is handed out only when it was nobody's: never twice, and never *)
(* while a free_phys_pages that is still running holds it.                 *)
NoDoubleAllocation ==
    [][\A f \in Frames : use'[f] \in {"owned", "paging"} /\ use'[f] # use[f]
                           => use[f] = "free"]_vars

(* The pages of two calls of free_phys_pages that found the table full are *)
(* different pages, and neither is handed out before its call is over.     *)
InFlight(p) == pc[p] \in {"extend", "map", "panicked"}

PendingDisjoint ==
    /\ \A p \in Procs : InFlight(p) =>
         \A f \in Run(arg[p].base, arg[p].pages) : f \in Frames /\ use[f] = "freeing"
    /\ \A p, q \in Procs : InFlight(p) /\ InFlight(q) /\ p # q =>
         Run(arg[p].base, arg[p].pages) \cap Run(arg[q].base, arg[q].pages) = {}

(* One processor extends the table at a time (memory.c:112-125).           *)
OneExtender == \A p \in Procs : (ext = p) <=> pc[p] \in {"map", "grow", "panicked"}

(* The table never outgrows its capacity nor the capacity the region the   *)
(* linker script reserves: the check of memory.c:115 is still true when    *)
(* memory.c:122 raises the capacity, whatever ran in between.              *)
CapacityBounded ==
    /\ Len(ranges) <= max
    /\ max > SlotsPerPage => max < MaxSlots
    /\ \A p \in Procs : pc[p] \in {"map", "grow"} => RegionHasSpace(arg[p].pages)

(* A page is recorded nowhere only when the region was too full for the    *)
(* longest run, or when a run of several pages became table space.         *)
LostOnlyAtLimit ==
    (\E f \in Frames : use[f] = "lost") => wide \/ ~RegionHasSpace(MaxRun)

(* As long as only single pages have extended the table, every slot below  *)
(* the capacity is mapped and free_phys_pages never faults.  With longer   *)
(* runs the capacity rises by all of the run's pages, and only its first   *)
(* is mapped (memory.c:121-122).                                           *)
SlotsBacked ==
    ~wide => /\ \A s \in Run(0, max) : s \in backed
             /\ \A p \in Procs : pc[p] # "faulted"

(* What the proofs need besides: the arguments in flight are in bounds,    *)
(* and between the mapping of a table page and the rise of the capacity    *)
(* the new slots are there.                                                *)
ArgsInBounds == \A p \in Procs : arg[p].pages <= MaxRun
GrowReady == \A p \in Procs : pc[p] = "grow" =>
               /\ \A s \in Run(max, SlotsPerPage) : s \in backed
               /\ arg[p].pages > 1 => wide

(* The inductive invariant.                                                *)
PhysInv == /\ TypeOK /\ TableTrue /\ PendingDisjoint /\ OneExtender
           /\ CapacityBounded /\ LostOnlyAtLimit /\ SlotsBacked
           /\ ArgsInBounds /\ GrowReady
=============================================================================
