--------------------------- MODULE PhysPagesProofs ---------------------------
(***************************************************************************)
(* Proofs about the physical page allocator of kernel/memory.c, for any    *)
(* set of frames, any number of processors, any capacity and any lengths   *)
(* of runs.                                                                *)
(***************************************************************************)
EXTENDS PhysPages, MemoryMapProofs

-----------------------------------------------------------------------------
(* Runs of more pages need more slots.                                     *)
LEMMA SlotsMonotone ==
  ASSUME NEW m \in Nat, NEW n \in Nat, m <= n
  PROVE  /\ m * SlotsPerPage \in Nat
         /\ n * SlotsPerPage \in Nat
         /\ m * SlotsPerPage <= n * SlotsPerPage
BY SizesAssumption

(* The invariant holds of every table init_mmap may hand over.             *)
LEMMA PhysInit == Init => PhysInv
<1> SUFFICES ASSUME Init PROVE PhysInv
  OBVIOUS
<1> USE SizesAssumption, TablesAssumption, NobodyAssumption DEF Init
<1>1. TypeOK
  <2>1. ranges \in Seq(Ranges)
    OBVIOUS
  <2>2. memory_range(0, 0) \in Ranges
    BY DEF memory_range, Ranges
  <2>3. backed \subseteq Nat
    BY DEF Run
  <2>4. max \in Nat /\ ext \in Procs \cup {Nobody} /\ wide \in BOOLEAN
    OBVIOUS
  <2>5. pc \in [Procs -> PCs] /\ use \in [Frames -> Uses]
    BY DEF PCs, Uses
  <2>6. QED
    BY <2>1, <2>2, <2>3, <2>4, <2>5 DEF TypeOK
<1>2. TableTrue
  BY DEF TableTrue
<1>3. CapacityBounded
  BY DEF CapacityBounded
<1>4. SlotsBacked
  BY DEF SlotsBacked
<1>5. ArgsInBounds
  BY DEF ArgsInBounds, memory_range
<1>6. PendingDisjoint /\ OneExtender /\ LostOnlyAtLimit /\ GrowReady
  BY DEF PendingDisjoint, InFlight, OneExtender, LostOnlyAtLimit, GrowReady
<1>7. QED
  BY <1>1, <1>2, <1>3, <1>4, <1>5, <1>6 DEF PhysInv

(* The table never covers page 0, so 0 is free to mean failure.            *)
LEMMA NoPageZero ==
  ASSUME PhysInv PROVE 0 \notin Covered(ranges)
BY FramesAssumption DEF PhysInv, TableTrue

(* alloc_phys_pages keeps the invariant and hands out free frames only.    *)
LEMMA AllocStep ==
  ASSUME PhysInv, NEW p \in Procs, NEW n \in 1 .. MaxRun, alloc_phys_pages(p, n)
  PROVE  /\ PhysInv'
         /\ \A f \in Frames : use'[f] # use[f] => use[f] = "free"
<1> DEFINE got == mmap_get_pages(ranges, n)
           taken == IF got.addr = 0 THEN {} ELSE Run(got.addr, n)
<1>0. n \in Nat \ {0}
  BY SizesAssumption
<1>1. ranges \in Seq(Ranges) /\ Sound(ranges) /\ 0 \notin Covered(ranges)
  BY NoPageZero DEF PhysInv, TypeOK, TableTrue
<1>2. /\ got.tab \in Seq(Ranges) /\ Sound(got.tab) /\ Len(got.tab) <= Len(ranges)
      /\ taken \subseteq Covered(ranges)
      /\ Covered(got.tab) = Covered(ranges) \ taken
  BY <1>0, <1>1, GetPages
<1>3. /\ ranges' = got.tab
      /\ use' = [f \in Frames |-> IF f \in taken THEN "owned" ELSE use[f]]
      /\ UNCHANGED <<max, backed, ext, pc, arg, wide>>
  BY DEF alloc_phys_pages, UseFor
<1> HIDE DEF got, taken
<1>4. \A f \in taken : f \in Frames /\ use[f] = "free"
  BY <1>2 DEF PhysInv, TableTrue
<1>5. TypeOK'
  BY <1>2, <1>3 DEF PhysInv, TypeOK, Uses
<1>6. TableTrue'
  BY <1>2, <1>3, <1>4 DEF PhysInv, TableTrue
<1>7. PendingDisjoint'
  BY <1>3, <1>4 DEF PhysInv, PendingDisjoint, InFlight
<1>8. CapacityBounded'
  BY <1>1, <1>2, <1>3 DEF PhysInv, TypeOK, CapacityBounded, RegionHasSpace
<1>9. LostOnlyAtLimit'
  BY <1>3 DEF PhysInv, LostOnlyAtLimit, RegionHasSpace
<1>10. OneExtender' /\ SlotsBacked' /\ ArgsInBounds' /\ GrowReady'
  BY <1>3 DEF PhysInv, OneExtender, SlotsBacked, ArgsInBounds, GrowReady
<1>11. QED
  BY <1>3, <1>4, <1>5, <1>6, <1>7, <1>8, <1>9, <1>10 DEF PhysInv

(* free_phys_pages up to the release of phys_mmap_mutex.                   *)
LEMMA FreeStep ==
  ASSUME PhysInv, NEW p \in Procs, NEW base \in Nat, NEW n \in 0 .. MaxRun,
         free_phys_pages(p, base, n)
  PROVE  /\ PhysInv'
         /\ \A f \in Frames : use'[f] # use[f] => use'[f] \in {"free", "freeing"}
<1> DEFINE run == Run(base, n)
           added == mmap_add_range_merge(ranges, max, base, n)
<1>0. n \in Nat /\ n <= MaxRun
  BY SizesAssumption
<1>1. pc[p] = "idle" /\ \A f \in run : f \in Frames /\ use[f] = "owned"
  BY DEF free_phys_pages, CallerMayFree
<1>2. /\ ranges \in Seq(Ranges) /\ Sound(ranges) /\ max \in Nat /\ Len(ranges) <= max
      /\ run \cap Covered(ranges) = {}
  BY <1>1 DEF PhysInv, TypeOK, TableTrue, CapacityBounded
<1>3. /\ added.tab \in Seq(Ranges) /\ Len(added.tab) <= max
      /\ added.ok => Sound(added.tab) /\ Covered(added.tab) = Covered(ranges) \cup run
  BY <1>0, <1>2, AddRange
<1>4. memory_range(base, n) \in Ranges /\ memory_range(base, n).base = base /\ memory_range(base, n).pages = n
  BY <1>0 DEF memory_range, Ranges
<1>5. UNCHANGED <<max, backed, ext, wide>>
  BY DEF free_phys_pages
<1> HIDE DEF run, added
<1>6. CASE /\ added.ok /\ ranges' = added.tab
           /\ use' = [f \in Frames |-> IF f \in run THEN "free" ELSE use[f]]
           /\ UNCHANGED <<pc, arg>>
  <2>1. TypeOK'
    BY <1>3, <1>5, <1>6 DEF PhysInv, TypeOK, Uses
  <2>2. TableTrue'
    BY <1>1, <1>3, <1>6 DEF PhysInv, TableTrue
  <2>3. PendingDisjoint'
    BY <1>1, <1>6 DEF PhysInv, PendingDisjoint, InFlight
  <2>4. CapacityBounded' /\ LostOnlyAtLimit'
    BY <1>3, <1>5, <1>6 DEF PhysInv, CapacityBounded, LostOnlyAtLimit, RegionHasSpace
  <2>5. OneExtender' /\ SlotsBacked' /\ ArgsInBounds' /\ GrowReady'
    BY <1>5, <1>6 DEF PhysInv, OneExtender, SlotsBacked, ArgsInBounds, GrowReady
  <2>6. QED
    BY <1>6, <2>1, <2>2, <2>3, <2>4, <2>5 DEF PhysInv
<1>7. CASE /\ added.ok /\ SlotMissing(added.tab)
           /\ pc' = [pc EXCEPT ![p] = "faulted"]
           /\ UNCHANGED <<ranges, use, arg>>
  <2>1. TypeOK'
    BY <1>5, <1>7 DEF PhysInv, TypeOK, PCs
  <2>2. PendingDisjoint'
    BY <1>1, <1>7 DEF PhysInv, TypeOK, PendingDisjoint, InFlight
  <2>3. OneExtender'
    BY <1>1, <1>5, <1>7 DEF PhysInv, TypeOK, OneExtender
  <2>4. SlotsBacked'
    <3>1. Len(ranges) \in Run(0, max) /\ Len(ranges) \notin backed
      BY <1>2, <1>3, <1>7 DEF SlotMissing, Run
    <3>2. wide
      BY <3>1 DEF PhysInv, SlotsBacked
    <3>3. QED
      BY <1>5, <3>2 DEF SlotsBacked
  <2>5. TableTrue' /\ ArgsInBounds'
    BY <1>7 DEF PhysInv, TableTrue, ArgsInBounds
  <2>6. CapacityBounded' /\ LostOnlyAtLimit'
    BY <1>1, <1>5, <1>7
       DEF PhysInv, TypeOK, CapacityBounded, LostOnlyAtLimit, RegionHasSpace
  <2>7. GrowReady'
    BY <1>1, <1>5, <1>7 DEF PhysInv, TypeOK, GrowReady
  <2>8. QED
    BY <1>7, <2>1, <2>2, <2>3, <2>4, <2>5, <2>6, <2>7 DEF PhysInv
<1>8. CASE /\ ~added.ok
           /\ pc' = [pc EXCEPT ![p] = "extend"]
           /\ arg' = [arg EXCEPT ![p] = memory_range(base, n)]
           /\ use' = [f \in Frames |-> IF f \in run THEN "freeing" ELSE use[f]]
           /\ UNCHANGED ranges
  <2>1. TypeOK'
    BY <1>4, <1>5, <1>8 DEF PhysInv, TypeOK, PCs, Uses
  <2>2. TableTrue'
    BY <1>1, <1>8 DEF PhysInv, TableTrue
  <2>3. /\ arg'[p].base = base /\ arg'[p].pages = n /\ pc'[p] = "extend"
        /\ \A q \in Procs : q # p => arg'[q] = arg[q] /\ pc'[q] = pc[q]
    BY <1>4, <1>8 DEF PhysInv, TypeOK
  <2>4. PendingDisjoint'
    <3>1. ASSUME NEW q \in Procs, InFlight(q)'
          PROVE  \A f \in Run(arg[q].base, arg[q].pages)' : f \in Frames /\ use'[f] = "freeing"
      BY <1>1, <1>8, <2>3, <3>1 DEF PhysInv, PendingDisjoint, InFlight, Run, run
    <3>2. ASSUME NEW q \in Procs, q # p, InFlight(q)'
          PROVE  Run(arg[q].base, arg[q].pages)' \cap run = {}
      BY <1>1, <2>3, <3>2 DEF PhysInv, PendingDisjoint, InFlight, Run
    <3>3. Run(arg[p].base, arg[p].pages)' = run
      BY <2>3 DEF Run, run
    <3>4. ASSUME NEW q \in Procs, NEW r \in Procs, InFlight(q)', InFlight(r)', q # r
          PROVE  Run(arg[q].base, arg[q].pages)' \cap Run(arg[r].base, arg[r].pages)' = {}
      <4>1. CASE q = p
        BY <3>2, <3>3, <3>4, <4>1
      <4>2. CASE r = p
        BY <3>2, <3>3, <3>4, <4>2
      <4>3. CASE q # p /\ r # p
        BY <2>3, <3>4, <4>3 DEF PhysInv, PendingDisjoint, InFlight, Run
      <4>4. QED
        BY <4>1, <4>2, <4>3
    <3>5. QED
      BY <3>1, <3>4 DEF PendingDisjoint
  <2>5. OneExtender' /\ ArgsInBounds'
    BY <1>0, <1>1, <1>5, <2>3 DEF PhysInv, OneExtender, ArgsInBounds
  <2>6. CapacityBounded' /\ SlotsBacked' /\ GrowReady'
    BY <1>5, <1>8, <2>3
       DEF PhysInv, CapacityBounded, SlotsBacked, GrowReady, RegionHasSpace
  <2>7. LostOnlyAtLimit'
    BY <1>5, <1>8 DEF PhysInv, LostOnlyAtLimit, RegionHasSpace
  <2>8. QED
    BY <1>8, <2>1, <2>2, <2>4, <2>5, <2>6, <2>7 DEF PhysInv
<1>9. QED
  BY <1>6, <1>7, <1>8 DEF free_phys_pages, UseFor, Goto, run, added

(* The check under phys_mmap_ext_mutex, with and without space.            *)
LEMMA RefuseStep ==
  ASSUME PhysInv, NEW p \in Procs, Refuse(p)
  PROVE  /\ PhysInv'
         /\ \A f \in Frames : use'[f] # use[f] => use'[f] = "lost"
<1> DEFINE run == Run(arg[p].base, arg[p].pages)
<1>1. /\ pc[p] = "extend" /\ ~RegionHasSpace(arg[p].pages)
      /\ pc' = [pc EXCEPT ![p] = "idle"]
      /\ arg' = [arg EXCEPT ![p] = memory_range(0, 0)]
      /\ use' = [f \in Frames |-> IF f \in run THEN "lost" ELSE use[f]]
      /\ UNCHANGED <<ranges, max, backed, ext, wide>>
  BY DEF Refuse, Done, Goto, UseFor
<1>2. memory_range(0, 0) \in Ranges /\ memory_range(0, 0).pages = 0
  BY DEF memory_range, Ranges
<1>3. \A f \in run : f \in Frames /\ use[f] = "freeing"
  BY <1>1 DEF PhysInv, PendingDisjoint, InFlight
<1>4. /\ arg'[p].pages = 0 /\ pc'[p] = "idle"
      /\ \A q \in Procs : q # p => arg'[q] = arg[q] /\ pc'[q] = pc[q]
  BY <1>1, <1>2 DEF PhysInv, TypeOK
<1>5. arg[p].pages \in Nat /\ arg[p].pages <= MaxRun /\ max \in Nat
  BY DEF PhysInv, TypeOK, Ranges, ArgsInBounds
<1> HIDE DEF run
<1>6. TypeOK'
  BY <1>1, <1>2 DEF PhysInv, TypeOK, PCs, Uses
<1>7. TableTrue'
  BY <1>1, <1>3 DEF PhysInv, TableTrue
<1>8. PendingDisjoint'
  <2>1. ASSUME NEW q \in Procs, InFlight(q)'
        PROVE  /\ q # p /\ InFlight(q)
               /\ Run(arg[q].base, arg[q].pages)' = Run(arg[q].base, arg[q].pages)
               /\ Run(arg[q].base, arg[q].pages) \cap run = {}
    BY <1>1, <1>4, <2>1 DEF PhysInv, PendingDisjoint, InFlight, run, Run
  <2>2. QED
    BY <1>1, <2>1 DEF PhysInv, PendingDisjoint
<1>9. LostOnlyAtLimit'
  <2>1. ~RegionHasSpace(MaxRun)
    BY <1>1, <1>5, SlotsMonotone, SizesAssumption DEF RegionHasSpace
  <2>2. QED
    BY <1>1, <2>1 DEF LostOnlyAtLimit, RegionHasSpace
<1>10. CapacityBounded' /\ SlotsBacked' /\ GrowReady'
  BY <1>1, <1>4 DEF PhysInv, CapacityBounded, SlotsBacked, GrowReady, RegionHasSpace
<1>11. OneExtender' /\ ArgsInBounds'
  BY <1>1, <1>4, SizesAssumption DEF PhysInv, OneExtender, ArgsInBounds
<1>12. QED
  BY <1>1, <1>6, <1>7, <1>8, <1>9, <1>10, <1>11 DEF PhysInv

(* free_phys_pages takes the mutex of the extension.                       *)
LEMMA ExtendStep ==
  ASSUME PhysInv, NEW p \in Procs, Extend(p)
  PROVE  PhysInv' /\ use' = use
<1>1. /\ pc[p] = "extend" /\ ext = Nobody /\ RegionHasSpace(arg[p].pages)
      /\ ext' = p /\ pc' = [pc EXCEPT ![p] = "map"]
      /\ UNCHANGED <<ranges, max, backed, arg, use, wide>>
  BY DEF Extend, Goto
<1>2. pc'[p] = "map" /\ \A q \in Procs : q # p => pc'[q] = pc[q]
  BY <1>1 DEF PhysInv, TypeOK
<1>3. TypeOK'
  BY <1>1 DEF PhysInv, TypeOK, PCs
<1>4. OneExtender'
  BY <1>1, <1>2, NobodyAssumption DEF PhysInv, OneExtender
<1>5. PendingDisjoint'
  BY <1>1, <1>2 DEF PhysInv, PendingDisjoint, InFlight
<1>6. CapacityBounded' /\ SlotsBacked' /\ GrowReady'
  BY <1>1, <1>2 DEF PhysInv, CapacityBounded, SlotsBacked, GrowReady, RegionHasSpace
<1>7. TableTrue' /\ LostOnlyAtLimit' /\ ArgsInBounds'
  BY <1>1 DEF PhysInv, TableTrue, LostOnlyAtLimit, ArgsInBounds, RegionHasSpace
<1>8. QED
  BY <1>1, <1>3, <1>4, <1>5, <1>6, <1>7 DEF PhysInv

(* map_page at the end of the table, with or without a new page table:     *)
(* `taken' is what it allocated, `tab' the table after that.               *)
LEMMA MapStep ==
  ASSUME PhysInv, NEW p \in Procs, NEW taken, NEW tab,
         MapsTablePage(p, taken), ranges' = tab,
         tab \in Seq(Ranges), Sound(tab), Len(tab) <= Len(ranges),
         taken \subseteq Covered(ranges),
         Covered(tab) = Covered(ranges) \ taken
  PROVE  /\ PhysInv'
         /\ \A f \in Frames : use'[f] # use[f] =>
              use'[f] \in {"table", "lost"} \/ (use[f] = "free" /\ use'[f] = "paging")
<1> DEFINE run == Run(arg[p].base, arg[p].pages)
<1>1. /\ pc[p] = "map"
      /\ pc' = [pc EXCEPT ![p] = "grow"]
      /\ backed' = backed \cup Run(max, SlotsPerPage)
      /\ wide' = (wide \/ arg[p].pages > 1)
      /\ use' = [f \in Frames |->
                   CASE f \in taken -> "paging"
                     [] f \in run -> IF f = arg[p].base THEN "table" ELSE "lost"
                     [] OTHER -> use[f]]
      /\ UNCHANGED <<max, ext, arg>>
  BY DEF MapsTablePage, Goto
<1>2. \A f \in taken : f \in Frames /\ use[f] = "free"
  BY DEF PhysInv, TableTrue
<1>3. \A f \in run : f \in Frames /\ use[f] = "freeing"
  BY <1>1 DEF PhysInv, PendingDisjoint, InFlight
<1>4. pc'[p] = "grow" /\ \A q \in Procs : q # p => pc'[q] = pc[q]
  BY <1>1 DEF PhysInv, TypeOK
<1>5. arg[p].pages \in Nat /\ arg[p].base \in Nat /\ max \in Nat /\ arg[p] \in Ranges
  BY DEF PhysInv, TypeOK, Ranges
<1>6. /\ \A f \in taken : use'[f] = "paging"
      /\ \A f \in run : use'[f] \in {"table", "lost"}
      /\ \A f \in Frames : f \notin taken /\ f \notin run => use'[f] = use[f]
      /\ \A f \in run : use'[f] = "lost" => f # arg[p].base
  BY <1>1, <1>2, <1>3
<1>7. use' \in [Frames -> Uses]
  BY <1>1 DEF PhysInv, TypeOK, Uses
<1> HIDE DEF run
<1>8. TypeOK'
  <2>1. backed' \subseteq Nat
    BY <1>1, <1>5, SizesAssumption DEF PhysInv, TypeOK, Run
  <2>2. wide' \in BOOLEAN /\ pc' \in [Procs -> PCs]
    BY <1>1 DEF PhysInv, TypeOK, PCs
  <2>3. QED
    BY <1>1, <1>7, <2>1, <2>2 DEF PhysInv, TypeOK
<1>9. TableTrue'
  BY <1>1, <1>2, <1>3, <1>6 DEF PhysInv, TableTrue
<1>10. PendingDisjoint'
  <2>1. ASSUME NEW q \in Procs, InFlight(q)'
        PROVE  /\ q # p /\ InFlight(q)
               /\ Run(arg[q].base, arg[q].pages)' = Run(arg[q].base, arg[q].pages)
               /\ Run(arg[q].base, arg[q].pages) \cap run = {}
    BY <1>1, <1>4, <2>1 DEF PhysInv, PendingDisjoint, InFlight, run, Run
  <2>2. QED
    BY <1>2, <1>6, <2>1 DEF PhysInv, PendingDisjoint
<1>11. CapacityBounded'
  BY <1>1, <1>4 DEF PhysInv, TypeOK, CapacityBounded, RegionHasSpace
<1>12. LostOnlyAtLimit'
  <2>1. ASSUME NEW f \in run, use'[f] = "lost" PROVE wide'
    <3>1. f \in Nat /\ arg[p].base <= f /\ f < arg[p].base + arg[p].pages
      BY <1>5, <2>1 DEF run, Run
    <3>2. f # arg[p].base
      BY <1>6, <2>1
    <3>3. arg[p].pages > 1
      BY <1>5, <3>1, <3>2
    <3>4. QED
      BY <1>1, <3>3
  <2>2. QED
    BY <1>1, <1>6, <2>1 DEF PhysInv, LostOnlyAtLimit, RegionHasSpace
<1>13. SlotsBacked' /\ GrowReady' /\ OneExtender' /\ ArgsInBounds'
  BY <1>1, <1>4
     DEF PhysInv, SlotsBacked, GrowReady, OneExtender, ArgsInBounds
<1>14. QED
  BY <1>2, <1>6, <1>8, <1>9, <1>10, <1>11, <1>12, <1>13 DEF PhysInv

(* The rise of the capacity.                                               *)
LEMMA GrowStep ==
  ASSUME PhysInv, NEW p \in Procs, Grow(p)
  PROVE  PhysInv' /\ use' = use
<1>1. /\ pc[p] = "grow"
      /\ max' = max + arg[p].pages * SlotsPerPage
      /\ ext' = Nobody /\ pc' = [pc EXCEPT ![p] = "idle"]
      /\ arg' = [arg EXCEPT ![p] = memory_range(0, 0)]
      /\ UNCHANGED <<ranges, backed, use, wide>>
  BY DEF Grow, Goto, Done
<1>2. memory_range(0, 0) \in Ranges /\ memory_range(0, 0).pages = 0
  BY DEF memory_range, Ranges
<1>3. /\ arg'[p].pages = 0 /\ pc'[p] = "idle"
      /\ \A q \in Procs : q # p => arg'[q] = arg[q] /\ pc'[q] = pc[q]
  BY <1>1, <1>2 DEF PhysInv, TypeOK
<1>4. /\ ext = p
      /\ \A q \in Procs : q # p => pc[q] \notin {"map", "grow", "panicked"}
  BY <1>1 DEF PhysInv, OneExtender
<1>5. arg[p].pages \in Nat /\ max \in Nat /\ SlotsPerPage \in Nat
  BY SizesAssumption DEF PhysInv, TypeOK, Ranges
<1>6. arg[p].pages * SlotsPerPage \in Nat /\ max' \in Nat /\ max <= max'
  BY <1>1, <1>5, SlotsMonotone
<1>7. TypeOK'
  BY <1>1, <1>2, <1>6 DEF PhysInv, TypeOK, PCs
<1>8. PendingDisjoint'
  BY <1>1, <1>3 DEF PhysInv, PendingDisjoint, InFlight, Run
<1>9. CapacityBounded'
  <2>1. Len(ranges)' <= max'
    BY <1>1, <1>5, <1>6 DEF PhysInv, TypeOK, CapacityBounded
  <2>2. max' < MaxSlots
    BY <1>1 DEF PhysInv, CapacityBounded, RegionHasSpace
  <2>3. \A q \in Procs : pc'[q] \notin {"map", "grow"}
    BY <1>3, <1>4
  <2>4. QED
    BY <2>1, <2>2, <2>3 DEF CapacityBounded
<1>10. LostOnlyAtLimit'
  <2>1. MaxRun * SlotsPerPage \in Nat
    BY SlotsMonotone, SizesAssumption
  <2>2. ~RegionHasSpace(MaxRun) => ~RegionHasSpace(MaxRun)'
    <3>1. max \in Nat /\ max' \in Nat /\ max <= max' /\ MaxSlots \in Nat
      BY <1>5, <1>6, SizesAssumption
    <3> DEFINE k == MaxRun * SlotsPerPage
    <3> HIDE DEF k
    <3>2. k \in Nat
      BY <2>1 DEF k
    <3>3. ASSUME NEW a \in Nat, NEW b \in Nat, NEW c \in Nat, a <= b, b + k < c
          PROVE  a + k < c
      BY <3>2, <3>3
    <3>4. max' + k < MaxSlots => max + k < MaxSlots
      BY <3>1, <3>3
    <3>5. QED
      BY <3>4 DEF RegionHasSpace, k
  <2>3. QED
    BY <1>1, <2>2 DEF PhysInv, LostOnlyAtLimit
<1>11. SlotsBacked'
  <2> SUFFICES ASSUME ~wide PROVE SlotsBacked'
    BY <1>1 DEF SlotsBacked
  <2>1. arg[p].pages = 0 \/ arg[p].pages = 1
    <3>1. ~(arg[p].pages > 1)
      BY <1>1 DEF PhysInv, GrowReady
    <3>2. QED
      BY <1>5, <3>1
  <2>2. max' = max \/ max' = max + SlotsPerPage
    BY <1>1, <1>5, <2>1
  <2>3. \A s \in Run(0, max') : s \in backed
    <3>1. \A s \in Run(0, max) : s \in backed
      BY DEF PhysInv, SlotsBacked
    <3>2. \A s \in Run(max, SlotsPerPage) : s \in backed
      BY <1>1 DEF PhysInv, GrowReady
    <3>3. \A s \in Run(0, max + SlotsPerPage) : s \in Run(0, max) \/ s \in Run(max, SlotsPerPage)
      BY <1>5 DEF Run
    <3>4. QED
      BY <2>2, <3>1, <3>2, <3>3
  <2>4. QED
    BY <1>1, <1>3, <2>3 DEF PhysInv, SlotsBacked, Run
<1>12. GrowReady'
  BY <1>3, <1>4 DEF GrowReady
<1>13. OneExtender' /\ ArgsInBounds' /\ TableTrue'
  BY <1>1, <1>3, <1>4, NobodyAssumption, SizesAssumption
     DEF PhysInv, OneExtender, ArgsInBounds, TableTrue
<1>14. QED
  BY <1>1, <1>7, <1>8, <1>9, <1>10, <1>11, <1>12, <1>13 DEF PhysInv

(* No page for a page table: the processor halts with its mutexes.         *)
LEMMA PanicStep ==
  ASSUME PhysInv, NEW p \in Procs, NoPageForPageTable(p)
  PROVE  PhysInv' /\ use' = use
<1>1. /\ pc[p] = "map" /\ pc' = [pc EXCEPT ![p] = "panicked"]
      /\ UNCHANGED <<ranges, max, backed, ext, arg, use, wide>>
  BY DEF NoPageForPageTable, Goto
<1>2. pc'[p] = "panicked" /\ \A q \in Procs : q # p => pc'[q] = pc[q]
  BY <1>1 DEF PhysInv, TypeOK
<1>3. TypeOK'
  BY <1>1 DEF PhysInv, TypeOK, PCs
<1>4. PendingDisjoint' /\ OneExtender'
  BY <1>1, <1>2 DEF PhysInv, PendingDisjoint, InFlight, OneExtender
<1>5. CapacityBounded' /\ SlotsBacked' /\ GrowReady'
  BY <1>1, <1>2 DEF PhysInv, CapacityBounded, SlotsBacked, GrowReady, RegionHasSpace
<1>6. TableTrue' /\ LostOnlyAtLimit' /\ ArgsInBounds'
  BY <1>1 DEF PhysInv, TableTrue, LostOnlyAtLimit, ArgsInBounds, RegionHasSpace
<1>7. QED
  BY <1>1, <1>3, <1>4, <1>5, <1>6 DEF PhysInv

(* Every step keeps the invariant, and moves a frame into the hands of a   *)
(* caller or of the paging code only when it was free.                     *)
LEMMA PhysStep ==
  ASSUME PhysInv, [Next]_vars
  PROVE  /\ PhysInv'
         /\ \A f \in Frames : use'[f] \in {"owned", "paging"} /\ use'[f] # use[f]
                               => use[f] = "free"
<1>1. CASE UNCHANGED vars
  BY <1>1 DEF vars, PhysInv, TypeOK, TableTrue, PendingDisjoint, InFlight, OneExtender,
              CapacityBounded, LostOnlyAtLimit, SlotsBacked, ArgsInBounds, GrowReady,
              RegionHasSpace
<1>2. ASSUME NEW p \in Procs, NEW n \in 1 .. MaxRun, alloc_phys_pages(p, n)
      PROVE  /\ PhysInv'
             /\ \A f \in Frames : use'[f] # use[f] => use[f] = "free"
  BY <1>2, AllocStep
<1>3. ASSUME NEW p \in Procs, NEW base \in Nat, NEW n \in 0 .. MaxRun,
             free_phys_pages(p, base, n)
      PROVE  /\ PhysInv'
             /\ \A f \in Frames : use'[f] # use[f] => use'[f] \in {"free", "freeing"}
  BY <1>3, FreeStep
<1>4. ASSUME NEW p \in Procs, MapTablePage(p) \/ MapWithPageTable(p)
      PROVE  /\ PhysInv'
             /\ \A f \in Frames : use'[f] # use[f] =>
                  use'[f] \in {"table", "lost"} \/ (use[f] = "free" /\ use'[f] = "paging")
  <2>1. ranges \in Seq(Ranges) /\ Sound(ranges) /\ 0 \notin Covered(ranges)
    BY NoPageZero DEF PhysInv, TypeOK, TableTrue
  <2>2. CASE MapTablePage(p)
    <3>1. MapsTablePage(p, {}) /\ ranges' = ranges
      BY <2>2 DEF MapTablePage
    <3>2. Len(ranges) <= Len(ranges) /\ Covered(ranges) = Covered(ranges) \ {}
      BY <2>1
    <3>3. QED
      BY <2>1, <3>1, <3>2, MapStep
  <2>3. CASE MapWithPageTable(p)
    <3> DEFINE got == mmap_get_pages(ranges, 1)
    <3>1. got.addr # 0 /\ MapsTablePage(p, {got.addr}) /\ ranges' = got.tab
      BY <2>3 DEF MapWithPageTable
    <3>2. /\ got.tab \in Seq(Ranges) /\ Sound(got.tab) /\ Len(got.tab) <= Len(ranges)
          /\ got.addr \in Nat
          /\ Run(got.addr, 1) \subseteq Covered(ranges)
          /\ Covered(got.tab) = Covered(ranges) \ Run(got.addr, 1)
      BY <2>1, <3>1, GetPages
    <3> HIDE DEF got
    <3>3. Run(got.addr, 1) = {got.addr}
      BY <3>2 DEF Run
    <3>4. QED
      BY <3>1, <3>2, <3>3, MapStep
  <2>4. QED
    BY <1>4, <2>2, <2>3
<1>5. ASSUME NEW p \in Procs, Refuse(p)
      PROVE  PhysInv' /\ \A f \in Frames : use'[f] # use[f] => use'[f] = "lost"
  BY <1>5, RefuseStep
<1>6. ASSUME NEW p \in Procs, Extend(p) \/ Grow(p) \/ NoPageForPageTable(p)
      PROVE  PhysInv' /\ use' = use
  BY <1>6, ExtendStep, GrowStep, PanicStep
<1>7. Frames \subseteq Nat /\ 0 \in 0 .. MaxRun /\ \A n \in 1 .. MaxRun : n \in 0 .. MaxRun
  BY FramesAssumption, SizesAssumption
<1>8. QED
  BY <1>1, <1>2, <1>3, <1>4, <1>5, <1>6, <1>7 DEF Next, vars

(* The invariant of the allocator.                                         *)
THEOREM PhysInvariant == Spec => []PhysInv
<1>1. PhysInv /\ [Next]_vars => PhysInv'
  BY PhysStep
<1>2. QED
  BY <1>1, PhysInit, PTL DEF Spec

(* Every variable of the allocator keeps its type.                         *)
THEOREM PhysTypeCorrect == Spec => []TypeOK
BY PhysInvariant, PTL DEF PhysInv

(* phys_mmap describes exactly the free frames, each once, whatever        *)
(* processors allocate, free and extend at the same time                   *)
(* (memory.c:84-127, mmap.c:5-51).                                         *)
THEOREM PhysTableTrue == Spec => []TableTrue
BY PhysInvariant, PTL DEF PhysInv

(* No frame is handed out twice (memory.c:84-96).                          *)
THEOREM PhysNoDoubleAllocation == Spec => NoDoubleAllocation
<1>1. PhysInv /\ [Next]_vars =>
        [\A f \in Frames : use'[f] \in {"owned", "paging"} /\ use'[f] # use[f]
                              => use[f] = "free"]_vars
  BY PhysStep
<1>2. QED
  BY <1>1, PhysInvariant, PTL DEF Spec, NoDoubleAllocation

(* While only single pages extend the table it never faults, and its       *)
(* capacity stays inside the reserved region (memory.c:112-126).           *)
THEOREM PhysTableBacked == Spec => [](SlotsBacked /\ CapacityBounded)
BY PhysInvariant, PTL DEF PhysInv

(* Pages are dropped only at the limit of the region, or by a run of       *)
(* several pages that became table space (memory.c:115-122).               *)
THEOREM PhysLossExplained == Spec => []LostOnlyAtLimit
BY PhysInvariant, PTL DEF PhysInv
=============================================================================
