---------------------------- MODULE VirtMappings ----------------------------
(***************************************************************************)
(* Mappings of device memory and firmware tables into the kernel's virtual *)
(* space: create_virt_mapping, delete_virt_mapping, and the table          *)
(* virt_mmap behind them (alloc_virt_pages, free_virt_pages,               *)
(* virt_mmap_reduce), whose array lives in a heap block that krealloc      *)
(* resizes.  The callers (graphics.c, acpi.c, pci.c, ap_boot.c) run on the *)
(* boot processor, so one operation runs at a time.  Addresses count units *)
(* of 1/Unit page; virtual pages are numbered from 1, 0 is failure.        *)
(***************************************************************************)
EXTENDS MemoryMap, FiniteSets

CONSTANTS LastPage,   \* the space is the pages 1 .. LastPage
          Unit,       \* units in a page
          Requests,   \* what is mapped: records of paddr and size, in units
          None        \* a page without a translation

ASSUME SpaceAssumption == LastPage \in Nat \ {0} /\ Unit \in Nat \ {0}
ASSUME RequestsAssumption == Requests \subseteq [paddr : Nat, size : Nat \ {0}]
ASSUME NonePageAssumption == None \notin Nat

VARIABLES ranges,  \* virt_mmap.memory_ranges, up to range_count
          max,     \* virt_mmap.max_range_count
          pt,      \* the page tables
          maps,    \* the mappings callers have: vaddr, paddr, size
          freeing, \* free_virt_pages has not returned; its argument
          lost,    \* ghost: pages free_virt_pages could not record
          spilt    \* ghost: an operation touched a page of another mapping

virtVars == <<ranges, max, pt, maps, freeing, lost, spilt>>

Space == 1 .. LastPage
NoRange == memory_range(0, 0)
Mappings == [vaddr : Nat, paddr : Nat, size : Nat]

VirtTypeOK == /\ ranges \in Seq(Ranges) /\ max \in Nat
          /\ pt \in [1 .. LastPage + 1 -> Nat \cup {None}]
          /\ maps \subseteq Mappings
          /\ freeing \in Ranges
          /\ lost \subseteq Space /\ spilt \in BOOLEAN

(* init_virt_mmap: one range, a table of one.                              *)
VirtInit == /\ ranges = <<memory_range(1, LastPage)>> /\ max = 1
        /\ pt = [v \in 1 .. LastPage + 1 |-> None]
        /\ maps = {} /\ freeing = NoRange /\ lost = {} /\ spilt = FALSE

-----------------------------------------------------------------------------
PageBase(a) == a \div Unit
PageCount(a, size) == PageBase(a + size - 1) - PageBase(a) + 1
MapPages(m) == Run(PageBase(m.vaddr), PageCount(m.vaddr, m.size))
Taken == UNION {MapPages(m) : m \in maps}

\* Plausible slips, for the mutants.
ReducedTooFar(tab, m) == IF Len(tab) * 2 <= m + 1 THEN m \div 2 ELSE m
OffsetsShort(n) == 0 .. n - 2
GrowByNothing == Len(ranges)

(* virt_mmap_reduce; krealloc to a smaller size always succeeds.           *)
Reduced(tab, m) == IF Len(tab) * 2 < m THEN m \div 2 ELSE m

(* The loops run up to and including offset page_count*0x1000.             *)
Offsets(n) == 0 .. n
Touched(base, n) == {base + o : o \in Offsets(n)}

create_virt_mapping(r) ==
    LET n == PageCount(r.paddr, r.size)
        got == mmap_get_pages(ranges, n)
        touched == Touched(got.addr, n)
    IN  /\ freeing = NoRange
        /\ got.addr # 0
        /\ ranges' = got.tab
        /\ max' = Reduced(got.tab, max)
        /\ pt' = [v \in DOMAIN pt |-> IF v \in touched THEN PageBase(r.paddr) + (v - got.addr) ELSE pt[v]]
        /\ maps' = maps \cup {[vaddr |-> (got.addr * Unit) + (r.paddr % Unit),
                               paddr |-> r.paddr, size |-> r.size]}
        /\ spilt' = (spilt \/ touched \cap Taken # {})
        /\ UNCHANGED <<freeing, lost>>

delete_virt_mapping(m) ==
    LET base == PageBase(m.vaddr)
        n == PageCount(m.vaddr, m.size)
        touched == Touched(base, n)
    IN  /\ freeing = NoRange
        /\ pt' = [v \in DOMAIN pt |-> IF v \in touched THEN None ELSE pt[v]]
        /\ maps' = maps \ {m}
        /\ freeing' = memory_range(base, n)
        /\ spilt' = (spilt \/ touched \cap (Taken \ MapPages(m)) # {})
        /\ UNCHANGED <<ranges, max, lost>>

(* free_virt_pages: the range is recorded, or the table is made larger and *)
(* the function calls itself, or krealloc has no memory.                   *)
Added == mmap_add_range_merge(ranges, max, freeing.base, freeing.pages)

RecordRange ==
    /\ freeing # NoRange /\ Added.ok
    /\ ranges' = Added.tab
    /\ max' = Reduced(Added.tab, max)
    /\ freeing' = NoRange
    /\ UNCHANGED <<pt, maps, lost, spilt>>

NewMax == Len(ranges) * 2

EnlargeTable ==
    /\ freeing # NoRange /\ ~Added.ok
    /\ max' = NewMax
    /\ UNCHANGED <<ranges, pt, maps, freeing, lost, spilt>>

NoMemory ==
    /\ freeing # NoRange /\ ~Added.ok
    /\ lost' = lost \cup PagesOf(freeing)
    /\ freeing' = NoRange
    /\ UNCHANGED <<ranges, max, pt, maps, spilt>>

\* What the function does of itself; that krealloc fails is nothing it can
\* count on to return.
FreeStep == RecordRange \/ EnlargeTable

VirtNext == \/ \E r \in Requests : create_virt_mapping(r)
        \/ \E m \in maps : delete_virt_mapping(m)
        \/ FreeStep \/ NoMemory

VirtSpec == VirtInit /\ [][VirtNext]_virtVars /\ WF_virtVars(FreeStep)

-----------------------------------------------------------------------------
(* Every mapping translates each of its pages to the page asked for, as    *)
(* long as the page that the loops handle too much belonged to nobody.     *)
MappingsIntact ==
    ~spilt => \A m \in maps : \A v \in MapPages(m) :
                pt[v] = PageBase(m.paddr) + (v - PageBase(m.vaddr))

(* The table always fits in the block that holds it: virt_mmap_reduce      *)
(* never cuts ranges off.                                                  *)
TableFits == Len(ranges) <= max

(* The space is accounted for: a page is free in one range, or in one      *)
(* mapping, or being freed, or was lost for want of heap.                  *)
SpaceAccounted ==
    /\ TableFits /\ Sound(ranges)
    /\ Covered(ranges) = Space \ (Taken \cup PagesOf(freeing) \cup lost)
    /\ \A m, k \in maps : m # k => MapPages(m) \cap MapPages(k) = {}
    /\ Taken \cap (PagesOf(freeing) \cup lost) = {}

(* free_virt_pages returns, unless the table has become empty: twice       *)
(* nothing is nothing, and it calls itself for ever.                       *)
FreeReturns == (freeing # NoRange) ~> (freeing = NoRange \/ (max = 0 /\ ranges = << >>))
=============================================================================
