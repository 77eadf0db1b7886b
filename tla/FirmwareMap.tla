---------------------------- MODULE FirmwareMap ----------------------------
(***************************************************************************)
(* init_memory_management of kernel/memory.c: init_mmap turns the memory   *)
(* map of the firmware into phys_mmap, picks the page of the AP image, and *)
(* takes the identity mapping of the firmware down page by page, with the  *)
(* page tables that needs taken from the pages it has recorded so far;     *)
(* then init_heap and init_virt_mmap.                                      *)
(*                                                                         *)
(* An address is the number of a page frame.  The descriptors lie on the   *)
(* loader's stack and are read through the identity mapping, which the     *)
(* firmware's own page tables make; both are in memory the kernel may use. *)
(***************************************************************************)
EXTENDS MemoryMap, FiniteSets

CONSTANTS Frames,      \* the page frames
          Low,         \* the last frame an application processor can start at (0xFF000)
          ImagePages,  \* pages of ap_boot_image
          MaxRanges,   \* PHYS_MMAP_INIT_MAX_RANGE_COUNT
          LargePages, HugePages,  \* frames a 2 MiB page and a 1 GiB page cover
          Unset        \* ap_boot_paddr_unset

ASSUME FramesAssumption == Frames \subseteq Nat /\ IsFiniteSet(Frames)
ASSUME SizesAssumption == /\ {ImagePages, MaxRanges, LargePages, HugePages} \subseteq Nat \ {0}
                          /\ Low \in Nat /\ HugePages % LargePages = 0
ASSUME UnsetAssumption == Unset \notin Nat

VARIABLES at,       \* where the boot processor is
          desc,     \* the descriptors GetMemoryMap left on the loader's stack
          own,      \* the frames PAGE_BASE(efi_mmap_start) .. PAGE_BASE(efi_mmap_end)
          walk,     \* the frames of the firmware's page tables
          next,     \* index of the descriptor to read
          cur, j,   \* cur_desc where the loop over its pages has it, and the index of that loop
          apBase,   \* ap_boot_paddr
          tab,      \* phys_mmap
          ident,    \* frames the identity mapping still has
          large, huge,  \* its larger pages: frame div LargePages, frame div HugePages
          need,     \* page tables map_page still has to make for the page being split
          wiped     \* frames taken for page tables, and zeroed

fwVars == <<at, desc, own, walk, next, cur, j, apBase, tab, ident, large, huge, need, wiped>>

Types == {"conventional", "boot", "loader",  \* EfiConventionalMemory, EfiBootServices*, EfiLoader*
          "kernel",                          \* EFI_MEM_TYPE_KERNEL
          "reserved"}                        \* everything else
Usable == {"conventional", "boot", "loader"}

Descriptors == [type : Types, base : Nat, pages : Nat]
NoDescriptor == [type |-> "kernel", base |-> 0, pages |-> 0]

FwTypeOK ==
    /\ at \in {"off", "read", "unmap", "own", "done", "panic", "lost"}
    /\ desc \in Seq(Descriptors) /\ cur \in Descriptors
    /\ {own, walk, ident, wiped} \subseteq SUBSET Frames
    /\ next \in Nat \ {0} /\ {j, need} \subseteq Nat
    /\ apBase \in Nat \cup {Unset}
    /\ tab \in Seq(Ranges)
    /\ large \subseteq Nat /\ huge \subseteq Nat

-----------------------------------------------------------------------------
\* The descriptors can be read: their pages are mapped, and neither they nor
\* the page tables that map them have become page tables of the kernel.
Readable == own \subseteq ident /\ wiped \cap (own \cup walk) = {}

(* The cases of the switch.  A usable descriptor is trimmed to what the    *)
(* kernel gets: behind the AP image if that is still to be placed and the  *)
(* descriptor is low and large enough, and behind page 0.                  *)
PlacesImage(d) ==
    apBase = Unset /\ d.type \in Usable /\ d.base <= Low /\ ImagePages <= d.pages

\* A plausible slip, for the mutants.
TrimImageFromCount(d) ==
    IF PlacesImage(d) THEN [d EXCEPT !.pages = @ - ImagePages] ELSE d

TrimImage(d) ==
    IF PlacesImage(d) THEN [d EXCEPT !.base = @ + ImagePages, !.pages = @ - ImagePages] ELSE d

TrimZero(d) ==
    IF d.base = 0 /\ d.pages > 0 THEN [d EXCEPT !.base = 1, !.pages = @ - 1] ELSE d

\* A usable descriptor of which nothing is left breaks out of the switch;
\* the pages of the others are unmapped, the recorded ones included.
Given(d) == TrimZero(TrimImage(d))

ReadDescriptor ==
    LET d == desc[next]
        g == Given(d)
    IN  /\ at = "read" /\ next <= Len(desc) /\ Readable
        /\ next' = next + 1 /\ j' = 0
        /\ apBase' = IF PlacesImage(d) THEN d.base ELSE apBase
        /\ \/ /\ d.type = "kernel" \/ (d.type \in Usable /\ g.pages = 0)
              /\ UNCHANGED <<at, cur, tab>>
           \/ /\ d.type \in Usable /\ g.pages > 0 /\ HasRoom(tab, MaxRanges)
              /\ tab' = mmap_add_range(tab, MaxRanges, g.base, g.pages).tab
              /\ cur' = g /\ at' = "unmap"
           \/ /\ d.type \in Usable /\ g.pages > 0 /\ ~HasRoom(tab, MaxRanges)
              /\ at' = "panic" /\ UNCHANGED <<cur, tab>>
           \/ /\ d.type = "reserved"
              /\ cur' = d /\ at' = "unmap" /\ UNCHANGED tab
        /\ UNCHANGED <<desc, own, walk, ident, large, huge, need, wiped>>

-----------------------------------------------------------------------------
(* The page to be unmapped next: of the current descriptor, or in the loop *)
(* at the end of init_mmap, of the descriptors' own.                       *)
Page == IF at = "unmap" THEN cur.base + j ELSE First(own) + j
LargeOf(f) == f \div LargePages
HugeOf(f) == f \div HugePages

OwnButLast == Cardinality(own) - 1  \* a plausible slip, for the mutants
OwnPages == Cardinality(own)

InLoop == \/ at = "unmap" /\ j < cur.pages
          \/ at = "own" /\ j < OwnPages

\* unmap_page_fix_size(Page) is entered, or goes on.
Unmapping == InLoop /\ (at = "unmap" => Page \notin own) /\ wiped \cap walk = {}

SkipOwn ==
    /\ at = "unmap" /\ InLoop /\ Page \in own
    /\ j' = j + 1
    /\ UNCHANGED <<at, desc, own, walk, next, cur, apBase, tab, ident, large, huge, need, wiped>>

(* A larger page is cleared, and mapped again page by page: that takes a   *)
(* page table for every 2 MiB, and a page directory for 1 GiB.             *)
Split ==
    /\ Unmapping /\ need = 0
    /\ \/ /\ HugeOf(Page) \in huge
          /\ huge' = huge \ {HugeOf(Page)} /\ need' = 1 + HugePages \div LargePages
          /\ UNCHANGED large
       \/ /\ HugeOf(Page) \notin huge /\ LargeOf(Page) \in large
          /\ large' = large \ {LargeOf(Page)} /\ need' = 1
          /\ UNCHANGED huge
    /\ UNCHANGED <<at, desc, own, walk, next, cur, j, apBase, tab, ident, wiped>>

(* map_page gets one from alloc_phys_pages and zeroes it, or panics.       *)
MakeTable ==
    LET got == mmap_get_pages(tab, 1)
    IN  /\ Unmapping /\ need > 0
        /\ tab' = got.tab
        /\ IF got.addr = 0
           THEN at' = "panic" /\ UNCHANGED <<need, wiped>>
           ELSE need' = need - 1 /\ wiped' = wiped \cup {got.addr} /\ UNCHANGED at
        /\ UNCHANGED <<desc, own, walk, next, cur, j, apBase, ident, large, huge>>

unmap_page ==
    /\ Unmapping /\ need = 0
    /\ HugeOf(Page) \notin huge /\ LargeOf(Page) \notin large
    /\ ident' = ident \ {Page}
    /\ j' = j + 1
    /\ UNCHANGED <<at, desc, own, walk, next, cur, apBase, tab, large, huge, need, wiped>>

(* The descriptors that are still to be read cannot be, or a frame of the  *)
(* page tables everything goes through has become one of the kernel's.     *)
Lost ==
    /\ \/ at = "read" /\ next <= Len(desc) /\ ~Readable
       \/ InLoop /\ wiped \cap walk # {}
    /\ at' = "lost"
    /\ UNCHANGED <<desc, own, walk, next, cur, j, apBase, tab, ident, large, huge, need, wiped>>

NextDescriptor ==
    /\ at = "unmap" /\ j = cur.pages
    /\ at' = "read"
    /\ UNCHANGED <<desc, own, walk, next, cur, j, apBase, tab, ident, large, huge, need, wiped>>

(* The end of init_mmap.                                                   *)
EndOfMap ==
    /\ at = "read" /\ next > Len(desc)
    /\ at' = IF apBase = Unset THEN "panic" ELSE "own"
    /\ j' = 0
    /\ UNCHANGED <<desc, own, walk, next, cur, apBase, tab, ident, large, huge, need, wiped>>

(* init_heap and init_virt_mmap work on the first page of the heap, which  *)
(* the loader has mapped with the kernel.                                  *)
InitHeap ==
    /\ at = "own" /\ j = OwnPages
    /\ at' = "done"
    /\ UNCHANGED <<desc, own, walk, next, cur, j, apBase, tab, ident, large, huge, need, wiped>>

init_memory_management ==
    \/ ReadDescriptor \/ Lost
    \/ SkipOwn \/ Split \/ MakeTable \/ unmap_page \/ NextDescriptor
    \/ EndOfMap \/ InitHeap

-----------------------------------------------------------------------------
\* The frames of a descriptor, and those of the descriptors read so far.
FramesOf(d) == Run(d.base, d.pages)
Before(k, T) == UNION {FramesOf(desc[i]) : i \in {i \in 1 .. k : i <= Len(desc) /\ desc[i].type \in T}}
Image == IF apBase = Unset THEN {} ELSE Run(apBase, ImagePages)

(* What is recorded is exactly what the descriptors read so far give to    *)
(* the kernel, each frame once, without page 0, without the AP image and   *)
(* without what became a page table: PhysPages starts from such a table.   *)
TableExact ==
    /\ Sound(tab)
    /\ at # "panic" => Covered(tab) = Before(next - 1, Usable) \ ({0} \cup Image \cup wiped)

(* The identity mapping keeps the pages of the descriptors until the last  *)
(* of these has been read.  At the end it holds the AP image, which        *)
(* switches paging on there, and nothing of the described memory but the   *)
(* kernel's frames and page 0, unless the image has been put over the      *)
(* descriptors.                                                            *)
IdentityEnds ==
    /\ at \in {"read", "unmap"} => own \subseteq ident
    /\ at = "done" /\ Image \cap own = {} =>
         ident = (Frames \ (own \cup Before(Len(desc), {"reserved"} \cup Usable)))
                   \cup Image
                   \cup (({0} \cap Before(Len(desc), Usable)) \ own)

\* The order in which mmap_get_pages comes to the frames: that of the
\* descriptors, and of the addresses in one of them.
ListedBefore(d, g, f) ==
    \E i, l \in DOMAIN d : /\ g \in FramesOf(d[i]) /\ f \in FramesOf(d[l])
                           /\ (i < l \/ (i = l /\ g < f))

(* The descriptors and the firmware's page tables survive while they are   *)
(* needed if the firmware lists usable frames enough before them for the   *)
(* page tables that have been made; where in memory these are is nothing   *)
(* to it.                                                                  *)
DescriptorsSurvive ==
    \A f \in own \cup walk :
      f \in wiped => Cardinality({g \in (Before(Len(desc), Usable) \ ({0} \cup Image)) :
                                   ListedBefore(desc, g, f)}) < Cardinality(wiped)
=============================================================================
