----------------------------- MODULE BootChain -----------------------------
(***************************************************************************)
(* The loader and the kernel's init_memory_management one after the other: *)
(* what the loader allocates, and with which type, decides what the kernel *)
(* takes for free.                                                         *)
(***************************************************************************)
EXTENDS Loader, FirmwareMap

CONSTANTS Layouts  \* memory before the loader runs: [mem, own, walk]

ASSUME SameFrames == LoaderFrames = Frames
ASSUME LayoutsAssumption ==
    \A layout \in Layouts :
      /\ layout.mem \in [Frames -> MemTypes]
      /\ layout.own \subseteq Frames /\ layout.walk \subseteq Frames
      /\ \E first \in layout.own : layout.own = Run(first, Cardinality(layout.own))
      /\ layout.large \subseteq Nat /\ layout.huge \subseteq Nat

vars == <<loaderVars, fwVars>>

(* The loader's stack and the firmware's page tables are memory of the     *)
(* boot services.  The firmware maps all of memory, some of it in large    *)
(* pages.                                                                  *)
Init ==
    /\ step = "file" /\ topDown \in BOOLEAN /\ headers \in HeaderLists
    /\ pml4 = 0 /\ entry = << >> /\ k = 1 /\ off = 0 /\ last = -1 /\ given = << >>
    /\ mode = NoMode /\ sdt = "null" /\ tables = << >>
    /\ \E layout \in Layouts :
         /\ mem = layout.mem /\ own = layout.own /\ walk = layout.walk
         /\ large = layout.large /\ huge = layout.huge
    /\ at = "off" /\ desc = << >> /\ next = 1 /\ cur = NoDescriptor /\ j = 0
    /\ apBase = Unset /\ tab = << >> /\ ident = Frames /\ need = 0 /\ wiped = {}

(* boot_end, and __kernel_bsp_init up to init_memory_management.           *)
boot_end ==
    /\ step = "exited" /\ at = "off"
    /\ at' = "read" /\ \E order \in Orders : desc' = MemoryDescriptors(order)
    /\ UNCHANGED <<loaderVars, own, walk, next, cur, j, apBase, tab, ident, large, huge, need, wiped>>

Next == \/ efi_main /\ UNCHANGED fwVars
        \/ boot_end
        \/ init_memory_management /\ UNCHANGED loaderVars

Spec == Init /\ [][Next]_vars

-----------------------------------------------------------------------------
TypeOK == FwTypeOK

(* The frames of the kernel, of its page tables and of its PML4 are never  *)
(* recorded as free and never taken for another page table.                *)
KernelFrames ==
    {pml4} \cup {entry[p].to : p \in {p \in DOMAIN entry : ~entry[p].page}}

KernelFramesKept == at # "off" => KernelFrames \cap (Covered(tab) \cup wiped) = {}
=============================================================================
