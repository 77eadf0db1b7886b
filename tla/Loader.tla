------------------------------- MODULE Loader -------------------------------
(***************************************************************************)
(* The UEFI loader: efi_main of boot/boot.c and add_page_mapping of        *)
(* boot/paging.c, from the buffer for the kernel's file to the jump into   *)
(* the kernel.  Every firmware call can fail, and efi_main returns its     *)
(* status.                                                                 *)
(*                                                                         *)
(* mem is the firmware's view of every page frame.  AllocatePages may give *)
(* any free run; the model lets the firmware search from the bottom or     *)
(* from the top.  Sizes and addresses of the kernel's file are in units of *)
(* PageUnits to a page (4096 bytes), virtual pages are counted from        *)
(* KERNEL_LINADDR, and an entry of the page tables is named by its path    *)
(* of indices below the PML4 slot that holds the upper half.               *)
(***************************************************************************)
EXTENDS Integers, Sequences, FiniteSets

CONSTANTS LoaderFrames, \* page frames
          HeaderLists,  \* program headers a kernel may have: sequences of [load, vaddr, memsz]
          FilePages,    \* pages of the buffer for the kernel's file
          PageUnits,    \* units of a page
          TableSize,    \* entries of a page table that the model has
          DirSize,      \* entries of a page directory that the model has
          DirectCount,  \* 1 GiB pages of the direct mapping: PMAP_LINADDR .. KERNEL_LINADDR
          ModeLists,    \* what QueryMode may answer: sequences of [ok, fits, pixels]
          RsdpLists,    \* the configuration tables: sequences of [kind, revision, xsdt]
          Garbage,      \* what uninitialised numbers may be
          MaxDescriptors, \* descriptors that fit in the buffer of GetMemoryMap
          Orders        \* orders it may list memory in: the place of every frame in them

Headers == [load : BOOLEAN, vaddr : Nat, memsz : Nat]
Modes == [ok : BOOLEAN, fits : BOOLEAN, pixels : Nat]
Rsdps == [kind : {"acpi10", "acpi20", "other"}, revision : Nat, xsdt : BOOLEAN]

ASSUME LoaderFramesAssumption == LoaderFrames \subseteq Nat /\ IsFiniteSet(LoaderFrames)
ASSUME LoaderSizesAssumption == /\ {PageUnits, TableSize, DirSize} \subseteq Nat \ {0}
                                /\ {FilePages, DirectCount, MaxDescriptors} \subseteq Nat
ASSUME LoaderInputsAssumption == /\ \A list \in HeaderLists : list \in Seq(Headers)
                                 /\ \A list \in ModeLists : list \in Seq(Modes)
                                 /\ \A list \in RsdpLists : list \in Seq(Rsdps)
                                 /\ Garbage \subseteq Nat

ASSUME OrdersAssumption ==
    \A order \in Orders : /\ order \in [LoaderFrames -> Nat]
                          /\ \A f, g \in LoaderFrames : order[f] = order[g] => f = g

VARIABLES step,      \* where efi_main is
          mem,       \* what the firmware uses each frame for
          topDown,   \* the firmware allocates from the top
          pml4,      \* frame of the new PML4
          entry,     \* the entries the loader has made, by path
          headers,   \* the kernel's program headers
          k, off,    \* the one in work, and which page of it (0 before its pages are allocated)
          last,      \* last_allocated_page, -1 before the first
          given,     \* for every header so far: the first frame allocated for it
          mode,      \* the graphics mode that was set
          sdt,       \* acpi_x_r_sdt, as it is handed to the kernel
          tables     \* ghost: the configuration tables it was looked for in

loaderVars == <<step, mem, topDown, pml4, entry, headers, k, off, last, given, mode, sdt, tables>>

MemTypes == {"conventional", "boot", "loader", "kernel", "reserved", "hole"}

\* The table f with x at a.
With(f, a, x) == [b \in DOMAIN f \cup {a} |-> IF b = a THEN x ELSE f[b]]

-----------------------------------------------------------------------------
(* AllocatePages(AllocateAnyPages, type, n).                               *)
FreeRuns(m, n) == {f \in LoaderFrames : \A i \in 0 .. n - 1 :
                     f + i \in LoaderFrames /\ m[f + i] = "conventional"}

Place(m, n) == LET S == FreeRuns(m, n)
               IN  CHOOSE f \in S : \A g \in S : IF topDown THEN g <= f ELSE f <= g

Marked(m, f, n, type) == [g \in LoaderFrames |-> IF g \in f .. f + n - 1 THEN type ELSE m[g]]

\* A firmware call fails: efi_main returns to the firmware.
Fail == /\ step' = "failed"
        /\ UNCHANGED <<mem, topDown, pml4, entry, headers, k, off, last, given, mode, sdt, tables>>

ReadKernelFile ==
    /\ step = "file"
    /\ \/ Fail
       \/ /\ FreeRuns(mem, FilePages) # {}
          /\ mem' = Marked(mem, Place(mem, FilePages), FilePages, "loader")
          /\ step' = "pml4"
          /\ UNCHANGED <<topDown, pml4, entry, headers, k, off, last, given, mode, sdt, tables>>

(* The firmware's PML4 is copied, so that its identity mapping stays, and  *)
(* the last entry made to point at the table itself.                       *)
CopyPml4 ==
    /\ step = "pml4"
    /\ \/ Fail
       \/ /\ FreeRuns(mem, 1) # {}
          /\ pml4' = Place(mem, 1)
          /\ mem' = Marked(mem, pml4', 1, "kernel")
          /\ step' = "segments"
          /\ UNCHANGED <<topDown, entry, headers, k, off, last, given, mode, sdt, tables>>

-----------------------------------------------------------------------------
(* add_page_mapping: missing tables on the way to the entry are allocated  *)
(* one by one; the first that fails ends it.  The path of a 1 GiB page has *)
(* one index, that of a 4 KiB page three.  (LoaderType, MapsAgain and      *)
(* TakesAnyMode are plausible slips, for the mutants.)                     *)
LoaderType == "loader"
TableType == "kernel"

Ensure(s, path) ==
    IF ~s.ok \/ path \in DOMAIN s.entry THEN s
    ELSE IF FreeRuns(s.mem, 1) = {} THEN [s EXCEPT !.ok = FALSE]
    ELSE LET f == Place(s.mem, 1)
         IN  [ok |-> TRUE, mem |-> Marked(s.mem, f, 1, TableType),
              entry |-> With(s.entry, path, [to |-> f, page |-> FALSE])]

add_page_mapping(path, frame) ==
    LET top == Ensure([ok |-> TRUE, mem |-> mem, entry |-> entry], << >>)
        s == IF Len(path) = 1 THEN top
             ELSE Ensure(Ensure(top, <<path[1]>>), <<path[1], path[2]>>)
    IN  IF s.ok THEN [s EXCEPT !.entry = With(@, path, [to |-> frame, page |-> Len(path) < 3])]
                ELSE s

PathOf(page) == LET table == page \div TableSize
                IN  <<DirectCount + table \div DirSize, table % DirSize, page % TableSize>>

-----------------------------------------------------------------------------
\* The pages allocated for a header, its first virtual page, and the pages
\* that have bytes of it.
SegmentPages(h) == h.memsz \div PageUnits + 2
StartPage(h) == h.vaddr \div PageUnits
Content(h) == {u \div PageUnits : u \in h.vaddr .. h.vaddr + h.memsz - 1}

NextHeader ==
    /\ step = "segments" /\ k <= Len(headers) /\ off = 0
    /\ LET h == headers[k]
       IN  \/ /\ ~h.load
              /\ k' = k + 1
              /\ UNCHANGED <<step, mem, topDown, pml4, entry, headers, off, last, given, mode, sdt, tables>>
           \/ /\ h.load /\ FreeRuns(mem, SegmentPages(h)) # {}
              /\ given' = With(given, k, Place(mem, SegmentPages(h)))
              /\ mem' = Marked(mem, given'[k], SegmentPages(h), "kernel")
              /\ off' = 1
              /\ UNCHANGED <<step, topDown, pml4, entry, headers, k, last, mode, sdt, tables>>
           \/ h.load /\ Fail

(* A page that an earlier header has already been given stays with it; the *)
(* bytes of this header go to its own frames all the same.                 *)
MapsAgain(page) == FALSE
Mapped(page) == page <= last

MapSegmentPage ==
    /\ step = "segments" /\ off > 0
    /\ LET h == headers[k]
           page == StartPage(h) + off - 1
           s == add_page_mapping(PathOf(page), given[k] + off - 1)
       IN  \/ /\ Mapped(page) \/ s.ok
              /\ IF Mapped(page) THEN UNCHANGED <<mem, entry, last>>
                 ELSE mem' = s.mem /\ entry' = s.entry /\ last' = page
              /\ IF off = SegmentPages(h) THEN k' = k + 1 /\ off' = 0
                                          ELSE off' = off + 1 /\ UNCHANGED k
              /\ UNCHANGED <<step, topDown, pml4, headers, given, mode, sdt, tables>>
           \/ ~Mapped(page) /\ Fail

EndSegments ==
    /\ step = "segments" /\ k > Len(headers)
    /\ step' = "direct" /\ off' = 0
    /\ UNCHANGED <<mem, topDown, pml4, entry, headers, k, last, given, mode, sdt, tables>>

(* All physical memory, in 1 GiB pages below the kernel.                   *)
DirectMap == 0 .. DirectCount - 1

MapDirect ==
    /\ step = "direct" /\ off \in DirectMap
    /\ LET s == add_page_mapping(<<off>>, off)
       IN  \/ /\ s.ok
              /\ mem' = s.mem /\ entry' = s.entry
              /\ off' = off + 1
              /\ UNCHANGED <<step, topDown, pml4, headers, k, last, given, mode, sdt, tables>>
           \/ Fail

-----------------------------------------------------------------------------
(* The graphics mode: best_mode_num is not initialised, and what a mode's  *)
(* pixels are compared with is the number of the best mode so far.         *)
NoMode == [ok |-> FALSE, fits |-> FALSE, pixels |-> 0]

TakesAnyMode(list, i, s) == list[i].ok /\ list[i].pixels > s.best
Better(list, i, s) == list[i].ok /\ list[i].fits /\ list[i].pixels > s.best

Chosen(list, best) ==
    LET s[i \in 0 .. Len(list)] ==
          IF i = 0 THEN [max |-> 0, best |-> best]
          ELSE IF Better(list, i, s[i-1]) THEN [max |-> list[i].pixels, best |-> i - 1]
          ELSE s[i-1]
    IN  s[Len(list)]

SetMode ==
    /\ step = "direct" /\ off \notin DirectMap
    /\ \E list \in ModeLists, garbage \in Garbage :
         LET s == Chosen(list, garbage)
         IN  \/ s.max = 0 /\ Fail
             \/ /\ s.max > 0
                /\ mode' = IF s.best < Len(list) THEN list[s.best + 1] ELSE NoMode
                /\ step' = "acpi"
                /\ UNCHANGED <<mem, topDown, pml4, entry, headers, k, off, last, given, sdt, tables>>
             \/ Fail

(* The root table of ACPI: the tables up to the first 2.0 pointer are      *)
(* looked at; acpi_x_r_sdt is not initialised, and garbage in it that is   *)
(* not null gets to the kernel unless a pointer of revision 2 writes over  *)
(* it.                                                                     *)
First20(list) == {i \in DOMAIN list :
                    list[i].kind = "acpi20" /\ \A n \in 1 .. i - 1 : list[n].kind # "acpi20"}
Seen10(list) == \E i \in DOMAIN list : list[i].kind = "acpi10" /\ \A n \in First20(list) : i < n

xsdt_addr(list, garbage) ==
    IF \E i \in First20(list) : list[i].revision >= 2
    THEN IF \E i \in First20(list) : list[i].xsdt THEN "xsdt" ELSE "null"
    ELSE garbage

OldFirst(list, xsdt) ==  \* a plausible slip, for the mutants
    IF xsdt # "null" THEN xsdt
    ELSE IF Seen10(list) THEN "rsdt of 1.0"
    ELSE IF First20(list) # {} THEN "rsdt of 2.0" ELSE "null"

acpi_x_r_sdt(list, xsdt) ==
    IF xsdt # "null" THEN xsdt
    ELSE IF First20(list) # {} THEN "rsdt of 2.0"
    ELSE IF Seen10(list) THEN "rsdt of 1.0" ELSE "null"

FindSdt ==
    /\ step = "acpi"
    /\ \E list \in RsdpLists, garbage \in {"null", "garbage"} :
         /\ sdt' = acpi_x_r_sdt(list, xsdt_addr(list, garbage))
         /\ tables' = list
    /\ step' = IF sdt' = "null" THEN "failed" ELSE "map"
    /\ UNCHANGED <<mem, topDown, pml4, entry, headers, k, off, last, given, mode>>

-----------------------------------------------------------------------------
(* GetMemoryMap lists the runs of frames in one use, in an order of the    *)
(* firmware's choice, and ExitBootServices ends the firmware; boot_end     *)
(* loads the PML4 and jumps to the kernel.                                 *)
RunStarts == {f \in LoaderFrames : mem[f] # "hole" /\ (f - 1 \in LoaderFrames => mem[f - 1] # mem[f])}
RunEnd(f) == CHOOSE g \in LoaderFrames :
                /\ f <= g /\ \A i \in f .. g : i \in LoaderFrames /\ mem[i] = mem[f]
                /\ g + 1 \in LoaderFrames => mem[g + 1] # mem[f]

Nth(S, order, n) == CHOOSE f \in S : Cardinality({g \in S : order[g] < order[f]}) = n - 1

MemoryDescriptors(order) ==
    [i \in 1 .. Cardinality(RunStarts) |->
       LET f == Nth(RunStarts, order, i)
       IN  [type |-> mem[f], base |-> f, pages |-> RunEnd(f) - f + 1]]

ExitBootServices ==
    /\ step = "map"
    /\ \/ Fail
       \/ /\ Cardinality(RunStarts) <= MaxDescriptors
          /\ step' = "exited"
          /\ UNCHANGED <<mem, topDown, pml4, entry, headers, k, off, last, given, mode, sdt, tables>>

efi_main == \/ ReadKernelFile \/ CopyPml4
            \/ NextHeader \/ MapSegmentPage \/ EndSegments \/ MapDirect
            \/ SetMode \/ FindSdt \/ ExitBootServices

-----------------------------------------------------------------------------
(* Every page with bytes of a header reads the frame they were copied to,  *)
(* whatever was mapped afterwards, unless an earlier header was given that *)
(* page: each is given up to two pages more than it has, and hides what a  *)
(* later one has there.                                                    *)
Table(path) == path \in DOMAIN entry /\ ~entry[path].page

Reads(page, frame) ==
    LET path == PathOf(page)
    IN  /\ Table(<< >>) /\ Table(<<path[1]>>) /\ Table(<<path[1], path[2]>>)
        /\ path \in DOMAIN entry /\ entry[path].to = frame

Loaded == {i \in DOMAIN headers : headers[i].load}
HiddenBy(n, page) == page < StartPage(headers[n]) + SegmentPages(headers[n])

KernelVisible ==
    step = "exited" =>
      \A i \in Loaded : \A page \in Content(headers[i]) :
         \/ \E n \in Loaded : n < i /\ HiddenBy(n, page)
         \/ Reads(page, given[i] + page - StartPage(headers[i]))

(* The mode that is set is one the firmware offered and the console can    *)
(* use, although best_mode_num starts with garbage.  The root table is the *)
(* first 2.0 pointer's if that has revision 2, its XSDT before its RSDT; a *)
(* 1.0 pointer's only if there is no other.  So the garbage acpi_x_r_sdt   *)
(* starts with gets to the kernel only if the first 2.0 pointer is old or  *)
(* missing.                                                                *)
HandoverGenuine ==
    step \in {"map", "exited"} =>
      /\ mode.ok /\ mode.fits
      /\ \A i \in First20(tables) :
           tables[i].revision >= 2 => sdt = IF tables[i].xsdt THEN "xsdt" ELSE "rsdt of 2.0"
      /\ sdt = "rsdt of 1.0" => \A i \in DOMAIN tables : tables[i].kind # "acpi20"

(* What efi_main hands to the kernel: its own image, a mode, a root table. *)
HandoverTrue == KernelVisible /\ HandoverGenuine
=============================================================================
