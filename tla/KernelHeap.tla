----------------------------- MODULE KernelHeap -----------------------------
(***************************************************************************)
(* The kernel heap of kernel/memory.c: kmalloc, krealloc and kfree over a  *)
(* doubly linked list of heap_entry headers in one growing region.         *)
(*                                                                         *)
(* Addresses and sizes count units of alignof(max_align_t).  Everything    *)
(* under heap_mutex is one step; krealloc, when it has to move a block,    *)
(* drops the mutex and calls kmalloc, memcpy and kfree, three steps that   *)
(* other processors come between.  Headers that are unlinked leave `hdr':  *)
(* their memory belongs to somebody else.  The list is in address order    *)
(* (OrderedLinks), so walking it from first_heap_entry and choosing the    *)
(* lowest address are the same.                                            *)
(*                                                                         *)
(* `defects' is a ghost: the steps after which the heap is no longer what  *)
(* heap_consistency_check expects, or no longer owns its memory.           *)
(***************************************************************************)
EXTENDS Integers, FiniteSets

CONSTANTS Procs,   \* processors
          Page,    \* units in a page (0x1000)
          Start,   \* kernel_heap_start, page aligned
          Sizes,   \* sizes callers ask for, rounded up to units
          MaxLive, \* bound: blocks in use when kmalloc is entered
          Wrap,    \* 2^64 bytes, in units: sizes are size_t
          Pool0,   \* frames alloc_phys_pages can hand out
          Frame0   \* the frame of the kernel image behind the first heap page

HDR == 2           \* sizeof(heap_entry)
ALIGN == 2         \* sizeof(max_align_t)
NULL == 0

ASSUME PageAssumption == Page \in Nat /\ Page > HDR + ALIGN
ASSUME StartAssumption == Start \in Nat \ {0} /\ Start % Page = 0
ASSUME HeapSizesAssumption == Sizes \subseteq Nat /\ MaxLive \in Nat /\ Wrap \in Nat
                              /\ Page <= Wrap
ASSUME PoolAssumption == Pool0 \subseteq Nat /\ Frame0 \in Nat \ Pool0

VARIABLES hdr,      \* the linked headers, by address
          last,     \* last_heap_entry
          end,      \* kernel_heap_end
          frame,    \* frame[i]: the frame behind the i-th page of the heap
          pool,     \* frames nobody has
          away,     \* ghost: frames that page tables or the table of free ranges
                    \* took, or that free_phys_pages recorded nowhere
          live,     \* ghost: the blocks callers have, by address, and the size they may use
          pc, arg,  \* per processor: where it is in krealloc, and the block it moves
          defects   \* ghost

vars == <<hdr, last, end, frame, pool, away, live, pc, arg, defects>>

Entries == [size : Nat, used : BOOLEAN, last : Nat, next : Nat]
NoArg == [ptr |-> NULL, size |-> 0, ret |-> NULL]
Defects == {"wraps", "foreign", "overlap", "gap", "halts"}

TypeOK == /\ hdr \in [DOMAIN hdr -> Entries] /\ DOMAIN hdr \subseteq Nat
          /\ last \in Nat /\ end \in Nat
          /\ frame \in [0 .. (end - Start) \div Page - 1 -> Nat]
          /\ pool \subseteq Pool0 /\ away \subseteq Pool0
          /\ live \in [DOMAIN live -> Nat]
          /\ pc \in [Procs -> {"idle", "alloc", "copy", "free", "halted"}]
          /\ arg \in [Procs -> [ptr : Nat, size : Nat, ret : Nat]]
          /\ defects \subseteq Defects

(* init_heap.                                                              *)
Init == /\ hdr = [e \in {Start} |-> [size |-> Page - HDR, used |-> FALSE,
                                     last |-> NULL, next |-> NULL]]
        /\ last = Start
        /\ end = Start + Page
        /\ frame = [i \in {0} |-> Frame0]
        /\ pool = Pool0
        /\ away = {}
        /\ live = [m \in {} |-> 0]
        /\ pc = [p \in Procs |-> "idle"]
        /\ arg = [p \in Procs |-> NoArg]
        /\ defects = {}

-----------------------------------------------------------------------------
Lowest(S) == CHOOSE a \in S : \A b \in S : a <= b
Put(f, a, x) == [b \in DOMAIN f \cup {a} |-> IF b = a THEN x ELSE f[b]]
Drop(f, S) == [b \in DOMAIN f \ S |-> f[b]]
AlignUp(a) == ((a + Page - 1) \div Page) * Page
Memory(e) == e + HDR
EntryOf(m) == m - HDR

(* A list: its headers and its last entry, and what the code does to one.  *)
List(h, l) == [hdr |-> h, last |-> l]

\* The entry after e is n from now on: n's back link, or last_heap_entry.
BackLink(list, e, n) ==
    IF n # NULL THEN List([list.hdr EXCEPT ![n].last = e], list.last)
    ELSE List(list.hdr, e)

\* Plausible slips, for the mutants.
CarveTooLarge(list, e, size) ==
    LET n == Memory(e) + size
        old == list.hdr[e]
        new == [size |-> old.size - size, used |-> FALSE, last |-> e, next |-> old.next]
        lk == BackLink(List(Put(list.hdr, n, new), list.last), n, old.next)
    IN  List([lk.hdr EXCEPT ![e].size = size, ![e].next = n], lk.last)
MergeNextForgotten(list, e) == list
CutOneMore(newEnd) == (end - newEnd) \div Page + 1
CopyBeforeAlloc(p) ==
    /\ pc[p] = "alloc" /\ pc' = [pc EXCEPT ![p] = "copy"]
    /\ UNCHANGED <<hdr, last, end, frame, pool, away, live, arg, defects>>
MoveForgetsFree(p) ==
    /\ pc[p] = "free"
    /\ live' = Drop(live, {arg[p].ptr})
    /\ pc' = [pc EXCEPT ![p] = "idle"] /\ arg' = [arg EXCEPT ![p] = NoArg]
    /\ UNCHANGED <<hdr, last, end, frame, pool, away, defects>>

\* Cut e down to size; what is left becomes a free entry behind it.
Carve(list, e, size) ==
    LET n == Memory(e) + size
        old == list.hdr[e]
        new == [size |-> old.size - (size + HDR), used |-> FALSE, last |-> e, next |-> old.next]
        lk == BackLink(List(Put(list.hdr, n, new), list.last), n, old.next)
    IN  List([lk.hdr EXCEPT ![e].size = size, ![e].next = n], lk.last)

CarveIfLarge(list, e, size) ==
    IF list.hdr[e].size > size + HDR + ALIGN THEN Carve(list, e, size) ELSE list

\* A slip in kmalloc, for a mutant: the entry is not marked.
TakeUnmarked(list, e, size) == CarveIfLarge(list, e, size)

\* a takes over the entry b behind it.
Absorb(list, a, b) ==
    LET lk == BackLink(list, a, list.hdr[b].next)
    IN  List(Drop([lk.hdr EXCEPT ![a].size = @ + HDR + list.hdr[b].size,
                                 ![a].next = list.hdr[b].next], {b}), lk.last)

\* heap_mutex is held across steps only by a processor that halted in map_page.
HeapMutexFree == \A q \in Procs : pc[q] # "halted"
Halts(p) == pc' = [pc EXCEPT ![p] = "halted"] /\ defects' = defects \cup {"halts"}

Now == List(hdr, last)
SetList(list) == hdr' = list.hdr /\ last' = list.last

-----------------------------------------------------------------------------
(* kmalloc.                                                                *)
Fits(list, size) == {e \in DOMAIN list.hdr : ~list.hdr[e].used /\ list.hdr[e].size >= size}

Take(list, e, size) == CarveIfLarge(List([list.hdr EXCEPT ![e].used = TRUE], list.last), e, size)

TakeFit(size, m) ==
    LET e == Lowest(Fits(Now, size))
    IN  /\ Fits(Now, size) # {}
        /\ SetList(Take(Now, e, size))
        /\ m = Memory(e)
        /\ UNCHANGED <<end, frame, pool, away>>

PagesFor(size) == (size + HDR) \div Page + 1

RunsOf(n) == {base \in pool : base .. base + n - 1 \subseteq pool}

\* The heap grows by a run of frames; the new entry starts at its old end.
\* map_page takes more frames, `tables', for the page tables that the new
\* pages need: how many depends on where the heap is.
Extend(size, m) ==
    LET n == PagesFor(size)
        new == [size |-> Page * n - HDR, used |-> FALSE, last |-> last, next |-> NULL]
        have == (end - Start) \div Page
    IN  /\ Fits(Now, size) = {}
        /\ \E base \in RunsOf(n) :
           \E tables \in SUBSET (pool \ (base .. base + n - 1)) :
             /\ pool' = pool \ ((base .. base + n - 1) \cup tables)
             /\ away' = away \cup tables
             /\ frame' = [i \in 0 .. have + n - 1 |-> IF i < have THEN frame[i] ELSE base + (i - have)]
        /\ SetList(Take(List([Put(hdr, end, new) EXCEPT ![last].next = end], end), end, size))
        /\ end' = end + n * Page
        /\ m = Memory(end)

\* alloc_phys_pages finds no such run in one of its ranges: one frame it finds.
NoPages(size, m) ==
    /\ Fits(Now, size) = {}
    /\ PagesFor(size) = 1 => pool = {}
    /\ m = NULL
    /\ UNCHANGED <<hdr, last, end, frame, pool, away>>

\* map_page finds no frame for a page table and panics: the frames are gone,
\* the heap is what it was, and heap_mutex stays locked.
MallocHalts(p, size) ==
    /\ HeapMutexFree /\ Fits(Now, size) = {} /\ RunsOf(PagesFor(size)) # {}
    /\ pool' = {} /\ away' = away \cup pool
    /\ Halts(p)
    /\ UNCHANGED <<hdr, last, end, frame, live, arg>>

Alloc(size, m) == TakeFit(size, m) \/ Extend(size, m) \/ NoPages(size, m)

Owned(m, size) == live' = IF m = NULL THEN live ELSE Put(live, m, size)

\* The addresses kmalloc can return.
Memories == {Memory(e) : e \in DOMAIN hdr \cup {end}} \cup {NULL}

kmalloc(p, size) ==
    /\ pc[p] = "idle" /\ HeapMutexFree /\ Cardinality(DOMAIN live) < MaxLive
    /\ \E m \in Memories : Alloc(size, m) /\ Owned(m, size)
    /\ UNCHANGED <<pc, arg, defects>>

-----------------------------------------------------------------------------
(* kfree.                                                                  *)
Touch(list, a, b) == ~list.hdr[a].used /\ Memory(a) + list.hdr[a].size = b

MergeBack(list, e) ==
    LET b == list.hdr[e].last
    IN  IF b # NULL /\ Touch(list, b, e) THEN [list |-> Absorb(list, b, e), e |-> b]
        ELSE [list |-> list, e |-> e]

MergeNext(list, e) ==
    LET n == list.hdr[e].next
    IN  IF n # NULL /\ ~list.hdr[n].used /\ Memory(e) + list.hdr[e].size = n
        THEN Absorb(list, e, n) ELSE list

\* The last entry gives the pages behind it back.
Trims(list, e) == /\ list.hdr[e].next = NULL /\ list.hdr[e].last # NULL
                  /\ AlignUp(Memory(e) + ALIGN) # end

TrimTo(list, e, newEnd) ==
    IF e = newEnd
    THEN LET b == list.hdr[e].last IN List(Drop([list.hdr EXCEPT ![b].next = NULL], {e}), b)
    ELSE List([list.hdr EXCEPT ![e].size = (newEnd - e - HDR) % Wrap], list.last)

PagesCut(newEnd) == (end - newEnd) \div Page

\* free_phys_pages(PHYS_ADDR_OF(new_end), page_count): the frames of these
\* pages are taken to be consecutive.  The result is ignored: when the table
\* of ranges is full the frames do not come back, and `tables' may be taken.
GiveBack(newEnd) ==
    LET keep == (newEnd - Start) \div Page
        n == PagesCut(newEnd)
        freed == (IF n = 0 THEN {} ELSE frame[keep] .. frame[keep] + n - 1) \cap Pool0
    IN  /\ \/ pool' = pool \cup freed /\ UNCHANGED away
           \/ \E tables \in SUBSET pool :
                pool' = pool \ tables /\ away' = away \cup freed \cup tables
        /\ frame' = [i \in 0 .. keep - 1 |-> frame[i]]
        /\ end' = newEnd

TrimDefects(e, newEnd) ==
    LET keep == (newEnd - Start) \div Page
    IN  (IF \E i \in DOMAIN frame : i > keep /\ frame[i] # frame[keep] + (i - keep)
         THEN {"foreign"} ELSE {})
        \cup (IF newEnd - e \in 1 .. HDR - 1 THEN {"wraps"} ELSE {})

\* The list with the entry of ptr free and merged with its neighbours.
Freed(ptr) ==
    LET e0 == EntryOf(ptr)
        back == MergeBack(List([hdr EXCEPT ![e0].used = FALSE], last), e0)
    IN  [list |-> MergeNext(back.list, back.e), e |-> back.e]

Free(ptr) ==
    LET list == Freed(ptr).list
        e == Freed(ptr).e
    IN  \/ /\ ~Trims(list, e)
           /\ SetList(list)
           /\ UNCHANGED <<end, frame, pool, away, defects>>
        \/ /\ Trims(list, e)
           /\ SetList(TrimTo(list, e, AlignUp(e)))
           /\ GiveBack(AlignUp(e))
           /\ defects' = defects \cup TrimDefects(e, AlignUp(e))

\* free_phys_pages stops for good, in a page fault or for want of a frame for
\* a page table: the list is cut, the end of the heap is not yet moved.
FreeHalts(p, ptr) ==
    LET list == Freed(ptr).list
        e == Freed(ptr).e
    IN  /\ HeapMutexFree /\ Trims(list, e)
        /\ SetList(TrimTo(list, e, AlignUp(e)))
        /\ \/ UNCHANGED <<pool, away>>
           \/ pool' = {} /\ away' = away \cup pool
        /\ Halts(p)
        /\ live' = Drop(live, {ptr})
        /\ UNCHANGED <<end, frame, arg>>

\* A block somebody is moving is in the hands of that processor.
Moving == {arg[p].ptr : p \in Procs} \cup {arg[p].ret : p \in Procs}

kfree(p, ptr) ==
    /\ pc[p] = "idle" /\ HeapMutexFree /\ ptr \notin Moving
    /\ Free(ptr)
    /\ live' = Drop(live, {ptr})
    /\ UNCHANGED <<pc, arg>>

-----------------------------------------------------------------------------
(* krealloc on a block the caller has.                                     *)
Returns(p, ptr, size) == /\ live' = [live EXCEPT ![ptr] = size]
                         /\ UNCHANGED <<end, frame, pool, away, pc, arg>>

FreeBehind(e) == hdr[e].next # NULL /\ ~hdr[hdr[e].next].used

\* The free entry behind moves down; the size of e itself stays.
ShrinkIntoFree(p, ptr, size) ==
    LET e == EntryOf(ptr)
        n == hdr[e].next
        to == Memory(e) + size
        moved == [hdr[n] EXCEPT !.size = @ + hdr[e].size - size]
        list == BackLink(List([Put(Drop(hdr, {n}), to, moved) EXCEPT ![e].next = to], last),
                         to, hdr[n].next)
    IN  /\ size < hdr[e].size /\ FreeBehind(e)
        /\ SetList(list)
        /\ defects' = defects \cup {"overlap"}
        /\ Returns(p, ptr, size)

ShrinkByCarving(p, ptr, size) ==
    LET e == EntryOf(ptr)
    IN  /\ size < hdr[e].size /\ ~FreeBehind(e)
        /\ hdr[e].size - size >= HDR + ALIGN
        /\ SetList(Carve(Now, e, size))
        /\ Returns(p, ptr, size) /\ UNCHANGED defects

KeepSize(p, ptr, size) ==
    LET e == EntryOf(ptr)
    IN  /\ size <= hdr[e].size
        /\ size < hdr[e].size => ~FreeBehind(e) /\ hdr[e].size - size < HDR + ALIGN
        /\ Returns(p, ptr, size) /\ UNCHANGED <<hdr, last, defects>>

\* The free entries behind e that the search accepts: it compares the size of
\* one entry, not the sum.
Enough(e, size) ==
    {c \in DOMAIN hdr : /\ c > e /\ hdr[c].size + HDR >= size
                        /\ \A b \in DOMAIN hdr : e < b /\ b <= c => ~hdr[b].used}

GrowInPlace(p, ptr, size) ==
    LET e == EntryOf(ptr)
        c == Lowest(Enough(e, size))
        tot == hdr[c].size + HDR
        skipped == {b \in DOMAIN hdr : e < b /\ b <= c}
        lk == BackLink(Now, e, hdr[c].next)
        list == List(Drop([lk.hdr EXCEPT ![e].next = hdr[c].next, ![e].size = tot], skipped), lk.last)
    IN  /\ size > hdr[e].size /\ Enough(e, size) # {}
        /\ SetList(CarveIfLarge(list, e, size))
        /\ defects' = defects \cup (IF Memory(e) + tot # Memory(c) + hdr[c].size THEN {"gap"} ELSE {})
        /\ Returns(p, ptr, size)

MustMove(p, ptr, size) ==
    LET e == EntryOf(ptr)
    IN  /\ size > hdr[e].size /\ Enough(e, size) = {}
        /\ pc' = [pc EXCEPT ![p] = "alloc"]
        /\ arg' = [arg EXCEPT ![p] = [ptr |-> ptr, size |-> size, ret |-> NULL]]
        /\ UNCHANGED <<hdr, last, end, frame, pool, away, live, defects>>

krealloc(p, ptr, size) ==
    /\ pc[p] = "idle" /\ HeapMutexFree /\ ptr \notin Moving
    /\ \/ ShrinkIntoFree(p, ptr, size) \/ ShrinkByCarving(p, ptr, size)
       \/ KeepSize(p, ptr, size) \/ GrowInPlace(p, ptr, size) \/ MustMove(p, ptr, size)

(* krealloc after it has dropped the mutex: a new block, the copy, and the *)
(* old block freed.                                                        *)
MoveAlloc(p) ==
    /\ pc[p] = "alloc" /\ HeapMutexFree
    /\ \E m \in Memories :
         /\ Alloc(arg[p].size, m) /\ Owned(m, arg[p].size)
         /\ IF m = NULL
            THEN pc' = [pc EXCEPT ![p] = "idle"] /\ arg' = [arg EXCEPT ![p] = NoArg]
            ELSE pc' = [pc EXCEPT ![p] = "copy"] /\ arg' = [arg EXCEPT ![p].ret = m]
    /\ UNCHANGED defects

\* memcpy(ret, ptr, entry->size), with no mutex.
MoveCopy(p) ==
    /\ pc[p] = "copy"
    /\ pc' = [pc EXCEPT ![p] = "free"]
    /\ UNCHANGED <<hdr, last, end, frame, pool, away, live, arg, defects>>

MoveFree(p) ==
    /\ pc[p] = "free" /\ HeapMutexFree
    /\ Free(arg[p].ptr)
    /\ live' = Drop(live, {arg[p].ptr})
    /\ pc' = [pc EXCEPT ![p] = "idle"]
    /\ arg' = [arg EXCEPT ![p] = NoArg]

(* A processor that stops for good inside kmalloc or kfree.                *)
InMalloc(p) == \/ /\ pc[p] = "idle" /\ Cardinality(DOMAIN live) < MaxLive
                  /\ \E size \in Sizes : MallocHalts(p, size)
               \/ pc[p] = "alloc" /\ MallocHalts(p, arg[p].size)

InFree(p) == \/ /\ pc[p] = "idle"
                /\ \E ptr \in DOMAIN live \ Moving : FreeHalts(p, ptr)
             \/ pc[p] = "free" /\ FreeHalts(p, arg[p].ptr)

Step(p) == \/ \E size \in Sizes : kmalloc(p, size)
           \/ \E ptr \in DOMAIN live : kfree(p, ptr)
           \/ \E ptr \in DOMAIN live, size \in Sizes : krealloc(p, ptr, size)
           \/ MoveAlloc(p) \/ MoveCopy(p) \/ MoveFree(p)
           \/ InMalloc(p) \/ InFree(p)

Next == \E p \in Procs : Step(p)
Spec == Init /\ [][Next]_vars

-----------------------------------------------------------------------------
\* The k-th entry the list reaches from first_heap_entry, and back from entry e.
Forward == LET f[k \in 0 .. Cardinality(DOMAIN hdr)] ==
                 IF k = 0 THEN Start ELSE IF f[k-1] = NULL THEN NULL ELSE hdr[f[k-1]].next
           IN  f
Backward == LET b[k \in 0 .. Cardinality(DOMAIN hdr)] ==
                  IF k = 0 THEN last ELSE IF b[k-1] = NULL THEN NULL ELSE hdr[b[k-1]].last
            IN  b

(* heap_consistency_check: from first_heap_entry every entry ends where    *)
(* the next begins, the last one is last_heap_entry and ends at            *)
(* kernel_heap_end, and the way back leads to the first.                   *)
heap_consistency_check ==
    /\ (Memory(last) + hdr[last].size) % Wrap = end % Wrap
    /\ \A k \in DOMAIN Forward :
         LET e == Forward[k] IN e # NULL =>
           IF hdr[e].next # NULL THEN hdr[e].next = Memory(e) + hdr[e].size ELSE e = last
    /\ \E k \in DOMAIN Backward : Backward[k] = Start /\ hdr[Start].last = NULL

(* Free neighbours are merged, and the two directions of the list agree,   *)
(* which heap_consistency_check does not look at.                          *)
OrderedLinks ==
    defects = {} =>
      \A e \in DOMAIN hdr :
        LET n == hdr[e].next
        IN  n # NULL => n > e /\ n \in DOMAIN hdr /\ hdr[n].last = e /\ (hdr[e].used \/ hdr[n].used)

(* kmalloc, kfree and krealloc leave a heap that passes the check that the *)
(* post-init test of runtime_error_check.c makes, until a defect.          *)
ConsistentUntilDefect == OrderedLinks /\ (defects = {} => heap_consistency_check)

(* The blocks callers have are inside the heap, are not smaller than what  *)
(* they asked for, and share no unit with each other or with a header.     *)
Extent(e) == e .. Memory(e) + hdr[e].size - 1
BlocksApart ==
    defects = {} =>
      /\ \A m \in DOMAIN live : /\ EntryOf(m) \in DOMAIN hdr
                                /\ hdr[EntryOf(m)].used /\ hdr[EntryOf(m)].size >= live[m]
      /\ \A e \in DOMAIN hdr : Extent(e) \subseteq Start .. end - 1
      /\ \A d, e \in DOMAIN hdr : d # e => Extent(d) \cap Extent(e) = {}

(* Nothing leaks: an entry marked used is a block somebody has.            *)
NothingLeaks == defects = {} => \A e \in DOMAIN hdr : hdr[e].used => Memory(e) \in DOMAIN live

(* The frames behind the heap belong to it alone: none of them can be      *)
(* handed out, and none is a page table or table space, when free_phys_    *)
(* pages made one of what the heap gave back.  The heap itself loses none. *)
FramesPrivate ==
    defects = {} => /\ \A i \in DOMAIN frame : frame[i] \notin pool \cup away
                    /\ \A i, j \in DOMAIN frame : i # j => frame[i] # frame[j]
                    /\ \A f \in Pool0 : f \in pool \cup away \/ \E i \in DOMAIN frame : frame[i] = f

(* krealloc reads the old size and copies after it has dropped the mutex:  *)
(* whatever others do meanwhile, both blocks are its own and the copy      *)
(* stays inside them.                                                      *)
CopyInside ==
    \A p \in Procs : defects = {} /\ pc[p] \in {"copy", "free"} =>
      LET old == EntryOf(arg[p].ptr)
          new == EntryOf(arg[p].ret)
      IN  /\ {old, new} \subseteq DOMAIN hdr /\ old # new
          /\ hdr[old].used /\ hdr[new].used
          /\ hdr[old].size <= hdr[new].size

(* runtime_error_check.c:8 expects the check to hold after an operation.   *)
AlwaysConsistent == HeapMutexFree => heap_consistency_check

\* Nothing is claimed of what follows a defect.
NoDefect == defects = {}
=============================================================================
