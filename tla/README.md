# KoalemOS in TLA+

This directory holds a verification development for KoalemOS, a small SMP
kernel for x86-64 (`src/src/kernel`, `src/src/libc`, `src/src/ap_boot`,
`src/src/boot`). It contains TLA+ modules translated from the C and assembly
sources, TLC configurations that check them on small machines, and proofs for
TLAPS. `PROJECT.json` lists, for every definition that models code, the lines it
stands for; the runs and their properties; for every property a mutant of the
code it would catch; the hazards; the findings; the theorems.

Line numbers below are those of the files under `src/src/kernel` unless a path
is given.

## 1. Inventory

| Part | Source | State it keeps | Operations | What must hold |
|---|---|---|---|---|
| Mutex | `libc/threads.c` | one atomic Boolean | init, lock, trylock, unlock | exclusion; no release lost; somebody gets a free lock |
| Page range tables | `mmap.c` | array, count, capacity | get pages, add, add and merge | ranges disjoint, non-empty, exact |
| Physical pages | `memory.c` 59-127 | `phys_mmap`, two mutexes | alloc, free (may extend its own table) | no page twice; none lost before the limit; every slot mapped |
| Paging, TLB shootdown | `memory.c` 186-328, `apic.c` 174-209, `isr/inter_processor_call.c` | page tables, `__invld_tlbs_addr`, `__ip_call_count`, `working_processor_count`, two mutexes | map, unmap, split a large page, call the other processors | a change that has returned is in force on every processor; it returns |
| Kernel heap | `memory.c` 413-421, 453-691 | list of headers, end of the heap, mutex | kmalloc, krealloc, kfree, consistency check | blocks disjoint and owned; list consistent; frames private |
| Virtual mappings | `memory.c` 130-183, 330-350, 423-429 | `virt_mmap`, its array on the heap, mutex | create, delete | mappings do not touch each other; space accounted for |
| Firmware memory map | `memory.c` 353-451 | `phys_mmap` being filled, the identity mapping, `ap_boot_paddr` | init_memory_management | the kernel gets exactly the usable pages, page 0 and the AP image apart; the descriptors last until they are read |
| Console | `graphics.c` | cursor, glyph cache, frame buffer, mutex | print_char, print_str, fill_screen | drawing on the screen; the right glyph; printing ends |
| Start of the processors | `ap_boot.c`, `ap_boot/boot.s`, `kernel_start.c/.s` | trampoline counters, stack pointer and limit under an assembly lock, `ap_count`, barrier | boot_aps, trampoline, stack hand-out, `__kernel_init` | a stack and a TLS area each; barrier exact |
| Thread-local storage | `tls.c`, `tls.s` | TLS area and how much is used, mutex | reserve, create, done | areas disjoint and inside |
| Local APIC | `apic.c`, `apic.s`, `isr/apic_timer.c` | timer vector, frequency, per processor | init, timer start/stop, IPIs | divider and count right; calibration ends |
| Interrupt vectors | `interrupt.c`, `interrupt.s` | IDT, used flags, per processor | alloc, free, init | a vector has one owner |
| ACPI | `acpi.c` | root table, its entries | init, lookup | mappings returned or deleted |
| PCI | `pci.c` | segment groups, device table, the functions' registers | init, enumerate, measure base addresses | every function found once; registers put back; failure leaves nothing dangling |
| Loader | `boot/boot.c`, `boot/paging.c`, `boot/boot.s` | the firmware's memory, page tables under construction, graphics mode, root table | efi_main, add_page_mapping | kernel mapped where it was linked; the mode is usable, the root table the preferred one; what it allocates is of the kernel's memory type |
| libc algorithms | `libc/stdlib.c`, `libc/string.c`, `libc/ctype.c` | none | strtol, qsort, string and memory functions | they compute what C says, and where not, something one can name |
| Checks, rest of libc, GDT, kmain, fonts | `runtime_error_check.c`, `libc/*`, `gdt.*`, `kernel.c`, `fonts.s` | none or constant | | |

How the parts interact. Everything is a function call under spin locks; there
are no threads, only processors, and the only asynchronous event between them
is the inter-processor interrupt. Locks nest in this order:

    graphics_mutex -> heap_mutex -> phys_mmap_mutex
                                 -> paging_mutex -> phys_mmap_mutex
                                                 -> ipcall_mutex
    virt_mmap_mutex -> heap_mutex
    heap_mutex -> phys_mmap_ext_mutex -> paging_mutex

The heap asks the page allocator for frames and `map_page` to map them;
`map_page` asks the page allocator for page tables; the page allocator, when
its table is full, asks `map_page` to map a page for the table. Every change of
the page tables waits for every processor.

What is hard here: the atomic accesses of the lock; `free_phys_pages` dropping
one mutex for another; the shootdown, in which processors wait for each other
with mutexes held and answers are counted in one global; `krealloc` copying
without its mutex; processors that start late, or never, in a boot protocol
without acknowledgement; a memory map that is read through a mapping that the
reader takes down; hardware registers changed for a moment; counters and cursors
at their limits. The list, line by line, with the property that watches each, is
`hazards` in `PROJECT.json`.

## 2. Modules

| Module | Models | Run with |
|---|---|---|
| `AbstractLock` | what callers of an `mtx_t` rely on | (target of a refinement) |
| `SpinLock` | `libc/threads.c` | `MCSpinLock.cfg` |
| `MemoryMap` | `mmap.c`, as operators on sequences of ranges | through the two tables below |
| `PhysPages` | the page allocator; extends `MemoryMap` | `MCPhysPages` |
| `TlbShootdown` | page table changes, the call and its handler, joining processors | `MCTlbShootdown` |
| `KernelHeap` | the heap | `MCKernelHeap` with two cfgs |
| `Console` | the console and the glyph cache | `MCConsole.cfg` |
| `SmpBoot` | the start of the application processors, stacks, TLS areas, barrier | `MCSmpBoot.cfg` |
| `VirtMappings` | device and table mappings; extends `MemoryMap` | `MCVirtMappings` |
| `ApicTimer` | interrupt vectors, the local APIC's timer, its handlers, the exceptions | `MCApicTimer.cfg` |
| `Loader` | the UEFI loader | through `BootChain` |
| `FirmwareMap` | `init_memory_management`; extends `MemoryMap` | through `BootChain` |
| `BootChain` | the loader, the jump, and the kernel that takes over its memory; extends both | `MCBootChain` |
| `Acpi` | `acpi.c` | through `Pci` |
| `Pci` | `pci.c`, with the lookup of its table; extends `Acpi` | `MCPci` |
| `Strtol`, `StringFns`, `Qsort` | the algorithms of `libc`, as operators | through `Libc` |
| `Libc` | one call of a library function; extends the three | `MCLibc` |
| `MemoryMapProofs` | lemmas about `mmap.c` | TLAPS |
| `PhysPagesProofs`, `TlbProofs`, `SmpProofs` | theorems about the module of that name | TLAPS |
| `LibcProofs` | theorems about `SpinLock` and `Libc`, the two parts of `src/libc` | TLAPS |
| `KernelHeapProofs` | theorems about the heap | TLAPS |
| `DeviceProofs` | theorems about `Console`, `ApicTimer` and `Pci` | TLAPS |
| `BootProofs` | theorems about `BootChain` and, after them, `VirtMappings` | TLAPS |

A definition named like a C function is that function; one with a name of its own,
capitalised, is a part of it or a step. Where one proof module is about several
components, their specifications have names of their own (`VirtSpec`, `TimerSpec`,
`PciSpec`, `LibcSpec`) and the others `Spec`. Operators under "Plausible slips" are
wrong versions of mapped definitions: they are used by no specification, only to see
that the properties notice.

**SpinLock.** `locked` is the Boolean, `pc[t]` says whether processor t is idle,
about to load, about to exchange, or holds the lock. A load that finds the lock
taken changes nothing and is a stutter. Until `smp` is set only the boot
processor steps, as in the boot sequence; this is what makes `mtx_init` safe.
`ap_mut` alone is initialised after the start-up interrupts have been sent
(`kernel_start.c` 56-57, `tls.c` 45): there the others wait for `ap_tls` before they
touch it (`tls.c` 50), and `smp` stands for that.

**MemoryMap, PhysPages.** A table is the sequence of its ranges up to `range_count`. A
critical section under `phys_mmap_mutex` is one step. `free_phys_pages` is up to four:
the attempt to record, the check of the region under `phys_mmap_ext_mutex`, the mapping
of the table page, the raise of the capacity. `map_page` appears by what it does to this
component: it may take a page for a page table (`MapWithPageTable`) or panic for want of
one. `backed` says which slots have their page mapped; storing into another one is a
page fault, after which the processor keeps `phys_mmap_mutex`. A processor in `map_page`
may stay there for ever, with `phys_mmap_ext_mutex`: it spins for `paging_mutex` and
waits for every other processor's answer, and the module assumes no fairness. `use` and
`wide` are ghosts. `free_phys_pages` of no pages is included, because `kfree` can ask
for it (section 6).

**TlbShootdown.** `pt` is the translation of each page, `tlb[c]` what a
processor has cached, and `Load` lets the hardware cache anything at any time.
`pc` follows one change from `paging_mutex` to its release; `irr` and `isr` are
the pending and the running interrupt. The handler interleaves with the code of
every processor, also with one that spins for a mutex. `count` and `invld` are
the two globals of the protocol. `stage` follows a processor from "off" to
counted in `working_processor_count`; only listening processors receive the
call. `raced` is a ghost: a change overlapped the start of a processor.

**KernelHeap.** `hdr` maps the address of every linked header to the header,
`live` what callers own. Everything under `heap_mutex` is a step; `krealloc`,
when it moves a block, takes three more. Addresses and sizes are in units of
16 bytes, so `sizeof(heap_entry)` and `sizeof(max_align_t)` are 2; the page is
shortened to 8 or 16 units so that TLC sees carving, merging, extension and
trimming with small numbers. `pool` is what the page allocator can hand out; `away`
the frames that neither it nor the heap has: page tables that `map_page` made for new
pages, any number of them, and what `free_phys_pages` did not record when the heap
was trimmed. Its result is ignored (682), so `GiveBack` may return the frames, or
lose them and take others for table space or page tables. A processor can halt inside
`kmalloc` and `kfree` (`MallocHalts`, `FreeHalts`: `map_page` panics, or
`free_phys_pages` faults); `heap_mutex` then stays locked, and nobody gets in again.
`defects` is a ghost that names the steps after which the code no longer keeps its own
invariants (section 6), a halt among them.

**Console.** The cursor is in cells. A bitmap is the character it shows, so the
cache can be wrong about it. `cur_priority` has `CurValues` values (2^64), the
`int` it is compared as `2 * IntHalf` (2^32).

**SmpBoot.** Every access to shared memory is a step, in the order of the instructions.
An application processor may take its start-up interrupt at any time after it is sent.
`*done_ptr < *count_ptr` is read left to right, as the compiler emits it for two
volatile reads in that order. While the boot processor prints how many have come, it may
have to map a page and call the others: `CallOthers` sends the call to those that are
working, `CallReturns` and `OthersAnswer` end the wait, which is for as many as are
working by then. Whoever joins between the two may answer or not, since the interrupt
may have come before it listened; so `OthersAnswer` may never happen. `PrintPanics` is a
page table that cannot be had. A late processor for which no stack is left is taken to
stop in `kernel_panic`, which it enters without a stack of its own.

**VirtMappings.** One operation at a time, as its callers run on the boot
processor; `free_virt_pages`, which calls itself, is stepped.

**ApicTimer.** One processor, since all of the state is thread-local. Every
store to an APIC register that the timer depends on is a step, and between any
two the countdown may end (`Expire`), a vector may be delivered (`Deliver`), a
handler may run, or an exception may halt the processor. `owner`, `due` and
`clean` are ghosts that tie an expiry to the start it belongs to. A duration is
an integral number of ticks; `DivConf` is the code's arithmetic, `Divider` the
hardware's reading of it.

**Loader.** `step` is where `efi_main` is; every firmware call succeeds or fails,
and a failure returns. `mem` is the firmware's view of each frame, so that the
type an allocation asks for is part of the state. `entry` holds the entries of
the page tables by their path of indices, which is what `add_page_mapping`
walks. `mode` starts as garbage, as the variable of the code does, and the root table is
chosen from an `xsdt_addr` that is garbage, or null by luck, unless a pointer of revision 2
writes over it. The firmware lists its memory in any order of `Orders`.

**FirmwareMap.** The loop over the descriptors and the loop over the pages of one
are stepped, because `unmap_page` splits large pages with page tables taken from
the table that is being filled. `ident` is the identity mapping that is left, `wiped` the
frames that became page tables. `own` and `walk` are the frames that the
descriptors and the firmware's page tables are in. Reading a descriptor whose page is
no longer mapped or has become a page table (`Readable`), or unmapping through page tables
that were written over, ends in `lost`.

**BootChain.** Both, on one memory: what `GetMemoryMap` returns is computed from
`mem`, so a wrong memory type in the loader shows as a wrong free list in the
kernel.

**Acpi, Pci.** Every `create_virt_mapping` and `kmalloc` may fail. `mapped` is
the set of mappings in use. A function's registers are `config`, what they were
before `machine.functions`; of what is written
to a base address register the multiples of its size stick, which is how its
size is measured. A register has `RegValues` values. `Functions` and
`MachinesAssumption` say which machines there may be: sizes that divide the range
of a register, the flags of each kind of register, the upper half of a 64-bit
register after the lower one. `top` is how many values a register can hold: a register
of ports may lack its upper 16 bits and then has `PortValues` of them.

**Strtol, StringFns, Qsort.** Pure functions, translated loop by loop (the word
loops, the directions of `memmove`, the two indices of `partition`), on strings
and memories that are functions from positions to bytes. A loop that changes
something is a recursive function over its rounds, `after[k]` being the state after
the k-th; a loop that only looks is the position it stops at. A copy is cut into
accesses: `DoneFrom` and `DoneTo` say which byte it has come to after k of them. In
`qsort`, `sorted[n]` sorts n elements, by those for fewer. `Libc` makes one call with
any of its arguments.

## 3. Runs

| Run | Instance | Distinct states |
|---|---|---|
| `spin_lock` | 3 processors | 1,009 |
| `phys_pages` | 2 processors, 5 frames, 1 slot per page, region of 4, runs up to 2 | 96,240 |
| `tlb` | 3 processors, one may panic, 1 page, 2 frames, from the boot on with a large page to split, or past the barrier | 109,426 |
| `kernel_heap` | 2 processors, up to 3 pages of 8 units, 3 live blocks, sizes 0, 4, 7 | 289,438 |
| `console` | 1 processor, 3 characters, 2 entries, counter and int of 16 values, screen of 2 x 2, strings up to 2 | 313,570 |
| `smp_boot` | 3 application processors, up to 2 calls while printing | 254,340 |
| `virt_mappings` | 5 pages of 2 units, 3 requests | 29,819 |
| `apic_timer` | vectors 32 to 36, 2 callbacks, counts up to 3, durations for every divider | 218,819 |
| `boot_chain` | 20 frames, 18 layouts, 3 orders of listing, 3 kernel files, 2 mode lists, 5 lists of root pointers, table of 3 ranges | 82,322 |
| `pci` | 4 machines, 5 root tables, registers of 6 bits, some of ports with 5 | 380 |
| `libc` | `long` up to 2047, texts up to 5, strings up to 4 of 2-bit bytes, words of 2 bytes, arrays up to 6 bytes | 225,578 |

and one run that is expected to fail, for the finding of section 6: `heap_realloc`.

Why these bounds are enough to see the interesting cases:

* `phys_pages`: one slot per page makes the table full at once, so every
  extension is exercised; the region of four lets it grow by one page, by two,
  and be refused; five frames leave ranges that merge and ranges that do not.
* `tlb`: three processors give a caller, one that answers, and one that
  waits for the mutex with the interrupt pending; two frames make a remap that
  is neither a first map nor an unmap. Each initial state is one stage of the
  start, so that all orders of joining and calling are reached.
* `kernel_heap`: with pages of eight units, size 7 does not fit behind a header,
  so a second and third page are needed; size 4 leaves remainders on both sides
  of the carving threshold; size 0 is what `kmalloc(0)` gives.
* `console`: counter and int roll over after 16 lookups, in every state of the
  cache; one more character than entries forces evictions; a string of two
  crosses the right edge and the bottom of the screen. Strings and control
  characters of one processor reach every cursor; a second one only waits.
* `apic_timer`: with counts up to 3 the durations 1, 5, 11, 40, 80 and 500 take the
  dividers 1, 2, 4, 16, 32 and the last resort, and 0 stops the timer; of the five
  vectors two are fixed and one is the timer's, so that others can use up the rest,
  the calibration's old vector included.
* `smp_boot`: with three, one may be counted, one late, one never there, in
  every order; one call before and one while others join is what the hang needs.
* `virt_mappings`: five pages hold three mappings, aligned and not, that touch;
  freeing the middle one first or last merges ranges or does not.
* `boot_chain`: four frames to a 2 MiB page and eight to a 1 GiB page make both kinds of
  split and the page tables for them; a table of three ranges overflows; the descriptors
  lie below, between and above what is free, below and above the AP limit, and are
  listed from the bottom, from the top and with the middle first, so that page tables
  come from frames below, above and beside them.
* `pci`: five functions make the device table of two grow twice; groups of two buses, of
  one, and none; bridges; 64-bit registers whose size is in the upper half; port ranges
  of 4, 16 and 32, with and without upper bits.
* `libc`: numbers of up to five digits pass both ends of a `long` of 12 bits; texts with
  `x` and others with `+` and `X` have every prefix, false ones included; bytes of two
  bits are half negative; memory of nine bytes has overlaps of a word, of less, and of
  several, in both directions.

`MaxLive` (KernelHeap), `MaxLen` and `MaxRow` (Console), `MaxRun` (PhysPages),
`FilePages` and `MaxDescriptors` (Loader) are bounds on inputs; `MaxCalls` (SmpBoot) on
the calls made while printing; `Wrap` stands for 2^64 bytes. `NoDefect` and `NotRaced`
are state constraints: behaviours are cut at the first defect, halt or race, which is
where the invariants stop claiming anything.

Symmetry is used only in runs without temporal properties.
Deadlock is checked except where the system may stop: after panics, page faults,
a printer waiting for itself, with all frames in use, or when a sequence of
calls (the loader, `init_pci`, a library call) has returned.

Fairness. A processor that executes keeps executing: weak fairness of the steps that are
not calls. `SpinLock`: of the load and the exchange, not of the holder. `PhysPages`:
none, because `map_page` waits for others. `TlbShootdown`: of the steps of a change and
of the handler; only weak for the mutexes, which have no queue. `Console`: of the holder
of `graphics_mutex`. `SmpBoot`: of every processor that has started, but not of its
arrival, nor of an answer to a call that was not sent to it, nor of a panic.
`ApicTimer`: the processor executes its own code, the countdown ends, the APIC delivers.
`VirtMappings`: of the function's own steps; that `krealloc` fails is not something it
can count on. Nothing is assumed of callers, of the hardware's `Load`, nor that panics
happen.

## 4. What the checks show

* The lock excludes, and the spin lock implements `AbstractLock`, progress included.
* The range table of the page allocator is exact at every moment in which
  its mutex is free; no frame is handed out twice, or while a `free_phys_pages` in progress
  has it; frames are lost only for the two reasons the code has.
* Page table changes are in force everywhere when they return, unless they
  overlap the start of a processor; answers are counted once and for the right
  call; every change finishes unless somebody halts or a change overlaps a start.
* The heap is consistent, in both directions, its blocks are disjoint and
  in the hands of one owner, and the frames behind it are nobody else's, up to the first
  of the four kinds of defects named in section 6 or a halt inside the heap; moving
  a block without the mutex is safe. Frames the heap gives back need not reach the page
  allocator's table; that the heap loses none itself is all that is claimed.
* A character is always shown by its own glyph, whatever rolled over, and
  no character is cached twice (both in `ShowsItself`).
* Late processors never share a stack or a TLS area, only they can panic for
  want of a stack (`OwnAreas`), and everybody who was counted, or somebody in
  its place, passes the barrier, unless the boot processor panics or waits for ever,
  while it prints, for an answer to a call that was sent before others joined (`AllStart`).
* The timer's vector stays the timer's, the calibration gives its own back when
  nothing is on its way to it, every vector that can be delivered has a gate
  (`OwnCallback`), and the calibration ends. An expiry calls the callback of the start
  it belongs to if that start found the timer at rest, after the time asked for
  as long as the divider is at most 16.
* Mappings are kept apart unless the page that the loops handle too much
  belonged to somebody; the range table never loses a range when it is shrunk
  (`TableFits`, part of `SpaceAccounted`).
* The loader's kernel is readable where it was linked, but for what the surplus pages of
  an earlier segment cover; the mode is one the console can use, although the variable
  that chooses it starts as garbage. The root table is the one ACPI prefers if the first
  2.0 pointer has revision 2; with an older one or none it may be garbage, and nothing
  is claimed of it then (section 6). The kernel records exactly the usable frames and
  keeps the loader's allocations. The descriptors' pages are unmapped only after the
  last has been read, and they are written over before that only if fewer usable frames
  are listed before them than page tables are made.
* When `init_pci` succeeds the device table is exactly what the scanned buses hold; every
  register is put back; every temporary mapping and block is given back or, on the
  way out after a failure, known.
* PCI base addresses are recorded with their true size, but for the two kinds of port
  ranges in section 6.
* `strtol`, the string and memory functions and `qsort` of bytes return what C asks for,
  outside of the cases in section 6, where the properties say what they return instead.
  These are not rare: they include every `strchr` that has to look past the first
  character, and every `strcmp` that meets a character above 127 on one side.

## 5. What is proved

All theorems hold for every value of the constants that satisfies the modules'
`ASSUME`s: any number of processors, frames, pages.

`LibcProofs`, the lock. `LockInv` is the conjunction of `TypeOK`, `MutualExclusion`,
`LockedIffHeld` (the word is set exactly while somebody holds the lock, theorem
`LockWordTrue`), `QuietBeforeSmp`. Exclusion alone is not inductive: the winner
of an exchange is alone because the word was false, so the meaning of the word
must be part of it, and `mtx_init` keeps that meaning only because nobody else
runs yet. `RefinesAbstractLock` maps `holder` to whoever holds and `waiting` to
who is loading or exchanging. Its liveness is model-checked only.

`PhysPagesProofs`. `PhysInv` adds to the invariants of the run that arguments
are in bounds and that between the mapping of a table page and the raise of the
capacity the new slots are there (`GrowReady`). It has one lemma per action.
`PhysTableBacked` states `SlotsBacked`: the capacity never passes the region, and
without runs of several pages every slot below it is mapped.
The operators of `mmap.c` are treated in `MemoryMapProofs`: what taking from the
front, removing, growing downwards and appending do to `Sound` and `Covered`.
`BootProofs` rests on the same lemmas.

`TlbProofs`. For the whole `Spec`, from the boot processor alone with the firmware's
large page to all processors past the barrier. Once a change has overlapped the start
of a processor (`raced`) the code promises nothing, see section 6, and `UnlessRaced`
claims `ShootdownInv` up to there.
`ShootdownInv` says how far the start is when a change is made (`StartInv`: a
processor that is off has nothing cached or pending; while the large page, or something of
it to map again, is there, the boot processor is alone), who is inside which
mutex (`unmap_page_fix_size`, who flushes without `paging_mutex`, is alone),
that a handler runs only for a call that is waited for, that the address is the one
of the change in progress, and that the counter is zero before the call and then
the number of the counted processors that have answered. `StaleInv` is the heart: a
stale translation is explained by the one processor that has its page in hand. The end of
the wait preserves it because whoever runs beside a changer is counted
(`Company`), so that by the counter all have answered (`AllAnswered`) and none
has the call before it. `Coherent` follows: with nobody busy there is nobody left to
explain a stale translation.

`KernelHeapProofs`. The heap gives no guarantee after the first of the defects of
section 6 or a halt, so `IInv` claims `HeapInv` for `defects = {}` only. `HeapInv` has
four parts. `Linked`: the headers form one list that fills `Start .. end` without a
hole, the links of neighbours agree in both directions, and the end pointers are right.
`Merged`: of two neighbours one is in use. `Framed`: page `i` of the heap is behind
`frame[i]`, the frames are different and neither in the pool nor `away`, and every frame
is in one of the three. `Serves` and `Moves`: the entries marked used are exactly the
blocks callers have, each at least as large as asked for, and the two between which a
`krealloc` is at work are used, different and in no other processor's hands. The
operators that change the list (`Absorbed`, `Carved`, `Unmark`, `Appended`) each have a
lemma about the list before and after; a step of the heap is a chain of them. Carving
and merging are the hard part, because what the code compares (`size`, not addresses)
has to be turned into a list without holes first. `heap_consistency_check` itself is two
walks; that they visit every entry and end is shown by least counterexample on the
walk's length, since induction over the list is not available. It needs that sizes fit
in a `size_t` (`Page <= Wrap`), which any page does. Theorems: `BlocksApartTheorem`,
`NothingLeaksTheorem`, `FramesPrivateTheorem`, `CopyInsideTheorem`, `ConsistentTheorem`.

`BootProofs`, the boot. `BootInv` is `LoaderInv`, for the loader, and `KernelInv`, for
what the kernel does with what it is given. `LoaderInv`: every page table, every page of
a segment and every page handed over has the kernel's memory type (`KernelOwned`); a
large page is one of the direct mapping, and no page above `last` is mapped yet
(`PathsInOrder`), so that mapping the next one hides nothing; every page of the file
already treated is visible at its address, or behind a segment before its own
(`PagesVisible`), and `last`, up to which the loader skips pages, belongs to a segment
treated before (`LastExplained`); and each step of `efi_main` has what the handover will
need (`HandoverReady`). `KernelInv`: the descriptors are true of the memory and apart,
in any order (`DescInv`); the table is in the order in which they are listed and exact
for those read so far (`TabInv`, `TableExact`); the identity mapping has lost exactly
what these descriptors cover (`IdentInv`, by the operator `Gone`); and the frames that
became page tables are the first-listed usable ones (`WipedInOrder`: with one go all
that are listed before it). From the last follows `DescriptorsSurvive`, from
`KernelOwned` and `TableExact` together `KernelFramesKept`: it is the theorem about the
two programs, and the reason for proving them on one memory. Assumed are positive sizes,
`HugePages` a multiple of `LargePages`, finitely many frames, orders that tell frames
apart, and layouts in which the descriptors lie in consecutive frames.

`BootProofs`, the mappings. `SpaceAccounted` and `MappingsIntact`, for any space, unit of
sizes and set of requests. The invariant adds the types, and that pages on
their way through `free_virt_pages` are pages of the space that nobody lost
before. A few lemmas on division say which pages a request touches.

`SmpProofs`. `OwnAreas` and `BarrierHolds` for any finite set of processors. The
invariant says that the pointer is the base plus the number of stacks handed
out (`PtrInv`), that it is published after limit and size (`PublishInv`), and
that what the holder of the assembly lock has read of it is still true, because
only the holder changes it (`LockInv`). TLS areas need no bound of their own:
whoever has one has a stack, so there are no more than `ap_count`. For the
barrier, `working` is the number of processors that have arrived: if it is
`ap_count + 1`, and only the boot processor and owners of stacks arrive, then
all of them have.

`DeviceProofs`, the console. `ShowsItself`, `DrawsOnScreen` and `KeepsRecent`, for any
widths of the counter and the int, any cache and any screen. Whoever is inside holds
`graphics_mutex`, one that is stuck for ever; so the entry that a failed rendering
leaves without a bitmap is never shown. For these two `ToInt`, the eviction and
the rollover matter only in that they choose some entry. `KeepsRecent` is about the
choice: `Recency` says that priorities are positive for cached characters, at most the
counter, and ordered like the last drawing, so that what is cached are the first
of `recent`; a cache with room for more than was drawn has a blank entry, by
counting. It is claimed until the counter no longer fits in an int (`long`) or FreeType
has failed.

`DeviceProofs`, the timer. `OwnCallback` and `RightDuration`. `TimerInv` says which
vectors have their gate (`GatesInv`), that what is on its way belongs to the vector in
the register (`UnderWayInv`), that a countdown begun by a start at rest finds the
callback of that start (`CallbackInv`), and that count and divider are those the start
computed (`CountInv`). It holds between any two of the stores of `start_apic_timer`,
where an expiry, a delivery or an exception may come. That the divider has the power
wanted is proved for the powers 0 to 4 (`DividerOfPower`); for the others the code
writes something else (section 6).

`DeviceProofs`, PCI. `DevicesTrue`, `RegistersKept` and `BarsTrue`, for any machine and
any number of values of a register that is a multiple of 16. The functions looked at are
ordered by `Earlier`; the table holds exactly the functions before `pos`, each once
(`ListInv`), and what lies between `pos` and its successor is not on any scanned bus
(`AfterFollows`), so that at the end the table is `Scanned`, and as long as its
cardinality. `ConfigInv` says what the registers of the function in work hold at every
moment, `ProbeInv` that the registers before `offset` are described truly, those after
it not yet, and that `offset` is never at the upper half of a 64-bit register. Below it
is arithmetic: of all ones a register of size s with `top` values keeps `top - s +
flags` (`OnesKept`), whose negation without the low four bits is s again if `top` is
`RegValues`, and too large by `RegValues - top` otherwise (`SizeFound`), in one register
(`SizeOf32`) and in two (`SizeOf64`), and writing the old value back restores it
(`WrittenBack`, `Halves`).

`LibcProofs`, the functions. `StrtolConverts`, `StringFunctionsRight` and
`QsortPermutes`, for texts, strings, buffers and arrays of any length, any width of `long`
and of a byte, words of any size. `LibcInv` is the call's type and the three
properties; since a call is one step, all is in the lemmas about what the functions
return. These functions are recursive, and the library's induction theorems cannot
be used here, because they are about an operator. `Induction`, `RecursionOnNat` (a
function whose values are defined by those before exists) and `Iteration` (a loop and
what it keeps) say the same of sets and functions, and are proved from the
well-foundedness of `<` on the naturals.

* `strtol`: `Worth` gives a number the sum of its digits' powers of the base, the loop
  multiplies and adds; `WorthIs` says that they agree. `OneMoreDigit` is the arithmetic
  of the limit: what passes the test fits, what does not is out of range or within
  base^2 of the end. Both signs are one argument about absolute values with the limits
  `LongMax` and `LongMax + 1`. `ConvertGives` is the loop and `LoneZero` the case in
  which the C standard and the code disagree about the base but not about the number;
  `StrtolStops` and `NoDigit` are the texts of which the code makes a 0.
* Strings and memory: each loop that looks has a lemma that it stops, and where. For
  `strstr` the invariant is that no occurrence lies before the search, as long as the
  first character does not come again in what is looked for (`SearchRight`);
  `FoundOccurs` needs no such condition. `StrncmpFirst` finds the character at which a
  comparison stops, `SignedOrder` the sign of its difference. For an overlapping
  `memmove`, `CopyDownRight` and `CopyUpRight` say that after every access what is done
  is the source as it was, and what is not yet read is untouched.
* `qsort`: `Shuffled` says that memory is another in a different order within an
  interval, by a bijection of the cells; swaps of overlapping elements are shuffles byte
  by byte, so this part holds for any size. For elements of one byte, `Split` is the
  invariant of the two indices in `partition`, including the case in which the first
  never moves; the pivot then is between what is not above it and what is
  (`PartitionRight`), and two sorted halves around it are sorted, because sorting only
  shuffles them (`HalvesSorted`). The rest is induction over the number of elements.

Assumed of the constants (`StrtolAssumption`, `StringFnsAssumption`, `LibcAssumption`):
digits count up to 35, `0`, `x` and `X` are among them, blanks, signs (`+` and `-`) and
terminators are not; a byte and a word are not empty; strings hold no terminator and fit
in the buffers; the elements of an array lie in its room.

Only model-checked: all liveness properties (`ChangeFinishes`, `PrintFinishes`,
`AllStart`, `FreeReturns`, `CalibrationEnds`) and the progress half of the lock's
refinement, because fairness and `ENABLED` are beyond the proof system. Every safety
invariant of a passing run is a theorem. Type correctness is
part of the inductive invariants, except for the number of characters left in
`Console`, which nothing else depends on.

## 6. Observations about the code

Finding with a run:

* `krealloc` in place leaves a heap that the kernel's own check rejects:
  shrinking before a free entry (547-560) keeps the block's old size, growing
  (599) counts only the last entry. Run `heap_realloc`.

Seen while modelling, and part of the models as they are in the code:

* `unmap_page_fix_size` (307, 321) calls `invalidate_tlbs_for` without the
  mutex its comment (186) demands. Harmless today: it runs before the others
  start.
* `kfree`'s trimming (673-687) may ask to free zero pages, may wrap `size` below
  zero, takes frames to be consecutive that need not be, and its unmapping
  loop never runs.
* `kfree` ignores the result of `free_phys_pages` (682): with the table full and its region
  too, the trimmed frames are lost; otherwise the first may become space for the table. A
  panic in `map_page` (503), or a fault in `free_phys_pages`, leaves `heap_mutex` locked,
  so that every later `kmalloc` waits for ever (`halts` in `KernelHeap`).
* A full table extended by a run of several pages maps one of them but counts
  all (121-122).
* The loops of `create_virt_mapping` and `delete_virt_mapping` handle one page
  too many (337, 346); `free_virt_pages` never returns with an empty table.
* `check_charpos` calls `fill_screen`, which locks `graphics_mutex` again; a
  FreeType error panics inside the mutex that the panic message needs.
* After 2^31 glyph lookups `gc_index` is no longer "always assigned in loop"
  (`graphics.c` 156): the priority is compared as an int, and eviction is no
  longer least recently used (`long` in `Console`).
* `start_apic_timer` (`apic.c` 115) loses the high bit of the divider for powers 5
  to 7: `&` binds weaker than `<<`. A start over a running timer can have the old
  expiry call the new callback.
* `\n`, `\f`, `\v` can move the cursor below the screen unchecked.
* A change of the page tables that overlaps the start of a processor may wait for an
  answer that was never asked for, or miss a processor. The boot processor makes such
  changes when printing how many have come (`kernel_start.c` 63-65) needs memory:
  `broadcast_ipi` looks at how many are working (`apic.c` 175), the wait looks again
  (204). It can then hang for ever, and with it everybody at the barrier (`Unanswered`
  in `SmpBoot`).

* Page tables for splitting are taken from the first memory listed by the firmware
  (220), which `init_mmap` may not have finished with: if fewer usable frames are listed
  before the descriptors or the firmware's page tables than tables are made, one of
  those is written over (`DescriptorsSurvive`). Neither the code nor UEFI has them
  listed by address.
* An AP image that `init_mmap` puts over the pages of the descriptors is
  unmapped with them (408), before `boot_aps` copies the code there.
* The loader maps up to two pages too many behind each segment
  (`boot.c` 133) and does not map a page twice: a segment that begins there would
  be hidden. The kernel is linked with `-n` into one loaded segment.
* `best_mode_num` is used uninitialised when nothing fits (`boot.c` 190); the tests
  around it keep the mode usable, but with garbage the loader may set another one that fits.
* `acpi_x_r_sdt` is used uninitialised when the first 2.0 pointer is missing or has a
  revision below 2 (`boot.c` 229-243): unless the stack happens to hold null there, what
  it holds is handed to the kernel as the root table (`sdt = "garbage"` at `exited`),
  and a machine with a 1.0 pointer only is among these.
* `find_devices` and the window take `end_bus_num` as exclusive (`pci.c` 181, 244): the
  last bus of a group is left out, and a group of one bus makes `init_pci` fail.
  After a failed growth `pci_devices` points to a freed block (190).
* Port ranges of less than 16 ports are described as 16 (`pci.c` 109). A port register
  may have its upper 16 bits hardwired to zero; `bar_size` (115-122) then takes them for
  part of the size (0xFFFF0020 for 32 ports).
* `strtol` refuses some numbers at the ends of the range (`stdlib.c` 62, 70), takes `0x`
  before any letter for a prefix (38) and does not know `0X` or a plus sign (31, 37). Of
  a text without digits it moves the end pointer behind blanks and sign, where C wants
  it at the start.
* `strchr` has no `str++` (`string.c` 77-81): it loops for ever on any string that is
  not empty and does not begin with the character. It and `strrchr` compare a `char`
  with an `int` and never find a negative one. `strcmp` and `strncmp` return the
  difference of signed characters (61, 67), C asks for unsigned ones. `strstr` (121) may
  skip an occurrence.
* `qsort` sorts elements of one byte only (`stdlib.c` 115).

Outside the models so far: the unchecked result of `alloc_interrupt_vector`,
`mmap_get_range`.

## 7. Not modelled, and why

* Contents of memory, pixels, fonts, text: no property depends on them.
* The three levels of page tables above the entry, whose entries `map_page`
  makes writable and restores: they are written only under `paging_mutex` and
  abstracted to whether a page is needed for one.
* Weak memory order: x86 keeps stores in order, and the flags of the boot
  protocol are written in the order the models use.
* The unit of the heap at its true page size of 256 units: the code compares
  sizes only with each other and with multiples of the header.
* `pci_config_read`, `pci_config_write`, `mmap_get_range`, `tls_done`: nothing
  calls them.
* What ACPI tables hold besides signatures and lengths, the texts and the
  framebuffer's format of the loader, the bytes of the kernel's file.
* `setjmp`, `longjmp`, `errno`, `rdtsc`: registers saved and restored, one variable, one
  instruction.
* What a zero-page `free_phys_pages` maps: the frame behind a stale entry is
  not tracked.
* GDT, exception stubs, set-up of constant descriptors, the build.

## 8. Plan

Done: all modules and proofs above.

Next, models:

1. `LockOrder`: all mutexes of the kernel with the nesting of section 1, the
   interrupt, and the extension path; nobody waits for ever without a panic.
2. `HeapPaging`: the heap's extension and trimming over `TlbShootdown`'s page
   tables and `PhysPages`, with the stale mappings behind the heap.
3. A start of the processors that includes the shootdown of `TlbShootdown`.

Next, proofs: the bounds on the ghosts that are left untyped.
