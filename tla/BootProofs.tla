----------------------------- MODULE BootProofs -----------------------------
(***************************************************************************)
(* Proofs about the loader and init_memory_management, one after the       *)
(* other, for any memory, any kernel, any placement of the firmware's own  *)
(* tables and any failures of its calls; and about the mappings that the   *)
(* boot processor makes once they are done.                                *)
(***************************************************************************)
EXTENDS BootChain, VirtMappings, MemoryMapProofs, FiniteSetTheorems

(* What the loader's proof needs: where efi_main is in the headers, ...    *)
Steps == {"file", "pml4", "segments", "direct", "acpi", "map", "exited", "failed"}
LoaderTyped ==
    /\ step \in Steps /\ mem \in [Frames -> MemTypes]
    /\ headers \in Seq(Headers)
    /\ k \in Nat \ {0} /\ k <= Len(headers) + 1
    /\ off \in Nat /\ last \in Int /\ last >= -1

SegmentsInOrder ==
    /\ step \in {"file", "pml4"} => k = 1 /\ off = 0
    /\ step = "segments" /\ off > 0 =>
         k <= Len(headers) /\ headers[k].load /\ off <= SegmentPages(headers[k])
    /\ step \in {"direct", "acpi", "map", "exited"} => k = Len(headers) + 1
    /\ DOMAIN given = {i \in Loaded : i < k \/ (i = k /\ off > 0)}

(* ... what it has told the firmware that the kernel owns, ...             *)
KernelOwned ==
    /\ step \in {"segments", "direct", "acpi", "map", "exited"} =>
         pml4 \in Frames /\ mem[pml4] = "kernel"
    /\ \A p \in DOMAIN entry : ~entry[p].page => entry[p].to \in Frames /\ mem[entry[p].to] = "kernel"
    /\ \A i \in DOMAIN given : given[i] \in Frames /\
         \A q \in 0 .. SegmentPages(headers[i]) - 1 :
           given[i] + q \in Frames /\ mem[given[i] + q] = "kernel"

(* ... and which pages of the headers can be read.                         *)
PathsInOrder ==
    \A p \in DOMAIN entry : /\ entry[p].page => \E i \in DirectMap : p = <<i>>
                            /\ Len(p) = 3 => \E page \in 0 .. last : p = PathOf(page)

PagesDone(i) == IF i < k THEN SegmentPages(headers[i]) ELSE off - 1
LastExplained ==
    last # -1 => \E n \in DOMAIN given : last < StartPage(headers[n]) + PagesDone(n)
PagesVisible ==
    \A i \in DOMAIN given : \A q \in 0 .. PagesDone(i) - 1 :
      \/ \E n \in Loaded : n < i /\ HiddenBy(n, StartPage(headers[i]) + q)
      \/ Reads(StartPage(headers[i]) + q, given[i] + q)

HandoverReady ==
    /\ step \in {"acpi", "map", "exited"} => mode.ok /\ mode.fits
    /\ step \in {"map", "exited"} =>
         /\ \A i \in First20(tables) :
              tables[i].revision >= 2 => sdt = IF tables[i].xsdt THEN "xsdt" ELSE "rsdt of 2.0"
         /\ sdt = "rsdt of 1.0" => \A i \in DOMAIN tables : tables[i].kind # "acpi20"

LoaderInv == /\ LoaderTyped /\ SegmentsInOrder /\ KernelOwned
             /\ PathsInOrder /\ LastExplained /\ PagesVisible /\ HandoverReady

(* What the kernel finds: descriptors of frames that the firmware has in   *)
(* that use, each frame in one of them, listed in any order.               *)
Apart(d) == \A i, l \in DOMAIN d : i # l => FramesOf(d[i]) \cap FramesOf(d[l]) = {}
True(d) == \A i \in DOMAIN d : \A f \in FramesOf(d[i]) : f \in Frames /\ mem[f] = d[i].type
DescInv ==
    /\ next <= Len(desc) + 1
    /\ IF at = "off" THEN next = 1 /\ wiped = {} /\ tab = << >> /\ apBase = Unset /\ ident = Frames
       ELSE step = "exited" /\ Apart(desc) /\ True(desc)
    /\ \E first \in own : own = Run(first, OwnPages)

(* Where the AP image is, and what has been recorded: it is taken in the   *)
(* order the descriptors list it in.                                       *)
ImageInv ==
    /\ apBase # Unset => \E i \in 1 .. next - 1 :
         desc[i].type \in Usable /\ Image \subseteq FramesOf(desc[i])
InOrder(tb, d) ==
    /\ \A i \in DOMAIN tb : tb[i].pages > 0
    /\ \A i, l \in DOMAIN tb : \A p \in PagesOf(tb[i]), q \in PagesOf(tb[l]) :
         i < l \/ (i = l /\ p < q) => ListedBefore(d, p, q)
TabInv == /\ InOrder(tab, desc)
          /\ Covered(tab) \cup wiped \subseteq Before(next - 1, Usable) \ ({0} \cup Image)
          /\ Covered(tab) \cap wiped = {}

(* The frames that have been, or are to be, taken out of the identity      *)
(* mapping because of the first n descriptors.                             *)
Gone(n) == Before(n, {"reserved"}) \cup (Before(n, Usable) \ ({0} \cup Image))
IdentInv ==
    /\ at = "read" => ident = Frames \ (Gone(next - 1) \ own)
    /\ at = "unmap" => /\ next > 1 /\ j <= cur.pages
                       /\ Gone(next - 1) = Gone(next - 2) \cup FramesOf(cur)
                       /\ ident = Frames \ ((Gone(next - 2) \cup Run(cur.base, j)) \ own)
    /\ at = "own" => /\ next = Len(desc) + 1 /\ j <= OwnPages
                     /\ ident = Frames \ ((Gone(Len(desc)) \ own) \cup Run(First(own), j))
    /\ at = "done" => ident = Frames \ (Gone(Len(desc)) \cup own)

WipedInOrder ==
    \A f \in wiped : \A g \in Before(Len(desc), Usable) \ ({0} \cup Image) :
      ListedBefore(desc, g, f) => g \in wiped

KernelInv == /\ FwTypeOK /\ DescInv /\ ImageInv /\ TabInv /\ TableExact /\ IdentInv /\ WipedInOrder

BootInv == LoaderInv /\ KernelInv

-----------------------------------------------------------------------------
(* Arithmetic and finite sets.                                             *)

(* A number is made of its quotient and its remainder, ...                 *)
LEMMA QuotientForm ==
  ASSUME NEW x \in Nat, NEW b \in Nat, b > 0,
         NEW q, q = x \div b, NEW r, r = x % b
  PROVE  x = b * q + r
OBVIOUS

(* ... which therefore determine it.                                       *)
LEMMA QuotientAndRest ==
  ASSUME NEW a \in Nat, NEW c \in Nat, NEW b \in Nat, b > 0,
         a \div b = c \div b, a % b = c % b
  PROVE  a = c
<1> DEFINE q == a \div b
           r == a % b
<1>1. q = a \div b /\ r = a % b /\ q = c \div b /\ r = c % b
  OBVIOUS
<1> HIDE DEF q, r
<1>2. a = b * q + r
  BY <1>1, QuotientForm
<1>3. c = b * q + r
  BY <1>1, QuotientForm
<1>4. QED
  BY <1>2, <1>3

(* The pages of the kernel have paths of their own.                        *)
LEMMA PathsDiffer ==
  ASSUME NEW p \in Nat, NEW q \in Nat, PathOf(p) = PathOf(q)
  PROVE  p = q
<1> DEFINE s == p \div TableSize
           t == q \div TableSize
<1>1. /\ TableSize \in Nat \ {0} /\ DirSize \in Nat \ {0} /\ DirectCount \in Nat
      /\ s \in Nat /\ t \in Nat
  BY LoaderSizesAssumption
<1>2. s \div DirSize \in Nat /\ t \div DirSize \in Nat
  BY <1>1
<1>3. /\ DirectCount + s \div DirSize = DirectCount + t \div DirSize
      /\ s % DirSize = t % DirSize /\ p % TableSize = q % TableSize
  BY DEF PathOf
<1> HIDE DEF s, t
<1>4. s \div DirSize = t \div DirSize
  BY <1>1, <1>2, <1>3
<1>5. s = t
  BY <1>1, <1>3, <1>4, QuotientAndRest
<1>6. QED
  BY <1>1, <1>3, <1>5, QuotientAndRest DEF s, t

(* The path of a page is not that of a 1 GiB page of the direct mapping.   *)
LEMMA PathShape ==
  ASSUME NEW page \in Nat
  PROVE  LET path == PathOf(page)
         IN  /\ path = <<path[1], path[2], path[3]>> /\ Len(path) = 3
             /\ path[1] \in Nat /\ path[1] >= DirectCount
<1>1. /\ page \div TableSize \in Nat /\ DirectCount \in Nat
      /\ (page \div TableSize) \div DirSize \in Nat
  BY LoaderSizesAssumption
<1>2. QED
  BY <1>1 DEF PathOf

(* A set of naturals that is not empty has a least element.                *)
LEMMA LeastExists ==
  ASSUME NEW S \in SUBSET Nat, S # {}
  PROVE  \E i \in S : \A x \in S : i <= x
<1>1. PICK i \in S : \A x \in S : ~(<<x, i>> \in OpToRel(<, Nat))
  BY NatLessThanWellFounded, WFMin
<1>2. \A x \in S : ~(x < i)
  BY <1>1, Zenon DEF OpToRel
<1>3. QED
  BY <1>2

(* A finite set of naturals that is not empty has a greatest element.      *)
LEMMA GreatestExists ==
  ASSUME NEW T \in SUBSET Nat, IsFiniteSet(T), T # {}
  PROVE  \E m \in T : \A x \in T : x <= m
<1> DEFINE Max(S) == \E m \in S : \A x \in S : x <= m
           Bad == {n \in Nat : \E S \in SUBSET T : S # {} /\ Cardinality(S) = n /\ ~Max(S)}
<1>1. SUFFICES ASSUME Bad # {} PROVE FALSE
  BY FS_CardinalityType
<1>2. PICK n \in Bad : \A b \in Bad : n <= b
  BY <1>1, LeastExists
<1>3. PICK S \in SUBSET T : S # {} /\ Cardinality(S) = n /\ ~Max(S)
  OBVIOUS
<1>4. PICK x \in S : TRUE
  BY <1>3
<1>5. /\ IsFiniteSet(S) /\ IsFiniteSet(S \ {x})
      /\ Cardinality(S \ {x}) = n - 1 /\ n \in Nat /\ n - 1 \in Nat
  <2>1. n \in Nat /\ IsFiniteSet(S)
    BY FS_Subset
  <2>2. Cardinality(S \ {x}) = n - 1 /\ IsFiniteSet(S \ {x})
    BY <1>3, <1>4, <2>1, FS_RemoveElement
  <2>3. n - 1 \in Nat
    BY <2>2, FS_CardinalityType
  <2>4. QED
    BY <2>1, <2>2, <2>3
<1>6. S \ {x} # {}
  BY <1>3, <1>4
<1>7. Max(S \ {x})
  BY <1>2, <1>5, <1>6
<1>8. PICK m \in S \ {x} : \A y \in S \ {x} : y <= m
  BY <1>7
<1>9. Max(S)
  <2>1. CASE x <= m
    BY <1>8, <2>1
  <2>2. CASE m <= x
    BY <1>8, <2>2, <1>4
  <2>3. QED
    BY <2>1, <2>2
<1>10. QED
  BY <1>3, <1>9

-----------------------------------------------------------------------------
(* AllocatePages.                                                          *)

(* What the firmware gives is free.                                        *)
LEMMA PlaceFree ==
  ASSUME NEW m, NEW n \in Nat, FreeRuns(m, n) # {}
  PROVE  Place(m, n) \in FreeRuns(m, n)
<1> DEFINE S == FreeRuns(m, n)
<1>1. S \in SUBSET Nat /\ IsFiniteSet(S)
  BY LoaderFramesAssumption, FS_Subset DEF FreeRuns
<1>2. CASE topDown
  <2>1. \E f \in S : \A g \in S : g <= f
    BY <1>1, GreatestExists
  <2>2. \E f \in S : \A g \in S : IF topDown THEN g <= f ELSE f <= g
    BY <2>1, <1>2
  <2>3. QED
    BY <2>2 DEF Place
<1>3. CASE ~topDown
  <2>1. \E f \in S : \A g \in S : f <= g
    BY <1>1, LeastExists
  <2>2. \E f \in S : \A g \in S : IF topDown THEN g <= f ELSE f <= g
    BY <2>1, <1>3
  <2>3. QED
    BY <2>2 DEF Place
<1>4. QED
  BY <1>2, <1>3

(* An allocation leaves alone what is in use.                              *)
LEMMA MarkedKeeps ==
  ASSUME NEW m \in [Frames -> MemTypes], NEW n \in Nat, FreeRuns(m, n) # {},
         NEW type \in MemTypes
  PROVE  LET f == Place(m, n)
             m2 == Marked(m, f, n, type)
         IN  /\ f \in Frames /\ m2 \in [Frames -> MemTypes]
             /\ \A g \in Frames : m[g] # "conventional" => m2[g] = m[g]
             /\ \A i \in 0 .. n - 1 : f + i \in Frames /\ m2[f + i] = type
<1> DEFINE f == Place(m, n)
           m2 == Marked(m, f, n, type)
<1>1. /\ f \in Frames /\ Frames \subseteq Nat
      /\ \A i \in 0 .. n - 1 : f + i \in Frames /\ m[f + i] = "conventional"
  BY PlaceFree, SameFrames, LoaderFramesAssumption DEF FreeRuns
<1> HIDE DEF f
<1>2. \A g \in Frames : m2[g] = IF g \in f .. f + n - 1 THEN type ELSE m[g]
  BY SameFrames DEF Marked
<1>3. m2 \in [Frames -> MemTypes]
  BY SameFrames DEF Marked
<1>4. ASSUME NEW g \in Frames, m[g] # "conventional" PROVE m2[g] = m[g]
  <2>1. SUFFICES ASSUME g \in f .. f + n - 1 PROVE FALSE
    BY <1>2
  <2>2. g - f \in 0 .. n - 1 /\ f + (g - f) = g
    BY <2>1, <1>1
  <2>3. QED
    BY <2>2, <1>1, <1>4
<1>5. ASSUME NEW i \in 0 .. n - 1 PROVE f + i \in Frames /\ m2[f + i] = type
  BY <1>1, <1>2
<1> HIDE DEF m2
<1>6. QED
  BY <1>1, <1>3, <1>4, <1>5 DEF f, m2

-----------------------------------------------------------------------------
(* add_page_mapping.                                                       *)

(* From m and e to m2 and e2: the kernel keeps what it has, and the        *)
(* entries that came are page tables, their paths in New.                  *)
Grown(m, e, m2, e2, New) ==
    /\ m2 \in [Frames -> MemTypes]
    /\ \A f \in Frames : m[f] = "kernel" => m2[f] = "kernel"
    /\ DOMAIN e \subseteq DOMAIN e2 /\ DOMAIN e2 \subseteq DOMAIN e \cup New
    /\ \A p \in DOMAIN e : e2[p] = e[p]
    /\ \A p \in DOMAIN e2 \ DOMAIN e :
         ~e2[p].page /\ e2[p].to \in Frames /\ m2[e2[p].to] = "kernel"

(* What was there before two steps is there after them.                    *)
LEMMA GrownTwice ==
  ASSUME NEW m, NEW e, NEW m2, NEW e2, NEW m3, NEW e3, NEW A, NEW B,
         Grown(m, e, m2, e2, A), Grown(m2, e2, m3, e3, B)
  PROVE  Grown(m, e, m3, e3, A \cup B)
<1>1. /\ m3 \in [Frames -> MemTypes]
      /\ \A f \in Frames : m[f] = "kernel" => m3[f] = "kernel"
  BY DEF Grown
<1>2. /\ DOMAIN e \subseteq DOMAIN e3 /\ DOMAIN e3 \subseteq DOMAIN e \cup (A \cup B)
      /\ \A p \in DOMAIN e : e3[p] = e[p]
  BY DEF Grown
<1>3. ASSUME NEW p \in DOMAIN e3 \ DOMAIN e
      PROVE  ~e3[p].page /\ e3[p].to \in Frames /\ m3[e3[p].to] = "kernel"
  <2>1. CASE p \in DOMAIN e2
    <3>1. e3[p] = e2[p] /\ ~e2[p].page /\ e2[p].to \in Frames /\ m2[e2[p].to] = "kernel"
      BY <2>1, <1>3, Zenon DEF Grown
    <3>2. m3[e2[p].to] = "kernel"
      BY <3>1, Zenon DEF Grown
    <3>3. QED
      BY <3>1, <3>2, Zenon
  <2>2. CASE p \notin DOMAIN e2
    BY <2>2, <1>3, Zenon DEF Grown
  <2>3. QED
    BY <2>1, <2>2
<1>4. QED
  BY <1>1, <1>2, <1>3, Zenon DEF Grown

(* One table on the way: it is there, or it is made.                       *)
LEMMA EnsureGrows ==
  ASSUME NEW ok \in BOOLEAN, NEW m \in [Frames -> MemTypes], NEW e, NEW path
  PROVE  \E ok2 \in BOOLEAN : \E m2, e2 :
           /\ Ensure([ok |-> ok, mem |-> m, entry |-> e], path)
                = [ok |-> ok2, mem |-> m2, entry |-> e2]
           /\ Grown(m, e, m2, e2, {path})
           /\ ok2 => ok /\ path \in DOMAIN e2
<1> DEFINE r == [ok |-> ok, mem |-> m, entry |-> e]
           s == Ensure(r, path)
<1>1. /\ r.ok = ok /\ r.mem = m /\ r.entry = e
      /\ Grown(m, e, m, e, {path})
  BY DEF Grown
<1>2. CASE ~ok \/ path \in DOMAIN e
  <2>1. s = r
    BY <1>1, <1>2 DEF Ensure
  <2>2. ok => path \in DOMAIN e
    BY <1>2
  <2>3. QED
    BY <1>1, <2>1, <2>2, Zenon
<1>3. CASE ok /\ path \notin DOMAIN e /\ FreeRuns(m, 1) = {}
  <2>1. s = [r EXCEPT !.ok = FALSE]
    BY <1>1, <1>3 DEF Ensure
  <2>2. s = [ok |-> FALSE, mem |-> m, entry |-> e]
    BY <2>1
  <2>3. QED
    BY <1>1, <2>2, Zenon
<1>4. CASE ok /\ path \notin DOMAIN e /\ FreeRuns(m, 1) # {}
  <2> DEFINE f == Place(m, 1)
             m2 == Marked(m, f, 1, "kernel")
             e2 == With(e, path, [to |-> f, page |-> FALSE])
  <2>1. s = [ok |-> TRUE, mem |-> m2, entry |-> e2]
    BY <1>1, <1>4 DEF Ensure, TableType
  <2>2. /\ f \in Frames /\ m2 \in [Frames -> MemTypes]
        /\ \A g \in Frames : m[g] = "kernel" => m2[g] = "kernel"
        /\ m2[f] = "kernel"
    <3>1. /\ "kernel" \in MemTypes /\ 1 \in Nat
          /\ 0 \in 0 .. 1 - 1 /\ \A g \in Frames : g + 0 = g
      BY SameFrames, LoaderFramesAssumption DEF MemTypes
    <3>2. /\ f \in Frames /\ m2 \in [Frames -> MemTypes]
          /\ \A g \in Frames : m[g] # "conventional" => m2[g] = m[g]
          /\ \A i \in 0 .. 1 - 1 : f + i \in Frames /\ m2[f + i] = "kernel"
      BY <1>4, <3>1, MarkedKeeps
    <3>3. QED
      BY <3>1, <3>2
  <2> HIDE DEF f, m2
  <2>3. /\ DOMAIN e2 = DOMAIN e \cup {path}
        /\ \A p \in DOMAIN e : e2[p] = e[p]
        /\ e2[path] = [to |-> f, page |-> FALSE]
    BY <1>4 DEF With
  <2> HIDE DEF e2
  <2>4. Grown(m, e, m2, e2, {path})
    BY <2>2, <2>3 DEF Grown
  <2>6. path \in DOMAIN e2
    BY <2>3
  <2>7. QED
    BY <1>4, <2>1, <2>4, <2>6, Zenon
<1>5. QED
  BY <1>2, <1>3, <1>4

(* The tables on the way to a page.                                        *)
TablesOf(path) == IF Len(path) = 1 THEN {<< >>}
                  ELSE {<< >>, <<path[1]>>, <<path[1], path[2]>>}

(* add_page_mapping leads through tables of the kernel to the frame.       *)
LEMMA MappingAdds ==
  ASSUME mem \in [Frames -> MemTypes], NEW path, NEW frame,
         add_page_mapping(path, frame).ok
  PROVE  LET s == add_page_mapping(path, frame)
         IN  \E e : /\ Grown(mem, entry, s.mem, e, TablesOf(path))
                    /\ TablesOf(path) \subseteq DOMAIN e
                    /\ s.entry = With(e, path, [to |-> frame, page |-> Len(path) < 3])
<1> DEFINE A == << >>
           B == <<path[1]>>
           C == <<path[1], path[2]>>
           r0 == [ok |-> TRUE, mem |-> mem, entry |-> entry]
           r1 == Ensure(r0, A)
           r2 == Ensure(r1, B)
           r3 == Ensure(r2, C)
           t == IF Len(path) = 1 THEN r1 ELSE r3
           x == [to |-> frame, page |-> Len(path) < 3]
<1>1. add_page_mapping(path, frame) =
        IF t.ok THEN [t EXCEPT !.entry = With(@, path, x)] ELSE t
  BY DEF add_page_mapping
<1>2. /\ r0 = [ok |-> TRUE, mem |-> mem, entry |-> entry] /\ TRUE \in BOOLEAN
      /\ r1 = Ensure(r0, A) /\ r2 = Ensure(r1, B) /\ r3 = Ensure(r2, C)
      /\ t = IF Len(path) = 1 THEN r1 ELSE r3
      /\ TablesOf(path) = IF Len(path) = 1 THEN {A} ELSE {A, B, C}
  BY DEF TablesOf
<1> HIDE DEF A, B, C, r0, r1, r2, r3, t, x
<1>3a. PICK ok1 \in BOOLEAN : \E m1, e1 :
        /\ r1 = [ok |-> ok1, mem |-> m1, entry |-> e1]
        /\ Grown(mem, entry, m1, e1, {A})
        /\ ok1 => TRUE /\ A \in DOMAIN e1
  <2>1. mem \in [Frames -> MemTypes] /\ TRUE \in BOOLEAN
    BY DEF Grown
  <2>2. \E x2 \in BOOLEAN : \E m, e :
          /\ Ensure([ok |-> TRUE, mem |-> mem, entry |-> entry], A)
               = [ok |-> x2, mem |-> m, entry |-> e]
          /\ Grown(mem, entry, m, e, {A})
          /\ x2 => TRUE /\ A \in DOMAIN e
    BY <2>1, EnsureGrows, Zenon
  <2>3. r1 = Ensure([ok |-> TRUE, mem |-> mem, entry |-> entry], A)
    BY <1>2, Zenon
  <2>4. QED
    BY <2>2, <2>3, Zenon
<1>3. PICK m1, e1 :
        /\ r1 = [ok |-> ok1, mem |-> m1, entry |-> e1]
        /\ Grown(mem, entry, m1, e1, {A})
        /\ ok1 => TRUE /\ A \in DOMAIN e1
  BY <1>3a, Zenon
<1>4a. PICK ok2 \in BOOLEAN : \E m2, e2 :
        /\ r2 = [ok |-> ok2, mem |-> m2, entry |-> e2]
        /\ Grown(m1, e1, m2, e2, {B})
        /\ ok2 => ok1 /\ B \in DOMAIN e2
  <2>1. m1 \in [Frames -> MemTypes] /\ ok1 \in BOOLEAN
    BY <1>3 DEF Grown
  <2>2. \E x2 \in BOOLEAN : \E m, e :
          /\ Ensure([ok |-> ok1, mem |-> m1, entry |-> e1], B)
               = [ok |-> x2, mem |-> m, entry |-> e]
          /\ Grown(m1, e1, m, e, {B})
          /\ x2 => ok1 /\ B \in DOMAIN e
    BY <2>1, EnsureGrows, Zenon
  <2>3. r2 = Ensure([ok |-> ok1, mem |-> m1, entry |-> e1], B)
    BY <1>2, <1>3, Zenon
  <2>4. QED
    BY <2>2, <2>3, Zenon
<1>4. PICK m2, e2 :
        /\ r2 = [ok |-> ok2, mem |-> m2, entry |-> e2]
        /\ Grown(m1, e1, m2, e2, {B})
        /\ ok2 => ok1 /\ B \in DOMAIN e2
  BY <1>4a, Zenon
<1>5a. PICK ok3 \in BOOLEAN : \E m3, e3 :
        /\ r3 = [ok |-> ok3, mem |-> m3, entry |-> e3]
        /\ Grown(m2, e2, m3, e3, {C})
        /\ ok3 => ok2 /\ C \in DOMAIN e3
  <2>1. m2 \in [Frames -> MemTypes] /\ ok2 \in BOOLEAN
    BY <1>4 DEF Grown
  <2>2. \E x2 \in BOOLEAN : \E m, e :
          /\ Ensure([ok |-> ok2, mem |-> m2, entry |-> e2], C)
               = [ok |-> x2, mem |-> m, entry |-> e]
          /\ Grown(m2, e2, m, e, {C})
          /\ x2 => ok2 /\ C \in DOMAIN e
    BY <2>1, EnsureGrows, Zenon
  <2>3. r3 = Ensure([ok |-> ok2, mem |-> m2, entry |-> e2], C)
    BY <1>2, <1>4, Zenon
  <2>4. QED
    BY <2>2, <2>3, Zenon
<1>5. PICK m3, e3 :
        /\ r3 = [ok |-> ok3, mem |-> m3, entry |-> e3]
        /\ Grown(m2, e2, m3, e3, {C})
        /\ ok3 => ok2 /\ C \in DOMAIN e3
  BY <1>5a, Zenon
<1>6a. PICK ok4 \in BOOLEAN : \E m4, e4 :
        /\ t = [ok |-> ok4, mem |-> m4, entry |-> e4]
        /\ Grown(mem, entry, m4, e4, TablesOf(path))
        /\ ok4 => TablesOf(path) \subseteq DOMAIN e4
  <2>1. CASE Len(path) = 1
    <3>1. t = r1 /\ TablesOf(path) = {A}
      BY <1>2, <2>1
    <3>2. ok1 => {A} \subseteq DOMAIN e1
      BY <1>3
    <3>3. QED
      BY <1>3, <3>1, <3>2, Zenon
  <2>2. CASE Len(path) # 1
    <3>1. Grown(mem, entry, m2, e2, {A} \cup {B})
      BY <1>3, <1>4, GrownTwice
    <3>2. Grown(mem, entry, m3, e3, ({A} \cup {B}) \cup {C})
      BY <1>5, <3>1, GrownTwice
    <3>3. /\ t = r3 /\ TablesOf(path) = {A, B, C}
          /\ ({A} \cup {B}) \cup {C} = {A, B, C}
      BY <1>2, <2>2
    <3>4. DOMAIN e1 \subseteq DOMAIN e2 /\ DOMAIN e2 \subseteq DOMAIN e3
      BY <1>4, <1>5 DEF Grown
    <3>5. ok3 => {A, B, C} \subseteq DOMAIN e3
      BY <1>3, <1>4, <1>5, <3>4
    <3>6. Grown(mem, entry, m3, e3, {A, B, C})
      BY <3>2, <3>3
    <3>7. t = [ok |-> ok3, mem |-> m3, entry |-> e3]
      BY <1>5, <3>3
    <3>8. Grown(mem, entry, m3, e3, TablesOf(path)) /\ (ok3 => TablesOf(path) \subseteq DOMAIN e3)
      BY <3>3, <3>5, <3>6
    <3>9. ok3 \in BOOLEAN
      BY <1>5
    <3>10. QED
      BY <3>7, <3>8, <3>9, Zenon
  <2>3. QED
    BY <2>1, <2>2
<1>6. PICK m4, e4 :
        /\ t = [ok |-> ok4, mem |-> m4, entry |-> e4]
        /\ Grown(mem, entry, m4, e4, TablesOf(path))
        /\ ok4 => TablesOf(path) \subseteq DOMAIN e4
  BY <1>6a, Zenon
<1>7. ok4 = TRUE
  <2>1. SUFFICES ASSUME ok4 = FALSE PROVE FALSE
    OBVIOUS
  <2>2. t.ok = FALSE
    BY <1>6, <2>1
  <2>3. add_page_mapping(path, frame) = t
    BY <1>1, <2>2
  <2>4. QED
    BY <2>2, <2>3
<1>8. add_page_mapping(path, frame) = [ok |-> TRUE, mem |-> m4, entry |-> With(e4, path, x)]
  BY <1>1, <1>6, <1>7
<1>9. /\ add_page_mapping(path, frame).mem = m4
      /\ add_page_mapping(path, frame).entry = With(e4, path, x)
  BY <1>8
<1>10. QED
  BY <1>6, <1>7, <1>9, Zenon DEF x

-----------------------------------------------------------------------------
(* The pages of a header.                                                  *)
LEMMA HeaderPages ==
  ASSUME NEW h \in Headers
  PROVE  /\ SegmentPages(h) \in Nat /\ SegmentPages(h) > 1 /\ StartPage(h) \in Nat
         /\ Content(h) \subseteq StartPage(h) .. StartPage(h) + SegmentPages(h) - 1
<1> DEFINE P == PageUnits
           v == h.vaddr
           m == h.memsz
<1>1. P \in Nat /\ P > 0 /\ v \in Nat /\ m \in Nat
  BY LoaderSizesAssumption DEF Headers
<1>2. /\ SegmentPages(h) = m \div P + 2 /\ StartPage(h) = v \div P
      /\ m \div P \in Nat /\ v \div P \in Nat
      /\ Content(h) = {u \div P : u \in v .. v + m - 1}
  BY <1>1 DEF SegmentPages, StartPage, Content
<1> HIDE DEF P, v, m
<1>3. ASSUME NEW u \in v .. v + m - 1
      PROVE  u \div P \in v \div P .. v \div P + (m \div P + 2) - 1
  <2> DEFINE a == u \div P
             b == u % P
             q == v \div P
             r == v % P
             s == m \div P
             t == m % P
  <2>1. /\ a = u \div P /\ b = u % P /\ q = v \div P /\ r = v % P /\ s = m \div P /\ t = m % P
        /\ u \in Nat /\ v <= u /\ u < v + m
    BY <1>1
  <2>2. /\ a \in Nat /\ q \in Nat /\ s \in Nat
        /\ b \in 0 .. P - 1 /\ r \in 0 .. P - 1 /\ t \in 0 .. P - 1
    BY <1>1, <2>1
  <2> HIDE DEF a, b, q, r, s, t
  <2>3. u = P * a + b /\ v = P * q + r /\ m = P * s + t
    BY <1>1, <2>1, QuotientForm
  <2>4. ASSUME NEW i \in Nat, NEW n \in Nat, i < n PROVE P * i + P <= P * n
    <3>1. PICK d \in Nat : n = i + 1 + d
      <4>1. n - i - 1 \in Nat /\ n = i + 1 + (n - i - 1)
        BY <2>4
      <4>2. QED
        BY <4>1
    <3>2. P * n = P * i + P + P * d /\ P * d \in Nat
      BY <1>1, <3>1
    <3>3. P * i \in Nat /\ P * n \in Nat
      BY <1>1
    <3>4. QED
      BY <1>1, <3>2, <3>3
  <2>5. P * a \in Nat /\ P * q \in Nat /\ P * s \in Nat
    BY <1>1, <2>2
  <2>6. q <= a
    <3>1. SUFFICES ASSUME a < q PROVE FALSE
      BY <2>2
    <3>2. P * a + P <= P * q
      BY <2>2, <2>4, <3>1
    <3>3. QED
      BY <1>1, <2>1, <2>2, <2>3, <2>5, <3>2
  <2>7. a <= q + s + 1
    <3>1. SUFFICES ASSUME q + s + 1 < a PROVE FALSE
      BY <2>2
    <3>2. P * (q + s + 1) + P <= P * a
      BY <2>2, <2>4, <3>1
    <3>3. P * (q + s + 1) = P * q + P * s + P
      BY <1>1, <2>2
    <3>4. QED
      BY <1>1, <2>1, <2>2, <2>3, <2>5, <3>2, <3>3
  <2>8. QED
    BY <2>1, <2>2, <2>6, <2>7
<1>4. QED
  BY <1>2, <1>3

(* A page that reads its frame still does if only paths of the direct      *)
(* mapping have changed.                                                   *)
EntriesKept ==
    \A p \in DOMAIN entry : (\A i \in DirectMap : p # <<i>>) =>
      p \in DOMAIN entry' /\ entry'[p] = entry[p]

(* A page that has its frame keeps it then.                                *)
LEMMA ReadsStay ==
  ASSUME NEW page \in Nat, NEW frame, Reads(page, frame), EntriesKept
  PROVE  Reads(page, frame)'
<1> DEFINE path == PathOf(page)
           x == path[1]
           y == path[2]
           z == path[3]
<1>1. path = <<x, y, z>> /\ x \in Nat /\ x >= DirectCount /\ DirectCount \in Nat
  BY PathShape, LoaderSizesAssumption
<1> HIDE DEF x, y, z
<1>2. /\ << >> \in DOMAIN entry /\ ~entry[<< >>].page
      /\ <<x>> \in DOMAIN entry /\ ~entry[<<x>>].page
      /\ <<x, y>> \in DOMAIN entry /\ ~entry[<<x, y>>].page
      /\ path \in DOMAIN entry /\ entry[path].to = frame
  BY Zenon DEF Reads, Table, x, y
<1>3. \A i \in DirectMap : << >> # <<i>> /\ <<x>> # <<i>> /\ <<x, y>> # <<i>> /\ path # <<i>>
  BY <1>1 DEF DirectMap
<1>4. /\ << >> \in DOMAIN entry' /\ entry'[<< >>] = entry[<< >>]
      /\ <<x>> \in DOMAIN entry' /\ entry'[<<x>>] = entry[<<x>>]
      /\ <<x, y>> \in DOMAIN entry' /\ entry'[<<x, y>>] = entry[<<x, y>>]
      /\ path \in DOMAIN entry' /\ entry'[path] = entry[path]
  BY <1>2, <1>3, Zenon DEF EntriesKept
<1>5. QED
  BY <1>2, <1>4, Zenon DEF Reads, Table, x, y

(* While the headers in work stay what they are, so does what can be read. *)
LEMMA VisibleStays ==
  ASSUME LoaderInv, EntriesKept, headers' = headers, given' = given, k' = k, last' = last,
         off' = off \/ k > Len(headers)
  PROVE  PagesVisible' /\ LastExplained'
<1>1. /\ \A i \in DOMAIN given : i \in DOMAIN headers /\ headers[i] \in Headers
      /\ Len(headers) \in Nat /\ DOMAIN headers = 1 .. Len(headers) /\ k \in Nat
      /\ Loaded' = Loaded
  BY DEF LoaderInv, SegmentsInOrder, LoaderTyped, Loaded
<1>2. \A i \in DOMAIN given : PagesDone(i)' = PagesDone(i)
  <2> TAKE i \in DOMAIN given
  <2>1. off' = off \/ i < k
    BY <1>1
  <2>2. QED
    BY <2>1 DEF PagesDone
<1>3. PagesVisible'
  <2> SUFFICES ASSUME NEW i \in DOMAIN given, NEW q \in 0 .. PagesDone(i) - 1
               PROVE  \/ \E n \in Loaded : n < i /\ HiddenBy(n, StartPage(headers[i]) + q)
                      \/ Reads(StartPage(headers[i]) + q, given[i] + q)'
    <3>1. \A n, page : HiddenBy(n, page)' = HiddenBy(n, page)
      BY DEF HiddenBy
    <3>2. QED
      BY <1>1, <1>2, <3>1 DEF PagesVisible
  <2>1. \/ \E n \in Loaded : n < i /\ HiddenBy(n, StartPage(headers[i]) + q)
        \/ Reads(StartPage(headers[i]) + q, given[i] + q)
    BY Zenon DEF LoaderInv, PagesVisible
  <2>2. StartPage(headers[i]) + q \in Nat
    BY <1>1, HeaderPages
  <2>3. QED
    BY <2>1, <2>2, ReadsStay
<1>4. LastExplained'
  BY <1>2 DEF LoaderInv, LastExplained
<1>5. QED
  BY <1>3, <1>4

(* Nothing that the kernel owns is given to somebody else.                 *)
EntriesOwned == \A p \in DOMAIN entry :
                  ~entry[p].page => entry[p].to \in Frames /\ mem[entry[p].to] = "kernel"
GivenOwned == \A i \in DOMAIN given : given[i] \in Frames /\
                \A q \in 0 .. SegmentPages(headers[i]) - 1 :
                  given[i] + q \in Frames /\ mem[given[i] + q] = "kernel"
KernelKept == /\ mem' \in [Frames -> MemTypes]
              /\ \A f \in Frames : mem[f] = "kernel" => mem'[f] = "kernel"

(* While the kernel keeps what is marked its own, it owns what it did.     *)
LEMMA OwnedStays ==
  ASSUME KernelOwned, KernelKept, headers' = headers, given' = given
  PROVE  /\ entry' = entry => EntriesOwned'
         /\ GivenOwned'
<1>1. entry' = entry => EntriesOwned'
  BY DEF KernelOwned, KernelKept, EntriesOwned
<1>2. GivenOwned'
  <2>1. \A i : SegmentPages(headers[i])' = SegmentPages(headers[i])
    BY DEF SegmentPages
  <2>2. QED
    BY <2>1 DEF KernelOwned, KernelKept, GivenOwned
<1>3. QED
  BY <1>1, <1>2

(* A step that only marks frames the firmware had free, and goes on.       *)
LEMMA EarlyKeeps ==
  ASSUME LoaderInv, KernelKept,
         UNCHANGED <<topDown, entry, headers, k, off, last, given>>,
         step' \in Steps,
         step' \in {"file", "pml4"} => k = 1 /\ off = 0,
         step' = "segments" => step \in {"file", "pml4", "segments"},
         step' \in {"direct", "acpi", "map", "exited"} => k = Len(headers) + 1,
         step' \in {"segments", "direct", "acpi", "map", "exited"} =>
           pml4' \in Frames /\ mem'[pml4'] = "kernel",
         HandoverReady'
  PROVE  LoaderInv'
<1>1. LoaderTyped'
  BY DEF LoaderInv, LoaderTyped, KernelKept
<1>2. SegmentsInOrder'
  <2>1. step' = "segments" /\ off > 0 =>
          k <= Len(headers) /\ headers[k].load /\ off <= SegmentPages(headers[k])
    BY DEF LoaderInv, SegmentsInOrder
  <2>2. DOMAIN given = {i \in Loaded : i < k \/ (i = k /\ off > 0)}
    BY DEF LoaderInv, SegmentsInOrder
  <2>3. Loaded' = Loaded /\ SegmentPages(headers[k])' = SegmentPages(headers[k])
    BY DEF Loaded, SegmentPages
  <2>4. QED
    BY <2>1, <2>2, <2>3 DEF SegmentsInOrder
<1>3. KernelOwned'
  BY OwnedStays DEF LoaderInv, KernelOwned, EntriesOwned, GivenOwned
<1>4. PathsInOrder'
  BY DEF LoaderInv, PathsInOrder
<1>5. PagesVisible' /\ LastExplained'
  BY VisibleStays DEF EntriesKept
<1>6. QED
  BY <1>1, <1>2, <1>3, <1>4, <1>5 DEF LoaderInv

(* A failure changes nothing but where efi_main is.                        *)
LEMMA FailKeeps ==
  ASSUME LoaderInv, Fail
  PROVE  LoaderInv'
<1>1. KernelKept
  BY DEF Fail, KernelKept, LoaderInv, LoaderTyped
<1>2. HandoverReady'
  BY DEF Fail, HandoverReady
<1>3. QED
  BY <1>1, <1>2, EarlyKeeps DEF Fail, Steps

(* The buffer for the kernel's file.                                      *)
LEMMA ReadKernelFileKeeps ==
  ASSUME LoaderInv, ReadKernelFile
  PROVE  LoaderInv'
<1>1. SUFFICES ASSUME FreeRuns(mem, FilePages) # {},
                      mem' = Marked(mem, Place(mem, FilePages), FilePages, "loader"),
                      step = "file", step' = "pml4",
                      UNCHANGED <<topDown, pml4, entry, headers, k, off, last, given, mode, sdt, tables>>
               PROVE  LoaderInv'
  BY FailKeeps DEF ReadKernelFile
<1>2. KernelKept
  <2>1. "loader" \in MemTypes /\ mem \in [Frames -> MemTypes] /\ FilePages \in Nat
    BY LoaderSizesAssumption DEF MemTypes, LoaderInv, LoaderTyped
  <2>2. QED
    BY <1>1, <2>1, MarkedKeeps DEF KernelKept
<1>3. HandoverReady'
  BY <1>1 DEF HandoverReady
<1>4. k = 1 /\ off = 0
  BY <1>1 DEF LoaderInv, SegmentsInOrder
<1>5. QED
  BY <1>1, <1>2, <1>3, <1>4, EarlyKeeps DEF Steps

(* The PML4 is the first thing the kernel owns.                            *)
LEMMA CopyPml4Keeps ==
  ASSUME LoaderInv, CopyPml4
  PROVE  LoaderInv'
<1>1. SUFFICES ASSUME FreeRuns(mem, 1) # {},
                      pml4' = Place(mem, 1),
                      mem' = Marked(mem, pml4', 1, "kernel"),
                      step = "pml4", step' = "segments",
                      UNCHANGED <<topDown, entry, headers, k, off, last, given, mode, sdt, tables>>
               PROVE  LoaderInv'
  BY FailKeeps DEF CopyPml4
<1>2. KernelKept /\ pml4' \in Frames /\ mem'[pml4'] = "kernel"
  <2>1. /\ "kernel" \in MemTypes /\ mem \in [Frames -> MemTypes] /\ 1 \in Nat
        /\ 0 \in 0 .. 1 - 1 /\ \A f \in Frames : f + 0 = f
    BY SameFrames, LoaderFramesAssumption DEF MemTypes, LoaderInv, LoaderTyped
  <2>2. /\ Place(mem, 1) \in Frames /\ mem' \in [Frames -> MemTypes]
        /\ \A g \in Frames : mem[g] # "conventional" => mem'[g] = mem[g]
        /\ \A i \in 0 .. 1 - 1 : mem'[Place(mem, 1) + i] = "kernel"
    BY <1>1, <2>1, MarkedKeeps
  <2>3. QED
    BY <1>1, <2>1, <2>2 DEF KernelKept
<1>3. HandoverReady'
  BY <1>1 DEF HandoverReady
<1>4. QED
  BY <1>1, <1>2, <1>3, EarlyKeeps DEF Steps

(* A header is given pages of its own; none of them is mapped yet.         *)
LEMMA NextHeaderKeeps ==
  ASSUME LoaderInv, NextHeader
  PROVE  LoaderInv'
<1> DEFINE h == headers[k]
           n == SegmentPages(h)
           f == Place(mem, n)
<1>1. /\ step = "segments" /\ k <= Len(headers) /\ off = 0
      /\ k \in Nat /\ Len(headers) \in Nat /\ DOMAIN headers = 1 .. Len(headers)
      /\ k \in DOMAIN headers /\ h \in Headers
      /\ DOMAIN given = {i \in Loaded : i < k}
      /\ \A i \in Loaded : i \in 1 .. Len(headers) /\ headers[i] \in Headers
  BY DEF NextHeader, LoaderInv, LoaderTyped, SegmentsInOrder, Loaded
<1>2. n \in Nat /\ n > 1 /\ \A i \in Loaded : SegmentPages(headers[i]) \in Nat
  BY <1>1, HeaderPages
<1>3. CASE /\ ~h.load /\ k' = k + 1
           /\ UNCHANGED <<step, mem, topDown, pml4, entry, headers, off, last, given, mode, sdt, tables>>
  <2>1. k \notin Loaded /\ Loaded' = Loaded
    BY <1>1, <1>3 DEF Loaded
  <2>2. \A i \in DOMAIN given : i < k /\ i < k' /\ PagesDone(i)' = PagesDone(i)
    BY <1>1, <1>3 DEF PagesDone, SegmentPages
  <2>3. LoaderTyped'
    BY <1>1, <1>3 DEF LoaderInv, LoaderTyped
  <2>4. SegmentsInOrder'
    <3>1. {i \in Loaded : i < k} = {i \in Loaded : i < k + 1 \/ (i = k + 1 /\ off > 0)}
      BY <1>1, <2>1
    <3>2. DOMAIN given' = {i \in Loaded' : i < k' \/ (i = k' /\ off' > 0)}
      BY <1>1, <1>3, <2>1, <3>1
    <3>3. QED
      BY <1>1, <1>3, <3>2 DEF SegmentsInOrder
  <2>5. KernelOwned'
    BY <1>3, OwnedStays DEF LoaderInv, LoaderTyped, KernelKept, KernelOwned, EntriesOwned, GivenOwned
  <2>6. PathsInOrder'
    BY <1>3 DEF LoaderInv, PathsInOrder
  <2>7. LastExplained'
    BY <1>3, <2>2 DEF LoaderInv, LastExplained, StartPage
  <2>8. PagesVisible'
    <3>1. \A page, frame : Reads(page, frame)' = Reads(page, frame)
      BY <1>3 DEF Reads, Table
    <3>2. \A i, page : HiddenBy(i, page)' = HiddenBy(i, page)
      BY <1>3 DEF HiddenBy, StartPage, SegmentPages
    <3>3. \A i : StartPage(headers[i])' = StartPage(headers[i])
      BY <1>3 DEF StartPage
    <3>4. SUFFICES ASSUME NEW i \in DOMAIN given, NEW q \in 0 .. PagesDone(i) - 1
                   PROVE  \/ \E m \in Loaded : m < i /\ HiddenBy(m, StartPage(headers[i]) + q)
                          \/ Reads(StartPage(headers[i]) + q, given[i] + q)
      BY <1>3, <2>1, <2>2, <3>1, <3>2, <3>3 DEF PagesVisible
    <3>5. QED
      BY Zenon DEF LoaderInv, PagesVisible
  <2>9. HandoverReady'
    BY <1>3 DEF LoaderInv, HandoverReady
  <2>10. QED
    BY <2>3, <2>4, <2>5, <2>6, <2>7, <2>8, <2>9 DEF LoaderInv
<1>4. CASE /\ h.load /\ FreeRuns(mem, n) # {}
           /\ given' = With(given, k, f)
           /\ mem' = Marked(mem, given'[k], n, "kernel")
           /\ off' = 1
           /\ UNCHANGED <<step, topDown, pml4, entry, headers, k, last, mode, sdt, tables>>
  <2>1. k \in Loaded /\ Loaded' = Loaded
    BY <1>1, <1>4 DEF Loaded
  <2>2. /\ DOMAIN given' = DOMAIN given \cup {k} /\ given'[k] = f
        /\ k \notin DOMAIN given
        /\ \A i \in DOMAIN given : given'[i] = given[i]
    BY <1>1, <1>4 DEF With
  <2>3. /\ f \in Frames /\ KernelKept
        /\ \A q \in 0 .. n - 1 : f + q \in Frames /\ mem'[f + q] = "kernel"
    <3>1. "kernel" \in MemTypes /\ mem \in [Frames -> MemTypes] /\ mem' = Marked(mem, f, n, "kernel")
      BY <1>4, <2>2 DEF MemTypes, LoaderInv, LoaderTyped
    <3>2. /\ f \in Frames /\ mem' \in [Frames -> MemTypes]
          /\ \A g \in Frames : mem[g] # "conventional" => mem'[g] = mem[g]
          /\ \A i \in 0 .. n - 1 : f + i \in Frames /\ mem'[f + i] = "kernel"
      <4>1. FreeRuns(mem, n) # {} /\ n \in Nat /\ f = Place(mem, n)
        BY <1>2, <1>4
      <4> HIDE DEF n, f
      <4> DEFINE m2 == Marked(mem, Place(mem, n), n, "kernel")
      <4>2. /\ Place(mem, n) \in Frames /\ m2 \in [Frames -> MemTypes]
            /\ \A g \in Frames : mem[g] # "conventional" => m2[g] = mem[g]
            /\ \A i \in 0 .. n - 1 : Place(mem, n) + i \in Frames /\ m2[Place(mem, n) + i] = "kernel"
        BY <3>1, <4>1, MarkedKeeps
      <4>3. mem' = m2
        BY <3>1, <4>1
      <4> HIDE DEF m2
      <4>4. QED
        BY <4>1, <4>2, <4>3
    <3>3. QED
      BY <3>2 DEF KernelKept
  <2> HIDE DEF f
  <2>4. /\ \A i : SegmentPages(headers[i])' = SegmentPages(headers[i])
        /\ \A i : StartPage(headers[i])' = StartPage(headers[i])
    BY <1>4 DEF SegmentPages, StartPage
  <2>5. /\ \A i \in DOMAIN given : PagesDone(i)' = PagesDone(i)
        /\ PagesDone(k)' = 0
    BY <1>1, <1>4, <2>4 DEF PagesDone
  <2>6. LoaderTyped'
    BY <1>4, <2>3 DEF LoaderInv, LoaderTyped, KernelKept
  <2>7. SegmentsInOrder'
    <3>1. DOMAIN given' = {i \in Loaded : i < k \/ (i = k /\ off' > 0)}
      BY <1>1, <1>4, <2>1, <2>2
    <3>2. DOMAIN given' = {i \in Loaded' : i < k' \/ (i = k' /\ off' > 0)}
      BY <1>4, <2>1, <3>1
    <3>3. 1 <= SegmentPages(headers[k])'
      BY <1>2, <1>4, <2>4
    <3>4. step' = "segments" /\ off' = 1 /\ k' <= Len(headers') /\ headers'[k'].load
      BY <1>1, <1>4
    <3>5. off' <= SegmentPages(headers'[k'])
      BY <3>3, <3>4, <1>4
    <3>6. QED
      BY <3>2, <3>4, <3>5 DEF SegmentsInOrder
  <2>8. KernelOwned'
    <3>1. pml4' \in Frames /\ mem'[pml4'] = "kernel"
      BY <1>1, <1>4, <2>3 DEF LoaderInv, KernelOwned, KernelKept
    <3>2. EntriesOwned'
      BY <1>4, <2>3 DEF LoaderInv, KernelOwned, KernelKept, EntriesOwned
    <3>3. ASSUME NEW i \in DOMAIN given'
          PROVE  /\ given'[i] \in Frames
                 /\ \A q \in 0 .. SegmentPages(headers[i]) - 1 :
                      given'[i] + q \in Frames /\ mem'[given'[i] + q] = "kernel"
      <4>1. CASE i = k
        BY <2>2, <2>3, <4>1
      <4>2. CASE i \in DOMAIN given
        BY <2>2, <2>3, <4>2 DEF LoaderInv, KernelOwned, KernelKept
      <4>3. QED
        BY <2>2, <4>1, <4>2
    <3>4. QED
      BY <2>4, <3>1, <3>2, <3>3 DEF KernelOwned, EntriesOwned
  <2>9. PathsInOrder'
    BY <1>4 DEF LoaderInv, PathsInOrder
  <2>10. LastExplained'
    BY <1>4, <2>2, <2>4, <2>5 DEF LoaderInv, LastExplained
  <2>11. PagesVisible'
    <3>1. \A page, frame : Reads(page, frame)' = Reads(page, frame)
      BY <1>4 DEF Reads, Table
    <3>2. \A i, page : HiddenBy(i, page)' = HiddenBy(i, page)
      BY <1>4 DEF HiddenBy, StartPage, SegmentPages
    <3>3. 0 .. 0 - 1 = {}
      OBVIOUS
    <3>4. SUFFICES ASSUME NEW i \in DOMAIN given, NEW q \in 0 .. PagesDone(i) - 1
                   PROVE  \/ \E m \in Loaded : m < i /\ HiddenBy(m, StartPage(headers[i]) + q)
                          \/ Reads(StartPage(headers[i]) + q, given[i] + q)
      BY <1>4, <2>1, <2>2, <2>4, <2>5, <3>1, <3>2, <3>3 DEF PagesVisible
    <3>5. QED
      BY Zenon DEF LoaderInv, PagesVisible
  <2>12. HandoverReady'
    BY <1>4 DEF LoaderInv, HandoverReady
  <2>13. QED
    BY <2>6, <2>7, <2>8, <2>9, <2>10, <2>11, <2>12 DEF LoaderInv
<1>5. QED
  BY <1>3, <1>4, FailKeeps DEF NextHeader

(* No header is left.                                                      *)
LEMMA EndSegmentsKeeps ==
  ASSUME LoaderInv, EndSegments
  PROVE  LoaderInv'
<1>1. /\ step = "segments" /\ k > Len(headers) /\ step' = "direct" /\ off' = 0
      /\ UNCHANGED <<mem, topDown, pml4, entry, headers, k, last, given, mode, sdt, tables>>
      /\ k = Len(headers) + 1 /\ Len(headers) \in Nat /\ DOMAIN headers = 1 .. Len(headers)
  BY DEF EndSegments, LoaderInv, LoaderTyped
<1>2. PagesVisible' /\ LastExplained'
  BY <1>1, VisibleStays DEF EntriesKept
<1>3. LoaderTyped'
  BY <1>1 DEF LoaderInv, LoaderTyped, Steps
<1>4. SegmentsInOrder'
  <2>1. Loaded' = Loaded /\ k \notin Loaded
    BY <1>1 DEF Loaded
  <2>2. DOMAIN given = {i \in Loaded : i < k \/ (i = k /\ off > 0)}
    BY DEF LoaderInv, SegmentsInOrder
  <2>3. QED
    BY <1>1, <2>1, <2>2 DEF SegmentsInOrder
<1>5. KernelOwned'
  BY <1>1, OwnedStays DEF LoaderInv, LoaderTyped, KernelKept, KernelOwned, EntriesOwned, GivenOwned
<1>6. PathsInOrder'
  BY <1>1 DEF LoaderInv, PathsInOrder
<1>7. HandoverReady'
  BY <1>1 DEF HandoverReady
<1>8. QED
  BY <1>2, <1>3, <1>4, <1>5, <1>6, <1>7 DEF LoaderInv

(* The direct mapping gets 1 GiB pages in entries of its own.              *)
LEMMA MapDirectKeeps ==
  ASSUME LoaderInv, MapDirect
  PROVE  LoaderInv'
<1> DEFINE s == add_page_mapping(<<off>>, off)
<1>1. SUFFICES ASSUME s.ok, mem' = s.mem, entry' = s.entry, off' = off + 1, step = "direct",
                      off \in DirectMap,
                      UNCHANGED <<step, topDown, pml4, headers, k, last, given, mode, sdt, tables>>
               PROVE  LoaderInv'
  BY FailKeeps DEF MapDirect
<1>2. /\ mem \in [Frames -> MemTypes] /\ off \in Nat /\ k \in Nat
      /\ k = Len(headers) + 1 /\ Len(headers) \in Nat /\ DOMAIN headers = 1 .. Len(headers)
  BY <1>1 DEF LoaderInv, LoaderTyped, SegmentsInOrder
<1>3. Len(<<off>>) = 1 /\ << >> # <<off>> /\ TablesOf(<<off>>) = {<< >>}
  BY DEF TablesOf
<1>4. PICK e : /\ Grown(mem, entry, mem', e, {<< >>})
               /\ << >> \in DOMAIN e
               /\ entry' = With(e, <<off>>, [to |-> off, page |-> TRUE])
  <2>1. \E e : /\ Grown(mem, entry, s.mem, e, TablesOf(<<off>>))
               /\ TablesOf(<<off>>) \subseteq DOMAIN e
               /\ s.entry = With(e, <<off>>, [to |-> off, page |-> Len(<<off>>) < 3])
    BY <1>1, <1>2, MappingAdds
  <2>2. (Len(<<off>>) < 3) = TRUE
    BY <1>3
  <2> HIDE DEF s
  <2>3. QED
    BY <1>1, <1>3, <2>1, <2>2
<1>5. /\ DOMAIN entry' = DOMAIN e \cup {<<off>>}
      /\ entry'[<<off>>] = [to |-> off, page |-> TRUE]
      /\ \A p \in DOMAIN e : p # <<off>> => entry'[p] = e[p]
  BY <1>4 DEF With
<1>6. entry'[<<off>>].page = TRUE
  BY <1>5
<1>7. KernelKept
  BY <1>4 DEF Grown, KernelKept
<1>8. EntriesKept
  <2>1. \A p \in DOMAIN entry : p \in DOMAIN e /\ e[p] = entry[p]
    BY <1>4 DEF Grown
  <2>2. QED
    BY <1>1, <1>5, <2>1 DEF EntriesKept
<1>9. ASSUME NEW p \in DOMAIN entry'
      PROVE  \/ p = <<off>>
             \/ p \in DOMAIN entry /\ entry'[p] = entry[p]
             \/ p = << >> /\ ~entry'[p].page /\ entry'[p].to \in Frames /\ mem'[entry'[p].to] = "kernel"
  <2> SUFFICES ASSUME p # <<off>>
               PROVE  \/ p \in DOMAIN entry /\ entry'[p] = entry[p]
                      \/ p = << >> /\ ~entry'[p].page /\ entry'[p].to \in Frames /\ mem'[entry'[p].to] = "kernel"
    OBVIOUS
  <2>1. p \in DOMAIN e /\ entry'[p] = e[p]
    BY <1>5, <1>9
  <2>2. CASE p \in DOMAIN entry
    BY <1>4, <2>1, <2>2 DEF Grown
  <2>3. CASE p \notin DOMAIN entry
    BY <1>4, <2>1, <2>3, Zenon DEF Grown
  <2>4. QED
    BY <2>2, <2>3
<1>10. PagesVisible' /\ LastExplained'
  BY <1>1, <1>2, <1>8, VisibleStays
<1>11. LoaderTyped'
  BY <1>1, <1>2, <1>7 DEF LoaderInv, LoaderTyped, KernelKept
<1>12. SegmentsInOrder'
  <2>1. Loaded' = Loaded /\ k \notin Loaded
    BY <1>1, <1>2 DEF Loaded
  <2>2. DOMAIN given = {i \in Loaded : i < k \/ (i = k /\ off > 0)}
    BY DEF LoaderInv, SegmentsInOrder
  <2>3. QED
    BY <1>1, <1>2, <2>1, <2>2 DEF SegmentsInOrder
<1>13. KernelOwned'
  <2>1. GivenOwned'
    BY <1>1, <1>7, OwnedStays DEF LoaderInv
  <2>2. pml4' \in Frames /\ mem'[pml4'] = "kernel"
    BY <1>1, <1>7 DEF LoaderInv, KernelOwned, KernelKept
  <2>3. ASSUME NEW p \in DOMAIN entry', ~entry'[p].page
        PROVE  entry'[p].to \in Frames /\ mem'[entry'[p].to] = "kernel"
    <3>1. p # <<off>>
      BY <1>6, <2>3
    <3>2. CASE p \in DOMAIN entry /\ entry'[p] = entry[p]
      <4>1. entry[p].to \in Frames /\ mem[entry[p].to] = "kernel"
        BY <2>3, <3>2, Zenon DEF LoaderInv, KernelOwned
      <4>2. QED
        BY <3>2, <4>1, <1>7 DEF KernelKept
    <3>3. QED
      BY <1>9, <3>1, <3>2
  <2>4. QED
    BY <2>1, <2>2, <2>3, Zenon DEF KernelOwned, GivenOwned
<1>14. PathsInOrder'
  <2>1. last' = last
    BY <1>1
  <2>2. ASSUME NEW p \in DOMAIN entry'
        PROVE  /\ entry'[p].page => \E i \in DirectMap : p = <<i>>
               /\ Len(p) = 3 => \E page \in 0 .. last : p = PathOf(page)
    <3>1. CASE p = <<off>>
      BY <1>1, <1>3, <3>1
    <3>2. CASE p \in DOMAIN entry /\ entry'[p] = entry[p]
      BY <3>2, Zenon DEF LoaderInv, PathsInOrder
    <3>3. CASE p = << >> /\ ~entry'[p].page
      BY <3>3
    <3>4. QED
      BY <1>9, <3>1, <3>2, <3>3
  <2>3. QED
    BY <2>1, <2>2, Zenon DEF PathsInOrder
<1>15. HandoverReady'
  BY <1>1 DEF HandoverReady
<1>16. QED
  BY <1>10, <1>11, <1>12, <1>13, <1>14, <1>15 DEF LoaderInv

(* A page of a header is mapped to its own frame, unless it is behind what *)
(* has been mapped already.                                                *)
LEMMA MapSegmentPageKeeps ==
  ASSUME LoaderInv, MapSegmentPage
  PROVE  LoaderInv'
<1>0. SUFFICES ASSUME NEW c, c = k, NEW o, o = off, NEW h, h = headers[c], NEW n, n = SegmentPages(h),
                      NEW page, page = StartPage(h) + o - 1,
                      NEW frame, frame = given[c] + o - 1
               PROVE  LoaderInv'
  OBVIOUS
<1> DEFINE path == PathOf(page)
           x == path[1]
           y == path[2]
           s == add_page_mapping(path, frame)
<1>1. SUFFICES ASSUME \/ page <= last /\ UNCHANGED <<mem, entry, last>>
                      \/ /\ ~(page <= last) /\ s.ok
                         /\ mem' = s.mem /\ entry' = s.entry /\ last' = page,
                      \/ o = n /\ k' = c + 1 /\ off' = 0
                      \/ o # n /\ k' = c /\ off' = o + 1,
                      UNCHANGED <<step, topDown, pml4, headers, given, mode, sdt, tables>>
               PROVE  LoaderInv'
  BY <1>0, FailKeeps DEF MapSegmentPage, Mapped
<1>2. /\ step = "segments" /\ o > 0 /\ o \in Nat /\ c \in Nat /\ last \in Int /\ last >= -1
      /\ Len(headers) \in Nat /\ c \in 1 .. Len(headers) /\ h.load /\ h \in Headers
      /\ c \in Loaded /\ c \in DOMAIN given /\ given[c] \in Nat
      /\ \A i \in Loaded : i \in 1 .. Len(headers) /\ i \in Nat /\ headers[i] \in Headers
      /\ DOMAIN given \subseteq Loaded
      /\ \A i \in Loaded : i \in DOMAIN given <=> i < c \/ i = c
      /\ mem \in [Frames -> MemTypes]
  <2>1. /\ step = "segments" /\ o > 0 /\ o \in Nat /\ c \in Nat /\ last \in Int /\ last >= -1
        /\ headers \in Seq(Headers) /\ mem \in [Frames -> MemTypes] /\ c # 0
    BY <1>0 DEF MapSegmentPage, LoaderInv, LoaderTyped
  <2>2. c <= Len(headers) /\ h.load /\ DOMAIN given = {i \in Loaded : i < c \/ i = c}
    BY <1>0, <2>1 DEF LoaderInv, SegmentsInOrder
  <2>3. /\ DOMAIN headers = 1 .. Len(headers) /\ Len(headers) \in Nat
        /\ \A i \in DOMAIN headers : headers[i] \in Headers
    BY <2>1
  <2>4. c \in DOMAIN headers /\ h \in Headers /\ c \in Loaded
    BY <1>0, <2>1, <2>2, <2>3 DEF Loaded
  <2>5. \A i \in Loaded : i \in 1 .. Len(headers) /\ i \in Nat /\ headers[i] \in Headers
    BY <2>3 DEF Loaded
  <2>6. c \in DOMAIN given
    BY <2>2, <2>4
  <2>7. given[c] \in Nat
    BY <2>6, SameFrames, LoaderFramesAssumption DEF LoaderInv, KernelOwned
  <2>8. QED
    BY <2>1, <2>2, <2>3, <2>4, <2>5, <2>6, <2>7
<1>3. /\ n \in Nat /\ StartPage(h) \in Nat /\ page \in Nat /\ frame \in Nat /\ o <= n
      /\ page = StartPage(h) + (o - 1) /\ frame = given[c] + (o - 1)
      /\ \A i \in Loaded : SegmentPages(headers[i]) \in Nat /\ StartPage(headers[i]) \in Nat
  <2>1. \A i \in Loaded : SegmentPages(headers[i]) \in Nat /\ StartPage(headers[i]) \in Nat
    BY <1>2, HeaderPages
  <2>2. o <= n
    BY <1>0, <1>2 DEF LoaderInv, SegmentsInOrder
  <2>3. QED
    BY <1>0, <1>2, <2>1, <2>2
<1>4. /\ \A i : SegmentPages(headers[i])' = SegmentPages(headers[i])
      /\ \A i : StartPage(headers[i])' = StartPage(headers[i])
      /\ \A i, p : HiddenBy(i, p)' = HiddenBy(i, p)
      /\ Loaded' = Loaded
  BY <1>1 DEF SegmentPages, StartPage, HiddenBy, Loaded
<1>5. /\ path = <<x, y, path[3]>> /\ Len(path) = 3 /\ x \in Nat /\ x >= DirectCount
      /\ DirectCount \in Nat
  BY <1>3, PathShape, LoaderSizesAssumption
<1>6. PagesDone(c) = o - 1 /\ PagesDone(c)' = o
  <2>1. PagesDone(c) = o - 1
    BY <1>0, <1>2 DEF PagesDone
  <2>2. PagesDone(c)' = IF c < k' THEN SegmentPages(headers[c])' ELSE off' - 1
    BY DEF PagesDone
  <2>3. SegmentPages(headers[c])' = n
    BY <1>0, <1>4
  <2>4. QED
    BY <1>1, <1>2, <2>1, <2>2, <2>3
<1>7. ASSUME NEW i \in DOMAIN given, i # c
      PROVE  PagesDone(i)' = PagesDone(i) /\ PagesDone(i) = SegmentPages(headers[i]) /\ i < c
  <2>1. i < c /\ i \in Nat
    BY <1>2, <1>7
  <2>2. i < k' /\ i < k
    BY <1>0, <1>1, <1>2, <2>1
  <2>3. PagesDone(i)' = IF i < k' THEN SegmentPages(headers[i])' ELSE off' - 1
    BY DEF PagesDone
  <2>4. PagesDone(i) = IF i < k THEN SegmentPages(headers[i]) ELSE off - 1
    BY DEF PagesDone
  <2>5. QED
    BY <2>1, <2>2, <2>3, <2>4, <1>4
<1>8. frame \in Frames /\ mem[frame] = "kernel"
  <2>1. o - 1 \in 0 .. n - 1
    BY <1>2, <1>3
  <2>2. given[c] + (o - 1) \in Frames /\ mem[given[c] + (o - 1)] = "kernel"
    BY <1>0, <1>2, <2>1 DEF LoaderInv, KernelOwned
  <2>3. QED
    BY <1>3, <2>2
<1>9. PathOf(page) = path
  OBVIOUS
<1> HIDE DEF path, x, y, s
<1>10. LoaderTyped' /\ SegmentsInOrder' /\ HandoverReady'
  <2>1. HandoverReady'
    BY <1>1, <1>2 DEF HandoverReady
  <2>2. mem' \in [Frames -> MemTypes]
    <3>1. CASE mem' = mem
      BY <1>2, <3>1
    <3>2. CASE s.ok /\ mem' = s.mem
      <4>1. \E e : Grown(mem, entry, s.mem, e, TablesOf(path))
        BY <1>2, <3>2, MappingAdds DEF s
      <4>2. QED
        BY <3>2, <4>1 DEF Grown
    <3>3. QED
      BY <1>1, <3>1, <3>2
  <2>3. k' \in Nat \ {0} /\ k' <= Len(headers) + 1 /\ off' \in Nat
    BY <1>1, <1>2
  <2>4. last' \in Int /\ last' >= -1
    BY <1>1, <1>2, <1>3
  <2>5. LoaderTyped'
    BY <1>1, <2>2, <2>3, <2>4 DEF LoaderInv, LoaderTyped
  <2>6. DOMAIN given' = {i \in Loaded' : i < k' \/ (i = k' /\ off' > 0)}
    <3>1. ASSUME NEW i \in Loaded
          PROVE  i \in DOMAIN given <=> i < k' \/ (i = k' /\ off' > 0)
      BY <1>1, <1>2
    <3>2. DOMAIN given = {i \in Loaded : i < k' \/ (i = k' /\ off' > 0)}
      BY <1>2, <3>1
    <3>3. QED
      BY <1>1, <1>4, <3>2
  <2>7. CASE o = n /\ off' = 0
    <3>1. ~(off' > 0)
      BY <2>7
    <3>2. QED
      BY <1>1, <1>2, <2>1, <2>5, <2>6, <3>1 DEF SegmentsInOrder
  <2>8. CASE o # n /\ k' = c /\ off' = o + 1
    <3>1. SegmentPages(headers'[k']) = n /\ headers'[k'] = h
      BY <1>0, <1>1, <2>8
    <3>2. k' <= Len(headers') /\ headers'[k'].load /\ off' <= SegmentPages(headers'[k'])
      BY <1>1, <1>2, <1>3, <2>8, <3>1
    <3>3. QED
      BY <1>1, <1>2, <2>1, <2>5, <2>6, <3>2 DEF SegmentsInOrder
  <2>9. QED
    BY <1>1, <2>7, <2>8
<1>11. /\ KernelKept /\ EntriesKept
       /\ Reads(page, frame)' \/ \E m \in Loaded : m < c /\ HiddenBy(m, page)
       /\ KernelOwned' /\ PathsInOrder' /\ LastExplained'
  <2>1. CASE page <= last /\ UNCHANGED <<mem, entry, last>>
    <3>1. KernelKept /\ EntriesKept
      BY <1>2, <2>1 DEF KernelKept, EntriesKept
    <3>2. PICK m \in DOMAIN given : last < StartPage(headers[m]) + PagesDone(m)
      BY <1>3, <2>1 DEF LoaderInv, LastExplained
    <3>3. m # c
      <4>1. SUFFICES ASSUME m = c PROVE FALSE
        OBVIOUS
      <4>2. last < StartPage(h) + (o - 1)
        BY <1>0, <3>2, <4>1, <1>6
      <4>3. QED
        BY <1>2, <1>3, <2>1, <4>2
    <3>4. /\ m \in Loaded /\ m < c /\ PagesDone(m)' = PagesDone(m)
          /\ page < StartPage(headers[m]) + SegmentPages(headers[m])
      <4>1. m \in Loaded /\ m < c /\ PagesDone(m)' = PagesDone(m) /\ PagesDone(m) = SegmentPages(headers[m])
        BY <1>2, <1>7, <3>3
      <4>2. last < StartPage(headers[m]) + SegmentPages(headers[m])
        BY <3>2, <4>1
      <4>3. StartPage(headers[m]) \in Nat /\ SegmentPages(headers[m]) \in Nat
        BY <1>3, <4>1
      <4>4. page < StartPage(headers[m]) + SegmentPages(headers[m])
        <5>1. page \in Nat /\ last \in Int /\ page <= last
          BY <1>2, <1>3, <2>1
        <5>2. QED
          BY <4>2, <4>3, <5>1
      <4>5. QED
        BY <4>1, <4>4
    <3>5. HiddenBy(m, page)
      BY <3>4 DEF HiddenBy
    <3>6. KernelOwned'
      BY <1>1, <2>1, <3>1, OwnedStays DEF LoaderInv, KernelOwned, EntriesOwned, GivenOwned
    <3>7. PathsInOrder'
      BY <2>1 DEF LoaderInv, PathsInOrder
    <3>8. LastExplained'
      <4>1. last' < StartPage(headers[m])' + PagesDone(m)'
        BY <1>4, <2>1, <3>2, <3>4
      <4>2. QED
        BY <1>1, <4>1 DEF LastExplained
    <3>9. QED
      BY <3>1, <3>4, <3>5, <3>6, <3>7, <3>8
  <2>2. CASE ~(page <= last) /\ s.ok /\ mem' = s.mem /\ entry' = s.entry /\ last' = page
    <3>1. /\ TablesOf(path) = {<< >>, <<x>>, <<x, y>>}
          /\ path # << >> /\ path # <<x>> /\ path # <<x, y>>
          /\ Len(<< >>) # 3 /\ Len(<<x>>) # 3 /\ Len(<<x, y>>) # 3
      <4>1. Len(<< >>) = 0 /\ Len(<<x>>) = 1 /\ Len(<<x, y>>) = 2
        OBVIOUS
      <4>2. Len(path) # 1
        BY <1>5
      <4>3. TablesOf(path) = {<< >>, <<x>>, <<x, y>>}
        BY <4>2 DEF TablesOf, x, y
      <4>4. path # << >> /\ path # <<x>> /\ path # <<x, y>>
        <5>1. \A p : Len(p) # 3 => path # p
          BY <1>5
        <5>2. 0 # 3 /\ 1 # 3 /\ 2 # 3
          OBVIOUS
        <5>3. QED
          BY <4>1, <5>1, <5>2, Zenon
      <4>5. QED
        BY <4>1, <4>3, <4>4
    <3>2. PICK e : /\ Grown(mem, entry, mem', e, TablesOf(path))
                   /\ TablesOf(path) \subseteq DOMAIN e
                   /\ entry' = With(e, path, [to |-> frame, page |-> FALSE])
      <4>1. \E e : /\ Grown(mem, entry, s.mem, e, TablesOf(path))
                   /\ TablesOf(path) \subseteq DOMAIN e
                   /\ s.entry = With(e, path, [to |-> frame, page |-> Len(path) < 3])
        BY <1>2, <2>2, MappingAdds DEF s
      <4>2. (Len(path) < 3) = FALSE
        BY <1>5
      <4>3. QED
        BY <2>2, <4>1, <4>2
    <3>3. /\ DOMAIN entry' = DOMAIN e \cup {path}
          /\ entry'[path] = [to |-> frame, page |-> FALSE]
          /\ \A p \in DOMAIN e : p # path => entry'[p] = e[p]
      BY <3>2 DEF With
    <3>4. entry'[path].to = frame /\ entry'[path].page = FALSE
      BY <3>3
    <3>5. path \notin DOMAIN entry
      <4>1. SUFFICES ASSUME path \in DOMAIN entry PROVE FALSE
        OBVIOUS
      <4>2. PICK q \in 0 .. last : path = PathOf(q)
        BY <4>1, <1>5 DEF LoaderInv, PathsInOrder
      <4>3. q = page
        BY <1>2, <1>3, <1>9, <4>2, PathsDiffer
      <4>4. QED
        BY <1>2, <2>2, <4>2, <4>3
    <3>6. ASSUME NEW p \in DOMAIN entry PROVE p \in DOMAIN entry' /\ entry'[p] = entry[p]
      <4>1. p \in DOMAIN e /\ e[p] = entry[p] /\ p # path
        BY <3>2, <3>5, <3>6 DEF Grown
      <4>2. QED
        BY <3>3, <4>1
    <3>7. ASSUME NEW p \in DOMAIN entry'
          PROVE  \/ p = path
                 \/ p \in DOMAIN entry /\ entry'[p] = entry[p]
                 \/ /\ p \in TablesOf(path) /\ ~entry'[p].page
                    /\ entry'[p].to \in Frames /\ mem'[entry'[p].to] = "kernel"
      <4> SUFFICES ASSUME p # path, p \notin DOMAIN entry
                   PROVE  /\ p \in TablesOf(path) /\ ~entry'[p].page
                          /\ entry'[p].to \in Frames /\ mem'[entry'[p].to] = "kernel"
        BY <3>6
      <4>1. p \in DOMAIN e /\ entry'[p] = e[p]
        BY <3>3, <3>7
      <4>2. p \in TablesOf(path)
        BY <3>2, <4>1 DEF Grown
      <4>3. QED
        BY <3>2, <4>1, <4>2, Zenon DEF Grown
    <3>8. KernelKept /\ EntriesKept
      BY <3>2, <3>6 DEF Grown, KernelKept, EntriesKept
    <3>9. Reads(page, frame)'
      <4>1. ASSUME NEW p \in TablesOf(path) PROVE p \in DOMAIN entry' /\ ~entry'[p].page
        <5>1. p \in DOMAIN entry' /\ p # path
          BY <3>1, <3>2, <3>3, <4>1
        <5>2. CASE p \in DOMAIN entry /\ entry'[p] = entry[p]
          <6>1. SUFFICES ASSUME entry[p].page PROVE FALSE
            BY <5>1, <5>2
          <6>2. PICK i \in DirectMap : p = <<i>>
            BY <5>2, <6>1, Zenon DEF LoaderInv, PathsInOrder
          <6>3. p = <<x>> /\ i = x
            BY <3>1, <6>2
          <6>4. QED
            BY <1>5, <6>3 DEF DirectMap
        <5>3. QED
          BY <3>7, <5>1, <5>2, Zenon
      <4>2. path \in DOMAIN entry' /\ entry'[path].to = frame
        BY <3>3, <3>4
      <4>3. Table(<< >>)' /\ Table(<<x>>)' /\ Table(<<x, y>>)'
        <5>1. << >> \in TablesOf(path) /\ <<x>> \in TablesOf(path) /\ <<x, y>> \in TablesOf(path)
          BY <3>1
        <5>2. QED
          BY <4>1, <5>1, Zenon DEF Table
      <4>4. PathOf(page) = path /\ x = path[1] /\ y = path[2]
        BY <1>9 DEF x, y
      <4>5. QED
        BY <4>2, <4>3, <4>4, Zenon DEF Reads
    <3>10. KernelOwned'
      <4>1. GivenOwned'
        BY <1>1, <3>8, OwnedStays DEF LoaderInv
      <4>2. pml4' \in Frames /\ mem'[pml4'] = "kernel"
        BY <1>1, <1>2, <3>8 DEF LoaderInv, KernelOwned, KernelKept
      <4>3. ASSUME NEW p \in DOMAIN entry', ~entry'[p].page
            PROVE  entry'[p].to \in Frames /\ mem'[entry'[p].to] = "kernel"
        <5>1. CASE p = path
          BY <1>8, <3>4, <3>8, <5>1 DEF KernelKept
        <5>2. CASE p \in DOMAIN entry /\ entry'[p] = entry[p]
          <6>1. entry[p].to \in Frames /\ mem[entry[p].to] = "kernel"
            BY <4>3, <5>2, Zenon DEF LoaderInv, KernelOwned
          <6>2. QED
            BY <5>2, <6>1, <3>8 DEF KernelKept
        <5>3. QED
          BY <3>7, <5>1, <5>2, Zenon
      <4>4. QED
        BY <4>1, <4>2, <4>3, Zenon DEF KernelOwned, GivenOwned
    <3>11. PathsInOrder'
      <4>1. ASSUME NEW p \in DOMAIN entry'
            PROVE  /\ entry'[p].page => \E i \in DirectMap : p = <<i>>
                   /\ Len(p) = 3 => \E q \in 0 .. last' : p = PathOf(q)
        <5>1. CASE p = path
          <6>1. page \in 0 .. last' /\ p = PathOf(page)
            BY <1>3, <1>9, <2>2, <5>1
          <6>2. ~entry'[p].page
            BY <3>4, <5>1
          <6>3. QED
            BY <6>1, <6>2, Zenon
        <5>2. CASE p \in DOMAIN entry /\ entry'[p] = entry[p]
          <6>1. /\ entry[p].page => \E i \in DirectMap : p = <<i>>
                /\ Len(p) = 3 => \E q \in 0 .. last : p = PathOf(q)
            BY <5>2, Zenon DEF LoaderInv, PathsInOrder
          <6>2. \A q \in 0 .. last : q \in 0 .. last'
            BY <1>2, <1>3, <2>2
          <6>3. QED
            BY <5>2, <6>1, <6>2, Zenon
        <5>3. CASE p \in TablesOf(path) /\ ~entry'[p].page
          <6>1. Len(p) # 3
            BY <3>1, <5>3
          <6>2. QED
            BY <5>3, <6>1, Zenon
        <5>4. QED
          BY <3>7, <5>1, <5>2, <5>3, Zenon
      <4>2. QED
        BY <4>1, Zenon DEF PathsInOrder
    <3>12. LastExplained'
      <4>1. StartPage(headers[c])' = StartPage(h)
        BY <1>0, <1>4
      <4>2. last' < (StartPage(headers[c]) + PagesDone(c))'
        BY <1>2, <1>3, <1>6, <2>2, <4>1
      <4>3. c \in DOMAIN given'
        BY <1>1, <1>2
      <4>4. QED
        BY <4>2, <4>3 DEF LastExplained
    <3>13. QED
      BY <3>8, <3>9, <3>10, <3>11, <3>12
  <2>3. QED
    BY <1>1, <2>1, <2>2
<1>12. PagesVisible'
  <2>1. SUFFICES ASSUME NEW i \in DOMAIN given, NEW q \in 0 .. PagesDone(i)' - 1
                 PROVE  \/ \E m \in Loaded : m < i /\ HiddenBy(m, StartPage(headers[i]) + q)
                        \/ Reads(StartPage(headers[i]) + q, given[i] + q)'
    <3>1. given' = given /\ headers' = headers /\ Loaded' = Loaded
      BY <1>1, <1>4
    <3>2. \A m, p : HiddenBy(m, p)' = HiddenBy(m, p)
      BY <1>4
    <3>3. QED
      BY <3>1, <3>2 DEF PagesVisible
  <2>2. i \in Loaded /\ q \in Nat /\ StartPage(headers[i]) + q \in Nat
    <3>1. i \in Loaded /\ PagesDone(i)' \in Nat
      BY <1>2, <1>3, <1>6, <1>7
    <3>2. q \in Nat
      BY <3>1
    <3>3. QED
      BY <1>3, <3>1, <3>2
  <2>3. CASE q \in 0 .. PagesDone(i) - 1
    <3>1. \/ \E m \in Loaded : m < i /\ HiddenBy(m, StartPage(headers[i]) + q)
          \/ Reads(StartPage(headers[i]) + q, given[i] + q)
      BY <2>3, Zenon DEF LoaderInv, PagesVisible
    <3>2. PICK pg, fr : pg = StartPage(headers[i]) + q /\ fr = given[i] + q
      OBVIOUS
    <3>3. Reads(pg, fr) => Reads(pg, fr)'
      BY <1>11, <2>2, <3>2, ReadsStay
    <3>4. given'[i] = given[i] /\ headers'[i] = headers[i]
      BY <1>1
    <3>5. QED
      BY <3>1, <3>2, <3>3, <3>4
  <2>4. CASE q \notin 0 .. PagesDone(i) - 1
    <3>1. i = c
      BY <1>7, <2>4
    <3>2. q = o - 1
      BY <1>2, <1>6, <2>4, <3>1
    <3>3. StartPage(headers[i]) + q = page /\ given[i] + q = frame
      BY <1>0, <1>3, <3>1, <3>2
    <3>4. given'[i] = given[i] /\ headers'[i] = headers[i]
      BY <1>1
    <3>5. QED
      BY <1>11, <3>1, <3>3, <3>4
  <2>5. QED
    BY <2>3, <2>4
<1>13. QED
  BY <1>10, <1>11, <1>12 DEF LoaderInv

-----------------------------------------------------------------------------
(* The graphics mode, the root table and the end of the loader.            *)

(* The search over the modes is well defined, ...                          *)
SearchStep(list, best, f, i) ==
    IF i = 0 THEN [max |-> 0, best |-> best]
    ELSE IF Better(list, i, f[i-1]) THEN [max |-> list[i].pixels, best |-> i - 1]
    ELSE f[i-1]

(* The function that the search is written with exists.                    *)
LEMMA SearchExists ==
  ASSUME NEW list, NEW best, NEW n \in Nat
  PROVE  \E f : f = [i \in 0 .. n |-> SearchStep(list, best, f, i)]
<1> DEFINE Exists(m) == \E f : f = [i \in 0 .. m |-> SearchStep(list, best, f, i)]
           Bad == {m \in Nat : ~Exists(m)}
<1>1. SUFFICES ASSUME Bad # {} PROVE FALSE
  OBVIOUS
<1>2. PICK m \in Bad : \A x \in Bad : m <= x
  BY <1>1, LeastExists
<1>3. m # 0
  <2>1. SUFFICES ASSUME m = 0 PROVE FALSE
    OBVIOUS
  <2> DEFINE f == [i \in 0 .. 0 |-> [max |-> 0, best |-> best]]
  <2>2. f = [i \in 0 .. 0 |-> SearchStep(list, best, f, i)]
    BY DEF SearchStep
  <2>3. QED
    BY <2>1, <2>2
<1>4. Exists(m - 1) /\ m - 1 \in Nat
  <2>1. m - 1 \in Nat /\ ~(m <= m - 1)
    BY <1>3
  <2>2. QED
    BY <1>2, <2>1
<1>5. PICK f : f = [i \in 0 .. m - 1 |-> SearchStep(list, best, f, i)]
  BY <1>4
<1> DEFINE g == [i \in 0 .. m |-> IF i = m THEN SearchStep(list, best, f, m) ELSE f[i]]
<1>6. \A i \in 0 .. m : g[i] = SearchStep(list, best, g, i)
  <2> TAKE i \in 0 .. m
  <2>1. i # 0 => g[i-1] = f[i-1]
    BY <1>4
  <2>2. SearchStep(list, best, g, i) = SearchStep(list, best, f, i)
    BY <2>1 DEF SearchStep
  <2>3. i # m => i \in 0 .. m - 1
    BY <1>4
  <2>4. g[i] = SearchStep(list, best, f, i)
    BY <1>5, <2>3
  <2>5. QED
    BY <2>2, <2>4
<1>7. g = [i \in 0 .. m |-> SearchStep(list, best, g, i)]
  BY <1>6
<1>8. QED
  BY <1>7

(* ... and what it takes is a mode that the firmware offers and the        *)
(* console can use, whatever best_mode_num was at first.                   *)
LEMMA ChosenGenuine ==
  ASSUME NEW list \in Seq(Modes), NEW best \in Nat, Chosen(list, best).max > 0
  PROVE  LET b == Chosen(list, best).best
         IN  b \in Nat /\ b < Len(list) /\ list[b + 1].ok /\ list[b + 1].fits
<1> DEFINE n == Len(list)
           s == CHOOSE f : f = [i \in 0 .. n |-> SearchStep(list, best, f, i)]
           Good(b) == b \in Nat /\ b < Len(list) /\ list[b + 1].ok /\ list[b + 1].fits
           Bad == {m \in 0 .. n : ~(s[m].max = 0 \/ Good(s[m].best))}
<1>1. n \in Nat
  OBVIOUS
<1>2. Chosen(list, best) = s[n]
  BY DEF Chosen, SearchStep
<1>3. s = [i \in 0 .. n |-> SearchStep(list, best, s, i)]
  BY <1>1, SearchExists
<1> HIDE DEF s
<1>4. \A i \in 0 .. n : s[i] = SearchStep(list, best, s, i)
  BY <1>3
<1>5. SUFFICES ASSUME Bad # {} PROVE FALSE
  <2>1. n \in 0 .. n /\ s[n].max # 0
    BY <1>1, <1>2
  <2>2. Good(s[n].best)
    BY <1>5, <2>1
  <2>3. QED
    BY <1>2, <2>2
<1>6. PICK m \in Bad : \A x \in Bad : m <= x
  <2>1. Bad \in SUBSET Nat
    BY <1>1
  <2> HIDE DEF Bad
  <2>2. QED
    BY <1>5, <2>1, LeastExists
<1>7. m # 0 /\ m - 1 \in 0 .. n /\ m \in 1 .. n
  <2>1. SUFFICES ASSUME m = 0 PROVE FALSE
    BY <1>1
  <2>2. s[0] = [max |-> 0, best |-> best]
    <3>1. 0 \in 0 .. n
      BY <1>1
    <3>2. s[0] = SearchStep(list, best, s, 0)
      BY <1>4, <3>1
    <3>3. QED
      BY <3>2 DEF SearchStep
  <2>3. s[0].max = 0
    BY <2>2
  <2>4. QED
    BY <2>1, <2>3
<1>8. s[m-1].max = 0 \/ Good(s[m-1].best)
  <2>1. ~(m <= m - 1)
    BY <1>7
  <2>2. QED
    BY <1>6, <1>7, <2>1
<1>9. CASE Better(list, m, s[m-1])
  <2>1. s[m] = [max |-> list[m].pixels, best |-> m - 1]
    BY <1>4, <1>7, <1>9 DEF SearchStep
  <2>2. s[m].best = m - 1 /\ m - 1 \in Nat /\ m - 1 < Len(list) /\ (m - 1) + 1 = m
    BY <1>7, <2>1
  <2>3. list[m].ok /\ list[m].fits
    BY <1>9, Zenon DEF Better
  <2>4. Good(s[m].best)
    BY <2>2, <2>3, Zenon
  <2>5. QED
    BY <2>4
<1>10. CASE ~Better(list, m, s[m-1])
  <2>1. s[m] = s[m-1]
    BY <1>4, <1>7, <1>10 DEF SearchStep
  <2>2. QED
    BY <1>8, <2>1
<1>11. QED
  BY <1>9, <1>10

(* The graphics mode.                                                      *)
LEMMA SetModeKeeps ==
  ASSUME LoaderInv, SetMode
  PROVE  LoaderInv'
<1>1. PICK list \in ModeLists, garbage \in Garbage :
        LET s == Chosen(list, garbage)
        IN  \/ s.max = 0 /\ Fail
            \/ /\ s.max > 0
               /\ mode' = IF s.best < Len(list) THEN list[s.best + 1] ELSE NoMode
               /\ step' = "acpi"
               /\ UNCHANGED <<mem, topDown, pml4, entry, headers, k, off, last, given, sdt, tables>>
            \/ Fail
  BY DEF SetMode
<1> DEFINE s == Chosen(list, garbage)
<1>2. SUFFICES ASSUME s.max > 0, mode' = IF s.best < Len(list) THEN list[s.best + 1] ELSE NoMode,
                      step' = "acpi",
                      UNCHANGED <<mem, topDown, pml4, entry, headers, k, off, last, given, sdt, tables>>
               PROVE  LoaderInv'
  BY <1>1, FailKeeps
<1>3. s.best < Len(list) /\ list[s.best + 1].ok /\ list[s.best + 1].fits
  <2>1. list \in Seq(Modes) /\ garbage \in Nat
    BY LoaderInputsAssumption
  <2>2. QED
    BY <1>2, <2>1, ChosenGenuine
<1>4. mode'.ok /\ mode'.fits
  BY <1>2, <1>3
<1>5. HandoverReady'
  BY <1>2, <1>4, Zenon DEF HandoverReady
<1>6. KernelKept
  BY <1>2 DEF KernelKept, LoaderInv, LoaderTyped
<1>7. step = "direct" /\ k = Len(headers) + 1 /\ pml4 \in Frames /\ mem[pml4] = "kernel"
  BY DEF SetMode, LoaderInv, SegmentsInOrder, KernelOwned
<1>8. QED
  BY <1>2, <1>5, <1>6, <1>7, EarlyKeeps DEF Steps

(* Of the 2.0 pointers one comes first, if there are any.                  *)
LEMMA First20One ==
  ASSUME NEW list \in Seq(Rsdps)
  PROVE  /\ \A i, n \in First20(list) : i = n
         /\ First20(list) = {} => \A i \in DOMAIN list : list[i].kind # "acpi20"
<1> DEFINE T == {i \in DOMAIN list : list[i].kind = "acpi20"}
<1>1. DOMAIN list = 1 .. Len(list) /\ Len(list) \in Nat
  OBVIOUS
<1>2. ASSUME NEW i \in First20(list), NEW n \in First20(list)
      PROVE  i = n
  <2>1. /\ i \in Nat /\ n \in Nat /\ list[i].kind = "acpi20" /\ list[n].kind = "acpi20"
        /\ ~(i \in 1 .. n - 1) /\ ~(n \in 1 .. i - 1) /\ i > 0 /\ n > 0
    BY <1>1, <1>2 DEF First20
  <2>2. QED
    BY <2>1
<1>3. ASSUME T # {} PROVE First20(list) # {}
  <2>0. T \in SUBSET Nat
    BY <1>1
  <2>1. PICK i \in T : \A n \in T : i <= n
    <3> HIDE DEF T
    <3>1. QED
      BY <1>3, <2>0, LeastExists
  <2>2. ASSUME NEW n \in 1 .. i - 1 PROVE list[n].kind # "acpi20"
    <3>1. n \in DOMAIN list /\ ~(i <= n)
      BY <1>1, <2>1, <2>2
    <3>2. QED
      BY <2>1, <3>1
  <2>3. QED
    BY <2>1, <2>2 DEF First20
<1>4. QED
  BY <1>2, <1>3

(* The root table of ACPI.                                                 *)
LEMMA FindSdtKeeps ==
  ASSUME LoaderInv, FindSdt
  PROVE  LoaderInv'
<1>1. /\ step = "acpi" /\ step' \in {"failed", "map"}
      /\ UNCHANGED <<mem, topDown, pml4, entry, headers, k, off, last, given, mode>>
  BY DEF FindSdt
<1>2. PICK list \in RsdpLists, garbage \in {"null", "garbage"} :
        sdt' = acpi_x_r_sdt(list, xsdt_addr(list, garbage)) /\ tables' = list
  BY DEF FindSdt
<1>3. /\ \A i, n \in First20(list) : i = n
      /\ First20(list) = {} => \A i \in DOMAIN list : list[i].kind # "acpi20"
  BY First20One, LoaderInputsAssumption
<1>4. ASSUME NEW i \in First20(list), list[i].revision >= 2
      PROVE  sdt' = IF list[i].xsdt THEN "xsdt" ELSE "rsdt of 2.0"
  <2>1. xsdt_addr(list, garbage) = IF list[i].xsdt THEN "xsdt" ELSE "null"
    BY <1>3, <1>4 DEF xsdt_addr
  <2>2. QED
    BY <1>2, <1>4, <2>1 DEF acpi_x_r_sdt
<1>5. ASSUME sdt' = "rsdt of 1.0" PROVE First20(list) = {}
  <2>1. xsdt_addr(list, garbage) \in {"xsdt", "null", "garbage"}
    BY DEF xsdt_addr
  <2>2. QED
    BY <1>2, <1>5, <2>1 DEF acpi_x_r_sdt
<1>6. HandoverReady'
  <2>1. (First20(tables))' = First20(list)
    BY <1>2 DEF First20
  <2>2. QED
    BY <1>1, <1>2, <1>3, <1>4, <1>5, <2>1 DEF LoaderInv, HandoverReady
<1>7. KernelKept
  BY <1>1 DEF KernelKept, LoaderInv, LoaderTyped
<1>8. k = Len(headers) + 1 /\ pml4 \in Frames /\ mem[pml4] = "kernel"
  BY <1>1 DEF LoaderInv, SegmentsInOrder, KernelOwned
<1>9. QED
  BY <1>1, <1>6, <1>7, <1>8, EarlyKeeps DEF Steps

(* The end of the firmware.                                                *)
LEMMA ExitBootServicesKeeps ==
  ASSUME LoaderInv, ExitBootServices
  PROVE  LoaderInv'
<1>1. SUFFICES ASSUME step = "map", step' = "exited",
                      UNCHANGED <<mem, topDown, pml4, entry, headers, k, off, last, given, mode, sdt, tables>>
               PROVE  LoaderInv'
  BY FailKeeps DEF ExitBootServices
<1>2. HandoverReady'
  BY <1>1 DEF LoaderInv, HandoverReady
<1>3. KernelKept
  BY <1>1 DEF KernelKept, LoaderInv, LoaderTyped
<1>4. k = Len(headers) + 1 /\ pml4 \in Frames /\ mem[pml4] = "kernel"
  BY <1>1 DEF LoaderInv, SegmentsInOrder, KernelOwned
<1>5. QED
  BY <1>1, <1>2, <1>3, <1>4, EarlyKeeps DEF Steps

(* Every step of the loader keeps its invariant, ...                       *)
LEMMA LoaderStep ==
  ASSUME LoaderInv, efi_main
  PROVE  LoaderInv'
BY ReadKernelFileKeeps, CopyPml4Keeps, NextHeaderKeeps, MapSegmentPageKeeps, EndSegmentsKeeps,
   MapDirectKeeps, SetModeKeeps, FindSdtKeeps, ExitBootServicesKeeps DEF efi_main

(* ... which says at the end that the kernel can be read and is told the   *)
(* truth.                                                                  *)
LEMMA HandoverFollows ==
  ASSUME LoaderInv
  PROVE  HandoverTrue
<1>1. HandoverGenuine
  BY Zenon DEF LoaderInv, HandoverReady, HandoverGenuine
<1>2. ASSUME step = "exited", NEW i \in Loaded, NEW page \in Content(headers[i])
      PROVE  \/ \E n \in Loaded : n < i /\ HiddenBy(n, page)
             \/ Reads(page, given[i] + page - StartPage(headers[i]))
  <2>1. /\ i \in DOMAIN given /\ i < k /\ headers[i] \in Headers /\ given[i] \in Nat
    <3>1. /\ k = Len(headers) + 1 /\ headers \in Seq(Headers)
          /\ DOMAIN given = {n \in Loaded : n < k \/ (n = k /\ off > 0)}
      BY <1>2 DEF LoaderInv, LoaderTyped, SegmentsInOrder
    <3>2. i \in 1 .. Len(headers) /\ i < k /\ headers[i] \in Headers
      BY <3>1 DEF Loaded
    <3>3. i \in DOMAIN given
      BY <3>1, <3>2
    <3>4. QED
      BY <3>2, <3>3, SameFrames, LoaderFramesAssumption DEF LoaderInv, KernelOwned
  <2>2. /\ SegmentPages(headers[i]) \in Nat /\ StartPage(headers[i]) \in Nat
        /\ page \in StartPage(headers[i]) .. StartPage(headers[i]) + SegmentPages(headers[i]) - 1
    BY <2>1, HeaderPages
  <2>3. PICK q \in 0 .. SegmentPages(headers[i]) - 1 : page = StartPage(headers[i]) + q
    <3>1. page - StartPage(headers[i]) \in 0 .. SegmentPages(headers[i]) - 1
      BY <2>2
    <3>2. page = StartPage(headers[i]) + (page - StartPage(headers[i]))
      BY <2>2
    <3>3. QED
      BY <3>1, <3>2
  <2>4. PagesDone(i) = SegmentPages(headers[i])
    BY <2>1 DEF PagesDone
  <2>5. given[i] + page - StartPage(headers[i]) = given[i] + q
    BY <2>1, <2>2, <2>3
  <2>6. QED
    BY <2>1, <2>3, <2>4, <2>5, Zenon DEF LoaderInv, PagesVisible
<1>3. QED
  BY <1>1, <1>2 DEF HandoverTrue, KernelVisible

-----------------------------------------------------------------------------
(* The memory map that the kernel reads.                                   *)

(* Of frames in some order, one comes first; ...                           *)
LEMMA FirstInOrder ==
  ASSUME NEW order \in Orders, NEW S \in SUBSET LoaderFrames, S # {}
  PROVE  \E f \in S : \A g \in S : order[f] <= order[g]
<1> DEFINE P == {order[g] : g \in S}
<1>1. order \in [LoaderFrames -> Nat]
  BY OrdersAssumption
<1>2. P \in SUBSET Nat /\ P # {}
  BY <1>1
<1>3. PICK p \in P : \A q \in P : p <= q
  <2> HIDE DEF P
  <2>1. QED
    BY <1>2, LeastExists
<1>4. PICK f \in S : p = order[f]
  OBVIOUS
<1>5. QED
  BY <1>3, <1>4

(* ... one has exactly n of them before it, ...                            *)
Earlier(S, order, f) == {g \in S : order[g] < order[f]}

(* ... by induction on n, one frame being the next after the other.        *)
LEMMA NthExists ==
  ASSUME NEW order \in Orders, NEW S \in SUBSET LoaderFrames,
         NEW n \in Nat, n < Cardinality(S)
  PROVE  \E f \in S : Cardinality(Earlier(S, order, f)) = n
<1> DEFINE Has(m) == \E f \in S : Cardinality(Earlier(S, order, f)) = m
           Bad == {m \in Nat : m < Cardinality(S) /\ ~Has(m)}
<1>0. /\ IsFiniteSet(S) /\ \A g \in S : order[g] \in Nat
      /\ \A f, g \in S : order[f] = order[g] => f = g
  BY LoaderFramesAssumption, OrdersAssumption, FS_Subset
<1>1. SUFFICES ASSUME Bad # {} PROVE FALSE
  OBVIOUS
<1>2. PICK m \in Bad : \A x \in Bad : m <= x
  BY <1>1, LeastExists
<1>3. Cardinality(S) \in Nat /\ m \in Nat /\ m < Cardinality(S) /\ ~Has(m)
  BY <1>0, FS_CardinalityType
<1>4. CASE m = 0
  <2>1. S # {}
    BY <1>3, <1>4, FS_EmptySet
  <2>2. PICK f \in S : \A g \in S : order[f] <= order[g]
    BY <2>1, FirstInOrder
  <2>3. Earlier(S, order, f) = {}
    BY <1>0, <2>2 DEF Earlier
  <2>4. QED
    BY <1>3, <1>4, <2>3, FS_EmptySet
<1>5. CASE m # 0
  <2>1. m - 1 \in Nat /\ ~(m <= m - 1) /\ m - 1 < Cardinality(S)
    BY <1>3, <1>5
  <2>2. PICK f \in S : Cardinality(Earlier(S, order, f)) = m - 1
    BY <1>2, <2>1
  <2> DEFINE T == Earlier(S, order, f) \cup {f}
  <2>3. IsFiniteSet(Earlier(S, order, f)) /\ f \notin Earlier(S, order, f)
    BY <1>0, FS_Subset DEF Earlier
  <2>4. Cardinality(T) = m /\ IsFiniteSet(T)
    <3>1. Cardinality(T) = Cardinality(Earlier(S, order, f)) + 1 /\ IsFiniteSet(T)
      BY <2>3, FS_AddElement
    <3>2. QED
      BY <1>3, <2>2, <3>1
  <2>5. S \ T # {}
    <3>1. SUFFICES ASSUME S \ T = {} PROVE FALSE
      OBVIOUS
    <3>2. S \subseteq T
      BY <3>1
    <3>3. T = S
      BY <3>2 DEF Earlier
    <3> HIDE DEF T, Has
    <3>4. Cardinality(S) = m
      BY <2>4, <3>3
    <3>5. QED
      BY <1>3, <3>4
  <2>6. PICK h \in S \ T : \A g \in S \ T : order[h] <= order[g]
    BY <2>5, FirstInOrder
  <2>7. Earlier(S, order, h) = T
    <3>1. \A g \in S : order[g] < order[h] => g \in T
      BY <1>0, <2>6
    <3>2. order[f] < order[h]
      BY <1>0, <2>6 DEF Earlier
    <3>3. \A g \in T : order[g] < order[h]
      BY <1>0, <2>6, <3>2 DEF Earlier
    <3>4. QED
      BY <3>1, <3>3 DEF Earlier
  <2>8. QED
    BY <1>3, <2>4, <2>6, <2>7
<1>6. QED
  BY <1>4, <1>5

(* A run of frames in one use ends somewhere.                              *)
LEMMA RunEnds ==
  ASSUME NEW f \in RunStarts
  PROVE  LET g == RunEnd(f)
         IN  g \in Frames /\ f <= g /\ \A i \in f .. g : i \in Frames /\ mem[i] = mem[f]
<1> DEFINE T == {g \in Frames : f <= g /\ \A i \in f .. g : i \in Frames /\ mem[i] = mem[f]}
           IsEnd(g) == /\ f <= g /\ \A i \in f .. g : i \in Frames /\ mem[i] = mem[f]
                       /\ g + 1 \in Frames => mem[g + 1] # mem[f]
<1>1. f \in Frames /\ Frames \subseteq Nat /\ IsFiniteSet(Frames)
  BY SameFrames, LoaderFramesAssumption DEF RunStarts
<1>2. T \in SUBSET Nat /\ IsFiniteSet(T)
  BY <1>1, FS_Subset
<1>3. f \in T
  BY <1>1
<1>4. PICK g \in T : \A x \in T : x <= g
  <2>1. T # {}
    BY <1>3
  <2> HIDE DEF T
  <2>2. QED
    BY <1>2, <2>1, GreatestExists
<1>5. g + 1 \in Frames => mem[g + 1] # mem[f]
  <2>1. SUFFICES ASSUME g + 1 \in Frames, mem[g + 1] = mem[f] PROVE FALSE
    OBVIOUS
  <2>2. \A i \in f .. g + 1 : i \in f .. g \/ i = g + 1
    BY <1>1, <1>4
  <2>3. g + 1 \in T
    BY <1>1, <1>4, <2>1, <2>2
  <2>4. QED
    BY <1>1, <1>4, <2>3
<1>6. g \in Frames /\ IsEnd(g)
  BY <1>4, <1>5
<1>7. RunEnd(f) \in Frames /\ IsEnd(RunEnd(f))
  <2>1. RunEnd(f) = CHOOSE x \in Frames : IsEnd(x)
    BY SameFrames DEF RunEnd
  <2> HIDE DEF IsEnd
  <2>2. QED
    BY <1>6, <2>1
<1>8. QED
  BY <1>7

(* One run ends before the next one starts.                                *)
LEMMA RunsApart ==
  ASSUME NEW f \in RunStarts, NEW h \in RunStarts, f < h
  PROVE  RunEnd(f) < h
<1> DEFINE g == RunEnd(f)
<1>1. /\ f \in Nat /\ h \in Nat /\ g \in Nat /\ h \in Frames
      /\ h - 1 \in Frames => mem[h - 1] # mem[h]
      /\ \A i \in f .. g : i \in Frames /\ mem[i] = mem[f]
  BY RunEnds, SameFrames, LoaderFramesAssumption DEF RunStarts
<1> HIDE DEF g
<1>2. SUFFICES ASSUME h <= g PROVE FALSE
  BY <1>1 DEF g
<1>3. h \in f .. g /\ h - 1 \in f .. g
  BY <1>1, <1>2
<1>4. QED
  BY <1>1, <1>3

(* The descriptors are of frames in one use, and of different ones.        *)
LEMMA DescriptorsTrue ==
  ASSUME mem \in [Frames -> MemTypes], NEW order \in Orders
  PROVE  LET d == MemoryDescriptors(order)
         IN  d \in Seq(Descriptors) /\ Apart(d) /\ True(d)
<1> DEFINE d == MemoryDescriptors(order)
           S == RunStarts
           n == Cardinality(S)
           At(i) == Nth(S, order, i)
<1>1. S \in SUBSET Nat /\ IsFiniteSet(S) /\ S \subseteq Frames /\ n \in Nat
  <2>1. S \subseteq Frames /\ Frames \subseteq Nat /\ IsFiniteSet(Frames)
    BY SameFrames, LoaderFramesAssumption DEF RunStarts
  <2>2. QED
    BY <2>1, FS_Subset, FS_CardinalityType
<1> HIDE DEF n
<1>2. ASSUME NEW i \in 1 .. n
      PROVE  At(i) \in S /\ Cardinality(Earlier(S, order, At(i))) = i - 1
  <2>1. i - 1 \in Nat /\ i - 1 < Cardinality(S) /\ S \subseteq LoaderFrames
    BY <1>1, SameFrames DEF n
  <2> HIDE DEF S
  <2>2. \E f \in S : Cardinality(Earlier(S, order, f)) = i - 1
    BY <2>1, NthExists
  <2>3. At(i) = CHOOSE f \in S : Cardinality(Earlier(S, order, f)) = i - 1
    BY DEF Nth, Earlier
  <2> HIDE DEF At
  <2>4. QED
    BY <2>2, <2>3
<1>3. ASSUME NEW i \in 1 .. n, NEW l \in 1 .. n, i # l
      PROVE  At(i) # At(l)
  <2>1. i - 1 # l - 1
    BY <1>3
  <2>2. /\ Cardinality(Earlier(S, order, At(i))) = i - 1
        /\ Cardinality(Earlier(S, order, At(l))) = l - 1
    BY <1>2
  <2> HIDE DEF At, S
  <2>3. QED
    BY <2>1, <2>2
<1>4. d = [i \in 1 .. n |-> [type |-> mem[At(i)], base |-> At(i), pages |-> RunEnd(At(i)) - At(i) + 1]]
  BY DEF MemoryDescriptors, n
<1> HIDE DEF d, At
<1>5. /\ DOMAIN d = 1 .. n
      /\ \A i \in 1 .. n : /\ d[i] = [type |-> mem[At(i)], base |-> At(i), pages |-> RunEnd(At(i)) - At(i) + 1]
                           /\ d[i].type = mem[At(i)] /\ d[i].base = At(i)
                           /\ d[i].pages = RunEnd(At(i)) - At(i) + 1
  BY <1>4
<1>6. ASSUME NEW i \in 1 .. n
      PROVE  /\ At(i) \in Nat /\ RunEnd(At(i)) \in Nat /\ At(i) <= RunEnd(At(i))
             /\ \A f \in At(i) .. RunEnd(At(i)) : f \in Frames /\ mem[f] = mem[At(i)]
             /\ mem[At(i)] \in Types
  <2>1. At(i) \in RunStarts
    BY <1>2
  <2>2. mem[At(i)] \in MemTypes /\ mem[At(i)] # "hole"
    BY <2>1, <1>1 DEF RunStarts
  <2>3. mem[At(i)] \in Types
    BY <2>2 DEF MemTypes, Types
  <2>4. Frames \subseteq Nat /\ At(i) \in Frames
    BY <2>1, <1>1, SameFrames, LoaderFramesAssumption
  <2>5. QED
    BY <2>1, <2>3, <2>4, RunEnds
<1>7. ASSUME NEW i \in 1 .. n PROVE d[i] \in Descriptors
  BY <1>5, <1>6 DEF Descriptors
<1>8. d \in Seq(Descriptors)
  <2>1. d = [i \in 1 .. n |-> d[i]]
    BY <1>4, <1>5
  <2>2. QED
    BY <1>1, <1>7, <2>1
<1>9. Apart(d)
  <2>1. SUFFICES ASSUME NEW i \in 1 .. n, NEW l \in 1 .. n, i # l,
                        NEW f \in FramesOf(d[i]), f \in FramesOf(d[l])
                 PROVE  FALSE
    BY <1>5 DEF Apart
  <2>2. /\ f \in At(i) .. RunEnd(At(i)) /\ f \in At(l) .. RunEnd(At(l))
    BY <1>5, <1>6, <2>1 DEF FramesOf, Run
  <2>3. At(i) < At(l) \/ At(l) < At(i)
    BY <1>3, <1>6, <2>1
  <2>4. RunEnd(At(i)) < At(l) \/ RunEnd(At(l)) < At(i)
    BY <1>2, <2>3, RunsApart
  <2>5. QED
    BY <1>6, <2>2, <2>4
<1>10. True(d)
  <2>1. SUFFICES ASSUME NEW i \in 1 .. n, NEW f \in FramesOf(d[i])
                 PROVE  f \in Frames /\ mem[f] = d[i].type
    BY <1>5 DEF True
  <2>2. f \in At(i) .. RunEnd(At(i))
    BY <1>5, <1>6 DEF FramesOf, Run
  <2>3. QED
    BY <1>5, <1>6, <2>2
<1>11. QED
  BY <1>8, <1>9, <1>10 DEF d

-----------------------------------------------------------------------------
(* A table in the order of the descriptors.                                *)

(* That order is strict.                                                   *)
LEMMA ListedOnce ==
  ASSUME NEW d \in Seq(Descriptors), Apart(d), NEW f, NEW g, ListedBefore(d, g, f)
  PROVE  f # g /\ ~ListedBefore(d, f, g)
<1>1. ASSUME NEW i \in DOMAIN d PROVE FramesOf(d[i]) \subseteq Nat
  <2>1. d[i] \in Descriptors
    OBVIOUS
  <2>2. d[i].base \in Nat /\ d[i].pages \in Nat
    BY <2>1 DEF Descriptors
  <2>3. QED
    BY <2>2 DEF FramesOf, Run
<1>2. \A h : \A i, l \in DOMAIN d : h \in FramesOf(d[i]) /\ h \in FramesOf(d[l]) => i = l
  BY DEF Apart
<1>3. DOMAIN d \subseteq Nat
  OBVIOUS
<1>4. PICK i \in DOMAIN d, l \in DOMAIN d :
        g \in FramesOf(d[i]) /\ f \in FramesOf(d[l]) /\ (i < l \/ (i = l /\ g < f))
  BY DEF ListedBefore
<1>5. f \in Nat /\ g \in Nat /\ i \in Nat /\ l \in Nat
  BY <1>1, <1>3, <1>4
<1>6. f # g
  BY <1>2, <1>4, <1>5
<1>7. ASSUME ListedBefore(d, f, g) PROVE FALSE
  <2>1. PICK m \in DOMAIN d, n \in DOMAIN d :
          f \in FramesOf(d[m]) /\ g \in FramesOf(d[n]) /\ (m < n \/ (m = n /\ f < g))
    BY <1>7 DEF ListedBefore
  <2>2. m = l /\ n = i
    BY <1>2, <1>4, <2>1
  <2>3. QED
    BY <1>4, <1>5, <2>1, <2>2
<1>8. QED
  BY <1>6, <1>7

(* Such a table is sound.                                                  *)
LEMMA InOrderSound ==
  ASSUME NEW d \in Seq(Descriptors), Apart(d), NEW tb \in Seq(Ranges), InOrder(tb, d)
  PROVE  Sound(tb)
<1>1. ASSUME NEW i \in DOMAIN tb, NEW l \in DOMAIN tb, i < l
      PROVE  PagesOf(tb[i]) \cap PagesOf(tb[l]) = {}
  <2>1. SUFFICES ASSUME NEW p \in PagesOf(tb[i]), p \in PagesOf(tb[l]) PROVE FALSE
    OBVIOUS
  <2>2. ListedBefore(d, p, p)
    BY <1>1, <2>1 DEF InOrder
  <2>3. QED
    BY <2>2, ListedOnce
<1>2. ASSUME NEW i \in DOMAIN tb, NEW l \in DOMAIN tb, i # l
      PROVE  PagesOf(tb[i]) \cap PagesOf(tb[l]) = {}
  <2>1. i < l \/ l < i
    BY <1>2
  <2>2. QED
    BY <2>1, <1>1
<1>3. QED
  BY <1>2 DEF InOrder, Sound

(* A range of a later descriptor can be added.                             *)
LEMMA InOrderAppend ==
  ASSUME NEW d, NEW tb \in Seq(Ranges), InOrder(tb, d), NEW r \in Ranges, r.pages > 0,
         \A p \in Covered(tb), q \in PagesOf(r) : ListedBefore(d, p, q),
         \A p, q \in PagesOf(r) : p < q => ListedBefore(d, p, q)
  PROVE  LET new == Append(tb, r)
         IN  new \in Seq(Ranges) /\ InOrder(new, d) /\ Covered(new) = Covered(tb) \cup PagesOf(r)
<1> DEFINE new == Append(tb, r)
           n == Len(tb)
<1>1. /\ new \in Seq(Ranges) /\ n \in Nat /\ DOMAIN tb = 1 .. n /\ DOMAIN new = 1 .. n + 1
      /\ \A i \in 1 .. n : new[i] = tb[i]
      /\ new[n + 1] = r
  OBVIOUS
<1> HIDE DEF new, n
<1>2. \A i \in 1 .. n + 1 : i \in 1 .. n \/ i = n + 1
  BY <1>1
<1>3. \A i \in 1 .. n + 1 : new[i].pages > 0
  BY <1>1, <1>2 DEF InOrder
<1>4. ASSUME NEW i \in 1 .. n + 1, NEW l \in 1 .. n + 1,
             NEW p \in PagesOf(new[i]), NEW q \in PagesOf(new[l]), i < l \/ (i = l /\ p < q)
      PROVE  ListedBefore(d, p, q)
  <2>1. CASE l \in 1 .. n
    <3>1. i \in 1 .. n
      BY <1>1, <1>4, <2>1
    <3>2. QED
      BY <1>1, <1>4, <2>1, <3>1 DEF InOrder
  <2>2. CASE l = n + 1 /\ i = l
    BY <1>1, <1>4, <2>2
  <2>3. CASE l = n + 1 /\ i # l
    <3>1. i \in 1 .. n
      BY <1>1, <1>4, <2>3
    <3>2. p \in Covered(tb)
      BY <1>1, <3>1 DEF Covered
    <3>3. QED
      BY <1>1, <2>3, <3>2
  <2>4. QED
    BY <1>2, <2>1, <2>2, <2>3
<1>5. InOrder(new, d)
  BY <1>1, <1>3, <1>4 DEF InOrder
<1>6. Covered(new) = Covered(tb) \cup PagesOf(r)
  <2>1. ASSUME NEW p \in Covered(new) PROVE p \in Covered(tb) \cup PagesOf(r)
    <3>1. PICK i \in 1 .. n + 1 : p \in PagesOf(new[i])
      BY <1>1, <2>1 DEF Covered
    <3>2. QED
      BY <1>1, <1>2, <3>1 DEF Covered
  <2>2. ASSUME NEW p \in Covered(tb) PROVE p \in Covered(new)
    <3>1. PICK i \in 1 .. n : p \in PagesOf(tb[i])
      BY <1>1, <2>2 DEF Covered
    <3>2. i \in 1 .. n + 1
      BY <1>1
    <3>3. QED
      BY <1>1, <3>1, <3>2 DEF Covered
  <2>3. n + 1 \in 1 .. n + 1
    BY <1>1
  <2>4. PagesOf(r) \subseteq Covered(new)
    BY <1>1, <2>3 DEF Covered
  <2>5. QED
    BY <2>1, <2>2, <2>4
<1>7. QED
  BY <1>1, <1>5, <1>6 DEF new

(* mmap_get_pages(tb, 1) gives its first page, and leaves it in order.     *)
LEMMA InOrderTake ==
  ASSUME NEW d \in Seq(Descriptors), Apart(d),
         NEW tb \in Seq(Ranges), InOrder(tb, d), 0 \notin Covered(tb),
         NEW got, got = mmap_get_pages(tb, 1)
  PROVE  /\ got.tab \in Seq(Ranges) /\ InOrder(got.tab, d)
         /\ got.addr = 0 => got.tab = tb
         /\ got.addr # 0 => /\ got.addr \in Covered(tb)
                            /\ Covered(got.tab) = Covered(tb) \ {got.addr}
                            /\ \A p \in Covered(tb) : p = got.addr \/ ListedBefore(d, got.addr, p)
<1>1. CASE Fits(tb, 1) = {}
  <2>1. got = [addr |-> 0, tab |-> tb]
    BY <1>1 DEF mmap_get_pages
  <2>2. QED
    BY <2>1
<1>2. CASE Fits(tb, 1) # {}
  <2> DEFINE b == tb[1].base
             m == tb[1].pages
             n == Len(tb)
  <2>1. n \in Nat /\ DOMAIN tb = 1 .. n /\ \A i \in 1 .. n : tb[i] \in Ranges
    OBVIOUS
  <2> HIDE DEF n
  <2>2. \A i \in 1 .. n : /\ tb[i].base \in Nat /\ tb[i].pages \in Nat /\ tb[i].pages > 0
    BY <2>1 DEF InOrder, Ranges
  <2>3. Fits(tb, 1) = 1 .. n /\ 1 \in 1 .. n
    <3>1. Fits(tb, 1) = 1 .. n
      BY <2>1, <2>2 DEF Fits
    <3>2. QED
      BY <1>2, <2>1, <3>1
  <2>4. First(Fits(tb, 1)) = 1
    <3>1. \A i \in 1 .. n : 1 <= i
      BY <2>1
    <3>2. First(1 .. n) \in 1 .. n /\ \A i \in 1 .. n : First(1 .. n) <= i
      BY <2>3, <3>1 DEF First
    <3>3. QED
      BY <2>1, <2>3, <3>2
  <2>5. got = [addr |-> b, tab |-> IF m = 1 THEN RemoveRange(tb, 1) ELSE TakeFront(tb, 1, 1)]
    BY <1>2, <2>4 DEF mmap_get_pages
  <2>6. got.addr = b /\ got.tab = IF m = 1 THEN RemoveRange(tb, 1) ELSE TakeFront(tb, 1, 1)
    BY <2>5
  <2>7. b \in PagesOf(tb[1]) /\ b \in Covered(tb) /\ Run(b, 1) = {b} /\ b \in Nat
    <3>1. b \in PagesOf(tb[1])
      BY <2>2, <2>3 DEF PagesOf
    <3>2. QED
      BY <2>1, <2>2, <2>3, <3>1 DEF Covered, Run
  <2>8. ASSUME NEW p \in Covered(tb), p # b PROVE ListedBefore(d, b, p)
    <3>1. PICK i \in 1 .. n : p \in PagesOf(tb[i])
      BY <2>1, <2>8 DEF Covered
    <3>2. 1 < i \/ (1 = i /\ b < p)
      BY <2>1, <2>2, <2>8, <3>1 DEF PagesOf
    <3>3. QED
      BY <2>1, <2>3, <2>7, <3>1, <3>2 DEF InOrder
  <2>9. got.tab \in Seq(Ranges) /\ Covered(got.tab) = Covered(tb) \ {b}
    <3>1. Sound(tb) /\ 1 \in Nat \ {0} /\ b # 0
      BY <2>7, InOrderSound
    <3>2. /\ got.tab \in Seq(Ranges)
          /\ got.addr # 0 => Covered(got.tab) = Covered(tb) \ Run(got.addr, 1)
      BY <3>1, GetPages
    <3>3. QED
      BY <2>6, <2>7, <3>1, <3>2
  <2>10. InOrder(got.tab, d)
    <3>1. CASE m = 1
      <4> DEFINE new == RemoveRange(tb, 1)
      <4>1. new = [i \in 1 .. n - 1 |-> tb[i + 1]]
        BY <2>1 DEF RemoveRange, n
      <4>2. DOMAIN new = 1 .. n - 1 /\ \A i \in 1 .. n - 1 : new[i] = tb[i + 1]
        BY <4>1
      <4> HIDE DEF new
      <4>3. \A i \in 1 .. n - 1 : i + 1 \in 1 .. n
        BY <2>1
      <4>4. ASSUME NEW i \in 1 .. n - 1, NEW l \in 1 .. n - 1,
                   NEW p \in PagesOf(new[i]), NEW q \in PagesOf(new[l]), i < l \/ (i = l /\ p < q)
            PROVE  ListedBefore(d, p, q)
        <5>1. i + 1 \in 1 .. n /\ l + 1 \in 1 .. n /\ (i + 1 < l + 1 \/ (i + 1 = l + 1 /\ p < q))
          BY <2>1, <4>4
        <5>2. p \in PagesOf(tb[i + 1]) /\ q \in PagesOf(tb[l + 1])
          BY <4>2
        <5>3. QED
          BY <2>1, <5>1, <5>2 DEF InOrder
      <4>5. InOrder(new, d)
        BY <2>1, <2>2, <4>2, <4>3, <4>4 DEF InOrder
      <4>6. QED
        BY <2>6, <3>1, <4>5 DEF new
    <3>2. CASE m # 1
      <4> DEFINE new == TakeFront(tb, 1, 1)
      <4>1. DOMAIN new = 1 .. n
        BY <2>1 DEF TakeFront
      <4>2. new[1] = [base |-> b + 1, pages |-> m - 1]
        BY <2>1, <2>3 DEF TakeFront, memory_range
      <4>3. \A i \in 1 .. n : i # 1 => new[i] = tb[i]
        BY <2>1 DEF TakeFront
      <4> HIDE DEF new
      <4>4. new[1].base = b + 1 /\ new[1].pages = m - 1
        BY <4>2
      <4>5. \A i \in 1 .. n : new[i].pages > 0
        BY <2>2, <2>3, <3>2, <4>3, <4>4
      <4>6. ASSUME NEW i \in 1 .. n PROVE PagesOf(new[i]) \subseteq PagesOf(tb[i])
        <5>1. CASE i = 1
          <6>1. b \in Nat /\ m \in Nat
            BY <2>2, <2>3
          <6>2. PagesOf(new[1]) = b + 1 .. (b + 1) + (m - 1) - 1 /\ PagesOf(tb[1]) = b .. b + m - 1
            BY <4>4 DEF PagesOf
          <6> HIDE DEF b, m
          <6>3. QED
            BY <5>1, <6>1, <6>2
        <5>2. CASE i # 1
          BY <4>3, <5>2
        <5>3. QED
          BY <5>1, <5>2
      <4>7. InOrder(new, d)
        BY <2>1, <4>1, <4>5, <4>6 DEF InOrder
      <4>8. QED
        BY <2>6, <3>2, <4>7 DEF new
    <3>3. QED
      BY <3>1, <3>2
  <2>11. QED
    BY <2>6, <2>7, <2>8, <2>9, <2>10
<1>3. QED
  BY <1>1, <1>2

-----------------------------------------------------------------------------
(* The descriptors.                                                        *)

(* A frame of the first n descriptors is one of one of them; ...           *)
LEMMA BeforeIs ==
  ASSUME NEW n, NEW T, NEW f
  PROVE  f \in Before(n, T) <=>
           \E i \in 1 .. n : i <= Len(desc) /\ desc[i].type \in T /\ f \in FramesOf(desc[i])
BY DEF Before

(* ... with the next descriptor its frames come to them.                   *)
LEMMA BeforeNext ==
  ASSUME next \in Nat \ {0}, next <= Len(desc), NEW T
  PROVE  Before(next, T) = Before(next - 1, T)
                             \cup (IF desc[next].type \in T THEN FramesOf(desc[next]) ELSE {})
<1>1. \A i : i \in 1 .. next <=> i \in 1 .. next - 1 \/ i = next
  OBVIOUS
<1>2. ASSUME NEW f
      PROVE  f \in Before(next, T) <=> \/ f \in Before(next - 1, T)
                                       \/ desc[next].type \in T /\ f \in FramesOf(desc[next])
  BY <1>1, BeforeIs
<1>3. QED
  BY <1>2

(* The frames of one descriptor are none of another's, and are listed      *)
(* before those of a later one.                                            *)
LEMMA DescriptorsApart ==
  ASSUME desc \in Seq(Descriptors), Apart(desc),
         NEW i \in 1 .. Len(desc), NEW l \in 1 .. Len(desc), i < l,
         NEW f \in FramesOf(desc[i]), NEW g \in FramesOf(desc[l])
  PROVE  f # g /\ ListedBefore(desc, f, g)
<1>1. DOMAIN desc = 1 .. Len(desc)
  OBVIOUS
<1>2. QED
  BY <1>1 DEF Apart, ListedBefore

(* What the kernel is given of a usable descriptor: all of it but page 0   *)
(* and the AP image.                                                       *)
ImageOf(d) == IF PlacesImage(d) THEN Run(d.base, ImagePages) ELSE {}

(* Its frames, in the terms of the descriptor.                             *)
LEMMA GivenFrames ==
  ASSUME NEW d \in Descriptors
  PROVE  /\ Given(d) \in Descriptors /\ d.base <= Given(d).base
         /\ FramesOf(Given(d)) = FramesOf(d) \ ({0} \cup ImageOf(d))
         /\ ImageOf(d) \subseteq FramesOf(d)
<1> DEFINE t == TrimImage(d)
<1>1. ImagePages \in Nat /\ ImagePages > 0 /\ d.base \in Nat /\ d.pages \in Nat /\ d.type \in Types
  BY SizesAssumption DEF Descriptors
<1>2. /\ t \in Descriptors /\ d.base <= t.base
      /\ FramesOf(t) = FramesOf(d) \ ImageOf(d)
      /\ ImageOf(d) \subseteq FramesOf(d)
  <2>1. CASE PlacesImage(d)
    <3>1. ImagePages <= d.pages
      BY <2>1 DEF PlacesImage
    <3>2. t = [type |-> d.type, base |-> d.base + ImagePages, pages |-> d.pages - ImagePages]
      BY <2>1 DEF TrimImage, Descriptors
    <3>3. t.base = d.base + ImagePages /\ t.pages = d.pages - ImagePages
      BY <3>2
    <3>4. t \in Descriptors
      BY <1>1, <3>1, <3>2 DEF Descriptors
    <3>5. ImageOf(d) = Run(d.base, ImagePages)
      BY <2>1 DEF ImageOf
    <3>6. /\ FramesOf(t) = t.base .. t.base + t.pages - 1
          /\ FramesOf(d) = d.base .. d.base + d.pages - 1
          /\ ImageOf(d) = d.base .. d.base + ImagePages - 1
      BY <3>5 DEF FramesOf, Run
    <3> HIDE DEF t
    <3> DEFINE b == d.base
               n == d.pages
    <3>7. /\ b \in Nat /\ n \in Nat /\ FramesOf(d) = b .. b + n - 1 /\ ImageOf(d) = b .. b + ImagePages - 1
          /\ FramesOf(t) = b + ImagePages .. b + ImagePages + (n - ImagePages) - 1
      BY <1>1, <3>3, <3>6
    <3> HIDE DEF b, n
    <3>8. /\ FramesOf(t) = FramesOf(d) \ ImageOf(d) /\ ImageOf(d) \subseteq FramesOf(d)
      <4>1. ImagePages <= n
        BY <3>1 DEF n
      <4>2. QED
        BY <1>1, <3>7, <4>1
    <3>9. d.base <= t.base
      BY <1>1, <3>3
    <3>10. QED
      BY <3>4, <3>8, <3>9
  <2>2. CASE ~PlacesImage(d)
    BY <1>1, <2>2 DEF TrimImage, ImageOf
  <2>3. QED
    BY <2>1, <2>2
<1> HIDE DEF t
<1>3. Given(d) = TrimZero(t)
  BY DEF Given, t
<1>4. t.base \in Nat /\ t.pages \in Nat
  BY <1>2 DEF Descriptors
<1>5. CASE t.base = 0 /\ t.pages > 0
  <2>1. TrimZero(t) = [type |-> t.type, base |-> 1, pages |-> t.pages - 1]
    BY <1>2, <1>5 DEF TrimZero, Descriptors
  <2>2. TrimZero(t) \in Descriptors
    BY <1>2, <1>4, <1>5, <2>1 DEF Descriptors
  <2>3. TrimZero(t).base = 1 /\ TrimZero(t).pages = t.pages - 1
    BY <2>1
  <2>4. FramesOf(TrimZero(t)) = FramesOf(t) \ {0}
    BY <1>4, <1>5, <2>3 DEF FramesOf, Run
  <2>5. QED
    BY <1>1, <1>2, <1>3, <1>5, <2>2, <2>3, <2>4
<1>6. CASE ~(t.base = 0 /\ t.pages > 0)
  <2>1. TrimZero(t) = t
    BY <1>6 DEF TrimZero
  <2>2. 0 \notin FramesOf(t)
    BY <1>4, <1>6 DEF FramesOf, Run
  <2>3. QED
    BY <1>2, <1>3, <2>1, <2>2
<1>7. QED
  BY <1>5, <1>6

-----------------------------------------------------------------------------
(* init_mmap.                                                              *)

(* A step that leaves the table, the image and the place in the            *)
(* descriptors alone.                                                      *)
LEMMA TableStays ==
  ASSUME KernelInv, at # "off", at' # "off", at # "panic",
         UNCHANGED <<mem, step, desc, own, next, apBase, tab, wiped>>
  PROVE  /\ DescInv' /\ ImageInv' /\ TabInv' /\ TableExact' /\ WipedInOrder'
         /\ \A n : Gone(n)' = Gone(n)
<1>1. \A n, T : Before(n, T)' = Before(n, T)
  BY DEF Before
<1>2. Image' = Image
  BY DEF Image
<1>3. DescInv'
  BY DEF KernelInv, DescInv, Apart, True, OwnPages
<1>4. ImageInv'
  BY <1>2 DEF KernelInv, ImageInv
<1>5. TabInv'
  BY <1>1, <1>2 DEF KernelInv, TabInv
<1>6. TableExact'
  BY <1>1, <1>2 DEF KernelInv, TableExact
<1>7. WipedInOrder'
  BY <1>1, <1>2 DEF KernelInv, WipedInOrder
<1>8. \A n : Gone(n)' = Gone(n)
  BY <1>1, <1>2 DEF Gone
<1>9. QED
  BY <1>3, <1>4, <1>5, <1>6, <1>7, <1>8

(* The last page of a run.                                                 *)
LEMMA RunGrows ==
  ASSUME NEW b \in Nat, NEW n \in Nat
  PROVE  Run(b, n + 1) = Run(b, n) \cup {b + n}
BY DEF Run

(* A page that holds descriptors is left.                                  *)
LEMMA SkipOwnKeeps ==
  ASSUME KernelInv, SkipOwn, UNCHANGED loaderVars
  PROVE  KernelInv'
<1>1. /\ at = "unmap" /\ InLoop /\ Page \in own /\ j' = j + 1
      /\ UNCHANGED <<at, desc, own, walk, next, cur, apBase, tab, ident, large, huge, need, wiped>>
  BY DEF SkipOwn
<1>2. FwTypeOK'
  BY <1>1 DEF KernelInv, FwTypeOK
<1>3. /\ DescInv' /\ ImageInv' /\ TabInv' /\ TableExact' /\ WipedInOrder'
      /\ \A n : Gone(n)' = Gone(n)
  BY <1>1, TableStays DEF loaderVars
<1>4. IdentInv'
  <2>1. /\ next > 1 /\ Gone(next - 1) = Gone(next - 2) \cup FramesOf(cur)
        /\ ident = Frames \ ((Gone(next - 2) \cup Run(cur.base, j)) \ own)
    BY <1>1 DEF KernelInv, IdentInv
  <2>2. /\ j < cur.pages /\ cur.base + j \in own
        /\ j \in Nat /\ cur.base \in Nat /\ cur.pages \in Nat
    BY <1>1 DEF InLoop, Page, KernelInv, FwTypeOK, Descriptors
  <2>3. Run(cur.base, j + 1) = Run(cur.base, j) \cup {cur.base + j}
    BY <2>2, RunGrows
  <2>4. ident = Frames \ ((Gone(next - 2) \cup Run(cur.base, j + 1)) \ own)
    BY <2>1, <2>2, <2>3
  <2>5. j + 1 <= cur.pages
    BY <2>2
  <2>6. /\ Gone(next - 1)' = Gone(next - 1) /\ Gone(next - 2)' = Gone(next - 2)
        /\ FramesOf(cur)' = FramesOf(cur)
    BY <1>1, <1>3 DEF FramesOf
  <2>7. QED
    BY <1>1, <2>1, <2>4, <2>5, <2>6 DEF IdentInv
<1>5. QED
  BY <1>2, <1>3, <1>4 DEF KernelInv

(* The frame numbers of the descriptors' own pages.                        *)
LEMMA OwnIsRun ==
  ASSUME KernelInv
  PROVE  /\ OwnPages \in Nat /\ OwnPages > 0
         /\ First(own) \in own /\ own = Run(First(own), OwnPages)
         /\ own \subseteq Frames /\ First(own) \in Nat
<1>1. own \subseteq Frames /\ Frames \subseteq Nat /\ IsFiniteSet(Frames)
  BY FramesAssumption DEF KernelInv, FwTypeOK
<1>2. OwnPages \in Nat
  BY <1>1, FS_Subset, FS_CardinalityType DEF OwnPages
<1>3. PICK first \in own : own = Run(first, OwnPages)
  BY DEF KernelInv, DescInv
<1>4. first \in Nat /\ \A f \in own : f \in Nat /\ first <= f
  BY <1>1, <1>2, <1>3 DEF Run
<1>5. First(own) = first
  <2>1. First(own) \in own /\ \A f \in own : First(own) <= f
    <3>1. \E i \in own : \A f \in own : i <= f
      BY <1>3, <1>4
    <3>2. First(own) = CHOOSE i \in own : \A f \in own : i <= f
      BY DEF First
    <3>3. QED
      BY <3>1, <3>2
  <2> DEFINE g == First(own)
  <2> HIDE DEF g
  <2>2. g \in own /\ \A f \in own : g <= f
    BY <2>1 DEF g
  <2>3. g \in Nat /\ first <= g /\ g <= first
    BY <1>3, <1>4, <2>2
  <2>4. QED
    BY <1>4, <2>3 DEF g
<1>6. OwnPages > 0
  BY <1>2, <1>3, <1>4 DEF Run
<1>7. QED
  BY <1>1, <1>2, <1>3, <1>4, <1>5, <1>6

(* A page is taken out of the identity mapping.                            *)
LEMMA UnmapPageKeeps ==
  ASSUME KernelInv, unmap_page, UNCHANGED loaderVars
  PROVE  KernelInv'
<1>1. /\ Unmapping /\ ident' = ident \ {Page} /\ j' = j + 1
      /\ UNCHANGED <<at, desc, own, walk, next, cur, apBase, tab, large, huge, need, wiped>>
      /\ at \in {"unmap", "own"}
  BY DEF unmap_page, Unmapping, InLoop
<1>2. FwTypeOK'
  BY <1>1 DEF KernelInv, FwTypeOK
<1>3. /\ DescInv' /\ ImageInv' /\ TabInv' /\ TableExact' /\ WipedInOrder'
      /\ \A n : Gone(n)' = Gone(n)
  BY <1>1, TableStays DEF loaderVars
<1>4. CASE at = "unmap"
  <2>1. /\ next > 1 /\ Gone(next - 1) = Gone(next - 2) \cup FramesOf(cur)
        /\ ident = Frames \ ((Gone(next - 2) \cup Run(cur.base, j)) \ own)
    BY <1>4 DEF KernelInv, IdentInv
  <2>2. /\ j < cur.pages /\ Page = cur.base + j /\ cur.base + j \notin own
        /\ j \in Nat /\ cur.base \in Nat /\ cur.pages \in Nat
    BY <1>1, <1>4 DEF Unmapping, InLoop, Page, KernelInv, FwTypeOK, Descriptors
  <2>3. Run(cur.base, j + 1) = Run(cur.base, j) \cup {cur.base + j}
    BY <2>2, RunGrows
  <2>4. ident' = Frames \ ((Gone(next - 2) \cup Run(cur.base, j + 1)) \ own)
    BY <1>1, <2>1, <2>2, <2>3
  <2>5. j + 1 <= cur.pages
    BY <2>2
  <2>6. /\ Gone(next - 1)' = Gone(next - 1) /\ Gone(next - 2)' = Gone(next - 2)
        /\ FramesOf(cur)' = FramesOf(cur)
    BY <1>1, <1>3 DEF FramesOf
  <2>7. IdentInv'
    BY <1>1, <1>4, <2>1, <2>4, <2>5, <2>6 DEF IdentInv
  <2>8. QED
    BY <1>2, <1>3, <2>7 DEF KernelInv
<1>5. CASE at = "own"
  <2>1. /\ next = Len(desc) + 1
        /\ ident = Frames \ ((Gone(Len(desc)) \ own) \cup Run(First(own), j))
    BY <1>5 DEF KernelInv, IdentInv
  <2>2. /\ j < OwnPages /\ Page = First(own) + j
        /\ j \in Nat /\ First(own) \in Nat /\ OwnPages \in Nat
    BY <1>1, <1>5, OwnIsRun DEF Unmapping, InLoop, Page, KernelInv, FwTypeOK
  <2>3. Run(First(own), j + 1) = Run(First(own), j) \cup {First(own) + j}
    BY <2>2, RunGrows
  <2>4. ident' = Frames \ ((Gone(Len(desc)) \ own) \cup Run(First(own), j + 1))
    BY <1>1, <2>1, <2>2, <2>3
  <2>5. j + 1 <= OwnPages
    BY <2>2
  <2>6. Gone(Len(desc))' = Gone(Len(desc)) /\ First(own)' = First(own) /\ OwnPages' = OwnPages
    BY <1>1, <1>3 DEF First, OwnPages
  <2>7. IdentInv'
    BY <1>1, <1>5, <2>1, <2>4, <2>5, <2>6 DEF IdentInv
  <2>8. QED
    BY <1>2, <1>3, <2>7 DEF KernelInv
<1>6. QED
  BY <1>1, <1>4, <1>5

(* The descriptor is done.                                                 *)
LEMMA NextDescriptorKeeps ==
  ASSUME KernelInv, NextDescriptor, UNCHANGED loaderVars
  PROVE  KernelInv'
<1>1. /\ at = "unmap" /\ j = cur.pages /\ at' = "read"
      /\ UNCHANGED <<desc, own, walk, next, cur, j, apBase, tab, ident, large, huge, need, wiped>>
  BY DEF NextDescriptor
<1>2. FwTypeOK'
  BY <1>1 DEF KernelInv, FwTypeOK
<1>3. /\ DescInv' /\ ImageInv' /\ TabInv' /\ TableExact' /\ WipedInOrder'
      /\ \A n : Gone(n)' = Gone(n)
  BY <1>1, TableStays DEF loaderVars
<1>4. ident = Frames \ (Gone(next - 1) \ own)
  BY <1>1 DEF KernelInv, IdentInv, FramesOf
<1>5. IdentInv'
  BY <1>1, <1>3, <1>4 DEF IdentInv
<1>6. QED
  BY <1>2, <1>3, <1>5 DEF KernelInv

(* All descriptors are done.                                               *)
LEMMA EndOfMapKeeps ==
  ASSUME KernelInv, EndOfMap, UNCHANGED loaderVars
  PROVE  KernelInv'
<1>1. /\ at = "read" /\ next > Len(desc) /\ at' \in {"panic", "own"} /\ j' = 0
      /\ UNCHANGED <<desc, own, walk, next, cur, apBase, tab, ident, large, huge, need, wiped>>
  BY DEF EndOfMap
<1>2. FwTypeOK'
  BY <1>1 DEF KernelInv, FwTypeOK
<1>3. /\ DescInv' /\ ImageInv' /\ TabInv' /\ TableExact' /\ WipedInOrder'
      /\ \A n : Gone(n)' = Gone(n)
  BY <1>1, TableStays DEF loaderVars
<1>4. next = Len(desc) + 1 /\ Len(desc) \in Nat /\ next - 1 = Len(desc)
  BY <1>1 DEF KernelInv, DescInv, FwTypeOK
<1>5. ident = Frames \ (Gone(Len(desc)) \ own)
  BY <1>1, <1>4 DEF KernelInv, IdentInv
<1>6. OwnPages \in Nat /\ First(own) \in Nat /\ Run(First(own), 0) = {}
  BY OwnIsRun DEF Run
<1>7. Gone(Len(desc))' = Gone(Len(desc)) /\ First(own)' = First(own) /\ OwnPages' = OwnPages
  BY <1>1, <1>3 DEF First, OwnPages
<1>8. IdentInv'
  BY <1>1, <1>4, <1>5, <1>6, <1>7 DEF IdentInv
<1>9. QED
  BY <1>2, <1>3, <1>8 DEF KernelInv

(* Steps that do not touch the identity mapping.                           *)
LEMMA InitHeapKeeps ==
  ASSUME KernelInv, InitHeap, UNCHANGED loaderVars
  PROVE  KernelInv'
<1>1. /\ at = "own" /\ j = OwnPages /\ at' = "done"
      /\ UNCHANGED <<desc, own, walk, next, cur, j, apBase, tab, ident, large, huge, need, wiped>>
  BY DEF InitHeap
<1>2. FwTypeOK'
  BY <1>1 DEF KernelInv, FwTypeOK
<1>3. /\ DescInv' /\ ImageInv' /\ TabInv' /\ TableExact' /\ WipedInOrder'
      /\ \A n : Gone(n)' = Gone(n)
  BY <1>1, TableStays DEF loaderVars
<1>4. ident = Frames \ (Gone(Len(desc)) \cup own)
  <2>1. ident = Frames \ ((Gone(Len(desc)) \ own) \cup own)
    BY <1>1, OwnIsRun DEF KernelInv, IdentInv
  <2>2. QED
    BY <2>1
<1>5. Gone(Len(desc))' = Gone(Len(desc))
  BY <1>1, <1>3
<1>6. IdentInv'
  BY <1>1, <1>4, <1>5 DEF IdentInv
<1>7. QED
  BY <1>2, <1>3, <1>6 DEF KernelInv

(* The 1 GiB page around the frame in work is split.                       *)
LEMMA SplitKeeps ==
  ASSUME KernelInv, Split, UNCHANGED loaderVars
  PROVE  KernelInv'
<1>1. /\ at \in {"unmap", "own"} /\ huge' \subseteq huge /\ large' \subseteq large
      /\ need' \in {1, 1 + HugePages \div LargePages}
      /\ UNCHANGED <<at, desc, own, walk, next, cur, j, apBase, tab, ident, wiped>>
  BY DEF Split, Unmapping, InLoop
<1>2. FwTypeOK'
  <2>1. need' \in Nat
    <3>1. HugePages \div LargePages \in Nat
      BY SizesAssumption
    <3>2. QED
      BY <1>1, <3>1
  <2>2. QED
    BY <1>1, <2>1 DEF KernelInv, FwTypeOK
<1>3. /\ DescInv' /\ ImageInv' /\ TabInv' /\ TableExact' /\ WipedInOrder'
      /\ \A n : Gone(n)' = Gone(n)
  BY <1>1, TableStays DEF loaderVars
<1>4. IdentInv'
  <2>1. FramesOf(cur)' = FramesOf(cur) /\ First(own)' = First(own) /\ OwnPages' = OwnPages
    BY <1>1 DEF FramesOf, First, OwnPages
  <2>2. /\ Gone(next - 1)' = Gone(next - 1) /\ Gone(next - 2)' = Gone(next - 2)
        /\ Gone(Len(desc))' = Gone(Len(desc))
    BY <1>1, <1>3
  <2>3. QED
    BY <1>1, <2>1, <2>2 DEF KernelInv, IdentInv
<1>5. QED
  BY <1>2, <1>3, <1>4 DEF KernelInv

(* What was still to be read has been overwritten: the kernel is lost.     *)
LEMMA LostKeeps ==
  ASSUME KernelInv, Lost, UNCHANGED loaderVars
  PROVE  KernelInv'
<1>1. /\ at \in {"read", "unmap", "own"} /\ at' = "lost"
      /\ UNCHANGED <<desc, own, walk, next, cur, j, apBase, tab, ident, large, huge, need, wiped>>
  BY DEF Lost, InLoop
<1>2. FwTypeOK'
  BY <1>1 DEF KernelInv, FwTypeOK
<1>3. DescInv' /\ ImageInv' /\ TabInv' /\ TableExact' /\ WipedInOrder'
  BY <1>1, TableStays DEF loaderVars
<1>4. IdentInv'
  BY <1>1 DEF IdentInv
<1>5. QED
  BY <1>2, <1>3, <1>4 DEF KernelInv

(* A page table is made of the first frame that has been recorded.         *)
LEMMA MakeTableKeeps ==
  ASSUME KernelInv, MakeTable, UNCHANGED loaderVars
  PROVE  KernelInv'
<1> DEFINE B == Before(Len(desc), Usable) \ ({0} \cup Image)
           C == Before(next - 1, Usable) \ ({0} \cup Image)
<1>1. PICK got : /\ got = mmap_get_pages(tab, 1)
                 /\ at \in {"unmap", "own"} /\ tab' = got.tab
                 /\ IF got.addr = 0
                    THEN at' = "panic" /\ UNCHANGED <<need, wiped>>
                    ELSE need' = need - 1 /\ wiped' = wiped \cup {got.addr} /\ UNCHANGED at
                 /\ UNCHANGED <<desc, own, walk, next, cur, j, apBase, ident, large, huge>>
                 /\ need > 0
  BY Zenon DEF MakeTable, Unmapping, InLoop
<1>2. /\ desc \in Seq(Descriptors) /\ Apart(desc) /\ True(desc) /\ Len(desc) \in Nat
      /\ next \in Nat \ {0} /\ next <= Len(desc) + 1 /\ DOMAIN desc = 1 .. Len(desc)
  BY <1>1 DEF KernelInv, FwTypeOK, DescInv
<1>3. /\ tab \in Seq(Ranges) /\ InOrder(tab, desc) /\ 0 \notin Covered(tab)
      /\ Covered(tab) \cup wiped \subseteq C /\ Covered(tab) \cap wiped = {}
      /\ Covered(tab) = C \ wiped
  BY <1>1 DEF KernelInv, FwTypeOK, TabInv, TableExact
<1>4. /\ got.tab \in Seq(Ranges) /\ InOrder(got.tab, desc)
      /\ got.addr = 0 => got.tab = tab
      /\ got.addr # 0 => /\ got.addr \in Covered(tab)
                         /\ Covered(got.tab) = Covered(tab) \ {got.addr}
                         /\ \A p \in Covered(tab) :
                              p = got.addr \/ ListedBefore(desc, got.addr, p)
  BY <1>1, <1>2, <1>3, InOrderTake
<1>5. /\ \A n, T : Before(n, T)' = Before(n, T)
      /\ Image' = Image /\ \A n : Gone(n)' = Gone(n)
  <2>1. \A n, T : Before(n, T)' = Before(n, T)
    BY <1>1 DEF Before
  <2>2. Image' = Image
    BY <1>1 DEF Image
  <2>3. QED
    BY <2>1, <2>2 DEF Gone
<1>6. DescInv' /\ ImageInv'
  <2>1. DescInv'
    BY <1>1 DEF KernelInv, DescInv, Apart, True, OwnPages, loaderVars
  <2>2. QED
    BY <1>1, <1>5, <2>1 DEF KernelInv, ImageInv
<1>7. CASE got.addr = 0
  <2>1. FwTypeOK'
    BY <1>1, <1>4, <1>7 DEF KernelInv, FwTypeOK
  <2>2. TabInv' /\ TableExact' /\ WipedInOrder'
    BY <1>1, <1>3, <1>4, <1>5, <1>7 DEF KernelInv, TabInv, TableExact, WipedInOrder
  <2>3. IdentInv'
    BY <1>1, <1>7 DEF IdentInv
  <2>4. QED
    BY <1>6, <2>1, <2>2, <2>3 DEF KernelInv
<1>8. CASE got.addr # 0
  <2> DEFINE a == got.addr
  <2>1. a \in Covered(tab) /\ a \in C /\ Covered(got.tab) = Covered(tab) \ {a}
    BY <1>3, <1>4, <1>8
  <2>2. PICK m \in 1 .. next - 1 : m <= Len(desc) /\ desc[m].type \in Usable /\ a \in FramesOf(desc[m])
    BY <2>1, BeforeIs
  <2>3. a \in Frames
    BY <1>2, <2>2 DEF True
  <2>4. FwTypeOK'
    <3>1. need' \in Nat
      BY <1>1, <1>8 DEF KernelInv, FwTypeOK
    <3>2. wiped' \subseteq Frames
      BY <1>1, <1>8, <2>3 DEF KernelInv, FwTypeOK
    <3>3. QED
      BY <1>1, <1>4, <1>8, <3>1, <3>2 DEF KernelInv, FwTypeOK
  <2>5. TabInv' /\ Covered(tab') = C \ wiped'
    <3>1. Covered(tab') = Covered(tab) \ {a} /\ wiped' = wiped \cup {a}
      BY <1>1, <1>8, <2>1
    <3>2. Covered(tab') = C \ wiped' /\ Covered(tab') \cap wiped' = {} /\ wiped' \subseteq C
      BY <1>3, <2>1, <3>1
    <3>3. (Before(next - 1, Usable) \ ({0} \cup Image))' = C
      BY <1>1, <1>5
    <3>4. QED
      BY <1>1, <1>4, <3>2, <3>3 DEF TabInv
  <2>6. TableExact'
    <3>1. Sound(tab')
      BY <1>1, <1>2, <1>4, InOrderSound
    <3>2. QED
      BY <1>1, <1>5, <2>5, <3>1 DEF TableExact
  <2>7. WipedInOrder'
    <3>1. SUFFICES ASSUME NEW f \in wiped', NEW g \in B, ListedBefore(desc, g, f) PROVE g \in wiped'
      BY <1>1, <1>5 DEF WipedInOrder
    <3>2. CASE f \in wiped
      BY <1>1, <1>8, <3>1, <3>2 DEF KernelInv, WipedInOrder
    <3>3. CASE f = a
      <4>1. PICK i \in 1 .. Len(desc), l \in 1 .. Len(desc) :
              g \in FramesOf(desc[i]) /\ a \in FramesOf(desc[l]) /\ i <= l
        BY <1>2, <3>1, <3>3 DEF ListedBefore
      <4>2. l = m
        BY <1>2, <2>2, <4>1 DEF Apart
      <4>3. PICK o \in 1 .. Len(desc) : desc[o].type \in Usable /\ g \in FramesOf(desc[o])
        BY BeforeIs
      <4>4. o = i /\ i \in 1 .. next - 1 /\ i <= Len(desc)
        <5>1. o = i
          BY <1>2, <4>1, <4>3 DEF Apart
        <5>2. QED
          BY <1>2, <2>2, <4>1, <4>2, <5>1
      <4>5. g \in C /\ g \notin Covered(tab)
        <5>1. g \in C
          BY <4>3, <4>4, BeforeIs
        <5>2. g # a /\ ~ListedBefore(desc, a, g)
          BY <1>2, <3>1, <3>3, ListedOnce
        <5>3. QED
          BY <1>4, <1>8, <5>1, <5>2
      <4>6. QED
        BY <1>1, <1>3, <1>8, <4>5
    <3>4. QED
      BY <1>1, <1>8, <3>2, <3>3
  <2>8. IdentInv'
    <3>1. FramesOf(cur)' = FramesOf(cur) /\ First(own)' = First(own) /\ OwnPages' = OwnPages
      BY <1>1 DEF FramesOf, First, OwnPages
    <3>2. /\ Gone(next - 1)' = Gone(next - 1) /\ Gone(next - 2)' = Gone(next - 2)
          /\ Gone(Len(desc))' = Gone(Len(desc))
      BY <1>1, <1>5
    <3>3. at' = at
      BY <1>1, <1>8
    <3>4. QED
      BY <1>1, <3>1, <3>2, <3>3 DEF KernelInv, IdentInv
  <2>9. QED
    BY <1>6, <2>4, <2>5, <2>6, <2>7, <2>8 DEF KernelInv
<1>9. QED
  BY <1>7, <1>8

(* What a descriptor does to the image and to what has been recorded.      *)
Free(n) == Before(n, Usable) \ ({0} \cup Image)
Recorded(d) == IF d.type \in Usable THEN FramesOf(Given(d)) ELSE {}
TakenOut(d) == IF d.type = "reserved" THEN FramesOf(d) ELSE Recorded(d)

(* All that holds after any descriptor, whatever its type.                 *)
LEMMA ReadCommon ==
  ASSUME KernelInv, at = "read", next <= Len(desc), NEW c, c = next, NEW d, d = desc[c],
         apBase' = IF PlacesImage(d) THEN d.base ELSE apBase, next' = c + 1,
         UNCHANGED <<desc, wiped>>
  PROVE  /\ d \in Descriptors /\ c \in 1 .. Len(desc) /\ Len(desc) \in Nat /\ DOMAIN desc = 1 .. Len(desc)
         /\ Free(c)' = Free(c - 1) \cup Recorded(d)
         /\ Gone(c)' = Gone(c - 1) \cup TakenOut(d)
         /\ Gone(c - 1)' = Gone(c - 1)
         /\ ImageInv' /\ WipedInOrder'
<1>1. /\ desc \in Seq(Descriptors) /\ Apart(desc) /\ True(desc) /\ Len(desc) \in Nat
      /\ c \in Nat \ {0} /\ c \in 1 .. Len(desc) /\ d \in Descriptors /\ DOMAIN desc = 1 .. Len(desc)
      /\ apBase \in Nat \cup {Unset} /\ Unset \notin Nat
  BY UnsetAssumption DEF KernelInv, FwTypeOK, DescInv
<1>2. \A n, T : Before(n, T)' = Before(n, T)
  BY DEF Before
<1>3. Image' = Image \cup ImageOf(d)
  <2>1. CASE PlacesImage(d)
    <3>1. apBase = Unset /\ apBase' = d.base /\ d.base # Unset
      BY <1>1, <2>1 DEF PlacesImage, Descriptors
    <3>2. QED
      BY <2>1, <3>1 DEF Image, ImageOf
  <2>2. CASE ~PlacesImage(d)
    BY <2>2 DEF Image, ImageOf
  <2>3. QED
    BY <2>1, <2>2
<1>4. /\ Given(d) \in Descriptors
      /\ FramesOf(Given(d)) = FramesOf(d) \ ({0} \cup ImageOf(d))
      /\ ImageOf(d) \subseteq FramesOf(d)
  BY <1>1, GivenFrames
<1>5. ASSUME NEW f \in Before(c - 1, Usable) PROVE f \notin FramesOf(d)
  <2>1. PICK i \in 1 .. c - 1 : i <= Len(desc) /\ f \in FramesOf(desc[i])
    BY <1>5, BeforeIs
  <2>2. i \in 1 .. Len(desc) /\ i < c
    BY <1>1, <2>1
  <2>3. SUFFICES ASSUME f \in FramesOf(desc[c]) PROVE FALSE
    OBVIOUS
  <2>4. QED
    BY <1>1, <2>1, <2>2, <2>3, DescriptorsApart
<1>6. Image \subseteq Before(c - 1, Usable)
  <2>1. CASE apBase = Unset
    BY <2>1 DEF Image
  <2>2. CASE apBase # Unset
    <3>1. PICK i \in 1 .. c - 1 : desc[i].type \in Usable /\ Image \subseteq FramesOf(desc[i])
      BY <2>2 DEF KernelInv, ImageInv
    <3>2. i <= Len(desc)
      BY <1>1, <3>1
    <3>3. QED
      BY <3>1, <3>2, BeforeIs
  <2>3. QED
    BY <2>1, <2>2
<1>7. \A T : Before(c, T) = Before(c - 1, T) \cup (IF d.type \in T THEN FramesOf(d) ELSE {})
  BY <1>1, BeforeNext
<1>8. Free(c)' = Free(c - 1) \cup Recorded(d)
  <2>1. Free(c)' = Before(c, Usable) \ ({0} \cup (Image \cup ImageOf(d)))
    BY <1>2, <1>3 DEF Free
  <2>2. CASE d.type \in Usable
    <3>1. Before(c, Usable) = Before(c - 1, Usable) \cup FramesOf(d)
      BY <1>7, <2>2
    <3>2. QED
      BY <1>4, <1>5, <1>6, <2>1, <2>2, <3>1 DEF Free, Recorded
  <2>3. CASE d.type \notin Usable
    <3>1. Before(c, Usable) = Before(c - 1, Usable)
      <4>1. Before(c, Usable) = Before(c - 1, Usable)
                                  \cup (IF d.type \in Usable THEN FramesOf(d) ELSE {})
        BY <1>7, Zenon
      <4>2. QED
        BY <4>1, <2>3
    <3>2. ImageOf(d) = {}
      BY <2>3 DEF ImageOf, PlacesImage
    <3>3. QED
      BY <2>1, <2>3, <3>1, <3>2 DEF Free, Recorded
  <2>4. QED
    BY <2>2, <2>3
<1>9. Gone(c)' = Gone(c - 1) \cup TakenOut(d)
  <2>1. Gone(c)' = Before(c, {"reserved"}) \cup Free(c)'
    BY <1>2 DEF Gone, Free
  <2>2. Gone(c - 1) = Before(c - 1, {"reserved"}) \cup Free(c - 1)
    BY DEF Gone, Free
  <2>3. Before(c, {"reserved"}) = Before(c - 1, {"reserved"})
                                    \cup (IF d.type = "reserved" THEN FramesOf(d) ELSE {})
    BY <1>7
  <2>4. d.type = "reserved" => Recorded(d) = {}
    BY DEF Recorded, Usable
  <2>5. QED
    BY <1>8, <2>1, <2>2, <2>3, <2>4 DEF TakenOut
<1>10. Gone(c - 1)' = Gone(c - 1)
  <2>1. Gone(c - 1)' = Before(c - 1, {"reserved"})
                         \cup (Before(c - 1, Usable) \ ({0} \cup (Image \cup ImageOf(d))))
    BY <1>2, <1>3 DEF Gone
  <2>2. QED
    BY <1>4, <1>5, <2>1 DEF Gone
<1>11. ImageInv'
  <2>1. CASE PlacesImage(d)
    <3>1. d.type \in Usable /\ Image = {} /\ Image' \subseteq FramesOf(desc[c])
      BY <1>3, <1>4, <2>1 DEF PlacesImage, Image
    <3>2. c \in 1 .. (c + 1) - 1
      BY <1>1
    <3>3. QED
      BY <3>1, <3>2 DEF ImageInv, FramesOf
  <2>2. CASE ~PlacesImage(d)
    <3>1. apBase' = apBase /\ Image' = Image
      BY <2>2 DEF Image
    <3>2. \A i \in 1 .. c - 1 : i \in 1 .. (c + 1) - 1
      BY <1>1
    <3>3. QED
      BY <3>1, <3>2 DEF KernelInv, ImageInv, FramesOf
  <2>3. QED
    BY <2>1, <2>2
<1>12. WipedInOrder'
  BY <1>2, <1>3 DEF KernelInv, WipedInOrder
<1>13. QED
  BY <1>1, <1>8, <1>9, <1>10, <1>11, <1>12

(* A descriptor is recorded, set aside, or passed over.                    *)
LEMMA ReadDescriptorKeeps ==
  ASSUME KernelInv, ReadDescriptor, UNCHANGED loaderVars
  PROVE  KernelInv'
<1>0. PICK c, d : c = next /\ d = desc[c]
  OBVIOUS
<1> DEFINE g == Given(d)
<1>1. /\ at = "read" /\ next <= Len(desc) /\ next' = c + 1 /\ j' = 0
      /\ apBase' = IF PlacesImage(d) THEN d.base ELSE apBase
      /\ \/ /\ d.type = "kernel" \/ (d.type \in Usable /\ g.pages = 0)
            /\ UNCHANGED <<at, cur, tab>>
         \/ /\ d.type \in Usable /\ g.pages > 0 /\ HasRoom(tab, MaxRanges)
            /\ tab' = mmap_add_range(tab, MaxRanges, g.base, g.pages).tab
            /\ cur' = g /\ at' = "unmap"
         \/ /\ d.type \in Usable /\ g.pages > 0 /\ ~HasRoom(tab, MaxRanges)
            /\ at' = "panic" /\ UNCHANGED <<cur, tab>>
         \/ /\ d.type = "reserved"
            /\ cur' = d /\ at' = "unmap" /\ UNCHANGED tab
      /\ UNCHANGED <<desc, own, walk, ident, large, huge, need, wiped>>
  BY <1>0, Zenon DEF ReadDescriptor
<1>2. /\ d \in Descriptors /\ c \in 1 .. Len(desc) /\ Len(desc) \in Nat /\ DOMAIN desc = 1 .. Len(desc)
      /\ Free(c)' = Free(c - 1) \cup Recorded(d)
      /\ Gone(c)' = Gone(c - 1) \cup TakenOut(d)
      /\ Gone(c - 1)' = Gone(c - 1)
      /\ ImageInv' /\ WipedInOrder'
  BY <1>0, <1>1, ReadCommon
<1>3. /\ tab \in Seq(Ranges) /\ InOrder(tab, desc) /\ Covered(tab) \cap wiped = {}
      /\ Covered(tab) = Free(c - 1) \ wiped /\ wiped \subseteq Free(c - 1)
      /\ ident = Frames \ (Gone(c - 1) \ own)
  BY <1>0, <1>1 DEF KernelInv, FwTypeOK, TabInv, TableExact, IdentInv, Free
<1>4. /\ g \in Descriptors /\ d.base <= g.base
  BY <1>2, GivenFrames
<1>5. DescInv'
  <2>1. at' # "off" /\ next' <= Len(desc) + 1
    BY <1>1, <1>2
  <2>2. QED
    BY <1>1, <2>1 DEF KernelInv, DescInv, Apart, True, OwnPages, loaderVars
<1>6. next' \in Nat \ {0} /\ apBase' \in Nat \cup {Unset} /\ j' \in Nat
  BY <1>1, <1>2 DEF Descriptors, KernelInv, FwTypeOK
<1>7. next' - 1 = c /\ next' - 2 = c - 1 /\ next' > 1
  BY <1>1, <1>2
<1>8. ASSUME tab' \in Seq(Ranges), InOrder(tab', desc), Covered(tab') \cup wiped' \subseteq Free(c)',
             Covered(tab') \cap wiped' = {},
             at' # "panic" => Covered(tab') = Free(c)' \ wiped'
      PROVE  TabInv' /\ TableExact'
  <2>1. Before(next - 1, Usable)' = Before(c, Usable)'
    BY <1>7 DEF Before
  <2>2. Free(c)' = Before(next - 1, Usable)' \ ({0} \cup Image')
    BY <2>1 DEF Free
  <2>3. Sound(tab')
    BY <1>1, <1>8, InOrderSound DEF KernelInv, FwTypeOK, DescInv
  <2>4. QED
    BY <1>1, <1>8, <2>2, <2>3 DEF TabInv, TableExact
<1>9. ASSUME TabInv', TableExact', IdentInv', tab' \in Seq(Ranges), cur' \in Descriptors,
             at' \in {"read", "unmap", "panic"}
      PROVE  KernelInv'
  <2>1. FwTypeOK'
    BY <1>1, <1>6, <1>9 DEF KernelInv, FwTypeOK
  <2>2. QED
    BY <1>2, <1>5, <1>9, <2>1 DEF KernelInv
<1>10. /\ cur \in Descriptors
       /\ Gone(next - 1)' = Gone(c)' /\ Gone(next - 2)' = Gone(c - 1)
  <2>1. Gone(next - 1)' = Gone(c)' /\ Gone(next - 2)' = Gone(c - 1)'
    BY <1>7 DEF Gone, Before
  <2>2. QED
    BY <1>2, <2>1 DEF KernelInv, FwTypeOK
<1>11. ASSUME NEW e \in Descriptors, cur' = e, at' = "unmap", TakenOut(d) = FramesOf(e)
       PROVE  IdentInv'
  <2>1. /\ e.base \in Nat /\ e.pages \in Nat /\ Run(e.base, 0) = {}
        /\ FramesOf(cur)' = FramesOf(e)
    BY <1>11 DEF Descriptors, Run, FramesOf
  <2>2. Gone(next - 1)' = Gone(next - 2)' \cup FramesOf(cur)'
    BY <1>2, <1>10, <1>11, <2>1
  <2>3. ident' = Frames \ ((Gone(next - 2)' \cup Run(cur'.base, j')) \ own')
    BY <1>1, <1>3, <1>10, <1>11, <2>1
  <2>4. j' <= cur'.pages
    BY <1>1, <1>11, <2>1
  <2>5. QED
    BY <1>7, <1>11, <2>2, <2>3, <2>4 DEF IdentInv
<1>12. CASE /\ d.type = "kernel" \/ (d.type \in Usable /\ g.pages = 0)
            /\ UNCHANGED <<at, cur, tab>>
  <2>1. Recorded(d) = {} /\ TakenOut(d) = {}
    <3>1. CASE d.type = "kernel"
      BY <3>1 DEF Recorded, TakenOut, Usable
    <3>2. CASE d.type \in Usable /\ g.pages = 0
      <4>1. FramesOf(g) = {}
        BY <1>4, <3>2 DEF FramesOf, Run, Descriptors
      <4>2. d.type # "reserved"
        BY <3>2 DEF Usable
      <4>3. QED
        BY <3>2, <4>1, <4>2 DEF Recorded, TakenOut
    <3>3. QED
      BY <1>12, <3>1, <3>2
  <2>2. TabInv' /\ TableExact'
    BY <1>1, <1>2, <1>3, <1>8, <1>12, <2>1
  <2>3. IdentInv'
    BY <1>1, <1>2, <1>3, <1>10, <1>12, <2>1 DEF IdentInv
  <2>4. QED
    BY <1>1, <1>3, <1>9, <1>10, <1>12, <2>2, <2>3
<1>13. CASE /\ d.type \in Usable /\ g.pages > 0 /\ HasRoom(tab, MaxRanges)
            /\ tab' = mmap_add_range(tab, MaxRanges, g.base, g.pages).tab
            /\ cur' = g /\ at' = "unmap"
  <2> DEFINE r == memory_range(g.base, g.pages)
  <2>1. /\ r \in Ranges /\ r.base = g.base /\ r.pages = g.pages /\ r.pages > 0
        /\ PagesOf(r) = FramesOf(g)
    BY <1>4, <1>13 DEF memory_range, Ranges, Descriptors, PagesOf, FramesOf, Run
  <2>2. tab' = Append(tab, r)
    <3>1. g.pages # 0
      BY <1>4, <1>13 DEF Descriptors
    <3>2. QED
      BY <1>13, <3>1 DEF mmap_add_range
  <2>3. FramesOf(g) \subseteq FramesOf(desc[c]) /\ desc \in Seq(Descriptors) /\ Apart(desc)
    BY <1>0, <1>1, <1>2, GivenFrames DEF KernelInv, FwTypeOK, DescInv
  <2>later. ASSUME NEW p \in Free(c - 1), NEW q \in FramesOf(g)
        PROVE  p # q /\ ListedBefore(desc, p, q)
    <3>1. PICK m \in 1 .. c - 1 : m <= Len(desc) /\ p \in FramesOf(desc[m])
      BY BeforeIs DEF Free
    <3>2. m \in 1 .. Len(desc) /\ m < c
      BY <1>2, <3>1
    <3>3. QED
      BY <1>2, <2>3, <2>later, <3>1, <3>2, DescriptorsApart
  <2>same. ASSUME NEW p \in FramesOf(g), NEW q \in FramesOf(g), p < q
        PROVE  ListedBefore(desc, p, q)
    BY <1>2, <2>3, <2>same DEF ListedBefore
  <2> HIDE DEF r
  <2>4. tab' \in Seq(Ranges) /\ InOrder(tab', desc) /\ Covered(tab') = Covered(tab) \cup FramesOf(g)
    <3>1. \A p \in Covered(tab), q \in PagesOf(r) : ListedBefore(desc, p, q)
      BY <1>3, <2>1, <2>later
    <3>2. \A p, q \in PagesOf(r) : p < q => ListedBefore(desc, p, q)
      BY <2>1, <2>same
    <3>3. QED
      BY <1>3, <2>1, <2>2, <3>1, <3>2, InOrderAppend
  <2>5. Recorded(d) = FramesOf(g) /\ TakenOut(d) = FramesOf(g)
    BY <1>13 DEF Recorded, TakenOut, Usable
  <2>6. FramesOf(g) \cap Free(c - 1) = {}
    BY <2>later
  <2>7. TabInv' /\ TableExact'
    <3>1. /\ Covered(tab') \cup wiped' \subseteq Free(c)'
          /\ Covered(tab') \cap wiped' = {}
          /\ Covered(tab') = Free(c)' \ wiped'
      BY <1>1, <1>2, <1>3, <2>4, <2>5, <2>6
    <3>2. QED
      BY <1>8, <2>4, <3>1
  <2>8. IdentInv'
    BY <1>4, <1>11, <1>13, <2>5
  <2>9. QED
    BY <1>4, <1>9, <1>13, <2>4, <2>7, <2>8
<1>14. CASE /\ d.type \in Usable /\ g.pages > 0 /\ ~HasRoom(tab, MaxRanges)
            /\ at' = "panic" /\ UNCHANGED <<cur, tab>>
  <2>1. TabInv' /\ TableExact'
    BY <1>1, <1>2, <1>3, <1>8, <1>14
  <2>2. IdentInv'
    BY <1>14 DEF IdentInv
  <2>3. QED
    BY <1>3, <1>9, <1>10, <1>14, <2>1, <2>2
<1>15. CASE d.type = "reserved" /\ cur' = d /\ at' = "unmap" /\ UNCHANGED tab
  <2>1. Recorded(d) = {} /\ TakenOut(d) = FramesOf(d)
    BY <1>15 DEF Recorded, TakenOut, Usable
  <2>2. TabInv' /\ TableExact'
    BY <1>1, <1>2, <1>3, <1>8, <1>15, <2>1
  <2>3. IdentInv'
    BY <1>2, <1>11, <1>15, <2>1
  <2>4. QED
    BY <1>2, <1>3, <1>9, <1>15, <2>2, <2>3
<1>16. QED
  BY <1>1, <1>12, <1>13, <1>14, <1>15

(* The kernel starts with what the loader left.                            *)
LEMMA BootEndKeeps ==
  ASSUME LoaderInv, KernelInv, boot_end
  PROVE  KernelInv'
<1>1. /\ step = "exited" /\ at = "off" /\ at' = "read"
      /\ UNCHANGED <<loaderVars, own, walk, next, cur, j, apBase, tab, ident, large, huge, need, wiped>>
  BY DEF boot_end
<1>2. next = 1 /\ wiped = {} /\ tab = << >> /\ apBase = Unset /\ ident = Frames
  BY <1>1 DEF KernelInv, DescInv
<1>3. desc' \in Seq(Descriptors) /\ Apart(desc') /\ True(desc')
  <2>1. PICK order \in Orders : desc' = MemoryDescriptors(order)
    BY DEF boot_end
  <2>2. QED
    BY <2>1, DescriptorsTrue DEF LoaderInv, LoaderTyped
<1>4. Len(desc') \in Nat
  BY <1>1, <1>3
<1>5. \A T : Before(next - 1, T)' = {}
  BY <1>1, <1>2 DEF Before
<1>6. FwTypeOK'
  BY <1>1, <1>3 DEF KernelInv, FwTypeOK
<1>7. DescInv'
  <2>1. Apart(desc') /\ (True(desc))'
    BY <1>1, <1>3 DEF True, loaderVars, FramesOf
  <2>2. next' <= Len(desc') + 1
    BY <1>1, <1>2, <1>4
  <2>3. (\E first \in own : own = Run(first, OwnPages))'
    BY <1>1 DEF KernelInv, DescInv, OwnPages
  <2>4. QED
    BY <1>1, <2>1, <2>2, <2>3 DEF DescInv, loaderVars
<1>8. ImageInv' /\ WipedInOrder'
  BY <1>1, <1>2 DEF ImageInv, WipedInOrder
<1>9. Covered(tab') = {} /\ InOrder(tab', desc') /\ Sound(tab')
  BY <1>1, <1>2 DEF Covered, InOrder, Sound
<1>10. TabInv' /\ TableExact'
  BY <1>1, <1>2, <1>5, <1>9 DEF TabInv, TableExact
<1>11. IdentInv'
  <2>1. Gone(next - 1)' = {}
    BY <1>5 DEF Gone
  <2>2. QED
    BY <1>1, <1>2, <2>1 DEF IdentInv
<1>12. QED
  BY <1>6, <1>7, <1>8, <1>10, <1>11 DEF KernelInv

-----------------------------------------------------------------------------
(* The two programs together.                                              *)

(* Before the loader there is nothing to be wrong.                         *)
LEMMA BootInit ==
  ASSUME Init
  PROVE  BootInv
<1>1. PICK layout \in Layouts : /\ mem = layout.mem /\ own = layout.own /\ walk = layout.walk
                                /\ large = layout.large /\ huge = layout.huge
  BY DEF Init
<1>2. /\ layout.mem \in [Frames -> MemTypes]
      /\ layout.own \subseteq Frames /\ layout.walk \subseteq Frames
      /\ \E first \in layout.own : layout.own = Run(first, Cardinality(layout.own))
      /\ layout.large \subseteq Nat /\ layout.huge \subseteq Nat
  BY LayoutsAssumption
<1>3. /\ step = "file" /\ headers \in Seq(Headers) /\ entry = << >> /\ given = << >>
      /\ k = 1 /\ off = 0 /\ last = -1
      /\ at = "off" /\ desc = << >> /\ next = 1 /\ cur = NoDescriptor /\ j = 0
      /\ apBase = Unset /\ tab = << >> /\ ident = Frames /\ need = 0 /\ wiped = {}
      /\ Len(headers) \in Nat
  BY LoaderInputsAssumption DEF Init
<1>4. DOMAIN entry = {} /\ DOMAIN given = {}
  BY <1>3
<1>5. LoaderTyped
  BY <1>1, <1>2, <1>3 DEF LoaderTyped, Steps
<1>6. SegmentsInOrder
  <2>1. {i \in Loaded : i < 1 \/ (i = 1 /\ 0 > 0)} = {}
    <3>1. \A i \in Loaded : i \in 1 .. Len(headers)
      BY <1>3 DEF Loaded
    <3>2. QED
      BY <1>3, <3>1
  <2>2. QED
    BY <1>3, <1>4, <2>1 DEF SegmentsInOrder
<1>7. KernelOwned /\ PathsInOrder /\ LastExplained /\ PagesVisible /\ HandoverReady
  BY <1>3, <1>4 DEF KernelOwned, PathsInOrder, LastExplained, PagesVisible, HandoverReady
<1>8. FwTypeOK
  <2>1. NoDescriptor \in Descriptors
    BY DEF NoDescriptor, Descriptors, Types
  <2>2. QED
    BY <1>1, <1>2, <1>3, <2>1 DEF FwTypeOK
<1>9. DescInv
  BY <1>1, <1>2, <1>3 DEF DescInv, OwnPages
<1>10. ImageInv /\ WipedInOrder /\ IdentInv
  BY <1>3 DEF ImageInv, WipedInOrder, IdentInv
<1>11. Covered(tab) = {} /\ InOrder(tab, desc) /\ Sound(tab) /\ \A T : Before(next - 1, T) = {}
  BY <1>3 DEF Covered, InOrder, Sound, Before
<1>12. TabInv /\ TableExact
  BY <1>3, <1>11 DEF TabInv, TableExact
<1>13. QED
  BY <1>5, <1>6, <1>7, <1>8, <1>9, <1>10, <1>12 DEF BootInv, LoaderInv, KernelInv

(* What one program has, the other one's steps leave alone.                *)
LEMMA LoaderStays ==
  ASSUME LoaderInv, UNCHANGED loaderVars
  PROVE  LoaderInv'
<1>1. KernelKept
  BY DEF loaderVars, KernelKept, LoaderInv, LoaderTyped
<1>2. HandoverReady'
  BY DEF loaderVars, LoaderInv, HandoverReady
<1>3. /\ step \in Steps
      /\ step \in {"file", "pml4"} => k = 1 /\ off = 0
      /\ step \in {"direct", "acpi", "map", "exited"} => k = Len(headers) + 1
      /\ step \in {"segments", "direct", "acpi", "map", "exited"} => pml4 \in Frames /\ mem[pml4] = "kernel"
  BY DEF LoaderInv, LoaderTyped, SegmentsInOrder, KernelOwned
<1>4. QED
  BY <1>1, <1>2, <1>3, EarlyKeeps DEF loaderVars

(* The same, of the kernel while the loader runs or has ended.             *)
LEMMA KernelStays ==
  ASSUME KernelInv, UNCHANGED fwVars, at = "off" \/ UNCHANGED loaderVars
  PROVE  KernelInv'
<1>1. \A n, T : Before(n, T)' = Before(n, T)
  BY DEF fwVars, Before
<1>2. Image' = Image
  BY DEF fwVars, Image
<1>3. \A n : Gone(n)' = Gone(n)
  BY <1>1, <1>2 DEF Gone
<1>4. FwTypeOK'
  BY DEF fwVars, KernelInv, FwTypeOK
<1>5. DescInv'
  <2>1. at' = "off" \/ (at' # "off" /\ UNCHANGED loaderVars)
    BY DEF fwVars
  <2>2. QED
    BY <2>1 DEF fwVars, KernelInv, DescInv, Apart, True, OwnPages, loaderVars
<1>6. ImageInv' /\ WipedInOrder'
  BY <1>1, <1>2 DEF fwVars, KernelInv, ImageInv, WipedInOrder
<1>7. TabInv' /\ TableExact'
  BY <1>1, <1>2 DEF fwVars, KernelInv, TabInv, TableExact
<1>8. IdentInv'
  <2>1. FramesOf(cur)' = FramesOf(cur) /\ First(own)' = First(own) /\ OwnPages' = OwnPages
    BY DEF fwVars, FramesOf, First, OwnPages
  <2>2. /\ Gone(next - 1)' = Gone(next - 1) /\ Gone(next - 2)' = Gone(next - 2)
        /\ Gone(Len(desc))' = Gone(Len(desc))
    BY <1>3 DEF fwVars
  <2>3. QED
    BY <2>1, <2>2 DEF fwVars, KernelInv, IdentInv
<1>9. QED
  BY <1>4, <1>5, <1>6, <1>7, <1>8 DEF KernelInv

(* While the kernel runs, the loader does not.                             *)
LEMMA LoaderDone ==
  ASSUME KernelInv, efi_main
  PROVE  at = "off"
<1>1. step # "exited"
  BY DEF efi_main, ReadKernelFile, CopyPml4, NextHeader, MapSegmentPage, EndSegments, MapDirect,
         SetMode, FindSdt, ExitBootServices
<1>2. QED
  BY <1>1 DEF KernelInv, DescInv

(* Every step keeps the invariant of both.                                 *)
LEMMA BootStep ==
  ASSUME BootInv, [Next]_vars
  PROVE  BootInv'
<1>1. CASE efi_main /\ UNCHANGED fwVars
  BY <1>1, LoaderStep, LoaderDone, KernelStays DEF BootInv
<1>2. CASE boot_end
  <2>1. UNCHANGED loaderVars
    BY <1>2 DEF boot_end, loaderVars
  <2>2. QED
    BY <1>2, <2>1, LoaderStays, BootEndKeeps DEF BootInv
<1>3. CASE init_memory_management /\ UNCHANGED loaderVars
  <2>1. KernelInv'
    BY <1>3, ReadDescriptorKeeps, LostKeeps, SkipOwnKeeps, SplitKeeps, MakeTableKeeps, UnmapPageKeeps,
       NextDescriptorKeeps, EndOfMapKeeps, InitHeapKeeps DEF BootInv, init_memory_management
  <2>2. QED
    BY <1>3, <2>1, LoaderStays DEF BootInv
<1>4. CASE UNCHANGED vars
  <2>1. UNCHANGED loaderVars /\ UNCHANGED fwVars
    BY <1>4 DEF vars
  <2>2. QED
    BY <2>1, LoaderStays, KernelStays DEF BootInv
<1>5. QED
  BY <1>1, <1>2, <1>3, <1>4 DEF Next

(* So it always holds.                                                     *)
LEMMA BootAlways == Spec => []BootInv
BY BootInit, BootStep, PTL DEF Spec

-----------------------------------------------------------------------------
(* What it says.                                                           *)

(* Types, and where a frame of the descriptors comes from.                 *)
LEMMA BeforeInMemory ==
  ASSUME KernelInv, at # "off", NEW n, NEW T, NEW f \in Before(n, T)
  PROVE  f \in Frames /\ mem[f] \in T
<1>1. PICK i \in 1 .. n : i <= Len(desc) /\ desc[i].type \in T /\ f \in FramesOf(desc[i])
  BY BeforeIs
<1>2. desc \in Seq(Descriptors) /\ True(desc)
  BY DEF KernelInv, FwTypeOK, DescInv
<1>3. i \in DOMAIN desc
  <2>1. n \in Int \/ n \notin Int
    OBVIOUS
  <2>2. QED
    BY <1>1, <1>2
<1>4. QED
  BY <1>1, <1>2, <1>3 DEF True

(* The identity mapping at the end.                                        *)
LEMMA IdentityFollows ==
  ASSUME KernelInv
  PROVE  IdentityEnds
<1>0. at \in {"read", "unmap"} => own \subseteq ident
  BY DEF KernelInv, FwTypeOK, IdentInv
<1>1. SUFFICES ASSUME at = "done", Image \cap own = {}
               PROVE  ident = (Frames \ (own \cup Before(Len(desc), {"reserved"} \cup Usable)))
                                \cup Image
                                \cup (({0} \cap Before(Len(desc), Usable)) \ own)
  BY <1>0 DEF IdentityEnds
<1> DEFINE n == Len(desc)
           R == Before(n, {"reserved"})
           U == Before(n, Usable)
<1>2. ident = Frames \ (Gone(n) \cup own) /\ Gone(n) = R \cup (U \ ({0} \cup Image))
  BY <1>1 DEF KernelInv, IdentInv, Gone
<1>3. Before(n, {"reserved"} \cup Usable) = R \cup U
  <2>1. \A f : f \in Before(n, {"reserved"} \cup Usable) <=> f \in R \/ f \in U
    BY BeforeIs
  <2>2. QED
    BY <2>1
<1>4. U \subseteq Frames /\ R \cap U = {}
  <2>1. \A f \in U : f \in Frames /\ mem[f] \in Usable
    BY <1>1, BeforeInMemory
  <2>2. \A f \in R : mem[f] \in {"reserved"}
    BY <1>1, BeforeInMemory
  <2>3. QED
    BY <2>1, <2>2 DEF Usable
<1>5. Image \subseteq U
  <2>1. CASE apBase = Unset
    BY <2>1 DEF Image
  <2>2. CASE apBase # Unset
    <3>1. PICK i \in 1 .. next - 1 : desc[i].type \in Usable /\ Image \subseteq FramesOf(desc[i])
      BY <2>2 DEF KernelInv, ImageInv
    <3>2. i \in 1 .. n /\ i <= Len(desc)
      BY <1>1 DEF KernelInv, DescInv, FwTypeOK
    <3>3. QED
      BY <3>1, <3>2, BeforeIs
  <2>3. QED
    BY <2>1, <2>2
<1> HIDE DEF R, U, n
<1>6. QED
  BY <1>1, <1>2, <1>3, <1>4, <1>5 DEF n, U

(* The frames listed before one that became a page table did so too.       *)
LEMMA SurvivalFollows ==
  ASSUME KernelInv
  PROVE  DescriptorsSurvive
<1>1. SUFFICES ASSUME NEW f \in wiped
               PROVE  Cardinality({g \in (Before(Len(desc), Usable) \ ({0} \cup Image)) :
                                     ListedBefore(desc, g, f)}) < Cardinality(wiped)
  BY DEF DescriptorsSurvive
<1> DEFINE S == {g \in (Before(Len(desc), Usable) \ ({0} \cup Image)) : ListedBefore(desc, g, f)}
<1>2. IsFiniteSet(wiped)
  BY FramesAssumption, FS_Subset DEF KernelInv, FwTypeOK
<1>3. S \subseteq wiped \ {f}
  <2>1. \A g \in S : g \in wiped
    BY DEF KernelInv, WipedInOrder
  <2>2. f \notin S
    <3>1. at # "off"
      BY <1>1 DEF KernelInv, DescInv
    <3>2. QED
      BY <3>1, ListedOnce DEF KernelInv, FwTypeOK, DescInv
  <2>3. QED
    BY <2>1, <2>2
<1>4. IsFiniteSet(wiped \ {f}) /\ Cardinality(wiped \ {f}) = Cardinality(wiped) - 1
  BY <1>1, <1>2, FS_RemoveElement
<1>5. Cardinality(S) <= Cardinality(wiped \ {f}) /\ Cardinality(S) \in Nat
  <2> HIDE DEF S
  <2>1. QED
    BY <1>3, <1>4, FS_Subset, FS_CardinalityType
<1>6. Cardinality(wiped) \in Nat
  BY <1>2, FS_CardinalityType
<1>7. QED
  BY <1>4, <1>5, <1>6

(* The frames the kernel has are not of the types it takes for free.       *)
LEMMA KeptFollows ==
  ASSUME BootInv
  PROVE  KernelFramesKept
<1>1. SUFFICES ASSUME at # "off", NEW f \in KernelFrames, f \in Covered(tab) \cup wiped PROVE FALSE
  BY DEF KernelFramesKept
<1>2. step = "exited"
  BY <1>1 DEF BootInv, KernelInv, DescInv
<1>3. mem[f] = "kernel"
  <2>1. CASE f = pml4
    BY <1>2, <2>1 DEF BootInv, LoaderInv, KernelOwned
  <2>2. CASE f # pml4
    <3>1. PICK p \in DOMAIN entry : ~entry[p].page /\ f = entry[p].to
      BY <1>1, <2>2 DEF KernelFrames
    <3>2. mem[entry[p].to] = "kernel"
      BY <3>1, Zenon DEF BootInv, LoaderInv, KernelOwned
    <3>3. QED
      BY <3>1, <3>2
  <2>3. QED
    BY <2>1, <2>2
<1>4. f \in Before(next - 1, Usable)
  BY <1>1 DEF BootInv, KernelInv, TabInv
<1>5. mem[f] \in Usable
  BY <1>1, <1>4, BeforeInMemory DEF BootInv
<1>6. QED
  BY <1>3, <1>5 DEF Usable

(* The kernel finds every page of its own file where the loader put it,    *)
(* unless what an earlier segment was given covers it; its graphics mode   *)
(* is one the console can use, and its root table the one ACPI prefers if  *)
(* the first 2.0 pointer has revision 2 (with an older one or none it may  *)
(* be what the stack held).                                                *)
THEOREM HandoverTheorem == Spec => []HandoverTrue
<1>1. BootInv => HandoverTrue
  BY HandoverFollows DEF BootInv
<1>2. QED
  BY <1>1, BootAlways, PTL

(* Whatever the firmware reports, phys_mmap is exactly what it gives the   *)
(* kernel, each frame once.                                                *)
THEOREM TableTheorem == Spec => []TableExact
<1>1. BootInv => TableExact
  BY DEF BootInv, KernelInv
<1>2. QED
  BY <1>1, BootAlways, PTL

(* The identity mapping keeps the descriptors' pages until all have been   *)
(* read, and when init_memory_management is done it has just the AP image  *)
(* left of the memory that was described.                                  *)
THEOREM IdentityTheorem == Spec => []IdentityEnds
<1>1. BootInv => IdentityEnds
  BY IdentityFollows DEF BootInv
<1>2. QED
  BY <1>1, BootAlways, PTL

(* The descriptors and the firmware's page tables are overwritten only     *)
(* when the usable frames listed before them have run out.                 *)
THEOREM SurvivalTheorem == Spec => []DescriptorsSurvive
<1>1. BootInv => DescriptorsSurvive
  BY SurvivalFollows DEF BootInv
<1>2. QED
  BY <1>1, BootAlways, PTL

(* The frames of the kernel's page tables and its PML4 stay its own.       *)
THEOREM KeptTheorem == Spec => []KernelFramesKept
<1>1. BootInv => KernelFramesKept
  BY KeptFollows
<1>2. QED
  BY <1>1, BootAlways, PTL

(* The state of init_memory_management is well formed.                     *)
THEOREM BootTypes == Spec => []TypeOK
<1>1. BootInv => TypeOK
  BY DEF BootInv, KernelInv, TypeOK
<1>2. QED
  BY <1>1, BootAlways, PTL

-----------------------------------------------------------------------------
(* PAGE_BASE and the offset behind it.                                     *)
LEMMA Division ==
  ASSUME NEW a \in Nat, NEW u \in Nat \ {0}
  PROVE  /\ a \div u \in Nat /\ (a % u) \in 0 .. u - 1
         /\ a = (u * (a \div u)) + (a % u)
  BY Z3

(* The quotient is the only number with a rest below the divisor.          *)
LEMMA Quotient ==
  ASSUME NEW a \in Nat, NEW u \in Nat \ {0}, NEW q \in Nat, NEW r \in 0 .. u - 1,
         a = (u * q) + r
  PROVE  a \div u = q
  BY Z3

(* Of a larger number it is not smaller.                                   *)
LEMMA DivisionMonotone ==
  ASSUME NEW a \in Nat, NEW b \in Nat, NEW u \in Nat \ {0}, a <= b
  PROVE  a \div u <= b \div u
  BY Z3

(* Whole multiples of the divisor come out of it.                          *)
LEMMA DivisionShift ==
  ASSUME NEW u \in Nat \ {0}, NEW c \in Nat, NEW x \in Nat
  PROVE  ((u * c) + x) \div u = c + (x \div u)
<1>1. /\ x \div u \in Nat /\ (x % u) \in 0 .. u - 1
      /\ x = (u * (x \div u)) + (x % u)
  BY Division
<1>2. ASSUME NEW q \in Nat, NEW r \in 0 .. u - 1
      PROVE  (u * c) + ((u * q) + r) = (u * (c + q)) + r
  OBVIOUS
<1>3. (u * c) + x = (u * (c + (x \div u))) + (x % u)
  BY <1>1, <1>2
<1>4. (u * c) + x \in Nat /\ c + (x \div u) \in Nat
  BY <1>1
<1>5. QED
  BY <1>1, <1>3, <1>4, Quotient

(* Two addresses with the same offset are the same number of pages away    *)
(* from the end of a range of the same size.                               *)
LEMMA SameOffset ==
  ASSUME NEW u \in Nat \ {0}, NEW q \in Nat, NEW g \in Nat, NEW o \in 0 .. u - 1,
         NEW size \in Nat \ {0}
  PROVE  LET a == (u * q) + o
             v == (u * g) + o
         IN  /\ a \div u = q /\ v \div u = g
             /\ (v + size - 1) \div u - g = (a + size - 1) \div u - q
<1> DEFINE x == o + size - 1
<1>1. u * q \in Nat /\ u * g \in Nat /\ x \in Nat
  OBVIOUS
<1>2. /\ (u * q) + o + size - 1 = (u * q) + x
      /\ (u * g) + o + size - 1 = (u * g) + x
  BY <1>1
<1> HIDE DEF x
<1>3. /\ ((u * q) + x) \div u = q + (x \div u)
      /\ ((u * g) + x) \div u = g + (x \div u)
  BY <1>1, DivisionShift
<1>4. x \div u \in Nat
  BY <1>1, Division
<1>5. (u * q) + o \in Nat /\ (u * g) + o \in Nat
  BY <1>1
<1>6. ((u * q) + o) \div u = q /\ ((u * g) + o) \div u = g
  BY <1>5, Quotient
<1>7. (g + (x \div u)) - g = (q + (x \div u)) - q
  BY <1>4
<1>8. QED
  BY <1>2, <1>3, <1>6, <1>7

(* A mapping has at least one page, and as many at any page of the space   *)
(* as at the physical one, since it keeps the offset in the page.          *)
LEMMA PageCounts ==
  ASSUME NEW a \in Nat, NEW size \in Nat \ {0}
  PROVE  PageBase(a) \in Nat /\ PageCount(a, size) \in Nat \ {0}
<1>1. Unit \in Nat \ {0} /\ a + size - 1 \in Nat /\ a <= a + size - 1
  BY SpaceAssumption
<1>2. a \div Unit \in Nat /\ (a + size - 1) \div Unit \in Nat
  BY <1>1, Division
<1>3. a \div Unit <= (a + size - 1) \div Unit
  BY <1>1, DivisionMonotone
<1>4. QED
  BY <1>2, <1>3 DEF PageBase, PageCount

(* The same, for the address that create_virt_mapping returns.             *)
LEMMA SamePages ==
  ASSUME NEW a \in Nat, NEW size \in Nat \ {0}, NEW g \in Nat,
         NEW v, v = (g * Unit) + (a % Unit)
  PROVE  v \in Nat /\ PageBase(v) = g /\ PageCount(v, size) = PageCount(a, size)
<1> DEFINE o == a % Unit
           q == a \div Unit
<1>1. Unit \in Nat \ {0}
  BY SpaceAssumption
<1>2. q \in Nat /\ o \in 0 .. Unit - 1 /\ a = (Unit * q) + o
  BY <1>1, Division
<1>3. g * Unit = Unit * g /\ g * Unit \in Nat
  BY <1>1
<1>4. v = (Unit * g) + o /\ v \in Nat
  BY <1>1, <1>2, <1>3
<1> HIDE DEF o, q
<1>5. /\ a \div Unit = q /\ v \div Unit = g
      /\ (v + size - 1) \div Unit - g = (a + size - 1) \div Unit - q
  <2>1. /\ ((Unit * q) + o) \div Unit = q /\ ((Unit * g) + o) \div Unit = g
        /\ ((Unit * g) + o + size - 1) \div Unit - g = ((Unit * q) + o + size - 1) \div Unit - q
    BY <1>1, <1>2, SameOffset
  <2>2. QED
    BY <1>2, <1>4, <2>1, Zenon
<1>6. QED
  BY <1>4, <1>5 DEF PageBase, PageCount

-----------------------------------------------------------------------------
(* The inductive invariant: besides what the run checks, pages on their    *)
(* way through free_virt_pages are of the space and were not lost before.  *)
Placed == [vaddr : Nat, paddr : Nat, size : Nat \ {0}]

VirtInv ==
    /\ ranges \in Seq(Ranges) /\ max \in Nat
    /\ pt \in [1 .. LastPage + 1 -> Nat \cup {None}]
    /\ maps \subseteq Placed
    /\ freeing \in Ranges
    /\ lost \subseteq Space /\ spilt \in BOOLEAN
    /\ SpaceAccounted
    /\ Taken \cup PagesOf(freeing) \subseteq Space
    /\ PagesOf(freeing) \cap lost = {}
    /\ MappingsIntact

(* The range of nobody has no pages.                                       *)
LEMMA NoRangeEmpty == NoRange \in Ranges /\ PagesOf(NoRange) = {} /\ NoRange.base = 0
  BY DEF NoRange, memory_range, Ranges, PagesOf

(* init_virt_mmap makes the one range of all pages.                        *)
LEMMA VirtInvInit == VirtInit => VirtInv
<1> SUFFICES ASSUME VirtInit PROVE VirtInv
  OBVIOUS
<1> USE SpaceAssumption DEF VirtInit
<1>1. memory_range(1, LastPage) \in Ranges /\ PagesOf(memory_range(1, LastPage)) = Space
  BY DEF memory_range, Ranges, PagesOf, Space
<1>2. /\ ranges \in Seq(Ranges) /\ Len(ranges) = 1 /\ DOMAIN ranges = {1}
      /\ ranges[1] = memory_range(1, LastPage)
  BY <1>1
<1>3. Sound(ranges) /\ Covered(ranges) = Space
  <2>1. memory_range(1, LastPage).pages > 0
    BY DEF memory_range
  <2>2. QED
    BY <1>1, <1>2, <2>1 DEF Sound, Covered
<1>4. Taken = {} /\ PagesOf(freeing) = {} /\ freeing \in Ranges
  BY NoRangeEmpty DEF Taken
<1>5. SpaceAccounted
  BY <1>2, <1>3, <1>4 DEF SpaceAccounted, TableFits
<1>6. QED
  BY <1>2, <1>4, <1>5 DEF VirtInv, MappingsIntact

(* virt_mmap_reduce leaves room for the ranges that are there.             *)
LEMMA ReducedFits ==
  ASSUME NEW tb \in Seq(Ranges), NEW m \in Nat, Len(tb) <= m
  PROVE  Reduced(tb, m) \in Nat /\ Len(tb) <= Reduced(tb, m)
<1>1. Len(tb) \in Nat
  OBVIOUS
<1>2. ASSUME NEW n \in Nat, n * 2 < m PROVE m \div 2 \in Nat /\ n <= m \div 2
  BY <1>2
<1>3. QED
  BY <1>1, <1>2 DEF Reduced

(* The pages of a mapping, as a run.                                       *)
LEMMA MapPagesOf ==
  ASSUME NEW m \in Placed
  PROVE  /\ PageBase(m.vaddr) \in Nat /\ PageCount(m.vaddr, m.size) \in Nat \ {0}
         /\ MapPages(m) = Run(PageBase(m.vaddr), PageCount(m.vaddr, m.size))
<1>1. m.vaddr \in Nat /\ m.size \in Nat \ {0}
  BY DEF Placed
<1>2. QED
  BY <1>1, PageCounts DEF MapPages

(* The loops reach the pages of the mapping and the one behind it.         *)
LEMMA TouchedRun ==
  ASSUME NEW g \in Nat, NEW n \in Nat
  PROVE  Touched(g, n) = g .. g + n
<1>1. ASSUME NEW v \in g .. g + n PROVE v \in Touched(g, n)
  <2>1. v - g \in 0 .. n /\ v = g + (v - g)
    OBVIOUS
  <2>2. QED
    BY <2>1 DEF Touched, Offsets
<1>2. ASSUME NEW v \in Touched(g, n) PROVE v \in g .. g + n
  BY DEF Touched, Offsets
<1>3. QED
  BY <1>1, <1>2

(* create_virt_mapping takes free pages, so no mapping loses one to it.    *)
LEMMA CreateStep ==
  ASSUME VirtInv, NEW r \in Requests, create_virt_mapping(r)
  PROVE  VirtInv'
<1> DEFINE n == PageCount(r.paddr, r.size)
           got == mmap_get_pages(ranges, n)
           g == got.addr
           m == [vaddr |-> (g * Unit) + (r.paddr % Unit), paddr |-> r.paddr, size |-> r.size]
<1> USE DEF VirtInv
<1>1. r.paddr \in Nat /\ r.size \in Nat \ {0}
  BY RequestsAssumption
<1>2. n \in Nat \ {0} /\ PageBase(r.paddr) \in Nat
  BY <1>1, PageCounts
<1>3. freeing = NoRange /\ g # 0 /\ ranges' = got.tab /\ freeing' = freeing /\ lost' = lost
  BY DEF create_virt_mapping
<1>4. Sound(ranges) /\ Len(ranges) <= max /\ 0 \notin Covered(ranges)
  BY DEF SpaceAccounted, TableFits, Space
<1>5. /\ got.tab \in Seq(Ranges) /\ Sound(got.tab) /\ Len(got.tab) <= Len(ranges)
      /\ g \in Nat /\ Run(g, n) \subseteq Covered(ranges)
      /\ Covered(got.tab) = Covered(ranges) \ Run(g, n)
  <2> HIDE DEF n
  <2>1. QED
    BY <1>2, <1>3, <1>4, GetPages
<1>6. max' \in Nat /\ Len(ranges') <= max'
  <2>1. Len(got.tab) \in Nat /\ Len(ranges) \in Nat /\ Len(got.tab) <= max
    BY <1>4, <1>5
  <2>2. max' = Reduced(got.tab, max)
    BY DEF create_virt_mapping
  <2>3. QED
    BY <1>3, <1>5, <2>1, <2>2, ReducedFits
<1>7. /\ m.vaddr \in Nat /\ PageBase(m.vaddr) = g /\ PageCount(m.vaddr, m.size) = n
      /\ m \in Placed /\ MapPages(m) = Run(g, n)
  <2> DEFINE a == r.paddr
             c == r.size
             w == (g * Unit) + (a % Unit)
  <2>1. m.vaddr = w /\ m.paddr = a /\ m.size = c
    OBVIOUS
  <2> HIDE DEF got, g, a, c, m
  <2>2. w \in Nat /\ PageBase(w) = g /\ PageCount(w, c) = PageCount(a, c)
    BY <1>1, <1>5, SamePages DEF a, c
  <2>3. m \in Placed
    BY <1>1, <2>1, <2>2 DEF Placed, m, a, c
  <2>4. QED
    BY <2>1, <2>2, <2>3 DEF MapPages, a, c
<1>8. maps' = maps \cup {m} /\ Taken' = Taken \cup Run(g, n)
  <2>1. maps' = maps \cup {m}
    BY DEF create_virt_mapping
  <2>2. \A c \in maps : MapPages(c)' = MapPages(c)
    BY DEF MapPages, PageBase, PageCount, Run
  <2> HIDE DEF m, n
  <2>3. QED
    BY <1>7, <2>1, <2>2 DEF Taken
<1>9. Run(g, n) \cap Taken = {} /\ Run(g, n) \subseteq Space /\ Run(g, n) \cap lost = {}
  BY <1>5 DEF SpaceAccounted
<1> HIDE DEF m, n, got
<1>10. SpaceAccounted'
  <2>1. Covered(ranges)' = Space \ (Taken' \cup PagesOf(freeing)' \cup lost')
    BY <1>3, <1>5, <1>8, <1>9 DEF SpaceAccounted, Covered, PagesOf
  <2>2. \A c \in maps : MapPages(c) \cap MapPages(m) = {}
    BY <1>7, <1>9 DEF Taken
  <2>3. \A c, l \in maps' : c # l => MapPages(c) \cap MapPages(l) = {}
    BY <1>8, <2>2 DEF SpaceAccounted
  <2>4. Taken' \cap (PagesOf(freeing)' \cup lost') = {}
    BY <1>3, <1>8, <1>9, NoRangeEmpty DEF SpaceAccounted, PagesOf
  <2>5. Sound(ranges)'
    BY <1>3, <1>5 DEF Sound, PagesOf
  <2>6. QED
    BY <1>3, <1>6, <2>1, <2>3, <2>4, <2>5 DEF SpaceAccounted, TableFits, MapPages, Space
<1>11. MappingsIntact'
  <2>1. Touched(g, n) = g .. g + n
    BY <1>2, <1>5, TouchedRun
  <2>2. /\ spilt' = (spilt \/ Touched(g, n) \cap Taken # {})
        /\ pt' = [v \in DOMAIN pt |->
                    IF v \in Touched(g, n) THEN PageBase(r.paddr) + (v - g) ELSE pt[v]]
    BY DEF create_virt_mapping, got, n
  <2>3. Space \subseteq DOMAIN pt
    BY SpaceAssumption DEF Space
  <2> SUFFICES ASSUME ~spilt', NEW c \in maps', NEW v \in MapPages(c)
               PROVE  pt'[v] = PageBase(c.paddr) + (v - PageBase(c.vaddr))
    BY DEF MappingsIntact, MapPages, PageBase, PageCount, Run
  <2>4. CASE c = m
    <3>1. v \in Run(g, n) /\ v \in Space
      BY <1>7, <1>9, <2>4
    <3>2. v \in Touched(g, n)
      BY <1>2, <1>5, <2>1, <3>1 DEF Run
    <3>3. m.paddr = r.paddr
      BY DEF m
    <3>4. QED
      BY <1>7, <2>2, <2>3, <2>4, <3>1, <3>2, <3>3
  <2>5. CASE c \in maps
    <3>1. v \in Taken /\ v \in Space
      BY <2>5 DEF Taken
    <3>2. v \notin Touched(g, n) /\ ~spilt
      BY <2>2, <3>1
    <3>3. QED
      BY <2>2, <2>3, <2>5, <3>1, <3>2 DEF MappingsIntact
  <2>6. QED
    BY <1>8, <2>4, <2>5
<1>12. /\ pt' \in [1 .. LastPage + 1 -> Nat \cup {None}] /\ spilt' \in BOOLEAN
  <2>1. Touched(g, n) = g .. g + n
    BY <1>2, <1>5, TouchedRun
  <2>2. \A v \in g .. g + n : PageBase(r.paddr) + (v - g) \in Nat
    BY <1>2, <1>5
  <2>3. QED
    BY <2>1, <2>2 DEF create_virt_mapping, got, n
<1>13. QED
  BY <1>3, <1>5, <1>6, <1>7, <1>8, <1>9, <1>10, <1>11, <1>12, NoRangeEmpty DEF PagesOf

(* delete_virt_mapping gives up the pages of one mapping and no others.    *)
LEMMA DeleteStep ==
  ASSUME VirtInv, NEW m \in maps, delete_virt_mapping(m)
  PROVE  VirtInv'
<1> DEFINE g == PageBase(m.vaddr)
           n == PageCount(m.vaddr, m.size)
<1> USE DEF VirtInv
<1>1. /\ g \in Nat /\ n \in Nat \ {0} /\ MapPages(m) = Run(g, n)
      /\ m \in Placed
  BY MapPagesOf
<1>2. /\ freeing = NoRange /\ freeing' = memory_range(g, n) /\ maps' = maps \ {m}
      /\ ranges' = ranges /\ max' = max /\ lost' = lost
  BY DEF delete_virt_mapping
<1>3. /\ spilt' = (spilt \/ Touched(g, n) \cap (Taken \ MapPages(m)) # {})
      /\ pt' = [v \in DOMAIN pt |-> IF v \in Touched(g, n) THEN None ELSE pt[v]]
  BY DEF delete_virt_mapping
<1> HIDE DEF g, n
<1>4. PagesOf(freeing)' = MapPages(m) /\ freeing' \in Ranges
  BY <1>1, <1>2 DEF PagesOf, memory_range, Run, Ranges
<1>5. MapPages(m) \subseteq Taken
  BY DEF Taken
<1>6. Taken' = Taken \ MapPages(m)
  <2>1. \A c \in maps : MapPages(c)' = MapPages(c)
    BY DEF MapPages, PageBase, PageCount, Run
  <2>2. \A c \in maps : c # m => MapPages(c) \cap MapPages(m) = {}
    BY DEF SpaceAccounted
  <2>3. QED
    BY <1>2, <2>1, <2>2 DEF Taken
<1>7. SpaceAccounted'
  <2>1. Covered(ranges)' = Space \ (Taken' \cup PagesOf(freeing)' \cup lost')
    <3>1. Covered(ranges)' = Covered(ranges)
      BY <1>2 DEF Covered, PagesOf
    <3>2. Covered(ranges) = Space \ (Taken \cup lost)
      BY <1>2, NoRangeEmpty DEF SpaceAccounted
    <3>3. QED
      BY <1>2, <1>4, <1>5, <1>6, <3>1, <3>2
  <2>2. \A c, l \in maps' : c # l => MapPages(c) \cap MapPages(l) = {}
    BY <1>2 DEF SpaceAccounted
  <2>3. Taken' \cap (PagesOf(freeing)' \cup lost') = {}
    BY <1>2, <1>4, <1>6 DEF SpaceAccounted
  <2>4. TableFits' /\ Sound(ranges)'
    BY <1>2 DEF SpaceAccounted, TableFits, Sound, PagesOf
  <2>5. QED
    BY <2>1, <2>2, <2>3, <2>4 DEF SpaceAccounted, MapPages, PageBase, PageCount, Run, Space
<1>8. MappingsIntact'
  <2> SUFFICES ASSUME ~spilt', NEW c \in maps', NEW v \in MapPages(c)
               PROVE  pt'[v] = PageBase(c.paddr) + (v - PageBase(c.vaddr))
    BY DEF MappingsIntact, MapPages, PageBase, PageCount, Run
  <2>1. c \in maps /\ c # m /\ v \in Taken /\ v \notin MapPages(m)
    <3>1. c \in maps /\ c # m
      BY <1>2
    <3>2. MapPages(c) \cap MapPages(m) = {}
      BY <3>1 DEF SpaceAccounted
    <3>3. QED
      BY <3>1, <3>2 DEF Taken
  <2>2. v \notin Touched(g, n) /\ ~spilt
    BY <1>3, <2>1
  <2>3. v \in DOMAIN pt
    BY <2>1, SpaceAssumption DEF Space
  <2>4. QED
    BY <1>3, <2>1, <2>2, <2>3 DEF MappingsIntact
<1>9. pt' \in [1 .. LastPage + 1 -> Nat \cup {None}] /\ spilt' \in BOOLEAN
  BY <1>3
<1>10. MapPages(m) \cap lost = {}
  BY <1>5 DEF SpaceAccounted
<1>11. QED
  BY <1>2, <1>4, <1>5, <1>6, <1>7, <1>8, <1>9, <1>10

(* The steps of free_virt_pages touch neither mappings nor page tables.    *)
LEMMA SameMappings ==
  ASSUME VirtInv, UNCHANGED <<pt, maps, spilt>>
  PROVE  /\ Taken' = Taken /\ MappingsIntact'
         /\ \A m, c \in maps' : m # c => MapPages(m) \cap MapPages(c) = {}
  BY DEF VirtInv, Taken, MappingsIntact, SpaceAccounted, MapPages, PageBase, PageCount, Run

(* free_virt_pages adds the range to the table.                            *)
LEMMA RecordStep == ASSUME VirtInv, RecordRange PROVE VirtInv'
<1> USE DEF VirtInv
<1> DEFINE base == freeing.base
           n == freeing.pages
<1>1. /\ Added.ok /\ ranges' = Added.tab /\ max' = Reduced(Added.tab, max) /\ freeing' = NoRange
      /\ UNCHANGED <<pt, maps, lost, spilt>>
  BY DEF RecordRange
<1>2. base \in Nat /\ n \in Nat /\ Run(base, n) = PagesOf(freeing)
  BY DEF Ranges, Run, PagesOf
<1>3. /\ Sound(ranges) /\ Len(ranges) <= max
      /\ Run(base, n) \cap Covered(ranges) = {}
  BY <1>2 DEF SpaceAccounted, TableFits
<1>4. Added = mmap_add_range_merge(ranges, max, base, n)
  BY DEF Added
<1> HIDE DEF base, n
<1>5. /\ Added.tab \in Seq(Ranges) /\ Len(Added.tab) <= max /\ Sound(Added.tab)
      /\ Covered(Added.tab) = Covered(ranges) \cup Run(base, n)
  BY <1>1, <1>2, <1>3, <1>4, AddRange
<1>6. max' \in Nat /\ Len(ranges') <= max'
  BY <1>1, <1>5, ReducedFits
<1>7. PagesOf(freeing)' = {} /\ freeing' \in Ranges
  BY <1>1, NoRangeEmpty DEF PagesOf
<1>8. Taken' = Taken /\ MappingsIntact'
      /\ \A m, c \in maps' : m # c => MapPages(m) \cap MapPages(c) = {}
  BY <1>1, SameMappings
<1>9. Covered(ranges)' = Space \ (Taken' \cup PagesOf(freeing)' \cup lost')
  BY <1>1, <1>2, <1>5, <1>7, <1>8 DEF SpaceAccounted, Covered, PagesOf
<1>10. SpaceAccounted'
  <2>1. Sound(ranges)' /\ TableFits'
    BY <1>1, <1>5, <1>6 DEF Sound, PagesOf, TableFits
  <2>2. Taken' \cap (PagesOf(freeing)' \cup lost') = {}
    BY <1>1, <1>7, <1>8 DEF SpaceAccounted
  <2>3. QED
    BY <1>8, <1>9, <2>1, <2>2 DEF SpaceAccounted, MapPages, PageBase, PageCount, Run, Space
<1>11. QED
  BY <1>1, <1>5, <1>6, <1>7, <1>8, <1>10

(* free_virt_pages makes the array twice as long.                          *)
LEMMA EnlargeStep == ASSUME VirtInv, EnlargeTable PROVE VirtInv'
<1> USE DEF VirtInv
<1>1. max' = Len(ranges) * 2 /\ UNCHANGED <<ranges, pt, maps, freeing, lost, spilt>>
  BY DEF EnlargeTable, NewMax
<1>2. max' \in Nat /\ Len(ranges) <= max'
  BY <1>1
<1>3. Taken' = Taken /\ MappingsIntact'
      /\ \A m, c \in maps' : m # c => MapPages(m) \cap MapPages(c) = {}
  BY <1>1, SameMappings
<1>4. SpaceAccounted'
  BY <1>1, <1>2, <1>3
  DEF SpaceAccounted, TableFits, Sound, Covered, PagesOf, MapPages, PageBase, PageCount, Run, Space
<1>5. QED
  BY <1>1, <1>2, <1>3, <1>4 DEF PagesOf

(* free_virt_pages gets no longer array and gives up.                      *)
LEMMA NoMemoryStep == ASSUME VirtInv, NoMemory PROVE VirtInv'
<1> USE DEF VirtInv
<1>1. /\ lost' = lost \cup PagesOf(freeing) /\ freeing' = NoRange
      /\ UNCHANGED <<ranges, max, pt, maps, spilt>>
  BY DEF NoMemory
<1>2. PagesOf(freeing)' = {} /\ freeing' \in Ranges
  BY <1>1, NoRangeEmpty DEF PagesOf
<1>3. Taken' = Taken /\ MappingsIntact'
      /\ \A m, c \in maps' : m # c => MapPages(m) \cap MapPages(c) = {}
  BY <1>1, SameMappings
<1>4. Covered(ranges)' = Space \ (Taken' \cup PagesOf(freeing)' \cup lost')
  BY <1>1, <1>2, <1>3 DEF SpaceAccounted, Covered, PagesOf
<1>5. SpaceAccounted'
  BY <1>1, <1>2, <1>3, <1>4
  DEF SpaceAccounted, TableFits, Sound, PagesOf, MapPages, PageBase, PageCount, Run, Space
<1>6. QED
  BY <1>1, <1>2, <1>3, <1>5

-----------------------------------------------------------------------------
(* The inductive invariant of the virtual mappings.                        *)
THEOREM VirtInvariant == VirtSpec => []VirtInv
<1>1. VirtInv /\ [VirtNext]_virtVars => VirtInv'
  <2> SUFFICES ASSUME VirtInv, [VirtNext]_virtVars PROVE VirtInv'
    OBVIOUS
  <2>1. CASE \E r \in Requests : create_virt_mapping(r)
    BY <2>1, CreateStep
  <2>2. CASE \E m \in maps : delete_virt_mapping(m)
    BY <2>2, DeleteStep
  <2>3. CASE RecordRange
    BY <2>3, RecordStep
  <2>4. CASE EnlargeTable
    BY <2>4, EnlargeStep
  <2>5. CASE NoMemory
    BY <2>5, NoMemoryStep
  <2>6. CASE UNCHANGED virtVars
    BY <2>6 DEF VirtInv, SpaceAccounted, MappingsIntact, TableFits, Sound, Covered, PagesOf,
                Taken, MapPages, PageBase, PageCount, Run, Space, virtVars
  <2>7. QED
    BY <2>1, <2>2, <2>3, <2>4, <2>5, <2>6 DEF VirtNext, FreeStep
<1>2. QED
  BY VirtInvInit, <1>1, PTL DEF VirtSpec

(* No page of the space is in two mappings, or free and mapped, or         *)
(* forgotten, and the table never outgrows the block it is in.             *)
THEOREM VirtSpaceAccounted == VirtSpec => []SpaceAccounted
<1>1. VirtInv => SpaceAccounted
  BY DEF VirtInv
<1>2. QED
  BY VirtInvariant, <1>1, PTL

(* A mapping keeps translating to the pages it was made for, up to the     *)
(* first operation whose loop reaches into another one.                    *)
THEOREM VirtMappingsIntact == VirtSpec => []MappingsIntact
<1>1. VirtInv => MappingsIntact
  BY DEF VirtInv
<1>2. QED
  BY VirtInvariant, <1>1, PTL
=============================================================================
