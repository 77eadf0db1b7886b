--------------------------- MODULE MemoryMapProofs ---------------------------
(***************************************************************************)
(* What the operations of kernel/mmap.c do to a table of ranges, for every *)
(* table, capacity and run.                                                *)
(***************************************************************************)
EXTENDS MemoryMap, WellFoundedInduction, TLAPS

(* The index a loop of mmap.c stops at is one that qualifies.              *)
LEMMA FirstIn ==
  ASSUME NEW S \in SUBSET Nat, S # {}
  PROVE  First(S) \in S
<1>1. PICK i \in S : \A j \in S : ~(<<j, i>> \in OpToRel(<, Nat))
  BY NatLessThanWellFounded, WFMin
<1>2. \A j \in S : ~(j < i)
  BY <1>1, Zenon DEF OpToRel
<1>3. \A j \in S : i <= j
  BY <1>2
<1>4. QED
  BY <1>3 DEF First

(* Removing a range shifts the others down: the result is a table whose    *)
(* ranges are the old ones without the removed one.                        *)
LEMMA RemoveRangeShape ==
  ASSUME NEW tab \in Seq(Ranges), NEW i \in DOMAIN tab
  PROVE  /\ RemoveRange(tab, i) \in Seq(Ranges)
         /\ Len(RemoveRange(tab, i)) = Len(tab) - 1
         /\ \A k \in DOMAIN RemoveRange(tab, i) :
              RemoveRange(tab, i)[k] = IF k < i THEN tab[k] ELSE tab[k + 1]
<1> DEFINE new == RemoveRange(tab, i)
<1>1. Len(tab) \in Nat /\ DOMAIN tab = 1 .. Len(tab) /\ Len(tab) - 1 \in Nat
  OBVIOUS
<1>2. \A k \in 1 .. Len(tab) - 1 : k \in 1 .. Len(tab) /\ k + 1 \in 1 .. Len(tab)
  BY <1>1
<1>3. \A k \in 1 .. Len(tab) : tab[k] \in Ranges
  BY <1>1
<1>4. new \in [1 .. Len(tab) - 1 -> Ranges]
  BY <1>2, <1>3 DEF RemoveRange
<1>5. new \in Seq(Ranges)
  BY <1>1, <1>4
<1>6. QED
  BY <1>1, <1>4, <1>5 DEF RemoveRange

(* mmap_get_pages takes a run of n pages out of the table, all of which    *)
(* the table covered, and leaves the rest as it was; or it returns 0 and   *)
(* changes nothing.                                                        *)
LEMMA GetPages ==
  ASSUME NEW tab \in Seq(Ranges), Sound(tab), 0 \notin Covered(tab),
         NEW n \in Nat \ {0},
         NEW got, got = mmap_get_pages(tab, n)
  PROVE  /\ got.tab \in Seq(Ranges)
         /\ Sound(got.tab)
         /\ Len(got.tab) <= Len(tab)
         /\ got.addr = 0 => got.tab = tab
         /\ got.addr # 0 => /\ got.addr \in Nat
                            /\ Run(got.addr, n) \subseteq Covered(tab)
                            /\ Covered(got.tab) = Covered(tab) \ Run(got.addr, n)
<1>1. CASE Fits(tab, n) = {}
  BY <1>1 DEF mmap_get_pages
<1>2. CASE Fits(tab, n) # {}
  <2> DEFINE i == First(Fits(tab, n))
             b == tab[i].base
             m == tab[i].pages
  <2>0. Fits(tab, n) \in SUBSET Nat
    BY DEF Fits
  <2>1. i \in Fits(tab, n)
    BY <1>2, <2>0, FirstIn
  <2> HIDE DEF i
  <2>2. /\ i \in DOMAIN tab /\ i \in Nat /\ tab[i] \in Ranges
        /\ b \in Nat /\ m \in Nat /\ m >= n
    <3>1. i \in DOMAIN tab /\ m >= n
      BY <2>1 DEF Fits
    <3>2. i \in Nat /\ tab[i] \in Ranges
      BY <3>1
    <3>3. QED
      BY <3>1, <3>2 DEF Ranges
  <2>3. got.addr = b /\ b # 0
    <3>1. b \in PagesOf(tab[i])
      BY <2>2 DEF PagesOf
    <3>2. QED
      BY <1>2, <2>2, <3>1 DEF mmap_get_pages, Covered, i
  <2>4. Run(b, n) \subseteq PagesOf(tab[i])
    BY <2>2 DEF Run, PagesOf
  <2>5. Run(b, n) \subseteq Covered(tab)
    BY <2>2, <2>4 DEF Covered
  <2>6. CASE m = n
    <3> DEFINE new == RemoveRange(tab, i)
    <3>1. got.tab = new
      BY <1>2, <2>6 DEF mmap_get_pages, i
    <3>2. /\ new \in Seq(Ranges) /\ Len(new) = Len(tab) - 1
          /\ \A k \in DOMAIN new : new[k] = IF k < i THEN tab[k] ELSE tab[k + 1]
      BY <2>2, RemoveRangeShape
    <3> HIDE DEF new
    <3>3. DOMAIN new = 1 .. Len(tab) - 1 /\ DOMAIN tab = 1 .. Len(tab) /\ Len(tab) \in Nat
      BY <3>2
    <3> DEFINE old(k) == IF k < i THEN k ELSE k + 1
    <3>4. \A k \in DOMAIN new : old(k) \in DOMAIN tab /\ old(k) # i /\ new[k] = tab[old(k)]
      BY <2>2, <3>2, <3>3
    <3>5. \A k, l \in DOMAIN new : k # l => old(k) # old(l)
      BY <2>2, <3>3
    <3>6. Sound(new)
      BY <3>4, <3>5 DEF Sound
    <3>7. \A j \in DOMAIN tab : j # i => \E k \in DOMAIN new : old(k) = j
      <4> SUFFICES ASSUME NEW j \in DOMAIN tab, j # i
                   PROVE  \E k \in DOMAIN new : old(k) = j
        OBVIOUS
      <4>1. CASE j < i
        BY <2>2, <3>3, <4>1
      <4>2. CASE j > i
        <5>1. j - 1 \in DOMAIN new /\ old(j - 1) = j
          BY <2>2, <3>3, <4>2
        <5>2. QED
          BY <5>1
      <4>3. QED
        BY <2>2, <3>3, <4>1, <4>2
    <3>8. PagesOf(tab[i]) = Run(b, n)
      BY <2>2, <2>6 DEF PagesOf, Run
    <3>9. Covered(new) = Covered(tab) \ Run(b, n)
      <4>1. ASSUME NEW p \in Covered(new) PROVE p \in Covered(tab) \ Run(b, n)
        <5>1. PICK k \in DOMAIN new : p \in PagesOf(new[k])
          BY <4>1 DEF Covered
        <5>2. old(k) \in DOMAIN tab /\ old(k) # i /\ p \in PagesOf(tab[old(k)])
          BY <3>4, <5>1
        <5>3. QED
          BY <2>2, <3>8, <5>2 DEF Sound, Covered
      <4>2. ASSUME NEW p \in Covered(tab), p \notin Run(b, n) PROVE p \in Covered(new)
        <5>1. PICK j \in DOMAIN tab : p \in PagesOf(tab[j])
          BY <4>2 DEF Covered
        <5>2. PICK k \in DOMAIN new : old(k) = j
          BY <3>7, <3>8, <4>2, <5>1
        <5>3. QED
          BY <3>4, <5>1, <5>2 DEF Covered
      <4>3. QED
        BY <4>1, <4>2
    <3>10. QED
      BY <2>2, <2>3, <2>5, <3>1, <3>2, <3>3, <3>6, <3>9
  <2>7. CASE m # n
    <3> DEFINE new == TakeFront(tab, i, n)
    <3>1. got.tab = new
      BY <1>2, <2>7 DEF mmap_get_pages, i
    <3>2. memory_range(b + n, m - n) \in Ranges
      BY <2>2, <2>7 DEF memory_range, Ranges
    <3>3. new \in Seq(Ranges) /\ Len(new) = Len(tab) /\ DOMAIN new = DOMAIN tab
      BY <2>2, <3>2 DEF TakeFront
    <3>4. /\ \A k \in DOMAIN tab : k # i => new[k] = tab[k]
          /\ new[i] = memory_range(b + n, m - n)
      BY <2>2 DEF TakeFront
    <3> HIDE DEF new
    <3>5. PagesOf(new[i]) = PagesOf(tab[i]) \ Run(b, n) /\ new[i].pages > 0
      <4>1. new[i].base = b + n /\ new[i].pages = m - n
        BY <3>4 DEF memory_range
      <4>2. PagesOf(new[i]) = (b + n) .. (b + m - 1)
        <5>1. \A x, y \in Nat : (x + n) + (y - n) - 1 = x + y - 1
          OBVIOUS
        <5>2. PagesOf(new[i]) = (b + n) .. ((b + n) + (m - n) - 1)
          BY <4>1 DEF PagesOf
        <5>3. QED
          BY <2>2, <5>1, <5>2
      <4>3. PagesOf(tab[i]) = b .. (b + m - 1) /\ Run(b, n) = b .. (b + n - 1)
        BY DEF PagesOf, Run
      <4>4. QED
        BY <2>2, <2>7, <4>1, <4>2, <4>3
    <3>6. Sound(new)
      BY <3>3, <3>4, <3>5 DEF Sound
    <3>7. \A k \in DOMAIN tab : k # i => PagesOf(tab[k]) \cap Run(b, n) = {}
      BY <2>2, <2>4 DEF Sound
    <3>8. Covered(new) = Covered(tab) \ Run(b, n)
      <4>1. \A k \in DOMAIN tab : PagesOf(new[k]) = PagesOf(tab[k]) \ Run(b, n)
        BY <3>4, <3>5, <3>7
      <4>2. QED
        BY <3>3, <4>1 DEF Covered
    <3>9. QED
      BY <2>2, <2>3, <2>5, <3>1, <3>3, <3>6, <3>8
  <2>8. QED
    BY <2>6, <2>7
<1>3. QED
  BY <1>1, <1>2

(* mmap_add_range_merge adds exactly the pages it is given, to a range     *)
(* just above them or as a range of their own, or refuses and changes      *)
(* nothing; it never exceeds the capacity.                                 *)
LEMMA AddRange ==
  ASSUME NEW tab \in Seq(Ranges), Sound(tab),
         NEW cap \in Nat, Len(tab) <= cap,
         NEW base \in Nat, NEW n \in Nat,
         Run(base, n) \cap Covered(tab) = {},
         NEW new, new = mmap_add_range_merge(tab, cap, base, n)
  PROVE  /\ new.ok \in BOOLEAN
         /\ new.tab \in Seq(Ranges)
         /\ Len(new.tab) <= cap
         /\ ~new.ok => new.tab = tab
         /\ new.ok => Sound(new.tab) /\ Covered(new.tab) = Covered(tab) \cup Run(base, n)
<1>1. CASE n # 0 /\ Above(tab, base, n) # {}
  <2> DEFINE i == First(Above(tab, base, n))
             t == GrowDown(tab, i, base, n)
  <2>1. Above(tab, base, n) \in SUBSET Nat
    BY DEF Above
  <2>2. i \in Above(tab, base, n)
    BY <1>1, <2>1, FirstIn
  <2>3. new.ok = TRUE /\ new.tab = t
    BY <1>1 DEF mmap_add_range_merge
  <2> HIDE DEF i
  <2>4. i \in DOMAIN tab /\ tab[i].base = base + n
    BY <2>2 DEF Above
  <2>5. i \in Nat /\ tab[i] \in Ranges /\ tab[i].pages \in Nat
    <3>1. i \in Nat /\ tab[i] \in Ranges
      BY <2>4
    <3>2. QED
      BY <3>1 DEF Ranges
  <2>6. memory_range(base, tab[i].pages + n) \in Ranges
    BY <2>5 DEF memory_range, Ranges
  <2>7. t \in Seq(Ranges) /\ Len(t) = Len(tab) /\ DOMAIN t = DOMAIN tab
    BY <2>4, <2>6 DEF GrowDown
  <2>8. /\ \A k \in DOMAIN tab : k # i => t[k] = tab[k]
        /\ t[i].base = base /\ t[i].pages = tab[i].pages + n
    BY <2>4 DEF GrowDown, memory_range
  <2> HIDE DEF t
  <2>9. PagesOf(t[i]) = PagesOf(tab[i]) \cup Run(base, n)
    <3>1. PagesOf(t[i]) = base .. (base + (tab[i].pages + n) - 1)
      BY <2>8 DEF PagesOf
    <3>2. PagesOf(tab[i]) = (base + n) .. (base + n + tab[i].pages - 1)
      BY <2>4 DEF PagesOf
    <3>3. ASSUME NEW m \in Nat
          PROVE  base .. (base + (m + n) - 1)
                   = ((base + n) .. (base + n + m - 1)) \cup (base .. (base + n - 1))
      OBVIOUS
    <3>4. QED
      BY <2>5, <3>1, <3>2, <3>3 DEF Run
  <2>10. \A k \in DOMAIN tab : PagesOf(tab[k]) \cap Run(base, n) = {}
    BY DEF Covered
  <2>11. Sound(t)
    <3>1. \A k \in DOMAIN t : t[k].pages > 0
      BY <2>5, <2>7, <2>8 DEF Sound
    <3>2. \A k \in DOMAIN tab : k # i => PagesOf(t[k]) \cap PagesOf(t[i]) = {}
      BY <2>4, <2>8, <2>9, <2>10 DEF Sound
    <3>3. \A k, l \in DOMAIN t : k # l => PagesOf(t[k]) \cap PagesOf(t[l]) = {}
      BY <2>7, <2>8, <3>2 DEF Sound
    <3>4. QED
      BY <3>1, <3>3 DEF Sound
  <2>12. Covered(t) = Covered(tab) \cup Run(base, n)
    BY <2>4, <2>7, <2>8, <2>9 DEF Covered
  <2>13. QED
    BY <2>3, <2>7, <2>11, <2>12
<1>2. CASE ~(n # 0 /\ Above(tab, base, n) # {})
  <2>1. new = mmap_add_range(tab, cap, base, n)
    BY <1>2 DEF mmap_add_range_merge
  <2>2. CASE n # 0 /\ HasRoom(tab, cap)
    <3> DEFINE r == memory_range(base, n)
               t == Append(tab, r)
    <3>1. new.ok = TRUE /\ new.tab = t
      BY <2>1, <2>2 DEF mmap_add_range
    <3>2. r \in Ranges /\ r.pages = n /\ PagesOf(r) = Run(base, n)
      BY DEF memory_range, Ranges, PagesOf, Run
    <3> HIDE DEF r
    <3>3. /\ t \in Seq(Ranges) /\ Len(t) = Len(tab) + 1 /\ Len(tab) \in Nat
          /\ DOMAIN t = 1 .. Len(tab) + 1 /\ DOMAIN tab = 1 .. Len(tab)
          /\ \A k \in DOMAIN tab : t[k] = tab[k]
          /\ t[Len(tab) + 1] = r
      BY <3>2
    <3> HIDE DEF t
    <3>4. \A k \in DOMAIN t : k \in DOMAIN tab \/ k = Len(tab) + 1
      BY <3>3
    <3>5. \A k \in DOMAIN tab : PagesOf(tab[k]) \cap Run(base, n) = {}
      BY DEF Covered
    <3>6. Sound(t)
      BY <2>2, <3>2, <3>3, <3>4, <3>5 DEF Sound
    <3>7. Covered(t) = Covered(tab) \cup Run(base, n)
      <4>1. \A p \in Covered(t) : p \in Covered(tab) \cup Run(base, n)
        BY <3>2, <3>3, <3>4 DEF Covered
      <4>2. \A p \in Covered(tab) : p \in Covered(t)
        BY <3>3 DEF Covered
      <4>3. Len(tab) + 1 \in DOMAIN t
        BY <3>3
      <4>4. \A p \in Run(base, n) : p \in Covered(t)
        BY <3>2, <3>3, <4>3 DEF Covered
      <4>5. QED
        BY <4>1, <4>2, <4>4
    <3>8. Len(t) <= cap
      BY <2>2, <3>3 DEF HasRoom
    <3>9. QED
      BY <3>1, <3>3, <3>6, <3>7, <3>8
  <2>3. CASE ~(n # 0 /\ HasRoom(tab, cap))
    BY <2>1, <2>3 DEF mmap_add_range
  <2>4. QED
    BY <2>2, <2>3
<1>3. QED
  BY <1>1, <1>2
=============================================================================
