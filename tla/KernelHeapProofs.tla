-------------------------- MODULE KernelHeapProofs --------------------------
(***************************************************************************)
(* Proofs about the kernel heap, for any number of processors, any sizes,  *)
(* any page size and any supply of frames.  Nothing is claimed of a heap   *)
(* after one of the defects, so the inductive invariant is claimed of the  *)
(* states before the first.                                                *)
(***************************************************************************)
EXTENDS KernelHeap, FiniteSetTheorems, WellFoundedInduction, TLAPS

(* The list h with last entry l is a chain that fills Start .. z - 1: an   *)
(* entry ends where the next one begins, and the links agree both ways.    *)
Typed(h, l) == /\ h \in [DOMAIN h -> Entries] /\ DOMAIN h \subseteq Nat
               /\ Start \in DOMAIN h /\ l \in DOMAIN h
Within(h, z) == \A e \in DOMAIN h : Start <= e /\ e + HDR + h[e].size <= z
Onward(h, l, z) ==
    \A e \in DOMAIN h :
      /\ h[e].next = NULL => e = l /\ e + HDR + h[e].size = z
      /\ h[e].next # NULL => /\ h[e].next \in DOMAIN h
                             /\ h[e].next = e + HDR + h[e].size
                             /\ h[h[e].next].last = e
Backlinks(h) ==
    \A e \in DOMAIN h :
      /\ h[e].last = NULL => e = Start
      /\ h[e].last # NULL => h[e].last \in DOMAIN h /\ h[h[e].last].next = e
Ends(h, l) == h[l].next = NULL /\ h[Start].last = NULL
Apart(h) == \A d, e \in DOMAIN h : d < e => d + HDR + h[d].size <= e

Linked(h, l, z) == /\ Typed(h, l) /\ Within(h, z) /\ Onward(h, l, z)
                   /\ Backlinks(h) /\ Ends(h, l) /\ Apart(h)

(* Of two neighbours at most one is free.                                  *)
Merged(h) == \A e \in DOMAIN h : h[e].next # NULL => h[e].used \/ h[h[e].next].used

(* What the entry b behind a being taken over does to a list, by field.    *)
Absorbed(h, l, a, b, h2, l2) ==
    /\ DOMAIN h2 = DOMAIN h \ {b}
    /\ h2 \in [DOMAIN h2 -> Entries]
    /\ \A x \in DOMAIN h2 :
         /\ h2[x].used = h[x].used
         /\ h2[x].size = IF x = a THEN h[a].size + HDR + h[b].size ELSE h[x].size
         /\ h2[x].next = IF x = a THEN h[b].next ELSE h[x].next
         /\ h2[x].last = IF x = h[b].next THEN a ELSE h[x].last
    /\ l2 = IF h[b].next = NULL THEN a ELSE l

(* What cutting e down to size does, by field: n is the entry behind.      *)
Carved(h, l, e, size, h2, l2) ==
    LET n == e + HDR + size
    IN  /\ DOMAIN h2 = DOMAIN h \cup {n}
        /\ h2 \in [DOMAIN h2 -> Entries]
        /\ h2[n].size = h[e].size - (size + HDR) /\ ~h2[n].used
        /\ h2[n].next = h[e].next /\ h2[n].last = e
        /\ \A x \in DOMAIN h :
             /\ h2[x].used = h[x].used
             /\ h2[x].size = IF x = e THEN size ELSE h[x].size
             /\ h2[x].next = IF x = e THEN n ELSE h[x].next
             /\ h2[x].last = IF x = h[e].next THEN n ELSE h[x].last
        /\ l2 = IF h[e].next = NULL THEN n ELSE l

-----------------------------------------------------------------------------
(* A set of naturals has a least element.                                  *)
LEMMA LeastExists ==
  ASSUME NEW S \in SUBSET Nat, S # {}
  PROVE  \E i \in S : \A j \in S : i <= j
<1>1. PICK i \in S : \A j \in S : ~(<<j, i>> \in OpToRel(<, Nat))
  BY NatLessThanWellFounded, WFMin
<1>2. \A j \in S : ~(j < i)
  BY <1>1, Zenon DEF OpToRel
<1>3. QED
  BY <1>2

(* Lowest returns the least element of a set of addresses.                 *)
LEMMA LowestIsLeast ==
  ASSUME NEW S \in SUBSET Nat, S # {}
  PROVE  Lowest(S) \in S /\ \A j \in S : Lowest(S) <= j
BY LeastExists DEF Lowest

(* Two entries never begin inside one another.                             *)
LEMMA NeighbourOutside ==
  ASSUME NEW h, NEW l, NEW z \in Nat, Linked(h, l, z),
         NEW e \in DOMAIN h, NEW x \in DOMAIN h, e < x
  PROVE  /\ h[e].next # NULL /\ h[e].next <= x
         /\ h[e].next = e + HDR + h[e].size
<1>1. h[e] \in Entries /\ h[x] \in Entries /\ e \in Nat /\ x \in Nat
  BY DEF Linked, Typed
<1>2. e + HDR + h[e].size <= x /\ x + HDR + h[x].size <= z
  BY DEF Linked, Apart, Within
<1>3. QED
  BY <1>1, <1>2 DEF Linked, Onward, Entries, HDR

(* Absorb does to the list what Absorbed says.                             *)
LEMMA AbsorbFields ==
  ASSUME NEW h, NEW l, NEW z \in Nat, Linked(h, l, z),
         NEW a \in DOMAIN h, NEW b \in DOMAIN h, h[a].next = b
  PROVE  Absorbed(h, l, a, b, Absorb(List(h, l), a, b).hdr, Absorb(List(h, l), a, b).last)
<1> DEFINE n == h[b].next
           lk == BackLink(List(h, l), a, n)
           g == [lk.hdr EXCEPT ![a].size = @ + HDR + h[b].size, ![a].next = n]
           h2 == Absorb(List(h, l), a, b).hdr
<1>1. /\ h \in [DOMAIN h -> Entries] /\ DOMAIN h \subseteq Nat /\ a # b
      /\ n # NULL => n \in DOMAIN h
      /\ NULL \notin DOMAIN h /\ n # a /\ n # b
  <2>1. /\ h \in [DOMAIN h -> Entries] /\ DOMAIN h \subseteq Nat /\ NULL \notin DOMAIN h
    BY StartAssumption DEF Linked, Typed, Within, NULL
  <2>2. b = a + HDR + h[a].size /\ h[a].size \in Nat
    BY <2>1 DEF Linked, Onward, Entries
  <2>3. n # NULL => n \in DOMAIN h /\ n = b + HDR + h[b].size /\ h[b].size \in Nat
    BY <2>1 DEF Linked, Onward, Entries
  <2>4. QED
    BY <2>1, <2>2, <2>3 DEF HDR
<1>2. /\ lk.hdr = IF n # NULL THEN [h EXCEPT ![n].last = a] ELSE h
      /\ lk.last = IF n # NULL THEN l ELSE a
  BY DEF BackLink, List
<1>3. /\ h2 = [x \in DOMAIN g \ {b} |-> g[x]]
      /\ Absorb(List(h, l), a, b).last = lk.last
  BY DEF Absorb, List, Drop
<1>4. /\ DOMAIN lk.hdr = DOMAIN h
      /\ \A x \in DOMAIN h : lk.hdr[x] = IF x = n THEN [h[x] EXCEPT !.last = a] ELSE h[x]
  BY <1>1, <1>2
<1>5. /\ DOMAIN g = DOMAIN h
      /\ g[a] = [h[a] EXCEPT !.size = @ + HDR + h[b].size, !.next = n]
      /\ \A x \in DOMAIN h : x # a => g[x] = lk.hdr[x]
  BY <1>1, <1>4
<1> HIDE DEF g, lk
<1>6. \A x \in DOMAIN h :
         /\ g[x] \in Entries
         /\ g[x].used = h[x].used
         /\ g[x].size = IF x = a THEN h[a].size + HDR + h[b].size ELSE h[x].size
         /\ g[x].next = IF x = a THEN n ELSE h[x].next
         /\ g[x].last = IF x = n THEN a ELSE h[x].last
  <2> TAKE x \in DOMAIN h
  <2>1. /\ h[x] \in Entries /\ h[a] \in Entries /\ h[b] \in Entries
        /\ a \in Nat /\ b \in Nat /\ n \in Nat
    BY <1>1 DEF Entries
  <2>2. CASE x = a
    <3>1. g[x] = [size |-> h[a].size + HDR + h[b].size, used |-> h[a].used,
                  last |-> h[a].last, next |-> n]
      BY <2>1, <2>2, <1>5 DEF Entries
    <3>2. h[a].size + HDR + h[b].size \in Nat
      BY <2>1 DEF Entries, HDR
    <3>3. g[x] \in Entries
      BY <3>1, <3>2, <2>1 DEF Entries
    <3>4. QED
      BY <3>1, <3>3, <2>2, <1>1
  <2>3. CASE x # a /\ x = n
    <3>1. g[x] = [size |-> h[x].size, used |-> h[x].used, last |-> a, next |-> h[x].next]
      BY <2>1, <2>3, <1>4, <1>5 DEF Entries
    <3>2. g[x] \in Entries
      BY <3>1, <2>1 DEF Entries
    <3>3. QED
      BY <3>1, <3>2, <2>3
  <2>4. CASE x # a /\ x # n
    BY <2>1, <2>4, <1>4, <1>5
  <2>5. QED
    BY <2>2, <2>3, <2>4
<1>7. DOMAIN h2 = DOMAIN h \ {b} /\ \A x \in DOMAIN h \ {b} : h2[x] = g[x]
  BY <1>3, <1>5
<1>8. h2 \in [DOMAIN h2 -> Entries]
  BY <1>3, <1>5, <1>6
<1>9. QED
  BY <1>2, <1>3, <1>6, <1>7, <1>8 DEF Absorbed

(* Carve does to the list what Carved says; the new header is where none   *)
(* was.                                                                    *)
LEMMA CarveFields ==
  ASSUME NEW h, NEW l, NEW z \in Nat, Linked(h, l, z),
         NEW e \in DOMAIN h, NEW size \in Nat, size + HDR <= h[e].size
  PROVE  /\ Carved(h, l, e, size, Carve(List(h, l), e, size).hdr, Carve(List(h, l), e, size).last)
         /\ e + HDR + size \notin DOMAIN h
<1> DEFINE n == e + HDR + size
           f == h[e].next
           new == [size |-> h[e].size - (size + HDR), used |-> FALSE, last |-> e, next |-> f]
           put == Put(h, n, new)
           lk == BackLink(List(put, l), n, f)
           h2 == Carve(List(h, l), e, size).hdr
<1>1. /\ h \in [DOMAIN h -> Entries] /\ DOMAIN h \subseteq Nat
      /\ NULL \notin DOMAIN h /\ e \in Nat /\ h[e].size \in Nat /\ e # NULL
  BY StartAssumption DEF Linked, Typed, Within, NULL, Entries
<1>2. n \notin DOMAIN h /\ n # NULL /\ n \in Nat
  <2>1. SUFFICES ASSUME n \in DOMAIN h PROVE FALSE
    BY <1>1 DEF HDR, NULL
  <2>2. e < n
    BY <1>1 DEF HDR
  <2>3. e + HDR + h[e].size <= n
    BY <2>1, <2>2 DEF Linked, Apart
  <2>4. QED
    BY <2>3, <1>1 DEF HDR
<1>3. f # NULL => f \in DOMAIN h /\ f # e /\ f # n
  BY <1>1, <1>2 DEF Linked, Onward, HDR
<1>4. new \in Entries /\ f \in Nat
  BY <1>1 DEF Entries, HDR
<1>5. /\ Carve(List(h, l), e, size) = List([lk.hdr EXCEPT ![e].size = size, ![e].next = n], lk.last)
      /\ h2 = [lk.hdr EXCEPT ![e].size = size, ![e].next = n]
      /\ Carve(List(h, l), e, size).last = lk.last
  BY DEF Carve, List, Memory
<1>6. /\ DOMAIN put = DOMAIN h \cup {n} /\ put[n] = new
      /\ \A x \in DOMAIN h : put[x] = h[x]
  BY <1>2 DEF Put
<1>7. /\ lk.hdr = IF f # NULL THEN [put EXCEPT ![f].last = n] ELSE put
      /\ lk.last = IF f # NULL THEN l ELSE n
  BY DEF BackLink, List
<1> HIDE DEF put, new
<1>8. /\ DOMAIN lk.hdr = DOMAIN h \cup {n} /\ lk.hdr[n] = new
      /\ \A x \in DOMAIN h : lk.hdr[x] = IF x = f THEN [h[x] EXCEPT !.last = n] ELSE h[x]
  <2>1. CASE f = NULL
    BY <2>1, <1>1, <1>2, <1>6, <1>7
  <2>2. CASE f # NULL
    <3>1. f \in DOMAIN put /\ put[f] = h[f] /\ f # n
      BY <2>2, <1>3, <1>6
    <3>2. lk.hdr = [put EXCEPT ![f] = [h[f] EXCEPT !.last = n]]
      BY <2>2, <1>7, <3>1, Zenon
    <3>3. QED
      BY <3>1, <3>2, <2>2, <1>2, <1>6
  <2>3. QED
    BY <2>1, <2>2
<1> HIDE DEF lk
<1>9. /\ DOMAIN h2 = DOMAIN h \cup {n} /\ h2[n] = new
      /\ h2[e] = [lk.hdr[e] EXCEPT !.size = size, !.next = n]
      /\ \A x \in DOMAIN h : x # e => h2[x] = lk.hdr[x]
  BY <1>1, <1>2, <1>5, <1>8
<1> HIDE DEF h2, f
<1>10. \A x \in DOMAIN h :
         /\ h2[x] \in Entries
         /\ h2[x].used = h[x].used
         /\ h2[x].size = IF x = e THEN size ELSE h[x].size
         /\ h2[x].next = IF x = e THEN n ELSE h[x].next
         /\ h2[x].last = IF x = f THEN n ELSE h[x].last
  <2> TAKE x \in DOMAIN h
  <2>1. h[x] \in Entries /\ h[e] \in Entries /\ n \in Nat /\ x # NULL /\ e # f
    BY <1>1, <1>2, <1>3
  <2>2. CASE x = e
    <3>1. lk.hdr[e] = h[e]
      BY <2>1, <1>8
    <3>2. h2[e] = [h[e] EXCEPT !.size = size, !.next = n]
      BY <3>1, <1>9, Zenon
    <3>3. h2[x] = [size |-> size, used |-> h[e].used, last |-> h[e].last, next |-> n]
      BY <2>1, <2>2, <3>2 DEF Entries
    <3>4. h2[x] \in Entries
      BY <3>3, <2>1 DEF Entries
    <3>5. QED
      BY <3>3, <3>4, <2>1, <2>2
  <2>3. CASE x # e /\ x = f
    <3>1. h2[x] = [size |-> h[x].size, used |-> h[x].used, last |-> n, next |-> h[x].next]
      BY <2>1, <2>3, <1>8, <1>9 DEF Entries
    <3>2. h2[x] \in Entries
      BY <3>1, <2>1 DEF Entries
    <3>3. QED
      BY <3>1, <3>2, <2>3
  <2>4. CASE x # e /\ x # f
    BY <2>1, <2>4, <1>8, <1>9
  <2>5. QED
    BY <2>2, <2>3, <2>4
<1>11. h2 \in [DOMAIN h2 -> Entries]
  <2>1. \A x \in DOMAIN h2 : h2[x] \in Entries
    BY <1>4, <1>9, <1>10
  <2>2. h2 = [x \in DOMAIN h2 |-> h2[x]]
    BY <1>5, <1>8 DEF h2
  <2>3. QED
    BY <2>1, <2>2
<1>12. /\ h2[n].size = h[e].size - (size + HDR) /\ ~h2[n].used
       /\ h2[n].next = f /\ h2[n].last = e
  BY <1>9 DEF new
<1>13. QED
  BY <1>2, <1>5, <1>7, <1>9, <1>10, <1>11, <1>12 DEF Carved, h2, f

(* Absorbing keeps the list a chain.                                       *)
LEMMA AbsorbedLinked ==
  ASSUME NEW h, NEW l, NEW z \in Nat, Linked(h, l, z),
         NEW a \in DOMAIN h, NEW b \in DOMAIN h, h[a].next = b,
         NEW h2, NEW l2, Absorbed(h, l, a, b, h2, l2)
  PROVE  Linked(h2, l2, z)
<1> DEFINE n == h[b].next
<1>1. /\ h \in [DOMAIN h -> Entries] /\ DOMAIN h \subseteq Nat /\ NULL \notin DOMAIN h
      /\ \A x \in DOMAIN h : x \in Nat /\ h[x].size \in Nat /\ h[x].next \in Nat /\ h[x].last \in Nat
  BY StartAssumption DEF Linked, Typed, Within, NULL, Entries
<1>2. /\ b = a + HDR + h[a].size /\ a < b /\ h[b].last = a /\ b # Start
      /\ n # NULL => n \in DOMAIN h /\ n = b + HDR + h[b].size /\ b < n /\ h[n].last = b
      /\ n = NULL => b = l /\ b + HDR + h[b].size = z
  BY <1>1, StartAssumption DEF Linked, Onward, HDR, Typed, Within, NULL
<1>3. /\ DOMAIN h2 = DOMAIN h \ {b} /\ h2 \in [DOMAIN h2 -> Entries]
      /\ \A x \in DOMAIN h2 :
         /\ h2[x].size = IF x = a THEN h[a].size + HDR + h[b].size ELSE h[x].size
         /\ h2[x].next = IF x = a THEN n ELSE h[x].next
         /\ h2[x].last = IF x = n THEN a ELSE h[x].last
      /\ l2 = IF n = NULL THEN a ELSE l
  BY DEF Absorbed
<1> HIDE DEF n
<1>4. Typed(h2, l2)
  <2>1. n # NULL => l # b
    BY DEF Linked, Ends, n
  <2>2. QED
    BY <1>1, <1>2, <1>3, <2>1 DEF Typed, Linked
<1>5. Within(h2, z)
  BY <1>1, <1>2, <1>3 DEF Within, Linked, HDR
<1>6. \A x \in DOMAIN h : x # a => h[x].next # b
  BY <1>1, <1>2 DEF Linked, Onward
<1>7. Onward(h2, l2, z)
  <2> SUFFICES ASSUME NEW e \in DOMAIN h2
               PROVE  /\ h2[e].next = NULL => e = l2 /\ e + HDR + h2[e].size = z
                      /\ h2[e].next # NULL => /\ h2[e].next \in DOMAIN h2
                                              /\ h2[e].next = e + HDR + h2[e].size
                                              /\ h2[h2[e].next].last = e
    BY DEF Onward
  <2>1. CASE e = a
    BY <2>1, <1>1, <1>2, <1>3 DEF HDR
  <2>2. CASE e # a
    <3>1. /\ h[e].next = NULL => e = l /\ e + HDR + h[e].size = z
          /\ h[e].next # NULL => /\ h[e].next \in DOMAIN h
                                 /\ h[e].next = e + HDR + h[e].size
                                 /\ h[h[e].next].last = e
      BY <1>3 DEF Linked, Onward
    <3>2. h2[e].next = h[e].next /\ h2[e].size = h[e].size /\ h[e].next # b /\ e # b
      BY <2>2, <1>3, <1>6
    <3>3. h[e].next # NULL => h2[h[e].next].last = e
      BY <3>1, <3>2, <1>2, <1>3
    <3>4. h[e].next = NULL => n # NULL
      BY <3>1, <3>2, <1>2
    <3>5. QED
      BY <3>1, <3>2, <3>3, <3>4, <1>3
  <2>3. QED
    BY <2>1, <2>2
<1>8. Backlinks(h2)
  <2> SUFFICES ASSUME NEW e \in DOMAIN h2
               PROVE  /\ h2[e].last = NULL => e = Start
                      /\ h2[e].last # NULL => h2[e].last \in DOMAIN h2 /\ h2[h2[e].last].next = e
    BY DEF Backlinks
  <2>1. CASE e = n
    BY <2>1, <1>1, <1>2, <1>3
  <2>2. CASE e # n
    <3>1. /\ h[e].last = NULL => e = Start
          /\ h[e].last # NULL => h[e].last \in DOMAIN h /\ h[h[e].last].next = e
      BY <1>3 DEF Linked, Backlinks
    <3>2. h2[e].last = h[e].last /\ e # b
      BY <2>2, <1>3
    <3>3. h[e].last # NULL => h[e].last # a /\ h[e].last # b
      BY <3>1, <3>2, <2>2 DEF n
    <3>4. QED
      BY <3>1, <3>2, <3>3, <1>3
  <2>3. QED
    BY <2>1, <2>2
<1>9. Ends(h2, l2)
  <2>1. h[l].next = NULL /\ h[Start].last = NULL /\ Start \in DOMAIN h /\ l \in DOMAIN h
    BY DEF Linked, Ends, Typed
  <2>2. n = NULL \/ (l # a /\ l # b)
    BY <2>1, <1>1, <1>2 DEF n
  <2>3. Start # n
    BY <2>1, <1>1, <1>2
  <2>4. QED
    BY <2>1, <2>2, <2>3, <1>2, <1>3 DEF Ends
<1>10. Apart(h2)
  <2> SUFFICES ASSUME NEW d \in DOMAIN h2, NEW e \in DOMAIN h2, d < e
               PROVE  d + HDR + h2[d].size <= e
    BY DEF Apart
  <2>1. d + HDR + h[d].size <= e /\ d \in DOMAIN h /\ e \in DOMAIN h /\ e # b
    BY <1>3 DEF Linked, Apart
  <2>2. CASE d # a
    BY <2>1, <2>2, <1>3
  <2>3. CASE d = a
    <3>1. b < e
      BY <2>1, <2>3, <1>1, <1>2
    <3>2. b + HDR + h[b].size <= e
      BY <3>1, <2>1 DEF Linked, Apart
    <3>3. QED
      BY <3>2, <2>3, <1>1, <1>2, <1>3 DEF HDR
  <2>4. QED
    BY <2>2, <2>3
<1>11. QED
  BY <1>4, <1>5, <1>7, <1>8, <1>9, <1>10 DEF Linked

(* Carving keeps the list a chain.                                         *)
LEMMA CarvedLinked ==
  ASSUME NEW h, NEW l, NEW z \in Nat, Linked(h, l, z),
         NEW e \in DOMAIN h, NEW size \in Nat, size + HDR <= h[e].size,
         e + HDR + size \notin DOMAIN h,
         NEW h2, NEW l2, Carved(h, l, e, size, h2, l2)
  PROVE  Linked(h2, l2, z)
<1> DEFINE n == e + HDR + size
           f == h[e].next
<1>1. /\ h \in [DOMAIN h -> Entries] /\ DOMAIN h \subseteq Nat /\ NULL \notin DOMAIN h
      /\ \A x \in DOMAIN h : x \in Nat /\ h[x].size \in Nat /\ h[x].next \in Nat /\ h[x].last \in Nat
      /\ NULL = 0 /\ HDR = 2
  BY StartAssumption DEF Linked, Typed, Within, NULL, Entries, HDR
<1>2. /\ n \in Nat /\ n > e /\ n \notin DOMAIN h /\ n # NULL /\ e # NULL
      /\ n + HDR + (h[e].size - (size + HDR)) = e + HDR + h[e].size
  BY <1>1
<1>3. /\ f # NULL => f \in DOMAIN h /\ f = e + HDR + h[e].size /\ n < f /\ e < f /\ h[f].last = e
      /\ f = NULL => e = l /\ e + HDR + h[e].size = z
      /\ f # n /\ f # e
  BY <1>1, <1>2 DEF Linked, Onward
<1>4. /\ DOMAIN h2 = DOMAIN h \cup {n} /\ h2 \in [DOMAIN h2 -> Entries]
      /\ h2[n].size = h[e].size - (size + HDR)
      /\ h2[n].next = f /\ h2[n].last = e
      /\ \A x \in DOMAIN h :
           /\ h2[x].size = IF x = e THEN size ELSE h[x].size
           /\ h2[x].next = IF x = e THEN n ELSE h[x].next
           /\ h2[x].last = IF x = f THEN n ELSE h[x].last
      /\ l2 = IF f = NULL THEN n ELSE l
  BY DEF Carved
<1> HIDE DEF n, f
<1>5. Typed(h2, l2)
  BY <1>1, <1>2, <1>4 DEF Typed, Linked
<1>6. n = e + HDR + size
  BY DEF n
<1>7. Within(h2, z)
  <2> SUFFICES ASSUME NEW x \in DOMAIN h2 PROVE Start <= x /\ x + HDR + h2[x].size <= z
    BY DEF Within
  <2>1. Start <= e /\ e + HDR + h[e].size <= z
    BY DEF Linked, Within
  <2>2. CASE x = n
    BY <2>1, <2>2, <1>1, <1>2, <1>4, <1>6, StartAssumption
  <2>3. CASE x = e
    BY <2>1, <2>3, <1>1, <1>4
  <2>4. CASE x \in DOMAIN h /\ x # e
    BY <2>4, <1>4 DEF Linked, Within
  <2>5. QED
    BY <2>2, <2>3, <2>4, <1>4
<1>8. Onward(h2, l2, z)
  <2> SUFFICES ASSUME NEW x \in DOMAIN h2
               PROVE  /\ h2[x].next = NULL => x = l2 /\ x + HDR + h2[x].size = z
                      /\ h2[x].next # NULL => /\ h2[x].next \in DOMAIN h2
                                              /\ h2[x].next = x + HDR + h2[x].size
                                              /\ h2[h2[x].next].last = x
    BY DEF Onward
  <2>1. CASE x = n
    BY <2>1, <1>1, <1>2, <1>3, <1>4, <1>6
  <2>2. CASE x = e
    BY <2>2, <1>1, <1>2, <1>3, <1>4, <1>6
  <2>3. CASE x # n /\ x # e
    <3>1. /\ h[x].next = NULL => x = l /\ x + HDR + h[x].size = z
          /\ h[x].next # NULL => /\ h[x].next \in DOMAIN h
                                 /\ h[x].next = x + HDR + h[x].size
                                 /\ h[h[x].next].last = x
      BY <2>3, <1>4 DEF Linked, Onward
    <3>2. h2[x].next = h[x].next /\ h2[x].size = h[x].size /\ x \in DOMAIN h
      BY <2>3, <1>4
    <3>3. h[x].next # NULL => h[x].next # f
      BY <3>1, <3>2, <2>3, <1>3
    <3>4. h[x].next = NULL => f # NULL
      BY <3>1, <2>3, <1>3
    <3>5. QED
      BY <3>1, <3>2, <3>3, <3>4, <1>4
  <2>4. QED
    BY <2>1, <2>2, <2>3
<1>9. Backlinks(h2)
  <2> SUFFICES ASSUME NEW x \in DOMAIN h2
               PROVE  /\ h2[x].last = NULL => x = Start
                      /\ h2[x].last # NULL => h2[x].last \in DOMAIN h2 /\ h2[h2[x].last].next = x
    BY DEF Backlinks
  <2>1. CASE x = n
    BY <2>1, <1>2, <1>4
  <2>2. CASE x = f
    BY <2>2, <1>1, <1>2, <1>3, <1>4
  <2>3. CASE x # n /\ x # f
    <3>1. /\ h[x].last = NULL => x = Start
          /\ h[x].last # NULL => h[x].last \in DOMAIN h /\ h[h[x].last].next = x
      BY <2>3, <1>4 DEF Linked, Backlinks
    <3>2. h2[x].last = h[x].last
      BY <2>3, <1>4
    <3>3. h[x].last # NULL => h[x].last # e
      BY <3>1, <2>3 DEF f
    <3>4. QED
      BY <3>1, <3>2, <3>3, <1>4
  <2>4. QED
    BY <2>1, <2>2, <2>3
<1>10. Ends(h2, l2)
  <2>1. h[l].next = NULL /\ h[Start].last = NULL /\ Start \in DOMAIN h /\ l \in DOMAIN h
    BY DEF Linked, Ends, Typed
  <2>2. f = NULL \/ l # e
    BY <2>1 DEF f
  <2>3. Start # f
    BY <2>1, <1>1, <1>2, <1>3
  <2>4. QED
    BY <2>1, <2>2, <2>3, <1>4 DEF Ends
<1>11. Apart(h2)
  <2> SUFFICES ASSUME NEW d \in DOMAIN h2, NEW x \in DOMAIN h2, d < x
               PROVE  d + HDR + h2[d].size <= x
    BY DEF Apart
  <2>1. d \in DOMAIN h /\ x \in DOMAIN h => d + HDR + h[d].size <= x
    BY DEF Linked, Apart
  <2>2. e \in DOMAIN h /\ e \in Nat /\ x \in Nat /\ d \in Nat
    BY <1>1, <1>2, <1>4
  <2>3. CASE d = n
    <3>1. e < x /\ x \in DOMAIN h
      BY <2>2, <2>3, <1>2, <1>4
    <3>2. e + HDR + h[e].size <= x
      BY <3>1 DEF Linked, Apart
    <3>3. QED
      BY <3>2, <2>3, <1>2, <1>4
  <2>4. CASE x = n /\ d # n
    <3>1. d < e => d + HDR + h[d].size <= e
      BY <2>4, <1>4 DEF Linked, Apart
    <3>2. ~(e < d)
      <4>1. SUFFICES ASSUME e < d PROVE FALSE
        OBVIOUS
      <4>2. e + HDR + h[e].size <= d
        BY <4>1, <2>4, <1>4 DEF Linked, Apart
      <4>3. QED
        BY <4>2, <2>2, <2>4, <1>1, <1>6
    <3>3. QED
      BY <3>1, <3>2, <2>2, <2>4, <1>1, <1>2, <1>4, <1>6
  <2>5. CASE d \in DOMAIN h /\ x \in DOMAIN h
    BY <2>1, <2>2, <2>5, <1>1, <1>4
  <2>6. QED
    BY <2>3, <2>4, <2>5, <1>4
<1>12. QED
  BY <1>5, <1>7, <1>8, <1>9, <1>10, <1>11 DEF Linked

-----------------------------------------------------------------------------
(* From h to h2 the entries in use stay in use, no other one becomes so,   *)
(* and none but e changes its size.                                        *)
KeepsUsed(h, h2, e) ==
    /\ \A x \in DOMAIN h : h[x].used =>
         x \in DOMAIN h2 /\ h2[x].used /\ (x # e => h2[x].size = h[x].size)
    /\ \A x \in DOMAIN h2 : h2[x].used => x \in DOMAIN h /\ h[x].used

(* Cutting down an entry in use which no free one follows leaves no two    *)
(* free neighbours and touches no other entry in use.                      *)
LEMMA CarvedMerged ==
  ASSUME NEW h, NEW l, NEW z \in Nat, Linked(h, l, z), Merged(h),
         NEW e \in DOMAIN h, NEW size \in Nat, size + HDR <= h[e].size,
         e + HDR + size \notin DOMAIN h, h[e].used,
         h[e].next # NULL => h[h[e].next].used,
         NEW h2, NEW l2, Carved(h, l, e, size, h2, l2)
  PROVE  Merged(h2) /\ KeepsUsed(h, h2, e) /\ e \in DOMAIN h2 /\ h2[e].size = size
<1> DEFINE n == e + HDR + size
           f == h[e].next
<1>1. /\ DOMAIN h2 = DOMAIN h \cup {n} /\ n \notin DOMAIN h
      /\ ~h2[n].used /\ h2[n].next = f
      /\ \A x \in DOMAIN h :
           /\ h2[x].used = h[x].used
           /\ h2[x].size = IF x = e THEN size ELSE h[x].size
           /\ h2[x].next = IF x = e THEN n ELSE h[x].next
  BY DEF Carved
<1>2. \A x \in DOMAIN h : h[x].next # NULL => h[x].next \in DOMAIN h
  BY DEF Linked, Onward
<1> HIDE DEF n, f
<1>3. Merged(h2)
  <2> SUFFICES ASSUME NEW x \in DOMAIN h2, h2[x].next # NULL
               PROVE  h2[x].used \/ h2[h2[x].next].used
    BY DEF Merged
  <2>1. CASE x = n
    BY <2>1, <1>1, <1>2, Zenon DEF f
  <2>2. CASE x = e
    BY <2>2, <1>1, Zenon
  <2>3. CASE x # n /\ x # e
    BY <2>3, <1>1, <1>2, Zenon DEF Merged
  <2>4. QED
    BY <2>1, <2>2, <2>3
<1>4. \A x \in DOMAIN h : h[x].used =>
         x \in DOMAIN h2 /\ h2[x].used /\ (x # e => h2[x].size = h[x].size)
  BY <1>1, Zenon
<1>5. \A x \in DOMAIN h2 : h2[x].used => x \in DOMAIN h /\ h[x].used
  BY <1>1, Zenon
<1>6. QED
  BY <1>1, <1>3, <1>4, <1>5 DEF KeepsUsed

(* What kmalloc and krealloc do to an entry they have chosen: whether it   *)
(* is cut or not, it keeps the room that was asked for.                    *)
LEMMA CarveIfLargeKeeps ==
  ASSUME NEW h, NEW l, NEW z \in Nat, Linked(h, l, z), Merged(h),
         NEW e \in DOMAIN h, NEW size \in Nat, size <= h[e].size, h[e].used,
         h[e].next # NULL => h[h[e].next].used,
         NEW h2, NEW l2,
         h2 = CarveIfLarge(List(h, l), e, size).hdr,
         l2 = CarveIfLarge(List(h, l), e, size).last
  PROVE  /\ Linked(h2, l2, z) /\ Merged(h2) /\ KeepsUsed(h, h2, e)
         /\ e \in DOMAIN h2 /\ h2[e].size >= size
<1>1. h[e].size \in Nat /\ HDR = 2 /\ ALIGN = 2
  BY DEF Linked, Typed, Entries, HDR, ALIGN
<1>2. CASE h[e].size > size + HDR + ALIGN
  <2>1. size + HDR <= h[e].size
    BY <1>1, <1>2
  <2>2. /\ Carved(h, l, e, size, Carve(List(h, l), e, size).hdr, Carve(List(h, l), e, size).last)
        /\ e + HDR + size \notin DOMAIN h
    BY <2>1, CarveFields
  <2>3. CarveIfLarge(List(h, l), e, size) = Carve(List(h, l), e, size)
    BY <1>2 DEF CarveIfLarge, List
  <2>4. Carved(h, l, e, size, h2, l2)
    BY <2>2, <2>3
  <2>5. Linked(h2, l2, z)
    BY <2>1, <2>2, <2>4, CarvedLinked
  <2>6. Merged(h2) /\ KeepsUsed(h, h2, e) /\ e \in DOMAIN h2 /\ h2[e].size = size
    BY <2>1, <2>2, <2>4, CarvedMerged
  <2>7. QED
    BY <2>5, <2>6
<1>3. CASE ~(h[e].size > size + HDR + ALIGN)
  <2>1. CarveIfLarge(List(h, l), e, size) = List(h, l)
    BY <1>3 DEF CarveIfLarge, List
  <2>2. h2 = h /\ l2 = l
    BY <2>1 DEF List
  <2>3. KeepsUsed(h, h2, e)
    BY <2>2, Zenon DEF KeepsUsed
  <2>4. QED
    BY <2>2, <2>3, <1>1
<1>4. QED
  BY <1>2, <1>3

(* Taking over the free entry behind changes no entry in use but the one   *)
(* that grows.                                                             *)
LEMMA AbsorbedKeeps ==
  ASSUME NEW h, NEW l, NEW z \in Nat, Linked(h, l, z),
         NEW a \in DOMAIN h, NEW b \in DOMAIN h, h[a].next = b, ~h[b].used,
         NEW h2, NEW l2, Absorbed(h, l, a, b, h2, l2)
  PROVE  /\ KeepsUsed(h, h2, a) /\ a \in DOMAIN h2
         /\ h2[a].size = h[a].size + HDR + h[b].size
         /\ h2[a].used = h[a].used /\ h2[a].next = h[b].next
         /\ a < b
<1>1. /\ h \in [DOMAIN h -> Entries] /\ DOMAIN h \subseteq Nat /\ b # NULL
  BY StartAssumption DEF Linked, Typed, Within, NULL
<1>2. b = a + HDR + h[a].size /\ a \in Nat /\ h[a].size \in Nat
  BY <1>1 DEF Linked, Onward, Entries
<1>3. a < b
  BY <1>2 DEF HDR
<1>4. a \in DOMAIN h2 /\ h2[a].size = h[a].size + HDR + h[b].size
      /\ h2[a].used = h[a].used /\ h2[a].next = h[b].next
  BY <1>2, <1>3 DEF Absorbed
<1>5. \A x \in DOMAIN h : h[x].used =>
         x \in DOMAIN h2 /\ h2[x].used /\ (x # a => h2[x].size = h[x].size)
  BY Zenon DEF Absorbed
<1>6. \A x \in DOMAIN h2 : h2[x].used => x \in DOMAIN h /\ h[x].used
  BY Zenon DEF Absorbed
<1>7. QED
  BY <1>3, <1>4, <1>5, <1>6 DEF KeepsUsed

-----------------------------------------------------------------------------
(* kfree.  While an entry is being freed it may be next to free ones.      *)
MergedBut(h, e) ==
    \A x \in DOMAIN h : h[x].next # NULL =>
      h[x].used \/ h[h[x].next].used \/ x = e \/ h[x].next = e
BeforeUsed(h, e) == h[e].last # NULL => h[h[e].last].used

Unmark(h, e) == [h EXCEPT ![e].used = FALSE]

(* Clearing the mark of an entry leaves the chain alone.                   *)
LEMMA UnmarkKeeps ==
  ASSUME NEW h, NEW l, NEW z \in Nat, Linked(h, l, z), Merged(h),
         NEW e \in DOMAIN h, NEW h2, h2 = Unmark(h, e)
  PROVE  /\ Linked(h2, l, z) /\ MergedBut(h2, e)
         /\ DOMAIN h2 = DOMAIN h /\ ~h2[e].used
         /\ \A x \in DOMAIN h : h2[x].size = h[x].size /\ (x # e => h2[x].used = h[x].used)
<1>1. h \in [DOMAIN h -> Entries] /\ h2 = [h EXCEPT ![e].used = FALSE] /\ DOMAIN h2 = DOMAIN h
  BY DEF Linked, Typed, Unmark
<1>2. h2[e] = [h[e] EXCEPT !.used = FALSE] /\ h[e] \in Entries
  BY <1>1
<1>3. h2[e] = [size |-> h[e].size, used |-> FALSE, last |-> h[e].last, next |-> h[e].next]
  BY <1>2 DEF Entries
<1>4. h2[e] \in Entries
  BY <1>2, <1>3 DEF Entries
<1>5. h2 \in [DOMAIN h2 -> Entries]
  BY <1>1, <1>4
<1>6. /\ ~h2[e].used
      /\ \A x \in DOMAIN h : /\ h2[x].size = h[x].size
                             /\ h2[x].next = h[x].next
                             /\ h2[x].last = h[x].last
                             /\ x # e => h2[x].used = h[x].used
  <2>1. ~h2[e].used /\ h2[e].size = h[e].size /\ h2[e].next = h[e].next /\ h2[e].last = h[e].last
    BY <1>3
  <2>2. \A x \in DOMAIN h : x # e => h2[x] = h[x]
    BY <1>1
  <2>3. QED
    BY <2>1, <2>2, Zenon
<1>7. Typed(h2, l) /\ Within(h2, z) /\ Ends(h2, l) /\ Apart(h2)
  BY <1>1, <1>5, <1>6 DEF Linked, Typed, Within, Ends, Apart
<1>8. Onward(h2, l, z)
  BY <1>1, <1>6 DEF Linked, Onward
<1>9. Backlinks(h2)
  BY <1>1, <1>6 DEF Linked, Backlinks
<1>10. MergedBut(h2, e)
  <2>1. \A x \in DOMAIN h : h[x].next # NULL => h[x].next \in DOMAIN h
    BY DEF Linked, Onward
  <2>2. SUFFICES ASSUME NEW x \in DOMAIN h, h2[x].next # NULL
                 PROVE  h2[x].used \/ h2[h2[x].next].used \/ x = e \/ h2[x].next = e
    BY <1>1, Zenon DEF MergedBut
  <2>3. h2[x].next = h[x].next /\ h[x].next \in DOMAIN h
    BY <2>1, <2>2, <1>6
  <2>4. h[x].used \/ h[h[x].next].used
    BY <2>2, <2>3, Zenon DEF Merged
  <2>5. QED
    BY <2>3, <2>4, <1>6, Zenon
<1>11. QED
  BY <1>1, <1>6, <1>7, <1>8, <1>9, <1>10 DEF Linked

(* After the merge with the entry before, that neighbour is in use.        *)
LEMMA MergeBackKeeps ==
  ASSUME NEW h, NEW l, NEW z \in Nat, Linked(h, l, z),
         NEW e \in DOMAIN h, ~h[e].used, MergedBut(h, e),
         NEW h2, NEW l2, NEW a,
         LET r == MergeBack(List(h, l), e)
         IN  h2 = r.list.hdr /\ l2 = r.list.last /\ a = r.e
  PROVE  /\ Linked(h2, l2, z) /\ MergedBut(h2, a) /\ BeforeUsed(h2, a)
         /\ KeepsUsed(h, h2, NULL)
         /\ a \in DOMAIN h2 /\ ~h2[a].used
<1> DEFINE b == h[e].last
<1>1. h \in [DOMAIN h -> Entries] /\ DOMAIN h \subseteq Nat /\ NULL \notin DOMAIN h
  BY StartAssumption DEF Linked, Typed, Within, NULL
<1>2. b # NULL => /\ b \in DOMAIN h /\ h[b].next = e /\ b + HDR + h[b].size = e
                  /\ b \in Nat /\ h[b].size \in Nat /\ b < e
  BY <1>1 DEF Linked, Backlinks, Onward, Entries, HDR
<1>3. CASE b # NULL /\ ~h[b].used
  <2>1. MergeBack(List(h, l), e) = [list |-> Absorb(List(h, l), b, e), e |-> b]
    BY <1>2, <1>3 DEF MergeBack, Touch, List, Memory
  <2>2. a = b /\ h2 = Absorb(List(h, l), b, e).hdr /\ l2 = Absorb(List(h, l), b, e).last
    BY <2>1
  <2>3. Absorbed(h, l, b, e, h2, l2)
    BY <2>2, <1>2, <1>3, AbsorbFields
  <2>4. Linked(h2, l2, z)
    BY <2>3, <1>2, <1>3, AbsorbedLinked
  <2>5. /\ KeepsUsed(h, h2, b) /\ b \in DOMAIN h2
        /\ h2[b].used = h[b].used /\ h2[b].next = h[e].next
    BY <2>3, <1>2, <1>3, AbsorbedKeeps
  <2>6. KeepsUsed(h, h2, NULL)
    BY <2>5, <1>3, Zenon DEF KeepsUsed
  <2>7. /\ DOMAIN h2 = DOMAIN h \ {e}
        /\ \A x \in DOMAIN h2 : /\ h2[x].used = h[x].used
                                /\ x # b => h2[x].next = h[x].next
                                /\ x # h[e].next => h2[x].last = h[x].last
    BY <2>3 DEF Absorbed
  <2>8. \A x \in DOMAIN h : h[x].next # NULL => h[x].next \in DOMAIN h /\ h[h[x].next].last = x
    BY DEF Linked, Onward
  <2>9. MergedBut(h2, b)
    <3> SUFFICES ASSUME NEW x \in DOMAIN h2, h2[x].next # NULL, x # b
                 PROVE  h2[x].used \/ h2[h2[x].next].used
      BY DEF MergedBut
    <3>1. x \in DOMAIN h /\ x # e /\ h2[x].next = h[x].next /\ h[x].next # e /\ h[x].next \in DOMAIN h2
      BY <2>7, <2>8
    <3>2. QED
      BY <3>1, <2>7, Zenon DEF MergedBut
  <2>10. BeforeUsed(h2, b)
    <3> SUFFICES ASSUME h2[b].last # NULL PROVE h2[h2[b].last].used
      BY DEF BeforeUsed
    <3>1. b # h[e].next
      BY <1>1, <1>2, <1>3 DEF Linked, Onward, HDR, Entries
    <3>2. h2[b].last = h[b].last
      BY <3>1, <2>5, <2>7
    <3> DEFINE p == h[b].last
    <3>3. p \in DOMAIN h /\ h[p].next = b
      BY <3>2, <1>2, <1>3 DEF Linked, Backlinks
    <3>4. p # e /\ b # e
      BY <3>3, <1>1, <1>2, <1>3 DEF Linked, Onward, HDR, Entries
    <3>5. h[p].used
      BY <3>3, <3>4, <1>3, Zenon DEF MergedBut
    <3>6. p \in DOMAIN h2
      BY <3>3, <3>4, <2>7
    <3>7. h2[p].used
      BY <3>5, <3>6, <2>7, Zenon
    <3>8. QED
      BY <3>2, <3>7
  <2>11. ~h2[b].used
    BY <2>5, <1>3, Zenon
  <2>12. QED
    BY <2>2, <2>4, <2>5, <2>6, <2>9, <2>10, <2>11
<1>4. CASE ~(b # NULL /\ ~h[b].used)
  <2>1. MergeBack(List(h, l), e) = [list |-> List(h, l), e |-> e]
    BY <1>4 DEF MergeBack, Touch, List
  <2>2. a = e /\ h2 = h /\ l2 = l
    BY <2>1 DEF List
  <2>3. KeepsUsed(h, h2, NULL)
    BY <2>2, Zenon DEF KeepsUsed
  <2>4. BeforeUsed(h2, a)
    BY <2>2, <1>4 DEF BeforeUsed
  <2>5. QED
    BY <2>2, <2>3, <2>4
<1>5. QED
  BY <1>3, <1>4

(* After the merge with the entry behind, no two neighbours are free.      *)
LEMMA MergeNextKeeps ==
  ASSUME NEW h, NEW l, NEW z \in Nat, Linked(h, l, z),
         NEW e \in DOMAIN h, ~h[e].used, MergedBut(h, e), BeforeUsed(h, e),
         NEW h2, NEW l2,
         h2 = MergeNext(List(h, l), e).hdr, l2 = MergeNext(List(h, l), e).last
  PROVE  /\ Linked(h2, l2, z) /\ Merged(h2)
         /\ KeepsUsed(h, h2, NULL)
         /\ e \in DOMAIN h2 /\ ~h2[e].used
<1> DEFINE n == h[e].next
<1>1. /\ h \in [DOMAIN h -> Entries] /\ DOMAIN h \subseteq Nat /\ NULL \notin DOMAIN h
      /\ \A x \in DOMAIN h : h[x].next # NULL => /\ h[x].next \in DOMAIN h
                                                 /\ h[h[x].next].last = x
                                                 /\ h[x].next = x + HDR + h[x].size
                                                 /\ x < h[x].next
  BY StartAssumption DEF Linked, Typed, Within, NULL, Onward, Entries, HDR
<1>2. CASE n # NULL /\ ~h[n].used
  <2>1. MergeNext(List(h, l), e) = Absorb(List(h, l), e, n)
    BY <1>1, <1>2 DEF MergeNext, List, Memory
  <2>2. h2 = Absorb(List(h, l), e, n).hdr /\ l2 = Absorb(List(h, l), e, n).last
    BY <2>1
  <2>3. n \in DOMAIN h /\ Absorbed(h, l, e, n, h2, l2)
    BY <2>2, <1>1, <1>2, AbsorbFields
  <2>4. Linked(h2, l2, z)
    BY <2>3, <1>1, <1>2, AbsorbedLinked
  <2>5. /\ KeepsUsed(h, h2, e) /\ e \in DOMAIN h2
        /\ h2[e].used = h[e].used /\ h2[e].next = h[n].next
    BY <2>3, <1>2, AbsorbedKeeps
  <2>6. KeepsUsed(h, h2, NULL)
    BY <2>5, Zenon DEF KeepsUsed
  <2>7. /\ DOMAIN h2 = DOMAIN h \ {n}
        /\ \A x \in DOMAIN h2 : /\ h2[x].used = h[x].used
                                /\ x # e => h2[x].next = h[x].next
    BY <2>3 DEF Absorbed
  <2>8. Merged(h2)
    <3> SUFFICES ASSUME NEW x \in DOMAIN h2, h2[x].next # NULL
                 PROVE  h2[x].used \/ h2[h2[x].next].used
      BY DEF Merged
    <3>1. CASE x = e
      <4> DEFINE m == h[n].next
      <4>1. h2[x].next = m /\ m # NULL /\ m \in DOMAIN h /\ n < m /\ e < n /\ n \in DOMAIN h
        BY <3>1, <2>5, <1>1, <1>2
      <4>2. n # e /\ m # e /\ m # n
        BY <4>1, <1>1
      <4>3. h[m].used
        BY <4>1, <4>2, <1>2, Zenon DEF MergedBut
      <4>4. QED
        BY <4>1, <4>2, <4>3, <2>7, Zenon
    <3>2. CASE x # e /\ h2[x].next = e
      <4>1. h[x].next = e /\ x \in DOMAIN h
        BY <3>2, <2>7
      <4>2. h[e].last = x /\ x # NULL
        BY <4>1, <1>1
      <4>3. h[x].used
        BY <4>2, Zenon DEF BeforeUsed
      <4>4. QED
        BY <4>3, <2>7, Zenon
    <3>3. CASE x # e /\ h2[x].next # e
      <4>1. /\ h2[x].next = h[x].next /\ h[x].next # NULL /\ x \in DOMAIN h
            /\ h[x].next \in DOMAIN h /\ h[x].next # n
        BY <3>3, <2>7, <1>1
      <4>2. h[x].used \/ h[h[x].next].used
        BY <4>1, <3>3, Zenon DEF MergedBut
      <4>3. QED
        BY <4>1, <4>2, <2>7, Zenon
    <3>4. QED
      BY <3>1, <3>2, <3>3
  <2>9. QED
    BY <2>4, <2>5, <2>6, <2>8, Zenon
<1>3. CASE ~(n # NULL /\ ~h[n].used)
  <2>1. MergeNext(List(h, l), e) = List(h, l)
    BY <1>3 DEF MergeNext, List
  <2>2. h2 = h /\ l2 = l
    BY <2>1 DEF List
  <2>3. KeepsUsed(h, h2, NULL)
    BY <2>2, Zenon DEF KeepsUsed
  <2>4. Merged(h)
    <3> SUFFICES ASSUME NEW x \in DOMAIN h, h[x].next # NULL
                 PROVE  h[x].used \/ h[h[x].next].used
      BY DEF Merged
    <3>1. CASE x = e
      BY <3>1, <1>3
    <3>2. CASE h[x].next = e
      <4>1. h[e].last = x /\ x # NULL
        BY <3>2, <1>1
      <4>2. QED
        BY <4>1, Zenon DEF BeforeUsed
    <3>3. CASE x # e /\ h[x].next # e
      BY <3>3, Zenon DEF MergedBut
    <3>4. QED
      BY <3>1, <3>2, <3>3
  <2>5. QED
    BY <2>2, <2>3, <2>4
<1>4. QED
  BY <1>2, <1>3

(* Cutting the last entry at newEnd, or dropping it, ends the chain there. *)
LEMMA TrimToKeeps ==
  ASSUME NEW h, NEW l, NEW z \in Nat, Linked(h, l, z), Merged(h),
         NEW e \in DOMAIN h, ~h[e].used, h[e].next = NULL, h[e].last # NULL,
         NEW newEnd \in Nat, e <= newEnd, newEnd - e < Page, newEnd - e \notin 1 .. HDR - 1,
         NEW h2, NEW l2,
         h2 = TrimTo(List(h, l), e, newEnd).hdr, l2 = TrimTo(List(h, l), e, newEnd).last
  PROVE  Linked(h2, l2, newEnd) /\ Merged(h2) /\ KeepsUsed(h, h2, NULL)
<1>1. /\ h \in [DOMAIN h -> Entries] /\ DOMAIN h \subseteq Nat /\ NULL \notin DOMAIN h
      /\ \A x \in DOMAIN h : h[x].size \in Nat /\ h[x].next \in Nat /\ h[x].last \in Nat
  BY StartAssumption DEF Linked, Typed, Within, NULL, Entries
<1>2. e = l /\ e + HDR + h[e].size = z
  BY DEF Linked, Onward
<1>3. \A x \in DOMAIN h : x <= e /\ (x # e => x + HDR + h[x].size <= e)
  <2>1. \A x \in DOMAIN h : e < x => e + HDR + h[e].size <= x /\ x + HDR + h[x].size <= z
    BY DEF Linked, Apart, Within
  <2>2. \A x \in DOMAIN h : ~(e < x)
    BY <2>1, <1>1, <1>2 DEF HDR
  <2>3. QED
    BY <2>2, <1>1 DEF Linked, Apart
<1>4. CASE e = newEnd
  <2> DEFINE b == h[e].last
             g == [h EXCEPT ![b].next = NULL]
  <2>1. b \in DOMAIN h /\ h[b].next = e /\ b # e /\ b + HDR + h[b].size = e
    BY <1>1 DEF Linked, Backlinks, Onward, HDR
  <2>2. h2 = [x \in DOMAIN g \ {e} |-> g[x]] /\ l2 = b
    BY <1>4 DEF TrimTo, List, Drop
  <2>3. DOMAIN g = DOMAIN h /\ (\A x \in DOMAIN h : x # b => g[x] = h[x])
        /\ g[b] = [size |-> h[b].size, used |-> h[b].used, last |-> h[b].last, next |-> NULL]
    BY <2>1, <1>1 DEF Entries
  <2> HIDE DEF g
  <2>4. g[b] \in Entries
    BY <2>1, <2>3, <1>1 DEF Entries, NULL
  <2>5. /\ DOMAIN h2 = DOMAIN h \ {e} /\ h2 \in [DOMAIN h2 -> Entries]
        /\ \A x \in DOMAIN h2 :
             /\ h2[x].size = h[x].size /\ h2[x].last = h[x].last
             /\ h2[x].used = h[x].used
             /\ h2[x].next = IF x = b THEN NULL ELSE h[x].next
    BY <2>2, <2>3, <2>4, <1>1
  <2>6. Typed(h2, l2)
    BY <2>1, <2>2, <2>5, <1>1 DEF Linked, Typed, Backlinks, Ends
  <2>7. Within(h2, newEnd)
    BY <2>5, <1>1, <1>3, <1>4 DEF Linked, Within
  <2>8. \A x \in DOMAIN h2 : x # b => h2[x].next # e /\ h2[x].next # NULL
    BY <2>5, <1>2 DEF Linked, Onward
  <2>9. Onward(h2, l2, newEnd)
    BY <2>1, <2>2, <2>5, <2>8, <1>4 DEF Linked, Onward
  <2>10. Backlinks(h2)
    BY <2>1, <2>5, <1>1, <1>3 DEF Linked, Backlinks
  <2>11. Ends(h2, l2) /\ Apart(h2)
    BY <2>1, <2>2, <2>5, <2>6 DEF Linked, Ends, Apart, Typed
  <2>12. Merged(h2)
    <3> SUFFICES ASSUME NEW x \in DOMAIN h2, h2[x].next # NULL
                 PROVE  h2[x].used \/ h2[h2[x].next].used
      BY DEF Merged
    <3>1. /\ x \in DOMAIN h /\ h2[x].next = h[x].next /\ h[x].next # NULL
          /\ h[x].next \in DOMAIN h2
      BY <2>5, <2>8 DEF Linked, Onward
    <3>2. QED
      BY <3>1, <2>5, Zenon DEF Merged
  <2>13. KeepsUsed(h, h2, NULL)
    BY <2>5, Zenon DEF KeepsUsed
  <2>14. QED
    BY <2>6, <2>7, <2>9, <2>10, <2>11, <2>12, <2>13 DEF Linked
<1>5. CASE e # newEnd
  <2> DEFINE s == newEnd - e - HDR
  <2>1. s \in Nat /\ s < Wrap
    BY <1>1, <1>5, PageAssumption, HeapSizesAssumption DEF HDR
  <2>2. s % Wrap = s
    BY <2>1, HeapSizesAssumption
  <2>3. h2 = [h EXCEPT ![e].size = s] /\ l2 = l
    BY <2>2, <1>5 DEF TrimTo, List
  <2> HIDE DEF s
  <2>4. DOMAIN h2 = DOMAIN h /\ (\A x \in DOMAIN h : x # e => h2[x] = h[x])
        /\ h2[e] = [size |-> s, used |-> h[e].used, last |-> h[e].last, next |-> h[e].next]
    BY <2>3, <1>1 DEF Entries
  <2>5. h2[e] \in Entries
    BY <2>1, <2>4, <1>1 DEF Entries
  <2>6. /\ DOMAIN h2 = DOMAIN h /\ h2 \in [DOMAIN h2 -> Entries]
        /\ \A x \in DOMAIN h :
             /\ h2[x].size = IF x = e THEN s ELSE h[x].size
             /\ h2[x].last = h[x].last
             /\ h2[x].used = h[x].used
             /\ h2[x].next = h[x].next
    <3>1. h2 \in [DOMAIN h2 -> Entries]
      BY <2>3, <2>4, <2>5, <1>1
    <3>2. h2[e].used = h[e].used
      BY <2>4
    <3>3. QED
      BY <3>1, <3>2, <2>4
  <2>7. e + HDR + s = newEnd
    BY <1>1 DEF s, HDR
  <2>8. Typed(h2, l2)
    BY <2>3, <2>6 DEF Linked, Typed
  <2>9. Within(h2, newEnd)
    <3>1. \A x \in DOMAIN h : x # e => x + HDR + h[x].size <= newEnd
      BY <1>1, <1>3 DEF HDR
    <3>2. QED
      BY <2>6, <2>7, <3>1 DEF Linked, Within
  <2>10. Onward(h2, l2, newEnd)
    BY <2>3, <2>6, <2>7, <1>2 DEF Linked, Onward
  <2>11. Backlinks(h2)
    BY <2>6 DEF Linked, Backlinks
  <2>12. Ends(h2, l2) /\ Apart(h2)
    BY <2>3, <2>6, <1>1, <1>3 DEF Linked, Ends, Apart, Typed
  <2>13. Merged(h2)
    <3>1. \A x \in DOMAIN h : h[x].next # NULL => h[x].next \in DOMAIN h
      BY DEF Linked, Onward
    <3> SUFFICES ASSUME NEW x \in DOMAIN h2, h2[x].next # NULL
                 PROVE  h2[x].used \/ h2[h2[x].next].used
      BY DEF Merged
    <3>2. x \in DOMAIN h /\ h2[x].next = h[x].next /\ h[x].next \in DOMAIN h
      BY <2>6, <3>1
    <3>3. QED
      BY <3>2, <2>6, Zenon DEF Merged
  <2>14. KeepsUsed(h, h2, NULL)
    <3>1. \A x \in DOMAIN h : h[x].used => x \in DOMAIN h2 /\ h2[x].used /\ h2[x].size = h[x].size
      BY <2>6, Zenon
    <3>2. QED
      BY <3>1, <2>6, Zenon DEF KeepsUsed
  <2>15. QED
    BY <2>8, <2>9, <2>10, <2>11, <2>12, <2>13, <2>14 DEF Linked
<1>6. QED
  BY <1>4, <1>5

-----------------------------------------------------------------------------
(* kmalloc.  e is in use from now on, with the room asked for; the entries *)
(* that were in use stay what they are.                                    *)
Takes(h, h2, e, size) ==
    /\ e \in DOMAIN h2 /\ h2[e].used /\ h2[e].size >= size
    /\ \A x \in DOMAIN h : h[x].used =>
         x \in DOMAIN h2 /\ h2[x].used /\ h2[x].size = h[x].size
    /\ \A x \in DOMAIN h2 : h2[x].used => x = e \/ (x \in DOMAIN h /\ h[x].used)

(* Marking a free entry that is large enough, and cutting it down.         *)
LEMMA TakeKeeps ==
  ASSUME NEW h, NEW l, NEW z \in Nat, Linked(h, l, z), NEW e \in DOMAIN h, MergedBut(h, e),
         h[e].next # NULL => h[h[e].next].used, ~h[e].used, NEW size \in Nat, size <= h[e].size,
         NEW h2, NEW l2,
         h2 = Take(List(h, l), e, size).hdr, l2 = Take(List(h, l), e, size).last
  PROVE  Linked(h2, l2, z) /\ Merged(h2) /\ Takes(h, h2, e, size)
<1> DEFINE g == [h EXCEPT ![e].used = TRUE]
<1>1. h \in [DOMAIN h -> Entries] /\ DOMAIN g = DOMAIN h
  BY DEF Linked, Typed
<1>2. g[e] = [size |-> h[e].size, used |-> TRUE, last |-> h[e].last, next |-> h[e].next]
  BY <1>1 DEF Entries
<1>3. g[e] \in Entries
  BY <1>1, <1>2 DEF Entries
<1>4. g \in [DOMAIN g -> Entries]
  BY <1>1, <1>3
<1>5. /\ g[e].used
      /\ \A x \in DOMAIN h : /\ g[x].size = h[x].size
                             /\ g[x].next = h[x].next
                             /\ g[x].last = h[x].last
                             /\ x # e => g[x].used = h[x].used
  BY <1>1, <1>2
<1>6. /\ h2 = CarveIfLarge(List(g, l), e, size).hdr
      /\ l2 = CarveIfLarge(List(g, l), e, size).last
  BY DEF Take, List
<1> HIDE DEF g
<1>7. Linked(g, l, z)
  <2>1. Typed(g, l) /\ Within(g, z) /\ Ends(g, l) /\ Apart(g)
    BY <1>1, <1>4, <1>5 DEF Linked, Typed, Within, Ends, Apart
  <2>2. Onward(g, l, z)
    BY <1>1, <1>5 DEF Linked, Onward
  <2>3. Backlinks(g)
    BY <1>1, <1>5 DEF Linked, Backlinks
  <2>4. QED
    BY <2>1, <2>2, <2>3 DEF Linked
<1>8. \A x \in DOMAIN h : h[x].next # NULL => h[x].next \in DOMAIN h /\ h[x].next # x
  BY <1>1 DEF Linked, Onward, Typed, Entries, HDR
<1>9. Merged(g)
  <2> SUFFICES ASSUME NEW x \in DOMAIN g, g[x].next # NULL
               PROVE  g[x].used \/ g[g[x].next].used
    BY DEF Merged
  <2>1. x \in DOMAIN h /\ g[x].next = h[x].next /\ h[x].next \in DOMAIN h
    BY <1>1, <1>5, <1>8
  <2>2. h[x].used \/ h[h[x].next].used \/ x = e \/ h[x].next = e
    BY <2>1, Zenon DEF MergedBut
  <2>3. QED
    BY <2>1, <2>2, <1>5, Zenon
<1>10. g[e].next # NULL => g[g[e].next].used
  <2> SUFFICES ASSUME g[e].next # NULL PROVE g[g[e].next].used
    OBVIOUS
  <2>1. g[e].next = h[e].next /\ h[e].next \in DOMAIN h /\ h[e].next # e
    BY <1>5, <1>8
  <2>2. h[h[e].next].used
    BY <2>1
  <2>3. QED
    BY <2>1, <2>2, <1>5, Zenon
<1>11. size <= g[e].size /\ e \in DOMAIN g
  BY <1>1, <1>5
<1>12. /\ Linked(h2, l2, z) /\ Merged(h2) /\ KeepsUsed(g, h2, e)
       /\ e \in DOMAIN h2 /\ h2[e].size >= size
  BY <1>5, <1>6, <1>7, <1>9, <1>10, <1>11, CarveIfLargeKeeps
<1>13. h2[e].used
  BY <1>5, <1>11, <1>12, Zenon DEF KeepsUsed
<1>14. \A x \in DOMAIN h : h[x].used => x \in DOMAIN h2 /\ h2[x].used /\ h2[x].size = h[x].size
  BY <1>1, <1>5, <1>12, Zenon DEF KeepsUsed
<1>15. \A x \in DOMAIN h2 : h2[x].used => x = e \/ (x \in DOMAIN h /\ h[x].used)
  BY <1>1, <1>5, <1>12, Zenon DEF KeepsUsed
<1>16. QED
  BY <1>12, <1>13, <1>14, <1>15 DEF Takes

(* What a new entry of s units behind the last one does, by field.         *)
Appended(h, l, z, s, g) ==
    /\ DOMAIN g = DOMAIN h \cup {z} /\ z \notin DOMAIN h
    /\ g \in [DOMAIN g -> Entries]
    /\ g[z].size = s /\ ~g[z].used /\ g[z].next = NULL /\ g[z].last = l
    /\ \A x \in DOMAIN h : /\ g[x].size = h[x].size /\ g[x].used = h[x].used
                           /\ g[x].next = IF x = l THEN z ELSE h[x].next
                           /\ g[x].last = h[x].last

(* The heap that kmalloc extends gets such an entry.                       *)
LEMMA AppendFields ==
  ASSUME NEW h, NEW l, NEW z \in Nat, Linked(h, l, z), NEW s \in Nat
  PROVE  Appended(h, l, z, s, [Put(h, z, [size |-> s, used |-> FALSE, last |-> l, next |-> NULL])
                                 EXCEPT ![l].next = z])
<1> DEFINE new == [size |-> s, used |-> FALSE, last |-> l, next |-> NULL]
           put == Put(h, z, new)
           g == [put EXCEPT ![l].next = z]
<1>1. /\ h \in [DOMAIN h -> Entries] /\ DOMAIN h \subseteq Nat /\ NULL \notin DOMAIN h
      /\ \A x \in DOMAIN h : x \in Nat /\ h[x].size \in Nat /\ h[x].next \in Nat /\ h[x].last \in Nat
      /\ l \in DOMAIN h /\ Start \in DOMAIN h /\ h[l].next = NULL /\ h[Start].last = NULL
      /\ NULL = 0 /\ HDR = 2
  BY StartAssumption DEF Linked, Typed, Within, NULL, Entries, Ends, HDR
<1>2. l + HDR + h[l].size = z
  BY <1>1 DEF Linked, Onward
<1>3. z \notin DOMAIN h /\ z # NULL
  BY <1>1, <1>2 DEF Linked, Within
<1>4. /\ DOMAIN put = DOMAIN h \cup {z} /\ put[z] = new
      /\ \A x \in DOMAIN h : put[x] = h[x]
  BY <1>3 DEF Put
<1>5. new \in Entries
  BY <1>1 DEF Entries
<1>6. g = [put EXCEPT ![l] = [put[l] EXCEPT !.next = z]]
  OBVIOUS
<1> HIDE DEF g
<1>7. put[l] = h[l] /\ put \in [DOMAIN put -> Entries]
  <2>1. put[l] = h[l] /\ \A x \in DOMAIN put : put[x] \in Entries
    BY <1>1, <1>4, <1>5
  <2>2. put = [x \in DOMAIN put |-> put[x]]
    BY DEF Put
  <2> HIDE DEF put
  <2>3. QED
    BY <2>1, <2>2
<1> HIDE DEF put
<1>8. DOMAIN g = DOMAIN h \cup {z} /\ g[l] = [put[l] EXCEPT !.next = z]
      /\ \A x \in DOMAIN g : x # l => g[x] = put[x]
  BY <1>1, <1>4, <1>6
<1>9. g[l] = [size |-> h[l].size, used |-> h[l].used, last |-> h[l].last, next |-> z]
  <2>1. g[l] = [h[l] EXCEPT !.next = z]
    BY <1>7, <1>8, Zenon
  <2>2. QED
    BY <2>1, <1>1 DEF Entries
<1>10. g[l] \in Entries
  BY <1>9, <1>1 DEF Entries
<1>11. g \in [DOMAIN g -> Entries]
  BY <1>1, <1>4, <1>6, <1>7, <1>8, <1>10
<1>12. g[z].size = s /\ ~g[z].used /\ g[z].next = NULL /\ g[z].last = l
  <2>1. g[z] = new
    BY <1>1, <1>3, <1>4, <1>8
  <2>2. QED
    BY <2>1
<1>13. \A x \in DOMAIN h :
          /\ g[x].size = h[x].size /\ g[x].used = h[x].used
          /\ g[x].next = IF x = l THEN z ELSE h[x].next
          /\ g[x].last = h[x].last
  <2> TAKE x \in DOMAIN h
  <2>1. CASE x = l
    <3>1. g[l].size = h[l].size /\ g[l].used = h[l].used /\ g[l].next = z /\ g[l].last = h[l].last
      BY <1>9
    <3>2. QED
      BY <3>1, <2>1, Zenon
  <2>2. CASE x # l
    <3>1. g[x] = h[x]
      BY <2>2, <1>4, <1>8, Zenon
    <3>2. QED
      BY <3>1, <2>2, Zenon
  <2>3. QED
    BY <2>1, <2>2
<1>14. QED
  BY <1>3, <1>8, <1>11, <1>12, <1>13 DEF Appended, g, put

(* It keeps the list a chain.                                              *)
LEMMA AppendedLinked ==
  ASSUME NEW h, NEW l, NEW z \in Nat, Linked(h, l, z), NEW s \in Nat,
         NEW g, Appended(h, l, z, s, g)
  PROVE  Linked(g, z, z + HDR + s)
<1>1. /\ h \in [DOMAIN h -> Entries] /\ DOMAIN h \subseteq Nat /\ NULL \notin DOMAIN h
      /\ \A x \in DOMAIN h : x \in Nat /\ h[x].size \in Nat /\ h[x].next \in Nat /\ h[x].last \in Nat
      /\ l \in DOMAIN h /\ Start \in DOMAIN h /\ h[l].next = NULL /\ h[Start].last = NULL
      /\ NULL = 0 /\ HDR = 2
  BY StartAssumption DEF Linked, Typed, Within, NULL, Entries, Ends, HDR
<1>2. l + HDR + h[l].size = z
  BY <1>1 DEF Linked, Onward
<1>3. z \notin DOMAIN h /\ z # NULL
  BY <1>1, <1>2 DEF Linked, Within
<1>4. /\ DOMAIN g = DOMAIN h \cup {z} /\ g \in [DOMAIN g -> Entries]
      /\ g[z].size = s /\ g[z].next = NULL /\ g[z].last = l
      /\ \A x \in DOMAIN h : /\ g[x].size = h[x].size
                             /\ g[x].next = IF x = l THEN z ELSE h[x].next
                             /\ g[x].last = h[x].last
  BY DEF Appended
<1>5. Typed(g, z) /\ Ends(g, z)
  BY <1>1, <1>3, <1>4 DEF Linked, Typed, Ends
<1>6. Within(g, z + HDR + s)
  <2>1. \A x \in DOMAIN h : Start <= x /\ x + HDR + h[x].size <= z
    BY DEF Linked, Within
  <2>2. Start <= z
    BY <2>1, <1>1, <1>2, StartAssumption
  <2>3. \A x \in DOMAIN h : x + HDR + h[x].size <= z + HDR + s
    BY <2>1, <1>1
  <2>4. ASSUME NEW x \in DOMAIN g PROVE Start <= x /\ x + HDR + g[x].size <= z + HDR + s
    <3>1. CASE x = z
      BY <3>1, <2>2, <1>1, <1>4
    <3>2. CASE x # z
      BY <3>2, <2>1, <2>3, <1>4
    <3>3. QED
      BY <3>1, <3>2
  <2>5. QED
    BY <2>4 DEF Within
<1>7. \A x \in DOMAIN h : h[x].next = NULL => x = l
  BY DEF Linked, Onward
<1>8. Onward(g, z, z + HDR + s)
  <2> SUFFICES ASSUME NEW x \in DOMAIN g
               PROVE  /\ g[x].next = NULL => x = z /\ x + HDR + g[x].size = z + HDR + s
                      /\ g[x].next # NULL => /\ g[x].next \in DOMAIN g
                                             /\ g[x].next = x + HDR + g[x].size
                                             /\ g[g[x].next].last = x
    BY DEF Onward
  <2>1. CASE x = z
    BY <2>1, <1>4
  <2>2. CASE x = l
    BY <2>2, <1>1, <1>2, <1>3, <1>4
  <2>3. CASE x # z /\ x # l
    <3>1. /\ x \in DOMAIN h /\ h[x].next # NULL /\ h[x].next \in DOMAIN h
          /\ h[x].next = x + HDR + h[x].size /\ h[h[x].next].last = x
      BY <2>3, <1>4, <1>7 DEF Linked, Onward
    <3>2. QED
      BY <3>1, <2>3, <1>4
  <2>4. QED
    BY <2>1, <2>2, <2>3
<1>9. Backlinks(g)
  <2> SUFFICES ASSUME NEW x \in DOMAIN g
               PROVE  /\ g[x].last = NULL => x = Start
                      /\ g[x].last # NULL => g[x].last \in DOMAIN g /\ g[g[x].last].next = x
    BY DEF Backlinks
  <2>1. CASE x = z
    BY <2>1, <1>1, <1>4
  <2>2. CASE x # z
    <3>1. /\ x \in DOMAIN h /\ (h[x].last = NULL => x = Start)
          /\ h[x].last # NULL => h[x].last \in DOMAIN h /\ h[h[x].last].next = x
      BY <2>2, <1>4 DEF Linked, Backlinks
    <3>2. h[x].last # NULL => h[x].last # l
      BY <3>1, <1>1
    <3>3. QED
      BY <3>1, <3>2, <1>4
  <2>3. QED
    BY <2>1, <2>2
<1>10. Apart(g)
  <2> SUFFICES ASSUME NEW d \in DOMAIN g, NEW x \in DOMAIN g, d < x
               PROVE  d + HDR + g[d].size <= x
    BY DEF Apart
  <2>1. \A y \in DOMAIN h : y + HDR + h[y].size <= z
    BY DEF Linked, Within
  <2>2. CASE d = z
    <3>1. x \in DOMAIN h /\ x + HDR + h[x].size <= z
      BY <2>1, <2>2, <1>4
    <3>2. QED
      BY <3>1, <2>2, <1>1
  <2>3. CASE x = z /\ d # z
    BY <2>1, <2>3, <1>4
  <2>4. CASE x # z /\ d # z
    BY <2>4, <1>4 DEF Linked, Apart
  <2>5. QED
    BY <2>2, <2>3, <2>4
<1>11. QED
  BY <1>5, <1>6, <1>8, <1>9, <1>10 DEF Linked

(* kmalloc takes an entry that fits.                                       *)
LEMMA FitKeeps ==
  ASSUME NEW h, NEW l, NEW z \in Nat, Linked(h, l, z), Merged(h),
         NEW e \in DOMAIN h, ~h[e].used, NEW size \in Nat, size <= h[e].size,
         NEW h2, NEW l2,
         h2 = Take(List(h, l), e, size).hdr, l2 = Take(List(h, l), e, size).last
  PROVE  Linked(h2, l2, z) /\ Merged(h2) /\ Takes(h, h2, e, size)
<1>1. MergedBut(h, e)
  BY Zenon DEF Merged, MergedBut
<1>2. h[e].next # NULL => h[h[e].next].used
  BY Zenon DEF Merged
<1>3. QED
  BY <1>1, <1>2, TakeKeeps

(* kmalloc takes the entry it has appended.                                *)
LEMMA AppendKeeps ==
  ASSUME NEW h, NEW l, NEW z \in Nat, Linked(h, l, z), Merged(h),
         NEW s \in Nat, NEW size \in Nat, size <= s,
         NEW g, Appended(h, l, z, s, g),
         NEW h2, NEW l2,
         h2 = Take(List(g, z), z, size).hdr, l2 = Take(List(g, z), z, size).last
  PROVE  /\ Linked(h2, l2, z + HDR + s) /\ Merged(h2) /\ Takes(h, h2, z, size)
         /\ z \notin DOMAIN h
<1>1. /\ DOMAIN g = DOMAIN h \cup {z} /\ z \notin DOMAIN h
      /\ g[z].size = s /\ ~g[z].used /\ g[z].next = NULL
      /\ \A x \in DOMAIN h : /\ g[x].size = h[x].size /\ g[x].used = h[x].used
                             /\ g[x].next = IF x = l THEN z ELSE h[x].next
  BY DEF Appended
<1>2. Linked(g, z, z + HDR + s)
  BY AppendedLinked
<1>3. MergedBut(g, z)
  <2> SUFFICES ASSUME NEW x \in DOMAIN g, g[x].next # NULL, x # z, g[x].next # z
               PROVE  g[x].used \/ g[g[x].next].used
    BY Zenon DEF MergedBut
  <2>1. x \in DOMAIN h /\ x # l /\ g[x].next = h[x].next
    BY <1>1
  <2>2. h[x].next \in DOMAIN h
    BY <2>1 DEF Linked, Onward
  <2>3. h[x].used \/ h[h[x].next].used
    BY <2>1, Zenon DEF Merged
  <2>4. QED
    BY <2>1, <2>2, <2>3, <1>1, Zenon
<1>4. z + HDR + s \in Nat /\ z \in DOMAIN g /\ size <= g[z].size
  BY <1>1 DEF HDR
<1>5. Linked(h2, l2, z + HDR + s) /\ Merged(h2) /\ Takes(g, h2, z, size)
  BY <1>1, <1>2, <1>3, <1>4, TakeKeeps
<1>6. Takes(h, h2, z, size)
  <2>1. \A x \in DOMAIN h : h[x].used =>
          x \in DOMAIN h2 /\ h2[x].used /\ h2[x].size = h[x].size
    BY <1>1, <1>5, Zenon DEF Takes
  <2>2. \A x \in DOMAIN h2 : h2[x].used => x = z \/ (x \in DOMAIN h /\ h[x].used)
    BY <1>1, <1>5, Zenon DEF Takes
  <2>3. QED
    BY <2>1, <2>2, <1>5 DEF Takes
<1>7. QED
  BY <1>1, <1>5, <1>6

(* krealloc grows an entry in use into the entry behind it.                *)
LEMMA GrowKeeps ==
  ASSUME NEW h, NEW l, NEW z \in Nat, Linked(h, l, z), Merged(h),
         NEW e \in DOMAIN h, h[e].used, NEW b \in DOMAIN h, h[e].next = b, ~h[b].used,
         NEW g, NEW k, Absorbed(h, l, e, b, g, k),
         NEW size \in Nat, size <= g[e].size
  PROVE  LET r == CarveIfLarge(List(g, k), e, size)
         IN  /\ Linked(r.hdr, r.last, z) /\ Merged(r.hdr) /\ KeepsUsed(h, r.hdr, e)
             /\ e \in DOMAIN r.hdr /\ r.hdr[e].size >= size
<1> DEFINE h2 == CarveIfLarge(List(g, k), e, size).hdr
           l2 == CarveIfLarge(List(g, k), e, size).last
<1> HIDE DEF h2, l2
<1>1. Linked(g, k, z)
  BY AbsorbedLinked
<1>2. /\ KeepsUsed(h, g, e) /\ e \in DOMAIN g
      /\ g[e].used = h[e].used /\ g[e].next = h[b].next /\ e < b
  <2>1. KeepsUsed(h, g, e) /\ e \in DOMAIN g
    BY AbsorbedKeeps, Zenon
  <2>2. e < b
    BY AbsorbedKeeps, Zenon
  <2>3. g[e].used = h[e].used /\ g[e].next = h[b].next
    BY <2>1, Zenon DEF Absorbed
  <2>4. QED
    BY <2>1, <2>2, <2>3
<1>3. /\ DOMAIN g = DOMAIN h \ {b}
      /\ \A x \in DOMAIN g : /\ g[x].used = h[x].used
                             /\ x # e => g[x].next = h[x].next
  BY DEF Absorbed
<1>4. /\ \A x \in DOMAIN h : h[x].next # NULL => /\ h[x].next \in DOMAIN h
                                                 /\ h[h[x].next].last = x
      /\ h[b].next # b
  BY <1>2 DEF Linked, Onward, Typed, Entries, HDR
<1>5. g[e].next # NULL => g[g[e].next].used
  <2> SUFFICES ASSUME h[b].next # NULL PROVE g[h[b].next].used
    BY <1>2
  <2>1. h[h[b].next].used
    BY Zenon DEF Merged
  <2>2. h[b].next \in DOMAIN g
    BY <1>3, <1>4
  <2>3. QED
    BY <2>1, <2>2, <1>3, Zenon
<1>6. g[e].used
  BY <1>2, Zenon
<1>7. Merged(g)
  <2> SUFFICES ASSUME NEW x \in DOMAIN g, g[x].next # NULL
               PROVE  g[x].used \/ g[g[x].next].used
    BY DEF Merged
  <2>1. CASE x = e
    BY <2>1, <1>6
  <2>2. CASE x # e
    <3>1. /\ x \in DOMAIN h /\ g[x].next = h[x].next /\ h[x].next # b
          /\ h[x].next \in DOMAIN g
      BY <2>2, <1>3, <1>4
    <3>2. h[x].used \/ h[h[x].next].used
      BY <3>1, Zenon DEF Merged
    <3>3. QED
      BY <3>1, <3>2, <1>3, Zenon
  <2>3. QED
    BY <2>1, <2>2
<1>8. /\ Linked(h2, l2, z) /\ Merged(h2) /\ KeepsUsed(g, h2, e)
      /\ e \in DOMAIN h2 /\ h2[e].size >= size
  BY <1>1, <1>2, <1>5, <1>6, <1>7, CarveIfLargeKeeps DEF h2, l2
<1>9. KeepsUsed(h, h2, e)
  <2>1. \A x \in DOMAIN h : h[x].used =>
          x \in DOMAIN h2 /\ h2[x].used /\ (x # e => h2[x].size = h[x].size)
    BY <1>2, <1>8, Zenon DEF KeepsUsed
  <2>2. \A x \in DOMAIN h2 : h2[x].used => x \in DOMAIN h /\ h[x].used
    BY <1>2, <1>8, Zenon DEF KeepsUsed
  <2>3. QED
    BY <2>1, <2>2 DEF KeepsUsed
<1>10. QED
  BY <1>8, <1>9 DEF h2, l2

-----------------------------------------------------------------------------
(* The pages of the heap.  Have(z) is their number when it ends at z.      *)
Have(z) == (z - Start) \div Page
WholePages(z) == z \in Nat /\ Have(z) \in Nat \ {0} /\ z = Start + Page * Have(z)

(* A page holds more than a header.                                        *)
LEMMA PageSize == Page \in Nat /\ Page > 4
BY PageAssumption DEF HDR, ALIGN

(* Division by the page size.                                              *)
LEMMA PageDivision ==
  ASSUME NEW a \in Nat
  PROVE  /\ a = Page * (a \div Page) + (a % Page) /\ a % Page \in 0 .. Page - 1
         /\ a \div Page \in Nat
BY PageSize

(* Multiples of a page are counted exactly and keep their order.           *)
LEMMA PageMultiples ==
  /\ \A k \in Nat : (Page * k) \div Page = k /\ Page * k \in Nat
  /\ \A j, k \in Nat : Page * j < Page * k => j < k
  /\ \A j, k \in Nat : Page * (j + k) = Page * j + Page * k
<1> DEFINE m == Page
<1>1. m \in Nat /\ m > 4
  BY PageSize
<1> HIDE DEF m
<1>2. \A k \in Nat : (m * k) \div m = k /\ m * k \in Nat
  BY <1>1
<1>3. ASSUME NEW j \in Nat, NEW k \in Nat, m * j < m * k PROVE j < k
  BY <1>1, <1>3
<1>4. \A j, k \in Nat : m * (j + k) = m * j + m * k
  BY <1>1
<1>5. QED
  BY <1>2, <1>3, <1>4 DEF m

(* A heap of k pages ends on a page boundary, k pages behind its start.    *)
LEMMA HaveOf ==
  ASSUME NEW k \in Nat, k # 0
  PROVE  Have(Start + Page * k) = k /\ WholePages(Start + Page * k)
<1> DEFINE x == Page * k
<1>1. x \in Nat /\ x \div Page = k
  BY PageMultiples
<1> HIDE DEF x
<1>2. Start \in Nat /\ Start + x - Start = x /\ Start + x \in Nat
  BY <1>1, StartAssumption
<1>3. Have(Start + x) = k
  BY <1>1, <1>2 DEF Have
<1>4. WholePages(Start + x)
  BY <1>2, <1>3 DEF WholePages, x
<1>5. QED
  BY <1>3, <1>4 DEF x

(* Where a free entry is cut: the first page boundary not below it.        *)
LEMMA AlignUpCut ==
  ASSUME NEW e \in Nat, Start < e, NEW z \in Nat, WholePages(z), e <= z
  PROVE  LET u == AlignUp(e)
         IN  /\ WholePages(u) /\ e <= u /\ u < e + Page /\ u <= z
             /\ Have(u) <= Have(z) /\ (z - u) \div Page = Have(z) - Have(u)
<1> DEFINE q == (e + Page - 1) \div Page
           s == Start \div Page
           u == Page * q
<1>1. q \in Nat /\ s \in Nat /\ Start = Page * s /\ e <= u /\ u < e + Page /\ u \in Nat
  <2>1. Start \in Nat /\ Start % Page = 0 /\ e + Page - 1 \in Nat /\ Page \in Nat
    BY PageSize, StartAssumption
  <2>2. s \in Nat /\ Start = Page * s + (Start % Page)
    BY <2>1, PageDivision
  <2>3. /\ q \in Nat /\ e + Page - 1 = u + ((e + Page - 1) % Page)
        /\ (e + Page - 1) % Page \in 0 .. Page - 1
    BY <2>1, PageDivision
  <2>4. u \in Nat /\ Page * s \in Nat
    BY <2>2, <2>3, PageMultiples
  <2> DEFINE r == (e + Page - 1) % Page
             w == Page * s
  <2> HIDE DEF q, s, u, r, w
  <2>5. Start = w
    BY <2>1, <2>2, <2>4 DEF w
  <2>6. e <= u /\ u < e + Page
    BY <2>1, <2>3, <2>4 DEF r
  <2>7. QED
    BY <2>2, <2>3, <2>4, <2>5, <2>6 DEF u, w
<1>2. AlignUp(e) = u
  BY <1>1, PageSize DEF AlignUp
<1> DEFINE k == q - s
<1> HIDE DEF q, s
<1>3. Page * s < Page * q
  BY <1>1, PageSize, StartAssumption
<1>4. s < q
  BY <1>1, <1>3, PageMultiples
<1>5. k \in Nat /\ k # 0 /\ q = s + k
  BY <1>1, <1>4
<1>6. Page * q = Page * s + Page * k
  BY <1>1, <1>5, PageMultiples
<1> HIDE DEF k
<1>7. u = Start + Page * k
  BY <1>1, <1>6
<1>8. Have(u) = k /\ WholePages(u)
  BY <1>5, <1>7, HaveOf
<1> DEFINE v == Have(z)
<1>9. v \in Nat /\ z = Start + Page * v
  BY DEF WholePages
<1> HIDE DEF v
<1>10. Page * k < Page * (v + 1)
  <2>1. Page * (v + 1) = Page * v + Page * 1 /\ Page * 1 = Page
    BY <1>9, PageMultiples, PageSize, StartAssumption
  <2>2. Page * v \in Nat /\ Page * k \in Nat
    BY <1>5, <1>9, PageMultiples
  <2>3. Start + Page * k < Start + Page * v + Page
    BY <1>1, <1>7, <1>9, <2>2, PageSize, StartAssumption
  <2>4. QED
    BY <2>1, <2>2, <2>3, PageSize, StartAssumption
<1>11. k <= v
  <2>1. k < v + 1
    BY <1>5, <1>9, <1>10, PageMultiples
  <2>2. QED
    BY <2>1, <1>5, <1>9
<1> DEFINE d == v - k
<1>12. d \in Nat /\ v = k + d
  BY <1>5, <1>9, <1>11
<1> HIDE DEF d
<1>13. Page * v = Page * k + Page * d /\ Page * d \in Nat /\ Page * k \in Nat
  BY <1>5, <1>9, <1>12, PageMultiples
<1>14. z - u = Page * d /\ u <= z
  BY <1>7, <1>9, <1>13, <1>1, StartAssumption
<1>15. (Page * d) \div Page = d
  BY <1>12, PageMultiples
<1>16. d = v - k
  BY <1>12, <1>5
<1>17. QED
  BY <1>1, <1>2, <1>8, <1>11, <1>14, <1>15, <1>16 DEF v

(* The frames f of the pages are none of the others po, and with those all *)
(* frames are accounted for.                                               *)
Private(f, po) == /\ \A i \in DOMAIN f : f[i] \notin po
                  /\ \A i, j \in DOMAIN f : i # j => f[i] # f[j]
                  /\ \A x \in Pool0 : x \in po \/ \E i \in DOMAIN f : f[i] = x
Framed(f, po, z) == /\ WholePages(z) /\ f \in [0 .. Have(z) - 1 -> Nat]
                    /\ po \subseteq Pool0 /\ Private(f, po)

(* The heap grows by a run of the other frames.                            *)
LEMMA ExtendFrames ==
  ASSUME NEW f, NEW po, NEW z, Framed(f, po, z),
         NEW n \in Nat, n # 0, NEW base \in po, base .. base + n - 1 \subseteq po
  PROVE  Framed([i \in 0 .. Have(z) + n - 1 |->
                   IF i < Have(z) THEN f[i] ELSE base + (i - Have(z))],
                po \ (base .. base + n - 1), z + n * Page)
<1> DEFINE k == Have(z)
           f2 == [i \in 0 .. k + n - 1 |-> IF i < k THEN f[i] ELSE base + (i - k)]
           po2 == po \ (base .. base + n - 1)
<1>1. /\ k \in Nat /\ k # 0 /\ z = Start + Page * k /\ f \in [0 .. k - 1 -> Nat]
      /\ po \subseteq Pool0 /\ base \in Nat
  BY PoolAssumption DEF Framed, WholePages
<1> HIDE DEF k
<1>2. /\ DOMAIN f2 = 0 .. k + n - 1
      /\ \A i \in 0 .. k - 1 : f2[i] = f[i]
      /\ \A i \in k .. k + n - 1 : f2[i] = base + (i - k) /\ f2[i] \in base .. base + n - 1
  BY <1>1
<1>3. \A i \in 0 .. k + n - 1 : i \in 0 .. k - 1 \/ i \in k .. k + n - 1
  BY <1>1
<1>4. f2 \in [0 .. k + n - 1 -> Nat]
  BY <1>1
<1> HIDE DEF f2
<1>5. z + n * Page = Start + Page * (k + n) /\ k + n \in Nat /\ k + n # 0
  <2>1. Page * (k + n) = Page * k + Page * n /\ Page * n \in Nat /\ Page * k \in Nat
    BY <1>1, PageMultiples
  <2>2. n * Page = Page * n
    BY PageSize
  <2>3. QED
    BY <2>1, <2>2, <1>1, PageSize, StartAssumption
<1>6. WholePages(z + n * Page) /\ Have(z + n * Page) = k + n
  BY <1>5, HaveOf
<1>7. /\ \A i \in 0 .. k - 1 : f[i] \notin po
      /\ \A i, j \in 0 .. k - 1 : i # j => f[i] # f[j]
      /\ \A x \in Pool0 : x \in po \/ \E i \in 0 .. k - 1 : f[i] = x
  BY <1>1 DEF Framed, Private
<1>8. \A i \in DOMAIN f2 : f2[i] \notin po2
  BY <1>2, <1>3, <1>7
<1>9. \A i, j \in DOMAIN f2 : i # j => f2[i] # f2[j]
  <2> SUFFICES ASSUME NEW i \in 0 .. k + n - 1, NEW j \in 0 .. k + n - 1, i # j
               PROVE  f2[i] # f2[j]
    BY <1>2
  <2>1. CASE i \in 0 .. k - 1 /\ j \in 0 .. k - 1
    BY <2>1, <1>2, <1>7
  <2>2. CASE i \in 0 .. k - 1 /\ j \in k .. k + n - 1
    BY <2>2, <1>2, <1>7
  <2>3. CASE i \in k .. k + n - 1 /\ j \in 0 .. k - 1
    BY <2>3, <1>2, <1>7
  <2>4. CASE i \in k .. k + n - 1 /\ j \in k .. k + n - 1
    <3>1. f2[i] = base + (i - k) /\ f2[j] = base + (j - k)
      BY <2>4, <1>2
    <3>2. QED
      BY <3>1, <2>4, <1>1
  <2>5. QED
    BY <2>1, <2>2, <2>3, <2>4, <1>3
<1>10. \A x \in Pool0 : x \in po2 \/ \E i \in DOMAIN f2 : f2[i] = x
  <2> SUFFICES ASSUME NEW x \in Pool0, x \notin po2 PROVE \E i \in DOMAIN f2 : f2[i] = x
    OBVIOUS
  <2>1. CASE x \in base .. base + n - 1
    <3>1. x - base + k \in k .. k + n - 1 /\ base + ((x - base + k) - k) = x
      BY <2>1, <1>1
    <3>2. x - base + k \in 0 .. k + n - 1
      BY <3>1, <1>1
    <3>3. f2[x - base + k] = x
      BY <3>1, <1>2
    <3>4. QED
      BY <3>2, <3>3, <1>2
  <2>2. CASE x \notin base .. base + n - 1
    <3>1. PICK i \in 0 .. k - 1 : f[i] = x
      BY <2>2, <1>7
    <3>2. i \in 0 .. k + n - 1
      BY <1>1
    <3>3. QED
      BY <3>1, <3>2, <1>2
  <2>3. QED
    BY <2>1, <2>2
<1>11. Private(f2, po2)
  BY <1>8, <1>9, <1>10 DEF Private
<1> DEFINE z2 == z + n * Page
<1> HIDE DEF z2
<1>12. WholePages(z2) /\ Have(z2) = k + n
  BY <1>6 DEF z2
<1>13. Framed(f2, po2, z2)
  BY <1>1, <1>4, <1>11, <1>12 DEF Framed
<1>14. QED
  BY <1>13 DEF f2, k, z2

(* The heap gives the frames behind u back, when they are the run that it  *)
(* takes them to be.                                                       *)
LEMMA GiveBackFrames ==
  ASSUME NEW f, NEW po, NEW z, Framed(f, po, z),
         NEW u, WholePages(u), Have(u) <= Have(z),
         \A i \in DOMAIN f : i > Have(u) => f[i] = f[Have(u)] + (i - Have(u))
  PROVE  LET n == Have(z) - Have(u)
             freed == IF n = 0 THEN {} ELSE f[Have(u)] .. f[Have(u)] + n - 1
         IN  /\ Framed([i \in 0 .. Have(u) - 1 |-> f[i]], po \cup (freed \cap Pool0), u)
             /\ freed \cap po = {}
<1> DEFINE k == Have(u)
           v == Have(z)
           n == v - k
           freed == IF n = 0 THEN {} ELSE f[k] .. f[k] + n - 1
           f2 == [i \in 0 .. k - 1 |-> f[i]]
           po2 == po \cup (freed \cap Pool0)
<1>1. /\ k \in Nat /\ k # 0 /\ v \in Nat /\ k <= v
      /\ f \in [0 .. v - 1 -> Nat] /\ po \subseteq Pool0
      /\ \A i \in 0 .. v - 1 : i > k => f[i] = f[k] + (i - k)
  BY DEF Framed, WholePages
<1> HIDE DEF k, v
<1>2. \A i \in 0 .. k - 1 : i \in 0 .. v - 1
  BY <1>1
<1>3. DOMAIN f2 = 0 .. k - 1 /\ f2 \in [0 .. k - 1 -> Nat] /\ \A i \in 0 .. k - 1 : f2[i] = f[i]
  BY <1>1, <1>2
<1>4. \A x \in freed : \E i \in k .. v - 1 : f[i] = x
  <2> SUFFICES ASSUME NEW x \in freed PROVE \E i \in k .. v - 1 : f[i] = x
    OBVIOUS
  <2>1. n # 0 /\ x \in f[k] .. f[k] + n - 1
    OBVIOUS
  <2>2. n \in Nat /\ k \in 0 .. v - 1 /\ f[k] \in Nat /\ n = v - k
    BY <2>1, <1>1
  <2>3. x - f[k] + k \in k .. v - 1
    BY <2>1, <2>2, <1>1
  <2> DEFINE i == x - f[k] + k
  <2>4. i \in 0 .. v - 1 /\ i >= k /\ f[k] + (i - k) = x /\ i \in k .. v - 1
    BY <2>1, <2>3, <2>2, <1>1
  <2> HIDE DEF i
  <2>5. f[i] = x
    <3>1. CASE i = k
      BY <3>1, <2>4, <2>2, <1>1
    <3>2. CASE i > k
      BY <3>2, <2>4, <1>1
    <3>3. QED
      BY <3>1, <3>2, <2>4, <1>1
  <2>6. QED
    BY <2>4, <2>5
<1>5. \A i \in k .. v - 1 : f[i] \in freed
  <2> SUFFICES ASSUME NEW i \in k .. v - 1 PROVE f[i] \in freed
    OBVIOUS
  <2>1. n # 0 /\ k \in 0 .. v - 1 /\ i \in 0 .. v - 1 /\ f[k] \in Nat /\ i - k \in 0 .. n - 1
    BY <1>1
  <2>2. f[i] = f[k] + (i - k)
    <3>1. CASE i = k
      BY <3>1, <2>1, <1>1
    <3>2. CASE i > k
      BY <3>2, <2>1, <1>1
    <3>3. QED
      BY <3>1, <3>2, <1>1
  <2>3. freed = f[k] .. f[k] + n - 1
    BY <2>1
  <2>4. f[k] + (i - k) \in f[k] .. f[k] + n - 1
    BY <2>1, <1>1
  <2>5. QED
    BY <2>2, <2>3, <2>4
<1> HIDE DEF freed
<1>6. /\ \A i \in 0 .. v - 1 : f[i] \notin po
      /\ \A i, j \in 0 .. v - 1 : i # j => f[i] # f[j]
      /\ \A x \in Pool0 : x \in po \/ \E i \in 0 .. v - 1 : f[i] = x
  BY <1>1 DEF Framed, Private
<1>7. \A i \in k .. v - 1, j \in 0 .. k - 1 : i # j /\ i \in 0 .. v - 1 /\ j \in 0 .. v - 1
  BY <1>1
<1>8. \A i \in 0 .. k - 1 : f[i] \notin po2
  BY <1>2, <1>4, <1>6, <1>7
<1>9. \A x \in Pool0 : x \in po2 \/ \E i \in 0 .. k - 1 : f[i] = x
  <2>1. \A i \in 0 .. v - 1 : i \in 0 .. k - 1 \/ i \in k .. v - 1
    BY <1>1
  <2>2. \A i \in k .. v - 1 : f[i] \in Pool0 => f[i] \in po2
    BY <1>5
  <2>3. QED
    BY <2>1, <2>2, <1>6
<1> HIDE DEF f2
<1>10. Private(f2, po2)
  BY <1>2, <1>3, <1>6, <1>8, <1>9 DEF Private
<1>11. freed \cap po = {}
  <2>1. \A i \in k .. v - 1 : i \in 0 .. v - 1
    BY <1>1
  <2>2. QED
    BY <2>1, <1>4, <1>6
<1>12. QED
  BY <1>1, <1>3, <1>10, <1>11 DEF Framed, k, v, f2, freed

-----------------------------------------------------------------------------
(* The blocks in lv are the entries in use, no smaller than asked for.     *)
Serves(h, lv) ==
    /\ lv \in [DOMAIN lv -> Nat] /\ DOMAIN lv \subseteq Nat
    /\ \A m \in DOMAIN lv : /\ m >= HDR /\ EntryOf(m) \in DOMAIN h
                            /\ h[EntryOf(m)].used /\ h[EntryOf(m)].size >= lv[m]
    /\ \A e \in DOMAIN h : h[e].used => Memory(e) \in DOMAIN lv

(* krealloc that moves a block: the old one and, once there is one, the    *)
(* new one are in use and in no other processor's hands, and the new one   *)
(* is the larger.                                                          *)
Busy == {"alloc", "copy", "free"}
Moves(h, lv, at, of) ==
    /\ at \in [Procs -> {"idle"} \cup Busy]
    /\ of \in [Procs -> [ptr : Nat, size : Nat, ret : Nat]]
    /\ \A p \in Procs : at[p] = "idle" => of[p] = NoArg
    /\ \A p \in Procs : at[p] # "idle" =>
         of[p].ptr \in DOMAIN lv /\ h[EntryOf(of[p].ptr)].size < of[p].size
    /\ \A p \in Procs : at[p] = "alloc" => of[p].ret = NULL
    /\ \A p \in Procs : at[p] \in {"copy", "free"} =>
         /\ of[p].ret \in DOMAIN lv /\ of[p].ret # of[p].ptr
         /\ h[EntryOf(of[p].ret)].size >= of[p].size
    /\ \A p, q \in Procs : p # q /\ at[p] # "idle" =>
         /\ of[p].ptr # of[q].ptr /\ of[p].ptr # of[q].ret
         /\ of[p].ret # NULL => of[p].ret # of[q].ret

(* A new block: what is served and moved stays so.                         *)
LEMMA NewServed ==
  ASSUME NEW h, NEW lv, Serves(h, lv), DOMAIN h \subseteq Nat,
         NEW h2, DOMAIN h2 \subseteq Nat, NEW e \in Nat, NEW size \in Nat, Takes(h, h2, e, size)
  PROVE  Serves(h2, Put(lv, Memory(e), size))
<1> DEFINE m == e + HDR
           lv2 == Put(lv, m, size)
<1>1. /\ DOMAIN lv2 = DOMAIN lv \cup {m} /\ lv2[m] = size
      /\ \A x \in DOMAIN lv : x # m => lv2[x] = lv[x]
      /\ m \in Nat /\ m >= HDR /\ EntryOf(m) = e /\ Memory(e) = m
  BY DEF Put, HDR, EntryOf, Memory
<1>2. lv2 \in [DOMAIN lv2 -> Nat]
  <2>1. \A x \in DOMAIN lv2 : lv2[x] \in Nat
    BY <1>1 DEF Serves
  <2>2. QED
    BY <2>1 DEF Put
<1> HIDE DEF lv2, m
<1>3. \A x \in DOMAIN lv2 : /\ x >= HDR /\ EntryOf(x) \in DOMAIN h2
                            /\ h2[EntryOf(x)].used /\ h2[EntryOf(x)].size >= lv2[x]
  <2> SUFFICES ASSUME NEW x \in DOMAIN lv2
               PROVE  /\ x >= HDR /\ EntryOf(x) \in DOMAIN h2
                      /\ h2[EntryOf(x)].used /\ h2[EntryOf(x)].size >= lv2[x]
    OBVIOUS
  <2>1. CASE x = m
    BY <2>1, <1>1 DEF Takes
  <2>2. CASE x # m
    <3>1. /\ x \in DOMAIN lv /\ lv2[x] = lv[x] /\ x >= HDR /\ EntryOf(x) \in DOMAIN h
          /\ h[EntryOf(x)].used /\ h[EntryOf(x)].size >= lv[x]
      BY <2>2, <1>1 DEF Serves
    <3>2. /\ EntryOf(x) \in DOMAIN h2 /\ h2[EntryOf(x)].used
          /\ h2[EntryOf(x)].size = h[EntryOf(x)].size
      BY <3>1, Zenon DEF Takes
    <3>3. QED
      BY <3>1, <3>2
  <2>3. QED
    BY <2>1, <2>2
<1>4. \A x \in DOMAIN h2 : h2[x].used => Memory(x) \in DOMAIN lv2
  <2> SUFFICES ASSUME NEW x \in DOMAIN h2, h2[x].used PROVE Memory(x) \in DOMAIN lv2
    OBVIOUS
  <2>1. CASE x = e
    BY <2>1, <1>1
  <2>2. CASE x # e
    <3>1. x \in DOMAIN h /\ h[x].used
      BY <2>2, Zenon DEF Takes
    <3>2. Memory(x) \in DOMAIN lv
      BY <3>1, Zenon DEF Serves
    <3>3. QED
      BY <3>2, <1>1
  <2>3. QED
    BY <2>1, <2>2
<1>5. DOMAIN lv2 \subseteq Nat
  BY <1>1 DEF Serves
<1>6. Serves(h2, lv2)
  BY <1>2, <1>3, <1>4, <1>5 DEF Serves
<1>7. QED
  BY <1>1, <1>6 DEF lv2

(* From h to h2 the entry e is freed and no other in use changes.          *)
Releases(h, h2, e) ==
    /\ \A x \in DOMAIN h : h[x].used /\ x # e =>
         x \in DOMAIN h2 /\ h2[x].used /\ h2[x].size = h[x].size
    /\ \A x \in DOMAIN h2 : h2[x].used => x \in DOMAIN h /\ h[x].used /\ x # e

(* A freed block is no longer served, the others are.                      *)
LEMMA FreedServed ==
  ASSUME NEW h, NEW lv, Serves(h, lv), DOMAIN h \subseteq Nat,
         NEW m \in DOMAIN lv, NEW h2, Releases(h, h2, EntryOf(m))
  PROVE  Serves(h2, Drop(lv, {m}))
<1> DEFINE lv2 == Drop(lv, {m})
<1>1. DOMAIN lv2 = DOMAIN lv \ {m} /\ \A x \in DOMAIN lv2 : lv2[x] = lv[x]
  BY DEF Drop
<1>2. lv2 \in [DOMAIN lv2 -> Nat]
  BY DEF Drop, Serves
<1> HIDE DEF lv2
<1>3. ASSUME NEW x \in DOMAIN lv2
      PROVE  /\ x >= HDR /\ EntryOf(x) \in DOMAIN h2
             /\ h2[EntryOf(x)].used /\ h2[EntryOf(x)].size >= lv2[x]
  <2>1. /\ x \in DOMAIN lv /\ lv2[x] = lv[x] /\ x >= HDR /\ EntryOf(x) \in DOMAIN h
        /\ h[EntryOf(x)].used /\ h[EntryOf(x)].size >= lv[x] /\ x # m
    BY <1>1 DEF Serves
  <2>2. EntryOf(x) # EntryOf(m)
    BY <2>1 DEF EntryOf, HDR, Serves
  <2>3. /\ EntryOf(x) \in DOMAIN h2 /\ h2[EntryOf(x)].used
        /\ h2[EntryOf(x)].size = h[EntryOf(x)].size
    BY <2>1, <2>2, Zenon DEF Releases
  <2>4. QED
    BY <2>1, <2>3
<1>4. ASSUME NEW x \in DOMAIN h2, h2[x].used PROVE Memory(x) \in DOMAIN lv2
  <2>1. x \in DOMAIN h /\ h[x].used /\ x # EntryOf(m)
    BY <1>4, Zenon DEF Releases
  <2>2. Memory(x) \in DOMAIN lv
    BY <2>1, Zenon DEF Serves
  <2>3. Memory(x) # m
    BY <2>1 DEF Memory, EntryOf, HDR, Serves
  <2>4. QED
    BY <2>2, <2>3, <1>1
<1>5. DOMAIN lv2 \subseteq Nat
  BY <1>1 DEF Serves
<1>6. QED
  BY <1>2, <1>3, <1>4, <1>5 DEF Serves, lv2

(* A block resized in place.                                               *)
LEMMA ResizedServed ==
  ASSUME NEW h, NEW lv, Serves(h, lv), DOMAIN h \subseteq Nat,
         NEW m \in DOMAIN lv, NEW h2, KeepsUsed(h, h2, EntryOf(m)),
         NEW size \in Nat, h2[EntryOf(m)].size >= size
  PROVE  Serves(h2, [lv EXCEPT ![m] = size])
<1> DEFINE lv2 == [lv EXCEPT ![m] = size]
<1>1. /\ DOMAIN lv2 = DOMAIN lv /\ lv2 \in [DOMAIN lv2 -> Nat]
      /\ \A x \in DOMAIN lv : lv2[x] = IF x = m THEN size ELSE lv[x]
  BY DEF Serves
<1> HIDE DEF lv2
<1>2. ASSUME NEW x \in DOMAIN lv2
      PROVE  /\ x >= HDR /\ EntryOf(x) \in DOMAIN h2
             /\ h2[EntryOf(x)].used /\ h2[EntryOf(x)].size >= lv2[x]
  <2>1. /\ x \in DOMAIN lv /\ x >= HDR /\ EntryOf(x) \in DOMAIN h
        /\ h[EntryOf(x)].used /\ h[EntryOf(x)].size >= lv[x]
    BY <1>1 DEF Serves
  <2>2. EntryOf(x) \in DOMAIN h2 /\ h2[EntryOf(x)].used
    BY <2>1, Zenon DEF KeepsUsed
  <2>3. x # m => EntryOf(x) # EntryOf(m)
    <3>1. x \in Nat /\ m \in Nat
      BY <2>1 DEF Serves
    <3>2. QED
      BY <3>1 DEF EntryOf, HDR
  <2>4. x # m => h2[EntryOf(x)].size = h[EntryOf(x)].size
    BY <2>1, <2>3, Zenon DEF KeepsUsed
  <2>5. QED
    BY <2>1, <2>2, <2>4, <1>1
<1>3. ASSUME NEW x \in DOMAIN h2, h2[x].used PROVE Memory(x) \in DOMAIN lv2
  <2>1. x \in DOMAIN h /\ h[x].used
    BY <1>3, Zenon DEF KeepsUsed
  <2>2. QED
    BY <2>1, <1>1, Zenon DEF Serves
<1>4. QED
  BY <1>1, <1>2, <1>3 DEF Serves, lv2

-----------------------------------------------------------------------------
(* The moves of the processors survive what happens to other blocks.       *)
Untouched(h, h2, lv, lv2, at, of, p) ==
    \A q \in Procs : q # p /\ at[q] # "idle" =>
      /\ of[q].ptr \in DOMAIN lv2 /\ h2[EntryOf(of[q].ptr)].size = h[EntryOf(of[q].ptr)].size
      /\ of[q].ret \in DOMAIN lv =>
           /\ of[q].ret \in DOMAIN lv2
           /\ h2[EntryOf(of[q].ret)].size = h[EntryOf(of[q].ret)].size

(* A processor that is not moving a block changes other blocks.            *)
LEMMA MovesKept ==
  ASSUME NEW h, NEW lv, NEW at, NEW of, Moves(h, lv, at, of),
         NEW p \in Procs, at[p] = "idle",
         NEW h2, NEW lv2, Untouched(h, h2, lv, lv2, at, of, p)
  PROVE  Moves(h2, lv2, at, of)
<1>1. \A q \in Procs : at[q] # "idle" => q # p
  OBVIOUS
<1>2. \A q \in Procs : at[q] # "idle" =>
        of[q].ptr \in DOMAIN lv2 /\ h2[EntryOf(of[q].ptr)].size < of[q].size
  BY <1>1 DEF Moves, Untouched
<1>3. \A q \in Procs : at[q] \in {"copy", "free"} =>
        /\ of[q].ret \in DOMAIN lv2 /\ of[q].ret # of[q].ptr
        /\ h2[EntryOf(of[q].ret)].size >= of[q].size
  BY <1>1 DEF Moves, Untouched
<1>4. QED
  BY <1>2, <1>3 DEF Moves

(* A processor that ends a move leaves the others'.                        *)
LEMMA MoveEnds ==
  ASSUME NEW h, NEW lv, NULL \notin DOMAIN lv,
         NEW at, NEW of, Moves(h, lv, at, of), NEW p \in Procs,
         NEW h2, NEW lv2, Untouched(h, h2, lv, lv2, at, of, p)
  PROVE  Moves(h2, lv2, [at EXCEPT ![p] = "idle"], [of EXCEPT ![p] = NoArg])
<1> DEFINE at2 == [at EXCEPT ![p] = "idle"]
           of2 == [of EXCEPT ![p] = NoArg]
<1>1. /\ at2 \in [Procs -> {"idle"} \cup Busy]
      /\ of2 \in [Procs -> [ptr : Nat, size : Nat, ret : Nat]]
      /\ at2[p] = "idle" /\ of2[p] = NoArg
      /\ \A q \in Procs : q # p => at2[q] = at[q] /\ of2[q] = of[q]
  BY DEF Moves, NoArg, NULL
<1> HIDE DEF at2, of2
<1>2. \A q \in Procs : at2[q] = "idle" => of2[q] = NoArg
  BY <1>1 DEF Moves
<1>3. \A q \in Procs : at2[q] # "idle" =>
        of2[q].ptr \in DOMAIN lv2 /\ h2[EntryOf(of2[q].ptr)].size < of2[q].size
  BY <1>1 DEF Moves, Untouched
<1>4. \A q \in Procs : at2[q] = "alloc" => of2[q].ret = NULL
  BY <1>1 DEF Moves
<1>5. \A q \in Procs : at2[q] \in {"copy", "free"} =>
        /\ of2[q].ret \in DOMAIN lv2 /\ of2[q].ret # of2[q].ptr
        /\ h2[EntryOf(of2[q].ret)].size >= of2[q].size
  <2> SUFFICES ASSUME NEW q \in Procs, at2[q] \in {"copy", "free"}
               PROVE  /\ of2[q].ret \in DOMAIN lv2 /\ of2[q].ret # of2[q].ptr
                      /\ h2[EntryOf(of2[q].ret)].size >= of2[q].size
    OBVIOUS
  <2>1. q # p /\ at[q] \in {"copy", "free"} /\ at[q] # "idle" /\ of2[q] = of[q]
    BY <1>1
  <2>2. of[q].ret \in DOMAIN lv /\ of[q].ret # of[q].ptr /\ h[EntryOf(of[q].ret)].size >= of[q].size
    BY <2>1 DEF Moves
  <2>3. of[q].ret \in DOMAIN lv2 /\ h2[EntryOf(of[q].ret)].size = h[EntryOf(of[q].ret)].size
    BY <2>1, <2>2 DEF Untouched
  <2>4. QED
    BY <2>1, <2>2, <2>3
<1>6. \A q, r \in Procs : q # r /\ at2[q] # "idle" =>
         /\ of2[q].ptr # of2[r].ptr /\ of2[q].ptr # of2[r].ret
         /\ of2[q].ret # NULL => of2[q].ret # of2[r].ret
  <2> SUFFICES ASSUME NEW q \in Procs, NEW r \in Procs, q # r, at2[q] # "idle"
               PROVE  /\ of2[q].ptr # of2[r].ptr /\ of2[q].ptr # of2[r].ret
                      /\ of2[q].ret # NULL => of2[q].ret # of2[r].ret
    OBVIOUS
  <2>1. q # p /\ at[q] # "idle" /\ of2[q] = of[q] /\ of[q].ptr # NULL
    BY <1>1 DEF Moves
  <2>2. CASE r = p
    BY <2>1, <2>2, <1>1 DEF NoArg
  <2>3. CASE r # p
    <3>1. of2[r] = of[r]
      BY <2>3, <1>1
    <3>2. QED
      BY <2>1, <3>1 DEF Moves
  <2>4. QED
    BY <2>2, <2>3
<1>7. QED
  BY <1>1, <1>2, <1>3, <1>4, <1>5, <1>6 DEF Moves, at2, of2

(* krealloc begins to move a block that nobody else moves.                 *)
LEMMA MoveBegins ==
  ASSUME NEW h, NEW lv, NULL \notin DOMAIN lv, DOMAIN lv \subseteq Nat,
         NEW at, NEW of, Moves(h, lv, at, of), NEW p \in Procs, at[p] = "idle",
         NEW m \in DOMAIN lv, m \notin {of[q].ptr : q \in Procs} \cup {of[q].ret : q \in Procs},
         NEW size \in Nat, h[EntryOf(m)].size < size
  PROVE  Moves(h, lv, [at EXCEPT ![p] = "alloc"],
                      [of EXCEPT ![p] = [ptr |-> m, size |-> size, ret |-> NULL]])
<1> DEFINE new == [ptr |-> m, size |-> size, ret |-> NULL]
           at2 == [at EXCEPT ![p] = "alloc"]
           of2 == [of EXCEPT ![p] = new]
<1>1. /\ at2 \in [Procs -> {"idle"} \cup Busy]
      /\ of2 \in [Procs -> [ptr : Nat, size : Nat, ret : Nat]]
      /\ at2[p] = "alloc" /\ of2[p].ptr = m /\ of2[p].size = size /\ of2[p].ret = NULL
      /\ \A q \in Procs : q # p => at2[q] = at[q] /\ of2[q] = of[q]
  BY DEF Moves, NULL, Busy
<1> HIDE DEF at2, of2
<1>2. \A q \in Procs : of[q].ptr # m /\ of[q].ret # m
  OBVIOUS
<1>3. \A q \in Procs : at2[q] = "idle" => of2[q] = NoArg
  BY <1>1 DEF Moves
<1>4. \A q \in Procs : at2[q] # "idle" =>
        of2[q].ptr \in DOMAIN lv /\ h[EntryOf(of2[q].ptr)].size < of2[q].size
  BY <1>1 DEF Moves
<1>5. \A q \in Procs : at2[q] = "alloc" => of2[q].ret = NULL
  BY <1>1 DEF Moves
<1>6. \A q \in Procs : at2[q] \in {"copy", "free"} =>
        /\ of2[q].ret \in DOMAIN lv /\ of2[q].ret # of2[q].ptr
        /\ h[EntryOf(of2[q].ret)].size >= of2[q].size
  <2> SUFFICES ASSUME NEW q \in Procs, at2[q] \in {"copy", "free"}
               PROVE  /\ of2[q].ret \in DOMAIN lv /\ of2[q].ret # of2[q].ptr
                      /\ h[EntryOf(of2[q].ret)].size >= of2[q].size
    OBVIOUS
  <2>1. q # p /\ at[q] \in {"copy", "free"} /\ of2[q] = of[q]
    BY <1>1
  <2>2. QED
    BY <2>1 DEF Moves
<1>7. \A q, r \in Procs : q # r /\ at2[q] # "idle" =>
         /\ of2[q].ptr # of2[r].ptr /\ of2[q].ptr # of2[r].ret
         /\ of2[q].ret # NULL => of2[q].ret # of2[r].ret
  <2> SUFFICES ASSUME NEW q \in Procs, NEW r \in Procs, q # r, at2[q] # "idle"
               PROVE  /\ of2[q].ptr # of2[r].ptr /\ of2[q].ptr # of2[r].ret
                      /\ of2[q].ret # NULL => of2[q].ret # of2[r].ret
    OBVIOUS
  <2>1. CASE q = p
    BY <2>1, <1>1, <1>2
  <2>2. CASE r = p
    <3>1. q # p /\ at[q] # "idle" /\ of2[q] = of[q] /\ of[q].ptr # NULL
      BY <2>2, <1>1 DEF Moves
    <3>2. QED
      BY <2>2, <3>1, <1>1, <1>2
  <2>3. CASE q # p /\ r # p
    BY <2>3, <1>1 DEF Moves
  <2>4. QED
    BY <2>1, <2>2, <2>3
<1>8. QED
  BY <1>1, <1>3, <1>4, <1>5, <1>6, <1>7 DEF Moves, at2, of2

(* krealloc has got its new block, one that nobody had.                    *)
LEMMA MoveGets ==
  ASSUME NEW h, NEW lv, NULL \notin DOMAIN lv, DOMAIN lv \subseteq Nat,
         NEW at, NEW of, Moves(h, lv, at, of), NEW p \in Procs, at[p] = "alloc",
         NEW m \in Nat, m \notin DOMAIN lv, m # NULL,
         NEW h2, NEW lv2, DOMAIN lv2 = DOMAIN lv \cup {m},
         h2[EntryOf(m)].size >= of[p].size,
         \A x \in DOMAIN lv : h2[EntryOf(x)].size = h[EntryOf(x)].size
  PROVE  Moves(h2, lv2, [at EXCEPT ![p] = "copy"], [of EXCEPT ![p].ret = m])
<1> DEFINE at2 == [at EXCEPT ![p] = "copy"]
           of2 == [of EXCEPT ![p].ret = m]
<1>1. of[p] \in [ptr : Nat, size : Nat, ret : Nat] /\ of[p].ret = NULL
  BY DEF Moves
<1>2. of2[p] = [ptr |-> of[p].ptr, size |-> of[p].size, ret |-> m]
  BY <1>1 DEF Moves
<1>3. /\ at2 \in [Procs -> {"idle"} \cup Busy]
      /\ of2 \in [Procs -> [ptr : Nat, size : Nat, ret : Nat]]
      /\ at2[p] = "copy"
      /\ of2[p].ptr = of[p].ptr /\ of2[p].size = of[p].size /\ of2[p].ret = m
      /\ \A q \in Procs : q # p => at2[q] = at[q] /\ of2[q] = of[q]
  BY <1>1, <1>2 DEF Moves, Busy
<1> HIDE DEF at2, of2
<1>4. /\ \A q \in Procs : at[q] # "idle" =>
           of[q].ptr \in DOMAIN lv /\ h[EntryOf(of[q].ptr)].size < of[q].size
      /\ \A q \in Procs : at[q] = "idle" \/ at[q] = "alloc" => of[q].ret = NULL
      /\ \A q \in Procs : of[q].ret \in DOMAIN lv \cup {NULL}
  BY DEF Moves, NoArg, Busy
<1>5. \A q \in Procs : at2[q] = "idle" => of2[q] = NoArg
  BY <1>3 DEF Moves
<1>6. \A q \in Procs : at2[q] # "idle" =>
        of2[q].ptr \in DOMAIN lv2 /\ h2[EntryOf(of2[q].ptr)].size < of2[q].size
  BY <1>3, <1>4
<1>7. \A q \in Procs : at2[q] = "alloc" => of2[q].ret = NULL
  BY <1>3, <1>4
<1>8. \A q \in Procs : at2[q] \in {"copy", "free"} =>
        /\ of2[q].ret \in DOMAIN lv2 /\ of2[q].ret # of2[q].ptr
        /\ h2[EntryOf(of2[q].ret)].size >= of2[q].size
  <2> SUFFICES ASSUME NEW q \in Procs, at2[q] \in {"copy", "free"}
               PROVE  /\ of2[q].ret \in DOMAIN lv2 /\ of2[q].ret # of2[q].ptr
                      /\ h2[EntryOf(of2[q].ret)].size >= of2[q].size
    OBVIOUS
  <2>1. CASE q = p
    BY <2>1, <1>3, <1>4
  <2>2. CASE q # p
    <3>1. at[q] \in {"copy", "free"} /\ of2[q] = of[q]
      BY <2>2, <1>3
    <3>2. of[q].ret \in DOMAIN lv /\ of[q].ret # of[q].ptr /\ h[EntryOf(of[q].ret)].size >= of[q].size
      BY <3>1 DEF Moves
    <3>3. QED
      BY <3>1, <3>2
  <2>3. QED
    BY <2>1, <2>2
<1>9. \A q, r \in Procs : q # r /\ at2[q] # "idle" =>
         /\ of2[q].ptr # of2[r].ptr /\ of2[q].ptr # of2[r].ret
         /\ of2[q].ret # NULL => of2[q].ret # of2[r].ret
  <2> SUFFICES ASSUME NEW q \in Procs, NEW r \in Procs, q # r, at2[q] # "idle"
               PROVE  /\ of2[q].ptr # of2[r].ptr /\ of2[q].ptr # of2[r].ret
                      /\ of2[q].ret # NULL => of2[q].ret # of2[r].ret
    OBVIOUS
  <2>1. /\ at[q] # "idle"
        /\ of[q].ptr # of[r].ptr /\ of[q].ptr # of[r].ret
        /\ of[q].ret # NULL => of[q].ret # of[r].ret
    BY <1>3 DEF Moves
  <2>2. of2[q].ptr = of[q].ptr /\ of2[r].ptr = of[r].ptr /\ of[q].ptr \in DOMAIN lv
    BY <2>1, <1>3, <1>4
  <2>3. CASE q = p
    BY <2>1, <2>2, <2>3, <1>3, <1>4
  <2>4. CASE r = p
    BY <2>1, <2>2, <2>4, <1>3, <1>4
  <2>5. CASE q # p /\ r # p
    BY <2>1, <2>5, <1>3
  <2>6. QED
    BY <2>3, <2>4, <2>5
<1>10. QED
  BY <1>3, <1>5, <1>6, <1>7, <1>8, <1>9 DEF Moves, at2, of2

-----------------------------------------------------------------------------
(* The inductive invariant.                                                *)
ListInv == Linked(hdr, last, end) /\ Merged(hdr)
FrameInv == /\ Framed(frame, pool \cup away, end)
            /\ pool \subseteq Pool0 /\ away \subseteq Pool0 /\ pool \cap away = {}
HeapInv == ListInv /\ FrameInv /\ Serves(hdr, live) /\ Moves(hdr, live, pc, arg)
IInv == defects \subseteq Defects /\ (defects = {} => HeapInv)

(* What the invariant says of addresses.                                   *)
LEMMA HeapAddresses ==
  ASSUME HeapInv
  PROVE  /\ DOMAIN hdr \subseteq Nat /\ hdr \in [DOMAIN hdr -> Entries]
         /\ \A e \in DOMAIN hdr : hdr[e].size \in Nat
         /\ end \in Nat /\ last \in DOMAIN hdr
         /\ NULL \notin DOMAIN live /\ DOMAIN live \subseteq Nat
         /\ \A m \in DOMAIN live : EntryOf(m) \in DOMAIN hdr /\ hdr[EntryOf(m)].used
<1>1. DOMAIN hdr \subseteq Nat /\ hdr \in [DOMAIN hdr -> Entries] /\ last \in DOMAIN hdr
  BY DEF HeapInv, ListInv, Linked, Typed
<1>2. \A e \in DOMAIN hdr : hdr[e].size \in Nat
  BY <1>1 DEF Entries
<1>3. end \in Nat
  BY DEF HeapInv, FrameInv, Framed, WholePages
<1>4. NULL \notin DOMAIN live /\ DOMAIN live \subseteq Nat
  BY DEF HeapInv, Serves, NULL, HDR
<1>5. \A m \in DOMAIN live : EntryOf(m) \in DOMAIN hdr /\ hdr[EntryOf(m)].used
  BY Zenon DEF HeapInv, Serves
<1>6. QED
  BY <1>1, <1>2, <1>3, <1>4, <1>5

(* A grown heap has room for what was asked for.                           *)
LEMMA PagesEnough ==
  ASSUME NEW size \in Nat
  PROVE  /\ PagesFor(size) \in Nat \ {0}
         /\ Page * PagesFor(size) - HDR \in Nat
         /\ size <= Page * PagesFor(size) - HDR
         /\ \A z \in Nat : z + HDR + (Page * PagesFor(size) - HDR) = z + PagesFor(size) * Page
<1> DEFINE q == (size + HDR) \div Page
           r == (size + HDR) % Page
<1>1. /\ q \in Nat /\ r \in 0 .. Page - 1 /\ size + HDR = Page * q + r /\ HDR = 2
      /\ PagesFor(size) = q + 1
  BY PageDivision DEF PagesFor, HDR
<1> HIDE DEF q, r
<1>2. /\ Page * (q + 1) = Page * q + Page * 1 /\ Page * 1 = Page
      /\ (q + 1) * Page = Page * (q + 1) /\ Page * q \in Nat
  BY <1>1, PageMultiples, PageSize
<1> DEFINE k == PagesFor(size)
           w == Page * q
           u == Page * k
<1>3. k \in Nat \ {0} /\ u = w + Page /\ k * Page = u /\ w \in Nat /\ size + HDR = w + r
  BY <1>1, <1>2
<1> HIDE DEF k, w, u
<1>4. u - HDR \in Nat /\ size <= u - HDR /\ \A z \in Nat : z + HDR + (u - HDR) = z + k * Page
  BY <1>1, <1>3, PageSize
<1>5. QED
  BY <1>3, <1>4 DEF k, u

(* What an allocation does to the heap: nothing, or a block at e, which no *)
(* caller had.                                                             *)
Allocates(size, m) ==
    \/ m = NULL /\ UNCHANGED hdr
    \/ \E e \in Nat : /\ m = Memory(e) /\ Takes(hdr, hdr', e, size)
                      /\ e \in DOMAIN hdr => ~hdr[e].used

(* kmalloc keeps the chain and the frames, whether it finds an entry that  *)
(* fits, extends the heap or fails.                                        *)
LEMMA AllocKeeps ==
  ASSUME HeapInv, NEW size \in Nat, NEW m, Alloc(size, m)
  PROVE  ListInv' /\ FrameInv' /\ Allocates(size, m)
<1>1. CASE TakeFit(size, m)
  <2> DEFINE e == Lowest(Fits(Now, size))
  <2>1. Fits(Now, size) \in SUBSET Nat /\ Fits(Now, size) # {}
    BY <1>1, HeapAddresses DEF TakeFit, Fits, Now, List
  <2>2. e \in Fits(Now, size)
    BY <2>1, LowestIsLeast
  <2>3. /\ m = Memory(e) /\ UNCHANGED <<end, frame, pool, away>>
        /\ hdr' = Take(List(hdr, last), e, size).hdr
        /\ last' = Take(List(hdr, last), e, size).last
    BY <1>1 DEF TakeFit, SetList, Now
  <2> HIDE DEF e
  <2>4. e \in DOMAIN hdr /\ ~hdr[e].used /\ hdr[e].size >= size /\ e \in Nat /\ hdr[e].size \in Nat
    BY <2>2, HeapAddresses DEF Fits, Now, List
  <2>5. size <= hdr[e].size
    BY <2>4
  <2>6. Linked(hdr, last, end) /\ Merged(hdr) /\ end \in Nat
    BY HeapAddresses DEF HeapInv, ListInv
  <2>7. Linked(hdr', last', end) /\ Merged(hdr') /\ Takes(hdr, hdr', e, size)
    BY <2>3, <2>4, <2>5, <2>6, FitKeeps
  <2>8. FrameInv'
    BY <2>3 DEF HeapInv, FrameInv
  <2>9. QED
    BY <2>3, <2>4, <2>7, <2>8 DEF ListInv, Allocates
<1>2. CASE Extend(size, m)
  <2> DEFINE n == PagesFor(size)
             s == Page * n - HDR
             new == [size |-> s, used |-> FALSE, last |-> last, next |-> NULL]
             g == [Put(hdr, end, new) EXCEPT ![last].next = end]
  <2>0. PICK base \in RunsOf(n) :
           \E tables \in SUBSET (pool \ (base .. base + n - 1)) :
             /\ pool' = pool \ ((base .. base + n - 1) \cup tables)
             /\ away' = away \cup tables
             /\ frame' = [i \in 0 .. Have(end) + n - 1 |->
                            IF i < Have(end) THEN frame[i] ELSE base + (i - Have(end))]
    BY <1>2 DEF Extend, Have
  <2>1. PICK tables \in SUBSET (pool \ (base .. base + n - 1)) :
             /\ pool' = pool \ ((base .. base + n - 1) \cup tables)
             /\ away' = away \cup tables
             /\ frame' = [i \in 0 .. Have(end) + n - 1 |->
                            IF i < Have(end) THEN frame[i] ELSE base + (i - Have(end))]
    BY <2>0
  <2>2. /\ hdr' = Take(List(g, end), end, size).hdr
        /\ last' = Take(List(g, end), end, size).last
        /\ end' = end + n * Page /\ m = Memory(end)
    BY <1>2 DEF Extend, SetList
  <2>3. /\ n \in Nat /\ n # 0 /\ s \in Nat /\ size <= s /\ end \in Nat
        /\ end + HDR + s = end + n * Page
    BY PagesEnough, HeapAddresses
  <2> HIDE DEF n, s
  <2>4. FrameInv'
    <3> DEFINE run == base .. base + n - 1
               others == pool \cup away
    <3>1. /\ Framed(frame, others, end)
          /\ pool \subseteq Pool0 /\ away \subseteq Pool0 /\ pool \cap away = {}
      BY DEF HeapInv, FrameInv
    <3>2. base \in pool /\ run \subseteq pool
      BY DEF RunsOf
    <3>3. /\ pool' \cup away' = others \ run
          /\ pool' \subseteq Pool0 /\ away' \subseteq Pool0 /\ pool' \cap away' = {}
      BY <2>1, <3>1, <3>2
    <3>4. base \in others /\ run \subseteq others
      BY <3>2
    <3> HIDE DEF others
    <3>5. Framed(frame', others \ run, end + n * Page)
      BY <2>1, <2>3, <3>1, <3>4, ExtendFrames
    <3>6. QED
      BY <2>2, <3>3, <3>5 DEF FrameInv
  <2>5. Linked(hdr, last, end) /\ Merged(hdr)
    BY DEF HeapInv, ListInv
  <2>6. Appended(hdr, last, end, s, g)
    BY <2>3, <2>5, AppendFields
  <2> HIDE DEF g
  <2>7. /\ Linked(hdr', last', end + HDR + s) /\ Merged(hdr') /\ Takes(hdr, hdr', end, size)
        /\ end \notin DOMAIN hdr
    BY <2>2, <2>3, <2>5, <2>6, AppendKeeps
  <2>8. QED
    BY <2>2, <2>3, <2>4, <2>7 DEF ListInv, Allocates
<1>3. CASE NoPages(size, m)
  BY <1>3 DEF NoPages, HeapInv, ListInv, FrameInv, Allocates
<1>4. QED
  BY <1>1, <1>2, <1>3 DEF Alloc

(* kfree keeps the chain, and the frames of what stays, when it gives back *)
(* a run of frames and does not leave a size below nothing.                *)
LEMMA FreeKeeps ==
  ASSUME HeapInv, NEW ptr \in DOMAIN live, Free(ptr), defects = {}, defects' = {}
  PROVE  ListInv' /\ FrameInv' /\ Releases(hdr, hdr', EntryOf(ptr))
<1> DEFINE e0 == EntryOf(ptr)
           h1 == [hdr EXCEPT ![e0].used = FALSE]
           back == MergeBack(List(h1, last), e0)
           e == back.e
           h2 == back.list.hdr
           l2 == back.list.last
           list == MergeNext(back.list, e)
           h3 == list.hdr
           l3 == list.last
<1>1. /\ e0 \in DOMAIN hdr /\ hdr[e0].used /\ end \in Nat
      /\ Linked(hdr, last, end) /\ Merged(hdr) /\ Framed(frame, pool \cup away, end)
      /\ pool \subseteq Pool0 /\ away \subseteq Pool0 /\ pool \cap away = {}
  BY HeapAddresses DEF HeapInv, ListInv, FrameInv
<1>2. \/ /\ ~Trims(list, e) /\ SetList(list)
         /\ UNCHANGED <<end, frame, pool, away, defects>>
      \/ /\ Trims(list, e) /\ SetList(TrimTo(list, e, AlignUp(e))) /\ GiveBack(AlignUp(e))
         /\ defects' = defects \cup TrimDefects(e, AlignUp(e))
  BY DEF Free, Freed
<1>3. back.list = List(h2, l2)
  BY DEF MergeBack, Absorb, BackLink, List
<1>4. list = List(h3, l3)
  BY <1>3 DEF MergeNext, Absorb, BackLink, List
<1> HIDE DEF e0, h1
<1>5. /\ Linked(h1, last, end) /\ MergedBut(h1, e0)
      /\ DOMAIN h1 = DOMAIN hdr /\ ~h1[e0].used
      /\ \A x \in DOMAIN hdr : h1[x].size = hdr[x].size /\ (x # e0 => h1[x].used = hdr[x].used)
  <2>1. h1 = Unmark(hdr, e0)
    BY DEF h1, Unmark
  <2>2. e0 \in DOMAIN hdr /\ end \in Nat /\ Linked(hdr, last, end) /\ Merged(hdr)
    BY <1>1
  <2>3. Linked(h1, last, end) /\ MergedBut(h1, e0) /\ DOMAIN h1 = DOMAIN hdr
    BY <2>1, <2>2, UnmarkKeeps
  <2>4. ~h1[e0].used
    BY <2>1, <2>2, UnmarkKeeps, Zenon
  <2>5. \A x \in DOMAIN hdr : h1[x].size = hdr[x].size /\ (x # e0 => h1[x].used = hdr[x].used)
    BY <2>1, <2>2, UnmarkKeeps
  <2>6. QED
    BY <2>3, <2>4, <2>5
<1>6. /\ Linked(h2, l2, end) /\ MergedBut(h2, e) /\ BeforeUsed(h2, e)
      /\ KeepsUsed(h1, h2, NULL) /\ e \in DOMAIN h2 /\ ~h2[e].used
  <2> HIDE DEF back
  <2>1. back = MergeBack(List(h1, last), e0)
    BY DEF back
  <2>2. e0 \in DOMAIN h1
    BY <1>1, <1>5
  <2>3. QED
    BY <1>1, <1>5, <2>1, <2>2, MergeBackKeeps
<1> HIDE DEF back
<1>7. /\ Linked(h3, l3, end) /\ Merged(h3) /\ KeepsUsed(h2, h3, NULL)
      /\ e \in DOMAIN h3 /\ ~h3[e].used
  <2>1. h3 = MergeNext(List(h2, l2), e).hdr /\ l3 = MergeNext(List(h2, l2), e).last
    BY <1>3
  <2> HIDE DEF h2, l2, e, h3, l3, list
  <2>2. QED
    BY <1>1, <1>6, <2>1, MergeNextKeeps
<1> HIDE DEF h2, l2, e, list
<1>8. Releases(hdr, h3, e0)
  <2> HIDE DEF h3
  <2>1. NULL \notin DOMAIN hdr /\ NULL \notin DOMAIN h2
    BY <1>1, <1>6, StartAssumption DEF Linked, Within, NULL
  <2>2. \A x \in DOMAIN hdr : hdr[x].used /\ x # e0 =>
          x \in DOMAIN h3 /\ h3[x].used /\ h3[x].size = hdr[x].size
    <3> SUFFICES ASSUME NEW x \in DOMAIN hdr, hdr[x].used, x # e0
                 PROVE  x \in DOMAIN h3 /\ h3[x].used /\ h3[x].size = hdr[x].size
      OBVIOUS
    <3>1. x \in DOMAIN h1 /\ h1[x].used /\ h1[x].size = hdr[x].size
      BY <1>5, Zenon
    <3>2. x \in DOMAIN h2 /\ h2[x].used /\ h2[x].size = h1[x].size
      BY <1>6, <2>1, <3>1, Zenon DEF KeepsUsed
    <3>3. x \in DOMAIN h3 /\ h3[x].used /\ h3[x].size = h2[x].size
      BY <1>7, <2>1, <3>2, Zenon DEF KeepsUsed
    <3>4. QED
      BY <3>1, <3>2, <3>3
  <2>3. \A x \in DOMAIN h3 : h3[x].used => x \in DOMAIN hdr /\ hdr[x].used /\ x # e0
    <3> SUFFICES ASSUME NEW x \in DOMAIN h3, h3[x].used
                 PROVE  x \in DOMAIN hdr /\ hdr[x].used /\ x # e0
      OBVIOUS
    <3>1. x \in DOMAIN h2 /\ h2[x].used
      BY <1>7, Zenon DEF KeepsUsed
    <3>2. x \in DOMAIN h1 /\ h1[x].used
      BY <1>6, <3>1, Zenon DEF KeepsUsed
    <3>3. QED
      BY <1>5, <3>2, Zenon
  <2>4. QED
    BY <2>2, <2>3 DEF Releases
<1>9. CASE ~Trims(list, e)
  <2>1. hdr' = h3 /\ last' = l3 /\ UNCHANGED <<end, frame, pool, away>>
    BY <1>2, <1>9 DEF SetList
  <2>2. QED
    BY <2>1, <1>1, <1>7, <1>8 DEF ListInv, FrameInv, e0
<1>10. CASE Trims(list, e)
  <2> DEFINE u == AlignUp(e)
  <2>1. /\ SetList(TrimTo(list, e, u)) /\ GiveBack(u)
        /\ defects' = defects \cup TrimDefects(e, u)
        /\ h3[e].next = NULL /\ h3[e].last # NULL
    BY <1>2, <1>10 DEF Trims
  <2>2. /\ hdr' = TrimTo(List(h3, l3), e, u).hdr
        /\ last' = TrimTo(List(h3, l3), e, u).last
    BY <2>1, <1>4 DEF SetList
  <2> HIDE DEF h3, l3
  <2>3. e \in Nat /\ Start < e /\ e <= end /\ WholePages(end)
    <3>1. e \in Nat /\ Start <= e /\ e + HDR + h3[e].size <= end /\ h3[e].size \in Nat
      BY <1>7 DEF Linked, Within, Typed, Entries
    <3>2. h3[Start].last = NULL /\ e # Start
      BY <1>7, <2>1 DEF Linked, Ends
    <3>3. QED
      BY <3>1, <3>2, <1>1, StartAssumption DEF HDR, Framed
  <2>4. /\ WholePages(u) /\ e <= u /\ u < e + Page /\ u <= end
        /\ Have(u) <= Have(end) /\ (end - u) \div Page = Have(end) - Have(u)
    BY <1>1, <2>3, AlignUpCut
  <2> HIDE DEF u
  <2>5. /\ ~\E i \in DOMAIN frame : i > Have(u) /\ frame[i] # frame[Have(u)] + (i - Have(u))
        /\ u - e \notin 1 .. HDR - 1
    BY <2>1 DEF TrimDefects, Have
  <2>6. u \in Nat /\ u - e < Page
    BY <2>3, <2>4, PageSize DEF WholePages
  <2>7. Linked(hdr', last', u) /\ Merged(hdr') /\ KeepsUsed(h3, hdr', NULL)
    BY <1>1, <1>7, <2>1, <2>2, <2>4, <2>5, <2>6, TrimToKeeps
  <2>8. end' = u
    BY <2>1 DEF GiveBack
  <2>9. FrameInv'
    <3> DEFINE n == Have(end) - Have(u)
               freed == IF n = 0 THEN {} ELSE frame[Have(u)] .. frame[Have(u)] + n - 1
               others == pool \cup away
    <3>1. /\ \/ pool' = pool \cup (freed \cap Pool0) /\ away' = away
             \/ \E tables \in SUBSET pool :
                  pool' = pool \ tables /\ away' = away \cup (freed \cap Pool0) \cup tables
          /\ frame' = [i \in 0 .. Have(u) - 1 |-> frame[i]]
      BY <2>1, <2>4 DEF GiveBack, PagesCut, Have
    <3> HIDE DEF others
    <3>2. Framed(frame, others, end)
      BY <1>1 DEF others
    <3>3. /\ Framed([i \in 0 .. Have(u) - 1 |-> frame[i]], others \cup (freed \cap Pool0), u)
          /\ freed \cap others = {}
      BY <3>2, <2>4, <2>5, GiveBackFrames
    <3> HIDE DEF freed
    <3>4. /\ pool' \cup away' = others \cup (freed \cap Pool0)
          /\ pool' \subseteq Pool0 /\ away' \subseteq Pool0 /\ pool' \cap away' = {}
      BY <1>1, <3>1, <3>3 DEF others
    <3>5. QED
      BY <3>1, <3>3, <3>4, <2>8 DEF FrameInv
  <2>10. Releases(hdr, hdr', e0)
    <3>1. NULL \notin DOMAIN h3
      BY <1>7, StartAssumption DEF Linked, Within, NULL
    <3>2. \A x \in DOMAIN hdr : hdr[x].used /\ x # e0 =>
            x \in DOMAIN hdr' /\ hdr'[x].used /\ hdr'[x].size = hdr[x].size
      <4> SUFFICES ASSUME NEW x \in DOMAIN hdr, hdr[x].used, x # e0
                   PROVE  x \in DOMAIN hdr' /\ hdr'[x].used /\ hdr'[x].size = hdr[x].size
        OBVIOUS
      <4>1. x \in DOMAIN h3 /\ h3[x].used /\ h3[x].size = hdr[x].size
        BY <1>8, Zenon DEF Releases
      <4>2. x \in DOMAIN hdr' /\ hdr'[x].used /\ hdr'[x].size = h3[x].size
        BY <2>7, <3>1, <4>1, Zenon DEF KeepsUsed
      <4>3. QED
        BY <4>1, <4>2
    <3>3. \A x \in DOMAIN hdr' : hdr'[x].used => x \in DOMAIN hdr /\ hdr[x].used /\ x # e0
      BY <1>8, <2>7, Zenon DEF Releases, KeepsUsed
    <3>4. QED
      BY <3>2, <3>3 DEF Releases
  <2>11. QED
    BY <2>7, <2>8, <2>9, <2>10 DEF ListInv, e0
<1>11. QED
  BY <1>9, <1>10

(* krealloc in place keeps the chain, and every other block what it was:   *)
(* the branch that moves a free entry down overlaps, and the branch that   *)
(* grows into entries further behind leaves a gap, so neither is one of    *)
(* these steps.                                                            *)
LEMMA ResizeKeeps ==
  ASSUME HeapInv, defects = {}, defects' = {},
         NEW p, NEW ptr \in DOMAIN live, NEW size \in Nat,
         \/ ShrinkIntoFree(p, ptr, size) \/ ShrinkByCarving(p, ptr, size)
         \/ KeepSize(p, ptr, size) \/ GrowInPlace(p, ptr, size)
  PROVE  /\ ListInv' /\ FrameInv' /\ KeepsUsed(hdr, hdr', EntryOf(ptr))
         /\ hdr'[EntryOf(ptr)].size >= size
         /\ Returns(p, ptr, size)
<1> DEFINE e == EntryOf(ptr)
<1>1. /\ e \in DOMAIN hdr /\ hdr[e].used /\ end \in Nat /\ hdr[e].size \in Nat /\ e \in Nat
      /\ DOMAIN hdr \subseteq Nat /\ hdr \in [DOMAIN hdr -> Entries]
      /\ Linked(hdr, last, end) /\ Merged(hdr)
  BY HeapAddresses DEF HeapInv, ListInv
<1>2. ~ShrinkIntoFree(p, ptr, size)
  BY DEF ShrinkIntoFree
<1>3. Returns(p, ptr, size)
  BY <1>2 DEF ShrinkByCarving, KeepSize, GrowInPlace
<1>4. FrameInv' /\ end' = end
  BY <1>3 DEF Returns, HeapInv, FrameInv
<1> HIDE DEF e
<1>5. CASE ShrinkByCarving(p, ptr, size)
  <2>1. /\ size + HDR <= hdr[e].size /\ ~FreeBehind(e)
        /\ hdr' = Carve(List(hdr, last), e, size).hdr
        /\ last' = Carve(List(hdr, last), e, size).last
    BY <1>1, <1>5 DEF ShrinkByCarving, SetList, Now, e, HDR, ALIGN
  <2>2. Carved(hdr, last, e, size, hdr', last') /\ e + HDR + size \notin DOMAIN hdr
    BY <1>1, <2>1, CarveFields
  <2>3. hdr[e].next # NULL => hdr[hdr[e].next].used
    BY <2>1, Zenon DEF FreeBehind
  <2>4. Linked(hdr', last', end)
    BY <1>1, <2>1, <2>2, CarvedLinked
  <2>5. Merged(hdr') /\ KeepsUsed(hdr, hdr', e) /\ e \in DOMAIN hdr' /\ hdr'[e].size = size
    BY <1>1, <2>1, <2>2, <2>3, CarvedMerged
  <2>6. QED
    BY <1>3, <1>4, <2>4, <2>5 DEF ListInv, e
<1>6. CASE KeepSize(p, ptr, size)
  <2>1. hdr' = hdr /\ last' = last /\ hdr[e].size >= size
    BY <1>1, <1>6 DEF KeepSize, e
  <2>2. KeepsUsed(hdr, hdr', e)
    BY <2>1, Zenon DEF KeepsUsed
  <2>3. QED
    BY <1>1, <1>3, <1>4, <2>1, <2>2 DEF ListInv, e
<1>7. CASE GrowInPlace(p, ptr, size)
  <2> DEFINE c == Lowest(Enough(e, size))
             tot == hdr[c].size + HDR
             skipped == {b \in DOMAIN hdr : e < b /\ b <= c}
             lk == BackLink(List(hdr, last), e, hdr[c].next)
             g == Drop([lk.hdr EXCEPT ![e].next = hdr[c].next, ![e].size = tot], skipped)
  <2>1. /\ size > hdr[e].size /\ Enough(e, size) # {}
        /\ hdr' = CarveIfLarge(List(g, lk.last), e, size).hdr
        /\ last' = CarveIfLarge(List(g, lk.last), e, size).last
        /\ Memory(e) + tot = Memory(c) + hdr[c].size
    BY <1>7 DEF GrowInPlace, SetList, Now, e
  <2>2. c \in Enough(e, size)
    BY <1>1, <2>1, LowestIsLeast DEF Enough
  <2> HIDE DEF c
  <2>3. /\ c \in DOMAIN hdr /\ c > e /\ hdr[c].size + HDR >= size /\ ~hdr[c].used
        /\ c \in Nat /\ hdr[c].size \in Nat
    <3>1. c \in DOMAIN hdr /\ c > e /\ hdr[c].size + HDR >= size
      BY <2>2 DEF Enough
    <3>2. c \in Nat /\ hdr[c] \in Entries /\ c <= c
      BY <1>1, <3>1
    <3>3. ~hdr[c].used
      BY <2>2, <3>1, <3>2, Zenon DEF Enough
    <3>4. QED
      BY <3>1, <3>2, <3>3 DEF Entries
  <2>4. c = e + HDR /\ HDR = 2
    BY <1>1, <2>1, <2>3 DEF Memory, HDR
  <2>5. hdr[e].next # NULL /\ hdr[e].next <= c /\ hdr[e].next = e + HDR + hdr[e].size
    BY <1>1, <2>3, NeighbourOutside
  <2>6. hdr[e].size = 0 /\ hdr[e].next = c
    BY <1>1, <2>4, <2>5
  <2>7. skipped = {c}
    <3>1. \A b \in DOMAIN hdr : e < b => e + HDR + hdr[e].size <= b
      BY <1>1 DEF Linked, Apart
    <3>2. \A b \in DOMAIN hdr : e < b => c <= b /\ b \in Nat
      BY <1>1, <2>4, <2>6, <3>1
    <3>3. QED
      BY <2>3, <3>2
  <2> DEFINE f == hdr[c].next
             g0 == [lk.hdr EXCEPT ![e].next = f, ![e].size = tot]
  <2>8. /\ f # NULL => f \in DOMAIN hdr
        /\ f # e /\ f # c /\ f \in Nat /\ e # c /\ NULL \notin DOMAIN hdr
    <3>1. f # NULL => f \in DOMAIN hdr /\ f = c + HDR + hdr[c].size
      BY <1>1, <2>3 DEF Linked, Onward
    <3>2. NULL \notin DOMAIN hdr /\ f \in Nat
      BY <1>1, <2>3, StartAssumption DEF Linked, Within, NULL, Entries
    <3>3. QED
      BY <1>1, <2>3, <2>4, <3>1, <3>2
  <2>9. /\ lk.hdr = IF f # NULL THEN [hdr EXCEPT ![f].last = e] ELSE hdr
        /\ lk.last = IF f # NULL THEN last ELSE e
    BY DEF BackLink, List
  <2>10. /\ DOMAIN lk.hdr = DOMAIN hdr
         /\ \A x \in DOMAIN hdr : lk.hdr[x] = IF x = f THEN [hdr[x] EXCEPT !.last = e] ELSE hdr[x]
    BY <1>1, <2>8, <2>9
  <2>11. g = [x \in DOMAIN g0 \ {c} |-> g0[x]]
    BY <2>7 DEF Drop
  <2> HIDE DEF lk
  <2>12. /\ DOMAIN g0 = DOMAIN hdr
         /\ g0[e] = [lk.hdr[e] EXCEPT !.next = f, !.size = tot]
         /\ \A x \in DOMAIN hdr : x # e => g0[x] = lk.hdr[x]
    BY <1>1, <2>10
  <2> HIDE DEF g0, g, f, tot
  <2>13. \A x \in DOMAIN hdr :
           /\ g0[x] \in Entries
           /\ g0[x].used = hdr[x].used
           /\ g0[x].size = IF x = e THEN tot ELSE hdr[x].size
           /\ g0[x].next = IF x = e THEN f ELSE hdr[x].next
           /\ g0[x].last = IF x = f THEN e ELSE hdr[x].last
    <3> TAKE x \in DOMAIN hdr
    <3>1. hdr[x] \in Entries /\ hdr[e] \in Entries /\ tot \in Nat /\ f \in Nat /\ e \in Nat
      BY <1>1, <2>3, <2>8 DEF tot, HDR
    <3>2. CASE x = e
      <4>1. lk.hdr[e] = hdr[e]
        BY <1>1, <2>8, <2>10
      <4>2. g0[e] = [hdr[e] EXCEPT !.next = f, !.size = tot]
        BY <4>1, <2>12, Zenon
      <4>3. g0[x] = [size |-> tot, used |-> hdr[e].used, last |-> hdr[e].last, next |-> f]
        BY <3>1, <3>2, <4>2 DEF Entries
      <4>4. g0[x] \in Entries
        BY <3>1, <4>3 DEF Entries
      <4>5. QED
        BY <3>2, <4>3, <4>4, <2>8
    <3>3. CASE x # e /\ x = f
      <4>1. g0[x] = [size |-> hdr[x].size, used |-> hdr[x].used, last |-> e, next |-> hdr[x].next]
        BY <3>1, <3>3, <2>10, <2>12 DEF Entries
      <4>2. g0[x] \in Entries
        BY <3>1, <4>1 DEF Entries
      <4>3. QED
        BY <3>3, <4>1, <4>2
    <3>4. CASE x # e /\ x # f
      BY <3>1, <3>4, <2>10, <2>12
    <3>5. QED
      BY <3>2, <3>3, <3>4
  <2>14. DOMAIN g = DOMAIN hdr \ {c} /\ \A x \in DOMAIN g : g[x] = g0[x]
    BY <2>11, <2>12
  <2>15. g \in [DOMAIN g -> Entries]
    BY <2>11, <2>12, <2>13
  <2>16. tot = hdr[e].size + HDR + hdr[c].size
    BY <1>1, <2>3, <2>4, <2>6 DEF tot
  <2>17. Absorbed(hdr, last, e, c, g, lk.last)
    BY <2>9, <2>13, <2>14, <2>15, <2>16 DEF Absorbed, f
  <2>18. g[e].size = tot /\ size <= g[e].size
    BY <1>1, <2>3, <2>8, <2>13, <2>14 DEF tot, HDR
  <2> DEFINE k == lk.last
  <2> HIDE DEF k
  <2>19. Absorbed(hdr, last, e, c, g, k)
    BY <2>17 DEF k
  <2>20. LET r == CarveIfLarge(List(g, k), e, size)
         IN  /\ Linked(r.hdr, r.last, end) /\ Merged(r.hdr) /\ KeepsUsed(hdr, r.hdr, e)
             /\ e \in DOMAIN r.hdr /\ r.hdr[e].size >= size
    BY <1>1, <2>3, <2>6, <2>18, <2>19, GrowKeeps
  <2>21. /\ Linked(hdr', last', end) /\ Merged(hdr') /\ KeepsUsed(hdr, hdr', e)
         /\ e \in DOMAIN hdr' /\ hdr'[e].size >= size
    BY <2>1, <2>20 DEF k, g
  <2>22. QED
    BY <1>3, <1>4, <2>21 DEF ListInv, e
<1>8. QED
  BY <1>2, <1>5, <1>6, <1>7

-----------------------------------------------------------------------------
(* An allocation leaves the blocks alone that others move.                 *)
LEMMA AllocUntouched ==
  ASSUME HeapInv, NEW e \in Nat, NEW size, Takes(hdr, hdr', e, size)
  PROVE  /\ \A m \in DOMAIN live : hdr'[EntryOf(m)].size = hdr[EntryOf(m)].size
         /\ \A p \in Procs : Untouched(hdr, hdr', live, Put(live, Memory(e), size), pc, arg, p)
<1>1. \A m \in DOMAIN live : hdr'[EntryOf(m)].size = hdr[EntryOf(m)].size
  BY HeapAddresses, Zenon DEF Takes
<1>2. DOMAIN Put(live, Memory(e), size) = DOMAIN live \cup {Memory(e)}
  BY DEF Put
<1>3. \A q \in Procs : pc[q] # "idle" => arg[q].ptr \in DOMAIN live
  BY DEF HeapInv, Moves
<1>4. QED
  BY <1>1, <1>2, <1>3 DEF Untouched

(* So does the release of a block that they do not move.                   *)
LEMMA FreeUntouched ==
  ASSUME HeapInv, NEW m \in DOMAIN live, Releases(hdr, hdr', EntryOf(m)), NEW p \in Procs,
         \A q \in Procs : q # p /\ pc[q] # "idle" => arg[q].ptr # m /\ arg[q].ret # m
  PROVE  Untouched(hdr, hdr', live, Drop(live, {m}), pc, arg, p)
<1>1. ASSUME NEW x \in DOMAIN live, x # m
      PROVE  x \in DOMAIN Drop(live, {m}) /\ hdr'[EntryOf(x)].size = hdr[EntryOf(x)].size
  <2>1. x \in Nat /\ m \in Nat
    BY HeapAddresses
  <2>2. EntryOf(x) # EntryOf(m)
    BY <1>1, <2>1 DEF EntryOf, HDR
  <2>3. EntryOf(x) \in DOMAIN hdr /\ hdr[EntryOf(x)].used
    BY HeapAddresses, Zenon
  <2>4. hdr'[EntryOf(x)].size = hdr[EntryOf(x)].size
    BY <2>2, <2>3, Zenon DEF Releases
  <2>5. QED
    BY <1>1, <2>4 DEF Drop
<1>2. \A q \in Procs : pc[q] # "idle" => arg[q].ptr \in DOMAIN live
  BY DEF HeapInv, Moves
<1>3. QED
  BY <1>1, <1>2 DEF Untouched

(* So does a resize of such a block.                                       *)
LEMMA ResizeUntouched ==
  ASSUME HeapInv, NEW m \in DOMAIN live, KeepsUsed(hdr, hdr', EntryOf(m)), NEW p \in Procs,
         m \notin Moving, NEW size
  PROVE  Untouched(hdr, hdr', live, [live EXCEPT ![m] = size], pc, arg, p)
<1>1. ASSUME NEW x \in DOMAIN live, x # m
      PROVE  hdr'[EntryOf(x)].size = hdr[EntryOf(x)].size
  <2>1. x \in Nat /\ m \in Nat
    BY HeapAddresses
  <2>2. EntryOf(x) # EntryOf(m)
    BY <1>1, <2>1 DEF EntryOf, HDR
  <2>3. EntryOf(x) \in DOMAIN hdr /\ hdr[EntryOf(x)].used
    BY HeapAddresses, Zenon
  <2>4. QED
    BY <2>2, <2>3, Zenon DEF KeepsUsed
<1>2. \A q \in Procs : pc[q] # "idle" => arg[q].ptr \in DOMAIN live
  BY DEF HeapInv, Moves
<1>3. \A q \in Procs : arg[q].ptr # m /\ arg[q].ret # m
  BY DEF Moving
<1>4. QED
  BY <1>1, <1>2, <1>3 DEF Untouched

(* An allocation keeps what is served.                                     *)
LEMMA AllocServed ==
  ASSUME HeapInv, NEW e \in Nat, NEW size \in Nat, Takes(hdr, hdr', e, size), ListInv'
  PROVE  Serves(hdr', Put(live, Memory(e), size))
<1>1. Serves(hdr, live) /\ DOMAIN hdr \subseteq Nat /\ DOMAIN hdr' \subseteq Nat
  BY DEF HeapInv, ListInv, Linked, Typed
<1>2. QED
  BY <1>1, NewServed

(* kmalloc.                                                                *)
LEMMA kmallocKeeps ==
  ASSUME HeapInv, NEW p \in Procs, NEW size \in Sizes, kmalloc(p, size)
  PROVE  HeapInv'
<1>1. PICK m \in Memories : Alloc(size, m) /\ Owned(m, size)
  BY DEF kmalloc
<1>2. size \in Nat /\ pc[p] = "idle" /\ UNCHANGED <<pc, arg>>
  BY HeapSizesAssumption DEF kmalloc
<1>3. ListInv' /\ FrameInv' /\ Allocates(size, m)
  BY <1>1, <1>2, AllocKeeps
<1>4. CASE m = NULL /\ UNCHANGED hdr
  <2>1. live' = live
    BY <1>1, <1>4 DEF Owned
  <2>2. Serves(hdr', live') /\ Moves(hdr', live', pc', arg')
    BY <2>1, <1>2, <1>4 DEF HeapInv
  <2>3. QED
    BY <1>3, <2>2 DEF HeapInv
<1>5. CASE ~(m = NULL /\ UNCHANGED hdr)
  <2>1. PICK e \in Nat : m = Memory(e) /\ Takes(hdr, hdr', e, size)
    BY <1>3, <1>5 DEF Allocates
  <2>2. live' = Put(live, Memory(e), size)
    BY <1>1, <2>1 DEF Owned, Memory, HDR, NULL
  <2>3. Serves(hdr', live')
    BY <1>2, <1>3, <2>1, <2>2, AllocServed
  <2>4. Untouched(hdr, hdr', live, live', pc, arg, p)
    BY <2>1, <2>2, AllocUntouched
  <2>5. Moves(hdr', live', pc, arg)
    BY <1>2, <2>4, MovesKept DEF HeapInv
  <2>6. QED
    BY <1>2, <1>3, <2>3, <2>5 DEF HeapInv
<1>6. QED
  BY <1>4, <1>5

(* The call of kmalloc in a krealloc that moves a block.                   *)
LEMMA MoveAllocKeeps ==
  ASSUME HeapInv, NEW p \in Procs, MoveAlloc(p)
  PROVE  HeapInv'
<1> DEFINE size == arg[p].size
<1>1. PICK m \in Memories :
         /\ Alloc(size, m) /\ Owned(m, size)
         /\ IF m = NULL
            THEN pc' = [pc EXCEPT ![p] = "idle"] /\ arg' = [arg EXCEPT ![p] = NoArg]
            ELSE pc' = [pc EXCEPT ![p] = "copy"] /\ arg' = [arg EXCEPT ![p].ret = m]
  BY DEF MoveAlloc
<1>2. size \in Nat /\ pc[p] = "alloc"
  BY DEF MoveAlloc, HeapInv, Moves
<1> HIDE DEF size
<1>3. ListInv' /\ FrameInv' /\ Allocates(size, m)
  BY <1>1, <1>2, AllocKeeps
<1>4. NULL \notin DOMAIN live /\ DOMAIN live \subseteq Nat /\ Moves(hdr, live, pc, arg)
  BY HeapAddresses DEF HeapInv
<1>5. CASE m = NULL
  <2>1. live' = live
    BY <1>1, <1>5 DEF Owned
  <2>2. UNCHANGED hdr
    <3>1. \A e \in Nat : Memory(e) # NULL
      BY DEF Memory, HDR, NULL
    <3>2. QED
      BY <1>3, <1>5, <3>1 DEF Allocates
  <2>3. Serves(hdr', live')
    BY <2>1, <2>2 DEF HeapInv
  <2>4. Untouched(hdr, hdr', live, live', pc, arg, p)
    BY <1>4, <2>1, <2>2 DEF Untouched, Moves
  <2>5. Moves(hdr', live', [pc EXCEPT ![p] = "idle"], [arg EXCEPT ![p] = NoArg])
    BY <1>4, <2>4, MoveEnds
  <2>6. QED
    BY <1>1, <1>3, <1>5, <2>3, <2>5 DEF HeapInv
<1>6. CASE m # NULL
  <2>1. PICK e \in Nat : /\ m = Memory(e) /\ Takes(hdr, hdr', e, size)
                         /\ e \in DOMAIN hdr => ~hdr[e].used
    BY <1>3, <1>6 DEF Allocates
  <2>2. live' = Put(live, m, size) /\ DOMAIN live' = DOMAIN live \cup {m}
    BY <1>1, <1>6 DEF Owned, Put
  <2>3. Serves(hdr', live')
    BY <1>2, <1>3, <2>1, <2>2, AllocServed
  <2>4. m \in Nat /\ EntryOf(m) = e
    BY <2>1 DEF Memory, EntryOf, HDR
  <2>5. m \notin DOMAIN live
    BY <2>1, <2>4, HeapAddresses, Zenon
  <2>6. hdr'[EntryOf(m)].size >= arg[p].size
    BY <2>1, <2>4 DEF Takes, size
  <2>7. \A x \in DOMAIN live : hdr'[EntryOf(x)].size = hdr[EntryOf(x)].size
    BY <2>1, AllocUntouched
  <2>8. Moves(hdr', live', [pc EXCEPT ![p] = "copy"], [arg EXCEPT ![p].ret = m])
    BY <1>2, <1>4, <1>6, <2>2, <2>4, <2>5, <2>6, <2>7, MoveGets
  <2>9. QED
    BY <1>1, <1>3, <1>6, <2>3, <2>8 DEF HeapInv
<1>7. QED
  BY <1>5, <1>6

(* kfree.                                                                  *)
LEMMA kfreeKeeps ==
  ASSUME HeapInv, NEW p \in Procs, NEW ptr \in DOMAIN live, kfree(p, ptr),
         defects = {}, defects' = {}
  PROVE  HeapInv'
<1>1. /\ pc[p] = "idle" /\ ptr \notin Moving /\ Free(ptr)
      /\ live' = Drop(live, {ptr}) /\ UNCHANGED <<pc, arg>>
  BY DEF kfree
<1>2. ListInv' /\ FrameInv' /\ Releases(hdr, hdr', EntryOf(ptr))
  BY <1>1, FreeKeeps
<1>3. Serves(hdr, live) /\ DOMAIN hdr \subseteq Nat
  BY HeapAddresses DEF HeapInv
<1>4. Serves(hdr', live')
  BY <1>1, <1>2, <1>3, FreedServed
<1>5. \A q \in Procs : arg[q].ptr # ptr /\ arg[q].ret # ptr
  BY <1>1 DEF Moving
<1>6. Untouched(hdr, hdr', live, live', pc, arg, p)
  BY <1>1, <1>2, <1>5, FreeUntouched
<1>7. Moves(hdr', live', pc, arg)
  BY <1>1, <1>6, MovesKept DEF HeapInv
<1>8. QED
  BY <1>1, <1>2, <1>4, <1>7 DEF HeapInv

(* The call of kfree at the end of a move.                                 *)
LEMMA MoveFreeKeeps ==
  ASSUME HeapInv, NEW p \in Procs, MoveFree(p), defects = {}, defects' = {}
  PROVE  HeapInv'
<1> DEFINE ptr == arg[p].ptr
<1>1. /\ pc[p] = "free" /\ Free(ptr) /\ live' = Drop(live, {ptr})
      /\ pc' = [pc EXCEPT ![p] = "idle"] /\ arg' = [arg EXCEPT ![p] = NoArg]
  BY DEF MoveFree
<1>2. ptr \in DOMAIN live
  BY <1>1 DEF HeapInv, Moves
<1>3. \A q \in Procs : q # p /\ pc[q] # "idle" => arg[q].ptr # ptr /\ arg[q].ret # ptr
  BY <1>1 DEF HeapInv, Moves
<1> HIDE DEF ptr
<1>4. ListInv' /\ FrameInv' /\ Releases(hdr, hdr', EntryOf(ptr))
  BY <1>1, <1>2, FreeKeeps
<1>5. /\ Serves(hdr, live) /\ DOMAIN hdr \subseteq Nat /\ Moves(hdr, live, pc, arg)
      /\ NULL \notin DOMAIN live
  BY HeapAddresses DEF HeapInv
<1>6. Serves(hdr', live')
  BY <1>1, <1>2, <1>4, <1>5, FreedServed
<1>7. Untouched(hdr, hdr', live, live', pc, arg, p)
  BY <1>1, <1>2, <1>3, <1>4, FreeUntouched
<1>8. Moves(hdr', live', pc', arg')
  BY <1>1, <1>5, <1>7, MoveEnds
<1>9. QED
  BY <1>4, <1>6, <1>8 DEF HeapInv

(* krealloc, in place or beginning to move.                                *)
LEMMA kreallocKeeps ==
  ASSUME HeapInv, NEW p \in Procs, NEW ptr \in DOMAIN live, NEW size \in Sizes,
         krealloc(p, ptr, size), defects = {}, defects' = {}
  PROVE  HeapInv'
<1>1. pc[p] = "idle" /\ ptr \notin Moving /\ size \in Nat
  BY HeapSizesAssumption DEF krealloc
<1>2. /\ Serves(hdr, live) /\ DOMAIN hdr \subseteq Nat /\ Moves(hdr, live, pc, arg)
      /\ NULL \notin DOMAIN live /\ DOMAIN live \subseteq Nat
  BY HeapAddresses DEF HeapInv
<1>3. CASE \/ ShrinkIntoFree(p, ptr, size) \/ ShrinkByCarving(p, ptr, size)
           \/ KeepSize(p, ptr, size) \/ GrowInPlace(p, ptr, size)
  <2>1. /\ ListInv' /\ FrameInv' /\ KeepsUsed(hdr, hdr', EntryOf(ptr))
        /\ hdr'[EntryOf(ptr)].size >= size
        /\ live' = [live EXCEPT ![ptr] = size] /\ UNCHANGED <<pc, arg>>
    BY <1>1, <1>3, ResizeKeeps DEF Returns
  <2>2. Serves(hdr', live')
    BY <1>1, <1>2, <2>1, ResizedServed
  <2>3. Untouched(hdr, hdr', live, live', pc, arg, p)
    BY <1>1, <2>1, ResizeUntouched
  <2>4. Moves(hdr', live', pc, arg)
    BY <1>1, <1>2, <2>3, MovesKept
  <2>5. QED
    BY <2>1, <2>2, <2>4 DEF HeapInv
<1>4. CASE MustMove(p, ptr, size)
  <2>1. /\ size > hdr[EntryOf(ptr)].size
        /\ pc' = [pc EXCEPT ![p] = "alloc"]
        /\ arg' = [arg EXCEPT ![p] = [ptr |-> ptr, size |-> size, ret |-> NULL]]
        /\ UNCHANGED <<hdr, last, end, frame, pool, away, live>>
    BY <1>4 DEF MustMove
  <2>2. hdr[EntryOf(ptr)].size < size
    BY <1>1, <2>1, HeapAddresses
  <2>3. Moves(hdr, live, pc', arg')
    BY <1>1, <1>2, <2>1, <2>2, MoveBegins DEF Moving
  <2>4. QED
    BY <2>1, <2>3 DEF HeapInv, ListInv, FrameInv
<1>5. QED
  BY <1>3, <1>4 DEF krealloc

(* memcpy changes nothing but where the processor is.                      *)
LEMMA MoveCopyKeeps ==
  ASSUME HeapInv, NEW p \in Procs, MoveCopy(p)
  PROVE  HeapInv'
<1>1. /\ pc[p] = "copy" /\ pc' = [pc EXCEPT ![p] = "free"]
      /\ UNCHANGED <<hdr, last, end, frame, pool, away, live, arg>>
  BY DEF MoveCopy
<1>2. Moves(hdr, live, pc, arg)
  BY DEF HeapInv
<1>3. /\ pc' \in [Procs -> {"idle"} \cup Busy] /\ pc'[p] = "free"
      /\ \A q \in Procs : q # p => pc'[q] = pc[q]
  BY <1>1, <1>2 DEF Moves, Busy
<1>4. Moves(hdr, live, pc', arg)
  BY <1>1, <1>2, <1>3 DEF Moves
<1>5. QED
  BY <1>1, <1>4 DEF HeapInv, ListInv, FrameInv

-----------------------------------------------------------------------------
(* init_heap makes one free entry of the first page.                       *)
LEMMA InitKeeps == Init => IInv
<1> SUFFICES ASSUME Init PROVE IInv
  OBVIOUS
<1>1. /\ Start \in Nat /\ Start # NULL /\ Page \in Nat /\ Page > 4 /\ HDR = 2 /\ NULL = 0
      /\ Page - HDR \in Nat
  BY PageSize, StartAssumption DEF HDR, NULL
<1>2. /\ DOMAIN hdr = {Start} /\ last = Start /\ end = Start + Page
      /\ hdr[Start] = [size |-> Page - HDR, used |-> FALSE, last |-> NULL, next |-> NULL]
  BY DEF Init
<1>3. /\ hdr[Start].size = Page - HDR /\ ~hdr[Start].used
      /\ hdr[Start].last = NULL /\ hdr[Start].next = NULL /\ hdr[Start] \in Entries
  BY <1>1, <1>2 DEF Entries
<1>4. hdr \in [DOMAIN hdr -> Entries]
  BY <1>2, <1>3 DEF Init
<1>5. ListInv
  <2>1. Typed(hdr, last) /\ Ends(hdr, last) /\ Backlinks(hdr) /\ Apart(hdr)
    BY <1>1, <1>2, <1>3, <1>4 DEF Typed, Ends, Backlinks, Apart
  <2>2. Within(hdr, end)
    BY <1>1, <1>2, <1>3 DEF Within
  <2>3. Onward(hdr, last, end)
    BY <1>1, <1>2, <1>3 DEF Onward
  <2>4. Merged(hdr)
    BY <1>2, <1>3 DEF Merged
  <2>5. QED
    BY <2>1, <2>2, <2>3, <2>4 DEF ListInv, Linked
<1>6. FrameInv
  <2>1. Page * 1 = Page
    BY <1>1
  <2>2. Have(end) = 1 /\ WholePages(end)
    BY <1>2, <2>1, HaveOf
  <2>3. frame \in [0 .. 0 -> Nat] /\ frame[0] = Frame0 /\ pool = Pool0 /\ away = {}
        /\ DOMAIN frame = {0}
    BY PoolAssumption DEF Init
  <2>4. Private(frame, pool \cup away)
    BY <2>3, PoolAssumption DEF Private
  <2>5. QED
    BY <2>2, <2>3, <2>4, PoolAssumption DEF FrameInv, Framed
<1>7. Serves(hdr, live)
  <2>1. DOMAIN live = {} /\ live \in [DOMAIN live -> Nat]
    BY DEF Init
  <2>2. QED
    BY <2>1, <1>2, <1>3 DEF Serves
<1>8. Moves(hdr, live, pc, arg)
  <2>1. NoArg \in [ptr : Nat, size : Nat, ret : Nat]
    BY DEF NoArg, NULL
  <2>2. \A p \in Procs : pc[p] = "idle" /\ arg[p] = NoArg
    BY DEF Init
  <2>3. pc \in [Procs -> {"idle"} \cup Busy] /\ arg \in [Procs -> [ptr : Nat, size : Nat, ret : Nat]]
    BY <2>1 DEF Init, Busy
  <2>4. QED
    BY <2>2, <2>3 DEF Moves
<1>9. defects \subseteq Defects
  BY DEF Init
<1>10. QED
  BY <1>5, <1>6, <1>7, <1>8, <1>9 DEF IInv, HeapInv

(* A defect is never undone.                                               *)
LEMMA DefectsStay ==
  ASSUME defects \subseteq Defects, [Next]_vars
  PROVE  defects \subseteq defects' /\ defects' \subseteq Defects
<1>1. CASE UNCHANGED vars
  BY <1>1 DEF vars
<1>2. CASE Next
  <2>1. \A e, u : TrimDefects(e, u) \subseteq Defects
    BY DEF TrimDefects, Defects
  <2>2. ASSUME NEW m, Free(m) PROVE defects \subseteq defects' /\ defects' \subseteq Defects
    <3>1. defects' = defects \/ \E e, u : defects' = defects \cup TrimDefects(e, u)
      BY <2>2 DEF Free, Freed
    <3>2. QED
      BY <2>1, <3>1
  <2>3. PICK p \in Procs : Step(p)
    BY <1>2 DEF Next
  <2>4. CASE \E size \in Sizes : kmalloc(p, size)
    BY <2>4 DEF kmalloc
  <2>5. CASE \E ptr \in DOMAIN live : kfree(p, ptr)
    BY <2>2, <2>5 DEF kfree
  <2>6. CASE \E ptr \in DOMAIN live, size \in Sizes : krealloc(p, ptr, size)
    <3>1. PICK ptr \in DOMAIN live, size \in Sizes : krealloc(p, ptr, size)
      BY <2>6
    <3>2. CASE ShrinkIntoFree(p, ptr, size)
      BY <3>2 DEF ShrinkIntoFree, Defects
    <3>3. CASE ShrinkByCarving(p, ptr, size)
      BY <3>3 DEF ShrinkByCarving, Defects
    <3>4. CASE KeepSize(p, ptr, size) \/ GrowInPlace(p, ptr, size) \/ MustMove(p, ptr, size)
      BY <3>4 DEF KeepSize, GrowInPlace, MustMove, Defects
    <3>5. QED
      BY <3>1, <3>2, <3>3, <3>4 DEF krealloc
  <2>7. CASE MoveAlloc(p) \/ MoveCopy(p)
    BY <2>7 DEF MoveAlloc, MoveCopy
  <2>8. CASE MoveFree(p)
    BY <2>2, <2>8 DEF MoveFree
  <2>9. CASE InMalloc(p) \/ InFree(p)
    BY <2>9 DEF InMalloc, InFree, MallocHalts, FreeHalts, Halts, Defects
  <2>10. QED
    BY <2>3, <2>4, <2>5, <2>6, <2>7, <2>8, <2>9 DEF Step
<1>3. QED
  BY <1>1, <1>2

(* Every step of any processor keeps the invariant.                        *)
LEMMA NextKeeps == IInv /\ [Next]_vars => IInv'
<1> SUFFICES ASSUME IInv, [Next]_vars PROVE IInv'
  OBVIOUS
<1>1. defects \subseteq defects' /\ defects' \subseteq Defects
  BY DefectsStay DEF IInv
<1>2. ASSUME defects' = {} PROVE HeapInv'
  <2>1. defects = {} /\ HeapInv
    BY <1>1, <1>2 DEF IInv
  <2>2. CASE UNCHANGED vars
    BY <2>1, <2>2 DEF vars, HeapInv, ListInv, FrameInv
  <2>3. CASE Next
    <3>1. PICK p \in Procs : Step(p)
      BY <2>3 DEF Next
    <3>2. CASE \E size \in Sizes : kmalloc(p, size)
      BY <2>1, <3>2, kmallocKeeps
    <3>3. CASE \E ptr \in DOMAIN live : kfree(p, ptr)
      BY <1>2, <2>1, <3>3, kfreeKeeps
    <3>4. CASE \E ptr \in DOMAIN live, size \in Sizes : krealloc(p, ptr, size)
      BY <1>2, <2>1, <3>4, kreallocKeeps
    <3>5. CASE MoveAlloc(p)
      BY <2>1, <3>5, MoveAllocKeeps
    <3>6. CASE MoveCopy(p)
      BY <2>1, <3>6, MoveCopyKeeps
    <3>7. CASE MoveFree(p)
      BY <1>2, <2>1, <3>7, MoveFreeKeeps
    <3>8. CASE InMalloc(p) \/ InFree(p)
      BY <1>2, <3>8 DEF InMalloc, InFree, MallocHalts, FreeHalts, Halts
    <3>9. QED
      BY <3>1, <3>2, <3>3, <3>4, <3>5, <3>6, <3>7, <3>8 DEF Step
  <2>4. QED
    BY <2>2, <2>3
<1>3. QED
  BY <1>1, <1>2 DEF IInv

(* The invariant holds in every state the heap can reach.                  *)
LEMMA Invariance == Spec => []IInv
<1>1. Init => IInv
  BY InitKeeps
<1>2. IInv /\ [Next]_vars => IInv'
  BY NextKeeps
<1>3. QED
  BY <1>1, <1>2, PTL DEF Spec

(* The blocks callers have lie inside the heap, are no smaller than what   *)
(* was asked for, and share no unit with each other or with a header.      *)
THEOREM BlocksApartTheorem == Spec => []BlocksApart
<1>1. IInv => BlocksApart
  <2> SUFFICES ASSUME HeapInv, defects = {} PROVE BlocksApart
    BY DEF IInv, BlocksApart
  <2>1. \A m \in DOMAIN live : /\ EntryOf(m) \in DOMAIN hdr
                               /\ hdr[EntryOf(m)].used /\ hdr[EntryOf(m)].size >= live[m]
    BY Zenon DEF HeapInv, Serves
  <2>2. /\ Linked(hdr, last, end)
        /\ \A e \in DOMAIN hdr : e \in Nat /\ hdr[e].size \in Nat
    BY HeapAddresses DEF HeapInv, ListInv
  <2>3. \A e \in DOMAIN hdr : Extent(e) \subseteq Start .. end - 1
    <3>1. end \in Nat /\ Start \in Nat
      BY HeapAddresses, StartAssumption
    <3>2. \A e \in DOMAIN hdr : Start <= e /\ e + HDR + hdr[e].size <= end
      BY <2>2 DEF Linked, Within
    <3>3. QED
      BY <2>2, <3>1, <3>2 DEF Extent, Memory, HDR
  <2>4. \A d, e \in DOMAIN hdr : d < e => Extent(d) \cap Extent(e) = {}
    BY <2>2 DEF Linked, Apart, Extent, Memory, HDR
  <2>5. \A d, e \in DOMAIN hdr : d # e => Extent(d) \cap Extent(e) = {}
    <3> SUFFICES ASSUME NEW d \in DOMAIN hdr, NEW e \in DOMAIN hdr, d # e
                 PROVE  Extent(d) \cap Extent(e) = {}
      OBVIOUS
    <3>1. d < e \/ e < d
      BY <2>2
    <3>2. QED
      BY <3>1, <2>4
  <2>6. QED
    BY <2>1, <2>3, <2>5 DEF BlocksApart
<1>2. QED
  BY <1>1, Invariance, PTL

(* No entry is marked used that no caller has: nothing leaks.              *)
THEOREM NothingLeaksTheorem == Spec => []NothingLeaks
<1>1. IInv => NothingLeaks
  BY DEF IInv, NothingLeaks, HeapInv, Serves
<1>2. QED
  BY <1>1, Invariance, PTL

(* The frames behind the heap are its alone: none can be handed out, none   *)
(* is a page table or table space.  The heap loses no frame of its own     *)
(* account; free_phys_pages may, when its table is full.                   *)
THEOREM FramesPrivateTheorem == Spec => []FramesPrivate
<1>1. IInv => FramesPrivate
  BY DEF IInv, FramesPrivate, HeapInv, FrameInv, Framed, Private
<1>2. QED
  BY <1>1, Invariance, PTL

(* krealloc copies, with no mutex, between two blocks that stay its own    *)
(* and of which the new one is the larger, whatever the others do.         *)
THEOREM CopyInsideTheorem == Spec => []CopyInside
<1>1. IInv => CopyInside
  <2> SUFFICES ASSUME HeapInv, NEW p \in Procs, pc[p] \in {"copy", "free"}
               PROVE  LET old == EntryOf(arg[p].ptr)
                          new == EntryOf(arg[p].ret)
                      IN  /\ {old, new} \subseteq DOMAIN hdr /\ old # new
                          /\ hdr[old].used /\ hdr[new].used
                          /\ hdr[old].size <= hdr[new].size
    BY DEF IInv, CopyInside
  <2>1. /\ arg[p].ptr \in DOMAIN live /\ arg[p].ret \in DOMAIN live
        /\ arg[p].ret # arg[p].ptr /\ arg[p].size \in Nat
        /\ hdr[EntryOf(arg[p].ptr)].size < arg[p].size
        /\ hdr[EntryOf(arg[p].ret)].size >= arg[p].size
    BY DEF HeapInv, Moves
  <2>2. /\ EntryOf(arg[p].ptr) \in DOMAIN hdr /\ hdr[EntryOf(arg[p].ptr)].used
        /\ EntryOf(arg[p].ret) \in DOMAIN hdr /\ hdr[EntryOf(arg[p].ret)].used
    BY <2>1, HeapAddresses, Zenon
  <2>3. EntryOf(arg[p].ptr) # EntryOf(arg[p].ret)
    BY <2>1, HeapAddresses DEF EntryOf, HDR
  <2>4. hdr[EntryOf(arg[p].ptr)].size <= hdr[EntryOf(arg[p].ret)].size
    BY <2>1, <2>2, HeapAddresses
  <2>5. QED
    BY <2>2, <2>3, <2>4
<1>2. QED
  BY <1>1, Invariance, PTL

-----------------------------------------------------------------------------
(* heap_consistency_check.  The walks of the check are recursive functions *)
(* of the number of steps; that they exist and where they lead is proved   *)
(* from the least number of steps at which it would not be so.             *)

(* From s, n steps of nx can be walked.                                    *)
Walks(f, S, nx, s, n) == /\ f \in [0 .. n -> S] /\ f[0] = s
                         /\ \A k \in 1 .. n : f[k] = nx[f[k-1]]

(* Where nx leads from S into S, any number of its steps can be walked.    *)
LEMMA WalkExists ==
  ASSUME NEW S, NEW nx \in [S -> S], NEW s \in S
  PROVE  \A n \in Nat : \E f : Walks(f, S, nx, s, n)
<1> DEFINE Bad == {n \in Nat : ~\E f : Walks(f, S, nx, s, n)}
<1>1. SUFFICES ASSUME Bad # {} PROVE FALSE
  OBVIOUS
<1>2. PICK n \in Bad : \A j \in Bad : n <= j
  BY <1>1, LeastExists
<1>3. n \in Nat /\ ~\E f : Walks(f, S, nx, s, n)
  OBVIOUS
<1>4. n # 0
  <2> SUFFICES ASSUME n = 0 PROVE FALSE
    OBVIOUS
  <2>1. Walks([k \in 0 .. 0 |-> s], S, nx, s, 0)
    BY DEF Walks
  <2>2. QED
    BY <2>1, <1>3
<1>5. n - 1 \in Nat /\ n - 1 \notin Bad
  BY <1>2, <1>3, <1>4
<1>6. PICK f : Walks(f, S, nx, s, n - 1)
  BY <1>5
<1> HIDE DEF Bad
<1> DEFINE g == [k \in 0 .. n |-> IF k = n THEN nx[f[n-1]] ELSE f[k]]
<1>7. /\ n - 1 \in Nat
      /\ \A k \in 0 .. n : k # n => k \in 0 .. n - 1
      /\ n - 1 \in 0 .. n - 1 /\ 0 \in 0 .. n /\ 0 # n
  BY <1>3, <1>4
<1>8. f \in [0 .. n - 1 -> S] /\ f[0] = s /\ \A k \in 1 .. n - 1 : f[k] = nx[f[k-1]]
  BY <1>6 DEF Walks
<1>9. g \in [0 .. n -> S] /\ g[0] = s
  BY <1>7, <1>8
<1>10. \A k \in 1 .. n : g[k] = nx[g[k-1]]
  <2> SUFFICES ASSUME NEW k \in 1 .. n PROVE g[k] = nx[g[k-1]]
    OBVIOUS
  <2>1. k \in 0 .. n /\ k - 1 \in 0 .. n /\ k - 1 # n
    BY <1>3
  <2>2. g[k-1] = f[k-1]
    BY <2>1
  <2>3. CASE k = n
    BY <2>1, <2>2, <2>3
  <2>4. CASE k # n
    <3>1. k \in 1 .. n - 1 /\ g[k] = f[k]
      BY <2>1, <2>4, <1>3
    <3>2. QED
      BY <3>1, <2>2, <1>8
  <2>5. QED
    BY <2>3, <2>4
<1>11. Walks(g, S, nx, s, n)
  BY <1>9, <1>10 DEF Walks
<1>12. QED
  BY <1>3, <1>11

(* A walk that steps from S into S stays in S.                             *)
LEMMA WalkStays ==
  ASSUME NEW S, NEW n \in Nat, NEW f, f[0] \in S,
         \A k \in 1 .. n : f[k-1] \in S => f[k] \in S
  PROVE  \A k \in 0 .. n : f[k] \in S
<1> DEFINE Bad == {k \in 0 .. n : f[k] \notin S}
<1>1. SUFFICES ASSUME Bad # {} PROVE FALSE
  OBVIOUS
<1>2. Bad \in SUBSET Nat
  OBVIOUS
<1>3. PICK k \in Bad : \A j \in Bad : k <= j
  BY <1>1, <1>2, LeastExists
<1>4. k # 0 /\ k \in 0 .. n
  OBVIOUS
<1>5. k - 1 \in 0 .. n /\ k - 1 \notin Bad /\ k \in 1 .. n
  BY <1>3, <1>4
<1>6. QED
  BY <1>5

(* The headers are finitely many.                                          *)
LEMMA HeadersFinite ==
  ASSUME HeapInv
  PROVE  IsFiniteSet(DOMAIN hdr) /\ Cardinality(DOMAIN hdr) \in Nat
<1>1. DOMAIN hdr \in SUBSET (0 .. end) /\ 0 \in Int /\ end \in Int
  BY HeapAddresses DEF HeapInv, ListInv, Linked, Within, HDR
<1>2. IsFiniteSet(DOMAIN hdr)
  BY <1>1, FS_Interval, FS_Subset
<1>3. QED
  BY <1>2, FS_CardinalityType

(* The walk forward starts at the first entry and follows next.            *)
LEMMA ForwardWalk ==
  ASSUME HeapInv
  PROVE  LET n == Cardinality(DOMAIN hdr)
         IN  Forward = [k \in 0 .. n |->
                          IF k = 0 THEN Start
                          ELSE IF Forward[k-1] = NULL THEN NULL ELSE hdr[Forward[k-1]].next]
<1> DEFINE n == Cardinality(DOMAIN hdr)
           S == DOMAIN hdr \cup {NULL}
           nx == [a \in S |-> IF a = NULL THEN NULL ELSE hdr[a].next]
           Body(f) == [k \in 0 .. n |-> IF k = 0 THEN Start
                                        ELSE IF f[k-1] = NULL THEN NULL ELSE hdr[f[k-1]].next]
<1>1. n \in Nat
  BY HeadersFinite
<1>2. Start \in S /\ nx \in [S -> S]
  BY DEF HeapInv, ListInv, Linked, Typed, Onward
<1>3. \A a \in S : nx[a] = IF a = NULL THEN NULL ELSE hdr[a].next
  OBVIOUS
<1> HIDE DEF n, S, nx
<1>4. PICK f : Walks(f, S, nx, Start, n)
  BY <1>1, <1>2, WalkExists
<1>5. f = Body(f)
  <2>1. f \in [0 .. n -> S] /\ f[0] = Start /\ \A k \in 1 .. n : f[k] = nx[f[k-1]]
    BY <1>4 DEF Walks
  <2>2. ASSUME NEW k \in 0 .. n, k # 0
        PROVE  f[k] = IF f[k-1] = NULL THEN NULL ELSE hdr[f[k-1]].next
    <3>1. k \in 1 .. n /\ k - 1 \in 0 .. n
      BY <1>1, <2>2
    <3>2. QED
      BY <3>1, <2>1, <1>3
  <2>3. QED
    BY <2>1, <2>2
<1>6. Forward = CHOOSE g : g = Body(g)
  BY DEF Forward, n
<1> HIDE DEF Body
<1>7. Forward = Body(Forward)
  BY <1>5, <1>6
<1>8. QED
  BY <1>7 DEF Body, n

(* The walk back starts at last_heap_entry and follows last.               *)
LEMMA BackwardWalk ==
  ASSUME HeapInv
  PROVE  LET n == Cardinality(DOMAIN hdr)
         IN  Backward = [k \in 0 .. n |->
                           IF k = 0 THEN last
                           ELSE IF Backward[k-1] = NULL THEN NULL ELSE hdr[Backward[k-1]].last]
<1> DEFINE n == Cardinality(DOMAIN hdr)
           S == DOMAIN hdr \cup {NULL}
           nx == [a \in S |-> IF a = NULL THEN NULL ELSE hdr[a].last]
           Body(f) == [k \in 0 .. n |-> IF k = 0 THEN last
                                        ELSE IF f[k-1] = NULL THEN NULL ELSE hdr[f[k-1]].last]
<1>1. n \in Nat
  BY HeadersFinite
<1>2. last \in S /\ nx \in [S -> S]
  BY DEF HeapInv, ListInv, Linked, Typed, Backlinks
<1>3. \A a \in S : nx[a] = IF a = NULL THEN NULL ELSE hdr[a].last
  OBVIOUS
<1> HIDE DEF n, S, nx
<1>4. PICK f : Walks(f, S, nx, last, n)
  BY <1>1, <1>2, WalkExists
<1>5. f = Body(f)
  <2>1. f \in [0 .. n -> S] /\ f[0] = last /\ \A k \in 1 .. n : f[k] = nx[f[k-1]]
    BY <1>4 DEF Walks
  <2>2. ASSUME NEW k \in 0 .. n, k # 0
        PROVE  f[k] = IF f[k-1] = NULL THEN NULL ELSE hdr[f[k-1]].last
    <3>1. k \in 1 .. n /\ k - 1 \in 0 .. n
      BY <1>1, <2>2
    <3>2. QED
      BY <3>1, <2>1, <1>3
  <2>3. QED
    BY <2>1, <2>2
<1>6. Backward = CHOOSE g : g = Body(g)
  BY DEF Backward, n
<1> HIDE DEF Body
<1>7. Backward = Body(Backward)
  BY <1>5, <1>6
<1>8. QED
  BY <1>7 DEF Body, n

(* A walk of more steps than there are headers, every one to a lower       *)
(* header, there is not.                                                   *)
LEMMA NoEndlessDescent ==
  ASSUME NEW S \in SUBSET Nat, IsFiniteSet(S), NEW n \in Nat, n = Cardinality(S),
         NEW f \in [0 .. n -> S], \A k \in 1 .. n : f[k] < f[k-1]
  PROVE  FALSE
<1>1. \A k \in 0 .. n : f[k] \in Nat
  OBVIOUS
<1>2. \A i \in 0 .. n, j \in 0 .. n : i < j => f[j] < f[i]
  <2> SUFFICES ASSUME NEW i \in 0 .. n
               PROVE  \A j \in 0 .. n : i < j => f[j] < f[i]
    OBVIOUS
  <2> DEFINE Bad == {j \in 0 .. n : i < j /\ ~(f[j] < f[i])}
  <2>1. SUFFICES ASSUME Bad # {} PROVE FALSE
    OBVIOUS
  <2>2. Bad \in SUBSET Nat
    OBVIOUS
  <2>3. PICK j \in Bad : \A b \in Bad : j <= b
    BY <2>1, <2>2, LeastExists
  <2>4. /\ j \in 1 .. n /\ i < j /\ ~(f[j] < f[i])
        /\ j - 1 \in 0 .. n /\ j - 1 \notin Bad
    BY <2>3
  <2>5. f[j] < f[j-1]
    BY <2>4
  <2>6. j - 1 = i \/ f[j-1] < f[i]
    BY <2>4
  <2>7. f[j] \in Nat /\ f[j-1] \in Nat /\ f[i] \in Nat
    BY <1>1, <2>4
  <2>8. CASE j - 1 = i
    BY <2>4, <2>5, <2>8
  <2>9. CASE f[j-1] < f[i]
    BY <2>4, <2>5, <2>7, <2>9
  <2>10. QED
    BY <2>6, <2>8, <2>9
<1>3. IsFiniteSet(0 .. n) /\ Cardinality(0 .. n) = n + 1
  BY FS_Interval
<1>4. \E i, j \in 0 .. n : i # j /\ f[i] = f[j]
  <2>1. Cardinality(S) < Cardinality(0 .. n)
    BY <1>3
  <2> DEFINE T == 0 .. n
  <2>2. IsFiniteSet(T) /\ Cardinality(S) < Cardinality(T) /\ f \in [T -> S]
    BY <1>3, <2>1
  <2> HIDE DEF T
  <2>3. \E i, j \in T : i # j /\ f[i] = f[j]
    BY <2>2, FS_PigeonHole
  <2>4. QED
    BY <2>3 DEF T
<1>5. PICK i \in 0 .. n, j \in 0 .. n : i # j /\ f[i] = f[j]
  BY <1>4
<1>6. i < j \/ j < i
  BY <1>5
<1>7. QED
  BY <1>1, <1>2, <1>5, <1>6

(* Following the back links leads from the last entry to the first.        *)
LEMMA BackToStart ==
  ASSUME HeapInv
  PROVE  \E k \in DOMAIN Backward : Backward[k] = Start
<1> DEFINE n == Cardinality(DOMAIN hdr)
<1>1. n \in Nat /\ IsFiniteSet(DOMAIN hdr) /\ DOMAIN hdr \in SUBSET Nat
  BY HeadersFinite, HeapAddresses
<1>2. Backward = [k \in 0 .. n |->
                    IF k = 0 THEN last
                    ELSE IF Backward[k-1] = NULL THEN NULL ELSE hdr[Backward[k-1]].last]
  BY BackwardWalk
<1> HIDE DEF n
<1>3. DOMAIN Backward = 0 .. n /\ Backward[0] = last
  BY <1>1, <1>2
<1>4. \A k \in 1 .. n : Backward[k] = IF Backward[k-1] = NULL THEN NULL
                                      ELSE hdr[Backward[k-1]].last
  <2> TAKE k \in 1 .. n
  <2>1. k \in 0 .. n /\ k # 0
    BY <1>1
  <2>2. QED
    BY <1>2, <2>1
<1>5. SUFFICES ASSUME \A k \in 0 .. n : Backward[k] # Start PROVE FALSE
  BY <1>3
<1>6. last \in DOMAIN hdr /\ NULL \notin DOMAIN hdr
  BY StartAssumption DEF HeapInv, ListInv, Linked, Typed, Within, NULL
<1>7. \A e \in DOMAIN hdr : e # Start => hdr[e].last \in DOMAIN hdr /\ hdr[e].last < e
  <2> SUFFICES ASSUME NEW e \in DOMAIN hdr, e # Start
               PROVE  hdr[e].last \in DOMAIN hdr /\ hdr[e].last < e
    OBVIOUS
  <2> DEFINE d == hdr[e].last
  <2>1. d \in DOMAIN hdr /\ hdr[d].next = e /\ e # NULL
    BY <1>6 DEF HeapInv, ListInv, Linked, Backlinks
  <2>2. e = d + HDR + hdr[d].size
    BY <2>1 DEF HeapInv, ListInv, Linked, Onward
  <2>3. d \in Nat /\ hdr[d].size \in Nat
    BY <2>1, HeapAddresses
  <2>4. QED
    BY <2>1, <2>2, <2>3 DEF HDR
<1>8. \A k \in 1 .. n : Backward[k-1] \in DOMAIN hdr => Backward[k] \in DOMAIN hdr
  <2> TAKE k \in 1 .. n
  <2>1. k - 1 \in 0 .. n
    BY <1>1
  <2>2. QED
    BY <2>1, <1>4, <1>5, <1>6, <1>7
<1>9. \A k \in 0 .. n : Backward[k] \in DOMAIN hdr
  BY <1>1, <1>3, <1>6, <1>8, WalkStays
<1>10. Backward \in [0 .. n -> DOMAIN hdr]
  BY <1>2, <1>9
<1>11. \A k \in 1 .. n : Backward[k] < Backward[k-1]
  <2> TAKE k \in 1 .. n
  <2>1. k - 1 \in 0 .. n
    BY <1>1
  <2>2. QED
    BY <2>1, <1>4, <1>5, <1>6, <1>7, <1>9
<1>12. QED
  BY <1>1, <1>10, <1>11, NoEndlessDescent DEF n

(* The list is in address order, its two directions agree, and no two      *)
(* neighbours are free: what kmalloc, kfree and krealloc leave, until a    *)
(* defect, passes heap_consistency_check.                                  *)
THEOREM ConsistentTheorem == Spec => []ConsistentUntilDefect
<1>1. IInv => OrderedLinks
  <2> SUFFICES ASSUME HeapInv, NEW e \in DOMAIN hdr, hdr[e].next # NULL
               PROVE  LET n == hdr[e].next
                      IN  n > e /\ n \in DOMAIN hdr /\ hdr[n].last = e
                          /\ (hdr[e].used \/ hdr[n].used)
    BY DEF IInv, OrderedLinks
  <2>1. /\ hdr[e].next \in DOMAIN hdr /\ hdr[hdr[e].next].last = e
        /\ hdr[e].next = e + HDR + hdr[e].size
    BY DEF HeapInv, ListInv, Linked, Onward
  <2>2. hdr[e].next > e
    BY <2>1, HeapAddresses DEF HDR
  <2>3. hdr[e].used \/ hdr[hdr[e].next].used
    BY Zenon DEF HeapInv, ListInv, Merged
  <2>4. QED
    BY <2>1, <2>2, <2>3, Zenon
<1>2. IInv /\ defects = {} => heap_consistency_check
  <2> SUFFICES ASSUME HeapInv PROVE heap_consistency_check
    BY DEF IInv
  <2> DEFINE n == Cardinality(DOMAIN hdr)
  <2>1. /\ Linked(hdr, last, end) /\ NULL \notin DOMAIN hdr
        /\ n \in Nat
    BY StartAssumption, HeadersFinite DEF HeapInv, ListInv, Linked, Typed, Within, NULL
  <2>2. (Memory(last) + hdr[last].size) % Wrap = end % Wrap
    <3>1. last \in DOMAIN hdr /\ hdr[last].next = NULL
      BY <2>1 DEF Linked, Typed, Ends
    <3>2. last + HDR + hdr[last].size = end
      BY <2>1, <3>1 DEF Linked, Onward
    <3>3. QED
      BY <3>2 DEF Memory
  <2>3. \A k \in DOMAIN Forward : Forward[k] \in DOMAIN hdr \cup {NULL}
    <3> DEFINE S == DOMAIN hdr \cup {NULL}
    <3>1. Forward = [k \in 0 .. n |->
                       IF k = 0 THEN Start
                       ELSE IF Forward[k-1] = NULL THEN NULL ELSE hdr[Forward[k-1]].next]
      BY ForwardWalk
    <3> HIDE DEF n
    <3>2. DOMAIN Forward = 0 .. n /\ Forward[0] = Start /\ Start \in S
      BY <2>1, <3>1 DEF Linked, Typed
    <3>3. \A k \in 1 .. n : Forward[k-1] \in S => Forward[k] \in S
      <4> SUFFICES ASSUME NEW k \in 1 .. n, Forward[k-1] \in S PROVE Forward[k] \in S
        OBVIOUS
      <4>1. k \in 0 .. n /\ k # 0
        BY <2>1
      <4>2. Forward[k] = IF Forward[k-1] = NULL THEN NULL ELSE hdr[Forward[k-1]].next
        BY <3>1, <4>1
      <4>3. QED
        BY <4>2, <2>1 DEF Linked, Onward
    <3> HIDE DEF S
    <3>4. \A k \in 0 .. n : Forward[k] \in S
      BY <2>1, <3>2, <3>3, WalkStays
    <3>5. QED
      BY <3>2, <3>4 DEF S
  <2>4. \A e \in DOMAIN hdr : IF hdr[e].next # NULL
                              THEN hdr[e].next = Memory(e) + hdr[e].size ELSE e = last
    BY <2>1 DEF Linked, Onward, Memory
  <2>5. \E k \in DOMAIN Backward : Backward[k] = Start /\ hdr[Start].last = NULL
    BY <2>1, BackToStart DEF Linked, Ends
  <2>6. QED
    BY <2>2, <2>3, <2>4, <2>5 DEF heap_consistency_check
<1>3. IInv => ConsistentUntilDefect
  BY <1>1, <1>2 DEF ConsistentUntilDefect
<1>4. QED
  BY <1>3, Invariance, PTL
=============================================================================
