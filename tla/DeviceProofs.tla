---------------------------- MODULE DeviceProofs ----------------------------
(***************************************************************************)
(* Proofs about the console, for any cache, any widths of the counter and  *)
(* of the priorities, and any screen; after it about the timer of the      *)
(* local APIC, for any vectors, callbacks and durations; and last about    *)
(* the enumeration of PCI, for any machine and any width of a register.    *)
(***************************************************************************)
EXTENDS Console, ApicTimer, Pci, FiniteSetTheorems, WellFoundedInduction, TLAPS

Entries == [ch : Glyphs, priority : MinInt .. MaxInt, bitmap : Glyphs]
Caches == [1 .. CacheSize -> Entries]
Once(c) == \A i, j \in 1 .. CacheSize : c[i].ch = c[j].ch /\ c[i].ch # Blank => i = j
Shows(c) == \A i \in 1 .. CacheSize : c[i].bitmap = c[i].ch

PCs == {"idle", "lock", "print", "unlock", "stuck"}
Inside == {"print", "unlock", "stuck"}

(* Who draws holds graphics_mutex, a processor that is stuck for ever, so  *)
(* that nothing is drawn any more.                                         *)
HolderInv == /\ mutex \in Procs \cup {Nobody} /\ pc \in [Procs -> PCs]
             /\ \A p \in Procs : (pc[p] \in Inside) <=> (mutex = p)

\* A glyph that FreeType could not render is in the cache only then.
CacheInv == /\ cache \in Caches /\ cur \in 0 .. CurValues - 1
            /\ Once(cache)
            /\ ~Stuck => Shows(cache)
            /\ shown.bitmap = shown.ch

CursorInv == /\ x \in 0 .. Cols - 1 /\ y \in Nat
             /\ below \in BOOLEAN
             /\ ~below => y < Rows /\ shown.on

\* Priorities count the uses, and a character drawn later has the higher one:
\* what is cached are the first of the characters drawn.
Distinct(s) == \A m, n \in 1 .. Len(s) : s[m] = s[n] => m = n
Recency(c, now, s) ==
    /\ now <= MaxInt /\ Distinct(s)
    /\ \A i \in 1 .. CacheSize :
         /\ c[i].priority \in 0 .. now
         /\ c[i].ch = Blank => c[i].priority = 0
         /\ c[i].ch # Blank => c[i].priority > 0 /\ \E k \in 1 .. Len(s) : c[i].ch = s[k]
    /\ \A i, j \in 1 .. CacheSize : \A k, l \in 1 .. Len(s) :
         c[i].ch = s[k] /\ c[j].ch = s[l] /\ k < l => c[i].priority > c[j].priority
    /\ \A k \in 1 .. CacheSize : k <= Len(s) => \E i \in 1 .. CacheSize : c[i].ch = s[k]

RecentInv == /\ recent \in Seq(Chars) /\ long \in BOOLEAN
             /\ ~long /\ ~Stuck => Recency(cache, cur, recent)

ConsoleInv == HolderInv /\ CacheInv /\ CursorInv /\ RecentInv

-----------------------------------------------------------------------------
(* A set of naturals has a least element.                                  *)
LEMMA LeastExists ==
  ASSUME NEW S \in SUBSET Nat, S # {}
  PROVE  \E i \in S : \A j \in S : i <= j
<1>1. PICK i \in S : \A j \in S : ~(<<j, i>> \in OpToRel(<, Nat))
  BY NatLessThanWellFounded, WFMin
<1>2. \A j \in S : ~(j < i)
  BY <1>1, Zenon DEF OpToRel
<1>3. QED
  BY <1>2

(* A 64-bit number compared as an int is an int.                           *)
LEMMA ToIntRange == ASSUME NEW n \in Nat PROVE ToInt(n) \in MinInt .. MaxInt
<1> DEFINE w == 2 * IntHalf
<1>1. w \in Nat \ {0} /\ IntHalf \in Nat
  BY WidthAssumption
<1> HIDE DEF w
<1>2. n % w \in 0 .. w - 1
  BY <1>1
<1>3. ToInt(n) = IF (n % w) > MaxInt THEN (n % w) - w ELSE n % w
  BY DEF ToInt, w
<1>4. w = 2 * IntHalf
  BY DEF w
<1>5. QED
  BY <1>1, <1>2, <1>3, <1>4 DEF MinInt, MaxInt

(* cur_priority is never 0 after a lookup.                                 *)
LEMMA BumpRange == ASSUME cur \in 0 .. CurValues - 1 PROVE Bump \in 1 .. CurValues - 1
<1>1. CurValues \in Nat /\ CurValues >= 2
  BY WidthAssumption
<1>2. (cur + 1) % CurValues \in 0 .. CurValues - 1
  BY <1>1
<1>3. QED
  BY <1>1, <1>2 DEF Bump

(* The rollover touches the priorities only.                               *)
LEMMA RolledShape ==
  ASSUME cache \in Caches
  PROVE  /\ Rolled \in Caches
         /\ \A i \in 1 .. CacheSize : /\ Rolled[i].ch = cache[i].ch
                                      /\ Rolled[i].bitmap = cache[i].bitmap
<1>1. 0 \in MinInt .. MaxInt
  BY WidthAssumption DEF MinInt, MaxInt
<1>2. \A i \in 1 .. CacheSize : [cache[i] EXCEPT !.priority = 0] \in Entries
  BY <1>1 DEF Caches, Entries
<1>3. QED
  BY <1>2 DEF Rolled, Caches, Entries

(* The entry to be replaced is an entry, whatever the comparison says, and *)
(* of those it lets through none is older.                                 *)
LEMMA OldestIn ==
  ASSUME NEW c \in Caches, NEW now \in Nat
  PROVE  /\ Oldest(c, now) \in 1 .. CacheSize
         /\ \A j \in Candidates(c, now) : c[Oldest(c, now)].priority <= c[j].priority
<1> DEFINE S == Candidates(c, now)
           L == {i \in S : \A j \in S : c[i].priority <= c[j].priority}
           P == {c[i].priority - MinInt : i \in S}
<1>0. CacheSize \in Nat \ {0} /\ MinInt \in Int /\ MaxInt \in Int
  BY ScreenAssumption, WidthAssumption DEF MinInt, MaxInt
<1>1. S \subseteq 1 .. CacheSize /\ S \subseteq Nat
  BY <1>0 DEF Candidates
<1>2. \A i \in 1 .. CacheSize : c[i].priority \in Int /\ c[i].priority >= MinInt
  BY <1>0 DEF Caches, Entries
<1>3. CASE S = {}
  BY <1>0, <1>3 DEF Oldest
<1>4. CASE S # {}
  <2>1. P \subseteq Nat /\ P # {}
    BY <1>0, <1>1, <1>2, <1>4
  <2>2. PICK m \in P : \A q \in P : m <= q
    BY <2>1, LeastExists
  <2>3. PICK i \in S : m = c[i].priority - MinInt
    BY <2>2
  <2>4. \A j \in S : c[i].priority <= c[j].priority
    <3> SUFFICES ASSUME NEW j \in S PROVE c[i].priority <= c[j].priority
      OBVIOUS
    <3>1. c[i].priority - MinInt <= c[j].priority - MinInt
      BY <2>2, <2>3
    <3>2. i \in 1 .. CacheSize /\ j \in 1 .. CacheSize
      BY <1>1
    <3>3. c[i].priority \in Int /\ c[j].priority \in Int
      BY <3>2, <1>2
    <3>4. QED
      BY <3>1, <3>3, <1>0
  <2>5. L # {} /\ L \subseteq Nat
    BY <2>4, <1>1
  <2>6. \E k \in L : \A j \in L : k <= j
    BY <2>5, LeastExists
  <2>7. (CHOOSE k \in L : \A j \in L : k <= j) \in L
    BY <2>6
  <2>8. Oldest(c, now) = CHOOSE k \in L : \A j \in L : k <= j
    BY <1>4 DEF Oldest
  <2>9. QED
    BY <2>7, <2>8, <1>1
<1>5. QED
  BY <1>3, <1>4

-----------------------------------------------------------------------------
(* One entry of a character that no other entry has.                       *)
LEMMA Replace ==
  ASSUME NEW c \in Caches, NEW i \in 1 .. CacheSize, NEW ch \in Chars, NEW b \in Glyphs,
         NEW now \in Nat, Cached(c, ch) = {}, Once(c),
         NEW d, d = [c EXCEPT ![i] = [ch |-> ch, priority |-> ToInt(now), bitmap |-> b]]
  PROVE  d \in Caches /\ Once(d)
<1>1. [ch |-> ch, priority |-> ToInt(now), bitmap |-> b] \in Entries
  BY ToIntRange DEF Entries, Glyphs
<1>2. /\ d \in Caches
      /\ d[i] = [ch |-> ch, priority |-> ToInt(now), bitmap |-> b]
      /\ \A j \in 1 .. CacheSize : j # i => d[j] = c[j]
  BY <1>1 DEF Caches
<1>3. \A j \in 1 .. CacheSize : c[j].ch # ch
  BY DEF Cached
<1>4. QED
  BY <1>2, <1>3 DEF Once

(* A lookup leaves every character cached at most once, and returns its    *)
(* own glyph if the cache was right before.                                *)
LEMMA GetGlyph ==
  ASSUME CacheInv, NEW ch \in Chars
  PROVE  /\ get_glyph(ch).cache \in Caches /\ Once(get_glyph(ch).cache)
         /\ Shows(cache) => Shows(get_glyph(ch).cache) /\ get_glyph(ch).bitmap = ch
<1> DEFINE hit == Cached(Rolled, ch)
<1>1. /\ Rolled \in Caches /\ Once(Rolled)
      /\ Shows(cache) => Shows(Rolled)
  BY RolledShape DEF CacheInv, Once, Shows
<1>2. Bump \in Nat /\ Bump \in 0 .. CurValues - 1
  BY BumpRange, WidthAssumption DEF CacheInv
<1>3. CacheSize \in Nat
  BY ScreenAssumption
<1>4. CASE hit # {}
  <2> DEFINE i == CHOOSE k \in hit : \A j \in hit : k <= j
  <2>1. hit \subseteq 1 .. CacheSize /\ hit \subseteq Nat
    BY <1>3 DEF Cached
  <2>2. \E k \in hit : \A j \in hit : k <= j
    BY <2>1, <1>4, LeastExists
  <2>3. i \in hit
    BY <2>2
  <2> HIDE DEF i
  <2>4. i \in 1 .. CacheSize /\ Rolled[i].ch = ch
    BY <2>3, <2>1 DEF Cached
  <2>5. Hit(Rolled, i, Bump) \in Caches
        /\ \A j \in 1 .. CacheSize : /\ Hit(Rolled, i, Bump)[j].ch = Rolled[j].ch
                                     /\ Hit(Rolled, i, Bump)[j].bitmap = Rolled[j].bitmap
    BY <2>4, <1>1, <1>2, ToIntRange DEF Hit, Caches, Entries
  <2>6. /\ get_glyph(ch).cache = Hit(Rolled, i, Bump)
        /\ get_glyph(ch).bitmap = Hit(Rolled, i, Bump)[i].bitmap
    BY <1>4 DEF get_glyph, i
  <2>7. QED
    BY <2>4, <2>5, <2>6, <1>1 DEF Once, Shows
<1>5. CASE hit = {}
  <2> DEFINE i == Oldest(Rolled, Bump)
  <2>1. i \in 1 .. CacheSize
    BY <1>1, <1>2, OldestIn
  <2>2. /\ get_glyph(ch).cache = Render(Rolled, i, ch, Bump)
        /\ get_glyph(ch).bitmap = Render(Rolled, i, ch, Bump)[i].bitmap
    BY <1>5 DEF get_glyph
  <2>3. ch \in Glyphs
    BY DEF Glyphs
  <2> HIDE DEF i
  <2> DEFINE d == Render(Rolled, i, ch, Bump)
  <2>4. d = [Rolled EXCEPT ![i] = [ch |-> ch, priority |-> ToInt(Bump), bitmap |-> ch]]
    BY DEF Render
  <2> HIDE DEF d
  <2>5. d \in Caches /\ Once(d) /\ (Shows(Rolled) => Shows(d)) /\ d[i].bitmap = ch
    <3>1. Cached(Rolled, ch) = {} /\ Rolled \in Caches /\ Once(Rolled) /\ Bump \in Nat
      BY <1>1, <1>2, <1>5
    <3>2. d \in Caches /\ Once(d)
      BY <2>1, <2>3, <2>4, <3>1, Replace, Zenon
    <3>3. d[i] = [ch |-> ch, priority |-> ToInt(Bump), bitmap |-> ch]
      BY <2>1, <2>4, <1>1 DEF Caches
    <3>4. \A j \in 1 .. CacheSize : j # i => d[j] = Rolled[j]
      BY <2>1, <2>4, <1>1 DEF Caches
    <3>5. QED
      BY <3>2, <3>3, <3>4 DEF Shows
  <2>6. QED
    BY <2>2, <2>5, <1>1 DEF d
<1>6. QED
  BY <1>4, <1>5

-----------------------------------------------------------------------------
\* r is s with ch, which was at p if it was in s, at the front.
Fronted(ch, s, p, r) ==
    /\ p \in 1 .. Len(s) + 1
    /\ p <= Len(s) => s[p] = ch
    /\ \A q \in 1 .. Len(s) : s[q] = ch => q = p
    /\ r \in Seq(Chars) /\ Len(r) = (IF p > Len(s) THEN p ELSE Len(s))
    /\ \A k \in 1 .. Len(r) :
         r[k] = IF k = 1 THEN ch ELSE IF k <= p THEN s[k - 1] ELSE s[k]

(* Who is drawn now comes to the front; the others keep their order.       *)
LEMMA FrontShape ==
  ASSUME NEW s \in Seq(Chars), Distinct(s), NEW ch \in Chars,
         NEW p, p = PlaceIn(ch, s), NEW r, r = InFront(ch, s)
  PROVE  Fronted(ch, s, p, r)
<1> DEFINE n == IF p > Len(s) THEN p ELSE Len(s)
<1>1. Len(s) \in Nat /\ \A q \in 1 .. Len(s) : s[q] \in Chars
  OBVIOUS
<1>2. p \in 1 .. Len(s) + 1 /\ (p <= Len(s) => s[p] = ch)
  <2>1. CASE \E q \in 1 .. Len(s) : s[q] = ch
    <3>1. p = CHOOSE q \in 1 .. Len(s) : s[q] = ch
      BY <2>1 DEF PlaceIn
    <3>2. p \in 1 .. Len(s) /\ s[p] = ch
      BY <2>1, <3>1
    <3>3. QED
      BY <1>1, <3>2
  <2>2. CASE ~\E q \in 1 .. Len(s) : s[q] = ch
    <3>1. p = Len(s) + 1
      BY <2>2 DEF PlaceIn
    <3>2. QED
      BY <1>1, <3>1
  <2>3. QED
    BY <2>1, <2>2
<1>3. \A q \in 1 .. Len(s) : s[q] = ch => q = p
  <2>1. SUFFICES ASSUME NEW q \in 1 .. Len(s), s[q] = ch PROVE q = p
    OBVIOUS
  <2>2. p = CHOOSE m \in 1 .. Len(s) : s[m] = ch
    BY <2>1 DEF PlaceIn
  <2>3. p \in 1 .. Len(s) /\ s[p] = ch
    BY <2>1, <2>2
  <2>4. QED
    BY <2>1, <2>3 DEF Distinct
<1>4. r = [q \in 1 .. n |-> IF q = 1 THEN ch ELSE IF q <= p THEN s[q - 1] ELSE s[q]]
  BY DEF InFront
<1>5. n \in Nat /\ \A q \in 1 .. n :
        (IF q = 1 THEN ch ELSE IF q <= p THEN s[q - 1] ELSE s[q]) \in Chars
  BY <1>1, <1>2
<1>6. r \in Seq(Chars) /\ Len(r) = n
  BY <1>4, <1>5
<1>7. QED
  BY <1>2, <1>3, <1>4, <1>6 DEF Fronted

(* It stays a sequence of characters.                                      *)
LEMMA FrontTyped ==
  ASSUME NEW s \in Seq(Chars), NEW ch \in Chars
  PROVE  InFront(ch, s) \in Seq(Chars)
<1> DEFINE p == PlaceIn(ch, s)
           n == IF p > Len(s) THEN p ELSE Len(s)
<1>1. p \in 1 .. Len(s) + 1
  <2>1. CASE \E q \in 1 .. Len(s) : s[q] = ch
    <3>1. p = CHOOSE q \in 1 .. Len(s) : s[q] = ch
      BY <2>1 DEF PlaceIn
    <3>2. p \in 1 .. Len(s)
      BY <2>1, <3>1
    <3>3. QED
      BY <3>2
  <2>2. CASE ~\E q \in 1 .. Len(s) : s[q] = ch
    BY <2>2 DEF PlaceIn
  <2>3. QED
    BY <2>1, <2>2
<1>2. InFront(ch, s) = [q \in 1 .. n |-> IF q = 1 THEN ch ELSE IF q <= p THEN s[q - 1] ELSE s[q]]
  BY DEF InFront
<1> HIDE DEF p
<1>3. n \in Nat /\ \A q \in 1 .. n :
        (IF q = 1 THEN ch ELSE IF q <= p THEN s[q - 1] ELSE s[q]) \in Chars
  BY <1>1
<1>4. QED
  BY <1>2, <1>3

(* A cache that has room for more than was drawn has a blank entry.        *)
LEMMA BlankEntry ==
  ASSUME NEW c \in Caches, Once(c), NEW s \in Seq(Chars), Len(s) < CacheSize,
         \A i \in 1 .. CacheSize : c[i].ch # Blank => \E k \in 1 .. Len(s) : c[i].ch = s[k]
  PROVE  \E i \in 1 .. CacheSize : c[i].ch = Blank
<1>1. SUFFICES ASSUME \A i \in 1 .. CacheSize : c[i].ch # Blank PROVE FALSE
  OBVIOUS
<1> DEFINE S == 1 .. CacheSize
           T == 1 .. Len(s)
           f == [i \in S |-> CHOOSE k \in T : c[i].ch = s[k]]
<1>2. CacheSize \in Nat /\ Len(s) \in Nat
  BY ScreenAssumption
<1>3. \A i \in S : f[i] \in T /\ c[i].ch = s[f[i]]
  <2> SUFFICES ASSUME NEW i \in S PROVE f[i] \in T /\ c[i].ch = s[f[i]]
    OBVIOUS
  <2>1. \E k \in T : c[i].ch = s[k]
    BY <1>1
  <2>2. f[i] = CHOOSE k \in T : c[i].ch = s[k]
    OBVIOUS
  <2>3. QED
    BY <2>1, <2>2
<1>4. f = [i \in S |-> f[i]]
  OBVIOUS
<1>5. IsFiniteSet(S) /\ Cardinality(S) = CacheSize /\ IsFiniteSet(T) /\ Cardinality(T) = Len(s)
  <2>1. \A m \in Nat : IsFiniteSet(1 .. m) /\ Cardinality(1 .. m) = m
    <3> SUFFICES ASSUME NEW m \in Nat PROVE IsFiniteSet(1 .. m) /\ Cardinality(1 .. m) = m
      OBVIOUS
    <3>1. IsFiniteSet(1 .. m) /\ Cardinality(1 .. m) = IF 1 > m THEN 0 ELSE m - 1 + 1
      BY FS_Interval
    <3>2. QED
      BY <3>1
  <2>2. QED
    BY <1>2, <2>1
<1> HIDE DEF f
<1>6. \A i, j \in S : f[i] = f[j] => i = j
  BY <1>1, <1>3 DEF Once
<1> HIDE DEF S, T
<1>7. f \in Injection(S, T)
  BY <1>3, <1>4, <1>6, Zenon DEF Injection, IsInjective
<1>8. Cardinality(S) <= Cardinality(T)
  BY <1>5, <1>7, FS_Injection
<1>9. QED
  BY <1>2, <1>5, <1>8

(* A lookup that counts up keeps the order, and evicts the character that  *)
(* was drawn longest ago.                                                  *)
LEMMA RecencyKept ==
  ASSUME NEW c \in Caches, Once(c), NEW n \in Nat, n + 1 <= MaxInt, NEW s \in Seq(Chars),
         Recency(c, n, s), NEW ch \in Chars, NEW i \in 1 .. CacheSize, NEW d \in Caches,
         d[i].ch = ch, d[i].priority = n + 1, \A j \in 1 .. CacheSize : j # i => d[j] = c[j],
         \/ c[i].ch = ch
         \/ /\ \A j \in 1 .. CacheSize : c[j].ch # ch
            /\ \A j \in 1 .. CacheSize : c[i].priority <= c[j].priority
  PROVE  Recency(d, n + 1, InFront(ch, s))
<1> DEFINE r == InFront(ch, s)
           p == PlaceIn(ch, s)
<1>0. /\ Len(s) \in Nat /\ CacheSize \in Nat \ {0} /\ MaxInt \in Int
      /\ \A q \in 1 .. Len(s) : s[q] \in Chars
      /\ \A j \in 1 .. CacheSize : c[j].priority \in Int /\ d[j].priority \in Int
  <2>1. CacheSize \in Nat \ {0} /\ MinInt \in Int /\ MaxInt \in Int
    BY ScreenAssumption, WidthAssumption DEF MinInt, MaxInt
  <2>2. \A j \in 1 .. CacheSize : c[j].priority \in Int /\ d[j].priority \in Int
    BY <2>1 DEF Caches, Entries
  <2>3. QED
    BY <2>1, <2>2
<1>r. r = InFront(ch, s) /\ p = PlaceIn(ch, s)
  OBVIOUS
<1> HIDE DEF r, p
<1>1. Fronted(ch, s, p, r)
  <2>1. Distinct(s)
    BY DEF Recency
  <2>2. QED
    BY <1>r, <2>1, FrontShape, Zenon
<1>2. Blank \notin Chars /\ ch # Blank
  BY NamesAssumption
\* Where a character of r was before.
<1>3. /\ \A k \in 2 .. Len(r) : k <= p => k - 1 \in 1 .. Len(s) /\ r[k] = s[k - 1] /\ s[k - 1] # ch
      /\ \A k \in 2 .. Len(r) : k > p => k \in 1 .. Len(s) /\ r[k] = s[k] /\ s[k] # ch
      /\ Len(r) \in Nat /\ 1 \in 1 .. Len(r) /\ r[1] = ch
  <2>1. Len(r) \in Nat /\ Len(r) >= 1 /\ Len(r) >= p /\ Len(r) >= Len(s)
    BY <1>0, <1>1 DEF Fronted
  <2>2. ASSUME NEW k \in 2 .. Len(r), k <= p
        PROVE  k - 1 \in 1 .. Len(s) /\ r[k] = s[k - 1] /\ s[k - 1] # ch
    BY <1>0, <1>1, <2>1, <2>2 DEF Fronted
  <2>3. ASSUME NEW k \in 2 .. Len(r), k > p PROVE k \in 1 .. Len(s) /\ r[k] = s[k] /\ s[k] # ch
    <3>1. k \in 1 .. Len(s)
      BY <1>0, <1>1, <2>1, <2>3 DEF Fronted
    <3>2. r[k] = s[k] /\ k # p
      BY <1>1, <2>1, <2>3 DEF Fronted
    <3>3. QED
      BY <1>1, <3>1, <3>2 DEF Fronted
  <2>4. QED
    BY <1>1, <2>1, <2>2, <2>3 DEF Fronted
<1>4. \A k \in 2 .. Len(r) : \E q \in 1 .. Len(s) :
        /\ r[k] = s[q] /\ s[q] # ch
        /\ q = IF k <= p THEN k - 1 ELSE k
  BY <1>0, <1>1, <1>3 DEF Fronted
<1>5. Distinct(r)
  <2>1. ASSUME NEW k \in 1 .. Len(r), NEW l \in 1 .. Len(r), k < l, r[k] = r[l] PROVE FALSE
    <3>1. l \in 2 .. Len(r)
      BY <1>3, <2>1
    <3>2. PICK b \in 1 .. Len(s) : r[l] = s[b] /\ s[b] # ch /\ b = IF l <= p THEN l - 1 ELSE l
      BY <1>4, <3>1
    <3>3. k \in 2 .. Len(r)
      BY <1>3, <2>1, <3>2
    <3>4. PICK a \in 1 .. Len(s) : r[k] = s[a] /\ s[a] # ch /\ a = IF k <= p THEN k - 1 ELSE k
      BY <1>4, <3>3
    <3>5. a = b
      BY <2>1, <3>2, <3>4 DEF Recency, Distinct
    <3>6. a # b
      BY <1>0, <1>1, <2>1, <3>1, <3>2, <3>3, <3>4 DEF Fronted
    <3>7. QED
      BY <3>5, <3>6
  <2>2. \A k, l \in 1 .. Len(r) : r[k] = r[l] => k = l
    <3> SUFFICES ASSUME NEW k \in 1 .. Len(r), NEW l \in 1 .. Len(r), r[k] = r[l] PROVE k = l
      OBVIOUS
    <3>1. k < l \/ l < k \/ k = l
      BY <1>3
    <3>2. QED
      BY <2>1, <3>1
  <2>3. QED
    BY <2>2 DEF Distinct
\* Every character of s is in r.
<1>6. \A q \in 1 .. Len(s) : \E k \in 1 .. Len(r) : r[k] = s[q]
  <2> SUFFICES ASSUME NEW q \in 1 .. Len(s) PROVE \E k \in 1 .. Len(r) : r[k] = s[q]
    OBVIOUS
  <2>1. CASE q < p
    <3>1. q + 1 \in 2 .. Len(r) /\ q + 1 <= p
      BY <1>0, <1>1, <2>1 DEF Fronted
    <3>2. r[q + 1] = s[q]
      BY <1>3, <3>1
    <3>3. QED
      BY <3>1, <3>2
  <2>2. CASE q = p
    BY <1>1, <1>3, <2>2 DEF Fronted
  <2>3. CASE q > p
    <3>1. q \in 2 .. Len(r) /\ q \in 1 .. Len(r)
      BY <1>0, <1>1, <2>3 DEF Fronted
    <3>2. r[q] = s[q]
      BY <1>3, <2>3, <3>1, Zenon
    <3>3. QED
      BY <3>1, <3>2, Zenon
  <2>4. p \in Int /\ q \in Int
    BY <1>0, <1>1 DEF Fronted
  <2>5. QED
    BY <2>1, <2>2, <2>3, <2>4
<1>7. \A j \in 1 .. CacheSize :
         /\ d[j].priority \in 0 .. n + 1
         /\ d[j].ch = Blank => d[j].priority = 0
         /\ d[j].ch # Blank => d[j].priority > 0 /\ \E k \in 1 .. Len(r) : d[j].ch = r[k]
  <2> SUFFICES ASSUME NEW j \in 1 .. CacheSize
               PROVE  /\ d[j].priority \in 0 .. n + 1
                      /\ d[j].ch = Blank => d[j].priority = 0
                      /\ d[j].ch # Blank => d[j].priority > 0 /\ \E k \in 1 .. Len(r) : d[j].ch = r[k]
    OBVIOUS
  <2>1. CASE j = i
    BY <1>2, <1>3, <2>1
  <2>2. CASE j # i
    <3>1. d[j] = c[j]
      BY <2>2
    <3>2. /\ c[j].priority \in 0 .. n
          /\ c[j].ch = Blank => c[j].priority = 0
          /\ c[j].ch # Blank => c[j].priority > 0 /\ \E q \in 1 .. Len(s) : c[j].ch = s[q]
      BY DEF Recency
    <3>3. c[j].ch # Blank => \E k \in 1 .. Len(r) : c[j].ch = r[k]
      BY <1>6, <3>2
    <3>4. QED
      BY <3>1, <3>2, <3>3
  <2>3. QED
    BY <2>1, <2>2
\* Nobody but i has ch.
<1>8. \A j \in 1 .. CacheSize : d[j].ch = ch => j = i
  <2> SUFFICES ASSUME NEW j \in 1 .. CacheSize, d[j].ch = ch, j # i PROVE FALSE
    OBVIOUS
  <2>1. c[j].ch = ch
    OBVIOUS
  <2>2. QED
    BY <1>2, <2>1 DEF Once
<1>9. ASSUME NEW a \in 1 .. CacheSize, NEW b \in 1 .. CacheSize,
             NEW k \in 1 .. Len(r), NEW l \in 1 .. Len(r), d[a].ch = r[k], d[b].ch = r[l], k < l
      PROVE  d[a].priority > d[b].priority
  <2>1. l \in 2 .. Len(r)
    BY <1>3, <1>9
  <2>2. PICK v \in 1 .. Len(s) : r[l] = s[v] /\ s[v] # ch /\ v = IF l <= p THEN l - 1 ELSE l
    BY <1>4, <2>1
  <2>3. b # i /\ d[b] = c[b]
    BY <1>9, <2>2
  <2>4. CASE k = 1
    <3>1. a = i
      BY <1>3, <1>8, <1>9, <2>4
    <3>2. c[b].priority \in 0 .. n
      BY DEF Recency
    <3>3. QED
      BY <2>3, <3>1, <3>2
  <2>5. CASE k # 1
    <3>1. k \in 2 .. Len(r)
      BY <1>3, <2>5
    <3>2. PICK u \in 1 .. Len(s) : r[k] = s[u] /\ s[u] # ch /\ u = IF k <= p THEN k - 1 ELSE k
      BY <1>4, <3>1
    <3>3. a # i /\ d[a] = c[a]
      BY <1>9, <3>2
    <3>4. p \in Int /\ k \in Int /\ l \in Int /\ u \in Int /\ v \in Int
      BY <1>0, <1>1 DEF Fronted
    <3>5. (k <= p => u = k - 1) /\ (~(k <= p) => u = k) /\ (l <= p => v = l - 1) /\ (~(l <= p) => v = l)
      BY <2>2, <3>2
    <3>6. u < v
      BY <1>9, <3>4, <3>5
    <3>7. c[a].ch = s[u] /\ c[b].ch = s[v]
      BY <1>9, <2>2, <2>3, <3>2, <3>3
    <3>8. c[a].priority > c[b].priority
      BY <3>6, <3>7, Zenon DEF Recency
    <3>9. QED
      BY <2>3, <3>3, <3>8
  <2>6. QED
    BY <2>4, <2>5
<1>10. ASSUME NEW k \in 1 .. CacheSize, k <= Len(r)
       PROVE  \E j \in 1 .. CacheSize : d[j].ch = r[k]
  <2>1. CASE k = 1
    BY <1>3, <2>1
  <2>2. CASE k # 1
    <3>1. k \in 2 .. Len(r)
      BY <1>0, <1>3, <1>10, <2>2
    <3>2. PICK q \in 1 .. Len(s) : r[k] = s[q] /\ s[q] # ch /\ q = IF k <= p THEN k - 1 ELSE k
      BY <1>4, <3>1
    <3>3. q \in 1 .. CacheSize
      BY <1>0, <1>1, <3>1, <3>2 DEF Fronted
    <3>4. PICK j \in 1 .. CacheSize : c[j].ch = s[q]
      BY <3>3, <3>2 DEF Recency
    <3>5. CASE j # i
      BY <3>2, <3>4, <3>5
    <3>6. CASE j = i
      <4>1. /\ \A m \in 1 .. CacheSize : c[m].ch # ch
            /\ \A m \in 1 .. CacheSize : c[i].priority <= c[m].priority
        BY <3>2, <3>4, <3>6
      <4>2. CASE Len(s) >= CacheSize
        <5>1. CacheSize \in 1 .. Len(s) /\ CacheSize \in 1 .. CacheSize /\ CacheSize <= Len(s)
          BY <1>0, <4>2
        <5>2. PICK m \in 1 .. CacheSize : c[m].ch = s[CacheSize]
          BY <5>1, Zenon DEF Recency
        <5>3. p > CacheSize
          <6>1. \A a \in 1 .. CacheSize : s[a] # ch
            <7> SUFFICES ASSUME NEW a \in 1 .. CacheSize, s[a] = ch PROVE FALSE
              OBVIOUS
            <7>1. a <= Len(s)
              BY <1>0, <4>2
            <7>2. PICK z \in 1 .. CacheSize : c[z].ch = s[a]
              BY <7>1 DEF Recency
            <7>3. QED
              BY <4>1, <7>2
          <6>2. QED
            BY <1>0, <1>1, <4>2, <6>1 DEF Fronted
        <5>4. q < CacheSize
          BY <1>0, <1>1, <3>1, <3>2, <5>3 DEF Fronted
        <5>5. c[i].priority > c[m].priority
          BY <3>4, <3>6, <5>1, <5>2, <5>4 DEF Recency
        <5>6. QED
          BY <1>0, <4>1, <5>5
      <4>3. CASE Len(s) < CacheSize
        <5>1. \A a \in 1 .. CacheSize : c[a].ch # Blank => \E z \in 1 .. Len(s) : c[a].ch = s[z]
          BY DEF Recency
        <5>2. PICK m \in 1 .. CacheSize : c[m].ch = Blank
          BY <4>3, <5>1, BlankEntry
        <5>3. c[m].priority = 0
          BY <5>2 DEF Recency
        <5>4. s[q] # Blank
          BY <1>0, <1>2
        <5>5. c[i].priority > 0
          BY <3>4, <3>6, <5>4 DEF Recency
        <5>6. QED
          BY <1>0, <4>1, <5>3, <5>5
      <4>4. QED
        BY <1>0, <4>2, <4>3
    <3>7. QED
      BY <3>5, <3>6
  <2>3. QED
    BY <2>1, <2>2
<1>11. QED
  BY <1>5, <1>7, <1>9, <1>10 DEF Recency, r

(* As long as cur_priority fits in an int, it is not rolled over, ...      *)
LEMMA ShortCount ==
  ASSUME cur \in 0 .. CurValues - 1, cache \in Caches, Bump <= MaxInt, cur <= MaxInt
  PROVE  Bump = cur + 1 /\ Rolled = cache /\ ToInt(Bump) = Bump /\ cur \in Nat
<1>1. IntHalf \in Nat \ {0} /\ CurValues \in Nat /\ 2 * IntHalf <= CurValues /\ MaxInt = IntHalf - 1
  BY WidthAssumption DEF MaxInt
<1>2. cur \in Nat /\ cur + 1 < CurValues
  BY <1>1
<1>3. (cur + 1) % CurValues = cur + 1
  BY <1>1, <1>2
<1>4. Bump = cur + 1 /\ Rolled = cache
  BY <1>2, <1>3 DEF Bump, Rolled
<1>5. (cur + 1) % (2 * IntHalf) = cur + 1
  BY <1>1, <1>2, <1>4
<1>6. ToInt(cur + 1) = cur + 1
  BY <1>1, <1>2, <1>4, <1>5 DEF ToInt
<1>7. QED
  BY <1>2, <1>4, <1>6

(* ... and get_glyph keeps the characters drawn last.                      *)
LEMMA GetGlyphRecency ==
  ASSUME CacheInv, recent \in Seq(Chars), Recency(cache, cur, recent), Bump <= MaxInt,
         NEW ch \in Chars
  PROVE  Recency(get_glyph(ch).cache, Bump, InFront(ch, recent))
<1> DEFINE hit == Cached(cache, ch)
           n == cur
           s == recent
           d == get_glyph(ch).cache
<1>1. cache \in Caches /\ Once(cache) /\ cur \in 0 .. CurValues - 1 /\ cur <= MaxInt
  BY DEF CacheInv, Recency
<1>2. Bump = cur + 1 /\ Rolled = cache /\ ToInt(Bump) = Bump /\ cur \in Nat
  BY <1>1, ShortCount
<1>3. d \in Caches
  BY GetGlyph
<1>4. \E i \in 1 .. CacheSize :
        /\ d[i].ch = ch /\ d[i].priority = cur + 1
        /\ \A j \in 1 .. CacheSize : j # i => d[j] = cache[j]
        /\ \/ cache[i].ch = ch
           \/ /\ \A j \in 1 .. CacheSize : cache[j].ch # ch
              /\ \A j \in 1 .. CacheSize : cache[i].priority <= cache[j].priority
  <2>1. CASE hit # {}
    <3> DEFINE i == CHOOSE k \in hit : \A j \in hit : k <= j
    <3>1. hit \subseteq 1 .. CacheSize /\ hit \subseteq Nat
      BY ScreenAssumption DEF Cached
    <3>2. \E k \in hit : \A j \in hit : k <= j
      BY <2>1, <3>1, LeastExists
    <3>3. i \in hit
      BY <3>2
    <3>4. d = Hit(cache, i, Bump)
      BY <1>2, <2>1 DEF get_glyph
    <3> HIDE DEF i, d
    <3>5. i \in 1 .. CacheSize /\ cache[i].ch = ch
      BY <3>3 DEF Cached
    <3>6. d = [cache EXCEPT ![i].priority = cur + 1]
      BY <1>2, <3>4 DEF Hit
    <3>7. cache[i] \in Entries
      BY <1>1, <3>5 DEF Caches
    <3>8. d[i].ch = ch /\ d[i].priority = cur + 1
      BY <1>1, <3>5, <3>6, <3>7 DEF Caches, Entries
    <3>9. \A j \in 1 .. CacheSize : j # i => d[j] = cache[j]
      BY <1>1, <3>5, <3>6 DEF Caches
    <3>10. QED
      BY <3>5, <3>8, <3>9
  <2>2. CASE hit = {}
    <3> DEFINE i == Oldest(cache, Bump)
    <3>1. d = Render(cache, i, ch, Bump)
      BY <1>2, <2>2 DEF get_glyph
    <3>2. Bump \in Nat
      BY <1>2
    <3>3. /\ i \in 1 .. CacheSize
          /\ \A j \in Candidates(cache, Bump) : cache[i].priority <= cache[j].priority
      BY <1>1, <3>2, OldestIn
    <3>4. \A j \in 1 .. CacheSize : j \in Candidates(cache, Bump)
      <4>1. \A j \in 1 .. CacheSize : cache[j].priority \in 0 .. cur
        BY DEF Recency
      <4>2. \A j \in 1 .. CacheSize : cache[j].priority < ToInt(Bump)
        BY <1>2, <4>1
      <4>3. QED
        BY <4>2 DEF Candidates
    <3> HIDE DEF i, d
    <3>5. d = [cache EXCEPT ![i] = [ch |-> ch, priority |-> cur + 1, bitmap |-> ch]]
      BY <1>2, <3>1 DEF Render
    <3>6. d[i].ch = ch /\ d[i].priority = cur + 1
      BY <1>1, <3>3, <3>5 DEF Caches
    <3>7. \A j \in 1 .. CacheSize : j # i => d[j] = cache[j]
      BY <1>1, <3>3, <3>5 DEF Caches
    <3>8. \A j \in 1 .. CacheSize : cache[j].ch # ch
      BY <2>2 DEF Cached
    <3>9. \A j \in 1 .. CacheSize : cache[i].priority <= cache[j].priority
      BY <3>3, <3>4
    <3>10. QED
      BY <3>3, <3>6, <3>7, <3>8, <3>9
  <2>3. QED
    BY <2>1, <2>2
<1> HIDE DEF d
<1>5. PICK i \in 1 .. CacheSize :
        /\ d[i].ch = ch /\ d[i].priority = cur + 1
        /\ \A j \in 1 .. CacheSize : j # i => d[j] = cache[j]
        /\ \/ cache[i].ch = ch
           \/ /\ \A j \in 1 .. CacheSize : cache[j].ch # ch
              /\ \A j \in 1 .. CacheSize : cache[i].priority <= cache[j].priority
  BY <1>4
<1>6. cur \in Nat /\ cur + 1 <= MaxInt
  BY <1>2
<1>7. Recency(d, cur + 1, InFront(ch, recent))
  BY <1>1, <1>3, <1>5, <1>6, RecencyKept
<1>8. QED
  BY <1>2, <1>7 DEF d

-----------------------------------------------------------------------------
(* The cursor never leaves the screen at the right, and if it leaves it at *)
(* the bottom that is recorded.                                            *)
LEMMA CursorMoves ==
  ASSUME HolderInv, CursorInv, NEW p \in Procs, pc[p] = "print",
         NEW col \in Nat, NEW row \in Nat, MoveCursor(p, col, row), mutex' = mutex,
         shown' = shown \/ shown'.on = (x < Cols /\ y < Rows)
  PROVE  HolderInv' /\ CursorInv'
<1>1. pc' = [pc EXCEPT ![p] = pc'[p]] /\ pc'[p] \in Inside
  BY DEF MoveCursor, HolderInv, Inside
<1>2. HolderInv'
  BY <1>1 DEF HolderInv, Inside, PCs
<1>3. Cols \in Nat \ {0} /\ Rows \in Nat
  BY ScreenAssumption
<1>4. check_charpos(col, row).x \in 0 .. Cols - 1 /\ check_charpos(col, row).y \in Nat
  BY <1>3 DEF check_charpos
<1>5. x' = check_charpos(col, row).x /\ y' = check_charpos(col, row).y
  BY DEF MoveCursor
<1>6. below' = (below \/ check_charpos(col, row).y >= Rows)
  BY Zenon DEF MoveCursor
<1>7. below' \in BOOLEAN /\ (~below' => ~below /\ ~(check_charpos(col, row).y >= Rows))
  BY <1>6, Zenon DEF CursorInv
<1>8. ~below => shown'.on
  <2>1. CASE shown' = shown
    BY <2>1 DEF CursorInv
  <2>2. CASE shown'.on = (x < Cols /\ y < Rows)
    <3>1. ~below => (x < Cols /\ y < Rows)
      BY <1>3 DEF CursorInv
    <3>2. QED
      BY <2>2, <3>1, Zenon
  <2>3. QED
    BY <2>1, <2>2
<1>9. ~below' => y' < Rows
  BY <1>3, <1>4, <1>5, <1>7
<1>10. CursorInv'
  BY <1>4, <1>5, <1>7, <1>8, <1>9 DEF CursorInv
<1>11. QED
  BY <1>2, <1>10

(* A stuck processor keeps the mutex, so nobody prints any more.           *)
LEMMA NobodyStuck ==
  ASSUME HolderInv, NEW p \in Procs, pc[p] = "print"
  PROVE  ~Stuck
  BY DEF HolderInv, Inside, Stuck

(* Every kind of character keeps the invariant.                            *)
LEMMA PrintSteps ==
  ASSUME ConsoleInv, NEW p \in Procs
  PROVE  /\ \A ch \in Spaces : PrintSpace(p, ch) => ConsoleInv'
         /\ \A ch \in Chars : PrintGlyph(p, ch) => ConsoleInv'
         /\ \A ch \in Chars : pc[p] = "print" /\ RenderFails(p, ch) => ConsoleInv'
<1> USE DEF ConsoleInv
<1>1. ASSUME NEW ch \in Spaces, PrintSpace(p, ch) PROVE ConsoleInv'
  <2>1. PICK col \in Nat, row \in Nat : MoveCursor(p, col, row)
    <3>1. x \in Nat /\ y \in Nat
      BY DEF CursorInv
    <3>2. /\ 0 \in Nat /\ y + 1 \in Nat /\ x + 1 \in Nat
          /\ y + ff_size \in Nat /\ x + tab_size \in Nat
      BY <3>1 DEF tab_size, ff_size
    <3>3. \/ MoveCursor(p, 0, y + 1) \/ MoveCursor(p, 0, y) \/ MoveCursor(p, x, y + ff_size)
          \/ MoveCursor(p, x + tab_size, y) \/ MoveCursor(p, x, y + 1) \/ MoveCursor(p, x + 1, y)
      BY <1>1 DEF PrintSpace, Spaces
    <3>4. QED
      BY <3>1, <3>2, <3>3, Zenon
  <2>2. HolderInv' /\ CursorInv'
    BY <1>1, <2>1, CursorMoves DEF PrintSpace
  <2>3. ~Stuck
    BY <1>1, NobodyStuck DEF PrintSpace
  <2>4. CacheInv'
    BY <1>1, <2>3 DEF PrintSpace, CacheInv, Once, Shows
  <2>5. RecentInv'
    BY <1>1, <2>3 DEF PrintSpace, RecentInv, Recency, Distinct
  <2>6. QED
    BY <2>2, <2>4, <2>5
<1>2. ASSUME NEW ch \in Chars, PrintGlyph(p, ch) PROVE ConsoleInv'
  <2>1. ~Stuck
    BY <1>2, NobodyStuck DEF PrintGlyph
  <2>2. x + 1 \in Nat /\ MoveCursor(p, x + 1, y) /\ y \in Nat
    BY <1>2 DEF PrintGlyph, CursorInv
  <2>3. shown'.on = (x < Cols /\ y < Rows)
    BY <1>2 DEF PrintGlyph
  <2>4. HolderInv' /\ CursorInv'
    BY <1>2, <2>2, <2>3, CursorMoves DEF PrintGlyph
  <2>5. cache' \in Caches /\ Once(cache') /\ Shows(cache') /\ shown'.bitmap = shown'.ch
    BY <1>2, <2>1, GetGlyph DEF PrintGlyph, CacheInv
  <2>6. cur' \in 0 .. CurValues - 1
    BY <1>2, BumpRange DEF PrintGlyph, CountUse, CacheInv
  <2>7. RecentInv'
    <3>1. recent' \in Seq(Chars)
      BY <1>2, FrontTyped DEF PrintGlyph, RecentInv
    <3>2. long' \in BOOLEAN /\ (~long' => ~long /\ ~(Bump > MaxInt))
      BY <1>2, Zenon DEF PrintGlyph, CountUse, RecentInv
    <3>3. ASSUME ~long' PROVE Recency(cache', cur', recent')
      <4>1. Bump <= MaxInt
        BY <3>2, <3>3, BumpRange, WidthAssumption DEF CacheInv, MaxInt
      <4>2. Recency(cache, cur, recent) /\ recent \in Seq(Chars)
        BY <2>1, <3>2, <3>3, Zenon DEF RecentInv
      <4>3. Recency(get_glyph(ch).cache, Bump, InFront(ch, recent))
        BY <4>1, <4>2, GetGlyphRecency
      <4>4. cache' = get_glyph(ch).cache /\ cur' = Bump /\ recent' = InFront(ch, recent)
        BY <1>2 DEF PrintGlyph, CountUse
      <4>5. QED
        BY <4>3, <4>4
    <3>4. QED
      BY <3>1, <3>2, <3>3, Zenon DEF RecentInv, Recency, Distinct
  <2>8. CacheInv'
    BY <2>5, <2>6 DEF CacheInv, Once, Shows
  <2>9. QED
    BY <2>4, <2>7, <2>8
<1>3. ASSUME NEW ch \in Chars, pc[p] = "print", RenderFails(p, ch) PROVE ConsoleInv'
  <2>1. pc'[p] = "stuck" /\ HolderInv'
    BY <1>3 DEF RenderFails, HolderInv, Inside, PCs
  <2>2. Rolled \in Caches /\ Once(Rolled) /\ Cached(Rolled, ch) = {}
    BY <1>3, RolledShape DEF CacheInv, Once, RenderFails
  <2>3. Bump \in 0 .. CurValues - 1 /\ Bump \in Nat /\ cur' = Bump
    BY <1>3, BumpRange, WidthAssumption DEF CacheInv, RenderFails, CountUse
  <2>4. Oldest(Rolled, Bump) \in 1 .. CacheSize
    BY <2>2, <2>3, OldestIn
  <2>5. Blank \in Glyphs
    BY DEF Glyphs
  <2>6. cache' \in Caches /\ Once(cache')
    <3>1. cache' = [Rolled EXCEPT ![Oldest(Rolled, Bump)] =
                      [ch |-> ch, priority |-> ToInt(Bump), bitmap |-> Blank]]
      BY <1>3 DEF RenderFails
    <3>2. QED
      BY <2>2, <2>3, <2>4, <2>5, <3>1, Replace, Zenon
  <2>7. CacheInv'
    BY <1>3, <2>1, <2>3, <2>6 DEF CacheInv, RenderFails, Stuck, Once
  <2>8. CursorInv'
    BY <1>3 DEF CursorInv, RenderFails
  <2>9. RecentInv'
    <3>1. recent' = recent /\ long' \in BOOLEAN
      BY <1>3, Zenon DEF RenderFails, CountUse, RecentInv
    <3>2. Stuck'
      BY <2>1 DEF Stuck
    <3>3. QED
      BY <3>1, <3>2 DEF RecentInv
  <2>10. QED
    BY <2>1, <2>7, <2>8, <2>9
<1>4. QED
  BY <1>1, <1>2, <1>3

(* The mutex changes hands without anything being drawn.                   *)
LEMMA MutexSteps ==
  ASSUME ConsoleInv, NEW p \in Procs,
         Lock(p) \/ Unlock(p) \/ \E n \in 0 .. MaxLen : Call(p, n)
  PROVE  ConsoleInv'
<1>1. HolderInv'
  BY NamesAssumption DEF ConsoleInv, HolderInv, Inside, PCs, Lock, Unlock, Call
<1>2. UNCHANGED <<x, y, cache, cur, shown, below, recent, long>> /\ Stuck' = Stuck
  BY DEF Lock, Unlock, Call, Stuck, ConsoleInv, HolderInv
<1>3. CacheInv' /\ CursorInv'
  BY <1>2 DEF ConsoleInv, CacheInv, CursorInv, Once, Shows
<1>4. RecentInv'
  BY <1>2 DEF ConsoleInv, RecentInv, Recency, Distinct
<1>5. QED
  BY <1>1, <1>3, <1>4 DEF ConsoleInv

(* The cursor starts at the top left and the cache is empty.               *)
LEMMA ConsoleInit == Init => ConsoleInv
<1> SUFFICES ASSUME Init PROVE ConsoleInv
  OBVIOUS
<1> USE DEF Init
<1>1. HolderInv
  BY NamesAssumption DEF HolderInv, Inside, PCs
<1>2. 0 \in MinInt .. MaxInt /\ Blank \in Glyphs /\ 0 \in 0 .. CurValues - 1
  BY WidthAssumption DEF MinInt, MaxInt, Glyphs
<1>3. cache \in Caches
  BY <1>2 DEF Caches, Entries
<1>4. CacheInv
  BY <1>2, <1>3 DEF CacheInv, Once, Shows
<1>5. CursorInv
  <2>1. 0 \in 0 .. Cols - 1 /\ 0 < Rows
    BY ScreenAssumption
  <2>2. below = FALSE /\ x = 0 /\ y = 0
    OBVIOUS
  <2>3. shown.on
    OBVIOUS
  <2>4. x \in 0 .. Cols - 1 /\ y \in Nat /\ y < Rows
    BY <2>1, <2>2
  <2>5. QED
    BY <2>2, <2>3, <2>4, Zenon DEF CursorInv
<1>6. RecentInv
  <2>1. recent = << >> /\ long = FALSE /\ Len(recent) = 0 /\ recent \in Seq(Chars)
    OBVIOUS
  <2>2. 0 <= MaxInt /\ CacheSize \in Nat
    BY WidthAssumption, ScreenAssumption DEF MaxInt
  <2>3. Recency(cache, 0, recent)
    BY <2>1, <2>2 DEF Recency, Distinct
  <2>4. QED
    BY <2>1, <2>3 DEF RecentInv
<1>7. QED
  BY <1>1, <1>4, <1>5, <1>6 DEF ConsoleInv

(* The invariant holds, for any cache, screen and width of the counter.    *)
THEOREM ConsoleInvariant == Spec => []ConsoleInv
<1>1. ConsoleInv /\ [Next]_vars => ConsoleInv'
  <2> SUFFICES ASSUME ConsoleInv, [Next]_vars PROVE ConsoleInv'
    OBVIOUS
  <2>1. CASE Next
    BY <2>1, PrintSteps, MutexSteps DEF Next, Work
  <2>2. CASE UNCHANGED vars
    BY <2>2 DEF vars, ConsoleInv, HolderInv, CacheInv, CursorInv, RecentInv, Once, Shows, Stuck, Recency, Distinct
  <2>3. QED
    BY <2>1, <2>2
<1>2. QED
  BY <1>1, ConsoleInit, PTL DEF Spec

(* graphics.c:142-203: a character is drawn with its own glyph, and is     *)
(* cached once, whatever the counter, the comparison of the priorities and *)
(* FreeType do.                                                            *)
THEOREM ConsoleShowsItself == Spec => []ShowsItself
<1>1. ConsoleInv => ShowsItself
  BY DEF ConsoleInv, CacheInv, ShowsItself, CachedOnce, Once
<1>2. QED
  BY <1>1, ConsoleInvariant, PTL

(* graphics.c:205-214: nothing is drawn off the screen, as long as nothing *)
(* but the right edge moves the cursor to another line.                    *)
THEOREM ConsoleDrawsOnScreen == Spec => []DrawsOnScreen
<1>1. ConsoleInv => DrawsOnScreen
  BY DEF ConsoleInv, CursorInv, DrawsOnScreen
<1>2. QED
  BY <1>1, ConsoleInvariant, PTL

(* graphics.c:142-176: of two characters in the cache the one drawn later  *)
(* is evicted later, so that the cache holds those drawn last, until       *)
(* cur_priority no longer fits in the int it is compared as.               *)
THEOREM ConsoleKeepsRecent == Spec => []KeepsRecent
<1>1. ConsoleInv => KeepsRecent
  <2> SUFFICES ASSUME ConsoleInv, ~long, ~Stuck, NEW k \in 1 .. CacheSize, k <= Len(recent)
               PROVE  Cached(cache, recent[k]) # {}
    BY Zenon DEF KeepsRecent
  <2>1. Recency(cache, cur, recent)
    BY Zenon DEF ConsoleInv, RecentInv
  <2>2. \E i \in 1 .. CacheSize : cache[i].ch = recent[k]
    BY <2>1, Zenon DEF Recency
  <2>3. QED
    BY <2>2 DEF Cached
<1>2. QED
  BY <1>1, ConsoleInvariant, PTL

-----------------------------------------------------------------------------
(***************************************************************************)
(* The interrupt vectors and the timer of the local APIC.                  *)
(***************************************************************************)
(* Where the processor is, and the register that the APIC counts for.      *)
CalSteps == {"lvt", "count", "wait", "free"}
SetSteps == {"set_lvt", "set_div", "set_count"}
Places == {"idt", "apic", "vector", "ready", "halted"} \cup CalSteps \cup SetSteps
AtRest == ~running /\ irr = {} /\ handler = None

TimerTyped ==
    /\ at \in Places /\ clean \in BOOLEAN /\ running \in BOOLEAN /\ tsc_end \in BOOLEAN
    /\ lvt \in [vec : Int, masked : BOOLEAN, periodic : BOOLEAN]
    /\ handler \in Isrs \cup {None}

(* While the processor is alive: the vectors in use have their gates, ...  *)
GatesInv ==
    /\ idt \in [Vectors -> Isrs \cup {None}] /\ used \subseteq Vectors
    /\ at = "apic" => used = {FirstVec, LastVec}
    /\ at = "vector" => used = {FirstVec, LastVec, timer_int}
    /\ at \notin {"idt", "apic"} => timer_int \in used /\ idt[timer_int] = "isr_timer"
    /\ at \in CalSteps => /\ req.vec \in used /\ idt[req.vec] = "isr_timer_rdtsc"
                          /\ req.vec # timer_int

(* ... and what is under way comes from the countdown that was started.    *)
UnderWayInv ==
    /\ at \in {"idt", "apic", "vector", "lvt", "count", "free"} => AtRest
    /\ at \in {"idt", "apic", "vector", "lvt", "count"} => ~tsc_end
    /\ at \in {"count", "wait"} => lvt = [vec |-> req.vec, masked |-> FALSE, periodic |-> FALSE]
    /\ at = "wait" => /\ tsc_end => AtRest
                      /\ irr \subseteq {req.vec} /\ handler \in {None, "isr_timer_rdtsc"}
                      /\ running => irr = {} /\ handler = None
                      /\ irr # {} => handler = None
    /\ at \in SetSteps \cup {"ready"} => /\ irr \subseteq {timer_int} /\ handler \in {None, "isr_timer"}
                                         /\ running => lvt.vec = timer_int
    /\ at \in {"set_div", "set_count"} => lvt.vec = timer_int

(* Whose callback it is, if the last start found the timer at rest.        *)
CallbackInv ==
    /\ clean /\ handler = "isr_timer" => callback = due
    /\ at \in SetSteps => callback = req.cb /\ (clean => AtRest)
    /\ at = "ready" /\ clean => /\ running => callback = owner
                                /\ irr # {} => callback = due

(* What the registers are set to.                                          *)
CountInv ==
    /\ at \in SetSteps \/ (at = "ready" /\ req.cb # None) =>
         /\ req.ticks \in Nat /\ req.power = Power(req.ticks) /\ req.count \in Counts(req.ticks)
         /\ req.periodic \in BOOLEAN
    /\ at = "set_count" \/ (at = "ready" /\ req.cb # None) => conf = DivConf(req.power)
    /\ at = "ready" /\ req.cb # None /\ running => count = req.count

TimerInv == /\ TimerTyped
            /\ at # "halted" => GatesInv /\ UnderWayInv
            /\ CallbackInv /\ CountInv

(* alloc_interrupt_vector finds a free vector if there is one.             *)
LEMMA FirstFreeIsFree ==
  ASSUME FreeVectors # {}, used \subseteq Vectors
  PROVE  FirstFree \in Vectors /\ FirstFree \notin used
<1>1. FreeVectors \in SUBSET Nat
  BY VectorsAssumption DEF FreeVectors, Vectors
<1>2. \E v \in FreeVectors : \A u \in FreeVectors : v <= u
  BY <1>1, LeastExists
<1>3. FirstFree \in FreeVectors
  BY <1>2 DEF FirstFree
<1>4. QED
  BY <1>3 DEF FreeVectors

(* The countdown ends, a vector is delivered, a handler runs, the processor*)
(* panics.                                                                 *)
LEMMA HandlerSteps ==
  ASSUME TimerInv, Expire \/ (\E v \in Vectors : Deliver(v)) \/ Handlers \/ Exception
  PROVE  TimerInv'
<1> USE NoneAssumption DEF TimerInv, Isrs
<1>1. CASE Expire
  <2>1. TimerTyped'
    BY <1>1, Zenon DEF Expire, TimerTyped
  <2>2. at # "halted" /\ at' = at /\ GatesInv'
    BY <1>1 DEF Expire, GatesInv
  <2>3. UnderWayInv'
    BY <1>1, <2>2 DEF Expire, UnderWayInv, AtRest, TimerTyped, Places, CalSteps, SetSteps
  <2>4. CallbackInv'
    BY <1>1 DEF Expire, CallbackInv, UnderWayInv, AtRest, TimerTyped, Places, CalSteps, SetSteps
  <2>5. CountInv'
    BY <1>1 DEF Expire, CountInv, UnderWayInv, TimerTyped
  <2>6. QED
    BY <2>1, <2>2, <2>3, <2>4, <2>5
<1>2. CASE \E v \in Vectors : Deliver(v)
  <2>1. PICK v \in Vectors : Deliver(v)
    BY <1>2
  <2>2. idt[v] \in {"isr_timer", "isr_timer_rdtsc"} /\ at \in SetSteps \cup {"ready", "wait"}
    BY <2>1 DEF Deliver, UnderWayInv, GatesInv, AtRest, TimerTyped, Places, CalSteps, SetSteps
  <2>3. handler' = idt[v] /\ at' = at /\ irr' = irr \ {v} /\ handler = None
    BY <2>1, <2>2 DEF Deliver
  <2>4. TimerTyped'
    BY <2>1, <2>2, <2>3 DEF Deliver, TimerTyped, hw
  <2>5. GatesInv'
    BY <2>1, <2>3 DEF Deliver, GatesInv, hw
  <2>6. UnderWayInv'
    BY <2>1, <2>2, <2>3 DEF Deliver, UnderWayInv, GatesInv, AtRest, hw, SetSteps, CalSteps
  <2>7. CallbackInv'
    BY <2>1, <2>2, <2>3 DEF Deliver, CallbackInv, UnderWayInv, GatesInv, AtRest, hw, SetSteps, CalSteps
  <2>8. CountInv'
    BY <2>1, <2>3 DEF Deliver, CountInv, hw
  <2>9. QED
    BY <2>3, <2>4, <2>5, <2>6, <2>7, <2>8
<1>3. CASE Handlers
  <2>1. CASE isr_timer
    <3>1. at # "halted" /\ at \in SetSteps \cup {"ready"}
      BY <1>3, <2>1 DEF Handlers, isr_timer, UnderWayInv, AtRest, TimerTyped, Places, CalSteps, SetSteps
    <3>2. running' \in BOOLEAN /\ (running' => running /\ count' = count) /\ lvt' = lvt /\ conf' = conf
      <4>1. CASE UNCHANGED hw
        BY <4>1 DEF hw, TimerTyped
      <4>2. CASE stop_apic_timer /\ UNCHANGED <<lvt, conf>>
        BY <4>2 DEF stop_apic_timer
      <4>3. QED
        BY <2>1, <4>1, <4>2 DEF isr_timer
    <3>3. TimerTyped'
      BY <2>1, <3>2 DEF isr_timer, TimerTyped
    <3>4. GatesInv'
      <4>1. UNCHANGED <<idt, used, at, timer_int, req>>
        BY <2>1 DEF isr_timer
      <4>2. QED
        BY <3>1, <4>1 DEF GatesInv, SetSteps
    <3>5. UnderWayInv'
      BY <2>1, <3>1, <3>2 DEF isr_timer, UnderWayInv, AtRest, SetSteps, CalSteps
    <3>6. CallbackInv'
      BY <2>1, <3>1, <3>2 DEF isr_timer, CallbackInv, AtRest, SetSteps
    <3>7. CountInv'
      BY <2>1, <3>2 DEF isr_timer, CountInv
    <3>8. QED
      BY <2>1, <3>3, <3>4, <3>5, <3>6, <3>7
  <2>2. CASE isr_timer_rdtsc
    <3>1. at = "wait"
      BY <1>3, <2>2 DEF Handlers, isr_timer_rdtsc, UnderWayInv, AtRest, TimerTyped, Places, CalSteps, SetSteps
    <3>2. TimerTyped' /\ GatesInv'
      <4>1. TimerTyped'
        BY <2>2 DEF isr_timer_rdtsc, TimerTyped, hw
      <4>2. UNCHANGED <<idt, used, at, timer_int, req>>
        BY <2>2 DEF isr_timer_rdtsc
      <4>3. QED
        BY <3>1, <4>1, <4>2 DEF GatesInv
    <3>3. UnderWayInv'
      BY <2>2, <3>1 DEF isr_timer_rdtsc, UnderWayInv, AtRest, hw, SetSteps
    <3>4. CallbackInv' /\ CountInv'
      BY <2>2, <3>1 DEF isr_timer_rdtsc, CallbackInv, CountInv, AtRest, hw, SetSteps
    <3>5. QED
      BY <3>2, <3>3, <3>4
  <2>3. QED
    BY <1>3, <2>1, <2>2 DEF Handlers
<1>4. CASE Exception
  <2>1. at' = "halted" /\ UNCHANGED <<lvt, running, handler, callback, due, clean, tsc_end>>
    BY <1>4 DEF Exception, Goto, hw
  <2>2. QED
    BY <2>1 DEF TimerTyped, CallbackInv, CountInv, SetSteps, Places
<1>5. QED
  BY <1>1, <1>2, <1>3, <1>4

(* The steps of init_idt, init_apic and set_timer_freq.                    *)
LEMMA BootTimerSteps ==
  ASSUME TimerInv,
         init_idt \/ init_apic \/ CalVector \/ CalLvt \/ CalCount \/ CalWait \/ CalFree
  PROVE  TimerInv'
<1> USE NoneAssumption DEF TimerInv, Isrs, At, Goto
<1> USE DEF Places, CalSteps, SetSteps
<1>0. /\ FirstVec \in Vectors /\ LastVec \in Vectors /\ FirstVec # LastVec
      /\ FirstVec + 1 \in Vectors /\ FirstVec + 2 \in Vectors
      /\ FirstVec + 1 # LastVec /\ FirstVec + 2 # LastVec
      /\ Vectors \subseteq Int
  BY VectorsAssumption DEF Vectors
<1>1. CASE init_idt
  <2>1. at = "idt" /\ at' = "apic" /\ UNCHANGED <<hw, irr, handler, callback, tsc_end, owner, due, clean>>
    BY <1>1 DEF init_idt
  <2>2. TimerTyped' /\ CallbackInv' /\ CountInv'
    BY <2>1 DEF TimerTyped, CallbackInv, CountInv, hw, AtRest
  <2>3. GatesInv'
    <3>1. /\ used' = {FirstVec, LastVec}
          /\ \A v \in Vectors : idt'[v] \in Isrs \cup {None}
          /\ idt' = [v \in Vectors |-> idt'[v]]
      BY <1>1 DEF init_idt, INT_VEC_INTER_PROCESSOR_CALL, INT_VEC_SPURIOUS
    <3>2. QED
      BY <1>0, <2>1, <3>1 DEF GatesInv
  <2>4. UnderWayInv'
    BY <2>1 DEF UnderWayInv, AtRest, hw
  <2>5. QED
    BY <2>2, <2>3, <2>4
<1>2. CASE init_apic
  <2>1. /\ at = "apic" /\ at' = "vector"
        /\ UNCHANGED <<hw, irr, handler, callback, tsc_end, req, owner, due, clean>>
    BY <1>2 DEF init_apic
  <2>2. used = {FirstVec, LastVec} /\ used \subseteq Vectors /\ idt \in [Vectors -> Isrs \cup {None}]
    BY <2>1 DEF GatesInv
  <2>3. FreeVectors # {}
    BY <1>0, <2>2 DEF FreeVectors
  <2>4. /\ timer_int' = FirstFree /\ FirstFree \in Vectors /\ FirstFree \notin used
        /\ idt' = [idt EXCEPT ![FirstFree] = "isr_timer"] /\ used' = used \cup {FirstFree}
    BY <1>2, <2>2, <2>3, FirstFreeIsFree DEF init_apic, alloc_interrupt_vector
  <2>5. GatesInv'
    BY <2>1, <2>2, <2>4 DEF GatesInv
  <2>6. UnderWayInv'
    BY <2>1 DEF UnderWayInv, AtRest, hw
  <2>7. TimerTyped' /\ CallbackInv' /\ CountInv'
    BY <2>1 DEF TimerTyped, CallbackInv, CountInv, hw, AtRest
  <2>8. QED
    BY <2>5, <2>6, <2>7
<1>3. CASE CalVector
  <2>1. /\ at = "vector" /\ at' = "lvt"
        /\ UNCHANGED <<hw, irr, handler, callback, tsc_end, timer_int, owner, due, clean>>
    BY <1>3 DEF CalVector
  <2>2. /\ used = {FirstVec, LastVec, timer_int} /\ used \subseteq Vectors
        /\ idt \in [Vectors -> Isrs \cup {None}] /\ idt[timer_int] = "isr_timer"
    BY <2>1 DEF GatesInv
  <2>3. FreeVectors # {}
    BY <1>0, <2>2 DEF FreeVectors
  <2>4. FirstFree \in Vectors /\ FirstFree \notin used
    BY <2>2, <2>3, FirstFreeIsFree
  <2>5. /\ req' = [NoReq EXCEPT !.vec = FirstFree]
        /\ idt' = [idt EXCEPT ![FirstFree] = "isr_timer_rdtsc"] /\ used' = used \cup {FirstFree}
    BY <1>3, <2>3 DEF CalVector, alloc_interrupt_vector
  <2>6. req'.vec = FirstFree
    BY <2>5 DEF NoReq
  <2>7. GatesInv'
    BY <2>1, <2>2, <2>4, <2>5, <2>6 DEF GatesInv
  <2>8. UnderWayInv'
    BY <2>1 DEF UnderWayInv, AtRest, hw
  <2>9. TimerTyped' /\ CallbackInv' /\ CountInv'
    BY <2>1 DEF TimerTyped, CallbackInv, CountInv, hw, AtRest
  <2>10. QED
    BY <2>7, <2>8, <2>9
<1>4. CASE CalLvt
  <2>1. /\ at = "lvt" /\ at' = "count" /\ lvt' = [vec |-> req.vec, masked |-> FALSE, periodic |-> FALSE]
        /\ UNCHANGED <<idt, used, count, running, irr, handler, callback, tsc_end, timer_int, req, owner, due, clean>>
    BY <1>4 DEF CalLvt
  <2>2. req.vec \in Int
    BY <1>0, <2>1 DEF GatesInv
  <2>3. GatesInv' /\ UnderWayInv'
    BY <2>1 DEF GatesInv, UnderWayInv, AtRest
  <2>4. TimerTyped' /\ CallbackInv' /\ CountInv'
    BY <2>1, <2>2 DEF TimerTyped, CallbackInv, CountInv, AtRest
  <2>5. QED
    BY <2>3, <2>4
<1>5. CASE CalCount
  <2>1. /\ at = "count" /\ at' = "wait" /\ running' = TRUE
        /\ UNCHANGED <<idt, used, lvt, conf, irr, handler, callback, tsc_end, timer_int, req, owner, due, clean>>
    BY <1>5 DEF CalCount
  <2>2. GatesInv' /\ UnderWayInv'
    BY <2>1 DEF GatesInv, UnderWayInv, AtRest
  <2>3. TimerTyped' /\ CallbackInv' /\ CountInv'
    BY <2>1 DEF TimerTyped, CallbackInv, CountInv, AtRest
  <2>4. QED
    BY <2>2, <2>3
<1>6. CASE CalWait
  <2>1. /\ at = "wait" /\ tsc_end /\ at' = "free" /\ lvt' = Masked
        /\ UNCHANGED <<idt, used, conf, count, running, irr, handler, callback, tsc_end, timer_int, req, owner, due, clean>>
    BY <1>6 DEF CalWait
  <2>2. GatesInv' /\ UnderWayInv'
    BY <2>1 DEF GatesInv, UnderWayInv, AtRest
  <2>3. TimerTyped' /\ CallbackInv' /\ CountInv'
    BY <2>1 DEF TimerTyped, CallbackInv, CountInv, AtRest, Masked
  <2>4. QED
    BY <2>2, <2>3
<1>7. CASE CalFree
  <2>1. /\ at = "free" /\ at' = "ready" /\ req' = NoReq
        /\ idt' = [idt EXCEPT ![req.vec] = None] /\ used' = used \ {req.vec}
        /\ UNCHANGED <<hw, irr, handler, callback, tsc_end, timer_int, owner, due, clean>>
    BY <1>7 DEF CalFree, free_interrupt_vector
  <2>2. AtRest /\ AtRest'
    BY <2>1 DEF UnderWayInv, AtRest, hw
  <2>3. req'.cb = None
    BY <2>1 DEF NoReq
  <2>4. GatesInv'
    BY <2>1 DEF GatesInv
  <2>5. UnderWayInv' /\ TimerTyped' /\ CallbackInv'
    BY <2>1, <2>2 DEF UnderWayInv, AtRest, TimerTyped, CallbackInv, hw
  <2>6. CountInv'
    BY <2>1, <2>3 DEF CountInv
  <2>7. QED
    BY <2>4, <2>5, <2>6
<1>8. QED
  BY <1>1, <1>2, <1>3, <1>4, <1>5, <1>6, <1>7

(* The calls, and the stores of start_apic_timer.                          *)
LEMMA CallSteps ==
  ASSUME TimerInv, SetLvt \/ SetDiv \/ SetCount \/ Calls
  PROVE  TimerInv'
<1> USE NoneAssumption DEF TimerInv, Isrs, At, Goto
<1> USE DEF Places, CalSteps, SetSteps
<1>1. CASE SetLvt
  <2>1. /\ at = "set_lvt" /\ at' = "set_div" /\ handler = None
        /\ lvt' = [vec |-> timer_int, masked |-> FALSE, periodic |-> req.periodic]
        /\ UNCHANGED <<idt, used, conf, count, running, irr, handler, callback, tsc_end, timer_int, req, owner, due, clean>>
    BY <1>1 DEF SetLvt
  <2>2. lvt'.vec = timer_int
    BY <2>1
  <2>3. GatesInv' /\ UnderWayInv'
    BY <2>1, <2>2 DEF GatesInv, UnderWayInv, AtRest
  <2>4. CallbackInv' /\ CountInv'
    BY <2>1 DEF CallbackInv, CountInv, AtRest
  <2>5. TimerTyped'
    <3>1. timer_int \in Int
      BY <2>1, VectorsAssumption DEF GatesInv, Vectors
    <3>2. req.periodic \in BOOLEAN
      BY <2>1, Zenon DEF CountInv
    <3>3. lvt' \in [vec : Int, masked : BOOLEAN, periodic : BOOLEAN]
      BY <2>1, <3>1, <3>2, Zenon
    <3>4. QED
      BY <2>1, <3>3 DEF TimerTyped
  <2>6. QED
    BY <2>3, <2>4, <2>5
<1>2. CASE SetDiv
  <2>1. /\ at = "set_div" /\ at' = "set_count" /\ handler = None /\ conf' = DivConf(req.power)
        /\ UNCHANGED <<idt, used, lvt, count, running, irr, handler, callback, tsc_end, timer_int, req, owner, due, clean>>
    BY <1>2 DEF SetDiv
  <2>2. GatesInv' /\ UnderWayInv'
    BY <2>1 DEF GatesInv, UnderWayInv, AtRest
  <2>3. CallbackInv' /\ CountInv' /\ TimerTyped'
    BY <2>1 DEF CallbackInv, CountInv, AtRest, TimerTyped
  <2>4. QED
    BY <2>2, <2>3
<1>3. CASE SetCount
  <2>1. /\ at = "set_count" /\ at' = "ready" /\ handler = None /\ count' = req.count
        /\ running' = (req.count # 0) /\ owner' = req.cb
        /\ UNCHANGED <<idt, used, lvt, conf, irr, handler, callback, tsc_end, timer_int, req, due, clean>>
    BY <1>3 DEF SetCount
  <2>2. TimerTyped'
    BY <2>1, Zenon DEF TimerTyped
  <2>3. GatesInv'
    BY <2>1 DEF GatesInv
  <2>4. UnderWayInv'
    <3>1. irr \subseteq {timer_int} /\ lvt.vec = timer_int
      BY <2>1 DEF UnderWayInv
    <3>2. QED
      BY <2>1, <3>1 DEF UnderWayInv
  <2>5. CallbackInv'
    BY <2>1 DEF CallbackInv, AtRest
  <2>6. CountInv'
    BY <2>1 DEF CountInv
  <2>7. QED
    BY <2>2, <2>3, <2>4, <2>5, <2>6
<1>4. CASE \E ticks \in Ticks, periodic \in BOOLEAN, cb \in Callbacks : start_apic_timer_rt(ticks, periodic, cb)
  <2>1. PICK ticks \in Ticks, periodic \in BOOLEAN, cb \in Callbacks :
           start_apic_timer_rt(ticks, periodic, cb)
    BY <1>4
  <2>2. PICK n \in Counts(ticks) : start_apic_timer(ticks, n, Power(ticks), periodic, cb)
    BY <2>1 DEF start_apic_timer_rt
  <2>3. /\ at = "ready" /\ at' = "set_lvt" /\ handler = None
        /\ req' = [ticks |-> ticks, count |-> n, power |-> Power(ticks), periodic |-> periodic,
                   cb |-> cb, vec |-> timer_int]
        /\ callback' = cb /\ clean' = (~running /\ timer_int \notin irr)
        /\ UNCHANGED <<idt, used, hw, irr, handler, tsc_end, timer_int, owner, due>>
    BY <2>2 DEF start_apic_timer
  <2>4. /\ req'.ticks = ticks /\ req'.power = Power(ticks) /\ req'.count = n
        /\ req'.periodic = periodic /\ req'.cb = cb
    BY <2>3
  <2>5. TimerTyped'
    <3>1. clean' \in BOOLEAN
      BY <2>3, Zenon
    <3>2. QED
      BY <2>3, <3>1 DEF TimerTyped, hw
  <2>6. GatesInv'
    BY <2>3 DEF GatesInv
  <2>7. UnderWayInv'
    BY <2>3 DEF UnderWayInv, hw
  <2>8. CallbackInv'
    <3>1. clean' => AtRest
      BY <2>3 DEF UnderWayInv, AtRest
    <3>2. QED
      BY <2>3, <2>4, <3>1 DEF CallbackInv, AtRest, hw
  <2>9. CountInv'
    <3>1. ticks \in Nat
      BY TicksAssumption
    <3>2. req'.periodic \in BOOLEAN
      BY <2>4
    <3>3. QED
      BY <2>2, <2>3, <2>4, <3>1, <3>2 DEF CountInv
  <2>10. QED
    BY <2>5, <2>6, <2>7, <2>8, <2>9
<1>5. CASE Stop
  <2>1. /\ at = "ready" /\ at' = at /\ running' = FALSE
        /\ UNCHANGED <<idt, used, lvt, conf, irr, handler, callback, tsc_end, timer_int, req, owner, due, clean>>
    BY <1>5 DEF Stop, stop_apic_timer
  <2>2. TimerTyped' /\ GatesInv' /\ UnderWayInv'
    BY <2>1 DEF TimerTyped, GatesInv, UnderWayInv
  <2>3. CallbackInv' /\ CountInv'
    BY <2>1 DEF CallbackInv, CountInv
  <2>4. QED
    BY <2>2, <2>3
<1>6. CASE OtherAlloc
  <2>1. /\ at = "ready" /\ at' = at
        /\ UNCHANGED <<hw, irr, handler, callback, tsc_end, timer_int, req, owner, due, clean>>
    BY <1>6 DEF OtherAlloc
  <2>2. PICK vec \in Vectors \cup {0} : alloc_interrupt_vector("isr_other", vec)
    BY <1>6 DEF OtherAlloc
  <2>3. GatesInv'
    <3>1. CASE FreeVectors = {}
      BY <2>1, <2>2, <3>1 DEF alloc_interrupt_vector, GatesInv
    <3>2. CASE FreeVectors # {}
      <4>1. used \subseteq Vectors
        BY <2>1 DEF GatesInv
      <4>2. FirstFree \in Vectors /\ FirstFree \notin used
        BY <3>2, <4>1, FirstFreeIsFree
      <4>3. used' = used \cup {FirstFree} /\ idt' = [idt EXCEPT ![FirstFree] = "isr_other"]
        BY <2>2, <3>2 DEF alloc_interrupt_vector
      <4>4. QED
        BY <2>1, <4>2, <4>3 DEF GatesInv
    <3>3. QED
      BY <3>1, <3>2
  <2>4. UnderWayInv' /\ TimerTyped'
    BY <2>1 DEF UnderWayInv, TimerTyped, hw
  <2>5. CallbackInv' /\ CountInv'
    BY <2>1 DEF CallbackInv, CountInv, hw
  <2>6. QED
    BY <2>3, <2>4, <2>5
<1>7. CASE OtherFree
  <2>1. /\ at = "ready" /\ at' = at
        /\ UNCHANGED <<hw, irr, handler, callback, tsc_end, timer_int, req, owner, due, clean>>
    BY <1>7 DEF OtherFree
  <2>2. PICK vec \in used : idt[vec] = "isr_other" /\ free_interrupt_vector(vec)
    BY <1>7 DEF OtherFree
  <2>3. GatesInv'
    BY <2>1, <2>2 DEF GatesInv, free_interrupt_vector
  <2>4. UnderWayInv' /\ TimerTyped'
    BY <2>1 DEF UnderWayInv, TimerTyped, hw
  <2>5. CallbackInv' /\ CountInv'
    BY <2>1 DEF CallbackInv, CountInv, hw
  <2>6. QED
    BY <2>3, <2>4, <2>5
<1>8. QED
  BY <1>1, <1>2, <1>3, <1>4, <1>5, <1>6, <1>7 DEF Calls

(* The invariant is inductive.                                             *)
LEMMA TimerInductive ==
  /\ TimerInit => TimerInv
  /\ TimerInv /\ [TimerNext]_timerVars => TimerInv'
<1>1. TimerInit => TimerInv
  <2> SUFFICES ASSUME TimerInit PROVE TimerInv
    OBVIOUS
  <2>1. TimerTyped
    <3>1. lvt \in [vec : Int, masked : BOOLEAN, periodic : BOOLEAN]
      BY DEF TimerInit, Masked
    <3>2. clean \in BOOLEAN /\ running \in BOOLEAN /\ tsc_end \in BOOLEAN
      BY Zenon DEF TimerInit
    <3>3. QED
      BY <3>1, <3>2 DEF TimerInit, TimerTyped, Places
  <2>2. GatesInv /\ UnderWayInv
    BY DEF TimerInit, GatesInv, UnderWayInv, AtRest, CalSteps, SetSteps
  <2>3. CallbackInv /\ CountInv
    BY NoneAssumption DEF TimerInit, CallbackInv, CountInv, SetSteps, Isrs
  <2>4. QED
    BY <2>1, <2>2, <2>3 DEF TimerInv
<1>2. TimerInv /\ [TimerNext]_timerVars => TimerInv'
  <2> SUFFICES ASSUME TimerInv, [TimerNext]_timerVars PROVE TimerInv'
    OBVIOUS
  <2>1. CASE TimerNext
    BY <2>1, HandlerSteps, BootTimerSteps, CallSteps DEF TimerNext, Code, Interrupts
  <2>2. CASE UNCHANGED timerVars
    <3>1. UNCHANGED <<idt, used, lvt, conf, count, running, irr, handler, callback, tsc_end,
                      timer_int, at, req, owner, due, clean>>
      BY <2>2 DEF timerVars, hw
    <3>2. TimerTyped'
      BY <3>1, Zenon DEF TimerInv, TimerTyped, Places, CalSteps, SetSteps
    <3>3. CallbackInv'
      BY <3>1, Zenon DEF TimerInv, CallbackInv, AtRest, SetSteps
    <3>4. CountInv'
      BY <3>1, Zenon DEF TimerInv, CountInv, SetSteps
    <3>5. at' # "halted" => GatesInv' /\ UnderWayInv'
      BY <3>1, Zenon DEF TimerInv, GatesInv, UnderWayInv, AtRest, CalSteps, SetSteps
    <3>6. QED
      BY <3>2, <3>3, <3>4, <3>5 DEF TimerInv
  <2>3. QED
    BY <2>1, <2>2
<1>3. QED
  BY <1>1, <1>2

(* The register as apic.c:115 writes it divides by the power asked for, up *)
(* to a division by 16.                                                    *)
LEMMA DividerOfPower ==
  ASSUME NEW p \in 0 .. 4
  PROVE  Divider(DivConf(p)) = Twos[p + 1]
<1>1. CASE p = 0
  <2>1. (p - 1) % 256 = 255
    <3>1. p - 1 \in Int /\ -256 <= p - 1 /\ p - 1 < 0 /\ p - 1 + 256 = 255
      BY <1>1
    <3>2. \A i \in Int : -256 <= i /\ i < 0 => i % 256 = i + 256
      BY Z3
    <3>3. QED
      BY <3>1, <3>2
  <2>2. DivConf(p) = 11
    BY <2>1 DEF DivConf
  <2>3. QED
    BY <1>1, <2>2 DEF Divider, Twos
<1>2. CASE p = 1
  <2>1. DivConf(p) = 0
    BY <1>2 DEF DivConf
  <2>2. QED
    BY <1>2, <2>1 DEF Divider, Twos
<1>3. CASE p = 2
  <2>1. DivConf(p) = 1
    BY <1>3 DEF DivConf
  <2>2. QED
    BY <1>3, <2>1 DEF Divider, Twos
<1>4. CASE p = 3
  <2>1. DivConf(p) = 2
    BY <1>4 DEF DivConf
  <2>2. QED
    BY <1>4, <2>1 DEF Divider, Twos
<1>5. CASE p = 4
  <2>1. DivConf(p) = 3
    BY <1>5 DEF DivConf
  <2>2. QED
    BY <1>5, <2>1 DEF Divider, Twos
<1>6. QED
  BY <1>1, <1>2, <1>3, <1>4, <1>5

(* A count that fits is the duration by the power of two, rounded down.    *)
LEMMA CountOfPower ==
  ASSUME NEW ticks \in Nat, Power(ticks) <= 4, NEW n \in Counts(ticks)
  PROVE  /\ Power(ticks) \in 0 .. 4
         /\ n = ticks \div Twos[Power(ticks) + 1]
<1>1. Powers(ticks) # {}
  BY DEF Power
<1>2. Powers(ticks) \in SUBSET Nat
  BY DEF Powers
<1>3. \E p \in Powers(ticks) : \A q \in Powers(ticks) : p <= q
  BY <1>1, <1>2, LeastExists
<1>4. Power(ticks) \in Powers(ticks)
  BY <1>1, <1>3 DEF Power
<1>5. QED
  BY <1>1, <1>4 DEF Powers, Counts

(* apic.c:106-118 and 145-157: every interrupt finds its handler, and an   *)
(* expiry calls the callback of its own start, if that start found the     *)
(* timer at rest.                                                          *)
THEOREM TimerOwnCallback == TimerSpec => []OwnCallback
<1>1. TimerInv => OwnCallback
  <2> SUFFICES ASSUME TimerInv PROVE OwnCallback
    OBVIOUS
  <2>1. InterruptsHaveGates
    BY DEF TimerInv, InterruptsHaveGates, GatesInv, UnderWayInv, AtRest, TimerTyped, Places,
           CalSteps, SetSteps
  <2>2. QED
    BY <2>1 DEF TimerInv, OwnCallback, CallbackInv
<1>2. QED
  BY <1>1, TimerInductive, PTL DEF TimerSpec

(* apic.c:114-138: up to a division by 16 the timer runs for the time      *)
(* asked for, rounded down to what the divider can count.                  *)
THEOREM TimerRightDuration == TimerSpec => []RightDuration
<1>1. TimerInv => RightDuration
  <2> SUFFICES ASSUME TimerInv, at = "ready", running, req.cb # None, req.power <= 4
               PROVE  LET d == count * Divider(conf)
                      IN  d <= req.ticks /\ req.ticks < d + Twos[req.power + 1]
    BY DEF RightDuration
  <2>1. /\ req.ticks \in Nat /\ req.power = Power(req.ticks) /\ req.count \in Counts(req.ticks)
        /\ conf = DivConf(req.power) /\ count = req.count
    BY DEF TimerInv, CountInv
  <2>2. /\ req.power \in 0 .. 4
        /\ count = req.ticks \div Twos[req.power + 1]
    BY <2>1, CountOfPower
  <2>3. Divider(conf) = Twos[req.power + 1]
    BY <2>1, <2>2, DividerOfPower
  <2>4. Twos[req.power + 1] \in Nat \ {0}
    BY <2>2 DEF Twos
  <2>5. \A t \in Nat, d \in Nat \ {0} : LET c == t \div d IN c * d <= t /\ t < c * d + d
    BY Z3
  <2>6. QED
    BY <2>1, <2>2, <2>3, <2>4, <2>5
<1>2. QED
  BY <1>1, TimerInductive, PTL DEF TimerSpec

-----------------------------------------------------------------------------
(* Where the search for the table is, and what is mapped meanwhile.        *)
Lookup == {"search", "compare", "found", "missing", "returned", "panic"}
Scan == {"scan", "probe", "read"}
PciPlaces == {"off", "lookup", "windows", "true", "false"} \cup Scan

AcpiInv ==
    /\ pci \in PciPlaces
    /\ pci = "off" => acpi \in {"off", "length", "root", "ready", "panic"}
    /\ pci = "lookup" => acpi \in Lookup
    /\ pci \in {"windows", "true"} \cup Scan => acpi = "returned"
    /\ pci = "false" => acpi \in {"missing", "returned"}
    /\ acpi \in {"off", "root"} => mapped = {}
    /\ acpi = "length" => mapped = {<<"root header", 0>>}
    /\ acpi \in {"ready", "search", "found", "missing"} => mapped = {<<"root", 0>>}
    /\ acpi = "compare" => mapped = {<<"root", 0>>, <<"header", entry>>}
    /\ acpi = "returned" =>
         mapped = {<<"root", 0>>, <<"table", entry>>} \cup {<<"window", g>> : g \in 1 .. group - 1}

(* The groups that have windows have buses.                                *)
GroupCount == Len(machine.groups)
GroupsInv ==
    /\ machine \in Machines
    /\ group \in 1 .. GroupCount + 1
    /\ pci \in {"off", "lookup"} => group = 1
    /\ pci \in Scan \cup {"true"} => group = GroupCount + 1
    /\ \A g \in 1 .. group - 1 : machine.groups[g].start < machine.groups[g].end

(* The functions in the order in which they are looked at: what is in the  *)
(* table are those before pos.                                             *)
Earlier(p, q) ==
    \/ p[1] < q[1]
    \/ p[1] = q[1] /\ p[2] < q[2]
    \/ p[1] = q[1] /\ p[2] = q[2] /\ p[3] < q[3]
    \/ p[1] = q[1] /\ p[2] = q[2] /\ p[3] = q[3] /\ p[4] < q[4]
InPlace(p) ==
    /\ p \in (1 .. GroupCount + 1) \X Nat \X (0 .. DevCount - 1) \X (0 .. FunCount - 1)
    /\ p[1] <= GroupCount =>
         /\ machine.groups[p[1]].start <= p[2] /\ p[2] < machine.groups[p[1]].end
         /\ p[4] > 0 => /\ <<p[1], p[2], p[3], 0>> \in DOMAIN machine.functions
                        /\ machine.functions[<<p[1], p[2], p[3], 0>>].multi
Bars == [addr : Nat, size : Nat]
Descs == [function : DOMAIN machine.functions, bars : [0 .. 5 -> Bars]]
Listed == {devices[i].function : i \in DOMAIN devices}

ListInv ==
    /\ devices \in Seq(Descs)
    /\ \A i, l \in 1 .. Len(devices) : devices[i].function = devices[l].function => i = l
    /\ pci \in Scan => InPlace(pos) /\ Listed = {p \in Scanned : Earlier(p, pos)}
    /\ pci = "true" => Listed = Scanned

TableInv ==
    /\ capacity \in Nat
    /\ pci \in {"off", "lookup", "windows"} => memory = "none"
    /\ memory = "none" => devices = << >>
    /\ memory # "none" => Len(devices) <= capacity
    /\ pci \in Scan => memory = "live"
    /\ pci \in {"probe", "read"} =>
         Len(devices) < capacity /\ pos \in DOMAIN machine.functions

(* The registers of the function in work.                                  *)
InWork == [machine.functions[pos] EXCEPT
             !.command = 0,
             !.regs = IF pci = "read" THEN Asked(@, probe.offset) ELSE @]
ConfigInv ==
    /\ DOMAIN config = DOMAIN machine.functions
    /\ pci \notin {"probe", "read"} => config = machine.functions /\ probe = Idle
    /\ pci \in {"probe", "read"} =>
         /\ config = [machine.functions EXCEPT ![pos] = InWork]
         /\ probe.cmd = machine.functions[pos].command

(* What has been found out about them.                                     *)
ProbeInv ==
    pci \in {"probe", "read"} =>
      LET f == machine.functions[pos]
      IN  /\ probe \in [offset : 0 .. BarCount(f.type), cmd : Nat, bars : [0 .. 5 -> Bars]]
          /\ probe.offset < BarCount(f.type) => f.regs[probe.offset].kind # "high"
          /\ \A o \in 0 .. 5 : o < probe.offset => probe.bars[o] = BarOf(f, o)
          /\ \A o \in 0 .. 5 : o > probe.offset => probe.bars[o] = NoBar
          /\ pci = "probe" /\ probe.offset < 6 => probe.bars[probe.offset] = NoBar
          /\ pci = "read" =>
               /\ probe.offset < BarCount(f.type)
               /\ f.regs[probe.offset].kind \in {"memory", "wide", "ports"}
               /\ f.regs[probe.offset].val # 0
               /\ probe.bars[probe.offset] = [addr |-> Value(f.regs, probe.offset), size |-> 0]

PciInv == AcpiInv /\ GroupsInv /\ ListInv /\ TableInv /\ ConfigInv /\ ProbeInv /\ BarsTrue

-----------------------------------------------------------------------------
(* Quotient and remainder are determined by what they add up to.           *)
LEMMA QuotientAndRest ==
  ASSUME NEW a \in Nat, NEW c \in Nat, NEW b \in Nat, c < b
  PROVE  (b * a + c) \div b = a /\ (b * a + c) % b = c
BY Z3

(* What a register keeps of all ones.                                      *)
LEMMA OnesKept ==
  ASSUME NEW r \in Registers
  PROVE  /\ r.size <= r.top /\ r.top \in Nat /\ r.top <= RegValues /\ r.top % 16 = 0
         /\ Written(r, Ones) = [r EXCEPT !.val = r.top - r.size + r.flags]
         /\ Written(r, Ones).val = r.top - r.size + r.flags
         /\ r.flags < r.size
<1> DEFINE s == r.size
           t == r.top
           q == t \div s
           w == RegValues \div t
<1>1. /\ s \in Nat \ {0} /\ t \in Nat \ {0} /\ t % s = 0 /\ t % 16 = 0 /\ RegValues % t = 0
      /\ RegValues \in Nat \ {0} /\ r.flags \in Nat /\ r.val \in Nat /\ r.val % s = r.flags
  <2>1. t \in {RegValues, PortValues} /\ RegValues % RegValues = 0
    BY RegValuesAssumption DEF Registers
  <2>2. QED
    BY <2>1, RegValuesAssumption, PortValuesAssumption DEF Registers
<1>2. t = s * q /\ q \in Nat /\ RegValues = t * w /\ w \in Nat
  <2> HIDE DEF s, t
  <2>1. \A n \in Nat, d \in Nat \ {0} : n = d * (n \div d) + (n % d) /\ n \div d \in Nat
    BY Z3
  <2>2. QED
    BY <1>1, <2>1
<1>3. q >= 1 /\ s <= t /\ w >= 1 /\ t <= RegValues
  <2> HIDE DEF s, q, t, w
  <2>1. q # 0 /\ w # 0
    BY <1>1, <1>2
  <2>2. QED
    BY <1>1, <1>2, <2>1
<1>4. t - 1 = s * (q - 1) + (s - 1) /\ RegValues - 1 = t * (w - 1) + (t - 1)
  <2> HIDE DEF s, q, t, w
  <2> QED
    BY <1>1, <1>2
<1>0. Ones % t = t - 1
  <2> HIDE DEF s, q, t, w
  <2>1. w - 1 \in Nat /\ t - 1 \in Nat /\ t - 1 < t
    BY <1>1, <1>2, <1>3
  <2>2. QED
    BY <1>1, <1>4, <2>1, QuotientAndRest DEF Ones
<1>5. (t - 1) % s = s - 1
  <2> HIDE DEF s, q, t, w
  <2>1. q - 1 \in Nat /\ s - 1 \in Nat /\ s - 1 < s /\ s \in Nat
    BY <1>1, <1>2, <1>3
  <2>2. t - 1 = s * (q - 1) + (s - 1)
    BY <1>4
  <2>3. (s * (q - 1) + (s - 1)) % s = s - 1
    BY <2>1, QuotientAndRest
  <2>4. QED
    BY <2>2, <2>3
<1>6. r.flags < s
  <2> HIDE DEF s
  <2> QED
   BY <1>1
<1>7. ((Ones % t) - ((Ones % t) % s)) + r.flags = t - s + r.flags
  <2> HIDE DEF s, q, t, w
  <2> QED
    BY <1>0, <1>1, <1>5
<1>8. QED
  BY <1>1, <1>3, <1>6, <1>7 DEF Written, Registers

LEMMA TopSixteens ==
  ASSUME NEW r \in Registers
  PROVE  \E w \in Nat : r.top = 16 * w
<1> DEFINE t == r.top
<1>1. t \in Nat /\ t % 16 = 0
  BY OnesKept
<1> HIDE DEF t
<1>2. t = 16 * (t \div 16) /\ t \div 16 \in Nat
  BY <1>1, Z3
<1>3. QED
  BY <1>2 DEF t

(* Writing back the old value puts everything back.                        *)
LEMMA WrittenBack ==
  ASSUME NEW r \in Registers
  PROVE  Written(Written(r, Ones), r.val) = r
<1>1. Written(Written(r, Ones), r.val) = [r EXCEPT !.val = (r.val - (r.val % r.size)) + r.flags]
  <2>1. r.val \in Nat /\ r.top \in Nat /\ r.val < r.top
    BY OnesKept DEF Registers
  <2>2. r.val % r.top = r.val
    BY <2>1
  <2>3. QED
    BY <2>2 DEF Written, Registers
<1>2. (r.val - (r.val % r.size)) + r.flags = r.val
  BY RegValuesAssumption DEF Registers
<1>3. QED
  BY <1>1, <1>2 DEF Registers

(* The halves of a 64-bit register.                                        *)
LEMMA Halves ==
  ASSUME NEW r \in Registers, NEW s \in Registers
  PROVE  /\ (r.val + RegValues * s.val) % RegValues = r.val
         /\ (r.val + RegValues * s.val) \div RegValues = s.val
<1>1. r.val \in Nat /\ s.val \in Nat /\ RegValues \in Nat /\ r.val < RegValues
  BY OnesKept, RegValuesAssumption DEF Registers
<1>2. r.val + RegValues * s.val = RegValues * s.val + r.val
  BY <1>1
<1>3. QED
  <2> DEFINE a == s.val
             c == r.val
  <2>1. a \in Nat /\ c \in Nat /\ c < RegValues
    BY <1>1
  <2> HIDE DEF a, c
  <2>2. (RegValues * a + c) \div RegValues = a /\ (RegValues * a + c) % RegValues = c
    BY <1>1, <2>1, QuotientAndRest
  <2>3. QED
    BY <1>2, <2>2 DEF a, c

(* The flags of a register are its low bits.                               *)
LEMMA LowBits ==
  ASSUME NEW r \in Registers, NEW m \in Nat \ {0}, r.size % m = 0
  PROVE  \E n \in Nat : r.val = m * n + r.flags
<1> DEFINE s == r.size
           v == r.val
           f == r.flags
           u == s \div m
           q == v \div s
<1>1. s \in Nat \ {0} /\ v \in Nat /\ f \in Nat /\ v % s = f /\ s % m = 0
  BY DEF Registers
<1> HIDE DEF s, v, f
<1>2. \A n \in Nat, d \in Nat \ {0} : n = d * (n \div d) + (n % d) /\ n \div d \in Nat
  BY Z3
<1>3. s = m * u /\ u \in Nat /\ v = s * q + f /\ q \in Nat
  BY <1>1, <1>2
<1> HIDE DEF u, q
<1>4. v = m * (u * q) + f /\ u * q \in Nat
  BY <1>1, <1>3
<1>5. QED
  BY <1>4 DEF v, f

(* Which registers are 64 bits wide, which ones are left out.              *)
LEMMA KindsSeen ==
  ASSUME NEW r \in Registers
  PROVE  /\ r.kind = "wide" => Wide(r) /\ Wide(Written(r, Ones)) /\ ~SkipsBar(r)
         /\ r.kind \in {"memory", "ports"} => ~Wide(r) /\ ~Wide(Written(r, Ones))
         /\ r.kind \in {"memory", "ports"} => (SkipsBar(r) <=> r.val = 0)
         /\ r.kind \in {"none", "below"} => SkipsBar(r)
<1>1. PICK w \in Nat : r.top = 16 * w
  BY TopSixteens
<1>2. /\ r.size \in Nat /\ r.flags \in Nat /\ r.val \in Nat /\ r.top \in Nat
      /\ Written(r, Ones).val = r.top - r.size + r.flags /\ r.size <= r.top
  BY OnesKept DEF Registers
<1>3. ASSUME r.size % 16 = 0, r.flags < 16
      PROVE  r.val % 8 = r.flags % 8 /\ (r.top - r.size + r.flags) % 8 = r.flags % 8
  <2>1. PICK n \in Nat : r.val = 16 * n + r.flags
    BY <1>3, LowBits
  <2>2. PICK u \in Nat : r.size = 16 * u
    BY <1>2, <1>3
  <2>3. QED
    BY <1>1, <1>2, <1>3, <2>1, <2>2
<1>4. CASE r.kind = "wide"
  <2>1. r.size % 16 = 0 /\ r.flags \in {4, 12}
    BY <1>4 DEF Registers
  <2>2. r.flags < 16 /\ r.flags % 8 = 4
    BY <2>1
  <2>3. r.val % 8 = 4 /\ (r.top - r.size + r.flags) % 8 = 4
    BY <1>3, <2>1, <2>2
  <2>4. QED
    BY <1>2, <1>4, <2>3 DEF Wide, SkipsBar
<1>5. CASE r.kind = "memory"
  <2>1. r.size % 16 = 0 /\ r.flags \in {0, 8}
    BY <1>5 DEF Registers
  <2>2. r.val % 8 = 0 /\ (r.top - r.size + r.flags) % 8 = 0
    BY <1>2, <1>3, <2>1
  <2>3. QED
    BY <1>2, <1>5, <2>2 DEF Wide, SkipsBar
<1>6. CASE r.kind = "ports"
  <2>1. r.size % 4 = 0 /\ r.flags = 1
    BY <1>6 DEF Registers
  <2>2. PICK n \in Nat : r.val = 4 * n + 1
    BY <2>1, LowBits
  <2>3. PICK u \in Nat : r.size = 4 * u
    BY <1>2, <2>1
  <2>4. r.val % 8 # 4 /\ r.val % 8 # 2 /\ (r.top - r.size + r.flags) % 8 # 4
    BY <1>1, <1>2, <2>1, <2>2, <2>3
  <2>5. QED
    BY <1>2, <1>6, <2>4 DEF Wide, SkipsBar
<1>7. CASE r.kind = "below"
  <2>1. r.size % 16 = 0 /\ r.flags \in {2, 10}
    BY <1>7 DEF Registers
  <2>2. r.val % 8 = 2
    BY <1>2, <1>3, <2>1
  <2>3. QED
    BY <1>7, <2>2 DEF SkipsBar
<1>8. CASE r.kind = "none"
  BY <1>8 DEF SkipsBar, Registers
<1>9. QED
  BY <1>4, <1>5, <1>6, <1>7, <1>8

(* What bar_size makes of a 32-bit register.                               *)
LEMMA SizeOf32 ==
  ASSUME NEW r \in Registers, r.kind \in {"memory", "ports"}
  PROVE  Negated(r.top - r.size + r.flags, RegValues)
           = (RegValues - r.top) + (IF r.size < 16 THEN 16 ELSE r.size)
<1> DEFINE v == r.top - r.size + r.flags
           gap == RegValues - r.top
<1>1. PICK w \in Nat : r.top = 16 * w
  BY TopSixteens
<1>2. /\ r.size \in Nat \ {0} /\ r.flags \in Nat /\ RegValues \in Nat /\ r.top \in Nat /\ r.top > 16
      /\ r.size < r.top /\ r.top <= RegValues
  BY OnesKept, RegValuesAssumption, PortValuesAssumption DEF Registers
<1>3. CASE r.size % 16 = 0
  <2>1. r.flags < 16
    BY <1>3 DEF Registers
  <2>2. PICK u \in Nat : r.size = 16 * u
    BY <1>2, <1>3
  <2>3. v % 16 = r.flags
    BY <1>1, <1>2, <2>1, <2>2
  <2>4. RegValues - (v - (v % 16)) = gap + r.size /\ r.size >= 16
    BY <1>2, <2>2, <2>3
  <2>5. (gap + r.size) % RegValues = gap + r.size
    BY <1>2
  <2>6. Negated(v, RegValues) = gap + r.size
    <3> HIDE DEF v
    <3> QED
      BY <2>4, <2>5 DEF Negated
  <2>7. QED
    BY <1>2, <2>4, <2>6
<1>4. CASE r.size \in {4, 8} /\ r.flags = 1
  <2>1. v % 16 = 17 - r.size
    BY <1>1, <1>2, <1>4
  <2>2. RegValues - (v - (v % 16)) = gap + 16
    BY <1>2, <1>4, <2>1
  <2>3. (gap + 16) % RegValues = gap + 16
    BY <1>2
  <2>4. QED
    BY <1>4, <2>2, <2>3 DEF Negated
<1>5. QED
  BY <1>3, <1>4 DEF Registers

(* ... and of a 64-bit one: either the size is in the lower half, or the   *)
(* lower half does not hold any of it.                                     *)
LEMMA SizeOf64 ==
  ASSUME NEW r \in Registers, NEW s \in Registers, r.kind = "wide", s.kind = "high",
         r.size < RegValues => s.size = 1
  PROVE  Negated((RegValues - r.size + r.flags) + RegValues * (RegValues - s.size + s.flags),
                 RegValues * RegValues)
           = IF r.size = RegValues THEN RegValues * s.size ELSE r.size
<1> DEFINE a == r.size
           b == s.size
           f == r.flags
           low == RegValues - a + f
           v == low + RegValues * (RegValues - b + s.flags)
<1>1. PICK w \in Nat : RegValues = 16 * w
  BY RegValuesAssumption
<1>2. /\ a \in Nat \ {0} /\ b \in Nat \ {0} /\ f \in {4, 12} /\ RegValues \in Nat /\ RegValues > 16
      /\ b < RegValues /\ a <= RegValues /\ a % 16 = 0 /\ s.flags = 0
      /\ a < RegValues => b = 1
  <2>1. r.top = RegValues /\ s.top = RegValues
    BY DEF Registers
  <2>2. QED
    BY <2>1, OnesKept, RegValuesAssumption DEF Registers
<1> HIDE DEF a, b, f
<1>3. PICK u \in Nat : a = 16 * u
  BY <1>2
<1>4. v = 16 * (w - u + w * (RegValues - b)) + f /\ w - u + w * (RegValues - b) \in Nat
  <2>1. w - u \in Nat /\ RegValues - b \in Nat
    BY <1>1, <1>2, <1>3
  <2>2. w * (RegValues - b) \in Nat
    BY <2>1
  <2>3. RegValues * (RegValues - b) = 16 * (w * (RegValues - b))
    BY <1>1, <2>1
  <2>4. QED
    BY <1>1, <1>2, <1>3, <2>1, <2>2, <2>3
<1>5. v % 16 = f
  <2> DEFINE e == w - u + w * (RegValues - b)
  <2>1. e \in Nat /\ v = 16 * e + f
    BY <1>4
  <2> HIDE DEF e, v
  <2>2. QED
    BY <1>2, <2>1
<1>6. RegValues * RegValues - (v - (v % 16)) = RegValues * b - RegValues + a
  BY <1>2, <1>5
<1>7. CASE a = RegValues
  <2>1. RegValues * b \in Nat /\ RegValues * b < RegValues * RegValues
    BY <1>2
  <2>2. (RegValues * b) % (RegValues * RegValues) = RegValues * b
    BY <1>2, <2>1
  <2>3. Negated(v, RegValues * RegValues) = RegValues * b
    <3>1. RegValues * RegValues - (v - (v % 16)) = RegValues * b
      <4> HIDE DEF v
      <4> QED
        BY <1>2, <1>6, <1>7, <2>1
    <3> HIDE DEF v
    <3>2. QED
      BY <2>2, <3>1 DEF Negated
  <2>4. QED
    BY <1>7, <2>3 DEF a, b, f
<1>8. CASE a < RegValues
  <2>1. b = 1 /\ RegValues * b - RegValues + a = a
    BY <1>2, <1>8
  <2>2. RegValues <= RegValues * RegValues
    BY <1>2
  <2>3. a % (RegValues * RegValues) = a
    BY <1>2, <1>8, <2>2
  <2>4. QED
    BY <1>2, <1>6, <1>8, <2>1, <2>3 DEF Negated, a, b, f
<1>9. QED
  BY <1>2, <1>7, <1>8

(* bar_size, from the two stores to the load between them: the size of the *)
(* base address register at o is found and its old value is put back.      *)
LEMMA BarSize ==
  ASSUME NEW f \in Functions, NEW o \in 0 .. 5, o < BarCount(f.type),
         f.regs[o].kind \in {"memory", "wide", "ports"}
  PROVE  LET regs == Asked(f.regs, o)
             old == Value(f.regs, o)
             wide == Wide(regs[o])
         IN  /\ wide <=> f.regs[o].kind = "wide"
             /\ Negated(Value(regs, o), IF wide THEN RegValues * RegValues ELSE RegValues)
                  = SizeFound(f.regs, o)
             /\ PutBack(regs, o, old) = f.regs
             /\ old \in Nat /\ SizeFound(f.regs, o) \in Nat
             /\ ~SkipsBar(f.regs[o]) <=> f.regs[o].val # 0
<1> DEFINE r == f.regs[o]
           s == f.regs[o + 1]
           regs == Asked(f.regs, o)
           old == Value(f.regs, o)
<1>1. /\ f.regs \in [0 .. 6 -> Registers] /\ o + 1 \in 0 .. 6 /\ o \in 0 .. 6 /\ o # o + 1
      /\ r \in Registers /\ s \in Registers
  BY DEF Functions
<1>2. RegValues \in Nat /\ RegValues > 16
  BY RegValuesAssumption
<1>3. /\ regs[o] = Written(r, Ones)
      /\ regs[o + 1] = IF Wide(r) THEN Written(s, Ones) ELSE s
      /\ regs = [f.regs EXCEPT ![o] = Written(r, Ones), ![o + 1] = IF Wide(r) THEN Written(s, Ones) ELSE s]
  BY <1>1 DEF Asked
<1>4. /\ Written(r, Ones).val = r.top - r.size + r.flags
      /\ Written(s, Ones).val = s.top - s.size + s.flags
      /\ r.top \in Nat /\ r.top <= RegValues
      /\ r.size \in Nat \ {0} /\ s.size \in Nat \ {0} /\ r.val \in Nat /\ s.val \in Nat
      /\ r.val < RegValues
  <2>1. /\ Written(r, Ones).val = r.top - r.size + r.flags
        /\ Written(s, Ones).val = s.top - s.size + s.flags
        /\ r.top \in Nat /\ r.top <= RegValues
    <3> HIDE DEF r, s
    <3> QED
      BY <1>1, OnesKept
  <2>2. /\ r.size \in Nat \ {0} /\ s.size \in Nat \ {0} /\ r.val \in Nat /\ s.val \in Nat
        /\ r.val < RegValues
    <3> HIDE DEF r, s
    <3> QED
      BY <1>1, <1>2, OnesKept DEF Registers
  <2>3. QED
    BY <2>1, <2>2
<1>5. Written(Written(r, Ones), r.val) = r /\ Written(Written(s, Ones), s.val) = s
  BY <1>1, WrittenBack
<1>6. /\ r.kind = "wide" => Wide(r) /\ Wide(Written(r, Ones)) /\ ~SkipsBar(r)
      /\ r.kind \in {"memory", "ports"} => ~Wide(r) /\ ~Wide(Written(r, Ones))
      /\ r.kind \in {"memory", "ports"} => (SkipsBar(r) <=> r.val = 0)
  BY <1>1, KindsSeen
<1>7. CASE r.kind = "wide"
  <2>1. /\ s.kind = "high" /\ (r.size < RegValues => s.size = 1)
        /\ r.top = RegValues /\ s.top = RegValues
    <3>1. o \in 0 .. BarCount(f.type) - 1
      BY DEF BarCount
    <3>2. s.kind = "high" /\ (r.size < RegValues => s.size = 1)
      BY <1>7, <3>1 DEF Functions
    <3> HIDE DEF r, s
    <3>3. QED
      BY <1>1, <1>7, <3>2 DEF Registers
  <2>2. old = r.val + RegValues * s.val /\ Wide(regs[o])
    BY <1>3, <1>6, <1>7 DEF Value
  <2>3. old % RegValues = r.val /\ old \div RegValues = s.val
    BY <1>1, <2>2, Halves
  <2>4. PutBack(regs, o, old) = f.regs
    <3>1. Written(regs[o], old % RegValues) = r /\ Written(regs[o + 1], old \div RegValues) = s
      BY <1>3, <1>5, <1>6, <1>7, <2>3
    <3> DEFINE back == [regs EXCEPT ![o] = Written(@, old % RegValues),
                                    ![o + 1] = Written(@, old \div RegValues)]
    <3>2. back = [regs EXCEPT ![o] = r, ![o + 1] = s]
      BY <1>1, <1>3, <3>1
    <3> HIDE DEF back
    <3>3. back = f.regs
      BY <1>1, <1>3, <3>2
    <3>4. QED
      BY <2>2, <3>3 DEF back, PutBack
  <2>5. Value(regs, o) = (RegValues - r.size + r.flags) + RegValues * (RegValues - s.size + s.flags)
    BY <1>3, <1>4, <1>6, <1>7, <2>1, <2>2 DEF Value
  <2>6. Negated(Value(regs, o), RegValues * RegValues)
          = IF r.size = RegValues THEN RegValues * s.size ELSE r.size
    BY <1>1, <1>7, <2>1, <2>5, SizeOf64
  <2>7. r.size >= 16 /\ RegValues * s.size >= 16 /\ RegValues * s.size \in Nat
    <3>1. r.size % 16 = 0
      BY <1>1, <1>7 DEF Registers
    <3>2. r.size >= 16
      BY <1>4, <3>1
    <3>3. RegValues * s.size >= 16 /\ RegValues * s.size \in Nat
      BY <1>2, <1>4
    <3>4. QED
      BY <3>2, <3>3
  <2>8. SizeFound(f.regs, o) = IF r.size = RegValues THEN RegValues * s.size ELSE r.size
    BY <1>2, <1>4, <1>6, <1>7, <2>1, <2>7 DEF SizeFound
  <2>9. old \in Nat /\ SizeFound(f.regs, o) \in Nat
    <3>1. RegValues * s.val \in Nat
      BY <1>2, <1>4
    <3>2. QED
      BY <1>4, <2>2, <2>7, <2>8, <3>1
  <2>10. r.val # 0
    BY <1>6, <1>7 DEF SkipsBar
  <2>11. QED
    BY <1>6, <1>7, <2>2, <2>4, <2>6, <2>8, <2>9, <2>10
<1>8. CASE r.kind \in {"memory", "ports"}
  <2>1. old = r.val /\ ~Wide(regs[o]) /\ ~Wide(r)
    BY <1>3, <1>6, <1>8 DEF Value
  <2>2. old % RegValues = r.val
    BY <1>2, <1>4, <2>1
  <2>3. PutBack(regs, o, old) = f.regs
    <3>1. Written(regs[o], old % RegValues) = r /\ regs[o + 1] = s
      BY <1>3, <1>5, <2>1, <2>2
    <3> DEFINE back == [regs EXCEPT ![o] = Written(@, old % RegValues), ![o + 1] = @]
    <3>2. back = [regs EXCEPT ![o] = r, ![o + 1] = s]
      BY <1>1, <1>3, <3>1
    <3> HIDE DEF back
    <3>3. back = f.regs
      BY <1>1, <1>3, <3>2
    <3>4. QED
      BY <2>1, <3>3 DEF back, PutBack
  <2>4. Value(regs, o) = r.top - r.size + r.flags
    BY <1>3, <1>4, <2>1 DEF Value
  <2>5. Negated(Value(regs, o), RegValues) = (RegValues - r.top) + (IF r.size < 16 THEN 16 ELSE r.size)
    BY <1>1, <1>8, <2>4, SizeOf32
  <2>6. SizeFound(f.regs, o) = (RegValues - r.top) + (IF r.size < 16 THEN 16 ELSE r.size)
    BY <2>1 DEF SizeFound
  <2>7. QED
    BY <1>2, <1>4, <1>6, <1>8, <2>1, <2>3, <2>5, <2>6
<1>9. QED
  BY <1>7, <1>8

(* The groups of a machine have numbers for their buses.                   *)
LEMMA GroupsTyped ==
  ASSUME machine \in Machines
  PROVE  /\ GroupCount \in Nat
         /\ \A g \in 1 .. GroupCount : machine.groups[g].start \in Nat /\ machine.groups[g].end \in Nat
<1>1. machine.groups \in Seq([start : Nat, end : Nat])
  BY MachinesAssumption
<1>2. \A g \in 1 .. Len(machine.groups) : machine.groups[g] \in [start : Nat, end : Nat]
  <2>1. \A S : \A s \in Seq(S) : \A g \in 1 .. Len(s) : s[g] \in S
    OBVIOUS
  <2>2. QED
    BY <1>1, <2>1
<1>3. Len(machine.groups) \in Nat
  BY <1>1
<1>4. QED
  BY <1>2, <1>3 DEF GroupCount

(* What is known of the functions that are looked at.                      *)
Located(p) ==
    /\ p[1] \in 1 .. GroupCount /\ p[2] \in Nat /\ p[3] \in 0 .. DevCount - 1 /\ p[4] \in 0 .. FunCount - 1
    /\ p = <<p[1], p[2], p[3], p[4]>>
    /\ machine.groups[p[1]].start <= p[2] /\ p[2] < machine.groups[p[1]].end
    /\ p[4] > 0 => /\ <<p[1], p[2], p[3], 0>> \in DOMAIN machine.functions
                   /\ machine.functions[<<p[1], p[2], p[3], 0>>].multi

LEMMA ScannedLocated ==
  ASSUME machine \in Machines, NEW p \in Scanned
  PROVE  Located(p)
<1>1. p \in (1 .. GroupCount) \X Nat \X (0 .. DevCount - 1) \X (0 .. FunCount - 1)
  BY MachinesAssumption DEF Scanned, GroupCount
<1>2. /\ p[1] \in 1 .. GroupCount /\ p[2] \in Nat /\ p[3] \in 0 .. DevCount - 1 /\ p[4] \in 0 .. FunCount - 1
      /\ p = <<p[1], p[2], p[3], p[4]>>
  BY <1>1
<1>3. /\ machine.groups[p[1]].start <= p[2] /\ p[2] < machine.groups[p[1]].end
      /\ p = <<p[1], p[2], p[3], 0>> \/ /\ <<p[1], p[2], p[3], 0>> \in DOMAIN machine.functions
                                        /\ machine.functions[<<p[1], p[2], p[3], 0>>].multi
  BY DEF Scanned
<1>4. p = <<p[1], p[2], p[3], 0>> => p[4] = 0
  BY <1>2
<1>5. QED
  BY <1>2, <1>3, <1>4 DEF Located

(* NextDevice goes on to what follows the functions of the device.         *)
LEMMA NextDeviceFollows ==
  ASSUME machine \in Machines,
         \A g \in 1 .. GroupCount : machine.groups[g].start < machine.groups[g].end,
         NEW q, InPlace(q), q[1] <= GroupCount,
         \A p \in Scanned : p[1] = q[1] /\ p[2] = q[2] /\ p[3] = q[3] => p[4] <= q[4]
  PROVE  /\ InPlace(NextDevice(q))
         /\ \A p \in Scanned : Earlier(p, NextDevice(q)) <=> Earlier(p, q) \/ p = q
<1>1. /\ q[1] \in 1 .. GroupCount /\ q[2] \in Nat /\ q[3] \in 0 .. DevCount - 1 /\ q[4] \in 0 .. FunCount - 1
      /\ q = <<q[1], q[2], q[3], q[4]>>
      /\ machine.groups[q[1]].start <= q[2] /\ q[2] < machine.groups[q[1]].end
  <2>1. q \in (1 .. GroupCount + 1) \X Nat \X (0 .. DevCount - 1) \X (0 .. FunCount - 1)
    BY DEF InPlace
  <2>2. machine.groups[q[1]].start <= q[2] /\ q[2] < machine.groups[q[1]].end
    BY DEF InPlace
  <2>3. GroupCount \in Nat
    BY MachinesAssumption DEF GroupCount
  <2>4. QED
    BY <2>1, <2>2, <2>3
<1>2. GroupCount \in Nat
  BY GroupsTyped
<1>3. DevCount \in Nat \ {0} /\ FunCount \in Nat \ {0}
  BY CountsAssumption
<1>4. \A g \in 1 .. GroupCount : machine.groups[g].start \in Nat /\ machine.groups[g].end \in Nat
  BY GroupsTyped
<1>5. CASE q[3] + 1 < DevCount
  <2> DEFINE z == <<q[1], q[2], q[3] + 1, 0>>
  <2>1. NextDevice(q) = z
    BY <1>5 DEF NextDevice
  <2>2. z[1] = q[1] /\ z[2] = q[2] /\ z[3] = q[3] + 1 /\ z[4] = 0
    OBVIOUS
  <2>3. InPlace(z)
    BY <1>1, <1>2, <1>3, <1>5 DEF InPlace
  <2>4. ASSUME NEW p \in Scanned
        PROVE  Earlier(p, z) <=> Earlier(p, q) \/ p = q
    <3> HIDE DEF z
    <3>1. Located(p)
      BY ScannedLocated
    <3>2. QED
      BY <1>1, <2>2, <3>1 DEF Earlier, Located
  <2>5. QED
    BY <2>1, <2>3, <2>4
<1>6. CASE q[3] + 1 >= DevCount /\ q[2] + 1 < machine.groups[q[1]].end
  <2> DEFINE z == <<q[1], q[2] + 1, 0, 0>>
  <2>1. NextDevice(q) = z
    BY <1>1, <1>3, <1>6 DEF NextDevice
  <2>2. z[1] = q[1] /\ z[2] = q[2] + 1 /\ z[3] = 0 /\ z[4] = 0
    OBVIOUS
  <2>3. InPlace(z)
    <3> HIDE DEF z
    <3>1. z[2] \in Nat /\ machine.groups[z[1]].start <= z[2] /\ z[2] < machine.groups[z[1]].end
      BY <1>1, <1>4, <1>6, <2>2
    <3>2. z \in (1 .. GroupCount + 1) \X Nat \X (0 .. DevCount - 1) \X (0 .. FunCount - 1)
      <4>1. z = <<z[1], z[2], z[3], z[4]>>
        BY DEF z
      <4>2. z[1] \in 1 .. GroupCount + 1 /\ z[3] \in 0 .. DevCount - 1 /\ z[4] \in 0 .. FunCount - 1
        BY <1>1, <1>2, <1>3, <2>2
      <4>3. QED
        BY <3>1, <4>1, <4>2
    <3>3. QED
      BY <2>2, <3>1, <3>2 DEF InPlace
  <2>4. ASSUME NEW p \in Scanned
        PROVE  Earlier(p, z) <=> Earlier(p, q) \/ p = q
    <3> HIDE DEF z
    <3>1. Located(p)
      BY ScannedLocated
    <3>2. p[1] = q[1] => p[2] \in Nat /\ machine.groups[q[1]].start \in Nat
      BY <1>1, <1>4, <3>1 DEF Located
    <3>3. QED
      BY <1>1, <1>3, <1>6, <2>2, <3>1, <3>2 DEF Earlier, Located
  <2>5. QED
    BY <2>1, <2>3, <2>4
<1>7. CASE q[3] + 1 >= DevCount /\ q[2] + 1 >= machine.groups[q[1]].end
  <2> DEFINE z == Start(q[1] + 1)
  <2>1. NextDevice(q) = z
    BY <1>1, <1>3, <1>4, <1>7 DEF NextDevice
  <2>2. /\ z[1] = q[1] + 1 /\ z[3] = 0 /\ z[4] = 0
        /\ z[2] = IF q[1] + 1 <= GroupCount THEN machine.groups[q[1] + 1].start ELSE 0
        /\ z = <<z[1], z[2], z[3], z[4]>>
    BY DEF Start, GroupCount
  <2>3. InPlace(z)
    <3> HIDE DEF z
    <3>1. z[1] \in 1 .. GroupCount + 1
      BY <1>1, <1>2, <2>2
    <3>2. z[1] <= GroupCount => z[2] = machine.groups[z[1]].start /\ z[2] \in Nat /\ z[2] < machine.groups[z[1]].end
      BY <1>1, <1>2, <1>4, <2>2
    <3>3. z[2] \in Nat /\ z[3] \in 0 .. DevCount - 1 /\ z[4] \in 0 .. FunCount - 1
      BY <1>1, <1>2, <1>3, <2>2, <3>2
    <3>4. z \in (1 .. GroupCount + 1) \X Nat \X (0 .. DevCount - 1) \X (0 .. FunCount - 1)
      BY <2>2, <3>1, <3>3
    <3>5. QED
      BY <1>1, <2>2, <3>1, <3>2, <3>4 DEF InPlace
  <2>4. ASSUME NEW p \in Scanned
        PROVE  Earlier(p, z) <=> Earlier(p, q) \/ p = q
    <3> HIDE DEF z
    <3>1. Located(p)
      BY ScannedLocated
    <3>2. p[1] = z[1] => p[2] >= z[2]
      BY <1>1, <1>2, <1>4, <2>2, <3>1 DEF Located
    <3>3. p[1] = q[1] => p[2] <= q[2]
      BY <1>1, <1>4, <1>7, <3>1 DEF Located
    <3>4. Earlier(p, z) <=> p[1] <= q[1]
      <4>1. z[2] \in Nat
        BY <1>1, <1>2, <1>4, <2>2
      <4>2. QED
        BY <1>1, <2>2, <3>1, <3>2, <4>1 DEF Earlier, Located
    <3>5. p[1] = q[1] => Earlier(p, q) \/ p = q
      BY <1>1, <1>3, <1>7, <3>1, <3>3 DEF Earlier, Located
    <3>6. Earlier(p, q) \/ p = q => p[1] <= q[1]
      BY <1>1, <3>1 DEF Earlier, Located
    <3>7. p[1] < q[1] => Earlier(p, q)
      BY DEF Earlier
    <3>8. QED
      BY <1>1, <3>1, <3>4, <3>5, <3>6, <3>7 DEF Located
  <2>5. QED
    BY <2>1, <2>3, <2>4
<1>8. QED
  BY <1>1, <1>3, <1>4, <1>5, <1>6, <1>7

(* find_devices goes through the functions in order and leaves none out.   *)
LEMMA AfterFollows ==
  ASSUME machine \in Machines, DOMAIN config = DOMAIN machine.functions,
         \A g \in 1 .. GroupCount : machine.groups[g].start < machine.groups[g].end,
         NEW q, InPlace(q), q[1] <= GroupCount
  PROVE  /\ InPlace(After(q))
         /\ \A p \in Scanned : Earlier(p, After(q)) <=> Earlier(p, q) \/ p = q
         /\ q \in Scanned <=> Present(q)
<1>1. /\ q[1] \in 1 .. GroupCount /\ q[2] \in Nat /\ q[3] \in 0 .. DevCount - 1 /\ q[4] \in 0 .. FunCount - 1
      /\ q = <<q[1], q[2], q[3], q[4]>>
      /\ machine.groups[q[1]].start <= q[2] /\ q[2] < machine.groups[q[1]].end
      /\ q[4] > 0 => /\ <<q[1], q[2], q[3], 0>> \in DOMAIN machine.functions
                     /\ machine.functions[<<q[1], q[2], q[3], 0>>].multi
  <2>1. q \in (1 .. GroupCount + 1) \X Nat \X (0 .. DevCount - 1) \X (0 .. FunCount - 1)
    BY DEF InPlace
  <2>2. GroupCount \in Nat
    BY MachinesAssumption DEF GroupCount
  <2>3. QED
    BY <2>1, <2>2 DEF InPlace
<1>2. GroupCount \in Nat /\ FunCount \in Nat \ {0}
  BY MachinesAssumption, CountsAssumption DEF GroupCount
<1>3. q \in Scanned <=> Present(q)
  BY <1>1 DEF Scanned, Present
<1>4. CASE q[4] = 0 /\ ~Multi(q)
  <2>1. \A p \in Scanned : p[1] = q[1] /\ p[2] = q[2] /\ p[3] = q[3] => p[4] <= q[4]
    <3> SUFFICES ASSUME NEW p \in Scanned, p[1] = q[1], p[2] = q[2], p[3] = q[3], p[4] > 0
                 PROVE  FALSE
      BY <1>1, ScannedLocated DEF Located
    <3>1. <<p[1], p[2], p[3], 0>> = q
      BY <1>1, <1>4
    <3>2. q \in DOMAIN machine.functions /\ machine.functions[q].multi
      BY <3>1, ScannedLocated DEF Located
    <3>3. QED
      BY <1>4, <3>2 DEF Multi, Present
  <2>2. After(q) = NextDevice(q)
    BY <1>4 DEF After
  <2>3. QED
    BY <1>3, <2>1, <2>2, NextDeviceFollows
<1>5. CASE ~(q[4] = 0 /\ ~Multi(q)) /\ q[4] + 1 < FunCount
  <2> DEFINE z == <<q[1], q[2], q[3], q[4] + 1>>
  <2>1. After(q) = z
    BY <1>5 DEF After, NextFunction
  <2>2. z[1] = q[1] /\ z[2] = q[2] /\ z[3] = q[3] /\ z[4] = q[4] + 1
    OBVIOUS
  <2>3. <<q[1], q[2], q[3], 0>> \in DOMAIN machine.functions /\ machine.functions[<<q[1], q[2], q[3], 0>>].multi
    <3>1. CASE q[4] > 0
      BY <1>1, <3>1
    <3>2. CASE q[4] = 0
      <4>1. q = <<q[1], q[2], q[3], 0>>
        BY <1>1, <3>2
      <4>2. QED
        BY <1>5, <3>2, <4>1 DEF Multi, Present
    <3>3. QED
      BY <1>1, <3>1, <3>2
  <2>4. InPlace(z)
    BY <1>1, <1>2, <1>5, <2>3 DEF InPlace
  <2>5. ASSUME NEW p \in Scanned
        PROVE  Earlier(p, z) <=> Earlier(p, q) \/ p = q
    <3> HIDE DEF z
    <3>1. Located(p)
      BY ScannedLocated
    <3>2. QED
      BY <1>1, <2>2, <3>1 DEF Earlier, Located
  <2>6. QED
    BY <1>3, <2>1, <2>4, <2>5
<1>6. CASE ~(q[4] = 0 /\ ~Multi(q)) /\ ~(q[4] + 1 < FunCount)
  <2>1. After(q) = NextDevice(q)
    BY <1>6 DEF After, NextFunction
  <2>2. \A p \in Scanned : p[1] = q[1] /\ p[2] = q[2] /\ p[3] = q[3] => p[4] <= q[4]
    BY <1>1, <1>2, <1>6, ScannedLocated DEF Located
  <2>3. QED
    BY <1>3, <2>1, <2>2, NextDeviceFollows
<1>7. QED
  BY <1>4, <1>5, <1>6

(* The search begins with the first function of the first group.           *)
LEMMA StartIsFirst ==
  ASSUME machine \in Machines,
         \A g \in 1 .. GroupCount : machine.groups[g].start < machine.groups[g].end
  PROVE  InPlace(Start(1)) /\ {p \in Scanned : Earlier(p, Start(1))} = {}
<1> DEFINE z == Start(1)
<1>1. /\ GroupCount \in Nat
      /\ \A g \in 1 .. GroupCount : machine.groups[g].start \in Nat /\ machine.groups[g].end \in Nat
  BY GroupsTyped
<1>2. DevCount \in Nat \ {0} /\ FunCount \in Nat \ {0}
  BY CountsAssumption
<1>3. /\ z[1] = 1 /\ z[3] = 0 /\ z[4] = 0
      /\ z[2] = IF 1 <= GroupCount THEN machine.groups[1].start ELSE 0
      /\ z = <<z[1], z[2], z[3], z[4]>>
  BY DEF Start, GroupCount
<1> HIDE DEF z
<1>4. 1 <= GroupCount => machine.groups[1].start \in Nat /\ machine.groups[1].start < machine.groups[1].end
  BY <1>1
<1>5. z \in (1 .. GroupCount + 1) \X Nat \X (0 .. DevCount - 1) \X (0 .. FunCount - 1)
  BY <1>1, <1>2, <1>3, <1>4
<1>6. InPlace(z)
  BY <1>3, <1>4, <1>5 DEF InPlace
<1>7. ASSUME NEW p \in Scanned PROVE ~Earlier(p, z)
  <2>1. Located(p)
    BY ScannedLocated
  <2>2. p[1] = 1 => p[2] >= z[2]
    BY <1>1, <1>3, <2>1 DEF Located
  <2>3. QED
    BY <1>1, <1>3, <2>1, <2>2 DEF Earlier, Located
<1>8. QED
  BY <1>6, <1>7 DEF z

(* init_acpi and get_acpi_table undo the mappings they do not keep.        *)
LEMMA AcpiSteps ==
  ASSUME PciInv, init_acpi \/ get_acpi_table, UNCHANGED pciVars
  PROVE  PciInv'
<1>1. UNCHANGED <<pci, machine, config, group, pos, memory, capacity, devices, probe>>
  BY DEF pciVars
<1>2. ListInv' /\ TableInv' /\ GroupsInv' /\ BarsTrue'
  <2>1. Listed' = Listed /\ Scanned' = Scanned /\ Descs' = Descs
    BY <1>1 DEF Listed, Scanned, Descs
  <2>2. InPlace(pos)' = InPlace(pos) /\ {p \in Scanned : Earlier(p, pos)}' = {p \in Scanned : Earlier(p, pos)}
    BY <1>1, <2>1 DEF InPlace, GroupCount, Earlier
  <2>3. ListInv'
    BY <1>1, <2>1, <2>2 DEF PciInv, ListInv
  <2>4. TableInv' /\ GroupsInv' /\ BarsTrue'
    BY <1>1 DEF PciInv, TableInv, GroupsInv, GroupCount, BarsTrue
  <2>5. QED
    BY <2>3, <2>4
<1>3. ConfigInv' /\ ProbeInv'
  <2>1. InWork' = InWork
    BY <1>1 DEF InWork
  <2>2. QED
    BY <1>1, <2>1 DEF PciInv, ConfigInv, ProbeInv
<1>4. AcpiInv'
  <2> USE DEF PciPlaces, Lookup, Scan
  <2>1. /\ AcpiInv /\ group \in Int /\ (pci \in {"off", "lookup"} => group = 1)
        /\ UNCHANGED <<pci, group>>
    BY <1>1 DEF PciInv, GroupsInv
  <2>2. CASE init_acpi
    <3>1. pci = "off" /\ acpi \in {"off", "length", "root"}
      BY <2>1, <2>2 DEF AcpiInv, init_acpi, MapRootHeader, ReadRootLength, MapRoot
    <3>2. \/ acpi' = "panic"
          \/ acpi' = "length" /\ mapped' = {<<"root header", 0>>}
          \/ acpi' = "root" /\ mapped' = {}
          \/ acpi' = "ready" /\ mapped' = {<<"root", 0>>}
      BY <2>1, <2>2 DEF AcpiInv, init_acpi, MapRootHeader, ReadRootLength, MapRoot, MapFails
    <3>3. QED
      BY <2>1, <3>1, <3>2 DEF AcpiInv
  <2>3. CASE get_acpi_table
    <3>1. pci = "lookup" /\ group = 1 /\ acpi \in {"search", "compare", "found"}
      BY <2>1, <2>3 DEF AcpiInv, get_acpi_table, MapHeader, CompareHeader, NotFound, MapTable
    <3>2. CASE MapHeader
      BY <2>1, <3>1, <3>2 DEF AcpiInv, MapHeader, MapFails
    <3>3. CASE CompareHeader
      <4>1. mapped' = {<<"root", 0>>}
        BY <2>1, <3>3 DEF AcpiInv, CompareHeader, DeleteHeader
      <4>2. acpi' \in {"found", "search"}
        BY <3>3 DEF CompareHeader
      <4>3. QED
        BY <2>1, <3>1, <4>1, <4>2 DEF AcpiInv
    <3>4. CASE NotFound
      BY <2>1, <3>1, <3>4 DEF AcpiInv, NotFound
    <3>5. CASE MapTable
      <4>1. {<<"window", g>> : g \in 1 .. group - 1} = {}
        BY <3>1
      <4>2. \/ acpi' = "panic"
            \/ acpi' = "returned" /\ mapped' = {<<"root", 0>>, <<"table", entry>>} /\ entry' = entry
        BY <2>1, <3>5 DEF AcpiInv, MapTable, MapFails
      <4>3. QED
        BY <2>1, <3>1, <4>1, <4>2 DEF AcpiInv
    <3>6. QED
      BY <2>3, <3>2, <3>3, <3>4, <3>5 DEF get_acpi_table
  <2>4. QED
    BY <2>2, <2>3
<1>5. QED
  BY <1>2, <1>3, <1>4 DEF PciInv

(* What holds when init_pci has not yet begun to search, or is over.       *)
LEMMA InitSteps ==
  ASSUME PciInv, CallInitPci \/ NoTable \/ AllocGroups \/ MapWindow
  PROVE  PciInv'
<1> USE DEF PciPlaces, Lookup, Scan
<1>1. /\ pci \in {"off", "lookup", "windows"} /\ pci' \in {"lookup", "windows", "false"}
      /\ UNCHANGED <<machine, config, pos, memory, capacity, devices, probe>>
  BY DEF CallInitPci, NoTable, AllocGroups, MapWindow, ReturnFalse
<1>2. ListInv' /\ TableInv' /\ BarsTrue'
  BY <1>1 DEF PciInv, ListInv, TableInv, BarsTrue, Listed, Scanned, Descs
<1>3. ConfigInv' /\ ProbeInv'
  <2>1. /\ DOMAIN config = DOMAIN machine.functions /\ config = machine.functions /\ probe = Idle
    BY <1>1 DEF PciInv, ConfigInv
  <2>2. QED
    BY <1>1, <2>1 DEF ConfigInv, ProbeInv
<1>4. GroupCount \in Nat
  BY GroupsTyped DEF PciInv, GroupsInv
<1>5. CASE CallInitPci
  <2>1. pci = "off" /\ acpi = "ready" /\ pci' = "lookup" /\ acpi' = "search" /\ group = 1
        /\ UNCHANGED <<root, mapped, machine, group>>
    BY <1>5 DEF CallInitPci, CallGetTable, PciInv, GroupsInv
  <2>2. AcpiInv' /\ GroupsInv'
    BY <2>1 DEF PciInv, AcpiInv, GroupsInv, GroupCount
  <2>3. QED
    BY <1>2, <1>3, <2>2 DEF PciInv
<1>6. CASE NoTable \/ AllocGroups
  <2>1. /\ pci = "lookup" /\ acpi \in {"missing", "returned"} /\ pci' \in {"false", "windows"}
        /\ pci' = "windows" => acpi = "returned"
        /\ UNCHANGED <<acpi, root, entry, mapped, machine, group>>
    BY <1>6 DEF NoTable, AllocGroups, ReturnFalse, acpiVars
  <2>2. AcpiInv' /\ GroupsInv'
    BY <2>1 DEF PciInv, AcpiInv, GroupsInv, GroupCount
  <2>3. QED
    BY <1>2, <1>3, <2>2 DEF PciInv
<1>7. CASE MapWindow
  <2>1. /\ pci = "windows" /\ group <= GroupCount /\ group \in 1 .. GroupCount + 1
        /\ acpi = "returned" /\ UNCHANGED <<acpi, root, entry, machine>>
        /\ mapped = {<<"root", 0>>, <<"table", entry>>} \cup {<<"window", g>> : g \in 1 .. group - 1}
    BY <1>7 DEF MapWindow, ReturnFalse, acpiVars, PciInv, AcpiInv, GroupsInv, GroupCount
  <2>2. CASE pci' = "false" /\ UNCHANGED <<mapped, group>>
    <3>1. AcpiInv' /\ GroupsInv'
      BY <2>1, <2>2 DEF PciInv, AcpiInv, GroupsInv, GroupCount
    <3>2. QED
      BY <1>2, <1>3, <3>1 DEF PciInv
  <2>3. CASE /\ pci' = pci /\ machine.groups[group].start < machine.groups[group].end
             /\ mapped' = mapped \cup {<<"window", group>>} /\ group' = group + 1
    <3>1. 1 .. group' - 1 = (1 .. group - 1) \cup {group}
      BY <2>1, <2>3
    <3>2. {<<"window", g>> : g \in 1 .. group' - 1}
            = {<<"window", g>> : g \in 1 .. group - 1} \cup {<<"window", group>>}
      BY <3>1
    <3>3. AcpiInv'
      BY <2>1, <2>3, <3>2 DEF AcpiInv
    <3>4. \A g \in 1 .. group' - 1 : machine.groups[g].start < machine.groups[g].end
      BY <2>1, <2>3, <3>1 DEF PciInv, GroupsInv
    <3>5. GroupsInv'
      BY <1>4, <2>1, <2>3, <3>4 DEF PciInv, GroupsInv, GroupCount
    <3>6. QED
      BY <1>2, <1>3, <3>3, <3>5 DEF PciInv
  <2>4. QED
    BY <1>7, <2>2, <2>3 DEF MapWindow, ReturnFalse, acpiVars
<1>8. QED
  BY <1>5, <1>6, <1>7

(* Nothing of the search is at the table of ACPI or at the windows.        *)
LEMMA ScanKeeps ==
  ASSUME PciInv, (pci = "windows" /\ group = GroupCount + 1) \/ pci \in Scan,
         pci' \in Scan \cup {"true", "false"}, UNCHANGED <<acpiVars, machine, group>>
  PROVE  AcpiInv' /\ GroupsInv'
<1>1. UNCHANGED <<acpi, root, entry, mapped>> /\ acpi = "returned"
  BY DEF acpiVars, PciInv, AcpiInv
<1>2. AcpiInv'
  BY <1>1 DEF PciInv, AcpiInv, PciPlaces, Lookup, Scan
<1>3. GroupsInv'
  BY DEF PciInv, GroupsInv, GroupCount, PciPlaces, Scan
<1>4. QED
  BY <1>2, <1>3

(* What find_devices does with its table.                                  *)
LEMMA ScanSteps ==
  ASSUME PciInv, find_devices
  PROVE  PciInv'
<1>0. /\ machine \in Machines /\ DOMAIN config = DOMAIN machine.functions
      /\ GroupCount \in Nat /\ group \in 1 .. GroupCount + 1
      /\ devices \in Seq(Descs) /\ capacity \in Nat
  BY GroupsTyped DEF PciInv, GroupsInv, ConfigInv, ListInv, TableInv
<1>1. CASE AllocTable
  <2>1. /\ pci = "windows" /\ group = GroupCount + 1 /\ memory = "none" /\ devices = << >>
        /\ UNCHANGED <<acpiVars, machine, config, group, probe>>
        /\ config = machine.functions /\ probe = Idle
        /\ \/ pci' = "scan" /\ memory' = "live" /\ capacity' = 2 /\ devices' = << >> /\ pos' = Start(1)
           \/ pci' = "false" /\ UNCHANGED <<memory, capacity, devices, pos>>
    BY <1>0, <1>1 DEF AllocTable, ReturnFalse, GroupCount, PciInv, TableInv, ConfigInv, GroupsInv, Scan
  <2>2. AcpiInv' /\ GroupsInv'
    BY <2>1, ScanKeeps DEF Scan
  <2>3. ConfigInv' /\ ProbeInv'
    BY <1>0, <2>1 DEF ConfigInv, ProbeInv
  <2>4. BarsTrue'
    BY <2>1 DEF BarsTrue
  <2>5. TableInv'
    BY <1>0, <2>1 DEF TableInv, Scan
  <2>6. ListInv'
    <3>1. devices' = << >> /\ Listed' = {} /\ Scanned' = Scanned
      BY <2>1 DEF Listed, Scanned
    <3>2. CASE pci' = "false"
      BY <3>1, <3>2 DEF ListInv, Scan
    <3>3. CASE pci' = "scan" /\ pos' = Start(1)
      <4>1. \A g \in 1 .. GroupCount : machine.groups[g].start < machine.groups[g].end
        BY <1>0, <2>1 DEF PciInv, GroupsInv
      <4>2. InPlace(Start(1)) /\ {p \in Scanned : Earlier(p, Start(1))} = {}
        BY <1>0, <4>1, StartIsFirst
      <4>3. InPlace(pos)' /\ {p \in Scanned : Earlier(p, pos)}' = {}
        BY <2>1, <3>1, <3>3, <4>2 DEF InPlace, GroupCount, Earlier
      <4>4. QED
        BY <3>1, <3>3, <4>3 DEF ListInv
    <3>4. QED
      BY <2>1, <3>2, <3>3
  <2>7. QED
    BY <2>2, <2>3, <2>4, <2>5, <2>6 DEF PciInv
<1>2. CASE SkipAbsent
  <2>1. /\ pci = "scan" /\ pci' = pci /\ pos[1] <= GroupCount /\ ~Present(pos) /\ pos' = After(pos)
        /\ UNCHANGED <<acpiVars, machine, config, group, memory, capacity, devices, probe>>
    BY <1>2 DEF SkipAbsent, Scanning, GroupCount
  <2>2. AcpiInv' /\ GroupsInv'
    BY <2>1, ScanKeeps DEF Scan
  <2>3. ConfigInv' /\ ProbeInv' /\ BarsTrue'
    BY <2>1 DEF PciInv, ConfigInv, ProbeInv, BarsTrue
  <2>4. TableInv'
    BY <2>1 DEF PciInv, TableInv, Scan
  <2>5. ListInv'
    <3>1. \A g \in 1 .. GroupCount : machine.groups[g].start < machine.groups[g].end
      BY <1>0, <2>1 DEF PciInv, GroupsInv, Scan
    <3>2. InPlace(pos) /\ Listed = {p \in Scanned : Earlier(p, pos)}
      BY <2>1 DEF PciInv, ListInv, Scan
    <3>3. /\ InPlace(After(pos)) /\ pos \notin Scanned
          /\ \A p \in Scanned : Earlier(p, After(pos)) <=> Earlier(p, pos) \/ p = pos
      BY <1>0, <2>1, <3>1, <3>2, AfterFollows
    <3>4. InPlace(pos)' /\ Listed' = Listed /\ Scanned' = Scanned /\ Descs' = Descs
      BY <2>1, <3>3 DEF InPlace, GroupCount, Listed, Scanned, Descs
    <3>5. {p \in Scanned : Earlier(p, pos)}' = {p \in Scanned : Earlier(p, After(pos))}
      BY <2>1, <3>4 DEF Earlier
    <3>6. QED
      BY <2>1, <3>2, <3>3, <3>4, <3>5 DEF PciInv, ListInv, Scan
  <2>6. QED
    BY <2>2, <2>3, <2>4, <2>5 DEF PciInv
<1>3. CASE GrowTable
  <2>1. /\ pci = "scan" /\ pci' \in {"scan", "false"} /\ Len(devices) = capacity /\ memory = "live"
        /\ UNCHANGED <<acpiVars, machine, config, group, pos, devices, probe>>
        /\ \/ capacity' = 2 * capacity /\ memory' = memory /\ pci' = "scan"
           \/ capacity' = capacity /\ memory' = "freed" /\ pci' = "false"
    BY <1>3 DEF GrowTable, Scanning, Full, ReturnFalse, PciInv, TableInv, Scan
  <2>2. AcpiInv' /\ GroupsInv'
    BY <2>1, ScanKeeps DEF Scan
  <2>3. ConfigInv' /\ ProbeInv' /\ BarsTrue'
    BY <2>1 DEF PciInv, ConfigInv, ProbeInv, BarsTrue
  <2>4. TableInv'
    BY <1>0, <2>1 DEF TableInv, Scan
  <2>5. ListInv'
    <3>1. Listed' = Listed /\ Scanned' = Scanned /\ Descs' = Descs
      BY <2>1 DEF Listed, Scanned, Descs
    <3>2. InPlace(pos)' = InPlace(pos) /\ {p \in Scanned : Earlier(p, pos)}' = {p \in Scanned : Earlier(p, pos)}
      BY <2>1, <3>1 DEF InPlace, GroupCount, Earlier
    <3>3. QED
      BY <2>1, <3>1, <3>2 DEF PciInv, ListInv, Scan
  <2>6. QED
    BY <2>2, <2>3, <2>4, <2>5 DEF PciInv
<1>4. CASE EndScan
  <2>1. /\ pci = "scan" /\ pci' = "true" /\ pos[1] > GroupCount
        /\ UNCHANGED <<acpiVars, machine, config, group, pos, memory, capacity, devices, probe>>
    BY <1>4 DEF EndScan, GroupCount
  <2>2. AcpiInv' /\ GroupsInv'
    BY <2>1, ScanKeeps DEF Scan
  <2>3. ConfigInv' /\ ProbeInv' /\ BarsTrue' /\ TableInv'
    BY <2>1 DEF PciInv, ConfigInv, ProbeInv, BarsTrue, TableInv, Scan
  <2>4. ListInv'
    <3>1. InPlace(pos) /\ Listed = {p \in Scanned : Earlier(p, pos)}
      BY <2>1 DEF PciInv, ListInv, Scan
    <3>2. \A p \in Scanned : Earlier(p, pos)
      <4>1. pos[1] \in Int
        BY <1>0, <3>1 DEF InPlace
      <4>2. ASSUME NEW p \in Scanned PROVE p[1] < pos[1]
        <5>1. Located(p)
          BY <1>0, ScannedLocated
        <5>2. QED
          BY <1>0, <2>1, <4>1, <5>1 DEF Located
      <4>3. QED
        BY <4>2 DEF Earlier
    <3>3. Listed' = Scanned'
      BY <2>1, <3>1, <3>2 DEF Listed, Scanned
    <3>4. QED
      BY <2>1, <3>3 DEF PciInv, ListInv, Scan, Descs
  <2>5. QED
    BY <2>2, <2>3, <2>4 DEF PciInv
<1>5. QED
  BY <1>1, <1>2, <1>3, <1>4 DEF find_devices

(* The function in work is recorded, and the next one is looked at.        *)
LEMMA RecordKeeps ==
  ASSUME PciInv, pci \in Scan, pos[1] <= GroupCount, pos \in DOMAIN machine.functions,
         Len(devices) < capacity,
         NEW bars \in [0 .. 5 -> Bars],
         \A o \in 0 .. 5 : bars[o] = BarOf(machine.functions[pos], o),
         Record(bars), pci' = "scan", UNCHANGED <<acpiVars, machine, group, memory, capacity>>
  PROVE  AcpiInv' /\ GroupsInv' /\ ListInv' /\ TableInv' /\ BarsTrue'
<1> DEFINE d == [function |-> pos, bars |-> bars]
<1>1. /\ machine \in Machines /\ DOMAIN config = DOMAIN machine.functions
      /\ GroupCount \in Nat /\ devices \in Seq(Descs) /\ capacity \in Nat
      /\ \A g \in 1 .. GroupCount : machine.groups[g].start < machine.groups[g].end
      /\ InPlace(pos) /\ Listed = {p \in Scanned : Earlier(p, pos)}
      /\ memory = "live"
  BY GroupsTyped DEF PciInv, GroupsInv, ConfigInv, ListInv, TableInv, Scan
<1>2. d \in Descs /\ d.function = pos /\ d.bars = bars
  BY DEF Descs
<1>3. devices' = Append(devices, d) /\ pos' = After(pos)
  BY DEF Record
<1> HIDE DEF d
<1>4. /\ devices' \in Seq(Descs) /\ Len(devices') = Len(devices) + 1 /\ Len(devices) \in Nat
      /\ DOMAIN devices' = 1 .. Len(devices) + 1 /\ DOMAIN devices = 1 .. Len(devices)
      /\ devices'[Len(devices) + 1] = d
      /\ \A i \in 1 .. Len(devices) : devices'[i] = devices[i]
  BY <1>1, <1>2, <1>3
<1>5. AcpiInv' /\ GroupsInv'
  BY ScanKeeps DEF Scan
<1>6. TableInv'
  BY <1>1, <1>4 DEF TableInv, Scan
<1>7. /\ InPlace(After(pos)) /\ pos \in Scanned
      /\ \A p \in Scanned : Earlier(p, After(pos)) <=> Earlier(p, pos) \/ p = pos
  BY <1>1, AfterFollows DEF Present
<1>8. ~Earlier(pos, pos)
  <2>1. Located(pos)
    BY <1>1, <1>7, ScannedLocated
  <2>2. QED
    BY <1>1, <2>1 DEF Earlier, Located
<1>9. pos \notin Listed
  BY <1>1, <1>8
<1>10. Listed' = Listed \cup {pos}
  BY <1>2, <1>4 DEF Listed
<1>11. Scanned' = Scanned /\ Descs' = Descs /\ InPlace(pos)' = InPlace(After(pos))
  BY <1>3 DEF Scanned, Descs, InPlace, GroupCount
<1>12. {p \in Scanned : Earlier(p, pos)}' = {p \in Scanned : Earlier(p, pos)} \cup {pos}
  BY <1>3, <1>7, <1>11 DEF Earlier
<1>13. \A i, l \in 1 .. Len(devices') : devices'[i].function = devices'[l].function => i = l
  <2>1. \A i, l \in 1 .. Len(devices) : devices[i].function = devices[l].function => i = l
    BY DEF PciInv, ListInv
  <2>2. \A i \in 1 .. Len(devices) : devices[i].function # pos
    BY <1>4, <1>9 DEF Listed
  <2>3. QED
    BY <1>2, <1>4, <2>1, <2>2
<1>14. ListInv'
  BY <1>1, <1>4, <1>7, <1>10, <1>11, <1>12, <1>13 DEF ListInv, Scan
<1>15. BarsTrue'
  <2> SUFFICES ASSUME NEW i \in 1 .. Len(devices) + 1, NEW o \in 0 .. 5
               PROVE  devices'[i].bars[o] = BarOf(machine.functions[devices'[i].function], o)
    BY <1>4 DEF BarsTrue
  <2>1. CASE i = Len(devices) + 1
    BY <1>2, <1>4, <2>1
  <2>2. CASE i # Len(devices) + 1
    <3>1. i \in DOMAIN devices /\ devices'[i] = devices[i]
      BY <1>4, <2>2
    <3>2. devices[i].bars[o] = BarOf(machine.functions[devices[i].function], o)
      BY <3>1 DEF PciInv, BarsTrue
    <3>3. QED
      BY <3>1, <3>2
  <2>3. QED
    BY <2>1, <2>2
<1>16. QED
  BY <1>5, <1>6, <1>14, <1>15

(* The steps of make_dev_desc that record nothing.                         *)
LEMMA ProbeKeeps ==
  ASSUME PciInv, pci \in Scan, pci' \in Scan,
         pos \in DOMAIN machine.functions, Len(devices) < capacity,
         UNCHANGED <<acpiVars, machine, group, pos, memory, capacity, devices>>
  PROVE  AcpiInv' /\ GroupsInv' /\ ListInv' /\ TableInv' /\ BarsTrue'
<1>1. AcpiInv' /\ GroupsInv'
  BY ScanKeeps DEF Scan
<1>2. TableInv' /\ BarsTrue'
  BY DEF PciInv, TableInv, BarsTrue, Scan
<1>3. ListInv'
  <2>1. Listed' = Listed /\ Scanned' = Scanned /\ Descs' = Descs
    BY DEF Listed, Scanned, Descs
  <2>2. InPlace(pos)' = InPlace(pos) /\ {p \in Scanned : Earlier(p, pos)}' = {p \in Scanned : Earlier(p, pos)}
    BY <2>1 DEF InPlace, GroupCount, Earlier
  <2>3. QED
    BY <2>1, <2>2 DEF PciInv, ListInv, Scan
<1>4. QED
  BY <1>1, <1>2, <1>3

(* What the function in work is.                                           *)
LEMMA FunctionTyped ==
  ASSUME PciInv, pos \in DOMAIN machine.functions
  PROVE  /\ machine.functions \in [DOMAIN machine.functions -> Functions]
         /\ machine.functions[pos] \in Functions
         /\ machine.functions[pos].regs \in [0 .. 6 -> Registers]
         /\ machine.functions[pos].command \in Nat
         /\ machine.functions[pos] \in [multi : BOOLEAN, type : Nat, command : Nat, regs : [0 .. 6 -> Registers]]
<1>1. machine.functions \in [DOMAIN machine.functions -> Functions]
  BY MachinesAssumption DEF PciInv, GroupsInv
<1>2. machine.functions[pos] \in Functions
  BY <1>1
<1>3. QED
  BY <1>1, <1>2 DEF Functions

(* make_dev_desc begins: nothing is decoded while the registers change.    *)
LEMMA DescribeStep ==
  ASSUME PciInv, Describe
  PROVE  PciInv'
<1> DEFINE f == machine.functions[pos]
<1>1. /\ pci = "scan" /\ pos[1] <= GroupCount /\ pos \in DOMAIN machine.functions
      /\ Len(devices) # capacity /\ config = machine.functions /\ probe = Idle
      /\ UNCHANGED <<acpiVars, machine, group, memory, capacity>>
  BY DEF Describe, Scanning, Full, Present, GroupCount, PciInv, ConfigInv
<1>2. Len(devices) < capacity
  BY <1>1 DEF PciInv, TableInv, ListInv, Scan
<1>3. /\ f \in Functions /\ machine.functions \in [DOMAIN machine.functions -> Functions]
      /\ f \in [multi : BOOLEAN, type : Nat, command : Nat, regs : [0 .. 6 -> Registers]]
  BY <1>1, FunctionTyped
<1>4. CASE BarCount(f.type) = 0
  <2>1. Record(NoBars) /\ UNCHANGED <<pci, config, probe>>
    BY <1>1, <1>4 DEF Describe
  <2>2. NoBars \in [0 .. 5 -> Bars] /\ \A o \in 0 .. 5 : NoBars[o] = BarOf(f, o)
    BY <1>4 DEF NoBars, NoBar, Bars, BarOf
  <2>3. AcpiInv' /\ GroupsInv' /\ ListInv' /\ TableInv' /\ BarsTrue'
    BY <1>1, <1>2, <2>1, <2>2, RecordKeeps DEF Scan
  <2>4. ConfigInv' /\ ProbeInv'
    BY <1>1, <2>1 DEF ConfigInv, ProbeInv
  <2>5. QED
    BY <2>3, <2>4 DEF PciInv
<1>5. CASE BarCount(f.type) # 0
  <2>1. /\ pci' = "probe" /\ UNCHANGED <<pos, devices>>
        /\ probe' = [offset |-> 0, cmd |-> f.command, bars |-> NoBars]
        /\ config' = [machine.functions EXCEPT ![pos].command = 0]
    BY <1>1, <1>5 DEF Describe, Quiet
  <2>2. AcpiInv' /\ GroupsInv' /\ ListInv' /\ TableInv' /\ BarsTrue'
    BY <1>1, <1>2, <2>1, ProbeKeeps DEF Scan
  <2>3. BarCount(f.type) \in {2, 6}
    BY <1>5 DEF BarCount
  <2>4. ConfigInv'
    <3>1. InWork' = [f EXCEPT !.command = 0]
      BY <1>1, <1>3, <2>1 DEF InWork
    <3>2. config' = [machine.functions EXCEPT ![pos] = [f EXCEPT !.command = 0]]
      BY <2>1
    <3>3. probe'.cmd = f.command
      BY <2>1
    <3>4. QED
      BY <1>1, <2>1, <3>1, <3>2, <3>3 DEF ConfigInv
  <2>5. ProbeInv'
    <3>1. f.regs[0].kind # "high"
      BY <1>3, <2>3 DEF Functions
    <3>2. /\ probe' \in [offset : 0 .. BarCount(f.type), cmd : Nat, bars : [0 .. 5 -> Bars]]
          /\ probe'.offset = 0 /\ probe'.bars = NoBars
      BY <1>3, <2>1, <2>3 DEF NoBars, NoBar, Bars
    <3>3. \A o \in 0 .. 5 : NoBars[o] = NoBar
      BY DEF NoBars
    <3>4. QED
      BY <1>1, <2>1, <3>1, <3>2, <3>3 DEF ProbeInv
  <2>6. QED
    BY <2>2, <2>4, <2>5 DEF PciInv
<1>6. QED
  BY <1>4, <1>5

(* What is true while make_dev_desc is at a register.                      *)
LEMMA AtRegister ==
  ASSUME PciInv, pci \in {"probe", "read"}
  PROVE  /\ pos \in DOMAIN machine.functions /\ Len(devices) < capacity
         /\ config[pos].type = machine.functions[pos].type
         /\ config[pos].regs = IF pci = "read" THEN Asked(machine.functions[pos].regs, probe.offset)
                               ELSE machine.functions[pos].regs
         /\ config = [machine.functions EXCEPT ![pos] = InWork]
         /\ config[pos] = InWork
         /\ BarCount(machine.functions[pos].type) \in {0, 2, 6}
<1>1. pos \in DOMAIN machine.functions /\ Len(devices) < capacity
  BY DEF PciInv, TableInv
<1>2. config = [machine.functions EXCEPT ![pos] = InWork]
  BY DEF PciInv, ConfigInv
<1>3. machine.functions[pos] \in [multi : BOOLEAN, type : Nat, command : Nat, regs : [0 .. 6 -> Registers]]
  BY <1>1, FunctionTyped
<1>4. config[pos] = InWork
  BY <1>1, <1>2
<1>5. QED
  BY <1>1, <1>2, <1>3, <1>4 DEF InWork, BarCount

(* A register that is not there, or not handled, is left alone.            *)
LEMMA SkipBarStep ==
  ASSUME PciInv, SkipBar
  PROVE  PciInv'
<1> DEFINE f == machine.functions[pos]
           o == probe.offset
<1>1. /\ pci = "probe" /\ pci' = pci /\ o < BarCount(config[pos].type)
      /\ SkipsBar(config[pos].regs[o]) /\ probe' = [probe EXCEPT !.offset = @ + 1]
      /\ UNCHANGED <<acpiVars, machine, config, group, pos, memory, capacity, devices>>
  BY DEF SkipBar, Probing, Reg
<1>2. /\ pos \in DOMAIN machine.functions /\ Len(devices) < capacity
      /\ config[pos].type = f.type /\ config[pos].regs = f.regs
      /\ BarCount(f.type) \in {0, 2, 6}
  BY <1>1, AtRegister
<1>3. f \in Functions /\ f.regs \in [0 .. 6 -> Registers]
  BY <1>2, FunctionTyped
<1>4. AcpiInv' /\ GroupsInv' /\ ListInv' /\ TableInv' /\ BarsTrue'
  BY <1>1, <1>2, ProbeKeeps DEF Scan
<1>5. /\ probe \in [offset : 0 .. BarCount(f.type), cmd : Nat, bars : [0 .. 5 -> Bars]]
      /\ f.regs[o].kind # "high"
      /\ \A i \in 0 .. 5 : i < o => probe.bars[i] = BarOf(f, i)
      /\ \A i \in 0 .. 5 : i > o => probe.bars[i] = NoBar
      /\ o < 6 => probe.bars[o] = NoBar
  BY <1>1, <1>2 DEF PciInv, ProbeInv
<1>6. o \in 0 .. 5 /\ f.regs[o] \in Registers /\ o \in 0 .. BarCount(f.type) - 1
  <2>1. o \in 0 .. BarCount(f.type) /\ o < BarCount(f.type) /\ BarCount(f.type) \in {0, 2, 6}
    BY <1>1, <1>2, <1>5
  <2>2. o \in 0 .. 5 /\ o \in 0 .. BarCount(f.type) - 1
    BY <2>1
  <2>3. QED
    BY <1>3, <2>2
<1>7. f.regs[o].kind # "wide" /\ BarOf(f, o) = NoBar
  <2>1. /\ f.regs[o].kind = "wide" => ~SkipsBar(f.regs[o])
        /\ f.regs[o].kind \in {"memory", "ports"} => (SkipsBar(f.regs[o]) <=> f.regs[o].val = 0)
    BY <1>6, KindsSeen
  <2>2. QED
    BY <1>1, <1>2, <2>1 DEF BarOf
<1>8. o + 1 < BarCount(f.type) => f.regs[o + 1].kind # "high"
  <2> SUFFICES ASSUME o + 1 < BarCount(f.type), f.regs[o + 1].kind = "high" PROVE FALSE
    OBVIOUS
  <2>1. o + 1 \in 0 .. BarCount(f.type) - 1 /\ (o + 1) - 1 = o
    BY <1>2, <1>6
  <2>2. \A i \in 0 .. BarCount(f.type) - 1 : f.regs[i].kind = "high" => f.regs[i - 1].kind = "wide"
    BY <1>3 DEF Functions
  <2>3. f.regs[(o + 1) - 1].kind = "wide"
    BY <2>1, <2>2
  <2>4. QED
    BY <1>7, <2>1, <2>3
<1>9. /\ probe' \in [offset : 0 .. BarCount(f.type), cmd : Nat, bars : [0 .. 5 -> Bars]]
      /\ probe'.offset = o + 1 /\ probe'.bars = probe.bars /\ probe'.cmd = probe.cmd
  BY <1>1, <1>2, <1>5, <1>6
<1>10. ProbeInv'
  <2>1. \A i \in 0 .. 5 : i < o + 1 => probe.bars[i] = BarOf(f, i)
    BY <1>5, <1>6, <1>7
  <2>2. \A i \in 0 .. 5 : i >= o + 1 => probe.bars[i] = NoBar
    BY <1>5, <1>6
  <2>3. QED
    BY <1>1, <1>6, <1>8, <1>9, <2>1, <2>2 DEF ProbeInv
<1>11. ConfigInv'
  <2>1. InWork' = InWork
    BY <1>1 DEF InWork
  <2>2. QED
    BY <1>1, <1>9, <2>1 DEF PciInv, ConfigInv
<1>12. QED
  BY <1>4, <1>10, <1>11 DEF PciInv

(* The first half of bar_size: ones are written.                           *)
LEMMA WriteOnesStep ==
  ASSUME PciInv, WriteOnes
  PROVE  PciInv'
<1> DEFINE f == machine.functions[pos]
           o == probe.offset
<1>1. /\ pci = "probe" /\ pci' = "read" /\ o < BarCount(config[pos].type)
      /\ ~SkipsBar(config[pos].regs[o])
      /\ probe' = [probe EXCEPT !.bars[o].addr = Value(config[pos].regs, o)]
      /\ config' = [config EXCEPT ![pos].regs = Asked(@, o)]
      /\ UNCHANGED <<acpiVars, machine, group, pos, memory, capacity, devices>>
  BY DEF WriteOnes, Probing, Reg
<1>2. /\ pos \in DOMAIN machine.functions /\ Len(devices) < capacity
      /\ config[pos].type = f.type /\ config[pos].regs = f.regs
      /\ BarCount(f.type) \in {0, 2, 6}
      /\ config = [machine.functions EXCEPT ![pos] = InWork]
  BY <1>1, AtRegister
<1>3. /\ f \in Functions /\ f.regs \in [0 .. 6 -> Registers]
      /\ f \in [multi : BOOLEAN, type : Nat, command : Nat, regs : [0 .. 6 -> Registers]]
  BY <1>2, FunctionTyped
<1>4. AcpiInv' /\ GroupsInv' /\ ListInv' /\ TableInv' /\ BarsTrue'
  BY <1>1, <1>2, ProbeKeeps DEF Scan
<1>5. /\ probe \in [offset : 0 .. BarCount(f.type), cmd : Nat, bars : [0 .. 5 -> Bars]]
      /\ f.regs[o].kind # "high"
      /\ \A i \in 0 .. 5 : i < o => probe.bars[i] = BarOf(f, i)
      /\ \A i \in 0 .. 5 : i > o => probe.bars[i] = NoBar
      /\ o < 6 => probe.bars[o] = NoBar
  BY <1>1, <1>2 DEF PciInv, ProbeInv
<1>6. o \in 0 .. 5 /\ f.regs[o] \in Registers /\ o \in 0 .. BarCount(f.type) - 1
  <2>1. o \in 0 .. BarCount(f.type) /\ o < BarCount(f.type) /\ BarCount(f.type) \in {0, 2, 6}
    BY <1>1, <1>2, <1>5
  <2>2. o \in 0 .. 5 /\ o \in 0 .. BarCount(f.type) - 1
    BY <2>1
  <2>3. QED
    BY <1>3, <2>2
<1>7. f.regs[o].kind \in {"memory", "wide", "ports"} /\ f.regs[o].val # 0
  <2>1. /\ f.regs[o].kind \in {"none", "below"} => SkipsBar(f.regs[o])
        /\ f.regs[o].val # 0
    BY <1>1, <1>2, <1>6, KindsSeen DEF SkipsBar
  <2>2. f.regs[o].kind # "other"
    BY <1>3, <1>6 DEF Functions
  <2>3. f.regs[o].kind \in Kinds
    BY <1>6 DEF Registers
  <2>4. QED
    BY <1>1, <1>2, <1>5, <2>1, <2>2, <2>3 DEF Kinds
<1>8. Value(f.regs, o) \in Nat
  BY <1>1, <1>2, <1>3, <1>6, <1>7, BarSize
<1>9. /\ probe'.offset = o /\ probe'.cmd = probe.cmd
      /\ probe'.bars = [probe.bars EXCEPT ![o] = [addr |-> Value(f.regs, o), size |-> 0]]
      /\ probe' \in [offset : 0 .. BarCount(f.type), cmd : Nat, bars : [0 .. 5 -> Bars]]
  <2>1. probe.bars \in [0 .. 5 -> Bars] /\ probe.bars[o] = [addr |-> 0, size |-> 0]
    BY <1>5, <1>6 DEF NoBar
  <2>2. [probe.bars[o] EXCEPT !.addr = Value(f.regs, o)] = [addr |-> Value(f.regs, o), size |-> 0]
    BY <2>1
  <2>3. probe' = [probe EXCEPT !.bars = [probe.bars EXCEPT ![o] = [addr |-> Value(f.regs, o), size |-> 0]]]
    BY <1>1, <1>2, <1>5, <2>1, <2>2
  <2>4. [probe.bars EXCEPT ![o] = [addr |-> Value(f.regs, o), size |-> 0]] \in [0 .. 5 -> Bars]
    BY <1>6, <1>8, <2>1 DEF Bars
  <2>5. QED
    BY <1>5, <2>3, <2>4
<1>10. ProbeInv'
  <2>1. \A i \in 0 .. 5 : i # o => probe'.bars[i] = probe.bars[i]
    BY <1>5, <1>6, <1>9
  <2>2. probe'.bars[o] = [addr |-> Value(f.regs, o), size |-> 0]
    BY <1>5, <1>6, <1>9
  <2>3. \A i \in 0 .. 5 : i < o => probe'.bars[i] = BarOf(f, i)
    BY <1>5, <1>6, <2>1
  <2>4. \A i \in 0 .. 5 : i > o => probe'.bars[i] = NoBar
    BY <1>5, <1>6, <2>1
  <2>5. o < BarCount(f.type)
    BY <1>1, <1>2
  <2>6. QED
    BY <1>1, <1>5, <1>7, <1>9, <2>2, <2>3, <2>4, <2>5 DEF ProbeInv
<1>11. ConfigInv'
  <2>1. InWork = [f EXCEPT !.command = 0] /\ config[pos] = InWork
    BY <1>1, <1>2, <1>3 DEF InWork
  <2>2. InWork' = [f EXCEPT !.command = 0, !.regs = Asked(f.regs, o)]
    BY <1>1, <1>3, <1>9 DEF InWork
  <2>3. config[pos].regs = f.regs
    BY <1>2
  <2>4. config' = [config EXCEPT ![pos] = [config[pos] EXCEPT !.regs = Asked(f.regs, o)]]
    BY <1>1, <2>3
  <2>5. [config[pos] EXCEPT !.regs = Asked(f.regs, o)] = InWork'
    BY <1>3, <2>1, <2>2
  <2>6. config' = [machine.functions EXCEPT ![pos] = InWork']
    BY <1>2, <2>4, <2>5
  <2>7. QED
    BY <1>1, <1>2, <1>9, <2>6 DEF PciInv, ConfigInv
<1>12. QED
  BY <1>4, <1>10, <1>11 DEF PciInv

(* The second half: the size is read, and the register is written back.    *)
LEMMA ReadSizeStep ==
  ASSUME PciInv, ReadSize
  PROVE  PciInv'
<1> DEFINE f == machine.functions[pos]
           o == probe.offset
           regs == Asked(f.regs, o)
           size == Negated(Value(regs, o), IF Wide(regs[o]) THEN RegValues * RegValues ELSE RegValues)
           step == IF Wide(regs[o]) THEN 2 ELSE 1
<1>1. /\ pci = "read" /\ pci' = "probe"
      /\ UNCHANGED <<acpiVars, machine, group, pos, memory, capacity, devices>>
  BY DEF ReadSize
<1>2. /\ pos \in DOMAIN machine.functions /\ Len(devices) < capacity
      /\ config[pos].regs = regs
      /\ BarCount(f.type) \in {0, 2, 6}
      /\ config = [machine.functions EXCEPT ![pos] = InWork] /\ config[pos] = InWork
  BY <1>1, AtRegister
<1>3. /\ f \in Functions /\ f.regs \in [0 .. 6 -> Registers]
      /\ f \in [multi : BOOLEAN, type : Nat, command : Nat, regs : [0 .. 6 -> Registers]]
  BY <1>2, FunctionTyped
<1>4. AcpiInv' /\ GroupsInv' /\ ListInv' /\ TableInv' /\ BarsTrue'
  BY <1>1, <1>2, ProbeKeeps DEF Scan
<1>5. /\ probe \in [offset : 0 .. BarCount(f.type), cmd : Nat, bars : [0 .. 5 -> Bars]]
      /\ \A i \in 0 .. 5 : i < o => probe.bars[i] = BarOf(f, i)
      /\ \A i \in 0 .. 5 : i > o => probe.bars[i] = NoBar
      /\ o < BarCount(f.type)
      /\ f.regs[o].kind \in {"memory", "wide", "ports"}
      /\ f.regs[o].val # 0
      /\ probe.bars[o] = [addr |-> Value(f.regs, o), size |-> 0]
  BY <1>1 DEF PciInv, ProbeInv
<1>6. o \in 0 .. 5 /\ o \in 0 .. BarCount(f.type) - 1
  BY <1>2, <1>5
<1>7. /\ Wide(regs[o]) <=> f.regs[o].kind = "wide"
      /\ size = SizeFound(f.regs, o)
      /\ PutBack(regs, o, Value(f.regs, o)) = f.regs
      /\ Value(f.regs, o) \in Nat /\ SizeFound(f.regs, o) \in Nat
  BY <1>3, <1>5, <1>6, BarSize
<1>8. /\ probe' = [probe EXCEPT !.bars[o].size = size, !.offset = @ + step]
      /\ config' = [config EXCEPT ![pos].regs = PutBack(regs, o, Value(f.regs, o))]
  BY <1>2, <1>5 DEF ReadSize, Reg, RegsOf
<1>9. BarOf(f, o) = [addr |-> Value(f.regs, o), size |-> size]
  BY <1>5, <1>7 DEF BarOf
<1>10. /\ step \in {1, 2} /\ o + step \in 0 .. BarCount(f.type)
       /\ o + step < BarCount(f.type) => f.regs[o + step].kind # "high"
       /\ step = 2 => BarOf(f, o + 1) = NoBar
  <2>1. \A i \in 0 .. BarCount(f.type) - 1 :
          /\ f.regs[i].kind = "high" => i > 0 /\ f.regs[i - 1].kind = "wide"
          /\ f.regs[i].kind = "wide" => i + 1 < BarCount(f.type) /\ f.regs[i + 1].kind = "high"
    BY <1>3 DEF Functions
  <2>2. CASE f.regs[o].kind = "wide"
    <3>1. step = 2 /\ o + 1 < BarCount(f.type) /\ f.regs[o + 1].kind = "high"
      BY <1>6, <1>7, <2>1, <2>2
    <3>2. ASSUME o + 2 < BarCount(f.type), f.regs[o + 2].kind = "high" PROVE FALSE
      <4>1. o + 2 \in 0 .. BarCount(f.type) - 1 /\ (o + 2) - 1 = o + 1
        BY <1>2, <1>6, <3>2
      <4>2. f.regs[(o + 2) - 1].kind = "wide"
        BY <2>1, <3>2, <4>1
      <4>3. QED
        BY <3>1, <4>1, <4>2
    <3>3. BarOf(f, o + 1) = NoBar
      BY <3>1 DEF BarOf
    <3>4. QED
      BY <1>2, <1>6, <3>1, <3>2, <3>3
  <2>3. CASE f.regs[o].kind # "wide"
    <3>1. step = 1
      BY <1>7, <2>3
    <3>2. ASSUME o + 1 < BarCount(f.type), f.regs[o + 1].kind = "high" PROVE FALSE
      <4>1. o + 1 \in 0 .. BarCount(f.type) - 1 /\ (o + 1) - 1 = o
        BY <1>2, <1>6, <3>2
      <4>2. f.regs[(o + 1) - 1].kind = "wide"
        BY <2>1, <3>2, <4>1
      <4>3. QED
        BY <2>3, <4>1, <4>2
    <3>3. QED
      BY <1>2, <1>6, <3>1, <3>2
  <2>4. QED
    BY <2>2, <2>3
<1> HIDE DEF size, step
<1>11. /\ probe' = [probe EXCEPT !.bars = [probe.bars EXCEPT ![o] = BarOf(f, o)], !.offset = o + step]
       /\ BarOf(f, o) \in Bars
  <2>1. [probe.bars[o] EXCEPT !.size = size] = BarOf(f, o) /\ probe.bars \in [0 .. 5 -> Bars]
    BY <1>5, <1>9
  <2>2. BarOf(f, o) \in Bars
    BY <1>7, <1>9 DEF Bars
  <2>3. QED
    BY <1>5, <1>8, <2>1, <2>2
<1>12. /\ probe'.offset = o + step /\ probe'.cmd = probe.cmd
       /\ probe'.bars = [probe.bars EXCEPT ![o] = BarOf(f, o)]
       /\ probe' \in [offset : 0 .. BarCount(f.type), cmd : Nat, bars : [0 .. 5 -> Bars]]
  <2>1. [probe.bars EXCEPT ![o] = BarOf(f, o)] \in [0 .. 5 -> Bars]
    BY <1>5, <1>11
  <2>2. QED
    BY <1>5, <1>10, <1>11, <2>1
<1>13. ProbeInv'
  <2>1. probe'.bars[o] = BarOf(f, o) /\ \A i \in 0 .. 5 : i # o => probe'.bars[i] = probe.bars[i]
    BY <1>5, <1>6, <1>12
  <2>2. \A i \in 0 .. 5 : i < o + step => probe'.bars[i] = BarOf(f, i)
    <3>1. \A i \in 0 .. 5 : i < o + step => i < o \/ i = o \/ (step = 2 /\ i = o + 1)
      BY <1>6, <1>10
    <3>2. step = 2 /\ o + 1 \in 0 .. 5 => probe.bars[o + 1] = NoBar /\ BarOf(f, o + 1) = NoBar
      BY <1>5, <1>6, <1>10
    <3>3. QED
      BY <1>5, <1>6, <2>1, <3>1, <3>2
  <2>3. \A i \in 0 .. 5 : i >= o + step => probe'.bars[i] = NoBar
    BY <1>5, <1>6, <1>10, <2>1
  <2>4. QED
    BY <1>1, <1>6, <1>10, <1>12, <2>2, <2>3 DEF ProbeInv
<1>14. ConfigInv'
  <2>1. config[pos] = [f EXCEPT !.command = 0, !.regs = regs]
    BY <1>1, <1>2, <1>3 DEF InWork
  <2>2. InWork' = [f EXCEPT !.command = 0]
    BY <1>1, <1>3 DEF InWork
  <2>3. config' = [config EXCEPT ![pos] = [config[pos] EXCEPT !.regs = f.regs]]
    BY <1>7, <1>8
  <2>4. [config[pos] EXCEPT !.regs = f.regs] = InWork'
    <3> HIDE DEF regs
    <3>1. QED
      BY <1>3, <2>1, <2>2
  <2>5. config' = [machine.functions EXCEPT ![pos] = InWork']
    BY <1>2, <2>3, <2>4
  <2>6. probe.cmd = f.command
    BY <1>1 DEF PciInv, ConfigInv
  <2>7. QED
    BY <1>1, <1>12, <2>5, <2>6 DEF PciInv, ConfigInv
<1>15. QED
  BY <1>4, <1>13, <1>14 DEF PciInv

(* make_dev_desc ends: the command is restored, the function is recorded.  *)
LEMMA EndProbeStep ==
  ASSUME PciInv, EndProbe
  PROVE  PciInv'
<1> DEFINE f == machine.functions[pos]
<1>1. /\ pci = "probe" /\ pci' = "scan" /\ ~(probe.offset < BarCount(config[pos].type))
      /\ config' = [config EXCEPT ![pos].command = probe.cmd]
      /\ Record(probe.bars) /\ probe' = Idle
      /\ UNCHANGED <<acpiVars, machine, group, memory, capacity>>
  BY DEF EndProbe, Probing
<1>2. /\ pos \in DOMAIN machine.functions /\ Len(devices) < capacity
      /\ config[pos].type = f.type
      /\ BarCount(f.type) \in {0, 2, 6}
      /\ config = [machine.functions EXCEPT ![pos] = InWork] /\ config[pos] = InWork
  BY <1>1, AtRegister
<1>3. /\ machine.functions \in [DOMAIN machine.functions -> Functions]
      /\ f \in [multi : BOOLEAN, type : Nat, command : Nat, regs : [0 .. 6 -> Registers]]
  BY <1>2, FunctionTyped
<1>4. /\ probe \in [offset : 0 .. BarCount(f.type), cmd : Nat, bars : [0 .. 5 -> Bars]]
      /\ probe.cmd = f.command
      /\ \A i \in 0 .. 5 : i < probe.offset => probe.bars[i] = BarOf(f, i)
      /\ \A i \in 0 .. 5 : i >= probe.offset => probe.bars[i] = NoBar
  <2>1. /\ probe \in [offset : 0 .. BarCount(f.type), cmd : Nat, bars : [0 .. 5 -> Bars]]
        /\ \A i \in 0 .. 5 : i < probe.offset => probe.bars[i] = BarOf(f, i)
        /\ \A i \in 0 .. 5 : i > probe.offset => probe.bars[i] = NoBar
        /\ probe.offset < 6 => probe.bars[probe.offset] = NoBar
    BY <1>1 DEF PciInv, ProbeInv
  <2>2. probe.cmd = f.command
    BY <1>1 DEF PciInv, ConfigInv
  <2>3. probe.offset \in Int
    BY <1>2, <2>1
  <2>4. QED
    BY <2>1, <2>2, <2>3
<1>5. \A i \in 0 .. 5 : probe.bars[i] = BarOf(f, i)
  <2> SUFFICES ASSUME NEW i \in 0 .. 5, i >= probe.offset PROVE BarOf(f, i) = NoBar
    BY <1>2, <1>4
  <2>1. ~(i < BarCount(f.type))
    BY <1>1, <1>2, <1>4
  <2>2. QED
    BY <2>1 DEF BarOf
<1>6. pos[1] <= GroupCount
  <2>1. GroupCount \in Nat /\ machine \in Machines
    BY GroupsTyped DEF PciInv, GroupsInv
  <2>2. pos[1] \in 1 .. GroupCount
    BY <1>2, <2>1, MachinesAssumption DEF GroupCount
  <2>3. QED
    BY <2>1, <2>2
<1>7. AcpiInv' /\ GroupsInv' /\ ListInv' /\ TableInv' /\ BarsTrue'
  BY <1>1, <1>2, <1>4, <1>5, <1>6, RecordKeeps DEF Scan
<1>8. ConfigInv' /\ ProbeInv'
  <2>1. config[pos] = [f EXCEPT !.command = 0]
    BY <1>1, <1>2, <1>3 DEF InWork
  <2>2. [config[pos] EXCEPT !.command = f.command] = f
    BY <1>3, <2>1
  <2>3. config' = [config EXCEPT ![pos] = [config[pos] EXCEPT !.command = f.command]]
    BY <1>1, <1>4
  <2>4. config' = [machine.functions EXCEPT ![pos] = f]
    BY <1>2, <2>2, <2>3
  <2>5. config' = machine.functions
    BY <1>2, <1>3, <2>4
  <2>6. QED
    BY <1>1, <2>5 DEF ConfigInv, ProbeInv
<1>9. QED
  BY <1>7, <1>8 DEF PciInv

LEMMA PciInitHolds == PciInit => PciInv
<1> SUFFICES ASSUME PciInit PROVE PciInv
  OBVIOUS
<1>1. /\ acpi = "off" /\ mapped = {} /\ pci = "off" /\ machine \in Machines /\ config = machine.functions
      /\ group = 1 /\ memory = "none" /\ capacity = 0 /\ devices = << >> /\ probe = Idle
  BY DEF PciInit, AcpiInit
<1>2. AcpiInv
  BY <1>1 DEF AcpiInv, PciPlaces, Scan
<1>3. GroupsInv
  <2>1. GroupCount \in Nat
    BY <1>1, GroupsTyped
  <2>2. group \in 1 .. GroupCount + 1 /\ 1 .. group - 1 = {}
    BY <1>1, <2>1
  <2>3. QED
    BY <1>1, <2>2 DEF GroupsInv, Scan
<1>4. ListInv /\ TableInv /\ ConfigInv /\ ProbeInv /\ BarsTrue
  BY <1>1 DEF ListInv, TableInv, ConfigInv, ProbeInv, BarsTrue, Scan
<1>5. QED
  BY <1>2, <1>3, <1>4 DEF PciInv

LEMMA PciInductive == PciInv /\ [PciNext]_allVars => PciInv'
<1> SUFFICES ASSUME PciInv, [PciNext]_allVars PROVE PciInv'
  OBVIOUS
<1>1. CASE (init_acpi \/ get_acpi_table) /\ UNCHANGED pciVars
  BY <1>1, AcpiSteps
<1>2. CASE CallInitPci \/ NoTable \/ AllocGroups \/ MapWindow
  BY <1>2, InitSteps
<1>3. CASE find_devices
  BY <1>3, ScanSteps
<1>4. CASE make_dev_desc
  BY <1>4, DescribeStep, SkipBarStep, WriteOnesStep, ReadSizeStep, EndProbeStep DEF make_dev_desc
<1>5. CASE UNCHANGED allVars
  <2>1. /\ UNCHANGED <<acpi, root, entry, mapped>>
        /\ UNCHANGED <<pci, machine, config, group, pos, memory, capacity, devices, probe>>
    BY <1>5 DEF allVars, acpiVars, pciVars
  <2>2. AcpiInv' /\ GroupsInv' /\ TableInv' /\ BarsTrue'
    BY <2>1 DEF PciInv, AcpiInv, GroupsInv, GroupCount, TableInv, BarsTrue
  <2>3. ConfigInv' /\ ProbeInv'
    <3>1. InWork' = InWork
      BY <2>1 DEF InWork
    <3>2. QED
      BY <2>1, <3>1 DEF PciInv, ConfigInv, ProbeInv
  <2>4. ListInv'
    <3>1. Listed' = Listed /\ Scanned' = Scanned /\ Descs' = Descs
      BY <2>1 DEF Listed, Scanned, Descs
    <3>2. InPlace(pos)' = InPlace(pos) /\ {p \in Scanned : Earlier(p, pos)}' = {p \in Scanned : Earlier(p, pos)}
      BY <2>1, <3>1 DEF InPlace, GroupCount, Earlier
    <3>3. QED
      BY <2>1, <3>1, <3>2 DEF PciInv, ListInv
  <2>5. QED
    BY <2>2, <2>3, <2>4 DEF PciInv
<1>6. QED
  BY <1>1, <1>2, <1>3, <1>4, <1>5 DEF PciNext

(* The invariant of the enumeration.                                       *)
THEOREM PciAlways == PciSpec => []PciInv
BY PciInitHolds, PciInductive, PTL DEF PciSpec

(* When every function is in the table, and none twice, there are as many  *)
(* entries as functions.                                                   *)
LEMMA AsManyEntries ==
  ASSUME ListInv, Listed = Scanned
  PROVE  Len(devices) = Cardinality(Scanned)
<1> DEFINE n == Len(devices)
           f == [i \in 1 .. n |-> devices[i].function]
<1>1. n \in Nat /\ DOMAIN devices = 1 .. n
  BY DEF ListInv
<1>2. f \in Bijection(1 .. n, Scanned)
  <2>1. f \in [1 .. n -> Scanned]
    BY <1>1 DEF Listed
  <2>2. \A i, l \in 1 .. n : f[i] = f[l] => i = l
    BY DEF ListInv
  <2>3. \A p \in Scanned : \E i \in 1 .. n : f[i] = p
    BY <1>1 DEF Listed
  <2>4. f \in Surjection(1 .. n, Scanned)
    BY <2>1, <2>3 DEF Surjection
  <2>5. DOMAIN f = 1 .. n
    OBVIOUS
  <2> HIDE DEF f
  <2>6. f \in Injection(1 .. n, Scanned)
    BY <2>1, <2>2, <2>5, Zenon DEF Injection, IsInjective
  <2>7. QED
    BY <2>4, <2>6 DEF Bijection
<1>3. ExistsBijection(1 .. n, Scanned)
  BY <1>2 DEF ExistsBijection
<1>4. QED
  BY <1>1, <1>3, FS_CountingElements

(* The device table never overflows its block, is not written to after it  *)
(* was freed, and ends up with every function of the scanned buses once;   *)
(* the mappings made on the way are gone.                                  *)
THEOREM PciDevicesTrue == PciSpec => []DevicesTrue
<1>1. PciInv => DevicesTrue
  <2> SUFFICES ASSUME PciInv PROVE DevicesTrue
    OBVIOUS
  <2>1. (memory # "none" => Len(devices) <= capacity) /\ (pci \in {"scan", "probe", "read"} => memory = "live")
    BY DEF PciInv, TableInv, Scan
  <2>2. ASSUME pci = "true"
        PROVE  {devices[i].function : i \in DOMAIN devices} = Scanned /\ Len(devices) = Cardinality(Scanned)
    <3>1. Listed = Scanned /\ ListInv
      BY <2>2 DEF PciInv, ListInv
    <3>2. QED
      BY <3>1, AsManyEntries DEF Listed
  <2>3. acpi = "missing" => mapped = {<<"root", 0>>}
    BY DEF PciInv, AcpiInv
  <2>4. ASSUME pci = "true"
        PROVE  mapped = {<<"root", 0>>, <<"table", entry>>} \cup {<<"window", g>> : g \in DOMAIN machine.groups}
    <3>1. mapped = {<<"root", 0>>, <<"table", entry>>} \cup {<<"window", g>> : g \in 1 .. group - 1}
      BY <2>4 DEF PciInv, AcpiInv
    <3>2. group = GroupCount + 1 /\ machine \in Machines
      BY <2>4 DEF PciInv, GroupsInv
    <3>3. machine.groups \in Seq([start : Nat, end : Nat]) /\ GroupCount \in Nat
      BY <3>2, MachinesAssumption DEF GroupCount
    <3>4. DOMAIN machine.groups = 1 .. group - 1
      BY <3>2, <3>3 DEF GroupCount
    <3>5. QED
      BY <3>1, <3>4
  <2>5. QED
    BY <2>1, <2>2, <2>3, <2>4 DEF DevicesTrue, TemporariesReturned
<1>2. QED
  BY <1>1, PciAlways, PTL

(* Only the registers of the function in work differ from what the         *)
(* firmware left, and that function decodes nothing meanwhile.             *)
THEOREM PciRegistersKept == PciSpec => []RegistersKept
<1>1. PciInv => RegistersKept
  <2> SUFFICES ASSUME PciInv, NEW p \in DOMAIN config, config[p] # machine.functions[p]
               PROVE  p = pos /\ pci \in {"probe", "read"} /\ config[p].command = 0
    BY DEF RegistersKept
  <2>1. pci \in {"probe", "read"}
    BY DEF PciInv, ConfigInv
  <2>2. config = [machine.functions EXCEPT ![pos] = InWork] /\ DOMAIN config = DOMAIN machine.functions
    BY <2>1 DEF PciInv, ConfigInv
  <2>3. p = pos
    BY <2>2
  <2>4. config[pos] = InWork /\ pos \in DOMAIN machine.functions
    BY <2>1, AtRegister
  <2>5. machine.functions[pos] \in [multi : BOOLEAN, type : Nat, command : Nat, regs : [0 .. 6 -> Registers]]
    BY <2>4, FunctionTyped
  <2>6. InWork.command = 0
    BY <2>5 DEF InWork
  <2>7. QED
    BY <2>1, <2>3, <2>4, <2>6
<1>2. QED
  BY <1>1, PciAlways, PTL

(* The address of every register found, and its size: the true one, but of *)
(* less than 16 ports and of ports without upper bits (pci.c:109-123).     *)
THEOREM PciBarsTrue == PciSpec => []BarsTrue
<1>1. PciInv => BarsTrue
  BY DEF PciInv
<1>2. QED
  BY <1>1, PciAlways, PTL
=============================================================================
