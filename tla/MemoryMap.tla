----------------------------- MODULE MemoryMap -----------------------------
(***************************************************************************)
(* The range tables of kernel/mmap.c.  A memory_map is an array of ranges  *)
(* of pages with a count and a capacity.  Here the array up to its count   *)
(* is a sequence of records, the capacity a parameter, and an address is a *)
(* page number (every address the kernel hands to these functions is page  *)
(* aligned).  Address 0 is the failure value of mmap_get_pages.            *)
(***************************************************************************)
EXTENDS Integers, Sequences

Ranges == [base : Nat, pages : Nat]

memory_range(base, n) == [base |-> base, pages |-> n]

\* The pages a range covers, and the ones a table covers.
PagesOf(r) == r.base .. r.base + r.pages - 1
Covered(tab) == UNION {PagesOf(tab[i]) : i \in DOMAIN tab}
Run(base, n) == base .. base + n - 1

\* A table is sound when its ranges are not empty and do not overlap.
Sound(tab) ==
    /\ \A i \in DOMAIN tab : tab[i].pages > 0
    /\ \A i, j \in DOMAIN tab : i # j => PagesOf(tab[i]) \cap PagesOf(tab[j]) = {}

\* The loops of mmap.c stop at the first index that qualifies.
First(S) == CHOOSE i \in S : \A j \in S : i <= j

\* Plausible slips in mmap.c, for the mutants of the runs.
GetPagesKeepsFront(tab, i, n) ==
    [tab EXCEPT ![i] = memory_range(tab[i].base, tab[i].pages - n)]
FitsAny(tab, n) == DOMAIN tab

(* mmap_get_pages shifts the tail of the array down over a range it used   *)
(* up.                                                                     *)
RemoveRange(tab, i) ==
    [k \in 1 .. Len(tab) - 1 |-> IF k < i THEN tab[k] ELSE tab[k + 1]]

TakeFront(tab, i, n) ==
    [tab EXCEPT ![i] = memory_range(tab[i].base + n, tab[i].pages - n)]

(* mmap_get_pages: the first range with at least n pages gives its lowest  *)
(* n, and disappears when it had no more.                                  *)
Fits(tab, n) == {i \in DOMAIN tab : tab[i].pages >= n}

GetPagesTakesLast(tab, n) ==   \* a plausible slip, for the mutants
    LET i == CHOOSE i \in Fits(tab, n) : \A k \in Fits(tab, n) : k <= i
    IN  IF Fits(tab, n) = {}
        THEN [addr |-> 0, tab |-> tab]
        ELSE [addr |-> tab[i].base,
              tab  |-> IF tab[i].pages = n THEN RemoveRange(tab, i) ELSE TakeFront(tab, i, n)]

mmap_get_pages(tab, n) ==
    IF Fits(tab, n) = {}
    THEN [addr |-> 0, tab |-> tab]
    ELSE LET i == First(Fits(tab, n))
         IN  [addr |-> tab[i].base,
              tab  |-> IF tab[i].pages = n THEN RemoveRange(tab, i)
                                           ELSE TakeFront(tab, i, n)]

HasRoom(tab, max) == Len(tab) < max

mmap_add_range(tab, max, base, n) ==
    IF n # 0 /\ HasRoom(tab, max)
    THEN [ok |-> TRUE, tab |-> Append(tab, memory_range(base, n))]
    ELSE [ok |-> FALSE, tab |-> tab]

(* mmap_add_range_merge: a range that starts where the new one ends grows  *)
(* downwards; nothing else is merged.                                      *)
Above(tab, base, n) == {i \in DOMAIN tab : tab[i].base = base + n}

GrowDown(tab, i, base, n) ==
    [tab EXCEPT ![i] = memory_range(base, tab[i].pages + n)]

mmap_add_range_merge(tab, max, base, n) ==
    IF n # 0 /\ Above(tab, base, n) # {}
    THEN [ok |-> TRUE, tab |-> GrowDown(tab, First(Above(tab, base, n)), base, n)]
    ELSE mmap_add_range(tab, max, base, n)
=============================================================================
