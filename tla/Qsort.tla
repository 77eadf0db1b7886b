------------------------------- MODULE Qsort -------------------------------
(***************************************************************************)
(* memswap, partition and qsort of libc/stdlib.c.  The array is m from ptr *)
(* on; the code adds an index to the pointer without multiplying it by     *)
(* size, so that elements of more than one byte overlap.  comp compares    *)
(* size bytes, the first of them first.                                    *)
(***************************************************************************)
EXTENDS Integers, Sequences

\* Byte by byte, also when the two overlap.
memswap(m, l, r, n) ==
    LET after[k \in 0 .. n] ==
          IF k = 0 THEN m
          ELSE LET mem == after[k - 1]
               IN  [mem EXCEPT ![l + k - 1] = mem[r + k - 1], ![r + k - 1] = mem[l + k - 1]]
    IN  after[n]

\* comp(l, r) > 0
Greater(m, l, r, size) ==
    \E i \in 0 .. size - 1 : m[l + i] > m[r + i] /\ \A k \in 0 .. i - 1 : m[l + k] = m[r + k]

(* The two indices close in on each other; a round of a loop that is done  *)
(* changes nothing.                                                        *)
CloseIn(c, ptr, size) ==
    IF c.i >= c.j THEN c
    ELSE IF ~Greater(c.m, ptr + c.i, ptr, size) THEN [c EXCEPT !.i = c.i + 1]
    ELSE IF Greater(c.m, ptr + c.j, ptr, size) THEN [c EXCEPT !.j = c.j - 1]
    ELSE [m |-> memswap(c.m, ptr + c.i, ptr + c.j, size), i |-> c.i + 1, j |-> c.j - 1]

Close(m, ptr, count, size) ==
    LET after[k \in 0 .. count] ==
          IF k = 0 THEN [m |-> m, i |-> 1, j |-> count - 1] ELSE CloseIn(after[k - 1], ptr, size)
    IN  after[count]

PivotAtI(c, ptr, size) == c.i       \* a plausible slip, for the mutants
PivotPlace(c, ptr, size) ==
    IF c.i <= 1 THEN 0
    ELSE IF Greater(c.m, ptr + c.i, ptr, size) THEN c.i - 1 ELSE c.i

partition(m, ptr, count, size, piv) ==
    LET c == Close(memswap(m, ptr, ptr + piv, size), ptr, count, size)
        place == PivotPlace(c, ptr, size)
    IN  [m |-> memswap(c.m, ptr, ptr + place, IF place = 0 THEN 0 ELSE size), piv |-> place]

(* sorted[n] sorts n elements: of memory mem, those from p on.             *)
qsort(m, ptr, count, size) ==
    LET room(n) == {p \in 0 .. ptr + count * size : p + n * size <= ptr + count * size}
        sorted[n \in 0 .. count] ==
          [mem \in [DOMAIN m -> Int] |-> [p \in room(n) |->
             IF n < 2 THEN mem
             ELSE IF n = 2
             THEN IF Greater(mem, p, p + 1, size) THEN memswap(mem, p, p + 1, size) ELSE mem
             ELSE LET part == partition(mem, p, n, size, size \div 2)
                  IN  sorted[n - part.piv - 1][sorted[part.piv][part.m][p]][p + part.piv + 1]]]
    IN  sorted[count][m][ptr]
=============================================================================
