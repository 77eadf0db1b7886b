----------------------------- MODULE StringFns -----------------------------
(***************************************************************************)
(* libc/string.c.  A char is a byte 0 .. Bytes - 1, signed as x86 has it;  *)
(* a string is a sequence of bytes other than 0, which are followed by a   *)
(* 0; positions in it count from 0, as pointers do.  Memory is a function  *)
(* from addresses to bytes; the loops over 64-bit words go by WordSize     *)
(* bytes at a time.                                                        *)
(***************************************************************************)
EXTENDS Integers, Sequences

CONSTANTS Bytes,     \* a byte is one of 0 .. Bytes - 1
          WordSize   \* bytes of a word

ASSUME StringFnsAssumption == Bytes \in Nat \ {0} /\ WordSize \in Nat \ {0}

Signed(b) == IF 2 * b < Bytes THEN b ELSE b - Bytes

\* str[i], and the null pointer.
Char(s, i) == IF i < Len(s) THEN s[i + 1] ELSE 0
Null == -1

strlen(s) == Len(s)

-----------------------------------------------------------------------------
(* Where lhs and rhs differ first, or both end.                            *)
Compared(l, r, n) == CHOOSE i \in 0 .. n :
    /\ \A k \in 0 .. i - 1 : Char(l, k) = Char(r, k) /\ Char(l, k) # 0
    /\ i = n \/ Char(l, i) # Char(r, i) \/ Char(l, i) = 0

strncmp(l, r, n) ==
    LET i == Compared(l, r, n)
    IN  IF i = n THEN 0 ELSE Signed(Char(l, i)) - Signed(Char(r, i))

strcmp(l, r) == strncmp(l, r, Len(l) + 1)

-----------------------------------------------------------------------------
(* (unsigned char)*str == (char)ch: never true of a char above 127.        *)
SameChar(c, ch) == c = Signed(ch)

(* strchr does not move on: a first character that is not ch is looked at  *)
(* for ever.                                                               *)
Forever == -2
strchr(s, ch) ==
    IF Len(s) = 0 THEN IF ch = 0 THEN 0 ELSE Null
    ELSE IF SameChar(s[1], ch) THEN 0 ELSE Forever

strrchr(s, ch) ==
    LET hits == {i \in 0 .. Len(s) - 1 : SameChar(Char(s, i), ch)}
    IN  IF ch = 0 THEN Len(s)
        ELSE IF hits = {} THEN Null ELSE CHOOSE i \in hits : \A k \in hits : k <= i

(* strstr goes on behind what it has compared, whatever begins in between. *)
MatchFrom(s, i, sub) == CHOOSE n \in 1 .. Len(sub) :
    /\ \A k \in 1 .. n - 1 : Char(s, i + k) = Char(sub, k)
    /\ n = Len(sub) \/ Char(s, i + n) # Char(sub, n)

SkipsOneMore(s, i, sub) == i + MatchFrom(s, i, sub) + 1  \* a plausible slip, for the mutants
AfterMismatch(s, i, sub) == i + MatchFrom(s, i, sub)

FoundAt(s, i, sub) == Char(s, i) = sub[1] /\ MatchFrom(s, i, sub) = Len(sub)

\* Where the search is after k rounds; there are no more when it is done.
Search(s, sub) ==
    LET at[k \in 0 .. Len(s)] ==
          IF k = 0 THEN 0
          ELSE LET i == at[k - 1]
               IN  IF i >= Len(s) \/ FoundAt(s, i, sub) THEN i
                   ELSE IF Char(s, i) # sub[1] THEN i + 1 ELSE AfterMismatch(s, i, sub)
    IN  at[Len(s)]

strstr(s, sub) ==
    IF Len(sub) = 0 THEN 0
    ELSE IF Search(s, sub) >= Len(s) THEN Null ELSE Search(s, sub)

memchr(m, p, ch, n) ==
    LET hits == {i \in 0 .. n - 1 : m[p + i] = ch}
    IN  IF hits = {} THEN Null ELSE p + CHOOSE i \in hits : \A k \in hits : i <= k

-----------------------------------------------------------------------------
(* strcpy, strncpy and strcat put a string into memory.                    *)
Put(m, p, n, c(_)) == [a \in DOMAIN m |-> IF a \in p .. p + n - 1 THEN c(a - p) ELSE m[a]]

strcpy(m, p, s) == Put(m, p, Len(s) + 1, LAMBDA i : Char(s, i))
strncpy(m, p, s, n) == Put(m, p, n, LAMBDA i : Char(s, i))
strcat(m, p, s) ==
    LET end == CHOOSE a \in DOMAIN m : /\ p <= a /\ m[a] = 0
                                       /\ \A b \in p .. a - 1 : m[b] # 0
    IN  strcpy(m, end, s)

-----------------------------------------------------------------------------
(* One access of n bytes, read and then written as a whole.  A copy takes  *)
(* words and, behind them, bytes: from which byte on it is done after k    *)
(* accesses from the end, and up to which after k from the start.          *)
Move(m, d, s, n) == Put(m, d, n, LAMBDA i : m[s + i])

Words(n) == n \div WordSize
Rest(n) == n % WordSize
Accesses(n) == Words(n) + Rest(n)

DoneFrom(n, k) == IF k <= Rest(n) THEN n - k ELSE (Accesses(n) - k) * WordSize
DoneTo(n, k) == IF k <= Words(n) THEN k * WordSize ELSE n - (Accesses(n) - k)

CopyDown(m, d, s, n) ==
    LET after[k \in 0 .. Accesses(n)] ==
          IF k = 0 THEN m
          ELSE Move(after[k - 1], d + DoneFrom(n, k), s + DoneFrom(n, k),
                    DoneFrom(n, k - 1) - DoneFrom(n, k))
    IN  after[Accesses(n)]

CopyUp(m, d, s, n) ==
    LET after[k \in 0 .. Accesses(n)] ==
          IF k = 0 THEN m
          ELSE Move(after[k - 1], d + DoneTo(n, k - 1), s + DoneTo(n, k - 1),
                    DoneTo(n, k) - DoneTo(n, k - 1))
    IN  after[Accesses(n)]

memcpy(m, d, s, n) == CopyDown(m, d, s, n)

\* memmove copies from the end when dest > src.
MoveAsCopy(m, d, s, n) == CopyDown(m, d, s, n)  \* a plausible slip, for the mutants
memmove(m, d, s, n) ==
    IF d > s THEN CopyDown(m, d, s, n)
    ELSE IF d < s THEN CopyUp(m, d, s, n) ELSE m

memset(m, d, ch, n) ==
    LET bytes == Put(m, d + Words(n) * WordSize, Rest(n), LAMBDA i : ch)
    IN  Put(bytes, d, Words(n) * WordSize, LAMBDA i : ch)

(* memcmp compares words for being equal, and bytes from the first word    *)
(* that is not.                                                            *)
memcmp(m, l, r, n) ==
    LET same(w) == \A i \in 0 .. WordSize - 1 : m[l + w * WordSize + i] = m[r + w * WordSize + i]
        word == CHOOSE w \in 0 .. Words(n) :
                   (w = Words(n) \/ ~same(w)) /\ \A k \in 0 .. w - 1 : same(k)
        diffs == {i \in word * WordSize .. n - 1 : m[l + i] # m[r + i]}
        at == CHOOSE i \in diffs : \A k \in diffs : i <= k
    IN  IF diffs = {} THEN 0 ELSE m[l + at] - m[r + at]
=============================================================================
