-------------------------------- MODULE Libc --------------------------------
(***************************************************************************)
(* One call of a library function with any of the arguments of an          *)
(* instance: strtol, the string and memory functions, qsort.  The          *)
(* properties compare the result with what the C standard asks for, or say *)
(* how far it is from it.                                                  *)
(***************************************************************************)
EXTENDS Strtol, StringFns, Qsort, FiniteSets

CONSTANTS Texts, Bases,      \* arguments of strtol
          Strings, Needles,  \* strings of bytes
          Cells,             \* addresses 0 .. Cells - 1
          Arrays             \* what qsort is called with: [bytes, count, size, room]

(* Strings hold no 0 and fit into the buffers; the elements of an array    *)
(* lie in its room.                                                        *)
ASSUME LibcAssumption ==
    /\ Bases \subseteq Int
    /\ Texts \subseteq Seq(STRING \ {"NUL"})
    /\ Strings \cup Needles \subseteq Seq(1 .. Bytes - 1)
    /\ Cells \in Nat
    /\ \A s \in Strings \cup Needles : Len(s) < Cells
    /\ \A a \in Arrays : /\ a.count \in Nat /\ a.size \in Nat \ {0}
                         /\ a.room \in Nat /\ a.count * a.size <= a.room
                         /\ a.bytes \in [0 .. a.room - 1 -> Int]

VARIABLES call, result

libcVars == <<call, result>>

\* Memory in which every cell is different, or holds a string and then ones.
Distinct == [a \in 0 .. Cells - 1 |-> a]
Holding(s) == [a \in 0 .. Cells - 1 |-> IF a <= Len(s) THEN Char(s, a) ELSE 1]
Both(l, r) == [a \in 0 .. 2 * Cells - 1 |-> IF a < Cells THEN Char(l, a) ELSE Char(r, a - Cells)]

IsCall ==
    \/ \E s \in Texts, b \in Bases : call = [fn |-> "strtol", s |-> s, base |-> b]
    \/ \E s \in Strings, c \in 0 .. Bytes - 1 : call = [fn |-> "findchar", s |-> s, ch |-> c]
    \/ \E s \in Strings, n \in Needles : call = [fn |-> "findstring", s |-> s, sub |-> n]
    \/ \E l, r \in Needles, n \in 0 .. Cells - 1 : call = [fn |-> "compare", l |-> l, r |-> r, n |-> n]
    \/ \E h, s \in Needles, n \in 0 .. Cells - 1 : call = [fn |-> "put", held |-> h, s |-> s, n |-> n]
    \/ \E d, s, n \in 0 .. Cells - 1 : /\ d + n <= Cells /\ s + n <= Cells
                                       /\ call = [fn |-> "move", d |-> d, s |-> s, n |-> n]
    \/ \E a \in Arrays : call = [fn |-> "sort", array |-> a]

LibcInit == IsCall /\ result = << >>

Calls(fn) == call.fn = fn /\ result = << >> /\ UNCHANGED call

CallStrtol == Calls("strtol") /\ result' = <<strtol(call.s, call.base)>>

FindChar == Calls("findchar")
            /\ result' = <<[first |-> strchr(call.s, call.ch), last |-> strrchr(call.s, call.ch),
                          any |-> memchr(Holding(call.s), 0, call.ch, Cells)]>>

FindString == Calls("findstring") /\ result' = <<strstr(call.s, call.sub)>>

Compare == Calls("compare")
           /\ result' = <<[whole |-> strcmp(call.l, call.r), start |-> strncmp(call.l, call.r, call.n),
                         bytes |-> memcmp(Both(call.l, call.r), 0, Cells, call.n)]>>

PutString == Calls("put")
             /\ result' = <<[copied |-> strcpy(Distinct, 2, call.s),
                           filled |-> strncpy(Distinct, 2, call.s, call.n),
                           joined |-> strcat(Holding(call.held), 0, call.s)]>>

MoveBytes == Calls("move")
             /\ result' = <<[moved |-> memmove(Distinct, call.d, call.s, call.n),
                           set |-> memset(Distinct, call.d, 0, call.n),
                           copied |-> memcpy(Distinct, call.d, call.s, call.n)]>>

Sort == Calls("sort")
        /\ result' = <<qsort(call.array.bytes, 0, call.array.count, call.array.size)>>

LibcNext == CallStrtol \/ FindChar \/ FindString \/ Compare \/ PutString \/ MoveBytes \/ Sort

LibcSpec == LibcInit /\ [][LibcNext]_libcVars

-----------------------------------------------------------------------------
Returned(fn) == call.fn = fn /\ result # << >>
Got == result[1]

(* What the C standard makes of a text: the digits are those from position *)
(* `from' up to, not including, `end'; Worth is what they count, each one  *)
(* its power of the base.                                                  *)
Worth(s, from, end, b) ==
    LET power[n \in 0 .. end - from] == IF n = 0 THEN 1 ELSE b * power[n - 1]
        last[n \in 0 .. end - from] ==   \* the last n digits
            IF n = 0 THEN 0 ELSE Digits[s[end - n]] * power[n - 1] + last[n - 1]
    IN  last[end - from]

Expected(s, base) ==
    LET cur == SignAt(s) + IF At(s, SignAt(s)) \in {"-", "+"} THEN 1 ELSE 0
        hex == base \in {0, 16} /\ At(s, cur) = "0" /\ At(s, cur + 1) \in {"x", "X"}
                 /\ DIG_IN_BASE(At(s, cur + 2), 16)
        b == IF base # 0 THEN base ELSE IF hex THEN 16 ELSE IF At(s, cur) = "0" THEN 8 ELSE 10
        from == IF hex THEN cur + 2 ELSE cur
        end == Behind(s, from, DigitsIn(b))
        value == Worth(s, from, end, b)
    IN  [from |-> from, end |-> end, base |-> b, value |-> IF Negative(s) THEN -value ELSE value]

(* Where strtol is not what C asks for: it does not know a plus sign, nor  *)
(* the prefix 0X, and takes "0x" for one before any letter.                *)
PlusSign(s) == At(s, SignAt(s)) = "+"
Prefixed(s, base, x) == base \in {0, 16} /\ At(s, StartAt(s)) = "0" /\ At(s, StartAt(s) + 1) = x
CapitalPrefix(s, base) == Prefixed(s, base, "X") /\ DIG_IN_BASE(At(s, StartAt(s) + 2), 16)
FalsePrefix(s, base) == /\ Prefixed(s, base, "x") /\ isalnum(At(s, StartAt(s) + 2))
                        /\ ~DIG_IN_BASE(At(s, StartAt(s) + 2), 16)

ZeroUpTo(i) == [value |-> 0, errno |-> "none", end |-> i]

(* Of every text that is without these three and has digits: a number that *)
(* is converted without an error is the one C asks for, is in the range of *)
(* long and ends where it should; ERANGE comes only for numbers out of     *)
(* range or less than base^2 from its end (strtol refuses some there), and *)
(* in their direction.  Of the others strtol makes 0: with a plus sign it  *)
(* stops there, with 0X behind the 0, with a false prefix behind it, and   *)
(* without digits where they should start (not at the start of the text,   *)
(* as C asks for).                                                         *)
StrtolRight ==
    Returned("strtol") /\ call.base \in {0} \cup 2 .. 36 =>
      LET s == call.s
          e == Expected(s, call.base)
      IN  IF PlusSign(s) THEN Got = ZeroUpTo(SignAt(s))
          ELSE IF CapitalPrefix(s, call.base) THEN Got = ZeroUpTo(StartAt(s) + 1)
          ELSE IF FalsePrefix(s, call.base) THEN Got = ZeroUpTo(StartAt(s) + 2)
          ELSE IF e.from = e.end THEN Got = ZeroUpTo(StartAt(s))
          ELSE /\ Got.end = e.end
               /\ Got.value \in LongMin .. LongMax
               /\ Got.errno = "none" => Got.value = e.value
               /\ Got.errno = "ERANGE" =>
                    IF Negative(s) THEN Got.value = LongMin /\ e.value < LongMin + e.base * e.base
                                   ELSE Got.value = LongMax /\ e.value > LongMax - e.base * e.base

(* A search finds an occurrence and the right one, but for what the code   *)
(* has wrong: strchr goes round for ever unless the string is empty or its *)
(* first character is the one; to strchr and strrchr no character is a     *)
(* negative one; strstr may miss an occurrence when the first character of *)
(* what it looks for comes again in it.                                    *)
Occurs(s, sub, i) == \A k \in 0 .. Len(sub) - 1 : Char(s, i + k) = Char(sub, k)
RightmostOf(S) == CHOOSE i \in S : \A k \in S : k <= i
LeftmostOf(S) == CHOOSE i \in S : \A k \in S : i <= k

SearchesFind ==
    /\ Returned("findchar") =>
         LET S == {i \in 0 .. Len(call.s) : Char(call.s, i) = call.ch}
             negative == Signed(call.ch) < 0
         IN  /\ Got.first = IF Len(call.s) > 0 /\ (negative \/ 0 \notin S) THEN Forever
                            ELSE IF S = {} THEN Null ELSE LeftmostOf(S)
             /\ Got.last = IF S = {} \/ negative THEN Null ELSE RightmostOf(S)
             /\ S # {} => Got.any = LeftmostOf(S)
    /\ Returned("findstring") =>
         LET S == {i \in 0 .. Len(call.s) : Occurs(call.s, call.sub, i)}
             again == \E k \in 2 .. Len(call.sub) : call.sub[k] = call.sub[1]
         IN  /\ Got # Null => Got \in S
             /\ ~again => Got = IF S = {} THEN Null ELSE LeftmostOf(S)

\* Both characters negative, or neither.
SameSide(b, c) == (2 * b < Bytes) = (2 * c < Bytes)

(* Copies end in exactly the bytes they should and no others: memmove also *)
(* when source and target overlap, memcpy when they do not, and the string *)
(* functions with their terminator.  Comparisons are 0 exactly for what is *)
(* equal, and else tell which one is less at the first difference: memcmp  *)
(* by the unsigned bytes, as C asks for all of them; strcmp and strncmp    *)
(* the other way round when just one of the two characters is negative.    *)
CopiesExact ==
    /\ Returned("move") =>
         LET moved == Put(Distinct, call.d, call.n, LAMBDA i : call.s + i)
         IN  /\ Got.moved = moved
             /\ \A a \in 0 .. Cells - 1 :
                  Got.set[a] = IF a \in call.d .. call.d + call.n - 1 THEN 0 ELSE a
             /\ (call.d + call.n <= call.s \/ call.s + call.n <= call.d) => Got.copied = moved
    /\ Returned("put") =>
         /\ \A a \in 0 .. Cells - 1 :
              /\ Got.copied[a] = IF a - 2 \in 0 .. Len(call.s) THEN Char(call.s, a - 2) ELSE a
              /\ Got.filled[a] = IF a - 2 \in 0 .. call.n - 1 THEN Char(call.s, a - 2) ELSE a
              /\ Got.joined[a] = IF a <= Len(call.held) + Len(call.s)
                                    THEN Char(call.held \o call.s, a) ELSE Holding(call.held)[a]
    /\ Returned("compare") =>
         LET cut(s) == SubSeq(s, 1, IF call.n < Len(s) THEN call.n ELSE Len(s))
             differ == {i \in 0 .. Cells - 1 : Char(call.l, i) # Char(call.r, i)}
             left == Char(call.l, LeftmostOf(differ))
             right == Char(call.r, LeftmostOf(differ))
             less == IF SameSide(left, right) THEN left < right ELSE right < left
         IN  /\ Got.whole = 0 <=> call.l = call.r
             /\ Got.start = 0 <=> cut(call.l) = cut(call.r)
             /\ Got.bytes = 0 <=> differ \cap 0 .. call.n - 1 = {}
             /\ Got.whole # 0 => (Got.whole < 0 <=> less)
             /\ Got.start # 0 => (Got.start < 0 <=> less)
             /\ Got.bytes # 0 => (Got.bytes < 0 <=> left < right)

(* The string and memory functions together.                               *)
StringsExact == SearchesFind /\ CopiesExact

(* qsort only permutes the bytes of the array, and sorts them when an      *)
(* element is one byte.  Larger elements come out broken.                  *)
CountOf(m, b) == Cardinality({a \in DOMAIN m : m[a] = b})

SortsBytes ==
    Returned("sort") =>
      LET a == call.array
      IN  /\ \A b \in {a.bytes[x] : x \in DOMAIN a.bytes} : CountOf(Got, b) = CountOf(a.bytes, b)
          /\ \A x \in DOMAIN Got : x >= a.count * a.size => Got[x] = a.bytes[x]
          /\ a.size = 1 => \A x, y \in 0 .. a.count - 1 : x < y => Got[x] <= Got[y]
=============================================================================
