------------------------------- MODULE Strtol -------------------------------
(***************************************************************************)
(* strtol of libc/stdlib.c.  A string is a sequence of characters, read as *)
(* NUL behind its end; a position is an index into it.  long has LongMax   *)
(* for its greatest value.                                                 *)
(***************************************************************************)
EXTENDS Integers, Sequences

CONSTANTS LongMax,   \* the greatest long
          Digits     \* the digits and letters, with what they count

(* The digits and letters of isalnum count up to 35; the characters that   *)
(* strtol or the C standard has by name are among them or not.             *)
ASSUME StrtolAssumption ==
    /\ LongMax \in Nat
    /\ \A c \in DOMAIN Digits : Digits[c] \in 0 .. 35
    /\ {"0", "x", "X"} \subseteq DOMAIN Digits
    /\ Digits["0"] = 0 /\ Digits["x"] = 33 /\ Digits["X"] = 33
    /\ {" ", "-", "+", "NUL"} \cap DOMAIN Digits = {}

LongMin == -LongMax - 1

isalnum(c) == c \in DOMAIN Digits
DIG_IN_BASE(c, base) == isalnum(c) /\ Digits[c] < base

At(s, i) == IF i <= Len(s) THEN s[i] ELSE "NUL"

\* The first position from i on whose character is not one of C.
Behind(s, i, C) == CHOOSE k \in i .. Len(s) + 1 :
                      At(s, k) \notin C /\ \A n \in i .. k - 1 : s[n] \in C
DigitsIn(base) == {c \in DOMAIN Digits : Digits[c] < base}

(* Where the digits start, and their base.                                 *)
SignAt(s) == Behind(s, 1, {" "})
Negative(s) == At(s, SignAt(s)) = "-"
StartAt(s) == SignAt(s) + IF Negative(s) THEN 1 ELSE 0

Prefix(s, base) ==
    LET cur == StartAt(s)
        hex == At(s, cur) = "0" /\ At(s, cur + 1) = "x" /\ base \in {0, 16}
        octal == At(s, cur) = "0" /\ ~hex /\ base \in {0, 8} /\ isalnum(At(s, cur + 1))
        tenIfNone == IF base = 0 THEN 10 ELSE base
    IN  IF hex /\ isalnum(At(s, cur + 2)) THEN [base |-> 16, cur |-> cur + 2]
        ELSE IF octal THEN [base |-> 8, cur |-> cur + 1]
        ELSE [base |-> tenIfNone, cur |-> cur]

(* The test before the next digit d.  In C the quotient is cut off towards *)
(* zero.  (LooseLimit is a plausible slip, for the mutants.)               *)
LooseLimit(ret, d, base, neg) ==
    IF neg THEN ret < LongMin + d ELSE ret > LongMax - d

OutOfRange(ret, d, base, neg) ==
    IF neg THEN ret < -((LongMax + 1) \div base) + d ELSE ret > LongMax \div base - d

(* The digits up to the first character that is none; ret[i] is what those *)
(* before i add up to, and the first digit out of range ends the loop.     *)
Convert(s, cur, base, neg) ==
    LET end == Behind(s, cur, DigitsIn(base))
        d(i) == Digits[s[i]]
        ret[i \in cur .. end] ==
            IF i = cur THEN 0 ELSE ret[i - 1] * base + IF neg THEN -d(i - 1) ELSE d(i - 1)
    IN  IF \E i \in cur .. end - 1 : OutOfRange(ret[i], d(i), base, neg)
        THEN [value |-> IF neg THEN LongMin ELSE LongMax, errno |-> "ERANGE", end |-> end]
        ELSE [value |-> ret[end], errno |-> "none", end |-> end]

\* With an invalid base *str_end is left as it is.
strtol(s, base) ==
    IF base > 36 \/ base < 0 \/ base = 1 THEN [value |-> 0, errno |-> "EINVAL", end |-> 0]
    ELSE LET p == Prefix(s, base)
         IN  Convert(s, p.cur, p.base, Negative(s))
=============================================================================
