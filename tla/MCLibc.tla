------------------------------- MODULE MCLibc -------------------------------
(* Texts of up to five characters, strings of up to four bytes of two bits, *)
(* words of two bytes, arrays of up to five elements.                       *)
EXTENDS Libc

\* Digits of bases 8, 16 and 36.
MCDigits == [c \in {"0", "7", "f", "x", "X"} |->
               CASE c = "0" -> 0 [] c = "7" -> 7 [] c = "f" -> 15 [] OTHER -> 33]

SeqsUpTo(S, n) == UNION {[1 .. k -> S] : k \in 0 .. n}

MCTexts == SeqsUpTo({" ", "-", "0", "7", "f", "x"}, 5) \cup SeqsUpTo({"-", "+", "0", "f", "X"}, 5)
MCStrings == SeqsUpTo(1 .. 3, 4)
MCNeedles == SeqsUpTo(1 .. 3, 3)

\* Behind the array there is a byte that must stay.
ArraysOf(count, size) ==
    LET n == count * size
    IN  {[bytes |-> m, count |-> count, size |-> size, room |-> n + 1] :
            m \in {f \in [0 .. n -> 0 .. 2] : f[n] = 1}}
MCArrays == ArraysOf(5, 1) \cup ArraysOf(4, 1) \cup ArraysOf(2, 1) \cup ArraysOf(3, 2)
=============================================================================
