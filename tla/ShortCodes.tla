----------------------------- MODULE ShortCodes ------------------------------
(***************************************************************************)
(* The short codes made from the generator's IDs (url_service.go:66-71 and *)
(* internal/pkg/base62/base62.go): the digits of the ID, most significant  *)
(* one first, padded with zeros.  A code is a sequence of digits, a digit  *)
(* the index of its character in the alphabet.                             *)
(***************************************************************************)
EXTENDS Snowflake

CONSTANTS
    Base,        \* characters in the alphabet, 62
    WordSpan,    \* values of a uint64, 2^64
    MinLen       \* shorter codes are padded, 6

ASSUME CodeAssumption ==
    /\ Base \in Nat \ {0, 1}
    /\ MinLen \in Nat
    /\ WordSpan \in Nat
    /\ (MaxTime + 1) * NodeSpan * SeqSpan <= WordSpan

\* The loop takes the last digit first; the reversal puts it last.
Digits_Unreversed(num) ==
    LET digits[n \in Nat] ==
            IF n = 0 THEN <<>> ELSE <<n % Base>> \o digits[n \div Base]
    IN digits[num]
Digits(num) ==
    LET digits[n \in Nat] ==
            IF n = 0 THEN <<>> ELSE Append(digits[n \div Base], n % Base)
    IN digits[num]

Base62Encode(num) == IF num = 0 THEN <<0>> ELSE Digits(num)

\* num*base + idx, in 64 bits.
Base62Decode(code) ==
    LET num[i \in 0..Len(code)] ==
            IF i = 0 THEN 0 ELSE (num[i - 1] * Base + code[i]) % WordSpan
    IN num[Len(code)]

Zeros(n) == [i \in 1..n |-> 0]

\* if len(shortCode) < 6
Pad(code) ==
    IF Len(code) < MinLen THEN Zeros(MinLen - Len(code)) \o code ELSE code

\* ShortenURL's generated code.
ShortCode(id) == Pad(Base62Encode(id))

-----------------------------------------------------------------------------
(* Properties *)

\* Decoding a code, padded or not, gives the ID it was made from
\* (base62.go:33).
CodesDecode ==
    \A p \in Procs : \A i \in 1..Len(issued[p]) :
        Base62Decode(ShortCode(issued[p][i])) = issued[p][i]
=============================================================================
