------------------------------ MODULE Strtoul ------------------------------
(***************************************************************************)
(* The C library's strtoul/strtoull in base 16, as glibc runs it, with     *)
(* unsigned long narrowed to W bits (64 in the program, where the two     *)
(* functions have the same width), and a reference definition taken from   *)
(* the C standard's description: the longest prefix of the expected form. *)
(* use_caps/skip_securebits (ArgConv) and add_mount (FieldSplit) call it.  *)
(***************************************************************************)
EXTENDS Integers, SequencesExt, CString

CONSTANTS
    Hex,      \* the hexadecimal digits among the characters, with their values
    W         \* the width of unsigned long / unsigned long long

Modulus == 2^W
ULMax == Modulus - 1                  \* ULLONG_MAX

IsHex(c) == c \in DOMAIN Hex

(***************************************************************************)
(* glibc ____strtoul_l_internal for base 16.                               *)
(***************************************************************************)
\* mutant: the digit loop wraps around instead of saturating
RECURSIVE Accumulate_wrapping(_, _, _, _)
Accumulate_wrapping(s, i, acc, ovf) ==
    IF IsHex(At(s, i))
    THEN Accumulate_wrapping(s, i + 1, (acc * 16 + Hex[s[i]]) % Modulus, ovf)
    ELSE [acc |-> acc, ovf |-> ovf, end |-> i]

\* mutant: the digit loop has no cutoff test
RECURSIVE Accumulate_unchecked(_, _, _, _)
Accumulate_unchecked(s, i, acc, ovf) ==
    IF IsHex(At(s, i))
    THEN Accumulate_unchecked(s, i + 1, acc * 16 + Hex[s[i]], ovf)
    ELSE [acc |-> acc, ovf |-> ovf, end |-> i]

\* the digit loop: past the cutoff it only records the overflow and goes on
RECURSIVE Accumulate(_, _, _, _)
Accumulate(s, i, acc, ovf) ==
    IF IsHex(At(s, i))
    THEN LET d == Hex[s[i]]
             o == \/ ovf
                  \/ acc > ULMax \div 16
                  \/ acc = ULMax \div 16 /\ d > ULMax % 16
         IN  Accumulate(s, i + 1, IF o THEN acc ELSE acc * 16 + d, o)
    ELSE [acc |-> acc, ovf |-> ovf, end |-> i]

\* the value and the index of *end
Strtoull(s) ==
    LET i0  == SkipSpaces(s, 1)
        neg == At(s, i0) = "-"
        i1  == IF At(s, i0) \in {"+", "-"} THEN i0 + 1 ELSE i0
        pre == At(s, i1) = "0" /\ At(s, i1 + 1) = "x"
        i2  == IF pre THEN i1 + 2 ELSE i1
        r   == Accumulate(s, i2, 0, FALSE)
    IN  CASE r.end = i2 /\ pre -> [value |-> 0, end |-> i1 + 1]  \* "0x": end at x
          [] r.end = i2        -> [value |-> 0, end |-> 1]       \* no conversion
          [] r.ovf             -> [value |-> ULMax, end |-> r.end]
          [] OTHER -> [value |-> IF neg THEN (Modulus - r.acc) % Modulus ELSE r.acc,
                       end |-> r.end]

(***************************************************************************)
(* The reference: the subject sequence is the longest prefix made of       *)
(* spaces, an optional sign, an optional 0x and at least one hex digit;    *)
(* its value is negated in the unsigned type after a minus sign, and is    *)
(* ULLONG_MAX when the number does not fit.                                *)
(***************************************************************************)
Subjects(t) ==
    { p \in (0..Len(t)) \X (0..Len(t)) \X (0..Len(t)) :
        /\ p[1] <= p[2] /\ p[2] <= p[3] /\ p[3] < Len(t)
        /\ \A k \in 1..p[1] : t[k] = " "
        /\ p[2] - p[1] \in {0, 1} /\ (p[2] > p[1] => t[p[2]] \in {"+", "-"})
        /\ p[3] - p[2] \in {0, 2} /\ (p[3] > p[2] => t[p[2] + 1] = "0" /\ t[p[3]] = "x")
        /\ \A k \in p[3] + 1..Len(t) : IsHex(t[k]) }

SubjectValue(t) ==
    LET p == CHOOSE q \in Subjects(t) : TRUE
        n == FoldLeft(LAMBDA a, c : a * 16 + Hex[c], 0, SubSeq(t, p[3] + 1, Len(t)))
    IN  CASE n > ULMax                    -> ULMax
          [] p[2] > p[1] /\ t[p[2]] = "-" -> (Modulus - n) % Modulus
          [] OTHER                        -> n

StrtoullRef(s) ==
    LET P == {k \in 1..Len(s) : Subjects(SubSeq(s, 1, k)) # {}}
    IN  IF P = {} THEN [value |-> 0, end |-> 1]
        ELSE [value |-> SubjectValue(SubSeq(s, 1, Max(P))), end |-> Max(P) + 1]
====
