------------------------------ MODULE CString ------------------------------
(***************************************************************************)
(* C strings as sequences of one-character strings, read by index the way  *)
(* the C library's scanners read them; the terminating '\0' is the value   *)
(* NUL past the last character.                                            *)
(***************************************************************************)
EXTENDS Integers, SequencesExt

NUL == "NUL"

\* s[i], or the terminator past the end
At(s, i) == IF i <= Len(s) THEN s[i] ELSE NUL

\* the isspace() loop that opens strtoull, strtod and strtol
RECURSIVE SkipSpaces(_, _)
SkipSpaces(s, i) == IF At(s, i) = " " THEN SkipSpaces(s, i + 1) ELSE i

DecDigit == <<"0", "1", "2", "3", "4", "5", "6", "7", "8", "9">>
IsDigit(c) == c \in Range(DecDigit)
DigitValue(c) == CHOOSE k \in 0..9 : DecDigit[k + 1] = c

\* the decimal digit loop: a run of digits from i appended to acc, how many
\* there were, and the index where the run ends
RECURSIVE Digits(_, _, _, _)
Digits(s, i, acc, n) ==
    IF IsDigit(At(s, i)) THEN Digits(s, i + 1, acc * 10 + DigitValue(s[i]), n + 1)
    ELSE [val |-> acc, n |-> n, end |-> i]

(* For reference definitions: every character of s is in S, and the value *)
(* of a string of decimal digits, by exact arithmetic.                     *)
AllIn(s, S) == \A k \in DOMAIN s : s[k] \in S
Num(ds) == FoldLeft(LAMBDA a, c : a * 10 + DigitValue(c), 0, ds)
====
