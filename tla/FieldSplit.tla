----------------------------- MODULE FieldSplit -----------------------------
(***************************************************************************)
(* The comma-separated arguments of -b, -R and -k (add_binding(),         *)
(* add_rlimit() and add_mount() in minijail0.c).  Each splits its argument *)
(* with strtok(arg, ",") calls, refuses it when a required token is NULL,  *)
(* and hands the tokens to libminijail, its numbers read with atoi() or,   *)
(* for the mount flags, strtoul(flags, NULL, 16).  The tokenizer and atoi  *)
(* are written as glibc runs them, over strings of a few characters, and   *)
(* checked against a split at every comma.                                 *)
(***************************************************************************)
EXTENDS Integers, SequencesExt, Strtoul

CONSTANTS
    Chars,    \* the characters an argument may hold, "," among them
    MaxLen    \* the longest argument

VARIABLES
    opt,      \* "b", "R" or "k"
    arg,      \* optarg, a sequence of characters
    pc,       \* "parse", "done", "bad" (a required token is NULL) or "failed"
    call      \* what minijail_bind/_rlimit/_mount_with_data got, <<>> before

vars == <<opt, arg, pc, call>>

\* strtok's NULL; no token holds the terminator, so it is told apart from all
NULL == <<NUL>>

(***************************************************************************)
(* glibc strtok with "," as the delimiter set: skip delimiters; at the end *)
(* return NULL; otherwise the token runs to the next delimiter, which is   *)
(* overwritten by '\0', and the next call starts after it.                 *)
(***************************************************************************)
RECURSIVE SkipDelims(_, _)
SkipDelims(s, i) == IF At(s, i) = "," THEN SkipDelims(s, i + 1) ELSE i

RECURSIVE TokenEnd(_, _)
TokenEnd(s, i) == IF At(s, i) \in {",", NUL} THEN i ELSE TokenEnd(s, i + 1)

\* mutant: a tokenizer that keeps empty fields (strsep)
Strtok_keep_empty(s, i) ==
    IF i > Len(s) + 1
    THEN [tok |-> NULL, next |-> i]
    ELSE [tok |-> SubSeq(s, i, TokenEnd(s, i) - 1), next |-> TokenEnd(s, i) + 1]

\* mutant: the token taken up to and including its delimiter
Strtok_with_delim(s, i) ==
    LET b == SkipDelims(s, i)
        e == TokenEnd(s, b)
    IN  IF At(s, b) = NUL THEN [tok |-> NULL, next |-> b]
        ELSE [tok |-> SubSeq(s, b, IF e > Len(s) THEN Len(s) ELSE e),
              next |-> IF At(s, e) = "," THEN e + 1 ELSE e]

\* one call: the token and where the saved pointer is left
Strtok(s, i) ==
    LET b == SkipDelims(s, i)
        e == TokenEnd(s, b)
    IN  IF At(s, b) = NUL THEN [tok |-> NULL, next |-> b]
        ELSE [tok |-> SubSeq(s, b, e - 1), next |-> IF At(s, e) = "," THEN e + 1 ELSE e]

\* the results of n calls, the first on s and the others on NULL
RECURSIVE StrtokN(_, _, _)
StrtokN(s, i, n) ==
    IF n = 0 THEN <<>>
    ELSE LET r == Strtok(s, i) IN <<r.tok>> \o StrtokN(s, r.next, n - 1)

\* atoi(t) = (int) strtol(t, NULL, 10): spaces, a sign, digits; 0 if none
Atoi(t) ==
    LET i0 == SkipSpaces(t, 1)
        i1 == IF At(t, i0) \in {"+", "-"} THEN i0 + 1 ELSE i0
        r  == Digits(t, i1, 0, 0)
    IN  IF At(t, i0) = "-" THEN -r.val ELSE r.val

(***************************************************************************)
(* The handlers.                                                           *)
(***************************************************************************)
Init ==
    /\ opt \in {"b", "R", "k"}
    /\ arg \in SeqOf(Chars, MaxLen)
    /\ pc = "parse" /\ call = <<>>

\* minijail_bind/_rlimit/_mount_with_data() may fail, and minijail0 then exits
Hand(c) == \/ pc' = "failed" /\ UNCHANGED call
           \/ pc' = "done" /\ call' = c

(* add_binding(): src and dest are required; the bind is writable when     *)
(* atoi() of the third token is non-zero, read-only when there is none.    *)
add_binding ==
    /\ pc = "parse" /\ opt = "b"
    /\ LET t == StrtokN(arg, 1, 3)
       IN  IF t[1] = NULL \/ t[2] = NULL
           THEN pc' = "bad" /\ UNCHANGED call
           ELSE Hand(<<t[1], t[2], IF t[3] = NULL THEN 0 ELSE Atoi(t[3])>>)
    /\ UNCHANGED <<opt, arg>>

(* add_rlimit(): type, cur and max are all required and read by atoi().   *)
add_rlimit ==
    /\ pc = "parse" /\ opt = "R"
    /\ LET t == StrtokN(arg, 1, 3)
       IN  IF t[1] = NULL \/ t[2] = NULL \/ t[3] = NULL
           THEN pc' = "bad" /\ UNCHANGED call
           ELSE Hand(<<Atoi(t[1]), Atoi(t[2]), Atoi(t[3])>>)
    /\ UNCHANGED <<opt, arg>>

(* add_mount(): five tokens, of which src, dest and type are required; the *)
(* flags are strtoul(flags, NULL, 16), whose end is never looked at, and 0 *)
(* when there is no fourth token; data is the fifth token or NULL.          *)
add_mount ==
    /\ pc = "parse" /\ opt = "k"
    /\ LET t == StrtokN(arg, 1, 5)
       IN  IF t[1] = NULL \/ t[2] = NULL \/ t[3] = NULL
           THEN pc' = "bad" /\ UNCHANGED call
           ELSE Hand(<<t[1], t[2], t[3],
                       IF t[4] = NULL THEN 0 ELSE Strtoull(t[4]).value, t[5]>>)
    /\ UNCHANGED <<opt, arg>>

\* the rest of the program is Minijail0's
Terminated == pc # "parse" /\ UNCHANGED vars

Next == add_binding \/ add_rlimit \/ add_mount \/ Terminated

Spec == Init /\ [][Next]_vars

(***************************************************************************)
(* The reference: the fields between consecutive commas, empty ones        *)
(* included, and strtol's subject sequence by its grammar.                 *)
(***************************************************************************)
Fields(s) ==
    LET b == <<0>> \o SetToSortSeq({i \in DOMAIN s : s[i] = ","}, <) \o <<Len(s) + 1>>
    IN  [k \in 1..Len(b) - 1 |-> SubSeq(s, b[k] + 1, b[k + 1] - 1)]

\* what the k-th of the three strtok calls returns: the k-th non-empty field
RefToken(s, k) ==
    LET f == SelectSeq(Fields(s), LAMBDA x : x # <<>>)
    IN  IF k <= Len(f) THEN f[k] ELSE NULL

\* the value of the longest prefix of the form spaces, sign, digits
RefAtoi(t) ==
    LET ok(k) == \E a, b \in 0..k :
                    /\ a <= b /\ b - a <= 1 /\ b < k
                    /\ AllIn(SubSeq(t, 1, a), {" "})
                    /\ AllIn(SubSeq(t, a + 1, b), {"+", "-"})
                    /\ AllIn(SubSeq(t, b + 1, k), Range(DecDigit))
        P == {k \in 1..Len(t) : ok(k)}
        k == IF P = {} THEN 0 ELSE Max(P)
        ds == SelectSeq(SubSeq(t, 1, k), IsDigit)
    IN  IF \E i \in 1..k : t[i] = "-" THEN -Num(ds) ELSE Num(ds)

Required == IF opt = "b" THEN 2 ELSE 3

Token == SeqOf(Chars \ {","}, MaxLen) \ {<<>>}
Atoms == -(10^MaxLen)..10^MaxLen

TypeOK ==
    /\ opt \in {"b", "R", "k"} /\ arg \in SeqOf(Chars, MaxLen)
    /\ pc \in {"parse", "done", "bad", "failed"}
    /\ \/ call = <<>>
       \/ opt = "b" /\ call \in Token \X Token \X Atoms
       \/ opt = "R" /\ call \in Atoms \X Atoms \X Atoms
       \/ opt = "k" /\ call \in Token \X Token \X Token \X (0..ULMax) \X (Token \cup {NULL})

(* The handlers refuse exactly the arguments with fewer non-empty fields   *)
(* than they require, and hand over the fields and numbers the C library's *)
(* strtok and atoi define: the first two fields as src and dest with the   *)
(* third's number as the writable flag, the three numbers of a limit, or   *)
(* a mount's three fields, the standard strtoul value of its fourth (0     *)
(* without one) and its fifth field or NULL.                               *)
FieldsFollowStrtok ==
    /\ pc # "parse" => (pc = "bad" <=> \E k \in 1..Required : RefToken(arg, k) = NULL)
    /\ pc = "done" =>
          call = IF opt = "b"
                 THEN <<RefToken(arg, 1), RefToken(arg, 2),
                        IF RefToken(arg, 3) = NULL THEN 0 ELSE RefAtoi(RefToken(arg, 3))>>
                 ELSE IF opt = "R"
                 THEN [k \in 1..3 |-> RefAtoi(RefToken(arg, k))]
                 ELSE <<RefToken(arg, 1), RefToken(arg, 2), RefToken(arg, 3),
                        IF RefToken(arg, 4) = NULL THEN 0
                        ELSE StrtoullRef(RefToken(arg, 4)).value,
                        RefToken(arg, 5)>>

(* Spec 4.1: these directives split on a fixed delimiter into positional  *)
(* fields, and a missing required field is an error.  So an accepted      *)
(* argument has every required field non-empty at its position, and a    *)
(* bind gets the first two fields as src and dest.                         *)
PositionalFields ==
    pc = "done" =>
        /\ \A k \in 1..Required : k <= Len(Fields(arg)) /\ Fields(arg)[k] # <<>>
        /\ opt = "b" => call[1] = Fields(arg)[1] /\ call[2] = Fields(arg)[2]
====
