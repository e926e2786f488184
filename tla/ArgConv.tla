------------------------------ MODULE ArgConv ------------------------------
(***************************************************************************)
(* The hexadecimal masks of -c and -B (use_caps() and skip_securebits() in *)
(* minijail0.c).  Both call strtoull(arg, &end, 16), refuse the argument   *)
(* when *end is not '\0', and hand the result to libminijail.  strtoull    *)
(* is the C library's, written in Strtoul as glibc runs it and checked    *)
(* here against the C standard's definition over every short argument.    *)
(***************************************************************************)
EXTENDS Integers, SequencesExt, Strtoul

CONSTANTS
    Others,   \* the characters an argument may hold besides the hex digits
    MaxLen    \* the longest argument

VARIABLES
    opt,        \* "c" or "B": which option's argument is converted
    arg,        \* optarg, a sequence of characters
    pc,         \* "convert", "done" (the mask was handed over) or "exited" (exit(1))
    mask        \* the value passed to minijail_use_caps/skip_setting_securebits

vars == <<opt, arg, pc, mask>>

Chars == DOMAIN Hex \cup Others
NoMask == -1                          \* nothing handed over yet

(***************************************************************************)
(* The two handlers.                                                       *)
(***************************************************************************)
Init ==
    /\ opt \in {"c", "B"}
    /\ arg \in SeqOf(Chars, MaxLen)
    /\ pc = "convert" /\ mask = NoMask

\* a stray character after the number is refused; otherwise the value is used
Convert ==
    LET r == Strtoull(arg)
    IN  IF At(arg, r.end) # NUL
        THEN pc' = "exited" /\ UNCHANGED mask
        ELSE pc' = "done" /\ mask' = r.value

use_caps == pc = "convert" /\ opt = "c" /\ Convert /\ UNCHANGED <<opt, arg>>
skip_securebits == pc = "convert" /\ opt = "B" /\ Convert /\ UNCHANGED <<opt, arg>>

\* the rest of the program is Minijail0's
Terminated == pc \in {"done", "exited"} /\ UNCHANGED vars

Next == use_caps \/ skip_securebits \/ Terminated

Spec == Init /\ [][Next]_vars

TypeOK ==
    /\ opt \in {"c", "B"} /\ arg \in SeqOf(Chars, MaxLen)
    /\ pc \in {"convert", "done", "exited"}
    /\ mask \in {NoMask} \cup 0..ULMax

(* The handlers decide as the C standard's strtoull does: an argument is  *)
(* accepted exactly when its subject sequence runs to the end, and the     *)
(* mask handed over is the standard's value (glibc's digit loop with its   *)
(* cutoff, sign and 0x handling, against the longest-prefix definition).   *)
HandlerFollowsReference ==
    pc # "convert" =>
        LET ref == StrtoullRef(arg)
        IN  /\ pc = "done" <=> ref.end = Len(arg) + 1
            /\ pc = "done" => mask = ref.value

(* Spec 4.1 reads a mask as an unsigned base-16 number.  A mask of all     *)
(* ones keeps every capability (-c) or skips every securebit (-B), so an   *)
(* accepted argument yields it only when its digits are that number: the   *)
(* spaces, a plus sign and 0x the grammar allows aside, never from a minus *)
(* sign or from digits past ULLONG_MAX.                                    *)
FullMaskOnlyWhenWritten ==
    pc = "done" /\ mask = ULMax =>
        \E p \in Subjects(arg) :
            /\ ~(p[2] > p[1] /\ arg[p[2]] = "-")
            /\ FoldLeft(LAMBDA a, c : a * 16 + Hex[c], 0, SubSeq(arg, p[3] + 1, Len(arg))) = ULMax
====
