------------------------------ MODULE IdConv ------------------------------
(***************************************************************************)
(* The user and group arguments of -u and -g (set_user() and set_group()   *)
(* in minijail0.c), followed by the default id map that set_ugid_mapping() *)
(* builds with build_idmap() for a bare -m or -M.  The argument is read    *)
(* with strtod() into an int; when all of it is consumed, that int becomes *)
(* the uid_t (gid_t) and goes to the jail, else the argument is a name.    *)
(* The default map is the text "%d %d 1" of the chosen id and the caller's *)
(* id.  int and uid_t are narrowed to W bits.                              *)
(***************************************************************************)
EXTENDS Integers, SequencesExt, CString

CONSTANTS
    Chars,      \* the characters an argument may hold
    MaxLen,     \* the longest argument
    W,          \* the width of int and of uid_t/gid_t (32 in the program)
    UserDB,     \* the passwd database: name |-> uid
    GroupDB,    \* the group database: name |-> gid
    CallerId,   \* getuid() / getgid() of the caller
    IdmapLen    \* IDMAP_LEN, the size of build_idmap()'s buffer

ASSUME 10^MaxLen > 2^W

VARIABLES
    opt,      \* "u" or "g"
    arg,      \* optarg, a sequence of characters
    pc,       \* "convert", "map", "done" or "exited"
    id,       \* parse_args()'s uid (gid) local, written through out_uid
    jailId,   \* the id handed to minijail_change_uid/gid/user/group
    map       \* the map handed to minijail_uidmap/gidmap, <<>> before

vars == <<opt, arg, pc, id, jailId, map>>

IntMin == -(2^(W - 1))
IntMax == 2^(W - 1) - 1
IdMod  == 2^W
NoId   == -1

(***************************************************************************)
(* glibc strtod for decimal input.  The value is kept exact as a sign, the *)
(* digits read as one integer, and a power of ten.                        *)
(***************************************************************************)
\* mutant: an exponent's minus sign is skipped but not applied
Strtod_unsigned_exp(s) ==
    LET i0 == SkipSpaces(s, 1)
        i1 == IF At(s, i0) \in {"+", "-"} THEN i0 + 1 ELSE i0
        ip == Digits(s, i1, 0, 0)
        fp == IF At(s, ip.end) = "." THEN Digits(s, ip.end + 1, ip.val, 0)
              ELSE [val |-> ip.val, n |-> 0, end |-> ip.end]
        es == IF At(s, fp.end + 1) \in {"+", "-"} THEN fp.end + 2 ELSE fp.end + 1
        hasE == At(s, fp.end) = "e" /\ IsDigit(At(s, es))
        ex == Digits(s, es, 0, 0)
    IN  IF ip.n + fp.n = 0 THEN [neg |-> FALSE, mant |-> 0, exp10 |-> 0, end |-> 1]
        ELSE [neg |-> At(s, i0) = "-", mant |-> fp.val,
              exp10 |-> (IF hasE THEN ex.val ELSE 0) - fp.n,
              end |-> IF hasE THEN ex.end ELSE fp.end]

\* spaces, a sign, digits with an optional point, then an exponent only
\* when "e" is followed by a digit (after an optional sign)
Strtod(s) ==
    LET i0 == SkipSpaces(s, 1)
        i1 == IF At(s, i0) \in {"+", "-"} THEN i0 + 1 ELSE i0
        ip == Digits(s, i1, 0, 0)
        fp == IF At(s, ip.end) = "." THEN Digits(s, ip.end + 1, ip.val, 0)
              ELSE [val |-> ip.val, n |-> 0, end |-> ip.end]
        es == IF At(s, fp.end + 1) \in {"+", "-"} THEN fp.end + 2 ELSE fp.end + 1
        hasE == At(s, fp.end) = "e" /\ IsDigit(At(s, es))
        ex == Digits(s, es, 0, 0)
        e  == IF ~hasE THEN 0 ELSE IF At(s, fp.end + 1) = "-" THEN -ex.val ELSE ex.val
    IN  IF ip.n + fp.n = 0 THEN [neg |-> FALSE, mant |-> 0, exp10 |-> 0, end |-> 1]
        ELSE [neg |-> At(s, i0) = "-", mant |-> fp.val, exp10 |-> e - fp.n,
              end |-> IF hasE THEN ex.end ELSE fp.end]

\* the integral part; an exponent beyond MaxLen is out of int's range anyway
Trunc(v) ==
    LET k == IF v.exp10 >= 0 THEN v.exp10 ELSE -v.exp10
        p == 10^(IF k > MaxLen THEN MaxLen ELSE k)
        m == IF v.exp10 >= 0 THEN v.mant * p ELSE v.mant \div p
    IN  IF v.neg THEN -m ELSE m

(* int uid = strtod(...): the integral part when it fits; otherwise the    *)
(* conversion is undefined, and the builds give INT_MIN (x86 cvttsd2si)    *)
(* or the saturated value (ARM fcvtzs).                                    *)
ToInt(v) ==
    LET n == Trunc(v)
    IN  IF n \in IntMin..IntMax THEN {n}
        ELSE {IntMin, IF n > 0 THEN IntMax ELSE IntMin}

\* mutant: the int kept signed, as if the local were an int
ToId_signed(n) == n

\* the int assigned to a uid_t or passed as one
ToId(n) == n % IdMod

(***************************************************************************)
(* build_idmap(): snprintf "%d %d 1" of two id_t values.                   *)
(***************************************************************************)
\* %d reads the unsigned id as an int
AsInt(i) == IF i > IntMax THEN i - IdMod ELSE i

RECURSIVE Decimal(_)
Decimal(n) ==
    IF n < 10 THEN <<DecDigit[n + 1]>>
    ELSE Decimal(n \div 10) \o <<DecDigit[(n % 10) + 1]>>

FormatD(n) == IF n < 0 THEN <<"-">> \o Decimal(-n) ELSE Decimal(n)

build_idmap(i, lowerid) ==
    FormatD(AsInt(i)) \o <<" ">> \o FormatD(AsInt(lowerid)) \o <<" ", "1">>

(***************************************************************************)
(* The handlers.                                                           *)
(***************************************************************************)
Init ==
    /\ opt \in {"u", "g"}
    /\ arg \in SeqOf(Chars, MaxLen)
    /\ pc = "convert" /\ id = 0 /\ jailId = NoId /\ map = <<>>

DB == IF opt = "u" THEN UserDB ELSE GroupDB

(* set_user() / set_group(): !*end && *arg takes the number; otherwise the *)
(* name is looked up (lookup_user/lookup_group), an unknown one is exit(1),*)
(* and minijail_change_user/group() hands the name's id to the jail.       *)
SetId ==
    /\ pc = "convert"
    /\ LET v == Strtod(arg)
       IN  IF At(arg, v.end) = NUL /\ arg # <<>>
           THEN \E n \in ToInt(v) : id' = ToId(n) /\ jailId' = ToId(n) /\ pc' = "map"
           ELSE IF arg \in DOMAIN DB
                THEN id' = DB[arg] /\ jailId' = DB[arg] /\ pc' = "map"
                ELSE pc' = "exited" /\ UNCHANGED <<id, jailId>>
    /\ UNCHANGED <<opt, arg, map>>

(* set_ugid_mapping() with no map given: build_idmap(id, getuid()), whose  *)
(* snprintf result must fit IDMAP_LEN, then minijail_uidmap/gidmap().      *)
SetDefaultMap ==
    /\ pc = "map"
    /\ LET text == build_idmap(id, CallerId)
       IN  IF Len(text) >= IdmapLen
           THEN pc' = "exited" /\ UNCHANGED map
           ELSE \/ pc' = "exited" /\ UNCHANGED map      \* minijail_uidmap() failed
                \/ pc' = "done" /\ map' = text
    /\ UNCHANGED <<opt, arg, id, jailId>>

\* the rest of the program is Minijail0's
Terminated == pc \in {"done", "exited"} /\ UNCHANGED vars

Next == SetId \/ SetDefaultMap \/ Terminated

Spec == Init /\ [][Next]_vars

(***************************************************************************)
(* The reference: the C standard's subject sequence for strtod, the        *)
(* longest prefix made of spaces, an optional sign, digits with an         *)
(* optional point (at least one digit in all) and an optional exponent,    *)
(* "e", an optional sign and at least one digit.                           *)
(***************************************************************************)

\* the split points p[1] <= .. <= p[4] of t into spaces, sign, digits,
\* fraction and exponent
Subjects(t) ==
    { p \in [1..4 -> 0..Len(t)] :
        LET sg == SubSeq(t, p[1] + 1, p[2])
            fr == SubSeq(t, p[3] + 1, p[4])
            ex == SubSeq(t, p[4] + 1, Len(t))
            ed == IF Len(ex) > 1 /\ ex[2] \in {"+", "-"} THEN SubSeq(ex, 3, Len(ex))
                  ELSE SubSeq(ex, 2, Len(ex))
        IN  /\ p[1] <= p[2] /\ p[2] <= p[3] /\ p[3] <= p[4]
            /\ AllIn(SubSeq(t, 1, p[1]), {" "})
            /\ Len(sg) <= 1 /\ AllIn(sg, {"+", "-"})
            /\ AllIn(SubSeq(t, p[2] + 1, p[3]), Range(DecDigit))
            /\ fr = <<>> \/ (fr[1] = "." /\ AllIn(Tail(fr), Range(DecDigit)))
            /\ (p[3] - p[2]) + (IF fr = <<>> THEN 0 ELSE Len(fr) - 1) >= 1
            /\ ex = <<>> \/ (ex[1] = "e" /\ ed # <<>> /\ AllIn(ed, Range(DecDigit))) }

\* the subject's sign, digits and power of ten
SubjectValue(t) ==
    LET p  == CHOOSE q \in Subjects(t) : TRUE
        fr == IF p[4] > p[3] THEN SubSeq(t, p[3] + 2, p[4]) ELSE <<>>
        ex == SubSeq(t, p[4] + 1, Len(t))
        ev == CASE ex = <<>>    -> 0
                [] ex[2] = "-" -> -Num(SubSeq(ex, 3, Len(ex)))
                [] ex[2] = "+" -> Num(SubSeq(ex, 3, Len(ex)))
                [] OTHER       -> Num(Tail(ex))
    IN  [neg |-> p[2] > p[1] /\ t[p[2]] = "-",
         mant |-> Num(SubSeq(t, p[2] + 1, p[3]) \o fr), exp10 |-> ev - Len(fr)]

\* the argument is numeric: non-empty and one whole subject sequence
RefNumeric(s) == s # <<>> /\ Subjects(s) # {}

\* |value| rounded toward zero, by the definition of the quotient
RefMagnitude(v) ==
    IF v.exp10 >= 0
    THEN IF v.mant = 0 THEN 0 ELSE v.mant * 10^(IF v.exp10 > MaxLen THEN MaxLen ELSE v.exp10)
    ELSE LET d == 10^(IF -v.exp10 > MaxLen THEN MaxLen ELSE -v.exp10)
         IN  CHOOSE q \in 0..v.mant : q * d <= v.mant /\ v.mant < (q + 1) * d

\* the ids the numeric path may yield: the integral part modulo 2^W when it
\* fits an int, one of the two outcomes of the undefined conversion if not
RefIds(s) ==
    LET v == SubjectValue(s)
        q == IF v.neg THEN -RefMagnitude(v) ELSE RefMagnitude(v)
    IN  IF q \in IntMin..IntMax THEN {q % IdMod}
        ELSE {IntMin % IdMod, (IF q > 0 THEN IntMax ELSE IntMin) % IdMod}

TypeOK ==
    /\ opt \in {"u", "g"} /\ arg \in SeqOf(Chars, MaxLen)
    /\ pc \in {"convert", "map", "done", "exited"}
    /\ id \in 0..IdMod - 1
    /\ jailId \in {NoId} \cup 0..IdMod - 1
    /\ map \in Seq(Range(DecDigit) \cup {"-", " "})

(* set_user/set_group decide as the C standard's strtod does: an argument  *)
(* that is one whole decimal number is taken as a number, and the id the   *)
(* jail and the local get is its integral part cast to int and to uid_t;   *)
(* anything else is a name, and only a known name gets past.               *)
IdHandlerFollowsStrtod ==
    /\ pc \in {"map", "done"} =>
          /\ jailId = id
          /\ IF RefNumeric(arg) THEN id \in RefIds(arg)
             ELSE arg \in DOMAIN DB /\ id = DB[arg]
    /\ pc = "exited" /\ jailId = NoId => ~RefNumeric(arg) /\ arg \notin DOMAIN DB

(* Spec 4.2: a specifier that parses entirely as a number is used directly *)
(* as the numeric id.  So a numeric argument that set_user/set_group take  *)
(* must denote exactly the id the jail gets: no fraction dropped, no sign  *)
(* wrapped into uid_t, no out-of-range value replaced.                     *)
NumericIdIsValue ==
    pc # "convert" /\ jailId # NoId /\ RefNumeric(arg) =>
        LET v == SubjectValue(arg)
            e == v.exp10
        IN  IF v.mant = 0 THEN jailId = 0
            ELSE /\ ~v.neg
                 /\ IF e >= 0 THEN e <= MaxLen /\ v.mant * 10^e = jailId
                    ELSE -e <= MaxLen /\ v.mant = jailId * 10^(-e)

(* Spec 4.2: the default map maps the caller's id to the chosen id.  The   *)
(* kernel reads a map's first field as an unsigned decimal, so that field  *)
(* must be the digits of the id the jail switches to.                      *)
DefaultMapNamesId ==
    pc = "done" =>
        \E k \in DOMAIN map :
            /\ map[k] = " " /\ k > 1
            /\ AllIn(SubSeq(map, 1, k - 1), Range(DecDigit))
            /\ Num(SubSeq(map, 1, k - 1)) = jailId
====
