----------------------------- MODULE Minijail0 -----------------------------
(***************************************************************************)
(* The minijail0 launcher, src/minijail0.c: parse_args() walks argv with   *)
(* getopt_long(), applies each option to the jail object at once and       *)
(* records it in a local flag; after the loop it sets up the uid/gid maps, *)
(* runs the cross-option checks, probes the target's ELF linkage, and      *)
(* main() picks minijail_run() or minijail_run_no_preload() and waits.     *)
(*                                                                         *)
(* pc is the point of control.  args holds parse_args()' local flags,      *)
(* jail the settings the code has handed to libminijail (the struct        *)
(* minijail), env what the process cannot choose: its real uid and gid,   *)
(* the file at the target path, and whether it leads its process group.   *)
(* Results of libminijail and of the OS are chosen with \E at the call     *)
(* that returns them.                                                      *)
(***************************************************************************)
EXTENDS Integers, FiniteSets

CONSTANTS
    Ids,          \* numeric uids and gids written on the command line
    CallerIds,    \* real uids and gids minijail0 may be started with
    UserDB,       \* passwd database: user name -> [uid, gid]
    GroupDB,      \* group database: group name -> gid
    UnknownName,  \* a name neither database contains
    Binaries,     \* what the file at the target path may be
    Opts,         \* the options the command line may contain
    MaxOpts       \* bound on the number of options in argv

ASSUME UnknownName \notin DOMAIN UserDB \cup DOMAIN GroupDB
ASSUME MaxOpts \in Nat

VARIABLES
    pc,               \* "parse", a post-loop step of parse_args(), a step of main(), "exited"
    nopts,            \* options consumed so far
    args,             \* parse_args() locals
    jail,             \* what has been set on struct minijail
    elftype,          \* main()'s ElfType, written by -T or by the probe
    exit_immediately, \* main()'s flag, set by -i
    env,              \* real uid/gid of the caller and the target file
    capSetgid,        \* what has_cap_setgid() observed
    launched,         \* which minijail_run*() main() called
    runOk,            \* whether that call succeeded
    exitCode          \* the process's exit status, NoCode while running

vars == <<pc, nopts, args, jail, elftype, exit_immediately, env, capSetgid,
          launched, runOk, exitCode>>

NoCode == -1
NoId == -1
NULL == "NULL"

(* The id maps handed to minijail_uidmap()/minijail_gidmap(): none, the     *)
(* user's -m/-M text, or the one-line map build_idmap() formats.           *)
NoMap == [kind |-> "none", id |-> 0, lowerid |-> 0]
ExplicitMap == [kind |-> "explicit", id |-> 0, lowerid |-> 0]
\* mutant: the two ids of the map swapped
build_idmap_swapped(id, lowerid) ==
    [kind |-> "default", id |-> lowerid, lowerid |-> id]
build_idmap(id, lowerid) == [kind |-> "default", id |-> id, lowerid |-> lowerid]

Namespaces == {"vfs", "pids", "user", "net", "ipc", "uts", "cgroups"}
\* jail settings no check of minijail0 reads
MiscSettings == {"no_new_privs", "log_seccomp_failures", "securebits_skip",
                 "mount", "rlimit", "pid_file", "tmp", "dev", "enter_vfs",
                 "enter_net", "remount_proc_ro", "run_as_init", "alt_syscall",
                 "keyring", "tsync", "hostname", "preserve_stderr"}

\* exit statuses other than exit(1) and the child's own
AbortStatus == 134      \* libminijail's die() ends in abort()
WaitFailureStatus == 246 \* minijail_wait() returning -ECHILD, as an exit status

InitArgs ==
    [seccomp |-> -1, use_seccomp_filter |-> FALSE, forward |-> TRUE,
     binding |-> FALSE, chroot |-> FALSE, pivot_root |-> FALSE,
     mount_ns |-> FALSE, skip_remount |-> FALSE,
     inherit_suppl_gids |-> FALSE, keep_suppl_gids |-> FALSE,
     caps |-> FALSE, ambient_caps |-> FALSE, uid |-> 0, gid |-> 0,
     uidmap |-> NULL, gidmap |-> NULL, set_uidmap |-> FALSE,
     set_gidmap |-> FALSE, log_to_stderr |-> FALSE]

InitJail ==
    [ns |-> {}, root |-> {}, binds |-> {}, seccomp |-> {},
     filter_loaded |-> FALSE, caps |-> FALSE, ambient |-> FALSE,
     suppl |-> {}, skip_remount |-> FALSE, uid |-> NoId, gid |-> NoId,
     uidmap |-> NoMap, gidmap |-> NoMap, disable_setgroups |-> FALSE,
     forward_signals |-> FALSE, misc |-> {}]

Init ==
    /\ pc = "parse"
    /\ nopts = 0
    /\ args = InitArgs
    /\ jail = InitJail
    /\ elftype = "ELFERROR"
    /\ exit_immediately = FALSE
    /\ env \in [uid : CallerIds, gid : CallerIds, binary : Binaries, leader : BOOLEAN]
    /\ capSetgid = "unknown"
    /\ launched = "none"
    /\ runOk = FALSE
    /\ exitCode = NoCode

(***************************************************************************)
(* Helpers for the getopt_long() loop.  Parse(o): getopt_long() returns    *)
(* option o.  Continue: the case ends with break.  Exit(c): exit(c).       *)
(***************************************************************************)
Parse(o) ==
    /\ pc = "parse"
    /\ o \in Opts
    /\ nopts < MaxOpts
    /\ nopts' = nopts + 1
    /\ UNCHANGED <<env, capSetgid, launched, runOk>>

Continue == UNCHANGED <<pc, exitCode>>

Exit(c) == pc' = "exited" /\ exitCode' = c

Goto(p) == pc' = p /\ UNCHANGED exitCode

\* a case that fails leaves the jail as it was: the process exits with it
ExitNow(c) == Exit(c) /\ UNCHANGED <<args, jail, elftype, exit_immediately>>

\* a case that only hands one setting to libminijail
SetJail(j) == jail' = j /\ UNCHANGED <<args, elftype, exit_immediately>> /\ Continue

AddMisc(s) == SetJail([jail EXCEPT !.misc = @ \cup {s}])

AddNs(S) == [jail EXCEPT !.ns = @ \cup S]

(***************************************************************************)
(* Option arguments, abstracted to the cases the code tells apart.  A      *)
(* user or group argument is numeric when strtod() consumes all of it.     *)
(***************************************************************************)
Spec_(S, N) == {[num |-> TRUE, val |-> i] : i \in S} \cup
               {[num |-> FALSE, val |-> n] : n \in N}
UserArgs == Spec_(Ids, DOMAIN UserDB \cup {UnknownName})
GroupArgs == Spec_(Ids, DOMAIN GroupDB \cup {UnknownName})
\* strtoull(arg, &end, 16) leaves *end == '\0', or stops at a stray character
MaskArgs == {"hex", "trailing"}
\* strtok() fields of "src,dest[,writeable]"; atoi() of the third one
BindArgs == {"rw", "ro", "missing"}
\* "type,cur,max" and "src,dest,type[,flags][,data]": all fields, or one missing
FieldArgs == {"ok", "missing"}

(* set_user(): a numeric argument is used as the uid; a name is looked up  *)
(* in the passwd database, which also yields the user's primary gid.       *)
set_user(arg) ==
    \/ /\ arg.num
       /\ args' = [args EXCEPT !.uid = arg.val]
       /\ jail' = [jail EXCEPT !.uid = arg.val]
       /\ UNCHANGED <<elftype, exit_immediately>> /\ Continue
    \/ /\ ~arg.num /\ arg.val \in DOMAIN UserDB
       /\ args' = [args EXCEPT !.uid = UserDB[arg.val].uid,
                               !.gid = UserDB[arg.val].gid]
       /\ jail' = [jail EXCEPT !.uid = UserDB[arg.val].uid]
       /\ UNCHANGED <<elftype, exit_immediately>> /\ Continue
    \/ /\ ~arg.num /\ arg.val \notin DOMAIN UserDB
       /\ ExitNow(1)

(* set_group(): likewise for the gid.                                      *)
set_group(arg) ==
    \/ /\ arg.num
       /\ args' = [args EXCEPT !.gid = arg.val]
       /\ jail' = [jail EXCEPT !.gid = arg.val]
       /\ UNCHANGED <<elftype, exit_immediately>> /\ Continue
    \/ /\ ~arg.num /\ arg.val \in DOMAIN GroupDB
       /\ args' = [args EXCEPT !.gid = GroupDB[arg.val]]
       /\ jail' = [jail EXCEPT !.gid = GroupDB[arg.val]]
       /\ UNCHANGED <<elftype, exit_immediately>> /\ Continue
    \/ /\ ~arg.num /\ arg.val \notin DOMAIN GroupDB
       /\ ExitNow(1)

(* skip_securebits(): a mask with trailing characters is refused.          *)
skip_securebits(arg) ==
    IF arg = "trailing" THEN ExitNow(1) ELSE AddMisc("securebits_skip")

\* mutant: case 'b' forgets binding = 1
add_binding_unflagged(arg) ==
    \/ ExitNow(1)
    \/ /\ arg # "missing"
       /\ jail' = [jail EXCEPT !.binds = @ \cup {arg = "rw"}]
       /\ UNCHANGED <<args, elftype, exit_immediately>> /\ Continue

(* add_binding(): src and dest are required, then minijail_bind(); the     *)
(* bind is writable when atoi() of the third field is non-zero.            *)
add_binding(arg) ==
    \/ ExitNow(1)     \* a field is missing, or minijail_bind() failed
    \/ /\ arg # "missing"
       /\ args' = [args EXCEPT !.binding = TRUE]
       /\ jail' = [jail EXCEPT !.binds = @ \cup {arg = "rw"}]
       /\ UNCHANGED <<elftype, exit_immediately>> /\ Continue

(* add_rlimit() and add_mount(): every required field, then the call;     *)
(* either a missing field or a failed call is exit(1).                     *)
add_rlimit(arg) ==
    \/ ExitNow(1)
    \/ arg = "ok" /\ AddMisc("rlimit")

add_mount(arg) ==
    \/ ExitNow(1)
    \/ arg = "ok" /\ AddMisc("mount")

(***************************************************************************)
(* The cases of the switch in parse_args(), one action each.               *)
(***************************************************************************)
Opt_u == \E a \in UserArgs : Parse("u") /\ set_user(a)
Opt_g == \E a \in GroupArgs : Parse("g") /\ set_group(a)
Opt_n == Parse("n") /\ AddMisc("no_new_privs")

\* -s and -S refuse each other whichever comes first
Opt_s ==
    /\ Parse("s")
    /\ IF args.seccomp \notin {-1, 1}
       THEN ExitNow(1)
       ELSE /\ args' = [args EXCEPT !.seccomp = 1]
            /\ jail' = [jail EXCEPT !.seccomp = @ \cup {"strict"}]
            /\ UNCHANGED <<elftype, exit_immediately>> /\ Continue

\* the filter path is refused when it is PATH_MAX long or longer
Opt_S ==
    /\ Parse("S")
    /\ IF args.seccomp \notin {-1, 2}
       THEN ExitNow(1)
       ELSE \/ ExitNow(1)
            \/ /\ args' = [args EXCEPT !.seccomp = 2, !.use_seccomp_filter = TRUE]
               /\ jail' = [jail EXCEPT !.seccomp = @ \cup {"filter"}]
               /\ UNCHANGED <<elftype, exit_immediately>> /\ Continue

Opt_l == Parse("l") /\ SetJail(AddNs({"ipc"}))
Opt_L == Parse("L") /\ AddMisc("log_seccomp_failures")
Opt_b == \E a \in BindArgs : Parse("b") /\ add_binding(a)
Opt_B == \E a \in MaskArgs : Parse("B") /\ skip_securebits(a)

\* use_caps(): caps is set before the mask is parsed
Opt_c ==
    \E a \in MaskArgs :
        /\ Parse("c")
        /\ IF a = "trailing"
           THEN ExitNow(1)
           ELSE /\ args' = [args EXCEPT !.caps = TRUE]
                /\ jail' = [jail EXCEPT !.caps = TRUE]
                /\ UNCHANGED <<elftype, exit_immediately>> /\ Continue

\* -C is refused after -P; minijail_enter_chroot() may fail
Opt_C ==
    /\ Parse("C")
    /\ IF args.pivot_root
       THEN ExitNow(1)
       ELSE \/ ExitNow(1)
            \/ /\ args' = [args EXCEPT !.chroot = TRUE]
               /\ jail' = [jail EXCEPT !.root = @ \cup {"chroot"}]
               /\ UNCHANGED <<elftype, exit_immediately>> /\ Continue

Opt_k == \E a \in FieldArgs : Parse("k") /\ add_mount(a)

Opt_K ==
    /\ Parse("K")
    /\ args' = [args EXCEPT !.skip_remount = TRUE]
    /\ jail' = [jail EXCEPT !.skip_remount = TRUE]
    /\ UNCHANGED <<elftype, exit_immediately>> /\ Continue

Opt_P ==
    /\ Parse("P")
    /\ IF args.chroot
       THEN ExitNow(1)
       ELSE \/ ExitNow(1)
            \/ /\ args' = [args EXCEPT !.pivot_root = TRUE]
               /\ jail' = [AddNs({"vfs"}) EXCEPT !.root = @ \cup {"pivot"}]
               /\ UNCHANGED <<elftype, exit_immediately>> /\ Continue

\* minijail_write_pid_file() may fail
Opt_f == Parse("f") /\ (ExitNow(1) \/ AddMisc("pid_file"))

\* -t[size]: new mount namespace, then a tmpfs size parse_size() may refuse
Opt_t ==
    \E size \in {"none", "ok", "bad"} :
        /\ Parse("t")
        /\ IF size = "bad"
           THEN ExitNow(1)
           ELSE SetJail([AddNs({"vfs"}) EXCEPT !.misc = @ \cup {"tmp"}])

Opt_v ==
    /\ Parse("v")
    /\ args' = [args EXCEPT !.mount_ns = TRUE]
    /\ jail' = AddNs({"vfs"})
    /\ UNCHANGED <<elftype, exit_immediately>> /\ Continue

Opt_V == Parse("V") /\ AddMisc("enter_vfs")
Opt_r == Parse("r") /\ AddMisc("remount_proc_ro")

\* -G and -y refuse each other whichever comes first
Opt_G ==
    /\ Parse("G")
    /\ IF args.keep_suppl_gids
       THEN ExitNow(1)
       ELSE /\ args' = [args EXCEPT !.inherit_suppl_gids = TRUE]
            /\ jail' = [jail EXCEPT !.suppl = @ \cup {"inherit"}]
            /\ UNCHANGED <<elftype, exit_immediately>> /\ Continue

Opt_y ==
    /\ Parse("y")
    /\ IF args.inherit_suppl_gids
       THEN ExitNow(1)
       ELSE /\ args' = [args EXCEPT !.keep_suppl_gids = TRUE]
            /\ jail' = [jail EXCEPT !.suppl = @ \cup {"keep"}]
            /\ UNCHANGED <<elftype, exit_immediately>> /\ Continue

Opt_N == Parse("N") /\ SetJail(AddNs({"cgroups"}))
Opt_p == Parse("p") /\ SetJail(AddNs({"pids"}))

\* -e[file]: enter the namespace in file, or a new one
Opt_e ==
    /\ Parse("e")
    /\ \/ AddMisc("enter_net")
       \/ SetJail(AddNs({"net"}))

Opt_i ==
    /\ Parse("i")
    /\ exit_immediately' = TRUE
    /\ UNCHANGED <<args, jail, elftype>> /\ Continue

\* -H prints the syscall table and exits 1
Opt_H == Parse("H") /\ ExitNow(1)

Opt_I == Parse("I") /\ SetJail([AddNs({"pids"}) EXCEPT !.misc = @ \cup {"run_as_init"}])
Opt_U == Parse("U") /\ SetJail(AddNs({"user", "pids"}))

\* -m[map] and -M[map]: the last occurrence wins, with or without a map
\* mutant: -m with no map keeps an empty string instead of NULL
Opt_m_empty ==
    \E map \in {NULL, "explicit"} :
        /\ Parse("m")
        /\ args' = [args EXCEPT !.set_uidmap = TRUE,
                                !.uidmap = IF map = NULL THEN "" ELSE map]
        /\ UNCHANGED <<jail, elftype, exit_immediately>> /\ Continue

Opt_m ==
    \E map \in {NULL, "explicit"} :
        /\ Parse("m")
        /\ args' = [args EXCEPT !.set_uidmap = TRUE, !.uidmap = map]
        /\ UNCHANGED <<jail, elftype, exit_immediately>> /\ Continue

Opt_M ==
    \E map \in {NULL, "explicit"} :
        /\ Parse("M")
        /\ args' = [args EXCEPT !.set_gidmap = TRUE, !.gidmap = map]
        /\ UNCHANGED <<jail, elftype, exit_immediately>> /\ Continue

\* minijail_use_alt_syscall() may fail
Opt_a == Parse("a") /\ (ExitNow(1) \/ AddMisc("alt_syscall"))

Opt_R == \E a \in FieldArgs : Parse("R") /\ add_rlimit(a)

\* -T: only the literals "static" and "dynamic" are accepted
Opt_T ==
    \E t \in {"static", "dynamic", "other"} :
        /\ Parse("T")
        /\ IF t = "other"
           THEN ExitNow(1)
           ELSE /\ elftype' = IF t = "static" THEN "ELFSTATIC" ELSE "ELFDYNAMIC"
                /\ UNCHANGED <<args, jail, exit_immediately>> /\ Continue

Opt_w == Parse("w") /\ AddMisc("keyring")
Opt_Y == Parse("Y") /\ AddMisc("tsync")

Opt_z ==
    /\ Parse("z")
    /\ args' = [args EXCEPT !.forward = FALSE]
    /\ UNCHANGED <<jail, elftype, exit_immediately>> /\ Continue

\* -d / --mount-dev
Opt_d == Parse("d") /\ SetJail([AddNs({"vfs"}) EXCEPT !.misc = @ \cup {"dev"}])

\* --ambient
Opt_ambient ==
    /\ Parse("ambient")
    /\ args' = [args EXCEPT !.ambient_caps = TRUE]
    /\ jail' = [jail EXCEPT !.ambient = TRUE]
    /\ UNCHANGED <<elftype, exit_immediately>> /\ Continue

\* --uts[=name]: new UTS namespace, and the hostname when one is given
Opt_uts ==
    /\ Parse("uts")
    /\ \/ SetJail(AddNs({"uts"}))
       \/ SetJail([AddNs({"uts"}) EXCEPT !.misc = @ \cup {"hostname"}])

\* --logging=<s>: only "syslog" and "stderr" are accepted
Opt_logging ==
    \E s \in {"syslog", "stderr", "other"} :
        /\ Parse("logging")
        /\ IF s = "other"
           THEN ExitNow(1)
           ELSE /\ args' = [args EXCEPT !.log_to_stderr = (s = "stderr")]
                /\ UNCHANGED <<jail, elftype, exit_immediately>> /\ Continue

\* -h prints the usage and exits 0; an unknown option ('?') exits 1
Opt_h == Parse("h") /\ ExitNow(0)
Opt_unknown == Parse("?") /\ ExitNow(1)

(* getopt_long() returns -1: the options are over.                         *)
EndOfOptions ==
    /\ pc = "parse"
    /\ Goto("logging")
    /\ UNCHANGED <<nopts, args, jail, elftype, exit_immediately, env,
                   capSetgid, launched, runOk>>

(***************************************************************************)
(* parse_args() after the loop: each block below is one step, in the       *)
(* order of the code.  A block leaves the counters and env alone.          *)
(***************************************************************************)
Post(p) == pc = p /\ UNCHANGED <<nopts, env, launched, runOk>>

Next_(p) == Goto(p) /\ UNCHANGED <<args, jail, elftype, exit_immediately>>

\* --logging=stderr: minijail_preserve_fd() keeps stderr open in the jail
Logging ==
    /\ Post("logging") /\ UNCHANGED capSetgid
    /\ IF args.log_to_stderr
       THEN \/ ExitNow(1)
            \/ /\ jail' = [jail EXCEPT !.misc = @ \cup {"preserve_stderr"}]
               /\ Goto("uidmap") /\ UNCHANGED <<args, elftype, exit_immediately>>
       ELSE Next_("uidmap")

(* set_ugid_mapping(), uid half: a new user and pid namespace, and the     *)
(* -m map or, without one, the chosen uid over the caller's real uid.      *)
SetUidMap ==
    /\ Post("uidmap") /\ UNCHANGED capSetgid
    /\ IF ~args.set_uidmap
       THEN Next_("gidmap")
       ELSE LET map == IF args.uidmap = NULL THEN build_idmap(args.uid, env.uid)
                                             ELSE ExplicitMap
            IN \/ ExitNow(1)    \* minijail_uidmap() failed
               \/ /\ jail' = [AddNs({"user", "pids"}) EXCEPT !.uidmap = map]
                  /\ Goto("gidmap") /\ UNCHANGED <<args, elftype, exit_immediately>>

(* has_cap_setgid(): CAP_SETGID in the effective set; 0 when the kernel    *)
(* does not support it.  An error from libcap is exit(1).                  *)
CapProbes == {"set", "clear", "unsupported", "error"}
has_cap_setgid(probe) == probe = "set"

(* set_ugid_mapping(), gid half: as for uids, and without CAP_SETGID the   *)
(* jail must also disable setgroups(2) or the kernel refuses the map.      *)
SetGidMap ==
    /\ Post("gidmap")
    /\ IF ~args.set_gidmap
       THEN Next_("ambient") /\ UNCHANGED capSetgid
       ELSE LET map == IF args.gidmap = NULL THEN build_idmap(args.gid, env.gid)
                                             ELSE ExplicitMap
            IN \E probe \in CapProbes :
                 /\ capSetgid' = probe
                 /\ \/ ExitNow(1)   \* libcap failed, or minijail_gidmap() failed
                    \/ /\ probe # "error"
                       /\ jail' = [AddNs({"user", "pids"}) EXCEPT
                                     !.gidmap = map,
                                     !.disable_setgroups = @ \/ ~has_cap_setgid(probe)]
                       /\ Goto("ambient") /\ UNCHANGED <<args, elftype, exit_immediately>>

(* The checks that need the whole command line.  Check(p, bad, q): at p,   *)
(* exit(1) when bad holds, else go on to q.                                *)
Check(p, bad, q) ==
    /\ Post(p) /\ UNCHANGED capSetgid
    /\ IF bad THEN ExitNow(1) ELSE Next_(q)

\* --ambient needs -c
CheckAmbient == Check("ambient", args.ambient_caps /\ ~args.caps, "forward")

\* minijail_forward_signals() unless -z
ForwardSignals ==
    /\ Post("forward") /\ UNCHANGED capSetgid
    /\ jail' = [jail EXCEPT !.forward_signals = @ \/ args.forward]
    /\ Goto("binding") /\ UNCHANGED <<args, elftype, exit_immediately>>

\* -b needs -C, -P or -v
CheckBinding ==
    Check("binding",
          args.binding /\ ~(args.chroot \/ args.pivot_root \/ args.mount_ns),
          "remount")

\* -K needs -v
CheckSkipRemount == Check("remount", args.skip_remount /\ ~args.mount_ns, "seccomp")

\* minijail_parse_seccomp_filters(): libminijail dies on a bad policy file
ParseSeccompFilters ==
    /\ Post("seccomp") /\ UNCHANGED capSetgid
    /\ IF args.use_seccomp_filter
       THEN \/ ExitNow(AbortStatus)
            \/ /\ jail' = [jail EXCEPT !.filter_loaded = TRUE]
               /\ Goto("program") /\ UNCHANGED <<args, elftype, exit_immediately>>
       ELSE Next_("program")

\* argc == optind: no program was named
CheckProgram ==
    /\ Post("program") /\ UNCHANGED capSetgid
    /\ (ExitNow(1) \/ Next_("probe"))

(* Without -T, the target is checked with access(X_OK) and its linkage     *)
(* read by get_elf_linkage().                                              *)
get_elf_linkage(b) ==
    CASE b = "static"  -> "ELFSTATIC"
      [] b = "dynamic" -> "ELFDYNAMIC"
      [] OTHER         -> "ELFERROR"

ProbeElf ==
    /\ Post("probe") /\ UNCHANGED capSetgid
    /\ IF elftype # "ELFERROR"
       THEN Next_("capscheck")
       ELSE IF env.binary = "noexec"
            THEN ExitNow(1)
            ELSE /\ elftype' = get_elf_linkage(env.binary)
                 /\ Goto("capscheck") /\ UNCHANGED <<args, jail, exit_immediately>>

\* mutant: the caps check tests the wrong linkage
CheckCapsLinkage_dynamic ==
    Check("capscheck",
          args.caps /\ elftype = "ELFDYNAMIC" /\ ~args.ambient_caps,
          "setpgid")

\* -c on a static binary needs --ambient
CheckCapsLinkage ==
    Check("capscheck",
          args.caps /\ elftype = "ELFSTATIC" /\ ~args.ambient_caps,
          "setpgid")

(***************************************************************************)
(* main() after parse_args().                                              *)
(***************************************************************************)
(* setpgid(0, 0) fails with EPERM exactly when the process already leads  *)
(* a session or group, which a retry does not change.                      *)
SetpgidResults == IF env.leader THEN {"eperm"} ELSE {"ok", "other"}

\* setpgid(0, 0): EPERM (already a group leader) is not an error
Setpgid ==
    /\ Post("setpgid") /\ UNCHANGED capSetgid
    /\ \E r \in SetpgidResults :
         IF r = "other" THEN ExitNow(1) ELSE Next_("run")

(* A static target runs without libminijailpreload.so; a dynamic one only *)
(* once dlopen() of the preload library succeeds; anything else is        *)
(* refused.  main() ignores what minijail_run*() returns.                  *)
Run ==
    /\ pc = "run"
    /\ UNCHANGED <<nopts, env, capSetgid, args, jail, elftype, exit_immediately>>
    /\ \/ /\ elftype = "ELFSTATIC"
          /\ launched' = "nopreload"
          /\ runOk' \in BOOLEAN
          /\ Goto("wait")
       \/ /\ elftype = "ELFDYNAMIC"
          /\ \/ Exit(1) /\ UNCHANGED <<launched, runOk>>   \* dlopen() failed
             \/ /\ launched' = "preload"
                /\ runOk' \in BOOLEAN
                /\ Goto("wait")
       \/ /\ elftype = "ELFERROR"
          /\ Exit(1) /\ UNCHANGED <<launched, runOk>>

(* -i returns 0 at once; otherwise minijail_wait() gives the jailed        *)
(* program's status, or an error when no child was started.               *)
ChildStatuses == {0, 1}

Wait ==
    /\ pc = "wait"
    /\ UNCHANGED <<nopts, env, capSetgid, args, jail, elftype,
                   exit_immediately, launched, runOk>>
    /\ \/ exit_immediately /\ Exit(0)
       \/ ~exit_immediately /\ runOk /\ \E st \in ChildStatuses : Exit(st)
       \/ ~exit_immediately /\ ~runOk /\ Exit(WaitFailureStatus)

\* the process has exited
Terminated == pc = "exited" /\ UNCHANGED vars

Options ==
    \/ Opt_u \/ Opt_g \/ Opt_n \/ Opt_s \/ Opt_S \/ Opt_l \/ Opt_L \/ Opt_b
    \/ Opt_B \/ Opt_c \/ Opt_C \/ Opt_k \/ Opt_K \/ Opt_P \/ Opt_f \/ Opt_t
    \/ Opt_v \/ Opt_V \/ Opt_r \/ Opt_G \/ Opt_y \/ Opt_N \/ Opt_p \/ Opt_e
    \/ Opt_i \/ Opt_H \/ Opt_I \/ Opt_U \/ Opt_m \/ Opt_M \/ Opt_a \/ Opt_R
    \/ Opt_T \/ Opt_w \/ Opt_Y \/ Opt_z \/ Opt_d \/ Opt_ambient \/ Opt_uts
    \/ Opt_logging \/ Opt_h \/ Opt_unknown

Next ==
    \/ Options \/ EndOfOptions
    \/ Logging \/ SetUidMap \/ SetGidMap \/ CheckAmbient \/ ForwardSignals
    \/ CheckBinding \/ CheckSkipRemount \/ ParseSeccompFilters \/ CheckProgram
    \/ ProbeElf \/ CheckCapsLinkage \/ Setpgid \/ Run \/ Wait
    \/ Terminated

Spec == Init /\ [][Next]_vars

-----------------------------------------------------------------------------
\* every id a map may name
MapIds == Ids \cup CallerIds \cup {0} \cup {GroupDB[g] : g \in DOMAIN GroupDB} \cup
          UNION {{UserDB[u].uid, UserDB[u].gid} : u \in DOMAIN UserDB}
Maps == {NoMap, ExplicitMap} \cup [kind : {"default"}, id : MapIds, lowerid : MapIds]

TypeOK ==
    /\ pc \in {"parse", "logging", "uidmap", "gidmap", "ambient", "forward",
               "binding", "remount", "seccomp", "program", "probe",
               "capscheck", "setpgid", "run", "wait", "exited"}
    /\ nopts \in 0..MaxOpts
    /\ args.seccomp \in {-1, 1, 2}
    /\ args.uidmap \in {NULL, "explicit"} /\ args.gidmap \in {NULL, "explicit"}
    /\ jail.ns \subseteq Namespaces /\ jail.misc \subseteq MiscSettings
    /\ jail.root \subseteq {"chroot", "pivot"}
    /\ jail.seccomp \subseteq {"strict", "filter"}
    /\ jail.suppl \subseteq {"inherit", "keep"}
    /\ jail.uidmap \in Maps /\ jail.gidmap \in Maps
    /\ elftype \in {"ELFERROR", "ELFSTATIC", "ELFDYNAMIC"}
    /\ capSetgid \in CapProbes \cup {"unknown"}
    /\ launched \in {"none", "preload", "nopreload"}
    /\ exitCode \in {NoCode, 0, 1, AbortStatus, WaitFailureStatus} \cup ChildStatuses

Launched == launched # "none"

PrerequisitesAtLaunch ==
    Launched =>
        /\ jail.binds # {} => (jail.root # {} \/ "vfs" \in jail.ns)
        /\ jail.skip_remount => "vfs" \in jail.ns
        /\ jail.ambient => jail.caps
        /\ "filter" \in jail.seccomp => jail.filter_loaded

(* Restricted caps reach the program only through the preload library or  *)
(* through ambient caps: a target run without preload under -c has        *)
(* --ambient, whether its linkage came from -T or from the probe.          *)
CapsSurviveExec == launched = "nopreload" /\ jail.caps => jail.ambient

(* -m without a map maps the caller's real uid to the uid the jail will    *)
(* switch to (root when -u was not given), whatever the order of -u, -m.  *)
DefaultUidMapMapsCaller ==
    jail.uidmap.kind = "default" =>
        /\ jail.uidmap.id = IF jail.uid = NoId THEN 0 ELSE jail.uid
        /\ jail.uidmap.lowerid = env.uid

(* Likewise -M without a map maps the caller's real gid to the gid the     *)
(* jail will switch to when -g chose one.                                  *)
DefaultGidMapMapsChosenGroup ==
    jail.gidmap.kind = "default" /\ jail.gid # NoId => jail.gidmap.id = jail.gid

(* Exit status 0 after a launch means the jailed program was started: the *)
(* usage text says minijail0 exits 0 only on a successful hand-off (-i)    *)
(* or with the program's own status.                                       *)
ExitZeroOnlyOnHandOff == exitCode = 0 /\ Launched => runOk

(* The "needs a mount namespace" checks refuse a command line only when    *)
(* the jail really has no new mount namespace or root: -P, -t and -d all   *)
(* enter one ("implies -v" in the usage text).                             *)
RejectsOnlyWithoutMountNamespace ==
    [][/\ pc \in {"binding", "remount"}
       /\ "vfs" \in jail.ns
       => pc' # "exited"]_vars
(* Spec 4.2: when a user namespace is requested and no id-map directive  *)
(* is given, a default map is synthesized (the caller's real id to the     *)
(* chosen id).  So a jail handed to minijail_run*() inside a new user      *)
(* namespace has a uid or a gid map; -U enters one without setting either. *)
UserNamespaceMapped ==
    Launched /\ "user" \in jail.ns => jail.uidmap # NoMap \/ jail.gidmap # NoMap
====
