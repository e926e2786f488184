---------------------------- MODULE MCMinijail0 ----------------------------
(* Model of minijail0 for TLC: one user and one group in the databases,   *)
(* whose ids differ from each other, from the numeric ids on the command  *)
(* line and from the caller's, so that a map built from the wrong id is   *)
(* told apart from the right one.                                          *)
EXTENDS Minijail0, TLC

MCUserDB == "alice" :> [uid |-> 2, gid |-> 3]
MCGroupDB == "staff" :> 4

\* options whose flags the cross-option checks and the launch read
CheckedOpts == {"u", "g", "s", "S", "b", "c", "C", "K", "P", "t", "v", "G",
                "y", "T", "m", "M", "i", "ambient"}

\* every option getopt_long() can return
AllOpts == {"u", "g", "n", "s", "S", "l", "L", "b", "B", "c", "C", "k", "K",
            "P", "f", "t", "v", "V", "r", "G", "y", "N", "p", "e", "i", "H",
            "I", "U", "m", "M", "a", "R", "T", "w", "Y", "z", "d", "ambient",
            "uts", "logging", "h", "?"}
====
