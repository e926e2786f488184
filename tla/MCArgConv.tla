----------------------------- MODULE MCArgConv -----------------------------
EXTENDS ArgConv, TLC

\* three digits, so that 0, 1, the largest digit and the cutoff all occur
MCHex == ("0" :> 0) @@ ("1" :> 1) @@ ("f" :> 15)
\* the characters strtoull treats specially, and one it never accepts
MCOthers == {" ", "+", "-", "x", "g"}
====
