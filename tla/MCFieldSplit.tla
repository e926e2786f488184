---------------------------- MODULE MCFieldSplit ----------------------------
EXTENDS FieldSplit, TLC

\* the delimiter, a word that is also a hex digit, a digit and a sign
MCChars == {",", "a", "1", "-"}
\* the hex digits among them; with W = 3, "a" alone is past ULONG_MAX
MCHex == ("a" :> 10) @@ ("1" :> 1)
====
