------------------------------ MODULE MCIdConv ------------------------------
EXTENDS IdConv, TLC

\* digits that give an id inside int (0, 1, 9), one outside (19, 99 at
\* W = 5), spaces, a sign, a point, an exponent and a name
MCChars == {"0", "1", "9", " ", "-", ".", "e", "a"}
\* the user "a" has a uid above INT_MAX at W = 5; the group "a" does not
MCUserDB == <<"a">> :> 20
MCGroupDB == <<"a">> :> 3
====
