------------------------------ MODULE MCRecipe ------------------------------
(* Short texts over a small alphabet, and recipes of several lines.        *)
EXTENDS Recipe

\* What the translation does not follow: an escaped space or semicolon, which
\* is taken for one that may be dropped at the end, a comment right after a
\* semicolon, a # at the start of a continued line, and a line continued inside single
\* quotes.
Has(s, c, ds) == \E i \in 1 .. Len(s) - 1 : s[i] = c /\ s[i + 1] \in ds
Followed(s) == ~Has(s, "\\", {" ", ";"}) /\ ~Has(s, ";", {"#"}) /\ ~Has(s, "\n", {"#"})
               /\ ~(Contains(s, "'") /\ Has(s, "\\", {"\n"}))
Sane(text) == \A c \in Range(Split(text)) : Accepted(c.cmd) /\ Followed(c.cmd)

Alphabet == {"a", " ", "#", "'", "\"", "\\", "\n", ";", "$", "-"}
Texts == {t \in BoundedSeq(Alphabet, 4) : Sane(t)}

\* Lines of a recipe
Samples ==
    {<<"@", "echo", " ", "a">>, <<"@", "mkdir">>, <<"-", "false">>, <<"false">>, <<"cd", " ", "a">>,
     <<"#", "a">>, <<"#", "\\">>, <<"a", " ", "#", "\"">>, <<"a", "\\", "\n", "a">>, <<"cd", " ", "a", ";", "a", ";">>,
     <<"'", "$", "'">>, <<"@", "echo", ";", "false", "\n", "-", "a">>}
MCRecipes ==
    {[values |-> <<t>>, outputs |-> << >>] : t \in Texts}
    \cup {[values |-> v, outputs |-> o] : v \in BoundedSeq(Samples, 3), o \in {<< >>, <<<<"echo", " ", "a">>>>}}
=============================================================================
