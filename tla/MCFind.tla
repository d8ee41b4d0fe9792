------------------------------- MODULE MCFind -------------------------------
(* Small trees and find commands.                                          *)
EXTENDS Find

Dir == [kind |-> "d", to |-> << >>]
File == [kind |-> "f", to |-> << >>]
Link(to) == [kind |-> "l", to |-> to]
MCNames == <<"top", "A", "B", "C", "x", "y">>
MCFnmatch == {<<"*", n>> : n \in Range(MCNames)} \cup {<<"[AB]", "A">>, <<"[AB]", "B">>}
\* top/A/B/x, top/A/y, top/x and a link
Base == << >> :> Dir @@ <<"top">> :> Dir @@ <<"top", "A">> :> Dir @@ <<"top", "A", "y">> :> File
Deep == Base @@ <<"top", "A", "B">> :> Dir @@ <<"top", "A", "B", "x">> :> File
MCTrees ==
    {Deep, Base @@ <<"top", "x">> :> File,
     Deep @@ <<"top", "C">> :> Link(<<"A">>),                 \* a directory twice
     Deep @@ <<"top", "A", "B", "C">> :> Link(<<"..">>),      \* a loop
     Deep @@ <<"top", "C">> :> Link(<<"x">>)}                 \* a broken link, until x is created
MCPaths ==
    [p \in {<<"top">> \o q : q \in {<<"x">>, <<"y">>, <<"A", "x">>, <<"A", "y">>, <<"A", "B">>,
                                   <<"A", "B", "x">>, <<"B">>}} |->
        IF Last(p) \in {"x", "y"} THEN File ELSE Dir]

Name(n) == [op |-> "name", arg |-> n]
Type(k) == [op |-> "type", arg |-> k]
Not(c) == [op |-> "not", c |-> c]
And(c, d) == [op |-> "and", c |-> c, d |-> d]
Or(c, d) == [op |-> "or", c |-> c, d |-> d]

Find0 == [kind |-> "find", test |-> << >>, cd |-> << >>, sep |-> "&&", dirs |-> <<<<"top">>>>,
          follow |-> FALSE, prune |-> NoCond, cond |-> NoCond, print |-> FALSE, max |-> Forever,
          names |-> << >>, prunes |-> << >>, min |-> 0]
Conds == {NoCond, Name("x"), Type("f"), Not(Type("d")), Or(Name("x"), And(Type("d"), Not(Name("A")))),
          And(Or(Name("x"), Name("B")), Type("f"))}
Starts ==
    {Find0, [Find0 EXCEPT !.cd = <<"top">>, !.sep = ";", !.dirs = <<<<".">>>>],
     [Find0 EXCEPT !.cd = <<"top", "C">>, !.dirs = <<<<".">>>>],
     [Find0 EXCEPT !.test = <<"top", "A">>, !.cd = <<"top", "A">>, !.dirs = <<<<"..", "A">>, <<"B">>>>],
     [Find0 EXCEPT !.dirs = <<<<"top", "*">>>>]}
Leaves == [Find0 EXCEPT !.kind = "leaves", !.follow = TRUE]
MCCommands ==
    {[s EXCEPT !.follow = l, !.cond = c, !.max = m] :
        s \in Starts, l \in BOOLEAN, c \in Conds, m \in {1, Forever}}
    \cup {[s EXCEPT !.prune = p, !.cond = c] :
             s \in Starts, p \in {Type("d"), Or(Name("A"), Name("B"))}, c \in Conds}
    \cup {[Find0 EXCEPT !.cond = Name("x"), !.print = TRUE]}
    \cup {[Leaves EXCEPT !.names = n, !.prunes = p, !.min = k] :
             n \in {<<<<"x">>>>, <<<<"x">>, <<"y">>>>}, p \in {<< >>, <<<<"B">>>>}, k \in {0, 2}}
=============================================================================
