---------------------------- MODULE MCNinjaGen ------------------------------
(* Makefiles for DepBuilder and NinjaGen: each has some of a few rules.    *)
EXTENDS NinjaGen

R(outputs, patterns, inputs, orders, cmds) ==
    [outputs |-> outputs, patterns |-> patterns, inputs |-> inputs, orders |-> orders,
     dcolon |-> FALSE, cmds |-> cmds]
DoubleColon(r) == [r EXCEPT !.dcolon = TRUE]
All == <<"all">>
FooO == <<"foo", ".o">>
FooC == <<"foo", ".c">>
FooH == <<"foo", ".h">>
FooY == <<"foo", ".y">>
FooS == <<"foo", ".s">>
Pat(x) == <<"%", x>>
Cmd(x) == <<x>>

\* all: foo.o out2 | d, and then
AllRule == R(<<All>>, << >>, <<FooO, <<"out2">>>>, <<<<"d">>>>, << >>)
OutRule == R(<<<<"out1">>>>, << >>, <<FooC>>, << >>, Cmd("out"))
Optional ==
    << R(<<FooO>>, << >>, <<FooH>>, << >>, << >>),                 \* foo.o: foo.h
       R(<<FooO, FooH>>, <<Pat(".o")>>, <<Pat(".c")>>, << >>, Cmd("static")),
       R(<<FooH>>, << >>, << >>, << >>, Cmd("h")),                 \* overrides
       R(<< >>, <<<<"foo", "%">>>>, <<<<"bar", "%">>>>, << >>, Cmd("prefix")),
       R(<< >>, <<Pat(".o")>>, <<Pat(".s")>>, << >>, Cmd("s")),
       R(<< >>, <<Pat(".o")>>, <<Pat(".c")>>, <<<<"d">>>>, Cmd("c")),
       R(<< >>, <<Pat(".c"), Pat(".h")>>, <<Pat(".y")>>, << >>, Cmd("y")),
       R(<<<<".s", ".o">>>>, << >>, << >>, << >>, Cmd("suffix")),
       DoubleColon(R(<<<<"d">>>>, << >>, <<FooH>>, << >>, Cmd("d1"))),
       DoubleColon(R(<<<<"d">>>>, << >>, << >>, << >>, Cmd("d2"))) >>
Phonies == R(<<<<".PHONY">>>>, << >>, <<All>>, << >>, << >>)

Var(op, val) == [op |-> op, val |-> <<val>>]
MCVars == All :> ("V" :> Var("=", 1)) @@ <<"out1">> :> ("V" :> Var("+=", 2) @@ "W" :> Var("?=", 3))
          @@ FooH :> ("W" :> Var("?=", 4) @@ ".KATI_NINJA_POOL" :> Var("=", "pool"))
MCGlobals == "G" :> <<0>>

Mk(rules, files, gs, flags) ==
    [rules |-> rules, vars |-> MCVars, implicit |-> <<"out1">> :> <<<<"out2">>>>,
     validations |-> <<"out1">> :> <<FooH>>, symlinks |-> [t \in {} |-> << >>],
     globals |-> MCGlobals, files |-> files, goals |-> gs, flags |-> flags]
\* A target with commands of its own is not also the second target of a
\* pattern rule: which of the two counts would depend on the order.
Together(s) ==
    \A r, q \in s : ~(FooH \in Range(r.outputs) /\ r.cmds # << >> /\ Len(q.patterns) = 2)
MCMakefiles ==
    {Mk(<<AllRule, OutRule, Phonies>> \o SelectSeq(Optional, LAMBDA r : r \in s), f, g, w) :
       s \in {s \in SUBSET Range(Optional) : Together(s)},
       f \in {{FooC}, {FooY, FooS}, {<<"bar", ".o">>, FooC}},
       g \in {<< >>, <<FooH, FooO, <<"out2">>, <<"out1">>, All>>},
       w \in {{}, {"overriding_commands", "real_to_phony", "top_level_phony", "writable",
                  "phony_looks_real", "real_no_cmds_or_deps"}}}
MCSlashed == {FooY}
MCWritable == {All, FooO, FooC, FooH, <<"out1">>, <<"out2">>}
MCExt == {".o", ".c", ".h", ".y", ".s"}
=============================================================================
