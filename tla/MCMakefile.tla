----------------------------- MODULE MCMakefile -----------------------------
(* Makefiles of a few lines, in four families: conditionals, commands,     *)
(* assignments and texts that are read through $(eval) and include.        *)
EXTENDS Makefile

Tab(ln) == [ln EXCEPT !.tab = TRUE]
Pre(d, ln) == [ln EXCEPT !.dirs = d]
Assign(x, op, text) == [EmptyLine EXCEPT !.k = "assign", !.x = x, !.op = op, !.rhs = text]
Final(ln) == [ln EXCEPT !.fin = TRUE]
Rule(t) == [EmptyLine EXCEPT !.val = <<Tgt(t)>>]
RuleVar(t, ln) == [ln EXCEPT !.k = "rule", !.val = <<Tgt(t)>>]
RuleCmd(t) == [EmptyLine EXCEPT !.val = <<Tgt(t)>>, !.op = ";", !.rhs = <<Lit("echo")>>]
RefLine(x) == [EmptyLine EXCEPT !.val = <<Ref(x)>>]
Text == [EmptyLine EXCEPT !.val = <<Lit("echo")>>]
EvalLine(x) == [EmptyLine EXCEPT !.k = "eval", !.x = x]
If(k, x) == [EmptyLine EXCEPT !.k = k, !.x = x]
IfEq(k, x, w) == [EmptyLine EXCEPT !.k = k, !.val = <<Ref(x)>>, !.rhs = <<Lit(w)>>]
BadIf == If("badif", "")
Else == If("else", "")
ElseIf(k, x) == [If("else", x) EXCEPT !.next = k]
Endif == If("endif", "")
Define(x) == If("define", x)
Endef == [EmptyLine EXCEPT !.k = "endef", !.val = <<Lit("endef")>>]
Include(k, f) == [EmptyLine EXCEPT !.k = k, !.val = <<Lit(f)>>]
Export(k, x) == [EmptyLine EXCEPT !.k = k, !.val = <<Lit(x)>>]

MCNames == {"A", "B", "X", "R", "D", MakefileList, AllowRulesSym}
MCTargets == {"a", "b"}
MCFiles == [f \in {"f"} |-> <<Rule("b"), Assign("X", "+=", <<Lit("f")>>), Tab(Assign("X", "+=", <<Lit("t")>>))>>]

NoEnv == [x \in {} |-> << >>]
EnvOf(x) == [y \in {x} |-> <<Lit("e")>>]
In(env, boot, cl, main) == [env |-> env, boot |-> boot, cl |-> cl, main |-> main]
Plus(w) == Assign("X", "+=", <<Lit(w)>>)
Seqs(S, n) == [1 .. n -> S]

\* Conditionals: the first line opens one, four lines are any, and the last adds to X.
CondLines == {If("ifdef", "A"), If("ifndef", "B"), Else, ElseIf("ifdef", "B"), Endif, Plus("y")}
CondMains == {<<If("ifdef", "A")>> \o s \o <<Plus("z")>> \o e :
                s \in Seqs(CondLines, 4), e \in {<< >>, <<Endif>>}}
CondInputs ==
    [env : {NoEnv}, boot : {<< >>}, main : CondMains,
     cl : {<< >>, <<Assign("A", "=", <<Lit("1")>>)>>, <<Assign("B", ":=", <<Lit("1")>>)>>}]

\* Commands.  R is a rule, or empty, and known only to the evaluator.
CmdLines == {Rule("a"), RefLine("R"), Assign("X", ":=", <<Lit("x")>>), Export("export", "X"),
             Tab(Plus("t")), Tab(Text), If("ifdef", "A"), Endif, RuleCmd("b")}
\* An assignment in a branch that is not taken makes the parser forget the rule before it.
Depth(m, i) == Cardinality({j \in 1 .. i : m[j].k \in Conds}) - Cardinality({j \in 1 .. i : m[j].k = "endif"})
Foreseen(m) == \A i \in DOMAIN m : m[i].k = "assign" /\ ~m[i].tab => Depth(m, i) = 0
CmdInputs ==
    [env : {NoEnv}, boot : {<<Assign("R", ":=", <<Tgt("b")>>)>>, <<Assign("R", "=", << >>)>>}, cl : {<< >>},
     main : {m \in Seqs(CmdLines, 4) : Foreseen(m)}]

\* Assignments
Texts == {<<Lit("x")>>, <<Ref("A"), Ref("A")>>}
VarLines == {Assign("X", op, t) : op \in {"=", ":=", "+=", "?="}, t \in Texts}
            \cup {Pre({"override"}, Assign("X", op, <<Lit("o")>>)) : op \in {":=", "+="}}
            \cup {Pre({"export", "override"}, Assign("X", ":=", <<Ref("X")>>)),
                  Assign("A", "=", <<Lit("a")>>), Assign("A", "=", <<Ref("X")>>),
                  Final(Assign("X", ":=", <<Lit("f")>>)), Assign(ReadonlySym, ":=", <<Lit("X")>>)}
\* Without the cases in which kati does not keep to the ranks: an override
\* that is also exported counts as one of the makefile; += adds to a variable
\* of a higher rank; an override += leaves a defined variable its rank.
OfX(ln) == ln.x = "X" /\ ln.op # "?="
Over(ln) == ln.x = "X" /\ "override" \in ln.dirs
Ranked(in) ==
    \A i \in DOMAIN in.main :
        LET ln == in.main[i]
            over == in.cl # << >> \/ \E j \in 1 .. i - 1 : Over(in.main[j])
            after == {in.main[j] : j \in i + 1 .. Len(in.main)}
        IN /\ ln.dirs = {"export", "override"} => ~over /\ \A l \in after : ~OfX(l)
           /\ OfX(ln) /\ ln.op = "+=" /\ ~Over(ln) => ~over
           /\ Over(ln) /\ ln.op = "+=" => \A l \in after : OfX(l) => Over(l)
AllVarInputs == [env : {NoEnv, EnvOf("X")}, boot : {<< >>, <<Assign("X", "?=", <<Lit("d")>>)>>},
                 cl : {<< >>, <<Assign("X", ":=", <<Lit("c")>>)>>}, main : Seqs(VarLines, 3)]
VarInputs == {in \in AllVarInputs : Ranked(in)}

\* Other lines, in the branches of a conditional and read again through $(eval) or include
Bodies == {<<Rule("a"), Tab(Text)>>, <<Plus("d"), Pre({"override"}, Assign("B", "=", <<Ref("X")>>))>>,
           <<Define("A"), Plus("n"), Endef>>, <<If("ifdef", "A"), Plus("1"), Else, Plus("2"), Endif>>,
           <<RuleVar("a", Assign("X", "+=", <<Ref("A")>>)), RuleVar("a", Final(Assign("X", ":=", <<Lit("1")>>))),
             RuleVar("a", Assign("X", "+=", <<Lit("2")>>))>>,
           <<Include("include", "f"), Tab(Plus("t"))>>, <<Include("-include", "g"), EvalLine("A")>>,
           <<Export("export", "A"), Export("unexport", "A")>>, <<BadIf>>, <<Endef>>,
           <<Assign(AllowRulesSym, ":=", <<Lit("error")>>), RuleCmd("a")>>,
           <<RuleVar("a", Assign("A", "=", <<Lit("1")>>)), RuleVar("a", Assign(ReadonlySym, "=", <<Lit("A")>>)),
             RuleVar("a", Assign("A", "=", <<Lit("2")>>))>>}
TextInputs ==
    {In(NoEnv, << >>, << >>, <<If(k, "A")>> \o b \o <<Else>> \o c \o <<Endif, Text>>) :
       k \in {"ifdef", "ifndef"}, b \in Bodies \ {<<BadIf>>}, c \in {<< >>, <<EvalLine("R")>>}}
    \cup {In(EnvOf("A"), << >>, << >>, <<d>> \o b \o <<Endef, EvalLine("D")>> \o c \o <<EvalLine("D")>>) :
            d \in {Define("D"), Pre({"override"}, Define("D")), Pre({"export"}, Define("D")), Define("")},
            b \in Bodies \ {<<Endef>>}, c \in {<< >>} \cup Bodies}
    \cup {In(NoEnv, << >>, << >>, <<Plus("1"), IfEq(k, "X", "1")>> \o b \o <<Endif>>) :
            k \in {"ifeq", "ifneq"}, b \in Bodies \ {<<BadIf>>}}

MCInputs == <<CondInputs, CmdInputs, VarInputs, TextInputs>>
=============================================================================
