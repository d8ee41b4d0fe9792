------------------------------ MODULE Makefile ------------------------------
(***************************************************************************)
(* Reading a makefile in two phases.  The parser (parser.cc) turns the     *)
(* lines of a whole file into statements, with a stack of conditionals and *)
(* a guess whether a line that starts with a tab is a command; only then   *)
(* the evaluator (eval.cc) runs the statements, which define variables     *)
(* (var.cc, symtab.cc), rules and exports, include other files and may     *)
(* start the parser again, for $(eval) and for a wrong guess.              *)
(*                                                                         *)
(* A line is a record: k is its kind, tab says that it starts with a tab,  *)
(* dirs are its override and export prefixes, val is the text evaluated    *)
(* first (the left of a rule or a condition, the names of an export or     *)
(* include), and x, op, rhs and fin are the name, the operator, the text   *)
(* and the $= mark of an assignment, or the ; and command of a rule.  A    *)
(* text is a sequence of literals, references and, in a define, lines.     *)
(***************************************************************************)
EXTENDS Integers, Sequences, FiniteSets, SequencesExt

CONSTANTS
    Inputs,  \* families of [env, boot, cl, main]: environment, built-in text, command line, makefile
    Names,   \* of variables
    Targets, \* of rules
    Files    \* what may be included: name -> lines

VARIABLES
    input,
    texts,   \* texts still to be read, each with its mode
    mode,    \* is_bootstrap_ and is_commandline_: "boot", "cl" or "file"
    parser,  \* the Parser at work, or NoParser
    stmts,   \* all statements made so far; field in is the block a statement is in
    todo,    \* statements the evaluator is still to run: its C++ stack
    ev,      \* the Evaluator
    hist,    \* the assignments to global variables it ran
    status   \* "run", "error" or "done"

vars == <<input, texts, mode, parser, stmts, todo, ev, hist, status>>

Lit(w) == [lit |-> w]
Ref(x) == [ref |-> x]
Tgt(t) == [target |-> t]     \* the text "t:"
Ln(l) == [line |-> l]
Space == Lit(" ")
Bad == [bad |-> TRUE]        \* a recursive variable references itself
IsBad(text) == Bad \in Range(text)
IsBlank(text) == Range(text) \subseteq {Space}

EmptyLine == [k |-> "rule", tab |-> FALSE, dirs |-> {}, x |-> "", op |-> "", val |-> << >>, rhs |-> << >>,
              fin |-> FALSE, next |-> ""]
ReadonlySym == ".KATI_READONLY"
AllowRulesSym == ".KATI_ALLOW_RULES"
MakefileList == "MAKEFILE_LIST"
Conds == {"ifdef", "ifndef", "ifeq", "ifneq"}

-----------------------------------------------------------------------------
(* Variables and scopes                                                    *)

Undefined == [flavor |-> "undefined", origin |-> "undefined", ro |-> FALSE, op |-> "",
              val |-> << >>, orig |-> << >>]
Simple(val, origin) == [Undefined EXCEPT !.flavor = "simple", !.origin = origin, !.val = val, !.orig = val]
Recursive(val, origin) == [Undefined EXCEPT !.flavor = "recursive", !.origin = origin, !.val = val, !.orig = val]
IsDefined(v) == v.flavor # "undefined"
Scope0 == [x \in Names |-> Undefined]

\* LookupVar: the scope of a target first, then the global variables.
Lookup(gv, scope) == [x \in Names |-> IF IsDefined(scope[x]) THEN scope[x] ELSE gv[x]]

\* Evaluation of a text.  using is symbols_for_eval_, the names being evaluated.
\* Mutant: a name is still in use after its evaluation.
RECURSIVE MutExpand(_, _, _)
MutExpand(look, text, using) ==
    IF text = << >> THEN << >>
    ELSE LET t == Head(text) IN
         IF "ref" \in DOMAIN t
         THEN (IF t.ref \in using /\ look[t.ref].flavor = "recursive" THEN <<Bad>>
               ELSE MutExpand(look, look[t.ref].val, using \cup {t.ref}))
              \o MutExpand(look, Tail(text), using \cup {t.ref})
         ELSE <<t>> \o MutExpand(look, Tail(text), using)
RECURSIVE Expand(_, _, _)
Expand(look, text, using) ==
    IF text = << >> THEN << >>
    ELSE LET t == Head(text) IN
         (CASE "ref" \in DOMAIN t ->
                 IF t.ref \in using /\ look[t.ref].flavor = "recursive" THEN <<Bad>>
                 ELSE Expand(look, look[t.ref].val, using \cup {t.ref})
            [] "line" \in DOMAIN t ->
                 LET val == Expand(look, t.line.val, using)
                     rhs == Expand(look, t.line.rhs, using)
                 IN IF IsBad(val \o rhs) THEN <<Bad>> ELSE <<Ln([t.line EXCEPT !.val = val, !.rhs = rhs])>>
            [] OTHER -> <<t>>)
         \o Expand(look, Tail(text), IF "ref" \in DOMAIN t THEN using \ {t.ref} ELSE using)
Eval(look, text) == Expand(look, text, {})

\* A recursive variable keeps the text it was defined with as its String().
AppendVar(v, look, text) ==
    [v EXCEPT !.val = @ \o <<Space>> \o (IF v.flavor = "simple" THEN Eval(look, text) ELSE text),
              !.orig = IF v.flavor = "simple" THEN @ \o <<Space>> \o Eval(look, text) ELSE @]

Origin(m, dirs) ==
    CASE m = "boot" -> "default"
      [] m = "cl" -> "command line"
      [] OTHER -> IF dirs = {"override"} THEN "override" ELSE "file"

\* EvalRHS: the variable and whether it is to be assigned.
RHS(v, assign) == [err |-> IsBad(v.val), v |-> v, assign |-> assign]
EvalRHS(look, prev, op, text, origin) ==
    CASE op = ":=" -> RHS(Simple(Eval(look, text), origin), TRUE)
      [] op = "=" -> RHS(Recursive(text, origin), TRUE)
      [] op \in {"+=", "?="} /\ ~IsDefined(prev) -> RHS(Recursive(text, origin), TRUE)
      [] op = "+=" /\ IsDefined(prev) ->
           [RHS(AppendVar(prev, look, text), FALSE) EXCEPT !.err = @ \/ prev.ro]
      [] op = "?=" /\ IsDefined(prev) -> RHS(prev, FALSE)

\* SetGlobalVar, once orig is not readonly: whether v takes orig's place.
\* Mutant: only the origin of the new variable is looked at.
MutTakes(orig, v, is_override) == is_override \/ orig.origin # "override"
Takes(orig, v, is_override) ==
    /\ is_override \/ orig.origin # "override"
    /\ ~(orig.origin = "command line" /\ v.origin = "file")

\* What an assignment does to the global variables or to the scope of a target.
\* Mutant: only an assignment that takes effect is stopped by a readonly variable.
MutAssigned(table, x, r, fin, takes) ==
    IF r.assign /\ ~takes THEN [err |-> r.err, table |-> table]
    ELSE [err |-> r.err, table |-> [table EXCEPT ![x] = [r.v EXCEPT !.ro = @ \/ fin]]]
Assigned(table, x, r, fin, takes) ==
    [err |-> r.err \/ (r.assign /\ table[x].ro),
     table |-> IF r.assign /\ ~takes THEN table ELSE [table EXCEPT ![x] = [r.v EXCEPT !.ro = @ \/ fin]]]

\* .KATI_READONLY := names, and MarkVarsReadonly in the scope of a target
MarkReadonly(table, text) ==
    LET xs == {t.lit : t \in {t \in Range(text) : "lit" \in DOMAIN t /\ t # Space}}
    IN [err |-> IsBad(text) \/ \E x \in xs : ~IsDefined(table[x]),
        table |-> [x \in Names |-> IF x \in xs THEN [table[x] EXCEPT !.ro = TRUE] ELSE table[x]]]

-----------------------------------------------------------------------------
(* The evaluator.  Each of these is e after one statement.                 *)

Failed(e) == [e EXCEPT !.err = TRUE]

\* The new table t of the global variables, or an error
WithGlobals(e, t) == [e EXCEPT !.gv = t.table, !.err = @ \/ t.err, !.last = 0]
EvalAssign(e, m, ln) ==
    WithGlobals(e,
        IF ln.x = ReadonlySym THEN MarkReadonly(e.gv, Eval(e.gv, ln.rhs))
        ELSE LET r == EvalRHS(e.gv, e.gv[ln.x], ln.op, ln.rhs, Origin(m, ln.dirs))
             IN Assigned(e.gv, ln.x, r, ln.fin, Takes(e.gv[ln.x], r.v, ln.dirs = {"override"})))

\* t: x op rhs
EvalRuleSpecificAssign(e, m, t, ln) ==
    LET look == Lookup(e.gv, e.rv[t])
        new == IF ln.x = ReadonlySym THEN MarkReadonly(e.rv[t], Eval(look, ln.rhs))
               ELSE LET r == EvalRHS(look, e.rv[t][ln.x], ln.op, ln.rhs, Origin(m, {}))
                    IN Assigned(e.rv[t], ln.x, IF r.assign THEN [r EXCEPT !.v.op = ln.op] ELSE r, ln.fin, TRUE)
    IN [e EXCEPT !.rv[t] = new.table, !.err = @ \/ new.err]

\* A rule, a variable of a target, an empty line, or an error
EvalRule(e0, m, ln) ==
    LET e == [e0 EXCEPT !.last = 0]
        before == Eval(e.gv, ln.val)
        isRule == "target" \in DOMAIN before[1]
    IN CASE IsBlank(before) -> IF ln.op = ";" THEN Failed(e) ELSE e
         [] ~IsBlank(before) /\ (IsBad(before) \/ ~isRule) -> Failed(e)
         [] ~IsBlank(before) /\ ~IsBad(before) /\ isRule /\ ln.op \notin {"", ";"} ->
              EvalRuleSpecificAssign(e, m, before[1].target, ln)
         [] OTHER ->
              IF Eval(e.gv, <<Ref(AllowRulesSym)>>) = <<Lit("error")>> THEN Failed(e)
              ELSE [e EXCEPT !.rules = Append(@, [target |-> before[1].target,
                                                  cmds |-> IF ln.op = ";" THEN <<ln>> ELSE << >>]),
                             !.last = Len(e.rules) + 1]

AddCommand(e, ln) == [e EXCEPT !.rules[e.last].cmds = Append(@, ln)]

EvalExport(e, ln) ==
    LET text == Eval(e.gv, ln.val)
        xs == {t.lit : t \in {t \in Range(text) : "lit" \in DOMAIN t /\ t # Space}}
    IN [e EXCEPT !.last = 0, !.err = @ \/ IsBad(text \o Eval(e.gv, ln.rhs)),
                 !.exports = [x \in Names |-> IF x \in xs THEN IF ln.k = "export" THEN "yes" ELSE "no" ELSE @[x]]]

\* EvalIf.  ifdef looks at a variable's String().
BadCond(e, ln) == ln.k \in {"ifeq", "ifneq"} /\ IsBad(Eval(e.gv, ln.val) \o Eval(e.gv, ln.rhs))
Holds(e, ln) ==
    CASE ln.k = "ifdef" -> e.gv[ln.x].orig # << >>
      [] ln.k = "ifndef" -> e.gv[ln.x].orig = << >>
      [] ln.k = "ifeq" -> Eval(e.gv, ln.val) = Eval(e.gv, ln.rhs)
      [] ln.k = "ifneq" -> Eval(e.gv, ln.val) # Eval(e.gv, ln.rhs)

\* DoInclude up to the file's statements; the list of makefiles is kept in a variable too.
Included(e, ln) ==
    LET f == ln.val[1].lit
    IN [e EXCEPT !.last = 0, !.files = Append(@, <<f, ln.k>>),
                 !.gv[MakefileList] = AppendVar(@, e.gv, <<Lit(f)>>)]

\* The text of $(eval $(x)), which the parser reads next
EvalText(e, ln) == Eval(e.gv, <<Ref(ln.x)>>)
TextLines(text) ==
    LET ls == SelectSeq(text, LAMBDA t : "line" \in DOMAIN t)
    IN IF ls = << >> /\ ~IsBlank(text) THEN <<[EmptyLine EXCEPT !.val = text]>>
       ELSE [i \in DOMAIN ls |-> ls[i].line]

-----------------------------------------------------------------------------
(* The parser: one action for each kind of line.                           *)

NoParser == [on |-> FALSE]
NoDefine == [nest |-> 0]
NewParser(lines) ==
    [on |-> TRUE, lines |-> lines, l |-> 1, state |-> "NOT_AFTER_RULE", ifs |-> << >>, def |-> NoDefine,
     root |-> <<Len(stmts), "root">>, out |-> <<Len(stmts), "root">>]

Running == status = "run"
Parsing == Running /\ parser.on /\ parser.l <= Len(parser.lines)
Line == parser.lines[parser.l]
InDefine == parser.def.nest > 0
IsCommand == Line.tab /\ parser.state # "NOT_AFTER_RULE"
\* The line is none that ParseLine handles before it looks for a directive.
Plain == Parsing /\ ~InDefine /\ ~IsCommand

Stmt(k) == [k |-> k, line |-> Line, in |-> parser.out]
\* Statements ss are appended to out_stmts_ and p is the parser before the next line.
Emit(ss, p) ==
    /\ stmts' = stmts \o ss
    /\ parser' = [p EXCEPT !.l = @ + 1]
    /\ UNCHANGED <<input, texts, mode, todo, ev, hist, status>>
After(state) == [parser EXCEPT !.state = state]

DefineNest(d) ==
    d.nest + CASE Line.k = "define" /\ Line.dirs = {} -> 1
               [] Line.k = "endef" -> -1
               [] OTHER -> 0
ParseInsideDefine ==
    /\ Parsing /\ InDefine
    /\ LET d == parser.def
           nest == DefineNest(d)
           ln == [d.line EXCEPT !.op = "=", !.rhs = d.body]
       IN IF nest > 0
          THEN Emit(<< >>, [parser EXCEPT !.def = [d EXCEPT !.nest = nest, !.body = Append(@, Ln(Line))]])
          ELSE Emit(<<[Stmt("assign") EXCEPT !.line = ln]>>, [parser EXCEPT !.def = NoDefine])

ParseCommand ==
    /\ Parsing /\ ~InDefine /\ IsCommand
    /\ Emit(<<Stmt("command")>>, parser)

ParseDefine ==
    /\ Plain /\ Line.k = "define"
    /\ IF Line.x = "" THEN Emit(<<Stmt("error")>>, parser)
       ELSE Emit(<< >>, [After("NOT_AFTER_RULE") EXCEPT !.def = [nest |-> 1, line |-> Line, body |-> << >>]])

\* EnterIf, with statement i for the conditional
EnterIf(p, i, nest) ==
    [p EXCEPT !.ifs = <<[stmt |-> i, is_in_else |-> FALSE, num_nest |-> nest]>> \o @, !.out = <<i, "then">>]

ParseIf ==
    /\ Plain /\ Line.k \in Conds \cup {"badif"}
    /\ IF Line.k = "badif" THEN Emit(<<Stmt("error")>>, parser)
       ELSE Emit(<<Stmt("if")>>, EnterIf(parser, Len(stmts) + 1, 0))

\* Line.next is the kind of the conditional after the else, "" for none; x, val and rhs are its own.
\* Mutant: the nesting does not grow along a chain of else ifs.
MutChainNest(st) == 1
ChainNest(st) == st.num_nest + 1
ParseElse ==
    /\ Plain /\ Line.k = "else"
    /\ IF parser.ifs = << >> \/ parser.ifs[1].is_in_else THEN Emit(<<Stmt("error")>>, parser)
       ELSE LET st == parser.ifs[1]
                out == <<st.stmt, "else">>
                p == [parser EXCEPT !.ifs[1].is_in_else = TRUE, !.out = out]
                if == [Stmt("if") EXCEPT !.in = out, !.line.k = Line.next]
            IN CASE Line.next = "badif" -> Emit(<<[if EXCEPT !.k = "error"]>>, p)
                 [] Line.next \in Conds -> Emit(<<if>>, EnterIf(p, Len(stmts) + 1, ChainNest(st)))
                 [] OTHER -> Emit(<< >>, p)

\* The block statements go to when the conditionals ifs are open
OutOf(ifs) == IF ifs = << >> THEN parser.root
              ELSE <<ifs[1].stmt, IF ifs[1].is_in_else THEN "else" ELSE "then">>
ParseEndif ==
    /\ Plain /\ Line.k = "endif"
    /\ IF parser.ifs = << >> \/ Line.next # "" THEN Emit(<<Stmt("error")>>, parser)
       ELSE LET rest == SubSeq(parser.ifs, parser.ifs[1].num_nest + 2, Len(parser.ifs))
            IN Emit(<< >>, [parser EXCEPT !.ifs = rest, !.out = OutOf(rest)])

\* An export prefix makes a statement of its own.
ParseAssign ==
    /\ Plain /\ Line.k = "assign"
    /\ LET export == [Stmt("export") EXCEPT !.line.k = "export", !.line.val = <<Lit(Line.x)>>]
       IN Emit((IF "export" \in Line.dirs THEN <<export>> ELSE << >>)
               \o <<Stmt(IF Line.x = "" THEN "error" ELSE "assign")>>,
               IF Line.x = "" THEN parser ELSE After("NOT_AFTER_RULE"))

\* A line that is nothing else is a rule, or becomes one when it is evaluated.
ParseRule ==
    /\ Plain /\ Line.k \in {"rule", "eval", "endef"}
    /\ IF Line.tab THEN Emit(<<Stmt("error")>>, parser)
       ELSE Emit(<<Stmt("rule")>>,
                 After(IF Line.val # << >> /\ "target" \in DOMAIN Line.val[1] THEN "AFTER_RULE"
                       ELSE "MAYBE_AFTER_RULE"))

ParseInclude ==
    /\ Plain /\ Line.k \in {"include", "-include"}
    /\ Emit(<<Stmt("include")>>, After("NOT_AFTER_RULE"))

ParseExport ==
    /\ Plain /\ Line.k \in {"export", "unexport"}
    /\ Emit(<<Stmt("export")>>, parser)

\* The statements of block b
Block(b) == SelectSeq([i \in 1 .. Len(stmts) |-> i], LAMBDA i : stmts[i].in = b)

\* The whole text is parsed: its statements are evaluated next.
ParseEnd ==
    /\ Running /\ parser.on /\ parser.l > Len(parser.lines)
    /\ status' = IF parser.ifs # << >> \/ InDefine THEN "error" ELSE status
    /\ todo' = Block(parser.root) \o todo
    /\ parser' = NoParser
    /\ UNCHANGED <<input, texts, mode, stmts, ev, hist>>

-----------------------------------------------------------------------------
(* The evaluator: one action for each kind of statement.                   *)

Evaluating(k) == Running /\ ~parser.on /\ todo # << >> /\ stmts[Head(todo)].k = k
Cur == stmts[Head(todo)].line
\* The evaluator is e after the current statement, which is followed by those in next.
Evaluated(e, next) ==
    /\ ev' = e
    /\ todo' = next \o Tail(todo)
    /\ status' = IF e.err THEN "error" ELSE status
    /\ UNCHANGED <<input, texts, mode, stmts>>
\* Lines are parsed before the evaluation goes on.
ParseNext(e, lines) ==
    /\ Evaluated(e, << >>)
    /\ parser' = IF e.err THEN NoParser ELSE NewParser(lines)

RunAssign ==
    /\ Evaluating("assign")
    /\ Evaluated(EvalAssign(ev, mode, Cur), << >>)
    /\ hist' = IF Cur.x = ReadonlySym THEN hist
               ELSE Append(hist, [line |-> Cur, mode |-> mode, now |-> Eval(ev.gv, Cur.rhs)])
    /\ UNCHANGED parser

RunRule ==
    /\ Evaluating("rule") /\ Cur.k # "eval"
    /\ Evaluated(EvalRule(ev, mode, Cur), << >>)
    /\ UNCHANGED <<parser, hist>>

\* A line that is nothing but $(eval $(x))
RunEval ==
    /\ Evaluating("rule") /\ Cur.k = "eval"
    /\ LET text == EvalText(ev, Cur)
       IN ParseNext([ev EXCEPT !.last = 0, !.err = IsBad(text)], TextLines(text))
    /\ UNCHANGED hist

RunCommand ==
    /\ Evaluating("command") /\ ev.last # 0
    /\ Evaluated(AddCommand(ev, Cur), << >>)
    /\ UNCHANGED <<parser, hist>>

\* No rule came before: the line is parsed again as something else.
RunNotCommand ==
    /\ Evaluating("command") /\ ev.last = 0
    /\ ParseNext(ev, <<Cur>>)
    /\ UNCHANGED hist

RunIf ==
    /\ Evaluating("if")
    /\ Evaluated([ev EXCEPT !.err = BadCond(ev, Cur)],
                 Block(<<Head(todo), IF Holds(ev, Cur) THEN "then" ELSE "else">>))
    /\ UNCHANGED <<parser, hist>>

\* A file that does not exist is left to the dependency builder.
RunInclude ==
    /\ Evaluating("include")
    /\ LET f == Cur.val[1].lit
       IN ParseNext(Included(ev, Cur), IF f \in DOMAIN Files THEN Files[f] ELSE << >>)
    /\ UNCHANGED hist

RunExport ==
    /\ Evaluating("export")
    /\ Evaluated(EvalExport(ev, Cur), << >>)
    /\ UNCHANGED <<parser, hist>>

RunError ==
    /\ Evaluating("error")
    /\ Evaluated(Failed(ev), << >>)
    /\ UNCHANGED <<parser, hist>>

\* Run: the built-in text, each variable of the command line, the makefile
StartText ==
    /\ Running /\ ~parser.on /\ todo = << >> /\ texts # << >>
    /\ mode' = Head(texts).mode
    /\ parser' = NewParser(Head(texts).lines)
    /\ texts' = Tail(texts)
    /\ UNCHANGED <<input, stmts, todo, ev, hist, status>>

Finish ==
    /\ Running /\ ~parser.on /\ todo = << >> /\ texts = << >>
    /\ status' = "done"
    /\ UNCHANGED <<input, texts, mode, parser, stmts, todo, ev, hist>>

TextsOf(in) ==
    <<[mode |-> "boot", lines |-> in.boot]>>
    \o [i \in DOMAIN in.cl |-> [mode |-> "cl", lines |-> <<in.cl[i]>>]]
    \o <<[mode |-> "file", lines |-> in.main]>>
Evaluator0(in) ==
    [gv |-> [x \in Names |-> CASE x = MakefileList -> Simple(<<Space, Lit("Makefile")>>, "file")
                               [] x \in DOMAIN in.env -> Recursive(in.env[x], "environment")
                               [] OTHER -> Undefined],
     rv |-> [t \in Targets |-> Scope0], rules |-> << >>, last |-> 0, files |-> << >>, err |-> FALSE,
     exports |-> [x \in Names |-> IF x \in DOMAIN in.env THEN "yes" ELSE ""]]

Init ==
    /\ \E i \in DOMAIN Inputs : input \in Inputs[i]
    /\ texts = TextsOf(input)
    /\ mode = "boot"
    /\ parser = NoParser
    /\ stmts = << >> /\ todo = << >> /\ hist = << >>
    /\ ev = Evaluator0(input)
    /\ status = "run"

Next ==
    \/ ParseInsideDefine \/ ParseCommand \/ ParseDefine \/ ParseIf \/ ParseElse \/ ParseEndif
    \/ ParseAssign \/ ParseRule \/ ParseInclude \/ ParseExport \/ ParseEnd
    \/ RunAssign \/ RunRule \/ RunEval \/ RunCommand \/ RunNotCommand \/ RunIf \/ RunInclude
    \/ RunExport \/ RunError
    \/ StartText \/ Finish

Spec == Init /\ [][Next]_vars

-----------------------------------------------------------------------------
(* Reading a makefile in one phase, as GNU make does: each line is         *)
(* evaluated when it is read.  Of a conditional, now is whether its        *)
(* current branch is read, seen whether one of its branches was, els       *)
(* whether its last branch has begun.                                      *)

Active(conds) == \A i \in DOMAIN conds : conds[i].now
Branch(now, seen, els) == [now |-> now, seen |-> now \/ seen, els |-> els]
FailIfActive(r) == IF Active(r.conds) THEN [r EXCEPT !.e = Failed(@)] ELSE r

ReadCond(r, ln) ==
    LET on == Active(r.conds)
    IN IF on /\ (ln.k = "badif" \/ BadCond(r.e, ln)) THEN FailIfActive(r)
       ELSE [r EXCEPT !.conds = <<Branch(on /\ Holds(r.e, ln), FALSE, FALSE)>> \o @]
ReadElse(r, ln) ==
    LET top == r.conds[1]
        can == Active(Tail(r.conds)) /\ ~top.seen
    IN IF r.conds = << >> \/ top.els THEN FailIfActive(r)
       ELSE [r EXCEPT !.conds[1] =
               IF ln.next \in Conds
               THEN Branch(can /\ Holds(r.e, [ln EXCEPT !.k = ln.next]), top.seen, FALSE)
               ELSE Branch(can, top.seen, TRUE)]
ReadEndif(r, ln) ==
    IF r.conds = << >> \/ ln.next # "" THEN FailIfActive(r) ELSE [r EXCEPT !.conds = Tail(@)]
\* A line inside a define.  A define may be in a branch that is not read.
ReadBody(r, m, ln) ==
    LET nest == r.def.nest + (IF ln.k = "endef" THEN -1 ELSE IF ln.k = "define" /\ ln.dirs = {} THEN 1 ELSE 0)
        def == [r.def.line EXCEPT !.op = "=", !.rhs = r.def.body]
    IN IF nest > 0 THEN [r EXCEPT !.def.nest = nest, !.def.body = Append(@, Ln(ln))]
       ELSE [r EXCEPT !.def = NoDefine, !.e = IF Active(r.conds) THEN EvalAssign(@, m, def) ELSE @]
ReadAssign(e, m, ln) ==
    IF ln.x = "" THEN Failed(e)
    ELSE EvalAssign(IF "export" \in ln.dirs
                    THEN EvalExport(e, [ln EXCEPT !.k = "export", !.val = <<Lit(ln.x)>>]) ELSE e, m, ln)

RECURSIVE Read(_, _, _)
\* A line of a branch that is read and is neither a command nor part of a define
ReadLine(e, m, ln) ==
    CASE ln.k = "assign" -> ReadAssign(e, m, ln)
      [] ln.k \in {"export", "unexport"} -> EvalExport(e, ln)
      [] ln.k \in {"include", "-include"} ->
           LET f == ln.val[1].lit
           IN [Read(Included(e, ln), m, IF f \in DOMAIN Files THEN Files[f] ELSE << >>) EXCEPT !.last = 0]
      [] ln.k = "eval" /\ ~ln.tab ->
           IF IsBad(EvalText(e, ln)) THEN Failed(e)
           ELSE [Read([e EXCEPT !.last = 0], m, TextLines(EvalText(e, ln))) EXCEPT !.last = 0]
      [] ln.k \in {"rule", "endef"} /\ ~ln.tab -> EvalRule(e, m, ln)
      [] OTHER -> Failed(e)
Read(e, m, lines) ==
    LET Step(r, ln) ==
          IF r.e.err THEN r
          ELSE IF r.def.nest > 0 THEN ReadBody(r, m, ln)
          ELSE IF ln.tab /\ r.e.last # 0
          THEN IF Active(r.conds) THEN [r EXCEPT !.e = AddCommand(@, ln)] ELSE r
          ELSE CASE ln.k \in Conds \cup {"badif"} -> ReadCond(r, ln)
                 [] ln.k = "else" -> ReadElse(r, ln)
                 [] ln.k = "endif" -> ReadEndif(r, ln)
                 [] ln.k = "define" /\ ln.x # "" ->
                      [r EXCEPT !.def = [nest |-> 1, line |-> ln, body |-> << >>]]
                 [] OTHER -> IF Active(r.conds) THEN [r EXCEPT !.e = ReadLine(@, m, ln)] ELSE r
        end == FoldLeft(Step, [e |-> e, conds |-> << >>, def |-> NoDefine], lines)
    IN IF end.conds # << >> \/ end.def.nest > 0 THEN Failed(end.e) ELSE end.e

RECURSIVE ReadAll(_, _)
ReadAll(e, ts) == IF ts = << >> \/ e.err THEN e ELSE ReadAll(Read(e, Head(ts).mode, Head(ts).lines), Tail(ts))

-----------------------------------------------------------------------------
(* Properties                                                              *)

\* Parsing a whole file before any of it is evaluated makes no difference:
\* kati stops with an error exactly when a reader in one phase does, and
\* otherwise has the same variables, rules with their commands, exports and
\* included files.  Branches that are not taken are parsed too, else ifs are
\* kept as nested conditionals, a line after a tab is taken for a command on
\* suspicion (ParseLine, ParseElse, ParseEndif, EvalCommand).
OnePhase ==
    status # "run" =>
        LET e == ReadAll(Evaluator0(input), TextsOf(input))
        IN /\ e.err = (status = "error")
           /\ status = "done" => e = [ev EXCEPT !.last = e.last]

\* The assignments to x in the order they ran
History(x) == SelectSeq(hist, LAMBDA h : h.line.x = x)
\* The rank of an assignment, from where it is written and its prefixes
Rank(h) ==
    CASE h.mode = "boot" -> 0
      [] h.mode = "cl"   -> 2
      [] h.mode = "file" -> IF "override" \in h.line.dirs THEN 3 ELSE 1
\* An assignment of h counts unless one of a higher rank was before it; ?=
\* counts only for a variable nothing defined before.
First(i, x) == i = 1 /\ x \notin DOMAIN input.env
Counting(h, x) ==
    LET Meant == {i \in DOMAIN h : h[i].line.op # "?=" \/ First(i, x)}
    IN {i \in Meant : \A j \in Meant : j < i => Rank(h[j]) <= Rank(h[i])}
\* Those that give x a new value
Starts(h, x) == {i \in Counting(h, x) : h[i].line.op \in {":=", "="} \/ First(i, x)}

\* GNU make's rule for a variable that is assigned many times: one that an
\* override, or the command line, has set is not changed by what ranks lower.
\* The last assignment that counts gives the value and the flavour, and each
\* += after it that counts adds its text, evaluated at once only if the
\* variable is simple.  EvalRHS and SetGlobalVar decide that one assignment
\* at a time, from the origin of the variable they find.
PrecedenceRight ==
    status # "error" =>
        \A x \in Names \ {MakefileList} :
            LET h == History(x)
                S == Starts(h, x)
                w == Max(S)
                simple == S # {} /\ h[w].line.op = ":="
                Text(i) == IF simple THEN h[i].now ELSE h[i].line.rhs
                base == IF S = {} THEN IF x \in DOMAIN input.env THEN input.env[x] ELSE << >> ELSE Text(w)
                later == SelectSeq([i \in DOMAIN h |-> i],
                                   LAMBDA i : i \in Counting(h, x) \ S /\ (S = {} \/ i > w))
                Add(t, i) == t \o <<Space>> \o Text(i)
            IN /\ ev.gv[x].val = FoldLeft(Add, base, later)
               /\ ev.gv[x].flavor = IF S = {} /\ x \notin DOMAIN input.env THEN "undefined"
                                    ELSE IF simple THEN "simple" ELSE "recursive"

\* A variable that .KATI_READONLY or a final assignment marked keeps its value
\* and its mark, in the global table and for a target, unless kati stops.
ReadonlyKept ==
    [][\A x \in Names :
         /\ ev.gv[x].ro /\ ~ev'.err => ev'.gv[x] = ev.gv[x]
         /\ \A t \in Targets : ev.rv[t][x].ro /\ ~ev'.err => ev'.rv[t][x] = ev.rv[t][x]]_vars

\* The recursive variables that x refers to, directly or not
Refers(x) == IF ev.gv[x].flavor # "recursive" THEN {}
             ELSE {y \in Names : Ref(y) \in Range(ev.gv[x].val) /\ ev.gv[y].flavor = "recursive"}
RECURSIVE Reached(_)
Reached(S) == LET T == S \cup UNION {Refers(y) : y \in S} IN IF T = S THEN S ELSE Reached(T)

\* The evaluation of a variable is stopped exactly when it would never end:
\* when a chain of references from it comes back to itself.  The names in use are kept in one set,
\* symbols_for_eval_, from which a name goes when its evaluation is complete
\* (LookupVarForEval, VarEvalComplete, RecursiveVar::Used).
SelfReferenceRight ==
    status # "error" => \A x \in Names :
        IsBad(Eval(ev.gv, <<Ref(x)>>)) <=> \E y \in Reached({x}) : y \in Reached(Refers(y))
=============================================================================
