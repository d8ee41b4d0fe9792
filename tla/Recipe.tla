------------------------------- MODULE Recipe -------------------------------
(***************************************************************************)
(* From the text of a recipe to what a shell runs: CommandEvaluator splits *)
(* the text into commands (command.cc); the executor gives each to a shell *)
(* of its own, the ninja generator joins them into one script, escapes it  *)
(* for the shell and for ninja, and writes the line of a rule (ninja.cc).  *)
(* A text is a sequence of characters; "a", "cd", "false", "true", "echo"  *)
(* and "mkdir" (a mkdir -p of the output's directory) count as characters. *)
(***************************************************************************)
EXTENDS Integers, Sequences, FiniteSets, SequencesExt

CONSTANTS
    Recipes,  \* [values, outputs]: evaluated texts, and $(info) and the like in them
    RspSize   \* longer scripts are put into a response file (100 * 1000)

VARIABLES
    recipe, detect,  \* the recipe; g_flags.detect_android_echo
    pc,              \* "eval", "gen", "done", or "abort" when kati has crashed
    todo,            \* texts, and then commands, that are still to be done
    commands,        \* what CommandEvaluator::Eval returns
    buf, count, described,  \* cmd_buf, command_count and got_description
    line             \* the rule: [rsp, text]

vars == <<recipe, detect, pc, todo, commands, buf, count, described, line>>

Space == {" ", "\n"}
Backslash == "\\"
Backquote == "backquote"
From(s, i) == SubSeq(s, i, Len(s))
When(b, s) == IF b THEN s ELSE << >>

-----------------------------------------------------------------------------
(* CommandEvaluator::Eval                                                  *)

RECURSIVE TrimLeftSpace(_)
TrimLeftSpace(s) ==
    CASE s # << >> /\ s[1] \in Space -> TrimLeftSpace(Tail(s))
      [] IsPrefix(<<Backslash, "\n">>, s) -> TrimLeftSpace(From(s, 3))
      [] OTHER -> s

CommandPrefix == {"@", "-", "+"}
RECURSIVE ParseCommandPrefixes(_, _)
ParseCommandPrefixes(c, s) ==
    IF s = << >> \/ Head(s) \notin CommandPrefix THEN [c EXCEPT !.cmd = s]
    ELSE ParseCommandPrefixes([c EXCEPT !.echo = @ /\ Head(s) # "@", !.ignore = @ \/ Head(s) = "-"],
                              TrimLeftSpace(Tail(s)))

\* The first line feed from e on that is not escaped, or the end.
\* Mutant: an escaped backslash escapes what follows.
MutFindEndOfLine(s, e) ==
    LET F[i \in e .. Len(s) + 2] ==
          CASE i > Len(s) -> Len(s) + 1
            [] i <= Len(s) /\ s[i] = "\n" -> i
            [] OTHER -> F[i + (IF s[i] = Backslash /\ i < Len(s) /\ s[i + 1] = "\n" THEN 2 ELSE 1)]
    IN F[e]
FindEndOfLine(s, e) ==
    LET F[i \in e .. Len(s) + 2] ==
          CASE i > Len(s) -> Len(s) + 1
            [] i <= Len(s) /\ s[i] = "\n" -> i
            [] OTHER -> F[i + (IF s[i] = Backslash /\ i < Len(s) /\ s[i + 1] \in {"\n", Backslash}
                               THEN 2 ELSE 1)]
    IN F[e]

Command(s) == [cmd |-> s, echo |-> TRUE, ignore |-> FALSE]
RECURSIVE Lines(_, _)
Lines(g, s) ==
    LET i == FindEndOfLine(s, 1)
        c == ParseCommandPrefixes(g, TrimLeftSpace(SubSeq(s, 1, i - 1)))
    IN When(c.cmd # << >>, <<c>>) \o When(i <= Len(s), Lines(g, From(s, i + 1)))

\* A prefix of the first line counts for all.
Split(text) ==
    LET g == ParseCommandPrefixes(Command(text), TrimLeftSpace(text))
    IN When(g.cmd # << >>, Lines(g, g.cmd))

EvalValue ==
    /\ pc = "eval" /\ todo # << >>
    /\ commands' = commands \o Split(Head(todo))
    /\ todo' = Tail(todo)
    /\ UNCHANGED <<recipe, detect, pc, buf, count, described, line>>

\* The delayed output commands come first.
Evaluated ==
    /\ pc = "eval" /\ todo = << >>
    /\ commands' = [i \in DOMAIN recipe.outputs |-> [Command(recipe.outputs[i]) EXCEPT !.echo = FALSE]]
                   \o commands
    /\ todo' = commands' /\ count' = Len(commands') /\ pc' = "gen"
    /\ UNCHANGED <<recipe, detect, buf, described, line>>

-----------------------------------------------------------------------------
(* TranslateCommand                                                        *)

Quotes == {"'", "\"", Backquote}
DropLast(s) == SubSeq(s, 1, Len(s) - 1)

\* One character.  t.comment holds while the inner loop skips a comment.
Translate(t, c) ==
    LET bs == c = Backslash /\ ~t.bs
        Out(s) == [t EXCEPT !.buf = @ \o s, !.bs = bs, !.prev = c]
    IN
    CASE t.comment \/ (c = "#" /\ t.quote = "" /\ t.prev \in Space) ->
           [t EXCEPT !.comment = c # "\n", !.bs = c = Backslash, !.prev = c]
      [] ~t.comment /\ c \in Quotes ->
           [Out(<<c>>) EXCEPT !.quote = CASE @ = c -> ""
                                          [] @ = "" /\ ~t.bs -> c
                                          [] OTHER -> @]
      [] ~t.comment /\ c = "\n" /\ t.bs -> [Out(<< >>) EXCEPT !.buf = DropLast(@)]
      [] OTHER -> Out(CASE c = "$" -> <<"$", "$">> [] c = "\n" -> <<" ">> [] OTHER -> <<c>>)

\* Trailing spaces and semicolons go.  An empty buffer is read at -1, where
\* its size ends: that is a null.
RECURSIVE TrimEnd(_)
TrimEnd(s) == IF s # << >> /\ Last(s) \in Space \cup {";"} THEN TrimEnd(DropLast(s)) ELSE s

\* A last backslash is taken off the buffer, although that of a comment was
\* never put there.  From an empty buffer resize throws std::length_error; a
\* buffer that gets shorter than b wraps the length of what is returned, which
\* then begins with b's terminating null and is not empty.
TranslateCommand(b, in) ==
    LET t == FoldLeft(Translate, [buf |-> b, bs |-> FALSE, prev |-> " ", quote |-> "", comment |-> FALSE], in)
        cut == TrimEnd(IF t.bs THEN DropLast(t.buf) ELSE t.buf)
        wraps == Len(cut) < Len(b)
    IN [buf |-> cut, throws |-> t.bs /\ t.buf = << >>, wraps |-> wraps,
        cmd |-> IF wraps THEN <<"null">> ELSE From(cut, Len(b) + 1)]

-----------------------------------------------------------------------------
(* GenShellScript and EmitNode                                             *)

Meta == {"<", ">", "&", "|", ";"}
\* It is a single echo.
GetDescriptionFromCommand(cmd) ==
    LET Step(t, c) ==
          CASE t.bs -> [t EXCEPT !.bs = FALSE]
            [] ~t.bs /\ c = Backslash -> [t EXCEPT !.bs = TRUE]
            [] ~t.bs /\ c # Backslash /\ t.quote # "" -> [t EXCEPT !.quote = IF c = @ THEN "" ELSE @]
            [] OTHER -> [t EXCEPT !.quote = IF c \in Quotes THEN c ELSE "", !.ok = @ /\ c \notin Meta]
    IN /\ IsPrefix(<<"echo", " ">>, cmd)
       /\ FoldLeft(Step, [ok |-> TRUE, bs |-> FALSE, quote |-> ""], From(cmd, 3)).ok

IsOutputMkdir(cmd) == cmd = <<"mkdir">>

\* command_count goes down with every command that is left out.
Counted(skip) == IF skip THEN count - 1 ELSE count

\* Mutant: the commands left, not those still counted, are looked at.
MutNeedsSubshell(c) == Len(todo) > 1 \/ c.ignore
NeedsSubshell(c) == count > 1 \/ c.ignore

\* An exception ends kati.  A command of wrapped length is searched for
\* "/gomacc" beyond the buffer: that crashes, or goes on.
GenCommand ==
    /\ pc = "gen" /\ todo # << >>
    /\ LET c == Head(todo)
           sub == NeedsSubshell(c)
           start == buf \o When(buf # << >>, <<" ", "&&", " ">>) \o When(sub, <<"(">>)
           translated == TranslateCommand(start, TrimLeftSpace(c.cmd))
           cmd == translated.cmd
           desc == detect /\ ~described /\ ~c.echo /\ GetDescriptionFromCommand(cmd)
           skip == desc \/ (IsOutputMkdir(cmd) /\ ~c.echo /\ buf = << >>) \/ cmd = << >>
       IN /\ pc' \in CASE translated.throws -> {"abort"}
                       [] translated.wraps  -> {"abort", "gen"}
                       [] OTHER             -> {"gen"}
          /\ described' = (described \/ desc)
          /\ count' = Counted(skip)
          /\ buf' = IF skip THEN buf
                    ELSE translated.buf \o When(c.ignore, <<" ", ";", " ", "true">>) \o When(sub, <<" ", ")">>)
    /\ todo' = Tail(todo)
    /\ UNCHANGED <<recipe, detect, commands, line>>

\* strutil.cc; $$ stays together.
EscapeShell(s) ==
    LET F[i \in 1 .. Len(s) + 2] ==
          CASE i > Len(s) -> << >>
            [] i < Len(s) /\ s[i] = "$" /\ s[i + 1] = "$" -> <<Backslash, "$", "$">> \o F[i + 2]
            [] OTHER -> When(s[i] \in {"\"", "$", Backslash, Backquote}, <<Backslash>>) \o <<s[i]>> \o F[i + 1]
    IN F[1]

EmitNode ==
    /\ pc = "gen" /\ todo = << >>
    /\ line' = IF Len(buf) > RspSize THEN [rsp |-> TRUE, text |-> buf]
               ELSE [rsp |-> FALSE, text |-> EscapeShell(buf)]
    /\ pc' = "done"
    /\ UNCHANGED <<recipe, detect, todo, commands, buf, count, described>>

Init ==
    /\ recipe \in Recipes /\ detect \in BOOLEAN
    /\ pc = "eval" /\ todo = recipe.values /\ commands = << >>
    /\ buf = << >> /\ count = 0 /\ described = FALSE /\ line = [rsp |-> FALSE, text |-> << >>]
Next == EvalValue \/ Evaluated \/ GenCommand \/ EmitNode
Spec == Init /\ [][Next]_vars

-----------------------------------------------------------------------------
(* Ninja and the shell                                                     *)

\* Ninja reads $$ as $.
ReadByNinja(s) ==
    LET F[i \in 1 .. Len(s) + 2] ==
          CASE i > Len(s) -> << >>
            [] i <= Len(s) /\ s[i] = "$" -> <<"$">> \o F[i + 2]
            [] OTHER -> <<s[i]>> \o F[i + 1]
    IN F[1]
\* The shell that ninja starts takes what is between the quotes.
Unquoted(s) ==
    LET F[i \in 1 .. Len(s) + 2] ==
          CASE i > Len(s) -> << >>
            [] i < Len(s) /\ s[i] = Backslash /\ s[i + 1] \in {"\"", "$", Backslash, Backquote} ->
                 <<s[i + 1]>> \o F[i + 2]
            [] i <= Len(s) /\ s[i] = "$" -> <<"expanded">> \o F[i + 1]
            [] OTHER -> <<s[i]>> \o F[i + 1]
    IN F[1]
Script == IF line.rsp THEN ReadByNinja(line.text) ELSE Unquoted(ReadByNinja(line.text))

\* The tokens of a text: words, with "literal$" for a $ that is not expanded,
\* and <<op>> for an operator.
Operators == {";", "&&", "(", ")", "\n"}
Lex(s) ==
    LET Empty == [toks |-> << >>, cur |-> << >>, in |-> FALSE, quote |-> "", bs |-> FALSE, comment |-> FALSE]
        EndWord(t) == [t EXCEPT !.toks = @ \o When(t.in, <<[word |-> t.cur]>>), !.cur = << >>, !.in = FALSE]
        Add(t, cs) == [t EXCEPT !.cur = @ \o cs, !.in = TRUE, !.bs = FALSE]
        Lit(c) == IF c = "$" THEN <<"literal$">> ELSE <<c>>
        Step(t, c) ==
          CASE t.comment /\ c # "\n" -> t
            [] t.bs /\ c = "\n" -> [t EXCEPT !.bs = FALSE]
            [] t.bs /\ c # "\n" ->
                 Add(t, When(t.quote = "\"" /\ c \notin {"\"", "$", Backslash}, <<Backslash>>) \o Lit(c))
            [] ~t.bs /\ t.quote # "" /\ c = t.quote -> [t EXCEPT !.quote = ""]
            [] ~t.bs /\ t.quote = "'" /\ c # "'" -> Add(t, Lit(c))
            [] ~t.bs /\ c = Backslash /\ t.quote # "'" -> [t EXCEPT !.bs = TRUE]
            [] ~t.bs /\ t.quote = "\"" /\ c \notin {"\"", Backslash} -> Add(t, <<c>>)
            [] ~t.comment /\ t.quote = "" /\ c \in {"'", "\""} -> [t EXCEPT !.quote = c, !.in = TRUE]
            [] ~t.comment /\ t.quote = "" /\ c = " " -> EndWord(t)
            [] t.quote = "" /\ c \in Operators ->
                 [EndWord(t) EXCEPT !.toks = Append(@, [op |-> c]), !.comment = FALSE]
            [] c = "#" /\ ~t.in -> [t EXCEPT !.comment = TRUE]
            [] OTHER -> Add(t, <<c>>)
    IN EndWord(FoldLeft(Step, Empty, s))

\* A shell accepts the text: quotes are closed, nothing ends or is joined
\* that is not there.
IsOp(t, o) == t = [op |-> o]
Accepted(s) ==
    LET l == Lex(s)
        Op(i) == "op" \in DOMAIN l.toks[i] /\ ~IsOp(l.toks[i], "(")
    IN /\ l.quote = "" /\ ~l.bs
       /\ \A i \in DOMAIN l.toks : Op(i) /\ ~IsOp(l.toks[i], "\n") =>
             i > 1 /\ (Op(i - 1) => IsOp(l.toks[i - 1], ")")) /\ ~IsOp(l.toks[i - 1], "(")

\* Lists of simple commands, each a list of words, without empty ones.
Parts(s, EndsAt(_)) ==
    LET at == <<0>> \o SelectSeq([i \in DOMAIN s |-> i], EndsAt) \o <<Len(s) + 1>>
    IN [k \in 1 .. Len(at) - 1 |-> SubSeq(s, at[k] + 1, at[k + 1] - 1)]
Simple(toks) ==
    SelectSeq(Parts(toks, LAMBDA i : IsOp(toks[i], ";") \/ IsOp(toks[i], "\n")), LAMBDA p : p # << >>)

\* A shell in the state r = [dir, log, ok] runs commands.  Output of echo and
\* directories for the output are not logged, for both may be left to ninja.
RunSimple(r, p) ==
    CASE p[1] = [word |-> <<"cd">>] -> [r EXCEPT !.dir = "other", !.ok = TRUE]
      [] p[1] = [word |-> <<"false">>] -> [r EXCEPT !.ok = FALSE]
      [] p[1].word \in {<<"true">>, <<"echo">>, <<"mkdir">>} -> [r EXCEPT !.ok = TRUE]
      [] OTHER -> [r EXCEPT !.log = Append(@, <<r.dir, p>>), !.ok = TRUE]
Started == [dir |-> "top", log |-> << >>, ok |-> TRUE]
RunText(r, toks) == FoldLeft(RunSimple, [r EXCEPT !.ok = TRUE], Simple(toks))

\* The executor: one shell for each command.
ExecCommand(r, c) ==
    IF ~r.ok THEN r
    ELSE LET s == RunText([r EXCEPT !.dir = "top"], Lex(c.cmd).toks)
         IN [s EXCEPT !.ok = @ \/ c.ignore]
ExecRecipe == FoldLeft(ExecCommand, Started, commands)

\* One shell for the script.
Wrapped(p) == p # << >> /\ IsOp(p[1], "(") /\ IsOp(Last(p), ")")
RunClause(r, p) ==
    CASE r.ok /\ Wrapped(p) -> [RunText(r, SubSeq(p, 2, Len(p) - 1)) EXCEPT !.dir = r.dir]
      [] r.ok /\ ~Wrapped(p) -> RunText(r, p)
      [] ~r.ok /\ ~Wrapped(p) -> FoldLeft(RunSimple, r, Tail(Simple(p)))  \* false && a ; b
      [] OTHER -> r
RunScript(toks) == FoldLeft(RunClause, Started, Parts(toks, LAMBDA i : IsOp(toks[i], "&&")))

-----------------------------------------------------------------------------
(* Properties                                                              *)

\* The script that ninja runs does what the commands do in the executor: the
\* same words in the same directories, up to the first failure that counts.
\* Quotes, dollars, comments and continued lines survive two escapings, and
\* no command sees the directory of another.  The one exception is a command that
\* is all comment and ends in a backslash: resize(size() - 1) then takes off what
\* the command has not appended, and kati crashes or writes a broken script.
\* It crashes on no other recipe.
CutsTooMuch(s) == IsPrefix(<<"#">>, s) /\ IsSuffix(<<Backslash>>, s)
ScriptRight ==
    pc \in {"done", "abort"} /\ (\A i \in DOMAIN commands : ~CutsTooMuch(commands[i].cmd)) =>
        LET run == RunScript(Lex(Script).toks) IN
        pc = "done" /\ Accepted(Script) /\ run.log = ExecRecipe.log /\ run.ok = ExecRecipe.ok

\* A line ends at every line feed that follows an even number of backslashes,
\* and nowhere else: no command is cut, none is joined with the next.
Escaped(s, i) ==
    LET before == {j \in 1 .. i - 1 : \A k \in j .. i - 1 : s[k] = Backslash} IN Cardinality(before) % 2 = 1
LinesRight ==
    pc = "gen" /\ recipe.outputs = << >> =>
        LET Bare(s) == ParseCommandPrefixes(Command(s), TrimLeftSpace(s)).cmd
            Text(s) == Parts(s, LAMBDA i : s[i] = "\n" /\ ~Escaped(s, i))
            lines == FlattenSeq([i \in DOMAIN recipe.values |-> Text(recipe.values[i])])
        IN [i \in DOMAIN commands |-> commands[i].cmd]
           = SelectSeq([i \in DOMAIN lines |-> Bare(lines[i])], LAMBDA l : l # << >>)
=============================================================================
