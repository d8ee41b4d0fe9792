-------------------------------- MODULE Find --------------------------------
(***************************************************************************)
(* The find emulator of ckati (find.cc): a $(shell find ...) is parsed,    *)
(* answered from a tree of the directories, and the directories it depends *)
(* on are recorded for the regeneration check.  A path is the sequence of  *)
(* its components, a token of a command a sequence of strings: a keyword   *)
(* has one, a directory one for each component.  A tree maps paths to      *)
(* [kind, to], kind being "d", "f" or "l".  Tokens come without quotes.    *)
(***************************************************************************)
EXTENDS Integers, Sequences, FiniteSets, SequencesExt

CONSTANTS
    Trees,     \* file systems to start with
    Commands,  \* commands, as their authors mean them (see Properties)
    Paths,     \* what the user may create or remove, by its path
    Names,     \* every name of a file, in the order of readdir
    Fnmatch,   \* pairs <<pattern, name>> that match, the pattern not being the name
    MaxEdits

VARIABLES
    fs,       \* the file system
    cmd,      \* the command
    res,      \* what ShellFunc stores for it
    touched,  \* files and directories changed since the stamp was written
    edits

vars == <<fs, cmd, res, touched, edits>>

-----------------------------------------------------------------------------
(* The kernel: stat follows links, with an error for a chain of too many.  *)

MaxLinks == 4
NoEnt == <<"ENOENT">>
Loop == <<"ELOOP">>
RECURSIVE Walk(_, _, _, _)
Walk(t, p, cs, n) ==
    IF cs = << >> THEN p
    ELSE LET q == Append(p, Head(cs)) IN
         CASE t[p].kind # "d" -> NoEnt
           [] Head(cs) = "." -> Walk(t, p, Tail(cs), n)
           [] Head(cs) = ".." -> IF p = << >> THEN NoEnt ELSE Walk(t, Front(p), Tail(cs), n)
           [] Head(cs) \notin {".", ".."} /\ q \notin DOMAIN t -> NoEnt
           [] q \in DOMAIN t /\ t[q].kind = "l" ->
                IF n = 0 THEN Loop ELSE Walk(t, p, t[q].to \o Tail(cs), n - 1)
           [] OTHER -> Walk(t, q, Tail(cs), n)
Stat(t, p) == Walk(t, << >>, p, MaxLinks)
Exists(t, p) == Stat(t, p) \notin {NoEnt, Loop}
\* Of the last component, the link itself.
Lstat(t, p) ==
    LET d == IF p = << >> THEN p ELSE Stat(t, Front(p)) IN
    IF p = << >> \/ d \in {NoEnt, Loop} \/ Last(p) \in {".", ".."} THEN Stat(t, p)
    ELSE IF Append(d, Last(p)) \in DOMAIN t THEN Append(d, Last(p)) ELSE NoEnt

-----------------------------------------------------------------------------
(* Conditions                                                              *)

NoCond == [op |-> "none"]
Wild == {m[1] : m \in Fnmatch}
Matches(pat, name) == pat = name \/ <<pat, name>> \in Fnmatch
Basename(path) == IF path = << >> THEN "" ELSE Last(path)

RECURSIVE IsTrue(_, _, _)
IsTrue(c, path, type) ==
    CASE c.op = "name" -> Matches(c.arg, Basename(path))
      [] c.op = "type" -> c.arg = type
      [] c.op = "not" -> ~IsTrue(c.c, path, type)
      [] c.op = "and" -> IsTrue(c.c, path, type) /\ IsTrue(c.d, path, type)
      [] c.op = "or" -> IsTrue(c.c, path, type) \/ IsTrue(c.d, path, type)

RECURSIVE Countable(_)
Countable(c) ==
    \/ c.op = "name" /\ c.arg \notin Wild
    \/ c.op = "or" /\ Countable(c.c) /\ Countable(c.d)
RECURSIVE Count(_)
Count(c) == CASE c.op = "name" -> 1 [] c.op = "or" -> Count(c.c) + Count(c.d) [] OTHER -> 0

-----------------------------------------------------------------------------
(* FindCommandParser.  A parser returns [ok, val, rest].                   *)

Fail == [ok |-> FALSE]
Yields(v, ts) == [ok |-> TRUE, val |-> v, rest |-> ts]
Then(r, K(_)) == IF r.ok THEN K(r) ELSE Fail
BadToken == <<"bad">>      \* GetNextToken fails: & alone, a quote, a backslash
Tok(ts) == IF ts = << >> THEN << >> ELSE ts[1]
Word(ts) == ts # << >> /\ ts[1] # BadToken
Is(ts, w) == ts # << >> /\ ts[1] = <<w>>
When(b, ts) == IF b THEN ts ELSE << >>
OneOf(ts, ws) == \E w \in ws : Is(ts, w)

FactStart == {"-not", "!", "(", "-name", "-type"}
Options == FactStart \cup {"-o", "-or", "-a", "-and", "-x"}  \* all that begins with -
Types == {"b", "c", "d", "p", "l", "f", "s"}

RECURSIVE ParseFact(_)
RECURSIVE ParseTerm(_, _)
RECURSIVE ParseExpr(_, _)

\* ts begins with the token at hand.
ParseFact(ts) ==
    CASE ~Word(ts) -> Fail
      [] OneOf(ts, {"-not", "!"}) ->
           Then(ParseFact(Tail(ts)), LAMBDA r : Yields([op |-> "not", c |-> r.val], r.rest))
      [] Is(ts, "(") ->
           Then(ParseExpr(NoCond, Tail(ts)),
                LAMBDA r : IF Is(r.rest, ")") THEN Yields(r.val, Tail(r.rest)) ELSE Fail)
      [] OneOf(ts, {"-name", "-type"}) ->
           LET v == Tok(Tail(ts)) IN
           IF Word(Tail(ts)) /\ Len(v) = 1 /\ (Is(ts, "-type") => v[1] \in Types)
           THEN Yields([op |-> IF Is(ts, "-name") THEN "name" ELSE "type", arg |-> v[1]],
                       Tail(Tail(ts)))
           ELSE Fail
      [] OTHER -> Fail

\* The facts, and the terms, after the condition c, or the first one; with the
\* token that ends them.
Combined(c, r, op) == IF c = NoCond THEN r.val ELSE [op |-> op, c |-> c, d |-> r.val]
ParseTerm(c, ts) ==
    LET More(t, rest) ==
          CASE Tok(rest) = BadToken -> Fail
            [] OneOf(rest, {"-and", "-a"}) -> ParseTerm(t, Tail(rest))
            [] OneOf(rest, FactStart) -> ParseTerm(t, rest)
            [] OTHER -> Yields(t, rest)
    IN Then(ParseFact(ts), LAMBDA r : More(Combined(c, r, "and"), r.rest))
ParseExpr(c, ts) ==
    LET More(e, rest) ==
          CASE Tok(rest) = BadToken -> Fail
            [] OneOf(rest, {"-or", "-o"}) -> ParseExpr(e, Tail(rest))
            [] OTHER -> Yields(e, rest)
    IN Then(ParseTerm(NoCond, ts), LAMBDA r : More(Combined(c, r, "or"), r.rest))

Forever == 99
NewFindCommand ==
    [type |-> "find", chdir |-> << >>, testdir |-> << >>, finddirs |-> << >>, follows |-> FALSE,
     print |-> NoCond, prune |-> NoCond, depth |-> Forever, mindepth |-> -1]
Digits == "0" :> 0 @@ "1" :> 1 @@ "2" :> 2 @@ "3" :> 3
IsNumber(v) == Len(v) = 1 /\ v[1] \in DOMAIN Digits

RECURSIVE ParseFind(_, _)
ParseFind(fc, ts) ==
    LET rest == Tail(ts) IN
    CASE ts = << >> -> Yields(fc, ts)
      [] Tok(ts) = BadToken -> Fail
      [] Is(ts, ";") -> Yields(fc, rest)
      [] Is(ts, "-L") -> ParseFind([fc EXCEPT !.follows = TRUE], rest)
      [] Is(ts, "-prune") ->
           IF fc.print # NoCond /\ fc.prune = NoCond /\ Is(rest, "-o")
           THEN ParseFind([fc EXCEPT !.prune = fc.print, !.print = NoCond], Tail(rest)) ELSE Fail
      [] Is(ts, "-print") -> IF rest = << >> THEN Yields(fc, rest) ELSE Fail
      [] Is(ts, "-maxdepth") ->
           IF Word(rest) /\ IsNumber(Tok(rest))
           THEN ParseFind([fc EXCEPT !.depth = Digits[Tok(rest)[1]]], Tail(rest)) ELSE Fail
      [] OneOf(ts, Options) ->
           IF fc.print # NoCond THEN Fail
           ELSE Then(ParseExpr(NoCond, ts), LAMBDA r : ParseFind([fc EXCEPT !.print = r.val], r.rest))
      [] Is(ts, "2>") -> IF Tok(rest) = <<"/", "dev", "null">> THEN ParseFind(fc, Tail(rest)) ELSE Fail
      [] OneOf(ts, {"|", "&&", ">"}) -> Fail
      [] OTHER -> ParseFind([fc EXCEPT !.finddirs = Append(@, Tok(ts))], rest)

OrName(c, name) == Combined(c, Yields([op |-> "name", arg |-> name], << >>), "or")
RECURSIVE ParseFindLeaves(_, _, _)
ParseFindLeaves(fc, ts, files) ==
    LET v == Tok(ts)
        Next_(f) == ParseFindLeaves(f, Tail(ts), files)
    IN
    CASE ts = << >> ->
           LET old == fc.finddirs = << >>
               names == IF old THEN <<Last(files)>> ELSE files
           IN IF Len(files) < (IF old THEN 2 ELSE 1) THEN Fail
              ELSE Yields([fc EXCEPT !.finddirs = IF old THEN Front(files) ELSE @,
                                     !.print = FoldLeft(LAMBDA c, f : OrName(c, f[1]), NoCond, names)], ts)
      [] v = BadToken -> Fail
      [] v # << >> /\ v[1] = "--prune=" -> Next_([fc EXCEPT !.prune = OrName(@, v[2])])
      [] v # << >> /\ v[1] = "--mindepth=" -> Next_([fc EXCEPT !.mindepth = Digits[v[2]]])
      [] v # << >> /\ v[1] = "--dir=" -> Next_([fc EXCEPT !.finddirs = Append(@, Tail(v))])
      [] v # << >> /\ v[1] = "--" -> Fail
      [] OTHER -> ParseFindLeaves(fc, Tail(ts), Append(files, v))

\* ParseImpl, with hasIf once an "if" was read
FindLeaves == <<"build", "tools", "findleaves.py">>
RECURSIVE ParseImpl(_, _, _)
ParseImpl(fc, ts, hasIf) ==
    LET rest == Tail(ts)
        After(k) == SubSeq(ts, k + 1, Len(ts))
    IN
    CASE ts = << >> -> Yields(fc, ts)
      [] Is(ts, "cd") ->
           IF /\ Word(rest) /\ fc.chdir = << >> /\ Range(Tok(rest)) \cap Wild = {}
              /\ OneOf(After(2), {";", "&&"})
           THEN ParseImpl([fc EXCEPT !.chdir = Tok(rest)], After(3), hasIf) ELSE Fail
      [] Is(ts, "if") ->
           IF /\ Is(rest, "[") /\ ~hasIf /\ fc.testdir = << >> /\ Is(After(2), "-d") /\ Word(After(3))
              /\ Is(After(4), "]") /\ Is(After(5), ";") /\ Is(After(6), "then")
           THEN ParseImpl([fc EXCEPT !.testdir = After(3)[1]], After(7), TRUE) ELSE Fail
      [] Is(ts, "test") ->
           IF /\ fc.chdir = << >> /\ ~hasIf /\ fc.testdir = << >> /\ Is(rest, "-d") /\ Word(After(2))
              /\ Is(After(3), "&&")
           THEN ParseImpl([fc EXCEPT !.testdir = After(2)[1]], After(4), hasIf) ELSE Fail
      [] Is(ts, "find") ->
           Then(ParseFind(fc, rest),
                LAMBDA r : IF r.rest = When(hasIf, <<<<"fi">>>>) THEN Yields(r.val, << >>) ELSE Fail)
      [] Tok(ts) = FindLeaves ->
           ParseFindLeaves([fc EXCEPT !.type = "leaves", !.follows = TRUE], rest, << >>)
      [] OTHER -> Fail

-----------------------------------------------------------------------------
(* Paths, and FindCommand::Parse                                           *)

NormalizePath(cs) ==
    LET Add(p, c) ==
          CASE c = "." -> p
            [] c = ".." /\ p # << >> /\ Last(p) # ".." -> Front(p)
            [] OTHER -> Append(p, c)
    IN FoldLeft(Add, << >>, cs)
ConcatDir(b, n) == NormalizePath(b \o n)

Parse(ts) ==
    IF \A i \in DOMAIN ts : ts[i] \notin {<<"find">>, FindLeaves} THEN Fail
    ELSE Then(ParseImpl(NewFindCommand, ts, FALSE),
              LAMBDA r : Yields([r.val EXCEPT !.chdir = NormalizePath(@), !.testdir = NormalizePath(@),
                                              !.finddirs = IF @ = << >> THEN <<<<".">>>> ELSE @], << >>))

-----------------------------------------------------------------------------
(* The tree.  A node is named by its path, whatever led to it.             *)

NoNode == <<"none">>
Children(t, p) == SelectSeq(Names, LAMBDA n : Append(p, n) \in DOMAIN t)
Ignored == {".repo", ".git"}   \* DirentDirNode::initialize

RECURSIVE FindDir(_, _, _)
\* DirentSymlinkNode::initialize: errno_ and to_
Errno(t, p) == LET s == Stat(t, p) IN IF s \in {NoEnt, Loop} THEN s ELSE << >>
To(t, p) == IF t[p].to[1] = "/" THEN NoNode ELSE FindDir(t, Front(p), t[p].to)
FindDir(t, p, d) ==
    CASE t[p].kind = "f" -> NoNode
      [] t[p].kind = "l" ->
           IF Errno(t, p) = << >> /\ To(t, p) # NoNode THEN FindDir(t, To(t, p), d) ELSE NoNode
      [] t[p].kind = "d" /\ d = << >> -> p
      [] t[p].kind = "d" /\ d # << >> ->
           LET q == Append(p, Head(d)) IN
           CASE Head(d) = "." -> FindDir(t, p, Tail(d))
             [] Head(d) = ".." -> IF p = << >> THEN NoNode ELSE FindDir(t, Front(p), Tail(d))
             [] Head(d) \notin {".", ".."} /\ (q \notin DOMAIN t \/ Head(d) \in Ignored) -> NoNode
             [] OTHER -> IF Len(d) = 1 THEN q ELSE FindDir(t, q, Tail(d))

RECURSIVE IsDirectory(_, _)
IsDirectory(t, p) ==
    \/ t[p].kind = "d"
    \/ t[p].kind = "l" /\ Errno(t, p) = << >> /\ To(t, p) # NoNode /\ IsDirectory(t, To(t, p))

\* The nodes that d names, below p, as [ok, nodes, reads]; nodes are pairs of
\* the path that led to the node and the node.
RECURSIVE FindNodes(_, _, _, _)
FindNodes(t, p, path, d) ==
    LET None == [ok |-> TRUE, nodes |-> << >>, reads |-> {}]
        Unsupported == [None EXCEPT !.ok = FALSE]
        c == Head(d)
        At(q) == IF Len(d) = 1 THEN [None EXCEPT !.nodes = <<<<Append(path, c), q>>>>]
                 ELSE FindNodes(t, q, Append(path, c), Tail(d))
        Child(n) == IF Len(d) = 1 THEN [None EXCEPT !.nodes = <<<<Append(path, n), Append(p, n)>>>>]
                    ELSE FindNodes(t, Append(p, n), Append(path, n), Tail(d))
        Both(a, b) == IF a.ok THEN [ok |-> b.ok, nodes |-> a.nodes \o b.nodes, reads |-> a.reads \cup b.reads]
                      ELSE a
        found == SelectSeq(Children(t, p), LAMBDA n : n \notin Ignored /\ Matches(c, n))
    IN
    CASE t[p].kind = "f" -> None
      [] t[p].kind = "l" ->
           IF Errno(t, p) # << >> THEN None
           ELSE IF To(t, p) = NoNode THEN Unsupported
           ELSE LET r == FindNodes(t, To(t, p), path, d) IN
                [r EXCEPT !.reads = IF IsDirectory(t, To(t, p)) THEN @ \cup {path} ELSE @]
      [] t[p].kind = "d" /\ c = "." -> At(p)
      [] t[p].kind = "d" /\ c = ".." -> IF p = << >> THEN Unsupported ELSE At(Front(p))
      [] t[p].kind = "d" /\ c \notin {".", ".."} ->
           FoldLeft(LAMBDA a, n : Both(a, Child(n)),
                    [None EXCEPT !.reads = IF c \in Wild THEN {path} ELSE {}], found)

\* RunFind adds to s = [ok, out, reads, files]; cur is cur_read_dirs.
\* Mutant: the least depth is taken to be excluded.
MutPrintBelow(fc, path, type, d, s) ==
    IF (fc.print # NoCond /\ ~IsTrue(fc.print, path, type)) \/ d <= fc.mindepth THEN s
    ELSE [s EXCEPT !.out = Append(@, path)]
PrintIfNecessary(fc, path, type, d, s) ==
    IF (fc.print # NoCond /\ ~IsTrue(fc.print, path, type)) \/ d < fc.mindepth THEN s
    ELSE [s EXCEPT !.out = Append(@, path)]

\* All of a directory's files are found: only they need to be looked at again.
\* Mutant: also when some files are missing.
MutLeafFoundAny(fc, path, s, new) ==
    [s EXCEPT !.reads = @ \ {path}, !.files = @ \cup Range(new)]
LeafFound(fc, path, s, new) ==
    IF Countable(fc.print) /\ Count(fc.print) = Len(new)
    THEN [s EXCEPT !.reads = @ \ {path}, !.files = @ \cup Range(new)] ELSE s

RECURSIVE RunFind(_, _, _, _, _, _, _)
RunLink(t, fc, p, path, d, cur, s) ==
    CASE ~fc.follows \/ Errno(t, p) = NoEnt -> PrintIfNecessary(fc, path, "l", d, s)
      [] fc.follows /\ Errno(t, p) = Loop -> s
      [] OTHER -> IF To(t, p) = NoNode THEN [s EXCEPT !.ok = FALSE]
                  ELSE RunFind(t, fc, To(t, p), path, d, cur, s)
RunFind(t, fc, p, path, d, cur, s) ==
    LET Each(ns, st) ==
          FoldLeft(LAMBDA a, n : IF a.ok THEN RunFind(t, fc, Append(p, n), Append(path, n), d + 1,
                                                      cur \cup {p}, a) ELSE a, st, ns)
        all == SelectSeq(Children(t, p), LAMBDA n : n \notin Ignored)
        s1 == [s EXCEPT !.reads = @ \cup {path}]
        s2 == PrintIfNecessary(fc, path, "d", d, s1)
        s3 == Each(SelectSeq(all, LAMBDA n : ~IsDirectory(t, Append(p, n))), s2)
        new == SubSeq(s3.out, Len(s2.out) + 1, Len(s3.out))
    IN
    CASE t[p].kind = "f" -> PrintIfNecessary(fc, path, "f", d, s)
      [] t[p].kind = "l" -> RunLink(t, fc, p, path, d, cur, s)
      [] t[p].kind = "d" /\ p \in cur -> s
      [] t[p].kind = "d" /\ p \notin cur ->
           IF fc.prune # NoCond /\ IsTrue(fc.prune, path, "d")
           THEN (IF fc.type = "leaves" THEN s1 ELSE [s1 EXCEPT !.out = Append(@, path)])
           ELSE IF d >= fc.depth THEN s2
           ELSE IF fc.type = "find" THEN Each(all, s2)
           ELSE IF ~s3.ok THEN s3
           ELSE IF new # << >> THEN LeafFound(fc, path, s3, new)
           ELSE Each(SelectSeq(all, LAMBDA n : IsDirectory(t, Append(p, n))), s2)

-----------------------------------------------------------------------------
(* HandleFind                                                              *)

CanHandle(d) == d = << >> \/ Head(d) \notin {"/"} \cup Ignored
Nothing == [ok |-> TRUE, out |-> << >>, reads |-> {}, files |-> {}]
NotHandled == [Nothing EXCEPT !.ok = FALSE]

FindIn(t, fc, root, s, finddir) ==
    LET full == ConcatDir(fc.chdir, finddir)
        r == FindNodes(t, root, << >>, finddir)
        s1 == [s EXCEPT !.reads = @ \cup r.reads]
    IN CASE ~s.ok -> s
         [] s.ok /\ (~CanHandle(full) \/ ~r.ok) -> NotHandled
         [] s.ok /\ CanHandle(full) /\ r.ok /\ r.nodes = << >> ->
              IF Exists(t, full) THEN NotHandled ELSE s1
         [] OTHER ->
              FoldLeft(LAMBDA a, b : IF a.ok THEN RunFind(t, fc, b[2], b[1], 0, {}, a) ELSE a, s1, r.nodes)

HandleFind(t, fc) ==
    LET root == FindDir(t, << >>, fc.chdir) IN
    CASE ~CanHandle(fc.chdir) \/ (fc.testdir # << >> /\ ~CanHandle(fc.testdir)) -> NotHandled
      [] fc.testdir # << >> /\ CanHandle(fc.testdir) /\ FindDir(t, << >>, fc.testdir) = NoNode ->
           [Nothing EXCEPT !.ok = ~Exists(t, fc.testdir)]
      [] OTHER ->
           IF root = NoNode THEN [Nothing EXCEPT !.ok = ~Exists(t, fc.chdir)]
           ELSE FoldLeft(LAMBDA s, d : FindIn(t, fc, root, s, d), Nothing, fc.finddirs)

-----------------------------------------------------------------------------
(* What the author of a command means by it, and what the shell prints.    *)
(* A command is [kind, test, cd, sep, dirs, follow, prune, cond, print,    *)
(* max, names, prunes, min], the last three of them for findleaves.py.     *)

RECURSIVE CondTokens(_)
Parens(c) == IF c.op = "or" THEN <<<<"(">>>> \o CondTokens(c) \o <<<<")">>>> ELSE CondTokens(c)
CondTokens(c) ==
    CASE c.op = "none" -> << >>
      [] c.op = "name" -> <<<<"-name">>, <<c.arg>>>>
      [] c.op = "type" -> <<<<"-type">>, <<c.arg>>>>
      [] c.op = "not" -> <<<<"!">>>> \o Parens(c.c)
      [] c.op = "and" -> Parens(c.c) \o Parens(c.d)
      [] c.op = "or" -> CondTokens(c.c) \o <<<<"-o">>>> \o CondTokens(c.d)
Prefixed(w, names) == [i \in DOMAIN names |-> <<w>> \o names[i]]
DigitOf(n) == CHOOSE k \in DOMAIN Digits : Digits[k] = n
FindTokens(c) ==
    <<<<"find">>>> \o When(c.follow, <<<<"-L">>>>) \o c.dirs
    \o When(c.max < Forever, <<<<"-maxdepth">>, <<DigitOf(c.max)>>>>)
    \o When(c.prune # NoCond, Parens(c.prune) \o <<<<"-prune">>, <<"-o">>>>)
    \o CondTokens(c.cond) \o When(c.print, <<<<"-print">>>>)
LeavesTokens(c) ==
    <<FindLeaves>> \o Prefixed("--prune=", c.prunes)
    \o When(c.min > 0, <<<<"--mindepth=", DigitOf(c.min)>>>>)
    \o Prefixed("--dir=", c.dirs) \o c.names
Tokens(c) ==
    When(c.test # << >>, <<<<"if">>, <<"[">>, <<"-d">>, c.test, <<"]">>, <<";">>, <<"then">>>>)
    \o When(c.cd # << >>, <<<<"cd">>, c.cd, <<c.sep>>>>)
    \o (IF c.kind = "find" THEN FindTokens(c) ELSE LeavesTokens(c))
    \o When(c.test # << >>, <<<<";">>, <<"fi">>>>)

KindOf(t, p, follow) ==
    LET s == IF follow THEN Stat(t, p) ELSE Lstat(t, p) IN
    CASE s = Loop -> "?"
      [] s = NoEnt -> IF Lstat(t, p) = NoEnt THEN "?" ELSE "l"
      [] OTHER -> t[s].kind

\* What find prints for the starting point b, in the directory w: everything
\* it reaches, the directories that it descends into being known.
InLoop(t, c, w, b, q) ==
    c.follow /\ \E k \in Len(b) .. Len(q) - 1 : Stat(t, w \o SubSeq(q, 1, k)) = Stat(t, w \o q)
Pruned(t, c, w, q) == c.prune # NoCond /\ IsTrue(c.prune, q, KindOf(t, w \o q, c.follow))
Enters(t, c, w, b, q) ==
    /\ KindOf(t, w \o q, c.follow) = "d" /\ Len(q) - Len(b) < c.max
    /\ ~Pruned(t, c, w, q) /\ ~InLoop(t, c, w, b, q)
RECURSIVE Reached(_, _, _, _, _)
Reached(t, c, w, b, qs) ==
    LET next == UNION {{Append(q, n) : n \in Range(Children(t, Stat(t, w \o q)))} :
                         q \in {q \in qs : Enters(t, c, w, b, q)}}
    IN IF qs = {} THEN {} ELSE qs \cup Reached(t, c, w, b, next)
FindPrints(t, c, w, b) ==
    {q \in Reached(t, c, w, b, {b}) :
        /\ KindOf(t, w \o q, c.follow) # "?"
        /\ ~(KindOf(t, w \o q, c.follow) = "d" /\ InLoop(t, c, w, b, q))
        /\ IF Pruned(t, c, w, q) THEN ~c.print
           ELSE c.cond = NoCond \/ IsTrue(c.cond, q, KindOf(t, w \o q, c.follow))}

\* What findleaves.py prints for the directory b.
LeavesIn(t, c, w, b, q) ==
    {Append(q, f[1]) : f \in {f \in Range(c.names) :
        /\ Append(Stat(t, w \o q), f[1]) \in DOMAIN t
        /\ KindOf(t, w \o q \o f, TRUE) # "d" /\ Len(q) - Len(b) + 1 >= c.min}}
RECURSIVE LeafDirs(_, _, _, _, _)
LeafDirs(t, c, w, b, qs) ==
    LET Sub(q) == {Append(q, n) : n \in {n \in Range(Children(t, Stat(t, w \o q))) :
                     <<n>> \notin Range(c.prunes) /\ KindOf(t, w \o Append(q, n), TRUE) = "d"}}
        next == UNION {Sub(q) : q \in {q \in qs : LeavesIn(t, c, w, b, q) = {}}}
    IN IF qs = {} THEN {} ELSE qs \cup LeafDirs(t, c, w, b, next)

\* The shell expands wildcards.
Expand(t, w, d) ==
    {q \in [DOMAIN d -> Range(d) \cup Range(Names)] :
        /\ \A i \in DOMAIN d : IF d[i] \in Wild THEN <<d[i], q[i]>> \in Fnmatch ELSE q[i] = d[i]
        /\ Lstat(t, w \o q) \notin {NoEnt, Loop}}
IsDir(t, p) == Exists(t, p) /\ t[Stat(t, p)].kind = "d"
Native(t, c) ==
    LET cd == NormalizePath(c.cd)
        w == IF IsDir(t, cd) THEN Stat(t, cd) ELSE << >>
        bases == UNION {Expand(t, w, d) : d \in Range(c.dirs)}
    IN CASE \/ c.test # << >> /\ ~IsDir(t, c.test)
            \/ c.cd # << >> /\ c.sep = "&&" /\ ~IsDir(t, cd) -> {}
         [] OTHER ->
            IF c.kind = "find" THEN UNION {FindPrints(t, c, w, b) : b \in bases}
            ELSE UNION {UNION {LeavesIn(t, c, w, b, q) : q \in LeafDirs(t, c, w, b, {b})} :
                          b \in {b \in bases : IsDir(t, w \o b)}}

-----------------------------------------------------------------------------
(* ShellFunc, the stamp, and the check whether the command must run again. *)

ShellResult(op, out) == [op |-> op, out |-> out, reads |-> {}, files |-> {}, missing |-> {}]
Asked == ShellResult("asked", {})

Found(t, fc, h) ==
    [op |-> "FIND", out |-> Range(h.out),
     reads |-> {ConcatDir(fc.chdir, d) : d \in h.reads},
     files |-> {ConcatDir(fc.chdir, f) : f \in h.files},
     missing |-> {d \in {ConcatDir(fc.chdir, f) : f \in Range(fc.finddirs)} : ~Exists(t, d)}]
ShellFunc(t, c) ==
    LET Answer(fc, h) == IF h.ok THEN Found(t, fc, h) ELSE ShellResult("SHELL", Native(t, c))
        Try(r) == IF r.ok THEN Answer(r.val, HandleFind(t, r.val)) ELSE ShellResult("SHELL", Native(t, c))
    IN Try(Parse(Tokens(c)))

Shell ==
    /\ res = Asked
    /\ res' = ShellFunc(fs, cmd)
    /\ UNCHANGED <<fs, cmd, touched, edits>>

Changed(t, d) ==
    LET l == Lstat(t, d)
        s == Stat(t, d)
    IN \/ l \in {NoEnt, Loop} \/ l \in touched
       \/ t[l].kind = "l" /\ (~Exists(t, d) \/ s \in touched)
ShouldRunCommand ==
    \/ res.op # "FIND"
    \/ \E d \in res.missing : Exists(fs, d)
    \/ \E f \in res.files : ~Exists(fs, f)
    \/ \E d \in res.reads \ {<< >>} : Changed(fs, d)

Edited(p) == touched' = touched \cup {p, Front(p)} /\ edits' = edits + 1 /\ UNCHANGED <<cmd, res>>
Create(p) ==
    /\ res # Asked /\ edits < MaxEdits
    /\ p \notin DOMAIN fs /\ Front(p) \in DOMAIN fs /\ fs[Front(p)].kind = "d"
    /\ fs' = (p :> Paths[p]) @@ fs /\ Edited(p)
Unlink(p) ==
    /\ res # Asked /\ edits < MaxEdits
    /\ p \in DOMAIN fs /\ \A q \in DOMAIN fs : q # p => ~IsPrefix(p, q)
    /\ fs' = [q \in DOMAIN fs \ {p} |-> fs[q]] /\ Edited(p)

Init ==
    /\ fs \in Trees /\ cmd \in Commands
    /\ res = Asked /\ touched = {} /\ edits = 0
Next ==
    \/ Shell
    \/ \E p \in DOMAIN Paths : Create(p)
    \/ \E p \in DOMAIN Paths : Unlink(p)
Spec == Init /\ [][Next]_vars

-----------------------------------------------------------------------------
(* Properties                                                              *)

\* What the emulator prints is what the command prints (the assertion
\* "FindEmulator is broken" of ShellFuncImpl).
OutputRight == edits = 0 /\ res.op = "FIND" => res.out = Native(fs, cmd)

\* When a command would print something else than before, the check notices:
\* the recorded directories and files cover all that the output depends on.
DirsCover == res.op = "FIND" /\ Native(fs, cmd) # res.out => ShouldRunCommand
=============================================================================
