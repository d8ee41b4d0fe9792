-------------------------- MODULE RegenFilesProofs --------------------------
(***************************************************************************)
(* A clean check leaves every file as it was (CleanCheckKeepsFiles), for   *)
(* every tree and every Makefile that appends to no file; with             *)
(* $(file >>f) it does not.                                                *)
(***************************************************************************)
EXTENDS RegenProofs, SequenceTheorems

\* The lines that a Makefile, or any other file, may have: those given by the
\* user, and the texts that these write.
LinesOf(s) == {s[i] : i \in DOMAIN s}
GivenLines ==
    UNION {LinesOf(InitFiles[p]) : p \in DOMAIN InitFiles}
    \cup UNION {LinesOf(c) : c \in UNION {Edits[p] : p \in Path}}
Lines == GivenLines \cup {Line("text", l.arg, l.text) : l \in GivenLines}

\* No line appends to a file, and the files that are included or written are
\* paths of the tree.
FileOps == WriteOps \cup {"include", "sinclude"}
NoAppend ==
    /\ \A p \in DOMAIN InitFiles : InitFiles[p] \in Seq(GivenLines)
    /\ \A p \in Path : Edits[p] \subseteq Seq(GivenLines)
    /\ \A l \in GivenLines : l.op # "append" /\ (l.op \in FileOps => l.arg \in Path)

\* What a line leaves in the file it writes.
TextOf(l) == IF l.text = "" THEN << >> ELSE <<Line("text", l.arg, l.text)>>

-----------------------------------------------------------------------------
(* The inductive invariant.                                                *)

KeptFields == {"prog", "mk", "cmds", "failed"}
ChkFields == {"needs", "stamp", "globs", "next"}

\* Stored commands: those of a path that is not ignored, by lines of a Makefile.
Logged(cs) ==
    /\ cs \in Seq(LinesOf(cs))
    /\ \A i \in DOMAIN cs :
          /\ cs[i].line \in Lines /\ cs[i].line.arg \notin IgnoreDirty
          /\ Rewrites(cs[i]) => cs[i].line.op \in WriteOps

LinesInv ==
    /\ KeptFields \subseteq DOMAIN ev
    /\ content \in [Path -> Seq(Lines)] /\ ev.prog \in Seq(Lines)
    /\ \A f \in DOMAIN ev.mk : ev.mk[f].data \in Seq(Lines)
    /\ Logged(ev.cmds)
    /\ pc = "rename" => tmp # None /\ "cmds" \in DOMAIN tmp /\ Logged(tmp.cmds)
    /\ stamp # None => "cmds" \in DOMAIN stamp /\ Logged(stamp.cmds)
    /\ pc = "step2" => /\ ChkFields \subseteq DOMAIN chk /\ chk.next \in Nat \ {0}
                       /\ chk.stamp # None => Logged(chk.stamp.cmds)
    /\ settled # None => settled.content \in [Path -> Seq(Lines)]
    /\ pc # "idle" => outcome = "none"

\* The check of c writes p.
Rewriting(c, mt, p) == Rewrites(c) /\ c.line.arg = p /\ Writable(mt, p)

\* Each file that is written when cs is checked has what the last command
\* that writes it leaves.
Ends(cs, co, mt) ==
    \A p \in Path, i \in DOMAIN cs :
        /\ Rewriting(cs[i], mt, p)
        /\ \A j \in DOMAIN cs : j > i => ~Rewriting(cs[j], mt, p)
        => co[p] = TextOf(cs[i].line)

\* A file that a running check has changed will be written again.
Behind ==
    \A p \in Path : content[p] # settled.content[p] =>
        \E j \in DOMAIN stamp.cmds : j >= chk.next /\ Rewriting(stamp.cmds[j], mtime, p)

\* A running check has left in each file the text of the last command that it
\* has looked at.
Redone(cs, n) ==
    \A p \in Path, i \in DOMAIN cs :
        /\ i < n /\ Rewriting(cs[i], mtime, p)
        /\ \A j \in DOMAIN cs : j > i /\ j < n => ~Rewriting(cs[j], mtime, p)
        => content[p] = TextOf(cs[i].line)

Checking == {"check", "step2"}
Evaluated == {"makefiles", "unlink", "openNinja", "ninja", "openScript", "script",
              "openTmp", "tmp", "rename"}
Evaluating == {"eval"} \cup Evaluated

KeepInv ==
    /\ pc \in Checking \cup {"begin"} => ev.cmds = << >>
    /\ pc \in Evaluating /\ ~ev.failed /\ lastEdit < start => Ends(ev.cmds, content, mtime)
    /\ pc \in Evaluated => ~ev.failed
    /\ pc = "rename" /\ lastEdit < start => Ends(tmp.cmds, content, mtime)
    /\ settled # None /\ pc \in Checking \cup {"idle"} =>
          stamp # None /\ Ends(stamp.cmds, settled.content, mtime)
    /\ settled # None /\ pc \in {"idle", "check"} => content = settled.content
    /\ settled # None /\ pc = "step2" => chk.stamp = stamp /\ Behind
    /\ pc = "step2" /\ lastEdit < start =>
          chk.stamp = stamp /\ (stamp # None => Redone(stamp.cmds, chk.next))


-----------------------------------------------------------------------------
(* Lines and files.                                                        *)

\* What NoAppend says of every line a file can have.
LEMMA LinesAre ==
    ASSUME NoAppend, NEW l \in Lines
    PROVE  /\ l.op # "append"
           /\ l.op \in FileOps => l.arg \in Path
           /\ l.op \in WriteOps => l \in GivenLines
  BY DEF NoAppend, Lines, Line, FileOps, WriteOps

\* The text of a line that writes is a text of the tree.
LEMMA TextType ==
    ASSUME NoAppend, NEW l \in Lines, l.op \in WriteOps
    PROVE  TextOf(l) \in Seq(Lines)
  <1>0. l \in GivenLines
    BY LinesAre
  <1>1. Line("text", l.arg, l.text) \in Lines
    BY <1>0, Zenon DEF Lines
  <1>2. << >> \in Seq(Lines) /\ \A x \in Lines : <<x>> \in Seq(Lines)
    OBVIOUS
  <1> QED BY <1>1, <1>2, Zenon DEF TextOf

\* A line that does not append leaves its text.
LEMMA WrittenIs ==
    ASSUME NEW l, NEW co, l.op # "append"
    PROVE  Written(l, co) = TextOf(l)
  BY DEF Written, TextOf

\* The check leaves the text of the line it remembers.
LEMMA RewrittenIs ==
    ASSUME NEW c, NEW co
    PROVE  Written(Rewritten(c), co) = TextOf(c.line) /\ Rewritten(c).arg = c.line.arg
  BY DEF Written, TextOf, Rewritten, Line

\* Writing a file makes no other file writable, and none unwritable.
LEMMA TouchWritable ==
    ASSUME NEW mt \in [Path -> Nat \cup {NotExist}], NEW p \in Path, NEW t \in Nat,
           Writable(mt, p), NEW q \in Path
    PROVE  Writable(Touch(mt, p, t), q) = Writable(mt, q)
  <1>1. Parent[q] \in Dirs \cup {Top} /\ Dirs \subseteq Path /\ Top \notin Path
    BY ConstantsAssumption
  <1>2. Writable(Touch(mt, p, t), q) <=> Writable(mt, q)
    <2>1. CASE Parent[q] = Top
      BY <2>1 DEF Writable
    <2>2. CASE Parent[q] # Top
      <3>1. Parent[q] \in Path /\ Parent[q] # p
        BY <1>1, <2>2 DEF Writable
      <3>2. Touch(mt, p, t)[Parent[q]] = IF Parent[q] = Parent[p] /\ ~Exists(mt, p) THEN t ELSE mt[Parent[q]]
        BY <3>1 DEF Touch
      <3>3. Parent[q] = Parent[p] => Exists(mt, Parent[q])
        BY <2>2 DEF Writable
      <3>4. Exists(Touch(mt, p, t), Parent[q]) <=> Exists(mt, Parent[q])
        BY <3>2, <3>3 DEF Exists, NotExist
      <3> QED BY <3>4 DEF Writable
    <2> QED BY <2>1, <2>2
  <1>3. Writable(Touch(mt, p, t), q) \in BOOLEAN /\ Writable(mt, q) \in BOOLEAN
    BY DEF Writable
  <1> QED BY <1>2, <1>3

\* So a command is checked with the same effect after it.
LEMMA TouchRewriting ==
    ASSUME NEW mt \in [Path -> Nat \cup {NotExist}], NEW p \in Path, NEW t \in Nat,
           Writable(mt, p), NEW q \in Path, NEW c
    PROVE  Rewriting(c, Touch(mt, p, t), q) = Rewriting(c, mt, q)
  BY TouchWritable DEF Rewriting

-----------------------------------------------------------------------------
(* Stored commands.                                                        *)

\* Append on sequences of anything.
LEMMA AppendIs ==
    ASSUME NEW s, s \in Seq(LinesOf(s)), NEW x
    PROVE  /\ Append(s, x) \in Seq(LinesOf(Append(s, x)))
           /\ Len(s) \in Nat /\ DOMAIN s = 1 .. Len(s)
           /\ DOMAIN Append(s, x) = 1 .. Len(s) + 1
           /\ \A i \in 1 .. Len(s) : Append(s, x)[i] = s[i]
           /\ Append(s, x)[Len(s) + 1] = x
  <1> DEFINE S == LinesOf(s)
             T == LinesOf(Append(s, x))
  <1>1. s \in Seq(S \cup {x}) /\ x \in S \cup {x}
    <2>1. s \in Seq(S)
      OBVIOUS
    <2> HIDE DEF S
    <2> QED BY <2>1
  <1> HIDE DEF S, T
  <1>2. Append(s, x) \in Seq(S \cup {x})
    BY <1>1
  <1>3. /\ Len(s) \in Nat /\ DOMAIN s = 1 .. Len(s)
        /\ DOMAIN Append(s, x) = 1 .. Len(s) + 1
        /\ \A i \in 1 .. Len(s) : Append(s, x)[i] = s[i]
        /\ Append(s, x)[Len(s) + 1] = x
    BY <1>1
  <1>4. Append(s, x) \in Seq(T)
    <2>0. PICK r : r = Append(s, x)
      OBVIOUS
    <2>1. PICK n \in Nat : r \in [1 .. n -> S \cup {x}]
      <3>1. r \in UNION {[1 .. n -> S \cup {x}] : n \in Nat}
        BY <1>2, <2>0, SeqDef, Zenon
      <3> QED BY <3>1
    <2>2. \A i \in 1 .. n : r[i] \in T
      BY <2>0, <2>1 DEF T, LinesOf
    <2>3. r \in [1 .. n -> T]
      BY <2>1, <2>2
    <2> QED BY <2>0, <2>1, <2>3, SeqDef
  <1> QED BY <1>3, <1>4 DEF T

\* A command that writes nothing, at the end, leaves what the others leave; one
\* that does leaves its text.
LEMMA EndsAppend ==
    ASSUME NEW cs, cs \in Seq(LinesOf(cs)), NEW c, NEW co, NEW mt, NEW co2,
           \A p \in Path : Rewriting(c, mt, p) => co2[p] = TextOf(c.line),
           \A p \in Path : ~Rewriting(c, mt, p) => co2[p] = co[p],
           Ends(cs, co, mt)
    PROVE  Ends(Append(cs, c), co2, mt)
  <1>1. /\ Len(cs) \in Nat /\ DOMAIN cs = 1 .. Len(cs)
        /\ DOMAIN Append(cs, c) = 1 .. Len(cs) + 1
        /\ \A i \in 1 .. Len(cs) : Append(cs, c)[i] = cs[i]
        /\ Append(cs, c)[Len(cs) + 1] = c
    BY AppendIs
  <1>2. PICK ds : ds = Append(cs, c)
    OBVIOUS
  <1>3. SUFFICES ASSUME NEW p \in Path, NEW i \in DOMAIN ds, Rewriting(ds[i], mt, p),
                        \A j \in DOMAIN ds : j > i => ~Rewriting(ds[j], mt, p)
                 PROVE  co2[p] = TextOf(ds[i].line)
    BY <1>2 DEF Ends
  <1>4. CASE i = Len(cs) + 1
    BY <1>1, <1>2, <1>3, <1>4
  <1>5. CASE i \in 1 .. Len(cs)
    <2>1. ~Rewriting(c, mt, p)
      BY <1>1, <1>2, <1>3, <1>5
    <2>2. \A j \in DOMAIN cs : j > i => ~Rewriting(cs[j], mt, p)
      BY <1>1, <1>2, <1>3
    <2>3. co[p] = TextOf(cs[i].line)
      BY <1>1, <1>2, <1>3, <1>5, <2>2 DEF Ends
    <2> QED BY <1>1, <1>2, <1>5, <2>1, <2>3
  <1> QED BY <1>1, <1>2, <1>3, <1>4, <1>5

\* Nothing changes for commands when the tree changes in other files.
LEMMA EndsSame ==
    ASSUME NEW cs, NEW ds, NEW co, NEW mt, NEW co2, NEW mt2,
           DOMAIN ds = DOMAIN cs,
           \A i \in DOMAIN cs : ds[i].line = cs[i].line,
           \A i \in DOMAIN cs, p \in Path : Rewriting(ds[i], mt2, p) = Rewriting(cs[i], mt, p),
           \A i \in DOMAIN cs, p \in Path : Rewriting(cs[i], mt, p) => co2[p] = co[p],
           Ends(cs, co, mt)
    PROVE  Ends(ds, co2, mt2)
  BY DEF Ends

-----------------------------------------------------------------------------
(* What evaluating a line stores.                                          *)

\* e1 has the rest of the Makefile, the commands and the failure of e.
SameKept(e, e1) ==
    /\ KeptFields \subseteq DOMAIN e1
    /\ e1.prog = e.prog /\ e1.cmds = e.cmds /\ e1.failed = e.failed

\* Looking a variable up leaves them alone.
LEMMA LookupKeeps ==
    ASSUME NEW e, KeptFields \subseteq DOMAIN e, NEW v
    PROVE  SameKept(e, Lookup(e, v))
  BY DEF KeptFields, SameKept, Lookup

\* So does an assignment.
LEMMA AssignKeeps ==
    ASSUME NEW e, KeptFields \subseteq DOMAIN e, NEW v, NEW x
    PROVE  SameKept(e, Assign(e, v, x))
  BY DEF KeptFields, SameKept, Assign

\* So does an observation.
LEMMA ObserveKeeps ==
    ASSUME NEW e, KeptFields \subseteq DOMAIN e, NEW l, NEW x
    PROVE  SameKept(e, Observe(e, l, x))
  BY DEF KeptFields, SameKept, Observe

\* So does the glob cache.
LEMMA GlobKeeps ==
    ASSUME NEW e, KeptFields \subseteq DOMAIN e, NEW mt, NEW g
    PROVE  SameKept(e, Glob(e, mt, g))
  BY DEF KeptFields, SameKept, Glob

\* So does the Makefile cache, which has the file then.
LEMMA ReadMakefileKeeps ==
    ASSUME NEW e, KeptFields \subseteq DOMAIN e, NEW mt, NEW co, NEW f
    PROVE  /\ SameKept(e, ReadMakefile(e, mt, co, f))
           /\ f \in DOMAIN ReadMakefile(e, mt, co, f).mk
  <1>1. CASE f \in DOMAIN e.mk
    BY <1>1 DEF SameKept, ReadMakefile
  <1>2. CASE f \notin DOMAIN e.mk
    BY <1>2 DEF KeptFields, SameKept, ReadMakefile, Set
  <1> QED BY <1>1, <1>2

\* c is remembered for l.
Stores(e, e1, l, c) ==
    /\ KeptFields \subseteq DOMAIN e1
    /\ e1.prog = e.prog /\ e1.failed = e.failed
    /\ e1.cmds = IF l.arg \in IgnoreDirty THEN e.cmds ELSE Append(e.cmds, c)
    /\ c.line = l

\* Store remembers a command.
LEMMA StoreKeeps ==
    ASSUME NEW e, KeptFields \subseteq DOMAIN e, NEW l, NEW c, c.line = l
    PROVE  Stores(e, Store(e, c), l, c)
  BY DEF KeptFields, Stores, Store

\* $(V) and the assignments.
LEMMA EvalVarKeeps ==
    ASSUME NEW e, NEW l, KeptFields \subseteq DOMAIN e, l.op \in VarOps
    PROVE  SameKept(e, EvalVar(l, e))
  <1> DEFINE e1 == Lookup(e, l.arg)
  <1>1. SameKept(e, e1) /\ KeptFields \subseteq DOMAIN e1
    BY LookupKeeps DEF SameKept
  <1>2. CASE l.op = "var"
    <2>1. EvalVar(l, e) = Observe(e1, l, e.val[l.arg])
      BY <1>2 DEF EvalVar
    <2> HIDE DEF e1
    <2> QED BY <1>1, <2>1, ObserveKeeps DEF SameKept
  <1>3. CASE l.op = "default"
    <2>1. EvalVar(l, e) = Assign(e1, l.arg, l.text) \/ EvalVar(l, e) = e1
      BY <1>3 DEF EvalVar
    <2> HIDE DEF e1
    <2> QED BY <1>1, <2>1, AssignKeeps DEF SameKept
  <1>4. CASE l.op = "set"
    <2>1. EvalVar(l, e) = Assign(e, l.arg, l.text)
      BY <1>4 DEF EvalVar
    <2> QED BY <2>1, AssignKeeps
  <1>5. CASE l.op = "export"
    <2>1. EvalVar(l, e) = [e EXCEPT !.exports = Set(@, l.arg, TRUE)]
      BY <1>5 DEF EvalVar
    <2> QED BY <2>1 DEF KeptFields, SameKept
  <1>6. CASE l.op = "unexport"
    <2>1. EvalVar(l, e) = [e EXCEPT !.exports = Set(@, l.arg, FALSE)]
      BY <1>6 DEF EvalVar
    <2> QED BY <2>1 DEF KeptFields, SameKept
  <1> QED BY <1>2, <1>3, <1>4, <1>5, <1>6 DEF VarOps

\* The lines of an included file come before the rest.
Before(lines, prog) == lines \o prog

\* include puts the lines of the file before the rest.
LEMMA EvalIncludeKeeps ==
    ASSUME NEW e, NEW l, NEW mt, NEW co, KeptFields \subseteq DOMAIN e,
           NEW r, r = EvalInclude(l, e, mt, co)
    PROVE  /\ KeptFields \subseteq DOMAIN r
           /\ l.arg \in DOMAIN r.mk /\ r.prog = Before(r.mk[l.arg].data, e.prog)
           /\ r.cmds = e.cmds /\ r.failed = e.failed
  <1> DEFINE g == Glob(e, mt, l.arg)
             m == ReadMakefile(g, mt, co, l.arg)
  <1>1. SameKept(e, g)
    BY GlobKeeps
  <1>2. r = [m EXCEPT !.prog = m.mk[l.arg].data \o @,
                      !.req = IF l.op = "include" THEN @ \cup {l.arg} ELSE @]
    BY DEF EvalInclude
  <1> HIDE DEF g
  <1>3. SameKept(g, m) /\ l.arg \in DOMAIN m.mk
    BY <1>1, ReadMakefileKeeps DEF SameKept
  <1> HIDE DEF m
  <1> QED BY <1>1, <1>2, <1>3 DEF KeptFields, SameKept, Before

\* $(shell) remembers its command, which writes when it is an echo.
LEMMA EvalShellKeeps ==
    ASSUME NEW e, NEW l, NEW mt, NEW co, KeptFields \subseteq DOMAIN e
    PROVE  \E c : /\ Stores(e, EvalShell(l, e, mt, co), l, c)
                  /\ Rewrites(c) <=> l.op = "echo"
  <1> DEFINE root == IF l.op # "find" THEN {} ELSE
                     IF e.root = None THEN {d \in Dirs : Exists(mt, d)} ELSE e.root.dirs
             e0 == IF l.op = "find" THEN [e EXCEPT !.root = [none |-> FALSE, dirs |-> root]]
                                    ELSE e
             e1 == IF l.arg \in root /\ l.arg \notin DOMAIN e0.dirs
                   THEN [e0 EXCEPT !.dirs = Set(@, l.arg, Listing(mt, l.arg))] ELSE e0
             emul == Handles(l, root, mt)
  <1>1. SameKept(e, e0)
    <2> HIDE DEF root
    <2> QED BY DEF KeptFields, SameKept
  <1>2. SameKept(e0, e1)
    <2> HIDE DEF root, e0
    <2> QED BY <1>1 DEF KeptFields, SameKept
  <1>3. \E x : EvalShell(l, e, mt, co)
                 = Observe(Store(e1, IF emul THEN Command("FIND", l, x, {}, {l.arg} \cap root)
                                     ELSE Command("SHELL", l, x, {}, {})), l, x)
    BY Zenon DEF EvalShell
  <1>4. PICK x : EvalShell(l, e, mt, co)
                   = Observe(Store(e1, IF emul THEN Command("FIND", l, x, {}, {l.arg} \cap root)
                                       ELSE Command("SHELL", l, x, {}, {})), l, x)
    BY <1>3
  <1>5. emul => l.op # "echo"
    BY DEF Handles
  <1> HIDE DEF root, e0, e1, emul
  <1> DEFINE c == IF emul THEN Command("FIND", l, x, {}, {l.arg} \cap root)
                  ELSE Command("SHELL", l, x, {}, {})
  <1>6. c.line = l /\ (Rewrites(c) <=> l.op = "echo")
    BY <1>5 DEF Command, Rewrites
  <1>7. EvalShell(l, e, mt, co) = Observe(Store(e1, c), l, x)
    BY <1>4
  <1> HIDE DEF c
  <1>8. Stores(e1, Store(e1, c), l, c)
    BY <1>2, <1>6, StoreKeeps DEF SameKept
  <1>9. SameKept(Store(e1, c), EvalShell(l, e, mt, co))
    BY <1>7, <1>8, ObserveKeeps DEF Stores
  <1>10. Stores(e, EvalShell(l, e, mt, co), l, c)
    BY <1>1, <1>2, <1>8, <1>9 DEF SameKept, Stores
  <1> QED BY <1>6, <1>10

\* $(file <f) remembers a command that does not write.
LEMMA FileReadKeeps ==
    ASSUME NEW e, NEW l, NEW mt, NEW co, KeptFields \subseteq DOMAIN e
    PROVE  \E c : Stores(e, FileRead(l, e, mt, co), l, c) /\ ~Rewrites(c)
  <1> DEFINE c == Command(IF Exists(mt, l.arg) THEN "READ" ELSE "READ_MISSING", l, << >>, {}, {})
  <1>1. c.line = l /\ ~Rewrites(c)
    BY DEF Command, Rewrites
  <1>2. FileRead(l, e, mt, co) = Observe(Store(e, c), l, co[l.arg])
    BY DEF FileRead
  <1> HIDE DEF c
  <1>3. Stores(e, Store(e, c), l, c)
    BY <1>1, StoreKeeps
  <1>4. SameKept(Store(e, c), FileRead(l, e, mt, co))
    BY <1>2, <1>3, ObserveKeeps DEF Stores
  <1>5. Stores(e, FileRead(l, e, mt, co), l, c)
    BY <1>3, <1>4 DEF SameKept, Stores
  <1> QED BY <1>1, <1>5

\* $(file >f) remembers one that does, or fails.
LEMMA FileWriteKeeps ==
    ASSUME NEW e, NEW l, NEW mt, KeptFields \subseteq DOMAIN e
    PROVE  \/ /\ KeptFields \subseteq DOMAIN FileWrite(l, e, mt)
              /\ FileWrite(l, e, mt).failed
              /\ FileWrite(l, e, mt).prog = e.prog /\ FileWrite(l, e, mt).cmds = e.cmds
           \/ /\ Writable(mt, l.arg)
              /\ \E c : Stores(e, FileWrite(l, e, mt), l, c) /\ Rewrites(c)
  <1> DEFINE c == Command("WRITE", l, << >>, {}, {})
  <1>1. c.line = l /\ Rewrites(c)
    BY DEF Command, Rewrites
  <1>2. \/ FileWrite(l, e, mt) = [e EXCEPT !.failed = TRUE]
        \/ Writable(mt, l.arg) /\ FileWrite(l, e, mt) = Store(e, c)
    BY DEF FileWrite
  <1> HIDE DEF c
  <1>3. CASE FileWrite(l, e, mt) = [e EXCEPT !.failed = TRUE]
    BY <1>3 DEF KeptFields
  <1>4. CASE Writable(mt, l.arg) /\ FileWrite(l, e, mt) = Store(e, c)
    BY <1>1, <1>4, StoreKeeps
  <1> QED BY <1>2, <1>3, <1>4

\* A line that does not append fails, or leaves commands and failure alone, or
\* is remembered with a command that writes if and only if the line does.
LEMMA EvalLineKeeps ==
    ASSUME NEW st, NEW l, KeptFields \subseteq DOMAIN st.ev, l.op # "append"
    PROVE  LET r == EvalLine(l, st).ev IN
           /\ KeptFields \subseteq DOMAIN r
           /\ \/ r.prog = st.ev.prog
              \/ l.op \in FileOps /\ l.arg \in DOMAIN r.mk /\ r.prog = Before(r.mk[l.arg].data, st.ev.prog)
           /\ \/ r.failed /\ r.cmds = st.ev.cmds
              \/ l.op \notin WriteOps /\ r.cmds = st.ev.cmds /\ r.failed = st.ev.failed
              \/ \E c : /\ Stores(st.ev, r, l, c)
                        /\ Rewrites(c) <=> l.op \in WriteOps
  <1> DEFINE r == EvalLine(l, st).ev
             Goal == /\ KeptFields \subseteq DOMAIN r
                     /\ \/ r.prog = st.ev.prog
                        \/ l.op \in FileOps /\ l.arg \in DOMAIN r.mk /\ r.prog = Before(r.mk[l.arg].data, st.ev.prog)
                     /\ \/ r.failed /\ r.cmds = st.ev.cmds
                        \/ l.op \notin WriteOps /\ r.cmds = st.ev.cmds /\ r.failed = st.ev.failed
                        \/ \E c : /\ Stores(st.ev, r, l, c)
                                  /\ Rewrites(c) <=> l.op \in WriteOps
  <1> SUFFICES Goal
    OBVIOUS
  <1>1. CASE l.op \in VarOps
    <2>1. r = EvalVar(l, st.ev) /\ l.op \notin WriteOps
      BY <1>1 DEF EvalLine, VarOps, ShellOps, WriteOps
    <2> HIDE DEF r
    <2>2. SameKept(st.ev, r)
      BY <1>1, <2>1, EvalVarKeeps
    <2> QED BY <2>1, <2>2 DEF SameKept
  <1>2. CASE l.op = "glob"
    <2> DEFINE e1 == Glob(st.ev, st.mtime, l.arg)
    <2>1. r = Observe(e1, l, e1.globs[l.arg]) /\ l.op \notin WriteOps
      BY <1>2 DEF EvalLine, VarOps, ShellOps, WriteOps, EvalGlob
    <2>2. SameKept(st.ev, e1)
      BY GlobKeeps
    <2> HIDE DEF e1, r
    <2>3. SameKept(e1, r)
      BY <2>1, <2>2, ObserveKeeps DEF SameKept
    <2> QED BY <2>1, <2>2, <2>3 DEF SameKept
  <1>3. CASE l.op \in {"include", "sinclude"}
    <2>1. /\ r = EvalInclude(l, st.ev, st.mtime, st.content)
          /\ l.op \notin WriteOps /\ l.op \in FileOps
      BY <1>3 DEF EvalLine, VarOps, ShellOps, WriteOps, FileOps
    <2> HIDE DEF r
    <2>2. /\ KeptFields \subseteq DOMAIN r
          /\ l.arg \in DOMAIN r.mk /\ r.prog = Before(r.mk[l.arg].data, st.ev.prog)
          /\ r.cmds = st.ev.cmds /\ r.failed = st.ev.failed
      BY <2>1, EvalIncludeKeeps
    <2> QED BY <2>1, <2>2
  <1>4. CASE l.op \in ShellOps
    <2>1. /\ r = EvalShell(l, st.ev, st.mtime, st.content)
          /\ l.op \in WriteOps <=> l.op = "echo"
      BY <1>4 DEF EvalLine, VarOps, ShellOps, WriteOps
    <2> HIDE DEF r
    <2>2. PICK c : Stores(st.ev, r, l, c) /\ (Rewrites(c) <=> l.op = "echo")
      BY <2>1, EvalShellKeeps
    <2> QED BY <2>1, <2>2 DEF Stores
  <1>5. CASE l.op = "read"
    <2>1. r = FileRead(l, st.ev, st.mtime, st.content) /\ l.op \notin WriteOps
      BY <1>5 DEF EvalLine, VarOps, ShellOps, WriteOps
    <2> HIDE DEF r
    <2>2. PICK c : Stores(st.ev, r, l, c) /\ ~Rewrites(c)
      BY <2>1, FileReadKeeps
    <2> QED BY <2>1, <2>2 DEF Stores
  <1>6. CASE l.op = "write"
    <2>1. r = FileWrite(l, st.ev, st.mtime) /\ l.op \in WriteOps
      BY <1>6 DEF EvalLine, VarOps, ShellOps, WriteOps
    <2> HIDE DEF r
    <2>2. CASE /\ KeptFields \subseteq DOMAIN r /\ r.failed
               /\ r.prog = st.ev.prog /\ r.cmds = st.ev.cmds
      BY <2>2
    <2>3. ASSUME NEW c, Stores(st.ev, r, l, c), Rewrites(c)
          PROVE  Goal
      BY <2>1, <2>3 DEF Stores
    <2> QED BY <2>1, <2>2, <2>3, FileWriteKeeps
  <1>7. CASE ~ (l.op \in VarOps \cup {"glob", "include", "sinclude", "read", "write", "append"}
                             \cup ShellOps)
    <2>1. /\ ~(l.op \in VarOps) /\ ~(l.op = "glob") /\ ~(l.op \in {"include", "sinclude"})
          /\ ~(l.op \in ShellOps) /\ ~(l.op = "read") /\ ~(l.op \in {"write", "append"})
      BY <1>7
    <2>2. EvalLine(l, st).ev = st.ev
      BY <2>1, Zenon DEF EvalLine
    <2>3. l.op \notin WriteOps
      BY <1>7 DEF WriteOps, ShellOps
    <2> QED BY <2>2, <2>3
  <1> QED BY Zenon, <1>1, <1>2, <1>3, <1>4, <1>5, <1>6, <1>7

\* Only include reads a Makefile.
LEMMA EvalLineSameMk ==
    ASSUME NEW st, NEW l, EvalFields \subseteq DOMAIN st.ev, l.op \notin FileOps
    PROVE  EvalLine(l, st).ev.mk = st.ev.mk
  <1>1. CASE l.op \in VarOps
    BY <1>1, EvalVarMk DEF EvalLine, VarOps, ShellOps, SameMk
  <1>2. CASE l.op = "glob"
    BY <1>2, EvalGlobMk DEF EvalLine, VarOps, ShellOps, SameMk
  <1>3. CASE l.op \in ShellOps
    BY <1>3, EvalShellMk DEF EvalLine, VarOps, ShellOps, SameMk
  <1>4. CASE l.op = "read"
    BY <1>4, FileReadMk DEF EvalLine, VarOps, ShellOps, SameMk
  <1>5. CASE ~(l.op \in VarOps \cup {"glob", "read"} \cup ShellOps)
    <2>1. /\ ~(l.op \in VarOps) /\ ~(l.op = "glob") /\ ~(l.op \in {"include", "sinclude"})
          /\ ~(l.op \in ShellOps) /\ ~(l.op = "read") /\ ~(l.op \in {"write", "append"})
      BY <1>5 DEF FileOps, WriteOps
    <2>2. EvalLine(l, st).ev = st.ev
      BY <2>1, Zenon DEF EvalLine
    <2> QED BY <2>2
  <1> QED BY Zenon, <1>1, <1>2, <1>3, <1>4, <1>5

\* An Eval step: the line l is taken from the rest of the Makefile.
LEMMA EvalStepKeeps ==
    ASSUME NoAppend, LinesInv, Eval, NEW l, l = Head(ev.prog)
    PROVE  /\ l \in Lines
           /\ KeptFields \subseteq DOMAIN ev'
           /\ \/ ev'.prog = Tail(ev.prog)
              \/ l.op \in FileOps /\ l.arg \in DOMAIN ev'.mk /\ ev'.prog = Before(ev'.mk[l.arg].data, Tail(ev.prog))
           /\ \/ ev'.failed /\ ev'.cmds = ev.cmds
              \/ l.op \notin WriteOps /\ ev'.cmds = ev.cmds /\ ev'.failed = ev.failed
              \/ \E c : /\ c.line = l /\ (Rewrites(c) <=> l.op \in WriteOps)
                        /\ ev'.failed = ev.failed
                        /\ ev'.cmds = IF l.arg \in IgnoreDirty THEN ev.cmds ELSE Append(ev.cmds, c)
           /\ \/ ev'.mk = ev.mk
              \/ ev'.mk = Set(ev.mk, l.arg, Snapshot(mtime, content, l.arg))
           /\ l.op \notin FileOps => ev'.mk = ev.mk
           /\ IF Writes(l, mtime)
              THEN /\ mtime' = Touch(mtime, l.arg, clock + 1)
                   /\ content' = [content EXCEPT ![l.arg] = TextOf(l)]
              ELSE mtime' = mtime /\ content' = content
  <1>1. PICK st : st = [ev |-> ev, mtime |-> mtime, content |-> content, now |-> clock + 1]
    OBVIOUS
  <1>2. PICK s : s = Pop(st)
    OBVIOUS
  <1>3. /\ s.mtime = mtime /\ s.content = content /\ s.now = clock + 1
        /\ s.ev = [ev EXCEPT !.prog = Tail(@)]
    BY <1>1, <1>2 DEF Pop
  <1>4. /\ KeptFields \subseteq DOMAIN s.ev /\ s.ev.mk = ev.mk /\ s.ev.prog = Tail(ev.prog)
        /\ s.ev.cmds = ev.cmds /\ s.ev.failed = ev.failed
    BY <1>3 DEF KeptFields, LinesInv
  <1>5. PICK r : r = EvalLine(l, s)
    OBVIOUS
  <1>6. EvalNext(st) = r
    <2>1. st.ev = ev
      BY <1>1
    <2> QED BY <1>2, <1>5, <2>1 DEF EvalNext, Eval
  <1>7. mtime' = r.mtime /\ content' = r.content /\ ev' = r.ev
    BY <1>1, <1>6 DEF Eval
  <1>8. l \in Lines /\ l.op # "append"
    <2>1. l \in Lines
      BY DEF LinesInv, Eval
    <2> QED BY <2>1, LinesAre
  <1>9. /\ KeptFields \subseteq DOMAIN ev'
        /\ \/ ev'.prog = Tail(ev.prog)
           \/ l.op \in FileOps /\ l.arg \in DOMAIN ev'.mk /\ ev'.prog = Before(ev'.mk[l.arg].data, Tail(ev.prog))
        /\ \/ ev'.failed /\ ev'.cmds = ev.cmds
           \/ l.op \notin WriteOps /\ ev'.cmds = ev.cmds /\ ev'.failed = ev.failed
           \/ \E c : Stores(s.ev, ev', l, c) /\ (Rewrites(c) <=> l.op \in WriteOps)
    BY <1>4, <1>5, <1>7, <1>8, EvalLineKeeps
  <1>10. /\ ev'.mk = ev.mk \/ ev'.mk = Set(ev.mk, l.arg, Snapshot(mtime, content, l.arg))
         /\ l.op \notin FileOps => ev'.mk = ev.mk
    <2>1. EvalFields \subseteq DOMAIN s.ev
      BY <1>4 DEF EvalFields, KeptFields
    <2>2. ev'.mk = ev.mk \/ ev'.mk = Set(ev.mk, l.arg, Snapshot(mtime, content, l.arg))
      <3>1. r.ev.mk = s.ev.mk \/ ReadsOne(s.ev, r.ev, l, s.mtime, s.content)
        BY <1>5, <2>1, EvalLineMk
      <3> QED BY <1>3, <1>4, <1>7, <3>1 DEF ReadsOne
    <2>3. l.op \notin FileOps => ev'.mk = ev.mk
      <3> SUFFICES ASSUME l.op \notin FileOps
                   PROVE  ev'.mk = ev.mk
        OBVIOUS
      <3> QED BY <1>4, <1>5, <1>7, <2>1, EvalLineSameMk
    <2> QED BY <2>2, <2>3
  <1>11. r.mtime = IF Writes(l, mtime) THEN Touch(mtime, l.arg, clock + 1) ELSE mtime
    BY <1>3, <1>5 DEF EvalLine
  <1>12. r.content = IF Writes(l, mtime) THEN [content EXCEPT ![l.arg] = Written(l, content)]
                     ELSE content
    BY <1>3, <1>5 DEF EvalLine
  <1>13. Written(l, content) = TextOf(l)
    BY <1>8, WrittenIs
  <1> QED BY <1>4, <1>7, <1>8, <1>9, <1>10, <1>11, <1>12, <1>13 DEF Stores

-----------------------------------------------------------------------------
(* Every file, cache and stamp consists of lines.                          *)

\* What the evaluator of a new process holds.
LEMMA NewEvaluatorKeeps ==
    ASSUME NEW e, NEW bin
    PROVE  /\ KeptFields \subseteq DOMAIN NewEvaluator(e, bin)
           /\ NewEvaluator(e, bin).prog = << >> /\ NewEvaluator(e, bin).cmds = << >>
           /\ NewEvaluator(e, bin).mk = [p \in {KatiBinary} |-> bin]
  BY DEF KeptFields, NewEvaluator

\* The empty log.
LEMMA LoggedNone == Logged(<< >>)
  BY DEF Logged

\* A command of a line is added to the log.
LEMMA LoggedAppend ==
    ASSUME NEW cs, Logged(cs), NEW c, c.line \in Lines, c.line.arg \notin IgnoreDirty,
           Rewrites(c) => c.line.op \in WriteOps
    PROVE  Logged(Append(cs, c))
  <1>1. /\ Append(cs, c) \in Seq(LinesOf(Append(cs, c)))
        /\ Len(cs) \in Nat /\ DOMAIN cs = 1 .. Len(cs)
        /\ DOMAIN Append(cs, c) = 1 .. Len(cs) + 1
        /\ \A i \in 1 .. Len(cs) : Append(cs, c)[i] = cs[i]
        /\ Append(cs, c)[Len(cs) + 1] = c
    BY AppendIs DEF Logged
  <1>2. PICK ds : ds = Append(cs, c)
    OBVIOUS
  <1>3. ASSUME NEW i \in DOMAIN ds
        PROVE  /\ ds[i].line \in Lines /\ ds[i].line.arg \notin IgnoreDirty
               /\ Rewrites(ds[i]) => ds[i].line.op \in WriteOps
    <2>1. CASE i = Len(cs) + 1
      BY <1>1, <1>2, <2>1
    <2>2. CASE i \in 1 .. Len(cs)
      BY <1>1, <1>2, <2>2 DEF Logged
    <2> QED BY <1>1, <1>2, <2>1, <2>2
  <1> QED BY <1>1, <1>2, <1>3 DEF Logged

\* The evaluator's part of LinesInv.
EvLines ==
    /\ KeptFields \subseteq DOMAIN ev /\ ev.prog \in Seq(Lines)
    /\ \A f \in DOMAIN ev.mk : ev.mk[f].data \in Seq(Lines)
    /\ Logged(ev.cmds)

\* Every step keeps it.
LEMMA EvLinesStep ==
    ASSUME NoAppend, TypeOK, LinesInv, [Next]_vars
    PROVE  EvLines'
  <1>0. EvLines /\ content \in [Path -> Seq(Lines)]
    BY DEF LinesInv, EvLines
  <1>1. CASE ev' = ev
    BY <1>0, <1>1 DEF EvLines
  <1>2. ASSUME NEW e, NEW bin, bin.data \in Seq(Lines), ev' = NewEvaluator(e, bin)
        PROVE  EvLines'
    <2>1. /\ KeptFields \subseteq DOMAIN ev' /\ ev'.prog = << >> /\ ev'.cmds = << >>
          /\ ev'.mk = [p \in {KatiBinary} |-> bin]
      BY <1>2 DEF NewEvaluator, KeptFields
    <2>2. << >> \in Seq(Lines)
      OBVIOUS
    <2> QED BY <1>2, <2>1, <2>2, LoggedNone DEF EvLines
  <1>3. CASE Begin
    <2> DEFINE m == ReadMakefile(ev, mtime, content, Makefile)
    <2>1. ev' = [m EXCEPT !.prog = m.mk[Makefile].data]
      BY <1>3 DEF Begin, BeginEval
    <2>2. SameKept(ev, m)
      BY <1>0, ReadMakefileKeeps DEF EvLines
    <2>3. \/ m.mk = ev.mk /\ Makefile \in DOMAIN ev.mk
          \/ m.mk = Set(ev.mk, Makefile, Snapshot(mtime, content, Makefile))
      BY <1>0 DEF ReadMakefile, EvLines, KeptFields
    <2> HIDE DEF m
    <2>4. Snapshot(mtime, content, Makefile).data \in Seq(Lines)
      BY <1>0, ConstantsAssumption DEF Snapshot
    <2>5. /\ Makefile \in DOMAIN m.mk
          /\ \A f \in DOMAIN m.mk : m.mk[f].data \in Seq(Lines)
      BY <1>0, <2>3, <2>4 DEF EvLines, Set
    <2>6. ev'.prog = m.mk[Makefile].data /\ ev'.mk = m.mk /\ ev'.cmds = m.cmds
          /\ KeptFields \subseteq DOMAIN ev'
      BY <2>1, <2>2 DEF SameKept, KeptFields
    <2> QED BY <1>0, <2>2, <2>5, <2>6 DEF EvLines, SameKept
  <1>4. CASE SetEnv
    BY <1>0, <1>4 DEF SetEnv, EvLines, KeptFields
  <1>5. CASE Eval
    <2>1. PICK l : l = Head(ev.prog)
      OBVIOUS
    <2> DEFINE Logs == \/ ev'.failed /\ ev'.cmds = ev.cmds
                       \/ l.op \notin WriteOps /\ ev'.cmds = ev.cmds /\ ev'.failed = ev.failed
                       \/ \E c : /\ c.line = l /\ (Rewrites(c) <=> l.op \in WriteOps)
                                 /\ ev'.failed = ev.failed
                                 /\ ev'.cmds = IF l.arg \in IgnoreDirty THEN ev.cmds ELSE Append(ev.cmds, c)
    <2>7. /\ l \in Lines
          /\ KeptFields \subseteq DOMAIN ev'
          /\ \/ ev'.prog = Tail(ev.prog)
             \/ l.op \in FileOps /\ l.arg \in DOMAIN ev'.mk /\ ev'.prog = Before(ev'.mk[l.arg].data, Tail(ev.prog))
          /\ Logs
          /\ \/ ev'.mk = ev.mk
             \/ ev'.mk = Set(ev.mk, l.arg, Snapshot(mtime, content, l.arg))
          /\ l.op \notin FileOps => ev'.mk = ev.mk
      BY <1>5, <2>1, EvalStepKeeps
    <2>8. \/ ev'.cmds = ev.cmds
          \/ \E c : /\ c.line = l /\ (Rewrites(c) <=> l.op \in WriteOps)
                    /\ l.arg \notin IgnoreDirty /\ ev'.cmds = Append(ev.cmds, c)
      BY <2>7, Zenon
    <2> HIDE DEF Logs
    <2>2. /\ l \in Lines
          /\ KeptFields \subseteq DOMAIN ev'
          /\ \/ ev'.prog = Tail(ev.prog)
             \/ l.op \in FileOps /\ l.arg \in DOMAIN ev'.mk /\ ev'.prog = Before(ev'.mk[l.arg].data, Tail(ev.prog))
          /\ \/ ev'.cmds = ev.cmds
             \/ \E c : /\ c.line = l /\ (Rewrites(c) <=> l.op \in WriteOps)
                       /\ l.arg \notin IgnoreDirty /\ ev'.cmds = Append(ev.cmds, c)
          /\ \/ ev'.mk = ev.mk
             \/ ev'.mk = Set(ev.mk, l.arg, Snapshot(mtime, content, l.arg))
          /\ l.op \notin FileOps => ev'.mk = ev.mk
      BY <2>7, <2>8, Zenon
    <2>3. l.op \in FileOps => l.arg \in Path
      BY <2>2, LinesAre
    <2>4. \A f \in DOMAIN ev'.mk : ev'.mk[f].data \in Seq(Lines)
      <3>1. CASE ev'.mk = ev.mk
        BY <1>0, <3>1 DEF EvLines
      <3>2. CASE l.op \in FileOps /\ ev'.mk = Set(ev.mk, l.arg, Snapshot(mtime, content, l.arg))
        <4>1. Snapshot(mtime, content, l.arg).data \in Seq(Lines)
          BY <1>0, <2>3, <3>2 DEF Snapshot
        <4> QED BY <1>0, <3>2, <4>1 DEF EvLines, Set
      <3> QED BY <2>2, <3>1, <3>2
    <2>5. ev'.prog \in Seq(Lines)
      <3>1. Tail(ev.prog) \in Seq(Lines)
        BY <1>0, <1>5 DEF EvLines, Eval
      <3>2. CASE l.op \in FileOps /\ l.arg \in DOMAIN ev'.mk /\ ev'.prog = Before(ev'.mk[l.arg].data, Tail(ev.prog))
        <4>1. ev'.mk[l.arg].data \in Seq(Lines)
          BY <2>4, <3>2
        <4> QED BY <3>1, <3>2, <4>1 DEF Before
      <3> QED BY <2>2, <3>1, <3>2
    <2>6. Logged(ev'.cmds)
      <3>1. CASE ev'.cmds = ev.cmds
        BY <1>0, <3>1 DEF EvLines
      <3>2. ASSUME NEW c, c.line = l, Rewrites(c) <=> l.op \in WriteOps,
                   l.arg \notin IgnoreDirty, ev'.cmds = Append(ev.cmds, c)
            PROVE  Logged(ev'.cmds)
        BY <1>0, <2>2, <3>2, LoggedAppend DEF EvLines
      <3> QED BY <2>2, <3>1, <3>2
    <2> QED BY <2>2, <2>4, <2>5, <2>6 DEF EvLines
  <1>6. \/ ev' = ev \/ Begin \/ Eval \/ SetEnv
        \/ \E e, bin : bin.data \in Seq(Lines) /\ ev' = NewEvaluator(e, bin)
    <2>1. (\E o : Exit(o)) =>
             \E e, bin : bin.data \in Seq(Lines) /\ ev' = NewEvaluator(e, bin)
      <3>1. [exists |-> FALSE, data |-> << >>].data \in Seq(Lines)
        OBVIOUS
      <3> QED BY <3>1, Zenon DEF Exit
    <2>2. CASE Check
      <3>1. ev' = ev \/ \E o : Exit(o)
        BY <2>2 DEF Check, CheckStep1, CheckGlob, CheckCommand, CheckCommandError, CheckFinish,
                    Regenerate
      <3> QED BY <2>1, <3>1
    <2>3. CASE Evaluate
      <3>1. Begin \/ Eval \/ SetEnv \/ ev' = ev \/ \E o : Exit(o)
        BY <2>3 DEF Evaluate, EvalError, MakeMakefiles
      <3> QED BY <2>1, <3>1
    <2>4. CASE Generate
      <3>1. ev' = ev \/ \E o : Exit(o)
        BY <2>4 DEF Generate, UnlinkStamp, OpenNinja, WriteNinja, OpenScript,
                    WriteScript, OpenTmp, WriteTmp, RenameStamp, Goto
      <3> QED BY <2>1, <3>1
    <2>5. CASE Start
      <3>1. PICK e : ev' = NewEvaluator(e, Snapshot(mtime, content, KatiBinary))
        BY <2>5, Zenon DEF Start
      <3>2. Snapshot(mtime, content, KatiBinary).data \in Seq(Lines)
        BY <1>0, ConstantsAssumption DEF Snapshot
      <3> QED BY <3>1, <3>2, Zenon
    <2>6. CASE Kill
      <3>1. \E o : Exit(o)
        BY <2>6 DEF Kill
      <3> QED BY <2>1, <3>1
    <2>7. CASE EditFile \/ RemoveFile \/ RemoveOutput
      BY <2>7 DEF EditFile, RemoveFile, RemoveOutput, AnEdit
    <2>8. CASE UNCHANGED vars
      BY <2>8 DEF vars
    <2> QED BY <2>2, <2>3, <2>4, <2>5, <2>6, <2>7, <2>8 DEF Next, Kati, User
  <1> QED BY <1>1, <1>2, <1>3, <1>4, <1>5, <1>6

\* A CheckCommand step: command c is looked at, and its file written again.
LEMMA CheckCommandStep ==
    ASSUME NoAppend, LinesInv, CheckCommand
    PROVE  /\ pc = "step2" /\ chk.stamp # None /\ Logged(chk.stamp.cmds)
           /\ chk.next \in DOMAIN chk.stamp.cmds
           /\ chk.next \in Nat /\ chk'.next = chk.next + 1 /\ chk'.stamp = chk.stamp
           /\ ChkFields \subseteq DOMAIN chk'
           /\ LET c == chk.stamp.cmds[chk.next] IN
              IF Rewrites(c) /\ Writable(mtime, c.line.arg)
              THEN /\ mtime' = Touch(mtime, c.line.arg, clock + 1)
                   /\ content' = [content EXCEPT ![c.line.arg] = TextOf(c.line)]
                   /\ c.line \in Lines /\ c.line.op \in WriteOps /\ c.line.arg \in Path
              ELSE mtime' = mtime /\ content' = content
  <1>1. /\ pc = "step2" /\ chk.next <= Len(LoadedCommands)
        /\ ChkFields \subseteq DOMAIN chk /\ chk.next \in Nat \ {0}
        /\ chk.stamp # None => Logged(chk.stamp.cmds)
    BY DEF CheckCommand, LinesInv
  <1>2. chk.next > 0
    <2>1. chk.next \in Nat \ {0}
      BY <1>1 DEF LinesInv
    <2> QED BY <2>1
  <1>3. chk.stamp # None
    <2> SUFFICES ASSUME chk.stamp = None
                 PROVE  FALSE
      OBVIOUS
    <2>1. LoadedCommands = << >>
      BY DEF LoadedCommands
    <2> QED BY <1>1, <1>2, <2>1
  <1>4. PICK cs : cs = chk.stamp.cmds
    OBVIOUS
  <1>5. LoadedCommands = cs /\ Logged(cs) /\ chk.next \in DOMAIN cs
    <2>1. LoadedCommands = cs /\ Logged(cs)
      BY <1>1, <1>3, <1>4 DEF LoadedCommands
    <2>2. Len(cs) \in Nat /\ DOMAIN cs = 1 .. Len(cs)
      BY <2>1 DEF Logged
    <2> QED BY <1>1, <1>2, <2>1, <2>2
  <1>6. PICK c : c = cs[chk.next]
    OBVIOUS
  <1>7. /\ \E d : chk' = [chk EXCEPT !.needs = @ \/ d, !.next = @ + 1]
        /\ IF Rewrites(c) /\ Writable(mtime, Rewritten(c).arg)
           THEN /\ mtime' = Touch(mtime, Rewritten(c).arg, clock + 1)
                /\ content' = [content EXCEPT ![Rewritten(c).arg] = Written(Rewritten(c), content)]
           ELSE mtime' = mtime /\ content' = content
    BY <1>5, <1>6, Zenon DEF CheckCommand, world
  <1>8. chk'.next = chk.next + 1 /\ chk'.stamp = chk.stamp /\ ChkFields \subseteq DOMAIN chk'
    BY <1>1, <1>7 DEF ChkFields
  <1>9. Written(Rewritten(c), content) = TextOf(c.line) /\ Rewritten(c).arg = c.line.arg
    BY RewrittenIs
  <1>10. Rewrites(c) => c.line \in Lines /\ c.line.op \in WriteOps
    BY <1>5, <1>6 DEF Logged
  <1>11. Rewrites(c) => c.line.arg \in Path
    BY <1>10, LinesAre DEF FileOps
  <1> QED BY <1>1, <1>3, <1>4, <1>5, <1>6, <1>7, <1>8, <1>9, <1>10, <1>11

\* The files' part of LinesInv.
LEMMA ContentStep ==
    ASSUME NoAppend, TypeOK, LinesInv, [Next]_vars
    PROVE  content' \in [Path -> Seq(Lines)]
  <1>0. content \in [Path -> Seq(Lines)]
    BY DEF LinesInv
  <1>1. ASSUME NEW p, NEW x \in Seq(Lines), content' = [content EXCEPT ![p] = x]
        PROVE  content' \in [Path -> Seq(Lines)]
    BY <1>0, <1>1
  <1>2. CASE content' = content
    BY <1>0, <1>2
  <1>3. CASE CheckCommand
    <2>1. PICK c : IF Rewrites(c) /\ Writable(mtime, c.line.arg)
                   THEN /\ content' = [content EXCEPT ![c.line.arg] = TextOf(c.line)]
                        /\ c.line \in Lines /\ c.line.op \in WriteOps
                   ELSE content' = content
      BY <1>3, CheckCommandStep
    <2>2. CASE c.line \in Lines /\ c.line.op \in WriteOps
      BY <1>1, <1>2, <2>1, <2>2, TextType
    <2> QED BY <1>2, <2>1, <2>2
  <1>4. CASE Eval
    <2>1. PICK l : l = Head(ev.prog)
      OBVIOUS
    <2>2. /\ l \in Lines
          /\ IF Writes(l, mtime) THEN content' = [content EXCEPT ![l.arg] = TextOf(l)]
             ELSE content' = content
      BY <1>4, <2>1, EvalStepKeeps
    <2>3. Writes(l, mtime) => TextOf(l) \in Seq(Lines)
      BY <2>2, TextType DEF Writes
    <2> QED BY <1>1, <1>2, <2>2, <2>3
  <1>5. CASE EditFile
    <2>1. PICK p \in Path : \E c \in Edits[p] : content' = [content EXCEPT ![p] = c]
      BY <1>5 DEF EditFile
    <2>2. PICK c \in Edits[p] : content' = [content EXCEPT ![p] = c]
      BY <2>1
    <2>3. c \in Seq(GivenLines)
      BY DEF NoAppend
    <2>4. c \in Seq(Lines)
      BY <2>3 DEF Lines
    <2> QED BY <1>1, <2>2, <2>4
  <1>6. CASE RemoveFile
    <2>1. PICK p : content' = [content EXCEPT ![p] = << >>]
      BY <1>6 DEF RemoveFile
    <2>2. << >> \in Seq(Lines)
      OBVIOUS
    <2> QED BY <1>1, <2>1, <2>2
  <1>7. UNCHANGED world \/ CheckCommand \/ Eval \/ EditFile \/ RemoveFile
    <2>1. CASE Check
      BY <2>1 DEF Check, CheckStep1, CheckGlob, CheckCommandError, CheckFinish, world
    <2>2. CASE Evaluate
      BY <2>2 DEF Evaluate, Begin, EvalError, SetEnv, MakeMakefiles, world
    <2>3. CASE Generate
      BY <2>3 DEF Generate, UnlinkStamp, OpenNinja, WriteNinja, OpenScript,
                  WriteScript, OpenTmp, WriteTmp, RenameStamp, Goto, world
    <2>4. CASE User \/ Kill
      BY <2>4 DEF User, Kill, Start, RemoveOutput, world
    <2>5. CASE UNCHANGED vars
      BY <2>5 DEF vars, world
    <2> QED BY <2>1, <2>2, <2>3, <2>4, <2>5 DEF Next, Kati
  <1> QED BY <1>2, <1>3, <1>4, <1>5, <1>6, <1>7 DEF world

\* What is written to the stamp are the commands of the evaluator.
LEMMA StampedIs ==
    ASSUME NEW cs, Logged(cs), NEW ds, ds = [i \in DOMAIN cs |-> Stamped(cs[i])]
    PROVE  /\ Logged(ds) /\ DOMAIN ds = DOMAIN cs
           /\ \A i \in DOMAIN cs : /\ ds[i].line = cs[i].line
                                   /\ Rewrites(ds[i]) = Rewrites(cs[i])
  <1>1. PICK n \in Nat : DOMAIN cs = 1 .. n
    BY DEF Logged
  <1>2. /\ DOMAIN ds = DOMAIN cs
        /\ \A i \in DOMAIN cs : ds[i].line = cs[i].line /\ Rewrites(ds[i]) = Rewrites(cs[i])
    BY DEF Stamped, Rewrites
  <1>3. ds \in [1 .. n -> LinesOf(ds)]
    BY <1>1 DEF LinesOf
  <1>4. ds \in Seq(LinesOf(ds))
    <2>1. ds \in UNION {[1 .. k -> LinesOf(ds)] : k \in Nat}
      BY <1>3
    <2> QED BY <2>1, SeqDef, Zenon
  <1> QED BY <1>2, <1>4 DEF Logged

\* How a step can lead to the place before the rename.
LEMMA RenameFrom ==
    ASSUME [Next]_vars, pc' = "rename"
    PROVE  WriteTmp \/ (pc = "rename" /\ UNCHANGED <<tmp, start, ev>>)
  <1>1. CASE Check
    BY <1>1 DEF Check, CheckStep1, CheckGlob, CheckCommand, CheckCommandError,
                CheckFinish, Regenerate, Exit
  <1>2. CASE Evaluate
    BY <1>2 DEF Evaluate, Begin, Eval, EvalError, SetEnv, MakeMakefiles, Exit
  <1>3. CASE Generate
    BY <1>3 DEF Generate, UnlinkStamp, OpenNinja, WriteNinja, OpenScript,
                WriteScript, OpenTmp, RenameStamp, Goto, Exit
  <1>4. CASE User \/ Kill
    BY <1>4 DEF User, Kill, Start, EditFile, RemoveFile, RemoveOutput, AnEdit, Exit, disk, run
  <1>5. CASE UNCHANGED vars
    BY <1>5 DEF vars, disk, run
  <1> QED BY <1>1, <1>2, <1>3, <1>4, <1>5 DEF Next, Kati

\* How a step can lead into, or stay in, the second step of the check.
LEMMA Step2From ==
    ASSUME [Next]_vars, pc' = "step2"
    PROVE  \/ CheckStep1 \/ CheckGlob \/ CheckCommand
           \/ pc = "step2" /\ UNCHANGED <<chk, ev, start>>
  <1>1. CASE Check
    BY <1>1 DEF Check, CheckCommandError, CheckFinish, Regenerate, Exit
  <1>2. CASE Evaluate
    BY <1>2 DEF Evaluate, Begin, Eval, EvalError, SetEnv, MakeMakefiles, Exit
  <1>3. CASE Generate
    BY <1>3 DEF Generate, UnlinkStamp, OpenNinja, WriteNinja, OpenScript,
                WriteScript, OpenTmp, WriteTmp, RenameStamp, Goto, Exit
  <1>4. CASE User \/ Kill
    BY <1>4 DEF User, Kill, Start, EditFile, RemoveFile, RemoveOutput, AnEdit, Exit, run
  <1>5. CASE UNCHANGED vars
    BY <1>5 DEF vars, run
  <1> QED BY <1>1, <1>2, <1>3, <1>4, <1>5 DEF Next, Kati

\* How a step can change what is remembered of the last good run, and when
\* it can leave it.
LEMMA SettledStep ==
    ASSUME [Next]_vars
    PROVE  \/ settled' = None
           \/ settled' = settled /\ ~EditFile /\ ~RemoveFile /\ ~RemoveOutput /\ ~RenameStamp
                /\ (pc' = "idle" => pc = "idle")
           \/ Settle /\ (RenameStamp \/ (CheckFinish /\ pc = "step2" /\ pc' = "idle" /\ ~chk.needs /\ stamp # None))
  <1>1. CASE Check
    BY <1>1 DEF Check, CheckStep1, CheckGlob, CheckCommand, CheckCommandError, CheckFinish,
                Regenerate, Exit, EditFile, RemoveFile, RemoveOutput, RenameStamp, AnEdit
  <1>2. CASE Evaluate
    BY <1>2 DEF Evaluate, Begin, Eval, EvalError, SetEnv, MakeMakefiles, Exit,
                EditFile, RemoveFile, RemoveOutput, RenameStamp, AnEdit
  <1>3. CASE Generate
    BY <1>3 DEF Generate, UnlinkStamp, OpenNinja, WriteNinja, OpenScript,
                WriteScript, OpenTmp, WriteTmp, Goto, RenameStamp,
                EditFile, RemoveFile, RemoveOutput, AnEdit
  <1>4. CASE User \/ Kill
    BY <1>4 DEF User, Kill, Start, EditFile, RemoveFile, RemoveOutput, AnEdit, RenameStamp
  <1>5. CASE UNCHANGED vars
    BY <1>5 DEF vars, user, EditFile, RemoveFile, RemoveOutput, RenameStamp, AnEdit
  <1> QED BY <1>1, <1>2, <1>3, <1>4, <1>5 DEF Next, Kati

\* LinesInv is inductive.
LEMMA LinesStep ==
    ASSUME NoAppend, TypeOK, LinesInv, [Next]_vars
    PROVE  LinesInv'
  <1>1. EvLines' /\ content' \in [Path -> Seq(Lines)]
    BY EvLinesStep, ContentStep
  <1>2. pc' = "rename" => tmp' # None /\ "cmds" \in DOMAIN tmp' /\ Logged(tmp'.cmds)
    <2> SUFFICES ASSUME pc' = "rename"
                 PROVE  tmp' # None /\ "cmds" \in DOMAIN tmp' /\ Logged(tmp'.cmds)
      OBVIOUS
    <2>1. CASE WriteTmp
      <3>1. /\ tmp'.cmds = [i \in DOMAIN ev.cmds |-> Stamped(ev.cmds[i])]
            /\ "cmds" \in DOMAIN tmp' /\ tmp'.none = FALSE
        BY <2>1 DEF WriteTmp
      <3>2. Logged(tmp'.cmds)
        BY <3>1, StampedIs DEF LinesInv
      <3> QED BY <3>1, <3>2 DEF None
    <2>2. CASE pc = "rename" /\ UNCHANGED <<tmp, start, ev>>
      BY <2>2 DEF LinesInv
    <2> QED BY <2>1, <2>2, RenameFrom
  <1>3. stamp' # None => "cmds" \in DOMAIN stamp' /\ Logged(stamp'.cmds)
    <2>1. CASE RenameStamp
      BY <2>1 DEF RenameStamp, LinesInv
    <2>2. CASE stamp # None /\ stamp' = [stamp EXCEPT !.time = start]
      BY <2>2 DEF LinesInv
    <2> QED BY <2>1, <2>2, StampStep DEF LinesInv
  <1>4. pc' = "step2" => /\ ChkFields \subseteq DOMAIN chk' /\ chk'.next \in Nat \ {0}
                         /\ chk'.stamp # None => Logged(chk'.stamp.cmds)
    <2> SUFFICES ASSUME pc' = "step2"
                 PROVE  /\ ChkFields \subseteq DOMAIN chk' /\ chk'.next \in Nat \ {0}
                        /\ chk'.stamp # None => Logged(chk'.stamp.cmds)
      OBVIOUS
    <2>1. CASE CheckStep1
      <3>1. \E d, g : chk' = [needs |-> d, stamp |-> stamp, next |-> 1, globs |-> g]
        BY <2>1 DEF CheckStep1, Regenerate, Exit
      <3> QED BY <3>1 DEF ChkFields, LinesInv
    <2>2. CASE CheckGlob
      <3>1. pc = "step2" /\ \E d, g : chk' = [chk EXCEPT !.needs = @ \/ d, !.globs = g]
        BY <2>2 DEF CheckGlob
      <3>2. /\ ChkFields \subseteq DOMAIN chk /\ chk.next \in Nat \ {0}
            /\ chk.stamp # None => Logged(chk.stamp.cmds)
        BY <3>1 DEF LinesInv
      <3>3. ChkFields \subseteq DOMAIN chk' /\ chk'.stamp = chk.stamp /\ chk'.next = chk.next
        BY <3>1, <3>2 DEF ChkFields
      <3> QED BY <3>2, <3>3
    <2>3. CASE CheckCommand
      BY <2>3, CheckCommandStep
    <2>4. CASE pc = "step2" /\ UNCHANGED <<chk, ev, start>>
      BY <2>4 DEF LinesInv
    <2> QED BY <2>1, <2>2, <2>3, <2>4, Step2From
  <1>5. settled' # None => settled'.content \in [Path -> Seq(Lines)]
    <2>1. Settle => settled' = None \/ settled'.content = content
      BY DEF Settle
    <2> QED BY <2>1, SettledStep DEF LinesInv
  <1>6. pc' # "idle" => outcome' = "none"
    <2>1. CASE Check
      BY <2>1 DEF Check, CheckStep1, CheckGlob, CheckCommand, CheckCommandError, CheckFinish,
                  Regenerate, Exit, LinesInv
    <2>2. CASE Evaluate
      BY <2>2 DEF Evaluate, Begin, Eval, EvalError, SetEnv, MakeMakefiles, Exit, LinesInv
    <2>3. CASE Generate
      BY <2>3 DEF Generate, UnlinkStamp, OpenNinja, WriteNinja, OpenScript,
                  WriteScript, OpenTmp, WriteTmp, RenameStamp, Goto, Exit, LinesInv
    <2>4. CASE User \/ Kill
      BY <2>4 DEF User, Kill, Start, EditFile, RemoveFile, RemoveOutput, AnEdit, Exit, LinesInv
    <2>5. CASE UNCHANGED vars
      BY <2>5 DEF vars, LinesInv
    <2> QED BY <2>1, <2>2, <2>3, <2>4, <2>5 DEF Next, Kati
  <1> QED BY <1>1, <1>2, <1>3, <1>4, <1>5, <1>6 DEF LinesInv, EvLines

-----------------------------------------------------------------------------
(* The files at the end of a run.                                          *)

\* How a step can change the tree.
LEMMA WorldFrom ==
    ASSUME [Next]_vars
    PROVE  \/ mtime' = mtime /\ content' = content
           \/ CheckCommand \/ Eval \/ EditFile \/ RemoveFile
  <1>1. CASE Check
    BY <1>1 DEF Check, CheckStep1, CheckGlob, CheckCommandError, CheckFinish, world
  <1>2. CASE Evaluate
    BY <1>2 DEF Evaluate, Begin, EvalError, SetEnv, MakeMakefiles, world
  <1>3. CASE Generate
    BY <1>3 DEF Generate, UnlinkStamp, OpenNinja, WriteNinja, OpenScript,
                WriteScript, OpenTmp, WriteTmp, RenameStamp, Goto, world
  <1>4. CASE User \/ Kill
    BY <1>4 DEF User, Kill, Start, RemoveOutput, world
  <1>5. CASE UNCHANGED vars
    BY <1>5 DEF vars, world
  <1> QED BY <1>1, <1>2, <1>3, <1>4, <1>5 DEF Next, Kati

\* A step after which the run is undisturbed is no edit.
LEMMA NoEdit ==
    ASSUME TypeOK, [Next]_vars, lastEdit' < start', ~Start
    PROVE  /\ lastEdit < start
           /\ ~EditFile /\ ~RemoveFile /\ ~RemoveOutput
  <1>1. start \in Nat /\ clock \in Nat /\ start <= clock
    BY DEF TypeOK
  <1>2. ~EditFile /\ ~RemoveFile /\ ~RemoveOutput
    BY <1>1 DEF EditFile, RemoveFile, RemoveOutput, AnEdit, run
  <1>3. lastEdit' = lastEdit /\ start' = start
    <2>1. CASE Check
      BY <2>1 DEF Check, CheckStep1, CheckGlob, CheckCommand, CheckCommandError, CheckFinish,
                  run, user
    <2>2. CASE Evaluate
      BY <2>2 DEF Evaluate, Begin, Eval, EvalError, SetEnv, MakeMakefiles, run, user
    <2>3. CASE Generate
      BY <2>3 DEF Generate, UnlinkStamp, OpenNinja, WriteNinja, OpenScript, WriteScript, OpenTmp,
                  WriteTmp, RenameStamp, Goto, run, user
    <2>4. CASE Kill \/ UNCHANGED vars
      BY <2>4 DEF Kill, vars, run, user
    <2> QED BY <1>2, <2>1, <2>2, <2>3, <2>4 DEF Next, Kati, User
  <1> QED BY <1>2, <1>3

\* How a step can lead to a place of the evaluation or the generation.
LEMMA EvaluatingFrom ==
    ASSUME [Next]_vars, pc' \in Evaluating
    PROVE  /\ ~Start
           /\ \/ Begin /\ pc = "begin" /\ pc' = "eval"
              \/ Eval /\ pc = "eval" /\ pc' = "eval"
              \/ SetEnv /\ pc = "eval" /\ ~ev.failed
              \/ pc \in Evaluating /\ ev' = ev /\ ~CheckCommand /\ (pc = "eval" => pc' = "eval")
  <1> USE DEF Evaluating, Evaluated
  <1>1. CASE Check
    BY <1>1 DEF Check, CheckStep1, CheckGlob, CheckCommand, CheckCommandError, CheckFinish,
                Regenerate, Exit
  <1>2. CASE Evaluate
    BY <1>2 DEF Evaluate, Begin, Eval, EvalError, SetEnv, MakeMakefiles, Exit, Start, CheckCommand
  <1>3. CASE Generate
    BY <1>3 DEF Generate, UnlinkStamp, OpenNinja, WriteNinja, OpenScript,
                WriteScript, OpenTmp, WriteTmp, RenameStamp, Goto, Exit, Start, CheckCommand
  <1>4. CASE User \/ Kill
    BY <1>4 DEF User, Kill, Start, EditFile, RemoveFile, RemoveOutput, AnEdit, Exit, CheckCommand
  <1>5. CASE UNCHANGED vars
    BY <1>5 DEF vars, Start, CheckCommand
  <1> QED BY <1>1, <1>2, <1>3, <1>4, <1>5 DEF Next, Kati

\* How a step can lead to a place of the check, or before the evaluation.
LEMMA CheckingFrom ==
    ASSUME [Next]_vars, pc' \in Checking \cup {"begin"}
    PROVE  \/ Start /\ pc = "idle" /\ pc' \in {"check", "begin"}
           \/ /\ ~Start /\ pc \in Checking \cup {"begin"} /\ ev' = ev
              /\ pc' = "check" => pc = "check"
  <1> USE DEF Checking
  <1>1. CASE Check
    BY <1>1 DEF Check, CheckStep1, CheckGlob, CheckCommand, CheckCommandError, CheckFinish,
                Regenerate, Exit, Start
  <1>2. CASE Evaluate
    BY <1>2 DEF Evaluate, Begin, Eval, EvalError, SetEnv, MakeMakefiles, Exit
  <1>3. CASE Generate
    BY <1>3 DEF Generate, UnlinkStamp, OpenNinja, WriteNinja, OpenScript,
                WriteScript, OpenTmp, WriteTmp, RenameStamp, Goto, Exit
  <1>4. CASE User \/ Kill
    BY <1>4 DEF User, Kill, Start, EditFile, RemoveFile, RemoveOutput, AnEdit, Exit
  <1>5. CASE UNCHANGED vars
    BY <1>5 DEF vars, Start
  <1> QED BY <1>1, <1>2, <1>3, <1>4, <1>5 DEF Next, Kati

\* Files that a step of the evaluation or of the check writes: the commands
\* write the same files afterwards.
LEMMA RewritingSame ==
    ASSUME TypeOK, NEW a \in Path, Writable(mtime, a), mtime' = Touch(mtime, a, clock + 1)
    PROVE  \A c : \A p \in Path : Rewriting(c, mtime', p) = Rewriting(c, mtime, p)
  <1>1. mtime \in [Path -> Nat \cup {NotExist}] /\ clock + 1 \in Nat
    BY DEF TypeOK
  <1> QED BY <1>1, TouchRewriting

\* The evaluation: each file it wrote has the text of the last line that did.
LEMMA EvalEnds ==
    ASSUME NoAppend, TypeOK, LinesInv, KeepInv, Eval, ~ev'.failed, lastEdit < start
    PROVE  Ends(ev'.cmds, content', mtime')
  <1>1. PICK l : l = Head(ev.prog)
    OBVIOUS
  <1>2. PICK cs : cs = ev.cmds
    OBVIOUS
  <1>3. Logged(cs) /\ ~ev.failed /\ Ends(cs, content, mtime)
    BY <1>2 DEF LinesInv, KeepInv, Eval, Evaluating
  <1>4. /\ l \in Lines
        /\ \/ l.op \notin WriteOps /\ ev'.cmds = cs
           \/ \E c : /\ c.line = l /\ (Rewrites(c) <=> l.op \in WriteOps)
                     /\ ev'.cmds = IF l.arg \in IgnoreDirty THEN cs ELSE Append(cs, c)
        /\ IF Writes(l, mtime)
           THEN /\ mtime' = Touch(mtime, l.arg, clock + 1)
                /\ content' = [content EXCEPT ![l.arg] = TextOf(l)]
           ELSE mtime' = mtime /\ content' = content
    BY <1>1, <1>2, EvalStepKeeps
  <1>5. l.op \in WriteOps => l.arg \in Path
    BY <1>4, LinesAre DEF FileOps
  <1>6. \A c : \A p \in Path : Rewriting(c, mtime', p) = Rewriting(c, mtime, p)
    <2>1. CASE Writes(l, mtime)
      BY <1>4, <1>5, <2>1, RewritingSame DEF Writes
    <2>2. CASE ~Writes(l, mtime)
      BY <1>4, <2>2
    <2> QED BY <2>1, <2>2
  <1>7. \A p \in Path : content'[p] = IF Writes(l, mtime) /\ p = l.arg THEN TextOf(l) ELSE content[p]
    BY <1>4 DEF TypeOK
  <1>8. CASE l.op \notin WriteOps /\ ev'.cmds = cs
    <2>1. mtime' = mtime /\ content' = content
      BY <1>4, <1>8 DEF Writes
    <2> QED BY <1>3, <1>8, <2>1
  <1>9. ASSUME NEW c, c.line = l, Rewrites(c) <=> l.op \in WriteOps, l.arg \notin IgnoreDirty,
               ev'.cmds = Append(cs, c)
        PROVE  Ends(ev'.cmds, content', mtime')
    <2>1. \A p \in Path : Rewriting(c, mtime', p) <=> Writes(l, mtime) /\ p = l.arg
      BY <1>6, <1>9 DEF Rewriting, Writes
    <2>2. Ends(cs, content, mtime')
      BY <1>3, <1>6 DEF Ends
    <2> QED BY <1>3, <1>7, <1>9, <2>1, <2>2, EndsAppend DEF Logged
  <1>10. CASE l.arg \in IgnoreDirty /\ ev'.cmds = cs
    <2>1. \A i \in DOMAIN cs, p \in Path : Rewriting(cs[i], mtime, p) => p # l.arg
      BY <1>3, <1>10 DEF Rewriting, Logged
    <2> QED BY <1>3, <1>6, <1>7, <1>10, <2>1 DEF Ends
  <1> QED BY <1>4, <1>8, <1>9, <1>10

\* The check: what it has changed since the last good run will be written
\* again, and what it has written has the text of the last command so far.
LEMMA CheckCommandKeeps ==
    ASSUME NoAppend, TypeOK, LinesInv, KeepInv, CheckCommand
    PROVE  /\ \A c : \A p \in Path : Rewriting(c, mtime', p) = Rewriting(c, mtime, p)
           /\ settled # None => Behind'
           /\ stamp # None /\ chk.stamp = stamp /\ Redone(stamp.cmds, chk.next) =>
                  Redone(stamp.cmds, chk.next)'
  <1>0. settled' = settled /\ stamp' = stamp
    BY DEF CheckCommand, disk
  <1>1. PICK cs : cs = chk.stamp.cmds
    OBVIOUS
  <1>2. PICK n : n = chk.next
    OBVIOUS
  <1>3. PICK c : c = cs[n]
    OBVIOUS
  <1>4. /\ pc = "step2" /\ Logged(cs) /\ n \in DOMAIN cs /\ n \in Nat
        /\ chk'.next = n + 1 /\ chk'.stamp = chk.stamp
        /\ IF Rewrites(c) /\ Writable(mtime, c.line.arg)
           THEN /\ mtime' = Touch(mtime, c.line.arg, clock + 1)
                /\ content' = [content EXCEPT ![c.line.arg] = TextOf(c.line)]
                /\ c.line.arg \in Path
           ELSE mtime' = mtime /\ content' = content
    BY <1>1, <1>2, <1>3, CheckCommandStep
  <1>5. \A d : \A p \in Path : Rewriting(d, mtime', p) = Rewriting(d, mtime, p)
    <2>1. CASE Rewrites(c) /\ Writable(mtime, c.line.arg)
      BY <1>4, <2>1, RewritingSame
    <2>2. CASE ~(Rewrites(c) /\ Writable(mtime, c.line.arg))
      BY <1>4, <2>2
    <2> QED BY <2>1, <2>2
  <1>6. \A p \in Path : content'[p] = IF Rewriting(c, mtime, p) THEN TextOf(c.line) ELSE content[p]
    BY <1>4 DEF TypeOK, Rewriting
  <1>7. DOMAIN cs \subseteq Nat
    BY <1>4 DEF Logged
  <1>8. ASSUME settled # None
        PROVE  Behind'
    <2>1. /\ stamp # None /\ chk.stamp = stamp /\ Behind /\ stamp.cmds = cs
          /\ Ends(cs, settled.content, mtime)
      BY <1>1, <1>4, <1>8 DEF KeepInv, Checking
    <2>2. ASSUME NEW p \in Path, content'[p] # settled.content[p]
          PROVE  \E j \in DOMAIN cs : j >= n + 1 /\ Rewriting(cs[j], mtime, p)
      <3>1. CASE Rewriting(c, mtime, p)
        <4>1. TextOf(c.line) # settled.content[p]
          BY <1>6, <2>2, <3>1
        <4>2. ~ \A j \in DOMAIN cs : j > n => ~Rewriting(cs[j], mtime, p)
          BY <1>3, <1>4, <2>1, <3>1, <4>1 DEF Ends
        <4> QED BY <1>4, <1>7, <4>2
      <3>2. CASE ~Rewriting(c, mtime, p)
        <4>1. content[p] # settled.content[p]
          BY <1>6, <2>2, <3>2
        <4>2. PICK j \in DOMAIN cs : j >= n /\ Rewriting(cs[j], mtime, p)
          BY <1>2, <2>1, <4>1 DEF Behind
        <4>3. j # n
          BY <1>3, <3>2, <4>2
        <4> QED BY <1>4, <1>7, <4>2, <4>3
      <3> QED BY <3>1, <3>2
    <2> QED BY <1>0, <1>4, <1>5, <2>1, <2>2 DEF Behind
  <1>9. ASSUME stamp # None, chk.stamp = stamp, Redone(cs, n)
        PROVE  Redone(cs, n + 1)'
    <2> SUFFICES ASSUME NEW p \in Path, NEW i \in DOMAIN cs, i < n + 1, Rewriting(cs[i], mtime, p),
                        \A j \in DOMAIN cs : j > i /\ j < n + 1 => ~Rewriting(cs[j], mtime, p)
                 PROVE  content'[p] = TextOf(cs[i].line)
      BY <1>5 DEF Redone
    <2>1. CASE i = n
      BY <1>3, <1>6, <2>1
    <2>2. CASE i < n
      <3>1. ~Rewriting(c, mtime, p)
        BY <1>3, <1>4, <2>2
      <3>2. content[p] = TextOf(cs[i].line)
        <4>1. \A j \in DOMAIN cs : j > i /\ j < n => ~Rewriting(cs[j], mtime, p)
          BY <1>4, <1>7
        <4> QED BY <1>9, <2>2, <4>1 DEF Redone
      <3> QED BY <1>6, <3>1, <3>2
    <2> QED BY <1>4, <1>7, <2>1, <2>2
  <1>10. ASSUME stamp # None, chk.stamp = stamp, Redone(stamp.cmds, chk.next)
         PROVE  Redone(stamp.cmds, chk.next)'
    <2>1. Redone(cs, n + 1)'
      BY <1>1, <1>2, <1>9, <1>10
    <2> QED BY <1>0, <1>1, <1>4, <1>10, <2>1 DEF Redone
  <1> QED BY <1>5, <1>8, <1>10

\* The steps that change the stamp on the disk.
LEMMA StampFrom ==
    ASSUME [Next]_vars
    PROVE  \/ stamp' = stamp
           \/ UnlinkStamp \/ RemoveOutput \/ RenameStamp
           \/ CheckFinish /\ pc = "step2" /\ pc' = "idle"
  <1>1. CASE Check
    BY <1>1 DEF Check, CheckStep1, CheckGlob, CheckCommand, CheckCommandError, CheckFinish,
                Exit, disk
  <1>2. CASE Evaluate
    BY <1>2 DEF Evaluate, Begin, Eval, EvalError, SetEnv, MakeMakefiles, disk
  <1>3. CASE Generate
    BY <1>3 DEF Generate, OpenNinja, WriteNinja, OpenScript, WriteScript, OpenTmp, WriteTmp
  <1>4. CASE User \/ Kill
    BY <1>4 DEF User, Kill, Start, EditFile, RemoveFile, disk
  <1>5. CASE UNCHANGED vars
    BY <1>5 DEF vars, disk
  <1> QED BY <1>1, <1>2, <1>3, <1>4, <1>5 DEF Next, Kati

\* KeepInv is inductive.
LEMMA KeepStep ==
    ASSUME NoAppend, TypeOK, LinesInv, LinesInv', KeepInv, [Next]_vars
    PROVE  KeepInv'
  <1>1. pc' \in Checking \cup {"begin"} => ev'.cmds = << >>
    <2> SUFFICES ASSUME pc' \in Checking \cup {"begin"}
                 PROVE  ev'.cmds = << >>
      OBVIOUS
    <2>1. CASE Start
      <3>1. \E e, bin : ev' = NewEvaluator(e, bin)
        BY <2>1, Zenon DEF Start
      <3> QED BY <3>1 DEF NewEvaluator
    <2>2. CASE pc \in Checking \cup {"begin"} /\ ev' = ev
      BY <2>2 DEF KeepInv
    <2> QED BY <2>1, <2>2, CheckingFrom
  <1>2. pc' \in Evaluating /\ ~ev'.failed /\ lastEdit' < start' => Ends(ev'.cmds, content', mtime')
    <2> SUFFICES ASSUME pc' \in Evaluating, ~ev'.failed, lastEdit' < start'
                 PROVE  Ends(ev'.cmds, content', mtime')
      OBVIOUS
    <2>1. /\ \/ Begin /\ pc = "begin"
             \/ Eval
             \/ SetEnv /\ pc = "eval" /\ ~ev.failed
             \/ pc \in Evaluating /\ ev' = ev /\ ~CheckCommand
          /\ lastEdit < start /\ ~EditFile /\ ~RemoveFile
      BY EvaluatingFrom, NoEdit
    <2>2. CASE Begin /\ pc = "begin"
      <3>1. ev.cmds = << >> /\ KeptFields \subseteq DOMAIN ev
        BY <2>2 DEF KeepInv, LinesInv
      <3> DEFINE m == ReadMakefile(ev, mtime, content, Makefile)
      <3>2. ev' = [m EXCEPT !.prog = m.mk[Makefile].data]
        BY <2>2 DEF Begin, BeginEval
      <3>3. SameKept(ev, m)
        BY <3>1, ReadMakefileKeeps
      <3> HIDE DEF m
      <3>4. ev'.cmds = << >>
        BY <3>1, <3>2, <3>3 DEF SameKept, KeptFields
      <3> QED BY <3>4 DEF Ends
    <2>3. CASE Eval
      BY <2>1, <2>3, EvalEnds
    <2>4. CASE SetEnv /\ pc = "eval" /\ ~ev.failed
      <3>1. ev'.cmds = ev.cmds /\ mtime' = mtime /\ content' = content
        BY <2>4 DEF SetEnv, world, LinesInv, KeptFields
      <3>2. Ends(ev.cmds, content, mtime)
        BY <2>1, <2>4 DEF KeepInv, Evaluating
      <3> QED BY <3>1, <3>2
    <2>5. CASE pc \in Evaluating /\ ev' = ev /\ ~CheckCommand /\ ~Eval
      <3>1. mtime' = mtime /\ content' = content
        BY <2>1, <2>5, WorldFrom
      <3>2. Ends(ev.cmds, content, mtime)
        BY <2>1, <2>5 DEF KeepInv
      <3> QED BY <2>5, <3>1, <3>2
    <2> QED BY <2>1, <2>2, <2>3, <2>4, <2>5
  <1>3. pc' \in Evaluated => ~ev'.failed
    <2> SUFFICES ASSUME pc' \in Evaluated
                 PROVE  ~ev'.failed
      OBVIOUS
    <2>1. pc' # "eval" /\ pc' \in Evaluating
      BY DEF Evaluated, Evaluating
    <2>2. CASE SetEnv /\ ~ev.failed
      BY <2>2 DEF SetEnv, LinesInv, KeptFields
    <2>3. CASE pc \in Evaluated /\ ev' = ev
      BY <2>3 DEF KeepInv
    <2> QED BY <2>1, <2>2, <2>3, EvaluatingFrom DEF Evaluating
  <1>4. pc' = "rename" /\ lastEdit' < start' => Ends(tmp'.cmds, content', mtime')
    <2> SUFFICES ASSUME pc' = "rename", lastEdit' < start'
                 PROVE  Ends(tmp'.cmds, content', mtime')
      OBVIOUS
    <2>1. ~Start /\ ~Eval /\ ~CheckCommand
      BY DEF Start, Eval, CheckCommand
    <2>2. lastEdit < start /\ mtime' = mtime /\ content' = content
      BY <2>1, NoEdit, WorldFrom
    <2>3. CASE WriteTmp
      <3>1. pc = "tmp" /\ tmp'.cmds = [i \in DOMAIN ev.cmds |-> Stamped(ev.cmds[i])]
        BY <2>3 DEF WriteTmp, Goto
      <3>2. Ends(ev.cmds, content, mtime) /\ Logged(ev.cmds)
        BY <2>2, <3>1 DEF KeepInv, LinesInv, Evaluating, Evaluated
      <3>3. PICK cs, ds : cs = ev.cmds /\ ds = tmp'.cmds
        OBVIOUS
      <3>4. /\ DOMAIN ds = DOMAIN cs
            /\ \A i \in DOMAIN cs : ds[i].line = cs[i].line /\ Rewrites(ds[i]) = Rewrites(cs[i])
        BY <3>1, <3>2, <3>3, StampedIs
      <3>5. Ends(ds, content, mtime)
        BY <3>2, <3>3, <3>4 DEF Ends, Rewriting
      <3> QED BY <2>2, <3>3, <3>5
    <2>4. CASE pc = "rename" /\ UNCHANGED <<tmp, start, ev>>
      BY <2>2, <2>4 DEF KeepInv
    <2> QED BY <2>3, <2>4, RenameFrom
  <1>5. ASSUME settled' # None, pc' \in Checking \cup {"idle"}
        PROVE  /\ stamp' # None /\ Ends(stamp'.cmds, settled'.content, mtime')
               /\ pc' \in {"idle", "check"} => content' = settled'.content
               /\ pc' = "step2" => chk'.stamp = stamp' /\ Behind'
    <2>1. CASE Settle /\ RenameStamp
      <3>1. /\ lastEdit < start /\ settled'.content = content /\ pc = "rename" /\ pc' = "idle"
            /\ stamp' = tmp /\ mtime' = mtime /\ content' = content
        BY <1>5, <2>1 DEF Settle, RenameStamp, Exit, world
      <3> QED BY <3>1 DEF KeepInv, LinesInv
    <2>2. CASE Settle /\ CheckFinish /\ pc = "step2" /\ pc' = "idle" /\ ~chk.needs /\ stamp # None
      <3>1. /\ lastEdit < start /\ settled'.content = content
            /\ stamp' = [stamp EXCEPT !.time = start] /\ mtime' = mtime /\ content' = content
            /\ chk.next > Len(LoadedCommands)
        BY <1>5, <2>2 DEF Settle, CheckFinish, Renewed, world
      <3>2. /\ chk.stamp = stamp /\ Redone(stamp.cmds, chk.next)
            /\ Logged(stamp.cmds) /\ "cmds" \in DOMAIN stamp /\ chk.next \in Nat
        BY <2>2, <3>1 DEF KeepInv, LinesInv
      <3>3. PICK cs : cs = stamp.cmds
        OBVIOUS
      <3>4. LoadedCommands = cs /\ stamp'.cmds = cs /\ stamp' # None
        <4>1. LoadedCommands = cs /\ stamp'.cmds = cs
          BY <2>2, <3>1, <3>2, <3>3 DEF LoadedCommands
        <4>2. "cmds" \in DOMAIN stamp' /\ "cmds" \notin DOMAIN None
          BY <3>1, <3>2 DEF None
        <4> QED BY <4>1, <4>2
      <3>5. \A j \in DOMAIN cs : j \in Nat /\ j < chk.next
        BY <3>1, <3>2, <3>3, <3>4 DEF Logged
      <3>6. Ends(cs, content, mtime)
        BY <3>2, <3>3, <3>5 DEF Ends, Redone
      <3> QED BY <2>2, <3>1, <3>4, <3>6
    <2>3. CASE /\ settled' = settled /\ ~EditFile /\ ~RemoveFile /\ ~RemoveOutput /\ ~RenameStamp
               /\ pc' = "idle" => pc = "idle"
      <3>1. pc \in Checking \cup {"idle"} /\ pc' = "check" => pc \in {"idle", "check"}
        BY <1>5, <2>3, CheckingFrom DEF Checking
      <3>2. pc \in Checking \cup {"idle"}
        <4>1. CASE pc' = "idle"
          BY <2>3, <4>1
        <4>2. CASE pc' \in Checking
          <5>1. pc # "begin"
            BY <4>2 DEF Checking, Next, Kati, Check, Evaluate, Generate, User, vars, CheckStep1,
                 CheckGlob, CheckCommand, CheckCommandError, CheckFinish, Begin, Eval, EvalError,
                 SetEnv, MakeMakefiles, UnlinkStamp, OpenNinja, WriteNinja, OpenScript, WriteScript,
                 OpenTmp, WriteTmp, RenameStamp, Goto, Start, Kill, Exit, EditFile, RemoveFile,
                 RemoveOutput, AnEdit
          <5> QED BY <4>2, <5>1, CheckingFrom
        <4> QED BY <1>5, <4>1, <4>2
      <3>3. /\ stamp # None /\ Ends(stamp.cmds, settled.content, mtime)
            /\ pc \in {"idle", "check"} => content = settled.content
            /\ pc = "step2" => chk.stamp = stamp /\ Behind
        BY <1>5, <2>3, <3>2 DEF KeepInv
      <3>4. stamp' = stamp
        <4>1. ~UnlinkStamp
          BY <3>2 DEF UnlinkStamp, Goto, Checking
        <4> QED BY <2>3, <4>1, StampFrom
      <3>5. ~Eval
        BY <3>2 DEF Eval, Checking
      <3>6. CASE CheckCommand
        <4>1. /\ \A c : \A p \in Path : Rewriting(c, mtime', p) = Rewriting(c, mtime, p)
              /\ Behind' /\ pc = "step2" /\ pc' = "step2" /\ chk'.stamp = chk.stamp
          BY <1>5, <2>3, <3>6, CheckCommandKeeps, CheckCommandStep DEF CheckCommand
        <4>2. Ends(stamp.cmds, settled.content, mtime')
          BY <3>3, <4>1 DEF Ends
        <4> QED BY <2>3, <3>3, <3>4, <4>1, <4>2
      <3>7. CASE ~CheckCommand
        <4>1. mtime' = mtime /\ content' = content
          BY <2>3, <3>5, <3>7, WorldFrom
        <4>2. pc' \in {"idle", "check"} => content' = settled'.content
          BY <2>3, <3>1, <3>2, <3>3, <4>1
        <4>3. pc' = "step2" => chk'.stamp = stamp' /\ Behind'
          <5> SUFFICES ASSUME pc' = "step2"
                       PROVE  chk'.stamp = stamp' /\ Behind'
            OBVIOUS
          <5>1. CASE CheckStep1
            <6>1. chk'.stamp = stamp /\ pc = "check"
              BY <5>1 DEF CheckStep1, Regenerate, Exit
            <6> QED BY <2>3, <3>3, <3>4, <4>1, <6>1 DEF Behind
          <5>2. CASE CheckGlob
            <6>1. pc = "step2" /\ \E d, g : chk' = [chk EXCEPT !.needs = @ \/ d, !.globs = g]
              BY <5>2 DEF CheckGlob
            <6>2. ChkFields \subseteq DOMAIN chk
              BY <6>1 DEF LinesInv
            <6>3. chk'.stamp = chk.stamp /\ chk'.next = chk.next
              BY <6>1, <6>2 DEF ChkFields
            <6> QED BY <2>3, <3>3, <3>4, <4>1, <6>1, <6>3 DEF Behind
          <5>3. CASE pc = "step2" /\ UNCHANGED <<chk, ev, start>>
            BY <2>3, <3>3, <3>4, <4>1, <5>3 DEF Behind
          <5> QED BY <3>7, <5>1, <5>2, <5>3, Step2From
        <4> QED BY <2>3, <3>3, <3>4, <4>1, <4>2, <4>3
      <3> QED BY <3>6, <3>7
    <2> QED BY <1>5, <2>1, <2>2, <2>3, SettledStep
  <1>6. pc' = "step2" /\ lastEdit' < start' =>
            chk'.stamp = stamp' /\ (stamp' # None => Redone(stamp.cmds, chk.next)')
    <2> SUFFICES ASSUME pc' = "step2", lastEdit' < start'
                 PROVE  chk'.stamp = stamp' /\ (stamp' # None => Redone(stamp.cmds, chk.next)')
      OBVIOUS
    <2>1. /\ ~Start /\ ~Eval /\ ~RenameStamp
          /\ ~(CheckFinish /\ pc' = "idle")
      BY DEF Start, Eval, RenameStamp, Exit
    <2>2. lastEdit < start /\ ~EditFile /\ ~RemoveFile /\ ~RemoveOutput
      BY <2>1, NoEdit
    <2>3. CASE CheckStep1
      <3>1. chk'.stamp = stamp /\ chk'.next = 1 /\ stamp' = stamp
        BY <2>3 DEF CheckStep1, Regenerate, Exit, disk
      <3>2. stamp # None => Logged(stamp.cmds)
        BY DEF LinesInv
      <3>3. stamp # None => \A i \in DOMAIN stamp.cmds : ~(i < 1)
        BY <3>2 DEF Logged
      <3> QED BY <3>1, <3>3 DEF Redone
    <2>4. CASE CheckGlob
      <3>1. /\ pc = "step2" /\ stamp' = stamp /\ mtime' = mtime /\ content' = content
            /\ \E d, g : chk' = [chk EXCEPT !.needs = @ \/ d, !.globs = g]
        BY <2>4 DEF CheckGlob, disk, world
      <3>2. ChkFields \subseteq DOMAIN chk
        BY <3>1 DEF LinesInv
      <3>3. chk'.stamp = chk.stamp /\ chk'.next = chk.next
        BY <3>1, <3>2 DEF ChkFields
      <3> QED BY <2>2, <3>1, <3>3 DEF KeepInv, Redone
    <2>5. CASE CheckCommand
      <3>1. /\ pc = "step2" /\ stamp' = stamp /\ chk'.stamp = chk.stamp
        BY <2>5, CheckCommandStep DEF CheckCommand, disk
      <3>2. chk.stamp = stamp /\ (stamp # None => Redone(stamp.cmds, chk.next))
        BY <2>2, <3>1 DEF KeepInv
      <3> QED BY <2>5, <3>1, <3>2, CheckCommandKeeps
    <2>6. CASE pc = "step2" /\ UNCHANGED <<chk, ev, start>> /\ ~CheckCommand
      <3>1. mtime' = mtime /\ content' = content
        BY <2>1, <2>2, <2>6, WorldFrom
      <3>2. stamp' = stamp
        BY <2>1, <2>2, <2>6, StampFrom DEF UnlinkStamp, Goto
      <3> QED BY <2>2, <2>6, <3>1, <3>2 DEF KeepInv, Redone
    <2> QED BY <2>3, <2>4, <2>5, <2>6, Step2From
  <1> QED BY <1>1, <1>2, <1>3, <1>4, <1>5, <1>6 DEF KeepInv, Checking

\* It holds at first.
LEMMA LinesInit ==
    ASSUME NoAppend, Init
    PROVE  LinesInv
  <1>1. content \in [Path -> Seq(Lines)]
    <2>1. << >> \in Seq(Lines)
      OBVIOUS
    <2>2. \A p \in DOMAIN InitFiles : InitFiles[p] \in Seq(Lines)
      <3>1. \A s \in Seq(GivenLines) : s \in Seq(Lines)
        BY DEF Lines
      <3> QED BY <3>1 DEF NoAppend
    <2> QED BY <2>1, <2>2 DEF Init
  <1>2. /\ KeptFields \subseteq DOMAIN ev /\ ev.prog = << >> /\ ev.cmds = << >>
        /\ ev.mk = [p \in {KatiBinary} |-> [exists |-> FALSE, data |-> << >>]]
    BY DEF Init, NewEvaluator, KeptFields
  <1>3. ev.prog \in Seq(Lines) /\ \A f \in DOMAIN ev.mk : ev.mk[f].data \in Seq(Lines)
    <2>1. PICK bin : bin = [exists |-> FALSE, data |-> << >>]
      OBVIOUS
    <2>2. << >> \in Seq(Lines) /\ bin.data \in Seq(Lines)
      BY <2>1
    <2> QED BY <1>2, <2>1, <2>2
  <1>4. pc = "idle" /\ stamp = None /\ settled = None
    BY DEF Init
  <1> QED BY <1>1, <1>2, <1>3, <1>4, LoggedNone DEF LinesInv

\* A clean check after a good run leaves every file as that run left it, if no
\* Makefile appends to a file: the commands that it runs again end with the
\* texts that are there.
THEOREM NoAppendKeepsFiles == NoAppend /\ Spec => CleanCheckKeepsFiles
  <1> SUFFICES ASSUME NoAppend
               PROVE  Spec => CleanCheckKeepsFiles
    OBVIOUS
  <1> DEFINE A == pc = "step2" /\ outcome' = "clean" /\ settled # None => content = settled.content
  <1>1. Init => LinesInv
    BY LinesInit
  <1>2. Init => KeepInv
    BY DEF Init, KeepInv, Checking, Evaluating, Evaluated
  <1>3. TypeOK /\ LinesInv /\ [Next]_vars => LinesInv'
    BY LinesStep
  <1>4. TypeOK /\ LinesInv /\ LinesInv' /\ KeepInv /\ [Next]_vars => KeepInv'
    BY KeepStep
  <1>5. LinesInv /\ KeepInv /\ [Next]_vars => [A]_vars
    <2> SUFFICES ASSUME LinesInv, KeepInv, Next, pc = "step2", outcome' = "clean", settled # None
                 PROVE  content = settled.content
      BY DEF vars
    <2>1. outcome = "none"
      BY DEF LinesInv
    <2>2. CheckFinish /\ stamp # None
      <3>1. CASE Check
        BY <2>1, <3>1 DEF Check, CheckStep1, CheckGlob, CheckCommand, CheckCommandError, CheckFinish,
                          Regenerate, Exit
      <3>2. CASE Evaluate \/ Generate
        BY <3>2 DEF Evaluate, Begin, Eval, EvalError, SetEnv, MakeMakefiles, Generate, UnlinkStamp,
                    OpenNinja, WriteNinja, OpenScript, WriteScript, OpenTmp, WriteTmp, RenameStamp, Goto
      <3>3. CASE User \/ Kill
        BY <2>1, <3>3 DEF User, Kill, Start, EditFile, RemoveFile, RemoveOutput, AnEdit, Exit
      <3> QED BY <3>1, <3>2, <3>3 DEF Next, Kati
    <2>3. /\ chk.stamp = stamp /\ Behind /\ Logged(stamp.cmds) /\ chk.next \in Nat
          /\ content \in [Path -> Seq(Lines)] /\ settled.content \in [Path -> Seq(Lines)]
      BY <2>2 DEF KeepInv, LinesInv
    <2>4. PICK cs : cs = stamp.cmds
      OBVIOUS
    <2>5. LoadedCommands = cs /\ chk.next > Len(cs)
      BY <2>2, <2>3, <2>4 DEF CheckFinish, LoadedCommands
    <2>6. \A j \in DOMAIN cs : ~(j >= chk.next)
      BY <2>3, <2>4, <2>5 DEF Logged
    <2>7. \A p \in Path : content[p] = settled.content[p]
      BY <2>3, <2>4, <2>6 DEF Behind
    <2> QED BY <2>3, <2>7
  <1> QED BY <1>1, <1>2, <1>3, <1>4, <1>5, TypeCorrect, PTL DEF Spec, CleanCheckKeepsFiles
=============================================================================
