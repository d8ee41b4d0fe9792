---------------------------- MODULE RegenProofs ----------------------------
(* Proofs of the invariants of Regen for every tree, Makefile and bound.   *)
EXTENDS Regen, TLAPS

\* The fields that the proofs read survive every EXCEPT on these records.
EvalFields == {"prog", "mk"}
StampFields == {"complete", "by", "time", "mk"}

-----------------------------------------------------------------------------
(* The file system.                                                        *)

\* Writing a path keeps the modification times well typed.
LEMMA TouchType ==
    ASSUME NEW mt \in [Path -> Nat \cup {NotExist}], NEW p, NEW t \in Nat
    PROVE  Touch(mt, p, t) \in [Path -> Nat \cup {NotExist}]
  BY DEF Touch

\* Removing a path keeps the modification times well typed.
LEMMA UnlinkType ==
    ASSUME NEW mt \in [Path -> Nat \cup {NotExist}], NEW p, NEW t \in Nat
    PROVE  Unlink(mt, p, t) \in [Path -> Nat \cup {NotExist}]
  BY DEF Unlink, NotExist

-----------------------------------------------------------------------------
(* The evaluator.                                                          *)

\* A line that is evaluated changes files only when it writes one.
LEMMA EvalLineFiles ==
    ASSUME NEW st, NEW l
    PROVE  LET r == EvalLine(l, st) IN
           \/ r.mtime = st.mtime /\ r.content = st.content
           \/ /\ Writes(l, st.mtime)
              /\ r.mtime = Touch(st.mtime, l.arg, st.now)
              /\ r.content = [st.content EXCEPT ![l.arg] = Written(l, st.content)]
  BY DEF EvalLine

\* e1 has the Makefiles of e.
SameMk(e, e1) == EvalFields \subseteq DOMAIN e1 /\ e1.mk = e.mk

\* Looking up, assigning, observing and storing leave the Makefiles alone.
LEMMA LookupMk ==
    ASSUME NEW e, EvalFields \subseteq DOMAIN e, NEW v
    PROVE  SameMk(e, Lookup(e, v))
  BY DEF EvalFields, Lookup, SameMk

\* The same of an assignment.
LEMMA AssignMk ==
    ASSUME NEW e, EvalFields \subseteq DOMAIN e, NEW v, NEW x
    PROVE  SameMk(e, Assign(e, v, x))
  BY DEF EvalFields, Assign, SameMk

\* The same of an observation.
LEMMA ObserveMk ==
    ASSUME NEW e, EvalFields \subseteq DOMAIN e, NEW l, NEW x
    PROVE  SameMk(e, Observe(e, l, x))
  BY DEF EvalFields, Observe, SameMk

\* The same of a command result.
LEMMA StoreMk ==
    ASSUME NEW e, EvalFields \subseteq DOMAIN e, NEW c
    PROVE  SameMk(e, Store(e, c))
  BY DEF EvalFields, Store, SameMk

\* What evaluating a line does to the Makefile cache: nothing, or a file that
\* was not in it is read.
ReadsOne(e, r, l, mt, co) ==
    /\ l.arg \notin DOMAIN e.mk
    /\ r.mk = Set(e.mk, l.arg, Snapshot(mt, co, l.arg))

\* $(V) and the assignments read no Makefile.
LEMMA EvalVarMk ==
    ASSUME NEW e, NEW l, EvalFields \subseteq DOMAIN e, l.op \in VarOps
    PROVE  SameMk(e, EvalVar(l, e))
  <1>1. CASE l.op = "var"
    <2> DEFINE e1 == Lookup(e, l.arg)
    <2>1. EvalVar(l, e) = Observe(e1, l, e.val[l.arg])
      BY <1>1 DEF EvalVar
    <2>2. SameMk(e, e1)
      BY LookupMk
    <2> HIDE DEF e1
    <2>3. SameMk(e1, EvalVar(l, e))
      BY <2>1, <2>2, ObserveMk DEF SameMk
    <2> QED BY <2>2, <2>3 DEF SameMk
  <1>2. CASE l.op = "default"
    <2> DEFINE e1 == Lookup(e, l.arg)
    <2>1. EvalVar(l, e) = Assign(e1, l.arg, l.text) \/ EvalVar(l, e) = e1
      BY <1>2 DEF EvalVar
    <2>2. SameMk(e, e1)
      BY LookupMk
    <2> HIDE DEF e1
    <2>3. SameMk(e1, EvalVar(l, e))
      BY <2>1, <2>2, AssignMk DEF SameMk
    <2> QED BY <2>2, <2>3 DEF SameMk
  <1>3. CASE l.op = "set"
    <2>1. EvalVar(l, e) = Assign(e, l.arg, l.text)
      BY <1>3 DEF EvalVar
    <2> QED BY <2>1, AssignMk
  <1>4. CASE l.op = "export"
    <2>1. EvalVar(l, e) = [e EXCEPT !.exports = Set(@, l.arg, TRUE)]
      BY <1>4 DEF EvalVar
    <2> QED BY <2>1 DEF EvalFields, SameMk
  <1>5. CASE l.op = "unexport"
    <2>1. EvalVar(l, e) = [e EXCEPT !.exports = Set(@, l.arg, FALSE)]
      BY <1>5 DEF EvalVar
    <2> QED BY <2>1 DEF EvalFields, SameMk
  <1> QED BY <1>1, <1>2, <1>3, <1>4, <1>5 DEF VarOps

\* Glob fills the glob cache only.
LEMMA GlobMk ==
    ASSUME NEW e, NEW g, NEW mt, EvalFields \subseteq DOMAIN e
    PROVE  SameMk(e, Glob(e, mt, g))
  BY DEF Glob, EvalFields, SameMk

\* So does $(wildcard).
LEMMA EvalGlobMk ==
    ASSUME NEW e, NEW l, NEW mt, EvalFields \subseteq DOMAIN e
    PROVE  SameMk(e, EvalGlob(l, e, mt))
  <1> DEFINE e1 == Glob(e, mt, l.arg)
  <1>1. EvalGlob(l, e, mt) = Observe(e1, l, e1.globs[l.arg])
    BY DEF EvalGlob
  <1>2. SameMk(e, e1)
    BY GlobMk
  <1> HIDE DEF e1
  <1>3. SameMk(e1, EvalGlob(l, e, mt))
    BY <1>1, <1>2, ObserveMk DEF SameMk
  <1> QED BY <1>2, <1>3 DEF SameMk

\* ReadMakefile reads a file at most once.
LEMMA ReadMakefileMk ==
    ASSUME NEW e, NEW mt, NEW co, NEW f, EvalFields \subseteq DOMAIN e
    PROVE  /\ EvalFields \subseteq DOMAIN ReadMakefile(e, mt, co, f)
           /\ \/ ReadMakefile(e, mt, co, f).mk = e.mk
              \/ /\ f \notin DOMAIN e.mk
                 /\ ReadMakefile(e, mt, co, f).mk = Set(e.mk, f, Snapshot(mt, co, f))
  BY DEF ReadMakefile, EvalFields

\* include reads the file it names unless it was read before.
LEMMA EvalIncludeMk ==
    ASSUME NEW e, NEW l, NEW mt, NEW co, EvalFields \subseteq DOMAIN e
    PROVE  \/ SameMk(e, EvalInclude(l, e, mt, co))
           \/ /\ EvalFields \subseteq DOMAIN EvalInclude(l, e, mt, co)
              /\ ReadsOne(e, EvalInclude(l, e, mt, co), l, mt, co)
  <1> DEFINE g == Glob(e, mt, l.arg)
             m == ReadMakefile(g, mt, co, l.arg)
  <1>1. SameMk(e, g)
    BY GlobMk
  <1>3. EvalInclude(l, e, mt, co) =
          [m EXCEPT !.prog = m.mk[l.arg].data \o @,
                    !.req = IF l.op = "include" THEN @ \cup {l.arg} ELSE @]
    BY DEF EvalInclude
  <1> HIDE DEF g
  <1>2. /\ EvalFields \subseteq DOMAIN m
        /\ m.mk = g.mk \/ (l.arg \notin DOMAIN g.mk /\ m.mk = Set(g.mk, l.arg, Snapshot(mt, co, l.arg)))
    BY <1>1, ReadMakefileMk DEF SameMk
  <1> HIDE DEF m
  <1>4. SameMk(m, EvalInclude(l, e, mt, co))
    BY <1>2, <1>3 DEF EvalFields, SameMk
  <1> QED BY <1>1, <1>2, <1>4 DEF ReadsOne, SameMk

\* $(shell) fills the caches of the find emulator and the command results.
LEMMA EvalShellMk ==
    ASSUME NEW e, NEW l, NEW mt, NEW co, EvalFields \subseteq DOMAIN e
    PROVE  SameMk(e, EvalShell(l, e, mt, co))
  <1> DEFINE root == IF l.op # "find" THEN {} ELSE
                     IF e.root = None THEN {d \in Dirs : Exists(mt, d)} ELSE e.root.dirs
             e0 == IF l.op = "find" THEN [e EXCEPT !.root = [none |-> FALSE, dirs |-> root]]
                                    ELSE e
             e1 == IF l.arg \in root /\ l.arg \notin DOMAIN e0.dirs
                   THEN [e0 EXCEPT !.dirs = Set(@, l.arg, Listing(mt, l.arg))] ELSE e0
  <1>1. SameMk(e, e0)
    <2> HIDE DEF root
    <2> QED BY DEF EvalFields, SameMk
  <1>2. SameMk(e0, e1)
    <2> HIDE DEF root, e0
    <2> QED BY <1>1 DEF EvalFields, SameMk
  <1>3. \E c, x : EvalShell(l, e, mt, co) = Observe(Store(e1, c), l, x)
    BY Zenon DEF EvalShell
  <1> HIDE DEF e0, e1
  <1>4. PICK c, x : EvalShell(l, e, mt, co) = Observe(Store(e1, c), l, x)
    BY <1>3
  <1>5. SameMk(e1, Store(e1, c))
    BY <1>2, StoreMk DEF SameMk
  <1>6. SameMk(Store(e1, c), EvalShell(l, e, mt, co))
    BY <1>4, <1>5, ObserveMk DEF SameMk
  <1> QED BY <1>1, <1>2, <1>5, <1>6 DEF SameMk

\* $(file <f) stores a command result.
LEMMA FileReadMk ==
    ASSUME NEW e, NEW l, NEW mt, NEW co, EvalFields \subseteq DOMAIN e
    PROVE  SameMk(e, FileRead(l, e, mt, co))
  <1>1. PICK c : FileRead(l, e, mt, co) = Observe(Store(e, c), l, co[l.arg])
    BY Zenon DEF FileRead
  <1>2. SameMk(e, Store(e, c))
    BY StoreMk
  <1>3. SameMk(Store(e, c), FileRead(l, e, mt, co))
    BY <1>1, <1>2, ObserveMk DEF SameMk
  <1> QED BY <1>2, <1>3 DEF SameMk

\* So does $(file >f).
LEMMA FileWriteMk ==
    ASSUME NEW e, NEW l, NEW mt, EvalFields \subseteq DOMAIN e
    PROVE  SameMk(e, FileWrite(l, e, mt))
  <1>1. SameMk(e, [e EXCEPT !.failed = TRUE])
    BY DEF EvalFields, SameMk
  <1> QED BY <1>1, StoreMk DEF FileWrite

\* One line of a Makefile reads at most one file, and then writes none.
LEMMA EvalLineMk ==
    ASSUME NEW st, NEW l, EvalFields \subseteq DOMAIN st.ev
    PROVE  LET r == EvalLine(l, st) IN
           /\ EvalFields \subseteq DOMAIN r.ev
           /\ \/ r.ev.mk = st.ev.mk
              \/ /\ ReadsOne(st.ev, r.ev, l, st.mtime, st.content)
                 /\ r.mtime = st.mtime /\ r.content = st.content
  <1> DEFINE r == EvalLine(l, st)
  <1>1. CASE l.op \in VarOps
    <2>1. r.ev = EvalVar(l, st.ev)
      BY <1>1 DEF EvalLine, VarOps, ShellOps
    <2> QED BY <1>1, <2>1, EvalVarMk DEF SameMk
  <1>2. CASE l.op = "glob"
    <2>1. r.ev = EvalGlob(l, st.ev, st.mtime)
      BY <1>2 DEF EvalLine, VarOps, ShellOps
    <2> QED BY <2>1, EvalGlobMk DEF SameMk
  <1>3. CASE l.op \in {"include", "sinclude"}
    <2>1. r.ev = EvalInclude(l, st.ev, st.mtime, st.content)
      BY <1>3 DEF EvalLine, VarOps, ShellOps
    <2>2. r.mtime = st.mtime /\ r.content = st.content
      BY <1>3 DEF EvalLine, Writes, WriteOps
    <2> QED BY <2>1, <2>2, EvalIncludeMk DEF SameMk
  <1>4. CASE l.op \in ShellOps
    <2>1. r.ev = EvalShell(l, st.ev, st.mtime, st.content)
      BY <1>4 DEF EvalLine, VarOps, ShellOps
    <2> QED BY <2>1, EvalShellMk DEF SameMk
  <1>5. CASE l.op = "read"
    <2>1. r.ev = FileRead(l, st.ev, st.mtime, st.content)
      BY <1>5 DEF EvalLine, VarOps, ShellOps
    <2> QED BY <2>1, FileReadMk DEF SameMk
  <1>6. CASE l.op \in {"write", "append"}
    <2>1. r.ev = FileWrite(l, st.ev, st.mtime)
      BY <1>6 DEF EvalLine, VarOps, ShellOps
    <2> QED BY <2>1, FileWriteMk DEF SameMk
  <1>7. CASE ~ (l.op \in VarOps \cup {"glob", "include", "sinclude", "read", "write", "append"}
                             \cup ShellOps)
    <2>1. /\ ~(l.op \in VarOps) /\ ~(l.op = "glob") /\ ~(l.op \in {"include", "sinclude"})
          /\ ~(l.op \in ShellOps) /\ ~(l.op = "read") /\ ~(l.op \in {"write", "append"})
      BY <1>7
    <2>2. r.ev = st.ev
      BY <2>1, Zenon DEF EvalLine
    <2> QED BY <2>2
  <1> QED BY Zenon, <1>1, <1>2, <1>3, <1>4, <1>5, <1>6, <1>7

-----------------------------------------------------------------------------
(* Type correctness.                                                       *)

\* What TypeOK says of a world.
WorldOK(mt, co) == mt \in [Path -> Nat \cup {NotExist}] /\ DOMAIN co = Path

\* At most one file is written, at time t.
OneWrite(mt, co, t, mt2, co2) ==
    \/ mt2 = mt /\ co2 = co
    \/ \E p, x : mt2 = Touch(mt, p, t) /\ co2 = [co EXCEPT ![p] = x]

\* Such a step keeps the world well typed.
LEMMA OneWriteType ==
    ASSUME NEW mt, NEW co, NEW t \in Nat, NEW mt2, NEW co2,
           WorldOK(mt, co), OneWrite(mt, co, t, mt2, co2)
    PROVE  WorldOK(mt2, co2)
  <1>1. CASE mt2 = mt /\ co2 = co
    BY <1>1
  <1>2. ASSUME NEW p, NEW x, mt2 = Touch(mt, p, t), co2 = [co EXCEPT ![p] = x]
        PROVE  WorldOK(mt2, co2)
    <2>1. mt2 \in [Path -> Nat \cup {NotExist}]
      BY <1>2, TouchType DEF WorldOK
    <2>2. DOMAIN co2 = Path
      BY <1>2 DEF WorldOK
    <2> QED BY <2>1, <2>2 DEF WorldOK
  <1> QED BY <1>1, <1>2 DEF OneWrite

\* An Eval step reads at most one Makefile, writes at most one file, at the
\* next time, and never does both.
LEMMA EvalStep ==
    ASSUME Eval, EvalFields \subseteq DOMAIN ev
    PROVE  /\ OneWrite(mtime, content, clock + 1, mtime', content')
           /\ EvalFields \subseteq DOMAIN ev'
           /\ \/ ev'.mk = ev.mk
              \/ \E f : /\ ev'.mk = Set(ev.mk, f, Snapshot(mtime, content, f))
                        /\ mtime' = mtime /\ content' = content
  <1>1. PICK st : st = [ev |-> ev, mtime |-> mtime, content |-> content, now |-> clock + 1]
    OBVIOUS
  <1>2. PICK s : s = Pop(st)
    OBVIOUS
  <1>3. /\ s.mtime = mtime /\ s.content = content /\ s.now = clock + 1
        /\ s.ev = [ev EXCEPT !.prog = Tail(@)]
    BY <1>1, <1>2 DEF Pop
  <1>4. EvalFields \subseteq DOMAIN s.ev /\ s.ev.mk = ev.mk
    BY <1>3 DEF EvalFields
  <1>5. PICK l : l = Head(ev.prog)
    OBVIOUS
  <1>6. PICK r : r = EvalLine(l, s)
    OBVIOUS
  <1>7. EvalNext(st) = r
    <2>1. st.ev = ev
      BY <1>1
    <2> QED BY <1>2, <1>5, <1>6, <2>1 DEF EvalNext, Eval
  <1>8. mtime' = r.mtime /\ content' = r.content /\ ev' = r.ev
    BY <1>1, <1>7 DEF Eval
  <1>9. OneWrite(mtime, content, clock + 1, mtime', content')
    <2>1. \/ r.mtime = s.mtime /\ r.content = s.content
          \/ /\ r.mtime = Touch(s.mtime, l.arg, s.now)
             /\ r.content = [s.content EXCEPT ![l.arg] = Written(l, s.content)]
      BY <1>6, EvalLineFiles
    <2>2. \/ mtime' = mtime /\ content' = content
          \/ /\ mtime' = Touch(mtime, l.arg, clock + 1)
             /\ content' = [content EXCEPT ![l.arg] = Written(l, content)]
      BY <1>3, <1>8, <2>1
    <2> QED BY <2>2, Zenon DEF OneWrite
  <1>10. /\ EvalFields \subseteq DOMAIN r.ev
         /\ \/ r.ev.mk = s.ev.mk
            \/ /\ ReadsOne(s.ev, r.ev, l, s.mtime, s.content)
               /\ r.mtime = s.mtime /\ r.content = s.content
    BY <1>4, <1>6, EvalLineMk
  <1> QED BY <1>3, <1>4, <1>8, <1>9, <1>10 DEF ReadsOne

\* The evaluator of a new process has these fields.
LEMMA NewEvaluatorFields ==
    ASSUME NEW e, NEW bin
    PROVE  EvalFields \subseteq DOMAIN NewEvaluator(e, bin)
  BY DEF EvalFields, NewEvaluator

\* Reading the top-level Makefile is a ReadMakefile.
LEMMA BeginStep ==
    ASSUME NEW e, NEW mt, NEW co, EvalFields \subseteq DOMAIN e
    PROVE  /\ EvalFields \subseteq DOMAIN BeginEval(e, mt, co)
           /\ \/ BeginEval(e, mt, co).mk = e.mk
              \/ BeginEval(e, mt, co).mk = Set(e.mk, Makefile, Snapshot(mt, co, Makefile))
  <1> DEFINE m == ReadMakefile(e, mt, co, Makefile)
  <1>1. BeginEval(e, mt, co) = [m EXCEPT !.prog = m.mk[Makefile].data]
    BY DEF BeginEval
  <1>2. /\ EvalFields \subseteq DOMAIN m
        /\ m.mk = e.mk \/ m.mk = Set(e.mk, Makefile, Snapshot(mt, co, Makefile))
    BY ReadMakefileMk
  <1> HIDE DEF m
  <1> QED BY <1>1, <1>2 DEF EvalFields

\* Every step keeps the fields of the evaluator.
LEMMA FieldsStep ==
    ASSUME EvalFields \subseteq DOMAIN ev, [Next]_vars
    PROVE  EvalFields \subseteq DOMAIN ev'
  <1>1. ev' = ev \/ (\E e, bin : ev' = NewEvaluator(e, bin)) \/ Begin \/ Eval \/ SetEnv
    <2>1. CASE Check
      BY <2>1 DEF Check, CheckStep1, CheckGlob, CheckCommand, CheckCommandError, CheckFinish,
                  Regenerate, Exit
    <2>2. CASE Evaluate
      BY <2>2 DEF Evaluate, EvalError, MakeMakefiles, Exit
    <2>3. CASE Generate
      BY <2>3 DEF Generate, UnlinkStamp, OpenNinja, WriteNinja, OpenScript,
                  WriteScript, OpenTmp, WriteTmp, RenameStamp, Goto, Exit
    <2>4. CASE User
      BY <2>4 DEF User, Start, EditFile, RemoveFile, RemoveOutput, AnEdit
    <2>5. CASE Kill
      BY <2>5 DEF Kill, Exit
    <2>6. CASE UNCHANGED vars
      BY <2>6 DEF vars
    <2> QED BY <2>1, <2>2, <2>3, <2>4, <2>5, <2>6 DEF Next, Kati
  <1>2. CASE Begin
    BY <1>2, BeginStep DEF Begin
  <1>3. CASE Eval
    BY <1>3, EvalStep
  <1>4. CASE SetEnv
    BY <1>4 DEF SetEnv, EvalFields
  <1> QED BY <1>1, <1>2, <1>3, <1>4, NewEvaluatorFields

\* The times of the stamps: only Start changes start_time, and it grows; the
\* check and the generator write start_time itself.
LEMMA StampTimesStep ==
  ASSUME TypeOK, [Next]_vars
  PROVE  StampTimes'
  <1> USE DEF StampTimes
  <1>0. start \in Nat /\ StampTimes
    BY DEF TypeOK
  <1>1. ASSUME stamp' = stamp, tmp' = tmp, start' \in Nat, start <= start'
        PROVE  StampTimes'
    BY <1>0, <1>1
  <1>2. CASE Check
    <2>1. CASE CheckFinish
      <3>1. start' = start
        BY <2>1 DEF CheckFinish, run
      <3>2. CASE UNCHANGED disk
        BY <1>0, <1>1, <3>1, <3>2 DEF disk
      <3>3. CASE stamp' = Renewed /\ tmp' = tmp
        BY <1>0, <3>1, <3>3 DEF Renewed
      <3> QED BY <2>1, <3>2, <3>3 DEF CheckFinish
    <2>2. CASE CheckStep1 \/ CheckGlob \/ CheckCommand \/ CheckCommandError
      BY <1>0, <1>1, <2>2 DEF CheckStep1, CheckGlob, CheckCommand, CheckCommandError, disk, run
    <2> QED BY <1>2, <2>1, <2>2 DEF Check
  <1>3. CASE Evaluate
    BY <1>0, <1>1, <1>3 DEF Evaluate, Begin, Eval, EvalError, SetEnv, MakeMakefiles, disk, run
  <1>4. CASE Generate
    <2>1. CASE OpenNinja \/ WriteNinja \/ OpenScript \/ WriteScript
      BY <1>0, <1>1, <2>1 DEF OpenNinja, WriteNinja, OpenScript, WriteScript, Goto, run
    <2>2. CASE UnlinkStamp
      BY <1>0, <2>2 DEF UnlinkStamp, Goto, None, run
    <2>3. CASE OpenTmp
      BY <1>0, <2>3 DEF OpenTmp, Goto, Partial, run
    <2>4. CASE WriteTmp
      BY <1>0, <2>4 DEF WriteTmp, Goto, run
    <2>5. CASE RenameStamp
      BY <1>0, <2>5 DEF RenameStamp, None, run
    <2> QED BY <1>4, <2>1, <2>2, <2>3, <2>4, <2>5 DEF Generate
  <1>5. CASE User
    <2>1. CASE Start
      BY <1>0, <1>1, <2>1 DEF TypeOK, Start, disk
    <2>2. CASE EditFile \/ RemoveFile
      BY <1>0, <1>1, <2>2 DEF EditFile, RemoveFile, AnEdit, disk, run
    <2>3. CASE RemoveOutput
      BY <1>0, <2>3 DEF RemoveOutput, AnEdit, None, run
    <2> QED BY <1>5, <2>1, <2>2, <2>3 DEF User
  <1>6. CASE Kill
    BY <1>0, <1>1, <1>6 DEF Kill, disk, run
  <1>7. CASE UNCHANGED vars
    BY <1>0, <1>1, <1>7 DEF vars, disk, run
  <1> QED BY <1>2, <1>3, <1>4, <1>5, <1>6, <1>7 DEF Next, Kati

\* Type correctness of Regen; a stamp's time is never after start_time.
THEOREM TypeCorrect == Spec => []TypeOK
  <1>1. Init => TypeOK
    BY ConstantsAssumption DEF Init, TypeOK, StampTimes, None, Modes, NotExist
  <1>2. TypeOK /\ EvalFields \subseteq DOMAIN ev /\ [Next]_vars => TypeOK'
    <2> SUFFICES ASSUME TypeOK, EvalFields \subseteq DOMAIN ev, [Next]_vars PROVE TypeOK'
      OBVIOUS
    <2>0. StampTimes'
      BY StampTimesStep
    <2> USE ConstantsAssumption, <2>0
    <2>1. CASE Check
      <3>1. CASE CheckStep1
        BY <3>1 DEF TypeOK, CheckStep1, Regenerate, Exit, world, run, user
      <3>2. CASE CheckGlob
        BY <3>2 DEF TypeOK, CheckGlob, world, run, user
      <3>3. CASE CheckCommand
        BY <3>3, TouchType DEF TypeOK, CheckCommand, world, run, user
      <3>4. CASE CheckCommandError
        BY <3>4 DEF TypeOK, CheckCommandError, Exit, world, run, user
      <3>5. CASE CheckFinish
        BY <3>5 DEF TypeOK, CheckFinish, Regenerate, Exit, world, run, user
      <3> QED BY <2>1, <3>1, <3>2, <3>3, <3>4, <3>5 DEF Check
    <2>2. CASE Evaluate
      <3>1. CASE Begin
        BY <3>1 DEF TypeOK, Begin, world, run, user
      <3>2. CASE Eval
        <4>1. WorldOK(mtime', content')
          <5>1. OneWrite(mtime, content, clock + 1, mtime', content')
            BY <3>2, EvalStep
          <5>2. clock + 1 \in Nat /\ WorldOK(mtime, content)
            BY DEF TypeOK, WorldOK
          <5> QED BY <5>1, <5>2, OneWriteType
        <4> QED BY <3>2, <4>1 DEF TypeOK, Eval, WorldOK, run, user
      <3>3. CASE EvalError
        BY <3>3 DEF TypeOK, EvalError, Exit, world, run, user
      <3>4. CASE SetEnv
        BY <3>4 DEF TypeOK, SetEnv, world, run, user
      <3>5. CASE MakeMakefiles
        BY <3>5 DEF TypeOK, MakeMakefiles, Exit, world, run, user
      <3> QED BY <2>2, <3>1, <3>2, <3>3, <3>4, <3>5 DEF Evaluate
    <2>3. CASE Generate
      BY <2>3 DEF TypeOK, Generate, UnlinkStamp, OpenNinja, WriteNinja, OpenScript,
                  WriteScript, OpenTmp, WriteTmp, RenameStamp, Goto, Exit, world, run, user
    <2>4. CASE User
      <3>1. CASE Start
        BY <3>1 DEF TypeOK, Start, world, user
      <3>2. CASE EditFile
        BY <3>2, TouchType DEF TypeOK, EditFile, AnEdit, run
      <3>3. CASE RemoveFile
        BY <3>3, UnlinkType DEF TypeOK, RemoveFile, AnEdit, run
      <3>4. CASE RemoveOutput
        BY <3>4 DEF TypeOK, RemoveOutput, AnEdit, run, world
      <3> QED BY <2>4, <3>1, <3>2, <3>3, <3>4 DEF User
    <2>5. CASE Kill
      BY <2>5 DEF TypeOK, Kill, Exit, world, run, user
    <2>6. CASE UNCHANGED vars
      BY <2>6 DEF TypeOK, vars, world, run, user
    <2> QED BY <2>1, <2>2, <2>3, <2>4, <2>5, <2>6 DEF Next, Kati
  <1>3. Init => EvalFields \subseteq DOMAIN ev
    BY NewEvaluatorFields DEF Init
  <1>4. EvalFields \subseteq DOMAIN ev /\ [Next]_vars => (EvalFields \subseteq DOMAIN ev)'
    BY FieldsStep
  <1> QED BY <1>1, <1>2, <1>3, <1>4, PTL DEF Spec

-----------------------------------------------------------------------------
(* Crash safety.  StampImpliesNinja alone is not inductive: the rename that *)
(* creates the stamp must know that this run has completed both outputs and *)
(* the temporary file, and that the stamp of an earlier run is gone since    *)
(* UnlinkStamp.                                                             *)

\* An output that exists is complete and was written by the run started at t.
WrittenBy(out, t) == out # None => out.complete /\ out.by = t

GenInv ==
    /\ stamp # None => StampFields \subseteq DOMAIN stamp
    /\ pc \in {"openNinja", "ninja", "openScript", "script", "openTmp", "tmp", "rename"}
          => stamp = None
    /\ pc \in {"openScript", "script", "openTmp", "tmp", "rename"} => WrittenBy(ninja, start)
    /\ pc \in {"openTmp", "tmp", "rename"} => WrittenBy(script, start)
    /\ pc = "rename" => /\ StampFields \subseteq DOMAIN tmp
                        /\ tmp.complete /\ tmp.by = start
    /\ StampImpliesNinja

\* However often kati is killed, a stamp on the disk belongs to a complete
\* build.ninja and ninja.sh of the run that wrote it.
THEOREM CrashSafe == Spec => []StampImpliesNinja
  <1>1. Init => GenInv
    BY DEF Init, GenInv, StampImpliesNinja
  <1>2. GenInv /\ [Next]_vars => GenInv'
    <2> SUFFICES ASSUME GenInv, [Next]_vars PROVE GenInv'
      OBVIOUS
    <2> USE DEF GenInv, StampImpliesNinja, WrittenBy
    <2>1. CASE Check
      <3>1. CASE CheckStep1
        BY <3>1 DEF CheckStep1, Regenerate, Exit, disk, run
      <3>2. CASE CheckGlob
        BY <3>2 DEF CheckGlob, disk, run
      <3>3. CASE CheckCommand
        BY <3>3 DEF CheckCommand, disk, run
      <3>4. CASE CheckCommandError
        BY <3>4 DEF CheckCommandError, Exit, disk, run
      <3>5. CASE CheckFinish
        <4>1. CASE chk.needs \/ stamp = None
          BY <3>5, <4>1 DEF CheckFinish, Regenerate, Exit, disk, run
        <4>2. CASE ~(chk.needs \/ stamp = None)
          <5>1. /\ stamp' = [stamp EXCEPT !.time = start] /\ pc' = "idle"
                /\ ninja' = ninja /\ script' = script
            BY <3>5, <4>2 DEF CheckFinish, Exit, Renewed
          <5>2. /\ StampFields \subseteq DOMAIN stamp'
                /\ stamp'.complete = stamp.complete /\ stamp'.by = stamp.by
            BY <4>2, <5>1 DEF StampFields
          <5> QED BY <4>2, <5>1, <5>2
        <4> QED BY <4>1, <4>2
      <3> QED BY <2>1, <3>1, <3>2, <3>3, <3>4, <3>5 DEF Check
    <2>2. CASE Evaluate
      BY <2>2 DEF Evaluate, Begin, Eval, EvalError, SetEnv, MakeMakefiles, Exit, disk, run
    <2>3. CASE Generate
      <3>1. CASE UnlinkStamp
        BY <3>1 DEF UnlinkStamp, Goto, run
      <3>2. CASE OpenNinja
        BY <3>2 DEF OpenNinja, Goto, run
      <3>3. CASE WriteNinja
        BY <3>3 DEF WriteNinja, Goto, Output, run
      <3>4. CASE OpenScript
        BY <3>4 DEF OpenScript, Goto, run
      <3>5. CASE WriteScript
        BY <3>5 DEF WriteScript, Goto, Output, run
      <3>6. CASE OpenTmp
        BY <3>6 DEF OpenTmp, Goto, run
      <3>7. CASE WriteTmp
        <4>1. /\ StampFields \subseteq DOMAIN tmp'
              /\ tmp'.complete /\ tmp'.by = start
          BY <3>7 DEF WriteTmp, StampFields
        <4> QED BY <3>7, <4>1 DEF WriteTmp, Goto, run
      <3>8. CASE RenameStamp
        BY <3>8 DEF RenameStamp, Exit, run
      <3> QED BY <2>3, <3>1, <3>2, <3>3, <3>4, <3>5, <3>6, <3>7, <3>8 DEF Generate
    <2>4. CASE User
      BY <2>4 DEF User, Start, EditFile, RemoveFile, RemoveOutput, AnEdit, disk, run
    <2>5. CASE Kill
      BY <2>5 DEF Kill, Exit, disk, run
    <2>6. CASE UNCHANGED vars
      BY <2>6 DEF vars, disk, run
    <2> QED BY <2>1, <2>2, <2>3, <2>4, <2>5, <2>6 DEF Next, Kati
  <1>3. GenInv => StampImpliesNinja
    BY DEF GenInv
  <1> QED BY <1>1, <1>2, <1>3, PTL DEF Spec

-----------------------------------------------------------------------------
(* Soundness of comparing modification times.  The evaluator covers what it *)
(* has read since start; a check that found nothing dirty in CheckStep1     *)
(* knows that a file of the stamp is either still as old as the stamp or    *)
(* was changed after start, so moving the stamp's time to start loses       *)
(* nothing.                                                                 *)

\* From (mt, co) to (mt2, co2) every path that changes gets a time after t or
\* disappears.
WorldStep(mt, co, t, mt2, co2) ==
    \A p \in Path :
        mt2[p] > t \/ mt2[p] = NotExist \/ (mt2[p] = mt[p] /\ co2[p] = co[p])

\* The files of mk that are not ignored have not changed between t and s.
Unchanged(mt, mk, t, s) ==
    \A f \in Path \ IgnoreDirty : f \in DOMAIN mk =>
        mt[f] > s \/ mt[f] = NotExist \/ mt[f] <= t

\* A step of the world keeps what is covered.
LEMMA CoversStep ==
    ASSUME NEW mt, NEW co, NEW t \in Nat, NEW c \in Nat, NEW mt2, NEW co2, NEW mk,
           WorldOK(mt, co), WorldOK(mt2, co2), WorldStep(mt, co, c, mt2, co2), t <= c,
           Covers(mt, co, mk, t)
    PROVE  Covers(mt2, co2, mk, t)
  BY DEF WorldOK, WorldStep, Covers, Snapshot, Exists, NotExist

\* And what is unchanged.
LEMMA UnchangedStep ==
    ASSUME NEW mt, NEW co, NEW t \in Nat, NEW s \in Nat, NEW c \in Nat, NEW mt2, NEW co2, NEW mk,
           WorldOK(mt, co), WorldOK(mt2, co2), WorldStep(mt, co, c, mt2, co2), s <= c,
           Unchanged(mt, mk, t, s)
    PROVE  Unchanged(mt2, mk, t, s)
  BY DEF WorldOK, WorldStep, Unchanged, NotExist

\* A write at time c + 1 is a step of the world.
LEMMA OneWriteStep ==
    ASSUME NEW mt, NEW co, NEW c \in Nat, NEW mt2, NEW co2,
           WorldOK(mt, co), OneWrite(mt, co, c + 1, mt2, co2)
    PROVE  WorldStep(mt, co, c, mt2, co2)
  <1>1. CASE mt2 = mt /\ co2 = co
    BY <1>1 DEF WorldStep
  <1>2. ASSUME NEW p, NEW x, mt2 = Touch(mt, p, c + 1), co2 = [co EXCEPT ![p] = x],
               NEW q \in Path
        PROVE  mt2[q] > c \/ mt2[q] = NotExist \/ (mt2[q] = mt[q] /\ co2[q] = co[q])
    <2>1. mt2[q] = c + 1 \/ (q # p /\ mt2[q] = mt[q])
      BY <1>2 DEF Touch
    <2>2. q # p => co2[q] = co[q]
      BY <1>2 DEF WorldOK
    <2> QED BY <2>1, <2>2
  <1> QED BY <1>1, <1>2 DEF OneWrite, WorldStep

\* Reading a file adds something covered.
LEMMA CoversRead ==
    ASSUME NEW mt, NEW co, NEW t, NEW mk, NEW f, Covers(mt, co, mk, t)
    PROVE  Covers(mt, co, Set(mk, f, Snapshot(mt, co, f)), t)
  BY DEF Covers, Set

\* Every step is a step of the world: edits and kati's own writes are later
\* than everything before them.
LEMMA NextWorld ==
    ASSUME TypeOK, EvalFields \subseteq DOMAIN ev, [Next]_vars
    PROVE  WorldStep(mtime, content, clock, mtime', content') /\ clock <= clock'
  <1>0. WorldOK(mtime, content) /\ clock \in Nat
    BY DEF TypeOK, WorldOK
  <1>1. CASE UNCHANGED world
    <2>1. mtime' = mtime /\ content' = content
      BY <1>1 DEF world
    <2>2. clock' = clock \/ clock' = clock + 1
      <3>1. CASE Check
        BY <3>1 DEF Check, CheckStep1, CheckGlob, CheckCommand, CheckCommandError, CheckFinish
      <3>2. CASE Evaluate
        BY <3>2 DEF Evaluate, Begin, Eval, EvalError, SetEnv, MakeMakefiles
      <3>3. CASE Generate
        BY <3>3 DEF Generate, UnlinkStamp, OpenNinja, WriteNinja, OpenScript,
                    WriteScript, OpenTmp, WriteTmp, RenameStamp, Goto
      <3>4. CASE User \/ Kill
        BY <3>4 DEF User, Kill, Start, EditFile, RemoveFile, RemoveOutput, AnEdit
      <3>5. CASE UNCHANGED vars
        BY <3>5 DEF vars
      <3> QED BY <3>1, <3>2, <3>3, <3>4, <3>5 DEF Next, Kati
    <2> QED BY <1>0, <2>1, <2>2 DEF WorldStep
  <1>2. CASE CheckCommand
    <2>1. PICK p, x : \/ UNCHANGED <<clock, world>>
                      \/ /\ clock' = clock + 1
                         /\ mtime' = Touch(mtime, p, clock + 1)
                         /\ content' = [content EXCEPT ![p] = x]
      BY <1>2, Zenon DEF CheckCommand
    <2>2. OneWrite(mtime, content, clock + 1, mtime', content')
      BY <2>1, Zenon DEF OneWrite, world
    <2>3. clock <= clock'
      BY <1>0, <2>1
    <2> QED BY <1>0, <2>2, <2>3, OneWriteStep
  <1>3. CASE Eval
    <2>1. OneWrite(mtime, content, clock + 1, mtime', content')
      BY <1>3, EvalStep
    <2>2. clock <= clock'
      BY <1>0, <1>3 DEF Eval
    <2> QED BY <1>0, <2>1, <2>2, OneWriteStep
  <1>4. CASE EditFile
    <2>1. PICK p, x : mtime' = Touch(mtime, p, clock + 1) /\ content' = [content EXCEPT ![p] = x]
      BY <1>4, Zenon DEF EditFile
    <2>2. OneWrite(mtime, content, clock + 1, mtime', content')
      BY <2>1, Zenon DEF OneWrite
    <2>3. clock <= clock'
      BY <1>0, <1>4 DEF EditFile, AnEdit
    <2> QED BY <1>0, <2>2, <2>3, OneWriteStep
  <1>5. CASE RemoveFile
    <2>1. PICK p : /\ mtime' = Unlink(mtime, p, clock + 1)
                   /\ content' = [content EXCEPT ![p] = << >>]
      BY <1>5, Zenon DEF RemoveFile
    <2>2. ASSUME NEW q \in Path
          PROVE  \/ mtime'[q] > clock \/ mtime'[q] = NotExist
                 \/ mtime'[q] = mtime[q] /\ content'[q] = content[q]
      <3>1. mtime'[q] = NotExist \/ mtime'[q] = clock + 1 \/ (q # p /\ mtime'[q] = mtime[q])
        BY <2>1 DEF Unlink
      <3>2. q # p => content'[q] = content[q]
        BY <1>0, <2>1 DEF WorldOK
      <3> QED BY <1>0, <3>1, <3>2
    <2>3. clock <= clock'
      BY <1>0, <1>5 DEF RemoveFile, AnEdit
    <2> QED BY <2>2, <2>3 DEF WorldStep
  <1>6. UNCHANGED world \/ CheckCommand \/ Eval \/ EditFile \/ RemoveFile
    <2>1. CASE Check
      BY <2>1 DEF Check, CheckStep1, CheckGlob, CheckCommandError, CheckFinish, world
    <2>2. CASE Evaluate
      BY <2>2 DEF Evaluate, Begin, EvalError, SetEnv, MakeMakefiles, world
    <2>3. CASE Generate
      BY <2>3 DEF Generate, UnlinkStamp, OpenNinja, WriteNinja, OpenScript,
                  WriteScript, OpenTmp, WriteTmp, RenameStamp, Goto, world
    <2>4. CASE User \/ Kill
      BY <2>4 DEF User, Kill, Start, RemoveOutput, world
    <2>5. CASE UNCHANGED vars
      BY <2>5 DEF vars, world
    <2> QED BY <2>1, <2>2, <2>3, <2>4, <2>5 DEF Next, Kati
  <1> QED BY <1>1, <1>2, <1>3, <1>4, <1>5, <1>6

CoverInv ==
    /\ pc # "idle" => Covers(mtime, content, ev.mk, start)
    /\ stamp # None => /\ StampFields \subseteq DOMAIN stamp
                       /\ stamp.time \in Nat /\ stamp.time <= clock
    /\ pc = "rename" => /\ StampFields \subseteq DOMAIN tmp
                        /\ tmp.time = start /\ tmp.mk = ev.mk
    /\ pc = "step2" => "needs" \in DOMAIN chk
    /\ pc = "step2" /\ ~chk.needs /\ stamp # None =>
            Unchanged(mtime, stamp.mk, stamp.time, start)
    /\ StampCovers

\* The evaluator's part: what it has read since start stays covered.
LEMMA EvalCovers ==
    ASSUME TypeOK, TypeOK', EvalFields \subseteq DOMAIN ev, CoverInv, [Next]_vars, pc' # "idle"
    PROVE  Covers(mtime', content', ev'.mk, start')
  <1>0. /\ WorldOK(mtime, content) /\ WorldOK(mtime', content')
        /\ WorldStep(mtime, content, clock, mtime', content')
        /\ start \in Nat /\ clock \in Nat /\ start <= clock
    BY NextWorld DEF TypeOK, WorldOK
  <1>1. CASE Start
    <2>1. mtime' = mtime /\ content' = content
      BY <1>1 DEF Start, world
    <2>2. PICK e : ev' = NewEvaluator(e, Snapshot(mtime, content, KatiBinary))
      BY <1>1, Zenon DEF Start
    <2>3. ev'.mk = [p \in {KatiBinary} |-> Snapshot(mtime, content, KatiBinary)]
      BY <2>2 DEF NewEvaluator
    <2> QED BY <2>1, <2>3 DEF Covers
  <1>2. CASE Begin
    <2>1. mtime' = mtime /\ content' = content /\ start' = start
      BY <1>2 DEF Begin, world, run
    <2>2. Covers(mtime, content, ev.mk, start)
      BY <1>2 DEF CoverInv, Begin
    <2>3. ev'.mk = ev.mk \/ ev'.mk = Set(ev.mk, Makefile, Snapshot(mtime, content, Makefile))
      BY <1>2, BeginStep DEF Begin
    <2> QED BY <2>1, <2>2, <2>3, CoversRead
  <1>3. CASE Eval
    <2>1. start' = start /\ Covers(mtime, content, ev.mk, start)
      BY <1>3 DEF CoverInv, Eval, run
    <2>2. CASE ev'.mk = ev.mk
      BY <1>0, <2>1, <2>2, CoversStep
    <2>3. ASSUME NEW f, ev'.mk = Set(ev.mk, f, Snapshot(mtime, content, f)),
                 mtime' = mtime, content' = content
          PROVE  Covers(mtime', content', ev'.mk, start')
      BY <2>1, <2>3, CoversRead
    <2> QED BY <1>3, <2>2, <2>3, EvalStep
  <1>4. CASE ~Start /\ ~Begin /\ ~Eval
    <2>1. pc # "idle" /\ ev'.mk = ev.mk /\ start' = start
      <3>1. CASE Check
        BY <3>1 DEF Check, CheckStep1, CheckGlob, CheckCommand, CheckCommandError, CheckFinish,
                    Regenerate, Exit, run
      <3>2. CASE SetEnv
        BY <3>2 DEF SetEnv, EvalFields, run
      <3>3. CASE EvalError \/ MakeMakefiles
        BY <3>3 DEF EvalError, MakeMakefiles, Exit, run
      <3>4. CASE Generate
        BY <3>4 DEF Generate, UnlinkStamp, OpenNinja, WriteNinja, OpenScript,
                    WriteScript, OpenTmp, WriteTmp, RenameStamp, Goto, Exit, run
      <3>5. CASE EditFile \/ RemoveFile \/ RemoveOutput \/ Kill
        BY <3>5 DEF Kill, EditFile, RemoveFile, RemoveOutput, AnEdit, Exit, run
      <3>6. CASE UNCHANGED vars
        BY <3>6 DEF vars, run
      <3> QED BY <1>4, <3>1, <3>2, <3>3, <3>4, <3>5, <3>6 DEF Next, Kati, Evaluate, User
    <2>2. Covers(mtime, content, ev.mk, start)
      BY <2>1 DEF CoverInv
    <2> QED BY <1>0, <2>1, <2>2, CoversStep
  <1> QED BY <1>1, <1>2, <1>3, <1>4

\* How a step can change the stamp on the disk.
LEMMA StampStep ==
    ASSUME [Next]_vars
    PROVE  \/ stamp' = stamp
           \/ stamp' = None
           \/ RenameStamp
           \/ /\ CheckFinish /\ pc = "step2" /\ ~chk.needs /\ stamp # None
              /\ stamp' = [stamp EXCEPT !.time = start] /\ pc' = "idle"
  <1>1. CASE Check
    BY <1>1 DEF Check, CheckStep1, CheckGlob, CheckCommand, CheckCommandError, CheckFinish,
                Regenerate, Exit, Renewed, disk
  <1>2. CASE Evaluate
    BY <1>2 DEF Evaluate, Begin, Eval, EvalError, SetEnv, MakeMakefiles, disk
  <1>3. CASE Generate
    BY <1>3 DEF Generate, UnlinkStamp, OpenNinja, WriteNinja, OpenScript,
                WriteScript, OpenTmp, WriteTmp
  <1>4. CASE User \/ Kill
    BY <1>4 DEF User, Kill, Start, EditFile, RemoveFile, RemoveOutput, disk
  <1>5. CASE UNCHANGED vars
    BY <1>5 DEF vars, disk
  <1> QED BY <1>1, <1>2, <1>3, <1>4, <1>5 DEF Next, Kati

\* The stamp's part, with the time that a clean check gives it.
LEMMA StampStays ==
    ASSUME TypeOK, TypeOK', EvalFields \subseteq DOMAIN ev, CoverInv, [Next]_vars, stamp' # None
    PROVE  /\ StampFields \subseteq DOMAIN stamp'
           /\ stamp'.time \in Nat /\ stamp'.time <= clock'
           /\ Covers(mtime', content', stamp'.mk, stamp'.time)
  <1>0. /\ WorldOK(mtime, content) /\ WorldOK(mtime', content')
        /\ WorldStep(mtime, content, clock, mtime', content') /\ clock <= clock'
        /\ start \in Nat /\ clock \in Nat /\ clock' \in Nat /\ start <= clock
    BY NextWorld DEF TypeOK, WorldOK
  <1>1. CASE stamp' = stamp
    <2>1. /\ StampFields \subseteq DOMAIN stamp /\ stamp.time \in Nat /\ stamp.time <= clock
          /\ Covers(mtime, content, stamp.mk, stamp.time)
      BY <1>1 DEF CoverInv, StampCovers
    <2>2. Covers(mtime', content', stamp.mk, stamp.time)
      BY <1>0, <2>1, CoversStep
    <2> QED BY <1>0, <1>1, <2>1, <2>2
  <1>2. CASE RenameStamp
    <2>1. /\ pc = "rename" /\ stamp' = tmp /\ mtime' = mtime /\ content' = content
      BY <1>2 DEF RenameStamp, world
    <2>2. /\ StampFields \subseteq DOMAIN tmp /\ tmp.time = start /\ tmp.mk = ev.mk
          /\ Covers(mtime, content, ev.mk, start)
      BY <2>1 DEF CoverInv
    <2> QED BY <1>0, <2>1, <2>2
  <1>3. CASE /\ CheckFinish /\ pc = "step2" /\ ~chk.needs /\ stamp # None
             /\ stamp' = [stamp EXCEPT !.time = start] /\ pc' = "idle"
    <2>1. mtime' = mtime /\ content' = content
      BY <1>3 DEF CheckFinish, world
    <2>2. /\ StampFields \subseteq DOMAIN stamp /\ stamp.time \in Nat
          /\ Covers(mtime, content, stamp.mk, stamp.time)
          /\ Unchanged(mtime, stamp.mk, stamp.time, start)
      BY <1>3 DEF CoverInv, StampCovers
    <2>3. /\ StampFields \subseteq DOMAIN stamp' /\ stamp'.time = start
          /\ stamp'.mk = stamp.mk
      BY <1>3, <2>2 DEF StampFields
    <2>4. Covers(mtime, content, stamp.mk, start)
      BY <1>0, <2>2 DEF Covers, Unchanged, WorldOK, NotExist
    <2> QED BY <1>0, <2>1, <2>3, <2>4
  <1> QED BY <1>1, <1>2, <1>3, StampStep

\* The check's part: what CheckStep1 found clean is clean or edited since.
LEMMA CheckStays ==
    ASSUME TypeOK, TypeOK', EvalFields \subseteq DOMAIN ev, CoverInv, [Next]_vars,
           pc' = "step2"
    PROVE  /\ "needs" \in DOMAIN chk'
           /\ ~chk'.needs /\ stamp' # None =>
                  Unchanged(mtime', stamp'.mk, stamp'.time, start')
  <1>0. /\ WorldOK(mtime, content) /\ WorldOK(mtime', content')
        /\ WorldStep(mtime, content, clock, mtime', content')
        /\ start \in Nat /\ clock \in Nat /\ start <= clock
    BY NextWorld DEF TypeOK, WorldOK
  <1>1. CASE CheckStep1
    <2>1. /\ mtime' = mtime /\ stamp' = stamp /\ start' = start
          /\ "needs" \in DOMAIN chk'
          /\ ~chk'.needs /\ stamp # None => ~Step1Dirty(stamp)
      BY <1>1 DEF CheckStep1, Regenerate, Exit, world, disk, run
    <2>2. stamp # None => stamp.time \in Nat
      BY DEF CoverInv
    <2> QED BY <1>0, <2>1, <2>2 DEF Step1Dirty, FileDirty, Unchanged, WorldOK, NotExist
  <1>2. CASE ~CheckStep1
    <2>1. /\ pc = "step2" /\ start' = start
          /\ stamp' = stamp \/ stamp' = None
          /\ \/ chk' = chk
             \/ \E a, b : chk' = [chk EXCEPT !.needs = @ \/ a, !.globs = b]
             \/ \E a, b : chk' = [chk EXCEPT !.needs = @ \/ a, !.next = b]
      <3>1. CASE CheckGlob
        BY <3>1 DEF CheckGlob, disk, run
      <3>2. CASE CheckCommand
        BY <3>2 DEF CheckCommand, disk, run
      <3>3. CASE CheckCommandError \/ CheckFinish
        BY <3>3 DEF CheckCommandError, CheckFinish, Regenerate, Exit
      <3>4. CASE Evaluate
        BY <3>4 DEF Evaluate, Begin, Eval, EvalError, SetEnv, MakeMakefiles, Exit
      <3>5. CASE Generate
        BY <3>5 DEF Generate, UnlinkStamp, OpenNinja, WriteNinja, OpenScript,
                    WriteScript, OpenTmp, WriteTmp, RenameStamp, Goto, Exit
      <3>6. CASE User \/ Kill
        BY <3>6 DEF User, Kill, Start, EditFile, RemoveFile, RemoveOutput, AnEdit, Exit, disk, run
      <3>7. CASE UNCHANGED vars
        BY <3>7 DEF vars, disk, run
      <3> QED BY <1>2, <3>1, <3>2, <3>3, <3>4, <3>5, <3>6, <3>7 DEF Next, Kati, Check
    <2>2. "needs" \in DOMAIN chk
      BY <2>1 DEF CoverInv
    <2>3. "needs" \in DOMAIN chk' /\ (~chk'.needs => ~chk.needs)
      BY <2>1, <2>2
    <2>4. SUFFICES ASSUME ~chk.needs, stamp' = stamp, stamp # None
                   PROVE  Unchanged(mtime', stamp.mk, stamp.time, start)
      BY <2>1, <2>3
    <2>5. Unchanged(mtime, stamp.mk, stamp.time, start) /\ stamp.time \in Nat
      BY <2>1, <2>4 DEF CoverInv
    <2> QED BY <1>0, <2>5, UnchangedStep
  <1> QED BY <1>1, <1>2

\* The stamp on the disk always covers the Makefiles that build.ninja was
\* generated from.
THEOREM Sound == Spec => []StampCovers
  <1>1. Init => CoverInv
    BY DEF Init, CoverInv, StampCovers
  <1>2. TypeOK /\ TypeOK' /\ EvalFields \subseteq DOMAIN ev /\ CoverInv /\ [Next]_vars
          => CoverInv'
    <2> SUFFICES ASSUME TypeOK, TypeOK', EvalFields \subseteq DOMAIN ev, CoverInv, [Next]_vars
                 PROVE  CoverInv'
      OBVIOUS
    <2>1. pc' = "rename" => /\ StampFields \subseteq DOMAIN tmp'
                            /\ tmp'.time = start' /\ tmp'.mk = ev'.mk
      <3>1. CASE WriteTmp
        BY <3>1 DEF WriteTmp, Goto, StampFields, run
      <3>2. CASE pc' = "rename" /\ ~WriteTmp
        <4>1. pc = "rename" /\ UNCHANGED <<tmp, start, ev>>
          <5>1. CASE Check
            BY <3>2, <5>1 DEF Check, CheckStep1, CheckGlob, CheckCommand, CheckCommandError,
                              CheckFinish, Regenerate, Exit
          <5>2. CASE Evaluate
            BY <3>2, <5>2 DEF Evaluate, Begin, Eval, EvalError, SetEnv, MakeMakefiles, Exit
          <5>3. CASE Generate
            BY <3>2, <5>3 DEF Generate, UnlinkStamp, OpenNinja, WriteNinja, OpenScript,
                    WriteScript, OpenTmp, RenameStamp, Goto, Exit
          <5>4. CASE User \/ Kill
            BY <3>2, <5>4 DEF User, Kill, Start, EditFile, RemoveFile, RemoveOutput, AnEdit,
                              Exit, disk, run
          <5>5. CASE UNCHANGED vars
            BY <3>2, <5>5 DEF vars, disk, run
          <5> QED BY <5>1, <5>2, <5>3, <5>4, <5>5 DEF Next, Kati
        <4> QED BY <4>1 DEF CoverInv
      <3> QED BY <3>1, <3>2
    <2> QED BY <2>1, EvalCovers, StampStays, CheckStays DEF CoverInv, StampCovers
  <1>3. CoverInv => StampCovers
    BY DEF CoverInv
  <1>4. Init => EvalFields \subseteq DOMAIN ev
    BY NewEvaluatorFields DEF Init
  <1>5. EvalFields \subseteq DOMAIN ev /\ [Next]_vars => (EvalFields \subseteq DOMAIN ev)'
    BY FieldsStep
  <1> QED BY <1>1, <1>2, <1>3, <1>4, <1>5, TypeCorrect, PTL DEF Spec
=============================================================================
