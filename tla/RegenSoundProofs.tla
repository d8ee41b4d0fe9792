-------------------------- MODULE RegenSoundProofs --------------------------
(***************************************************************************)
(* "No need to regenerate ninja file" is right (RegenSound), for every     *)
(* tree and every Makefile that writes no file: an evaluation of the tree  *)
(* that the check found clean takes the steps of the evaluation that wrote *)
(* the stamp, although the files were edited in between.                   *)
(***************************************************************************)
EXTENDS RegenFilesProofs, WellFoundedInduction

Includes == {"include", "sinclude"}
Uses == {"var", "default"}
ReadOnlyOps == VarOps \cup Includes \cup {"glob", "find", "cat", "read", "text"}

\* The arguments that some line gives to one of ops.
ArgsOf(ops) == {l.arg : l \in {k \in GivenLines : k.op \in ops}}

\* The Makefiles write no file, and --ignore_dirty is not given.  What is
\* deleted must be noticed: regen.cc looks at names that were included, but not
\* at files of $(file <f), and a name that was a $(wildcard) first is cached.
\* The variables are those for which the stamp has the value that was used.
ReadOnly ==
    /\ \A p \in DOMAIN InitFiles : InitFiles[p] \in Seq(GivenLines)
    /\ \A p \in Path : Edits[p] \subseteq Seq(GivenLines)
    /\ \A l \in GivenLines : l.op \in ReadOnlyOps
    /\ ArgsOf(VarOps) \subseteq Var
    /\ ArgsOf(Includes \cup {"cat", "read"}) \subseteq Path
    /\ ArgsOf({"find"}) \subseteq Dirs \cap Frozen
    /\ IgnoreDirty = {}
    /\ KatiBinary \notin Deletable
    /\ ArgsOf({"read"}) \cap Deletable = {}
    /\ ArgsOf({"glob"}) \cap ArgsOf(Includes) \cap Deletable = {}
    /\ "" \notin Val
    /\ \A v \in ArgsOf(Uses) \cap ArgsOf({"set", "unexport"}) : \A e \in Envs : e[v] = Unset
    /\ \A p \in DOMAIN InitFiles : Parent[p] \in DOMAIN InitFiles \cup {Top}

-----------------------------------------------------------------------------
(* The inductive invariant.                                                *)

SoundFields == {"prog", "mk", "globs", "cmds", "val", "origin", "exports", "usedEnv",
                "usedUndef", "root", "dirs", "obs", "failed", "req"}

\* A missing file has no lines, and what exists is in a directory that exists.
TreeRight(mt, co) ==
    \A p \in Path : /\ ~Exists(mt, p) => co[p] = << >>
                    /\ Exists(mt, p) /\ Parent[p] # Top => Exists(mt, Parent[p])

Exports(x, v) == v \in DOMAIN x.exports /\ x.exports[v] = TRUE

\* The variables of evaluator x that the environment u gave are unchanged, and
\* exported if they are used.
EnvRight(x, u) ==
    /\ DOMAIN x.val = Var /\ DOMAIN x.origin = Var /\ DOMAIN x.exports \subseteq Var
    /\ \A v \in Var : x.origin[v] = "environment" => u[v] # Unset /\ x.val[v] = u[v]
    /\ \A v \in ArgsOf(Uses) : u[v] # Unset =>
          x.origin[v] = "environment" /\ Exports(x, v)
    /\ \A v \in x.usedEnv : v \in ArgsOf(Uses) /\ u[v] # Unset

\* The deletion of a Makefile shows in the wildcards.
MkRight(mk, globs, mt) ==
    /\ KatiBinary \in DOMAIN mk /\ DOMAIN mk \subseteq Path
    /\ \A f \in DOMAIN mk :
          /\ mk[f] \in [exists : BOOLEAN, data : Seq(Lines)]
          /\ ~mk[f].exists => mk[f].data = << >>
          /\ mk[f].exists /\ f \notin Deletable => Exists(mt, f)
          /\ f \in Deletable => f \in DOMAIN globs /\ (f \in globs[f] <=> mk[f].exists)
GlobsRight(x) == \A f \in DOMAIN x.globs : f \in ArgsOf({"glob"}) \cup DOMAIN x.mk

\* What was read of a file is there, or it was edited after t.
ReadsRight(obs, mt, co, t) ==
    \A i \in DOMAIN obs : obs[i].op = "read" =>
        obs[i].arg \in ArgsOf({"read"}) /\ (mt[obs[i].arg] > t \/ co[obs[i].arg] = obs[i].res)

\* Each observation by a command is remembered.
Recorded == {"cat", "read", "find"}
Records(c, o) ==
    /\ c.line.op = o.op /\ c.line.arg = o.arg
    /\ o.op = "read" => c.op \in {"READ", "READ_MISSING"}
    /\ o.op = "cat" => c.op = "SHELL"
    /\ o.op = "find" => c.op \in {"SHELL", "FIND"}
    /\ o.op # "read" => c.res = o.res
Linked(obs, cs) ==
    \A i \in DOMAIN obs : obs[i].op \in Recorded => \E j \in DOMAIN cs : Records(cs[j], obs[i])

\* A directory has the listing, or was changed after t.
Listed(mt, d, t, list) == mt[d] > t \/ mt[d] = NotExist \/ Listing(mt, d) = list
Found(c, mt, t) == c.dirs = {c.line.arg} /\ Listed(mt, c.line.arg, t, c.res)
FindsRight(cs, mt, t) ==
    \A j \in DOMAIN cs : cs[j].op = "FIND" =>
        /\ cs[j].line.op = "find"
        /\ Found(cs[j], mt, t) \/ (cs[j].res = {} /\ ~Exists(mt, cs[j].line.arg))
RootRight(x, mt, t) ==
    /\ x.root # None => \A d \in ArgsOf({"find"}) : d \in x.root.dirs <=> Exists(mt, d)
    /\ DOMAIN x.dirs \subseteq Dirs /\ \A d \in DOMAIN x.dirs : Listed(mt, d, t, x.dirs[d])

\* The evaluator of a process that was started at t.
EvRight(x, mt, co, t) ==
    /\ SoundFields \subseteq DOMAIN x
    /\ MkRight(x.mk, x.globs, mt) /\ GlobsRight(x)
    /\ x.obs \in Seq(LinesOf(x.obs)) /\ ReadsRight(x.obs, mt, co, t) /\ Linked(x.obs, x.cmds)
    /\ FindsRight(x.cmds, mt, t) /\ RootRight(x, mt, t)

\* The tree mt, co and the environment e look as evaluator x, or the stamp s of
\* the observations obs, remembers them.
FindNow(mt, d) == IF Exists(mt, d) THEN Listing(mt, d) ELSE {}
ObsAgree(obs, mt, co) ==
    \A i \in DOMAIN obs :
        /\ obs[i].op \in {"cat", "read"} => obs[i].res = co[obs[i].arg]
        /\ obs[i].op = "find" => obs[i].res = FindNow(mt, obs[i].arg)
FilesAgree(mk, globs, mt, co) ==
    /\ \A f \in DOMAIN mk : mk[f] = Snapshot(mt, co, f)
    /\ \A g \in DOMAIN globs : globs[g] = GlobFiles(mt, g)
Agrees(x, u, mt, co, e) ==
    /\ FilesAgree(x.mk, x.globs, mt, co) /\ ObsAgree(x.obs, mt, co)
    /\ \A v \in x.usedEnv : GetEnv(e, v) = GetEnv(u, v)
    /\ \A v \in x.usedUndef : e[v] = Unset
StampAgrees(s, obs, mt, co, e) ==
    /\ FilesAgree(s.mk, s.globs, mt, co) /\ ObsAgree(obs, mt, co)
    /\ \A v \in DOMAIN s.envs : GetEnv(e, v) = s.envs[v]
    /\ \A v \in s.undef : e[v] = Unset

\* T has the states of an undisturbed evaluation.
Closed(T, mt, co, e) ==
    /\ \E t : [ev |-> BeginEval(NewEvaluator(e, Snapshot(mt, co, KatiBinary)), mt, co),
               mtime |-> mt, content |-> co, now |-> t] \in T
    /\ \A s \in T : EvalNext(s) \in T

\* Evaluators a and x are at the same line; a variable has the same value, or
\* in each of them that of its environment.
Given(x, v, e) ==
    /\ x.val[v] = GetEnv(e, v)
    /\ x.origin[v] = IF e[v] = Unset THEN "undefined" ELSE "environment"
AlikeVar(a, x, v, e, u) ==
    (a.val[v] = x.val[v] /\ a.origin[v] = x.origin[v]) \/ (Given(a, v, e) /\ Given(x, v, u))
Alike(a, x, mt, e, u) ==
    /\ SoundFields \subseteq DOMAIN a /\ DOMAIN a.val = Var /\ DOMAIN a.origin = Var
    /\ a.prog = x.prog /\ a.mk = x.mk /\ a.globs = x.globs /\ a.obs = x.obs /\ a.failed = x.failed
    /\ \A v \in Var : AlikeVar(a, x, v, e, u)
    /\ a.root # None => a.root.dirs = {d \in Dirs : Exists(mt, d)}
    /\ \A d \in DOMAIN a.dirs : a.dirs[d] = Listing(mt, d)
StFields == {"ev", "mtime", "content", "now"}
AlikeState(s, x, mt, co, e, u) ==
    /\ StFields \subseteq DOMAIN s /\ s.mtime = mt /\ s.content = co
    /\ Alike(s.ev, x, mt, e, u)

\* An undisturbed evaluation of a tree that agrees with what is remembered
\* comes to the line where x is, or to the end with the observations of a stamp.
Replays(x, u) ==
    \A T, mt, co, e :
        e \in Envs /\ Closed(T, mt, co, e) /\ Agrees(x, u, mt, co, e) =>
            \E s \in T : AlikeState(s, x, mt, co, e, u)
AtEnd(s, obs, mt, co) ==
    s.ev.prog = << >> /\ s.ev.obs = obs /\ s.ev.mk[KatiBinary] = Snapshot(mt, co, KatiBinary)
ReplaysAll(x, u) ==
    \A T, mt, co, e :
        e \in Envs /\ Closed(T, mt, co, e) /\ Agrees(x, u, mt, co, e) =>
            \E s \in T : AtEnd(s, x.obs, mt, co)
Reproduces(st, obs) ==
    \A T, mt, co, e :
        e \in Envs /\ Closed(T, mt, co, e) /\ StampAgrees(st, obs, mt, co, e) =>
            \E s \in T : AtEnd(s, obs, mt, co)

\* A stamp s on the disk, and the product p beside it.
SearchRight(cs, mt, t, n) ==
    \A j \in DOMAIN cs : cs[j].op = "FIND" /\ j < n =>
        /\ cs[j].line.op = "find"
        /\ Found(cs[j], mt, t) \/ (cs[j].res = {} /\ cs[j].missing = {cs[j].line.arg})
StampNames == {"time", "mk", "undef", "envs", "globs", "cmds", "args"}
StampRight(s, mt) ==
    /\ StampNames \subseteq DOMAIN s
    /\ MkRight(s.mk, s.globs, mt) /\ SearchRight(s.cmds, mt, s.time, Len(s.cmds) + 1)
ProductRight(p, s, mt, co) ==
    /\ p = [args |-> s.args, kati |-> s.mk[KatiBinary].data, obs |-> p.obs]
    /\ ReadsRight(p.obs, mt, co, s.time) /\ Linked(p.obs, s.cmds)

\* The process.
EvaluatorRight ==
    /\ pc # "idle" => EvRight(ev, mtime, content, start)
    /\ pc \in Checking \cup {"begin", "eval"} => penv = uenv /\ EnvRight(ev, uenv)
    /\ pc \in Evaluated => \A v \in ev.usedEnv : penv[v] = uenv[v]
BeginRight ==
    pc \in Checking \cup {"begin"} => \E bin : ev = NewEvaluator(uenv, bin)
ReplayRight ==
    /\ pc = "eval" => Replays(ev, uenv)
    /\ pc \in Evaluated => ReplaysAll(ev, uenv)

\* The files that it writes.
AfterNinja == {"openScript", "script", "openTmp", "tmp", "rename"}
Unlinked == {"openNinja", "ninja"} \cup AfterNinja
FilesRight ==
    /\ pc \in Unlinked => stamp = None
    /\ pc \in AfterNinja /\ ninja # None => ninja.product = Product(args, ev)
    /\ pc = "rename" => /\ StampRight(tmp, mtime) /\ tmp.time = start
                        /\ ProductRight(Product(args, ev), tmp, mtime, content)
    /\ stamp # None => StampRight(stamp, mtime) /\ stamp.time \in Nat /\ stamp.time <= clock
    /\ stamp # None /\ ninja # None => ProductRight(ninja.product, stamp, mtime, content)
StampReproduces ==
    /\ pc = "rename" => Reproduces(tmp, ev.obs)
    /\ stamp # None /\ ninja # None => Reproduces(stamp, ninja.product.obs)

\* A check: what it has found clean is as the stamp says until it is edited,
\* and then its time is later than the time the stamp will get.
RereadRight(obs, cs, mt, co, t, n) ==
    \A i \in DOMAIN obs, j \in DOMAIN cs :
        obs[i].op = "read" /\ j < n /\ Records(cs[j], obs[i]) =>
            mt[obs[i].arg] > t \/ co[obs[i].arg] = obs[i].res
CheckedRight ==
    pc = "step2" /\ stamp # None =>
        /\ ChkFields \subseteq DOMAIN chk /\ chk.stamp = stamp
        /\ ~chk.needs =>
              /\ SearchRight(stamp.cmds, mtime, start, chk.next)
              /\ ninja # None => RereadRight(ninja.product.obs, stamp.cmds, mtime, content, start, chk.next)
CleanCommand(t, c, mt, co) ==
    /\ c.op = "READ_MISSING" => ~Exists(mt, c.line.arg)
    /\ c.op = "READ" => ~(t < mt[c.line.arg])
    /\ c.op = "SHELL" => ShellResult(c.line, mt, co) = c.res
    /\ c.op = "FIND" => \/ ShellResult(c.line, mt, co) = c.res
                       \/ /\ \A d \in c.missing : ~Exists(mt, d)
                          /\ \A d \in c.dirs : Exists(mt, d) /\ ~(t < mt[d])
Clean(s, mt, co, e, a, globs, n) ==
    /\ s.args = a /\ \A f \in DOMAIN s.mk : ~(s.time < mt[f])
    /\ \A v \in DOMAIN s.envs : GetEnv(e, v) = s.envs[v]
    /\ \A v \in s.undef : e[v] = Unset
    /\ \A g \in DOMAIN s.globs : g \notin globs => s.globs[g] = GlobFiles(mt, g)
    /\ \A j \in DOMAIN s.cmds : j < n => CleanCommand(s.time, s.cmds[j], mt, co)
CleanSoFar ==
    pc = "step2" /\ lastEdit < start /\ ~chk.needs =>
        stamp # None /\ Clean(stamp, mtime, content, penv, args, chk.globs, chk.next)
CleanRight ==
    outcome = "clean" /\ lastEdit < start =>
        /\ stamp # None /\ stamp.args = args /\ penv = uenv
        /\ ninja # None => StampAgrees(stamp, ninja.product.obs, mtime, content, penv)

SoundInv ==
    /\ TreeRight(mtime, content) /\ EvaluatorRight /\ BeginRight /\ ReplayRight
    /\ FilesRight /\ StampReproduces /\ CheckedRight /\ CleanSoFar /\ CleanRight

-----------------------------------------------------------------------------
(* Lines of Makefiles that write nothing.                                  *)

\* What ReadOnly says of every line a file can have.
LEMMA ReadOnlyLines ==
    ASSUME ReadOnly, NEW l \in Lines
    PROVE  /\ l.op \in ReadOnlyOps /\ l.op \notin WriteOps
           /\ \A ops : l.op \in ops /\ l.op # "text" => l.arg \in ArgsOf(ops)
  <1>1. l \in GivenLines \/ l.op = "text"
    BY DEF Lines, Line
  <1>2. l.op \in ReadOnlyOps
    BY <1>1 DEF ReadOnly, ReadOnlyOps
  <1>3. l.op \notin WriteOps
    BY <1>2 DEF ReadOnlyOps, VarOps, Includes, WriteOps
  <1>4. ASSUME NEW ops, l.op \in ops, l.op # "text" PROVE l.arg \in ArgsOf(ops)
    BY <1>1, <1>4 DEF ArgsOf
  <1> QED BY <1>2, <1>3, <1>4

\* Such Makefiles append to no file, and the other facts about their lines hold.
LEMMA ReadOnlyNoAppend == ASSUME ReadOnly PROVE NoAppend
  <1>1. ASSUME NEW l \in GivenLines PROVE l.op # "append" /\ (l.op \in FileOps => l.arg \in Path)
    <2>1. l \in Lines
      BY DEF Lines
    <2>2. l.op \notin WriteOps /\ (l.op \in Includes => l.arg \in ArgsOf(Includes \cup {"cat", "read"}))
      <3>1. l.op \in Includes => l.op \in Includes \cup {"cat", "read"} /\ l.op # "text"
        BY DEF Includes
      <3> QED BY <2>1, <3>1, ReadOnlyLines
    <2> QED BY <2>2 DEF ReadOnly, FileOps, WriteOps, Includes
  <1> QED BY <1>1 DEF NoAppend, ReadOnly

-----------------------------------------------------------------------------
(* What evaluating a line does.                                            *)

\* r has the fields of e but for those in F.
SameBut(e, r, F) == SoundFields \subseteq DOMAIN r /\ \A f \in SoundFields \ F : r[f] = e[f]

\* LookupVar remembers the use.
LEMMA LookupIs ==
    ASSUME NEW e, SoundFields \subseteq DOMAIN e, NEW v, NEW r, r = Lookup(e, v)
    PROVE  /\ SameBut(e, r, {"usedEnv", "usedUndef"})
           /\ r.usedEnv = IF e.origin[v] = "environment" THEN e.usedEnv \cup {v} ELSE e.usedEnv
           /\ r.usedUndef = IF e.origin[v] = "undefined" THEN e.usedUndef \cup {v} ELSE e.usedUndef
  BY DEF SameBut, Lookup, SoundFields

\* An assignment.
LEMMA AssignIs ==
    ASSUME NEW e, SoundFields \subseteq DOMAIN e, NEW v \in Var, NEW x, NEW r, r = Assign(e, v, x),
           DOMAIN e.val = Var, DOMAIN e.origin = Var
    PROVE  /\ SameBut(e, r, {"val", "origin"})
           /\ DOMAIN r.val = Var /\ DOMAIN r.origin = Var
           /\ r.val[v] = x /\ r.origin[v] = "file"
           /\ \A w \in Var : w # v => r.val[w] = e.val[w] /\ r.origin[w] = e.origin[w]
  BY DEF SameBut, Assign, SoundFields

\* An observation.
LEMMA ObserveIs ==
    ASSUME NEW e, SoundFields \subseteq DOMAIN e, NEW l, NEW x, NEW r, r = Observe(e, l, x)
    PROVE  SameBut(e, r, {"obs"}) /\ r.obs = Append(e.obs, Obs(l, x))
  BY DEF SameBut, Observe, SoundFields

\* A stored command.
LEMMA StoreIs ==
    ASSUME ReadOnly, NEW e, SoundFields \subseteq DOMAIN e, NEW c, NEW r, r = Store(e, c)
    PROVE  SameBut(e, r, {"cmds"}) /\ r.cmds = Append(e.cmds, c)
  BY DEF SameBut, Store, SoundFields, ReadOnly

\* The glob cache.
LEMMA GlobIs ==
    ASSUME NEW e, SoundFields \subseteq DOMAIN e, NEW mt, NEW g, NEW r, r = Glob(e, mt, g)
    PROVE  /\ SameBut(e, r, {"globs"})
           /\ r.globs = IF g \in DOMAIN e.globs THEN e.globs ELSE Set(e.globs, g, GlobFiles(mt, g))
  BY DEF SameBut, Glob, SoundFields

\* The Makefile cache.
LEMMA ReadMakefileIs ==
    ASSUME NEW e, SoundFields \subseteq DOMAIN e, NEW mt, NEW co, NEW f, NEW r, r = ReadMakefile(e, mt, co, f)
    PROVE  /\ SameBut(e, r, {"mk"})
           /\ r.mk = IF f \in DOMAIN e.mk THEN e.mk ELSE Set(e.mk, f, Snapshot(mt, co, f))
  BY DEF SameBut, ReadMakefile, SoundFields

\* $(V).
LEMMA VarIs ==
    ASSUME NEW e, SoundFields \subseteq DOMAIN e, NEW l, l.op = "var", NEW r, r = EvalVar(l, e)
    PROVE  /\ SameBut(e, r, {"usedEnv", "usedUndef", "obs"})
           /\ r.usedEnv = IF e.origin[l.arg] = "environment" THEN e.usedEnv \cup {l.arg} ELSE e.usedEnv
           /\ r.usedUndef = IF e.origin[l.arg] = "undefined" THEN e.usedUndef \cup {l.arg} ELSE e.usedUndef
           /\ r.obs = Append(e.obs, Obs(l, e.val[l.arg]))
  <1>1. PICK a : a = Lookup(e, l.arg)
    OBVIOUS
  <1>2. r = Observe(a, l, e.val[l.arg])
    BY <1>1 DEF EvalVar
  <1>3. SoundFields \subseteq DOMAIN a
    BY <1>1, LookupIs DEF SameBut
  <1>4. SameBut(a, r, {"obs"}) /\ r.obs = Append(a.obs, Obs(l, e.val[l.arg]))
    BY <1>2, <1>3, ObserveIs
  <1>5. /\ SameBut(e, a, {"usedEnv", "usedUndef"})
        /\ a.usedEnv = IF e.origin[l.arg] = "environment" THEN e.usedEnv \cup {l.arg} ELSE e.usedEnv
        /\ a.usedUndef = IF e.origin[l.arg] = "undefined" THEN e.usedUndef \cup {l.arg} ELSE e.usedUndef
    BY <1>1, LookupIs
  <1> QED BY <1>4, <1>5 DEF SameBut, SoundFields

\* What V ?= text does.
Defaults(e, r, l) ==
    /\ SameBut(e, r, {"usedEnv", "usedUndef", "val", "origin"})
    /\ r.usedEnv = IF e.origin[l.arg] = "environment" THEN e.usedEnv \cup {l.arg} ELSE e.usedEnv
    /\ r.usedUndef = IF e.origin[l.arg] = "undefined" THEN e.usedUndef \cup {l.arg} ELSE e.usedUndef
    /\ DOMAIN r.val = Var /\ DOMAIN r.origin = Var
    /\ e.origin[l.arg] = "undefined" => r.val[l.arg] = l.text /\ r.origin[l.arg] = "file"
    /\ e.origin[l.arg] # "undefined" => r.val[l.arg] = e.val[l.arg] /\ r.origin[l.arg] = e.origin[l.arg]
    /\ \A w \in Var : w # l.arg => r.val[w] = e.val[w] /\ r.origin[w] = e.origin[w]

\* V ?= text.
LEMMA DefaultIs ==
    ASSUME NEW e, SoundFields \subseteq DOMAIN e, NEW l, l.op = "default", NEW r, r = EvalVar(l, e),
           l.arg \in Var, DOMAIN e.val = Var, DOMAIN e.origin = Var
    PROVE  Defaults(e, r, l)
  <1>1. PICK a : a = Lookup(e, l.arg)
    OBVIOUS
  <1>2. r = IF e.origin[l.arg] = "undefined" THEN Assign(a, l.arg, l.text) ELSE a
    BY <1>1 DEF EvalVar
  <1>5. /\ SameBut(e, a, {"usedEnv", "usedUndef"})
        /\ a.usedEnv = IF e.origin[l.arg] = "environment" THEN e.usedEnv \cup {l.arg} ELSE e.usedEnv
        /\ a.usedUndef = IF e.origin[l.arg] = "undefined" THEN e.usedUndef \cup {l.arg} ELSE e.usedUndef
    BY <1>1, LookupIs
  <1>6. a.val = e.val /\ a.origin = e.origin /\ SoundFields \subseteq DOMAIN a
    BY <1>5 DEF SameBut, SoundFields
  <1>3. CASE e.origin[l.arg] = "undefined"
    <2>1. r = Assign(a, l.arg, l.text)
      BY <1>2, <1>3
    <2>2. /\ SameBut(a, r, {"val", "origin"})
          /\ DOMAIN r.val = Var /\ DOMAIN r.origin = Var
          /\ r.val[l.arg] = l.text /\ r.origin[l.arg] = "file"
          /\ \A w \in Var : w # l.arg => r.val[w] = a.val[w] /\ r.origin[w] = a.origin[w]
      BY <1>6, <2>1, AssignIs
    <2>3. SameBut(e, r, {"usedEnv", "usedUndef", "val", "origin"}) /\ r.usedEnv = a.usedEnv /\ r.usedUndef = a.usedUndef
      BY <1>5, <2>2 DEF SameBut, SoundFields
    <2> QED BY <1>3, <1>5, <1>6, <2>2, <2>3 DEF Defaults
  <1>4. CASE e.origin[l.arg] # "undefined"
    <2>1. r = a
      BY <1>2, <1>4
    <2> QED BY <1>4, <1>5, <1>6, <2>1 DEF SameBut, Defaults
  <1> QED BY <1>3, <1>4

\* export V, unexport V.
LEMMA ExportIs ==
    ASSUME NEW e, SoundFields \subseteq DOMAIN e, NEW l, l.op \in {"export", "unexport"}, NEW r, r = EvalVar(l, e)
    PROVE  SameBut(e, r, {"exports"})
  <1>1. CASE l.op = "export"
    <2>1. r = [e EXCEPT !.exports = Set(@, l.arg, TRUE)]
      BY <1>1 DEF EvalVar
    <2> QED BY <2>1 DEF SameBut, SoundFields
  <1>2. CASE l.op = "unexport"
    <2>1. r = [e EXCEPT !.exports = Set(@, l.arg, FALSE)]
      BY <1>2 DEF EvalVar
    <2> QED BY <2>1 DEF SameBut, SoundFields
  <1> QED BY <1>1, <1>2

\* Only unexport V ends the export of V.
LEMMA ExportsStay ==
    ASSUME NEW e, SoundFields \subseteq DOMAIN e, NEW l, l.op \in {"export", "unexport"}, NEW r, r = EvalVar(l, e),
           NEW v, Exports(e, v), v # l.arg \/ l.op = "export"
    PROVE  Exports(r, v)
  <1>1. CASE l.op = "export"
    <2>1. r = [e EXCEPT !.exports = Set(@, l.arg, TRUE)]
      BY <1>1 DEF EvalVar
    <2>2. r.exports = Set(e.exports, l.arg, TRUE)
      BY <2>1 DEF SoundFields
    <2> QED BY <2>2 DEF Set, Exports
  <1>2. CASE l.op = "unexport"
    <2>1. r = [e EXCEPT !.exports = Set(@, l.arg, FALSE)]
      BY <1>2 DEF EvalVar
    <2>2. r.exports = Set(e.exports, l.arg, FALSE)
      BY <2>1 DEF SoundFields
    <2> QED BY <1>2, <2>2 DEF Set, Exports
  <1> QED BY <1>1, <1>2

\* The variables that are exported or not are those of lines.
LEMMA ExportsDomain ==
    ASSUME NEW e, SoundFields \subseteq DOMAIN e, NEW l, l.op \in {"export", "unexport"}, NEW r, r = EvalVar(l, e)
    PROVE  DOMAIN r.exports = DOMAIN e.exports \cup {l.arg}
  <1>1. \E b : r = [e EXCEPT !.exports = Set(@, l.arg, b)]
    BY DEF EvalVar
  <1> QED BY <1>1 DEF Set, SoundFields

\* $(wildcard g).
LEMMA WildcardIs ==
    ASSUME NEW e, SoundFields \subseteq DOMAIN e, NEW l, NEW mt, NEW r, r = EvalGlob(l, e, mt)
    PROVE  /\ SameBut(e, r, {"globs", "obs"})
           /\ r.globs = IF l.arg \in DOMAIN e.globs THEN e.globs ELSE Set(e.globs, l.arg, GlobFiles(mt, l.arg))
           /\ r.obs = Append(e.obs, Obs(l, r.globs[l.arg]))
  <1>1. PICK a : a = Glob(e, mt, l.arg)
    OBVIOUS
  <1>2. r = Observe(a, l, a.globs[l.arg])
    BY <1>1 DEF EvalGlob
  <1>3. /\ SameBut(e, a, {"globs"})
        /\ a.globs = IF l.arg \in DOMAIN e.globs THEN e.globs ELSE Set(e.globs, l.arg, GlobFiles(mt, l.arg))
    BY <1>1, GlobIs
  <1>4. SoundFields \subseteq DOMAIN a
    BY <1>3 DEF SameBut
  <1>5. SameBut(a, r, {"obs"}) /\ r.obs = Append(a.obs, Obs(l, a.globs[l.arg]))
    BY <1>2, <1>4, ObserveIs
  <1>6. r.globs = a.globs /\ a.obs = e.obs /\ SameBut(e, r, {"globs", "obs"})
    BY <1>3, <1>5 DEF SameBut, SoundFields
  <1> QED BY <1>3, <1>5, <1>6

\* include f, -include f.
LEMMA IncludeIs ==
    ASSUME NEW e, SoundFields \subseteq DOMAIN e, NEW l, NEW mt, NEW co, NEW r, r = EvalInclude(l, e, mt, co)
    PROVE  /\ SameBut(e, r, {"globs", "mk", "prog", "req"})
           /\ r.globs = IF l.arg \in DOMAIN e.globs THEN e.globs ELSE Set(e.globs, l.arg, GlobFiles(mt, l.arg))
           /\ r.mk = IF l.arg \in DOMAIN e.mk THEN e.mk ELSE Set(e.mk, l.arg, Snapshot(mt, co, l.arg))
           /\ r.prog = Before(r.mk[l.arg].data, e.prog)
  <1>1. PICK a : a = Glob(e, mt, l.arg)
    OBVIOUS
  <1>2. PICK b : b = ReadMakefile(a, mt, co, l.arg)
    OBVIOUS
  <1>3. r = [b EXCEPT !.prog = b.mk[l.arg].data \o @,
                      !.req = IF l.op = "include" THEN @ \cup {l.arg} ELSE @]
    BY <1>1, <1>2 DEF EvalInclude
  <1>4. /\ SameBut(e, a, {"globs"})
        /\ a.globs = IF l.arg \in DOMAIN e.globs THEN e.globs ELSE Set(e.globs, l.arg, GlobFiles(mt, l.arg))
    BY <1>1, GlobIs
  <1>5. /\ SameBut(a, b, {"mk"})
        /\ b.mk = IF l.arg \in DOMAIN a.mk THEN a.mk ELSE Set(a.mk, l.arg, Snapshot(mt, co, l.arg))
    BY <1>2, <1>4, ReadMakefileIs DEF SameBut
  <1>6. /\ SameBut(b, r, {"prog", "req"}) /\ r.prog = Before(b.mk[l.arg].data, b.prog)
    BY <1>3, <1>5 DEF SameBut, SoundFields, Before
  <1>7. /\ b.prog = e.prog /\ a.mk = e.mk /\ r.mk = b.mk /\ r.globs = a.globs
        /\ SameBut(e, r, {"globs", "mk", "prog", "req"})
    BY <1>4, <1>5, <1>6 DEF SameBut, SoundFields
  <1> QED BY <1>4, <1>5, <1>6, <1>7

\* A command is stored with its observation.
LEMMA StoreObserveIs ==
    ASSUME ReadOnly, NEW e, SoundFields \subseteq DOMAIN e, NEW c, NEW l, NEW x, NEW r,
           r = Observe(Store(e, c), l, x)
    PROVE  /\ SameBut(e, r, {"cmds", "obs"})
           /\ r.cmds = Append(e.cmds, c) /\ r.obs = Append(e.obs, Obs(l, x))
  <1>1. PICK a : a = Store(e, c)
    OBVIOUS
  <1>2. SameBut(e, a, {"cmds"}) /\ a.cmds = Append(e.cmds, c)
    BY <1>1, StoreIs
  <1>3. SameBut(a, r, {"obs"}) /\ r.obs = Append(a.obs, Obs(l, x))
    BY <1>1, <1>2, ObserveIs DEF SameBut
  <1> QED BY <1>2, <1>3 DEF SameBut, SoundFields

\* $(shell cat f).
LEMMA CatIs ==
    ASSUME ReadOnly, NEW e, SoundFields \subseteq DOMAIN e, NEW l, l.op = "cat", NEW mt, NEW co,
           NEW r, r = EvalShell(l, e, mt, co)
    PROVE  /\ SameBut(e, r, {"cmds", "obs"})
           /\ r.cmds = Append(e.cmds, Command("SHELL", l, co[l.arg], {}, {}))
           /\ r.obs = Append(e.obs, Obs(l, co[l.arg]))
  <1>1. r = Observe(Store(e, Command("SHELL", l, co[l.arg], {}, {})), l, co[l.arg])
    BY DEF EvalShell, Handles, ShellResult
  <1> QED BY <1>1, StoreObserveIs

\* $(file <f).
LEMMA ReadIs ==
    ASSUME ReadOnly, NEW e, SoundFields \subseteq DOMAIN e, NEW l, NEW mt, NEW co,
           NEW r, r = FileRead(l, e, mt, co)
    PROVE  /\ SameBut(e, r, {"cmds", "obs"})
           /\ r.cmds = Append(e.cmds, Command(IF Exists(mt, l.arg) THEN "READ" ELSE "READ_MISSING", l, << >>, {}, {}))
           /\ r.obs = Append(e.obs, Obs(l, co[l.arg]))
  BY StoreObserveIs DEF FileRead

\* The directories that the find emulator knows, and the listing it uses.
RootOf(e, mt) == IF e.root = None THEN {d \in Dirs : Exists(mt, d)} ELSE e.root.dirs
ListOf(e, mt, d) == IF d \in DOMAIN e.dirs THEN e.dirs[d] ELSE Listing(mt, d)

\* What $(shell find d) does in directories R.
Finds(l, e, r, mt, R, x) ==
    /\ SameBut(e, r, {"cmds", "obs", "root", "dirs"})
    /\ r.cmds = Append(e.cmds, Command("FIND", l, x, {}, {l.arg} \cap R))
    /\ r.obs = Append(e.obs, Obs(l, x))
    /\ r.root = [none |-> FALSE, dirs |-> R]
    /\ r.dirs = IF l.arg \in R /\ l.arg \notin DOMAIN e.dirs
                THEN Set(e.dirs, l.arg, Listing(mt, l.arg)) ELSE e.dirs

\* $(shell find d).
LEMMA FindIs ==
    ASSUME ReadOnly, NEW e, SoundFields \subseteq DOMAIN e, NEW l, l.op = "find", NEW mt, NEW co,
           NEW r, r = EvalShell(l, e, mt, co),
           NEW R, R = RootOf(e, mt), l.arg \in R \/ ~Exists(mt, l.arg),
           NEW x, x = IF l.arg \in R THEN ListOf(e, mt, l.arg) ELSE {}
    PROVE  Finds(l, e, r, mt, R, x)
  <1>1. PICK a : a = [e EXCEPT !.root = [none |-> FALSE, dirs |-> R]]
    OBVIOUS
  <1>2. PICK b : b = IF l.arg \in R /\ l.arg \notin DOMAIN a.dirs
                     THEN [a EXCEPT !.dirs = Set(@, l.arg, Listing(mt, l.arg))] ELSE a
    OBVIOUS
  <1>3. SameBut(e, a, {"root"}) /\ a.root = [none |-> FALSE, dirs |-> R]
    BY <1>1 DEF SameBut, SoundFields
  <1>4. a.dirs = e.dirs
    BY <1>3 DEF SameBut, SoundFields
  <1>5. /\ SameBut(a, b, {"dirs"})
        /\ b.dirs = IF l.arg \in R /\ l.arg \notin DOMAIN e.dirs
                    THEN Set(e.dirs, l.arg, Listing(mt, l.arg)) ELSE e.dirs
    BY <1>2, <1>3, <1>4 DEF SameBut, SoundFields
  <1>6. x = IF l.arg \in R THEN b.dirs[l.arg] ELSE {}
    BY <1>5 DEF ListOf, Set
  <1>7. r = Observe(Store(b, Command("FIND", l, x, {}, {l.arg} \cap R)), l, x)
    <2>1. Handles(l, R, mt)
      BY DEF Handles
    <2>2. R = IF l.op # "find" THEN {} ELSE IF e.root = None THEN {d \in Dirs : Exists(mt, d)} ELSE e.root.dirs
      BY DEF RootOf
    <2> QED BY <1>1, <1>2, <1>6, <2>1, <2>2 DEF EvalShell
  <1>8. SoundFields \subseteq DOMAIN b
    BY <1>5 DEF SameBut
  <1>9. /\ SameBut(b, r, {"cmds", "obs"})
        /\ r.cmds = Append(b.cmds, Command("FIND", l, x, {}, {l.arg} \cap R)) /\ r.obs = Append(b.obs, Obs(l, x))
    BY <1>7, <1>8, StoreObserveIs
  <1>10. /\ SameBut(e, r, {"cmds", "obs", "root", "dirs"}) /\ b.cmds = e.cmds /\ b.obs = e.obs
         /\ r.root = a.root /\ r.dirs = b.dirs
    BY <1>3, <1>5, <1>9 DEF SameBut, SoundFields
  <1> QED BY <1>3, <1>5, <1>9, <1>10 DEF Finds

-----------------------------------------------------------------------------
(* Two evaluations that agree.                                             *)

\* A variable whose use is remembered has the same value in both.
LEMMA UsedAlike ==
    ASSUME ReadOnly, NEW e \in Envs, NEW u \in Envs, NEW v \in Var, NEW a, NEW x, AlikeVar(a, x, v, e, u),
           x.origin[v] = "environment" => GetEnv(e, v) = GetEnv(u, v),
           x.origin[v] = "undefined" => e[v] = Unset
    PROVE  a.val[v] = x.val[v] /\ a.origin[v] = x.origin[v]
  <1>1. SUFFICES ASSUME Given(a, v, e), Given(x, v, u)
                 PROVE  a.val[v] = x.val[v] /\ a.origin[v] = x.origin[v]
    BY DEF AlikeVar
  <1>2. (e[v] = Unset \/ e[v] \in Val) /\ (u[v] = Unset \/ u[v] \in Val) /\ "" \notin Val
    BY ConstantsAssumption DEF ReadOnly
  <1> QED BY <1>1, <1>2 DEF Given, GetEnv

\* $(V), the assignments, export and unexport.
LEMMA AlikeVarOps ==
    ASSUME ReadOnly, NEW l, l.op \in VarOps, l.arg \in Var, NEW e \in Envs, NEW u \in Envs, NEW mt, NEW co,
           NEW a, NEW x, Alike(a, x, mt, e, u), SoundFields \subseteq DOMAIN x,
           DOMAIN x.val = Var, DOMAIN x.origin = Var,
           NEW b, b = EvalVar(l, a), NEW y, y = EvalVar(l, x), Agrees(y, u, mt, co, e)
    PROVE  Alike(b, y, mt, e, u)
  <1>0. SoundFields \subseteq DOMAIN a /\ DOMAIN a.val = Var /\ DOMAIN a.origin = Var
    BY DEF Alike
  <1>1. CASE l.op = "var"
    <2>1. /\ SameBut(x, y, {"usedEnv", "usedUndef", "obs"})
          /\ y.usedEnv = IF x.origin[l.arg] = "environment" THEN x.usedEnv \cup {l.arg} ELSE x.usedEnv
          /\ y.usedUndef = IF x.origin[l.arg] = "undefined" THEN x.usedUndef \cup {l.arg} ELSE x.usedUndef
          /\ y.obs = Append(x.obs, Obs(l, x.val[l.arg]))
      BY <1>1, VarIs
    <2>2. SameBut(a, b, {"usedEnv", "usedUndef", "obs"}) /\ b.obs = Append(a.obs, Obs(l, a.val[l.arg]))
      BY <1>0, <1>1, VarIs
    <2>3. a.val[l.arg] = x.val[l.arg]
      <3>1. AlikeVar(a, x, l.arg, e, u)
        BY DEF Alike
      <3>2. /\ x.origin[l.arg] = "environment" => GetEnv(e, l.arg) = GetEnv(u, l.arg)
            /\ x.origin[l.arg] = "undefined" => e[l.arg] = Unset
        BY <2>1 DEF Agrees
      <3> QED BY <3>1, <3>2, UsedAlike
    <2>4. /\ y.prog = x.prog /\ y.mk = x.mk /\ y.globs = x.globs /\ y.failed = x.failed /\ y.val = x.val /\ y.origin = x.origin
          /\ b.prog = a.prog /\ b.mk = a.mk /\ b.globs = a.globs /\ b.failed = a.failed /\ b.val = a.val /\ b.origin = a.origin
          /\ b.root = a.root /\ b.dirs = a.dirs /\ SoundFields \subseteq DOMAIN b
      BY <2>1, <2>2 DEF SameBut, SoundFields
    <2>5. \A v \in Var : AlikeVar(b, y, v, e, u)
      BY <2>4 DEF Alike, AlikeVar, Given
    <2> QED BY <2>1, <2>2, <2>3, <2>4, <2>5 DEF Alike
  <1>2. CASE l.op = "default"
    <2>1. Defaults(x, y, l)
      BY <1>2, DefaultIs
    <2>2. Defaults(a, b, l)
      BY <1>0, <1>2, DefaultIs
    <2>3. a.val[l.arg] = x.val[l.arg] /\ a.origin[l.arg] = x.origin[l.arg]
      <3>1. AlikeVar(a, x, l.arg, e, u)
        BY DEF Alike
      <3>2. /\ x.origin[l.arg] = "environment" => GetEnv(e, l.arg) = GetEnv(u, l.arg)
            /\ x.origin[l.arg] = "undefined" => e[l.arg] = Unset
        BY <2>1 DEF Agrees, Defaults
      <3> QED BY <3>1, <3>2, UsedAlike
    <2>4. /\ y.prog = x.prog /\ y.mk = x.mk /\ y.globs = x.globs /\ y.failed = x.failed /\ y.obs = x.obs
          /\ b.prog = a.prog /\ b.mk = a.mk /\ b.globs = a.globs /\ b.failed = a.failed /\ b.obs = a.obs
          /\ b.root = a.root /\ b.dirs = a.dirs /\ SoundFields \subseteq DOMAIN b
      BY <2>1, <2>2 DEF SameBut, SoundFields, Defaults
    <2>5. ASSUME NEW v \in Var PROVE AlikeVar(b, y, v, e, u)
      <3>1. CASE v = l.arg
        BY <2>1, <2>2, <2>3, <3>1 DEF AlikeVar, Defaults
      <3>2. CASE v # l.arg
        BY <2>1, <2>2, <3>2 DEF Alike, AlikeVar, Given, Defaults
      <3> QED BY <3>1, <3>2
    <2> QED BY <2>2, <2>4, <2>5 DEF Alike, Defaults
  <1>3. CASE l.op = "set"
    <2>1. /\ SameBut(x, y, {"val", "origin"})
          /\ y.val[l.arg] = l.text /\ y.origin[l.arg] = "file"
          /\ \A w \in Var : w # l.arg => y.val[w] = x.val[w] /\ y.origin[w] = x.origin[w]
      BY <1>3, AssignIs DEF EvalVar
    <2>2. /\ SameBut(a, b, {"val", "origin"})
          /\ DOMAIN b.val = Var /\ DOMAIN b.origin = Var
          /\ b.val[l.arg] = l.text /\ b.origin[l.arg] = "file"
          /\ \A w \in Var : w # l.arg => b.val[w] = a.val[w] /\ b.origin[w] = a.origin[w]
      BY <1>0, <1>3, AssignIs DEF EvalVar
    <2>4. /\ y.prog = x.prog /\ y.mk = x.mk /\ y.globs = x.globs /\ y.failed = x.failed /\ y.obs = x.obs
          /\ b.prog = a.prog /\ b.mk = a.mk /\ b.globs = a.globs /\ b.failed = a.failed /\ b.obs = a.obs
          /\ b.root = a.root /\ b.dirs = a.dirs /\ SoundFields \subseteq DOMAIN b
      BY <2>1, <2>2 DEF SameBut, SoundFields
    <2>5. ASSUME NEW v \in Var PROVE AlikeVar(b, y, v, e, u)
      <3>1. CASE v = l.arg
        BY <2>1, <2>2, <3>1 DEF AlikeVar
      <3>2. CASE v # l.arg
        BY <2>1, <2>2, <3>2 DEF Alike, AlikeVar, Given
      <3> QED BY <3>1, <3>2
    <2> QED BY <2>2, <2>4, <2>5 DEF Alike
  <1>4. CASE l.op \in {"export", "unexport"}
    <2>1. SameBut(x, y, {"exports"}) /\ SameBut(a, b, {"exports"})
      <3>1. SameBut(x, y, {"exports"})
        BY <1>4, ExportIs
      <3>2. SameBut(a, b, {"exports"})
        BY <1>0, <1>4, ExportIs
      <3> QED BY <3>1, <3>2
    <2>4. /\ y.prog = x.prog /\ y.mk = x.mk /\ y.globs = x.globs /\ y.failed = x.failed /\ y.obs = x.obs /\ y.val = x.val /\ y.origin = x.origin
          /\ b.prog = a.prog /\ b.mk = a.mk /\ b.globs = a.globs /\ b.failed = a.failed /\ b.obs = a.obs /\ b.val = a.val /\ b.origin = a.origin
          /\ b.root = a.root /\ b.dirs = a.dirs /\ SoundFields \subseteq DOMAIN b
      BY <2>1 DEF SameBut, SoundFields
    <2>5. \A v \in Var : AlikeVar(b, y, v, e, u)
      BY <2>4 DEF Alike, AlikeVar, Given
    <2> QED BY <2>4, <2>5 DEF Alike
  <1> QED BY <1>1, <1>2, <1>3, <1>4 DEF VarOps

\* The other lines leave the variables alone.
LEMMA AlikeRest ==
    ASSUME NEW e, NEW u, NEW mt, NEW a, NEW x, Alike(a, x, mt, e, u), NEW b, NEW y,
           SoundFields \subseteq DOMAIN b, b.val = a.val, b.origin = a.origin, y.val = x.val, y.origin = x.origin,
           b.failed = a.failed, y.failed = x.failed,
           b.prog = y.prog, b.mk = y.mk, b.globs = y.globs, b.obs = y.obs,
           b.root # None => b.root.dirs = {d \in Dirs : Exists(mt, d)},
           \A d \in DOMAIN b.dirs : b.dirs[d] = Listing(mt, d)
    PROVE  Alike(b, y, mt, e, u)
  <1>1. \A v \in Var : AlikeVar(b, y, v, e, u)
    BY DEF Alike, AlikeVar, Given
  <1> QED BY <1>1 DEF Alike

\* A cache entry that agrees with the tree is the one of the other evaluation.
LEMMA SetAlike ==
    ASSUME NEW f, NEW k, k \notin DOMAIN f, NEW i, NEW j, Set(f, k, i)[k] = j
    PROVE  Set(f, k, i) = Set(f, k, j)
  BY DEF Set

\* Wildcards and Makefiles.
LEMMA AlikeFiles ==
    ASSUME ReadOnly, NEW l, NEW e, NEW u, NEW mt, NEW co, NEW mt0, NEW co0,
           NEW a, NEW x, Alike(a, x, mt, e, u), SoundFields \subseteq DOMAIN x,
           NEW b, NEW y, Agrees(y, u, mt, co, e),
           \/ b = EvalGlob(l, a, mt) /\ y = EvalGlob(l, x, mt0)
           \/ b = EvalInclude(l, a, mt, co) /\ y = EvalInclude(l, x, mt0, co0)
    PROVE  Alike(b, y, mt, e, u)
  <1>0. /\ SoundFields \subseteq DOMAIN a /\ a.globs = x.globs /\ a.mk = x.mk /\ a.obs = x.obs /\ a.prog = x.prog
        /\ a.root # None => a.root.dirs = {d \in Dirs : Exists(mt, d)}
        /\ \A d \in DOMAIN a.dirs : a.dirs[d] = Listing(mt, d)
    BY DEF Alike
  <1>1. ASSUME y.globs = IF l.arg \in DOMAIN x.globs THEN x.globs ELSE Set(x.globs, l.arg, GlobFiles(mt0, l.arg)),
               b.globs = IF l.arg \in DOMAIN a.globs THEN a.globs ELSE Set(a.globs, l.arg, GlobFiles(mt, l.arg))
        PROVE  b.globs = y.globs
    <2>1. CASE l.arg \in DOMAIN x.globs
      BY <1>0, <1>1, <2>1
    <2>2. CASE l.arg \notin DOMAIN x.globs
      <3>1. y.globs = Set(x.globs, l.arg, GlobFiles(mt0, l.arg)) /\ b.globs = Set(x.globs, l.arg, GlobFiles(mt, l.arg))
        BY <1>0, <1>1, <2>2
      <3>2. l.arg \in DOMAIN y.globs
        BY <3>1 DEF Set
      <3>3. y.globs[l.arg] = GlobFiles(mt, l.arg)
        BY <3>2 DEF Agrees, FilesAgree
      <3> QED BY <2>2, <3>1, <3>3, SetAlike
    <2> QED BY <2>1, <2>2
  <1>2. ASSUME y.mk = IF l.arg \in DOMAIN x.mk THEN x.mk ELSE Set(x.mk, l.arg, Snapshot(mt0, co0, l.arg)),
               b.mk = IF l.arg \in DOMAIN a.mk THEN a.mk ELSE Set(a.mk, l.arg, Snapshot(mt, co, l.arg))
        PROVE  b.mk = y.mk
    <2>1. CASE l.arg \in DOMAIN x.mk
      BY <1>0, <1>2, <2>1
    <2>2. CASE l.arg \notin DOMAIN x.mk
      <3>1. y.mk = Set(x.mk, l.arg, Snapshot(mt0, co0, l.arg)) /\ b.mk = Set(x.mk, l.arg, Snapshot(mt, co, l.arg))
        BY <1>0, <1>2, <2>2
      <3>2. l.arg \in DOMAIN y.mk
        BY <3>1 DEF Set
      <3>3. y.mk[l.arg] = Snapshot(mt, co, l.arg)
        BY <3>2 DEF Agrees, FilesAgree
      <3> QED BY <2>2, <3>1, <3>3, SetAlike
    <2> QED BY <2>1, <2>2
  <1>3. CASE b = EvalGlob(l, a, mt) /\ y = EvalGlob(l, x, mt0)
    <2>1. /\ SameBut(x, y, {"globs", "obs"})
          /\ y.globs = IF l.arg \in DOMAIN x.globs THEN x.globs ELSE Set(x.globs, l.arg, GlobFiles(mt0, l.arg))
          /\ y.obs = Append(x.obs, Obs(l, y.globs[l.arg]))
      BY <1>3, WildcardIs
    <2>2. /\ SameBut(a, b, {"globs", "obs"})
          /\ b.globs = IF l.arg \in DOMAIN a.globs THEN a.globs ELSE Set(a.globs, l.arg, GlobFiles(mt, l.arg))
          /\ b.obs = Append(a.obs, Obs(l, b.globs[l.arg]))
      BY <1>0, <1>3, WildcardIs
    <2>3. b.globs = y.globs
      BY <1>1, <2>1, <2>2
    <2>4. b.obs = y.obs
      BY <1>0, <2>1, <2>2, <2>3
    <2>5. /\ SoundFields \subseteq DOMAIN b /\ b.val = a.val /\ b.origin = a.origin /\ y.val = x.val /\ y.origin = x.origin
          /\ b.failed = a.failed /\ y.failed = x.failed /\ b.root = a.root /\ b.dirs = a.dirs
          /\ b.prog = a.prog /\ y.prog = x.prog /\ b.mk = a.mk /\ y.mk = x.mk
      BY <2>1, <2>2 DEF SameBut, SoundFields
    <2> QED BY <1>0, <2>3, <2>4, <2>5, AlikeRest
  <1>4. CASE b = EvalInclude(l, a, mt, co) /\ y = EvalInclude(l, x, mt0, co0)
    <2>1. /\ SameBut(x, y, {"globs", "mk", "prog", "req"})
          /\ y.globs = IF l.arg \in DOMAIN x.globs THEN x.globs ELSE Set(x.globs, l.arg, GlobFiles(mt0, l.arg))
          /\ y.mk = IF l.arg \in DOMAIN x.mk THEN x.mk ELSE Set(x.mk, l.arg, Snapshot(mt0, co0, l.arg))
          /\ y.prog = Before(y.mk[l.arg].data, x.prog)
      BY <1>4, IncludeIs
    <2>2. /\ SameBut(a, b, {"globs", "mk", "prog", "req"})
          /\ b.globs = IF l.arg \in DOMAIN a.globs THEN a.globs ELSE Set(a.globs, l.arg, GlobFiles(mt, l.arg))
          /\ b.mk = IF l.arg \in DOMAIN a.mk THEN a.mk ELSE Set(a.mk, l.arg, Snapshot(mt, co, l.arg))
          /\ b.prog = Before(b.mk[l.arg].data, a.prog)
      BY <1>0, <1>4, IncludeIs
    <2>3. b.globs = y.globs /\ b.mk = y.mk
      BY <1>1, <1>2, <2>1, <2>2
    <2>4. b.prog = y.prog
      BY <1>0, <2>1, <2>2, <2>3
    <2>5. /\ SoundFields \subseteq DOMAIN b /\ b.val = a.val /\ b.origin = a.origin /\ y.val = x.val /\ y.origin = x.origin
          /\ b.failed = a.failed /\ y.failed = x.failed /\ b.root = a.root /\ b.dirs = a.dirs
          /\ b.obs = a.obs /\ y.obs = x.obs
      BY <2>1, <2>2 DEF SameBut, SoundFields
    <2> QED BY <1>0, <2>3, <2>4, <2>5, AlikeRest
  <1> QED BY <1>3, <1>4

\* $(shell cat f) and $(file <f).
LEMMA AlikeReads ==
    ASSUME ReadOnly, NEW l, l.op \in {"cat", "read"}, NEW e, NEW u, NEW mt, NEW co,
           NEW a, NEW x, Alike(a, x, mt, e, u), SoundFields \subseteq DOMAIN x, x.obs \in Seq(LinesOf(x.obs)),
           NEW b, NEW y, Agrees(y, u, mt, co, e),
           SameBut(x, y, {"cmds", "obs"}), NEW w, y.obs = Append(x.obs, Obs(l, w)),
           SameBut(a, b, {"cmds", "obs"}), b.obs = Append(a.obs, Obs(l, co[l.arg]))
    PROVE  Alike(b, y, mt, e, u)
  <1>0. /\ SoundFields \subseteq DOMAIN a /\ a.obs = x.obs /\ a.prog = x.prog /\ a.mk = x.mk /\ a.globs = x.globs
        /\ a.root # None => a.root.dirs = {d \in Dirs : Exists(mt, d)}
        /\ \A d \in DOMAIN a.dirs : a.dirs[d] = Listing(mt, d)
    BY DEF Alike
  <1>3. w = co[l.arg]
    <2>1. Len(x.obs) + 1 \in DOMAIN y.obs /\ y.obs[Len(x.obs) + 1] = Obs(l, w)
      BY AppendIs
    <2>2. PICK o : o = Obs(l, w)
      OBVIOUS
    <2>3. o.op = l.op /\ o.arg = l.arg /\ o.res = w
      BY <2>2 DEF Obs
    <2>4. o.op \in {"cat", "read"} => o.res = co[o.arg]
      BY <2>1, <2>2 DEF Agrees, ObsAgree
    <2> QED BY <2>3, <2>4
  <1>4. b.obs = y.obs
    BY <1>0, <1>3
  <1>5. /\ SoundFields \subseteq DOMAIN b /\ b.val = a.val /\ b.origin = a.origin /\ y.val = x.val /\ y.origin = x.origin
        /\ b.failed = a.failed /\ y.failed = x.failed /\ b.root = a.root /\ b.dirs = a.dirs
        /\ b.prog = a.prog /\ y.prog = x.prog /\ b.mk = a.mk /\ y.mk = x.mk /\ b.globs = a.globs /\ y.globs = x.globs
    BY DEF SameBut, SoundFields
  <1> QED BY <1>0, <1>4, <1>5, AlikeRest

\* The find emulator handles a find of d.
Known(x, mt, d) == d \in RootOf(x, mt) \/ ~Exists(mt, d)

\* An undisturbed evaluation finds what the tree has.
LEMMA FindNowIs ==
    ASSUME NEW mt, NEW a, a.root # None => a.root.dirs = {c \in Dirs : Exists(mt, c)},
           \A c \in DOMAIN a.dirs : a.dirs[c] = Listing(mt, c), NEW d \in Dirs
    PROVE  /\ Known(a, mt, d) /\ RootOf(a, mt) = {c \in Dirs : Exists(mt, c)}
           /\ (IF d \in RootOf(a, mt) THEN ListOf(a, mt, d) ELSE {}) = FindNow(mt, d)
  BY DEF Known, RootOf, ListOf, FindNow

\* $(shell find d).
LEMMA AlikeFind ==
    ASSUME ReadOnly, NEW l, l.op = "find", l.arg \in Dirs, NEW e, NEW u, NEW mt, NEW co, NEW mt0, NEW co0,
           NEW a, NEW x, Alike(a, x, mt, e, u), SoundFields \subseteq DOMAIN x, x.obs \in Seq(LinesOf(x.obs)),
           Known(x, mt0, l.arg),
           NEW b, b = EvalShell(l, a, mt, co), NEW y, y = EvalShell(l, x, mt0, co0), Agrees(y, u, mt, co, e)
    PROVE  Alike(b, y, mt, e, u)
  <1>0. /\ SoundFields \subseteq DOMAIN a /\ a.obs = x.obs /\ a.prog = x.prog /\ a.mk = x.mk /\ a.globs = x.globs
        /\ a.root # None => a.root.dirs = {d \in Dirs : Exists(mt, d)}
        /\ \A d \in DOMAIN a.dirs : a.dirs[d] = Listing(mt, d)
    BY DEF Alike
  <1>1. PICK R : R = RootOf(x, mt0)
    OBVIOUS
  <1>2. PICK z : z = IF l.arg \in R THEN ListOf(x, mt0, l.arg) ELSE {}
    OBVIOUS
  <1>3. SameBut(x, y, {"cmds", "obs", "root", "dirs"}) /\ y.obs = Append(x.obs, Obs(l, z))
    <2>1. l.arg \in R \/ ~Exists(mt0, l.arg)
      BY <1>1 DEF Known
    <2>2. Finds(l, x, y, mt0, R, z)
      BY <1>1, <1>2, <2>1, FindIs
    <2> QED BY <2>2 DEF Finds
  <1>4. PICK Q : Q = RootOf(a, mt)
    OBVIOUS
  <1>5. PICK w : w = IF l.arg \in Q THEN ListOf(a, mt, l.arg) ELSE {}
    OBVIOUS
  <1>6. Known(a, mt, l.arg) /\ w = FindNow(mt, l.arg) /\ Q = {d \in Dirs : Exists(mt, d)}
    BY <1>0, <1>4, <1>5, FindNowIs
  <1>7. /\ SameBut(a, b, {"cmds", "obs", "root", "dirs"}) /\ b.obs = Append(a.obs, Obs(l, w))
        /\ b.root = [none |-> FALSE, dirs |-> Q]
        /\ b.dirs = IF l.arg \in Q /\ l.arg \notin DOMAIN a.dirs
                    THEN Set(a.dirs, l.arg, Listing(mt, l.arg)) ELSE a.dirs
    <2>1. l.arg \in Q \/ ~Exists(mt, l.arg)
      BY <1>4, <1>6 DEF Known
    <2>2. Finds(l, a, b, mt, Q, w)
      BY <1>0, <1>4, <1>5, <2>1, FindIs
    <2> QED BY <2>2 DEF Finds
  <1>8. z = FindNow(mt, l.arg)
    <2>1. Len(x.obs) + 1 \in DOMAIN y.obs /\ y.obs[Len(x.obs) + 1] = Obs(l, z)
      BY <1>3, AppendIs
    <2>2. PICK o : o = Obs(l, z)
      OBVIOUS
    <2>3. o.op = l.op /\ o.arg = l.arg /\ o.res = z
      BY <2>2 DEF Obs
    <2>4. o.op = "find" => o.res = FindNow(mt, o.arg)
      BY <2>1, <2>2 DEF Agrees, ObsAgree
    <2> QED BY <2>3, <2>4
  <1>9. b.obs = y.obs
    BY <1>0, <1>3, <1>6, <1>7, <1>8
  <1>10. \A d \in DOMAIN b.dirs : b.dirs[d] = Listing(mt, d)
    BY <1>0, <1>7 DEF Set
  <1>11. b.root.dirs = {d \in Dirs : Exists(mt, d)}
    BY <1>6, <1>7
  <1>12. /\ SoundFields \subseteq DOMAIN b /\ b.val = a.val /\ b.origin = a.origin /\ y.val = x.val /\ y.origin = x.origin
         /\ b.failed = a.failed /\ y.failed = x.failed
         /\ b.prog = a.prog /\ y.prog = x.prog /\ b.mk = a.mk /\ y.mk = x.mk /\ b.globs = a.globs /\ y.globs = x.globs
    BY <1>3, <1>7 DEF SameBut, SoundFields
  <1> QED BY <1>0, <1>9, <1>10, <1>11, <1>12, AlikeRest

-----------------------------------------------------------------------------
(* One line.                                                               *)

\* Evaluator e becomes r by line l.
Evaluates(l, e, r, mt, co) ==
    \/ l.op \in VarOps /\ l.arg \in Var /\ r = EvalVar(l, e)
    \/ l.op = "glob" /\ l.arg \in ArgsOf({"glob"}) /\ r = EvalGlob(l, e, mt)
    \/ l.op \in Includes /\ l.arg \in ArgsOf(Includes) /\ l.arg \in Path /\ r = EvalInclude(l, e, mt, co)
    \/ l.op = "cat" /\ l.arg \in Path /\ r = EvalShell(l, e, mt, co)
    \/ l.op = "find" /\ l.arg \in ArgsOf({"find"}) /\ l.arg \in Dirs /\ l.arg \in Frozen /\ r = EvalShell(l, e, mt, co)
    \/ l.op = "read" /\ l.arg \in ArgsOf({"read"}) /\ l.arg \in Path /\ r = FileRead(l, e, mt, co)
    \/ l.op = "text" /\ r = e

\* A line of a Makefile that writes nothing evaluates so, and changes no file.
LEMMA LineIs ==
    ASSUME ReadOnly, NEW l \in Lines, NEW st, NEW r, r = EvalLine(l, st)
    PROVE  /\ Evaluates(l, st.ev, r.ev, st.mtime, st.content)
           /\ StFields \subseteq DOMAIN r /\ r.mtime = st.mtime /\ r.content = st.content
  <1>1. /\ l.op \in ReadOnlyOps /\ l.op \notin WriteOps
        /\ \A ops : l.op \in ops /\ l.op # "text" => l.arg \in ArgsOf(ops)
    BY ReadOnlyLines
  <1>2. ~Writes(l, st.mtime)
    BY <1>1 DEF Writes
  <1>3. StFields \subseteq DOMAIN r /\ r.mtime = st.mtime /\ r.content = st.content
    BY <1>2 DEF EvalLine, StFields
  <1>4. CASE l.op \in VarOps
    <2>1. r.ev = EvalVar(l, st.ev)
      BY <1>4 DEF EvalLine, VarOps, ShellOps
    <2>2. l.arg \in ArgsOf(VarOps)
      BY <1>1, <1>4 DEF VarOps
    <2> QED BY <1>3, <1>4, <2>1, <2>2 DEF Evaluates, ReadOnly
  <1>5. CASE l.op = "glob"
    <2>1. r.ev = EvalGlob(l, st.ev, st.mtime)
      BY <1>5 DEF EvalLine, VarOps, ShellOps
    <2>2. l.arg \in ArgsOf({"glob"})
      BY <1>1, <1>5
    <2> QED BY <1>3, <1>5, <2>1, <2>2 DEF Evaluates
  <1>6. CASE l.op \in Includes
    <2>1. r.ev = EvalInclude(l, st.ev, st.mtime, st.content)
      BY <1>6 DEF EvalLine, VarOps, Includes, ShellOps
    <2>2. l.arg \in ArgsOf(Includes) /\ l.arg \in ArgsOf(Includes \cup {"cat", "read"})
      BY <1>1, <1>6 DEF Includes
    <2> QED BY <1>3, <1>6, <2>1, <2>2 DEF Evaluates, ReadOnly
  <1>7. CASE l.op = "cat"
    <2>1. r.ev = EvalShell(l, st.ev, st.mtime, st.content)
      BY <1>7 DEF EvalLine, VarOps, ShellOps
    <2>2. l.arg \in ArgsOf(Includes \cup {"cat", "read"})
      BY <1>1, <1>7
    <2> QED BY <1>3, <1>7, <2>1, <2>2 DEF Evaluates, ReadOnly
  <1>8. CASE l.op = "find"
    <2>1. r.ev = EvalShell(l, st.ev, st.mtime, st.content)
      BY <1>8 DEF EvalLine, VarOps, ShellOps
    <2>2. l.arg \in ArgsOf({"find"})
      BY <1>1, <1>8
    <2> QED BY <1>3, <1>8, <2>1, <2>2 DEF Evaluates, ReadOnly
  <1>9. CASE l.op = "read"
    <2>1. r.ev = FileRead(l, st.ev, st.mtime, st.content)
      BY <1>9 DEF EvalLine, VarOps, ShellOps
    <2>2. l.arg \in ArgsOf(Includes \cup {"cat", "read"}) /\ l.arg \in ArgsOf({"read"})
      BY <1>1, <1>9
    <2> QED BY <1>3, <1>9, <2>1, <2>2 DEF Evaluates, ReadOnly
  <1>10. CASE l.op = "text"
    <2>1. r.ev = st.ev
      BY <1>10 DEF EvalLine, VarOps, ShellOps
    <2> QED BY <1>3, <1>10, <2>1 DEF Evaluates
  <1> QED BY <1>1, <1>4, <1>5, <1>6, <1>7, <1>8, <1>9, <1>10 DEF ReadOnlyOps

\* What the replay needs of the other evaluator.
Plain(x) == SoundFields \subseteq DOMAIN x /\ DOMAIN x.val = Var /\ DOMAIN x.origin = Var /\ x.obs \in Seq(LinesOf(x.obs))

\* The same line in two evaluations that agree.
LEMMA AlikeLine ==
    ASSUME ReadOnly, NEW l, NEW e \in Envs, NEW u \in Envs, NEW mt, NEW co, NEW mt0, NEW co0,
           NEW a, NEW x, Alike(a, x, mt, e, u), Plain(x), l.op = "find" => Known(x, mt0, l.arg),
           NEW b, Evaluates(l, a, b, mt, co), NEW y, Evaluates(l, x, y, mt0, co0), Agrees(y, u, mt, co, e)
    PROVE  Alike(b, y, mt, e, u)
  <1>0. SoundFields \subseteq DOMAIN x /\ DOMAIN x.val = Var /\ DOMAIN x.origin = Var /\ x.obs \in Seq(LinesOf(x.obs))
    BY DEF Plain
  <1>1. CASE l.op \in VarOps
    <2>1. l.arg \in Var /\ b = EvalVar(l, a) /\ y = EvalVar(l, x)
      BY <1>1 DEF Evaluates, VarOps, Includes
    <2> QED BY <1>0, <1>1, <2>1, AlikeVarOps
  <1>2. CASE l.op = "glob"
    <2>1. b = EvalGlob(l, a, mt) /\ y = EvalGlob(l, x, mt0)
      BY <1>2 DEF Evaluates, VarOps, Includes
    <2> QED BY <1>0, <2>1, AlikeFiles
  <1>3. CASE l.op \in Includes
    <2>1. b = EvalInclude(l, a, mt, co) /\ y = EvalInclude(l, x, mt0, co0)
      BY <1>3 DEF Evaluates, VarOps, Includes
    <2> QED BY <1>0, <2>1, AlikeFiles
  <1>4. CASE l.op = "cat"
    <2>1. b = EvalShell(l, a, mt, co) /\ y = EvalShell(l, x, mt0, co0)
      BY <1>4 DEF Evaluates, VarOps, Includes
    <2>2. SameBut(x, y, {"cmds", "obs"}) /\ y.obs = Append(x.obs, Obs(l, co0[l.arg]))
      BY <1>0, <1>4, <2>1, CatIs
    <2>3. SameBut(a, b, {"cmds", "obs"}) /\ b.obs = Append(a.obs, Obs(l, co[l.arg]))
      BY <1>4, <2>1, CatIs DEF Alike
    <2> QED BY <1>0, <1>4, <2>2, <2>3, AlikeReads
  <1>5. CASE l.op = "read"
    <2>1. b = FileRead(l, a, mt, co) /\ y = FileRead(l, x, mt0, co0)
      BY <1>5 DEF Evaluates, VarOps, Includes
    <2>2. SameBut(x, y, {"cmds", "obs"}) /\ y.obs = Append(x.obs, Obs(l, co0[l.arg]))
      BY <1>0, <2>1, ReadIs
    <2>3. SameBut(a, b, {"cmds", "obs"}) /\ b.obs = Append(a.obs, Obs(l, co[l.arg]))
      BY <2>1, ReadIs DEF Alike
    <2> QED BY <1>0, <1>5, <2>2, <2>3, AlikeReads
  <1>6. CASE l.op = "find"
    <2>1. l.arg \in Dirs /\ b = EvalShell(l, a, mt, co) /\ y = EvalShell(l, x, mt0, co0)
      BY <1>6 DEF Evaluates, VarOps, Includes
    <2> QED BY <1>0, <1>6, <2>1, AlikeFind
  <1>7. CASE l.op = "text"
    <2>1. b = a /\ y = x
      BY <1>7 DEF Evaluates, VarOps, Includes
    <2> QED BY <2>1
  <1> QED BY <1>1, <1>2, <1>3, <1>4, <1>5, <1>6, <1>7 DEF Evaluates

\* What a line does to the Makefiles, the wildcards and the records.
Effect(l, x, y, mt, co) ==
    /\ SoundFields \subseteq DOMAIN y /\ DOMAIN y.val = Var /\ DOMAIN y.origin = Var /\ y.failed = x.failed
    /\ \/ y.mk = x.mk
       \/ /\ l.op \in Includes /\ l.arg \in ArgsOf(Includes) /\ l.arg \in Path /\ l.arg \notin DOMAIN x.mk
          /\ y.mk = Set(x.mk, l.arg, Snapshot(mt, co, l.arg)) /\ l.arg \in DOMAIN y.globs
    /\ \/ y.globs = x.globs
       \/ /\ l.arg \notin DOMAIN x.globs /\ y.globs = Set(x.globs, l.arg, GlobFiles(mt, l.arg))
          /\ l.arg \in ArgsOf({"glob"}) \/ l.arg \in DOMAIN y.mk
    /\ y.obs = x.obs \/ \E z : y.obs = Append(x.obs, Obs(l, z))
    /\ x.usedEnv \subseteq y.usedEnv /\ x.usedUndef \subseteq y.usedUndef

\* Every line has such an effect.
LEMMA EffectLine ==
    ASSUME ReadOnly, NEW l, NEW x, Plain(x), NEW mt, NEW co, l.op = "find" => Known(x, mt, l.arg),
           NEW y, Evaluates(l, x, y, mt, co)
    PROVE  Effect(l, x, y, mt, co)
  <1>0. SoundFields \subseteq DOMAIN x /\ DOMAIN x.val = Var /\ DOMAIN x.origin = Var /\ x.obs \in Seq(LinesOf(x.obs))
    BY DEF Plain
  <1>1. CASE l.op \in VarOps
    <2>0. l.arg \in Var /\ y = EvalVar(l, x)
      BY <1>1 DEF Evaluates, VarOps, Includes
    <2>1. CASE l.op = "var"
      <3>1. /\ SameBut(x, y, {"usedEnv", "usedUndef", "obs"})
            /\ y.usedEnv = IF x.origin[l.arg] = "environment" THEN x.usedEnv \cup {l.arg} ELSE x.usedEnv
            /\ y.usedUndef = IF x.origin[l.arg] = "undefined" THEN x.usedUndef \cup {l.arg} ELSE x.usedUndef
            /\ y.obs = Append(x.obs, Obs(l, x.val[l.arg]))
        BY <1>0, <2>0, <2>1, VarIs
      <3>2. /\ SoundFields \subseteq DOMAIN y /\ y.val = x.val /\ y.origin = x.origin /\ y.failed = x.failed
            /\ y.mk = x.mk /\ y.globs = x.globs
        BY <3>1 DEF SameBut, SoundFields
      <3> QED BY <1>0, <3>1, <3>2 DEF Effect
    <2>2. CASE l.op = "default"
      <3>1. Defaults(x, y, l)
        BY <1>0, <2>0, <2>2, DefaultIs
      <3>2. /\ SoundFields \subseteq DOMAIN y /\ y.failed = x.failed /\ y.mk = x.mk /\ y.globs = x.globs /\ y.obs = x.obs
            /\ DOMAIN y.val = Var /\ DOMAIN y.origin = Var
            /\ x.usedEnv \subseteq y.usedEnv /\ x.usedUndef \subseteq y.usedUndef
        BY <3>1 DEF SameBut, SoundFields, Defaults
      <3> QED BY <3>2 DEF Effect
    <2>3. CASE l.op = "set"
      <3>1. SameBut(x, y, {"val", "origin"}) /\ DOMAIN y.val = Var /\ DOMAIN y.origin = Var
        BY <1>0, <2>0, <2>3, AssignIs DEF EvalVar
      <3>2. /\ SoundFields \subseteq DOMAIN y /\ y.failed = x.failed /\ y.mk = x.mk /\ y.globs = x.globs /\ y.obs = x.obs
            /\ y.usedEnv = x.usedEnv /\ y.usedUndef = x.usedUndef
        BY <3>1 DEF SameBut, SoundFields
      <3> QED BY <3>1, <3>2 DEF Effect
    <2>4. CASE l.op \in {"export", "unexport"}
      <3>1. SameBut(x, y, {"exports"})
        BY <1>0, <2>0, <2>4, ExportIs
      <3>2. /\ SoundFields \subseteq DOMAIN y /\ y.failed = x.failed /\ y.mk = x.mk /\ y.globs = x.globs /\ y.obs = x.obs
            /\ y.usedEnv = x.usedEnv /\ y.usedUndef = x.usedUndef /\ y.val = x.val /\ y.origin = x.origin
        BY <3>1 DEF SameBut, SoundFields
      <3> QED BY <1>0, <3>2 DEF Effect
    <2> QED BY <1>1, <2>1, <2>2, <2>3, <2>4 DEF VarOps
  <1>2. CASE l.op = "glob"
    <2>0. l.arg \in ArgsOf({"glob"}) /\ y = EvalGlob(l, x, mt)
      BY <1>2 DEF Evaluates, VarOps, Includes
    <2>1. /\ SameBut(x, y, {"globs", "obs"})
          /\ y.globs = IF l.arg \in DOMAIN x.globs THEN x.globs ELSE Set(x.globs, l.arg, GlobFiles(mt, l.arg))
          /\ y.obs = Append(x.obs, Obs(l, y.globs[l.arg]))
      BY <1>0, <2>0, WildcardIs
    <2>2. /\ SoundFields \subseteq DOMAIN y /\ y.failed = x.failed /\ y.mk = x.mk
          /\ y.usedEnv = x.usedEnv /\ y.usedUndef = x.usedUndef /\ y.val = x.val /\ y.origin = x.origin
      BY <2>1 DEF SameBut, SoundFields
    <2> QED BY <1>0, <2>0, <2>1, <2>2 DEF Effect
  <1>3. CASE l.op \in Includes
    <2>0. l.arg \in ArgsOf(Includes) /\ l.arg \in Path /\ y = EvalInclude(l, x, mt, co)
      BY <1>3 DEF Evaluates, VarOps, Includes
    <2>1. /\ SameBut(x, y, {"globs", "mk", "prog", "req"})
          /\ y.globs = IF l.arg \in DOMAIN x.globs THEN x.globs ELSE Set(x.globs, l.arg, GlobFiles(mt, l.arg))
          /\ y.mk = IF l.arg \in DOMAIN x.mk THEN x.mk ELSE Set(x.mk, l.arg, Snapshot(mt, co, l.arg))
          /\ y.prog = Before(y.mk[l.arg].data, x.prog)
      BY <1>0, <2>0, IncludeIs
    <2>2. /\ SoundFields \subseteq DOMAIN y /\ y.failed = x.failed /\ y.obs = x.obs
          /\ y.usedEnv = x.usedEnv /\ y.usedUndef = x.usedUndef /\ y.val = x.val /\ y.origin = x.origin
      BY <2>1 DEF SameBut, SoundFields
    <2>3. l.arg \in DOMAIN y.globs /\ l.arg \in DOMAIN y.mk
      BY <2>1 DEF Set
    <2> QED BY <1>0, <1>3, <2>0, <2>1, <2>2, <2>3 DEF Effect
  <1>4. ASSUME NEW F, SameBut(x, y, F), F \in {{"cmds", "obs"}, {"cmds", "obs", "root", "dirs"}},
               NEW z, y.obs = Append(x.obs, Obs(l, z))
        PROVE  Effect(l, x, y, mt, co)
    <2>1. /\ SoundFields \subseteq DOMAIN y /\ y.failed = x.failed /\ y.mk = x.mk /\ y.globs = x.globs
          /\ y.usedEnv = x.usedEnv /\ y.usedUndef = x.usedUndef /\ y.val = x.val /\ y.origin = x.origin
      BY <1>4 DEF SameBut, SoundFields
    <2> QED BY <1>0, <1>4, <2>1 DEF Effect
  <1>5. CASE l.op = "cat"
    <2>1. y = EvalShell(l, x, mt, co)
      BY <1>5 DEF Evaluates, VarOps, Includes
    <2>2. SameBut(x, y, {"cmds", "obs"}) /\ y.obs = Append(x.obs, Obs(l, co[l.arg]))
      BY <1>0, <1>5, <2>1, CatIs
    <2> QED BY <1>4, <2>2
  <1>6. CASE l.op = "read"
    <2>1. y = FileRead(l, x, mt, co)
      BY <1>6 DEF Evaluates, VarOps, Includes
    <2>2. SameBut(x, y, {"cmds", "obs"}) /\ y.obs = Append(x.obs, Obs(l, co[l.arg]))
      BY <1>0, <2>1, ReadIs
    <2> QED BY <1>4, <2>2
  <1>7. CASE l.op = "find"
    <2>1. y = EvalShell(l, x, mt, co)
      BY <1>7 DEF Evaluates, VarOps, Includes
    <2>2. PICK R : R = RootOf(x, mt)
      OBVIOUS
    <2>3. PICK z : z = IF l.arg \in R THEN ListOf(x, mt, l.arg) ELSE {}
      OBVIOUS
    <2>4. l.arg \in R \/ ~Exists(mt, l.arg)
      BY <1>7, <2>2 DEF Known
    <2>5. Finds(l, x, y, mt, R, z)
      BY <1>0, <1>7, <2>1, <2>2, <2>3, <2>4, FindIs
    <2>6. SameBut(x, y, {"cmds", "obs", "root", "dirs"}) /\ y.obs = Append(x.obs, Obs(l, z))
      BY <2>5 DEF Finds
    <2> QED BY <1>4, <2>6
  <1>8. CASE l.op = "text"
    <2>1. y = x
      BY <1>8 DEF Evaluates, VarOps, Includes
    <2> QED BY <1>0, <2>1 DEF Effect
  <1> QED BY <1>1, <1>2, <1>3, <1>5, <1>6, <1>7, <1>8 DEF Evaluates

\* The observations are kept.
LEMMA ObsGrow ==
    ASSUME NEW x, Plain(x), NEW y, NEW l, y.obs = x.obs \/ \E z : y.obs = Append(x.obs, Obs(l, z))
    PROVE  /\ y.obs \in Seq(LinesOf(y.obs))
           /\ \A i \in DOMAIN x.obs : i \in DOMAIN y.obs /\ y.obs[i] = x.obs[i]
  <1>0. x.obs \in Seq(LinesOf(x.obs))
    BY DEF Plain
  <1>1. CASE y.obs = x.obs
    BY <1>0, <1>1
  <1>2. ASSUME NEW z, y.obs = Append(x.obs, Obs(l, z))
        PROVE  /\ y.obs \in Seq(LinesOf(y.obs))
               /\ \A i \in DOMAIN x.obs : i \in DOMAIN y.obs /\ y.obs[i] = x.obs[i]
    <2>1. PICK o : o = Obs(l, z)
      OBVIOUS
    <2>2. /\ Append(x.obs, o) \in Seq(LinesOf(Append(x.obs, o)))
          /\ Len(x.obs) \in Nat /\ DOMAIN x.obs = 1 .. Len(x.obs)
          /\ DOMAIN Append(x.obs, o) = 1 .. Len(x.obs) + 1
          /\ \A i \in 1 .. Len(x.obs) : Append(x.obs, o)[i] = x.obs[i]
      BY <1>0, AppendIs
    <2>3. y.obs = Append(x.obs, o)
      BY <1>2, <2>1
    <2> QED BY <2>2, <2>3
  <1> QED BY <1>1, <1>2

\* What agrees after a line agreed before it.
LEMMA AgreesBefore ==
    ASSUME ReadOnly, NEW l, NEW x, Plain(x), NEW mt0, NEW co0, NEW y, Effect(l, x, y, mt0, co0),
           NEW u, NEW e, NEW mt, NEW co, Agrees(y, u, mt, co, e)
    PROVE  Agrees(x, u, mt, co, e)
  <1>1. \A i \in DOMAIN x.obs : i \in DOMAIN y.obs /\ y.obs[i] = x.obs[i]
    BY ObsGrow DEF Effect
  <1>2. \A f \in DOMAIN x.mk : f \in DOMAIN y.mk /\ y.mk[f] = x.mk[f]
    BY DEF Effect, Set
  <1>3. \A g \in DOMAIN x.globs : g \in DOMAIN y.globs /\ y.globs[g] = x.globs[g]
    BY DEF Effect, Set
  <1>4. FilesAgree(x.mk, x.globs, mt, co)
    BY <1>2, <1>3 DEF Agrees, FilesAgree
  <1>5. ObsAgree(x.obs, mt, co)
    BY <1>1 DEF Agrees, ObsAgree
  <1> QED BY <1>4, <1>5 DEF Agrees, Effect

\* The line is taken from the program.
Popped(x) == [x EXCEPT !.prog = Tail(@)]

\* Both evaluators take the next line.
LEMMA AlikePopped ==
    ASSUME NEW a, NEW x, NEW mt, NEW e, NEW u, Alike(a, x, mt, e, u), Plain(x)
    PROVE  Alike(Popped(a), Popped(x), mt, e, u) /\ Plain(Popped(x))
  <1>1. PICK b : b = Popped(a)
    OBVIOUS
  <1>2. PICK y : y = Popped(x)
    OBVIOUS
  <1>3. /\ SoundFields \subseteq DOMAIN a /\ SoundFields \subseteq DOMAIN x /\ a.prog = x.prog
        /\ a.mk = x.mk /\ a.globs = x.globs /\ a.obs = x.obs
        /\ a.root # None => a.root.dirs = {d \in Dirs : Exists(mt, d)}
        /\ \A d \in DOMAIN a.dirs : a.dirs[d] = Listing(mt, d)
    BY DEF Alike, Plain
  <1>4. /\ SoundFields \subseteq DOMAIN b /\ b.val = a.val /\ b.origin = a.origin /\ b.failed = a.failed
        /\ b.mk = a.mk /\ b.globs = a.globs /\ b.obs = a.obs /\ b.root = a.root /\ b.dirs = a.dirs /\ b.prog = Tail(a.prog)
    BY <1>1, <1>3 DEF Popped, SoundFields
  <1>5. /\ SoundFields \subseteq DOMAIN y /\ y.val = x.val /\ y.origin = x.origin /\ y.failed = x.failed
        /\ y.mk = x.mk /\ y.globs = x.globs /\ y.obs = x.obs /\ y.prog = Tail(x.prog)
    BY <1>2, <1>3 DEF Popped, SoundFields
  <1>6. Alike(b, y, mt, e, u)
    BY <1>3, <1>4, <1>5, AlikeRest
  <1>7. Plain(y)
    BY <1>5 DEF Plain
  <1> QED BY <1>1, <1>2, <1>6, <1>7

\* An undisturbed evaluation that agrees so far takes the next step alike.
LEMMA AlikeNext ==
    ASSUME ReadOnly, NEW e \in Envs, NEW u \in Envs, NEW mt, NEW co, NEW mt0, NEW co0,
           NEW x, Plain(x), x.prog # << >>, ~x.failed, NEW l, l = Head(x.prog), l \in Lines,
           l.op = "find" => Known(Popped(x), mt0, l.arg),
           NEW y, Evaluates(l, Popped(x), y, mt0, co0), Agrees(y, u, mt, co, e),
           NEW s, AlikeState(s, x, mt, co, e, u)
    PROVE  AlikeState(EvalNext(s), y, mt, co, e, u)
  <1>1. /\ StFields \subseteq DOMAIN s /\ s.mtime = mt /\ s.content = co /\ Alike(s.ev, x, mt, e, u)
    BY DEF AlikeState
  <1>2. PICK a : a = s.ev
    OBVIOUS
  <1>3. a.prog = x.prog /\ a.failed = x.failed /\ SoundFields \subseteq DOMAIN a
    BY <1>1, <1>2 DEF Alike
  <1>4. PICK p : p = Pop(s)
    OBVIOUS
  <1>5. p.ev = Popped(a) /\ p.mtime = mt /\ p.content = co
    BY <1>1, <1>2, <1>4 DEF Pop, StFields, Popped
  <1>6. PICK r : r = EvalLine(l, p)
    OBVIOUS
  <1>7. EvalNext(s) = r
    BY <1>2, <1>3, <1>4, <1>6 DEF EvalNext
  <1>8. /\ Evaluates(l, p.ev, r.ev, p.mtime, p.content)
        /\ StFields \subseteq DOMAIN r /\ r.mtime = p.mtime /\ r.content = p.content
    BY <1>6, LineIs
  <1>9. Alike(Popped(a), Popped(x), mt, e, u) /\ Plain(Popped(x))
    BY <1>1, <1>2, AlikePopped
  <1>10. PICK q, b, c : q = Popped(x) /\ b = Popped(a) /\ c = r.ev
    OBVIOUS
  <1>11. /\ Evaluates(l, b, c, mt, co) /\ Evaluates(l, q, y, mt0, co0) /\ Alike(b, q, mt, e, u) /\ Plain(q)
         /\ l.op = "find" => Known(q, mt0, l.arg)
    BY <1>5, <1>8, <1>9, <1>10
  <1>12. Alike(c, y, mt, e, u)
    BY <1>11, AlikeLine
  <1> QED BY <1>5, <1>7, <1>8, <1>10, <1>12 DEF AlikeState

-----------------------------------------------------------------------------
(* The replay of a whole evaluation.                                       *)

\* The state of a new evaluator after the top-level Makefile was read.
LEMMA BeginIs ==
    ASSUME NEW u, NEW bin, NEW x, x = NewEvaluator(u, bin), NEW mt, NEW co, NEW y, y = BeginEval(x, mt, co)
    PROVE  /\ SoundFields \subseteq DOMAIN x /\ SameBut(x, y, {"mk", "prog"})
           /\ y.mk = IF Makefile \in DOMAIN x.mk THEN x.mk ELSE Set(x.mk, Makefile, Snapshot(mt, co, Makefile))
           /\ y.prog = y.mk[Makefile].data
  <1>1. SoundFields \subseteq DOMAIN x
    BY DEF NewEvaluator, SoundFields
  <1>2. PICK a : a = ReadMakefile(x, mt, co, Makefile)
    OBVIOUS
  <1>3. y = [a EXCEPT !.prog = a.mk[Makefile].data]
    BY <1>2 DEF BeginEval
  <1>4. /\ SameBut(x, a, {"mk"})
        /\ a.mk = IF Makefile \in DOMAIN x.mk THEN x.mk ELSE Set(x.mk, Makefile, Snapshot(mt, co, Makefile))
    BY <1>1, <1>2, ReadMakefileIs
  <1> QED BY <1>1, <1>3, <1>4 DEF SameBut, SoundFields

\* The fields of a new evaluator.
Fresh(x, u, bin) ==
    /\ x.mk = [p \in {KatiBinary} |-> bin] /\ DOMAIN x.globs = {} /\ x.obs = << >> /\ x.cmds = << >>
    /\ x.root = None /\ DOMAIN x.dirs = {} /\ x.usedEnv = {} /\ x.usedUndef = {}
    /\ DOMAIN x.val = Var /\ DOMAIN x.origin = Var /\ \A v \in Var : Given(x, v, u)

\* They are those.
LEMMA NewIs ==
    ASSUME NEW u, NEW bin, NEW x, x = NewEvaluator(u, bin)
    PROVE  Fresh(x, u, bin)
  BY DEF NewEvaluator, Given, Fresh

\* A new evaluator exports what its environment has.
LEMMA NewExports ==
    ASSUME NEW u, NEW bin, NEW x, x = NewEvaluator(u, bin), NEW v \in Var, u[v] # Unset
    PROVE  Exports(x, v)
  <1>1. x.exports = [w \in {w \in Var : u[w] # Unset} |-> TRUE]
    BY DEF NewEvaluator
  <1> QED BY <1>1 DEF Exports

\* An undisturbed evaluation starts as the one that it agrees with.
LEMMA AlikeBegin ==
    ASSUME NEW e \in Envs, NEW u \in Envs, NEW mt, NEW co, NEW mt0, NEW co0, NEW bin,
           NEW y, y = BeginEval(NewEvaluator(u, bin), mt0, co0), Agrees(y, u, mt, co, e),
           NEW b, b = BeginEval(NewEvaluator(e, Snapshot(mt, co, KatiBinary)), mt, co)
    PROVE  Alike(b, y, mt, e, u)
  <1>1. PICK x : x = NewEvaluator(u, bin)
    OBVIOUS
  <1>2. PICK k : k = Snapshot(mt, co, KatiBinary)
    OBVIOUS
  <1>3. PICK a : a = NewEvaluator(e, k)
    OBVIOUS
  <1>4. /\ SoundFields \subseteq DOMAIN x /\ SameBut(x, y, {"mk", "prog"})
        /\ y.mk = IF Makefile \in DOMAIN x.mk THEN x.mk ELSE Set(x.mk, Makefile, Snapshot(mt0, co0, Makefile))
        /\ y.prog = y.mk[Makefile].data
    BY <1>1, BeginIs
  <1>5. /\ SoundFields \subseteq DOMAIN a /\ SameBut(a, b, {"mk", "prog"})
        /\ b.mk = IF Makefile \in DOMAIN a.mk THEN a.mk ELSE Set(a.mk, Makefile, Snapshot(mt, co, Makefile))
        /\ b.prog = b.mk[Makefile].data
    BY <1>2, <1>3, BeginIs
  <1>0. Fresh(x, u, bin) /\ Fresh(a, e, k)
    BY <1>1, <1>3, NewIs
  <1>6. x.mk = [p \in {KatiBinary} |-> bin] /\ a.mk = [p \in {KatiBinary} |-> k]
    BY <1>0 DEF Fresh
  <1>7. \A f \in DOMAIN y.mk : y.mk[f] = Snapshot(mt, co, f)
    BY DEF Agrees, FilesAgree
  <1>8. b.mk = y.mk
    <2>1. CASE Makefile \in DOMAIN x.mk
      <3>1. y.mk = x.mk /\ b.mk = a.mk
        BY <1>4, <1>5, <1>6, <2>1
      <3>2. KatiBinary \in DOMAIN y.mk /\ y.mk[KatiBinary] = bin
        BY <1>6, <3>1
      <3>3. bin = k
        BY <1>2, <1>7, <3>2
      <3> QED BY <1>6, <3>1, <3>3
    <2>2. CASE Makefile \notin DOMAIN x.mk
      <3>1. y.mk = Set(x.mk, Makefile, Snapshot(mt0, co0, Makefile)) /\ b.mk = Set(a.mk, Makefile, Snapshot(mt, co, Makefile))
        BY <1>4, <1>5, <1>6, <2>2
      <3>2. /\ KatiBinary \in DOMAIN y.mk /\ y.mk[KatiBinary] = bin /\ Makefile \in DOMAIN y.mk
            /\ y.mk[Makefile] = Snapshot(mt0, co0, Makefile)
        BY <1>6, <2>2, <3>1 DEF Set
      <3>3. bin = k /\ Snapshot(mt0, co0, Makefile) = Snapshot(mt, co, Makefile)
        BY <1>2, <1>7, <3>2
      <3> QED BY <1>6, <3>1, <3>3
    <2> QED BY <2>1, <2>2
  <1>9. /\ x.obs = << >> /\ a.obs = << >> /\ a.root = None /\ DOMAIN a.dirs = {}
        /\ DOMAIN x.val = Var /\ DOMAIN x.origin = Var /\ DOMAIN a.val = Var /\ DOMAIN a.origin = Var
        /\ \A v \in Var : Given(x, v, u) /\ Given(a, v, e)
    BY <1>0 DEF Fresh
  <1>10. x.globs = a.globs /\ x.failed = a.failed
    BY <1>1, <1>3 DEF NewEvaluator
  <1>11. /\ SoundFields \subseteq DOMAIN b /\ b.val = a.val /\ b.origin = a.origin /\ b.failed = a.failed
         /\ b.globs = a.globs /\ b.obs = a.obs /\ b.root = a.root /\ b.dirs = a.dirs
         /\ y.val = x.val /\ y.origin = x.origin /\ y.failed = x.failed /\ y.globs = x.globs /\ y.obs = x.obs
    BY <1>4, <1>5 DEF SameBut, SoundFields
  <1>12. \A v \in Var : AlikeVar(b, y, v, e, u)
    BY <1>9, <1>11 DEF AlikeVar, Given
  <1>13. b.prog = y.prog
    BY <1>4, <1>5, <1>8
  <1> QED BY <1>8, <1>9, <1>10, <1>11, <1>12, <1>13 DEF Alike

\* So the first state replays.
LEMMA ReplayBegin ==
    ASSUME NEW u \in Envs, NEW mt0, NEW co0, NEW bin, NEW y, y = BeginEval(NewEvaluator(u, bin), mt0, co0)
    PROVE  Replays(y, u)
  <1> SUFFICES ASSUME NEW T, NEW mt, NEW co, NEW e, e \in Envs, Closed(T, mt, co, e), Agrees(y, u, mt, co, e)
               PROVE  \E s \in T : AlikeState(s, y, mt, co, e, u)
    BY DEF Replays
  <1>1. PICK b : b = BeginEval(NewEvaluator(e, Snapshot(mt, co, KatiBinary)), mt, co)
    OBVIOUS
  <1>2. PICK t : [ev |-> b, mtime |-> mt, content |-> co, now |-> t] \in T
    BY <1>1 DEF Closed
  <1>3. PICK s : s = [ev |-> b, mtime |-> mt, content |-> co, now |-> t]
    OBVIOUS
  <1>4. Alike(b, y, mt, e, u)
    BY <1>1, AlikeBegin
  <1>5. AlikeState(s, y, mt, co, e, u)
    BY <1>3, <1>4 DEF AlikeState, StFields
  <1> QED BY <1>2, <1>3, <1>5

\* A line keeps that.
LEMMA ReplayLine ==
    ASSUME ReadOnly, NEW u \in Envs, NEW mt0, NEW co0, NEW x, Plain(x), x.prog # << >>, ~x.failed,
           NEW l, l = Head(x.prog), l \in Lines, l.op = "find" => Known(Popped(x), mt0, l.arg),
           NEW y, Evaluates(l, Popped(x), y, mt0, co0), Replays(x, u)
    PROVE  Replays(y, u)
  <1> SUFFICES ASSUME NEW T, NEW mt, NEW co, NEW e, e \in Envs, Closed(T, mt, co, e), Agrees(y, u, mt, co, e)
               PROVE  \E s \in T : AlikeState(s, y, mt, co, e, u)
    BY DEF Replays
  <1>1. PICK q : q = Popped(x)
    OBVIOUS
  <1>2. Plain(q) /\ q.mk = x.mk /\ q.globs = x.globs /\ q.obs = x.obs /\ q.usedEnv = x.usedEnv /\ q.usedUndef = x.usedUndef
    BY <1>1 DEF Plain, Popped, SoundFields
  <1>3. Effect(l, q, y, mt0, co0)
    BY <1>1, <1>2, EffectLine
  <1>4. Agrees(q, u, mt, co, e)
    BY <1>2, <1>3, AgreesBefore
  <1>5. Agrees(x, u, mt, co, e)
    BY <1>2, <1>4 DEF Agrees
  <1>6. PICK s \in T : AlikeState(s, x, mt, co, e, u)
    BY <1>5 DEF Replays
  <1>7. EvalNext(s) \in T
    BY DEF Closed
  <1>8. AlikeState(EvalNext(s), y, mt, co, e, u)
    BY <1>6, AlikeNext
  <1> QED BY <1>7, <1>8

\* At the end the observations are the same.
LEMMA ReplayEnd ==
    ASSUME NEW u, NEW x, x.prog = << >>, KatiBinary \in DOMAIN x.mk, Replays(x, u),
           NEW y, y.mk = x.mk, y.globs = x.globs, y.obs = x.obs, x.usedEnv \subseteq y.usedEnv, x.usedUndef \subseteq y.usedUndef
    PROVE  ReplaysAll(y, u)
  <1> SUFFICES ASSUME NEW T, NEW mt, NEW co, NEW e, e \in Envs, Closed(T, mt, co, e), Agrees(y, u, mt, co, e)
               PROVE  \E s \in T : AtEnd(s, y.obs, mt, co)
    BY DEF ReplaysAll
  <1>1. Agrees(x, u, mt, co, e)
    BY DEF Agrees
  <1>2. PICK s \in T : AlikeState(s, x, mt, co, e, u)
    BY <1>1 DEF Replays
  <1>3. s.ev.prog = << >> /\ s.ev.obs = x.obs /\ s.ev.mk = x.mk
    BY <1>2 DEF AlikeState, Alike
  <1>4. x.mk[KatiBinary] = Snapshot(mt, co, KatiBinary)
    BY <1>1 DEF Agrees, FilesAgree
  <1> QED BY <1>3, <1>4 DEF AtEnd

\* The stamp remembers what the evaluator does.
LEMMA ReplayStamp ==
    ASSUME NEW u, NEW x, ReplaysAll(x, u), NEW pe, \A v \in x.usedEnv : pe[v] = u[v],
           NEW st, st.mk = x.mk, st.globs = x.globs, st.undef = x.usedUndef,
           st.envs = [v \in x.usedEnv \cup {PathVar} |-> GetEnv(pe, v)]
    PROVE  Reproduces(st, x.obs)
  <1> SUFFICES ASSUME NEW T, NEW mt, NEW co, NEW e, e \in Envs, Closed(T, mt, co, e), StampAgrees(st, x.obs, mt, co, e)
               PROVE  \E s \in T : AtEnd(s, x.obs, mt, co)
    BY DEF Reproduces
  <1>1. ASSUME NEW v \in x.usedEnv PROVE GetEnv(e, v) = GetEnv(u, v)
    <2>1. v \in DOMAIN st.envs /\ st.envs[v] = GetEnv(pe, v)
      OBVIOUS
    <2>2. GetEnv(e, v) = GetEnv(pe, v)
      BY <2>1 DEF StampAgrees
    <2>3. GetEnv(pe, v) = GetEnv(u, v)
      BY DEF GetEnv
    <2> QED BY <2>2, <2>3
  <1>2. Agrees(x, u, mt, co, e)
    BY <1>1 DEF StampAgrees, Agrees
  <1> QED BY <1>2 DEF ReplaysAll

-----------------------------------------------------------------------------
(* A line keeps the evaluator's part of the invariant.                     *)

\* r has the variables of e and their uses.
SameEnv(e, r) == r.val = e.val /\ r.origin = e.origin /\ r.exports = e.exports /\ r.usedEnv = e.usedEnv

\* Lines that are about files leave the variables alone.
LEMMA FilesSameEnv ==
    ASSUME ReadOnly, NEW l, l.op \notin VarOps, NEW x, Plain(x), NEW mt, NEW co, l.op = "find" => Known(x, mt, l.arg),
           NEW y, Evaluates(l, x, y, mt, co)
    PROVE  SameEnv(x, y)
  <1>0. SoundFields \subseteq DOMAIN x
    BY DEF Plain
  <1>1. CASE l.op = "glob"
    <2>1. y = EvalGlob(l, x, mt)
      BY <1>1 DEF Evaluates, VarOps, Includes
    <2>2. SameBut(x, y, {"globs", "obs"})
      BY <1>0, <2>1, WildcardIs
    <2> QED BY <2>2 DEF SameBut, SoundFields, SameEnv
  <1>2. CASE l.op \in Includes
    <2>1. y = EvalInclude(l, x, mt, co)
      BY <1>2 DEF Evaluates, VarOps, Includes
    <2>2. SameBut(x, y, {"globs", "mk", "prog", "req"})
      BY <1>0, <2>1, IncludeIs
    <2> QED BY <2>2 DEF SameBut, SoundFields, SameEnv
  <1>3. CASE l.op = "cat"
    <2>1. y = EvalShell(l, x, mt, co)
      BY <1>3 DEF Evaluates, VarOps, Includes
    <2>2. SameBut(x, y, {"cmds", "obs"})
      BY <1>0, <1>3, <2>1, CatIs
    <2> QED BY <2>2 DEF SameBut, SoundFields, SameEnv
  <1>4. CASE l.op = "read"
    <2>1. y = FileRead(l, x, mt, co)
      BY <1>4 DEF Evaluates, VarOps, Includes
    <2>2. SameBut(x, y, {"cmds", "obs"})
      BY <1>0, <2>1, ReadIs
    <2> QED BY <2>2 DEF SameBut, SoundFields, SameEnv
  <1>5. CASE l.op = "find"
    <2>1. y = EvalShell(l, x, mt, co)
      BY <1>5 DEF Evaluates, VarOps, Includes
    <2>2. PICK R : R = RootOf(x, mt)
      OBVIOUS
    <2>3. PICK z : z = IF l.arg \in R THEN ListOf(x, mt, l.arg) ELSE {}
      OBVIOUS
    <2>4. l.arg \in R \/ ~Exists(mt, l.arg)
      BY <1>5, <2>2 DEF Known
    <2>5. Finds(l, x, y, mt, R, z)
      BY <1>0, <1>5, <2>1, <2>2, <2>3, <2>4, FindIs
    <2>6. SameBut(x, y, {"cmds", "obs", "root", "dirs"})
      BY <2>5 DEF Finds
    <2> QED BY <2>6 DEF SameBut, SoundFields, SameEnv
  <1>6. CASE l.op = "text"
    <2>1. y = x
      BY <1>6 DEF Evaluates, VarOps, Includes
    <2> QED BY <2>1 DEF SameEnv
  <1> QED BY <1>1, <1>2, <1>3, <1>4, <1>5, <1>6 DEF Evaluates

\* The variables of the environment.
LEMMA EnvLine ==
    ASSUME ReadOnly, NEW l \in Lines, NEW u \in Envs, NEW x, Plain(x), EnvRight(x, u), NEW mt, NEW co,
           l.op = "find" => Known(x, mt, l.arg), NEW y, Evaluates(l, x, y, mt, co)
    PROVE  EnvRight(y, u)
  <1>0. SoundFields \subseteq DOMAIN x /\ DOMAIN x.val = Var /\ DOMAIN x.origin = Var
    BY DEF Plain
  <1>1. CASE l.op \notin VarOps
    <2>1. SameEnv(x, y)
      BY <1>1, FilesSameEnv
    <2> QED BY <2>1 DEF SameEnv, EnvRight, Exports
  <1>2. ASSUME l.op \in VarOps
        PROVE  l.arg \in Var /\ y = EvalVar(l, x)
    BY <1>2 DEF Evaluates, VarOps, Includes
  <1>3. \A ops : l.op \in ops /\ l.op # "text" => l.arg \in ArgsOf(ops)
    BY ReadOnlyLines
  <1>4. CASE l.op = "var"
    <2>0. l.arg \in Var /\ y = EvalVar(l, x) /\ l.arg \in ArgsOf(Uses)
      BY <1>2, <1>3, <1>4 DEF VarOps, Uses
    <2>1. /\ SameBut(x, y, {"usedEnv", "usedUndef", "obs"})
          /\ y.usedEnv = IF x.origin[l.arg] = "environment" THEN x.usedEnv \cup {l.arg} ELSE x.usedEnv
      BY <1>0, <1>4, <2>0, VarIs
    <2>2. y.val = x.val /\ y.origin = x.origin /\ y.exports = x.exports
      BY <2>1 DEF SameBut, SoundFields
    <2>3. \A v \in y.usedEnv : v \in ArgsOf(Uses) /\ u[v] # Unset
      BY <2>0, <2>1 DEF EnvRight
    <2> QED BY <2>2, <2>3 DEF EnvRight, Exports
  <1>5. CASE l.op = "default"
    <2>0. l.arg \in Var /\ y = EvalVar(l, x) /\ l.arg \in ArgsOf(Uses)
      BY <1>2, <1>3, <1>5 DEF VarOps, Uses
    <2>1. Defaults(x, y, l)
      BY <1>0, <1>5, <2>0, DefaultIs
    <2>2. /\ y.exports = x.exports /\ DOMAIN y.val = Var /\ DOMAIN y.origin = Var
          /\ y.usedEnv = IF x.origin[l.arg] = "environment" THEN x.usedEnv \cup {l.arg} ELSE x.usedEnv
      BY <2>1 DEF SameBut, SoundFields, Defaults
    <2>3. \A v \in y.usedEnv : v \in ArgsOf(Uses) /\ u[v] # Unset
      BY <2>0, <2>2 DEF EnvRight
    <2>4. ASSUME NEW v \in Var, y.origin[v] = "environment" PROVE u[v] # Unset /\ y.val[v] = u[v]
      BY <2>1, <2>4 DEF EnvRight, Defaults
    <2>5. ASSUME NEW v \in ArgsOf(Uses), u[v] # Unset PROVE y.origin[v] = "environment" /\ Exports(y, v)
      <3>1. x.origin[v] = "environment" /\ Exports(x, v) /\ v \in Var
        <4>1. ArgsOf(Uses) \subseteq ArgsOf(VarOps)
          BY DEF ArgsOf, Uses, VarOps
        <4> QED BY <2>5, <4>1 DEF EnvRight, ReadOnly
      <3>2. y.origin[v] = "environment"
        BY <2>1, <3>1 DEF Defaults
      <3> QED BY <2>2, <3>1, <3>2 DEF Exports
    <2> QED BY <2>2, <2>3, <2>4, <2>5 DEF EnvRight
  <1>6. CASE l.op = "set"
    <2>0. l.arg \in Var /\ y = EvalVar(l, x) /\ l.arg \in ArgsOf({"set", "unexport"})
      BY <1>2, <1>3, <1>6 DEF VarOps
    <2>1. /\ SameBut(x, y, {"val", "origin"})
          /\ DOMAIN y.val = Var /\ DOMAIN y.origin = Var
          /\ y.val[l.arg] = l.text /\ y.origin[l.arg] = "file"
          /\ \A w \in Var : w # l.arg => y.val[w] = x.val[w] /\ y.origin[w] = x.origin[w]
      BY <1>0, <1>6, <2>0, AssignIs DEF EvalVar
    <2>2. y.exports = x.exports /\ y.usedEnv = x.usedEnv
      BY <2>1 DEF SameBut, SoundFields
    <2>3. ASSUME NEW v \in ArgsOf(Uses), u[v] # Unset PROVE y.origin[v] = "environment" /\ Exports(y, v)
      <3>1. x.origin[v] = "environment" /\ Exports(x, v) /\ v \in Var /\ v # l.arg
        <4>1. ArgsOf(Uses) \subseteq ArgsOf(VarOps)
          BY DEF ArgsOf, Uses, VarOps
        <4> QED BY <2>0, <2>3, <4>1 DEF EnvRight, ReadOnly
      <3> QED BY <2>1, <2>2, <3>1 DEF Exports
    <2> QED BY <2>1, <2>2, <2>3 DEF EnvRight
  <1>7. CASE l.op \in {"export", "unexport"}
    <2>0. l.arg \in Var /\ y = EvalVar(l, x) /\ (l.op = "unexport" => l.arg \in ArgsOf({"set", "unexport"}))
      BY <1>2, <1>3, <1>7 DEF VarOps
    <2>1. SameBut(x, y, {"exports"})
      BY <1>0, <1>7, <2>0, ExportIs
    <2>2. y.val = x.val /\ y.origin = x.origin /\ y.usedEnv = x.usedEnv
      BY <2>1 DEF SameBut, SoundFields
    <2>4. DOMAIN y.exports \subseteq Var
      BY <1>0, <1>7, <2>0, ExportsDomain DEF EnvRight
    <2>3. ASSUME NEW v \in ArgsOf(Uses), u[v] # Unset PROVE y.origin[v] = "environment" /\ Exports(y, v)
      <3>1. x.origin[v] = "environment" /\ Exports(x, v)
        BY <2>3 DEF EnvRight
      <3>2. v # l.arg \/ l.op = "export"
        BY <1>7, <2>0, <2>3 DEF ReadOnly
      <3>3. Exports(y, v)
        BY <1>0, <1>7, <2>0, <3>1, <3>2, ExportsStay
      <3> QED BY <2>2, <3>1, <3>3
    <2> QED BY <2>2, <2>3, <2>4 DEF EnvRight
  <1> QED BY <1>1, <1>4, <1>5, <1>6, <1>7 DEF VarOps

\* What is read of a file.
LEMMA SnapshotIs ==
    ASSUME NEW mt, NEW co \in [Path -> Seq(Lines)], NEW f \in Path, NEW r, r = Snapshot(mt, co, f)
    PROVE  r \in [exists : BOOLEAN, data : Seq(Lines)] /\ (r.exists <=> Exists(mt, f)) /\ r.data = co[f]
  <1>1. r.data = co[f]
    BY DEF Snapshot
  <1>2. r.exists <=> Exists(mt, f)
    BY Zenon DEF Snapshot
  <1>3. r \in [exists : BOOLEAN, data : Seq(Lines)]
    <2>2. co[f] \in Seq(Lines)
      OBVIOUS
    <2>3. (mt[f] # NotExist) \in BOOLEAN
      BY Zenon
    <2> QED BY <2>2, <2>3, Zenon DEF Snapshot, Exists
  <1> QED BY <1>1, <1>2, <1>3

\* The Makefiles and the wildcards.
LEMMA MkLine ==
    ASSUME ReadOnly, NEW l, NEW mt, NEW co \in [Path -> Seq(Lines)], TreeRight(mt, co),
           NEW x, MkRight(x.mk, x.globs, mt), GlobsRight(x), NEW y, Effect(l, x, y, mt, co)
    PROVE  MkRight(y.mk, y.globs, mt) /\ GlobsRight(y)
  <1>1. \A f \in DOMAIN x.mk : f \in DOMAIN y.mk /\ y.mk[f] = x.mk[f]
    BY DEF Effect, Set
  <1>2. \A g \in DOMAIN x.globs : g \in DOMAIN y.globs /\ y.globs[g] = x.globs[g]
    BY DEF Effect, Set
  <1>3. \A g \in DOMAIN y.globs : g \in DOMAIN x.globs \/ (g = l.arg /\ y.globs[g] = GlobFiles(mt, g) /\ (l.arg \in ArgsOf({"glob"}) \/ l.arg \in DOMAIN y.mk))
    BY DEF Effect, Set
  <1>4. \A f \in DOMAIN y.mk : \/ f \in DOMAIN x.mk
                               \/ /\ f = l.arg /\ f \notin DOMAIN x.mk /\ f \in ArgsOf(Includes) /\ f \in Path
                                  /\ y.mk[f] = Snapshot(mt, co, f) /\ f \in DOMAIN y.globs
    BY DEF Effect, Set
  <1>5. GlobsRight(y)
    BY <1>1, <1>3 DEF GlobsRight
  <1>6. KatiBinary \in DOMAIN y.mk /\ DOMAIN y.mk \subseteq Path
    BY <1>1, <1>4 DEF MkRight
  <1>7. ASSUME NEW f \in DOMAIN y.mk
        PROVE  /\ y.mk[f] \in [exists : BOOLEAN, data : Seq(Lines)]
               /\ ~y.mk[f].exists => y.mk[f].data = << >>
               /\ y.mk[f].exists /\ f \notin Deletable => Exists(mt, f)
               /\ f \in Deletable => f \in DOMAIN y.globs /\ (f \in y.globs[f] <=> y.mk[f].exists)
    <2>1. CASE f \in DOMAIN x.mk
      BY <1>1, <1>2, <2>1 DEF MkRight
    <2>2. CASE f \notin DOMAIN x.mk
      <3>1. f = l.arg /\ f \in ArgsOf(Includes) /\ f \in Path /\ y.mk[f] = Snapshot(mt, co, f) /\ f \in DOMAIN y.globs
        BY <1>4, <2>2
      <3>2. /\ y.mk[f] \in [exists : BOOLEAN, data : Seq(Lines)]
            /\ (y.mk[f].exists <=> Exists(mt, f)) /\ y.mk[f].data = co[f]
        BY <3>1, SnapshotIs
      <3>3. f \in Deletable => (f \in y.globs[f] <=> Exists(mt, f))
        <4>1. f \in Deletable => f \notin DOMAIN x.globs
          BY <2>2, <3>1 DEF GlobsRight, ReadOnly
        <4>2. f \in Deletable => y.globs[f] = GlobFiles(mt, f)
          BY <1>3, <3>1, <4>1
        <4> QED BY <3>1, <4>2 DEF GlobFiles
      <3> QED BY <3>1, <3>2, <3>3 DEF TreeRight
    <2> QED BY <2>1, <2>2
  <1> QED BY <1>5, <1>6, <1>7 DEF MkRight

\* One more observation.
LEMMA ReadsAppend ==
    ASSUME NEW obs, obs \in Seq(LinesOf(obs)), NEW mt, NEW co, NEW t, ReadsRight(obs, mt, co, t), NEW o,
           o.op = "read" => o.arg \in ArgsOf({"read"}) /\ co[o.arg] = o.res
    PROVE  ReadsRight(Append(obs, o), mt, co, t)
  <1>1. PICK s : s = Append(obs, o)
    OBVIOUS
  <1>2. /\ Len(obs) \in Nat /\ DOMAIN obs = 1 .. Len(obs) /\ DOMAIN s = 1 .. Len(obs) + 1
        /\ \A i \in 1 .. Len(obs) : s[i] = obs[i]
        /\ s[Len(obs) + 1] = o
    BY <1>1, AppendIs
  <1>3. ASSUME NEW i \in DOMAIN s, s[i].op = "read"
        PROVE  s[i].arg \in ArgsOf({"read"}) /\ (mt[s[i].arg] > t \/ co[s[i].arg] = s[i].res)
    <2>1. CASE i = Len(obs) + 1
      BY <1>2, <1>3, <2>1
    <2>2. CASE i \in DOMAIN obs
      BY <1>2, <1>3, <2>2 DEF ReadsRight
    <2> QED BY <1>2, <2>1, <2>2
  <1> QED BY <1>1, <1>3 DEF ReadsRight

\* An observation that needs no command.
LEMMA LinkedObs ==
    ASSUME NEW obs, obs \in Seq(LinesOf(obs)), NEW cs, Linked(obs, cs), NEW o, o.op \notin Recorded
    PROVE  Linked(Append(obs, o), cs)
  <1>1. PICK s : s = Append(obs, o)
    OBVIOUS
  <1>2. /\ Len(obs) \in Nat /\ DOMAIN obs = 1 .. Len(obs) /\ DOMAIN s = 1 .. Len(obs) + 1
        /\ \A i \in 1 .. Len(obs) : s[i] = obs[i]
        /\ s[Len(obs) + 1] = o
    BY <1>1, AppendIs
  <1> QED BY <1>1, <1>2 DEF Linked

\* An observation with its command.
LEMMA LinkedAppend ==
    ASSUME NEW obs, obs \in Seq(LinesOf(obs)), NEW cs, cs \in Seq(LinesOf(cs)), Linked(obs, cs),
           NEW o, NEW c, Records(c, o)
    PROVE  Linked(Append(obs, o), Append(cs, c))
  <1>1. PICK s : s = Append(obs, o)
    OBVIOUS
  <1>2. PICK d : d = Append(cs, c)
    OBVIOUS
  <1>3. /\ Len(obs) \in Nat /\ DOMAIN obs = 1 .. Len(obs) /\ DOMAIN s = 1 .. Len(obs) + 1
        /\ \A i \in 1 .. Len(obs) : s[i] = obs[i]
        /\ s[Len(obs) + 1] = o
    BY <1>1, AppendIs
  <1>4. /\ Len(cs) \in Nat /\ DOMAIN cs = 1 .. Len(cs) /\ DOMAIN d = 1 .. Len(cs) + 1
        /\ \A i \in 1 .. Len(cs) : d[i] = cs[i]
        /\ d[Len(cs) + 1] = c
    BY <1>2, AppendIs
  <1>5. ASSUME NEW i \in DOMAIN s, s[i].op \in Recorded
        PROVE  \E j \in DOMAIN d : Records(d[j], s[i])
    <2>1. CASE i = Len(obs) + 1
      BY <1>3, <1>4, <2>1
    <2>2. CASE i \in DOMAIN obs
      <3>1. PICK j \in DOMAIN cs : Records(cs[j], obs[i])
        BY <1>3, <1>5, <2>2 DEF Linked
      <3> QED BY <1>3, <1>4, <2>2, <3>1
    <2> QED BY <1>3, <2>1, <2>2
  <1> QED BY <1>1, <1>2, <1>5 DEF Linked

\* One more command.
LEMMA FindsAppend ==
    ASSUME NEW cs, cs \in Seq(LinesOf(cs)), NEW mt, NEW t, FindsRight(cs, mt, t), NEW c,
           c.op = "FIND" => c.line.op = "find" /\ (Found(c, mt, t) \/ (c.res = {} /\ ~Exists(mt, c.line.arg)))
    PROVE  FindsRight(Append(cs, c), mt, t)
  <1>2. PICK d : d = Append(cs, c)
    OBVIOUS
  <1>4. /\ Len(cs) \in Nat /\ DOMAIN cs = 1 .. Len(cs) /\ DOMAIN d = 1 .. Len(cs) + 1
        /\ \A i \in 1 .. Len(cs) : d[i] = cs[i]
        /\ d[Len(cs) + 1] = c
    BY <1>2, AppendIs
  <1>5. ASSUME NEW j \in DOMAIN d, d[j].op = "FIND"
        PROVE  d[j].line.op = "find" /\ (Found(d[j], mt, t) \/ (d[j].res = {} /\ ~Exists(mt, d[j].line.arg)))
    <2>1. CASE j = Len(cs) + 1
      BY <1>4, <1>5, <2>1
    <2>2. CASE j \in DOMAIN cs
      BY <1>4, <1>5, <2>2 DEF FindsRight
    <2> QED BY <1>4, <2>1, <2>2
  <1> QED BY <1>2, <1>5 DEF FindsRight

\* What is observed and remembered.
Recording(x, mt, co, t) ==
    /\ ReadsRight(x.obs, mt, co, t) /\ Linked(x.obs, x.cmds) /\ FindsRight(x.cmds, mt, t) /\ RootRight(x, mt, t)

\* The directories that the find emulator knows.
LEMMA KnownDirs ==
    ASSUME ReadOnly, NEW x, NEW mt, NEW t, RootRight(x, mt, t), NEW d \in ArgsOf({"find"})
    PROVE  d \in RootOf(x, mt) <=> Exists(mt, d)
  BY DEF RootRight, RootOf, ReadOnly

\* A line without a command.
LEMMA RecordNone ==
    ASSUME ReadOnly, NEW l, l.op \notin Recorded, NEW x, Plain(x), NEW mt, NEW co, NEW t, Recording(x, mt, co, t),
           NEW y, y.cmds = x.cmds, y.root = x.root, y.dirs = x.dirs,
           y.obs = x.obs \/ \E z : y.obs = Append(x.obs, Obs(l, z))
    PROVE  Recording(y, mt, co, t)
  <1>1. FindsRight(y.cmds, mt, t) /\ RootRight(y, mt, t)
    BY DEF Recording, RootRight
  <1>2. CASE y.obs = x.obs
    BY <1>1, <1>2 DEF Recording
  <1>3. ASSUME NEW z, y.obs = Append(x.obs, Obs(l, z))
        PROVE  Recording(y, mt, co, t)
    <2>1. PICK o : o = Obs(l, z)
      OBVIOUS
    <2>2. o.op = l.op
      BY <2>1 DEF Obs
    <2>3. ReadsRight(Append(x.obs, o), mt, co, t)
      BY <2>2, ReadsAppend DEF Plain, Recording, Recorded
    <2>4. Linked(Append(x.obs, o), x.cmds)
      BY <2>2, LinkedObs DEF Plain, Recording
    <2> QED BY <1>1, <1>3, <2>1, <2>3, <2>4 DEF Recording
  <1> QED BY <1>2, <1>3

\* A line with a command.
LEMMA RecordSome ==
    ASSUME ReadOnly, NEW x, Plain(x), x.cmds \in Seq(LinesOf(x.cmds)), NEW mt, NEW co, NEW t, Recording(x, mt, co, t),
           NEW y, NEW o, y.obs = Append(x.obs, o), NEW c, y.cmds = Append(x.cmds, c), Records(c, o),
           o.op = "read" => o.arg \in ArgsOf({"read"}) /\ co[o.arg] = o.res,
           c.op = "FIND" => c.line.op = "find" /\ (Found(c, mt, t) \/ (c.res = {} /\ ~Exists(mt, c.line.arg))),
           RootRight(y, mt, t)
    PROVE  Recording(y, mt, co, t)
  <1>1. ReadsRight(Append(x.obs, o), mt, co, t)
    BY ReadsAppend DEF Plain, Recording
  <1>2. Linked(Append(x.obs, o), Append(x.cmds, c))
    BY LinkedAppend DEF Plain, Recording
  <1>3. FindsRight(Append(x.cmds, c), mt, t)
    BY FindsAppend DEF Recording
  <1> QED BY <1>1, <1>2, <1>3 DEF Recording

\* Every line keeps what is recorded right.
LEMMA RecordLine ==
    ASSUME ReadOnly, NEW l, NEW x, Plain(x), x.cmds \in Seq(LinesOf(x.cmds)), NEW mt, NEW co, NEW t,
           Recording(x, mt, co, t), NEW y, Evaluates(l, x, y, mt, co)
    PROVE  Recording(y, mt, co, t)
  <1>0. SoundFields \subseteq DOMAIN x /\ DOMAIN x.val = Var /\ DOMAIN x.origin = Var
    BY DEF Plain
  <1>1. CASE l.op \notin Recorded
    <2>0. l.op # "find" /\ l.op # "cat" /\ l.op # "read"
      BY <1>1 DEF Recorded
    <2>1. y.obs = x.obs \/ \E z : y.obs = Append(x.obs, Obs(l, z))
      <3>1. Effect(l, x, y, mt, co)
        BY <2>0, EffectLine
      <3> QED BY <3>1 DEF Effect
    <2>2. y.cmds = x.cmds /\ y.root = x.root /\ y.dirs = x.dirs
      <3>1. CASE l.op \in VarOps
        <4>0. l.arg \in Var /\ y = EvalVar(l, x)
          BY <3>1 DEF Evaluates, VarOps, Includes
        <4>1. CASE l.op = "var"
          <5>1. SameBut(x, y, {"usedEnv", "usedUndef", "obs"})
            BY <1>0, <4>0, <4>1, VarIs
          <5> QED BY <5>1 DEF SameBut, SoundFields
        <4>2. CASE l.op = "default"
          <5>1. Defaults(x, y, l)
            BY <1>0, <4>0, <4>2, DefaultIs
          <5> QED BY <5>1 DEF SameBut, SoundFields, Defaults
        <4>3. CASE l.op = "set"
          <5>1. SameBut(x, y, {"val", "origin"})
            BY <1>0, <4>0, <4>3, AssignIs DEF EvalVar
          <5> QED BY <5>1 DEF SameBut, SoundFields
        <4>4. CASE l.op \in {"export", "unexport"}
          <5>1. SameBut(x, y, {"exports"})
            BY <1>0, <4>0, <4>4, ExportIs
          <5> QED BY <5>1 DEF SameBut, SoundFields
        <4> QED BY <3>1, <4>1, <4>2, <4>3, <4>4 DEF VarOps
      <3>2. CASE l.op = "glob"
        <4>1. y = EvalGlob(l, x, mt)
          BY <3>2 DEF Evaluates, VarOps, Includes
        <4>2. SameBut(x, y, {"globs", "obs"})
          BY <1>0, <4>1, WildcardIs
        <4> QED BY <4>2 DEF SameBut, SoundFields
      <3>3. CASE l.op \in Includes
        <4>1. y = EvalInclude(l, x, mt, co)
          BY <3>3 DEF Evaluates, VarOps, Includes
        <4>2. SameBut(x, y, {"globs", "mk", "prog", "req"})
          BY <1>0, <4>1, IncludeIs
        <4> QED BY <4>2 DEF SameBut, SoundFields
      <3>4. CASE l.op = "text"
        <4>1. y = x
          BY <3>4 DEF Evaluates, VarOps, Includes
        <4> QED BY <4>1
      <3> QED BY <2>0, <3>1, <3>2, <3>3, <3>4 DEF Evaluates
    <2> QED BY <1>1, <2>1, <2>2, RecordNone
  <1>2. CASE l.op = "cat"
    <2>1. y = EvalShell(l, x, mt, co)
      BY <1>2 DEF Evaluates, VarOps, Includes
    <2>2. /\ SameBut(x, y, {"cmds", "obs"})
          /\ y.cmds = Append(x.cmds, Command("SHELL", l, co[l.arg], {}, {}))
          /\ y.obs = Append(x.obs, Obs(l, co[l.arg]))
      BY <1>0, <1>2, <2>1, CatIs
    <2>3. PICK o, c : o = Obs(l, co[l.arg]) /\ c = Command("SHELL", l, co[l.arg], {}, {})
      OBVIOUS
    <2>4. o.op = "cat" /\ c.op = "SHELL" /\ Records(c, o)
      BY <1>2, <2>3 DEF Obs, Command, Records
    <2>5. RootRight(y, mt, t)
      BY <2>2 DEF SameBut, SoundFields, Recording, RootRight
    <2> QED BY <2>2, <2>3, <2>4, <2>5, RecordSome
  <1>3. CASE l.op = "read"
    <2>1. y = FileRead(l, x, mt, co) /\ l.arg \in ArgsOf({"read"})
      BY <1>3 DEF Evaluates, VarOps, Includes
    <2>2. PICK k : k = IF Exists(mt, l.arg) THEN "READ" ELSE "READ_MISSING"
      OBVIOUS
    <2>3. /\ SameBut(x, y, {"cmds", "obs"})
          /\ y.cmds = Append(x.cmds, Command(k, l, << >>, {}, {}))
          /\ y.obs = Append(x.obs, Obs(l, co[l.arg]))
      BY <1>0, <2>1, <2>2, ReadIs
    <2>4. PICK o, c : o = Obs(l, co[l.arg]) /\ c = Command(k, l, << >>, {}, {})
      OBVIOUS
    <2>5. /\ o.op = "read" /\ o.arg = l.arg /\ o.res = co[l.arg] /\ c.op # "FIND" /\ Records(c, o)
      BY <1>3, <2>2, <2>4 DEF Obs, Command, Records
    <2>6. RootRight(y, mt, t)
      BY <2>3 DEF SameBut, SoundFields, Recording, RootRight
    <2> QED BY <2>1, <2>3, <2>4, <2>5, <2>6, RecordSome
  <1>4. CASE l.op = "find"
    <2>1. y = EvalShell(l, x, mt, co) /\ l.arg \in ArgsOf({"find"}) /\ l.arg \in Dirs
      BY <1>4 DEF Evaluates, VarOps, Includes
    <2>2. PICK R : R = RootOf(x, mt)
      OBVIOUS
    <2>3. PICK z : z = IF l.arg \in R THEN ListOf(x, mt, l.arg) ELSE {}
      OBVIOUS
    <2>4. \A d \in ArgsOf({"find"}) : d \in R <=> Exists(mt, d)
      BY <2>2, KnownDirs DEF Recording
    <2>5. Finds(l, x, y, mt, R, z)
      BY <1>0, <1>4, <2>1, <2>2, <2>3, <2>4, FindIs
    <2>6. PICK o, c : o = Obs(l, z) /\ c = Command("FIND", l, z, {}, {l.arg} \cap R)
      OBVIOUS
    <2>7. o.op = "find" /\ c.op = "FIND" /\ c.line = l /\ c.res = z /\ c.dirs = {l.arg} \cap R /\ Records(c, o)
      BY <1>4, <2>6 DEF Obs, Command, Records
    <2>8. Listed(mt, l.arg, t, ListOf(x, mt, l.arg))
      BY DEF ListOf, Listed, Recording, RootRight
    <2>9. Found(c, mt, t) \/ (c.res = {} /\ ~Exists(mt, c.line.arg))
      <3>1. CASE l.arg \in R
        <4>1. c.dirs = {l.arg} /\ z = ListOf(x, mt, l.arg)
          BY <2>3, <2>7, <3>1
        <4> QED BY <2>7, <2>8, <4>1 DEF Found
      <3>2. CASE l.arg \notin R
        BY <2>1, <2>3, <2>4, <2>7, <3>2
      <3> QED BY <3>1, <3>2
    <2>10. RootRight(y, mt, t)
      <3>1. y.root.dirs = R
        BY <2>5 DEF Finds
      <3>2. DOMAIN y.dirs \subseteq Dirs /\ \A d \in DOMAIN y.dirs : Listed(mt, d, t, y.dirs[d])
        <4>1. y.dirs = x.dirs \/ y.dirs = Set(x.dirs, l.arg, Listing(mt, l.arg))
          BY <2>5 DEF Finds
        <4>2. DOMAIN x.dirs \subseteq Dirs /\ \A d \in DOMAIN x.dirs : Listed(mt, d, t, x.dirs[d])
          BY DEF Recording, RootRight
        <4> QED BY <2>1, <4>1, <4>2 DEF Set, Listed
      <3> QED BY <2>4, <3>1, <3>2 DEF RootRight
    <2>11. y.obs = Append(x.obs, o) /\ y.cmds = Append(x.cmds, c)
      BY <2>5, <2>6 DEF Finds
    <2> QED BY <1>4, <2>7, <2>9, <2>10, <2>11, RecordSome
  <1> QED BY <1>1, <1>2, <1>3, <1>4 DEF Recorded

-----------------------------------------------------------------------------
(* Edits.                                                                  *)

\* Only the user changes files.
LEMMA OnlyEdits ==
    ASSUME ReadOnly, LinesInv, [Next]_vars
    PROVE  (mtime' = mtime /\ content' = content) \/ EditFile \/ RemoveFile
  <1>0. NoAppend
    BY ReadOnlyNoAppend
  <1>1. CASE CheckCommand
    <2>1. PICK c : IF Rewrites(c) /\ Writable(mtime, c.line.arg)
                   THEN c.line \in Lines /\ c.line.op \in WriteOps
                   ELSE mtime' = mtime /\ content' = content
      BY <1>0, <1>1, CheckCommandStep
    <2>2. c.line \in Lines => c.line.op \notin WriteOps
      BY ReadOnlyLines
    <2> QED BY <2>1, <2>2
  <1>2. CASE Eval
    <2>1. PICK l : l = Head(ev.prog)
      OBVIOUS
    <2>2. l \in Lines /\ (~Writes(l, mtime) => mtime' = mtime /\ content' = content)
      BY <1>0, <1>2, <2>1, EvalStepKeeps
    <2>3. l.op \notin WriteOps
      BY <2>2, ReadOnlyLines
    <2> QED BY <2>2, <2>3 DEF Writes
  <1> QED BY <1>1, <1>2, WorldFrom

\* From mt, co to mt2, co2 what changes gets a time after c, and its directory
\* too when it is new or deleted.
Moves(mt, co, c, mt2, co2) ==
    /\ WorldStep(mt, co, c, mt2, co2)
    /\ \A q \in Path : q \notin Deletable /\ Exists(mt, q) => Exists(mt2, q)
    /\ \A d \in Dirs : mt2[d] > c \/ mt2[d] = NotExist \/ (mt2[d] = mt[d] /\ Listing(mt2, d) = Listing(mt, d))
\* Frozen paths are not created or deleted.
Held(mt, mt2) == \A q \in Path : q \in Frozen => (Exists(mt2, q) <=> Exists(mt, q))

\* Writing p.
LEMMA TouchMoves ==
    ASSUME NEW mt \in [Path -> Nat \cup {NotExist}], NEW co, DOMAIN co = Path, TreeRight(mt, co), NEW c \in Nat, NEW p \in Path,
           Parent[p] # Top => Exists(mt, Parent[p]),
           NEW mt2, mt2 = Touch(mt, p, c + 1), NEW co2, \A q \in Path : q # p => co2[q] = co[q]
    PROVE  Moves(mt, co, c, mt2, co2) /\ TreeRight(mt2, co2) /\ (p \notin Frozen => Held(mt, mt2))
  <1>0. Parent \in [Path -> Dirs \cup {Top}] /\ Top \notin Path /\ Dirs \subseteq Path
    BY ConstantsAssumption
  <1>1. /\ mt2[p] = c + 1 /\ \A q \in Path : q # p => co2[q] = co[q]
        /\ \A q \in Path : q # p => mt2[q] = mt[q] \/ (q = Parent[p] /\ ~Exists(mt, p) /\ mt2[q] = c + 1)
    BY DEF Touch
  <1>2. \A q \in Path : q # p => (Exists(mt2, q) <=> Exists(mt, q))
    BY <1>0, <1>1 DEF Exists, NotExist
  <1>3. Exists(mt2, p)
    BY <1>1 DEF Exists, NotExist
  <1>4. WorldStep(mt, co, c, mt2, co2)
    BY <1>1 DEF WorldStep
  <1>5. ASSUME NEW d \in Dirs
        PROVE  mt2[d] > c \/ mt2[d] = NotExist \/ (mt2[d] = mt[d] /\ Listing(mt2, d) = Listing(mt, d))
    <2>1. CASE mt2[d] = c + 1
      BY <2>1
    <2>2. CASE mt2[d] # c + 1
      <3>1. d # p /\ mt2[d] = mt[d]
        BY <1>0, <1>1, <2>2
      <3>2. Parent[p] = d => Exists(mt, p)
        BY <1>0, <1>1, <2>2, <3>1 DEF Touch
      <3>3. \A q \in Path : Parent[q] = d => (Exists(mt2, q) <=> Exists(mt, q))
        BY <1>2, <1>3, <3>2
      <3> QED BY <3>1, <3>3 DEF Listing
    <2> QED BY <2>1, <2>2
  <1>6. Moves(mt, co, c, mt2, co2)
    BY <1>2, <1>3, <1>4, <1>5 DEF Moves
  <1>7. TreeRight(mt2, co2)
    <2>1. ASSUME NEW q \in Path, ~Exists(mt2, q) PROVE co2[q] = << >>
      BY <1>1, <1>2, <1>3, <2>1 DEF TreeRight
    <2>2. ASSUME NEW q \in Path, Exists(mt2, q), Parent[q] # Top PROVE Exists(mt2, Parent[q])
      <3>1. Parent[q] \in Path
        BY <1>0, <2>2
      <3>2. Exists(mt, Parent[q])
        BY <1>2, <2>2 DEF TreeRight
      <3> QED BY <1>2, <1>3, <3>1, <3>2
    <2> QED BY <2>1, <2>2 DEF TreeRight
  <1>8. p \notin Frozen => Held(mt, mt2)
    BY <1>2 DEF Held
  <1> QED BY <1>6, <1>7, <1>8

\* Deleting p.
LEMMA UnlinkMoves ==
    ASSUME NEW mt \in [Path -> Nat \cup {NotExist}], NEW co, DOMAIN co = Path, TreeRight(mt, co), NEW c \in Nat,
           NEW p \in Path, p \in Deletable, Exists(mt, p), Listing(mt, p) = {},
           NEW mt2, mt2 = Unlink(mt, p, c + 1), NEW co2, co2[p] = << >>,
           \A q \in Path : q # p => co2[q] = co[q]
    PROVE  Moves(mt, co, c, mt2, co2) /\ TreeRight(mt2, co2) /\ (p \notin Frozen => Held(mt, mt2))
  <1>0. Parent \in [Path -> Dirs \cup {Top}] /\ Top \notin Path /\ Dirs \subseteq Path
    BY ConstantsAssumption
  <1>1. /\ mt2[p] = NotExist /\ co2[p] = << >> /\ \A q \in Path : q # p => co2[q] = co[q]
        /\ \A q \in Path : q # p => (IF q = Parent[p] THEN mt2[q] = c + 1 ELSE mt2[q] = mt[q])
    BY DEF Unlink
  <1>2. \A q \in Path : q # p => (Exists(mt2, q) <=> Exists(mt, q))
    <2>1. Parent[p] \in Path => Exists(mt, Parent[p])
      BY <1>0 DEF TreeRight
    <2> QED BY <1>1, <2>1 DEF Exists, NotExist
  <1>3. ~Exists(mt2, p)
    BY <1>1 DEF Exists
  <1>4. WorldStep(mt, co, c, mt2, co2)
    BY <1>1 DEF WorldStep
  <1>5. ASSUME NEW d \in Dirs
        PROVE  mt2[d] > c \/ mt2[d] = NotExist \/ (mt2[d] = mt[d] /\ Listing(mt2, d) = Listing(mt, d))
    <2>1. CASE d = p \/ d = Parent[p]
      BY <1>0, <1>1, <2>1
    <2>2. CASE ~(d = p \/ d = Parent[p])
      <3>1. mt2[d] = mt[d]
        BY <1>0, <1>1, <2>2
      <3>3. \A q \in Path : Parent[q] = d => (Exists(mt2, q) <=> Exists(mt, q))
        BY <1>2, <2>2
      <3> QED BY <3>1, <3>3 DEF Listing
    <2> QED BY <2>1, <2>2
  <1>6. Moves(mt, co, c, mt2, co2)
    BY <1>2, <1>4, <1>5 DEF Moves
  <1>7. TreeRight(mt2, co2)
    <2>1. ASSUME NEW q \in Path, ~Exists(mt2, q) PROVE co2[q] = << >>
      BY <1>1, <1>2, <2>1 DEF TreeRight
    <2>2. ASSUME NEW q \in Path, Exists(mt2, q), Parent[q] # Top PROVE Exists(mt2, Parent[q])
      <3>1. Parent[q] \in Path /\ q # p
        BY <1>0, <1>3, <2>2
      <3>2. Exists(mt, q)
        BY <1>2, <2>2, <3>1
      <3>3. Exists(mt, Parent[q]) /\ Parent[q] # p
        BY <2>2, <3>2 DEF TreeRight, Listing
      <3> QED BY <1>2, <3>1, <3>3
    <2> QED BY <2>1, <2>2 DEF TreeRight
  <1>8. p \notin Frozen => Held(mt, mt2)
    BY <1>2 DEF Held
  <1> QED BY <1>6, <1>7, <1>8

\* Every step.
LEMMA WorldMoves ==
    ASSUME ReadOnly, TypeOK, LinesInv, TreeRight(mtime, content), [Next]_vars
    PROVE  /\ Moves(mtime, content, clock, mtime', content') /\ TreeRight(mtime', content')
           /\ pc # "idle" => Held(mtime, mtime')
  <1>0. mtime \in [Path -> Nat \cup {NotExist}] /\ DOMAIN content = Path /\ clock \in Nat
    BY DEF TypeOK
  <1>1. CASE mtime' = mtime /\ content' = content
    <2>1. Moves(mtime, content, clock, mtime, content)
      BY DEF Moves, WorldStep
    <2>2. Held(mtime, mtime)
      BY DEF Held
    <2> QED BY <1>1, <2>1, <2>2
  <1>2. CASE EditFile
    <2>1. PICK p, x : /\ p \in Path
                      /\ Parent[p] # Top => Exists(mtime, Parent[p])
                      /\ p \in Frozen => pc = "idle"
                      /\ mtime' = Touch(mtime, p, clock + 1)
                      /\ content' = [content EXCEPT ![p] = x]
      BY <1>2, Zenon DEF EditFile
    <2>2. PICK mt, co : mt = mtime' /\ co = content'
      OBVIOUS
    <2>3. Moves(mtime, content, clock, mt, co) /\ TreeRight(mt, co) /\ (p \notin Frozen => Held(mtime, mt))
      <3>1. mt = Touch(mtime, p, clock + 1) /\ \A q \in Path : q # p => co[q] = content[q]
        BY <1>0, <2>1, <2>2
      <3> QED BY <1>0, <2>1, <3>1, TouchMoves
    <2> QED BY <2>1, <2>2, <2>3
  <1>3. CASE RemoveFile
    <2>1. PICK p \in Deletable : /\ Exists(mtime, p) /\ Listing(mtime, p) = {}
                                 /\ p \in Frozen => pc = "idle"
                                 /\ mtime' = Unlink(mtime, p, clock + 1)
                                 /\ content' = [content EXCEPT ![p] = << >>]
      BY <1>3, Zenon DEF RemoveFile
    <2>4. p \in Path
      BY ConstantsAssumption
    <2>2. PICK mt, co : mt = mtime' /\ co = content'
      OBVIOUS
    <2>3. Moves(mtime, content, clock, mt, co) /\ TreeRight(mt, co) /\ (p \notin Frozen => Held(mtime, mt))
      <3>1. /\ mt = Unlink(mtime, p, clock + 1) /\ co[p] = << >>
            /\ \A q \in Path : q # p => co[q] = content[q]
        BY <1>0, <2>1, <2>2, <2>4
      <3> QED BY <1>0, <2>1, <2>4, <3>1, UnlinkMoves
    <2> QED BY <2>1, <2>2, <2>3
  <1> QED BY <1>1, <1>2, <1>3, OnlyEdits

\* The tree before and after a step that is later than t.
Moved(mt, co, c, mt2, co2, t) ==
    /\ mt \in [Path -> Nat \cup {NotExist}] /\ mt2 \in [Path -> Nat \cup {NotExist}] /\ c \in Nat /\ t \in Nat /\ t <= c
    /\ TreeRight(mt, co) /\ TreeRight(mt2, co2) /\ Moves(mt, co, c, mt2, co2)

\* What the stamp says of Makefiles stays right,
LEMMA MkMoves ==
    ASSUME NEW mt, NEW co, NEW c, NEW mt2, NEW co2, NEW t, Moved(mt, co, c, mt2, co2, t),
           NEW mk, NEW globs, MkRight(mk, globs, mt)
    PROVE  MkRight(mk, globs, mt2)
  BY DEF Moved, Moves, MkRight

\* of a file that was read,
LEMMA ReadMoves ==
    ASSUME ReadOnly, NEW mt, NEW co, NEW c, NEW mt2, NEW co2, NEW t, Moved(mt, co, c, mt2, co2, t),
           NEW a \in ArgsOf({"read"}), NEW r, mt[a] > t \/ co[a] = r
    PROVE  mt2[a] > t \/ co2[a] = r
  <1>1. a \in Path /\ a \notin Deletable
    <2>1. ArgsOf({"read"}) \subseteq ArgsOf(Includes \cup {"cat", "read"})
      BY DEF ArgsOf
    <2> QED BY <2>1 DEF ReadOnly
  <1>2. CASE mt2[a] > c
    BY <1>1, <1>2 DEF Moved, NotExist
  <1>3. CASE mt2[a] = NotExist
    <2>1. ~Exists(mt, a) /\ ~Exists(mt2, a)
      BY <1>1, <1>3 DEF Moved, Moves, Exists
    <2>2. co[a] = << >> /\ co2[a] = << >>
      BY <1>1, <2>1 DEF Moved, TreeRight
    <2>3. ~(mt[a] > t)
      BY <1>1, <2>1 DEF Moved, Exists, NotExist
    <2> QED BY <2>2, <2>3
  <1>4. CASE mt2[a] = mt[a] /\ co2[a] = co[a]
    BY <1>4
  <1> QED BY <1>1, <1>2, <1>3, <1>4 DEF Moved, Moves, WorldStep

\* of all files that were read,
LEMMA ReadsMoves ==
    ASSUME ReadOnly, NEW mt, NEW co, NEW c, NEW mt2, NEW co2, NEW t, Moved(mt, co, c, mt2, co2, t),
           NEW obs, ReadsRight(obs, mt, co, t)
    PROVE  ReadsRight(obs, mt2, co2, t)
  <1>1. ASSUME NEW i \in DOMAIN obs, obs[i].op = "read"
        PROVE  obs[i].arg \in ArgsOf({"read"}) /\ (mt2[obs[i].arg] > t \/ co2[obs[i].arg] = obs[i].res)
    <2>1. PICK a, r : a = obs[i].arg /\ r = obs[i].res
      OBVIOUS
    <2>2. a \in ArgsOf({"read"}) /\ (mt[a] > t \/ co[a] = r)
      BY <1>1, <2>1 DEF ReadsRight
    <2>3. mt2[a] > t \/ co2[a] = r
      BY <2>2, ReadMoves
    <2> QED BY <2>1, <2>2, <2>3
  <1> QED BY <1>1 DEF ReadsRight

\* and again by the check,
LEMMA RereadMoves ==
    ASSUME ReadOnly, NEW mt, NEW co, NEW c, NEW mt2, NEW co2, NEW t, Moved(mt, co, c, mt2, co2, t),
           NEW obs, NEW cs, NEW n, RereadRight(obs, cs, mt, co, t, n), NEW m, NEW o, NEW s, ReadsRight(obs, m, o, s)
    PROVE  RereadRight(obs, cs, mt2, co2, t, n)
  <1>1. ASSUME NEW i \in DOMAIN obs, NEW j \in DOMAIN cs, obs[i].op = "read", j < n, Records(cs[j], obs[i])
        PROVE  mt2[obs[i].arg] > t \/ co2[obs[i].arg] = obs[i].res
    <2>1. PICK a, r : a = obs[i].arg /\ r = obs[i].res
      OBVIOUS
    <2>2. a \in ArgsOf({"read"}) /\ (mt[a] > t \/ co[a] = r)
      BY <1>1, <2>1 DEF ReadsRight, RereadRight
    <2>3. mt2[a] > t \/ co2[a] = r
      BY <2>2, ReadMoves
    <2> QED BY <2>1, <2>3
  <1> QED BY <1>1 DEF RereadRight

\* of a directory,
LEMMA ListedMoves ==
    ASSUME NEW mt, NEW co, NEW c, NEW mt2, NEW co2, NEW t, Moved(mt, co, c, mt2, co2, t),
           NEW d \in Dirs, NEW list, Listed(mt, d, t, list)
    PROVE  Listed(mt2, d, t, list)
  <1>1. d \in Path
    BY ConstantsAssumption
  <1>2. mt2[d] > c \/ mt2[d] = NotExist \/ (mt2[d] = mt[d] /\ Listing(mt2, d) = Listing(mt, d))
    BY DEF Moved, Moves
  <1>3. mt2[d] > c => mt2[d] > t
    BY <1>1 DEF Moved, NotExist
  <1> QED BY <1>2, <1>3 DEF Listed

\* of the directories that were searched,
LEMMA SearchMoves ==
    ASSUME ReadOnly, NEW mt, NEW co, NEW c, NEW mt2, NEW co2, NEW t, Moved(mt, co, c, mt2, co2, t),
           NEW cs, Logged(cs), NEW n, SearchRight(cs, mt, t, n)
    PROVE  SearchRight(cs, mt2, t, n)
  <1>1. ASSUME NEW j \in DOMAIN cs, cs[j].op = "FIND", j < n
        PROVE  /\ cs[j].line.op = "find"
               /\ Found(cs[j], mt2, t) \/ (cs[j].res = {} /\ cs[j].missing = {cs[j].line.arg})
    <2>1. PICK b : b = cs[j]
      OBVIOUS
    <2>2. b.line.op = "find" /\ (Found(b, mt, t) \/ (b.res = {} /\ b.missing = {b.line.arg}))
      BY <1>1, <2>1 DEF SearchRight
    <2>3. b.line \in Lines
      BY <2>1 DEF Logged
    <2>4. b.line.arg \in Dirs
      <3>1. b.line.arg \in ArgsOf({"find"})
        BY <2>2, <2>3, ReadOnlyLines
      <3> QED BY <3>1 DEF ReadOnly
    <2>5. Found(b, mt, t) => Found(b, mt2, t)
      BY <2>4, ListedMoves DEF Found
    <2> QED BY <2>1, <2>2, <2>5
  <1> QED BY <1>1 DEF SearchRight

\* and of what the find emulator of a running kati knows.
LEMMA FindsMoves ==
    ASSUME ReadOnly, NEW mt, NEW co, NEW c, NEW mt2, NEW co2, NEW t, Moved(mt, co, c, mt2, co2, t), Held(mt, mt2),
           NEW cs, Logged(cs), FindsRight(cs, mt, t)
    PROVE  FindsRight(cs, mt2, t)
  <1>1. ASSUME NEW j \in DOMAIN cs, cs[j].op = "FIND"
        PROVE  /\ cs[j].line.op = "find"
               /\ Found(cs[j], mt2, t) \/ (cs[j].res = {} /\ ~Exists(mt2, cs[j].line.arg))
    <2>1. PICK b : b = cs[j]
      OBVIOUS
    <2>2. b.line.op = "find" /\ (Found(b, mt, t) \/ (b.res = {} /\ ~Exists(mt, b.line.arg)))
      BY <1>1, <2>1 DEF FindsRight
    <2>3. b.line \in Lines
      BY <2>1 DEF Logged
    <2>4. b.line.arg \in Dirs /\ b.line.arg \in Frozen /\ b.line.arg \in Path
      <3>1. b.line.arg \in ArgsOf({"find"})
        BY <2>2, <2>3, ReadOnlyLines
      <3> QED BY <3>1, ConstantsAssumption DEF ReadOnly
    <2>5. Found(b, mt, t) => Found(b, mt2, t)
      BY <2>4, ListedMoves DEF Found
    <2>6. ~Exists(mt, b.line.arg) => ~Exists(mt2, b.line.arg)
      BY <2>4 DEF Held
    <2> QED BY <2>1, <2>2, <2>5, <2>6
  <1> QED BY <1>1 DEF FindsRight

\* Its directories.
LEMMA RootMoves ==
    ASSUME ReadOnly, NEW mt, NEW co, NEW c, NEW mt2, NEW co2, NEW t, Moved(mt, co, c, mt2, co2, t), Held(mt, mt2),
           NEW x, RootRight(x, mt, t)
    PROVE  RootRight(x, mt2, t)
  <1>1. \A d \in ArgsOf({"find"}) : Exists(mt2, d) <=> Exists(mt, d)
    BY ConstantsAssumption DEF ReadOnly, Held
  <1>2. \A d \in DOMAIN x.dirs : Listed(mt2, d, t, x.dirs[d])
    BY ListedMoves DEF RootRight
  <1> QED BY <1>1, <1>2 DEF RootRight

\* The whole of a running evaluator's part.
LEMMA EvMoves ==
    ASSUME ReadOnly, NEW mt, NEW co, NEW c, NEW mt2, NEW co2, NEW t, Moved(mt, co, c, mt2, co2, t), Held(mt, mt2),
           NEW x, Logged(x.cmds), EvRight(x, mt, co, t)
    PROVE  EvRight(x, mt2, co2, t)
  <1>1. MkRight(x.mk, x.globs, mt2)
    BY MkMoves DEF EvRight
  <1>2. ReadsRight(x.obs, mt2, co2, t)
    BY ReadsMoves DEF EvRight
  <1>3. FindsRight(x.cmds, mt2, t)
    BY FindsMoves DEF EvRight
  <1>4. RootRight(x, mt2, t)
    BY RootMoves DEF EvRight
  <1> QED BY <1>1, <1>2, <1>3, <1>4 DEF EvRight

-----------------------------------------------------------------------------
(* The process keeps the invariant.                                        *)

\* What a run is started with stays, and so does its environment until SetEnv.
LEMMA RunSame ==
    ASSUME [Next]_vars, ~Start
    PROVE  /\ start' = start /\ uenv' = uenv /\ args' = args /\ mode' = mode
           /\ SetEnv \/ penv' = penv
  <1>1. CASE Check
    BY <1>1 DEF Check, CheckStep1, CheckGlob, CheckCommand, CheckCommandError, CheckFinish, run
  <1>2. CASE Evaluate
    BY <1>2 DEF Evaluate, Begin, Eval, EvalError, MakeMakefiles, SetEnv, run
  <1>3. CASE Generate
    BY <1>3 DEF Generate, UnlinkStamp, OpenNinja, WriteNinja, OpenScript,
                WriteScript, OpenTmp, WriteTmp, RenameStamp, Goto, run
  <1>4. CASE EditFile \/ RemoveFile \/ RemoveOutput \/ Kill
    BY <1>4 DEF Kill, EditFile, RemoveFile, RemoveOutput, AnEdit, run
  <1>5. CASE UNCHANGED vars
    BY <1>5 DEF vars, run
  <1> QED BY <1>1, <1>2, <1>3, <1>4, <1>5 DEF Next, Kati, User

\* A new process.
LEMMA NewRight ==
    ASSUME ReadOnly, NEW u \in Envs, NEW mt, NEW co \in [Path -> Seq(Lines)], TreeRight(mt, co), NEW t,
           NEW x, x = NewEvaluator(u, Snapshot(mt, co, KatiBinary))
    PROVE  EvRight(x, mt, co, t) /\ EnvRight(x, u)
  <1>1. PICK k : k = Snapshot(mt, co, KatiBinary)
    OBVIOUS
  <1>2. Fresh(x, u, k) /\ SoundFields \subseteq DOMAIN x
    <2>1. Fresh(x, u, k)
      BY <1>1, NewIs
    <2>2. SoundFields \subseteq DOMAIN x
      BY DEF NewEvaluator, SoundFields
    <2> QED BY <2>1, <2>2
  <1>3. KatiBinary \in Path /\ KatiBinary \notin Deletable
    BY ConstantsAssumption DEF ReadOnly
  <1>4. k \in [exists : BOOLEAN, data : Seq(Lines)] /\ (k.exists <=> Exists(mt, KatiBinary)) /\ k.data = co[KatiBinary]
    BY <1>1, <1>3, SnapshotIs
  <1>5. MkRight(x.mk, x.globs, mt)
    BY <1>2, <1>3, <1>4 DEF MkRight, Fresh, TreeRight
  <1>6. << >> \in Seq(LinesOf(<< >>))
    OBVIOUS
  <1>7. EvRight(x, mt, co, t)
    BY <1>2, <1>5, <1>6 DEF EvRight, Fresh, GlobsRight, ReadsRight, Linked, FindsRight, RootRight
  <1>8. EnvRight(x, u)
    <2>1. ASSUME NEW v \in ArgsOf(Uses), u[v] # Unset PROVE x.origin[v] = "environment" /\ Exports(x, v)
      <3>1. v \in Var
        <4>1. ArgsOf(Uses) \subseteq ArgsOf(VarOps)
          BY DEF ArgsOf, Uses, VarOps
        <4> QED BY <4>1 DEF ReadOnly
      <3>2. Given(x, v, u)
        BY <1>2, <3>1 DEF Fresh
      <3> QED BY <2>1, <3>1, <3>2, NewExports DEF Given
    <2>2. \A v \in Var : x.origin[v] = "environment" => u[v] # Unset /\ x.val[v] = u[v]
      BY <1>2 DEF Fresh, Given, GetEnv
    <2>3. DOMAIN x.exports \subseteq Var
      BY DEF NewEvaluator
    <2> QED BY <1>2, <2>1, <2>2, <2>3 DEF EnvRight, Fresh
  <1> QED BY <1>7, <1>8

\* The top-level Makefile is read.
LEMMA BeginKeeps ==
    ASSUME ReadOnly, NEW u, NEW bin, NEW mt, NEW co \in [Path -> Seq(Lines)], TreeRight(mt, co), NEW t,
           NEW x, x = NewEvaluator(u, bin), EvRight(x, mt, co, t), EnvRight(x, u), NEW y, y = BeginEval(x, mt, co)
    PROVE  EvRight(y, mt, co, t) /\ EnvRight(y, u)
  <1>1. /\ SoundFields \subseteq DOMAIN x /\ SameBut(x, y, {"mk", "prog"})
        /\ y.mk = IF Makefile \in DOMAIN x.mk THEN x.mk ELSE Set(x.mk, Makefile, Snapshot(mt, co, Makefile))
    BY BeginIs
  <1>2. /\ SoundFields \subseteq DOMAIN y /\ y.val = x.val /\ y.origin = x.origin /\ y.exports = x.exports /\ y.usedEnv = x.usedEnv
        /\ y.globs = x.globs /\ y.obs = x.obs /\ y.cmds = x.cmds /\ y.root = x.root /\ y.dirs = x.dirs
    BY <1>1 DEF SameBut, SoundFields
  <1>3. PICK k : k = Snapshot(mt, co, Makefile)
    OBVIOUS
  <1>4. Makefile \in Path /\ Makefile \notin Deletable
    BY ConstantsAssumption
  <1>5. k \in [exists : BOOLEAN, data : Seq(Lines)] /\ (k.exists <=> Exists(mt, Makefile)) /\ k.data = co[Makefile]
    BY <1>3, <1>4, SnapshotIs
  <1>6. MkRight(y.mk, y.globs, mt) /\ GlobsRight(y)
    <2>1. CASE Makefile \in DOMAIN x.mk
      BY <1>1, <1>2, <2>1 DEF EvRight, GlobsRight
    <2>2. CASE Makefile \notin DOMAIN x.mk
      <3>1. y.mk = Set(x.mk, Makefile, k)
        BY <1>1, <1>3, <2>2
      <3>2. /\ DOMAIN y.mk = DOMAIN x.mk \cup {Makefile} /\ y.mk[Makefile] = k
            /\ \A f \in DOMAIN x.mk : y.mk[f] = x.mk[f]
        BY <2>2, <3>1 DEF Set
      <3> QED BY <1>2, <1>4, <1>5, <3>2 DEF EvRight, MkRight, GlobsRight, TreeRight
    <2> QED BY <2>1, <2>2
  <1>7. EvRight(y, mt, co, t)
    BY <1>2, <1>6 DEF EvRight, RootRight
  <1>8. EnvRight(y, u)
    BY <1>2 DEF EnvRight, Exports
  <1> QED BY <1>7, <1>8

\* A line is evaluated.
LEMMA LineKeeps ==
    ASSUME ReadOnly, NEW l \in Lines, NEW u \in Envs, NEW mt, NEW co \in [Path -> Seq(Lines)], TreeRight(mt, co), NEW t,
           NEW x, EvRight(x, mt, co, t), EnvRight(x, u), Logged(x.cmds), NEW y, Evaluates(l, x, y, mt, co)
    PROVE  /\ EvRight(y, mt, co, t) /\ EnvRight(y, u)
           /\ Plain(x) /\ (l.op = "find" => Known(x, mt, l.arg))
  <1>1. Plain(x)
    BY DEF EvRight, EnvRight, Plain
  <1>2. l.op = "find" => Known(x, mt, l.arg)
    <2>1. l.op = "find" => l.arg \in ArgsOf({"find"})
      BY ReadOnlyLines
    <2> QED BY <2>1, KnownDirs DEF EvRight, Known
  <1>3. EnvRight(y, u)
    BY <1>1, <1>2, EnvLine
  <1>4. Effect(l, x, y, mt, co)
    BY <1>1, <1>2, EffectLine
  <1>5. MkRight(y.mk, y.globs, mt) /\ GlobsRight(y)
    BY <1>4, MkLine DEF EvRight
  <1>6. Recording(y, mt, co, t)
    <2>1. Recording(x, mt, co, t) /\ x.cmds \in Seq(LinesOf(x.cmds))
      BY DEF EvRight, Recording, Logged
    <2> QED BY <1>1, <2>1, RecordLine
  <1>7. y.obs \in Seq(LinesOf(y.obs)) /\ SoundFields \subseteq DOMAIN y
    <2>1. SoundFields \subseteq DOMAIN y /\ (y.obs = x.obs \/ \E z : y.obs = Append(x.obs, Obs(l, z)))
      BY <1>4 DEF Effect
    <2>2. x.obs \in Seq(LinesOf(x.obs))
      BY DEF EvRight
    <2>3. CASE y.obs = x.obs
      BY <2>1, <2>2, <2>3
    <2>4. CASE y.obs # x.obs
      <3>1. PICK z : y.obs = Append(x.obs, Obs(l, z))
        BY <2>1, <2>4
      <3>2. PICK s, o : s = x.obs /\ o = Obs(l, z)
        OBVIOUS
      <3>3. Append(s, o) \in Seq(LinesOf(Append(s, o)))
        BY <2>2, <3>2, AppendIs
      <3> QED BY <2>1, <3>1, <3>2, <3>3
    <2> QED BY <2>3, <2>4
  <1>8. EvRight(y, mt, co, t)
    BY <1>5, <1>6, <1>7 DEF EvRight, Recording
  <1> QED BY <1>1, <1>2, <1>3, <1>8

\* An Eval step.
LEMMA EvalIs ==
    ASSUME ReadOnly, LinesInv, Eval, SoundFields \subseteq DOMAIN ev, NEW l, l = Head(ev.prog)
    PROVE  l \in Lines /\ Evaluates(l, Popped(ev), ev', mtime, content) /\ mtime' = mtime /\ content' = content
  <1>1. PICK st : st = [ev |-> ev, mtime |-> mtime, content |-> content, now |-> clock + 1]
    OBVIOUS
  <1>2. ev.prog # << >> /\ ~ev.failed /\ ev' = EvalNext(st).ev /\ mtime' = EvalNext(st).mtime /\ content' = EvalNext(st).content
    BY <1>1 DEF Eval
  <1>3. l \in Lines
    BY <1>2 DEF LinesInv
  <1>4. PICK p : p = Pop(st)
    OBVIOUS
  <1>5. p.ev = Popped(ev) /\ p.mtime = mtime /\ p.content = content
    BY <1>1, <1>4 DEF Pop, Popped
  <1>6. PICK r : r = EvalLine(l, p)
    OBVIOUS
  <1>7. EvalNext(st) = r
    BY <1>1, <1>2, <1>4, <1>6 DEF EvalNext
  <1>8. Evaluates(l, p.ev, r.ev, p.mtime, p.content) /\ r.mtime = p.mtime /\ r.content = p.content
    BY <1>3, <1>6, LineIs
  <1> QED BY <1>2, <1>3, <1>5, <1>7, <1>8

\* A step is later than what was before it.
LEMMA StepMoved ==
    ASSUME ReadOnly, TypeOK, TypeOK', LinesInv, TreeRight(mtime, content), [Next]_vars,
           NEW mt, mt = mtime', NEW co, co = content', NEW t \in Nat, t <= clock
    PROVE  Moved(mtime, content, clock, mt, co, t) /\ (pc # "idle" => Held(mtime, mt))
  <1>1. Moves(mtime, content, clock, mt, co) /\ TreeRight(mt, co) /\ (pc # "idle" => Held(mtime, mt))
    BY WorldMoves
  <1>2. mtime \in [Path -> Nat \cup {NotExist}] /\ mt \in [Path -> Nat \cup {NotExist}] /\ clock \in Nat
    BY DEF TypeOK
  <1> QED BY <1>1, <1>2 DEF Moved

\* What is not about the rest of the program and the variables that were used.
LEMMA EvSame ==
    ASSUME NEW x, NEW y, SameBut(x, y, {"prog", "usedEnv", "usedUndef"}), NEW mt, NEW co, NEW t, EvRight(x, mt, co, t)
    PROVE  EvRight(y, mt, co, t)
  <1>1. /\ SoundFields \subseteq DOMAIN y /\ y.mk = x.mk /\ y.globs = x.globs /\ y.obs = x.obs
        /\ y.cmds = x.cmds /\ y.root = x.root /\ y.dirs = x.dirs
    BY DEF SameBut, SoundFields
  <1> QED BY <1>1 DEF EvRight, GlobsRight, RootRight

\* The rest of the program.
LEMMA PoppedRight ==
    ASSUME NEW x, NEW u, NEW mt, NEW co, NEW t, EvRight(x, mt, co, t), EnvRight(x, u), NEW y, y = Popped(x)
    PROVE  EvRight(y, mt, co, t) /\ EnvRight(y, u) /\ y.cmds = x.cmds
  <1>1. SoundFields \subseteq DOMAIN x
    BY DEF EvRight
  <1>2. SameBut(x, y, {"prog"})
    BY <1>1 DEF SameBut, SoundFields, Popped
  <1>3. SameBut(x, y, {"prog", "usedEnv", "usedUndef"})
    BY <1>2 DEF SameBut
  <1>4. y.val = x.val /\ y.origin = x.origin /\ y.exports = x.exports /\ y.usedEnv = x.usedEnv /\ y.cmds = x.cmds
    BY <1>2 DEF SameBut, SoundFields
  <1>5. EvRight(y, mt, co, t)
    BY <1>3, EvSame
  <1>6. EnvRight(y, u)
    BY <1>4 DEF EnvRight, Exports
  <1> QED BY <1>4, <1>5, <1>6

\* A process that is started or that checks.
LEMMA CheckingRight ==
    ASSUME ReadOnly, TypeOK, TypeOK', LinesInv, TreeRight(mtime, content), EvaluatorRight, BeginRight, [Next]_vars,
           pc' \in Checking \cup {"begin"}
    PROVE  /\ EvRight(ev', mtime', content', start') /\ penv' = uenv' /\ EnvRight(ev', uenv')
           /\ \E bin : ev' = NewEvaluator(uenv', bin)
  <1>0. content \in [Path -> Seq(Lines)]
    BY DEF LinesInv
  <1>1. CASE Start
    <2>1. PICK e \in Envs : /\ uenv' = e /\ penv' = e
                            /\ ev' = NewEvaluator(e, Snapshot(mtime, content, KatiBinary))
      BY <1>1, Zenon DEF Start
    <2>2. mtime' = mtime /\ content' = content
      BY <1>1 DEF Start, world
    <2>3. PICK x, t : x = ev' /\ t = start'
      OBVIOUS
    <2>4. EvRight(x, mtime, content, t) /\ EnvRight(x, e)
      BY <1>0, <2>1, <2>3, NewRight
    <2> QED BY <2>1, <2>2, <2>3, <2>4
  <1>2. CASE ~Start
    <2>1. pc \in Checking \cup {"begin"} /\ ev' = ev
      BY <1>2, CheckingFrom
    <2>2. pc # "eval" /\ pc # "idle"
      BY <2>1 DEF Checking
    <2>3. start' = start /\ uenv' = uenv /\ penv' = penv
      BY <1>2, <2>2, RunSame DEF SetEnv
    <2>4. EvRight(ev, mtime, content, start) /\ penv = uenv /\ EnvRight(ev, uenv)
      BY <2>1, <2>2 DEF EvaluatorRight
    <2>5. Logged(ev.cmds) /\ start \in Nat /\ start <= clock
      BY DEF LinesInv, TypeOK
    <2>6. PICK mt, co : mt = mtime' /\ co = content'
      OBVIOUS
    <2>7. Moved(mtime, content, clock, mt, co, start) /\ Held(mtime, mt)
      BY <2>2, <2>5, <2>6, StepMoved
    <2>8. EvRight(ev, mt, co, start)
      BY <2>4, <2>5, <2>7, EvMoves
    <2>9. PICK bin : ev = NewEvaluator(uenv, bin)
      BY <2>1 DEF BeginRight
    <2> QED BY <2>1, <2>3, <2>4, <2>6, <2>8, <2>9
  <1> QED BY <1>1, <1>2

\* The evaluation begins.
LEMMA BeginStepRight ==
    ASSUME ReadOnly, TypeOK, LinesInv, TreeRight(mtime, content), EvaluatorRight, BeginRight, Begin
    PROVE  EvRight(ev', mtime', content', start') /\ penv' = uenv' /\ EnvRight(ev', uenv') /\ Replays(ev', uenv')
  <1>1. /\ pc = "begin" /\ ev' = BeginEval(ev, mtime, content) /\ mtime' = mtime /\ content' = content
        /\ start' = start /\ penv' = penv /\ uenv' = uenv
    BY DEF Begin, world, run
  <1>2. EvRight(ev, mtime, content, start) /\ penv = uenv /\ EnvRight(ev, uenv)
    BY <1>1 DEF EvaluatorRight
  <1>3. PICK bin : ev = NewEvaluator(uenv, bin)
    BY <1>1 DEF BeginRight
  <1>4. content \in [Path -> Seq(Lines)] /\ uenv \in Envs
    BY DEF LinesInv, TypeOK
  <1>5. PICK y : y = ev'
    OBVIOUS
  <1>6. EvRight(y, mtime, content, start) /\ EnvRight(y, uenv)
    BY <1>1, <1>2, <1>3, <1>4, <1>5, BeginKeeps
  <1>7. Replays(y, uenv)
    BY <1>1, <1>3, <1>4, <1>5, ReplayBegin
  <1> QED BY <1>1, <1>2, <1>5, <1>6, <1>7

\* A line is evaluated.
LEMMA EvalStepRight ==
    ASSUME ReadOnly, TypeOK, LinesInv, TreeRight(mtime, content), EvaluatorRight, ReplayRight, Eval
    PROVE  EvRight(ev', mtime', content', start') /\ penv' = uenv' /\ EnvRight(ev', uenv') /\ Replays(ev', uenv')
  <1>1. pc = "eval" /\ ev.prog # << >> /\ ~ev.failed /\ start' = start /\ penv' = penv /\ uenv' = uenv
    BY DEF Eval, run
  <1>2. EvRight(ev, mtime, content, start) /\ penv = uenv /\ EnvRight(ev, uenv) /\ Replays(ev, uenv)
    BY <1>1 DEF EvaluatorRight, ReplayRight
  <1>3. content \in [Path -> Seq(Lines)] /\ uenv \in Envs /\ Logged(ev.cmds)
    BY DEF LinesInv, TypeOK
  <1>4. PICK l, x, y : l = Head(ev.prog) /\ x = Popped(ev) /\ y = ev'
    OBVIOUS
  <1>5. SoundFields \subseteq DOMAIN ev /\ Plain(ev)
    BY <1>2 DEF EvRight, EnvRight, Plain
  <1>6. l \in Lines /\ Evaluates(l, Popped(ev), ev', mtime, content) /\ mtime' = mtime /\ content' = content
    BY <1>4, <1>5, EvalIs
  <1>7. EvRight(x, mtime, content, start) /\ EnvRight(x, uenv) /\ x.cmds = ev.cmds
    BY <1>2, <1>4, PoppedRight
  <1>8. Evaluates(l, x, y, mtime, content) /\ Logged(x.cmds)
    BY <1>3, <1>4, <1>6, <1>7
  <1>9. EvRight(y, mtime, content, start) /\ EnvRight(y, uenv) /\ (l.op = "find" => Known(x, mtime, l.arg))
    BY <1>3, <1>6, <1>7, <1>8, LineKeeps
  <1>10. Replays(y, uenv)
    <2>1. l.op = "find" => Known(Popped(ev), mtime, l.arg)
      BY <1>4, <1>9
    <2>2. Evaluates(l, Popped(ev), y, mtime, content)
      BY <1>4, <1>8
    <2> QED BY <1>1, <1>2, <1>3, <1>4, <1>5, <1>6, <2>1, <2>2, ReplayLine
  <1> QED BY <1>1, <1>2, <1>4, <1>6, <1>9, <1>10

\* The environment is set.
LEMMA SetEnvRight ==
    ASSUME ReadOnly, TypeOK, LinesInv, EvaluatorRight, ReplayRight, SetEnv
    PROVE  /\ EvRight(ev', mtime', content', start') /\ ReplaysAll(ev', uenv')
           /\ \A v \in ev'.usedEnv : penv'[v] = uenv'[v]
  <1>1. /\ pc = "eval" /\ ev.prog = << >> /\ mtime' = mtime /\ content' = content /\ start' = start /\ uenv' = uenv
        /\ penv' = [v \in Var |-> CASE v \in Exported -> ev.val[v]
                                    [] v \in DOMAIN ev.exports \ Exported -> Unset
                                    [] OTHER -> penv[v]]
    BY DEF SetEnv, world, run
  <1>2. EvRight(ev, mtime, content, start) /\ EnvRight(ev, uenv) /\ Replays(ev, uenv)
    BY <1>1 DEF EvaluatorRight, ReplayRight
  <1>3. PICK A, B : /\ A = {v \in Exported : ev.origin[v] = "environment"}
                    /\ B = {v \in Exported : ev.origin[v] = "undefined"}
    OBVIOUS
  <1>4. ev' = [ev EXCEPT !.usedEnv = @ \cup A, !.usedUndef = @ \cup B]
    BY <1>3 DEF SetEnv
  <1>5. PICK y : y = ev'
    OBVIOUS
  <1>6. SoundFields \subseteq DOMAIN ev
    BY <1>2 DEF EvRight
  <1>7. /\ SameBut(ev, y, {"usedEnv", "usedUndef"})
        /\ y.usedEnv = ev.usedEnv \cup A /\ y.usedUndef = ev.usedUndef \cup B
    BY <1>4, <1>5, <1>6 DEF SameBut, SoundFields
  <1>8. EvRight(y, mtime, content, start)
    <2>1. SameBut(ev, y, {"prog", "usedEnv", "usedUndef"})
      BY <1>7 DEF SameBut
    <2> QED BY <1>2, <2>1, EvSame
  <1>9. ReplaysAll(y, uenv)
    <2>1. y.mk = ev.mk /\ y.globs = ev.globs /\ y.obs = ev.obs /\ ev.usedEnv \subseteq y.usedEnv /\ ev.usedUndef \subseteq y.usedUndef
      BY <1>7 DEF SameBut, SoundFields
    <2>2. KatiBinary \in DOMAIN ev.mk
      BY <1>2 DEF EvRight, MkRight
    <2> QED BY <1>1, <1>2, <2>1, <2>2, ReplayEnd
  <1>10. ASSUME NEW v \in y.usedEnv PROVE penv'[v] = uenv[v]
    <2>1. ArgsOf(Uses) \subseteq Var
      <3>1. ArgsOf(Uses) \subseteq ArgsOf(VarOps)
        BY DEF ArgsOf, Uses, VarOps
      <3> QED BY <3>1 DEF ReadOnly
    <2>2. v \in Var /\ v \in Exported /\ ev.origin[v] = "environment"
      <3>1. CASE v \in A
        <4>1. v \in Exported /\ v \in DOMAIN ev.exports /\ ev.origin[v] = "environment"
          BY <1>3, <3>1, Zenon DEF Exported
        <4> QED BY <1>2, <4>1 DEF EnvRight
      <3>2. CASE v \in ev.usedEnv
        <4>1. v \in ArgsOf(Uses) /\ uenv[v] # Unset
          BY <1>2, <3>2 DEF EnvRight
        <4>2. ev.origin[v] = "environment" /\ Exports(ev, v)
          BY <1>2, <4>1, Zenon DEF EnvRight
        <4>3. v \in Exported
          BY <4>2, Zenon DEF Exports, Exported
        <4> QED BY <2>1, <4>1, <4>2, <4>3
      <3> QED BY <1>7, <3>1, <3>2
    <2>3. ev.val[v] = uenv[v]
      BY <1>2, <2>2 DEF EnvRight
    <2> QED BY <1>1, <2>2, <2>3
  <1> QED BY <1>1, <1>5, <1>8, <1>9, <1>10

\* Where an evaluation comes from.
LEMMA EvalFrom ==
    ASSUME [Next]_vars, pc' = "eval"
    PROVE  pc \in {"begin", "eval"}
  <1>1. CASE Check
    BY <1>1 DEF Check, CheckStep1, CheckGlob, CheckCommand, CheckCommandError, CheckFinish, Regenerate, Exit
  <1>2. CASE Evaluate
    BY <1>2 DEF Evaluate, Begin, Eval, EvalError, MakeMakefiles, SetEnv, Exit
  <1>3. CASE Generate
    BY <1>3 DEF Generate, UnlinkStamp, OpenNinja, WriteNinja, OpenScript,
                WriteScript, OpenTmp, WriteTmp, RenameStamp, Goto, Exit
  <1>4. CASE User
    BY <1>4 DEF User, Start, EditFile, RemoveFile, RemoveOutput, AnEdit
  <1>5. CASE Kill
    BY <1>5 DEF Kill, Exit
  <1>6. CASE UNCHANGED vars
    BY <1>6 DEF vars
  <1> QED BY <1>1, <1>2, <1>3, <1>4, <1>5, <1>6 DEF Next, Kati

\* A process that evaluates or generates.
LEMMA EvaluatingRight ==
    ASSUME ReadOnly, TypeOK, TypeOK', LinesInv, TreeRight(mtime, content), EvaluatorRight, BeginRight, ReplayRight,
           [Next]_vars, pc' \in Evaluating
    PROVE  /\ EvRight(ev', mtime', content', start')
           /\ pc' = "eval" => penv' = uenv' /\ EnvRight(ev', uenv') /\ Replays(ev', uenv')
           /\ pc' \in Evaluated => ReplaysAll(ev', uenv') /\ \A v \in ev'.usedEnv : penv'[v] = uenv'[v]
  <1>0. "eval" \notin Evaluated
    BY DEF Evaluated
  <1>1. CASE Begin
    BY <1>0, <1>1, BeginStepRight DEF Begin
  <1>2. CASE Eval
    BY <1>0, <1>2, EvalStepRight DEF Eval
  <1>3. CASE SetEnv
    BY <1>3, SetEnvRight DEF SetEnv
  <1>4. CASE ~Begin /\ ~Eval /\ ~SetEnv
    <2>1. ~Start /\ pc \in Evaluating /\ ev' = ev /\ (pc = "eval" => pc' = "eval")
      BY <1>4, EvaluatingFrom
    <2>2. pc # "idle" /\ pc # "begin"
      BY <2>1 DEF Evaluating, Evaluated
    <2>3. start' = start /\ uenv' = uenv /\ penv' = penv
      BY <1>4, <2>1, RunSame
    <2>4. EvRight(ev, mtime, content, start)
      BY <2>2 DEF EvaluatorRight
    <2>5. Logged(ev.cmds) /\ start \in Nat /\ start <= clock
      BY DEF LinesInv, TypeOK
    <2>6. PICK mt, co : mt = mtime' /\ co = content'
      OBVIOUS
    <2>7. Moved(mtime, content, clock, mt, co, start) /\ Held(mtime, mt)
      BY <2>2, <2>5, <2>6, StepMoved
    <2>8. EvRight(ev, mt, co, start)
      BY <2>4, <2>5, <2>7, EvMoves
    <2>9. CASE pc = "eval"
      <3>1. pc' = "eval" /\ penv = uenv /\ EnvRight(ev, uenv) /\ Replays(ev, uenv)
        BY <2>1, <2>9 DEF EvaluatorRight, ReplayRight
      <3> QED BY <1>0, <2>1, <2>3, <2>6, <2>8, <3>1
    <2>10. CASE pc # "eval"
      <3>1. pc' # "eval"
        BY <2>2, <2>10, EvalFrom
      <3>2. pc \in Evaluated
        BY <2>1, <2>10 DEF Evaluating
      <3>3. ReplaysAll(ev, uenv) /\ \A v \in ev.usedEnv : penv[v] = uenv[v]
        BY <3>2 DEF EvaluatorRight, ReplayRight
      <3> QED BY <2>1, <2>3, <2>6, <2>8, <3>1, <3>3
    <2> QED BY <2>9, <2>10
  <1> QED BY <1>1, <1>2, <1>3, <1>4

\* The evaluator's part of the invariant.
LEMMA EvaluatorStep ==
    ASSUME ReadOnly, TypeOK, TypeOK', LinesInv, TreeRight(mtime, content), EvaluatorRight, BeginRight, ReplayRight,
           [Next]_vars
    PROVE  EvaluatorRight' /\ BeginRight' /\ ReplayRight'
  <1>1. pc' \in Checking \cup {"begin"} \cup Evaluating \cup {"idle"}
    BY DEF TypeOK, Checking, Evaluating, Evaluated
  <1>2. /\ "idle" \notin Checking \cup {"begin", "eval"} \cup Evaluated
        /\ (Checking \cup {"begin"}) \cap (Evaluated \cup {"eval"}) = {}
        /\ Evaluating = Evaluated \cup {"eval"} /\ "eval" \notin Evaluated
    BY DEF Checking, Evaluating, Evaluated
  <1>3. CASE pc' = "idle"
    BY <1>2, <1>3 DEF EvaluatorRight, BeginRight, ReplayRight
  <1>4. CASE pc' \in Checking \cup {"begin"}
    BY <1>2, <1>4, CheckingRight DEF EvaluatorRight, BeginRight, ReplayRight
  <1>5. CASE pc' \in Evaluating
    BY <1>2, <1>5, EvaluatingRight DEF EvaluatorRight, BeginRight, ReplayRight
  <1> QED BY <1>1, <1>3, <1>4, <1>5

-----------------------------------------------------------------------------
(* The stamp and the ninja file.                                           *)

\* The stamp is gone before the outputs are written.
LEMMA UnlinkedFrom ==
    ASSUME [Next]_vars, pc' \in Unlinked
    PROVE  UnlinkStamp \/ (pc \in Unlinked /\ (stamp' = stamp \/ stamp' = None))
  <1>0. /\ "idle" \notin Unlinked /\ "step2" \notin Unlinked /\ "begin" \notin Unlinked /\ "eval" \notin Unlinked
        /\ "makefiles" \notin Unlinked /\ "unlink" \notin Unlinked /\ "check" \notin Unlinked
        /\ {"openNinja", "ninja", "openScript", "script", "openTmp", "tmp", "rename"} \subseteq Unlinked
    BY DEF Unlinked, AfterNinja
  <1>1. CASE Check
    BY <1>0, <1>1 DEF Check, CheckStep1, CheckGlob, CheckCommand, CheckCommandError, CheckFinish, Regenerate, Exit
  <1>2. CASE Evaluate
    BY <1>0, <1>2 DEF Evaluate, Begin, Eval, EvalError, MakeMakefiles, SetEnv, Exit
  <1>3. CASE Generate
    BY <1>0, <1>3 DEF Generate, UnlinkStamp, OpenNinja, WriteNinja, OpenScript,
                WriteScript, OpenTmp, WriteTmp, RenameStamp, Goto, Exit
  <1>4. CASE User
    BY <1>0, <1>4 DEF User, Start, EditFile, RemoveFile, RemoveOutput, AnEdit, disk
  <1>5. CASE Kill
    BY <1>0, <1>5 DEF Kill, Exit
  <1>6. CASE UNCHANGED vars
    BY <1>6 DEF vars, disk
  <1> QED BY <1>1, <1>2, <1>3, <1>4, <1>5, <1>6 DEF Next, Kati

\* Where the ninja file comes from.
LEMMA NinjaFrom ==
    ASSUME [Next]_vars
    PROVE  ninja' = ninja \/ ninja' = None \/ OpenNinja \/ WriteNinja
  <1>1. CASE Check
    BY <1>1 DEF Check, CheckStep1, CheckGlob, CheckCommand, CheckCommandError, CheckFinish, disk
  <1>2. CASE Evaluate
    BY <1>2 DEF Evaluate, Begin, Eval, EvalError, MakeMakefiles, SetEnv, disk
  <1>3. CASE Generate
    BY <1>3 DEF Generate, UnlinkStamp, OpenScript, WriteScript, OpenTmp, WriteTmp, RenameStamp
  <1>4. CASE User
    BY <1>4 DEF User, Start, EditFile, RemoveFile, RemoveOutput, disk
  <1>5. CASE Kill
    BY <1>5 DEF Kill, disk
  <1>6. CASE UNCHANGED vars
    BY <1>6 DEF vars, disk
  <1> QED BY <1>1, <1>2, <1>3, <1>4, <1>5, <1>6 DEF Next, Kati

\* After it was written, the evaluator does not change.
LEMMA AfterNinjaFrom ==
    ASSUME [Next]_vars, pc' \in AfterNinja
    PROVE  WriteNinja \/ (pc \in AfterNinja /\ ev' = ev /\ args' = args /\ (ninja' = ninja \/ ninja' = None))
  <1>0. /\ "idle" \notin AfterNinja /\ "step2" \notin AfterNinja /\ "begin" \notin AfterNinja /\ "eval" \notin AfterNinja
        /\ "makefiles" \notin AfterNinja /\ "unlink" \notin AfterNinja /\ "check" \notin AfterNinja
        /\ "openNinja" \notin AfterNinja /\ "ninja" \notin AfterNinja
        /\ {"openScript", "script", "openTmp", "tmp", "rename"} \subseteq AfterNinja
    BY DEF AfterNinja
  <1>1. CASE Check
    BY <1>0, <1>1 DEF Check, CheckStep1, CheckGlob, CheckCommand, CheckCommandError, CheckFinish, Regenerate, Exit
  <1>2. CASE Evaluate
    BY <1>0, <1>2 DEF Evaluate, Begin, Eval, EvalError, MakeMakefiles, SetEnv, Exit
  <1>3. CASE Generate
    BY <1>0, <1>3 DEF Generate, UnlinkStamp, OpenNinja, WriteNinja, OpenScript,
                WriteScript, OpenTmp, WriteTmp, RenameStamp, Goto, Exit, run
  <1>4. CASE User
    BY <1>0, <1>4 DEF User, Start, EditFile, RemoveFile, RemoveOutput, AnEdit, disk, run
  <1>5. CASE Kill
    BY <1>0, <1>5 DEF Kill, Exit
  <1>6. CASE UNCHANGED vars
    BY <1>6 DEF vars, disk, run
  <1> QED BY <1>1, <1>2, <1>3, <1>4, <1>5, <1>6 DEF Next, Kati

\* The commands as they are written to the stamp.
LEMMA StampedRight ==
    ASSUME NEW cs, NEW ds, ds = [i \in DOMAIN cs |-> Stamped(cs[i])], NEW t, FindsRight(cs, mtime, t),
           NEW obs, Linked(obs, cs), NEW n
    PROVE  SearchRight(ds, mtime, t, n) /\ Linked(obs, ds)
  <1>1. /\ DOMAIN ds = DOMAIN cs
        /\ \A j \in DOMAIN cs : /\ ds[j].op = cs[j].op /\ ds[j].line = cs[j].line /\ ds[j].res = cs[j].res
                                /\ ds[j].dirs = cs[j].dirs
                                /\ ds[j].missing = IF cs[j].op = "FIND" /\ ~Exists(mtime, cs[j].line.arg)
                                                   THEN {cs[j].line.arg} ELSE {}
    BY DEF Stamped
  <1>2. ASSUME NEW j \in DOMAIN ds, ds[j].op = "FIND"
        PROVE  /\ ds[j].line.op = "find"
               /\ Found(ds[j], mtime, t) \/ (ds[j].res = {} /\ ds[j].missing = {ds[j].line.arg})
    <2>1. /\ cs[j].line.op = "find"
          /\ Found(cs[j], mtime, t) \/ (cs[j].res = {} /\ ~Exists(mtime, cs[j].line.arg))
      BY <1>1, <1>2 DEF FindsRight
    <2>2. Found(cs[j], mtime, t) => Found(ds[j], mtime, t)
      BY <1>1 DEF Found
    <2> QED BY <1>1, <1>2, <2>1, <2>2
  <1>3. \A j \in DOMAIN cs : \A o : Records(cs[j], o) => Records(ds[j], o)
    BY <1>1 DEF Records
  <1>4. SearchRight(ds, mtime, t, n)
    BY <1>2 DEF SearchRight
  <1>5. Linked(obs, ds)
    BY <1>1, <1>3 DEF Linked
  <1> QED BY <1>4, <1>5

\* An edit keeps what is said of a stamp.
LEMMA StampMoves ==
    ASSUME ReadOnly, NEW mt, NEW co, NEW c, NEW mt2, NEW co2, NEW s, Moved(mt, co, c, mt2, co2, s.time),
           Logged(s.cmds), StampRight(s, mt)
    PROVE  /\ StampRight(s, mt2)
           /\ \A p : ProductRight(p, s, mt, co) => ProductRight(p, s, mt2, co2)
  <1>1. PICK t, n : t = s.time /\ n = Len(s.cmds) + 1
    OBVIOUS
  <1>2. Moved(mt, co, c, mt2, co2, t) /\ MkRight(s.mk, s.globs, mt) /\ SearchRight(s.cmds, mt, t, n)
    BY <1>1 DEF StampRight
  <1>3. MkRight(s.mk, s.globs, mt2)
    BY <1>2, MkMoves
  <1>4. SearchRight(s.cmds, mt2, t, n)
    BY <1>2, SearchMoves
  <1>5. StampRight(s, mt2)
    BY <1>1, <1>3, <1>4 DEF StampRight
  <1>6. ASSUME NEW p, ProductRight(p, s, mt, co) PROVE ProductRight(p, s, mt2, co2)
    <2>1. ReadsRight(p.obs, mt, co, t)
      BY <1>1, <1>6 DEF ProductRight
    <2>2. ReadsRight(p.obs, mt2, co2, t)
      BY <1>2, <2>1, ReadsMoves
    <2> QED BY <1>1, <1>6, <2>2 DEF ProductRight
  <1> QED BY <1>5, <1>6

\* What is to be renamed.
LEMMA RenameRight ==
    ASSUME ReadOnly, TypeOK, TypeOK', LinesInv, TreeRight(mtime, content), EvaluatorRight, FilesRight,
           [Next]_vars, pc' = "rename"
    PROVE  /\ StampRight(tmp', mtime') /\ tmp'.time = start'
           /\ ProductRight(Product(args', ev'), tmp', mtime', content')
  <1>1. CASE WriteTmp
    <2>1. /\ pc = "tmp" /\ mtime' = mtime /\ content' = content /\ start' = start /\ args' = args /\ ev' = ev
      BY <1>1 DEF WriteTmp, Goto, world, run
    <2>2. EvRight(ev, mtime, content, start) /\ Logged(ev.cmds)
      BY <2>1 DEF EvaluatorRight, LinesInv
    <2>3. PICK ds, p, s : ds = [i \in DOMAIN ev.cmds |-> Stamped(ev.cmds[i])] /\ p = Product(args, ev) /\ s = tmp'
      OBVIOUS
    <2>4. /\ StampNames \subseteq DOMAIN s /\ s.time = start /\ s.mk = ev.mk /\ s.globs = ev.globs
          /\ s.cmds = ds /\ s.args = args
      BY <1>1, <2>3 DEF WriteTmp, StampNames
    <2>5. SearchRight(ds, mtime, start, Len(ds) + 1) /\ Linked(ev.obs, ds)
      BY <2>2, <2>3, StampedRight DEF EvRight
    <2>6. StampRight(s, mtime)
      BY <2>2, <2>4, <2>5 DEF StampRight, EvRight
    <2>7. p = [args |-> args, kati |-> ev.mk[KatiBinary].data, obs |-> p.obs] /\ p.obs = ev.obs
      BY <2>3 DEF Product
    <2>8. ProductRight(p, s, mtime, content)
      BY <2>2, <2>4, <2>5, <2>7 DEF ProductRight, EvRight
    <2> QED BY <2>1, <2>3, <2>4, <2>6, <2>8
  <1>2. CASE ~WriteTmp
    <2>1. pc = "rename" /\ tmp' = tmp /\ start' = start /\ ev' = ev
      BY <1>2, RenameFrom
    <2>2. args' = args
      BY <2>1, RunSame DEF Start
    <2>3. StampRight(tmp, mtime) /\ tmp.time = start /\ ProductRight(Product(args, ev), tmp, mtime, content)
      BY <2>1 DEF FilesRight
    <2>4. Logged(tmp.cmds) /\ start \in Nat /\ start <= clock
      BY <2>1 DEF LinesInv, TypeOK
    <2>5. PICK mt, co, p : mt = mtime' /\ co = content' /\ p = Product(args, ev)
      OBVIOUS
    <2>6. Moved(mtime, content, clock, mt, co, tmp.time)
      BY <2>3, <2>4, <2>5, StepMoved
    <2>7. StampRight(tmp, mt) /\ ProductRight(p, tmp, mt, co)
      BY <2>3, <2>4, <2>5, <2>6, StampMoves
    <2> QED BY <2>1, <2>2, <2>3, <2>5, <2>7
  <1> QED BY <1>1, <1>2

\* The stamp with another time.
LEMMA RetimedIs ==
    ASSUME NEW s, StampNames \subseteq DOMAIN s, NEW t, NEW r, r = [s EXCEPT !.time = t]
    PROVE  /\ StampNames \subseteq DOMAIN r /\ r.time = t /\ r.mk = s.mk /\ r.undef = s.undef /\ r.envs = s.envs
           /\ r.globs = s.globs /\ r.cmds = s.cmds /\ r.args = s.args
  BY DEF StampNames

\* A clean check moves the time.
LEMMA RenewRight ==
    ASSUME LinesInv, FilesRight, CheckedRight, CheckFinish, pc = "step2", ~chk.needs, stamp # None,
           NEW r, r = [stamp EXCEPT !.time = start]
    PROVE  StampRight(r, mtime) /\ (ninja # None => ProductRight(ninja.product, r, mtime, content))
  <1>1. /\ StampRight(stamp, mtime) /\ chk.stamp = stamp /\ Logged(stamp.cmds) /\ chk.next \in Nat
        /\ SearchRight(stamp.cmds, mtime, start, chk.next)
    BY DEF FilesRight, CheckedRight, LinesInv
  <1>2. chk.next > Len(stamp.cmds)
    BY <1>1 DEF CheckFinish, LoadedCommands
  <1>3. \A j \in DOMAIN stamp.cmds : j < chk.next
    <2>1. stamp.cmds \in Seq(LinesOf(stamp.cmds))
      BY <1>1 DEF Logged
    <2>2. DOMAIN stamp.cmds = 1 .. Len(stamp.cmds) /\ Len(stamp.cmds) \in Nat
      BY <2>1
    <2> QED BY <1>1, <1>2, <2>2
  <1>4. /\ StampNames \subseteq DOMAIN r /\ r.time = start /\ r.mk = stamp.mk /\ r.globs = stamp.globs
        /\ r.cmds = stamp.cmds /\ r.args = stamp.args
    BY <1>1, RetimedIs DEF StampRight
  <1>5. SearchRight(stamp.cmds, mtime, start, Len(stamp.cmds) + 1)
    BY <1>1, <1>3 DEF SearchRight
  <1>6. StampRight(r, mtime)
    BY <1>1, <1>4, <1>5 DEF StampRight
  <1>7. ASSUME ninja # None PROVE ProductRight(ninja.product, r, mtime, content)
    <2>1. PICK p, obs : p = ninja.product /\ obs = p.obs
      OBVIOUS
    <2>2. /\ ProductRight(p, stamp, mtime, content)
          /\ RereadRight(obs, stamp.cmds, mtime, content, start, chk.next)
      BY <1>7, <2>1 DEF FilesRight, CheckedRight
    <2>3. ReadsRight(obs, mtime, content, stamp.time) /\ Linked(obs, stamp.cmds)
      BY <2>1, <2>2 DEF ProductRight
    <2>4. ASSUME NEW i \in DOMAIN obs, obs[i].op = "read"
          PROVE  obs[i].arg \in ArgsOf({"read"}) /\ (mtime[obs[i].arg] > start \/ content[obs[i].arg] = obs[i].res)
      <3>1. PICK j \in DOMAIN stamp.cmds : Records(stamp.cmds[j], obs[i])
        BY <2>3, <2>4 DEF Linked, Recorded
      <3> QED BY <1>3, <2>2, <2>3, <2>4, <3>1 DEF RereadRight, ReadsRight
    <2>5. ReadsRight(obs, mtime, content, start)
      BY <2>4 DEF ReadsRight
    <2>6. ProductRight(p, r, mtime, content)
      BY <1>4, <2>1, <2>2, <2>3, <2>5 DEF ProductRight
    <2> QED BY <2>1, <2>6
  <1> QED BY <1>6, <1>7

\* A step changes the stamp, or the ninja file, but not both.
LEMMA DiskStep ==
    ASSUME [Next]_vars, FilesRight, stamp' # None
    PROVE  /\ \/ stamp' = stamp /\ (ninja' = ninja \/ ninja' = None)
              \/ RenameStamp /\ ninja' = ninja /\ stamp' = tmp
              \/ /\ CheckFinish /\ pc = "step2" /\ ~chk.needs /\ stamp # None
                 /\ stamp' = [stamp EXCEPT !.time = start] /\ pc' = "idle" /\ ninja' = ninja
  <1>1. CASE RenameStamp
    BY <1>1 DEF RenameStamp
  <1>2. CASE /\ CheckFinish /\ pc = "step2" /\ ~chk.needs /\ stamp # None
             /\ stamp' = [stamp EXCEPT !.time = start] /\ pc' = "idle"
    <2>1. ninja' = ninja
      BY <1>2 DEF CheckFinish, disk
    <2> QED BY <1>2, <2>1
  <1>3. CASE stamp' = stamp
    <2>1. ~OpenNinja /\ ~WriteNinja
      BY <1>3 DEF FilesRight, OpenNinja, WriteNinja, Goto, Unlinked
    <2> QED BY <1>3, <2>1, NinjaFrom
  <1> QED BY <1>1, <1>2, <1>3, StampStep

\* A stamp on the disk.
LEMMA OnDisk ==
    ASSUME ReadOnly, TypeOK, TypeOK', LinesInv, TreeRight(mtime, content), EvaluatorRight, FilesRight, CheckedRight,
           [Next]_vars, stamp' # None
    PROVE  /\ StampRight(stamp', mtime') /\ stamp'.time \in Nat /\ stamp'.time <= clock'
           /\ ninja' # None => ProductRight(ninja'.product, stamp', mtime', content')
  <1>0. clock \in Nat /\ clock' \in Nat /\ start \in Nat /\ start <= clock /\ clock <= clock'
    <2>1. EvalFields \subseteq DOMAIN ev
      BY DEF LinesInv, KeptFields, EvalFields
    <2> QED BY <2>1, NextWorld DEF TypeOK
  <1>1. CASE stamp' = stamp /\ (ninja' = ninja \/ ninja' = None)
    <2>1. StampRight(stamp, mtime) /\ stamp.time \in Nat /\ stamp.time <= clock /\ Logged(stamp.cmds)
      BY <1>1 DEF FilesRight, LinesInv
    <2>2. PICK mt, co : mt = mtime' /\ co = content'
      OBVIOUS
    <2>3. Moved(mtime, content, clock, mt, co, stamp.time)
      BY <2>1, <2>2, StepMoved
    <2>4. StampRight(stamp, mt) /\ \A p : ProductRight(p, stamp, mtime, content) => ProductRight(p, stamp, mt, co)
      BY <2>1, <2>3, StampMoves
    <2>5. ninja # None => ProductRight(ninja.product, stamp, mtime, content)
      BY <1>1 DEF FilesRight
    <2>6. ninja' # None => ProductRight(ninja.product, stamp, mt, co) /\ ninja' = ninja
      BY <1>1, <2>4, <2>5
    <2>7. stamp.time <= clock'
      BY <1>0, <2>1
    <2> QED BY <1>1, <2>1, <2>2, <2>4, <2>6, <2>7
  <1>2. CASE RenameStamp /\ ninja' = ninja /\ stamp' = tmp
    <2>1. pc = "rename" /\ mtime' = mtime /\ content' = content
      BY <1>2 DEF RenameStamp, world
    <2>2. /\ StampRight(tmp, mtime) /\ tmp.time = start /\ ProductRight(Product(args, ev), tmp, mtime, content)
          /\ ninja # None => ninja.product = Product(args, ev)
      BY <2>1 DEF FilesRight, AfterNinja
    <2>3. tmp.time \in Nat /\ tmp.time <= clock'
      BY <1>0, <2>2
    <2> QED BY <1>2, <2>1, <2>2, <2>3
  <1>3. CASE /\ CheckFinish /\ pc = "step2" /\ ~chk.needs /\ stamp # None
             /\ stamp' = [stamp EXCEPT !.time = start] /\ pc' = "idle" /\ ninja' = ninja
    <2>1. mtime' = mtime /\ content' = content
      BY <1>3 DEF CheckFinish, world
    <2>2. PICK r : r = stamp'
      OBVIOUS
    <2>3. StampRight(r, mtime) /\ (ninja # None => ProductRight(ninja.product, r, mtime, content))
      BY <1>3, <2>2, RenewRight
    <2>4. r.time = start
      <3>1. StampRight(stamp, mtime)
        BY <1>3 DEF FilesRight
      <3> QED BY <1>3, <2>2, <3>1, RetimedIs DEF StampRight
    <2>5. r.time \in Nat /\ r.time <= clock'
      BY <1>0, <2>4
    <2> QED BY <1>3, <2>1, <2>2, <2>3, <2>5
  <1> QED BY <1>1, <1>2, <1>3, DiskStep

\* The files' part of the invariant.
LEMMA FilesStep ==
    ASSUME ReadOnly, TypeOK, TypeOK', LinesInv, TreeRight(mtime, content), EvaluatorRight, FilesRight, CheckedRight,
           [Next]_vars
    PROVE  FilesRight'
  <1>1. pc' \in Unlinked => stamp' = None
    BY UnlinkedFrom DEF FilesRight, UnlinkStamp
  <1>2. ASSUME pc' \in AfterNinja, ninja' # None PROVE ninja'.product = Product(args', ev')
    <2>1. CASE WriteNinja
      <3>1. ninja' = Output /\ ev' = ev /\ args' = args
        BY <2>1 DEF WriteNinja, Goto, run
      <3> QED BY <3>1 DEF Output
    <2>2. CASE pc \in AfterNinja /\ ev' = ev /\ args' = args /\ ninja' = ninja
      <3>1. ninja.product = Product(args, ev)
        BY <1>2, <2>2 DEF FilesRight
      <3> QED BY <2>2, <3>1
    <2> QED BY <1>2, <2>1, <2>2, AfterNinjaFrom
  <1>3. pc' = "rename" => /\ StampRight(tmp', mtime') /\ tmp'.time = start'
                          /\ ProductRight(Product(args', ev'), tmp', mtime', content')
    BY RenameRight
  <1>4. stamp' # None => StampRight(stamp', mtime') /\ stamp'.time \in Nat /\ stamp'.time <= clock'
    BY OnDisk
  <1>5. stamp' # None /\ ninja' # None => ProductRight(ninja'.product, stamp', mtime', content')
    BY OnDisk
  <1> QED BY <1>1, <1>2, <1>3, <1>4, <1>5 DEF FilesRight

\* A stamp reproduces what its evaluation observed.
LEMMA ReproduceStep ==
    ASSUME EvaluatorRight, ReplayRight, FilesRight, StampReproduces, [Next]_vars
    PROVE  StampReproduces'
  <1>1. ASSUME pc' = "rename" PROVE Reproduces(tmp', ev'.obs)
    <2>1. CASE WriteTmp
      <3>1. pc \in Evaluated /\ ev' = ev
        BY <2>1 DEF WriteTmp, Goto, Evaluated
      <3>2. ReplaysAll(ev, uenv) /\ \A v \in ev.usedEnv : penv[v] = uenv[v]
        BY <3>1 DEF EvaluatorRight, ReplayRight
      <3>3. PICK s : s = tmp'
        OBVIOUS
      <3>4. /\ s.mk = ev.mk /\ s.globs = ev.globs /\ s.undef = ev.usedUndef
            /\ s.envs = [v \in ev.usedEnv \cup {PathVar} |-> GetEnv(penv, v)]
        BY <2>1, <3>3 DEF WriteTmp
      <3>5. Reproduces(s, ev.obs)
        BY <3>2, <3>4, ReplayStamp
      <3> QED BY <3>1, <3>3, <3>5
    <2>2. CASE ~WriteTmp
      <3>1. pc = "rename" /\ tmp' = tmp /\ ev' = ev
        BY <1>1, <2>2, RenameFrom
      <3>2. Reproduces(tmp, ev.obs)
        BY <3>1 DEF StampReproduces
      <3> QED BY <3>1, <3>2
    <2> QED BY <2>1, <2>2
  <1>2. ASSUME stamp' # None, ninja' # None PROVE Reproduces(stamp', ninja'.product.obs)
    <2>1. CASE stamp' = stamp /\ ninja' = ninja
      <3>1. Reproduces(stamp, ninja.product.obs)
        BY <1>2, <2>1 DEF StampReproduces
      <3> QED BY <2>1, <3>1
    <2>2. CASE RenameStamp /\ ninja' = ninja /\ stamp' = tmp
      <3>1. pc = "rename" /\ Reproduces(tmp, ev.obs) /\ ninja.product = Product(args, ev)
        BY <1>2, <2>2 DEF RenameStamp, StampReproduces, FilesRight, AfterNinja
      <3>2. ninja.product.obs = ev.obs
        BY <3>1 DEF Product
      <3> QED BY <2>2, <3>1, <3>2
    <2>3. CASE stamp # None /\ stamp' = [stamp EXCEPT !.time = start] /\ ninja' = ninja
      <3>1. Reproduces(stamp, ninja.product.obs) /\ StampRight(stamp, mtime)
        BY <1>2, <2>3 DEF StampReproduces, FilesRight
      <3>2. PICK r, obs : r = stamp' /\ obs = ninja.product.obs
        OBVIOUS
      <3>3. r.mk = stamp.mk /\ r.undef = stamp.undef /\ r.envs = stamp.envs /\ r.globs = stamp.globs
        BY <2>3, <3>1, <3>2, RetimedIs DEF StampRight
      <3>4. \A mt, co, e : StampAgrees(r, obs, mt, co, e) => StampAgrees(stamp, obs, mt, co, e)
        BY <3>3 DEF StampAgrees
      <3>5. Reproduces(r, obs)
        BY <3>1, <3>2, <3>4 DEF Reproduces
      <3> QED BY <2>3, <3>2, <3>5
    <2> QED BY <1>2, <2>1, <2>2, <2>3, DiskStep
  <1> QED BY <1>1, <1>2 DEF StampReproduces

-----------------------------------------------------------------------------
(* The check.                                                              *)

\* CheckShellResult finds no difference.
LEMMA CleanCommandIs ==
    ASSUME ReadOnly, NEW s, NEW c, ~CommandDirty(s, c)
    PROVE  CleanCommand(s.time, c, mtime, content)
  <1>1. c.op = "READ_MISSING" => ~Exists(mtime, c.line.arg)
    BY DEF CommandDirty
  <1>2. c.op = "READ" => ~(s.time < mtime[c.line.arg])
    BY DEF CommandDirty
  <1>3. c.op = "SHELL" => ShellResult(c.line, mtime, content) = c.res
    BY DEF CommandDirty, ShouldRunCommand
  <1>4. ASSUME c.op = "FIND", ShellResult(c.line, mtime, content) # c.res
        PROVE  /\ \A d \in c.missing : ~Exists(mtime, d)
               /\ \A d \in c.dirs : Exists(mtime, d) /\ ~(s.time < mtime[d])
    <2>1. ~ShouldRunCommand(s, c)
      BY <1>4 DEF CommandDirty
    <2>2. IgnoreDirty = {}
      BY DEF ReadOnly
    <2> QED BY <2>1, <2>2 DEF ShouldRunCommand
  <1> QED BY <1>1, <1>2, <1>3, <1>4 DEF CleanCommand

\* A directory that was found clean.
LEMMA CleanSearch ==
    ASSUME NEW mt, NEW co, NEW s, NEW c, CleanCommand(s, c, mt, co), c.op = "FIND", c.line.op = "find",
           Found(c, mt, s) \/ (c.res = {} /\ c.missing = {c.line.arg}), NEW t
    PROVE  Found(c, mt, t) \/ (c.res = {} /\ c.missing = {c.line.arg})
  <1>1. CASE Found(c, mt, s)
    <2>1. c.dirs = {c.line.arg} /\ Listed(mt, c.line.arg, s, c.res)
      BY <1>1 DEF Found
    <2>2. CASE ShellResult(c.line, mt, co) = c.res
      BY <2>1, <2>2 DEF ShellResult, Found, Listed
    <2>3. CASE \A d \in c.dirs : Exists(mt, d) /\ ~(s < mt[d])
      BY <2>1, <2>3 DEF Found, Listed, Exists
    <2> QED BY <2>2, <2>3 DEF CleanCommand
  <1> QED BY <1>1

\* A file that was found clean.
LEMMA CleanRead ==
    ASSUME NEW mt \in [Path -> Nat \cup {NotExist}], NEW co, NEW s \in Nat, NEW c, CleanCommand(s, c, mt, co),
           NEW o, Records(c, o), o.op = "read", o.arg \in Path, mt[o.arg] > s \/ co[o.arg] = o.res
    PROVE  co[o.arg] = o.res
  <1>1. c.line.arg = o.arg /\ c.op \in {"READ", "READ_MISSING"}
    BY DEF Records
  <1>2. mt[o.arg] \in Nat \cup {NotExist}
    OBVIOUS
  <1>3. ~(mt[o.arg] > s)
    BY <1>1, <1>2 DEF CleanCommand, Exists, NotExist
  <1> QED BY <1>3

\* The next command of a running check.
LEMMA CommandChecked ==
    ASSUME ReadOnly, TypeOK, LinesInv, FilesRight, CheckedRight, CheckCommand, stamp # None, ~chk'.needs
    PROVE  /\ ~chk.needs /\ chk.stamp = stamp /\ chk.next \in DOMAIN stamp.cmds
           /\ CleanCommand(stamp.time, stamp.cmds[chk.next], mtime, content)
  <1>1. pc = "step2" /\ chk.stamp = stamp /\ ChkFields \subseteq DOMAIN chk
    BY DEF CheckCommand, CheckedRight
  <1>2. chk.next \in DOMAIN stamp.cmds
    BY <1>1, ReadOnlyNoAppend, CheckCommandStep
  <1>3. PICK c : c = stamp.cmds[chk.next]
    OBVIOUS
  <1>4. LoadedCommands[chk.next] = c
    BY <1>1, <1>3 DEF LoadedCommands
  <1>5. chk' = [chk EXCEPT !.needs = @ \/ CommandDirty(stamp, c), !.next = @ + 1]
    BY <1>1, <1>4 DEF CheckCommand
  <1>6. ~chk.needs /\ ~CommandDirty(stamp, c)
    BY <1>1, <1>5 DEF ChkFields
  <1> QED BY <1>1, <1>2, <1>3, <1>6, CleanCommandIs

\* It is as the stamp says at the start of the check.
LEMMA CommandRight ==
    ASSUME ReadOnly, TypeOK, LinesInv, FilesRight, CheckedRight, CheckCommand, stamp # None, ~chk'.needs
    PROVE  /\ SearchRight(stamp.cmds, mtime, start, chk.next + 1)
           /\ ninja # None => RereadRight(ninja.product.obs, stamp.cmds, mtime, content, start, chk.next + 1)
  <1>1. /\ ~chk.needs /\ chk.next \in DOMAIN stamp.cmds
        /\ CleanCommand(stamp.time, stamp.cmds[chk.next], mtime, content)
    BY CommandChecked
  <1>2. /\ pc = "step2" /\ SearchRight(stamp.cmds, mtime, start, chk.next)
        /\ ninja # None => RereadRight(ninja.product.obs, stamp.cmds, mtime, content, start, chk.next)
    BY <1>1 DEF CheckCommand, CheckedRight
  <1>3. StampRight(stamp, mtime) /\ stamp.time \in Nat /\ mtime \in [Path -> Nat \cup {NotExist}]
    BY DEF FilesRight, TypeOK
  <1>4. /\ chk.next \in Nat /\ DOMAIN stamp.cmds = 1 .. Len(stamp.cmds) /\ Len(stamp.cmds) \in Nat
        /\ \A j \in DOMAIN stamp.cmds : (j < chk.next + 1 => j < chk.next \/ j = chk.next) /\ j < Len(stamp.cmds) + 1
    <2>1. chk.next \in Nat /\ stamp.cmds \in Seq(LinesOf(stamp.cmds))
      BY <1>2 DEF LinesInv, Logged
    <2>2. DOMAIN stamp.cmds = 1 .. Len(stamp.cmds) /\ Len(stamp.cmds) \in Nat
      BY <2>1
    <2> QED BY <2>1, <2>2
  <1>5. PICK c : c = stamp.cmds[chk.next]
    OBVIOUS
  <1>6. c.op = "FIND" => c.line.op = "find" /\ (Found(c, mtime, start) \/ (c.res = {} /\ c.missing = {c.line.arg}))
    <2>1. SearchRight(stamp.cmds, mtime, stamp.time, Len(stamp.cmds) + 1)
      BY <1>3 DEF StampRight
    <2>2. c.op = "FIND" => c.line.op = "find" /\ (Found(c, mtime, stamp.time) \/ (c.res = {} /\ c.missing = {c.line.arg}))
      BY <1>1, <1>4, <1>5, <2>1 DEF SearchRight
    <2> QED BY <1>1, <1>5, <2>2, CleanSearch
  <1>7. SearchRight(stamp.cmds, mtime, start, chk.next + 1)
    BY <1>2, <1>4, <1>5, <1>6 DEF SearchRight
  <1>8. ASSUME ninja # None
        PROVE  RereadRight(ninja.product.obs, stamp.cmds, mtime, content, start, chk.next + 1)
    <2>1. PICK obs : obs = ninja.product.obs
      OBVIOUS
    <2>2. /\ ReadsRight(obs, mtime, content, stamp.time)
          /\ RereadRight(obs, stamp.cmds, mtime, content, start, chk.next)
      BY <1>2, <1>8, <2>1 DEF FilesRight, ProductRight
    <2>3. ASSUME NEW i \in DOMAIN obs, NEW j \in DOMAIN stamp.cmds, obs[i].op = "read", j < chk.next + 1,
                 Records(stamp.cmds[j], obs[i])
          PROVE  mtime[obs[i].arg] > start \/ content[obs[i].arg] = obs[i].res
      <3>1. CASE j < chk.next
        BY <2>2, <2>3, <3>1 DEF RereadRight
      <3>2. CASE j = chk.next
        <4>1. PICK o : o = obs[i]
          OBVIOUS
        <4>2. Records(c, o) /\ o.op = "read" /\ CleanCommand(stamp.time, c, mtime, content)
          BY <1>1, <1>5, <2>3, <3>2, <4>1
        <4>3. o.arg \in ArgsOf({"read"}) /\ (mtime[o.arg] > stamp.time \/ content[o.arg] = o.res)
          BY <2>2, <2>3, <4>1 DEF ReadsRight
        <4>4. o.arg \in Path
          <5>1. ArgsOf({"read"}) \subseteq ArgsOf(Includes \cup {"cat", "read"})
            BY DEF ArgsOf
          <5> QED BY <4>3, <5>1 DEF ReadOnly
        <4>5. content[o.arg] = o.res
          BY <1>3, <4>2, <4>3, <4>4, CleanRead
        <4> QED BY <4>1, <4>5
      <3> QED BY <1>4, <2>3, <3>1, <3>2
    <2>4. RereadRight(obs, stamp.cmds, mtime, content, start, chk.next + 1)
      BY <2>3 DEF RereadRight
    <2> QED BY <2>1, <2>4
  <1> QED BY <1>7, <1>8

\* The stamp stays during a check.
LEMMA CheckDisk ==
    ASSUME [Next]_vars, FilesRight, pc' = "step2", stamp' # None
    PROVE  stamp' = stamp /\ (ninja' = ninja \/ ninja' = None)
  BY DiskStep DEF RenameStamp, Exit

\* The steps of a check.
LEMMA CheckStepIs ==
    ASSUME LinesInv, [Next]_vars, pc' = "step2", stamp' # None, stamp' = stamp, CheckedRight
    PROVE  /\ ChkFields \subseteq DOMAIN chk' /\ chk'.stamp = stamp
           /\ \/ CheckStep1 /\ chk'.next = 1
              \/ CheckGlob /\ chk'.next = chk.next /\ (~chk'.needs => ~chk.needs)
              \/ CheckCommand /\ chk'.next = chk.next + 1
              \/ pc = "step2" /\ chk' = chk
  <1>1. CASE CheckStep1
    <2>1. PICK d : chk' = [needs |-> d, stamp |-> stamp, next |-> 1, globs |-> IF stamp = None THEN {} ELSE DOMAIN stamp.globs]
      BY <1>1 DEF CheckStep1, Regenerate, Exit
    <2> QED BY <1>1, <2>1 DEF ChkFields
  <1>2. CASE CheckGlob
    <2>1. PICK d, b : chk' = [chk EXCEPT !.needs = @ \/ d, !.globs = b]
      BY <1>2 DEF CheckGlob
    <2>2. pc = "step2" /\ ChkFields \subseteq DOMAIN chk /\ chk.stamp = stamp
      BY <1>2 DEF CheckGlob, CheckedRight
    <2> QED BY <1>2, <2>1, <2>2 DEF ChkFields
  <1>3. CASE CheckCommand
    <2>1. PICK d : chk' = [chk EXCEPT !.needs = @ \/ d, !.next = @ + 1]
      BY <1>3 DEF CheckCommand
    <2>2. pc = "step2" /\ ChkFields \subseteq DOMAIN chk /\ chk.stamp = stamp
      BY <1>3 DEF CheckCommand, CheckedRight
    <2> QED BY <1>3, <2>1, <2>2 DEF ChkFields
  <1>4. CASE pc = "step2" /\ chk' = chk
    BY <1>4 DEF CheckedRight
  <1> QED BY <1>1, <1>2, <1>3, <1>4, Step2From

\* The check's part of the invariant.
LEMMA CheckedStep ==
    ASSUME ReadOnly, TypeOK, TypeOK', LinesInv, TreeRight(mtime, content), FilesRight, CheckedRight, [Next]_vars
    PROVE  CheckedRight'
  <1> SUFFICES ASSUME pc' = "step2", stamp' # None
               PROVE  /\ ChkFields \subseteq DOMAIN chk' /\ chk'.stamp = stamp'
                      /\ ~chk'.needs =>
                            /\ SearchRight(stamp'.cmds, mtime', start', chk'.next)
                            /\ ninja' # None => RereadRight(ninja'.product.obs, stamp'.cmds, mtime', content', start', chk'.next)
    BY DEF CheckedRight
  <1>1. stamp' = stamp /\ (ninja' = ninja \/ ninja' = None) /\ stamp # None
    BY CheckDisk
  <1>2. /\ ChkFields \subseteq DOMAIN chk' /\ chk'.stamp = stamp
        /\ \/ CheckStep1 /\ chk'.next = 1
           \/ CheckGlob /\ chk'.next = chk.next /\ (~chk'.needs => ~chk.needs)
           \/ CheckCommand /\ chk'.next = chk.next + 1
           \/ pc = "step2" /\ chk' = chk
    BY <1>1, CheckStepIs
  <1>3. ASSUME ~chk'.needs
        PROVE  /\ SearchRight(stamp.cmds, mtime', start', chk'.next)
               /\ ninja' # None => RereadRight(ninja.product.obs, stamp.cmds, mtime', content', start', chk'.next)
    <2>1. CASE CheckStep1 /\ chk'.next = 1
      <3>1. stamp.cmds \in Seq(LinesOf(stamp.cmds))
        BY <1>1 DEF LinesInv, Logged
      <3>2. \A j \in DOMAIN stamp.cmds : ~(j < 1)
        BY <3>1
      <3> QED BY <2>1, <3>2 DEF SearchRight, RereadRight
    <2>2. CASE CheckGlob /\ chk'.next = chk.next /\ (~chk'.needs => ~chk.needs)
      <3>1. pc = "step2" /\ mtime' = mtime /\ content' = content /\ start' = start /\ ninja' = ninja
        BY <2>2 DEF CheckGlob, world, run, disk
      <3>2. ~chk.needs
        BY <1>3, <2>2
      <3> QED BY <1>1, <2>2, <3>1, <3>2 DEF CheckedRight
    <2>3. CASE CheckCommand /\ chk'.next = chk.next + 1
      <3>1. mtime' = mtime /\ content' = content
        <4>1. ~EditFile /\ ~RemoveFile
          BY <2>3 DEF CheckCommand, EditFile, RemoveFile, AnEdit, user, TypeOK
        <4> QED BY <4>1, OnlyEdits
      <3>2. start' = start /\ ninja' = ninja
        BY <2>3 DEF CheckCommand, run, disk
      <3> QED BY <1>1, <1>3, <2>3, <3>1, <3>2, CommandRight
    <2>4. CASE pc = "step2" /\ chk' = chk
      <3>1. start' = start
        BY <2>4, RunSame DEF Start
      <3>2. PICK mt, co, obs : mt = mtime' /\ co = content' /\ obs = ninja.product.obs
        OBVIOUS
      <3>3. Logged(stamp.cmds) /\ start \in Nat /\ start <= clock
        BY <1>1 DEF LinesInv, TypeOK
      <3>4. Moved(mtime, content, clock, mt, co, start)
        BY <3>2, <3>3, StepMoved
      <3>5. /\ SearchRight(stamp.cmds, mtime, start, chk.next)
            /\ ninja # None => RereadRight(obs, stamp.cmds, mtime, content, start, chk.next)
        BY <1>1, <1>3, <2>4, <3>2 DEF CheckedRight
      <3>6. SearchRight(stamp.cmds, mt, start, chk.next)
        BY <3>3, <3>4, <3>5, SearchMoves
      <3>7. ASSUME ninja # None PROVE RereadRight(obs, stamp.cmds, mt, co, start, chk.next)
        <4>1. ReadsRight(obs, mtime, content, stamp.time)
          BY <1>1, <3>2, <3>7 DEF FilesRight, ProductRight
        <4> QED BY <3>4, <3>5, <3>7, <4>1, RereadMoves
      <3> QED BY <1>1, <2>4, <3>1, <3>2, <3>6, <3>7
    <2> QED BY <1>2, <2>1, <2>2, <2>3, <2>4
  <1> QED BY <1>1, <1>2, <1>3

\* CheckStep1 finds no difference.
LEMMA Step1Clean ==
    ASSUME ReadOnly, LinesInv, stamp # None, ~Step1Dirty(stamp)
    PROVE  Clean(stamp, mtime, content, penv, args, DOMAIN stamp.globs, 1)
  <1>1. stamp.cmds \in Seq(LinesOf(stamp.cmds)) /\ IgnoreDirty = {}
    BY DEF LinesInv, Logged, ReadOnly
  <1>2. \A j \in DOMAIN stamp.cmds : ~(j < 1)
    BY <1>1
  <1> QED BY <1>1, <1>2 DEF Clean, Step1Dirty, FileDirty, UndefDirty, EnvDirty

\* CheckGlobResult finds no difference.
LEMMA GlobClean ==
    ASSUME ReadOnly, NEW s, NEW mt, mt = mtime, NEW co, NEW e, NEW a, NEW gs, NEW n, Clean(s, mt, co, e, a, gs, n),
           NEW g, ~GlobDirty(s, g)
    PROVE  Clean(s, mt, co, e, a, gs \ {g}, n)
  <1>1. GlobFiles(mt, g) = s.globs[g]
    BY DEF GlobDirty, ReadOnly
  <1> QED BY <1>1 DEF Clean

\* The commands, one more.
LEMMA CommandClean ==
    ASSUME NEW s, NEW mt, NEW co, NEW e, NEW a, NEW gs, NEW n, Clean(s, mt, co, e, a, gs, n),
           CleanCommand(s.time, s.cmds[n], mt, co),
           \A j \in DOMAIN s.cmds : j < n + 1 => j < n \/ j = n
    PROVE  Clean(s, mt, co, e, a, gs, n + 1)
  BY DEF Clean

\* What an undisturbed check has found clean.
LEMMA CleanSoFarStep ==
    ASSUME ReadOnly, TypeOK, LinesInv, FilesRight, CheckedRight, CleanSoFar, [Next]_vars
    PROVE  CleanSoFar'
  <1> SUFFICES ASSUME pc' = "step2", lastEdit' < start', ~chk'.needs
               PROVE  stamp' # None /\ Clean(stamp', mtime', content', penv', args', chk'.globs, chk'.next)
    BY DEF CleanSoFar
  <1>1. ~Start /\ ~SetEnv
    BY DEF Start, SetEnv
  <1>2. lastEdit < start /\ ~EditFile /\ ~RemoveFile /\ ~RemoveOutput
    BY <1>1, NoEdit
  <1>3. mtime' = mtime /\ content' = content /\ penv' = penv /\ args' = args
    BY <1>1, <1>2, OnlyEdits, RunSame
  <1>4. stamp' = stamp
    BY <1>2, StampFrom DEF UnlinkStamp, Goto, RenameStamp, Exit
  <1>5. CASE CheckStep1
    <2>1. PICK d : /\ d = (IsMissingOutputs \/ stamp = None \/ (stamp # None /\ Step1Dirty(stamp)))
                   /\ chk' = [needs |-> d, stamp |-> stamp, next |-> 1,
                              globs |-> IF stamp = None THEN {} ELSE DOMAIN stamp.globs]
      BY <1>5 DEF CheckStep1, Regenerate, Exit
    <2>2. ~d
      BY <2>1
    <2>3. stamp # None /\ ~Step1Dirty(stamp)
      BY <2>1, <2>2
    <2>4. chk'.globs = DOMAIN stamp.globs /\ chk'.next = 1
      BY <2>1, <2>3
    <2> QED BY <1>3, <1>4, <2>3, <2>4, Step1Clean
  <1>6. CASE CheckGlob
    <2>1. PICK g : chk' = [chk EXCEPT !.needs = @ \/ GlobDirty(chk.stamp, g),
                                      !.globs = IF GlobDirty(chk.stamp, g) THEN {} ELSE @ \ {g}]
      BY <1>6, Zenon DEF CheckGlob
    <2>2. pc = "step2" /\ ChkFields \subseteq DOMAIN chk
      BY <1>6 DEF CheckGlob, LinesInv
    <2>3. ~chk.needs /\ ~GlobDirty(chk.stamp, g) /\ chk'.globs = chk.globs \ {g} /\ chk'.next = chk.next
      BY <2>1, <2>2 DEF ChkFields
    <2>4. stamp # None /\ Clean(stamp, mtime, content, penv, args, chk.globs, chk.next)
      BY <1>2, <2>2, <2>3 DEF CleanSoFar
    <2>5. ~GlobDirty(stamp, g)
      BY <2>2, <2>3, <2>4 DEF CheckedRight
    <2>6. Clean(stamp, mtime, content, penv, args, chk.globs \ {g}, chk.next)
      BY <2>4, <2>5, GlobClean
    <2> QED BY <1>3, <1>4, <2>3, <2>4, <2>6
  <1>7. CASE CheckCommand
    <2>1. pc = "step2" /\ ChkFields \subseteq DOMAIN chk /\ chk.next \in Nat
      BY <1>7 DEF CheckCommand, LinesInv
    <2>2. PICK d : chk' = [chk EXCEPT !.needs = @ \/ d, !.next = @ + 1]
      BY <1>7 DEF CheckCommand
    <2>3. ~chk.needs /\ chk'.globs = chk.globs /\ chk'.next = chk.next + 1
      BY <2>1, <2>2 DEF ChkFields
    <2>4. stamp # None /\ Clean(stamp, mtime, content, penv, args, chk.globs, chk.next)
      BY <1>2, <2>1, <2>3 DEF CleanSoFar
    <2>5. CleanCommand(stamp.time, stamp.cmds[chk.next], mtime, content)
      BY <1>7, <2>4, CommandChecked
    <2>6. \A j \in DOMAIN stamp.cmds : j < chk.next + 1 => j < chk.next \/ j = chk.next
      <3>1. stamp.cmds \in Seq(LinesOf(stamp.cmds))
        BY <2>4 DEF LinesInv, Logged
      <3>2. DOMAIN stamp.cmds = 1 .. Len(stamp.cmds) /\ Len(stamp.cmds) \in Nat
        BY <3>1
      <3> QED BY <2>1, <3>2
    <2>7. Clean(stamp, mtime, content, penv, args, chk.globs, chk.next + 1)
      BY <2>4, <2>5, <2>6, CommandClean
    <2> QED BY <1>3, <1>4, <2>3, <2>4, <2>7
  <1>8. CASE pc = "step2" /\ chk' = chk
    BY <1>2, <1>3, <1>4, <1>8 DEF CleanSoFar
  <1> QED BY <1>5, <1>6, <1>7, <1>8, Step2From

\* A directory that does not exist has no entries.
LEMMA ListingNone ==
    ASSUME NEW mt, NEW co, TreeRight(mt, co), NEW d \in Dirs, ~Exists(mt, d)
    PROVE  Listing(mt, d) = {}
  <1>1. d # Top
    BY ConstantsAssumption
  <1> QED BY <1>1 DEF TreeRight, Listing

\* An observation whose command is clean.
LEMMA CleanObs ==
    ASSUME ReadOnly, NEW mt \in [Path -> Nat \cup {NotExist}], NEW co, TreeRight(mt, co), NEW s \in Nat,
           NEW c, c.line \in Lines, CleanCommand(s, c, mt, co), NEW o, Records(c, o),
           o.op = "read" => o.arg \in ArgsOf({"read"}) /\ (mt[o.arg] > s \/ co[o.arg] = o.res),
           c.op = "FIND" => Found(c, mt, s) \/ (c.res = {} /\ c.missing = {c.line.arg})
    PROVE  /\ o.op \in {"cat", "read"} => o.res = co[o.arg]
           /\ o.op = "find" => o.res = FindNow(mt, o.arg)
  <1>0. c.line.op = o.op /\ c.line.arg = o.arg
    BY DEF Records
  <1>1. CASE o.op = "read"
    <2>1. o.arg \in Path
      <3>1. ArgsOf({"read"}) \subseteq ArgsOf(Includes \cup {"cat", "read"})
        BY DEF ArgsOf
      <3> QED BY <1>1, <3>1 DEF ReadOnly
    <2>2. co[o.arg] = o.res
      BY <1>1, <2>1, CleanRead
    <2> QED BY <1>1, <2>2
  <1>2. CASE o.op = "cat"
    <2>1. c.op = "SHELL" /\ c.res = o.res
      BY <1>2 DEF Records
    <2>2. ShellResult(c.line, mt, co) = c.res
      BY <2>1 DEF CleanCommand
    <2>3. ShellResult(c.line, mt, co) = co[o.arg]
      BY <1>0, <1>2 DEF ShellResult
    <2> QED BY <1>2, <2>1, <2>2, <2>3
  <1>3. CASE o.op = "find"
    <2>1. c.op \in {"SHELL", "FIND"} /\ c.res = o.res
      BY <1>3 DEF Records
    <2>2. o.arg \in Dirs
      <3>1. o.arg \in ArgsOf({"find"})
        BY <1>0, <1>3, ReadOnlyLines
      <3> QED BY <3>1 DEF ReadOnly
    <2>3. FindNow(mt, o.arg) = Listing(mt, o.arg)
      BY <2>2, ListingNone DEF FindNow
    <2>4. ShellResult(c.line, mt, co) = Listing(mt, o.arg)
      BY <1>0, <1>3 DEF ShellResult
    <2>5. CASE ShellResult(c.line, mt, co) = c.res
      BY <1>3, <2>1, <2>3, <2>4, <2>5
    <2>6. CASE /\ c.op = "FIND" /\ \A d \in c.missing : ~Exists(mt, d)
               /\ \A d \in c.dirs : Exists(mt, d) /\ ~(s < mt[d])
      <3>1. CASE Found(c, mt, s)
        <4>1. c.dirs = {o.arg} /\ Listed(mt, o.arg, s, c.res)
          BY <1>0, <3>1 DEF Found
        <4>2. Listing(mt, o.arg) = c.res
          BY <2>6, <4>1 DEF Listed, Exists
        <4> QED BY <1>3, <2>1, <2>3, <4>2
      <3>2. CASE c.res = {} /\ c.missing = {c.line.arg}
        BY <1>0, <1>3, <2>1, <2>6, <3>2 DEF FindNow
      <3> QED BY <2>6, <3>1, <3>2
    <2> QED BY <2>1, <2>5, <2>6 DEF CleanCommand
  <1> QED BY <1>1, <1>2, <1>3

\* Makefiles that are not newer than the stamp.
LEMMA CleanFiles ==
    ASSUME ReadOnly, NEW mt \in [Path -> Nat \cup {NotExist}], NEW co, TreeRight(mt, co), NEW s, NEW mk, NEW globs,
           MkRight(mk, globs, mt), Covers(mt, co, mk, s), \A f \in DOMAIN mk : ~(s < mt[f]), s \in Nat,
           \A g \in DOMAIN globs : globs[g] = GlobFiles(mt, g)
    PROVE  FilesAgree(mk, globs, mt, co)
  <1>1. ASSUME NEW f \in DOMAIN mk PROVE mk[f] = Snapshot(mt, co, f)
    <2>1. f \in Path /\ mk[f] \in [exists : BOOLEAN, data : Seq(Lines)] /\ f \notin IgnoreDirty
      BY DEF MkRight, ReadOnly
    <2>2. mt[f] = NotExist \/ mk[f] = Snapshot(mt, co, f)
      BY <2>1 DEF Covers
    <2>3. CASE mt[f] = NotExist
      <3>1. ~Exists(mt, f) /\ co[f] = << >>
        BY <2>1, <2>3 DEF Exists, TreeRight
      <3>2. ~mk[f].exists
        <4>1. CASE f \in Deletable
          <5>1. f \in DOMAIN globs /\ (f \in globs[f] <=> mk[f].exists)
            BY <4>1 DEF MkRight
          <5>2. f \notin globs[f]
            BY <2>1, <3>1, <5>1 DEF GlobFiles
          <5> QED BY <5>1, <5>2
        <4>2. CASE f \notin Deletable
          BY <3>1, <4>2 DEF MkRight
        <4> QED BY <4>1, <4>2
      <3>3. mk[f].data = << >>
        BY <3>2 DEF MkRight
      <3>4. mk[f].exists = FALSE
        BY <2>1, <3>2
      <3>5. mk[f] = [exists |-> FALSE, data |-> << >>]
        BY <2>1, <3>3, <3>4
      <3>6. Snapshot(mt, co, f) = [exists |-> FALSE, data |-> << >>]
        <4>1. Exists(mt, f) = FALSE
          BY <2>3 DEF Exists
        <4> QED BY <3>1, <4>1, Zenon DEF Snapshot
      <3> QED BY <3>5, <3>6
    <2> QED BY <2>2, <2>3
  <1> QED BY <1>1 DEF FilesAgree

\* A stamp that was found clean agrees with the tree.
LEMMA CleanAgrees ==
    ASSUME ReadOnly, NEW mt \in [Path -> Nat \cup {NotExist}], NEW co, TreeRight(mt, co), NEW e, NEW a, NEW n,
           NEW s, s.time \in Nat, Clean(s, mt, co, e, a, {}, n), Logged(s.cmds), \A j \in DOMAIN s.cmds : j < n,
           StampRight(s, mt), Covers(mt, co, s.mk, s.time), NEW p, ProductRight(p, s, mt, co)
    PROVE  StampAgrees(s, p.obs, mt, co, e)
  <1>1. /\ \A f \in DOMAIN s.mk : ~(s.time < mt[f])
        /\ \A g \in DOMAIN s.globs : s.globs[g] = GlobFiles(mt, g)
        /\ \A v \in DOMAIN s.envs : GetEnv(e, v) = s.envs[v]
        /\ \A v \in s.undef : e[v] = Unset
        /\ \A j \in DOMAIN s.cmds : CleanCommand(s.time, s.cmds[j], mt, co)
    BY DEF Clean
  <1>2. FilesAgree(s.mk, s.globs, mt, co)
    BY <1>1, CleanFiles DEF StampRight
  <1>3. ReadsRight(p.obs, mt, co, s.time) /\ Linked(p.obs, s.cmds)
    BY DEF ProductRight
  <1>4. ASSUME NEW i \in DOMAIN p.obs
        PROVE  /\ p.obs[i].op \in {"cat", "read"} => p.obs[i].res = co[p.obs[i].arg]
               /\ p.obs[i].op = "find" => p.obs[i].res = FindNow(mt, p.obs[i].arg)
    <2>1. CASE p.obs[i].op \in Recorded
      <3>1. PICK j \in DOMAIN s.cmds : Records(s.cmds[j], p.obs[i])
        BY <1>3, <2>1 DEF Linked
      <3>2. PICK c, o, t : c = s.cmds[j] /\ o = p.obs[i] /\ t = s.time
        OBVIOUS
      <3>3. Records(c, o) /\ CleanCommand(t, c, mt, co) /\ t \in Nat
        BY <1>1, <3>1, <3>2
      <3>4. c.line \in Lines
        BY <3>2 DEF Logged
      <3>5. o.op = "read" => o.arg \in ArgsOf({"read"}) /\ (mt[o.arg] > t \/ co[o.arg] = o.res)
        BY <1>3, <3>2 DEF ReadsRight
      <3>6. c.op = "FIND" => Found(c, mt, t) \/ (c.res = {} /\ c.missing = {c.line.arg})
        <4>1. SearchRight(s.cmds, mt, t, Len(s.cmds) + 1)
          BY <3>2 DEF StampRight
        <4>2. s.cmds \in Seq(LinesOf(s.cmds))
          BY DEF Logged
        <4>3. j < Len(s.cmds) + 1
          BY <4>2
        <4> QED BY <3>2, <4>1, <4>3 DEF SearchRight
      <3>7. /\ o.op \in {"cat", "read"} => o.res = co[o.arg]
            /\ o.op = "find" => o.res = FindNow(mt, o.arg)
        BY <3>3, <3>4, <3>5, <3>6, CleanObs
      <3> QED BY <3>2, <3>7
    <2>2. CASE p.obs[i].op \notin Recorded
      BY <2>2 DEF Recorded
    <2> QED BY <2>1, <2>2
  <1>5. ObsAgree(p.obs, mt, co)
    BY <1>4 DEF ObsAgree
  <1> QED BY <1>1, <1>2, <1>5 DEF StampAgrees

\* Where a clean outcome comes from.
LEMMA CleanFrom ==
    ASSUME [Next]_vars, LinesInv, outcome' = "clean"
    PROVE  \/ /\ CheckFinish /\ pc = "step2" /\ ~chk.needs /\ stamp # None
              /\ stamp' = [stamp EXCEPT !.time = start] /\ ninja' = ninja
           \/ outcome = "clean" /\ pc = "idle" /\ ~Start
  <1>0. outcome = "clean" => pc = "idle"
    BY DEF LinesInv
  <1>1. CASE CheckFinish
    <2>1. CASE chk.needs \/ stamp = None
      BY <1>0, <1>1, <2>1 DEF CheckFinish, Regenerate, Exit
    <2>2. CASE ~(chk.needs \/ stamp = None)
      BY <1>1, <2>2 DEF CheckFinish, Renewed
    <2> QED BY <2>1, <2>2
  <1>2. CASE CheckStep1 \/ CheckGlob \/ CheckCommand \/ CheckCommandError
    BY <1>0, <1>2 DEF CheckStep1, CheckGlob, CheckCommand, CheckCommandError, Regenerate, Exit
  <1>3. CASE Evaluate
    BY <1>0, <1>3 DEF Evaluate, Begin, Eval, EvalError, MakeMakefiles, SetEnv, Exit
  <1>4. CASE Generate
    BY <1>0, <1>4 DEF Generate, UnlinkStamp, OpenNinja, WriteNinja, OpenScript,
                WriteScript, OpenTmp, WriteTmp, RenameStamp, Goto, Exit
  <1>5. CASE EditFile \/ RemoveFile \/ RemoveOutput
    <2>1. UNCHANGED <<pc, outcome>> /\ ~Start
      BY <1>0, <1>5 DEF EditFile, RemoveFile, RemoveOutput, AnEdit, Start
    <2> QED BY <1>0, <2>1
  <1>6. CASE Kill \/ Start
    BY <1>6 DEF Kill, Start, Exit
  <1>7. CASE UNCHANGED vars
    <2>1. outcome' = outcome /\ pc' = pc
      BY <1>7 DEF vars
    <2>2. ~Start
      BY <2>1 DEF Start
    <2> QED BY <1>0, <2>1, <2>2
  <1> QED BY <1>1, <1>2, <1>3, <1>4, <1>5, <1>6, <1>7 DEF Next, Kati, User, Check

\* Without a process only the user does something.
LEMMA IdleStep ==
    ASSUME [Next]_vars, pc = "idle", ~Start, ~EditFile, ~RemoveFile, ~RemoveOutput
    PROVE  UNCHANGED <<stamp, args, penv, uenv, ninja, mtime, content, outcome>>
  <1>1. ~Check
    BY DEF Check, CheckStep1, CheckGlob, CheckCommand, CheckCommandError, CheckFinish
  <1>2. ~Evaluate
    BY DEF Evaluate, Begin, Eval, EvalError, MakeMakefiles, SetEnv
  <1>3. ~Generate
    BY DEF Generate, UnlinkStamp, OpenNinja, WriteNinja, OpenScript,
           WriteScript, OpenTmp, WriteTmp, RenameStamp, Goto
  <1>4. UNCHANGED vars
    BY <1>1, <1>2, <1>3 DEF Next, Kati, User, Kill
  <1> QED BY <1>4 DEF vars, world, run, disk

\* A clean check that no edit disturbed.
LEMMA FinishRight ==
    ASSUME ReadOnly, TypeOK, LinesInv, StampCovers, SoundInv, CheckFinish, pc = "step2", ~chk.needs, stamp # None,
           lastEdit < start, NEW r, r = [stamp EXCEPT !.time = start]
    PROVE  /\ r.args = args /\ penv = uenv
           /\ ninja # None => StampAgrees(r, ninja.product.obs, mtime, content, penv)
  <1>1. /\ TreeRight(mtime, content) /\ FilesRight /\ CheckedRight
        /\ Clean(stamp, mtime, content, penv, args, chk.globs, chk.next) /\ penv = uenv
    BY DEF SoundInv, CleanSoFar, EvaluatorRight, Checking
  <1>2. chk.globs = {} /\ chk.next > Len(stamp.cmds)
    BY <1>1 DEF CheckFinish, CheckedRight, LoadedCommands
  <1>3. Clean(stamp, mtime, content, penv, args, {}, chk.next)
    BY <1>1, <1>2
  <1>4. StampRight(stamp, mtime) /\ stamp.time \in Nat /\ Logged(stamp.cmds) /\ Covers(mtime, content, stamp.mk, stamp.time)
    BY <1>1 DEF FilesRight, LinesInv, StampCovers
  <1>5. \A j \in DOMAIN stamp.cmds : j < chk.next
    <2>1. stamp.cmds \in Seq(LinesOf(stamp.cmds)) /\ chk.next \in Nat
      BY <1>4 DEF Logged, LinesInv
    <2>2. DOMAIN stamp.cmds = 1 .. Len(stamp.cmds) /\ Len(stamp.cmds) \in Nat
      BY <2>1
    <2> QED BY <1>2, <2>1, <2>2
  <1>6. /\ r.mk = stamp.mk /\ r.undef = stamp.undef /\ r.envs = stamp.envs
        /\ r.globs = stamp.globs /\ r.args = stamp.args
    BY <1>4, RetimedIs DEF StampRight
  <1>7. stamp.args = args
    BY <1>3 DEF Clean
  <1>8. ASSUME ninja # None PROVE StampAgrees(r, ninja.product.obs, mtime, content, penv)
    <2>1. PICK p : p = ninja.product
      OBVIOUS
    <2>2. ProductRight(p, stamp, mtime, content)
      BY <1>1, <1>8, <2>1 DEF FilesRight
    <2>3. mtime \in [Path -> Nat \cup {NotExist}]
      BY DEF TypeOK
    <2>4. StampAgrees(stamp, p.obs, mtime, content, penv)
      BY <1>1, <1>3, <1>4, <1>5, <2>2, <2>3, CleanAgrees
    <2>5. StampAgrees(r, p.obs, mtime, content, penv)
      BY <1>6, <2>4 DEF StampAgrees
    <2> QED BY <2>1, <2>5
  <1> QED BY <1>1, <1>6, <1>7, <1>8

\* The outcome's part of the invariant.
LEMMA CleanRightStep ==
    ASSUME ReadOnly, TypeOK, LinesInv, StampCovers, SoundInv, [Next]_vars
    PROVE  CleanRight'
  <1> SUFFICES ASSUME outcome' = "clean", lastEdit' < start'
               PROVE  /\ stamp' # None /\ stamp'.args = args' /\ penv' = uenv'
                      /\ ninja' # None => StampAgrees(stamp', ninja'.product.obs, mtime', content', penv')
    BY DEF CleanRight
  <1>1. ~Start
    BY DEF Start
  <1>2. lastEdit < start /\ ~EditFile /\ ~RemoveFile /\ ~RemoveOutput
    BY <1>1, NoEdit
  <1>3. CASE /\ CheckFinish /\ pc = "step2" /\ ~chk.needs /\ stamp # None
             /\ stamp' = [stamp EXCEPT !.time = start] /\ ninja' = ninja
    <2>1. mtime' = mtime /\ content' = content /\ penv' = penv /\ uenv' = uenv /\ args' = args
      BY <1>3 DEF CheckFinish, world, run
    <2>2. PICK r : r = stamp'
      OBVIOUS
    <2>3. /\ r.args = args /\ penv = uenv
          /\ ninja # None => StampAgrees(r, ninja.product.obs, mtime, content, penv)
      BY <1>2, <1>3, <2>2, FinishRight
    <2>4. r # None
      <3>1. StampRight(stamp, mtime)
        BY <1>3 DEF SoundInv, FilesRight
      <3>2. StampNames \subseteq DOMAIN r
        BY <1>3, <2>2, <3>1, RetimedIs DEF StampRight
      <3> QED BY <3>2 DEF StampNames, None
    <2> QED BY <1>3, <2>1, <2>2, <2>3, <2>4
  <1>4. CASE outcome = "clean" /\ pc = "idle"
    <2>1. UNCHANGED <<stamp, args, penv, uenv, ninja, mtime, content, outcome>>
      BY <1>1, <1>2, <1>4, IdleStep
    <2> QED BY <1>2, <1>4, <2>1 DEF SoundInv, CleanRight
  <1> QED BY <1>3, <1>4, CleanFrom

\* Every step keeps the invariant.
LEMMA SoundStep ==
    ASSUME ReadOnly, TypeOK, TypeOK', LinesInv, StampCovers, SoundInv, [Next]_vars
    PROVE  SoundInv'
  <1>1. /\ TreeRight(mtime, content) /\ EvaluatorRight /\ BeginRight /\ ReplayRight
        /\ FilesRight /\ StampReproduces /\ CheckedRight /\ CleanSoFar
    BY DEF SoundInv
  <1>2. TreeRight(mtime', content')
    BY <1>1, WorldMoves
  <1>3. EvaluatorRight' /\ BeginRight' /\ ReplayRight'
    BY <1>1, EvaluatorStep
  <1>4. FilesRight' /\ StampReproduces'
    BY <1>1, FilesStep, ReproduceStep
  <1>5. CheckedRight' /\ CleanSoFar'
    BY <1>1, CheckedStep, CleanSoFarStep
  <1>6. CleanRight'
    BY CleanRightStep
  <1> QED BY <1>2, <1>3, <1>4, <1>5, <1>6 DEF SoundInv

\* And it holds at first.
LEMMA SoundInit ==
    ASSUME ReadOnly, Init
    PROVE  LinesInv /\ SoundInv
  <1>1. LinesInv
    BY ReadOnlyNoAppend, LinesInit
  <1>2. TreeRight(mtime, content)
    <2>1. ASSUME NEW p \in Path PROVE Exists(mtime, p) <=> p \in DOMAIN InitFiles
      <3>1. mtime[p] = IF p \in DOMAIN InitFiles THEN 0 ELSE NotExist
        BY DEF Init
      <3> QED BY <3>1 DEF Exists, NotExist
    <2>2. \A p \in Path : p \notin DOMAIN InitFiles => content[p] = << >>
      BY DEF Init
    <2>3. \A p \in DOMAIN InitFiles : Parent[p] \in DOMAIN InitFiles \cup {Top}
      BY DEF ReadOnly
    <2>4. DOMAIN InitFiles \subseteq Path
      BY ConstantsAssumption
    <2> QED BY <2>1, <2>2, <2>3, <2>4 DEF TreeRight
  <1>3. pc = "idle" /\ stamp = None /\ outcome = "none"
    BY DEF Init
  <1>4. EvaluatorRight /\ BeginRight /\ ReplayRight
    BY <1>3 DEF EvaluatorRight, BeginRight, ReplayRight, Checking, Evaluated
  <1>5. FilesRight /\ StampReproduces /\ CheckedRight /\ CleanSoFar /\ CleanRight
    BY <1>3 DEF FilesRight, StampReproduces, CheckedRight, CleanSoFar, CleanRight, Unlinked, AfterNinja
  <1> QED BY <1>1, <1>2, <1>4, <1>5 DEF SoundInv

-----------------------------------------------------------------------------
(* The evaluation that a clean check saves.                                *)

\* Induction: a set with 0 and the successors of its elements has all numbers.
LEMMA NatInduct ==
    ASSUME NEW T, 0 \in T, \A n \in Nat : n \in T => n + 1 \in T
    PROVE  Nat \subseteq T
  <1>1. SUFFICES ASSUME Nat \ T # {} PROVE FALSE
    BY <1>1
  <1>2. IsWellFoundedOn({p \in Nat \X Nat : p[1] < p[2]}, Nat)
    BY NatLessThanWellFounded DEF OpToRel
  <1>3. PICK R : R = {p \in Nat \X Nat : p[1] < p[2]}
    OBVIOUS
  <1>4. PICK U : U = Nat \ T
    OBVIOUS
  <1>5. \E x \in U : \A y \in U : ~(<<y, x>> \in R)
    BY <1>1, <1>2, <1>3, <1>4, WFMin
  <1>6. PICK x \in U : \A y \in U : ~(<<y, x>> \in R)
    BY <1>5
  <1>7. ASSUME NEW y \in U PROVE y >= x
    <2>1. x \in Nat /\ y \in Nat
      BY <1>4
    <2>2. <<y, x>> \notin R
      BY <1>6
    <2>3. y < x => <<y, x>> \in R
      BY <1>3, <2>1
    <2> QED BY <2>1, <2>2, <2>3
  <1>8. x # 0 /\ x - 1 \in Nat
    BY <1>4
  <1>9. x - 1 \in T
    BY <1>4, <1>7, <1>8
  <1>10. x - 1 + 1 \in T /\ x - 1 + 1 = x
    BY <1>4, <1>8, <1>9
  <1> QED BY <1>4, <1>10

\* n steps of an undisturbed evaluation.
EvalSteps(g, n, s0) == g = [k \in 0 .. n |-> IF k = 0 THEN s0 ELSE EvalNext(g[k - 1])]

\* The function that FreshEvaluator defines exists.
LEMMA EvalStepsExist == ASSUME NEW s0, NEW n \in Nat PROVE \E g : EvalSteps(g, n, s0)
  <1>1. PICK T : T = {m \in Nat : \E g : EvalSteps(g, m, s0)}
    OBVIOUS
  <1>2. 0 \in T
    <2>1. PICK g : g = [k \in 0 .. 0 |-> s0]
      OBVIOUS
    <2>2. EvalSteps(g, 0, s0)
      BY <2>1 DEF EvalSteps
    <2> QED BY <1>1, <2>2
  <1>3. ASSUME NEW m \in Nat, m \in T PROVE m + 1 \in T
    <2>1. PICK g : EvalSteps(g, m, s0)
      BY <1>1, <1>3
    <2>2. PICK h : h = [k \in 0 .. m + 1 |-> IF k = m + 1 THEN EvalNext(g[m]) ELSE g[k]]
      OBVIOUS
    <2>3. ASSUME NEW k \in 0 .. m + 1 PROVE h[k] = IF k = 0 THEN s0 ELSE EvalNext(h[k - 1])
      <3>1. CASE k = m + 1
        <4>1. k # 0 /\ k - 1 = m /\ h[m] = g[m] /\ h[k] = EvalNext(g[m])
          BY <2>2, <3>1
        <4> QED BY <4>1
      <3>2. CASE k # m + 1
        <4>1. k \in 0 .. m /\ h[k] = g[k] /\ (k # 0 => h[k - 1] = g[k - 1])
          BY <2>2, <3>2
        <4>2. g[k] = IF k = 0 THEN s0 ELSE EvalNext(g[k - 1])
          BY <2>1, <4>1 DEF EvalSteps
        <4> QED BY <4>1, <4>2
      <3> QED BY <3>1, <3>2
    <2>4. EvalSteps(h, m + 1, s0)
      <3>1. h = [k \in 0 .. m + 1 |-> h[k]]
        BY <2>2
      <3> QED BY <2>3, <3>1 DEF EvalSteps
    <2> QED BY <1>1, <2>4
  <1>4. Nat \subseteq T
    BY <1>2, <1>3, NatInduct
  <1> QED BY <1>1, <1>4

\* FreshEvaluator takes MaxLines of them.
LEMMA FreshIs ==
    ASSUME NEW s0, s0 = [ev |-> BeginEval(NewEvaluator(penv, Snapshot(mtime, content, KatiBinary)), mtime, content),
                         mtime |-> mtime, content |-> content, now |-> clock + 1]
    PROVE  \E g : EvalSteps(g, MaxLines, s0) /\ FreshEvaluator = g[MaxLines].ev
  <1>1. PICK g : g = CHOOSE f : f = [n \in 0 .. MaxLines |-> IF n = 0 THEN s0 ELSE EvalNext(f[n - 1])]
    OBVIOUS
  <1>2. EvalSteps(g, MaxLines, s0)
    <2>1. \E f : f = [n \in 0 .. MaxLines |-> IF n = 0 THEN s0 ELSE EvalNext(f[n - 1])]
      <3>1. MaxLines \in Nat
        BY ConstantsAssumption
      <3>2. PICK f : EvalSteps(f, MaxLines, s0)
        BY <3>1, EvalStepsExist
      <3> QED BY <3>2 DEF EvalSteps
    <2> QED BY <1>1, <2>1 DEF EvalSteps
  <1>3. FreshEvaluator = g[MaxLines].ev
    BY <1>1 DEF FreshEvaluator
  <1> QED BY <1>2, <1>3

\* After the last line nothing happens.
LEMMA EndStays ==
    ASSUME NEW g, NEW n \in Nat, NEW s0, EvalSteps(g, n, s0), NEW k \in 0 .. n, g[k].ev.prog = << >>
    PROVE  g[n] = g[k]
  <1>1. PICK T : T = {m \in Nat : k + m <= n => g[k + m] = g[k]}
    OBVIOUS
  <1>2. 0 \in T
    BY <1>1
  <1>3. ASSUME NEW m \in Nat, m \in T PROVE m + 1 \in T
    <2>1. ASSUME k + m + 1 <= n PROVE g[k + m + 1] = g[k]
      <3>1. k + m <= n /\ k + m + 1 \in 0 .. n /\ k + m + 1 # 0 /\ k + m + 1 - 1 = k + m
        BY <2>1
      <3>2. g[k + m] = g[k]
        BY <1>1, <1>3, <3>1
      <3>3. g[k + m + 1] = EvalNext(g[k + m])
        BY <3>1 DEF EvalSteps
      <3>4. EvalNext(g[k]) = g[k]
        BY DEF EvalNext
      <3> QED BY <3>2, <3>3, <3>4
    <2> QED BY <1>1, <2>1
  <1>4. Nat \subseteq T
    BY <1>2, <1>3, NatInduct
  <1>5. n - k \in Nat /\ k + (n - k) = n
    OBVIOUS
  <1> QED BY <1>1, <1>4, <1>5

\* The states of an evaluation that comes to its end.
LEMMA StepsClosed ==
    ASSUME NEW g, NEW n \in Nat, NEW s0, EvalSteps(g, n, s0), g[n].ev.prog = << >>,
           NEW T, T = {g[k] : k \in 0 .. n}
    PROVE  s0 \in T /\ \A s \in T : EvalNext(s) \in T
  <1>1. s0 \in T
    <2>1. 0 \in 0 .. n /\ g[0] = s0
      BY DEF EvalSteps
    <2> QED BY <2>1
  <1>2. ASSUME NEW k \in 0 .. n PROVE EvalNext(g[k]) \in T
    <2>1. CASE k = n
      <3>1. EvalNext(g[k]) = g[k]
        BY <2>1 DEF EvalNext
      <3> QED BY <3>1
    <2>2. CASE k # n
      <3>1. k + 1 \in 0 .. n /\ k + 1 # 0 /\ k + 1 - 1 = k
        BY <2>2
      <3>2. g[k + 1] = EvalNext(g[k])
        BY <3>1 DEF EvalSteps
      <3> QED BY <3>1, <3>2
    <2> QED BY <2>1, <2>2
  <1> QED BY <1>1, <1>2

\* Evaluating again would produce the ninja file that is there.
LEMMA CleanIsSound ==
    ASSUME ReadOnly, TypeOK, SoundInv, FreshEvaluator.prog = << >>
    PROVE  RegenSound
  <1> SUFFICES ASSUME outcome = "clean", lastEdit < start, ninja # None
               PROVE  Kept(ninja.product) = Kept(Product(args, FreshEvaluator))
    BY DEF RegenSound
  <1>1. PICK p : p = ninja.product
    OBVIOUS
  <1>2. /\ stamp # None /\ stamp.args = args /\ penv = uenv /\ penv \in Envs
        /\ StampAgrees(stamp, p.obs, mtime, content, penv)
    BY <1>1 DEF SoundInv, CleanRight, TypeOK
  <1>3. Reproduces(stamp, p.obs)
    BY <1>1, <1>2 DEF SoundInv, StampReproduces
  <1>4. StampRight(stamp, mtime) /\ ProductRight(p, stamp, mtime, content)
    BY <1>1, <1>2 DEF SoundInv, FilesRight
  <1>5. PICK s0 : s0 = [ev |-> BeginEval(NewEvaluator(penv, Snapshot(mtime, content, KatiBinary)), mtime, content),
                        mtime |-> mtime, content |-> content, now |-> clock + 1]
    OBVIOUS
  <1>6. PICK g : EvalSteps(g, MaxLines, s0) /\ FreshEvaluator = g[MaxLines].ev
    BY <1>5, FreshIs
  <1>7. PICK T : T = {g[k] : k \in 0 .. MaxLines}
    OBVIOUS
  <1>8. s0 \in T /\ \A s \in T : EvalNext(s) \in T
    <2>1. g[MaxLines].ev.prog = << >> /\ MaxLines \in Nat
      BY <1>6, ConstantsAssumption
    <2> QED BY <1>6, <1>7, <2>1, StepsClosed
  <1>9. Closed(T, mtime, content, penv)
    BY <1>5, <1>8 DEF Closed
  <1>10. PICK s \in T : AtEnd(s, p.obs, mtime, content)
    BY <1>2, <1>3, <1>9 DEF Reproduces
  <1>11. PICK k \in 0 .. MaxLines : s = g[k]
    BY <1>7
  <1>12. g[MaxLines] = s
    BY <1>6, <1>10, <1>11, EndStays, ConstantsAssumption DEF AtEnd
  <1>13. /\ FreshEvaluator.obs = p.obs
         /\ FreshEvaluator.mk[KatiBinary] = Snapshot(mtime, content, KatiBinary)
    BY <1>6, <1>10, <1>12 DEF AtEnd
  <1>14. stamp.mk[KatiBinary] = Snapshot(mtime, content, KatiBinary)
    BY <1>2, <1>4 DEF StampAgrees, FilesAgree, StampRight, MkRight
  <1>15. p = [args |-> args, kati |-> stamp.mk[KatiBinary].data, obs |-> p.obs]
    BY <1>2, <1>4 DEF ProductRight
  <1>16. Product(args, FreshEvaluator) = p
    BY <1>13, <1>14, <1>15 DEF Product
  <1> QED BY <1>1, <1>16

\* "No need to regenerate ninja file" is right, for every tree, every edit and
\* every kill: if the Makefiles write no file (ReadOnly), an evaluation after a
\* clean check that no edit disturbed, and that ends within MaxLines lines,
\* produces the ninja file that is on the disk.
THEOREM CleanChecksAreSound ==
    ReadOnly /\ Spec => [](FreshEvaluator.prog = << >> => RegenSound)
  <1> SUFFICES ASSUME ReadOnly
               PROVE  Spec => [](FreshEvaluator.prog = << >> => RegenSound)
    OBVIOUS
  <1>1. Init => LinesInv /\ SoundInv
    BY SoundInit
  <1>2. TypeOK /\ LinesInv /\ [Next]_vars => LinesInv'
    BY ReadOnlyNoAppend, LinesStep
  <1>3. TypeOK /\ TypeOK' /\ LinesInv /\ StampCovers /\ SoundInv /\ [Next]_vars => SoundInv'
    BY SoundStep
  <1>4. TypeOK /\ SoundInv => (FreshEvaluator.prog = << >> => RegenSound)
    BY CleanIsSound
  <1> QED BY <1>1, <1>2, <1>3, <1>4, TypeCorrect, Sound, PTL DEF Spec

=============================================================================
