------------------------------- MODULE Regen -------------------------------
(***************************************************************************)
(* ckati's "ckati --ninja --regen": the life cycle of build.ninja and of   *)
(* .kati_stamp.  A run of kati takes its start time, checks the stamp of   *)
(* the previous run (regen.cc), and either keeps the ninja file and moves  *)
(* the stamp's time forward, or evaluates the Makefiles again (main.cc,    *)
(* func.cc, file_cache.cc, find.cc) and writes build.ninja, the shell      *)
(* scripts and a new stamp (ninja.cc).  While it does so the user edits    *)
(* the tree, and kati may be killed between any two of its steps.          *)
(*                                                                         *)
(* A Makefile is a sequence of lines [op, arg, text], one for each         *)
(* construct whose input the stamp must remember; build.ninja is abstracted*)
(* to what the evaluation observed, the sequence obs.                      *)
(***************************************************************************)
EXTENDS Integers, Sequences

CONSTANTS
    Path,         \* files and directories of the source tree
    Dirs,         \* the paths that are directories
    Parent,       \* Parent[p]: the directory p lives in, or Top
    Top,          \* the directory kati runs in, never a searched directory
    Matches,      \* Matches[g]: the paths that wildcard g matches
    Makefile,     \* g_flags.makefile
    KatiBinary,   \* GetExecutablePath()
    IgnoreDirty,  \* paths and wildcards that ShouldIgnoreDirty accepts
    Var, Val,     \* make variables that the environment may define, values
    PathVar,      \* the variable PATH
    Unset,        \* getenv returned NULL
    InitFiles,    \* [p -> content] of the paths that exist at first
    Edits,        \* Edits[p]: the contents an edit may give p
    Deletable,    \* the paths an edit may remove
    Frozen,       \* the paths that are not edited while kati runs
    Envs,         \* environments kati may be started with
    Args,         \* command lines kati may be started with
    MaxEdits, MaxRuns, MaxLines  \* bounds

NotExist == -2    \* GetTimestamp of a missing path
Modes == {"regen", "dump", "gen"}
None == [none |-> TRUE]

\* What the provers and the actions need of the constants.
ASSUME ConstantsAssumption ==
    /\ Dirs \subseteq Path
    /\ Makefile \in Path /\ KatiBinary \in Path
    /\ Deletable \subseteq Path /\ Makefile \notin Deletable
    /\ Top \notin Path
    /\ Parent \in [Path -> Dirs \cup {Top}]
    /\ DOMAIN InitFiles \subseteq Path
    /\ PathVar \in Var
    /\ Envs \subseteq [Var -> Val \cup {Unset}]
    /\ MaxEdits \in Nat /\ MaxRuns \in Nat /\ MaxLines \in Nat

VARIABLES
    clock,     \* the time of the last edit, start or write
    mtime,     \* modification time of every path, or NotExist
    content,   \* lines of every path, << >> if missing
    pc,        \* where the kati process is, "idle" when there is none
    mode,      \* "regen" (--regen), "dump" (--dump_kati_stamp), "gen"
    start,     \* start_time of the last run
    uenv,      \* the environment it was started with
    penv,      \* environ of the kati process
    args,      \* orig_args
    chk,       \* StampChecker
    ev,        \* Evaluator and the caches it fills
    ninja, script, tmp, stamp,  \* build.ninja, ninja.sh, .kati_stamp{.tmp,}
    outcome,   \* how the last run ended
    lastEdit,  \* time of the last edit
    settled,   \* the last run that ended well, if there was no edit since it began
    edits, runs  \* how many there have been

world == <<mtime, content>>
user == <<lastEdit, edits>>
run == <<mode, start, args, uenv, runs>>
disk == <<ninja, script, tmp, stamp>>
vars == <<clock, world, pc, run, penv, chk, ev, disk, outcome, user, settled>>

-----------------------------------------------------------------------------
(* The file system.                                                        *)

Exists(mt, p) == mt[p] # NotExist

\* Modification times after p is written at time t: a new entry also
\* changes its directory.
Touch(mt, p, t) ==
    [q \in Path |-> IF q = p \/ (q = Parent[p] /\ ~Exists(mt, p)) THEN t ELSE mt[q]]

\* Modification times after p is removed at time t.
Unlink(mt, p, t) ==
    [q \in Path |-> CASE q = p -> NotExist
                      [] q = Parent[p] /\ q # p -> t
                      [] OTHER -> mt[q]]

Listing(mt, d) == {p \in Path : Parent[p] = d /\ Exists(mt, p)}

Writable(mt, p) == p \notin Dirs /\ (Parent[p] # Top => Exists(mt, Parent[p]))

\* Glob(pat) without the cache
GlobFiles(mt, g) ==
    {p \in (IF g \in Path THEN {g} ELSE Matches[g]) : Exists(mt, p)}

\* What a reader of p gets.
Snapshot(mt, co, p) == [exists |-> Exists(mt, p), data |-> co[p]]

GetEnv(e, v) == IF e[v] = Unset THEN "" ELSE e[v]

-----------------------------------------------------------------------------
(* The evaluator, as functions on a state st = [ev, mtime, content, now].  *)

Line(op, arg, text) == [op |-> op, arg |-> arg, text |-> text]
Obs(l, res) == [op |-> l.op, arg |-> l.arg, res |-> res]
Command(op, l, res, found, readDirs) ==
    [op |-> op, line |-> l, res |-> res, found |-> found, dirs |-> readDirs]

\* main.cc: every variable of the environment is defined and exported.
NewEvaluator(e, bin) ==
    [prog |-> << >>,
     mk |-> [p \in {KatiBinary} |-> bin],
     req |-> {},
     globs |-> [g \in {} |-> {}],
     cmds |-> << >>,
     val |-> [v \in Var |-> GetEnv(e, v)],
     origin |-> [v \in Var |-> IF e[v] = Unset THEN "undefined" ELSE "environment"],
     exports |-> [v \in {w \in Var : e[w] # Unset} |-> TRUE],
     usedEnv |-> {},
     usedUndef |-> {},
     root |-> None,
     dirs |-> [d \in {} |-> {}],
     obs |-> << >>,
     failed |-> FALSE]

Set(f, k, x) == [i \in DOMAIN f \cup {k} |-> IF i = k THEN x ELSE f[i]]

\* LookupVar: the look-up of an environment variable or of an undefined
\* one is remembered.
Lookup(e, v) ==
    [e EXCEPT !.usedEnv = IF e.origin[v] = "environment" THEN @ \cup {v} ELSE @,
              !.usedUndef = IF e.origin[v] = "undefined" THEN @ \cup {v} ELSE @]

Assign(e, v, x) == [e EXCEPT !.val[v] = x, !.origin[v] = "file"]

Observe(e, l, res) == [e EXCEPT !.obs = Append(@, Obs(l, res))]

\* ShouldStoreCommandResult
Store(e, c) ==
    IF c.line.arg \in IgnoreDirty THEN e ELSE [e EXCEPT !.cmds = Append(@, c)]

\* $(V), V ?= text, V := text, export V, unexport V
EvalVar(l, e) ==
    CASE l.op = "var"      -> Observe(Lookup(e, l.arg), l, e.val[l.arg])
      [] l.op = "default"  -> IF e.origin[l.arg] = "undefined"
                              THEN Assign(Lookup(e, l.arg), l.arg, l.text)
                              ELSE Lookup(e, l.arg)
      [] l.op = "set"      -> Assign(e, l.arg, l.text)
      [] l.op = "export"   -> [e EXCEPT !.exports = Set(@, l.arg, TRUE)]
      [] l.op = "unexport" -> [e EXCEPT !.exports = Set(@, l.arg, FALSE)]

VarOps == {"var", "default", "set", "export", "unexport"}

\* Glob(pat): the cache is filled once per run
Glob(e, mt, g) ==
    IF g \in DOMAIN e.globs THEN e ELSE [e EXCEPT !.globs = Set(@, g, GlobFiles(mt, g))]

\* ReadMakefile(f): one read per run, missing files are cached too
ReadMakefile(e, mt, co, f) ==
    IF f \in DOMAIN e.mk THEN e ELSE [e EXCEPT !.mk = Set(@, f, Snapshot(mt, co, f))]

\* $(wildcard g); include f, -include f of a name without wildcards
EvalGlob(l, e, mt) == LET e1 == Glob(e, mt, l.arg) IN Observe(e1, l, e1.globs[l.arg])

EvalInclude(l, e, mt, co) ==
    LET e1 == ReadMakefile(Glob(e, mt, l.arg), mt, co, l.arg) IN
    [e1 EXCEPT !.prog = e1.mk[l.arg].data \o @,
               !.req = IF l.op = "include" THEN @ \cup {l.arg} ELSE @]

\* A command run by the shell: "cat f", "echo text > f", "find d -type f".
ShellResult(l, mt, co) ==
    CASE l.op = "cat"  -> co[l.arg]
      [] l.op = "echo" -> << >>
      [] l.op = "find" -> Listing(mt, l.arg)

ShellOps == {"cat", "echo", "find"}

\* A $(shell find d) that the find emulator handles.  Directories are read
\* once per run; one that it does not know but that exists is left to find.
\* The emulator lists found_files only for findleaves.py, which is in Find:
\* a find is stored with none.
Handles(l, root, mt) == l.op = "find" /\ (l.arg \in root \/ ~Exists(mt, l.arg))

EvalShell(l, e, mt, co) ==
    LET root == IF l.op # "find" THEN {} ELSE
                IF e.root = None THEN {d \in Dirs : Exists(mt, d)} ELSE e.root.dirs
        e0   == IF l.op = "find" THEN [e EXCEPT !.root = [none |-> FALSE, dirs |-> root]]
                                 ELSE e
        e1   == IF l.arg \in root /\ l.arg \notin DOMAIN e0.dirs
                THEN [e0 EXCEPT !.dirs = Set(@, l.arg, Listing(mt, l.arg))] ELSE e0
        emul == Handles(l, root, mt)
        res  == CASE emul /\ l.arg \in root    -> e1.dirs[l.arg]
                  [] emul /\ l.arg \notin root -> {}
                  [] OTHER                     -> ShellResult(l, mt, co)
    IN Observe(Store(e1, IF emul
                         THEN Command("FIND", l, res, {}, {l.arg} \cap root)
                         ELSE Command("SHELL", l, res, {}, {})), l, res)

\* $(file <f)
FileRead(l, e, mt, co) ==
    Observe(Store(e, Command(IF Exists(mt, l.arg) THEN "READ" ELSE "READ_MISSING",
                             l, << >>, {}, {})), l, co[l.arg])

\* $(file >f,text) and $(file >>f,text).  Both are remembered as WRITE, and
\* a call without a text fails after it opened the file.
FileWrite(l, e, mt) ==
    IF ~Writable(mt, l.arg) \/ l.text = "" THEN [e EXCEPT !.failed = TRUE]
    ELSE Store(e, Command("WRITE", l, << >>, {}, {}))

WriteOps == {"write", "append", "echo"}

\* The lines of l.arg after l wrote to it.
Written(l, co) ==
    LET txt == IF l.text = "" THEN << >> ELSE <<Line("text", l.arg, l.text)>> IN
    IF l.op = "append" THEN co[l.arg] \o txt ELSE txt

Writes(l, mt) == l.op \in WriteOps /\ Writable(mt, l.arg)

\* One line of a Makefile.
EvalLine(l, st) ==
    [ev |->
        CASE l.op \in VarOps                -> EvalVar(l, st.ev)
          [] l.op = "glob"                  -> EvalGlob(l, st.ev, st.mtime)
          [] l.op \in {"include", "sinclude"} ->
                                EvalInclude(l, st.ev, st.mtime, st.content)
          [] l.op \in ShellOps -> EvalShell(l, st.ev, st.mtime, st.content)
          [] l.op = "read"     -> FileRead(l, st.ev, st.mtime, st.content)
          [] l.op \in {"write", "append"} -> FileWrite(l, st.ev, st.mtime)
          [] OTHER                          -> st.ev,
     mtime |-> IF Writes(l, st.mtime) THEN Touch(st.mtime, l.arg, st.now) ELSE st.mtime,
     content |-> IF Writes(l, st.mtime)
                 THEN [st.content EXCEPT ![l.arg] = Written(l, st.content)]
                 ELSE st.content,
     now |-> st.now]

Pop(st) == [st EXCEPT !.ev.prog = Tail(@)]
EvalNext(st) ==
    IF st.ev.prog = << >> \/ st.ev.failed THEN st
    ELSE EvalLine(Head(st.ev.prog), Pop(st))

\* The top-level Makefile is read.
BeginEval(e, mt, co) ==
    LET e1 == ReadMakefile(e, mt, co, Makefile) IN
    [e1 EXCEPT !.prog = e1.mk[Makefile].data]

\* The product: what the ninja file says.
Product(a, e) == [args |-> a, kati |-> e.mk[KatiBinary].data, obs |-> e.obs]

\* The evaluator at the end of an undisturbed evaluation of the tree.
FreshEvaluator ==
    LET st0 == [ev |-> BeginEval(NewEvaluator(penv, Snapshot(mtime, content, KatiBinary)),
                                 mtime, content),
                mtime |-> mtime, content |-> content, now |-> clock + 1]
        st[n \in 0..MaxLines] == IF n = 0 THEN st0 ELSE EvalNext(st[n - 1])
    IN st[MaxLines].ev
-----------------------------------------------------------------------------
(* The regeneration check: StampChecker.                                   *)

NoCheck == [needs |-> FALSE, stamp |-> None, globs |-> {}, next |-> 1]
LoadedCommands == IF chk.stamp = None THEN << >> ELSE chk.stamp.cmds

\* Mutants: a Makefile that is missing is dirty; variables that were undefined
\* are not checked; an unset variable differs from the empty one.
MutFileDirtyMissing(s) ==
    \E f \in DOMAIN s.mk \ IgnoreDirty : s.time < mtime[f] \/ ~Exists(mtime, f)
MutUndefDirtyNever(s) == FALSE
MutUndefDirtyNull(s) == \E v \in s.undef : penv[v] # ""

\* CheckStep1 on a stamp s that could be opened.
FileDirty(s) == \E f \in DOMAIN s.mk \ IgnoreDirty : s.time < mtime[f]
UndefDirty(s) == \E v \in s.undef : penv[v] # Unset
EnvDirty(s) == \E v \in DOMAIN s.envs : GetEnv(penv, v) # s.envs[v]
Step1Dirty(s) == FileDirty(s) \/ UndefDirty(s) \/ EnvDirty(s) \/ s.args # args

IsMissingOutputs == ninja = None \/ script = None

\* CheckGlobResult
GlobDirty(s, g) == GlobFiles(mtime, g) # s.globs[g] /\ g \notin IgnoreDirty

\* Mutant: the times of searched directories are not looked at.
MutShouldRunFound(s, c) == c.op # "FIND" \/ \E f \in c.found : ~Exists(mtime, f)

\* ShouldRunCommand
ShouldRunCommand(s, c) ==
    \/ c.op # "FIND"
    \/ \E d \in c.missing : Exists(mtime, d)
    \/ \E f \in c.found : ~Exists(mtime, f)
    \/ \E d \in c.dirs \ IgnoreDirty : ~Exists(mtime, d) \/ s.time < mtime[d]

\* Mutants: a file that did not exist is not looked for; a file that kati
\* wrote is dirty when it is newer than the stamp.
MutCommandDirtyRead(s, c) ==
    IF c.op = "READ" THEN s.time < mtime[c.line.arg]
    ELSE /\ c.op \in {"SHELL", "FIND"} /\ ShouldRunCommand(s, c)
         /\ ShellResult(c.line, mtime, content) # c.res
MutCommandDirtyWrite(s, c) ==
    \/ c.op \in {"READ", "WRITE"} /\ s.time < mtime[c.line.arg]
    \/ c.op = "READ_MISSING" /\ Exists(mtime, c.line.arg)
    \/ /\ c.op \in {"SHELL", "FIND"} /\ ShouldRunCommand(s, c)
       /\ ShellResult(c.line, mtime, content) # c.res

\* CheckShellResult.  No command of the model begins with "cd d &&", so the
\* result is not dropped for a chdir that is ignored; one whose argument is
\* ignored was never stored (Store).
CommandDirty(s, c) ==
    CASE c.op = "READ_MISSING" -> Exists(mtime, c.line.arg)
      [] c.op = "READ"         -> s.time < mtime[c.line.arg]
      [] c.op = "WRITE"        -> FALSE
      [] OTHER -> /\ ShouldRunCommand(s, c)
                  /\ ShellResult(c.line, mtime, content) # c.res

\* The line whose file the check of c writes: WRITE is written again with
\* "wb", and an "echo" is run again.
Rewrites(c) == c.op = "WRITE" \/ (c.op = "SHELL" /\ c.line.op = "echo")
\* Mutant: the check writes with "ab".
MutRewrittenAppend(c) == Line("append", c.line.arg, c.line.text)
Rewritten(c) == Line(IF c.op = "WRITE" THEN "write" ELSE "echo", c.line.arg, c.line.text)

\* Kati returns; its memory is gone.
Exit(o) ==
    /\ pc' = "idle" /\ outcome' = o
    /\ chk' = NoCheck
    /\ ev' = NewEvaluator([v \in Var |-> Unset], [exists |-> FALSE, data |-> << >>])

Settle ==
    settled' = IF lastEdit < start
               THEN [none |-> FALSE, env |-> uenv, args |-> args, content |-> content]
               ELSE None

\* The check asks for a regeneration.
Regenerate ==
    \/ mode = "dump" /\ Exit("dirty") /\ settled' = None
    \/ /\ mode = "regen"
       /\ pc' = "begin" /\ chk' = NoCheck
       /\ UNCHANGED <<ev, outcome, settled>>

\* IsMissingOutputs and CheckStep1.  With --dump_kati_stamp the check goes
\* on after a difference.
CheckStep1 ==
    /\ pc = "check"
    /\ LET dirty == \/ IsMissingOutputs
                    \/ stamp = None
                    \/ stamp # None /\ Step1Dirty(stamp)
       IN \/ /\ dirty /\ mode = "regen" /\ Regenerate
          \/ /\ ~dirty \/ mode = "dump"
             /\ pc' = "step2"
             /\ chk' = [needs |-> dirty, stamp |-> stamp, next |-> 1,
                        globs |-> IF stamp = None THEN {} ELSE DOMAIN stamp.globs]
             /\ UNCHANGED <<ev, outcome, settled>>
    /\ UNCHANGED <<clock, world, run, penv, disk, user>>

\* Mutant: a glob without a difference is checked again and again.
MutCheckGlobAgain ==
    /\ pc = "step2"
    /\ \E g \in chk.globs :
          LET dirty == GlobDirty(chk.stamp, g) IN
          chk' = [chk EXCEPT !.needs = @ \/ dirty, !.globs = IF dirty THEN {} ELSE @]
    /\ UNCHANGED <<clock, world, pc, run, penv, ev, disk, outcome, user, settled>>

\* CheckStep2, the thread of the globs: it stops at the first difference.
CheckGlob ==
    /\ pc = "step2"
    /\ \E g \in chk.globs :
          LET dirty == GlobDirty(chk.stamp, g) IN
          chk' = [chk EXCEPT !.needs = @ \/ dirty,
                             !.globs = IF dirty THEN {} ELSE @ \ {g}]
    /\ UNCHANGED <<clock, world, pc, run, penv, ev, disk, outcome, user, settled>>

\* CheckStep2, the thread of the commands: it looks at all of them.
CheckCommand ==
    /\ pc = "step2"
    /\ chk.next <= Len(LoadedCommands)
    /\ LET c == LoadedCommands[chk.next]
           l == Rewritten(c)
       IN /\ chk' = [chk EXCEPT !.needs = @ \/ CommandDirty(chk.stamp, c), !.next = @ + 1]
          /\ IF Rewrites(c) /\ Writable(mtime, l.arg)
             THEN /\ clock' = clock + 1
                  /\ mtime' = Touch(mtime, l.arg, clock + 1)
                  /\ content' = [content EXCEPT ![l.arg] = Written(l, content)]
             ELSE UNCHANGED <<clock, world>>
          /\ c.op = "WRITE" => Writable(mtime, l.arg)
    /\ UNCHANGED <<pc, run, penv, ev, disk, outcome, user, settled>>

\* PERROR("fopen") in the thread of the commands.
CheckCommandError ==
    /\ pc = "step2"
    /\ chk.next <= Len(LoadedCommands)
    /\ LET c == LoadedCommands[chk.next] IN c.op = "WRITE" /\ ~Writable(mtime, c.line.arg)
    /\ Exit("error") /\ settled' = None
    /\ UNCHANGED <<clock, world, run, penv, disk, user>>

\* Mutant: the stamp gets the time when the check ends.
MutRenewedNow == [stamp EXCEPT !.time = clock]
\* The stamp of a clean check: its time is overwritten by start_time.
Renewed == [stamp EXCEPT !.time = start]

\* Both threads are joined.  A clean check moves the stamp's time to
\* start_time in place; the stamp may have been removed meanwhile.
CheckFinish ==
    /\ pc = "step2" /\ chk.globs = {} /\ chk.next > Len(LoadedCommands)
    /\ IF chk.needs \/ stamp = None
       THEN Regenerate /\ UNCHANGED disk
       ELSE /\ stamp' = Renewed
            /\ Exit("clean")
            /\ Settle
            /\ UNCHANGED <<ninja, script, tmp>>
    /\ UNCHANGED <<clock, world, run, penv, user>>

-----------------------------------------------------------------------------
(* Evaluation and generation.                                              *)

\* The top-level Makefile is read and parsed.
Begin ==
    /\ pc = "begin"
    /\ ev' = BeginEval(ev, mtime, content)
    /\ pc' = "eval"
    /\ UNCHANGED <<clock, world, run, penv, chk, disk, outcome, user, settled>>

\* Stmt::Eval of the next line.
Eval ==
    /\ pc = "eval" /\ ev.prog # << >> /\ ~ev.failed
    /\ LET st == EvalNext([ev |-> ev, mtime |-> mtime, content |-> content, now |-> clock + 1])
       IN /\ ev' = st.ev
          /\ mtime' = st.mtime
          /\ content' = st.content
          /\ clock' = IF Writes(Head(ev.prog), mtime) THEN clock + 1 ELSE clock
    /\ UNCHANGED <<pc, run, penv, chk, disk, outcome, user, settled>>

\* Evaluator::Error exits.
EvalError ==
    /\ pc = "eval" /\ ev.failed
    /\ Exit("error") /\ settled' = None
    /\ UNCHANGED <<clock, world, run, penv, disk, user>>

\* setenv and unsetenv of the exported variables, after LookupVar of each.
Exported == {v \in DOMAIN ev.exports : ev.exports[v]}
SetEnv ==
    /\ pc = "eval" /\ ev.prog = << >> /\ ~ev.failed
    /\ ev' = [ev EXCEPT
                !.usedEnv = @ \cup {v \in Exported : ev.origin[v] = "environment"},
                !.usedUndef = @ \cup {v \in Exported : ev.origin[v] = "undefined"}]
    /\ penv' = [v \in Var |-> CASE v \in Exported -> ev.val[v]
                                [] v \in DOMAIN ev.exports \ Exported -> Unset
                                [] OTHER -> penv[v]]
    /\ pc' = "makefiles"
    /\ UNCHANGED <<clock, world, run, chk, disk, outcome, user, settled>>

\* Exec of the makefiles: none has a rule here, so one that was included
\* and does not exist is an error, and nothing else happens.
MakeMakefiles ==
    /\ pc = "makefiles"
    /\ IF \A f \in ev.req : Exists(mtime, f)
       THEN pc' = "unlink" /\ UNCHANGED <<chk, ev, outcome, settled>>
       ELSE Exit("error") /\ settled' = None
    /\ UNCHANGED <<clock, world, run, penv, disk, user>>

Goto(from, to) ==
    /\ pc = from /\ pc' = to
    /\ UNCHANGED <<clock, world, run, penv, chk, ev, outcome, user, settled>>

\* Mutant: the old stamp stays until the new one replaces it.
MutKeepStamp == Goto("unlink", "openNinja") /\ UNCHANGED disk

\* NinjaGenerator::Generate
UnlinkStamp ==
    /\ Goto("unlink", "openNinja") /\ stamp' = None /\ UNCHANGED <<ninja, script, tmp>>

Partial == [none |-> FALSE, complete |-> FALSE]
Output == [none |-> FALSE, complete |-> TRUE, by |-> start, product |-> Product(args, ev)]

OpenNinja ==
    /\ Goto("openNinja", "ninja") /\ ninja' = Partial /\ UNCHANGED <<script, tmp, stamp>>

WriteNinja ==
    /\ Goto("ninja", "openScript") /\ ninja' = Output /\ UNCHANGED <<script, tmp, stamp>>

OpenScript ==
    /\ Goto("openScript", "script") /\ script' = Partial /\ UNCHANGED <<ninja, tmp, stamp>>

WriteScript ==
    /\ Goto("script", "openTmp") /\ script' = Output /\ UNCHANGED <<ninja, tmp, stamp>>

OpenTmp ==
    /\ Goto("openTmp", "tmp") /\ tmp' = Partial /\ UNCHANGED <<ninja, script, stamp>>

\* GenerateStamp.  used_envs_ holds getenv of the variables used and of
\* PATH; whether a searched directory is missing is decided now.
Stamped(c) ==
    [op |-> c.op, line |-> c.line, res |-> c.res, found |-> c.found, dirs |-> c.dirs,
     missing |-> IF c.op = "FIND" /\ ~Exists(mtime, c.line.arg) THEN {c.line.arg} ELSE {}]

WriteTmp ==
    /\ Goto("tmp", "rename")
    /\ tmp' = [none |-> FALSE, complete |-> TRUE, by |-> start, time |-> start,
               mk |-> ev.mk, undef |-> ev.usedUndef,
               envs |-> [v \in ev.usedEnv \cup {PathVar} |-> GetEnv(penv, v)],
               globs |-> ev.globs,
               cmds |-> [i \in DOMAIN ev.cmds |-> Stamped(ev.cmds[i])],
               args |-> args]
    /\ UNCHANGED <<ninja, script, stamp>>

RenameStamp ==
    /\ pc = "rename"
    /\ stamp' = tmp /\ tmp' = None
    /\ Exit("generated")
    /\ Settle
    /\ UNCHANGED <<clock, world, run, penv, ninja, script, user>>
-----------------------------------------------------------------------------
(* The environment: the user starts kati, edits the tree, removes outputs; *)
(* kati is killed.                                                         *)

\* Run up to the check or, without --regen, to the evaluation.
Start ==
    /\ pc = "idle" /\ runs < MaxRuns
    /\ \E m \in Modes, e \in Envs, a \in Args :
          /\ mode' = m /\ args' = a /\ uenv' = e /\ penv' = e
          /\ pc' = IF m = "gen" THEN "begin" ELSE "check"
          /\ ev' = NewEvaluator(e, Snapshot(mtime, content, KatiBinary))
    /\ clock' = clock + 1 /\ start' = clock + 1
    /\ runs' = runs + 1
    /\ outcome' = "none"
    /\ UNCHANGED <<world, chk, disk, user, settled>>

Kill ==
    /\ pc # "idle"
    /\ Exit("killed") /\ settled' = None
    /\ UNCHANGED <<clock, world, run, penv, disk, user>>

\* An edit is later than everything before it: its time is a new one.
AnEdit ==
    /\ edits < MaxEdits
    /\ edits' = edits + 1
    /\ clock' = clock + 1 /\ lastEdit' = clock + 1
    /\ settled' = None
    /\ UNCHANGED <<pc, run, penv, chk, ev, outcome>>

EditFile ==
    /\ AnEdit
    /\ \E p \in Path : \E c \in Edits[p] :
          /\ Parent[p] # Top => Exists(mtime, Parent[p])
          /\ p \in Frozen => pc = "idle"
          /\ mtime' = Touch(mtime, p, clock + 1)
          /\ content' = [content EXCEPT ![p] = c]
    /\ UNCHANGED disk

RemoveFile ==
    /\ AnEdit
    /\ \E p \in Deletable :
          /\ Exists(mtime, p) /\ Listing(mtime, p) = {}
          /\ p \in Frozen => pc = "idle"
          /\ mtime' = Unlink(mtime, p, clock + 1)
          /\ content' = [content EXCEPT ![p] = << >>]
    /\ UNCHANGED disk

RemoveOutput ==
    /\ AnEdit
    /\ \/ ninja # None /\ ninja' = None /\ UNCHANGED <<script, tmp, stamp>>
       \/ script # None /\ script' = None /\ UNCHANGED <<ninja, tmp, stamp>>
       \/ stamp # None /\ stamp' = None /\ UNCHANGED <<ninja, script, tmp>>
    /\ UNCHANGED world

-----------------------------------------------------------------------------
Init ==
    /\ clock = 0
    /\ mtime = [p \in Path |-> IF p \in DOMAIN InitFiles THEN 0 ELSE NotExist]
    /\ content = [p \in Path |-> IF p \in DOMAIN InitFiles THEN InitFiles[p] ELSE << >>]
    /\ pc = "idle" /\ mode = "gen" /\ start = 0 /\ args \in Args
    /\ uenv \in Envs /\ penv = uenv
    /\ chk = NoCheck
    /\ ev = NewEvaluator([v \in Var |-> Unset], [exists |-> FALSE, data |-> << >>])
    /\ ninja = None /\ script = None /\ tmp = None /\ stamp = None
    /\ outcome = "none" /\ lastEdit = 0 /\ settled = None
    /\ edits = 0 /\ runs = 0

Check == CheckStep1 \/ CheckGlob \/ CheckCommand \/ CheckCommandError \/ CheckFinish
Evaluate == Begin \/ Eval \/ EvalError \/ SetEnv \/ MakeMakefiles
Generate ==
    \/ UnlinkStamp \/ OpenNinja \/ WriteNinja \/ OpenScript \/ WriteScript
    \/ OpenTmp \/ WriteTmp \/ RenameStamp
Kati == Check \/ Evaluate \/ Generate
User == Start \/ EditFile \/ RemoveFile \/ RemoveOutput
Next == Kati \/ User \/ Kill

Spec == Init /\ [][Next]_vars

\* The kernel goes on scheduling a kati process and its two check threads.
FairSpec == Spec /\ WF_vars(Kati)

-----------------------------------------------------------------------------
(* Properties.                                                             *)

\* A stamp, the one being written included, never carries a time after
\* start_time, whenever it was written or renewed.
StampTimes == \A s \in {stamp, tmp} : "time" \in DOMAIN s => s.time \in 0 .. start

\* Types of the state that is not built by the evaluator.
TypeOK ==
    /\ clock \in Nat /\ start \in Nat /\ lastEdit \in Nat
    /\ start <= clock /\ lastEdit <= clock
    /\ mtime \in [Path -> Nat \cup {NotExist}]
    /\ DOMAIN content = Path
    /\ mode \in Modes
    /\ pc \in {"idle", "check", "step2", "begin", "eval", "makefiles", "unlink",
               "openNinja", "ninja", "openScript", "script", "openTmp", "tmp", "rename"}
    /\ uenv \in Envs
    /\ edits \in 0..MaxEdits /\ runs \in 0..MaxRuns
    /\ StampTimes

\* Crash safety of Generate: however often kati was killed or restarted, a
\* stamp on the disk is complete, and the build.ninja and ninja.sh beside it
\* (unless the user removed them) are complete and of the run that wrote it.
StampImpliesNinja ==
    stamp # None =>
        /\ stamp.complete
        /\ \A out \in {ninja, script} : out # None => out.complete /\ out.by = stamp.by

\* What makes comparing modification times with gen_time sound: a Makefile
\* (or the kati binary) that is not ignored and whose time is not later than
\* t has the content mk that was read of it, or was deleted.
Covers(mt, co, mk, t) ==
    \A f \in Path \ IgnoreDirty : f \in DOMAIN mk =>
        \/ mt[f] > t
        \/ mt[f] = NotExist
        \/ mk[f] = Snapshot(mt, co, f)

\* The stamp on the disk always covers what build.ninja was generated from,
\* although files are edited while kati checks, evaluates and generates, and
\* clean checks move the stamp's time forward.
StampCovers == stamp # None => Covers(mtime, content, stamp.mk, stamp.time)

\* Observations that --ignore_dirty leaves to be checked.
Kept(product) ==
    [product EXCEPT !.obs = SelectSeq(@, LAMBDA o : o.arg \notin IgnoreDirty)]

\* "No need to regenerate ninja file" is right: when a check that no edit
\* disturbed ends clean, evaluating the Makefiles again would produce the
\* same ninja file, whatever was edited during earlier checks, evaluations
\* and generations.
RegenSound ==
    outcome = "clean" /\ lastEdit < start /\ ninja # None =>
        Kept(ninja.product) = Kept(Product(args, FreshEvaluator))

\* No regeneration for nothing: when the last run ended well, nothing was
\* edited since it began, environment and arguments are the same, and
\* evaluating again would produce the same ninja file, the check does not
\* ask for it.
NoSpuriousRegen ==
    ~ /\ pc = "begin" /\ mode = "regen"
      /\ settled # None /\ settled.env = uenv /\ settled.args = args
      /\ ninja.product = Product(args, FreshEvaluator)

\* A clean check that follows a good run, with nothing edited in between,
\* leaves every file with the content that run left, although it writes the
\* files of $(file >...) again.
CleanCheckKeepsFiles ==
    [][pc = "step2" /\ outcome' = "clean" /\ settled # None => content = settled.content]_vars

\* Every run of kati ends: the two check threads are always joined.
RunsEnd == pc # "idle" ~> pc = "idle"
=============================================================================
