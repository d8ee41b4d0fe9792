# Verification of kati

Kati is a clone of GNU make whose purpose is to turn Makefiles into ninja files.
The repository holds two programs: *ckati*, in C++ (`src/src/`), which is the one in
use, and the older *kati* in Go (`src/golang/kati/`). This directory holds TLA+
models of the parts of both that are hard to test: the decision whether an existing
`build.ninja` is still valid, the crash-safe writing of that file, the way from a
Makefile's lines to variables and rules, to a dependency graph and to a ninja file, the
find emulator, the sequential executor of ckati and the parallel executor of the Go program.

    tlc -workers 2 -config Regen_tree.cfg MCRegen     # one of the runs
    tlapm RegenProofs.tla                             # one of the proof modules

`PROJECT.json` lists the runs, the source lines of every definition, the hazards
with the properties that cover them, the mutants and the theorems.

## 1. Inventory

### How ckati works

`main.cc: Run` is the whole life of a process. It takes `start_time`, asks the
regeneration check whether the previous `build.ninja` can be kept, and otherwise
parses and evaluates the Makefiles, exports variables, makes the Makefiles that have
rules (and executes itself again if a command ran for one of them), builds the
dependency graph and then either executes it or writes it as a ninja file.

| Component | Source | State it keeps | Operations | Hard behaviour |
|---|---|---|---|---|
| Regeneration check | `regen.cc` | the loaded stamp, `needs_regen_`, the two work lists | `CheckStep1` (times, environment, arguments), `CheckGlobResult` and `CheckShellResult` on two threads, renewal of the stamp's time | files change during the check; the check itself runs commands and writes files; threads share a flag |
| Output generation | `ninja.cc` | `build.ninja`, `env.sh`, `ninja.sh`, `.kati_stamp`, its temporary file | unlink stamp, write the outputs, write and rename the stamp | a kill between any two of these; files and environment read late |
| Evaluation of inputs | `eval.cc`, `func.cc`, `file_cache.cc`, `fileutil.cc`, `symtab.cc`, `var.cc` | variables, used environment variables, exports, stored command results, Makefile and glob caches | `include`, `wildcard`, `shell`, `file`, assignment, `export` | one evaluation sees the tree at many moments, each cache keeps its own |
| Find emulator | `find.cc` | a tree of directories, each read once; the recorded directories and files | `Parse`, `HandleFind`, `initialize` | links and loops; which directories an output depends on; whether a directory existed is asked twice |
| Executor | `exec.cc`, `main.cc` | `done_`, `num_commands_` | `ExecNode` (recursive), starting over | times read before and used after the recursion; cycles; endless restarts |
| Command evaluation | `command.cc` | automatic variables | `Eval` | where a command ends |
| Dependency builder | `dep.cc`, `rule.cc` | merged rules, pattern and suffix rules, scopes, `done_` | `PopulateRules`, `PickRule`, `BuildPlan` | caching under recursion, scopes swapped in and out |
| Ninja text | `ninja.cc` | emitted nodes, rule ids, pools, the script being joined | `PopulateNinjaNodes`, `EmitNode`, `TranslateCommand` | two escapings; nodes, outputs and names are three different keys |
| Variables and scopes | `var.cc`, `symtab.cc`, `eval.cc` | values, flavours, origins, read-only marks | assignment, target-specific variables | lifetime and precedence of scopes |
| Parser | `parser.cc`, `stmt.cc`, `expr.cc` | the `if` stack, the `define` block, the guess about commands | one statement at a time | a whole file is parsed before any of it is evaluated |
| Strings | `strutil.cc`, `string_piece.cc` | none | splitting, patterns | pure |
| Statistics, logging, flags | `stats.cc`, `log.cc`, `flags.cc` | counters | reporting | none |
| Go executor | `exec.go`, `worker.go` | jobs with `numDeps`, ready queue, free and busy workers | `makeJobs`, `workerManager.Run`, `worker.Run` | three kinds of goroutine on unbuffered channels with shared fields and an error path |
| Go saved graph | `serialize.go`, `depgraph.go` | the cache file | save, load, check | staleness |
| Go evaluator | `eval.go`, `func.go`, `pathutil.go` | as in C++ | as in C++ | as in C++ |

Components interact by calls within one process. The shared state that outlives a
process is the file system: the outputs and the stamp connect one run of ckati with
the next one, and the user edits the tree at any time.

What makes each part correct:

* check and generation: if the check says "no need to regenerate", evaluating again
  would give the same ninja file; if nothing changed, it does say so; a stamp is never
  beside a ninja file it does not describe; a clean check leaves the tree as it was;
  a run ends;
* executors: a target is made once, after its dependencies; what is skipped is not
  out of date; a failure is reported, and the build ends whatever fails;
* parser and variables: reading in two phases gives what reading line by line gives,
  and of all assignments the right one counts;
* dependency builder and ninja text: the graph has each target once, with the
  rule a reader expects, the ninja file builds exactly this graph, and its scripts do
  what the recipes do;
* find emulator: it prints what `find` prints, and records all that the output depends on.

### Modules

| Module | Models |
|---|---|
| `Regen` | `ckati --ninja --regen`: check, evaluation of inputs, generation, user, kills |
| `MCRegen` | small trees and Makefiles for it |
| `RegenProofs`, `RegenFilesProofs`, `RegenSoundProofs` | theorems about `Regen`: its outputs and stamp; the files that a check writes again; that a clean check is right |
| `Executor` | `ckati` without `--ninja`: `ExecNode`, the three `Exec`s of `Run`, starting over |
| `MCExecutor` | a small graph for it |
| `ExecutorProofs` | theorems about `Executor`, for every graph |
| `WorkerManager` | the Go executor: main goroutine, worker manager, workers |
| `MCWorkerManager` | small graphs for it |
| `WorkerManagerProofs`, `WorkerTreeProofs` | theorems about `WorkerManager`: for every graph, for the acyclic ones; for graphs without shared targets |
| `Build` | what a build promises: the abstract specification that both executors implement |
| `Makefile`, `MCMakefile` | parser, evaluator and variables; Makefiles of a few lines |
| `Rules` | rules, patterns and their lookup, as operators |
| `DepBuilder` | `MakeDep`: rule selection and the depth-first plan; extends `Rules` |
| `DepBuilderProofs` | theorems about `DepBuilder`, for every Makefile |
| `NinjaGen`, `MCNinjaGen` | the statements of the ninja file; extends `DepBuilder`, so that one run goes from rules to file; small Makefiles |
| `NinjaGenProofs` | theorems about `NinjaGen`, for every Makefile |
| `Recipe`, `MCRecipe` | a recipe's text, its commands, the ninja script and the shell; short texts |
| `Find`, `MCFind` | the find emulator and the check of its results; small trees and commands |

Definitions whose name starts with `Mut` are mutants: forms of a definition that a
plausible mistake would produce. They are used by no specification; `PROJECT.json`
says which property finds which of them.

## 2. The models

### Regen

**State.** The tree is `mtime` and `content`, with directories whose time changes
when an entry appears or goes. A Makefile's content is a sequence of lines, one for
each construct whose input the stamp must remember: `include`/`sinclude`, `glob`,
`find`, `cat` and `echo` (`$(shell ...)`), `read`, `write` and `append`
(`$(file ...)`), and `var`, `default`, `set`, `export`, `unexport`. `build.ninja` is abstracted
to what it depends on: the arguments, the kati binary and the sequence of
observations the evaluation made (`Product`). `ev` is the evaluator with its caches
(Makefiles in `mk`, globs, directories of the find emulator), `chk` the stamp checker,
`ninja`, `script`, `tmp` and `stamp` are the files kati writes, each missing, partial
or complete.

**Actions.** `Start` (with an environment, arguments and a mode), `CheckStep1`,
`CheckGlob` and `CheckCommand` (one element of a list per step, the two threads
interleaved; that of the globs stops at the first dirty element, that of the commands looks at all), `CheckCommandError`,
`CheckFinish` (join, and the in-place renewal of the stamp's time), `Begin`, `Eval`
(one line per step), `EvalError`, `SetEnv`, `MakeMakefiles`, then `UnlinkStamp`,
`OpenNinja`, `WriteNinja`, `OpenScript`, `WriteScript`, `OpenTmp`, `WriteTmp`,
`RenameStamp`. The environment is `EditFile`, `RemoveFile`, `RemoveOutput` and `Kill`,
each possible between any two steps of kati.

**Abstractions.** Edits, starts and writes happen at strictly increasing times: a
file edited in the same nanosecond tick as `start_time` is not considered. A file is
read or written in one step. `env.sh` is written just before `ninja.sh`
is opened and is part of the step `OpenScript`; `script` is `ninja.sh`, the one that
`IsMissingOutputs` looks for. `MakeMakefiles` is the case in which no
Makefile has a rule; the other case is in `Executor`. `--regen_ignoring_kati_binary` is the
binary being in `IgnoreDirty`. No command is preceded by `cd`, so the branch of the check for
a changed directory that is ignored (`regen.cc:402-407`) is left out; `Find` has `cd`. The list of found files, which the emulator fills for
`findleaves.py` only, is empty for `find`. `Frozen` names paths that the user leaves alone while a
kati process lives.

### Executor

`ExecNode` is recursive, so `stack` holds its calls: the node, the time of the output
read on entry (`ts`), the maximum `latest` so far, the visits that are left
(order-only dependencies first, then the others) and the commands that are left.
`done` is `done_`, with `Absent`, `Processing` (-1) and times. `Run` makes the Makefiles,
the optional ones (for which a missing rule is no error), starts over if a command was
counted, and makes the goals; each `Exec` has a new `done_`. The time a made target
gets is the time of day, later than every file. Between runs the user edits sources,
and a process may be killed at any step. A command writes its own target only, or
nothing if the target is phony or in `MayNotWrite`; a failing command may have written
or not.

### WorkerManager

`main` walks the graph with a stack of `makeJobs` calls. Channels are unbuffered, so
sending and receiving are one action: `PostJob`, `NewDep`, `JobResult`, `Wait` and
`Dispatch` are the branches of the `select` in `workerManager.Run` together with the
sender, and the `...Stopped` actions the branch of `stopChan`. `neededBy.numDeps--` of a
circular dependency, done by the main goroutine without synchronisation, is a read
(`ReadNumDeps`) and a write (`WriteNumDeps`) with anything in between. The ready queue is a
bag, as a heap gives no order that the properties rely on (any ready job may be
taken). Workers build (`Build` decides, `Run` runs the commands) and report. VPATH and the
evaluation of commands are left out.

### Build

A target is idle, begun, working, made or failed. `Work`, `Make` and `Fail` need that
all dependencies are made, order-only ones at least present, except those that depend on
the target itself (`Circular`, stated through closed sets so that no recursion is needed).
`Executor` implements it with "begun" for a call on the stack and "working" for a call whose
commands run; `WorkerManager` with "begun" for a job that was made and "working" for one that a
worker has. In both, `there` is the set of existing files.

### Makefile

**State.** `texts` are the texts that `Run` reads one after the other (bootstrap, command line,
Makefile), `parser` is the `Parser` at work with its state, `if` stack and `define`, `stmts` the
statements, `todo` the statements the evaluator has still to run (its C++ stack) and `ev` the
`Evaluator`: global variables, target variables, rules, exports, the rule that commands are
added to. A line is a record, not a string: finding separators and comments is left out.

**Actions.** One for each `Parse...` function (`ParseCommand` included, with the guess
by `state_`), `ParseEnd`, and one for each kind of statement: `RunAssign`, `RunRule` (also
target variables), `RunCommand`, `RunNotCommand` (a wrong guess: the line is parsed again by
`ParseNotAfterRule`), `RunIf`, `RunInclude`, `RunExport`, `RunEval`, `RunError`.

**Reference.** `ReadAll` reads the same lines in one phase, as GNU make does: a line is
evaluated when it is read, so that it knows which branch it is in and whether a rule came
before. It shares with the model what a single assignment, rule or export does, and nothing
of the parsing. `PrecedenceRight` compares the variables with the history of all assignments.

### Rules, DepBuilder, NinjaGen

**State.** `stack` holds the calls of `BuildPlan`, each with its candidates and the one it tries, the inputs
of that candidate left to probe, the edges left and the saved scope; `done` is `done_`,
`node` the `DepNode`s, `scope` is `cur_rule_vars_`. A name is a sequence of parts
such as `<<"foo", ".o">>`, which is what patterns and suffixes can tell apart. `NinjaGen` adds
`done_`, `nodes_` and the statements of the generator.

**Actions.** `BuildPlan` and `FoundDone` (a call), `InputKnown`, `InputPlanned`, `Chosen`,
`NoneLeft`, `NoRule` (`PickRule` and `CanPickImplicitRule`), `PickParent` (implicit outputs),
`FillDepNode`, `AddDep`, `ReturnNode`, `ReturnRoot`, `Finish`; then `Generate`, `PopulateNinjaNode`,
`GenerateNinja`, `EmitNode`, `EmitDefault`. Warnings that a flag turns into errors end the run in
the status "error"; so do the errors of `PopulateRules`.

**Reference.** `Expected` says which rule a reader of the Makefile expects, given what exists
in the end; `RuleRight` compares each node with it, although the code decided in the middle
of other plans.

### Recipe

`EvalValue` splits one evaluated text into commands, `Evaluated` adds the output
commands, `GenCommand` appends one command to the script, `EmitNode` writes the
rule's line. A text is a sequence of characters because quoting is what the properties are
about. Reference: `Lex` and `RunSimple` are a small shell with words, quotes, comments,
continued lines, `;`, `&&`, parentheses, `cd` and failure; `ScriptRight` runs the commands one
shell each and the script in one shell, after ninja and the shell have undone the escapings.

### Find

`Shell` parses a command (the token stream through `ParseImpl`, `ParseFind`, `ParseExpr`), searches
the tree with `RunFind` and stores what the stamp will hold; `Create` and `Unlink` are the user;
`ShouldRunCommand` is the check's decision. Reference: `Native`, what `find` and `findleaves.py`
print by their documented meaning, defined on what the author of the command meant and not on the
emulator's parse.

## 3. The runs

| Run | Shows | States |
|---|---|---|
| `regen_tree` | `StampCovers`, `RegenSound`, `NoSpuriousRegen` for includes, wildcards and `find`, with three edits or deletions and three runs of kati | 2.5 M |
| `regen_files` | `RegenSound`, `NoSpuriousRegen`, `CleanCheckKeepsFiles` for files that kati reads and writes itself, and with `--ignore_dirty` | 1.2 M |
| `regen_env` | `TypeOK`, `StampImpliesNinja`, `RegenSound`, `NoSpuriousRegen`, `RunsEnd` for environment, exports, arguments and the binary, and for both threads of the check at work | 0.6 M |
| `executor` | `TypeOK`, `ProcessingIsOnStack`, `Fresh`, `NothingToDo`, `RunEnds`, and that it implements `Build` (`Implements`) | 0.2 M |
| `worker_tree` | `TypeOK`, `UpToDate`, and that it implements `Build` when no target is needed twice | 0.4 M |
| `worker_shared` | `RunsOnce`, `NumDepsExact`, `NoPanic`, `ResultRight`, `BuildEnds` with shared, repeated, order-only and circular dependencies | 0.3 M |
| `dep` | `RuleRight`, `EdgesRight`, `VarsInherited` of the graph, `FileRight`, `NinjaRight` of the ninja file, `TypeOK` | 0.3 M |
| `find` | `OutputRight`, `DirsCover` | 28 k |
| `recipe` | `ScriptRight`, `LinesRight` | 0.1 M |
| `makefile` | `OnePhase`, `PrecedenceRight`, `SelfReferenceRight`, `ReadonlyKept` | 0.5 M |

Two more runs are expected to find a violation; they are in section 5.

**Bounds.** `MaxRuns = 3` is the smallest number that has a run which generates, one
that checks cleanly and renews the stamp, and one that relies on the renewed stamp.
`MaxEdits` of 1 to 3 lets an edit fall into each of these runs and between them; an edit,
its undoing and the creation of a directory entry fit. `MaxLines` bounds the reference
evaluation that the properties compare with, and is the number of lines of the longest
Makefile with what it includes. The Makefiles are chosen so
that each construct occurs with each other one it can disturb. In `regen_env` the check has a wildcard and two commands,
and one edit makes the wildcard and a command dirty at once, so that either thread may be the first to find a change while the other
goes on; a command of the check that fails is in `regen_files`. The executor's graph
has a shared library, an order-only dependency, a two-command target that may fail, a
cycle, a goal without a rule and a Makefile with a rule. The Go graphs have two
workers, enough for a result to race with a post and with another result.
`dep` takes every subset of ten optional rules beside three fixed ones (but those in which a target with
commands is also the second target of a pattern rule, see section 5), with three sets of
existing files, two orders of goals and warnings as errors or not: every pair of kinds of rule
meets at one target. `find` takes five trees and 189 commands with two edits: one edit may
change the output, and one may create what another edit fills. `recipe` takes all accepted texts of up to four
characters over ten characters, enough for a quote around an escape, and all recipes of up
to three of twelve sample lines; texts that section 5 lists are left out. `makefile` takes Makefiles of a few lines from four
families: conditionals (`else if` inside a conditional and unbalanced ends fit), commands, assignments (three
in a row with every origin before them, but those in which kati does not keep to the ranks, see section 5), and bodies that are read directly, in branches, through
`$(eval)` and through `include`.

**Deadlock** is checked in `dep`, where it says that the builder and the generator always
have a next step until the file is written (or an error was reported), and that no `CHECK` of `FillDepNode` or `PickRule` fails:
the model stops at one. Elsewhere the system
legitimately stops, when the bounds are used up or the build is over. That it stops only then is what `RunsEnd`,
`RunEnds` and `BuildEnds` say.

**Fairness.** Regen: weak fairness of the steps of the kati process, which the kernel
goes on scheduling; none of the user, of kills or of starts. Executor: the same, and
commands end. WorkerManager: weak fairness of the next-state relation; every step of
it belongs to a goroutine that can run, and no step can be repeated for ever.

**Not assumed.** `RunEnds` is about runs without `-n`: with `-n` a Makefile that must be made
is counted as updated but not written, so kati starts over for ever. The same happens
with a rule for a Makefile whose commands do not write it.

## 4. Proofs

Each theorem is about the specification that the runs check, for every value of the
constants that the named assumption of its module allows. TLC evaluates the assumptions, and the
inductive invariants were checked by TLC on the runs before they were proved.

### The stamp: `RegenProofs`

For every tree, Makefile, environment and bound, from `ConstantsAssumption` only:

* `TypeCorrect`: `Spec => []TypeOK`. The times stay naturals or -2, and the
  functions keep their domains, through every write the evaluation or the check makes, and no stamp, temporary or
  renewed, has a time after the start of the latest run (`StampTimes`).
* `CrashSafe`: `Spec => []StampImpliesNinja`. The property is not inductive: it says
  nothing of the time between writing the outputs and renaming the stamp. `GenInv`
  adds, for each place in `Generate`, that no stamp exists, and which of the outputs and
  of the temporary stamp are complete and written by the current run. The argument is
  that the stamp is unlinked before the first output is opened, and appears again only by the
  rename, after the last one was closed.
* `Sound`: `Spec => []StampCovers`. `CoverInv` adds the same statement for the
  Makefile cache of a running evaluation and for the temporary stamp with the start time,
  and, for a running check, that a Makefile found clean has the evaluated content unless it was written
  after the start. It needs that every edit is later than the start time of any
  process that is running. This is what justifies that a clean check may move the stamp's
  time to its own start time, and that the stamp carries `start_time` and not the
  time when it was written (the mutant `MutRenewedNow` is that mistake).

Lemmas say what each step of the evaluator does to the Makefile cache and to the
files (`EvalLineMk`, `EvalStep`, `OneWriteStep`, `NextWorld`).

### The files a check writes: `RegenFilesProofs`

* `NoAppendKeepsFiles`: `NoAppend /\ Spec => CleanCheckKeepsFiles`. `NoAppend` says that contents are
  sequences of lines, that the files which are included or written are paths of the tree, and
  that no line appends. The instances of `regen_tree`, `regen_files` and `regen_env`
  satisfy it; that of `regen_append` does not, and violates the property: appending is the
  only exception.
  `LinesInv` says that every file, cached Makefile and stored command consists of such lines.
  `KeepInv` holds the argument: when the commands were evaluated undisturbed, each
  file they write has the text of the last command that writes it, for the log of a running
  evaluation, for the temporary stamp and for the stamp (`Ends`); a running check has given each
  file it wrote the text of the last command so far (`Redone`), and a file whose content it has changed for now
  will be written again (`Behind`). Two commands that write one file are the reason why
  the property, which is about whole checks, is not inductive.

### A clean check is right: `RegenSoundProofs`

* `CleanChecksAreSound`: `ReadOnly /\ Spec => [](FreshEvaluator.prog = << >> => RegenSound)`. After a
  check that no edit disturbed and that found nothing to do, evaluating the Makefiles produces the
  ninja file that is there. The check compares times, names and a few values; the theorem says
  that this is enough for two whole evaluations, of trees between which anything may have been edited, to agree.

The argument has two halves. *What is remembered determines the evaluation*: `Replays` says of a running
evaluator that an undisturbed evaluation of any tree and environment that look as its caches, its
observations and its used variables say (`Agrees`) comes to the line where it is, with the same
program, caches and observations, and with variables that are the same or that each
got from its own environment unused (`Alike`). Each line keeps this (`AlikeLine`, one lemma per kind of
line), the stamp inherits it (`Reproduces`), and a clean check moves only the stamp's time, which it does not
mention. *A clean check means that the tree agrees*: `FilesRight` says of every stamp on the disk
that each observation has its command (`Linked`), that a file that was read or a directory that was
searched is as it was seen or is newer than the stamp, and that the deletion of a Makefile shows
in the wildcards (`MkRight`), which is how the check notices it at all; `CheckedRight` says the same of what a
running check has found clean, with its start time instead, which is why the renewal of the stamp's time is
sound although files are edited behind the check; `CleanSoFar` and `CleanRight` lead from the comparisons to
agreement, with `StampCovers` for the Makefiles.

`Replays` and `Reproduces` quantify over all trees and over all sets of states that are closed
under `EvalNext`, so that the steps need not be counted; TLC cannot evaluate them. The other parts of the
invariant were checked by TLC on the instances of `regen_tree` and `regen_env` and on a richer one. The induction over the
lines of `FreshEvaluator` is over a set of numbers and uses the theorem that these are well founded.

`ReadOnly` is satisfied by the instances of `regen_tree` and `regen_env`. It says that the Makefiles write no
file (a check runs the writing commands again, which is the subject of `RegenFilesProofs`, and a file
that kati writes and reads is checked by `regen_files` only), that `--ignore_dirty` is not given (what is ignored may
differ: that is its purpose), and it excludes the cases of section 5 in which the code does not
notice a change: the deletion of the file of `$(file <f)`; a searched directory
that comes or goes while kati runs (the arguments of `find` are `Frozen`); a used variable that the
Makefile sets or unexports and the environment defines; the value that is the empty string. Two more are
needed and were met in the proof: a name that is given to `$(wildcard)` and also included must not be
deleted, because the wildcard's answer is cached: the file may appear between the two, and its later deletion then shows
nowhere; nor the kati binary, whose absence is not looked at. `FreshEvaluator.prog = << >>` says that
`MaxLines`, the bound on the lines of that evaluation, is large enough; in those runs it always is.

### The C++ executor: `ExecutorProofs`

For every graph, cyclic or not, every set of Makefiles with rules, and all edits, kills, failures and dry
runs, from `GraphAssumption` only:

* `TypeCorrect` (`TypeOK`), with `Shape`: nothing is left of an idle process, and a call on the
  stack is the first visit that its caller has left.
* `RecursionSound` (`ProcessingIsOnStack`): `kProcessing` in `done_` stands for exactly one call.
* `ExecutorImplementsBuild`: `Spec => Implements`, the refinement of `Build`. Besides `Shape` and
  `OnStack` it needs `Depended`: a call depends on all calls above it (so that what it meets in
  processing is circular), what is left of its visits is the end of its dependency lists, and
  whatever it has visited is made or is circular.
* `FreshAtExit` (`Fresh`). `Times` says that the time a call has read is still the file's until it runs
  commands, that a call's `latest` is not older than what it has visited, and that `done_` holds the file's time only
  of what is not older than its dependencies: the time read before the recursion is not stale
  after it. A circular dependency is excepted, in the property too: it is made after the target.

### The Go executor: `WorkerManagerProofs`, `WorkerTreeProofs`

For every graph, from `GraphAssumption` (finitely many nodes, and a largest time among
the initial files):

* `TypeCorrect` (`TypeOK`) and `NeverPanics` (`NoPanic`), with `Shape`: which calls
  main is in, which jobs were not yet posted, which worker holds what, and what is left once
  the manager stopped. `TypeOK` includes that a worker with a job is among the busy ones (`HoldersBusy`).

For every graph without a cycle (`Acyclic`), in addition:

* `CountIsExact` (`NumDepsExact`) and `HandedOutOnce` (`RunsOnce`), with `Waiting`:
  the count of a job is the number of its dependencies that main has not visited plus that of its entries in
  the parents of jobs that are not finished (`Exact`); a job that is ready or handed out waits for nothing
  (`Pushed`, `Handed`) and has one worker (`HeldOnce`); one that becomes ready before it is
  posted is handed out at once (`EarlyIsNext`), which is sound because the calls of main wait
  for each other (`CallsWait`): all above such a call are finished.
* `ExecResult` (`ResultRight`), with `Finishing`: the channels' results, the counters and what
  main has visited add up at every step.

A cycle is excluded because the theorems would be false: main decrements `numDeps` of a target in a
loop while the manager may do the same, and one of the two can get lost (section 5). The graph of
`worker_shared` has cycles, of targets with no other dependency, for which TLC
finds the same properties true: there the run says more than the theorems.

For every graph without shared targets (`Tree`: acyclic, no target needed twice, no goal that is
needed by another target):

* `TreeUpToDate`: `Tree /\ Spec => []UpToDate`, and `DepsFirst` with it, which is what the
  finding of `worker_running` violates for a shared target.
* `TreeImplementsBuild`: `Tree /\ Spec => Implements`. `TreeInv` adds to the invariants above that a
  target is met only by the call for the one that needs it (`MetOnce`), that a job is registered with
  all it depends on and main has visited, order-only dependencies that exist apart (`Linked`), and that `depsTs`
  is not older than what has been built for the job (`Times`).

Sharing is excluded because `handleNewDep` neither waits for a dependency that is being built nor
updates `depsTs` (section 5). The graph of `worker_tree` satisfies `Tree`.

### The dependency builder: `DepBuilderProofs`

For every Makefile, that is for any rules, patterns, variables, files and goals:

* `TypeCorrect` (`TypeOK`), with `Shape`: the stack, `done_` and the nodes fit together, and a
  target has one call at most, although plans are asked for in the middle of others.
* `GraphIsRight`: `Spec => [](Unmatched /\ SiblingsFree => EdgesRight)`. `DoneRight` says that
  whatever `done_` answers makes the target asked for; an implicit output is excepted
  from its creation until `FillDepNode`, when its node gets the parent's name. `TurningRight` says
  why nobody sees the exception: at that time no edge leads to the node and no other node makes the
  parent, which would have put all its implicit outputs into `done_`. `OutputsRight` and
  `FilledRight` say which outputs a node has, `CallsMatch` that a call returns what the
  call below it asked for, and `CallsRight` that a candidate is at hand, or was chosen, only for a target
  without commands and without a parent, so that nothing is left in `pattern_rule` when `BuildPlan` goes on to
  the rule of the parent.

The hypotheses are about the Makefile and the graph, and each is needed (section 5 has the cases):
`Unmatched`, that no implicit output has a candidate of its own among the pattern and suffix rules;
`SiblingsFree`, that no second target
of a chosen pattern rule has commands of its own. All Makefiles of the run `dep` satisfy
them; it checks `GSpec`, whose steps until the graph is ready are those of `Spec`. Nothing is assumed about `Candidates` but that it is a function of the Makefile
and the target, so the theorems hold for any way of ordering the rules.

### The ninja file: `NinjaGenProofs`

For every Makefile, from `MakefilesAssumption` (goals and `.KATI_IMPLICIT_OUTPUTS` are sequences of words),
and on top of the invariants of `DepBuilderProofs`:

* `FileIsRight`: `GSpec => [](Unmatched /\ SiblingsFree /\ GoalsPlain => FileRight)`. Ninja accepts the file.
* `FileIsComplete`: `GSpec => [](Unmatched /\ SiblingsFree /\ GraphPlain => NinjaRight)`. From the default
  targets ninja reaches exactly the statements of the nodes that kati reached from its roots.

`GenInv` follows the generator: `QueueRight` says that a visited node waits to be written at most once and
with a rule id of its own, `BuildsRight` that a statement is that of one node, with all its edges and
no others, and that this node waits no more, `NoneLost` that a root and whatever a written node needs is
visited or still pending, and that a visited node has its statement, waits for it, or is one of
those that get none, `DefaultRight` that the default target is that of the first rule, or the
goals. About the builder it needs, besides `GraphInv`, that the roots are the goals done so far
(`RootsRight`) and that a node with a plan that is not ready is on the stack (`OpenRight`), so
that none is left when the generator starts; `FiniteRight`, that the graph is finite, makes the number
of steps in `Closure` a number. `FileIsComplete` compares two closures, one over
names and one over nodes, step by step: at every step each name is an output of one of the nodes and each
node has an output among the names (`Matched`). Nothing is said of the order in which
statements are written: they are found by membership, and no fold is evaluated.

The hypotheses beyond those of `GraphIsRight` are about targets for which the code writes no
statement: a special target (`.PHONY`, and any name that starts with a dot without a slash),
and `out` in Android. `GoalsPlain` says that no goal is one of these or made with one;
`GraphPlain` that nothing in the graph is, and that no target is called
`_kati_always_build_`. Without them a goal, or a prerequisite and all that only it needs, is
missing in the file. All Makefiles of the run `dep` satisfy `GraphPlain`.

### Only model-checked

* `RunsEnd`, `RunEnds` and `BuildEnds`: liveness under fairness is out of the prover's reach.
* `NoSpuriousRegen` is the converse of `RegenSound`: that agreement is found to be so by every comparison of the
  check. It needs, besides the replay, that nothing is stored which the evaluation did not use. `RegenSound` itself,
  for Makefiles that write the files they read (`regen_files`), is model-checked only.
* `NothingToDo` holds on the instance of `executor`, and not for every graph as it is stated: a rule
  without commands whose file is older than its dependencies makes what is above it run
  each time. A general form must name these targets too.
* `RuleRight` compares the order in which rules are tried with the expected one; what `FlattenSeq`,
  `SelectSeq` and `Reverse` compute is an induction over the rules. With match-anything rules it
  is false (section 5), as is `VarsInherited` when a probe plans a prerequisite, or when a target that has
  variables but no commands plans the input of a candidate rule before its scope is made.
* `Find`, `Recipe` and `Makefile` need recursive operators for what the C++ code does by
  recursion (parsing an expression, expanding a variable, searching a tree), and what these compute
  for every input is an induction over data: both are out of the prover's reach.

## 5. Where the code and its documentation disagree

Each of these runs violates one property; the findings in `PROJECT.json` quote the text.

* `regen_append`: a clean check truncates the file of `$(file >>f,...)`.
* `worker_running`: a job starts while a shared dependency is still being built.

These were seen as violations of a property in instances that contain the case. The passing runs leave
them out, and no run is kept for them:

* `RegenSound`: a directory that appears between `$(shell find)` and the stamp is
  remembered neither as missing nor as read (`ninja.cc:775`); `Frozen` keeps it away.
* `RegenSound`: the stamp holds the exported, not the original, value of a used
  environment variable (`ninja.cc:668`).
* `NumDepsExact`: a lost decrement of `numDeps` at a circular dependency whose target has
  another dependency too (`exec.go:65`).
* `PrecedenceRight`: `override export X` does not override, since `EvalAssign` compares the combined directives with
  `OVERRIDE` alone (`eval.cc:344`; `testcase/override_export.mk`, with a TODO in its first line); `+=` in a Makefile appends to a
  variable of the command line or to an overriding one; `override +=` leaves a defined variable its origin, so that a later
  assignment of the Makefile replaces it. `Ranked` in `MCMakefile` keeps these out.
* Deadlock of `dep`: an implicit output that is asked for before its parent and also matches a pattern rule
  fails `CHECK(!pattern_rule)` of `FillDepNode` (`dep.cc:242`), because both calls of `PickRule` share
  one variable (`dep.cc:713`, `720`).
* `ScriptRight`: a command that ends in `\;` or in an escaped space loses the last character
  (the trailing trim of `TranslateCommand`, `ninja.cc:318`).
* `OnePhase`: an assignment in a branch that is not taken makes the parser forget the rule before it, so
  that a following line after a tab is no command (`parser.cc:252`; `INTERNALS.md:157-163`
  describes the guess as always repaired by the evaluator).

Met while modelling or in a proof, and kept out of the passing runs' instances:

* a file that appears between `$(wildcard f)` and `include f` and is deleted later: the stamp holds the
  cached answer that it does not exist, and a missing Makefile is not newer than the stamp (`regen.cc:163`);
* the deletion of the file of `$(file <f)` is not noticed (`regen.cc:363`), and a Makefile
  that writes a file and reads it back is regenerated every time;
* a variable set to the empty string and unset later is taken for unchanged
  (`regen.cc:204`), and one that the Makefile uses and unexports causes a regeneration each time;
* `handleNewDep` (`worker.go:280`) does not update `depsTs`, so that a target may be
  skipped although a shared dependency has just been rebuilt;
* `$(file >f)` without text fails after the file was truncated (`func.cc:772`);
* the comment "Environment variables used" is written to `build.ninja` before
  `used_envs_` is filled (`ninja.cc:623`, `664`);
* `IsMissingOutputs` does not look for `env.sh`, which `ninja.sh` needs;
* a target with several commands, killed or failed after the first one wrote the
  output, is up to date for the next run (`exec.cc:103`);
* Makefile: `ifdef` looks at `orig_`, which `+=` does not update; target variables
  ignore that the command line set the variable; a line after a tab that follows `$(eval)` belongs to a
  rule that the eval defined; a malformed `ifeq` in a branch that is not taken breaks the pairing;
* dependency builder: a negative answer of `Exists` is cached, so two match-anything rules may
  depend on the order, and two that produce each other's inputs recurse without
  bound; a pattern rule with two targets overwrites `done_` of a sibling that has a rule of its own
  (`dep.cc:603-613`), and a sibling has no output in the ninja file, which is why `NinjaRight` is
  about graphs without siblings; whether a node is phony is decided by the name it was first
  asked for; prerequisites of a suffix rule get their suffix replaced; a suffix rule with a second output
  that is chosen for a target with variables fails a `CHECK` of `PickRule` (`dep.cc:685`); a prerequisite first planned by a probe gets the variables of the target that probed;
* recipe: a `#` right after `;` or at the start of a continued line, and a line that is continued inside
  single quotes, are read differently by `TranslateCommand` and the shell;
* find: `-prune` of something that is no directory, `a -o b -prune -o c`, pruned directories
  printed although `-print` is given (`find.cc:362`), `cd` to a missing directory followed by `;`, `test -d` of
  a file, a link to a directory that is not searched, a wildcard above a directory that is
  created later, `..` after `cd` through a link, a file replaced by a directory. `.git`, `.repo`
  and changes of the top directory itself are left out deliberately by the code.

In the passing runs, and excepted or not seen by their properties:

* the check runs `$(shell echo ... > f)` again (`regen.cc:411`), although `INTERNALS.md:539-542`
  says that it does not; the file gets the same content, so `CleanCheckKeepsFiles` holds;
* a command that is only a comment and ends in a backslash makes `TranslateCommand` shorten a buffer to which it
  appended nothing (`ninja.cc:320`): it throws `std::length_error`, or takes away the parenthesis of a subshell, and the length of
  the command wraps. The comment at `ninja.cc:263-264` says that a leading comment is stripped out. `ScriptRight` excepts these commands (`CutsTooMuch`) and
  says that kati crashes on no other;
* `X :=$= v` for a variable of the command line marks the discarded value read-only and not the variable, although the comment
  at `parser.cc:232-234` describes `$=` as marking the variable; `ReadonlyKept` is about the marks that are set;
* a goal that no rule makes is written as a default target that ninja may refuse; `FileRight` excepts a goal without a rule.

## 6. Not modelled

* The lexical level of the make language: finding separators and comments, continued lines,
  the splitting of prerequisites, `$(...)` nesting (`parser.cc`, `expr.cc`, `strutil.cc` in part). It
  is text processing without state, covered by unit tests and the test cases.
* The string functions of `func.cc` and `strutil.cc`, automatic variables, deprecated and
  obsolete variables, include with wildcards.
* In the ninja file: depfile extraction, goma, the escaping of names of targets.
* The Go program but its executor: it is the older implementation of what is modelled from
  the C++ source; its saved graph (`serialize.go`) is still open.
* Statistics, logging and flags.

## 7. Plan

1. `NothingToDo` of `Executor` for every graph, stated with the targets that have no commands.
2. *Go saved graph* (`serialize.go`): what makes it stale.
3. *Proofs*: `VarsInherited` for Makefiles in which only targets with commands have variables.
