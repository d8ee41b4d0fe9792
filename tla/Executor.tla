------------------------------ MODULE Executor ------------------------------
(***************************************************************************)
(* ckati without --ninja: the sequential executor of exec.cc and the three *)
(* uses main.cc makes of it.  A run makes the Makefiles, then the optional *)
(* ones, starts over with execv if a command ran for them, and makes the   *)
(* goals.  ExecNode is recursive: stack holds its calls, and done is the   *)
(* map done_ of the current Executor.  Between runs the user edits files,  *)
(* and a run may be killed between any two steps.                          *)
(***************************************************************************)
EXTENDS Integers, Sequences

CONSTANTS
    Node,               \* targets and files
    Deps, OrderOnlys,   \* n.deps and n.order_onlys, sequences
    IsPhony, HasRule,   \* sets of targets
    NumCmds,            \* how many commands n has after CommandEvaluator::Eval
    MayFail,            \* targets with a command whose failure is an error
    MayNotWrite,        \* targets whose commands may succeed, or have their
                        \* error ignored, without writing the target
    Makefiles, OptMakefiles,            \* ev.makefiles(), ev.optional_makefiles()
    Goals,              \* lists of targets a user may ask for
    Source,             \* files that the user may edit
    InitFiles,          \* sets of files that may exist at first
    MaxRuns, MaxEdits   \* bounds

NotExist == -2
Processing == -1        \* kProcessing
Absent == -3            \* not in done_

ASSUME GraphAssumption ==
    /\ Deps \in [Node -> Seq(Node)] /\ OrderOnlys \in [Node -> Seq(Node)]
    /\ IsPhony \subseteq Node /\ HasRule \subseteq Node /\ Source \subseteq Node
    /\ NumCmds \in [Node -> Nat]
    /\ MayFail \subseteq Node /\ MayNotWrite \subseteq Node
    /\ Makefiles \in Seq(Node) /\ OptMakefiles \in Seq(Node)
    /\ Goals \subseteq Seq(Node)
    /\ InitFiles \subseteq SUBSET Node
    /\ MaxRuns \in Nat /\ MaxEdits \in Nat

VARIABLES
    phase,    \* "idle", "makefiles", "optional", "goals"
    goals,    \* the targets of this run
    dry,      \* g_flags.is_dry_run
    todo,     \* roots that Exec has still to make
    stack,    \* calls of ExecNode
    done,     \* done_
    count,    \* num_commands_ of this Executor
    updated,  \* updated_makefiles
    clock, mtime,
    outcome,  \* how the last run ended
    settled,  \* the goals of the last run if it ended well and nothing was
              \* edited since, or << >>
    runs, edits

proc == <<goals, dry, updated>>
files == <<clock, mtime>>
ghosts == <<outcome, settled, runs, edits>>
vars == <<phase, proc, todo, stack, done, count, files, ghosts>>

Exists(n) == mtime[n] # NotExist
Depth == Len(stack)
Top == stack[Depth]

\* Mutant of Visits: the loop stops one dependency short.
MutVisitsShort(n) ==
    [i \in DOMAIN OrderOnlys[n] |-> [node |-> OrderOnlys[n][i], order |-> TRUE]]
    \o [i \in 1 .. Len(Deps[n]) - 1 |-> [node |-> Deps[n][i], order |-> FALSE]]

\* The calls that ExecNode(n) makes: order_onlys, then deps.
Visit(n, order) == [node |-> n, order |-> order]
Visits(n) ==
    [i \in DOMAIN OrderOnlys[n] |-> Visit(OrderOnlys[n][i], TRUE)]
    \o [i \in DOMAIN Deps[n] |-> Visit(Deps[n][i], FALSE)]
-----------------------------------------------------------------------------
(* ExecNode.                                                               *)

\* The caller goes on with the result ts: latest is the maximum.
Resume(stk, ts) ==
    IF stk = << >> THEN stk
    ELSE [stk EXCEPT ![Len(stk)].rest = Tail(@),
                     ![Len(stk)].latest = IF @ < ts THEN ts ELSE @]
ResumeRoots(stk) == IF stk = << >> THEN Tail(todo) ELSE todo

\* ExecNode of v is called: by a frame that has visits left, or by Exec.
Calling ==
    /\ phase # "idle"
    /\ IF stack = << >> THEN todo # << >> ELSE Top.rest # << >>
Called == IF stack = << >> THEN Visit(Head(todo), FALSE) ELSE Head(Top.rest)

\* An order-only dependency that exists is skipped.
SkipOrderOnly ==
    /\ Calling /\ Called.order /\ Exists(Called.node)
    /\ stack' = [stack EXCEPT ![Depth].rest = Tail(@)]
    /\ UNCHANGED <<phase, proc, todo, done, count, files, ghosts>>

Entering == Calling /\ ~(Called.order /\ Exists(Called.node))

\* Mutant of Revisit: a target that was made before counts as made just now.
MutRevisitNow ==
    /\ Entering /\ done[Called.node] # Absent
    /\ stack' = Resume(stack, clock + 1)
    /\ todo' = ResumeRoots(stack)
    /\ UNCHANGED <<phase, proc, done, count, files, ghosts>>

\* A target that is in done_, also one that is being processed.
Revisit ==
    /\ Entering /\ done[Called.node] # Absent
    /\ stack' = Resume(stack, done[Called.node])
    /\ todo' = ResumeRoots(stack)
    /\ UNCHANGED <<phase, proc, done, count, files, ghosts>>

\* "No rule to make target": an error unless the Makefile is optional.
NoRule(n) == n \notin HasRule /\ ~Exists(n) /\ n \notin IsPhony /\ phase # "optional"

\* Mutants of Enter: done_ is not marked, and latest starts at kNotExist.
EnterWith(d, latest) ==
    /\ Entering /\ done[Called.node] = Absent /\ ~NoRule(Called.node)
    /\ done' = d
    /\ stack' = Append(stack, [node |-> Called.node, ts |-> mtime[Called.node],
                               latest |-> latest, rest |-> Visits(Called.node), cmds |-> -1])
    /\ UNCHANGED <<phase, proc, todo, count, files, ghosts>>
MutEnterUnmarked == EnterWith(done, Processing)
MutEnterLatest == EnterWith([done EXCEPT ![Called.node] = Processing], NotExist)

Enter ==
    /\ Entering /\ done[Called.node] = Absent /\ ~NoRule(Called.node)
    /\ LET n == Called.node IN
       /\ done' = [done EXCEPT ![n] = Processing]
       /\ stack' = Append(stack, [node |-> n, ts |-> mtime[n], latest |-> Processing,
                                  rest |-> Visits(n), cmds |-> -1])
    /\ UNCHANGED <<phase, proc, todo, count, files, ghosts>>

\* The process ends; what it had in memory is gone.
Stop(o) ==
    /\ phase' = "idle" /\ outcome' = o
    /\ todo' = << >> /\ stack' = << >>
    /\ done' = [n \in Node |-> Absent] /\ count' = 0

NoRuleError ==
    /\ Entering /\ done[Called.node] = Absent /\ NoRule(Called.node)
    /\ Stop("error") /\ settled' = << >>
    /\ UNCHANGED <<proc, files, runs, edits>>

\* All dependencies are made: cmds is -1 until the target is found dirty.
Made == phase # "idle" /\ stack # << >> /\ Top.rest = << >>

Return(ts) ==
    LET stk == SubSeq(stack, 1, Depth - 1) IN
    /\ done' = [done EXCEPT ![Top.node] = ts]
    /\ stack' = Resume(stk, ts)
    /\ todo' = ResumeRoots(stk)

\* Mutant of IsUpToDate: it is enough that the output exists.
MutIsUpToDateExists(f) == f.ts # NotExist /\ f.node \notin IsPhony

IsUpToDate(f) == f.ts >= f.latest /\ f.node \notin IsPhony

UpToDate ==
    /\ Made /\ Top.cmds = -1 /\ IsUpToDate(Top)
    /\ Return(Top.ts)
    /\ UNCHANGED <<phase, proc, count, files, ghosts>>

EvalCommands ==
    /\ Made /\ Top.cmds = -1 /\ ~IsUpToDate(Top)
    /\ stack' = [stack EXCEPT ![Depth].cmds = NumCmds[Top.node]]
    /\ UNCHANGED <<phase, proc, todo, done, count, files, ghosts>>

\* A command that is run writes the output now, or leaves it alone.
Wrote(n) ==
    /\ clock' = clock + 1
    /\ \/ n \notin IsPhony /\ mtime' = [mtime EXCEPT ![n] = clock + 1]
       \/ n \in IsPhony \cup MayNotWrite /\ UNCHANGED mtime

RunCommand ==
    /\ Made /\ Top.cmds > 0
    /\ count' = count + 1
    /\ stack' = [stack EXCEPT ![Depth].cmds = @ - 1]
    /\ IF dry THEN UNCHANGED files ELSE Wrote(Top.node)
    /\ UNCHANGED <<phase, proc, todo, done, ghosts>>

\* A command fails, having written the output or not: exit(1).
RunCommandError ==
    /\ Made /\ Top.cmds > 0 /\ ~dry
    /\ Top.node \in MayFail
    /\ clock' = clock + 1
    /\ mtime' \in {mtime, [mtime EXCEPT ![Top.node] = clock + 1]}
    /\ Stop("error") /\ settled' = << >>
    /\ UNCHANGED <<proc, runs, edits>>

\* The output's time is the time of day, later than that of any file.
Finish ==
    /\ Made /\ Top.cmds = 0
    /\ Return(clock + 1)
    /\ UNCHANGED <<phase, proc, count, files, ghosts>>
-----------------------------------------------------------------------------
(* main.cc: Run.                                                           *)

\* Exec has made all its roots; the next Exec has a new Executor.
NextExec(p, roots) ==
    /\ phase' = p /\ todo' = roots
    /\ stack' = << >> /\ done' = [n \in Node |-> Absent] /\ count' = 0

ExecEnds(p) == phase = p /\ stack = << >> /\ todo = << >>

\* Mutant of MakefilesMade: it starts over whether or not a command ran.
MutMakefilesMadeAlways ==
    /\ ExecEnds("makefiles")
    /\ updated' = TRUE
    /\ NextExec("optional", OptMakefiles)
    /\ UNCHANGED <<goals, dry, files, ghosts>>

MakefilesMade ==
    /\ ExecEnds("makefiles")
    /\ updated' = (count # 0)
    /\ NextExec("optional", OptMakefiles)
    /\ UNCHANGED <<goals, dry, files, ghosts>>

\* "Starting over.": execv of the same arguments
StartOver ==
    /\ ExecEnds("optional") /\ (updated \/ count # 0)
    /\ updated' = FALSE
    /\ NextExec("makefiles", Makefiles)
    /\ UNCHANGED <<goals, dry, files, ghosts>>

MakeGoals ==
    /\ ExecEnds("optional") /\ ~(updated \/ count # 0)
    /\ NextExec("goals", goals)
    /\ UNCHANGED <<proc, files, ghosts>>

Exit ==
    /\ ExecEnds("goals")
    /\ phase' = "idle" /\ outcome' = "ok"
    /\ settled' = IF dry THEN << >> ELSE goals
    /\ UNCHANGED <<proc, todo, stack, done, count, files, runs, edits>>
-----------------------------------------------------------------------------
(* The environment.                                                        *)

Start ==
    /\ phase = "idle" /\ runs < MaxRuns
    /\ runs' = runs + 1
    /\ goals' \in Goals /\ dry' \in BOOLEAN
    /\ updated' = FALSE /\ outcome' = "none"
    /\ NextExec("makefiles", Makefiles)
    /\ UNCHANGED <<files, settled, edits>>

Kill ==
    /\ phase # "idle"
    /\ Stop("killed") /\ settled' = << >>
    /\ UNCHANGED <<proc, files, runs, edits>>

Edit ==
    /\ phase = "idle" /\ edits < MaxEdits
    /\ edits' = edits + 1
    /\ clock' = clock + 1
    /\ \E n \in Source : mtime' = [mtime EXCEPT ![n] = clock + 1]
    /\ outcome' = "none" /\ settled' = << >>
    /\ UNCHANGED <<phase, proc, todo, stack, done, count, runs>>

Init ==
    /\ phase = "idle" /\ goals = << >> /\ dry = FALSE /\ updated = FALSE
    /\ todo = << >> /\ stack = << >>
    /\ done = [n \in Node |-> Absent] /\ count = 0
    /\ clock = 0
    /\ \E f \in InitFiles : mtime = [n \in Node |-> IF n \in f THEN 0 ELSE NotExist]
    /\ outcome = "none" /\ settled = << >> /\ runs = 0 /\ edits = 0

ExecNode ==
    \/ SkipOrderOnly \/ Revisit \/ Enter \/ NoRuleError \/ UpToDate \/ EvalCommands
    \/ RunCommand \/ RunCommandError \/ Finish
Run == MakefilesMade \/ StartOver \/ MakeGoals \/ Exit
Next == ExecNode \/ Run \/ Start \/ Kill \/ Edit

Spec == Init /\ [][Next]_vars

\* A kati process runs, and the commands it waits for end.
FairSpec == Spec /\ WF_vars(ExecNode \/ Run)
-----------------------------------------------------------------------------
(* Properties.                                                             *)

\* Types of the state; a target that was made always has a time in done_.
Frame == [node : Node, ts : Nat \cup {NotExist}, latest : Nat \cup {Processing},
          rest : Seq([node : Node, order : BOOLEAN]), cmds : Nat \cup {-1}]
TypeOK ==
    /\ phase \in {"idle", "makefiles", "optional", "goals"}
    /\ goals \in Seq(Node) /\ settled \in Seq(Node) /\ todo \in Seq(Node)
    /\ dry \in BOOLEAN /\ updated \in BOOLEAN
    /\ stack \in Seq(Frame)
    /\ done \in [Node -> Nat \cup {Processing, Absent}]
    /\ count \in Nat /\ clock \in Nat /\ runs \in Nat /\ edits \in Nat
    /\ mtime \in [Node -> Nat \cup {NotExist}]
    /\ outcome \in {"none", "ok", "error", "killed"}

\* The recursion is sound: a target is in the middle of being made exactly
\* when one, and only one, call of ExecNode is making it, so that a circular
\* dependency is dropped instead of making a target within itself.
ProcessingIsOnStack ==
    /\ \A n \in Node : done[n] = Processing <=> \E i \in DOMAIN stack : stack[i].node = n
    /\ \A i, j \in DOMAIN stack : stack[i].node = stack[j].node => i = j

\* ExecNode keeps what a build promises: a target is made once by an
\* Executor, its commands run after everything it depends on was made, and
\* only a dependency that is circular is dropped.
Making(n) == \E i \in DOMAIN stack : stack[i].node = n /\ stack[i].cmds >= 0
BuildState ==
    [n \in Node |-> CASE done[n] = Absent -> "idle"
                      [] done[n] = Processing -> IF Making(n) THEN "working" ELSE "begun"
                      [] OTHER -> "made"]
There == {n \in Node : Exists(n)}
B == INSTANCE Build WITH state <- BuildState, there <- There
Implements == B!Spec

\* When a run ends well, a target that was found up to date, so that done_
\* holds the time of its file, is not older than anything it depends on: but
\* for a circular dependency, which is made after it.
Fresh ==
    phase = "idle" /\ outcome = "ok" =>
        \A n \in Node : done[n] = mtime[n] =>
            \A i \in DOMAIN Deps[n] : \/ mtime[Deps[n][i]] <= mtime[n]
                                      \/ B!Circular(n, Deps[n][i])

\* Building again does nothing: in a run for the same goals as the last one,
\* which ended well, with no edit in between, a command runs only for a
\* phony target, for one whose commands need not write it, or because a
\* dependency is of that kind, has no file or has been written since.
Restless(n, ts) == n \in IsPhony \cup MayNotWrite \/ ~Exists(n) \/ mtime[n] > ts
NothingToDo ==
    [][count' = count + 1 /\ settled = goals /\ goals # << >> =>
        \/ Top.node \in IsPhony \cup MayNotWrite
        \/ \E i \in DOMAIN Visits(Top.node) : Restless(Visits(Top.node)[i].node, Top.ts)]_vars

\* A run ends: kati starts over only finitely often when the commands for
\* Makefiles write them.
RunEnds == phase # "idle" /\ ~dry ~> phase = "idle"
=============================================================================
