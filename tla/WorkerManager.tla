--------------------------- MODULE WorkerManager ---------------------------
(***************************************************************************)
(* Go kati's parallel executor (golang/kati/exec.go and worker.go).  The   *)
(* main goroutine walks the dependency graph (makeJobs) and posts one job  *)
(* per target; the worker manager's goroutine (workerManager.Run) counts   *)
(* unfinished dependencies and hands ready jobs to worker goroutines, which*)
(* run the commands and report.  The channels are unbuffered, so a send and*)
(* its receive are one step.  Jobs are named by their target.              *)
(***************************************************************************)
EXTENDS Integers, Sequences, FiniteSets, Functions, FiniteSetsExt

CONSTANTS
    Node,        \* targets of the dependency graph
    Deps,        \* n.Deps of every target, a sequence
    OrderOnlys,  \* n.OrderOnlys of every target
    IsPhony, HasRule, Cmds,  \* phony targets, targets with a rule, with commands
    MayFail,     \* targets whose commands may fail
    MayNotWrite, \* targets whose commands may leave their output alone
    Goals,       \* lists of targets that may be asked for
    InitTs,      \* modification times of the files that exist at first
    Worker,      \* the goroutines of -j N
    Nil          \* a nil *job

NotExist == -2   \* getTimestamp of a missing file

ASSUME GraphAssumption ==
    /\ Nil \notin Node /\ IsFiniteSet(Node)
    /\ Deps \in [Node -> Seq(Node)] /\ OrderOnlys \in [Node -> Seq(Node)]
    /\ IsPhony \subseteq Node /\ HasRule \subseteq Node /\ Cmds \subseteq HasRule
    /\ Goals \subseteq Seq(Node)
    /\ InitTs \subseteq Nat /\ \E t \in InitTs \cup {0} : \A u \in InitTs : u <= t

VARIABLES
    main,      \* the main goroutine: "make", "circular", "wait", "joining", "end"
    stack,     \* its calls of makeJobs: [job, rest], rest still to be visited
    read,      \* the numDeps it has read for neededBy.numDeps--
    done,      \* ex.done: "absent", "nil" or "job"
    numDeps, depsTs, outputTs, id,  \* fields of the jobs
    parents,   \* parents[j][p]: how often p is in j.parents
    wm,        \* workerManager.Run: "loop", "handle", "drain", "join", "exit"
    ready,     \* ready[j]: how often j is in readyQueue
    busy,      \* busyWorkers; the other workers are freeWorkers
    waited,    \* the variable done of workerManager.Run
    jobs, finishCnt, skipCnt,       \* len(wm.jobs) and counters
    err, stopped,                   \* an error was seen, stopChan is closed
    wk,        \* wk[w]: [at, job, res] of worker w
    clock, mtime,                   \* time.Now().Unix(), the files' times
    begun,     \* history: how often a job was handed to a worker
    result     \* history: how the build of a target ended

goVars == <<main, stack, read, done>>
jobVars == <<numDeps, depsTs, outputTs, id, parents>>
wmVars == <<wm, ready, busy, waited, jobs, finishCnt, skipCnt, err, stopped>>
files == <<clock, mtime>>
history == <<begun, result>>
vars == <<goVars, jobVars, wmVars, wk, files, history>>

Exists(n) == mtime[n] # NotExist
Top == stack[Len(stack)]
Popped == SubSeq(stack, 1, Len(stack) - 1)
\* The loop over deps goes on after makeJobs(d, j) returned nil.
Advance == [stack EXCEPT ![Len(stack)].rest = Tail(@)]
-----------------------------------------------------------------------------
(* The main goroutine: Executor.makeJobs.                                  *)

Visiting(state) ==
    main = "make" /\ Top.rest # << >> /\ done[Head(Top.rest)] = state

\* The order-only dependencies of n that do not exist, in their order: the
\* k-th one is the one up to which there are k of them.
Nth(S, k) == CHOOSE i \in S : Cardinality({j \in S : j <= i}) = k
Missing(n) ==
    LET S == {i \in DOMAIN OrderOnlys[n] : ~Exists(OrderOnlys[n][i])} IN
    [k \in 1 .. Cardinality(S) |-> OrderOnlys[n][Nth(S, k)]]

\* Mutant: a job gets its id when it is made.
MutMakeJobId ==
    /\ Visiting("absent")
    /\ LET n == Head(Top.rest)
           missing == Missing(n)
       IN /\ done' = [done EXCEPT ![n] = "nil"]
          /\ id' = [id EXCEPT ![n] = jobs + 1]
          /\ numDeps' = [numDeps EXCEPT ![n] = Len(Deps[n]) + Len(missing)]
          /\ parents' = IF Top.job = Nil THEN parents
                        ELSE [parents EXCEPT ![n][Top.job] = 1]
          /\ stack' = Append(Advance, [job |-> n, rest |-> Deps[n] \o missing])
    /\ UNCHANGED <<main, read, depsTs, outputTs, wmVars, wk, files, history>>

\* A target that is met for the first time gets a job.
MakeJob ==
    /\ Visiting("absent")
    /\ LET n == Head(Top.rest)
           missing == Missing(n)
       IN /\ done' = [done EXCEPT ![n] = "nil"]
          /\ numDeps' = [numDeps EXCEPT ![n] = Len(Deps[n]) + Len(missing)]
          /\ parents' = IF Top.job = Nil THEN parents
                        ELSE [parents EXCEPT ![n][Top.job] = 1]
          /\ stack' = Append(Advance, [job |-> n, rest |-> Deps[n] \o missing])
    /\ UNCHANGED <<main, read, depsTs, outputTs, id, wmVars, wk, files, history>>

\* "Circular dependency dropped": neededBy.numDeps--, which the worker
\* manager does not know of, is a read and a write.
ReadNumDeps ==
    /\ Visiting("nil")
    /\ main' = "circular" /\ read' = numDeps[Top.job]
    /\ UNCHANGED <<stack, done, jobVars, wmVars, wk, files, history>>

WriteNumDeps ==
    /\ main = "circular"
    /\ main' = "make" /\ stack' = Advance
    /\ numDeps' = [numDeps EXCEPT ![Top.job] = read - 1]
    /\ UNCHANGED <<read, done, depsTs, outputTs, id, parents, wmVars, wk, files, history>>

\* A goal that has a job already.
GoalDone ==
    /\ Visiting("job") /\ Top.job = Nil
    /\ stack' = Advance
    /\ UNCHANGED <<main, read, done, jobVars, wmVars, wk, files, history>>

\* Mutant: ReportNewDep waits for the manager even after it has stopped.
MutReportNewDepBlocks ==
    /\ Visiting("job") /\ Top.job # Nil /\ stopped /\ wm = "loop"
    /\ stack' = Advance
    /\ UNCHANGED <<main, read, done, jobVars, wmVars, wk, files, history>>

\* stopChan is closed: ReportNewDep returns, PostJob fails and the error
\* ends all calls of makeJobs.
ReportNewDepStopped ==
    /\ Visiting("job") /\ Top.job # Nil /\ stopped
    /\ stack' = Advance
    /\ UNCHANGED <<main, read, done, jobVars, wmVars, wk, files, history>>

PostJobStopped ==
    /\ main = "make" /\ Top.rest = << >> /\ Top.job # Nil /\ stopped
    /\ main' = "wait" /\ stack' = SubSeq(stack, 1, 1)
    /\ UNCHANGED <<read, done, jobVars, wmVars, wk, files, history>>

\* All goals are posted.
AllPosted ==
    /\ main = "make" /\ Top.rest = << >> /\ Top.job = Nil
    /\ main' = "wait"
    /\ UNCHANGED <<stack, read, done, jobVars, wmVars, wk, files, history>>
-----------------------------------------------------------------------------
(* The worker manager: workerManager.Run.                                  *)

HasTodo == finishCnt # jobs
Looping == HasTodo \/ busy # {} \/ ~waited
Receiving == wm = "loop" /\ Looping

\* Mutants: a job that was handed out is pushed again; a job with one
\* unfinished dependency is pushed.
MutMaybePushAgain(js, nd) ==
    [n \in Node |-> IF n \in js /\ nd[n] <= 0 THEN ready[n] + 1 ELSE ready[n]]
MutMaybePushEarly(js, nd) ==
    [n \in Node |-> IF n \in js /\ nd[n] \in {0, 1} THEN 1 ELSE ready[n]]
\* maybePushToReadyQueue of the jobs in js
MaybePush(js, nd) ==
    [n \in Node |-> IF n \in js /\ nd[n] = 0 THEN ready[n] + 1 ELSE ready[n]]

\* case j := <-wm.jobChan
PostJob ==
    /\ Receiving
    /\ main = "make" /\ Top.rest = << >> /\ Top.job # Nil
    /\ done' = [done EXCEPT ![Top.job] = "job"]
    /\ stack' = Popped
    /\ jobs' = jobs + 1
    /\ id' = [id EXCEPT ![Top.job] = jobs + 1]
    /\ ready' = MaybePush({Top.job}, numDeps)
    /\ wm' = "handle"
    /\ UNCHANGED <<main, read, numDeps, depsTs, outputTs, parents, busy, waited,
                   finishCnt, skipCnt, err, stopped, wk, files, history>>

\* Mutant: a job that was handed out is waited for.
MutHandleNewDepAppend(j, neededBy) ==
    /\ parents' = [parents EXCEPT ![j][neededBy] = @ + 1]
    /\ UNCHANGED numDeps
\* case af := <-wm.newDepChan: a job that was handed out counts as finished.
\* That neededBy.id > 0 does not hold then, which is a panic, is NoPanic.
HandleNewDep(j, neededBy) ==
    IF numDeps[j] < 0
    THEN /\ numDeps' = [numDeps EXCEPT ![neededBy] = @ - 1]
         /\ UNCHANGED parents
    ELSE /\ parents' = [parents EXCEPT ![j][neededBy] = @ + 1]
         /\ UNCHANGED numDeps

NewDep ==
    /\ Receiving
    /\ Visiting("job") /\ Top.job # Nil
    /\ HandleNewDep(Head(Top.rest), Top.job)
    /\ stack' = Advance
    /\ wm' = "handle"
    /\ UNCHANGED <<main, read, done, depsTs, outputTs, id, ready, busy, waited, jobs,
                   finishCnt, skipCnt, err, stopped, wk, files, history>>

\* Mutant: depsTs is not updated.
MutUpdateParentsTs(j) ==
    LET ps == {p \in Node : parents[j][p] > 0} IN
    /\ numDeps' = [p \in Node |-> numDeps[p] - parents[j][p]]
    /\ depsTs' = depsTs
    /\ ready' = MaybePush(ps, numDeps')
\* updateParents
UpdateParents(j) ==
    LET ps == {p \in Node : parents[j][p] > 0} IN
    /\ numDeps' = [p \in Node |-> numDeps[p] - parents[j][p]]
    /\ depsTs' = [p \in Node |-> IF p \in ps /\ depsTs[p] < outputTs[j]
                                 THEN outputTs[j] ELSE depsTs[p]]
    /\ ready' = MaybePush(ps, numDeps')

\* Mutant: err is overwritten by handleJobs.
MutProceedLosesError(res) ==
    /\ err' = FALSE
    /\ stopped' = (res = "error")
    /\ wm' = CASE res # "error"           -> "handle"
               [] res = "error" /\ waited -> "join"
               [] OTHER                   -> "drain"

\* What the manager does after it has seen the result res: an error closes
\* stopChan and ends the loop.
Proceed(res) ==
    /\ err' = (res = "error")
    /\ stopped' = (res = "error")
    /\ wm' = CASE res # "error"           -> "handle"
               [] res = "error" /\ waited -> "join"
               [] OTHER                   -> "drain"

\* case jr := <-wm.resultChan
JobResult(w) ==
    /\ Receiving
    /\ wk[w].at = "report"
    /\ wk' = [wk EXCEPT ![w].at = "idle"]
    /\ busy' = busy \ {w}
    /\ UpdateParents(wk[w].job)
    /\ finishCnt' = finishCnt + 1
    /\ skipCnt' = IF wk[w].res = "nothing" THEN skipCnt + 1 ELSE skipCnt
    /\ Proceed(wk[w].res)
    /\ UNCHANGED <<goVars, outputTs, id, parents, waited, jobs, files, history>>

\* case done = <-wm.waitChan, in the loop or after an error
Wait ==
    /\ main = "wait" /\ main' = "joining"
    /\ waited' = TRUE
    /\ \/ Receiving /\ wm' = "handle"
       \/ wm = "drain" /\ wm' = "join"
    /\ UNCHANGED <<stack, read, done, jobVars, ready, busy, jobs, finishCnt, skipCnt,
                   err, stopped, wk, files, history>>

Free == Worker \ busy
\* Mutant: the worker is not marked busy.
MutDispatchNotBusy(w) ==
    /\ wm = "handle" /\ w \in Free /\ wk[w].at = "idle"
    /\ \E j \in Node :
          /\ ready[j] > 0
          /\ \A k \in Node : ready[k] > 0 => id[j] <= id[k]
          /\ ready' = [ready EXCEPT ![j] = @ - 1]
          /\ numDeps' = [numDeps EXCEPT ![j] = -1]
          /\ wk' = [wk EXCEPT ![w] = [at |-> "build", job |-> j, res |-> "none"]]
          /\ begun' = [begun EXCEPT ![j] = @ + 1]
    /\ UNCHANGED <<goVars, depsTs, outputTs, id, parents, wm, busy, waited, jobs, finishCnt,
                   skipCnt, err, stopped, files, result>>
\* One round of handleJobs: a ready job with the lowest id goes to a free
\* worker.
Dispatch(w) ==
    /\ wm = "handle" /\ w \in Free /\ wk[w].at = "idle"
    /\ \E j \in Node :
          /\ ready[j] > 0
          /\ \A k \in Node : ready[k] > 0 => id[j] <= id[k]
          /\ ready' = [ready EXCEPT ![j] = @ - 1]
          /\ numDeps' = [numDeps EXCEPT ![j] = -1]
          /\ wk' = [wk EXCEPT ![w] = [at |-> "build", job |-> j, res |-> "none"]]
          /\ begun' = [begun EXCEPT ![j] = @ + 1]
    /\ busy' = busy \cup {w}
    /\ UNCHANGED <<goVars, depsTs, outputTs, id, parents, wm, waited, jobs, finishCnt,
                   skipCnt, err, stopped, files, result>>

\* handleJobs returns.
Handled ==
    /\ wm = "handle"
    /\ Free = {} \/ \A j \in Node : ready[j] = 0
    /\ wm' = "loop"
    /\ UNCHANGED <<goVars, jobVars, ready, busy, waited, jobs, finishCnt, skipCnt, err,
                   stopped, wk, files, history>>

\* The loop ends, the workers are told to stop, free ones first.
LoopEnds ==
    /\ wm = "loop" /\ ~Looping
    /\ wm' = "join"
    /\ UNCHANGED <<goVars, jobVars, ready, busy, waited, jobs, finishCnt, skipCnt, err,
                   stopped, wk, files, history>>

Join(w) ==
    /\ wm = "join" /\ wk[w].at = "idle"
    /\ w \in busy => \A x \in Free : wk[x].at = "quit"
    /\ wk' = [wk EXCEPT ![w].at = "quit"]
    /\ UNCHANGED <<goVars, jobVars, wmVars, files, history>>

AllJoined ==
    /\ wm = "join" /\ \A w \in Worker : wk[w].at = "quit"
    /\ main = "joining" /\ main' = "end"
    /\ wm' = "exit"
    /\ UNCHANGED <<stack, read, done, jobVars, ready, busy, waited, jobs, finishCnt,
                   skipCnt, err, stopped, wk, files, history>>
-----------------------------------------------------------------------------
(* A worker: worker.Run and job.build.                                     *)

Ended(w, res) ==
    /\ wk' = [wk EXCEPT ![w].at = "report", ![w].res = res]
    /\ result' = [result EXCEPT ![wk[w].job] = res]

\* How job.build goes on when the output has time ts.
Decide(j, ts) ==
    CASE j \notin HasRule -> IF ts >= 0 \/ j \in IsPhony THEN "nothing" ELSE "error"
      [] j \in HasRule /\ ts >= depsTs[j] -> "nothing"
      [] j \in HasRule /\ ts < depsTs[j]  -> IF j \in Cmds THEN "run" ELSE "nothing"

Build(w) ==
    /\ wk[w].at = "build"
    /\ LET j == wk[w].job
           ts == IF j \in IsPhony THEN NotExist ELSE mtime[j]
           d == Decide(j, ts)
       IN /\ outputTs' = [outputTs EXCEPT ![j] = ts]
          /\ IF d = "run"
             THEN wk' = [wk EXCEPT ![w].at = "run"] /\ UNCHANGED result
             ELSE Ended(w, d)
    /\ UNCHANGED <<goVars, numDeps, depsTs, id, parents, wmVars, files, begun>>

\* The commands end, in this second or in the next one.
Run(w) ==
    /\ wk[w].at = "run"
    /\ LET j == wk[w].job IN
       /\ clock' \in {clock, clock + 1}
       /\ \/ mtime' = [mtime EXCEPT ![j] = IF j \in IsPhony THEN @ ELSE clock']
          \/ j \in MayNotWrite /\ UNCHANGED mtime
       /\ \/ /\ Ended(w, "built")
             /\ outputTs' = [outputTs EXCEPT ![j] =
                   IF j \in IsPhony \/ mtime'[j] = NotExist THEN clock' ELSE mtime'[j]]
          \/ /\ j \in MayFail /\ Ended(w, "error")
             /\ UNCHANGED outputTs
    /\ UNCHANGED <<goVars, numDeps, depsTs, id, parents, wmVars, begun>>

\* ReportResult after stopChan was closed
ReportStopped(w) ==
    /\ wk[w].at = "report" /\ stopped
    /\ wk' = [wk EXCEPT ![w].at = "idle"]
    /\ UNCHANGED <<goVars, jobVars, wmVars, files, history>>
-----------------------------------------------------------------------------
Init ==
    /\ main = "make" /\ read = 0
    /\ \E goals \in Goals : stack = <<[job |-> Nil, rest |-> goals]>>
    /\ done = [n \in Node |-> "absent"]
    /\ numDeps = [n \in Node |-> 0]
    /\ depsTs = [n \in Node |-> -1]
    /\ outputTs = [n \in Node |-> 0]
    /\ id = [n \in Node |-> 0]
    /\ parents = [n \in Node |-> [p \in Node |-> 0]]
    /\ wm = "loop" /\ ready = [n \in Node |-> 0] /\ busy = {} /\ waited = FALSE
    /\ jobs = 0 /\ finishCnt = 0 /\ skipCnt = 0
    /\ err = FALSE /\ stopped = FALSE
    /\ wk = [w \in Worker |-> [at |-> "idle", job |-> Nil, res |-> "none"]]
    /\ mtime \in [Node -> InitTs \cup {NotExist}]
    /\ \A n \in IsPhony : mtime[n] = NotExist
    /\ clock = 1 + Max(InitTs \cup {0})
    /\ begun = [n \in Node |-> 0]
    /\ result = [n \in Node |-> "none"]

Main == MakeJob \/ ReadNumDeps \/ WriteNumDeps \/ GoalDone \/ ReportNewDepStopped
        \/ PostJobStopped \/ AllPosted
Manager ==
    \/ PostJob \/ NewDep \/ Wait \/ Handled \/ LoopEnds \/ AllJoined
    \/ \E w \in Worker : JobResult(w) \/ Dispatch(w) \/ Join(w)
Work(w) == Build(w) \/ Run(w) \/ ReportStopped(w)
Next == Main \/ Manager \/ \E w \in Worker : Work(w)
Spec == Init /\ [][Next]_vars

\* The Go scheduler runs a goroutine that can run, and commands end.
FairSpec == Spec /\ WF_vars(Next)
-----------------------------------------------------------------------------
(* Properties.                                                             *)

\* A worker with a job in its hands is in busyWorkers until the manager has
\* received its result.
HoldersBusy ==
    \A w \in Worker : wk[w].at \in {"build", "run", "report"} =>
        w \in busy /\ wk[w].job \in Node

\* Types of the state.
TypeOK ==
    /\ main \in {"make", "circular", "wait", "joining", "end"}
    /\ stack \in Seq([job : Node \cup {Nil}, rest : Seq(Node)]) /\ stack # << >>
    /\ read \in Int
    /\ done \in [Node -> {"absent", "nil", "job"}]
    /\ numDeps \in [Node -> Int] /\ depsTs \in [Node -> Int]
    /\ outputTs \in [Node -> Int] /\ id \in [Node -> Nat]
    /\ parents \in [Node -> [Node -> Nat]]
    /\ wm \in {"loop", "handle", "drain", "join", "exit"}
    /\ ready \in [Node -> Nat] /\ busy \subseteq Worker
    /\ waited \in BOOLEAN /\ err \in BOOLEAN /\ stopped \in BOOLEAN
    /\ jobs \in Nat /\ finishCnt \in Nat /\ skipCnt \in Nat
    /\ wk \in [Worker -> [at : {"idle", "build", "run", "report", "quit"},
                          job : Node \cup {Nil},
                          res : {"none", "nothing", "built", "error"}]]
    /\ clock \in Nat /\ mtime \in [Node -> Nat \cup {NotExist}]
    /\ begun \in [Node -> Nat]
    /\ result \in [Node -> {"none", "nothing", "built", "error"}]
    /\ HoldersBusy

\* Every job is handed to a worker at most once ("Do not let other workers
\* pick this"), although it may become ready before main has posted it.
RunsOnce == \A n \in Node : begun[n] <= 1

\* A job in a worker's hands has all its dependencies built without error;
\* an order-only dependency may exist already instead.
Built(d) == result[d] \in {"nothing", "built"}
DepsFirst ==
    \A w \in Worker : wk[w].at \in {"build", "run"} =>
        LET n == wk[w].job IN
        /\ \A d \in Range(Deps[n]) : Built(d)
        /\ \A d \in Range(OrderOnlys[n]) : Built(d) \/ Exists(d)

\* When no target is shared the three goroutines keep what a build promises:
\* a target is begun once and made, or failed, only after its dependencies.
\* A job that main has made is begun; it is at work while a worker runs it.
Running(n) == \E w \in Worker : wk[w].at = "run" /\ wk[w].job = n
BuildState ==
    [n \in Node |-> CASE result[n] = "error" -> "failed"
                      [] Built(n) -> "made"
                      [] Running(n) -> "working"
                      [] done[n] = "absent" -> "idle"
                      [] OTHER -> "begun"]
There == {n \in Node : Exists(n)}
B == INSTANCE Build WITH state <- BuildState, there <- There
Implements == B!Spec

\* numDeps of a job that has not been handed out is exactly the number of
\* dependencies that main has still to visit and of children whose result
\* is still to come: no decrement is lost or done twice.
Held(j) == \E w \in Worker : wk[w].at \in {"build", "run", "report"} /\ wk[w].job = j
Finished(j) == numDeps[j] < 0 /\ ~Held(j)
Unvisited(j) == UNION {DOMAIN stack[i].rest : i \in {i \in DOMAIN stack : stack[i].job = j}}
Pending(j) == UNION {{d} \X (1 .. parents[d][j]) : d \in {d \in Node : ~Finished(d)}}
NumDepsExact ==
    ~stopped => \A j \in Node :
        done[j] # "absent" /\ begun[j] = 0 =>
            numDeps[j] = Cardinality(Unvisited(j)) + Cardinality(Pending(j))

\* handleNewDep's panic("FIXME: already in WM... can this happen?") cannot
\* happen: a job that gets a new dependency has never been posted, even if
\* it has already become ready.
NoPanic ==
    Visiting("job") /\ Top.job # Nil /\ numDeps[Head(Top.rest)] < 0 => id[Top.job] = 0

\* Exec's error is right: it is an error if and only if some job failed,
\* whatever else failed or finished at the same time, and without an error
\* every dependency of what was built is built, and the number of jobs that
\* were not skipped is the number of targets whose commands ran.
Made == {n \in Node : done[n] # "absent"}
ResultRight ==
    main = "end" =>
        /\ err <=> \E n \in Node : result[n] = "error"
        /\ ~err =>
             /\ \A n \in Made : Built(n) /\ \A d \in Range(Deps[n]) : d \in Made
             /\ finishCnt - skipCnt = Cardinality({n \in Node : result[n] = "built"})

\* After a successful build no target is out of date: its commands ran, or
\* it is not older than its dependencies, whose commands did not run unless
\* they have a file.
UpToDate ==
    main = "end" /\ ~err =>
        \A n \in Made \cap Cmds : result[n] = "built" \/
            \A d \in Range(Deps[n]) :
                IF Exists(d) THEN mtime[d] <= mtime[n] ELSE result[d] # "built"

\* Exec returns, whatever fails.
BuildEnds == <>(main = "end")
=============================================================================
