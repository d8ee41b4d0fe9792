------------------------ MODULE WorkerManagerProofs ------------------------
(***************************************************************************)
(* Proofs about WorkerManager: types and NoPanic for every graph; and, for *)
(* every acyclic graph, that numDeps is exact, that a job is handed out    *)
(* once and that Exec's result is right.                                   *)
(***************************************************************************)
EXTENDS WorkerManager, SequenceTheorems, FiniteSetTheorems, TLAPS

Call == [job : Node \cup {Nil}, rest : Seq(Node)]
Making == main \in {"make", "circular"}
Holding(w) == wk[w].at \in {"build", "run", "report"}

-----------------------------------------------------------------------------
(* The invariant for every graph.                                          *)

\* The calls of makeJobs: the first is for the goals, every other is for a
\* job of its own that is not posted.
CallsAre(stk) ==
    /\ \A i \in 1 .. Len(stk) : stk[i].job = Nil <=> i = 1
    /\ \A i, j \in 1 .. Len(stk) : stk[i].job = stk[j].job => i = j
OnCall(stk, n) == \E i \in 1 .. Len(stk) : stk[i].job = n
NotPosted ==
    /\ Making => \A n \in Node : done[n] = "nil" <=> OnCall(stack, n)
    /\ ~Making => Len(stack) = 1 /\ ((\E n \in Node : done[n] = "nil") => stopped)
Circling == main = "circular" => Top.rest # << >> /\ Top.job # Nil
Posted == \A n \in Node : id[n] > 0 <=> done[n] = "job"
HeldIsJob == \A w \in Worker : Holding(w) => wk[w].job \in Node
Stops == stopped => wm \in {"drain", "join", "exit"}

Shape ==
    /\ TypeOK /\ CallsAre(stack) /\ NotPosted /\ Circling /\ Posted /\ HeldIsJob /\ Stops

-----------------------------------------------------------------------------
(* The invariant for acyclic graphs.                                       *)

Acyclic == \A n \in Node : \A d \in B!Succ(n) : ~B!Circular(n, d)

\* A call is for something that all the calls below it depend on.
CallsReach ==
    Making =>
    /\ main = "make"
    /\ \A i, j \in 2 .. Len(stack) : i <= j => B!Circular(stack[j].job, stack[i].job)
    /\ \A i \in 2 .. Len(stack) : Range(stack[i].rest) \subseteq B!Succ(stack[i].job)

\* What a job waits for, as a function of the calls and of parents: visits
\* that are still to come, and results of children that are open.
HeldIn(ws, d) == \E w \in Worker : ws[w].at \in {"build", "run", "report"} /\ ws[w].job = d
OpenIn(nd, ws) == {d \in Node : ~(nd[d] < 0 /\ ~HeldIn(ws, d))}
UnvisitedIn(stk, j) == UNION {DOMAIN stk[i].rest : i \in {i \in DOMAIN stk : stk[i].job = j}}
PendingIn(par, open, j) == UNION {{d} \X (1 .. par[d][j]) : d \in open}
Open == OpenIn(numDeps, wk)
Exact ==
    \A j \in Node : done[j] # "absent" /\ begun[j] = 0 =>
        numDeps[j] = Cardinality(UnvisitedIn(stack, j)) + Cardinality(PendingIn(parents, Open, j))

\* A job that main has not met.
Unmet ==
    \A n \in Node : done[n] = "absent" =>
        /\ begun[n] = 0 /\ numDeps[n] = 0 /\ ready[n] = 0
        /\ \A d \in Node : parents[d][n] = 0 /\ parents[n][d] = 0

\* A job that was handed out waits for nothing, nor does one that is ready.
Handed ==
    \A n \in Node : begun[n] > 0 =>
        numDeps[n] = -1 /\ PendingIn(parents, Open, n) = {} /\ UnvisitedIn(stack, n) = {}
Pushed == \A n \in Node : ready[n] > 0 => ready[n] = 1 /\ begun[n] = 0 /\ numDeps[n] = 0

\* Every call waits for the one above it; so, when the job of a call waits
\* for nothing, the jobs of all calls above it are finished.
CallsWait ==
    Making =>
    /\ \A i, j \in 2 .. Len(stack) : j = i + 1 => parents[stack[j].job][stack[i].job] > 0
    /\ \A i, j \in 2 .. Len(stack) :
          i < j /\ numDeps[stack[i].job] <= 0 => stack[j].job \notin Open

Tally == Exact /\ Unmet /\ Handed /\ Pushed /\ CallsWait

\* A job that is ready before it is posted is handed out at once.
Early(n) == ready[n] > 0 /\ done[n] = "nil"
EarlyIsNext ==
    /\ wm = "loop" => \A n \in Node : ~Early(n)
    /\ wm = "handle" /\ (\E n \in Node : Early(n)) => Free # {}

\* The manager knows which workers are busy; the loop ends when none is.
Busy ==
    /\ \A w \in Worker : w \in busy <=> Holding(w)
    /\ wm # "drain" /\ (wm \in {"join", "exit"} => busy = {} /\ finishCnt = jobs)

\* A job is in the hands of one worker.
HeldOnce ==
    /\ \A w \in Worker : Holding(w) => begun[wk[w].job] > 0
    /\ \A w, x \in Worker : Holding(w) /\ Holding(x) /\ wk[w].job = wk[x].job => w = x

Waiting ==
    CallsReach /\ HeldOnce /\ RunsOnce /\ (~stopped => Tally /\ EarlyIsNext /\ Busy)

-----------------------------------------------------------------------------
(* The invariant for the result.                                           *)

Results ==
    /\ err = stopped
    /\ \A w \in Worker : wk[w].at = "report" => result[wk[w].job] = wk[w].res /\ wk[w].res # "none"
    /\ \A w \in Worker : wk[w].at \in {"build", "run"} => result[wk[w].job] = "none"
    /\ \A n \in Node : begun[n] = 0 => result[n] = "none"
    /\ \A n \in Node : begun[n] > 0 /\ result[n] = "none" => Held(n)
    /\ err => \E n \in Node : result[n] = "error"
    /\ ~stopped => \A n \in Node : result[n] = "error" => Held(n)
Closed == Node \ Open
Counts ==
    /\ jobs = Cardinality({n \in Node : done[n] = "job"})
    /\ ~stopped => /\ finishCnt = Cardinality(Closed)
                   /\ skipCnt = Cardinality({n \in Closed : result[n] = "nothing"})
Ends == main = "end" => wm = "exit"
Visited ==
    ~stopped => \A n \in Node : done[n] # "absent" => \A d \in Range(Deps[n]) :
        done[d] # "absent" \/ \E i \in 1 .. Len(stack) : stack[i].job = n /\ d \in Range(stack[i].rest)

Finishing == Results /\ Counts /\ Ends /\ Visited

-----------------------------------------------------------------------------
(* The order-only dependencies that do not exist.                          *)

\* The rank of a number in a finite set, from 1 on.
Rank(S, i) == Cardinality({j \in S : j <= i})

\* No two have the same rank.
LEMMA RankIs ==
    ASSUME NEW m \in Nat, NEW S \in SUBSET (1 .. m)
    PROVE  /\ IsFiniteSet(S) /\ Cardinality(S) \in Nat
           /\ \A i \in S : Rank(S, i) \in 1 .. Cardinality(S)
           /\ \A i, j \in S : Rank(S, i) = Rank(S, j) => i = j
  <1> DEFINE Below(i) == {j \in S : j <= i}
  <1>1. IsFiniteSet(S)
    <2>1. IsFiniteSet(1 .. m)
      BY FS_Interval
    <2> QED BY <2>1, FS_Subset
  <1>2. PICK c \in Nat : c = Cardinality(S)
    BY <1>1, FS_CardinalityType
  <1>3. ASSUME NEW i \in S
        PROVE  /\ IsFiniteSet(Below(i)) /\ Cardinality(Below(i)) \in 1 .. c
    <2>1. Below(i) \in SUBSET S /\ Below(i) # {}
      OBVIOUS
    <2>2. IsFiniteSet(Below(i)) /\ Cardinality(Below(i)) <= c
      BY <1>1, <1>2, <2>1, FS_Subset
    <2>3. Cardinality(Below(i)) \in Nat /\ Cardinality(Below(i)) # 0
      BY <2>1, <2>2, FS_CardinalityType, FS_EmptySet
    <2> QED BY <1>2, <2>2, <2>3
  <1>4. ASSUME NEW i \in S, NEW j \in S, i < j
        PROVE  Cardinality(Below(i)) # Cardinality(Below(j))
    <2>1. Below(i) \in SUBSET Below(j) /\ Below(i) # Below(j)
      <3>1. j \in Below(j) /\ j \notin Below(i)
        BY <1>4
      <3>2. \A l \in S : l <= i => l <= j
        BY <1>4
      <3> QED BY <3>1, <3>2
    <2> HIDE DEF Below
    <2> QED BY <1>3, <2>1, FS_Subset
  <1>5. \A i \in S : Rank(S, i) = Cardinality(Below(i))
    BY DEF Rank
  <1> HIDE DEF Below
  <1>6. \A i \in S : Rank(S, i) \in 1 .. c
    BY <1>3, <1>5
  <1>7. ASSUME NEW i \in S, NEW j \in S, Rank(S, i) = Rank(S, j)
        PROVE  i = j
    <2>1. ~(i < j) /\ ~(j < i)
      BY <1>4, <1>5, <1>7
    <2> QED BY <2>1
  <1> QED BY <1>1, <1>2, <1>6, <1>7

\* Nth is the inverse of the rank.
LEMMA NthIs ==
    ASSUME NEW m \in Nat, NEW S \in SUBSET (1 .. m)
    PROVE  /\ \A k \in 1 .. Cardinality(S) : Nth(S, k) \in S /\ Rank(S, Nth(S, k)) = k
           /\ \A i \in S : Nth(S, Rank(S, i)) = i
  <1> DEFINE D == 1 .. Cardinality(S)
             rank == [i \in S |-> Rank(S, i)]
  <1>1. /\ IsFiniteSet(S) /\ Cardinality(S) \in Nat
        /\ \A i \in S : Rank(S, i) \in D
        /\ \A i, j \in S : Rank(S, i) = Rank(S, j) => i = j
    BY RankIs
  <1>2. IsFiniteSet(D) /\ Cardinality(D) = Cardinality(S)
    BY <1>1, FS_Interval
  <1> HIDE DEF D
  <1>3. rank \in [S -> D] /\ \A i, j \in S : rank[i] = rank[j] => i = j
    BY <1>1
  <1>4. rank \in Injection(S, D)
    <2> HIDE DEF rank
    <2> QED BY <1>3 DEF Injection, IsInjective
  <1>5. rank \in Surjection(S, D)
    <2> HIDE DEF rank
    <2> QED BY <1>1, <1>2, <1>4, FS_Injection
  <1>6. ASSUME NEW k \in D
        PROVE  Nth(S, k) \in S /\ Rank(S, Nth(S, k)) = k
    <2>1. PICK i \in S : rank[i] = k
      <3> HIDE DEF rank
      <3> QED BY <1>5 DEF Surjection
    <2>2. \E j \in S : Rank(S, j) = k
      BY <2>1
    <2>3. Nth(S, k) = CHOOSE j \in S : Rank(S, j) = k
      BY DEF Nth, Rank
    <2> QED BY <2>2, <2>3
  <1>7. ASSUME NEW i \in S
        PROVE  Nth(S, Rank(S, i)) = i
    <2>1. Rank(S, i) \in D
      BY <1>1
    <2> QED BY <1>1, <1>6, <2>1
  <1> QED BY <1>6, <1>7 DEF D

\* Missing is a list of order-only dependencies.
LEMMA MissingIs ==
    ASSUME NEW n \in Node
    PROVE  /\ Missing(n) \in Seq(Node)
           /\ Range(Missing(n)) \subseteq Range(OrderOnlys[n])
  <1> DEFINE S == {i \in DOMAIN OrderOnlys[n] : ~Exists(OrderOnlys[n][i])}
             s == [k \in 1 .. Cardinality(S) |-> OrderOnlys[n][Nth(S, k)]]
  <1>1. OrderOnlys[n] \in Seq(Node)
    BY GraphAssumption DEF GraphAssumption
  <1>2. PICK m \in Nat : m = Len(OrderOnlys[n]) /\ DOMAIN OrderOnlys[n] = 1 .. m
    BY <1>1, LenProperties
  <1>3. S \in SUBSET (1 .. m)
    BY <1>2
  <1>4. IsFiniteSet(S)
    <2>1. IsFiniteSet(1 .. m)
      BY FS_Interval
    <2> QED BY <1>3, <2>1, FS_Subset
  <1>5. Cardinality(S) \in Nat
    BY <1>4, FS_CardinalityType
  <1>6. \A k \in 1 .. Cardinality(S) : Nth(S, k) \in 1 .. m
    BY <1>3, NthIs
  <1> HIDE DEF S
  <1>7. \A k \in 1 .. Cardinality(S) : s[k] \in Node /\ s[k] \in Range(OrderOnlys[n])
    BY <1>1, <1>2, <1>6, ElementOfSeq DEF Range
  <1>8. s \in Seq(Node)
    <2>1. s \in [1 .. Cardinality(S) -> Node]
      BY <1>7
    <2> QED BY <1>5, <2>1, SeqDef
  <1>9. Range(s) \subseteq Range(OrderOnlys[n])
    BY <1>7 DEF Range
  <1> QED BY <1>8, <1>9 DEF Missing, S

-----------------------------------------------------------------------------
(* What the steps do to the calls.                                         *)

\* There is a call.
LEMMA TopIs ==
    ASSUME TypeOK
    PROVE  /\ Len(stack) \in Nat /\ Len(stack) > 0 /\ Len(stack) \in 1 .. Len(stack)
           /\ Top \in Call /\ Top.job \in Node \cup {Nil} /\ Top.rest \in Seq(Node)
           /\ stack \in Seq(Call) /\ \A i \in 1 .. Len(stack) : stack[i] \in Call
  <1>1. stack \in Seq(Call) /\ stack # << >>
    BY DEF TypeOK, Call
  <1>2. Len(stack) \in Nat /\ Len(stack) > 0
    BY <1>1, EmptySeq, LenProperties
  <1>3. \A i \in 1 .. Len(stack) : stack[i] \in Call
    BY <1>1, ElementOfSeq
  <1> QED BY <1>1, <1>2, <1>3 DEF Top, Call

\* The loop of the last call goes on.
LEMMA AdvanceIs ==
    ASSUME TypeOK, Top.rest # << >>
    PROVE  /\ Advance \in Seq(Call) /\ Advance # << >> /\ Len(Advance) = Len(stack)
           /\ \A i \in 1 .. Len(stack) :
                 /\ Advance[i].job = stack[i].job
                 /\ i # Len(stack) => Advance[i] = stack[i]
                 /\ i = Len(stack) => Advance[i].rest = Tail(Top.rest)
           /\ Head(Top.rest) \in Node /\ Tail(Top.rest) \in Seq(Node)
           /\ Len(Tail(Top.rest)) = Len(Top.rest) - 1
  <1> DEFINE f == [Top EXCEPT !.rest = Tail(@)]
  <1>1. /\ Head(Top.rest) \in Node /\ Tail(Top.rest) \in Seq(Node)
        /\ Len(Tail(Top.rest)) = Len(Top.rest) - 1
    BY TopIs, HeadTailProperties
  <1>2. f \in Call /\ f.job = Top.job /\ f.rest = Tail(Top.rest)
    BY <1>1, TopIs DEF Call
  <1>3. Advance = [stack EXCEPT ![Len(stack)] = f]
    BY TopIs DEF Advance, Top
  <1> HIDE DEF f
  <1>4. /\ Advance \in Seq(Call) /\ Len(Advance) = Len(stack)
        /\ \A j \in 1 .. Len(stack) : Advance[j] = IF j = Len(stack) THEN f ELSE stack[j]
    BY <1>2, <1>3, TopIs, ExceptSeq
  <1>5. Advance # << >>
    BY <1>4, TopIs, EmptySeq
  <1>6. stack[Len(stack)].job = Top.job
    BY DEF Top
  <1> QED BY <1>1, <1>2, <1>4, <1>5, <1>6

\* A new call of makeJobs.
NewCall(n) == [job |-> n, rest |-> Deps[n] \o Missing(n)]

\* It has all of Deps and only dependencies of its target to visit.
LEMMA NewCallIs ==
    ASSUME NEW n \in Node
    PROVE  /\ NewCall(n) \in Call /\ NewCall(n).job = n
           /\ NewCall(n).rest = Deps[n] \o Missing(n)
           /\ Len(NewCall(n).rest) = Len(Deps[n]) + Len(Missing(n))
           /\ Range(NewCall(n).rest) \subseteq B!Succ(n)
           /\ Range(Deps[n]) \subseteq Range(NewCall(n).rest)
  <1>1. Deps[n] \in Seq(Node) /\ Missing(n) \in Seq(Node) /\ OrderOnlys[n] \in Seq(Node)
    BY GraphAssumption, MissingIs DEF GraphAssumption
  <1>2. PICK r \in Seq(Node) : r = Deps[n] \o Missing(n)
    BY <1>1, ConcatProperties
  <1>3. PICK a \in Nat : a = Len(Deps[n]) /\ DOMAIN Deps[n] = 1 .. a
    BY <1>1, LenProperties
  <1>4. PICK b \in Nat : b = Len(Missing(n)) /\ DOMAIN Missing(n) = 1 .. b
    BY <1>1, LenProperties
  <1>5. /\ Len(r) = a + b /\ DOMAIN r = 1 .. a + b
        /\ \A i \in 1 .. a + b : r[i] = IF i <= a THEN Deps[n][i] ELSE Missing(n)[i - a]
    BY <1>1, <1>2, <1>3, <1>4, ConcatProperties, LenProperties
  <1>6. Range(Deps[n]) \subseteq Range(r)
    BY <1>3, <1>5 DEF Range
  <1>7. Range(r) \subseteq Range(Deps[n]) \cup Range(Missing(n))
    <2>1. ASSUME NEW i \in 1 .. a + b
          PROVE  r[i] \in Range(Deps[n]) \cup Range(Missing(n))
      <3>1. CASE i <= a
        BY <1>3, <1>5, <3>1 DEF Range
      <3>2. CASE i > a
        BY <1>4, <1>5, <3>2 DEF Range
      <3> QED BY <3>1, <3>2
    <2> QED BY <1>5, <2>1 DEF Range
  <1>8. Range(Deps[n]) = B!Elems(Deps[n]) /\ Range(OrderOnlys[n]) = B!Elems(OrderOnlys[n])
    BY DEF Range, B!Elems
  <1>9. Range(r) \subseteq B!Succ(n)
    BY <1>7, <1>8, MissingIs DEF B!Succ
  <1> QED BY <1>2, <1>3, <1>4, <1>5, <1>6, <1>9 DEF NewCall, Call

\* MakeJob.
LEMMA MakeJobIs ==
    ASSUME TypeOK, MakeJob, NEW n, n = Head(Top.rest)
    PROVE  /\ n \in Node /\ Top.rest # << >> /\ done[n] = "absent"
           /\ done' = [done EXCEPT ![n] = "nil"]
           /\ numDeps' = [numDeps EXCEPT ![n] = Len(Deps[n]) + Len(Missing(n))]
           /\ stack' \in Seq(Call) /\ stack' # << >> /\ Len(stack') = Len(stack) + 1
           /\ \A i \in 1 .. Len(stack) :
                 /\ stack'[i] = Advance[i]
                 /\ stack'[i].job = stack[i].job
                 /\ i # Len(stack) => stack'[i] = stack[i]
                 /\ i = Len(stack) => stack'[i].rest = Tail(Top.rest)
           /\ \A i \in 1 .. Len(stack) + 1 : i > Len(stack) => stack'[i] = NewCall(n)
  <1>1. Top.rest # << >> /\ done[n] = "absent" /\ stack' = Append(Advance, NewCall(n))
        /\ done' = [done EXCEPT ![n] = "nil"]
        /\ numDeps' = [numDeps EXCEPT ![n] = Len(Deps[n]) + Len(Missing(n))]
    BY DEF MakeJob, Visiting, NewCall
  <1>2. n \in Node /\ Advance \in Seq(Call) /\ Len(Advance) = Len(stack)
    BY <1>1, AdvanceIs
  <1>3. NewCall(n) \in Call
    BY <1>2, NewCallIs
  <1>4. PICK k \in Nat : k = Len(stack)
    BY TopIs
  <1>5. /\ stack' \in Seq(Call) /\ Len(stack') = k + 1
        /\ \A i \in 1 .. k : stack'[i] = Advance[i]
        /\ stack'[k + 1] = NewCall(n)
    BY <1>1, <1>2, <1>3, <1>4, AppendProperties
  <1>6. stack' # << >>
    BY <1>4, <1>5, EmptySeq
  <1>7. \A i \in 1 .. k + 1 : i > k => i = k + 1
    OBVIOUS
  <1>8. \A i \in 1 .. k : /\ Advance[i].job = stack[i].job
                          /\ i # k => Advance[i] = stack[i]
                          /\ i = k => Advance[i].rest = Tail(Top.rest)
    BY <1>1, <1>4, AdvanceIs
  <1> QED BY <1>1, <1>2, <1>4, <1>5, <1>6, <1>7, <1>8

\* A job is posted.
LEMMA PoppedIs ==
    ASSUME TypeOK, Len(stack) > 1
    PROVE  /\ Popped \in Seq(Call) /\ Popped # << >> /\ Len(Popped) = Len(stack) - 1
           /\ \A i \in 1 .. Len(stack) - 1 : Popped[i] = stack[i]
  <1>1. PICK k \in Nat : k = Len(stack) /\ k > 1
    BY TopIs
  <1>2. 1 \in Int /\ k - 1 \in Int /\ 1 .. k - 1 \subseteq 1 .. k
    BY <1>1
  <1>3. \A i \in 1 .. k - 1 : i \in 1 .. k /\ stack[i] \in Call
    BY <1>1, TopIs
  <1>4. Popped = SubSeq(stack, 1, k - 1)
    BY <1>1 DEF Popped
  <1>5. /\ Popped \in Seq(Call) /\ Len(Popped) = k - 1
        /\ \A i \in 1 .. k - 1 : Popped[i] = stack[i]
    BY <1>1, <1>3, <1>4, TopIs, SubSeqProperties
  <1>6. Popped # << >>
    BY <1>1, <1>5, EmptySeq
  <1> QED BY <1>1, <1>5, <1>6

-----------------------------------------------------------------------------
(* Types and the shape of the calls.                                       *)

\* The part of Shape about the main goroutine.
GoShape ==
    /\ main \in {"make", "circular", "wait", "joining", "end"}
    /\ stack \in Seq(Call) /\ stack # << >> /\ read \in Int
    /\ done \in [Node -> {"absent", "nil", "job"}]
    /\ CallsAre(stack) /\ NotPosted /\ Circling

\* It is a part.
LEMMA ShapeGo == Shape => GoShape
  BY DEF Shape, GoShape, TypeOK, Call

\* The same jobs are being made.
LEMMA SameCalls ==
    ASSUME NEW s, NEW t, Len(t) = Len(s), \A i \in 1 .. Len(s) : t[i].job = s[i].job
    PROVE  (CallsAre(s) => CallsAre(t)) /\ \A n : OnCall(t, n) <=> OnCall(s, n)
  BY DEF CallsAre, OnCall

\* A job is being made while its call is there, and only then.
LEMMA TopIsJob ==
    ASSUME Shape, Top.job # Nil
    PROVE  Len(stack) > 1 /\ Top.job \in Node
  BY TopIs DEF Shape, CallsAre, Top

\* The loop goes on.
LEMMA AdvanceGo ==
    ASSUME Shape, Making, Top.rest # << >>, stack' = Advance, done' = done,
           main' = "make", read' \in Int
    PROVE  GoShape'
  <1>1. stack' \in Seq(Call) /\ stack' # << >> /\ Len(stack') = Len(stack)
        /\ \A i \in 1 .. Len(stack) : stack'[i].job = stack[i].job
    BY AdvanceIs DEF Shape
  <1>2. CallsAre(stack') /\ \A n : OnCall(stack', n) <=> OnCall(stack, n)
    BY <1>1, SameCalls DEF Shape
  <1>3. NotPosted' /\ Circling'
    BY <1>2 DEF Shape, NotPosted, Circling, Making
  <1> QED BY <1>1, <1>2, <1>3, ShapeGo DEF GoShape

\* A new job.
LEMMA MakeJobGo ==
    ASSUME Shape, MakeJob
    PROVE  GoShape'
  <1>1. PICK n \in Node : n = Head(Top.rest) /\ done[n] = "absent"
                          /\ done' = [done EXCEPT ![n] = "nil"]
    BY MakeJobIs DEF Shape
  <1>2. PICK k \in Nat : k = Len(stack) /\ k > 0
    BY TopIs DEF Shape
  <1>3. /\ stack' \in Seq(Call) /\ stack' # << >> /\ Len(stack') = k + 1
        /\ \A i \in 1 .. k : stack'[i].job = stack[i].job
        /\ \A i \in 1 .. k + 1 : i > k => stack'[i].job = n
    BY <1>1, <1>2, MakeJobIs, NewCallIs DEF Shape
  <1>4. main = "make" /\ main' = "make" /\ read' = read /\ stopped' = stopped
    BY DEF MakeJob, Visiting, wmVars
  <1>5. \A i \in 1 .. k : stack[i].job # n
    BY <1>1, <1>2, <1>4 DEF Shape, NotPosted, Making, OnCall
  <1>6. n # Nil
    BY GraphAssumption DEF GraphAssumption
  <1>7. \A i \in 1 .. k + 1 : i \in 1 .. k \/ i > k
    OBVIOUS
  <1>8. CallsAre(stack')
    <2>1. \A i \in 1 .. k + 1 : stack'[i].job = Nil <=> i = 1
      BY <1>2, <1>3, <1>6, <1>7 DEF Shape, CallsAre
    <2>2. \A i, j \in 1 .. k + 1 : stack'[i].job = stack'[j].job => i = j
      <3>1. \A i, j \in 1 .. k + 1 : i > k /\ j > k => i = j
        OBVIOUS
      <3> QED BY <1>2, <1>3, <1>5, <1>7, <3>1 DEF Shape, CallsAre
    <2> QED BY <1>3, <2>1, <2>2 DEF CallsAre
  <1>9. \A m \in Node : OnCall(stack', m) <=> OnCall(stack, m) \/ m = n
    <2>1. \A i \in 1 .. k : i \in 1 .. k + 1
      OBVIOUS
    <2>2. k + 1 \in 1 .. k + 1 /\ k + 1 > k
      OBVIOUS
    <2> QED BY <1>2, <1>3, <1>7, <2>1, <2>2 DEF OnCall
  <1>10. \A m \in Node : done'[m] = "nil" <=> done[m] = "nil" \/ m = n
    BY <1>1, ShapeGo DEF GoShape
  <1>11. NotPosted' /\ Circling'
    BY <1>4, <1>9, <1>10 DEF Shape, NotPosted, Circling, Making
  <1>12. done' \in [Node -> {"absent", "nil", "job"}] /\ read \in Int
    BY <1>1, ShapeGo DEF GoShape
  <1> QED BY <1>3, <1>4, <1>8, <1>11, <1>12 DEF GoShape

\* A job is posted.
LEMMA PostJobGo ==
    ASSUME Shape, PostJob
    PROVE  GoShape'
  <1>1. PICK n \in Node : n = Top.job
    BY TopIsJob DEF PostJob
  <1>2. PICK k \in Nat : k = Len(stack) /\ k > 1 /\ stack[k].job = n
    BY <1>1, TopIs, TopIsJob DEF PostJob, Shape, Top
  <1>3. /\ done' = [done EXCEPT ![n] = "job"] /\ main = "make" /\ main' = "make"
        /\ read' = read /\ stack' = Popped
    BY <1>1 DEF PostJob
  <1>4. /\ stack' \in Seq(Call) /\ stack' # << >> /\ Len(stack') = k - 1
        /\ \A i \in 1 .. k - 1 : stack'[i].job = stack[i].job
    BY <1>2, <1>3, PoppedIs DEF Shape
  <1>5. \A i \in 1 .. k : i \in 1 .. k - 1 \/ i = k
    OBVIOUS
  <1>6. \A i \in 1 .. k - 1 : i \in 1 .. k /\ i # k
    OBVIOUS
  <1>7. k \in 1 .. k
    BY <1>2
  <1>8. CallsAre(stack')
    BY <1>2, <1>4, <1>6 DEF Shape, CallsAre
  <1>9. \A m \in Node : OnCall(stack', m) <=> OnCall(stack, m) /\ m # n
    <2>1. \A i \in 1 .. k - 1 : stack[i].job # n
      BY <1>2, <1>6, <1>7 DEF Shape, CallsAre
    <2> QED BY <1>2, <1>4, <1>5, <1>6, <2>1 DEF OnCall
  <1>10. \A m \in Node : done'[m] = "nil" <=> done[m] = "nil" /\ m # n
    BY <1>3, ShapeGo DEF GoShape
  <1>11. NotPosted' /\ Circling'
    BY <1>3, <1>9, <1>10 DEF Shape, NotPosted, Circling, Making
  <1>12. done' \in [Node -> {"absent", "nil", "job"}] /\ read \in Int
    BY <1>3, ShapeGo DEF GoShape
  <1> QED BY <1>3, <1>4, <1>8, <1>11, <1>12 DEF GoShape

\* makeJobs ends.
LEMMA MakingEnds ==
    ASSUME Shape, PostJobStopped \/ AllPosted
    PROVE  GoShape'
  <1>1. PICK k \in Nat : k = Len(stack) /\ k > 0
    BY TopIs DEF Shape
  <1>2. /\ stack' \in Seq(Call) /\ stack' # << >> /\ Len(stack') = 1
        /\ stack'[1].job = stack[1].job
    <2>1. CASE PostJobStopped
      <3>1. stack' = SubSeq(stack, 1, 1)
        BY <2>1 DEF PostJobStopped
      <3>2. \A i \in 1 .. 1 : stack[i] \in Call
        BY <1>1, TopIs DEF Shape
      <3>3. stack' \in Seq(Call) /\ Len(stack') = 1 /\ \A i \in 1 .. 1 : stack'[i] = stack[i]
        BY <3>1, <3>2, SubSeqProperties
      <3> QED BY <3>3, EmptySeq
    <2>2. CASE AllPosted
      <3>1. stack' = stack /\ Top.job = Nil
        BY <2>2 DEF AllPosted
      <3>2. k = 1
        BY <1>1, <3>1 DEF Shape, CallsAre, Top
      <3> QED BY <1>1, <3>1, <3>2, ShapeGo DEF GoShape
    <2> QED BY <2>1, <2>2
  <1>3. CallsAre(stack')
    <2>1. \A i \in 1 .. 1 : i = 1
      OBVIOUS
    <2> QED BY <1>1, <1>2, <2>1 DEF Shape, CallsAre
  <1>4. /\ main = "make" /\ main' = "wait" /\ UNCHANGED <<read, done, stopped>>
        /\ stopped \/ (Len(stack) = 1 /\ Top.job = Nil)
    <2>1. CASE PostJobStopped
      BY <2>1 DEF PostJobStopped, wmVars
    <2>2. CASE AllPosted
      BY <1>1, <2>2 DEF AllPosted, wmVars, Shape, CallsAre, Top
    <2> QED BY <2>1, <2>2
  <1>5. stopped \/ \A n \in Node : done[n] # "nil"
    <2>1. ASSUME Len(stack) = 1, Top.job = Nil, NEW n \in Node
          PROVE  ~OnCall(stack, n)
      <3>1. n # Nil /\ \A i \in 1 .. 1 : i = 1
        BY GraphAssumption DEF GraphAssumption
      <3> QED BY <2>1, <3>1 DEF OnCall, Top
    <2> QED BY <1>4, <2>1 DEF Shape, NotPosted, Making
  <1>6. NotPosted' /\ Circling'
    BY <1>2, <1>4, <1>5 DEF NotPosted, Circling, Making
  <1> QED BY <1>2, <1>3, <1>4, <1>6, ShapeGo DEF GoShape

\* Every step keeps GoShape.
LEMMA GoStep ==
    ASSUME Shape, [Next]_vars
    PROVE  GoShape'
  <1>1. CASE MakeJob
    BY <1>1, MakeJobGo
  <1>2. CASE ReadNumDeps
    <2>1. /\ main = "make" /\ Top.rest # << >> /\ done[Head(Top.rest)] = "nil"
          /\ main' = "circular" /\ read' = numDeps[Top.job]
          /\ UNCHANGED <<stack, done, stopped>>
      BY <1>2 DEF ReadNumDeps, Visiting, wmVars
    <2>2. Head(Top.rest) \in Node
      BY <2>1, AdvanceIs DEF Shape
    <2>3. Top.job # Nil
      <3>1. PICK i \in 1 .. Len(stack) : stack[i].job = Head(Top.rest)
        BY <2>1, <2>2 DEF Shape, NotPosted, Making, OnCall
      <3>2. stack[i].job # Nil
        BY <2>2, <3>1, GraphAssumption DEF GraphAssumption
      <3> QED BY <3>1, <3>2, TopIs DEF Shape, CallsAre, Top
    <2>4. Top.job \in Node
      BY <2>3, TopIsJob
    <2>5. read' \in Int
      BY <2>1, <2>4 DEF Shape, TypeOK
    <2>6. NotPosted'
      BY <2>1 DEF Shape, NotPosted, Making
    <2>7. Circling'
      BY <2>1, <2>3 DEF Circling, Top
    <2> QED BY <2>1, <2>5, <2>6, <2>7, ShapeGo DEF GoShape
  <1>3. CASE WriteNumDeps \/ GoalDone \/ ReportNewDepStopped \/ NewDep
    <2>1. /\ Making /\ Top.rest # << >> /\ stack' = Advance /\ done' = done
          /\ main' = "make" /\ read' = read
      BY <1>3 DEF WriteNumDeps, GoalDone, ReportNewDepStopped, NewDep, Visiting, Making,
                  Shape, Circling
    <2> QED BY <2>1, AdvanceGo, ShapeGo DEF GoShape
  <1>4. CASE PostJobStopped \/ AllPosted
    BY <1>4, MakingEnds
  <1>5. CASE PostJob
    BY <1>5, PostJobGo
  <1>6. CASE Wait \/ AllJoined
    <2>1. /\ ~Making /\ main' \in {"joining", "end"} /\ UNCHANGED <<stack, read, done, stopped>>
      BY <1>6 DEF Wait, AllJoined, Making
    <2> QED BY <2>1, ShapeGo DEF GoShape, NotPosted, Making, Circling
  <1>7. CASE \E w \in Worker : JobResult(w)
    <2>1. UNCHANGED goVars /\ ~stopped
      BY <1>7 DEF JobResult, Receiving, Shape, Stops
    <2> QED BY <2>1, ShapeGo DEF goVars, GoShape, NotPosted, Making, Circling, Top
  <1>8. CASE UNCHANGED <<goVars, stopped>>
    BY <1>8, ShapeGo DEF goVars, GoShape, NotPosted, Making, Circling, Top
  <1>9. CASE Handled \/ LoopEnds \/ \E w \in Worker : Dispatch(w) \/ Join(w) \/ Work(w)
    BY <1>8, <1>9 DEF Handled, LoopEnds, Dispatch, Join, Work, Build, Run, ReportStopped, wmVars
  <1>10. CASE UNCHANGED vars
    BY <1>8, <1>10 DEF vars, wmVars
  <1> QED BY <1>1, <1>2, <1>3, <1>4, <1>5, <1>6, <1>7, <1>9, <1>10 DEF Next, Main, Manager

\* The part of Shape about the jobs.
JobTypes ==
    /\ numDeps \in [Node -> Int] /\ depsTs \in [Node -> Int] /\ outputTs \in [Node -> Int]
    /\ id \in [Node -> Nat] /\ parents \in [Node -> [Node -> Nat]]

\* A worker with a job.
Job == [at : {"idle", "build", "run", "report", "quit"}, job : Node \cup {Nil},
        res : {"none", "nothing", "built", "error"}]

\* What a worker does to its record and the result.
LEMMA WorkerIs ==
    ASSUME Shape, NEW w \in Worker, Build(w) \/ Run(w)
    PROVE  /\ wk[w].job \in Node
           /\ \/ wk' = [wk EXCEPT ![w].at = "run"] /\ result' = result
              \/ \E r \in {"nothing", "built", "error"} : Ended(w, r)
           /\ outputTs' \in [Node -> Int] /\ clock' \in Nat
           /\ mtime' \in [Node -> Nat \cup {NotExist}]
  <1>1. PICK j \in Node : j = wk[w].job
    BY DEF Build, Run, Shape, HeldIsJob, Holding
  <1>2. /\ outputTs \in [Node -> Int] /\ clock \in Nat /\ mtime \in [Node -> Nat \cup {NotExist}]
        /\ mtime[j] \in Int
    BY DEF Shape, TypeOK, NotExist
  <1>3. CASE Build(w)
    <2> DEFINE ts == IF j \in IsPhony THEN NotExist ELSE mtime[j]
               d == Decide(j, ts)
    <2>1. ts \in Int
      BY <1>2 DEF NotExist
    <2>2. d \in {"nothing", "run", "error"}
      <3>1. depsTs[j] \in Int
        BY DEF Shape, TypeOK
      <3> HIDE DEF ts
      <3>2. ts >= depsTs[j] \/ ts < depsTs[j]
        BY <2>1, <3>1
      <3> QED BY <3>2 DEF Decide
    <2>3. outputTs' = [outputTs EXCEPT ![j] = ts] /\ UNCHANGED <<clock, mtime>>
      BY <1>1, <1>3 DEF Build, files
    <2>4. \/ wk' = [wk EXCEPT ![w].at = "run"] /\ result' = result
          \/ Ended(w, d) /\ d # "run"
      BY <1>1, <1>3 DEF Build
    <2> HIDE DEF ts, d
    <2> QED BY <1>1, <1>2, <2>1, <2>2, <2>3, <2>4
  <1>4. CASE Run(w)
    <2>1. clock' \in Nat
      BY <1>2, <1>4 DEF Run
    <2>2. mtime' \in [Node -> Nat \cup {NotExist}]
      <3>1. CASE mtime' = [mtime EXCEPT ![j] = IF j \in IsPhony THEN @ ELSE clock']
        BY <1>2, <2>1, <3>1
      <3> QED BY <1>1, <1>2, <1>4, <3>1 DEF Run
    <2>3. mtime'[j] \in Int
      BY <2>2 DEF NotExist
    <2>4. CASE Ended(w, "built") /\ outputTs' = [outputTs EXCEPT ![j] =
                   IF j \in IsPhony \/ mtime'[j] = NotExist THEN clock' ELSE mtime'[j]]
      BY <1>1, <1>2, <2>1, <2>2, <2>3, <2>4
    <2>5. CASE Ended(w, "error") /\ outputTs' = outputTs
      BY <1>1, <1>2, <2>1, <2>2, <2>5
    <2> QED BY <1>1, <1>4, <2>4, <2>5 DEF Run
  <1> QED BY <1>3, <1>4

\* Every step keeps the types of the jobs.
LEMMA JobStep ==
    ASSUME Shape, [Next]_vars
    PROVE  JobTypes'
  <1>1. JobTypes
    BY DEF Shape, TypeOK, JobTypes
  <1>2. CASE MakeJob
    <2>1. PICK n \in Node : n = Head(Top.rest)
                            /\ numDeps' = [numDeps EXCEPT ![n] = Len(Deps[n]) + Len(Missing(n))]
      BY <1>2, MakeJobIs DEF Shape
    <2>2. Len(Deps[n]) + Len(Missing(n)) \in Int
      BY MissingIs, LenProperties, GraphAssumption DEF GraphAssumption
    <2>3. /\ UNCHANGED <<depsTs, outputTs, id>>
          /\ parents' = IF Top.job = Nil THEN parents ELSE [parents EXCEPT ![n][Top.job] = 1]
      BY <1>2, <2>1 DEF MakeJob
    <2>4. Top.job = Nil \/ Top.job \in Node
      BY TopIs DEF Shape
    <2>5. parents' \in [Node -> [Node -> Nat]]
      <3>1. CASE Top.job = Nil
        BY <1>1, <2>3, <3>1 DEF JobTypes
      <3>2. CASE Top.job # Nil
        BY <1>1, <2>3, <2>4, <3>2 DEF JobTypes
      <3> QED BY <3>1, <3>2
    <2> QED BY <1>1, <2>1, <2>2, <2>3, <2>5 DEF JobTypes
  <1>3. CASE WriteNumDeps
    <2>1. Top.job \in Node
      BY <1>3, TopIsJob DEF WriteNumDeps, Shape, Circling
    <2>2. read - 1 \in Int
      BY DEF Shape, TypeOK
    <2> QED BY <1>1, <1>3, <2>1, <2>2 DEF JobTypes, WriteNumDeps
  <1>4. CASE PostJob
    <2>1. Top.job \in Node /\ jobs + 1 \in Nat
      BY <1>4, TopIsJob DEF PostJob, Shape, TypeOK
    <2> QED BY <1>1, <1>4, <2>1 DEF JobTypes, PostJob
  <1>5. CASE NewDep
    <2>1. PICK n \in Node : n = Top.job
      BY <1>5, TopIsJob DEF NewDep
    <2>2. PICK d \in Node : d = Head(Top.rest)
      BY <1>5, AdvanceIs DEF NewDep, Visiting, Shape
    <2>3. HandleNewDep(d, n) /\ UNCHANGED <<depsTs, outputTs, id>>
      BY <1>5, <2>1, <2>2 DEF NewDep
    <2>4. CASE numDeps[d] < 0
      BY <1>1, <2>3, <2>4 DEF HandleNewDep, JobTypes
    <2>5. CASE ~(numDeps[d] < 0)
      <3>1. parents' = [parents EXCEPT ![d][n] = parents[d][n] + 1] /\ numDeps' = numDeps
        BY <2>3, <2>5 DEF HandleNewDep
      <3>2. parents[d] \in [Node -> Nat] /\ parents[d][n] + 1 \in Nat
        BY <1>1 DEF JobTypes
      <3> QED BY <1>1, <2>3, <3>1, <3>2 DEF JobTypes
    <2> QED BY <2>4, <2>5
  <1>6. ASSUME NEW w \in Worker, JobResult(w)
        PROVE  JobTypes'
    <2>1. PICK j \in Node : j = wk[w].job
      BY <1>6 DEF JobResult, Shape, HeldIsJob, Holding
    <2>2. /\ numDeps' = [p \in Node |-> numDeps[p] - parents[j][p]]
          /\ depsTs' = [p \in Node |->
                IF p \in {q \in Node : parents[j][q] > 0} /\ depsTs[p] < outputTs[j]
                THEN outputTs[j] ELSE depsTs[p]]
          /\ UNCHANGED <<outputTs, id, parents>>
      BY <1>6, <2>1 DEF JobResult, UpdateParents
    <2>3. numDeps' \in [Node -> Int]
      BY <1>1, <2>2 DEF JobTypes
    <2>4. depsTs' \in [Node -> Int]
      BY <1>1, <2>2 DEF JobTypes
    <2> QED BY <1>1, <2>2, <2>3, <2>4 DEF JobTypes
  <1>7. ASSUME NEW w \in Worker, Dispatch(w)
        PROVE  JobTypes'
    <2>1. PICK j \in Node : numDeps' = [numDeps EXCEPT ![j] = -1]
      BY <1>7 DEF Dispatch
    <2> QED BY <1>1, <1>7, <2>1 DEF Dispatch, JobTypes
  <1>8. ASSUME NEW w \in Worker, Build(w) \/ Run(w)
        PROVE  JobTypes'
    <2>1. outputTs' \in [Node -> Int]
      BY <1>8, WorkerIs
    <2> QED BY <1>1, <1>8, <2>1 DEF Build, Run, JobTypes
  <1>9. CASE UNCHANGED jobVars
    BY <1>1, <1>9 DEF jobVars, JobTypes
  <1>10. CASE ReadNumDeps \/ GoalDone \/ ReportNewDepStopped \/ PostJobStopped \/ AllPosted
              \/ Wait \/ Handled \/ LoopEnds \/ AllJoined
              \/ \E w \in Worker : Join(w) \/ ReportStopped(w)
    BY <1>9, <1>10 DEF ReadNumDeps, GoalDone, ReportNewDepStopped, PostJobStopped, AllPosted,
                       Wait, Handled, LoopEnds, AllJoined, Join, ReportStopped
  <1>11. CASE UNCHANGED vars
    BY <1>9, <1>11 DEF vars
  <1> QED BY <1>2, <1>3, <1>4, <1>5, <1>6, <1>7, <1>8, <1>10, <1>11
          DEF Next, Main, Manager, Work

\* The part of Shape about the manager.
MgrTypes ==
    /\ wm \in {"loop", "handle", "drain", "join", "exit"}
    /\ ready \in [Node -> Nat] /\ busy \subseteq Worker
    /\ jobs \in Nat /\ finishCnt \in Nat /\ skipCnt \in Nat
FlagTypes == waited \in BOOLEAN /\ err \in BOOLEAN /\ stopped \in BOOLEAN

\* maybePushToReadyQueue.
LEMMA MaybePushIs ==
    ASSUME NEW js, NEW nd, ready \in [Node -> Nat]
    PROVE  /\ MaybePush(js, nd) \in [Node -> Nat]
           /\ \A n \in Node : MaybePush(js, nd)[n] =
                                IF n \in js /\ nd[n] = 0 THEN ready[n] + 1 ELSE ready[n]
  BY DEF MaybePush

\* Every step keeps the types of the manager's state.
LEMMA MgrStep ==
    ASSUME Shape, [Next]_vars
    PROVE  MgrTypes' /\ Stops'
  <1>1. MgrTypes /\ Stops
    BY DEF Shape, TypeOK, MgrTypes
  <1>2. CASE PostJob
    <2>1. ready' \in [Node -> Nat]
      BY <1>1, <1>2, MaybePushIs DEF PostJob, MgrTypes
    <2>2. /\ wm' = "handle" /\ jobs' = jobs + 1 /\ UNCHANGED <<busy, finishCnt, skipCnt, stopped>>
          /\ wm = "loop"
      BY <1>2 DEF PostJob, Receiving
    <2> QED BY <1>1, <2>1, <2>2 DEF MgrTypes, Stops
  <1>3. CASE NewDep \/ Wait
    BY <1>1, <1>3 DEF NewDep, Wait, MgrTypes, Receiving, Stops
  <1>4. ASSUME NEW w \in Worker, JobResult(w)
        PROVE  MgrTypes' /\ Stops'
    <2>1. ready' \in [Node -> Nat]
      BY <1>1, <1>4, MaybePushIs DEF JobResult, UpdateParents, MgrTypes
    <2>2. /\ wm' \in {"handle", "join", "drain"}
          /\ stopped' = (wk[w].res = "error") /\ (wk[w].res = "error" => wm' # "handle")
      BY <1>4 DEF JobResult, Proceed
    <2>3. skipCnt' \in Nat /\ finishCnt' \in Nat /\ busy' \subseteq Worker /\ jobs' = jobs
      BY <1>1, <1>4 DEF JobResult, MgrTypes
    <2> QED BY <1>1, <2>1, <2>2, <2>3 DEF MgrTypes, Stops
  <1>5. ASSUME NEW w \in Worker, Dispatch(w)
        PROVE  MgrTypes' /\ Stops'
    <2>1. PICK j \in Node : ready[j] > 0 /\ ready' = [ready EXCEPT ![j] = @ - 1]
      BY <1>5 DEF Dispatch
    <2>2. ready' \in [Node -> Nat]
      BY <1>1, <2>1 DEF MgrTypes
    <2> QED BY <1>1, <1>5, <2>2 DEF Dispatch, MgrTypes, Stops
  <1>6. CASE Handled \/ LoopEnds \/ AllJoined
    BY <1>1, <1>6 DEF Handled, LoopEnds, AllJoined, MgrTypes, Stops
  <1>7. CASE UNCHANGED wmVars
    BY <1>1, <1>7 DEF wmVars, MgrTypes, Stops
  <1>8. CASE Main
    BY <1>7, <1>8 DEF Main, MakeJob, ReadNumDeps, WriteNumDeps, GoalDone, ReportNewDepStopped,
                      PostJobStopped, AllPosted
  <1>9. CASE \E w \in Worker : Join(w) \/ Work(w)
    BY <1>7, <1>9 DEF Join, Work, Build, Run, ReportStopped
  <1>10. CASE UNCHANGED vars
    BY <1>7, <1>10 DEF vars
  <1> QED BY <1>2, <1>3, <1>4, <1>5, <1>6, <1>8, <1>9, <1>10 DEF Next, Manager

\* Every step keeps the types of the manager's flags.
LEMMA FlagStep ==
    ASSUME Shape, [Next]_vars
    PROVE  FlagTypes'
  <1>1. waited \in BOOLEAN /\ err \in BOOLEAN /\ stopped \in BOOLEAN
    BY DEF Shape, TypeOK
  <1>2. ASSUME NEW w \in Worker, JobResult(w)
        PROVE  FlagTypes'
    <2>1. err' = (wk[w].res = "error") /\ stopped' = (wk[w].res = "error") /\ waited' = waited
      BY <1>2 DEF JobResult, Proceed
    <2> QED BY <1>1, <2>1, Zenon DEF FlagTypes
  <1>3. CASE UNCHANGED <<waited, err, stopped>>
    BY <1>1, <1>3, Zenon DEF FlagTypes
  <1>4. CASE Wait
    <2>1. waited' = TRUE /\ err' = err /\ stopped' = stopped
      BY <1>4 DEF Wait
    <2> QED BY <1>1, <2>1, Zenon DEF FlagTypes
  <1>5. CASE Main
    BY <1>3, <1>5 DEF Main, MakeJob, ReadNumDeps, WriteNumDeps, GoalDone, ReportNewDepStopped,
                      PostJobStopped, AllPosted, wmVars
  <1>6. CASE PostJob \/ NewDep \/ Handled \/ LoopEnds \/ AllJoined
    BY <1>3, <1>6 DEF PostJob, NewDep, Handled, LoopEnds, AllJoined
  <1>7. CASE \E w \in Worker : Dispatch(w) \/ Join(w) \/ Work(w)
    BY <1>3, <1>7 DEF Dispatch, Join, Work, Build, Run, ReportStopped, wmVars
  <1>8. CASE UNCHANGED vars
    BY <1>3, <1>8 DEF vars, wmVars
  <1> QED BY <1>2, <1>4, <1>5, <1>6, <1>7, <1>8 DEF Next, Manager

\* The part of Shape about the workers, the files and the history.
WorkTypes ==
    /\ wk \in [Worker -> Job] /\ HeldIsJob
    /\ clock \in Nat /\ mtime \in [Node -> Nat \cup {NotExist}]
    /\ begun \in [Node -> Nat]
    /\ result \in [Node -> {"none", "nothing", "built", "error"}]

\* A worker's record changes.
LEMMA WkChange ==
    ASSUME wk \in [Worker -> Job], HeldIsJob, NEW w \in Worker, NEW f \in Job,
           wk' = [wk EXCEPT ![w] = f], f.at \in {"build", "run", "report"} => f.job \in Node
    PROVE  /\ wk' \in [Worker -> Job] /\ HeldIsJob'
           /\ wk'[w] = f /\ \A x \in Worker : x # w => wk'[x] = wk[x]
  <1>1. wk' \in [Worker -> Job] /\ wk'[w] = f /\ \A x \in Worker : x # w => wk'[x] = wk[x]
    OBVIOUS
  <1>2. \A x \in Worker : wk'[x].at \in {"build", "run", "report"} => wk'[x].job \in Node
    BY <1>1 DEF HeldIsJob, Holding
  <1> QED BY <1>1, <1>2 DEF HeldIsJob, Holding

\* Every step keeps the types of the workers.
LEMMA WorkStep ==
    ASSUME Shape, [Next]_vars
    PROVE  WorkTypes'
  <1>1. WorkTypes
    BY DEF Shape, TypeOK, WorkTypes, Job
  <1>2. ASSUME NEW w \in Worker, NEW a \in {"idle", "quit"}, wk' = [wk EXCEPT ![w].at = a],
               UNCHANGED <<files, history>>
        PROVE  WorkTypes'
    <2> DEFINE f == [wk[w] EXCEPT !.at = a]
    <2>1. f \in Job /\ f.at = a
      BY <1>1 DEF WorkTypes, Job
    <2>2. wk' = [wk EXCEPT ![w] = f]
      BY <1>2
    <2> HIDE DEF f
    <2> QED BY <1>1, <1>2, <2>1, <2>2, WkChange DEF WorkTypes, files, history
  <1>3. ASSUME NEW w \in Worker, JobResult(w) \/ ReportStopped(w) \/ Join(w)
        PROVE  WorkTypes'
    BY <1>2, <1>3 DEF JobResult, ReportStopped, Join
  <1>4. ASSUME NEW w \in Worker, Dispatch(w)
        PROVE  WorkTypes'
    <2>1. PICK j \in Node : /\ wk' = [wk EXCEPT ![w] = [at |-> "build", job |-> j, res |-> "none"]]
                            /\ begun' = [begun EXCEPT ![j] = @ + 1]
      BY <1>4 DEF Dispatch
    <2> DEFINE f == [at |-> "build", job |-> j, res |-> "none"]
    <2>2. f \in Job /\ f.job = j /\ wk' = [wk EXCEPT ![w] = f]
      BY <2>1 DEF Job
    <2> HIDE DEF f
    <2>3. wk' \in [Worker -> Job] /\ HeldIsJob'
      BY <1>1, <2>2, WkChange DEF WorkTypes
    <2>4. begun' \in [Node -> Nat]
      BY <1>1, <2>1 DEF WorkTypes
    <2> QED BY <1>1, <1>4, <2>3, <2>4 DEF Dispatch, WorkTypes, files
  <1>5. ASSUME NEW w \in Worker, Build(w) \/ Run(w)
        PROVE  WorkTypes'
    <2>1. /\ wk[w].job \in Node /\ clock' \in Nat /\ mtime' \in [Node -> Nat \cup {NotExist}]
          /\ begun' = begun
      BY <1>5, WorkerIs DEF Build, Run
    <2>2. CASE wk' = [wk EXCEPT ![w].at = "run"] /\ result' = result
      <3> DEFINE f == [wk[w] EXCEPT !.at = "run"]
      <3>1. f \in Job /\ f.job = wk[w].job
        BY <1>1 DEF WorkTypes, Job
      <3>2. wk' = [wk EXCEPT ![w] = f]
        BY <2>2
      <3> HIDE DEF f
      <3> QED BY <1>1, <2>1, <2>2, <3>1, <3>2, WkChange DEF WorkTypes
    <2>3. ASSUME NEW r \in {"nothing", "built", "error"}, Ended(w, r)
          PROVE  WorkTypes'
      <3> DEFINE f == [wk[w] EXCEPT !.at = "report", !.res = r]
      <3>1. f \in Job /\ f.job = wk[w].job
        BY <1>1 DEF WorkTypes, Job
      <3>2. wk' = [wk EXCEPT ![w] = f]
        BY <1>1, <2>3 DEF Ended, WorkTypes
      <3> HIDE DEF f
      <3>3. result' \in [Node -> {"none", "nothing", "built", "error"}]
        BY <1>1, <2>1, <2>3 DEF Ended, WorkTypes
      <3> QED BY <1>1, <2>1, <3>1, <3>2, <3>3, WkChange DEF WorkTypes
    <2> QED BY <1>5, <2>2, <2>3, WorkerIs
  <1>6. CASE UNCHANGED <<wk, files, history>>
    BY <1>1, <1>6 DEF WorkTypes, files, history, HeldIsJob, Holding
  <1>7. CASE Main
    BY <1>6, <1>7 DEF Main, MakeJob, ReadNumDeps, WriteNumDeps, GoalDone, ReportNewDepStopped,
                      PostJobStopped, AllPosted
  <1>8. CASE PostJob \/ NewDep \/ Wait \/ Handled \/ LoopEnds \/ AllJoined
    BY <1>6, <1>8 DEF PostJob, NewDep, Wait, Handled, LoopEnds, AllJoined
  <1>9. CASE UNCHANGED vars
    BY <1>6, <1>9 DEF vars
  <1> QED BY <1>3, <1>4, <1>5, <1>7, <1>8, <1>9 DEF Next, Manager, Work

\* A job has an id when it is posted.
LEMMA PostedStep ==
    ASSUME Shape, [Next]_vars
    PROVE  Posted'
  <1>1. /\ id \in [Node -> Nat] /\ done \in [Node -> {"absent", "nil", "job"}]
        /\ \A n \in Node : id[n] > 0 <=> done[n] = "job"
    BY DEF Shape, TypeOK, Posted
  <1>2. CASE MakeJob
    <2>1. PICK n \in Node : done[n] = "absent" /\ done' = [done EXCEPT ![n] = "nil"]
      BY <1>2, MakeJobIs DEF Shape
    <2>2. id' = id
      BY <1>2 DEF MakeJob
    <2> QED BY <1>1, <2>1, <2>2 DEF Posted
  <1>3. CASE PostJob
    <2>1. PICK n \in Node : n = Top.job
      BY <1>3, TopIsJob DEF PostJob
    <2>2. /\ done' = [done EXCEPT ![n] = "job"] /\ id' = [id EXCEPT ![n] = jobs + 1]
          /\ jobs \in Nat
      BY <1>3, <2>1 DEF PostJob, Shape, TypeOK
    <2> QED BY <1>1, <2>2 DEF Posted
  <1>4. CASE UNCHANGED <<done, id>>
    BY <1>1, <1>4 DEF Posted
  <1>5. CASE ReadNumDeps \/ WriteNumDeps \/ GoalDone \/ ReportNewDepStopped \/ PostJobStopped
             \/ AllPosted
    BY <1>4, <1>5 DEF ReadNumDeps, WriteNumDeps, GoalDone, ReportNewDepStopped,
                      PostJobStopped, AllPosted, jobVars
  <1>6. CASE NewDep \/ Wait \/ Handled \/ LoopEnds \/ AllJoined
    BY <1>4, <1>6 DEF NewDep, Wait, Handled, LoopEnds, AllJoined, jobVars, goVars
  <1>7. CASE \E w \in Worker : JobResult(w) \/ Dispatch(w) \/ Join(w) \/ Work(w)
    BY <1>4, <1>7 DEF JobResult, Dispatch, Join, Work, Build, Run, ReportStopped, jobVars, goVars
  <1>8. CASE UNCHANGED vars
    BY <1>4, <1>8 DEF vars, jobVars, goVars
  <1> QED BY <1>2, <1>3, <1>5, <1>6, <1>7, <1>8 DEF Next, Main, Manager

\* A worker that holds a job is busy: it becomes so when it gets the job, and
\* JobResult, which frees it, is where it lets the job go.
LEMMA HoldersStep ==
    ASSUME Shape, [Next]_vars, WorkTypes'
    PROVE  HoldersBusy'
  <1>0. wk \in [Worker -> Job] /\ \A w \in Worker : Holding(w) => w \in busy
    BY DEF Shape, TypeOK, HoldersBusy, Holding, Job
  <1>1. SUFFICES ASSUME NEW v \in Worker, Holding(v)' PROVE v \in busy'
    BY DEF HoldersBusy, WorkTypes, HeldIsJob, Holding
  <1>2. CASE \E w \in Worker : JobResult(w)
    <2>1. PICK w \in Worker : JobResult(w)
      BY <1>2
    <2>2. wk' = [wk EXCEPT ![w].at = "idle"] /\ busy' = busy \ {w}
      BY <2>1 DEF JobResult
    <2> QED BY <1>0, <1>1, <2>2 DEF Holding, Job
  <1>3. CASE \E w \in Worker : Dispatch(w)
    <2>1. PICK w \in Worker : Dispatch(w)
      BY <1>3
    <2>2. PICK j \in Node : wk' = [wk EXCEPT ![w] = [at |-> "build", job |-> j, res |-> "none"]]
      BY <2>1 DEF Dispatch
    <2>3. busy' = busy \cup {w}
      BY <2>1 DEF Dispatch
    <2> QED BY <1>0, <1>1, <2>2, <2>3 DEF Holding
  <1>4. CASE \E w \in Worker : Join(w) \/ Work(w)
    <2>1. PICK w \in Worker : Join(w) \/ Build(w) \/ Run(w) \/ ReportStopped(w)
      BY <1>4 DEF Work
    <2>2. busy' = busy /\ (v # w => wk'[v] = wk[v])
      BY <1>0, <2>1 DEF Join, Build, Run, ReportStopped, Ended, wmVars
    <2>3. CASE Build(w) \/ Run(w)
      BY <1>0, <1>1, <2>2, <2>3 DEF Build, Run, Holding
    <2>4. CASE Join(w) \/ ReportStopped(w)
      BY <1>0, <1>1, <2>2, <2>4 DEF Join, ReportStopped, Holding, Job
    <2> QED BY <2>1, <2>3, <2>4
  <1>5. CASE UNCHANGED <<wk, busy>>
    BY <1>0, <1>1, <1>5 DEF Holding
  <1>6. CASE Main
    BY <1>5, <1>6 DEF Main, MakeJob, ReadNumDeps, WriteNumDeps, GoalDone, ReportNewDepStopped,
                      PostJobStopped, AllPosted, wmVars
  <1>7. CASE PostJob \/ NewDep \/ Wait \/ Handled \/ LoopEnds \/ AllJoined
    BY <1>5, <1>7 DEF PostJob, NewDep, Wait, Handled, LoopEnds, AllJoined
  <1>8. CASE UNCHANGED vars
    BY <1>5, <1>8 DEF vars, wmVars
  <1> QED BY <1>2, <1>3, <1>4, <1>6, <1>7, <1>8 DEF Next, Manager

\* Every step keeps Shape.
LEMMA ShapeStep ==
    ASSUME Shape, [Next]_vars
    PROVE  Shape'
  <1>1. GoShape' /\ JobTypes' /\ MgrTypes' /\ FlagTypes' /\ WorkTypes' /\ Posted' /\ Stops'
    BY GoStep, JobStep, MgrStep, FlagStep, WorkStep, PostedStep
  <1>0. HoldersBusy'
    BY <1>1, HoldersStep
  <1>2. TypeOK'
    BY <1>0, <1>1 DEF GoShape, JobTypes, MgrTypes, FlagTypes, WorkTypes, TypeOK, Call, Job
  <1> QED BY <1>1, <1>2 DEF Shape, GoShape, WorkTypes

\* The time at first is later than that of any file.
LEMMA InitClock == Max(InitTs \cup {0}) \in Nat
  <1>1. \E t \in InitTs \cup {0} : \A u \in InitTs \cup {0} : t >= u
    <2>1. PICK t \in InitTs \cup {0} : \A u \in InitTs : u <= t
      BY GraphAssumption DEF GraphAssumption
    <2>2. InitTs \cup {0} \subseteq Nat
      BY GraphAssumption DEF GraphAssumption
    <2> QED BY <2>1, <2>2
  <1>2. Max(InitTs \cup {0}) \in InitTs \cup {0}
    BY <1>1 DEF Max
  <1>3. InitTs \cup {0} \subseteq Nat
    BY GraphAssumption DEF GraphAssumption
  <1> QED BY <1>2, <1>3

\* Shape at first.
LEMMA ShapeInit == Init => Shape
  <1> SUFFICES ASSUME Init PROVE Shape
    OBVIOUS
  <1>1. PICK goals \in Goals : stack = <<[job |-> Nil, rest |-> goals]>>
    BY DEF Init
  <1>2. goals \in Seq(Node)
    BY GraphAssumption DEF GraphAssumption
  <1> DEFINE c == [job |-> Nil, rest |-> goals]
  <1>3. c \in Call /\ c.job = Nil
    BY <1>2 DEF Call
  <1> HIDE DEF c
  <1>4. stack \in Seq(Call) /\ stack # << >> /\ Len(stack) = 1 /\ stack[1].job = Nil
    <2>1. stack = <<c>>
      BY <1>1 DEF c
    <2> QED BY <1>3, <2>1
  <1>5. CallsAre(stack)
    <2>1. \A i \in 1 .. 1 : i = 1
      OBVIOUS
    <2> QED BY <1>4, <2>1 DEF CallsAre
  <1>6. NotPosted /\ Circling /\ Posted
    <2>1. \A n \in Node : n # Nil
      BY GraphAssumption DEF GraphAssumption
    <2>2. \A n \in Node : ~OnCall(stack, n)
      <3>1. \A i \in 1 .. 1 : i = 1
        OBVIOUS
      <3> QED BY <1>4, <2>1, <3>1 DEF OnCall
    <2> QED BY <2>2 DEF Init, NotPosted, Making, Circling, Posted
  <1>7. MgrTypes /\ JobTypes
    BY DEF Init, MgrTypes, JobTypes
  <1>8. FlagTypes /\ Stops
    <2>1. waited = FALSE /\ err = FALSE /\ stopped = FALSE
      BY DEF Init
    <2> QED BY <2>1, Zenon DEF FlagTypes, Stops
  <1>9. WorkTypes
    <2>1. wk = [w \in Worker |-> [at |-> "idle", job |-> Nil, res |-> "none"]]
      BY DEF Init
    <2>2. wk \in [Worker -> Job] /\ HeldIsJob
      BY <2>1 DEF Job, HeldIsJob, Holding
    <2>3. clock \in Nat
      BY InitClock DEF Init
    <2>4. mtime \in [Node -> Nat \cup {NotExist}]
      BY GraphAssumption DEF Init, GraphAssumption
    <2> QED BY <2>2, <2>3, <2>4 DEF Init, WorkTypes
  <1>0. HoldersBusy
    BY DEF Init, HoldersBusy
  <1>10. TypeOK
    BY <1>0, <1>4, <1>7, <1>8, <1>9 DEF Init, JobTypes, MgrTypes, FlagTypes, WorkTypes, TypeOK, Call, Job
  <1> QED BY <1>5, <1>6, <1>8, <1>9, <1>10 DEF Shape, WorkTypes

\* Types, for every graph: in particular makeJobs never runs out of calls,
\* numDeps-- is only ever done for a job, and a worker that builds, runs or
\* reports holds a job and is in busyWorkers.
THEOREM TypeCorrect == Spec => []TypeOK
  <1>1. Init => Shape
    BY ShapeInit
  <1>2. Shape /\ [Next]_vars => Shape'
    BY ShapeStep
  <1>3. Shape => TypeOK
    BY DEF Shape
  <1> QED BY <1>1, <1>2, <1>3, PTL DEF Spec

\* The panic of handleNewDep cannot happen, for every graph: a job that gets
\* a new dependency is still being made, and has no id.
THEOREM NeverPanics == Spec => []NoPanic
  <1>1. Init => Shape
    BY ShapeInit
  <1>2. Shape /\ [Next]_vars => Shape'
    BY ShapeStep
  <1>3. Shape => NoPanic
    <2> SUFFICES ASSUME Shape, Visiting("job"), Top.job # Nil
                 PROVE  id[Top.job] = 0
      BY DEF NoPanic
    <2>1. Top.job \in Node /\ OnCall(stack, Top.job) /\ Making
      BY TopIs, TopIsJob DEF Shape, OnCall, Top, Visiting, Making
    <2>2. done[Top.job] = "nil"
      BY <2>1 DEF Shape, NotPosted
    <2>3. id[Top.job] \in Nat /\ ~(id[Top.job] > 0)
      BY <2>1, <2>2 DEF Shape, TypeOK, Posted
    <2> QED BY <2>3
  <1> QED BY <1>1, <1>2, <1>3, PTL DEF Spec

-----------------------------------------------------------------------------
(* Acyclic graphs: no dependency is dropped.                               *)

\* What n depends on is reached from whatever reaches n.
LEMMA ReachSucc ==
    ASSUME NEW n \in Node, NEW d, NEW m \in B!Succ(n), B!Circular(n, d)
    PROVE  B!Circular(m, d)
  BY DEF B!Circular

\* Every target reaches itself.
LEMMA ReachSelf ==
    ASSUME NEW n
    PROVE  B!Circular(n, n)
  BY DEF B!Circular

\* The elements of a tail.
LEMMA TailRange ==
    ASSUME NEW s \in Seq(Node), s # << >>
    PROVE  Head(s) \in Range(s) /\ Range(Tail(s)) \subseteq Range(s)
           /\ Range(s) \subseteq Range(Tail(s)) \cup {Head(s)}
  <1>1. PICK a \in Nat : a = Len(s) /\ a > 0 /\ DOMAIN s = 1 .. a
    BY LenProperties, EmptySeq
  <1>2. PICK t \in Seq(Node) : t = Tail(s) /\ Len(t) = a - 1
                               /\ \A i \in 1 .. a - 1 : t[i] = s[i + 1]
    <2>1. PICK t \in Seq(Node) : t = Tail(s)
      BY HeadTailProperties
    <2>2. Len(t) = Len(s) - 1 /\ \A i \in 1 .. Len(t) : t[i] = s[i + 1]
      BY <2>1, HeadTailProperties
    <2> QED BY <1>1, <2>1, <2>2
  <1>3. DOMAIN t = 1 .. a - 1 /\ Head(s) = s[1]
    BY <1>1, <1>2, LenProperties
  <1>4. \A i \in 1 .. a - 1 : i + 1 \in 1 .. a
    BY <1>1
  <1>5. 1 \in 1 .. a
    BY <1>1
  <1>6. \A i \in 1 .. a : i = 1 \/ (i - 1 \in 1 .. a - 1 /\ t[i - 1] = s[i])
    BY <1>1, <1>2
  <1>7. \A i \in 1 .. a : s[i] \in Range(t) \cup {Head(s)}
    BY <1>3, <1>6 DEF Range
  <1> QED BY <1>1, <1>2, <1>3, <1>4, <1>5, <1>7 DEF Range

\* The visit that is next is of something the job depends on.
LEMMA NextIsSucc ==
    ASSUME Shape, CallsReach, Making, Top.rest # << >>, Top.job # Nil
    PROVE  Head(Top.rest) \in B!Succ(Top.job)
  <1>1. PICK k \in Nat : k = Len(stack) /\ k > 1 /\ Top = stack[k]
    BY TopIs, TopIsJob DEF Shape, Top
  <1>2. k \in 2 .. k
    BY <1>1
  <1>3. Range(Top.rest) \subseteq B!Succ(Top.job)
    BY <1>1, <1>2 DEF CallsReach
  <1> QED BY <1>3, TailRange, TopIs DEF Shape

\* No circular dependency is met.
LEMMA NeverCircular ==
    ASSUME Shape, Acyclic, CallsReach
    PROVE  ~ReadNumDeps /\ ~WriteNumDeps
  <1>1. ~WriteNumDeps
    BY DEF WriteNumDeps, CallsReach, Making
  <1>2. ASSUME Visiting("nil")
        PROVE  FALSE
    <2>1. Making /\ Top.rest # << >>
      BY <1>2 DEF Visiting, Making
    <2>2. PICK d \in Node : d = Head(Top.rest) /\ done[d] = "nil"
      BY <1>2, <2>1, AdvanceIs DEF Visiting, Shape
    <2>3. PICK k \in Nat : k = Len(stack) /\ k > 0 /\ Top = stack[k]
      BY TopIs DEF Shape, Top
    <2>4. PICK i \in 1 .. k : stack[i].job = d
      BY <2>1, <2>2, <2>3 DEF Shape, NotPosted, OnCall
    <2>5. d # Nil
      BY GraphAssumption DEF GraphAssumption
    <2>6. i # 1
      BY <2>3, <2>4, <2>5 DEF Shape, CallsAre
    <2>7. i \in 2 .. k /\ k \in 2 .. k /\ i <= k /\ k # 1 /\ k \in 1 .. k
      BY <2>3, <2>6
    <2>8. Top.job # Nil
      BY <2>3, <2>7 DEF Shape, CallsAre
    <2>9. B!Circular(Top.job, d)
      BY <2>1, <2>3, <2>4, <2>7 DEF CallsReach
    <2> QED BY <2>1, <2>2, <2>8, <2>9, NextIsSucc, TopIsJob DEF Acyclic
  <1> QED BY <1>1, <1>2 DEF ReadNumDeps

\* A visit keeps CallsReach.
LEMMA AdvanceReach ==
    ASSUME Shape, CallsReach, Making, Top.rest # << >>, stack' = Advance, main' = "make"
    PROVE  CallsReach'
  <1>1. PICK k \in Nat : k = Len(stack) /\ Top = stack[k]
    BY TopIs DEF Shape, Top
  <1>2. Len(stack') = k /\ \A i \in 1 .. k : stack'[i].job = stack[i].job
    BY <1>1, AdvanceIs DEF Shape
  <1>3. \A i \in 1 .. k : Range(stack'[i].rest) \subseteq Range(stack[i].rest)
    BY <1>1, AdvanceIs, TailRange, TopIs DEF Shape
  <1>4. \A i \in 2 .. k : i \in 1 .. k
    OBVIOUS
  <1> QED BY <1>1, <1>2, <1>3, <1>4 DEF CallsReach

\* A new call is for a dependency of the one below it.
LEMMA MakeJobReach ==
    ASSUME Shape, CallsReach, MakeJob
    PROVE  CallsReach'
  <1>1. PICK n \in Node : n = Head(Top.rest)
    BY MakeJobIs DEF Shape
  <1>2. PICK k \in Nat : k = Len(stack) /\ k > 0 /\ Top = stack[k]
    BY TopIs DEF Shape, Top
  <1>3. Making /\ main' = "make" /\ Top.rest # << >>
    BY DEF MakeJob, Visiting, Making
  <1>4. /\ Len(stack') = k + 1
        /\ \A i \in 1 .. k : stack'[i].job = stack[i].job
        /\ \A i \in 1 .. k : Range(stack'[i].rest) \subseteq Range(stack[i].rest)
        /\ \A i \in 1 .. k + 1 : i > k => stack'[i].job = n
                                          /\ Range(stack'[i].rest) \subseteq B!Succ(n)
    BY <1>1, <1>2, <1>3, MakeJobIs, NewCallIs, TailRange, TopIs DEF Shape
  <1>5. \A i \in 2 .. k + 1 : i \in 1 .. k + 1 /\ (i > k \/ (i \in 1 .. k /\ i \in 2 .. k))
    OBVIOUS
  <1>6. ASSUME NEW i \in 2 .. k
        PROVE  B!Circular(n, stack[i].job)
    <2>1. k \in 2 .. k /\ i <= k /\ k # 1 /\ k \in 1 .. k
      BY <1>2
    <2>2. Top.job # Nil
      BY <1>2, <2>1 DEF Shape, CallsAre
    <2>3. B!Circular(Top.job, stack[i].job) /\ n \in B!Succ(Top.job) /\ Top.job \in Node
      BY <1>1, <1>2, <1>3, <2>1, <2>2, NextIsSucc, TopIsJob DEF CallsReach
    <2> QED BY <2>3, ReachSucc
  <1>7. ASSUME NEW i \in 2 .. k + 1, NEW j \in 2 .. k + 1, i <= j
        PROVE  B!Circular(stack'[j].job, stack'[i].job)
    <2>1. CASE j > k /\ i > k
      BY <1>4, <1>5, <2>1, ReachSelf
    <2>2. CASE j > k /\ ~(i > k)
      BY <1>4, <1>5, <1>6, <2>2
    <2>3. CASE ~(j > k)
      <3>1. j \in 2 .. k /\ i \in 2 .. k /\ j \in 1 .. k /\ i \in 1 .. k
        BY <1>7, <2>3
      <3> QED BY <1>2, <1>3, <1>4, <1>7, <3>1 DEF CallsReach
    <2> QED BY <2>1, <2>2, <2>3
  <1>8. ASSUME NEW i \in 2 .. k + 1
        PROVE  Range(stack'[i].rest) \subseteq B!Succ(stack'[i].job)
    <2>1. CASE i > k
      BY <1>4, <1>5, <2>1
    <2>2. CASE ~(i > k)
      <3>1. i \in 2 .. k /\ i \in 1 .. k
        BY <2>2
      <3> QED BY <1>2, <1>3, <1>4, <3>1 DEF CallsReach
    <2> QED BY <2>1, <2>2
  <1> QED BY <1>3, <1>4, <1>7, <1>8 DEF CallsReach

\* Every step keeps CallsReach.
LEMMA ReachStep ==
    ASSUME Shape, Acyclic, CallsReach, [Next]_vars
    PROVE  CallsReach'
  <1>1. CASE MakeJob
    BY <1>1, MakeJobReach
  <1>2. CASE GoalDone \/ ReportNewDepStopped \/ NewDep
    <2>1. Making /\ Top.rest # << >> /\ stack' = Advance /\ main' = "make"
      BY <1>2 DEF GoalDone, ReportNewDepStopped, NewDep, Visiting, Making
    <2> QED BY <2>1, AdvanceReach
  <1>3. CASE PostJob
    <2>1. Top.job # Nil /\ stack' = Popped /\ main = "make" /\ main' = "make"
      BY <1>3 DEF PostJob
    <2>2. PICK k \in Nat : k = Len(stack) /\ k > 1
      BY <2>1, TopIs, TopIsJob DEF Shape
    <2>3. Len(stack') = k - 1 /\ \A i \in 1 .. k - 1 : stack'[i] = stack[i]
      BY <2>1, <2>2, PoppedIs DEF Shape
    <2>4. \A i \in 2 .. k - 1 : i \in 1 .. k - 1 /\ i \in 2 .. k
      OBVIOUS
    <2> QED BY <2>1, <2>2, <2>3, <2>4 DEF CallsReach, Making
  <1>4. CASE ~Making'
    BY <1>4 DEF CallsReach
  <1>5. CASE PostJobStopped \/ AllPosted \/ Wait \/ AllJoined
    BY <1>4, <1>5 DEF PostJobStopped, AllPosted, Wait, AllJoined, Making
  <1>6. CASE UNCHANGED goVars
    BY <1>6 DEF goVars, CallsReach, Making
  <1>7. CASE Handled \/ LoopEnds
             \/ \E w \in Worker : JobResult(w) \/ Dispatch(w) \/ Join(w) \/ Work(w)
    BY <1>6, <1>7 DEF Handled, LoopEnds, JobResult, Dispatch, Join, Work, Build, Run, ReportStopped
  <1>8. CASE UNCHANGED vars
    BY <1>6, <1>8 DEF vars
  <1> QED BY <1>1, <1>2, <1>3, <1>5, <1>7, <1>8, NeverCircular DEF Next, Main, Manager

-----------------------------------------------------------------------------
(* What a job waits for.                                                   *)

\* The visits that are still to come.
LEMMA UnvisitedIs ==
    ASSUME NEW stk \in Seq(Call), CallsAre(stk)
    PROVE  /\ \A i \in 1 .. Len(stk) :
                 /\ UnvisitedIn(stk, stk[i].job) = 1 .. Len(stk[i].rest)
                 /\ Len(stk[i].rest) \in Nat
                 /\ Cardinality(UnvisitedIn(stk, stk[i].job)) = Len(stk[i].rest)
           /\ \A j : ~OnCall(stk, j) => UnvisitedIn(stk, j) = {}
  <1>1. DOMAIN stk = 1 .. Len(stk) /\ \A i \in 1 .. Len(stk) : stk[i] \in Call
    BY LenProperties, ElementOfSeq
  <1>2. ASSUME NEW i \in 1 .. Len(stk)
        PROVE  /\ UnvisitedIn(stk, stk[i].job) = 1 .. Len(stk[i].rest)
               /\ Len(stk[i].rest) \in Nat
               /\ Cardinality(UnvisitedIn(stk, stk[i].job)) = Len(stk[i].rest)
    <2>1. stk[i].rest \in Seq(Node)
      BY <1>1 DEF Call
    <2>2. PICK r \in Nat : r = Len(stk[i].rest) /\ DOMAIN stk[i].rest = 1 .. r
      BY <2>1, LenProperties
    <2>3. {l \in DOMAIN stk : stk[l].job = stk[i].job} = {i}
      BY <1>1 DEF CallsAre
    <2>4. UnvisitedIn(stk, stk[i].job) = 1 .. r
      BY <2>2, <2>3 DEF UnvisitedIn
    <2>5. Cardinality(1 .. r) = r
      BY FS_Interval
    <2> QED BY <2>2, <2>4, <2>5
  <1>3. ASSUME NEW j, ~OnCall(stk, j)
        PROVE  UnvisitedIn(stk, j) = {}
    <2>1. {l \in DOMAIN stk : stk[l].job = j} = {}
      BY <1>1, <1>3 DEF OnCall
    <2> QED BY <2>1 DEF UnvisitedIn
  <1> QED BY <1>2, <1>3

\* They are a finite number.
LEMMA UnvisitedNumber ==
    ASSUME NEW stk \in Seq(Call), CallsAre(stk), NEW j
    PROVE  Cardinality(UnvisitedIn(stk, j)) \in Nat
           /\ (Cardinality(UnvisitedIn(stk, j)) = 0 => UnvisitedIn(stk, j) = {})
  <1>1. CASE ~OnCall(stk, j)
    BY <1>1, UnvisitedIs, FS_EmptySet
  <1>2. CASE OnCall(stk, j)
    <2>1. PICK i \in 1 .. Len(stk) : stk[i].job = j
      BY <1>2 DEF OnCall
    <2>2. PICK r \in Nat : r = Len(stk[i].rest) /\ UnvisitedIn(stk, j) = 1 .. r
                           /\ Cardinality(UnvisitedIn(stk, j)) = r
      BY <2>1, UnvisitedIs
    <2> QED BY <2>2
  <1> QED BY <1>1, <1>2

\* An interval.
LEMMA UpTo ==
    ASSUME NEW m \in Nat
    PROVE  /\ IsFiniteSet(1 .. m) /\ Cardinality(1 .. m) = m
           /\ 1 .. m + 1 = (1 .. m) \cup {m + 1} /\ m + 1 \notin 1 .. m
  <1>1. IsFiniteSet(1 .. m) /\ Cardinality(1 .. m) = IF 1 > m THEN 0 ELSE m - 1 + 1
    BY FS_Interval
  <1> QED BY <1>1

\* The results that are still to come are a finite number.
LEMMA PendingNumber ==
    ASSUME NEW par \in [Node -> [Node -> Nat]], NEW open \in SUBSET Node, NEW j \in Node
    PROVE  /\ IsFiniteSet(PendingIn(par, open, j))
           /\ Cardinality(PendingIn(par, open, j)) \in Nat
           /\ Cardinality(PendingIn(par, open, j)) = 0 <=> PendingIn(par, open, j) = {}
           /\ \A e : e \in PendingIn(par, open, j) <=>
                       \E d \in open : \E k \in 1 .. par[d][j] : e = <<d, k>>
           /\ PendingIn(par, open, j) = {} <=> \A d \in open : par[d][j] = 0
  <1> DEFINE f == [d \in open |-> {d} \X (1 .. par[d][j])]
             S == {{d} \X (1 .. par[d][j]) : d \in open}
  <1>1. IsFiniteSet(open)
    BY FS_Subset, GraphAssumption DEF GraphAssumption
  <1>2. f \in Surjection(open, S)
    BY DEF Surjection
  <1>3. IsFiniteSet(S)
    <2> HIDE DEF f, S
    <2> QED BY <1>1, <1>2, FS_Surjection
  <1>4. ASSUME NEW d \in open
        PROVE  IsFiniteSet({d} \X (1 .. par[d][j]))
    <2>1. par[d][j] \in Nat
      OBVIOUS
    <2>2. IsFiniteSet({d}) /\ IsFiniteSet(1 .. par[d][j])
      BY <2>1, UpTo, FS_Singleton
    <2> QED BY <2>2, FS_Product
  <1>5. IsFiniteSet(UNION S)
    <2>1. \A T \in S : IsFiniteSet(T)
      BY <1>4
    <2> HIDE DEF S
    <2> QED BY <1>3, <2>1, FS_UNION
  <1>6. IsFiniteSet(PendingIn(par, open, j))
    BY <1>5 DEF PendingIn
  <1>7. ASSUME NEW e
        PROVE  e \in PendingIn(par, open, j) <=>
                  \E d \in open : \E k \in 1 .. par[d][j] : e = <<d, k>>
    BY DEF PendingIn
  <1>8. PendingIn(par, open, j) = {} <=> \A d \in open : par[d][j] = 0
    <2>1. ASSUME NEW d \in open, par[d][j] # 0
          PROVE  PendingIn(par, open, j) # {}
      <3>1. 1 \in 1 .. par[d][j]
        BY <2>1
      <3> QED BY <1>7, <3>1
    <2>2. ASSUME \A d \in open : par[d][j] = 0
          PROVE  PendingIn(par, open, j) = {}
      <3>1. \A d \in open : 1 .. par[d][j] = {}
        BY <2>2
      <3> QED BY <1>7, <3>1
    <2> QED BY <2>1, <2>2
  <1> QED BY <1>6, <1>7, <1>8, FS_CardinalityType, FS_EmptySet

\* One more.
LEMMA PendingMore ==
    ASSUME NEW par \in [Node -> [Node -> Nat]], NEW open \in SUBSET Node,
           NEW d \in open, NEW p \in Node, NEW new \in [Node -> [Node -> Nat]],
           new[d][p] = par[d][p] + 1,
           \A c, j \in Node : ~(c = d /\ j = p) => new[c][j] = par[c][j]
    PROVE  /\ Cardinality(PendingIn(new, open, p)) = Cardinality(PendingIn(par, open, p)) + 1
           /\ \A j \in Node : j # p => PendingIn(new, open, j) = PendingIn(par, open, j)
  <1>1. /\ new \in [Node -> [Node -> Nat]] /\ new[d][p] = par[d][p] + 1 /\ par[d][p] \in Nat
        /\ \A c, j \in Node : ~(c = d /\ j = p) => new[c][j] = par[c][j]
    OBVIOUS
  <1>2. ASSUME NEW j \in Node, j # p
        PROVE  PendingIn(new, open, j) = PendingIn(par, open, j)
    <2>1. \A c \in open : new[c][j] = par[c][j]
      BY <1>1, <1>2
    <2> QED BY <2>1 DEF PendingIn
  <1>3. PendingIn(new, open, p) = PendingIn(par, open, p) \cup {<<d, par[d][p] + 1>>}
    <2>1. \A k : k \in 1 .. new[d][p] <=> k \in 1 .. par[d][p] \/ k = par[d][p] + 1
      BY <1>1, UpTo
    <2>2. \A c \in open : c # d => new[c][p] = par[c][p]
      BY <1>1
    <2>3. \A e : e \in PendingIn(new, open, p) <=>
                    e \in PendingIn(par, open, p) \/ e = <<d, par[d][p] + 1>>
      <3>1. \A e : e \in PendingIn(new, open, p) <=>
                      \E c \in open : \E k \in 1 .. new[c][p] : e = <<c, k>>
        BY <1>1, PendingNumber
      <3>2. \A e : e \in PendingIn(par, open, p) <=>
                      \E c \in open : \E k \in 1 .. par[c][p] : e = <<c, k>>
        BY PendingNumber
      <3>3. ASSUME NEW e, e \in PendingIn(new, open, p)
            PROVE  e \in PendingIn(par, open, p) \/ e = <<d, par[d][p] + 1>>
        <4>1. PICK c \in open : \E k \in 1 .. new[c][p] : e = <<c, k>>
          BY <3>1, <3>3
        <4>2. PICK k \in 1 .. new[c][p] : e = <<c, k>>
          BY <4>1
        <4>3. CASE c = d
          BY <2>1, <3>2, <4>2, <4>3
        <4>4. CASE c # d
          BY <2>2, <3>2, <4>2, <4>4
        <4> QED BY <4>3, <4>4
      <3>4. ASSUME NEW e, e \in PendingIn(par, open, p)
            PROVE  e \in PendingIn(new, open, p)
        <4>1. PICK c \in open : \E k \in 1 .. par[c][p] : e = <<c, k>>
          BY <3>2, <3>4
        <4>2. PICK k \in 1 .. par[c][p] : e = <<c, k>>
          BY <4>1
        <4>3. k \in 1 .. new[c][p]
          BY <2>1, <2>2
        <4> QED BY <3>1, <4>2, <4>3
      <3>5. <<d, par[d][p] + 1>> \in PendingIn(new, open, p)
        <4>1. par[d][p] + 1 \in 1 .. new[d][p]
          BY <1>1
        <4> QED BY <3>1, <4>1
      <3> QED BY <3>3, <3>4, <3>5
    <2> QED BY <2>3
  <1>4. <<d, par[d][p] + 1>> \notin PendingIn(par, open, p)
    <2>1. ASSUME NEW c \in open, NEW k \in 1 .. par[c][p], <<d, par[d][p] + 1>> = <<c, k>>
          PROVE  FALSE
      <3>1. c = d /\ k = par[d][p] + 1
        BY <2>1
      <3>2. k <= par[d][p] /\ k \in Int
        BY <1>1, <3>1
      <3> QED BY <1>1, <3>1, <3>2
    <2> QED BY <2>1, PendingNumber
  <1>5. IsFiniteSet(PendingIn(par, open, p))
    BY PendingNumber
  <1> DEFINE e == <<d, par[d][p] + 1>> P == PendingIn(par, open, p)
  <1>6. PendingIn(new, open, p) = P \cup {e} /\ e \notin P /\ IsFiniteSet(P)
    BY <1>3, <1>4, <1>5
  <1> HIDE DEF e, P
  <1>7. Cardinality(P \cup {e}) = Cardinality(P) + 1
    BY <1>6, FS_AddElement
  <1> QED BY <1>2, <1>6, <1>7 DEF P

\* The result of x comes.
LEMMA PendingLess ==
    ASSUME NEW par \in [Node -> [Node -> Nat]], NEW open \in SUBSET Node,
           NEW x \in open, NEW p \in Node
    PROVE  Cardinality(PendingIn(par, open \ {x}, p))
             = Cardinality(PendingIn(par, open, p)) - par[x][p]
  <1> DEFINE X == {x} \X (1 .. par[x][p])
             R == PendingIn(par, open \ {x}, p)
  <1>1. open \ {x} \in SUBSET Node
    OBVIOUS
  <1>2. PICK m \in Nat : m = par[x][p]
    OBVIOUS
  <1>3. IsFiniteSet(X) /\ Cardinality(X) = m
    <2>1. IsFiniteSet({x}) /\ Cardinality({x}) = 1
      BY FS_Singleton
    <2>2. IsFiniteSet(1 .. m) /\ Cardinality(1 .. m) = m
      BY UpTo
    <2>3. /\ IsFiniteSet({x} \X (1 .. m))
          /\ Cardinality({x} \X (1 .. m)) = Cardinality({x}) * Cardinality(1 .. m)
      BY <2>1, <2>2, FS_Product
    <2>4. Cardinality({x} \X (1 .. m)) = m
      BY <2>1, <2>2, <2>3
    <2> QED BY <1>2, <2>3, <2>4
  <1>4. IsFiniteSet(R)
    BY <1>1, PendingNumber
  <1>5. PendingIn(par, open, p) = R \cup X
    <2>1. open = (open \ {x}) \cup {x}
      OBVIOUS
    <2> QED BY <2>1 DEF PendingIn
  <1>6. R \cap X = {}
    <2>1. ASSUME NEW e \in R, e \in X
          PROVE  FALSE
      <3>0. e \in PendingIn(par, open \ {x}, p)
        BY <2>1
      <3>1. PICK d \in open \ {x} : \E k \in 1 .. par[d][p] : e = <<d, k>>
        BY <3>0 DEF PendingIn
      <3>2. PICK k \in 1 .. par[d][p] : e = <<d, k>>
        BY <3>1
      <3>3. PICK l \in 1 .. par[x][p] : e = <<x, l>>
        BY <2>1
      <3> QED BY <3>2, <3>3
    <2> QED BY <2>1
  <1> HIDE DEF R, X
  <1>7. Cardinality(R \cup X) = Cardinality(R) + Cardinality(X) - Cardinality(R \cap X)
        /\ Cardinality(R \cap X) = 0
    BY <1>3, <1>4, <1>6, FS_Union, FS_EmptySet
  <1>8. Cardinality(R) \in Nat
    BY <1>4, FS_CardinalityType
  <1>9. Cardinality(R) = Cardinality(PendingIn(par, open, p)) - par[x][p]
    BY <1>2, <1>3, <1>5, <1>7, <1>8
  <1> QED BY <1>9 DEF R

-----------------------------------------------------------------------------
(* How the calls change what is still to be visited.                       *)

\* A visit.
LEMMA AdvanceUnvisited ==
    ASSUME Shape, Top.rest # << >>
    PROVE  /\ Cardinality(UnvisitedIn(Advance, Top.job))
                = Cardinality(UnvisitedIn(stack, Top.job)) - 1
           /\ \A j : j # Top.job => UnvisitedIn(Advance, j) = UnvisitedIn(stack, j)
  <1>1. PICK k \in Nat : k = Len(stack) /\ k > 0 /\ Top = stack[k] /\ k \in 1 .. k
    BY TopIs DEF Shape, Top
  <1>2. stack \in Seq(Call) /\ CallsAre(stack)
    BY TopIs DEF Shape
  <1>3. PICK a \in Seq(Call) : a = Advance
    BY AdvanceIs DEF Shape
  <1>4. /\ Len(a) = k /\ a[k].rest = Tail(Top.rest) /\ Len(a[k].rest) = Len(Top.rest) - 1
        /\ \A i \in 1 .. k : a[i].job = stack[i].job /\ (i # k => a[i] = stack[i])
    BY <1>1, <1>3, AdvanceIs DEF Shape
  <1>5. CallsAre(a)
    BY <1>1, <1>2, <1>4, SameCalls
  <1>6. Cardinality(UnvisitedIn(stack, Top.job)) = Len(Top.rest)
    BY <1>1, <1>2, UnvisitedIs
  <1>7. Cardinality(UnvisitedIn(a, a[k].job)) = Len(a[k].rest)
    BY <1>1, <1>4, <1>5, UnvisitedIs
  <1>8. ASSUME NEW j, j # Top.job
        PROVE  UnvisitedIn(a, j) = UnvisitedIn(stack, j)
    <2>1. DOMAIN a = 1 .. k /\ DOMAIN stack = 1 .. k
      BY <1>1, <1>2, <1>4, LenProperties
    <2> DEFINE I == {i \in 1 .. k : stack[i].job = j}
    <2>2. {i \in DOMAIN a : a[i].job = j} = I /\ {i \in DOMAIN stack : stack[i].job = j} = I
      BY <1>4, <2>1
    <2>3. \A i \in I : a[i] = stack[i]
      BY <1>1, <1>4, <1>8
    <2>4. UnvisitedIn(a, j) = UNION {DOMAIN a[i].rest : i \in I}
          /\ UnvisitedIn(stack, j) = UNION {DOMAIN stack[i].rest : i \in I}
      BY <2>2 DEF UnvisitedIn
    <2> HIDE DEF I
    <2> QED BY <2>3, <2>4
  <1> QED BY <1>1, <1>3, <1>4, <1>6, <1>7, <1>8

\* A new call.
LEMMA MakeJobUnvisited ==
    ASSUME Shape, MakeJob, Shape', NEW n, n = Head(Top.rest)
    PROVE  /\ Cardinality(UnvisitedIn(stack', n)) = Len(Deps[n]) + Len(Missing(n))
           /\ \A j : j # n => UnvisitedIn(stack', j) = UnvisitedIn(Advance, j)
  <1>1. PICK k \in Nat : k = Len(stack) /\ k > 0
    BY TopIs DEF Shape
  <1>2. PICK s \in Seq(Call) : s = stack'
    BY MakeJobIs DEF Shape
  <1>3. CallsAre(s)
    BY <1>2 DEF Shape
  <1>4. PICK a \in Seq(Call) : a = Advance /\ Len(a) = k
    BY <1>1, AdvanceIs, MakeJobIs DEF Shape
  <1>5. /\ n \in Node /\ Len(s) = k + 1 /\ s[k + 1] = NewCall(n)
        /\ \A i \in 1 .. k : s[i] = a[i]
    <2>1. k + 1 \in 1 .. k + 1 /\ k + 1 > k
      BY <1>1
    <2> QED BY <1>1, <1>2, <1>4, <2>1, MakeJobIs DEF Shape
  <1>6. Cardinality(UnvisitedIn(s, n)) = Len(Deps[n]) + Len(Missing(n))
    <2>1. k + 1 \in 1 .. Len(s)
      BY <1>1, <1>5
    <2>2. s[k + 1].job = n /\ Len(s[k + 1].rest) = Len(Deps[n]) + Len(Missing(n))
      BY <1>5, NewCallIs
    <2>3. Cardinality(UnvisitedIn(s, s[k + 1].job)) = Len(s[k + 1].rest)
      BY <1>3, <2>1, UnvisitedIs
    <2> QED BY <2>2, <2>3
  <1>7. ASSUME NEW j, j # n
        PROVE  UnvisitedIn(s, j) = UnvisitedIn(a, j)
    <2>1. DOMAIN a = 1 .. k /\ DOMAIN s = 1 .. k + 1
      BY <1>1, <1>4, <1>5, LenProperties
    <2> DEFINE I == {i \in 1 .. k : a[i].job = j}
    <2>2. \A i : i \in 1 .. k + 1 <=> i \in 1 .. k \/ i = k + 1
      BY <1>1
    <2>3. s[k + 1].job # j
      BY <1>5, <1>7, NewCallIs
    <2>4. {i \in DOMAIN a : a[i].job = j} = I /\ {i \in DOMAIN s : s[i].job = j} = I
      BY <1>5, <2>1, <2>2, <2>3
    <2>5. \A i \in I : a[i] = s[i]
      BY <1>5
    <2>6. UnvisitedIn(a, j) = UNION {DOMAIN a[i].rest : i \in I}
          /\ UnvisitedIn(s, j) = UNION {DOMAIN s[i].rest : i \in I}
      BY <2>4 DEF UnvisitedIn
    <2> HIDE DEF I
    <2> QED BY <2>5, <2>6
  <1> QED BY <1>2, <1>4, <1>6, <1>7

\* A call that has nothing to visit ends.
LEMMA PoppedUnvisited ==
    ASSUME Shape, Top.job # Nil, Top.rest = << >>, NEW j
    PROVE  UnvisitedIn(Popped, j) = UnvisitedIn(stack, j)
  <1>1. PICK k \in Nat : k = Len(stack) /\ k > 1 /\ Top = stack[k]
    BY TopIs, TopIsJob DEF Shape, Top
  <1>2. PICK p \in Seq(Call) : p = Popped
    BY <1>1, PoppedIs DEF Shape
  <1>3. Len(p) = k - 1 /\ \A i \in 1 .. k - 1 : p[i] = stack[i]
    BY <1>1, <1>2, PoppedIs DEF Shape
  <1>4. DOMAIN p = 1 .. k - 1 /\ DOMAIN stack = 1 .. k
    BY <1>1, <1>2, <1>3, TopIs, LenProperties DEF Shape
  <1>5. DOMAIN stack[k].rest = {}
    BY <1>1
  <1>6. \A i : i \in 1 .. k <=> i \in 1 .. k - 1 \/ i = k
    BY <1>1
  <1>7. \A e : e \in UnvisitedIn(p, j) <=>
               \E i \in 1 .. k - 1 : stack[i].job = j /\ e \in DOMAIN stack[i].rest
    BY <1>3, <1>4 DEF UnvisitedIn
  <1>8. \A e : e \in UnvisitedIn(stack, j) <=>
               \E i \in 1 .. k : stack[i].job = j /\ e \in DOMAIN stack[i].rest
    BY <1>4 DEF UnvisitedIn
  <1>9. \A e : e \in UnvisitedIn(p, j) <=> e \in UnvisitedIn(stack, j)
    BY <1>5, <1>6, <1>7, <1>8
  <1> QED BY <1>2, <1>9

-----------------------------------------------------------------------------
(* What a step needs to know about what its jobs wait for.                 *)

\* The numbers are numbers.
LEMMA TallyTypes ==
    ASSUME Shape, NEW j \in Node
    PROVE  /\ Open \in SUBSET Node /\ numDeps[j] \in Int /\ begun[j] \in Nat /\ ready[j] \in Nat
           /\ parents \in [Node -> [Node -> Nat]] /\ stack \in Seq(Call) /\ CallsAre(stack)
           /\ Cardinality(UnvisitedIn(stack, j)) \in Nat
           /\ Cardinality(UnvisitedIn(stack, j)) = 0 => UnvisitedIn(stack, j) = {}
           /\ Cardinality(PendingIn(parents, Open, j)) \in Nat
           /\ Cardinality(PendingIn(parents, Open, j)) = 0 <=> PendingIn(parents, Open, j) = {}
           /\ PendingIn(parents, Open, j) = {} <=> \A d \in Open : parents[d][j] = 0
  <1>1. Open \in SUBSET Node
    BY DEF Open, OpenIn
  <1>2. parents \in [Node -> [Node -> Nat]] /\ stack \in Seq(Call) /\ CallsAre(stack)
    BY TopIs DEF Shape, TypeOK
  <1>3. numDeps[j] \in Int /\ begun[j] \in Nat /\ ready[j] \in Nat
    BY DEF Shape, TypeOK
  <1> QED BY <1>1, <1>2, <1>3, PendingNumber, UnvisitedNumber

\* numDeps is negative from the moment a job is handed out, and only then.
LEMMA Negative ==
    ASSUME Shape, Tally, NEW m \in Node
    PROVE  /\ begun[m] = 0 => numDeps[m] >= 0
           /\ begun[m] # 0 => numDeps[m] = -1
           /\ numDeps[m] >= 0 => m \in Open
  <1>1. PICK x \in Int : x = numDeps[m]
    BY TallyTypes
  <1>2. PICK b \in Nat : b = begun[m]
    BY TallyTypes
  <1>3. x >= 0 => m \in Open
    BY <1>1 DEF Open, OpenIn
  <1>4. ASSUME b = 0
        PROVE  x >= 0
    <2>1. CASE done[m] = "absent"
      BY <1>1, <2>1 DEF Tally, Unmet
    <2>2. CASE done[m] # "absent"
      <3>1. PICK u \in Nat : u = Cardinality(UnvisitedIn(stack, m))
        BY TallyTypes
      <3>2. PICK q \in Nat : q = Cardinality(PendingIn(parents, Open, m))
        BY TallyTypes
      <3>3. x = u + q
        BY <1>1, <1>2, <1>4, <2>2, <3>1, <3>2 DEF Tally, Exact
      <3> QED BY <3>3
    <2> QED BY <2>1, <2>2
  <1>5. b # 0 => x = -1
    <2>1. b # 0 => b > 0
      OBVIOUS
    <2> QED BY <1>1, <1>2, <2>1 DEF Tally, Handed
  <1> QED BY <1>1, <1>2, <1>3, <1>4, <1>5

\* While a job has something to visit, neither it nor a job below it is ready.
LEMMA TopWaits ==
    ASSUME Shape, Tally, Making, Top.rest # << >>, Top.job # Nil
    PROVE  /\ Top.job \in Node /\ begun[Top.job] = 0 /\ numDeps[Top.job] > 0
           /\ done[Top.job] = "nil"
           /\ \A i \in 2 .. Len(stack) : numDeps[stack[i].job] > 0
  <1>1. PICK k \in Nat : k = Len(stack) /\ k > 1 /\ Top = stack[k] /\ k \in 1 .. k
    BY TopIs, TopIsJob DEF Shape, Top
  <1>2. PICK p \in Node : p = Top.job
    BY TopIsJob
  <1>3. done[p] = "nil"
    BY <1>1, <1>2 DEF Shape, NotPosted, OnCall
  <1>4. Cardinality(UnvisitedIn(stack, p)) = Len(Top.rest) /\ Len(Top.rest) \in Nat
        /\ UnvisitedIn(stack, p) = 1 .. Len(Top.rest)
    BY <1>1, <1>2, TallyTypes, UnvisitedIs
  <1>5. Len(Top.rest) > 0
    BY <1>4, TopIs, EmptySeq DEF Shape
  <1>6. begun[p] = 0
    <2>1. UnvisitedIn(stack, p) # {}
      BY <1>4, <1>5
    <2>2. begun[p] \in Nat
      BY TallyTypes
    <2>3. ~(begun[p] > 0)
      BY <2>1 DEF Tally, Handed
    <2> QED BY <2>2, <2>3
  <1>7. numDeps[p] > 0
    <2>1. numDeps[p] = Cardinality(UnvisitedIn(stack, p)) + Cardinality(PendingIn(parents, Open, p))
      BY <1>3, <1>6 DEF Tally, Exact
    <2> QED BY <1>4, <1>5, <2>1, TallyTypes
  <1>8. ASSUME NEW i \in 2 .. k
        PROVE  numDeps[stack[i].job] > 0
    <2>1. CASE i = k
      BY <1>1, <1>2, <1>7, <2>1
    <2>2. CASE i # k
      <3>1. i \in 2 .. k /\ k \in 2 .. k /\ i < k /\ i \in 1 .. k /\ i # 1
        BY <1>1, <2>2
      <3>2. p \in Open
        BY <1>7, Negative, TallyTypes
      <3>3. stack[i].job \in Node
        BY <1>1, <3>1, TopIs DEF Shape, CallsAre, Call
      <3>4. ~(numDeps[stack[i].job] <= 0)
        BY <1>1, <1>2, <3>1, <3>2 DEF Tally, CallsWait
      <3>5. numDeps[stack[i].job] \in Int
        BY <3>3, TallyTypes
      <3> QED BY <3>4, <3>5
    <2> QED BY <2>1, <2>2
  <1> QED BY <1>1, <1>2, <1>3, <1>6, <1>7, <1>8

\* The jobs of the calls.
LEMMA CallJobs ==
    ASSUME Shape, Making, NEW i \in 2 .. Len(stack)
    PROVE  stack[i].job \in Node /\ done[stack[i].job] = "nil"
  <1>1. PICK k \in Nat : k = Len(stack)
    BY TopIs DEF Shape
  <1>2. i \in 1 .. k /\ i # 1
    BY <1>1
  <1>3. stack[i].job \in Node
    BY <1>1, <1>2, TopIs DEF Shape, CallsAre, Call
  <1> QED BY <1>1, <1>2, <1>3 DEF Shape, NotPosted, OnCall

-----------------------------------------------------------------------------
(* Every step keeps Tally.                                                 *)

\* A step that changes nothing a job waits for.
LEMMA QuietTally ==
    ASSUME Tally, UNCHANGED <<numDeps, parents, begun, ready, done>>, Open' = Open,
           \A j \in Node : UnvisitedIn(stack', j) = UnvisitedIn(stack, j),
           Making' => Making /\ Len(stack') = Len(stack)
                      /\ \A i \in 2 .. Len(stack) : stack'[i].job = stack[i].job
    PROVE  Tally'
  <1>1. Exact'
    BY DEF Tally, Exact
  <1>2. Unmet' /\ Pushed'
    BY DEF Tally, Unmet, Pushed
  <1>3. Handed'
    BY DEF Tally, Handed
  <1>4. CallsWait'
    BY DEF Tally, CallsWait
  <1> QED BY <1>1, <1>2, <1>3, <1>4 DEF Tally

\* The same jobs are in the workers' hands.
LEMMA SameOpen ==
    ASSUME numDeps' = numDeps,
           \A w \in Worker : /\ Holding(w)' <=> Holding(w)
                             /\ Holding(w) => wk'[w].job = wk[w].job
    PROVE  Open' = Open
  <1>1. \A d : HeldIn(wk', d) <=> HeldIn(wk, d)
    BY DEF HeldIn, Holding
  <1> QED BY <1>1 DEF Open, OpenIn

\* A goal that has a job.
LEMMA GoalDoneTally ==
    ASSUME Shape, Tally, GoalDone
    PROVE  Tally'
  <1>1. /\ Making /\ Top.rest # << >> /\ Top.job = Nil /\ stack' = Advance
        /\ UNCHANGED <<numDeps, parents, begun, ready, done, wk>>
    BY DEF GoalDone, Visiting, Making, jobVars, wmVars, history
  <1>2. Open' = Open
    BY <1>1 DEF Open
  <1>3. \A j \in Node : j # Top.job
    BY <1>1, GraphAssumption DEF GraphAssumption
  <1>4. \A j \in Node : UnvisitedIn(stack', j) = UnvisitedIn(stack, j)
    BY <1>1, <1>3, AdvanceUnvisited
  <1>5. Len(stack') = Len(stack) /\ \A i \in 1 .. Len(stack) : stack'[i].job = stack[i].job
    BY <1>1, AdvanceIs DEF Shape
  <1>6. PICK k \in Nat : k = Len(stack)
    BY TopIs DEF Shape
  <1>7. \A i \in 2 .. k : i \in 1 .. k
    OBVIOUS
  <1> QED BY <1>1, <1>2, <1>4, <1>5, <1>6, <1>7, QuietTally

\* A new job waits for all its dependencies, and the job below it for this one.
LEMMA MakeJobTally ==
    ASSUME Shape, Tally, MakeJob, Shape'
    PROVE  Tally'
  <1>1. PICK n \in Node : /\ n = Head(Top.rest) /\ done[n] = "absent" /\ Top.rest # << >>
                          /\ done' = [done EXCEPT ![n] = "nil"]
                          /\ numDeps' = [numDeps EXCEPT ![n] = Len(Deps[n]) + Len(Missing(n))]
    BY MakeJobIs DEF Shape
  <1>2. PICK l \in Nat : l = Len(Deps[n]) + Len(Missing(n))
    BY GraphAssumption, MissingIs, LenProperties DEF GraphAssumption
  <1>3. /\ Making /\ Making' /\ UNCHANGED <<begun, ready, wk>>
        /\ parents' = IF Top.job = Nil THEN parents ELSE [parents EXCEPT ![n][Top.job] = 1]
    BY <1>1 DEF MakeJob, Visiting, Making, wmVars, history
  <1>4. /\ numDeps \in [Node -> Int] /\ parents \in [Node -> [Node -> Nat]]
        /\ begun \in [Node -> Nat] /\ done \in [Node -> {"absent", "nil", "job"}]
    BY DEF Shape, TypeOK
  <1>5. begun[n] = 0 /\ numDeps[n] = 0 /\ ready[n] = 0
        /\ \A d \in Node : parents[d][n] = 0 /\ parents[n][d] = 0
    BY <1>1 DEF Tally, Unmet
  <1>6. /\ numDeps'[n] = l /\ done'[n] = "nil"
        /\ \A m \in Node : m # n => numDeps'[m] = numDeps[m] /\ done'[m] = done[m]
    BY <1>1, <1>2, <1>4
  <1>7. Open' = Open
    BY <1>2, <1>3, <1>5, <1>6 DEF Open, OpenIn
  <1>8. Top.job # Nil =>
           Top.job \in Node /\ Top.job # n /\ begun[Top.job] = 0 /\ done[Top.job] = "nil"
    BY <1>1, <1>3, TopWaits
  <1>9. Open \in SUBSET Node /\ n \in Open
    BY <1>5, TallyTypes, Negative
  <1>10. ASSUME Top.job # Nil
         PROVE  /\ Cardinality(PendingIn(parents', Open, Top.job))
                     = Cardinality(PendingIn(parents, Open, Top.job)) + 1
                /\ \A j \in Node : j # Top.job =>
                      PendingIn(parents', Open, j) = PendingIn(parents, Open, j)
    <2>1. PICK p \in Node : p = Top.job
      BY <1>8, <1>10
    <2>2. parents' = [parents EXCEPT ![n][p] = 1] /\ parents[n][p] + 1 = 1
      BY <1>3, <1>5, <1>10, <2>1
    <2>3. /\ parents' \in [Node -> [Node -> Nat]] /\ parents'[n][p] = parents[n][p] + 1
          /\ \A c, j \in Node : ~(c = n /\ j = p) => parents'[c][j] = parents[c][j]
      BY <1>4, <2>2
    <2>4. /\ Cardinality(PendingIn(parents', Open, p))
               = Cardinality(PendingIn(parents, Open, p)) + 1
          /\ \A j \in Node : j # p => PendingIn(parents', Open, j) = PendingIn(parents, Open, j)
      BY <1>4, <1>9, <2>3, PendingMore
    <2> QED BY <2>1, <2>4
  <1>11. \A j \in Node : j # Top.job => PendingIn(parents', Open, j) = PendingIn(parents, Open, j)
    BY <1>3, <1>10
  <1>12. /\ Cardinality(UnvisitedIn(stack', n)) = l
         /\ \A j : j # n /\ j # Top.job => UnvisitedIn(stack', j) = UnvisitedIn(stack, j)
         /\ Top.job # Nil => Cardinality(UnvisitedIn(stack', Top.job))
                               = Cardinality(UnvisitedIn(stack, Top.job)) - 1
    <2>1. Cardinality(UnvisitedIn(stack', n)) = l
      BY <1>1, <1>2, MakeJobUnvisited
    <2>2. \A j : j # n => UnvisitedIn(stack', j) = UnvisitedIn(Advance, j)
      BY <1>1, MakeJobUnvisited
    <2> QED BY <1>1, <1>8, <2>1, <2>2, AdvanceUnvisited
  <1>13. n # Top.job
    BY <1>8, GraphAssumption DEF GraphAssumption
  <1>14. PendingIn(parents', Open, n) = {} /\ Cardinality(PendingIn(parents', Open, n)) = 0
    <2>1. PendingIn(parents, Open, n) = {}
      BY <1>5, <1>9, TallyTypes
    <2> QED BY <1>11, <1>13, <2>1, FS_EmptySet
  <1>15. Exact'
    <2> SUFFICES ASSUME NEW j \in Node, done'[j] # "absent", begun'[j] = 0
                 PROVE  numDeps'[j] = Cardinality(UnvisitedIn(stack', j))
                                      + Cardinality(PendingIn(parents', Open, j))
      BY <1>7 DEF Exact
    <2>1. CASE j = n
      <3>1. l = l + 0
        OBVIOUS
      <3> QED BY <1>6, <1>12, <1>14, <2>1, <3>1
    <2>2. CASE j = Top.job
      <3>1. numDeps[j] = Cardinality(UnvisitedIn(stack, j)) + Cardinality(PendingIn(parents, Open, j))
        BY <1>3, <1>6, <1>13, <2>2 DEF Tally, Exact
      <3>2. j # Nil
        BY GraphAssumption DEF GraphAssumption
      <3>3. PICK u \in Nat : u = Cardinality(UnvisitedIn(stack, j))
        BY TallyTypes
      <3>4. PICK q \in Nat : q = Cardinality(PendingIn(parents, Open, j))
        BY TallyTypes
      <3>5. Cardinality(UnvisitedIn(stack', j)) = u - 1
            /\ Cardinality(PendingIn(parents', Open, j)) = q + 1
        BY <1>10, <1>12, <2>2, <3>2, <3>3, <3>4
      <3> QED BY <1>6, <1>13, <2>2, <3>1, <3>3, <3>4, <3>5
    <2>3. CASE j # n /\ j # Top.job
      BY <1>3, <1>6, <1>11, <1>12, <2>3 DEF Tally, Exact
    <2> QED BY <2>1, <2>2, <2>3
  <1>16. \A c, m \in Node : parents'[c][m] = IF c = n /\ m = Top.job THEN 1 ELSE parents[c][m]
    BY <1>3, <1>4, <1>8, GraphAssumption DEF GraphAssumption
  <1>17. Unmet'
    <2> SUFFICES ASSUME NEW m \in Node, done'[m] = "absent"
                 PROVE  /\ begun'[m] = 0 /\ numDeps'[m] = 0 /\ ready'[m] = 0
                        /\ \A d \in Node : parents'[d][m] = 0 /\ parents'[m][d] = 0
      BY DEF Unmet
    <2>1. m # n /\ done[m] = "absent"
      BY <1>6
    <2>2. m # Top.job
      BY <1>8, <2>1, GraphAssumption DEF GraphAssumption
    <2> QED BY <1>3, <1>6, <1>16, <2>1, <2>2 DEF Tally, Unmet
  <1>18. Handed'
    <2> SUFFICES ASSUME NEW m \in Node, begun'[m] > 0
                 PROVE  /\ numDeps'[m] = -1 /\ PendingIn(parents', Open, m) = {}
                        /\ UnvisitedIn(stack', m) = {}
      BY <1>7 DEF Handed
    <2>1. m # n /\ m # Top.job
      BY <1>3, <1>5, <1>8, GraphAssumption DEF GraphAssumption
    <2> QED BY <1>3, <1>6, <1>11, <1>12, <2>1 DEF Tally, Handed
  <1>19. Pushed'
    BY <1>3, <1>5, <1>6 DEF Tally, Pushed
  <1>20. PICK k \in Nat : k = Len(stack) /\ k > 0 /\ Top = stack[k]
    BY TopIs DEF Shape, Top
  <1>21. /\ Len(stack') = k + 1 /\ \A i \in 1 .. k : stack'[i].job = stack[i].job
         /\ \A i \in 1 .. k + 1 : i > k => stack'[i].job = n
    <2>1. k = Len(stack) /\ TypeOK
      BY <1>20 DEF Shape
    <2>2. /\ n \in Node /\ Len(stack') = Len(stack) + 1
          /\ \A i \in 1 .. Len(stack) : stack'[i].job = stack[i].job
          /\ \A i \in 1 .. Len(stack) + 1 : i > Len(stack) => stack'[i] = NewCall(n)
      BY <1>1, <2>1, MakeJobIs, Zenon
    <2>3. NewCall(n).job = n
      BY <2>2, NewCallIs, Zenon
    <2> QED BY <2>1, <2>2, <2>3
  <1>22. \A i \in 2 .. k + 1 : i \in 1 .. k + 1 /\ (i > k \/ (i \in 1 .. k /\ i \in 2 .. k))
    OBVIOUS
  <1>23. \A i \in 2 .. k : stack[i].job \in Node /\ done[stack[i].job] = "nil"
    BY <1>3, <1>20, CallJobs
  <1>24. ASSUME NEW i \in 2 .. k + 1, NEW j \in 2 .. k + 1, j = i + 1
         PROVE  parents'[stack'[j].job][stack'[i].job] > 0
    <2>1. CASE j > k
      <3>1. i = k /\ k # 1 /\ i \in 1 .. k /\ k \in 1 .. k /\ j \in 1 .. k + 1
        BY <1>24, <2>1
      <3>2. Top.job # Nil
        BY <1>20, <3>1 DEF Shape, CallsAre
      <3> QED BY <1>8, <1>16, <1>20, <1>21, <2>1, <3>1, <3>2
    <2>2. CASE ~(j > k)
      <3>1. i \in 2 .. k /\ j \in 2 .. k /\ i \in 1 .. k /\ j \in 1 .. k
        BY <1>24, <2>2
      <3>2. parents[stack[j].job][stack[i].job] > 0
        BY <1>3, <1>20, <1>24, <3>1 DEF Tally, CallsWait
      <3> QED BY <1>16, <1>21, <1>23, <3>1, <3>2
    <2> QED BY <2>1, <2>2
  <1>25. ASSUME NEW i \in 2 .. k + 1, NEW j \in 2 .. k + 1, i < j, numDeps'[stack'[i].job] <= 0
         PROVE  stack'[j].job \notin Open
    <2>1. i \in 2 .. k /\ i \in 1 .. k
      BY <1>25
    <2>2. stack'[i].job = stack[i].job /\ stack[i].job # n
      BY <1>1, <1>21, <1>23, <2>1
    <2>3. numDeps[stack[i].job] <= 0
      BY <1>6, <1>23, <1>25, <2>1, <2>2
    <2>4. k # 1 /\ k \in 1 .. k
      BY <2>1
    <2>5. Top.job # Nil
      BY <1>20, <2>4 DEF Shape, CallsAre
    <2>6. numDeps[stack[i].job] > 0 /\ numDeps[stack[i].job] \in Int
      BY <1>1, <1>3, <1>4, <1>20, <1>23, <2>1, <2>5, TopWaits
    <2> QED BY <2>3, <2>6
  <1>26. CallsWait'
    BY <1>7, <1>21, <1>24, <1>25 DEF CallsWait
  <1> QED BY <1>15, <1>17, <1>18, <1>19, <1>26 DEF Tally

\* A job that has a job already is met again: the job that needs it waits
\* for its result, unless it was handed out.
LEMMA NewDepTally ==
    ASSUME Shape, Tally, NewDep
    PROVE  Tally'
  <1>1. /\ Making /\ Making' /\ Top.rest # << >> /\ Top.job # Nil /\ stack' = Advance
        /\ UNCHANGED <<begun, ready, done, wk>> /\ HandleNewDep(Head(Top.rest), Top.job)
        /\ done[Head(Top.rest)] = "job"
    BY DEF NewDep, Visiting, Making, history
  <1>2. PICK p \in Node : p = Top.job /\ begun[p] = 0 /\ numDeps[p] > 0 /\ done[p] = "nil"
    BY <1>1, TopWaits
  <1>3. PICK d \in Node : d = Head(Top.rest) /\ done[d] = "job"
    BY <1>1, AdvanceIs DEF Shape
  <1>4. /\ numDeps \in [Node -> Int] /\ parents \in [Node -> [Node -> Nat]]
    BY DEF Shape, TypeOK
  <1>5. Cardinality(UnvisitedIn(stack', p)) = Cardinality(UnvisitedIn(stack, p)) - 1
        /\ \A j : j # p => UnvisitedIn(stack', j) = UnvisitedIn(stack, j)
    BY <1>1, <1>2, AdvanceUnvisited
  <1>6. PICK k \in Nat : k = Len(stack)
    BY TopIs DEF Shape
  <1>7. Len(stack') = k /\ \A i \in 1 .. k : stack'[i].job = stack[i].job
    BY <1>1, <1>6, AdvanceIs DEF Shape
  <1>8. \A i \in 2 .. k : /\ i \in 1 .. k /\ stack'[i].job = stack[i].job /\ stack[i].job \in Node
                          /\ numDeps[stack[i].job] > 0 /\ numDeps[stack[i].job] \in Int
    <2>1. \A i \in 2 .. k : i \in 1 .. k
      OBVIOUS
    <2>2. \A i \in 2 .. k : stack[i].job \in Node
      BY <1>1, <1>6, CallJobs
    <2>3. \A i \in 2 .. k : numDeps[stack[i].job] > 0
      BY <1>1, <1>6, TopWaits
    <2> QED BY <1>4, <1>7, <2>1, <2>2, <2>3
  <1>9. PICK u \in Nat : u = Cardinality(UnvisitedIn(stack, p))
    BY TallyTypes
  <1>10. PICK q \in Nat : q = Cardinality(PendingIn(parents, Open, p))
    BY TallyTypes
  <1>11. numDeps[p] = u + q
    BY <1>2, <1>9, <1>10 DEF Tally, Exact
  <1>12. CASE numDeps[d] < 0
    <2>1. numDeps' = [numDeps EXCEPT ![p] = @ - 1] /\ parents' = parents
      BY <1>1, <1>2, <1>3, <1>12 DEF HandleNewDep
    <2>2. numDeps'[p] = u + q - 1 /\ \A m \in Node : m # p => numDeps'[m] = numDeps[m]
      BY <1>4, <1>11, <2>1
    <2>3. numDeps[p] \in Int /\ ~(numDeps[p] < 0) /\ ~(numDeps'[p] < 0)
      BY <1>2, <1>4, <1>11, <2>2
    <2>4. Open' = Open
      BY <1>1, <2>2, <2>3 DEF Open, OpenIn
    <2>5. Exact'
      <3> SUFFICES ASSUME NEW j \in Node, done'[j] # "absent", begun'[j] = 0
                   PROVE  numDeps'[j] = Cardinality(UnvisitedIn(stack', j))
                                        + Cardinality(PendingIn(parents', Open, j))
        BY <2>4 DEF Exact
      <3>1. CASE j = p
        BY <1>5, <1>9, <1>10, <2>1, <2>2, <3>1
      <3>2. CASE j # p
        BY <1>1, <1>5, <2>1, <2>2, <3>2 DEF Tally, Exact
      <3> QED BY <3>1, <3>2
    <2>6. Unmet'
      BY <1>1, <1>2, <2>1, <2>2 DEF Tally, Unmet
    <2>7. Handed'
      BY <1>1, <1>2, <1>5, <2>1, <2>2, <2>4 DEF Tally, Handed
    <2>8. Pushed'
      BY <1>1, <1>2, <2>1, <2>2 DEF Tally, Pushed
    <2>9. CallsWait'
      <3>1. ASSUME NEW i \in 2 .. k, NEW j \in 2 .. k, i < j, numDeps'[stack[i].job] <= 0
            PROVE  FALSE
        <4>1. i # k /\ k \in 1 .. k
          BY <3>1
        <4>2. stack[k].job = p
          BY <1>2, <1>6 DEF Top
        <4>3. stack[i].job # p
          BY <1>6, <1>8, <4>1, <4>2 DEF Shape, CallsAre
        <4> QED BY <1>8, <2>2, <3>1, <4>3
      <3>2. \A i, j \in 2 .. k : j = i + 1 => parents[stack[j].job][stack[i].job] > 0
        BY <1>1, <1>6 DEF Tally, CallsWait
      <3> QED BY <1>7, <1>8, <2>1, <3>1, <3>2 DEF CallsWait
    <2> QED BY <2>5, <2>6, <2>7, <2>8, <2>9 DEF Tally
  <1>13. CASE ~(numDeps[d] < 0)
    <2>1. parents' = [parents EXCEPT ![d][p] = @ + 1] /\ numDeps' = numDeps
      BY <1>1, <1>2, <1>3, <1>13 DEF HandleNewDep
    <2>2. /\ parents' \in [Node -> [Node -> Nat]] /\ parents'[d][p] = parents[d][p] + 1
          /\ \A c, j \in Node : ~(c = d /\ j = p) => parents'[c][j] = parents[c][j]
      BY <1>4, <2>1
    <2>3. Open' = Open
      BY <1>1, <2>1 DEF Open
    <2>4. Open \in SUBSET Node /\ d \in Open
      BY <1>4, <1>13, TallyTypes, Negative
    <2>5. /\ Cardinality(PendingIn(parents', Open, p)) = q + 1
          /\ \A j \in Node : j # p => PendingIn(parents', Open, j) = PendingIn(parents, Open, j)
      <3>1. /\ Cardinality(PendingIn(parents', Open, p))
                 = Cardinality(PendingIn(parents, Open, p)) + 1
            /\ \A j \in Node : j # p => PendingIn(parents', Open, j) = PendingIn(parents, Open, j)
        BY <1>4, <2>2, <2>4, PendingMore
      <3> QED BY <1>10, <3>1
    <2>6. Exact'
      <3> SUFFICES ASSUME NEW j \in Node, done'[j] # "absent", begun'[j] = 0
                   PROVE  numDeps'[j] = Cardinality(UnvisitedIn(stack', j))
                                        + Cardinality(PendingIn(parents', Open, j))
        BY <2>3 DEF Exact
      <3>1. CASE j = p
        BY <1>5, <1>9, <1>11, <2>1, <2>5, <3>1
      <3>2. CASE j # p
        BY <1>1, <1>5, <2>1, <2>5, <3>2 DEF Tally, Exact
      <3> QED BY <3>1, <3>2
    <2>7. Unmet'
      <3>1. \A m \in Node : done[m] = "absent" => m # p /\ m # d
        BY <1>2, <1>3
      <3> QED BY <1>1, <2>1, <2>2, <3>1 DEF Tally, Unmet
    <2>8. Handed'
      <3> SUFFICES ASSUME NEW m \in Node, begun[m] > 0
                   PROVE  /\ numDeps[m] = -1 /\ PendingIn(parents', Open, m) = {}
                          /\ UnvisitedIn(stack', m) = {}
        BY <1>1, <2>1, <2>3 DEF Handed
      <3>1. m # p
        BY <1>2
      <3> QED BY <1>5, <2>5, <3>1 DEF Tally, Handed
    <2>9. Pushed'
      BY <1>1, <2>1 DEF Tally, Pushed
    <2>10. \A c, j \in Node : parents[c][j] > 0 => parents'[c][j] > 0
      BY <1>4, <2>2
    <2>11. CallsWait'
      <3>1. \A i, j \in 2 .. k : j = i + 1 => parents[stack[j].job][stack[i].job] > 0
        BY <1>1, <1>6 DEF Tally, CallsWait
      <3>2. \A i \in 2 .. k : ~(numDeps'[stack'[i].job] <= 0)
        BY <1>8, <2>1
      <3> QED BY <1>7, <1>8, <2>10, <3>1, <3>2 DEF CallsWait
    <2> QED BY <2>6, <2>7, <2>8, <2>9, <2>11 DEF Tally
  <1> QED BY <1>12, <1>13

\* A job is posted: if it waits for nothing it is ready, once.
LEMMA PostJobTally ==
    ASSUME Shape, Tally, EarlyIsNext, PostJob
    PROVE  Tally'
  <1>1. /\ Making /\ Making' /\ Top.rest = << >> /\ Top.job # Nil /\ stack' = Popped
        /\ done' = [done EXCEPT ![Top.job] = "job"] /\ ready' = MaybePush({Top.job}, numDeps)
        /\ UNCHANGED <<begun, numDeps, parents, wk>> /\ wm = "loop"
    BY DEF PostJob, Making, Receiving, history
  <1>2. PICK k \in Nat : k = Len(stack) /\ k > 1
    BY <1>1, TopIs, TopIsJob DEF Shape
  <1>3. PICK p \in Node : p = Top.job /\ p = stack[k].job
    BY <1>1, <1>2, TopIsJob DEF Top
  <1>4. done[p] = "nil"
    <2>1. k \in 2 .. k
      BY <1>2
    <2> QED BY <1>1, <1>2, <1>3, <2>1, CallJobs
  <1>5. Open' = Open
    BY <1>1 DEF Open
  <1>6. \A j : UnvisitedIn(stack', j) = UnvisitedIn(stack, j)
    BY <1>1, PoppedUnvisited
  <1>7. \A m \in Node : done'[m] = "absent" <=> done[m] = "absent"
    <2>1. done \in [Node -> {"absent", "nil", "job"}]
      BY DEF Shape, TypeOK
    <2> QED BY <1>1, <1>3, <1>4, <2>1
  <1>8. ready[p] = 0
    <2>1. ~Early(p) /\ ready[p] \in Nat
      BY <1>1, TallyTypes DEF EarlyIsNext
    <2>2. ~(ready[p] > 0)
      BY <1>4, <2>1 DEF Early
    <2> QED BY <2>1, <2>2
  <1>9. /\ \A m \in Node : m # p => ready'[m] = ready[m]
        /\ ready'[p] = IF numDeps[p] = 0 THEN 1 ELSE 0
    BY <1>1, <1>3, <1>8 DEF MaybePush
  <1>10. Exact'
    BY <1>1, <1>5, <1>6, <1>7 DEF Tally, Exact
  <1>11. Unmet'
    <2>1. \A m \in Node : done'[m] = "absent" => m # p /\ done[m] = "absent"
      BY <1>4, <1>7
    <2> QED BY <1>1, <1>9, <2>1 DEF Tally, Unmet
  <1>12. Handed'
    BY <1>1, <1>5, <1>6 DEF Tally, Handed
  <1>13. Pushed'
    <2> SUFFICES ASSUME NEW m \in Node, ready'[m] > 0
                 PROVE  ready'[m] = 1 /\ begun[m] = 0 /\ numDeps[m] = 0
      BY <1>1 DEF Pushed
    <2>1. CASE m # p
      BY <1>9, <2>1 DEF Tally, Pushed
    <2>2. CASE m = p
      <3>1. numDeps[p] = 0 /\ ready'[p] = 1
        BY <1>9, <2>2
      <3>2. begun[p] = 0
        BY <3>1, Negative
      <3> QED BY <2>2, <3>1, <3>2
    <2> QED BY <2>1, <2>2
  <1>14. CallsWait'
    <2>1. Len(stack') = k - 1 /\ \A i \in 1 .. k - 1 : stack'[i] = stack[i]
      BY <1>1, <1>2, PoppedIs DEF Shape
    <2>2. \A i \in 2 .. k - 1 : i \in 1 .. k - 1 /\ i \in 2 .. k
      BY <1>2
    <2>3. \A i \in 2 .. k - 1 : stack'[i].job = stack[i].job /\ i \in 2 .. k
      BY <2>1, <2>2
    <2>4. /\ \A i, j \in 2 .. k : j = i + 1 => parents[stack[j].job][stack[i].job] > 0
          /\ \A i, j \in 2 .. k : i < j /\ numDeps[stack[i].job] <= 0 => stack[j].job \notin Open
      BY <1>1, <1>2 DEF Tally, CallsWait
    <2>5. /\ \A i, j \in 2 .. k - 1 : j = i + 1 => parents'[stack'[j].job][stack'[i].job] > 0
          /\ \A i, j \in 2 .. k - 1 :
                i < j /\ numDeps'[stack'[i].job] <= 0 => stack'[j].job \notin Open'
      BY <1>1, <1>5, <2>3, <2>4
    <2> QED BY <2>1, <2>5 DEF CallsWait
  <1> QED BY <1>10, <1>11, <1>12, <1>13, <1>14 DEF Tally

\* A job is handed out.
LEMMA DispatchTally ==
    ASSUME Shape, Tally, NEW w \in Worker, Dispatch(w)
    PROVE  Tally'
  <1>1. PICK j \in Node :
          /\ ready[j] > 0 /\ ready' = [ready EXCEPT ![j] = @ - 1]
          /\ numDeps' = [numDeps EXCEPT ![j] = -1]
          /\ wk' = [wk EXCEPT ![w] = [at |-> "build", job |-> j, res |-> "none"]]
          /\ begun' = [begun EXCEPT ![j] = @ + 1]
    BY DEF Dispatch
  <1>2. UNCHANGED <<main, stack, done, parents>> /\ wk[w].at = "idle"
    BY DEF Dispatch, goVars
  <1>3. ready[j] = 1 /\ begun[j] = 0 /\ numDeps[j] = 0 /\ done[j] # "absent"
    BY <1>1 DEF Tally, Pushed, Unmet
  <1>4. UnvisitedIn(stack, j) = {} /\ PendingIn(parents, Open, j) = {}
    <2>1. PICK u \in Nat : u = Cardinality(UnvisitedIn(stack, j))
      BY TallyTypes
    <2>2. PICK q \in Nat : q = Cardinality(PendingIn(parents, Open, j))
      BY TallyTypes
    <2>3. u + q = 0
      BY <1>3, <2>1, <2>2 DEF Tally, Exact
    <2>4. u = 0 /\ q = 0
      BY <2>3
    <2> QED BY <2>1, <2>2, <2>4, TallyTypes
  <1>5. /\ numDeps \in [Node -> Int] /\ begun \in [Node -> Nat] /\ ready \in [Node -> Nat]
        /\ wk \in [Worker -> Job]
    BY DEF Shape, TypeOK, Job
  <1>6. /\ numDeps'[j] = -1 /\ begun'[j] = 1 /\ ready'[j] = 0
        /\ \A m \in Node : m # j => /\ numDeps'[m] = numDeps[m] /\ begun'[m] = begun[m]
                                    /\ ready'[m] = ready[m]
    BY <1>1, <1>3, <1>5
  <1>7. Open' = Open
    <2>1. wk'[w].at = "build" /\ wk'[w].job = j /\ \A v \in Worker : v # w => wk'[v] = wk[v]
      BY <1>1, <1>5
    <2>2. HeldIn(wk', j)
      BY <2>1 DEF HeldIn
    <2>3. \A m \in Node : m # j => (HeldIn(wk', m) <=> HeldIn(wk, m))
      BY <1>2, <2>1 DEF HeldIn
    <2>4. \A m \in Node : m \in Open' <=> m \in Open
      BY <1>3, <1>6, <2>2, <2>3 DEF Open, OpenIn
    <2> QED BY <2>4 DEF Open, OpenIn
  <1>8. Exact'
    BY <1>2, <1>6, <1>7 DEF Tally, Exact
  <1>9. Unmet'
    BY <1>2, <1>3, <1>6 DEF Tally, Unmet
  <1>10. Handed'
    BY <1>2, <1>4, <1>6, <1>7 DEF Tally, Handed
  <1>11. Pushed'
    BY <1>6 DEF Tally, Pushed
  <1>12. CallsWait'
    <2>1. ASSUME Making, NEW i \in 2 .. Len(stack), numDeps'[stack[i].job] <= 0
          PROVE  numDeps[stack[i].job] <= 0
      <3>1. stack[i].job \in Node
        BY <2>1, CallJobs
      <3> QED BY <1>3, <1>6, <2>1, <3>1
    <2> QED BY <1>2, <1>7, <2>1 DEF Tally, CallsWait, Making
  <1> QED BY <1>8, <1>9, <1>10, <1>11, <1>12 DEF Tally

\* The result of a job: its parents wait for one thing less, and no parent
\* was handed out before.
LEMMA ResultIs ==
    ASSUME Shape, Tally, HeldOnce, NEW w \in Worker, JobResult(w), NEW x, x = wk[w].job
    PROVE  /\ x \in Node /\ x \in Open /\ begun[x] > 0 /\ Open' = Open \ {x}
           /\ \A m \in Node : /\ numDeps'[m] = numDeps[m] - parents[x][m]
                              /\ begun[m] # 0 \/ done[m] = "absent" => parents[x][m] = 0
                              /\ begun[m] = 0 => numDeps'[m] >= 0
  <1>1. /\ wk[w].at = "report" /\ wk' = [wk EXCEPT ![w].at = "idle"]
        /\ numDeps' = [p \in Node |-> numDeps[p] - parents[x][p]]
    BY DEF JobResult, UpdateParents
  <1>2. Holding(w) /\ x \in Node /\ begun[x] > 0
    BY <1>1 DEF Holding, Shape, HeldIsJob, HeldOnce
  <1>3. x \in Open
    BY <1>1, <1>2 DEF Open, OpenIn, HeldIn, Holding
  <1>4. \A m \in Node : numDeps'[m] = numDeps[m] - parents[x][m]
    BY <1>1
  <1>5. ASSUME NEW m \in Node, begun[m] # 0
        PROVE  parents[x][m] = 0 /\ numDeps[m] = -1 /\ numDeps'[m] = -1
    <2>1. begun[m] > 0
      BY <1>5, TallyTypes
    <2>2. PendingIn(parents, Open, m) = {} /\ numDeps[m] = -1
      BY <2>1 DEF Tally, Handed
    <2>3. parents[x][m] = 0
      BY <1>3, <2>2, TallyTypes
    <2> QED BY <1>4, <2>2, <2>3
  <1>6. ASSUME NEW m \in Node, done[m] = "absent"
        PROVE  parents[x][m] = 0 /\ numDeps'[m] = 0
    BY <1>2, <1>4, <1>6 DEF Tally, Unmet
  <1>7. ASSUME NEW m \in Node, begun[m] = 0
        PROVE  numDeps'[m] >= 0
    <2>1. CASE done[m] = "absent"
      BY <1>6, <2>1
    <2>2. CASE done[m] # "absent"
      <3>1. PICK u \in Nat : u = Cardinality(UnvisitedIn(stack, m))
        BY TallyTypes
      <3>2. PICK q \in Nat : q = Cardinality(PendingIn(parents, Open, m))
        BY TallyTypes
      <3>3. PICK r \in Nat : r = Cardinality(PendingIn(parents, Open \ {x}, m))
        BY TallyTypes, PendingNumber
      <3>4. r = q - parents[x][m] /\ parents[x][m] \in Nat
        <4>1. Open \in SUBSET Node /\ parents \in [Node -> [Node -> Nat]]
          BY TallyTypes
        <4>2. Cardinality(PendingIn(parents, Open \ {x}, m))
                = Cardinality(PendingIn(parents, Open, m)) - parents[x][m]
          BY <1>3, <4>1, PendingLess
        <4> QED BY <1>2, <3>2, <3>3, <4>1, <4>2
      <3>5. numDeps[m] = u + q
        BY <1>7, <2>2, <3>1, <3>2 DEF Tally, Exact
      <3> QED BY <1>4, <3>4, <3>5
    <2> QED BY <2>1, <2>2
  <1>8. Open' = Open \ {x}
    <2>1. wk \in [Worker -> Job]
      BY DEF Shape, TypeOK, Job
    <2>2. wk'[w].at = "idle" /\ \A v \in Worker : v # w => wk'[v] = wk[v]
      BY <1>1, <2>1 DEF Job
    <2>3. ~HeldIn(wk', x)
      BY <1>2, <2>2 DEF HeldIn, HeldOnce, Holding
    <2>4. \A m \in Node : m # x => (HeldIn(wk', m) <=> HeldIn(wk, m))
      BY <2>2 DEF HeldIn
    <2>5. \A m \in Node : numDeps'[m] < 0 <=> numDeps[m] < 0
      <3> TAKE m \in Node
      <3>1. numDeps[m] \in Int /\ (begun[m] = 0 => numDeps[m] >= 0)
        BY TallyTypes, Negative
      <3>2. numDeps'[m] \in Int
        BY <1>2, <1>4, <3>1, TallyTypes
      <3> QED BY <1>5, <1>7, <3>1, <3>2
    <2>6. numDeps'[x] < 0
      BY <1>2, <1>5
    <2>7. \A m \in Node : m \in Open' <=> m \in Open \ {x}
      BY <2>3, <2>4, <2>5, <2>6 DEF Open, OpenIn
    <2> QED BY <2>7 DEF Open, OpenIn
  <1> QED BY <1>2, <1>3, <1>4, <1>5, <1>6, <1>7, <1>8

\* A result keeps the tally.
LEMMA JobResultTally ==
    ASSUME Shape, Tally, HeldOnce, NEW w \in Worker, JobResult(w)
    PROVE  Tally'
  <1>1. PICK x \in Node :
          /\ x = wk[w].job /\ x \in Open /\ Open' = Open \ {x}
          /\ \A m \in Node : /\ numDeps'[m] = numDeps[m] - parents[x][m]
                             /\ begun[m] # 0 \/ done[m] = "absent" => parents[x][m] = 0
                             /\ begun[m] = 0 => numDeps'[m] >= 0
    BY ResultIs
  <1>2. UNCHANGED <<main, stack, done, parents, begun>>
    BY DEF JobResult, goVars, history
  <1>3. ready' = MaybePush({p \in Node : parents[x][p] > 0}, numDeps')
    BY <1>1 DEF JobResult, UpdateParents
  <1>4. /\ numDeps \in [Node -> Int] /\ parents \in [Node -> [Node -> Nat]]
        /\ ready \in [Node -> Nat] /\ begun \in [Node -> Nat]
    BY DEF Shape, TypeOK
  <1>5. ASSUME NEW m \in Node
        PROVE  /\ Cardinality(PendingIn(parents, Open', m))
                    = Cardinality(PendingIn(parents, Open, m)) - parents[x][m]
               /\ Cardinality(PendingIn(parents, Open', m)) \in Nat
               /\ Cardinality(PendingIn(parents, Open', m)) = 0 =>
                     \A d \in Open' : parents[d][m] = 0
               /\ PendingIn(parents, Open, m) = {} => PendingIn(parents, Open', m) = {}
    <2>1. Open \in SUBSET Node /\ Open \ {x} \in SUBSET Node
      BY TallyTypes
    <2>2. Cardinality(PendingIn(parents, Open \ {x}, m))
            = Cardinality(PendingIn(parents, Open, m)) - parents[x][m]
      BY <1>1, <1>4, <2>1, PendingLess
    <2>3. PICK o \in SUBSET Node : o = Open \ {x}
      BY <2>1
    <2>4. /\ Cardinality(PendingIn(parents, o, m)) \in Nat
          /\ Cardinality(PendingIn(parents, o, m)) = 0 <=> PendingIn(parents, o, m) = {}
          /\ PendingIn(parents, o, m) = {} <=> \A d \in o : parents[d][m] = 0
      BY <1>4, PendingNumber
    <2>5. PendingIn(parents, Open, m) = {} => \A d \in o : parents[d][m] = 0
      BY <2>3, TallyTypes
    <2> QED BY <1>1, <2>2, <2>3, <2>4, <2>5
  <1>6. Exact'
    <2> SUFFICES ASSUME NEW j \in Node, done[j] # "absent", begun[j] = 0
                 PROVE  numDeps'[j] = Cardinality(UnvisitedIn(stack, j))
                                      + Cardinality(PendingIn(parents, Open', j))
      BY <1>2 DEF Exact
    <2>1. PICK u \in Nat : u = Cardinality(UnvisitedIn(stack, j))
      BY TallyTypes
    <2>2. PICK q \in Nat : q = Cardinality(PendingIn(parents, Open, j))
      BY TallyTypes
    <2>3. numDeps[j] = u + q /\ parents[x][j] \in Nat
      BY <1>4, <2>1, <2>2 DEF Tally, Exact
    <2>4. numDeps'[j] = u + q - parents[x][j]
      BY <1>1, <2>3
    <2>5. Cardinality(PendingIn(parents, Open', j)) = q - parents[x][j]
      BY <1>5, <2>2
    <2> QED BY <2>1, <2>3, <2>4, <2>5
  <1>7. Unmet'
    <2> SUFFICES ASSUME NEW m \in Node, done[m] = "absent"
                 PROVE  numDeps'[m] = 0 /\ ready'[m] = 0
      BY <1>2 DEF Tally, Unmet
    <2>1. parents[x][m] = 0 /\ numDeps[m] = 0 /\ ready[m] = 0
      BY <1>1 DEF Tally, Unmet
    <2> QED BY <1>1, <1>3, <2>1 DEF MaybePush
  <1>8. Handed'
    <2> SUFFICES ASSUME NEW m \in Node, begun[m] > 0
                 PROVE  numDeps'[m] = -1 /\ PendingIn(parents, Open', m) = {}
                        /\ UnvisitedIn(stack, m) = {}
      BY <1>2 DEF Handed
    <2>1. numDeps[m] = -1 /\ PendingIn(parents, Open, m) = {} /\ UnvisitedIn(stack, m) = {}
      BY DEF Tally, Handed
    <2>2. parents[x][m] = 0
      BY <1>1
    <2>3. numDeps'[m] = numDeps[m] - 0
      BY <1>1, <2>2
    <2>4. PendingIn(parents, Open', m) = {}
      BY <1>5, <2>1
    <2> QED BY <2>1, <2>3, <2>4
  <1>9. Pushed'
    <2> SUFFICES ASSUME NEW m \in Node, ready'[m] > 0
                 PROVE  ready'[m] = 1 /\ begun[m] = 0 /\ numDeps'[m] = 0
      BY <1>2 DEF Pushed
    <2>1. numDeps'[m] = numDeps[m] - parents[x][m] /\ numDeps[m] \in Int
          /\ parents[x][m] \in Nat /\ ready[m] \in Nat /\ begun[m] \in Nat
      BY <1>1, <1>4
    <2>2. CASE parents[x][m] > 0 /\ numDeps'[m] = 0
      <3>1. begun[m] = 0
        BY <1>1, <2>1, <2>2
      <3>2. ready[m] = 0
        <4>1. ~(ready[m] > 0)
          BY <2>1, <2>2 DEF Tally, Pushed
        <4> QED BY <2>1, <4>1
      <3>3. ready'[m] = ready[m] + 1
        BY <1>3, <2>2 DEF MaybePush
      <3> QED BY <2>2, <3>1, <3>2, <3>3
    <2>3. CASE ~(parents[x][m] > 0 /\ numDeps'[m] = 0)
      <3>1. ready'[m] = ready[m]
        BY <1>3, <2>3 DEF MaybePush
      <3>2. ready[m] = 1 /\ begun[m] = 0 /\ numDeps[m] = 0
        BY <3>1 DEF Tally, Pushed
      <3>3. numDeps'[m] >= 0
        BY <1>1, <3>2
      <3> QED BY <2>1, <3>1, <3>2, <3>3
    <2> QED BY <2>2, <2>3
  <1>10. ASSUME NEW k \in Nat, k = Len(stack), Making,
                NEW i \in 2 .. k, NEW j \in 2 .. k, i < j, numDeps'[stack[i].job] <= 0
         PROVE  stack[j].job \notin Open'
    <2>1. PICK a \in Node : a = stack[i].job /\ done[a] = "nil"
      BY <1>10, CallJobs
    <2>2. numDeps[a] \in Int /\ parents[x][a] \in Nat /\ numDeps'[a] = numDeps[a] - parents[x][a]
      BY <1>1, <1>4
    <2>3. CASE numDeps[a] <= 0
      BY <1>1, <1>10, <2>1, <2>3 DEF Tally, CallsWait
    <2>4. CASE ~(numDeps[a] <= 0)
      <3>1. begun[a] = 0
        <4>1. ~(begun[a] > 0) /\ begun[a] \in Nat
          BY <1>4, <2>2, <2>4 DEF Tally, Handed
        <4> QED BY <4>1
      <3>2. numDeps'[a] = 0
        BY <1>1, <1>10, <2>1, <2>2, <3>1
      <3>3. PICK u \in Nat : u = Cardinality(UnvisitedIn(stack, a))
        BY TallyTypes
      <3>4. PICK r \in Nat : r = Cardinality(PendingIn(parents, Open', a))
        BY <1>5
      <3>5. u + r = 0
        BY <1>2, <1>6, <2>1, <3>1, <3>2, <3>3, <3>4 DEF Exact
      <3>6. \A d \in Open' : parents[d][a] = 0
        <4>1. r = 0
          BY <3>5
        <4> QED BY <1>5, <3>4, <4>1
      <3>7. PICK l \in 2 .. k : l = i + 1 /\ l <= j
        BY <1>10
      <3>8. parents[stack[l].job][a] > 0
        BY <1>10, <2>1, <3>7 DEF Tally, CallsWait
      <3>9. stack[l].job \notin Open'
        BY <3>6, <3>8
      <3>10. CASE l = j
        BY <3>9, <3>10
      <3>11. CASE l # j
        <4>1. PICK b \in Node : b = stack[l].job
          BY <1>10, CallJobs
        <4>2. numDeps[b] <= 0
          <5>1. numDeps'[b] < 0
            BY <3>9, <4>1 DEF Open, OpenIn
          <5>2. begun[b] # 0
            <6>1. numDeps'[b] \in Int
              BY <1>1, <1>4
            <6> QED BY <1>1, <5>1, <6>1
          <5>3. numDeps[b] = -1
            BY <5>2, Negative
          <5> QED BY <5>3
        <4>3. l < j
          BY <3>7, <3>11
        <4> QED BY <1>1, <1>10, <4>1, <4>2, <4>3 DEF Tally, CallsWait
      <3> QED BY <3>10, <3>11
    <2> QED BY <2>3, <2>4
  <1>11. CallsWait'
    <2>1. Len(stack) \in Nat
      BY TopIs DEF Shape
    <2> QED BY <1>2, <1>10, <2>1 DEF Tally, CallsWait, Making
  <1> QED BY <1>6, <1>7, <1>8, <1>9, <1>11 DEF Tally

-----------------------------------------------------------------------------
(* Every step keeps Waiting.                                               *)

\* What a worker has in its hands: only Dispatch puts a job there.
LEMMA HoldingStep ==
    ASSUME Shape, [Next]_vars, \A w \in Worker : ~Dispatch(w)
    PROVE  /\ begun' = begun
           /\ \A w \in Worker : Holding(w)' => Holding(w) /\ wk'[w].job = wk[w].job
  <1>1. wk \in [Worker -> Job]
    BY DEF Shape, TypeOK, Job
  <1>2. CASE UNCHANGED <<wk, begun>>
    BY <1>2 DEF Holding
  <1>3. ASSUME NEW w \in Worker, JobResult(w) \/ Join(w) \/ ReportStopped(w)
        PROVE  /\ begun' = begun
               /\ \A v \in Worker : Holding(v)' => Holding(v) /\ wk'[v].job = wk[v].job
    <2>1. PICK a \in {"idle", "quit"} : begun' = begun /\ wk' = [wk EXCEPT ![w].at = a]
      BY <1>3 DEF JobResult, Join, ReportStopped, history
    <2>2. wk'[w].at = a /\ \A v \in Worker : v # w => wk'[v] = wk[v]
      BY <1>1, <2>1 DEF Job
    <2> QED BY <2>1, <2>2 DEF Holding
  <1>4. ASSUME NEW w \in Worker, Build(w) \/ Run(w)
        PROVE  /\ begun' = begun
               /\ \A v \in Worker : Holding(v)' => Holding(v) /\ wk'[v].job = wk[v].job
    <2>1. begun' = begun /\ Holding(w)
      BY <1>4 DEF Build, Run, Holding
    <2>2. wk'[w].job = wk[w].job /\ \A v \in Worker : v # w => wk'[v] = wk[v]
      BY <1>1, <1>4 DEF Build, Run, Ended, Job
    <2> QED BY <2>1, <2>2 DEF Holding
  <1>5. CASE Main
    BY <1>2, <1>5 DEF Main, MakeJob, ReadNumDeps, WriteNumDeps, GoalDone, ReportNewDepStopped,
          PostJobStopped, AllPosted, history
  <1>6. CASE PostJob \/ NewDep \/ Wait \/ Handled \/ LoopEnds \/ AllJoined
    BY <1>2, <1>6 DEF PostJob, NewDep, Wait, Handled, LoopEnds, AllJoined, history
  <1>7. CASE UNCHANGED vars
    BY <1>2, <1>7 DEF vars, history
  <1> QED BY <1>3, <1>4, <1>5, <1>6, <1>7 DEF Next, Manager, Work

\* A job is handed out once, and to one worker.
LEMMA HeldStep ==
    ASSUME Shape, Waiting, [Next]_vars
    PROVE  HeldOnce' /\ RunsOnce'
  <1>1. CASE \A w \in Worker : ~Dispatch(w)
    <2>1. HeldOnce'
      BY <1>1, HoldingStep DEF Waiting, HeldOnce, Shape, HeldIsJob
    <2>2. RunsOnce'
      BY <1>1, HoldingStep DEF Waiting, RunsOnce
    <2> QED BY <2>1, <2>2
  <1>2. ASSUME NEW w \in Worker, Dispatch(w)
        PROVE  HeldOnce' /\ RunsOnce'
    <2>1. PICK j \in Node : /\ ready[j] > 0
                            /\ wk' = [wk EXCEPT ![w] = [at |-> "build", job |-> j, res |-> "none"]]
                            /\ begun' = [begun EXCEPT ![j] = @ + 1]
      BY <1>2 DEF Dispatch
    <2>2. ~stopped
      BY <1>2 DEF Dispatch, Shape, Stops
    <2>3. begun[j] = 0
      BY <2>1, <2>2 DEF Waiting, Tally, Pushed
    <2>4. wk \in [Worker -> Job] /\ begun \in [Node -> Nat]
      BY DEF Shape, TypeOK, Job
    <2>5. wk'[w].job = j /\ \A v \in Worker : v # w => wk'[v] = wk[v]
      BY <2>1, <2>4
    <2>6. begun'[j] = 1 /\ \A m \in Node : m # j => begun'[m] = begun[m]
      BY <2>1, <2>3, <2>4
    <2>7. RunsOnce'
      BY <2>6 DEF Waiting, RunsOnce
    <2>8. \A v \in Worker : v # w /\ Holding(v)' =>
             Holding(v) /\ wk[v].job \in Node /\ begun[wk[v].job] > 0 /\ wk[v].job # j
      BY <2>3, <2>5 DEF Waiting, HeldOnce, Holding, Shape, HeldIsJob
    <2>9. \A v \in Worker : Holding(v)' => begun'[wk'[v].job] > 0
      BY <2>5, <2>6, <2>8
    <2>10. \A v, x \in Worker : Holding(v)' /\ Holding(x)' /\ wk'[v].job = wk'[x].job => v = x
      BY <2>5, <2>8 DEF Waiting, HeldOnce
    <2> QED BY <2>7, <2>9, <2>10 DEF HeldOnce
  <1> QED BY <1>1, <1>2

\* A manager that has not seen an error has not seen one before.
LEMMA StillRuns ==
    ASSUME Shape, [Next]_vars, ~stopped'
    PROVE  ~stopped
  <1>1. CASE stopped' = stopped
    BY <1>1
  <1>2. ASSUME NEW w \in Worker, JobResult(w)
        PROVE  ~stopped
    BY <1>2 DEF JobResult, Receiving, Shape, Stops
  <1>3. CASE Main
    BY <1>1, <1>3 DEF Main, MakeJob, ReadNumDeps, WriteNumDeps, GoalDone, ReportNewDepStopped,
          PostJobStopped, AllPosted, wmVars
  <1>4. CASE PostJob \/ NewDep \/ Wait \/ Handled \/ LoopEnds \/ AllJoined
    BY <1>1, <1>4 DEF PostJob, NewDep, Wait, Handled, LoopEnds, AllJoined
  <1>5. ASSUME NEW w \in Worker, Dispatch(w) \/ Join(w) \/ Work(w)
        PROVE  ~stopped
    BY <1>1, <1>5 DEF Dispatch, Join, Work, Build, Run, ReportStopped, wmVars
  <1>6. CASE UNCHANGED vars
    BY <1>1, <1>6 DEF vars, wmVars
  <1> QED BY <1>2, <1>3, <1>4, <1>5, <1>6 DEF Next, Manager

\* The steps that change nothing a job waits for.
LEMMA OtherTally ==
    ASSUME Shape, Tally,
           \/ AllPosted \/ Wait \/ Handled \/ LoopEnds \/ AllJoined \/ UNCHANGED vars
           \/ \E w \in Worker : Join(w) \/ Build(w) \/ Run(w)
    PROVE  Tally'
  <1>1. UNCHANGED <<numDeps, parents, begun, ready, done, stack>> /\ (main' = main \/ ~Making')
    BY DEF AllPosted, Wait, Handled, LoopEnds, AllJoined, vars, Join, Build, Run, goVars, jobVars,
           wmVars, history, Making
  <1>2. Open' = Open
    <2>1. CASE wk' = wk
      BY <1>1, <2>1 DEF Open
    <2>2. wk \in [Worker -> Job]
      BY DEF Shape, TypeOK, Job
    <2>3. ASSUME NEW w \in Worker, Join(w)
          PROVE  Open' = Open
      <3>1. wk[w].at = "idle" /\ wk' = [wk EXCEPT ![w].at = "quit"]
        BY <2>3 DEF Join
      <3>2. wk'[w].at = "quit" /\ \A v \in Worker : v # w => wk'[v] = wk[v]
        BY <2>2, <3>1 DEF Job
      <3> QED BY <1>1, <3>1, <3>2, SameOpen DEF Holding
    <2>4. ASSUME NEW w \in Worker, Build(w) \/ Run(w)
          PROVE  Open' = Open
      <3>1. Holding(w)
        BY <2>4 DEF Build, Run, Holding
      <3>2. /\ wk'[w].job = wk[w].job /\ \A v \in Worker : v # w => wk'[v] = wk[v]
            /\ wk'[w].at \in {"run", "report"}
        BY <2>2, <2>4 DEF Build, Run, Ended, Job
      <3> QED BY <1>1, <3>1, <3>2, SameOpen DEF Holding
    <2> QED BY <2>1, <2>3, <2>4 DEF AllPosted, Wait, Handled, LoopEnds, AllJoined, vars
  <1> QED BY <1>1, <1>2, QuietTally DEF Making

\* The tally is kept.
LEMMA TallyStep ==
    ASSUME Shape, Shape', Acyclic, Waiting, [Next]_vars, ~stopped
    PROVE  Tally'
  <1>1. Tally /\ EarlyIsNext /\ HeldOnce /\ CallsReach
    BY DEF Waiting
  <1>2. CASE MakeJob
    BY <1>1, <1>2, MakeJobTally
  <1>3. CASE GoalDone
    BY <1>1, <1>3, GoalDoneTally
  <1>4. CASE PostJob
    BY <1>1, <1>4, PostJobTally
  <1>5. CASE NewDep
    BY <1>1, <1>5, NewDepTally
  <1>6. CASE \E w \in Worker : JobResult(w)
    BY <1>1, <1>6, JobResultTally
  <1>7. CASE \E w \in Worker : Dispatch(w)
    BY <1>1, <1>7, DispatchTally
  <1>8. ~ReportNewDepStopped /\ ~PostJobStopped /\ \A w \in Worker : ~ReportStopped(w)
    BY DEF ReportNewDepStopped, PostJobStopped, ReportStopped
  <1> QED BY <1>1, <1>2, <1>3, <1>4, <1>5, <1>6, <1>7, <1>8, NeverCircular, OtherTally
          DEF Next, Main, Manager, Work

\* Two jobs that are not posted cannot be ready together: the one below
\* waits for the one above.
LEMMA OneEarly ==
    ASSUME Shape, Tally, ~stopped, NEW m \in Node, NEW n \in Node, Early(m), Early(n)
    PROVE  m = n
  <1>1. Making
    BY DEF Shape, NotPosted, Early
  <1>2. PICK k \in Nat : k = Len(stack)
    BY TopIs DEF Shape
  <1>3. PICK i \in 1 .. k : stack[i].job = m
    BY <1>1, <1>2 DEF Shape, NotPosted, OnCall, Early
  <1>4. PICK j \in 1 .. k : stack[j].job = n
    BY <1>1, <1>2 DEF Shape, NotPosted, OnCall, Early
  <1>5. m # Nil /\ n # Nil
    BY GraphAssumption DEF GraphAssumption
  <1>6. i # 1 /\ j # 1
    BY <1>2, <1>3, <1>4, <1>5 DEF Shape, CallsAre
  <1>7. i \in 2 .. k /\ j \in 2 .. k
    BY <1>6
  <1>8. numDeps[m] = 0 /\ numDeps[n] = 0 /\ m \in Open /\ n \in Open
    BY Negative DEF Tally, Pushed, Early
  <1>9. ~(i < j) /\ ~(j < i)
    BY <1>1, <1>2, <1>3, <1>4, <1>7, <1>8 DEF Tally, CallsWait
  <1>10. i = j
    BY <1>9
  <1> QED BY <1>3, <1>4, <1>10

\* A job that is ready before it is posted goes to a worker before another
\* job is received.
LEMMA EarlyStep ==
    ASSUME Shape, Tally, EarlyIsNext, ~stopped, [Next]_vars
    PROVE  EarlyIsNext'
  <1>1. CASE UNCHANGED <<wm, ready, done, busy>>
    BY <1>1 DEF EarlyIsNext, Early, Free
  <1>2. CASE MakeJob
    <2>1. PICK n \in Node : done[n] = "absent" /\ done' = [done EXCEPT ![n] = "nil"]
      BY <1>2, MakeJobIs DEF Shape
    <2>2. UNCHANGED <<wm, ready, busy>>
      BY <1>2 DEF MakeJob, wmVars
    <2>3. ready[n] = 0
      BY <2>1 DEF Tally, Unmet
    <2>4. \A m \in Node : Early(m)' => Early(m)
      <3>1. done \in [Node -> {"absent", "nil", "job"}]
        BY DEF Shape, TypeOK
      <3> QED BY <2>1, <2>2, <2>3, <3>1 DEF Early
    <2> QED BY <2>2, <2>4 DEF EarlyIsNext, Free
  <1>3. CASE PostJob
    <2>1. /\ wm = "loop" /\ wm' = "handle" /\ Top.job # Nil
          /\ done' = [done EXCEPT ![Top.job] = "job"] /\ ready' = MaybePush({Top.job}, numDeps)
      BY <1>3 DEF PostJob, Receiving
    <2>2. PICK p \in Node : p = Top.job
      BY <2>1, TopIsJob
    <2>3. \A m \in Node : Early(m)' => Early(m)
      <3>1. done \in [Node -> {"absent", "nil", "job"}]
        BY DEF Shape, TypeOK
      <3> QED BY <2>1, <2>2, <3>1 DEF Early, MaybePush
    <2> QED BY <2>1, <2>3 DEF EarlyIsNext
  <1>4. CASE NewDep \/ Wait
    <2>1. (wm = "loop" /\ wm' = "handle") \/ wm' = "join"
      BY <1>4 DEF NewDep, Wait, Receiving
    <2>2. UNCHANGED <<ready, done>>
      BY <1>4 DEF NewDep, Wait
    <2> QED BY <2>1, <2>2 DEF EarlyIsNext, Early
  <1>5. CASE LoopEnds \/ AllJoined
    BY <1>5 DEF LoopEnds, AllJoined, EarlyIsNext
  <1>6. CASE Handled
    BY <1>6 DEF Handled, EarlyIsNext, Early, goVars
  <1>7. ASSUME NEW w \in Worker, JobResult(w)
        PROVE  EarlyIsNext'
    <2>1. wm' # "loop" /\ busy' = busy \ {w}
      BY <1>7 DEF JobResult, Proceed
    <2>2. w \in Free'
      BY <2>1 DEF Free
    <2> QED BY <2>1, <2>2 DEF EarlyIsNext
  <1>8. ASSUME NEW w \in Worker, Dispatch(w)
        PROVE  EarlyIsNext'
    <2>1. PICK j \in Node : /\ ready[j] > 0 /\ \A k \in Node : ready[k] > 0 => id[j] <= id[k]
                            /\ ready' = [ready EXCEPT ![j] = @ - 1]
      BY <1>8 DEF Dispatch
    <2>2. wm' = "handle" /\ done' = done
      BY <1>8 DEF Dispatch, goVars
    <2>3. /\ ready[j] = 1 /\ done[j] # "absent"
      BY <2>1 DEF Tally, Pushed, Unmet
    <2>4. ready'[j] = 0 /\ \A m \in Node : m # j => ready'[m] = ready[m]
      <3>1. ready \in [Node -> Nat]
        BY DEF Shape, TypeOK
      <3> QED BY <2>1, <2>3, <3>1
    <2>5. ASSUME NEW m \in Node, Early(m)'
          PROVE  FALSE
      <3>1. Early(m) /\ m # j
        BY <2>2, <2>4, <2>5 DEF Early
      <3>2. id[m] = 0
        <4>1. id[m] \in Nat /\ ~(id[m] > 0)
          BY <3>1 DEF Shape, TypeOK, Posted, Early
        <4> QED BY <4>1
      <3>3. id[j] \in Nat /\ id[j] <= id[m]
        BY <2>1, <3>1 DEF Shape, TypeOK, Early
      <3>4. ~(id[j] > 0)
        BY <3>2, <3>3
      <3>5. done[j] = "nil"
        BY <2>3, <3>4 DEF Shape, TypeOK, Posted
      <3>6. Early(j)
        BY <2>1, <3>5 DEF Early
      <3> QED BY <3>1, <3>6, OneEarly
    <2> QED BY <2>2, <2>5 DEF EarlyIsNext
  <1>9. CASE ReadNumDeps \/ WriteNumDeps \/ GoalDone \/ ReportNewDepStopped \/ PostJobStopped
             \/ AllPosted
    BY <1>1, <1>9 DEF ReadNumDeps, WriteNumDeps, GoalDone, ReportNewDepStopped, PostJobStopped,
          AllPosted, wmVars
  <1>10. ASSUME NEW w \in Worker, Join(w) \/ Work(w)
         PROVE  EarlyIsNext'
    BY <1>1, <1>10 DEF Join, Work, Build, Run, ReportStopped, wmVars, goVars
  <1>11. CASE UNCHANGED vars
    BY <1>1, <1>11 DEF vars, wmVars, goVars
  <1> QED BY <1>2, <1>3, <1>4, <1>5, <1>6, <1>7, <1>8, <1>9, <1>10, <1>11 DEF Next, Main, Manager

\* The manager knows who is busy.
LEMMA BusyStep ==
    ASSUME Shape, Busy, ~stopped, ~stopped', [Next]_vars
    PROVE  Busy'
  <1>1. wk \in [Worker -> Job] /\ busy \in SUBSET Worker
    BY DEF Shape, TypeOK, Job
  <1>2. CASE UNCHANGED <<wm, wk, busy, finishCnt, jobs>>
    BY <1>2 DEF Busy, Holding
  <1>3. CASE Main
    BY <1>2, <1>3 DEF Main, MakeJob, ReadNumDeps, WriteNumDeps, GoalDone, ReportNewDepStopped,
          PostJobStopped, AllPosted, wmVars
  <1>4. CASE PostJob \/ NewDep \/ Wait \/ Handled
    <2>1. UNCHANGED <<wk, busy>>
      BY <1>4 DEF PostJob, NewDep, Wait, Handled
    <2>2. wm # "drain"
      BY DEF Busy
    <2>3. wm' \in {"handle", "loop"}
      BY <1>4, <2>2 DEF PostJob, NewDep, Wait, Handled
    <2> QED BY <2>1, <2>3 DEF Busy, Holding
  <1>5. CASE LoopEnds \/ AllJoined
    <2>1. UNCHANGED <<wk, busy, finishCnt, jobs>> /\ wm' # "drain"
      BY <1>5 DEF LoopEnds, AllJoined
    <2>2. busy = {} /\ finishCnt = jobs
      BY <1>5 DEF LoopEnds, Looping, HasTodo, AllJoined, Busy
    <2> QED BY <2>1, <2>2 DEF Busy, Holding
  <1>6. ASSUME NEW w \in Worker, JobResult(w)
        PROVE  Busy'
    <2>1. wk' = [wk EXCEPT ![w].at = "idle"] /\ busy' = busy \ {w} /\ Proceed(wk[w].res)
      BY <1>6 DEF JobResult
    <2>2. wm' = "handle"
      BY <2>1 DEF Proceed
    <2>3. wk'[w].at = "idle" /\ \A v \in Worker : v # w => wk'[v] = wk[v]
      BY <1>1, <2>1 DEF Job
    <2> QED BY <2>1, <2>2, <2>3 DEF Busy, Holding
  <1>7. ASSUME NEW w \in Worker, Dispatch(w)
        PROVE  Busy'
    <2>1. wm' = "handle" /\ busy' = busy \cup {w}
          /\ \E j \in Node : wk' = [wk EXCEPT ![w] = [at |-> "build", job |-> j, res |-> "none"]]
      BY <1>7 DEF Dispatch
    <2>2. wk'[w].at = "build" /\ \A v \in Worker : v # w => wk'[v] = wk[v]
      BY <1>1, <2>1
    <2> QED BY <2>1, <2>2 DEF Busy, Holding
  <1>8. ASSUME NEW w \in Worker, Join(w)
        PROVE  Busy'
    <2>1. wk[w].at = "idle" /\ wk' = [wk EXCEPT ![w].at = "quit"]
          /\ UNCHANGED <<wm, busy, finishCnt, jobs>>
      BY <1>8 DEF Join, wmVars
    <2>2. wk'[w].at = "quit" /\ \A v \in Worker : v # w => wk'[v] = wk[v]
      BY <1>1, <2>1 DEF Job
    <2> QED BY <2>1, <2>2 DEF Busy, Holding
  <1>9. ASSUME NEW w \in Worker, Build(w) \/ Run(w)
        PROVE  Busy'
    <2>1. Holding(w) /\ UNCHANGED <<wm, busy, finishCnt, jobs>>
      BY <1>9 DEF Build, Run, Holding, wmVars
    <2>2. wk'[w].at \in {"run", "report"} /\ \A v \in Worker : v # w => wk'[v] = wk[v]
      BY <1>1, <1>9 DEF Build, Run, Ended, Job
    <2> QED BY <2>1, <2>2 DEF Busy, Holding
  <1>10. \A w \in Worker : ~ReportStopped(w)
    BY DEF ReportStopped
  <1>11. CASE UNCHANGED vars
    BY <1>2, <1>11 DEF vars, wmVars
  <1> QED BY <1>3, <1>4, <1>5, <1>6, <1>7, <1>8, <1>9, <1>10, <1>11 DEF Next, Manager, Work

\* Every step keeps the invariant.
LEMMA WaitStep ==
    ASSUME Shape, Acyclic, Waiting, [Next]_vars
    PROVE  Waiting'
  <1>1. Shape'
    BY ShapeStep
  <1>2. CallsReach'
    BY ReachStep DEF Waiting
  <1>3. HeldOnce' /\ RunsOnce'
    BY HeldStep
  <1>4. ASSUME ~stopped'
        PROVE  Tally' /\ EarlyIsNext' /\ Busy'
    <2>1. ~stopped
      BY <1>4, StillRuns
    <2> QED BY <1>1, <1>4, <2>1, TallyStep, EarlyStep, BusyStep DEF Waiting
  <1> QED BY <1>2, <1>3, <1>4 DEF Waiting

\* It holds at first.
LEMMA WaitInit ==
    ASSUME Init
    PROVE  Waiting
  <1>1. Shape
    BY ShapeInit
  <1>2. Len(stack) = 1
    BY DEF Init
  <1>3. \A i : ~(i \in 2 .. Len(stack))
    BY <1>2
  <1>4. CallsReach
    BY <1>3 DEF Init, CallsReach, Making
  <1>5. HeldOnce
    BY DEF Init, HeldOnce, Holding
  <1>6. RunsOnce
    BY DEF Init, RunsOnce
  <1>7. Exact /\ Unmet /\ Handed /\ Pushed
    BY DEF Init, Exact, Unmet, Handed, Pushed
  <1>8. CallsWait
    BY <1>3 DEF CallsWait
  <1>9. EarlyIsNext
    BY DEF Init, EarlyIsNext, Early
  <1>10. Busy
    BY DEF Init, Busy, Holding
  <1> QED BY <1>4, <1>5, <1>6, <1>7, <1>8, <1>9, <1>10 DEF Waiting, Tally

\* What the tally counts is what NumDepsExact counts.
LEMMA ExactIs ==
    ASSUME Waiting
    PROVE  NumDepsExact
  <1>1. Open = {d \in Node : ~Finished(d)}
    BY DEF Open, OpenIn, HeldIn, Finished, Held
  <1>2. \A j : UnvisitedIn(stack, j) = Unvisited(j) /\ PendingIn(parents, Open, j) = Pending(j)
    BY <1>1 DEF UnvisitedIn, Unvisited, PendingIn, Pending
  <1> QED BY <1>2 DEF Waiting, Tally, Exact, NumDepsExact

\* The inductive invariant, of every acyclic graph.
LEMMA Waits == Acyclic /\ Spec => [](Shape /\ Waiting)
  <1> SUFFICES ASSUME Acyclic
               PROVE  Spec => [](Shape /\ Waiting)
    OBVIOUS
  <1>1. Init => Shape /\ Waiting
    BY ShapeInit, WaitInit
  <1>2. Shape /\ Waiting /\ [Next]_vars => (Shape /\ Waiting)'
    BY ShapeStep, WaitStep
  <1> QED BY <1>1, <1>2, PTL DEF Spec

\* In every acyclic graph, with any number of workers, a job is handed to a
\* worker at most once, even if it becomes ready before it is posted, or
\* while its parents are still visited.
THEOREM HandedOutOnce == Acyclic /\ Spec => []RunsOnce
  <1>1. Shape /\ Waiting => RunsOnce
    BY DEF Waiting
  <1> QED BY <1>1, Waits, PTL

\* In every acyclic graph numDeps of a job that has not been handed out is
\* the number of visits and results that are still to come: the manager and
\* the main goroutine lose no decrement between them.
THEOREM CountIsExact == Acyclic /\ Spec => []NumDepsExact
  <1>1. Shape /\ Waiting => NumDepsExact
    BY ExactIs
  <1> QED BY <1>1, Waits, PTL

-----------------------------------------------------------------------------
(* The result of the build.                                                *)

\* A worker goes on with its job: to the commands, or to its result.
LEMMA WorkResults ==
    ASSUME Shape, Waiting, Results, NEW w \in Worker, Build(w) \/ Run(w)
    PROVE  Results'
  <1>1. PICK x \in Node : x = wk[w].job /\ Holding(w) /\ begun[x] > 0 /\ wk[w].at \in {"build", "run"}
    BY DEF Build, Run, Holding, Shape, HeldIsJob, Waiting, HeldOnce
  <1>2. result[x] = "none" /\ UNCHANGED <<begun, err, stopped>>
    BY <1>1 DEF Results, Build, Run, wmVars
  <1>3. wk \in [Worker -> Job] /\ result \in [Node -> {"none", "nothing", "built", "error"}]
    BY DEF Shape, TypeOK, Job
  <1>4. \A v \in Worker : v # w => wk'[v] = wk[v]
    BY <1>3 DEF Build, Run, Ended
  <1>5. \/ wk'[w].at = "run" /\ wk'[w].job = x /\ result' = result
        \/ \E r \in {"nothing", "built", "error"} :
              /\ wk'[w].at = "report" /\ wk'[w].job = x /\ wk'[w].res = r
              /\ result' = [result EXCEPT ![x] = r]
    <2>1. CASE Build(w)
      <3>1. PICK d : /\ d \in {"run", "nothing", "error"}
                     /\ IF d = "run" THEN wk' = [wk EXCEPT ![w].at = "run"] /\ UNCHANGED result
                        ELSE Ended(w, d)
        <4> DEFINE ts == IF x \in IsPhony THEN NotExist ELSE mtime[x]
        <4>1. Decide(x, ts) \in {"run", "nothing", "error"}
          <5>1. ts \in Int /\ depsTs[x] \in Int
            BY DEF Shape, TypeOK, NotExist
          <5>2. ts >= depsTs[x] \/ ts < depsTs[x]
            BY <5>1
          <5> QED BY <5>2 DEF Decide
        <4> HIDE DEF ts
        <4>2. IF Decide(x, ts) = "run" THEN wk' = [wk EXCEPT ![w].at = "run"] /\ UNCHANGED result
              ELSE Ended(w, Decide(x, ts))
          BY <1>1, <2>1 DEF Build, ts
        <4> QED BY <4>1, <4>2
      <3>2. CASE d = "run"
        BY <1>1, <1>3, <3>1, <3>2 DEF Job
      <3>3. CASE d # "run"
        BY <1>1, <1>3, <3>1, <3>3 DEF Ended, Job
      <3> QED BY <3>2, <3>3
    <2>2. CASE Run(w)
      <3>1. Ended(w, "built") \/ Ended(w, "error")
        BY <2>2 DEF Run
      <3> QED BY <1>1, <1>3, <3>1 DEF Ended, Job
    <2> QED BY <2>1, <2>2
  <1>6. \A v \in Worker : v # w /\ Holding(v) => wk[v].job # x
    BY <1>1 DEF Waiting, HeldOnce
  <1>7. \A n \in Node : n # x => result'[n] = result[n]
    BY <1>3, <1>5
  <1>8. \A n \in Node : Held(n)' <=> Held(n)
    <2>1. wk'[w].at \in {"build", "run", "report"} /\ wk'[w].job = wk[w].job
      BY <1>1, <1>5
    <2> QED BY <1>1, <1>4, <2>1 DEF Held
  <1>9. Held(x)
    BY <1>1 DEF Held
  <1>10. \A v \in Worker : v # w /\ Holding(v) =>
            wk[v].job \in Node /\ result'[wk[v].job] = result[wk[v].job]
    BY <1>6, <1>7 DEF Shape, HeldIsJob
  <1>11. \A v \in Worker : wk'[v].at = "report" => result'[wk'[v].job] = wk'[v].res /\ wk'[v].res # "none"
    BY <1>3, <1>4, <1>5, <1>10 DEF Results, Holding
  <1>12. \A v \in Worker : wk'[v].at \in {"build", "run"} => result'[wk'[v].job] = "none"
    BY <1>2, <1>4, <1>5, <1>10 DEF Results, Holding
  <1>13. \A n \in Node : begun'[n] = 0 => result'[n] = "none"
    BY <1>1, <1>2, <1>7 DEF Results
  <1>14. \A n \in Node : begun'[n] > 0 /\ result'[n] = "none" => Held(n)'
    BY <1>2, <1>7, <1>8, <1>9 DEF Results
  <1>15. err' => \E n \in Node : result'[n] = "error"
    <2>1. err => \E n \in Node : n # x /\ result[n] = "error"
      BY <1>2 DEF Results
    <2> QED BY <1>2, <1>7, <2>1
  <1>16. ~stopped' => \A n \in Node : result'[n] = "error" => Held(n)'
    BY <1>2, <1>7, <1>8, <1>9 DEF Results
  <1>17. err' = stopped'
    BY <1>2 DEF Results
  <1> QED BY <1>11, <1>12, <1>13, <1>14, <1>15, <1>16, <1>17 DEF Results

\* A worker's result is taken, or is dropped after an error.
LEMMA ReportResults ==
    ASSUME Shape, Waiting, Results, NEW w \in Worker, JobResult(w) \/ ReportStopped(w)
    PROVE  Results'
  <1>1. PICK x \in Node : /\ x = wk[w].job /\ wk[w].at = "report" /\ Holding(w)
                          /\ result[x] = wk[w].res /\ wk[w].res # "none"
    BY DEF JobResult, ReportStopped, Holding, Shape, HeldIsJob, Results
  <1>2. wk' = [wk EXCEPT ![w].at = "idle"] /\ UNCHANGED <<begun, result>>
    BY DEF JobResult, ReportStopped, history
  <1>3. wk \in [Worker -> Job]
    BY DEF Shape, TypeOK, Job
  <1>4. wk'[w].at = "idle" /\ \A v \in Worker : v # w => wk'[v] = wk[v]
    BY <1>2, <1>3 DEF Job
  <1>5. \A n \in Node : n # x /\ Held(n) => Held(n)'
    BY <1>1, <1>4 DEF Held
  <1>6. /\ \A v \in Worker : wk'[v].at = "report" =>
                                result'[wk'[v].job] = wk'[v].res /\ wk'[v].res # "none"
        /\ \A v \in Worker : wk'[v].at \in {"build", "run"} => result'[wk'[v].job] = "none"
    BY <1>2, <1>4 DEF Results
  <1>7. /\ \A n \in Node : begun'[n] = 0 => result'[n] = "none"
        /\ \A n \in Node : begun'[n] > 0 /\ result'[n] = "none" => Held(n)'
    BY <1>1, <1>2, <1>5 DEF Results
  <1>8. CASE JobResult(w)
    <2>1. ~stopped /\ err' = (wk[w].res = "error") /\ stopped' = (wk[w].res = "error")
      BY <1>8 DEF JobResult, Proceed, Receiving, Shape, Stops
    <2>2. err' => result'[x] = "error"
      BY <1>1, <1>2, <2>1
    <2>3. ~stopped' => \A n \in Node : result'[n] = "error" => Held(n)'
      BY <1>1, <1>2, <1>5, <2>1 DEF Results
    <2> QED BY <1>6, <1>7, <2>1, <2>2, <2>3 DEF Results
  <1>9. CASE ReportStopped(w)
    <2>1. stopped /\ UNCHANGED <<err, stopped>>
      BY <1>9 DEF ReportStopped, wmVars
    <2> QED BY <1>2, <1>6, <1>7, <2>1 DEF Results
  <1> QED BY <1>8, <1>9

\* Every step keeps what is known of the results.
LEMMA ResultsStep ==
    ASSUME Shape, Waiting, Results, [Next]_vars
    PROVE  Results'
  <1>1. CASE UNCHANGED <<wk, begun, result, err, stopped>>
    BY <1>1 DEF Results, Held
  <1>2. ASSUME NEW w \in Worker, Join(w)
        PROVE  Results'
    <2>1. wk[w].at = "idle" /\ wk' = [wk EXCEPT ![w].at = "quit"]
          /\ UNCHANGED <<begun, result, err, stopped>>
      BY <1>2 DEF Join, wmVars, history
    <2>2. wk \in [Worker -> Job]
      BY DEF Shape, TypeOK, Job
    <2>3. wk'[w].at = "quit" /\ \A v \in Worker : v # w => wk'[v] = wk[v]
      BY <2>1, <2>2 DEF Job
    <2>4. \A n \in Node : Held(n) => Held(n)'
      BY <2>1, <2>3 DEF Held
    <2> QED BY <2>1, <2>3, <2>4 DEF Results
  <1>3. ASSUME NEW w \in Worker, Dispatch(w)
        PROVE  Results'
    <2>1. PICK j \in Node : /\ ready[j] > 0 /\ wk[w].at = "idle"
                            /\ wk' = [wk EXCEPT ![w] = [at |-> "build", job |-> j, res |-> "none"]]
                            /\ begun' = [begun EXCEPT ![j] = @ + 1]
      BY <1>3 DEF Dispatch
    <2>2. ~stopped /\ UNCHANGED <<result, err, stopped>>
      BY <1>3 DEF Dispatch, Shape, Stops
    <2>3. begun[j] = 0 /\ result[j] = "none"
      BY <2>1, <2>2 DEF Waiting, Tally, Pushed, Results
    <2>4. wk \in [Worker -> Job] /\ begun \in [Node -> Nat]
      BY DEF Shape, TypeOK, Job
    <2>5. wk'[w].at = "build" /\ wk'[w].job = j /\ \A v \in Worker : v # w => wk'[v] = wk[v]
      BY <2>1, <2>4
    <2>6. begun'[j] = 1 /\ \A m \in Node : m # j => begun'[m] = begun[m]
      BY <2>1, <2>3, <2>4
    <2>7. Held(j)' /\ \A n \in Node : Held(n) => Held(n)'
      BY <2>1, <2>5 DEF Held
    <2>8. /\ \A v \in Worker : wk'[v].at = "report" =>
                                  result'[wk'[v].job] = wk'[v].res /\ wk'[v].res # "none"
          /\ \A v \in Worker : wk'[v].at \in {"build", "run"} => result'[wk'[v].job] = "none"
      BY <2>2, <2>3, <2>5 DEF Results
    <2>9. /\ \A n \in Node : begun'[n] = 0 => result'[n] = "none"
          /\ \A n \in Node : begun'[n] > 0 /\ result'[n] = "none" => Held(n)'
      BY <2>2, <2>6, <2>7 DEF Results
    <2> QED BY <2>2, <2>7, <2>8, <2>9 DEF Results
  <1>4. CASE Main
    BY <1>1, <1>4 DEF Main, MakeJob, ReadNumDeps, WriteNumDeps, GoalDone, ReportNewDepStopped,
          PostJobStopped, AllPosted, wmVars, history
  <1>5. CASE PostJob \/ NewDep \/ Wait \/ Handled \/ LoopEnds \/ AllJoined
    BY <1>1, <1>5 DEF PostJob, NewDep, Wait, Handled, LoopEnds, AllJoined, history
  <1>6. CASE UNCHANGED vars
    BY <1>1, <1>6 DEF vars, wmVars, history
  <1> QED BY <1>2, <1>3, <1>4, <1>5, <1>6, WorkResults, ReportResults DEF Next, Manager, Work

\* A job is open until it was handed out and its result was taken.
LEMMA OpenIs == Shape /\ Tally => Open = {m \in Node : begun[m] = 0 \/ Held(m)}
  <1> SUFFICES ASSUME Shape, Tally
               PROVE  Open = {m \in Node : begun[m] = 0 \/ Held(m)}
    OBVIOUS
  <1>1. \A m \in Node : numDeps[m] < 0 <=> begun[m] # 0
    <2> TAKE m \in Node
    <2>1. numDeps[m] \in Int /\ (begun[m] = 0 => numDeps[m] >= 0) /\ (begun[m] # 0 => numDeps[m] = -1)
      BY TallyTypes, Negative
    <2> QED BY <2>1
  <1> QED BY <1>1 DEF Open, OpenIn, HeldIn, Held

\* Only a result that is taken closes a job.
LEMMA OpenStep ==
    ASSUME Shape, Shape', Tally, Tally', ~stopped, [Next]_vars, \A w \in Worker : ~JobResult(w)
    PROVE  Open' = Open
  <1>1. wk \in [Worker -> Job] /\ begun \in [Node -> Nat]
    BY DEF Shape, TypeOK, Job
  <1>0. (Shape /\ Tally => Open = {m \in Node : begun[m] = 0 \/ Held(m)})'
    BY OpenIs, PTL
  <1>2. CASE UNCHANGED <<wk, begun>>
    BY <1>2, <1>0, OpenIs DEF Held
  <1>3. ASSUME NEW w \in Worker, Dispatch(w)
        PROVE  Open' = Open
    <2>1. PICK j \in Node : /\ ready[j] > 0 /\ wk[w].at = "idle"
                            /\ wk' = [wk EXCEPT ![w] = [at |-> "build", job |-> j, res |-> "none"]]
                            /\ begun' = [begun EXCEPT ![j] = @ + 1]
      BY <1>3 DEF Dispatch
    <2>2. begun[j] = 0 /\ \A m \in Node : m # j => begun'[m] = begun[m]
      BY <1>1, <2>1 DEF Tally, Pushed
    <2>3. wk'[w].at = "build" /\ wk'[w].job = j /\ \A v \in Worker : v # w => wk'[v] = wk[v]
      BY <1>1, <2>1
    <2>4. Held(j)' /\ \A m \in Node : m # j => (Held(m)' <=> Held(m))
      BY <2>1, <2>3 DEF Held
    <2>5. \A m \in Node : (begun'[m] = 0 \/ Held(m)') <=> (begun[m] = 0 \/ Held(m))
      BY <2>2, <2>4
    <2> QED BY <2>5, <1>0, OpenIs
  <1>4. ASSUME NEW w \in Worker, Join(w) \/ Build(w) \/ Run(w)
        PROVE  Open' = Open
    <2>1. begun' = begun /\ \A v \in Worker : v # w => wk'[v] = wk[v]
      BY <1>1, <1>4 DEF Join, Build, Run, Ended, history
    <2>2. \/ wk[w].at = "idle" /\ wk'[w].at = "quit"
          \/ Holding(w) /\ wk'[w].at \in {"run", "report"} /\ wk'[w].job = wk[w].job
      BY <1>1, <1>4 DEF Join, Build, Run, Ended, Job, Holding
    <2>3. \A m \in Node : Held(m)' <=> Held(m)
      BY <2>1, <2>2 DEF Held, Holding
    <2> QED BY <2>1, <2>3, <1>0, OpenIs
  <1>5. CASE Main
    BY <1>2, <1>5 DEF Main, MakeJob, ReadNumDeps, WriteNumDeps, GoalDone, ReportNewDepStopped,
          PostJobStopped, AllPosted, history
  <1>6. CASE PostJob \/ NewDep \/ Wait \/ Handled \/ LoopEnds \/ AllJoined
    BY <1>2, <1>6 DEF PostJob, NewDep, Wait, Handled, LoopEnds, AllJoined, history
  <1>7. CASE UNCHANGED vars
    BY <1>2, <1>7 DEF vars, history
  <1>8. \A w \in Worker : ~ReportStopped(w)
    BY DEF ReportStopped
  <1> QED BY <1>3, <1>4, <1>5, <1>6, <1>7, <1>8 DEF Next, Manager, Work

\* A set of targets with one more.
LEMMA OneMore ==
    ASSUME NEW S \in SUBSET Node, NEW x \in Node, x \notin S
    PROVE  IsFiniteSet(S) /\ Cardinality(S) \in Nat /\ Cardinality(S \cup {x}) = Cardinality(S) + 1
  <1>1. IsFiniteSet(S)
    BY FS_Subset, GraphAssumption DEF GraphAssumption
  <1> QED BY <1>1, FS_CardinalityType, FS_AddElement

\* len(wm.jobs) is the number of jobs that were posted.
LEMMA JobsStep ==
    ASSUME Shape, [Next]_vars, jobs = Cardinality({n \in Node : done[n] = "job"})
    PROVE  jobs' = Cardinality({n \in Node : done'[n] = "job"})
  <1> DEFINE P == {n \in Node : done[n] = "job"}
             Q == {n \in Node : done'[n] = "job"}
  <1>1. CASE jobs' = jobs /\ Q = P
    BY <1>1
  <1>2. CASE UNCHANGED <<jobs, done>>
    BY <1>2
  <1>3. CASE MakeJob
    <2>1. PICK n \in Node : done[n] = "absent" /\ done' = [done EXCEPT ![n] = "nil"]
      BY <1>3, MakeJobIs DEF Shape
    <2>2. done \in [Node -> {"absent", "nil", "job"}] /\ jobs' = jobs
      BY <1>3 DEF Shape, TypeOK, MakeJob, wmVars
    <2> QED BY <1>1, <2>1, <2>2
  <1>4. CASE PostJob
    <2>1. Top.job # Nil /\ done' = [done EXCEPT ![Top.job] = "job"] /\ jobs' = jobs + 1 /\ Making
      BY <1>4 DEF PostJob, Making
    <2>2. PICK p \in Node : p = Top.job
      BY <2>1, TopIsJob
    <2>3. done[p] = "nil" /\ done \in [Node -> {"absent", "nil", "job"}]
      BY <2>1, <2>2, TopIs DEF Shape, TypeOK, NotPosted, OnCall, Top
    <2>4. Q = P \cup {p} /\ p \notin P /\ P \in SUBSET Node
      BY <2>1, <2>2, <2>3
    <2> HIDE DEF P, Q
    <2>5. jobs = Cardinality(P)
      BY DEF P
    <2>6. jobs' = Cardinality(Q)
      BY <2>1, <2>4, <2>5, OneMore
    <2> QED BY <2>6 DEF Q
  <1>5. CASE ReadNumDeps \/ WriteNumDeps \/ GoalDone \/ ReportNewDepStopped \/ PostJobStopped
             \/ AllPosted \/ NewDep \/ Wait \/ Handled \/ LoopEnds \/ AllJoined
    BY <1>2, <1>5 DEF ReadNumDeps, WriteNumDeps, GoalDone, ReportNewDepStopped, PostJobStopped,
          AllPosted, NewDep, Wait, Handled, LoopEnds, AllJoined, wmVars, goVars
  <1>6. ASSUME NEW w \in Worker, JobResult(w) \/ Dispatch(w) \/ Join(w) \/ Work(w)
        PROVE  jobs' = Cardinality(Q)
    BY <1>2, <1>6 DEF JobResult, Dispatch, Join, Work, Build, Run, ReportStopped, wmVars, goVars
  <1>7. CASE UNCHANGED vars
    BY <1>2, <1>7 DEF vars, wmVars, goVars
  <1> QED BY <1>3, <1>4, <1>5, <1>6, <1>7 DEF Next, Main, Manager

\* The manager's counters count what was finished, and what was skipped.
LEMMA CountsStep ==
    ASSUME Shape, Acyclic, Waiting, Results, Counts, [Next]_vars
    PROVE  Counts'
  <1>1. jobs' = Cardinality({n \in Node : done'[n] = "job"})
    BY JobsStep DEF Counts
  <1>2. SUFFICES ASSUME ~stopped'
                 PROVE  /\ finishCnt' = Cardinality(Closed')
                        /\ skipCnt' = Cardinality({n \in Closed' : result'[n] = "nothing"})
    BY <1>1 DEF Counts
  <1>3. ~stopped /\ Shape' /\ Tally /\ Tally'
    BY <1>2, StillRuns, ShapeStep, WaitStep DEF Waiting
  <1> DEFINE S == {n \in Closed : result[n] = "nothing"}
             T == {n \in Closed' : result'[n] = "nothing"}
  <1>4. finishCnt = Cardinality(Closed) /\ skipCnt = Cardinality(S)
    BY <1>3 DEF Counts
  <1>5. ASSUME NEW w \in Worker, JobResult(w)
        PROVE  finishCnt' = Cardinality(Closed') /\ skipCnt' = Cardinality(T)
    <2>1. PICK x \in Node : x = wk[w].job /\ x \in Open /\ Open' = Open \ {x}
      BY <1>3, <1>5, ResultIs DEF Waiting
    <2>2. Closed' = Closed \cup {x} /\ x \notin Closed /\ Closed \in SUBSET Node
      BY <2>1 DEF Closed
    <2>3. finishCnt' = finishCnt + 1 /\ result' = result /\ wk[w].at = "report"
          /\ skipCnt' = IF wk[w].res = "nothing" THEN skipCnt + 1 ELSE skipCnt
      BY <1>5 DEF JobResult, history
    <2>4. finishCnt' = Cardinality(Closed')
      BY <1>4, <2>2, <2>3, OneMore
    <2>5. result[x] = wk[w].res
      BY <2>1, <2>3 DEF Results
    <2>6. S \in SUBSET Node /\ x \notin S
      BY <2>2
    <2>7. CASE result[x] = "nothing"
      <3>1. T = S \cup {x}
        BY <2>2, <2>3, <2>7
      <3> HIDE DEF S, T
      <3> QED BY <1>4, <2>3, <2>4, <2>5, <2>6, <2>7, <3>1, OneMore
    <2>8. CASE result[x] # "nothing"
      <3>1. T = S
        BY <2>2, <2>3, <2>8
      <3> QED BY <1>4, <2>3, <2>4, <2>5, <2>8, <3>1
    <2> QED BY <2>7, <2>8
  <1>6. CASE \A w \in Worker : ~JobResult(w)
    <2>1. Open' = Open
      BY <1>3, <1>6, OpenStep
    <2>2. Closed' = Closed
      BY <2>1 DEF Closed
    <2>3. UNCHANGED <<finishCnt, skipCnt>>
      BY <1>6 DEF Next, Main, Manager, Work, MakeJob, ReadNumDeps, WriteNumDeps, GoalDone,
           ReportNewDepStopped, PostJobStopped, AllPosted, PostJob, NewDep, Wait, Handled, LoopEnds,
           AllJoined, Dispatch, Join, Build, Run, ReportStopped, vars, wmVars
    <2>4. \A n \in Closed : result'[n] = result[n]
      <3>1. CASE result' = result
        BY <3>1
      <3>2. ASSUME NEW w \in Worker, Build(w) \/ Run(w)
            PROVE  \A n \in Closed : result'[n] = result[n]
        <4>1. wk[w].job \in Node /\ Held(wk[w].job)
          BY <3>2 DEF Build, Run, Held, Shape, HeldIsJob, Holding
        <4>2. wk[w].job \notin Closed
          BY <1>3, <4>1, OpenIs DEF Closed
        <4>3. result \in [Node -> {"none", "nothing", "built", "error"}] /\ Closed \in SUBSET Node
          BY DEF Shape, TypeOK, Closed
        <4>4. result' = result \/ \E r : result' = [result EXCEPT ![wk[w].job] = r]
          BY <3>2 DEF Build, Run, Ended
        <4> QED BY <4>2, <4>3, <4>4
      <3> QED BY <1>6, <3>1, <3>2 DEF Next, Main, Manager, Work, MakeJob, ReadNumDeps,
           WriteNumDeps, GoalDone, ReportNewDepStopped, PostJobStopped, AllPosted, PostJob, NewDep,
           Wait, Handled, LoopEnds, AllJoined, Dispatch, Join, ReportStopped, vars, history
    <2>5. T = S
      BY <2>2, <2>4
    <2> QED BY <1>4, <2>2, <2>3, <2>5
  <1> QED BY <1>5, <1>6

\* Exec returns when the manager has.
LEMMA EndsStep ==
    ASSUME Ends, [Next]_vars
    PROVE  Ends'
  <1>1. CASE AllJoined
    BY <1>1 DEF AllJoined, Ends
  <1>2. CASE UNCHANGED <<main, wm>>
    BY <1>2 DEF Ends
  <1>3. CASE Main
    BY <1>3 DEF Main, MakeJob, ReadNumDeps, WriteNumDeps, GoalDone, ReportNewDepStopped,
          PostJobStopped, AllPosted, Visiting, Ends
  <1>4. CASE PostJob \/ NewDep \/ Wait \/ Handled \/ LoopEnds
    BY <1>4 DEF PostJob, NewDep, Wait, Handled, LoopEnds, Receiving, goVars, Ends
  <1>5. ASSUME NEW w \in Worker, JobResult(w) \/ Dispatch(w) \/ Join(w) \/ Work(w)
        PROVE  Ends'
    BY <1>2, <1>5 DEF JobResult, Dispatch, Join, Work, Build, Run, ReportStopped, Receiving,
          goVars, wmVars, Ends
  <1>6. CASE UNCHANGED vars
    BY <1>2, <1>6 DEF vars, goVars, wmVars
  <1> QED BY <1>1, <1>3, <1>4, <1>5, <1>6 DEF Next, Manager

\* A visit: the dependency has a job now.
LEMMA AdvanceVisited ==
    ASSUME Shape, Visited, ~stopped, Top.rest # << >>, NEW n \in Node, done[n] # "absent",
           NEW d \in Range(Deps[n])
    PROVE  \/ done[d] # "absent" \/ d = Head(Top.rest)
           \/ \E i \in 1 .. Len(stack) : Advance[i].job = n /\ d \in Range(Advance[i].rest)
  <1>1. PICK k \in Nat : k = Len(stack) /\ Top = stack[k]
    BY TopIs DEF Shape, Top
  <1>2. SUFFICES ASSUME done[d] = "absent", d # Head(Top.rest)
                 PROVE  \E i \in 1 .. k : Advance[i].job = n /\ d \in Range(Advance[i].rest)
    BY <1>1
  <1>3. PICK i \in 1 .. k : stack[i].job = n /\ d \in Range(stack[i].rest)
    BY <1>1, <1>2 DEF Visited
  <1>4. Advance[i].job = n /\ (i # k => Advance[i] = stack[i])
        /\ (i = k => Advance[i].rest = Tail(Top.rest))
    BY <1>1, <1>3, AdvanceIs DEF Shape
  <1>5. Range(Top.rest) \subseteq Range(Tail(Top.rest)) \cup {Head(Top.rest)}
    BY TopIs, TailRange DEF Shape
  <1>6. d \in Range(Advance[i].rest)
    BY <1>1, <1>2, <1>3, <1>4, <1>5
  <1> QED BY <1>4, <1>6

\* Without an error no dependency is forgotten.
LEMMA VisitedStep ==
    ASSUME Shape, Acyclic, Waiting, Visited, [Next]_vars
    PROVE  Visited'
  <1>1. SUFFICES ASSUME ~stopped', NEW n \in Node, done'[n] # "absent", NEW d \in Range(Deps[n])
                 PROVE  done'[d] # "absent" \/ \E i \in 1 .. Len(stack') :
                           stack'[i].job = n /\ d \in Range(stack'[i].rest)
    BY DEF Visited
  <1>2. ~stopped
    BY <1>1, StillRuns
  <1>3. done \in [Node -> {"absent", "nil", "job"}] /\ d \in Node
    <2>1. Deps[n] \in Seq(Node)
      BY GraphAssumption DEF GraphAssumption
    <2> QED BY <2>1, LenProperties, ElementOfSeq DEF Shape, TypeOK, Range
  <1>4. CASE UNCHANGED <<stack, done>>
    BY <1>1, <1>2, <1>4 DEF Visited
  <1>5. CASE MakeJob
    <2>1. PICK m \in Node : /\ m = Head(Top.rest) /\ Top.rest # << >>
                            /\ done' = [done EXCEPT ![m] = "nil"]
      BY <1>5, MakeJobIs DEF Shape
    <2>2. PICK k \in Nat : k = Len(stack)
      BY TopIs DEF Shape
    <2>3. /\ Len(stack') = k + 1 /\ \A i \in 1 .. k : stack'[i] = Advance[i]
          /\ \A i \in 1 .. k + 1 : i > k => stack'[i] = NewCall(m)
      BY <1>5, <2>1, <2>2, MakeJobIs DEF Shape
    <2>4. \A i \in 1 .. k : i \in 1 .. k + 1
      OBVIOUS
    <2>5. CASE n = m
      <3>1. k + 1 \in 1 .. k + 1 /\ k + 1 > k
        OBVIOUS
      <3>2. stack'[k + 1] = NewCall(m)
        BY <2>3, <3>1
      <3>3. NewCall(m).job = m /\ Range(Deps[m]) \subseteq Range(NewCall(m).rest)
        BY NewCallIs
      <3> QED BY <1>1, <2>3, <2>5, <3>1, <3>2, <3>3
    <2>6. CASE n # m
      <3>1. done[n] # "absent"
        BY <1>1, <1>3, <2>1, <2>6
      <3>2. \/ done[d] # "absent" \/ d = m
            \/ \E i \in 1 .. k : Advance[i].job = n /\ d \in Range(Advance[i].rest)
        BY <1>1, <1>2, <2>1, <2>2, <3>1, AdvanceVisited
      <3>3. done[d] # "absent" \/ d = m => done'[d] # "absent"
        BY <1>3, <2>1
      <3> QED BY <2>3, <2>4, <3>2, <3>3
    <2> QED BY <2>5, <2>6
  <1>6. CASE GoalDone \/ NewDep
    <2>1. Top.rest # << >> /\ stack' = Advance /\ done' = done /\ done[Head(Top.rest)] = "job"
      BY <1>6 DEF GoalDone, NewDep, Visiting
    <2>2. Len(stack') = Len(stack)
      BY <2>1, AdvanceIs DEF Shape
    <2>3. \/ done[d] # "absent" \/ d = Head(Top.rest)
          \/ \E i \in 1 .. Len(stack) : Advance[i].job = n /\ d \in Range(Advance[i].rest)
      BY <1>1, <1>2, <2>1, AdvanceVisited
    <2> QED BY <2>1, <2>2, <2>3
  <1>7. CASE PostJob
    <2>1. Top.rest = << >> /\ Top.job # Nil /\ stack' = Popped
          /\ done' = [done EXCEPT ![Top.job] = "job"] /\ Making
      BY <1>7 DEF PostJob, Making
    <2>2. PICK k \in Nat : k = Len(stack) /\ k > 1 /\ Top = stack[k]
      BY <2>1, TopIs, TopIsJob DEF Shape, Top
    <2>3. PICK p \in Node : p = Top.job /\ done[p] = "nil"
      <3>1. k \in 2 .. k
        BY <2>2
      <3> QED BY <2>1, <2>2, <3>1, CallJobs
    <2>4. done[n] # "absent" /\ (done[d] # "absent" => done'[d] # "absent")
      BY <1>1, <1>3, <2>1, <2>3
    <2>5. SUFFICES ASSUME done[d] = "absent"
                   PROVE  \E i \in 1 .. k - 1 : stack'[i].job = n /\ d \in Range(stack'[i].rest)
      <3>1. Len(stack') = k - 1
        BY <2>1, <2>2, PoppedIs DEF Shape
      <3> QED BY <2>4, <3>1
    <2>6. PICK i \in 1 .. k : stack[i].job = n /\ d \in Range(stack[i].rest)
      BY <1>1, <1>2, <2>2, <2>4, <2>5 DEF Visited
    <2>7. i # k
      <3>1. Range(Top.rest) = {}
        BY <2>1 DEF Range
      <3> QED BY <2>2, <2>6, <3>1
    <2>8. i \in 1 .. k - 1
      BY <2>7
    <2>9. stack'[i] = stack[i]
      BY <2>1, <2>2, <2>8, PoppedIs DEF Shape
    <2> QED BY <2>6, <2>8, <2>9
  <1>8. ~ReportNewDepStopped /\ ~PostJobStopped /\ ~ReadNumDeps /\ ~WriteNumDeps
    BY <1>2, NeverCircular DEF ReportNewDepStopped, PostJobStopped, Waiting
  <1>9. CASE AllPosted \/ Wait \/ Handled \/ LoopEnds \/ AllJoined
    BY <1>4, <1>9 DEF AllPosted, Wait, Handled, LoopEnds, AllJoined, goVars
  <1>10. ASSUME NEW w \in Worker, JobResult(w) \/ Dispatch(w) \/ Join(w) \/ Work(w)
         PROVE  UNCHANGED <<stack, done>>
    BY <1>10 DEF JobResult, Dispatch, Join, Work, Build, Run, ReportStopped, goVars
  <1>11. CASE UNCHANGED vars
    BY <1>4, <1>11 DEF vars, goVars
  <1> QED BY <1>4, <1>5, <1>6, <1>7, <1>8, <1>9, <1>10, <1>11 DEF Next, Main, Manager

\* At first nothing has a result.
LEMMA FinishingInit ==
    ASSUME Init
    PROVE  Finishing
  <1>1. Results
    <2>1. err = FALSE /\ stopped = FALSE
      BY DEF Init
    <2>2. /\ \A w \in Worker : wk[w].at = "idle"
          /\ \A n \in Node : begun[n] = 0 /\ result[n] = "none"
      BY DEF Init
    <2>3. \A n \in Node : ~(begun[n] > 0)
      BY <2>2
    <2> QED BY <2>1, <2>2, <2>3, Zenon DEF Results
  <1>2. Ends /\ Visited
    BY DEF Init, Ends, Visited
  <1>3. {n \in Node : done[n] = "job"} = {} /\ Closed = {}
    BY DEF Init, Closed, Open, OpenIn
  <1>4. {n \in Closed : result[n] = "nothing"} = {}
    BY <1>3
  <1>5. Counts
    BY <1>3, <1>4, FS_EmptySet DEF Init, Counts
  <1> QED BY <1>1, <1>2, <1>5 DEF Finishing

\* When Exec returns without an error the jobs are those that are finished.
LEMMA FinishedIs ==
    ASSUME Shape, Waiting, Finishing, main = "end", ~err
    PROVE  /\ ~stopped /\ finishCnt = Cardinality(Closed) /\ Made = Closed
           /\ skipCnt = Cardinality({n \in Closed : result[n] = "nothing"})
           /\ \A n \in Node : result[n] # "error" /\ (result[n] = "built" => n \in Closed)
           /\ \A n \in Closed : result[n] \in {"nothing", "built"}
           /\ \A n \in Made : \A d \in Range(Deps[n]) : d \in Made
  <1>1. wm = "exit" /\ ~stopped /\ ~Making
    BY DEF Finishing, Ends, Results, Making
  <1>2. Tally /\ Busy /\ busy = {} /\ finishCnt = jobs
    BY <1>1 DEF Waiting, Busy
  <1>3. \A n \in Node : ~Held(n)
    BY <1>2 DEF Busy, Holding, Held
  <1>4. \A n \in Node : n \in Closed <=> begun[n] # 0
    BY <1>2, <1>3, OpenIs DEF Closed
  <1>5. \A n \in Node : n \in Closed => done[n] # "absent"
    BY <1>2, <1>4 DEF Tally, Unmet
  <1>6. Made = {n \in Node : done[n] = "job"}
    BY <1>1 DEF Shape, TypeOK, NotPosted, Made
  <1>7. Closed \in SUBSET Made /\ Made \in SUBSET Node
    BY <1>5 DEF Closed, Made
  <1>8. Cardinality(Made) = jobs /\ finishCnt = Cardinality(Closed)
        /\ skipCnt = Cardinality({n \in Closed : result[n] = "nothing"})
    BY <1>1, <1>6 DEF Finishing, Counts
  <1>9. IsFiniteSet(Made)
    BY <1>7, FS_Subset, GraphAssumption DEF GraphAssumption
  <1>10. Made = Closed
    BY <1>2, <1>7, <1>8, <1>9, FS_Subset
  <1>11. \A n \in Node : result[n] # "error"
    BY <1>1, <1>3 DEF Finishing, Results
  <1>12. \A n \in Node : result[n] = "built" => n \in Closed
    BY <1>4 DEF Finishing, Results
  <1>13. \A n \in Closed : result[n] \in {"nothing", "built"}
    <2>1. \A n \in Closed : n \in Node /\ begun[n] \in Nat /\ begun[n] # 0
      BY <1>4 DEF Closed, Shape, TypeOK
    <2>2. \A n \in Closed : begun[n] > 0
      BY <2>1
    <2>3. \A n \in Closed : result[n] # "none"
      BY <1>3, <2>1, <2>2 DEF Finishing, Results
    <2> QED BY <1>11, <2>1, <2>3 DEF Shape, TypeOK
  <1>14. ASSUME NEW n \in Made, NEW d \in Range(Deps[n])
         PROVE  d \in Made
    <2>1. Deps[n] \in Seq(Node) /\ n \in Node /\ done[n] # "absent" /\ n # Nil
      BY <1>14, GraphAssumption DEF GraphAssumption, Made
    <2>2. d \in Node
      BY <2>1, LenProperties, ElementOfSeq DEF Range
    <2>3. \A i \in 1 .. Len(stack) : stack[i].job # n
      <3>1. Len(stack) = 1
        BY <1>1 DEF Shape, NotPosted
      <3>2. \A i \in 1 .. 1 : i = 1
        OBVIOUS
      <3> QED BY <2>1, <3>1, <3>2 DEF Shape, CallsAre
    <2>4. done[d] # "absent"
      BY <1>1, <2>1, <2>3 DEF Finishing, Visited
    <2> QED BY <2>2, <2>4 DEF Made
  <1> QED BY <1>1, <1>8, <1>10, <1>11, <1>12, <1>13, <1>14

\* The invariant gives the result.
LEMMA ResultIsRight ==
    ASSUME Shape, Waiting, Finishing
    PROVE  ResultRight
  <1>1. SUFFICES ASSUME main = "end"
                 PROVE  /\ err <=> \E n \in Node : result[n] = "error"
                        /\ ~err =>
                             /\ \A n \in Made : Built(n) /\ \A d \in Range(Deps[n]) : d \in Made
                             /\ finishCnt - skipCnt = Cardinality({n \in Node : result[n] = "built"})
    BY DEF ResultRight
  <1>2. CASE err
    BY <1>2 DEF Finishing, Results
  <1>3. CASE ~err
    <2>1. \A n \in Node : result[n] # "error"
      BY <1>1, <1>3, FinishedIs
    <2>2. \A n \in Made : Built(n) /\ \A d \in Range(Deps[n]) : d \in Made
      BY <1>1, <1>3, FinishedIs DEF Built
    <2> DEFINE S == {n \in Closed : result[n] = "nothing"}
               T == {n \in Node : result[n] = "built"}
    <2>3. Closed \in SUBSET Node /\ S \in SUBSET Closed
      BY DEF Closed
    <2>4. T = Closed \ S
      BY <1>1, <1>3, <2>3, FinishedIs
    <2>5. finishCnt = Cardinality(Closed) /\ skipCnt = Cardinality(S)
      BY <1>1, <1>3, FinishedIs
    <2> HIDE DEF S, T
    <2>6. IsFiniteSet(Closed)
      BY <2>3, FS_Subset, GraphAssumption DEF GraphAssumption
    <2>7. IsFiniteSet(S) /\ Closed \cap S = S
      BY <2>3, <2>6, FS_Subset
    <2>8. Cardinality(T) = Cardinality(Closed) - Cardinality(S)
      <3>1. PICK c : c = Closed /\ IsFiniteSet(c)
        BY <2>6
      <3>2. Cardinality(c \ S) = Cardinality(c) - Cardinality(c \cap S)
        BY <2>7, <3>1, FS_Difference
      <3> QED BY <2>4, <2>7, <3>1, <3>2
    <2>9. finishCnt - skipCnt = Cardinality(T)
      BY <2>5, <2>8
    <2> QED BY <1>3, <2>1, <2>2, <2>9 DEF T
  <1> QED BY <1>2, <1>3

\* In every acyclic graph, with any number of workers, Exec returns an error
\* if and only if some job failed; without one all that was asked for is
\* built, with its dependencies, and the manager's counters tell how many
\* commands ran.
THEOREM ExecResult == Acyclic /\ Spec => []ResultRight
  <1> SUFFICES ASSUME Acyclic
               PROVE  Spec => []ResultRight
    OBVIOUS
  <1>1. Init => Shape /\ Waiting /\ Finishing
    BY ShapeInit, WaitInit, FinishingInit
  <1>2. Shape /\ Waiting /\ Finishing /\ [Next]_vars => (Shape /\ Waiting /\ Finishing)'
    BY ShapeStep, WaitStep, ResultsStep, CountsStep, EndsStep, VisitedStep DEF Finishing
  <1>3. Shape /\ Waiting /\ Finishing => ResultRight
    BY ResultIsRight
  <1> QED BY <1>1, <1>2, <1>3, PTL DEF Spec
=============================================================================
