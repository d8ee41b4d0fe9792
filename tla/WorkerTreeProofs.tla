-------------------------- MODULE WorkerTreeProofs --------------------------
(***************************************************************************)
(* Proofs about WorkerManager when no target is needed twice: the three    *)
(* goroutines implement Build, and after a build without an error no       *)
(* target is out of date.                                                  *)
(***************************************************************************)
EXTENDS WorkerManagerProofs

\* No target is a dependency of two targets, or twice of one, and no goal is
\* a dependency.
Distinct(s) == \A i, j \in 1 .. Len(s) : s[i] = s[j] => i = j
Unshared ==
    /\ \A n, m \in Node : n # m => B!Succ(n) \cap B!Succ(m) = {}
    /\ \A n \in Node : /\ Distinct(Deps[n]) /\ Distinct(OrderOnlys[n])
                       /\ Range(Deps[n]) \cap Range(OrderOnlys[n]) = {}
    /\ \A g \in Goals : \A n \in Node : Range(g) \cap B!Succ(n) = {}
Tree == Acyclic /\ Unshared

\* Targets are met once: by the call for the target that needs them.
MetOnce ==
    /\ \A n \in Node : Range(stack[1].rest) \cap B!Succ(n) = {}
    /\ \A n \in Node : \A d \in B!Succ(n) : done[d] # "absent" => done[n] # "absent"
    /\ Making => \A i \in 2 .. Len(stack) :
          /\ Distinct(stack[i].rest)
          /\ \A d \in Range(stack[i].rest) : done[d] = "absent"

\* A job waits for all that it depends on, but for what exists already.
ToVisit(stk, n, d) == \E i \in 1 .. Len(stk) : stk[i].job = n /\ d \in Range(stk[i].rest)
Linked ==
    ~stopped => \A n \in Node : done[n] # "absent" =>
        /\ \A d \in Range(Deps[n]) : ToVisit(stack, n, d) \/ parents[d][n] > 0
        /\ \A d \in Range(OrderOnlys[n]) :
              ToVisit(stack, n, d) \/ parents[d][n] > 0 \/ Exists(d)

\* The times of files: those of targets whose commands did not run are from
\* before the build; outputTs and depsTs are what they should be.
Start == 1 + Max(InitTs \cup {0})
Times ==
    /\ clock >= Start /\ \A n \in IsPhony : ~Exists(n)
    /\ \A n \in Node : depsTs[n] >= -1
    /\ \A n \in Node : result[n] \in {"none", "nothing"} => mtime[n] < Start
    /\ \A n \in Node : Built(n) /\ Exists(n) => outputTs[n] = mtime[n]
    /\ \A n \in Node : result[n] = "built" /\ ~Exists(n) => outputTs[n] >= Start
    /\ \A n \in Cmds : result[n] = "nothing" => mtime[n] >= depsTs[n]
    /\ ~stopped => \A d \in Closed : \A n \in Node : parents[d][n] > 0 => outputTs[d] <= depsTs[n]

TreeInv == Shape /\ Waiting /\ Finishing /\ MetOnce /\ Linked /\ DepsFirst /\ Times

-----------------------------------------------------------------------------
(* The list of dependencies of a new call.                                 *)

\* No order-only dependency is forgotten, and none is there twice.
LEMMA MissingAll ==
    ASSUME NEW n \in Node
    PROVE  /\ \A d \in Range(OrderOnlys[n]) : Exists(d) \/ d \in Range(Missing(n))
           /\ Distinct(OrderOnlys[n]) => Distinct(Missing(n))
  <1> DEFINE S == {i \in DOMAIN OrderOnlys[n] : ~Exists(OrderOnlys[n][i])}
             s == [k \in 1 .. Cardinality(S) |-> OrderOnlys[n][Nth(S, k)]]
  <1>1. OrderOnlys[n] \in Seq(Node)
    BY GraphAssumption DEF GraphAssumption
  <1>2. PICK m \in Nat : m = Len(OrderOnlys[n]) /\ DOMAIN OrderOnlys[n] = 1 .. m
    BY <1>1, LenProperties
  <1>3. S \in SUBSET (1 .. m)
    BY <1>2
  <1>4. s = Missing(n)
    BY DEF Missing
  <1>5. ASSUME NEW i \in 1 .. m, ~Exists(OrderOnlys[n][i])
        PROVE  i \in S
    BY <1>2, <1>5
  <1> HIDE DEF S
  <1>6. /\ Cardinality(S) \in Nat /\ \A i \in S : Rank(S, i) \in 1 .. Cardinality(S)
        /\ \A k \in 1 .. Cardinality(S) : Nth(S, k) \in 1 .. m /\ Rank(S, Nth(S, k)) = k
        /\ \A i \in S : Nth(S, Rank(S, i)) = i
    BY <1>3, NthIs, RankIs
  <1>7. DOMAIN s = 1 .. Cardinality(S) /\ Len(s) = Cardinality(S)
    <2>1. s \in Seq(Node)
      BY <1>4, MissingIs
    <2> QED BY <1>6, <2>1, LenProperties
  <1>8. ASSUME NEW d \in Range(OrderOnlys[n]), ~Exists(d)
        PROVE  d \in Range(s)
    <2>1. PICK i \in 1 .. m : d = OrderOnlys[n][i]
      BY <1>2 DEF Range
    <2>2. i \in S
      BY <1>5, <1>8, <2>1
    <2>3. Rank(S, i) \in 1 .. Cardinality(S) /\ s[Rank(S, i)] = d
      BY <1>6, <2>1, <2>2
    <2> HIDE DEF s
    <2> QED BY <1>7, <2>3 DEF Range
  <1>9. ASSUME Distinct(OrderOnlys[n])
        PROVE  Distinct(s)
    <2>1. ASSUME NEW k \in 1 .. Cardinality(S), NEW l \in 1 .. Cardinality(S), s[k] = s[l]
          PROVE  k = l
      <3>1. OrderOnlys[n][Nth(S, k)] = OrderOnlys[n][Nth(S, l)]
        BY <2>1
      <3>2. Nth(S, k) = Nth(S, l)
        BY <1>2, <1>6, <1>9, <3>1 DEF Distinct
      <3> QED BY <1>6, <3>2
    <2> HIDE DEF s
    <2> QED BY <1>7, <2>1 DEF Distinct
  <1> HIDE DEF s
  <1> QED BY <1>4, <1>8, <1>9

\* The same of the whole list.
LEMMA NewCallAll ==
    ASSUME Unshared, NEW n \in Node
    PROVE  /\ Distinct(NewCall(n).rest)
           /\ \A d \in Range(OrderOnlys[n]) : Exists(d) \/ d \in Range(NewCall(n).rest)
  <1>1. Deps[n] \in Seq(Node) /\ Missing(n) \in Seq(Node)
    BY GraphAssumption, MissingIs DEF GraphAssumption
  <1>2. PICK r \in Seq(Node) : r = Deps[n] \o Missing(n)
    BY <1>1, ConcatProperties
  <1>3. PICK a \in Nat : a = Len(Deps[n]) /\ DOMAIN Deps[n] = 1 .. a
    BY <1>1, LenProperties
  <1>4. PICK b \in Nat : b = Len(Missing(n)) /\ DOMAIN Missing(n) = 1 .. b
    BY <1>1, LenProperties
  <1>5. /\ Len(r) = a + b /\ DOMAIN r = 1 .. a + b
        /\ \A i \in 1 .. a + b : r[i] = IF i <= a THEN Deps[n][i] ELSE Missing(n)[i - a]
    BY <1>1, <1>2, <1>3, <1>4, ConcatProperties, LenProperties
  <1>6. /\ \A i, j \in 1 .. a : Deps[n][i] = Deps[n][j] => i = j
        /\ \A i, j \in 1 .. b : Missing(n)[i] = Missing(n)[j] => i = j
        /\ \A i \in 1 .. a : \A j \in 1 .. b : Deps[n][i] # Missing(n)[j]
    <2>1. Distinct(Deps[n]) /\ Distinct(Missing(n))
      BY MissingAll DEF Unshared
    <2>2. Range(Deps[n]) \cap Range(Missing(n)) = {}
      BY MissingIs DEF Unshared
    <2>3. \A i \in 1 .. a : Deps[n][i] \in Range(Deps[n])
      BY <1>3 DEF Range
    <2>4. \A j \in 1 .. b : Missing(n)[j] \in Range(Missing(n))
      BY <1>4 DEF Range
    <2>5. /\ \A i, j \in 1 .. a : Deps[n][i] = Deps[n][j] => i = j
          /\ \A i, j \in 1 .. b : Missing(n)[i] = Missing(n)[j] => i = j
      BY <1>3, <1>4, <2>1 DEF Distinct
    <2> QED BY <2>2, <2>3, <2>4, <2>5
  <1>7. ASSUME NEW i \in 1 .. a + b, NEW j \in 1 .. a + b, r[i] = r[j]
        PROVE  i = j
    <2>1. \A l \in 1 .. a + b : (l \in 1 .. a /\ r[l] = Deps[n][l])
                                \/ (l > a /\ l - a \in 1 .. b /\ r[l] = Missing(n)[l - a])
      BY <1>5
    <2>2. CASE i \in 1 .. a /\ j \in 1 .. a
      BY <1>6, <1>7, <2>1, <2>2
    <2>3. CASE i > a /\ j > a
      <3>1. i - a = j - a
        BY <1>6, <1>7, <2>1, <2>3
      <3> QED BY <3>1
    <2>4. CASE ~(i > a) /\ j > a
      BY <1>6, <1>7, <2>1, <2>4
    <2>5. CASE i > a /\ ~(j > a)
      BY <1>6, <1>7, <2>1, <2>5
    <2> QED BY <2>2, <2>3, <2>4, <2>5
  <1>8. ASSUME NEW d \in Range(Missing(n))
        PROVE  d \in Range(r)
    <2>1. PICK i \in 1 .. b : d = Missing(n)[i]
      BY <1>4 DEF Range
    <2>2. a + i \in 1 .. a + b /\ ~(a + i <= a) /\ (a + i) - a = i
      OBVIOUS
    <2>3. r[a + i] = d
      BY <1>5, <2>1, <2>2
    <2> QED BY <1>5, <2>2, <2>3 DEF Range
  <1>9. NewCall(n).rest = r
    BY <1>2 DEF NewCall
  <1> QED BY <1>5, <1>7, <1>8, <1>9, MissingAll DEF Distinct

\* A list without repetition, and the rest of it.
LEMMA TailDistinct ==
    ASSUME NEW s \in Seq(Node), s # << >>, Distinct(s)
    PROVE  Distinct(Tail(s)) /\ Head(s) \notin Range(Tail(s))
  <1>1. PICK a \in Nat : a = Len(s) /\ a > 0
    BY LenProperties, EmptySeq
  <1>2. PICK t \in Seq(Node) : t = Tail(s) /\ Len(t) = a - 1
                               /\ \A i \in 1 .. a - 1 : t[i] = s[i + 1]
    <2>1. PICK t \in Seq(Node) : t = Tail(s)
      BY HeadTailProperties
    <2>2. Len(t) = Len(s) - 1 /\ \A i \in 1 .. Len(t) : t[i] = s[i + 1]
      BY <2>1, HeadTailProperties
    <2> QED BY <1>1, <2>1, <2>2
  <1>3. DOMAIN t = 1 .. a - 1 /\ Head(s) = s[1] /\ 1 \in 1 .. a
    BY <1>1, <1>2, LenProperties
  <1>4. \A i \in 1 .. a - 1 : i + 1 \in 1 .. a /\ i + 1 # 1
    BY <1>1
  <1>5. \A i, j \in 1 .. a : s[i] = s[j] => i = j
    BY <1>1 DEF Distinct
  <1>6. ASSUME NEW i \in 1 .. a - 1, NEW j \in 1 .. a - 1, t[i] = t[j]
        PROVE  i = j
    <2>1. i + 1 = j + 1
      BY <1>2, <1>4, <1>5, <1>6
    <2> QED BY <2>1
  <1>7. \A i \in 1 .. a - 1 : t[i] # s[1]
    BY <1>2, <1>3, <1>4, <1>5
  <1> QED BY <1>2, <1>3, <1>6, <1>7 DEF Distinct, Range

-----------------------------------------------------------------------------
(* Every target is met once.                                               *)

\* So no dependency has a job already.
LEMMA NeverNewDep ==
    ASSUME Shape, MetOnce
    PROVE  ~NewDep /\ ~ReportNewDepStopped
  <1>1. SUFFICES ASSUME Visiting("job"), Top.job # Nil
                 PROVE  FALSE
    BY DEF NewDep, ReportNewDepStopped
  <1>2. Making /\ Top.rest # << >> /\ done[Head(Top.rest)] = "job"
    BY <1>1 DEF Visiting, Making
  <1>3. PICK k \in Nat : k = Len(stack) /\ k > 1 /\ Top = stack[k]
    BY <1>1, TopIs, TopIsJob DEF Shape, Top
  <1>4. k \in 2 .. k
    BY <1>3
  <1>5. Head(Top.rest) \in Range(Top.rest)
    BY <1>2, TopIs, TailRange DEF Shape
  <1> QED BY <1>2, <1>3, <1>4, <1>5 DEF MetOnce

\* A new job.
LEMMA MakeJobMet ==
    ASSUME Shape, CallsReach, Tree, MetOnce, MakeJob
    PROVE  MetOnce'
  <1>1. PICK n \in Node : /\ n = Head(Top.rest) /\ done[n] = "absent" /\ Top.rest # << >>
                          /\ done' = [done EXCEPT ![n] = "nil"]
    BY MakeJobIs DEF Shape
  <1>2. PICK k \in Nat : k = Len(stack) /\ k > 0
    BY TopIs DEF Shape
  <1>3. /\ Len(stack') = k + 1
        /\ \A i \in 1 .. k : /\ stack'[i].job = stack[i].job
                             /\ i # k => stack'[i] = stack[i]
                             /\ i = k => stack'[i].rest = Tail(Top.rest)
        /\ \A i \in 1 .. k + 1 : i > k => stack'[i] = NewCall(n)
    BY <1>1, <1>2, MakeJobIs DEF Shape
  <1>4. /\ Top = stack[k] /\ Top.rest \in Seq(Node) /\ Making
        /\ done \in [Node -> {"absent", "nil", "job"}]
    BY <1>2, TopIs DEF Shape, TypeOK, Top, MakeJob, Visiting, Making
  <1>5. n \in Range(Top.rest) /\ Range(Tail(Top.rest)) \subseteq Range(Top.rest)
    BY <1>1, <1>4, TailRange
  <1>6. \A d \in Node : done'[d] = IF d = n THEN "nil" ELSE done[d]
    BY <1>1, <1>4
  <1>7. k = 1 \/ (k # 1 /\ k \in 2 .. k /\ k \in 1 .. k)
    BY <1>2
  <1>8. k # 1 => Top.job \in Node /\ n \in B!Succ(Top.job) /\ done[Top.job] = "nil"
    <2> SUFFICES ASSUME k # 1
                 PROVE  Top.job \in Node /\ n \in B!Succ(Top.job) /\ done[Top.job] = "nil"
      OBVIOUS
    <2>1. Top.job # Nil
      BY <1>2, <1>4, <1>7 DEF Shape, CallsAre
    <2>2. n \in B!Succ(Top.job)
      BY <1>1, <1>4, <2>1, NextIsSucc
    <2>3. Top.job \in Node /\ done[Top.job] = "nil"
      BY <1>2, <1>4, <1>7, CallJobs
    <2> QED BY <2>2, <2>3
  <1>9. \A m \in Node : n \in B!Succ(m) => k # 1 /\ m = Top.job
    <2>1. \A m \in Node : k = 1 => n \notin B!Succ(m)
      BY <1>4, <1>5 DEF MetOnce
    <2>2. \A m \in Node : k # 1 /\ n \in B!Succ(m) => m = Top.job
      BY <1>8 DEF Tree, Unshared
    <2> QED BY <2>1, <2>2
  <1>10. \A m \in Node : B!Succ(m) \subseteq Node
    <2>1. \A m \in Node : Deps[m] \in Seq(Node) /\ OrderOnlys[m] \in Seq(Node)
      BY GraphAssumption DEF GraphAssumption
    <2> QED BY <2>1, LenProperties, ElementOfSeq DEF B!Succ, B!Elems
  <1>11. \A m \in Node : Range(stack'[1].rest) \cap B!Succ(m) = {}
    <2>1. 1 \in 1 .. k
      BY <1>2
    <2>2. Range(stack'[1].rest) \subseteq Range(stack[1].rest)
      BY <1>3, <1>4, <1>5, <2>1
    <2> QED BY <2>2 DEF MetOnce
  <1>12. ASSUME NEW m \in Node, NEW d \in B!Succ(m), done'[d] # "absent"
         PROVE  done'[m] # "absent"
    <2>1. d \in Node
      BY <1>10
    <2>2. CASE d = n
      BY <1>6, <1>8, <1>9, <2>2
    <2>3. CASE d # n
      <3>1. done[m] # "absent"
        BY <1>6, <1>12, <2>1, <2>3 DEF MetOnce
      <3> QED BY <1>6, <3>1
    <2> QED BY <2>2, <2>3
  <1>13. ASSUME NEW i \in 2 .. k + 1
         PROVE  /\ Distinct(stack'[i].rest)
                /\ \A d \in Range(stack'[i].rest) : done'[d] = "absent"
    <2>1. CASE i > k
      <3>1. stack'[i] = NewCall(n)
        BY <1>3, <2>1
      <3>2. Distinct(NewCall(n).rest) /\ Range(NewCall(n).rest) \subseteq B!Succ(n)
        BY NewCallIs, NewCallAll DEF Tree
      <3>3. n \notin B!Succ(n)
        BY <1>1, <1>8, <1>9
      <3>4. \A d \in B!Succ(n) : d \in Node /\ d # n /\ done[d] = "absent"
        BY <1>1, <1>10, <3>3 DEF MetOnce
      <3> QED BY <1>6, <3>1, <3>2, <3>4
    <2>2. CASE ~(i > k)
      <3>1. i \in 2 .. k /\ i \in 1 .. k
        BY <2>2
      <3>2. /\ Distinct(stack[i].rest) /\ \A d \in Range(stack[i].rest) : done[d] = "absent"
            /\ stack[i].job \in Node /\ Range(stack[i].rest) \subseteq B!Succ(stack[i].job)
        BY <1>2, <1>4, <3>1, CallJobs DEF MetOnce, CallsReach
      <3>3. Distinct(stack'[i].rest) /\ Range(stack'[i].rest) \subseteq Range(stack[i].rest)
            /\ n \notin Range(stack'[i].rest)
        <4>1. CASE i = k
          BY <1>1, <1>3, <1>4, <1>5, <3>1, <3>2, <4>1, TailDistinct
        <4>2. CASE i # k
          <5>1. stack'[i] = stack[i]
            BY <1>3, <3>1, <4>2
          <5>2. n \notin Range(stack[i].rest)
            <6>1. k \in 1 .. k /\ k \in 2 .. k
              BY <3>1
            <6>2. stack[i].job # Top.job
              BY <1>2, <1>4, <3>1, <4>2, <6>1 DEF Shape, CallsAre
            <6> QED BY <1>9, <3>2, <6>2
          <5> QED BY <3>2, <5>1, <5>2
        <4> QED BY <4>1, <4>2
      <3>4. Range(stack'[i].rest) \subseteq Node
        BY <1>10, <3>2, <3>3
      <3> QED BY <1>6, <3>2, <3>3, <3>4
    <2> QED BY <2>1, <2>2
  <1> QED BY <1>3, <1>11, <1>12, <1>13 DEF MetOnce

\* Every step keeps it.
LEMMA MetStep ==
    ASSUME Shape, CallsReach, Tree, MetOnce, [Next]_vars
    PROVE  MetOnce'
  <1>1. CASE MakeJob
    BY <1>1, MakeJobMet
  <1>2. CASE GoalDone
    <2>1. Top.rest # << >> /\ Top.job = Nil /\ stack' = Advance /\ done' = done
      BY <1>2 DEF GoalDone, Visiting
    <2>2. PICK k \in Nat : k = Len(stack) /\ k > 0 /\ Top = stack[k] /\ k \in 1 .. k
      BY TopIs DEF Shape, Top
    <2>3. k = 1
      BY <2>1, <2>2 DEF Shape, CallsAre
    <2>4. Len(stack') = 1 /\ stack'[1].rest = Tail(Top.rest)
      BY <2>1, <2>2, <2>3, AdvanceIs DEF Shape
    <2>5. Range(stack'[1].rest) \subseteq Range(stack[1].rest)
      BY <2>1, <2>2, <2>3, <2>4, TopIs, TailRange DEF Shape
    <2>6. \A i : ~(i \in 2 .. Len(stack'))
      BY <2>4
    <2> QED BY <2>1, <2>5, <2>6 DEF MetOnce
  <1>3. CASE PostJob
    <2>1. Top.job # Nil /\ stack' = Popped /\ Making /\ done' = [done EXCEPT ![Top.job] = "job"]
      BY <1>3 DEF PostJob, Making
    <2>2. PICK k \in Nat : k = Len(stack) /\ k > 1 /\ Top = stack[k] /\ k \in 2 .. k
      BY <2>1, TopIs, TopIsJob DEF Shape, Top
    <2>3. Len(stack') = k - 1 /\ \A i \in 1 .. k - 1 : stack'[i] = stack[i]
      BY <2>1, <2>2, PoppedIs DEF Shape
    <2>4. PICK p \in Node : p = Top.job /\ done[p] = "nil"
      BY <2>1, <2>2, CallJobs
    <2>5. \A d : done'[d] = "absent" <=> done[d] = "absent"
      <3>1. done \in [Node -> {"absent", "nil", "job"}]
        BY DEF Shape, TypeOK
      <3> QED BY <2>1, <2>4, <3>1
    <2>6. 1 \in 1 .. k - 1 /\ \A i \in 2 .. k - 1 : i \in 1 .. k - 1 /\ i \in 2 .. k
      BY <2>2
    <2> QED BY <2>1, <2>2, <2>3, <2>5, <2>6 DEF MetOnce
  <1>4. CASE PostJobStopped
    <2>1. main' = "wait" /\ stack' = SubSeq(stack, 1, 1) /\ done' = done
      BY <1>4 DEF PostJobStopped
    <2>2. PICK k \in Nat : k = Len(stack) /\ k > 0
      BY TopIs DEF Shape
    <2>3. stack'[1] = stack[1]
      <3>1. 1 \in 1 .. k /\ 1 <= k /\ \A i \in 1 .. 1 : stack[i] \in Call
        BY <2>2, TopIs DEF Shape
      <3> QED BY <2>1, <3>1, SubSeqProperties
    <2> QED BY <2>1, <2>3 DEF MetOnce, Making
  <1>5. CASE UNCHANGED <<stack, done>> /\ (Making' => Making)
    BY <1>5 DEF MetOnce
  <1>6. CASE ReadNumDeps \/ AllPosted \/ Wait \/ Handled \/ LoopEnds \/ AllJoined
    BY <1>5, <1>6 DEF ReadNumDeps, AllPosted, Wait, Handled, LoopEnds, AllJoined, Visiting, goVars,
          Making
  <1>7. ASSUME NEW w \in Worker, JobResult(w) \/ Dispatch(w) \/ Join(w) \/ Work(w)
        PROVE  MetOnce'
    BY <1>5, <1>7 DEF JobResult, Dispatch, Join, Work, Build, Run, ReportStopped, goVars, Making
  <1>8. CASE UNCHANGED vars
    BY <1>5, <1>8 DEF vars, goVars, Making
  <1> QED BY <1>1, <1>2, <1>3, <1>4, <1>6, <1>7, <1>8, NeverNewDep, NeverCircular
          DEF Next, Main, Manager, Tree

-----------------------------------------------------------------------------
(* A job waits for all that it depends on.                                 *)

\* A file that exists is not removed.
LEMMA ExistsStep ==
    ASSUME Shape, [Next]_vars
    PROVE  \A d \in Node : Exists(d) => Exists(d)'
  <1>1. CASE mtime' = mtime
    BY <1>1 DEF Exists
  <1>2. ASSUME NEW w \in Worker, Run(w)
        PROVE  \A d \in Node : Exists(d) => Exists(d)'
    <2>1. PICK j : /\ clock' \in {clock, clock + 1}
                   /\ mtime' = mtime \/ mtime' = [mtime EXCEPT ![j] = IF j \in IsPhony THEN @ ELSE clock']
      BY <1>2 DEF Run
    <2>2. clock \in Nat /\ mtime \in [Node -> Nat \cup {NotExist}]
      BY DEF Shape, TypeOK
    <2>3. clock' \in Nat /\ clock' # NotExist
      BY <2>1, <2>2 DEF NotExist
    <2>4. \A d \in Node : mtime'[d] = mtime[d] \/ mtime'[d] = clock'
      BY <2>1, <2>2
    <2> QED BY <2>3, <2>4 DEF Exists
  <1>3. CASE Main
    BY <1>1, <1>3 DEF Main, MakeJob, ReadNumDeps, WriteNumDeps, GoalDone, ReportNewDepStopped,
          PostJobStopped, AllPosted, files
  <1>4. CASE PostJob \/ NewDep \/ Wait \/ Handled \/ LoopEnds \/ AllJoined
    BY <1>1, <1>4 DEF PostJob, NewDep, Wait, Handled, LoopEnds, AllJoined, files
  <1>5. ASSUME NEW w \in Worker, JobResult(w) \/ Dispatch(w) \/ Join(w) \/ Build(w) \/ ReportStopped(w)
        PROVE  mtime' = mtime
    BY <1>5 DEF JobResult, Dispatch, Join, Build, ReportStopped, files
  <1>6. CASE UNCHANGED vars
    BY <1>1, <1>6 DEF vars, files
  <1> QED BY <1>1, <1>2, <1>3, <1>4, <1>5, <1>6 DEF Next, Manager, Work

\* A visit is over when the visited target has a job that knows its parent.
LEMMA AdvanceToVisit ==
    ASSUME Shape, Top.rest # << >>, NEW n, NEW d, ToVisit(stack, n, d)
    PROVE  ToVisit(Advance, n, d) \/ (n = Top.job /\ d = Head(Top.rest))
  <1>1. PICK k \in Nat : k = Len(stack) /\ Top = stack[k]
    BY TopIs DEF Shape, Top
  <1>2. PICK i \in 1 .. k : stack[i].job = n /\ d \in Range(stack[i].rest)
    BY <1>1 DEF ToVisit
  <1>3. Len(Advance) = k /\ Advance[i].job = n /\ (i # k => Advance[i] = stack[i])
        /\ (i = k => Advance[i].rest = Tail(Top.rest))
    BY <1>1, <1>2, AdvanceIs DEF Shape
  <1>4. Range(Top.rest) \subseteq Range(Tail(Top.rest)) \cup {Head(Top.rest)}
    BY TopIs, TailRange DEF Shape
  <1>5. i = k /\ d = Head(Top.rest) => n = Top.job
    BY <1>1, <1>2
  <1>6. d \in Range(Advance[i].rest) \/ (i = k /\ d = Head(Top.rest))
    BY <1>1, <1>2, <1>3, <1>4
  <1> QED BY <1>2, <1>3, <1>5, <1>6 DEF ToVisit

\* Every step keeps Linked.
LEMMA LinkedStep ==
    ASSUME Shape, Tree, Waiting, MetOnce, Linked, [Next]_vars
    PROVE  Linked'
  <1> DEFINE Link(n, d) == ToVisit(stack, n, d) \/ parents[d][n] > 0
  <1>1. SUFFICES ASSUME ~stopped', NEW n \in Node, done'[n] # "absent"
                 PROVE  /\ \A d \in Range(Deps[n]) : Link(n, d)'
                        /\ \A d \in Range(OrderOnlys[n]) : Link(n, d)' \/ Exists(d)'
    BY DEF Linked
  <1>2. ~stopped
    BY <1>1, StillRuns
  <1>3. Range(Deps[n]) \subseteq Node /\ Range(OrderOnlys[n]) \subseteq Node
    <2>1. Deps[n] \in Seq(Node) /\ OrderOnlys[n] \in Seq(Node)
      BY GraphAssumption DEF GraphAssumption
    <2> QED BY <2>1, LenProperties, ElementOfSeq DEF Range
  <1>4. ASSUME done[n] # "absent", \A d \in Node : Link(n, d) => Link(n, d)'
        PROVE  /\ \A d \in Range(Deps[n]) : Link(n, d)'
               /\ \A d \in Range(OrderOnlys[n]) : Link(n, d)' \/ Exists(d)'
    <2>1. /\ \A d \in Range(Deps[n]) : Link(n, d)
          /\ \A d \in Range(OrderOnlys[n]) : Link(n, d) \/ Exists(d)
      BY <1>2, <1>4 DEF Linked
    <2> HIDE DEF Link
    <2> QED BY <1>3, <1>4, <2>1, ExistsStep
  <1>5. CASE UNCHANGED <<stack, done, parents>>
    BY <1>1, <1>4, <1>5
  <1>6. CASE MakeJob
    <2>1. PICK m \in Node : /\ m = Head(Top.rest) /\ Top.rest # << >>
                            /\ done' = [done EXCEPT ![m] = "nil"]
      BY <1>6, MakeJobIs DEF Shape
    <2>2. PICK k \in Nat : k = Len(stack)
      BY TopIs DEF Shape
    <2>3. /\ Len(stack') = k + 1 /\ \A i \in 1 .. k : stack'[i] = Advance[i]
          /\ \A i \in 1 .. k + 1 : i > k => stack'[i] = NewCall(m)
      BY <1>6, <2>1, <2>2, MakeJobIs DEF Shape
    <2>4. Len(Advance) = k
      BY <2>1, <2>2, AdvanceIs DEF Shape
    <2>5. parents' = IF Top.job = Nil THEN parents ELSE [parents EXCEPT ![m][Top.job] = 1]
      BY <1>6, <2>1 DEF MakeJob
    <2>6. CASE n = m
      <3>1. k + 1 \in 1 .. k + 1 /\ k + 1 > k
        OBVIOUS
      <3>2. stack'[k + 1] = NewCall(n)
        BY <2>3, <2>6, <3>1
      <3>3. /\ NewCall(n).job = n /\ Range(Deps[n]) \subseteq Range(NewCall(n).rest)
            /\ \A d \in Range(OrderOnlys[n]) : Exists(d) \/ d \in Range(NewCall(n).rest)
        BY NewCallIs, NewCallAll DEF Tree
      <3>4. \A d \in Range(NewCall(n).rest) : ToVisit(stack', n, d)
        BY <2>3, <3>1, <3>2, <3>3 DEF ToVisit
      <3> QED BY <1>3, <3>3, <3>4, ExistsStep
    <2>7. CASE n # m
      <3>1. done[n] # "absent"
        <4>1. done \in [Node -> {"absent", "nil", "job"}]
          BY DEF Shape, TypeOK
        <4> QED BY <1>1, <2>1, <2>7, <4>1
      <3>2. ASSUME NEW d \in Node, Link(n, d)
            PROVE  Link(n, d)'
        <4>1. parents \in [Node -> [Node -> Nat]]
          BY DEF Shape, TypeOK
        <4>2. parents[d][n] > 0 => parents'[d][n] > 0
          BY <2>5, <4>1
        <4>3. CASE ToVisit(Advance, n, d)
          <5>1. PICK i \in 1 .. k : Advance[i].job = n /\ d \in Range(Advance[i].rest)
            BY <2>4, <4>3 DEF ToVisit
          <5>2. i \in 1 .. k + 1
            OBVIOUS
          <5> QED BY <2>3, <5>1, <5>2 DEF ToVisit
        <4>4. CASE n = Top.job /\ d = m
          <5>1. n # Nil
            BY GraphAssumption DEF GraphAssumption
          <5> QED BY <2>5, <4>1, <4>4, <5>1
        <4> QED BY <2>1, <3>2, <4>2, <4>3, <4>4, AdvanceToVisit
      <3> HIDE DEF Link
      <3> QED BY <1>4, <3>1, <3>2
    <2> QED BY <2>6, <2>7
  <1>7. CASE GoalDone
    <2>1. Top.rest # << >> /\ stack' = Advance /\ UNCHANGED <<done, parents>> /\ Top.job = Nil
      BY <1>7 DEF GoalDone, Visiting, jobVars
    <2>2. n # Nil
      BY GraphAssumption DEF GraphAssumption
    <2>3. \A d \in Node : ToVisit(stack, n, d) => ToVisit(stack', n, d)
      BY <2>1, <2>2, AdvanceToVisit
    <2> QED BY <1>1, <1>4, <2>1, <2>3
  <1>8. CASE PostJob
    <2>1. /\ Top.rest = << >> /\ Top.job # Nil /\ stack' = Popped /\ parents' = parents
          /\ done' = [done EXCEPT ![Top.job] = "job"] /\ Making
      BY <1>8 DEF PostJob, Making
    <2>2. PICK k \in Nat : k = Len(stack) /\ k > 1 /\ Top = stack[k] /\ k \in 2 .. k
      BY <2>1, TopIs, TopIsJob DEF Shape, Top
    <2>3. Len(stack') = k - 1 /\ \A i \in 1 .. k - 1 : stack'[i] = stack[i]
      BY <2>1, <2>2, PoppedIs DEF Shape
    <2>4. PICK p \in Node : p = Top.job /\ done[p] = "nil"
      BY <2>1, <2>2, CallJobs
    <2>5. done[n] # "absent"
      <3>1. done \in [Node -> {"absent", "nil", "job"}]
        BY DEF Shape, TypeOK
      <3> QED BY <1>1, <2>1, <2>4, <3>1
    <2>6. ASSUME NEW d \in Node, ToVisit(stack, n, d)
          PROVE  ToVisit(stack', n, d)
      <3>1. PICK i \in 1 .. k : stack[i].job = n /\ d \in Range(stack[i].rest)
        BY <2>2, <2>6 DEF ToVisit
      <3>2. i # k
        <4>1. Range(Top.rest) = {}
          BY <2>1 DEF Range
        <4> QED BY <2>2, <3>1, <4>1
      <3>3. i \in 1 .. k - 1
        BY <3>2
      <3> QED BY <2>3, <3>1, <3>3 DEF ToVisit
    <2> QED BY <1>4, <2>1, <2>5, <2>6
  <1>9. ~PostJobStopped /\ ~ReadNumDeps /\ ~WriteNumDeps /\ ~NewDep /\ ~ReportNewDepStopped
    BY <1>2, NeverCircular, NeverNewDep DEF PostJobStopped, Waiting, Tree
  <1>10. CASE AllPosted \/ Wait \/ Handled \/ LoopEnds \/ AllJoined
    BY <1>5, <1>10 DEF AllPosted, Wait, Handled, LoopEnds, AllJoined, goVars, jobVars
  <1>11. ASSUME NEW w \in Worker, JobResult(w) \/ Dispatch(w) \/ Join(w) \/ Work(w)
         PROVE  UNCHANGED <<stack, done, parents>>
    BY <1>11 DEF JobResult, Dispatch, Join, Work, Build, Run, ReportStopped, goVars, jobVars
  <1>12. CASE UNCHANGED vars
    BY <1>5, <1>12 DEF vars, goVars, jobVars
  <1> HIDE DEF Link
  <1> QED BY <1>5, <1>6, <1>7, <1>8, <1>9, <1>10, <1>11, <1>12 DEF Next, Main, Manager

-----------------------------------------------------------------------------
(* A job is handed out when all that it depends on is built.               *)

\* The result of a target is decided by the worker that has it, once.
LEMMA ResultStep ==
    ASSUME Shape, Results, [Next]_vars, NEW d \in Node, result'[d] # result[d]
    PROVE  \E w \in Worker : /\ wk[w].job = d /\ wk[w].at \in {"build", "run"} /\ result[d] = "none"
                             /\ Build(w) \/ Run(w)
  <1>1. result' # result
    OBVIOUS
  <1>2. PICK w \in Worker : Build(w) \/ Run(w)
    BY <1>1 DEF Next, Main, Manager, Work, MakeJob, ReadNumDeps, WriteNumDeps, GoalDone,
       ReportNewDepStopped, PostJobStopped, AllPosted, PostJob, NewDep, Wait, Handled, LoopEnds,
       AllJoined, JobResult, Dispatch, Join, ReportStopped, vars, history
  <1>3. wk[w].at \in {"build", "run"} /\ wk[w].job \in Node
    BY <1>2 DEF Build, Run, Shape, HeldIsJob, Holding
  <1>4. result \in [Node -> {"none", "nothing", "built", "error"}]
    BY DEF Shape, TypeOK
  <1>5. result' = result \/ \E r : result' = [result EXCEPT ![wk[w].job] = r]
    BY <1>2 DEF Build, Run, Ended
  <1>6. wk[w].job = d
    BY <1>3, <1>4, <1>5
  <1> QED BY <1>2, <1>3, <1>6 DEF Results

\* What a job that is ready depends on is built.
LEMMA ReadyIsReady ==
    ASSUME Shape, Waiting, Results, Linked, ~stopped, NEW j \in Node, ready[j] > 0
    PROVE  /\ \A d \in Range(Deps[j]) : Built(d)
           /\ \A d \in Range(OrderOnlys[j]) : Built(d) \/ Exists(d)
  <1>1. Tally
    BY DEF Waiting
  <1>2. ready[j] = 1 /\ begun[j] = 0 /\ numDeps[j] = 0 /\ done[j] # "absent"
    BY <1>1 DEF Tally, Pushed, Unmet
  <1>3. UnvisitedIn(stack, j) = {} /\ PendingIn(parents, Open, j) = {}
    <2>1. PICK u \in Nat : u = Cardinality(UnvisitedIn(stack, j))
      BY TallyTypes
    <2>2. PICK q \in Nat : q = Cardinality(PendingIn(parents, Open, j))
      BY TallyTypes
    <2>3. u + q = 0
      BY <1>1, <1>2, <2>1, <2>2 DEF Tally, Exact
    <2>4. u = 0 /\ q = 0
      BY <2>3
    <2> QED BY <2>1, <2>2, <2>4, TallyTypes
  <1>4. \A d : ~ToVisit(stack, j, d)
    <2> SUFFICES ASSUME NEW d, NEW i \in 1 .. Len(stack), stack[i].job = j, d \in Range(stack[i].rest)
                 PROVE  FALSE
      BY DEF ToVisit
    <2>1. PICK l : l \in DOMAIN stack[i].rest
      BY DEF Range
    <2>2. i \in DOMAIN stack
      BY TopIs, LenProperties DEF Shape
    <2>3. l \in UnvisitedIn(stack, j)
      BY <2>1, <2>2 DEF UnvisitedIn
    <2> QED BY <1>3, <2>3
  <1>5. ASSUME NEW d \in Node, parents[d][j] > 0
        PROVE  Built(d)
    <2>1. d \notin Open
      <3>1. \A e \in Open : parents[e][j] = 0
        BY <1>3, TallyTypes
      <3> QED BY <1>5, <3>1
    <2>2. begun[d] # 0 /\ ~Held(d)
      BY <1>1, <2>1, OpenIs
    <2>3. begun[d] \in Nat
      BY DEF Shape, TypeOK
    <2>4. begun[d] > 0
      BY <2>2, <2>3
    <2>5. result[d] # "none" /\ result[d] # "error"
      BY <2>2, <2>4 DEF Results
    <2> QED BY <2>5 DEF Built, Shape, TypeOK
  <1>6. Range(Deps[j]) \subseteq Node /\ Range(OrderOnlys[j]) \subseteq Node
    <2>1. Deps[j] \in Seq(Node) /\ OrderOnlys[j] \in Seq(Node)
      BY GraphAssumption DEF GraphAssumption
    <2> QED BY <2>1, LenProperties, ElementOfSeq DEF Range
  <1> QED BY <1>2, <1>4, <1>5, <1>6 DEF Linked

\* What n depends on is built, as a function of results and times of files.
BuiltIn(res, d) == res[d] \in {"nothing", "built"}
Before(res, mt, n) ==
    /\ \A d \in Range(Deps[n]) : BuiltIn(res, d)
    /\ \A d \in Range(OrderOnlys[n]) : BuiltIn(res, d) \/ mt[d] # NotExist

\* DepsFirst in these terms.
LEMMA BeforeIs ==
    DepsFirst <=> \A w \in Worker : wk[w].at \in {"build", "run"} => Before(result, mtime, wk[w].job)
  BY DEF DepsFirst, Before, BuiltIn, Built, Exists

\* Every step keeps DepsFirst.
LEMMA DepsFirstStep ==
    ASSUME Shape, Waiting, Results, Linked, DepsFirst, [Next]_vars
    PROVE  DepsFirst'
  <1>1. ASSUME NEW n \in Node, Before(result, mtime, n)
        PROVE  Before(result', mtime', n)
    <2>1. Range(Deps[n]) \subseteq Node /\ Range(OrderOnlys[n]) \subseteq Node
      <3>1. Deps[n] \in Seq(Node) /\ OrderOnlys[n] \in Seq(Node)
        BY GraphAssumption DEF GraphAssumption
      <3> QED BY <3>1, LenProperties, ElementOfSeq DEF Range
    <2>2. \A d \in Node : BuiltIn(result, d) => BuiltIn(result', d)
      <3> SUFFICES ASSUME NEW d \in Node, result[d] \in {"nothing", "built"}
                   PROVE  result'[d] = result[d]
        BY DEF BuiltIn
      <3> QED BY ResultStep
    <2>3. \A d \in Node : mtime[d] # NotExist => mtime'[d] # NotExist
      BY ExistsStep DEF Exists
    <2> QED BY <1>1, <2>1, <2>2, <2>3 DEF Before
  <1>2. ASSUME NEW w \in Worker, wk[w].at \in {"build", "run"}, wk'[w].job = wk[w].job
        PROVE  Before(result', mtime', wk'[w].job)
    <2>1. wk[w].job \in Node /\ Before(result, mtime, wk[w].job)
      BY <1>2, BeforeIs DEF Shape, HeldIsJob, Holding
    <2> QED BY <1>1, <1>2, <2>1
  <1>3. wk \in [Worker -> Job]
    BY DEF Shape, TypeOK, Job
  <1>4. SUFFICES \A v \in Worker : wk'[v].at \in {"build", "run"} => Before(result', mtime', wk'[v].job)
    BY DEF DepsFirst, Before, BuiltIn, Built, Exists
  <1>5. CASE \E w \in Worker : Dispatch(w)
    <2>1. PICK w \in Worker : Dispatch(w)
      BY <1>5
    <2>2. PICK j \in Node : /\ ready[j] > 0
                            /\ wk' = [wk EXCEPT ![w] = [at |-> "build", job |-> j, res |-> "none"]]
      BY <2>1 DEF Dispatch
    <2>3. ~stopped
      BY <2>1 DEF Dispatch, Shape, Stops
    <2>4. Before(result, mtime, j)
      BY <2>2, <2>3, ReadyIsReady DEF Before, BuiltIn, Built, Exists
    <2>5. wk'[w].job = j /\ \A v \in Worker : v # w => wk'[v] = wk[v]
      BY <1>3, <2>2
    <2>6. Before(result', mtime', j)
      BY <1>1, <2>4
    <2> QED BY <1>2, <2>5, <2>6
  <1>6. CASE \A w \in Worker : ~Dispatch(w)
    <2>1. \A v \in Worker : wk'[v].at \in {"build", "run"} =>
              wk[v].at \in {"build", "run"} /\ wk'[v].job = wk[v].job
      <3>1. CASE wk' = wk
        BY <3>1
      <3>2. ASSUME NEW w \in Worker, JobResult(w) \/ Join(w) \/ Build(w) \/ Run(w) \/ ReportStopped(w)
            PROVE  \A v \in Worker : wk'[v].at \in {"build", "run"} =>
                      wk[v].at \in {"build", "run"} /\ wk'[v].job = wk[v].job
        <4>1. \A v \in Worker : v # w => wk'[v] = wk[v]
          BY <1>3, <3>2 DEF JobResult, Join, Build, Run, ReportStopped, Ended
        <4>2. CASE Build(w) \/ Run(w)
          BY <1>3, <4>1, <4>2 DEF Build, Run, Ended, Job
        <4>3. CASE JobResult(w) \/ Join(w) \/ ReportStopped(w)
          BY <1>3, <4>1, <4>3 DEF JobResult, Join, ReportStopped, Job
        <4> QED BY <3>2, <4>2, <4>3
      <3> QED BY <1>6, <3>1, <3>2 DEF Next, Main, Manager, Work, MakeJob, ReadNumDeps, WriteNumDeps,
           GoalDone, ReportNewDepStopped, PostJobStopped, AllPosted, PostJob, NewDep, Wait, Handled,
           LoopEnds, AllJoined, vars
    <2> QED BY <1>2, <2>1
  <1> QED BY <1>5, <1>6

-----------------------------------------------------------------------------
(* The times of files.                                                     *)

\* Types of the times.
LEMMA TimeTypes ==
    ASSUME Shape
    PROVE  /\ clock \in Nat /\ mtime \in [Node -> Nat \cup {NotExist}] /\ NotExist \in Int
           /\ depsTs \in [Node -> Int] /\ outputTs \in [Node -> Int] /\ NotExist < 0
           /\ result \in [Node -> {"none", "nothing", "built", "error"}]
           /\ \A n \in Node : mtime[n] \in Int /\ depsTs[n] \in Int /\ outputTs[n] \in Int
  BY DEF Shape, TypeOK, NotExist

\* The build starts later than any file was written.
LEMMA StartIs == Start \in Nat /\ \A t \in InitTs \cup {NotExist} : t < Start
  <1>1. \E t \in InitTs \cup {0} : \A u \in InitTs \cup {0} : t >= u
    <2>1. PICK t \in InitTs \cup {0} : \A u \in InitTs : u <= t
      BY GraphAssumption DEF GraphAssumption
    <2>2. InitTs \cup {0} \subseteq Nat
      BY GraphAssumption DEF GraphAssumption
    <2> QED BY <2>1, <2>2
  <1>2. \A u \in InitTs \cup {0} : Max(InitTs \cup {0}) >= u
    BY <1>1 DEF Max
  <1>3. PICK m \in Nat : m = Max(InitTs \cup {0})
    BY InitClock
  <1>4. \A u \in InitTs : u \in Nat /\ m >= u
    BY <1>2, <1>3, GraphAssumption DEF GraphAssumption
  <1>5. Start = 1 + m
    BY <1>3 DEF Start
  <1>6. \A u \in InitTs : u < 1 + m
    BY <1>4
  <1>7. NotExist < 1 + m
    BY DEF NotExist
  <1> QED BY <1>5, <1>6, <1>7

\* The times at first.
LEMMA TimesInit ==
    ASSUME Init
    PROVE  Times
  <1>1. /\ clock = Start /\ \A n \in IsPhony : mtime[n] = NotExist
        /\ depsTs = [n \in Node |-> -1] /\ result = [n \in Node |-> "none"]
        /\ mtime \in [Node -> InitTs \cup {NotExist}]
        /\ parents = [n \in Node |-> [p \in Node |-> 0]]
    BY DEF Init, Start
  <1>2. clock >= Start /\ \A n \in IsPhony : ~Exists(n)
    BY <1>1, StartIs DEF Exists
  <1>3. \A n \in Node : depsTs[n] >= -1
    BY <1>1
  <1>4. \A n \in Node : mtime[n] < Start
    BY <1>1, StartIs
  <1>5. \A n \in Node : result[n] = "none" /\ ~Built(n)
    BY <1>1 DEF Built
  <1>6. \A d, n \in Node : ~(parents[d][n] > 0)
    BY <1>1
  <1>7. Closed \subseteq Node
    BY DEF Closed
  <1>8. Cmds \subseteq Node
    BY GraphAssumption DEF GraphAssumption
  <1> QED BY <1>2, <1>3, <1>4, <1>5, <1>6, <1>7, <1>8 DEF Times

\* A job that a worker has is open.
LEMMA HeldIsOpen ==
    ASSUME Shape, Waiting, ~stopped, NEW w \in Worker, Holding(w)
    PROVE  wk[w].job \in Node /\ wk[w].job \notin Closed
  <1>1. wk[w].job \in Node /\ Held(wk[w].job)
    BY DEF Shape, HeldIsJob, Holding, Held
  <1> QED BY <1>1, OpenIs DEF Waiting, Closed

\* A step of main or of the manager that takes no result.
LEMMA QuietTimes ==
    ASSUME Tree, Shape, Shape', Waiting, Waiting', Finishing, MetOnce, Times, [Next]_vars,
           UNCHANGED <<clock, mtime, outputTs, depsTs, result>>, \A w \in Worker : ~JobResult(w)
    PROVE  Times'
  <1>1. ASSUME ~stopped', NEW d \in Closed', NEW n \in Node, parents'[d][n] > 0
        PROVE  outputTs[d] <= depsTs[n]
    <2>1. ~stopped /\ Tally /\ Tally'
      BY <1>1, StillRuns DEF Waiting
    <2>2. Open' = Open
      BY <2>1, OpenStep
    <2>3. d \in Closed
      BY <2>2 DEF Closed
    <2>4. d \in Node /\ begun[d] # 0
      BY <2>1, <2>3, OpenIs DEF Closed
    <2>5. parents[d][n] > 0
      <3>1. CASE parents' = parents
        BY <1>1, <3>1
      <3>2. CASE MakeJob
        <4>1. PICK m \in Node : /\ m = Head(Top.rest) /\ done[m] = "absent"
          BY <3>2, MakeJobIs DEF Shape
        <4>2. d # m
          BY <2>1, <2>4, <4>1 DEF Tally, Unmet
        <4>3. parents' = IF Top.job = Nil THEN parents ELSE [parents EXCEPT ![m][Top.job] = 1]
          BY <3>2, <4>1 DEF MakeJob
        <4>4. parents \in [Node -> [Node -> Nat]]
          BY DEF Shape, TypeOK
        <4> QED BY <1>1, <2>4, <4>1, <4>2, <4>3, <4>4
      <3>3. CASE NewDep
        BY <3>3, NeverNewDep DEF Waiting, Tree
      <3> QED BY <3>1, <3>2, <3>3 DEF Next, Main, Manager, Work, ReadNumDeps, WriteNumDeps, GoalDone,
           ReportNewDepStopped, PostJobStopped, AllPosted, PostJob, Wait, Handled, LoopEnds, AllJoined,
           JobResult, Dispatch, Join, Build, Run, ReportStopped, vars, jobVars
    <2> QED BY <2>1, <2>3, <2>5 DEF Times
  <1>2. /\ clock' = clock /\ mtime' = mtime /\ outputTs' = outputTs /\ depsTs' = depsTs
        /\ result' = result
    OBVIOUS
  <1> QED BY <1>1, <1>2 DEF Times, Exists, Built

\* The result of a job is taken: its parents wait for files as new as its.
LEMMA ResultTimes ==
    ASSUME Shape, Waiting, Finishing, Times, NEW w \in Worker, JobResult(w)
    PROVE  Times'
  <1>1. ~stopped /\ Tally
    BY DEF JobResult, Receiving, Shape, Stops, Waiting
  <1>2. PICK x : x = wk[w].job
    OBVIOUS
  <1>3. /\ x \in Node /\ Open' = Open \ {x}
        /\ \A m \in Node : begun[m] # 0 => parents[x][m] = 0
    BY <1>1, <1>2, ResultIs DEF Waiting
  <1>4. /\ clock' = clock /\ mtime' = mtime /\ outputTs' = outputTs /\ result' = result
        /\ parents' = parents
        /\ depsTs' = [p \in Node |-> IF p \in {q \in Node : parents[x][q] > 0} /\ depsTs[p] < outputTs[x]
                                     THEN outputTs[x] ELSE depsTs[p]]
    BY <1>2 DEF JobResult, UpdateParents, files, history
  <1>5. \A n \in Node : /\ depsTs'[n] >= depsTs[n] /\ depsTs'[n] \in Int
                        /\ parents[x][n] > 0 => outputTs[x] <= depsTs'[n]
                        /\ parents[x][n] = 0 => depsTs'[n] = depsTs[n]
    <2> TAKE n \in Node
    <2>1. outputTs[x] \in Int /\ depsTs[n] \in Int
      BY <1>3, TimeTypes
    <2>2. parents[x][n] \in Nat
      BY <1>3 DEF Shape, TypeOK
    <2>3. depsTs'[n] = IF parents[x][n] > 0 /\ depsTs[n] < outputTs[x] THEN outputTs[x] ELSE depsTs[n]
      BY <1>4
    <2> QED BY <2>1, <2>2, <2>3
  <1>6. \A n \in Node : depsTs'[n] >= -1
    <2> TAKE n \in Node
    <2>1. depsTs[n] >= -1 /\ depsTs[n] \in Int /\ depsTs'[n] >= depsTs[n] /\ depsTs'[n] \in Int
      BY <1>5, TimeTypes DEF Times
    <2> QED BY <2>1
  <1>7. \A n \in Cmds : result[n] = "nothing" => mtime[n] >= depsTs'[n]
    <2> SUFFICES ASSUME NEW n \in Cmds, result[n] = "nothing"
                 PROVE  mtime[n] >= depsTs'[n]
      OBVIOUS
    <2>1. n \in Node
      BY GraphAssumption DEF GraphAssumption
    <2>2. begun[n] # 0
      BY <2>1 DEF Finishing, Results
    <2> QED BY <1>3, <1>5, <2>1, <2>2 DEF Times
  <1>8. ASSUME NEW d \in Closed', NEW n \in Node, parents[d][n] > 0
        PROVE  outputTs[d] <= depsTs'[n]
    <2>1. d = x \/ d \in Closed
      BY <1>3 DEF Closed
    <2>2. CASE d = x
      BY <1>5, <1>8, <2>2
    <2>3. CASE d \in Closed
      <3>1. outputTs[d] <= depsTs[n] /\ d \in Node
        BY <1>1, <1>8, <2>3 DEF Times, Closed
      <3>2. outputTs[d] \in Int /\ depsTs[n] \in Int /\ depsTs'[n] >= depsTs[n] /\ depsTs'[n] \in Int
        BY <1>5, <3>1, TimeTypes
      <3> QED BY <3>1, <3>2
    <2> QED BY <2>1, <2>2, <2>3
  <1> QED BY <1>4, <1>6, <1>7, <1>8 DEF Times, Exists, Built

\* A worker finishes with its job, or starts the commands: only the times of
\* this target change, and its parents have not been told of it.
LEMMA WorkTimes ==
    ASSUME Shape, Shape', Waiting, Waiting', Times, [Next]_vars,
           NEW w \in Worker, Build(w) \/ Run(w), NEW j, j = wk[w].job,
           \A n \in Node : n # j => outputTs'[n] = outputTs[n]
    PROVE  ~stopped' => \A d \in Closed' : \A n \in Node : parents'[d][n] > 0 => outputTs'[d] <= depsTs'[n]
  <1>1. SUFFICES ASSUME ~stopped', NEW d \in Closed', NEW n \in Node, parents'[d][n] > 0
                 PROVE  outputTs'[d] <= depsTs'[n]
    OBVIOUS
  <1>2. ~stopped /\ Tally /\ Tally'
    BY <1>1, StillRuns DEF Waiting
  <1>3. Holding(w) /\ parents' = parents /\ depsTs' = depsTs
    BY DEF Build, Run, Holding
  <1>4. \A v \in Worker : ~JobResult(v)
    <2>1. finishCnt \in Nat /\ finishCnt' = finishCnt
      BY DEF Build, Run, wmVars, Shape, TypeOK
    <2>2. finishCnt + 1 # finishCnt
      BY <2>1
    <2> QED BY <2>1, <2>2 DEF JobResult
  <1>5. Open' = Open
    BY <1>2, <1>4, OpenStep
  <1>6. d \in Closed /\ d \in Node /\ d # j
    BY <1>2, <1>3, <1>5, HeldIsOpen DEF Closed
  <1> QED BY <1>1, <1>2, <1>3, <1>6 DEF Times

\* A worker looks at its job.
LEMMA BuildTimes ==
    ASSUME Shape, Shape', Waiting, Waiting', Finishing, Times, [Next]_vars, NEW w \in Worker, Build(w)
    PROVE  Times'
  <1>1. PICK j \in Node : j = wk[w].job /\ result[j] = "none"
    BY DEF Build, Shape, HeldIsJob, Holding, Finishing, Results
  <1>2. PICK ts : ts = IF j \in IsPhony THEN NotExist ELSE mtime[j]
    OBVIOUS
  <1>3. mtime[j] \in Int /\ depsTs[j] \in Int /\ ts = mtime[j]
    BY <1>1, <1>2, TimeTypes DEF Times, Exists
  <1>4. /\ clock' = clock /\ mtime' = mtime /\ depsTs' = depsTs
        /\ outputTs' = [outputTs EXCEPT ![j] = ts]
        /\ \/ result' = result
           \/ /\ result' = [result EXCEPT ![j] = Decide(j, ts)] /\ Decide(j, ts) # "run"
    <2>1. LET d == Decide(j, ts)
          IN /\ outputTs' = [outputTs EXCEPT ![j] = ts]
             /\ IF d = "run"
                THEN wk' = [wk EXCEPT ![w].at = "run"] /\ UNCHANGED result
                ELSE Ended(w, d)
      BY <1>1, <1>2 DEF Build
    <2>2. clock' = clock /\ mtime' = mtime /\ depsTs' = depsTs
      BY DEF Build, files
    <2> QED BY <1>1, <2>1, <2>2 DEF Ended
  <1>5. Decide(j, ts) # "run" => Decide(j, ts) \in {"nothing", "error"}
    BY <1>3 DEF Decide
  <1>6. \A n \in Node : n # j => outputTs'[n] = outputTs[n] /\ result'[n] = result[n]
    BY <1>1, <1>4, TimeTypes
  <1>7. outputTs'[j] = mtime[j] /\ result'[j] \in {"none", "nothing", "error"}
        /\ (result'[j] = "nothing" => Decide(j, ts) = "nothing")
    BY <1>1, <1>3, <1>4, <1>5, TimeTypes
  <1>8. \A n \in Node : result'[n] \in {"none", "nothing"} => mtime[n] < Start
    <2>1. mtime[j] < Start
      BY <1>1 DEF Times
    <2> QED BY <1>6, <2>1 DEF Times
  <1>9. \A n \in Node : result'[n] \in {"nothing", "built"} /\ mtime[n] # NotExist => outputTs'[n] = mtime[n]
    BY <1>6, <1>7 DEF Times, Built, Exists
  <1>10. \A n \in Node : result'[n] = "built" /\ mtime[n] = NotExist => outputTs'[n] >= Start
    BY <1>6, <1>7 DEF Times, Exists
  <1>11. \A n \in Cmds : result'[n] = "nothing" => mtime[n] >= depsTs[n]
    <2> SUFFICES ASSUME NEW n \in Cmds, result'[n] = "nothing"
                 PROVE  mtime[n] >= depsTs[n]
      OBVIOUS
    <2>1. n \in Node /\ n \in HasRule
      BY GraphAssumption DEF GraphAssumption
    <2>2. CASE n = j
      <3>1. Decide(j, ts) = "nothing" /\ j \in Cmds /\ j \in HasRule
        BY <1>7, <2>1, <2>2
      <3>2. ~(ts < depsTs[j])
        BY <3>1 DEF Decide
      <3> QED BY <1>3, <2>2, <3>2
    <2>3. CASE n # j
      BY <1>6, <2>1, <2>3 DEF Times
    <2> QED BY <2>2, <2>3
  <1>12. ~stopped' => \A d \in Closed' : \A n \in Node : parents'[d][n] > 0 => outputTs'[d] <= depsTs'[n]
    BY <1>1, <1>6, WorkTimes
  <1> QED BY <1>4, <1>8, <1>9, <1>10, <1>11, <1>12 DEF Times, Exists, Built

\* The commands of a target end: what they wrote is new.
LEMMA RunTimes ==
    ASSUME Shape, Shape', Waiting, Waiting', Finishing, Times, [Next]_vars, NEW w \in Worker, Run(w)
    PROVE  Times'
  <1>1. PICK j \in Node : j = wk[w].job /\ result[j] = "none"
    BY DEF Run, Shape, HeldIsJob, Holding, Finishing, Results
  <1>2. /\ clock' \in {clock, clock + 1} /\ depsTs' = depsTs
        /\ \/ mtime' = [mtime EXCEPT ![j] = IF j \in IsPhony THEN @ ELSE clock']
           \/ mtime' = mtime
        /\ \/ /\ result' = [result EXCEPT ![j] = "built"]
              /\ outputTs' = [outputTs EXCEPT ![j] =
                   IF j \in IsPhony \/ mtime'[j] = NotExist THEN clock' ELSE mtime'[j]]
           \/ result' = [result EXCEPT ![j] = "error"] /\ outputTs' = outputTs
    BY <1>1 DEF Run, Ended
  <1>3. clock \in Nat /\ clock' \in Nat /\ clock' >= Start
    <2>1. clock \in Nat /\ clock >= Start /\ Start \in Nat
      BY TimeTypes, StartIs DEF Times
    <2> QED BY <1>2, <2>1
  <1>4. \A n \in Node : n # j => outputTs'[n] = outputTs[n] /\ result'[n] = result[n] /\ mtime'[n] = mtime[n]
    BY <1>1, <1>2, TimeTypes
  <1>5. /\ j \in IsPhony => mtime'[j] = mtime[j]
        /\ \/ result'[j] = "error"
           \/ result'[j] = "built"
              /\ outputTs'[j] = IF j \in IsPhony \/ mtime'[j] = NotExist THEN clock' ELSE mtime'[j]
    BY <1>1, <1>2, TimeTypes
  <1>6. \A n \in IsPhony : mtime'[n] = NotExist
    <2>1. \A n \in IsPhony : n \in Node /\ mtime[n] = NotExist
      BY GraphAssumption DEF GraphAssumption, Times, Exists
    <2> QED BY <1>4, <1>5, <2>1
  <1>7. \A n \in Node : result'[n] \in {"none", "nothing"} => mtime'[n] < Start
    BY <1>4, <1>5 DEF Times
  <1>8. \A n \in Node : result'[n] \in {"nothing", "built"} /\ mtime'[n] # NotExist => outputTs'[n] = mtime'[n]
    BY <1>4, <1>5, <1>6 DEF Times, Built, Exists
  <1>9. \A n \in Node : result'[n] = "built" /\ mtime'[n] = NotExist => outputTs'[n] >= Start
    BY <1>3, <1>4, <1>5 DEF Times, Exists
  <1>10. \A n \in Cmds : result'[n] = "nothing" => mtime'[n] >= depsTs[n]
    <2>1. \A n \in Cmds : n \in Node
      BY GraphAssumption DEF GraphAssumption
    <2> QED BY <1>4, <1>5, <2>1 DEF Times
  <1>11. ~stopped' => \A d \in Closed' : \A n \in Node : parents'[d][n] > 0 => outputTs'[d] <= depsTs'[n]
    BY <1>1, <1>4, WorkTimes
  <1>12. \A n \in Node : depsTs[n] >= -1
    BY DEF Times
  <1> QED BY <1>2, <1>3, <1>6, <1>7, <1>8, <1>9, <1>10, <1>11, <1>12 DEF Times, Exists, Built

\* Every step keeps Times.
LEMMA TimesStep ==
    ASSUME Tree, Shape, Shape', Waiting, Waiting', Finishing, MetOnce, Times, [Next]_vars
    PROVE  Times'
  <1>1. CASE \E w \in Worker : JobResult(w)
    BY <1>1, ResultTimes
  <1>2. CASE \E w \in Worker : Build(w)
    BY <1>2, BuildTimes
  <1>3. CASE \E w \in Worker : Run(w)
    BY <1>3, RunTimes
  <1>4. CASE \A w \in Worker : ~JobResult(w) /\ ~Build(w) /\ ~Run(w)
    <2>1. UNCHANGED <<clock, mtime, outputTs, depsTs, result>>
      BY <1>4 DEF Next, Main, Manager, Work, MakeJob, ReadNumDeps, WriteNumDeps, GoalDone,
         ReportNewDepStopped, PostJobStopped, AllPosted, PostJob, NewDep, Wait, Handled, LoopEnds,
         AllJoined, Dispatch, Join, ReportStopped, vars, jobVars, files, history
    <2> QED BY <1>4, <2>1, QuietTimes
  <1> QED BY <1>1, <1>2, <1>3, <1>4

-----------------------------------------------------------------------------
(* What the invariant gives.                                               *)

\* The invariant at first.
LEMMA TreeInit ==
    ASSUME Tree, Init
    PROVE  TreeInv
  <1>1. Shape /\ Waiting /\ Finishing /\ Times
    BY ShapeInit, WaitInit, FinishingInit, TimesInit DEF Tree
  <1>2. /\ done = [n \in Node |-> "absent"]
        /\ wk = [w \in Worker |-> [at |-> "idle", job |-> Nil, res |-> "none"]]
    BY DEF Init
  <1>3. Linked
    BY <1>2 DEF Linked
  <1>4. DepsFirst
    BY <1>2 DEF DepsFirst
  <1>5. MetOnce
    <2>1. PICK goals \in Goals : stack = <<[job |-> Nil, rest |-> goals]>>
      BY DEF Init
    <2>2. Len(stack) = 1 /\ stack[1].rest = goals
      BY <2>1
    <2>3. \A i : ~(i \in 2 .. Len(stack))
      BY <2>2
    <2>4. \A n \in Node : Range(stack[1].rest) \cap B!Succ(n) = {}
      BY <2>2 DEF Tree, Unshared
    <2>5. \A n \in Node : B!Succ(n) \subseteq Node
      <3>1. \A m \in Node : Deps[m] \in Seq(Node) /\ OrderOnlys[m] \in Seq(Node)
        BY GraphAssumption DEF GraphAssumption
      <3> QED BY <3>1, LenProperties, ElementOfSeq DEF B!Succ, B!Elems
    <2> QED BY <1>2, <2>3, <2>4, <2>5 DEF MetOnce
  <1> QED BY <1>1, <1>3, <1>4, <1>5 DEF TreeInv

\* Every step keeps the invariant.
LEMMA TreeStep ==
    ASSUME Tree, TreeInv, [Next]_vars
    PROVE  TreeInv'
  <1>1. Shape' /\ Waiting' /\ Finishing'
    BY ShapeStep, WaitStep, ResultsStep, CountsStep, EndsStep, VisitedStep DEF TreeInv, Finishing, Tree
  <1>2. MetOnce' /\ Linked'
    BY MetStep, LinkedStep DEF TreeInv, Waiting
  <1>3. DepsFirst' /\ Times'
    BY <1>1, DepsFirstStep, TimesStep DEF TreeInv, Finishing
  <1> QED BY <1>1, <1>2, <1>3 DEF TreeInv

\* The invariant gives UpToDate.
LEMMA TreeIsUpToDate ==
    ASSUME TreeInv
    PROVE  UpToDate
  <1>1. SUFFICES ASSUME main = "end", ~err, NEW n \in Made \cap Cmds, result[n] # "built",
                        NEW d \in Range(Deps[n])
                 PROVE  IF Exists(d) THEN mtime[d] <= mtime[n] ELSE result[d] # "built"
    BY DEF UpToDate
  <1>2. /\ ~stopped /\ Made = Closed /\ \A m \in Closed : result[m] \in {"nothing", "built"}
        /\ d \in Made
    BY <1>1, FinishedIs DEF TreeInv
  <1>3. n \in Node /\ d \in Node /\ result[n] = "nothing" /\ Built(d) /\ done[n] # "absent"
    BY <1>1, <1>2 DEF Made, Built
  <1>4. parents[d][n] > 0
    <2>1. ~ToVisit(stack, n, d)
      <3>1. Len(stack) = 1 /\ n # Nil
        BY <1>1, <1>3, GraphAssumption DEF GraphAssumption, TreeInv, Shape, NotPosted, Making
      <3>2. \A i \in 1 .. 1 : i = 1
        OBVIOUS
      <3> QED BY <3>1, <3>2 DEF ToVisit, TreeInv, Shape, CallsAre
    <2> QED BY <1>2, <1>3, <2>1 DEF TreeInv, Linked
  <1>5. /\ outputTs[d] <= depsTs[n] /\ mtime[n] >= depsTs[n] /\ mtime[n] < Start
        /\ Exists(d) => outputTs[d] = mtime[d]
        /\ ~Exists(d) /\ result[d] = "built" => outputTs[d] >= Start
    BY <1>1, <1>2, <1>3, <1>4 DEF TreeInv, Times
  <1>6. /\ outputTs[d] \in Int /\ depsTs[n] \in Int /\ mtime[n] \in Int /\ mtime[d] \in Int
        /\ Start \in Nat
    BY <1>3, TimeTypes, StartIs DEF TreeInv
  <1>7. outputTs[d] <= mtime[n] /\ outputTs[d] < Start
    BY <1>5, <1>6
  <1> QED BY <1>5, <1>6, <1>7

\* If no target is needed twice, then, with any number of workers and
\* whatever may fail, no target is out of date when Exec returns without an
\* error, and a worker runs the commands of a target only after those of all
\* that it depends on.
THEOREM TreeUpToDate == Tree /\ Spec => []UpToDate /\ []DepsFirst
  <1> SUFFICES ASSUME Tree
               PROVE  Spec => []UpToDate /\ []DepsFirst
    OBVIOUS
  <1>1. Init => TreeInv
    BY TreeInit
  <1>2. TreeInv /\ [Next]_vars => TreeInv'
    BY TreeStep
  <1>3. TreeInv => UpToDate /\ DepsFirst
    BY TreeIsUpToDate DEF TreeInv
  <1> QED BY <1>1, <1>2, <1>3, PTL DEF Spec

-----------------------------------------------------------------------------
(* WorkerManager implements Build.                                         *)

\* A job that main has not met was not handed out, after an error either.
MetFirst == \A n \in Node : done[n] = "absent" => begun[n] = 0

\* Every step keeps MetFirst.
LEMMA MetFirstStep ==
    ASSUME Shape, Waiting, MetFirst, [Next]_vars
    PROVE  MetFirst'
  <1>1. done \in [Node -> {"absent", "nil", "job"}] /\ begun \in [Node -> Nat]
    BY DEF Shape, TypeOK
  <1>2. ASSUME NEW w \in Worker, Dispatch(w)
        PROVE  MetFirst'
    <2>1. ~stopped /\ done' = done
      BY <1>2 DEF Dispatch, Shape, Stops, goVars
    <2>2. PICK j \in Node : ready[j] > 0 /\ begun' = [begun EXCEPT ![j] = @ + 1]
      BY <1>2 DEF Dispatch
    <2>3. done[j] # "absent"
      BY <2>1, <2>2 DEF Waiting, Tally, Unmet
    <2> QED BY <1>1, <2>1, <2>2, <2>3 DEF MetFirst
  <1>3. CASE done' = done /\ begun' = begun
    BY <1>3 DEF MetFirst
  <1>4. CASE MakeJob
    BY <1>1, <1>4 DEF MakeJob, MetFirst, history
  <1>5. CASE PostJob
    BY <1>1, <1>5 DEF PostJob, MetFirst, history
  <1> QED BY <1>2, <1>3, <1>4, <1>5 DEF Next, Main, Manager, Work, ReadNumDeps, WriteNumDeps, GoalDone,
       ReportNewDepStopped, PostJobStopped, AllPosted, NewDep, Wait, Handled, LoopEnds,
       AllJoined, JobResult, Join, Build, Run, ReportStopped, vars, goVars, history

\* BuildState as a function of the results, the workers and done.
RunningIn(ws, n) == \E w \in Worker : ws[w].at = "run" /\ ws[w].job = n
StateIn(res, ws, dn) ==
    [n \in Node |-> CASE res[n] = "error" -> "failed"
                      [] BuiltIn(res, n) -> "made"
                      [] RunningIn(ws, n) -> "working"
                      [] dn[n] = "absent" -> "idle"
                      [] OTHER -> "begun"]

\* StateIn is BuildState.
LEMMA BuildStateIs == BuildState = StateIn(result, wk, done)
  BY DEF BuildState, StateIn, Built, BuiltIn, Running, RunningIn

\* The same after a step.
LEMMA BuildStateNext == BuildState' = StateIn(result', wk', done')
  BY DEF BuildState, StateIn, Built, BuiltIn, Running, RunningIn

\* The cases of BuildState do not overlap.
Apart(res, ws, dn, n) ==
    /\ res[n] \in {"none", "nothing", "built", "error"}
    /\ RunningIn(ws, n) => res[n] = "none"
    /\ dn[n] = "absent" => res[n] = "none" /\ ~RunningIn(ws, n)

\* The state of a target depends on its own result, worker and entry only.
LEMMA StateAt ==
    ASSUME NEW res, NEW ws, NEW dn, NEW n \in Node, Apart(res, ws, dn, n)
    PROVE  /\ res[n] = "error" => StateIn(res, ws, dn)[n] = "failed"
           /\ res[n] \in {"nothing", "built"} => StateIn(res, ws, dn)[n] = "made"
           /\ RunningIn(ws, n) => StateIn(res, ws, dn)[n] = "working"
           /\ dn[n] = "absent" => StateIn(res, ws, dn)[n] = "idle"
           /\ res[n] = "none" /\ ~RunningIn(ws, n) /\ dn[n] # "absent" => StateIn(res, ws, dn)[n] = "begun"
  BY DEF StateIn, BuiltIn, Apart

\* Where none of the three changes, the state does not.
LEMMA SameStateAt ==
    ASSUME NEW res, NEW ws, NEW dn, NEW res1, NEW ws1, NEW dn1, NEW n \in Node, res1[n] = res[n],
           RunningIn(ws1, n) <=> RunningIn(ws, n), dn1[n] = "absent" <=> dn[n] = "absent"
    PROVE  StateIn(res1, ws1, dn1)[n] = StateIn(res, ws, dn)[n]
  BY DEF StateIn, BuiltIn

\* No target changes its state.
LEMMA NoneChanges ==
    ASSUME NEW res, NEW ws, NEW dn, NEW res1, NEW ws1, NEW dn1,
           \A n \in Node : /\ res1[n] = res[n] /\ (RunningIn(ws1, n) <=> RunningIn(ws, n))
                           /\ dn1[n] = "absent" <=> dn[n] = "absent"
    PROVE  StateIn(res1, ws1, dn1) = StateIn(res, ws, dn)
  <1> DEFINE f == StateIn(res, ws, dn) g == StateIn(res1, ws1, dn1)
  <1>1. \A n \in Node : g[n] = f[n]
    BY SameStateAt
  <1>2. f = [n \in Node |-> f[n]] /\ g = [n \in Node |-> g[n]]
    BY DEF StateIn
  <1> HIDE DEF f, g
  <1>3. f = g
    BY <1>1, <1>2
  <1> QED BY <1>3 DEF f, g

\* One target changes its state.
LEMMA OneChanges ==
    ASSUME NEW n \in Node, NEW x, StateIn(result', wk', done')[n] = x,
           \A m \in Node : m # n => result'[m] = result[m],
           \A m \in Node : m # n => (RunningIn(wk', m) <=> RunningIn(wk, m)),
           \A m \in Node : m # n => (done'[m] = done[m])
    PROVE  StateIn(result', wk', done') = [StateIn(result, wk, done) EXCEPT ![n] = x]
  <1> DEFINE f == StateIn(result, wk, done) g == StateIn(result', wk', done')
  <1>1. \A m \in Node : m # n => g[m] = f[m]
    BY SameStateAt
  <1>2. g = [m \in Node |-> g[m]] /\ f = [m \in Node |-> f[m]] /\ g[n] = x
    BY DEF StateIn
  <1> HIDE DEF f, g
  <1>3. g = [f EXCEPT ![n] = x]
    BY <1>1, <1>2
  <1> QED BY <1>3 DEF f, g

\* The invariant keeps the cases apart.
LEMMA CasesApart ==
    (Shape /\ Waiting /\ Results /\ MetFirst) => \A n \in Node : Apart(result, wk, done, n)
  <1> SUFFICES ASSUME Shape, Waiting, Results, MetFirst, NEW n \in Node
               PROVE  Apart(result, wk, done, n)
    OBVIOUS
  <1>1. result[n] \in {"none", "nothing", "built", "error"} /\ begun[n] \in Nat
    BY DEF Shape, TypeOK
  <1>2. RunningIn(wk, n) => result[n] = "none" /\ begun[n] > 0
    BY DEF RunningIn, Results, Waiting, HeldOnce, Holding
  <1>3. done[n] = "absent" => begun[n] = 0 /\ result[n] = "none"
    BY DEF MetFirst, Results
  <1> QED BY <1>1, <1>2, <1>3 DEF Apart

\* All that the job of a worker depends on is made.
LEMMA HeldIsReady ==
    ASSUME Shape, Waiting, Results, MetFirst, DepsFirst,
           NEW w \in Worker, wk[w].at \in {"build", "run"}
    PROVE  B!Ready(wk[w].job)
  <1>1. PICK n \in Node : n = wk[w].job
    BY DEF Shape, HeldIsJob, Holding
  <1>2. Range(Deps[n]) \subseteq Node /\ Range(OrderOnlys[n]) \subseteq Node
    <2>1. Deps[n] \in Seq(Node) /\ OrderOnlys[n] \in Seq(Node)
      BY GraphAssumption DEF GraphAssumption
    <2> QED BY <2>1, LenProperties, ElementOfSeq DEF Range
  <1>3. B!Elems(Deps[n]) = Range(Deps[n]) /\ B!Elems(OrderOnlys[n]) = Range(OrderOnlys[n])
    BY DEF B!Elems, Range
  <1>4. /\ \A d \in Range(Deps[n]) : Built(d)
        /\ \A d \in Range(OrderOnlys[n]) : Built(d) \/ Exists(d)
    BY <1>1 DEF DepsFirst
  <1>5. \A d \in Node : Built(d) => BuildState[d] = "made"
    BY BuildStateIs, CasesApart, StateAt DEF Built
  <1>6. \A d \in Node : Exists(d) => d \in There
    BY DEF There
  <1> QED BY <1>1, <1>2, <1>3, <1>4, <1>5, <1>6 DEF B!Ready

\* A worker's commands are those of its job only.
LEMMA OneRuns ==
    ASSUME Shape, HeldOnce, NEW w \in Worker, Holding(w), NEW n, n = wk[w].job,
           NEW a, wk'[w].at = a, wk'[w].job = n, \A v \in Worker : v # w => wk'[v] = wk[v]
    PROVE  /\ \A m \in Node : m # n => (RunningIn(wk', m) <=> RunningIn(wk, m))
           /\ RunningIn(wk', n) <=> a = "run"
           /\ RunningIn(wk, n) <=> wk[w].at = "run"
  <1>1. \A v \in Worker : wk[v].at = "run" /\ wk[v].job = n => v = w
    BY DEF HeldOnce, Holding
  <1> QED BY <1>1 DEF RunningIn

\* A job that is made is begun.
LEMMA MakeJobSimulates ==
    ASSUME Shape, Waiting, Results, MetFirst, MetFirst', Shape', Waiting', Results', MakeJob
    PROVE  B!Next
  <1>1. PICK n \in Node : /\ done[n] = "absent" /\ done' = [done EXCEPT ![n] = "nil"]
    BY MakeJobIs DEF Shape
  <1>2. result' = result /\ wk' = wk /\ mtime' = mtime
    BY DEF MakeJob, files, history
  <1>3. done \in [Node -> {"absent", "nil", "job"}]
    BY DEF Shape, TypeOK
  <1>4. done'[n] # "absent" /\ \A m \in Node : m # n => done'[m] = done[m]
    BY <1>1, <1>3
  <1>5. Apart(result, wk, done, n) /\ Apart(result', wk', done', n)
    <2>1. Apart(result, wk, done, n)
      BY CasesApart
    <2> QED BY <1>2, <1>4, <2>1 DEF Apart
  <1>6. StateIn(result, wk, done)[n] = "idle" /\ result[n] = "none" /\ ~RunningIn(wk, n)
    BY <1>1, <1>5, StateAt DEF Apart
  <1>7. StateIn(result', wk', done')[n] = "begun"
    BY <1>2, <1>4, <1>5, <1>6, StateAt
  <1>8. StateIn(result', wk', done') = [StateIn(result, wk, done) EXCEPT ![n] = "begun"]
    BY <1>2, <1>4, <1>7, OneChanges
  <1>9. B!Begin(n)
    BY <1>6, <1>8, BuildStateIs, BuildStateNext DEF B!Begin, B!Become
  <1>10. There' = There /\ There \subseteq Node
    BY <1>2 DEF There, Exists
  <1> QED BY <1>9, <1>10 DEF B!Next

\* A worker starts the commands of its job, or finishes with it.
LEMMA WorkSimulates ==
    ASSUME TreeInv, MetFirst, [Next]_vars, NEW w \in Worker, Build(w) \/ Run(w)
    PROVE  B!Next
  <1>1. PICK n \in Node : n = wk[w].job /\ result[n] = "none" /\ begun[n] > 0 /\ begun[n] \in Nat
    BY DEF Build, Run, Shape, TypeOK, HeldIsJob, Holding, TreeInv, Finishing, Results, Waiting, HeldOnce
  <1>2. /\ wk[w].at \in {"build", "run"} /\ Holding(w) /\ done' = done /\ done[n] # "absent"
    <2>1. wk[w].at \in {"build", "run"} /\ done' = done
      BY DEF Build, Run, goVars
    <2>2. begun[n] # 0
      BY <1>1
    <2> QED BY <1>1, <2>1, <2>2 DEF Holding, MetFirst
  <1>3. B!Ready(n)
    BY <1>1, <1>2, HeldIsReady DEF TreeInv, Finishing
  <1>4. Apart(result, wk, done, n) /\ wk \in [Worker -> Job]
        /\ result \in [Node -> {"none", "nothing", "built", "error"}]
    BY CasesApart DEF TreeInv, Finishing, Shape, TypeOK, Job
  <1>5. There \subseteq There' /\ There' \subseteq Node
    BY ExistsStep DEF There, TreeInv
  <1>6. RunningIn(wk, n) <=> wk[w].at = "run"
    BY <1>1, <1>2 DEF RunningIn, TreeInv, Waiting, HeldOnce, Holding
  <1>7. StateIn(result, wk, done)[n] = IF wk[w].at = "run" THEN "working" ELSE "begun"
    BY <1>1, <1>2, <1>4, <1>6, StateAt
  <1>8. CASE wk' = [wk EXCEPT ![w].at = "run"] /\ result' = result
    <2>1. wk'[w].at = "run" /\ wk'[w].job = n /\ \A v \in Worker : v # w => wk'[v] = wk[v]
      BY <1>1, <1>4, <1>8 DEF Job
    <2>2. /\ \A m \in Node : m # n => (RunningIn(wk', m) <=> RunningIn(wk, m))
          /\ RunningIn(wk', n)
      BY <1>1, <1>2, <2>1, OneRuns DEF TreeInv, Waiting
    <2>3. Apart(result', wk', done', n)
      BY <1>1, <1>2, <1>8 DEF Apart
    <2>4. StateIn(result', wk', done')[n] = "working"
      BY <2>2, <2>3, StateAt
    <2>5. StateIn(result', wk', done') = [StateIn(result, wk, done) EXCEPT ![n] = "working"]
      BY <1>2, <1>8, <2>2, <2>4, OneChanges
    <2>6. wk[w].at = "build"
      <3>1. Build(w) \/ Run(w)
        OBVIOUS
      <3>2. CASE Run(w)
        <4>1. \E r \in {"built", "error"} : Ended(w, r)
          BY <3>2 DEF Run
        <4>2. result'[n] # "none"
          BY <1>1, <1>4, <4>1 DEF Ended
        <4> QED BY <1>1, <1>8, <4>2
      <3> QED BY <3>1, <3>2 DEF Build
    <2>7. B!Work(n)
      BY <1>3, <1>7, <2>5, <2>6, BuildStateIs, BuildStateNext DEF B!Work, B!Become
    <2> QED BY <1>5, <2>7 DEF B!Next
  <1>9. ASSUME NEW r \in {"nothing", "built", "error"}, Ended(w, r)
        PROVE  B!Next
    <2>1. wk'[w].at = "report" /\ wk'[w].job = n /\ \A v \in Worker : v # w => wk'[v] = wk[v]
      BY <1>1, <1>4, <1>9 DEF Job, Ended
    <2>2. /\ \A m \in Node : m # n => (RunningIn(wk', m) <=> RunningIn(wk, m))
          /\ ~RunningIn(wk', n)
      BY <1>1, <1>2, <2>1, OneRuns DEF TreeInv, Waiting
    <2>3. result'[n] = r /\ \A m \in Node : m # n => result'[m] = result[m]
      BY <1>1, <1>4, <1>9 DEF Ended
    <2>4. Apart(result', wk', done', n)
      BY <1>2, <2>2, <2>3 DEF Apart
    <2>5. PICK x : x = IF r = "error" THEN "failed" ELSE "made"
      OBVIOUS
    <2>6. StateIn(result', wk', done')[n] = x
      BY <2>3, <2>4, <2>5, StateAt
    <2>7. StateIn(result', wk', done') = [StateIn(result, wk, done) EXCEPT ![n] = x]
      BY <1>2, <2>2, <2>3, <2>6, OneChanges
    <2>8. B!Make(n) \/ B!Fail(n)
      BY <1>3, <1>7, <2>5, <2>7, BuildStateIs, BuildStateNext DEF B!Make, B!Fail, B!Become
    <2> QED BY <1>5, <2>8 DEF B!Next
  <1> QED BY <1>8, <1>9, WorkerIs DEF TreeInv

\* Any other step is a stutter.
LEMMA OtherSimulates ==
    ASSUME Shape, [Next]_vars, ~MakeJob, \A w \in Worker : ~Build(w) /\ ~Run(w)
    PROVE  UNCHANGED <<BuildState, There>>
  <1>1. result' = result /\ mtime' = mtime
    BY DEF Next, Main, Manager, Work, ReadNumDeps, WriteNumDeps, GoalDone, ReportNewDepStopped,
       PostJobStopped, AllPosted, PostJob, NewDep, Wait, Handled, LoopEnds, AllJoined, JobResult,
       Dispatch, Join, ReportStopped, vars, files, history
  <1>2. \A n \in Node : done'[n] = "absent" <=> done[n] = "absent"
    <2>1. CASE done' = done
      BY <2>1
    <2>2. CASE PostJob
      <3>1. Top.job # Nil /\ Making /\ done' = [done EXCEPT ![Top.job] = "job"]
        BY <2>2 DEF PostJob, Making
      <3>2. PICK k \in Nat : k = Len(stack) /\ k > 1 /\ Top = stack[k] /\ k \in 2 .. k
        BY <3>1, TopIs, TopIsJob DEF Shape, Top
      <3>3. PICK p \in Node : p = Top.job /\ done[p] = "nil"
        BY <3>1, <3>2, CallJobs
      <3>4. done \in [Node -> {"absent", "nil", "job"}]
        BY DEF Shape, TypeOK
      <3> QED BY <3>1, <3>3, <3>4
    <2> QED BY <2>1, <2>2 DEF Next, Main, Manager, Work, ReadNumDeps, WriteNumDeps, GoalDone,
       ReportNewDepStopped, PostJobStopped, AllPosted, NewDep, Wait, Handled, LoopEnds, AllJoined,
       JobResult, Dispatch, Join, ReportStopped, vars, goVars
  <1>3. \A n \in Node : RunningIn(wk', n) <=> RunningIn(wk, n)
    <2>1. CASE wk' = wk
      BY <2>1
    <2>2. ASSUME NEW w \in Worker, JobResult(w) \/ Dispatch(w) \/ Join(w) \/ ReportStopped(w)
          PROVE  \A n \in Node : RunningIn(wk', n) <=> RunningIn(wk, n)
      <3>1. wk \in [Worker -> Job]
        BY DEF Shape, TypeOK, Job
      <3>2. wk[w].at # "run" /\ wk'[w].at # "run" /\ \A v \in Worker : v # w => wk'[v] = wk[v]
        <4>1. CASE Dispatch(w)
          BY <3>1, <4>1 DEF Dispatch
        <4>2. CASE JobResult(w) \/ Join(w) \/ ReportStopped(w)
          BY <3>1, <4>2 DEF JobResult, Join, ReportStopped, Job
        <4> QED BY <2>2, <4>1, <4>2
      <3> QED BY <3>2 DEF RunningIn
    <2> QED BY <2>1, <2>2 DEF Next, Main, Manager, Work, ReadNumDeps, WriteNumDeps, GoalDone,
       ReportNewDepStopped, PostJobStopped, AllPosted, PostJob, NewDep, Wait, Handled, LoopEnds,
       AllJoined, vars
  <1>4. BuildState' = BuildState
    BY <1>1, <1>2, <1>3, NoneChanges, BuildStateIs, BuildStateNext
  <1>5. There' = There
    BY <1>1 DEF There, Exists
  <1> QED BY <1>4, <1>5

\* If no target is needed twice the three goroutines implement Build: a job
\* is begun once, its commands start and it is made, or fails, only after
\* all that it depends on was made, although main posts jobs while workers
\* run others and results come in any order.
THEOREM TreeImplementsBuild == Tree /\ Spec => Implements
  <1> SUFFICES ASSUME Tree
               PROVE  Spec => Implements
    OBVIOUS
  <1>1. Init => TreeInv /\ MetFirst
    BY TreeInit DEF Init, MetFirst
  <1>2. TreeInv /\ MetFirst /\ [Next]_vars => (TreeInv /\ MetFirst)'
    BY TreeStep, MetFirstStep DEF TreeInv
  <1>3. Init => B!Init
    <2> SUFFICES ASSUME Init PROVE B!Init
      OBVIOUS
    <2>1. \A n \in Node : Apart(result, wk, done, n) /\ done[n] = "absent"
      BY <1>1, CasesApart DEF TreeInv, Finishing, Init
    <2>2. \A n \in Node : StateIn(result, wk, done)[n] = "idle"
      BY <2>1, StateAt
    <2>3. BuildState = [n \in Node |-> BuildState[n]]
      BY DEF BuildState
    <2>4. BuildState = [n \in Node |-> "idle"]
      BY <2>2, <2>3, BuildStateIs
    <2> QED BY <2>4 DEF B!Init, There
  <1>4. TreeInv /\ MetFirst /\ (TreeInv /\ MetFirst)' /\ [Next]_vars => [B!Next]_<<BuildState, There>>
    <2> SUFFICES ASSUME TreeInv, MetFirst, TreeInv', MetFirst', [Next]_vars
                 PROVE  [B!Next]_<<BuildState, There>>
      OBVIOUS
    <2>1. CASE MakeJob
      BY <2>1, MakeJobSimulates DEF TreeInv, Finishing
    <2>2. CASE \E w \in Worker : Build(w) \/ Run(w)
      BY <2>2, WorkSimulates
    <2>3. CASE ~MakeJob /\ \A w \in Worker : ~Build(w) /\ ~Run(w)
      BY <2>3, OtherSimulates DEF TreeInv
    <2> QED BY <2>1, <2>2, <2>3
  <1> QED BY <1>1, <1>2, <1>3, <1>4, PTL DEF Spec, Implements, B!Spec
=============================================================================
