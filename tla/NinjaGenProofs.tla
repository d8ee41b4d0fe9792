--------------------------- MODULE NinjaGenProofs ---------------------------
(***************************************************************************)
(* A theorem about NinjaGen: ninja accepts the file, for every Makefile in *)
(* which no two rules compete for an implicit output or for the second     *)
(* target of a pattern rule, and whose goals have build statements.        *)
(***************************************************************************)
EXTENDS NinjaGen, DepBuilderProofs, FiniteSetTheorems, WellFoundedInduction

-----------------------------------------------------------------------------
(* The steps up to the graph.                                              *)

\* A goal, or the first rule's target, is still to be done, or is among the
\* roots, and nothing else is.
Rooted(rs) == {e[1] : e \in Range(rs)}
Targets(m) == IF m.goals = << >> /\ FirstRule(m) # << >> THEN {FirstRule(m)} ELSE Range(m.goals)
RootsRight ==
    /\ mk \in Makefiles /\ IsSeq(goals)
    /\ Rooted(roots) \cup Range(goals) = Targets(mk)
    /\ stack # << >> \/ ret # << >> => goals # << >>
    /\ status # "error" => FirstRule(mk) # << >>

\* But for the second targets of pattern rules, there are finitely many names.
FiniteRight ==
    \E F : /\ IsFiniteSet(F)
          /\ \A t \in DOMAIN done : t \in F \/ \E n \in Nodes : t \in node[n].siblings

\* The generator starts when the graph is made.
Working == {"run", "error"}
Generating == {"ok", "populate", "emit", "done"}
PhaseRight ==
    /\ status \in Working \cup Generating
    /\ status \in Generating => stack = << >> /\ ret = << >> /\ goals = << >>
    /\ status \in Working \cup {"ok"} => pending = << >> /\ populated = {} /\ nodes = << >>
    /\ status # "populate" => pending = << >>
    /\ status = "done" => nodes = << >>
    /\ status \notin {"emit", "done"} => builds = << >> /\ default = << >>

-----------------------------------------------------------------------------
(* The generator, for a graph that is right.                               *)

\* The nodes that are to be written: each once, with a rule id of its own.
QueueRight ==
    /\ pending \in Seq(Nodes) /\ nodes \in Seq(Nodes \X Int)
    /\ \A i \in DOMAIN nodes : Visited(nodes[i][1]) /\ ~Omitted(nodes[i][1])
    /\ \A i, j \in DOMAIN nodes : i # j => nodes[i][1] # nodes[j][1]
    /\ \A i, j \in DOMAIN nodes : i # j => nodes[i][2] = -1 \/ nodes[i][2] # nodes[j][2]
    /\ status = "populate" => \A i \in DOMAIN nodes : nodes[i][2] < RuleId

\* A statement is that of one node, which is not written again.
Always == <<"_kati_always_build_">>
EdgeNames(x) == {e[1] : e \in EdgesOf(x)}
IsFor(b, x) ==
    /\ b.outs = <<x.output>> \o x.implicit
    /\ EdgeNames(x) \subseteq NeededBy(b) /\ NeededBy(b) \subseteq EdgeNames(x) \cup {Always}
BuildsRight ==
    /\ IsSeq(builds)
    /\ \A i \in DOMAIN builds : \E n \in Nodes : IsFor(builds[i], node[n]) /\ ~Omitted(n)
    /\ \A i \in DOMAIN builds : \A n \in Nodes : IsFor(builds[i], node[n]) => \A j \in DOMAIN nodes : nodes[j][1] # n
    /\ \A i, j \in DOMAIN builds : \A n \in Nodes : IsFor(builds[i], node[n]) /\ IsFor(builds[j], node[n]) => i = j
    /\ \A i, j \in DOMAIN builds : i # j => builds[i].rule = -1 \/ builds[i].rule # builds[j].rule
    /\ \A i \in DOMAIN builds : \A j \in DOMAIN nodes : nodes[j][2] = -1 \/ builds[i].rule # nodes[j][2]

\* No node is lost: a root is visited, and what a visited node needs, and
\* what is visited is written.
NoneLost ==
    /\ status = "populate" => \A e \in Range(roots) : e[2] \in Range(pending) \/ Visited(e[2])
    /\ status \in {"emit", "done"} => \A e \in Range(roots) : Visited(e[2])
    /\ \A n \in Nodes : Visited(n) /\ ~Omitted(n) =>
          \A e \in EdgesOf(node[n]) : e[2] \in Range(pending) \/ Visited(e[2])
    /\ \A n \in Nodes : Visited(n) =>
          \/ Omitted(n)
          \/ \E j \in DOMAIN nodes : nodes[j][1] = n
          \/ status \in {"emit", "done"} /\ IsSpecialTarget(node[n].output)
          \/ \E i \in DOMAIN builds : IsFor(builds[i], node[n])

\* The default target is the first rule's.
IsDefault(d, b) == d = <<b.outs[1]>> /\ b.outs[1] = FirstRule(mk)
DefaultRight ==
    /\ status = "emit" /\ default # << >> => \E i \in DOMAIN builds : IsDefault(default, builds[i])
    /\ status = "done" =>
          IF mk.goals = << >> THEN \E i \in DOMAIN builds : IsDefault(default, builds[i])
          ELSE default = mk.goals

GenInv ==
    status # "error" /\ Unmatched /\ SiblingsFree => QueueRight /\ BuildsRight /\ NoneLost /\ DefaultRight

\* A target that has no statement by itself: a special target, and the
\* directory out in Android.
Unwritten(t) == IsSpecialTarget(t) \/ ("android_echo" \in mk.flags /\ t = <<"out">>)

\* No goal is such a target, or made with one, or the second target of a
\* pattern rule that was chosen for the first.
GoalsPlain ==
    \A t \in Range(mk.goals) :
        /\ \A p \in {t} \cup Parents(mk, t) : ~Unwritten(p)
        /\ \A n \in Nodes : t \notin node[n].siblings

\* No target of the graph is such a target, or has the name of the statement
\* that is always built.
GraphPlain == Always \notin DOMAIN done /\ \A n \in Nodes : ~Unwritten(node[n].output)

-----------------------------------------------------------------------------
(* Sequences.                                                              *)

\* A sequence with one more element in front.
LEMMA ConsIs ==
    ASSUME NEW x, NEW s, IsSeq(s)
    PROVE  /\ IsSeq(<<x>> \o s) /\ (<<x>> \o s)[1] = x /\ 1 \in DOMAIN (<<x>> \o s)
           /\ Range(<<x>> \o s) = {x} \cup Range(s)
  <1>1. PICK S : s \in Seq(S)
    BY DEF IsSeq
  <1>2. s \in Seq(S \cup {x}) /\ <<x>> \in Seq(S \cup {x})
    BY <1>1
  <1>3. PICK a : a = <<x>> \o s
    OBVIOUS
  <1>4. /\ a \in Seq(S \cup {x}) /\ Len(s) \in Nat /\ Len(a) = Len(s) + 1 /\ a[1] = x
        /\ DOMAIN s = 1 .. Len(s) /\ DOMAIN a = 1 .. Len(s) + 1
        /\ \A i \in 1 .. Len(s) : a[i + 1] = s[i]
    BY <1>2, <1>3
  <1>5. IsSeq(a)
    <2>1. a = [i \in 1 .. Len(a) |-> a[i]] /\ Len(a) \in Nat
      BY <1>4
    <2> QED BY <2>1, FunctionIsSeq
  <1>6. Range(a) = {x} \cup Range(s)
    <2>1. ASSUME NEW y \in Range(a) PROVE y \in {x} \cup Range(s)
      <3>1. PICK i \in 1 .. Len(s) + 1 : y = a[i]
        BY <1>4 DEF Range
      <3>2. CASE i = 1
        BY <1>4, <3>1, <3>2
      <3>3. CASE i # 1
        <4>1. i - 1 \in 1 .. Len(s) /\ a[i - 1 + 1] = s[i - 1] /\ i - 1 + 1 = i
          BY <1>4, <3>3
        <4> QED BY <1>4, <3>1, <4>1 DEF Range
      <3> QED BY <3>2, <3>3
    <2>2. ASSUME NEW y \in Range(s) PROVE y \in Range(a)
      <3>1. PICK i \in 1 .. Len(s) : y = s[i]
        BY <1>4 DEF Range
      <3>2. a[i + 1] = y /\ i + 1 \in DOMAIN a
        BY <1>4, <3>1
      <3> QED BY <3>2 DEF Range
    <2>3. x \in Range(a)
      <3>1. 1 \in DOMAIN a
        BY <1>4
      <3> QED BY <1>4, <3>1 DEF Range
    <2> QED BY <2>1, <2>2, <2>3
  <1>7. 1 \in DOMAIN a
    BY <1>4
  <1> QED BY <1>3, <1>4, <1>5, <1>6, <1>7

\* The first element of a sequence, and the rest.
LEMMA TailIs ==
    ASSUME NEW s, IsSeq(s), s # << >>
    PROVE  /\ IsSeq(Tail(s)) /\ Len(Tail(s)) = Len(s) - 1 /\ 1 \in DOMAIN s /\ Head(s) = s[1]
           /\ \A i \in DOMAIN Tail(s) : i + 1 \in DOMAIN s /\ i + 1 # 1 /\ Tail(s)[i] = s[i + 1] /\ i \in Nat
           /\ Range(s) = {Head(s)} \cup Range(Tail(s))
  <1>1. PICK S : s \in Seq(S)
    BY DEF IsSeq
  <1>2. PICK a : a = Tail(s)
    OBVIOUS
  <1>3. /\ a \in Seq(S) /\ Len(s) \in Nat /\ Len(s) > 0 /\ Len(a) = Len(s) - 1 /\ Head(s) = s[1]
        /\ DOMAIN s = 1 .. Len(s) /\ DOMAIN a = 1 .. Len(s) - 1
        /\ \A i \in 1 .. Len(s) - 1 : a[i] = s[i + 1]
    BY <1>1, <1>2
  <1>4. IsSeq(a)
    <2>1. a = [i \in 1 .. Len(a) |-> a[i]] /\ Len(a) \in Nat
      BY <1>3
    <2> QED BY <2>1, FunctionIsSeq
  <1>5. \A i \in DOMAIN a : i + 1 \in DOMAIN s /\ i + 1 # 1 /\ a[i] = s[i + 1] /\ i \in Nat
    BY <1>3
  <1>6. Range(s) = {s[1]} \cup Range(a)
    <2>1. ASSUME NEW y \in Range(s) PROVE y \in {s[1]} \cup Range(a)
      <3>1. PICK i \in 1 .. Len(s) : y = s[i]
        BY <1>3 DEF Range
      <3>2. CASE i = 1
        BY <3>1, <3>2
      <3>3. CASE i # 1
        <4>1. i - 1 \in 1 .. Len(s) - 1 /\ i - 1 + 1 = i
          BY <1>3, <3>3
        <4>2. a[i - 1] = s[i]
          BY <1>3, <4>1
        <4> QED BY <1>3, <3>1, <4>1, <4>2 DEF Range
      <3> QED BY <3>2, <3>3
    <2>2. ASSUME NEW y \in Range(a) PROVE y \in Range(s)
      <3>1. PICK i \in DOMAIN a : y = a[i]
        BY DEF Range
      <3> QED BY <1>5, <3>1 DEF Range
    <2>3. s[1] \in Range(s)
      <3>1. 1 \in DOMAIN s
        BY <1>3
      <3> QED BY <3>1 DEF Range
    <2> QED BY <2>1, <2>2, <2>3
  <1>7. 1 \in DOMAIN s
    BY <1>3
  <1> QED BY <1>2, <1>3, <1>4, <1>5, <1>6, <1>7

\* A concatenation, and what is in it.
LEMMA ConcatIs ==
    ASSUME NEW S, NEW s \in Seq(S), NEW t \in Seq(S)
    PROVE  s \o t \in Seq(S) /\ Range(s \o t) = Range(s) \cup Range(t)
  <1>1. PICK a : a = s \o t
    OBVIOUS
  <1>2. /\ a \in Seq(S) /\ Len(s) \in Nat /\ Len(t) \in Nat /\ Len(a) = Len(s) + Len(t)
        /\ DOMAIN s = 1 .. Len(s) /\ DOMAIN t = 1 .. Len(t) /\ DOMAIN a = 1 .. Len(s) + Len(t)
        /\ \A i \in 1 .. Len(s) : a[i] = s[i]
        /\ \A i \in 1 .. Len(t) : a[Len(s) + i] = t[i]
    BY <1>1
  <1>3. ASSUME NEW y \in Range(t) PROVE y \in Range(a)
    <2>1. PICK i \in 1 .. Len(t) : y = t[i]
      BY <1>2 DEF Range
    <2>2. Len(s) + i \in DOMAIN a /\ a[Len(s) + i] = y
      BY <1>2, <2>1
    <2> QED BY <2>2 DEF Range
  <1>4. ASSUME NEW y \in Range(s) PROVE y \in Range(a)
    <2>1. PICK i \in 1 .. Len(s) : y = s[i]
      BY <1>2 DEF Range
    <2>2. i \in DOMAIN a /\ a[i] = y
      BY <1>2, <2>1
    <2> QED BY <2>2 DEF Range
  <1>5. ASSUME NEW y \in Range(a) PROVE y \in Range(s) \cup Range(t)
    <2>1. PICK i \in 1 .. Len(s) + Len(t) : y = a[i]
      BY <1>2 DEF Range
    <2>2. CASE i \in 1 .. Len(s)
      BY <1>2, <2>1, <2>2 DEF Range
    <2>3. CASE i \notin 1 .. Len(s)
      <3>1. i - Len(s) \in 1 .. Len(t) /\ Len(s) + (i - Len(s)) = i
        BY <1>2, <2>3
      <3>2. a[i] = t[i - Len(s)]
        BY <1>2, <3>1
      <3> QED BY <1>2, <2>1, <3>1, <3>2 DEF Range
    <2> QED BY <2>2, <2>3
  <1> QED BY <1>1, <1>2, <1>3, <1>4, <1>5

\* A sequence over a set is a sequence.
LEMMA OverSet ==
    ASSUME NEW S, NEW s \in Seq(S)
    PROVE  IsSeq(s) /\ Range(s) \subseteq S
  <1>1. Len(s) \in Nat /\ s = [i \in 1 .. Len(s) |-> s[i]] /\ DOMAIN s = 1 .. Len(s)
    OBVIOUS
  <1>2. IsSeq(s)
    BY <1>1, FunctionIsSeq
  <1> QED BY <1>1, <1>2 DEF Range

-----------------------------------------------------------------------------
(* The steps up to the graph.                                              *)

\* Only ReturnRoot changes the goals and the roots.
LEMMA RootsStep == ASSUME Shape, RootsRight, [Next]_vars PROVE RootsRight'
  <1>1. mk' = mk /\ (status' # "error" => status # "error")
    BY StepKeeps
  <1>2. CASE ReturnRoot
    <2>1. /\ roots' = Append(roots, <<Head(goals), ret[1]>>) /\ goals' = Tail(goals)
          /\ ret # << >> /\ stack' = << >> /\ ret' = << >>
      BY <1>2 DEF ReturnRoot
    <2>2. Range(roots') = Range(roots) \cup {<<Head(goals), ret[1]>>}
      BY <2>1, AppendIs DEF Shape
    <2>3. Rooted(roots') = Rooted(roots) \cup {Head(goals)}
      <3>1. PICK r : r = <<Head(goals), ret[1]>>
        OBVIOUS
      <3>2. r[1] = Head(goals) /\ Range(roots') = Range(roots) \cup {r}
        BY <2>2, <3>1
      <3>3. ASSUME NEW t PROVE t \in Rooted(roots') <=> t \in Rooted(roots) \/ t = r[1]
        BY <3>2 DEF Rooted
      <3> QED BY <3>2, <3>3
    <2>4. goals # << >>
      BY <2>1 DEF RootsRight
    <2>5. IsSeq(goals') /\ Range(goals) = {Head(goals)} \cup Range(goals')
      BY <2>1, <2>4, TailIs DEF RootsRight
    <2> QED BY <1>1, <2>1, <2>3, <2>5 DEF RootsRight
  <1>3. CASE ~ReturnRoot
    <2>1. goals' = goals /\ roots' = roots
      BY <1>3 DEF Next, BuildPlan, FoundDone, InputKnown, InputPlanned, Chosen, NoneLeft, NoRule, PickParent,
                  FillDepNode, Fill, AddDep, ReturnNode, Finish, Ended, vars
    <2>2. stack' # << >> \/ ret' # << >> => stack # << >> \/ ret # << >> \/ goals # << >>
      <3>1. CASE BuildPlan \/ FoundDone
        BY <3>1 DEF BuildPlan, FoundDone, Calling, Probing
      <3>2. CASE InputKnown \/ InputPlanned \/ Chosen \/ NoneLeft \/ NoRule \/ PickParent \/ FillDepNode \/ AddDep
                 \/ ReturnNode
        BY <3>2 DEF InputKnown, Probing, InputPlanned, Returned, Chosen, NoneLeft, NoRule, Ready, PickParent, Picked,
                    FillDepNode, AddDep, ReturnNode
      <3>3. CASE Finish \/ Ended \/ UNCHANGED vars
        BY <3>3 DEF Finish, Ended, vars
      <3> QED BY <1>3, <3>1, <3>2, <3>3 DEF Next
    <2> QED BY <1>1, <2>1, <2>2 DEF RootsRight
  <1> QED BY <1>2, <1>3

\* At first no goal is done.
LEMMA RootsInit == Init => RootsRight
  <1> SUFFICES ASSUME Init PROVE RootsRight
    OBVIOUS
  <1>1. /\ mk \in Makefiles /\ stack = << >> /\ ret = << >> /\ roots = << >>
        /\ status # "error" => FirstRule(mk) # << >>
    BY DEF Init
  <1>2. IsSeq(mk.goals)
    BY <1>1, MakefilesAssumption DEF IsSeq
  <1>3. Rooted(roots) = {}
    BY <1>1 DEF Rooted, Range
  <1>4. CASE ~(mk.goals = << >> /\ FirstRule(mk) # << >>)
    <2>1. goals = mk.goals /\ Targets(mk) = Range(mk.goals)
      BY <1>4 DEF Init, Targets
    <2> QED BY <1>1, <1>2, <1>3, <2>1 DEF RootsRight
  <1>5. CASE mk.goals = << >> /\ FirstRule(mk) # << >>
    <2>1. goals = <<FirstRule(mk)>> /\ Targets(mk) = {FirstRule(mk)}
      BY <1>5 DEF Init, Targets
    <2>2. IsSeq(goals)
      <3>1. goals = [i \in 1 .. 1 |-> goals[i]] /\ 1 \in Nat
        BY <2>1
      <3> QED BY <3>1, FunctionIsSeq
    <2>3. Range(goals) = {FirstRule(mk)}
      BY <2>1 DEF Range
    <2> QED BY <1>1, <1>3, <2>1, <2>2, <2>3 DEF RootsRight
  <1> QED BY <1>4, <1>5

\* A goal is still to be done, or is among the roots.
LEMMA GoalsRooted == ASSUME RootsRight PROVE Range(mk.goals) \subseteq Rooted(roots) \cup Range(goals)
  <1>1. Range(<< >>) = {}
    BY DEF Range
  <1> QED BY <1>1 DEF RootsRight, Targets

-----------------------------------------------------------------------------
(* There are finitely many names.                                          *)

\* The elements of a sequence.
LEMMA RangeFinite == ASSUME NEW s, IsSeq(s) PROVE IsFiniteSet(Range(s))
  <1>1. Len(s) \in Nat /\ DOMAIN s = 1 .. Len(s)
    BY SeqIs
  <1>2. \A y \in Range(s) : \E i \in 1 .. Len(s) : s[i] = y
    BY <1>1 DEF Range
  <1> QED BY <1>2 DEF IsSeq, IsFiniteSet

\* The implicit outputs of a target are a sequence.
LEMMA ImplicitSeq == ASSUME RootsRight, NEW p PROVE IsSeq(ImplicitOutputs(mk, p))
  <1>1. mk \in Makefiles
    BY DEF RootsRight
  <1>2. p \in DOMAIN mk.implicit => IsSeq(mk.implicit[p])
    BY <1>1, MakefilesAssumption DEF IsSeq
  <1>3. IsSeq(<< >>)
    BY DEF IsSeq
  <1> QED BY <1>2, <1>3 DEF ImplicitOutputs, Words

\* A step adds finitely many names, and second targets.
LEMMA FiniteStep == ASSUME Shape, RootsRight, FiniteRight, [Next]_vars PROVE FiniteRight'
  <1>1. PICK F : IsFiniteSet(F) /\ \A t \in DOMAIN done : t \in F \/ \E n \in Nodes : t \in node[n].siblings
    BY DEF FiniteRight
  <1>2. ASSUME NEW G, IsFiniteSet(G),
               \A t \in DOMAIN done' : t \in DOMAIN done \/ t \in G \/ \E n \in Nodes' : t \in node'[n].siblings
        PROVE  FiniteRight'
    <2>1. PICK H : H = F \cup G
      OBVIOUS
    <2>2. IsFiniteSet(H)
      BY <1>1, <1>2, <2>1, FS_Union
    <2>3. ASSUME NEW t \in DOMAIN done' PROVE t \in H \/ \E n \in Nodes' : t \in node'[n].siblings
      BY <1>1, <1>2, <2>1, SiblingsKept
    <2> QED BY <2>2, <2>3 DEF FiniteRight
  <1>3. \A x : IsFiniteSet({x})
    BY FS_Singleton
  <1>4. ASSUME NEW x, DOMAIN done' \subseteq DOMAIN done \cup {x} PROVE FiniteRight'
    BY <1>2, <1>3, <1>4
  <1>5. CASE BuildPlan
    BY <1>4, <1>5 DEF BuildPlan, Mark, Put
  <1>6. CASE PickParent
    BY <1>4, <1>6 DEF PickParent, Mark, Put
  <1>7. CASE Chosen
    <2>1. Top.node \in Nodes /\ NodeOk(node[Top.node])
      BY <1>7, TopIs DEF Chosen, Ready, Shape, TablesOk
    <2>2. PICK S : S = Siblings(Cand)
      OBVIOUS
    <2>3. node' = [node EXCEPT ![Top.node].siblings = @ \cup S] /\ done' = Put(done, S, Top.node)
      BY <1>7, <2>2 DEF Chosen
    <2>4. Top.node \in Nodes' /\ S \subseteq node'[Top.node].siblings /\ DOMAIN done' = DOMAIN done \cup S
      BY <2>1, <2>3 DEF Nodes, NodeOk, NodeFields, Put
    <2> QED BY <1>2, <1>3, <2>4
  <1>8. CASE FillDepNode
    <2>1. done' = Put(done, Range(ImplicitOutputs(mk, Top.out)), Top.node)
      BY <1>8, FillIs
    <2>2. IsFiniteSet(Range(ImplicitOutputs(mk, Top.out)))
      BY ImplicitSeq, RangeFinite
    <2> QED BY <1>2, <2>1, <2>2 DEF Put
  <1>9. CASE FoundDone \/ ReturnRoot \/ InputKnown \/ InputPlanned \/ NoneLeft \/ NoRule \/ AddDep \/ ReturnNode
             \/ Finish \/ Ended \/ UNCHANGED vars
    <2>1. done' = done
      BY <1>9 DEF FoundDone, ReturnRoot, InputKnown, InputPlanned, NoneLeft, NoRule, AddDep, ReturnNode, Finish,
                  Ended, vars
    <2> QED BY <1>2, <1>3, <2>1
  <1> QED BY <1>5, <1>6, <1>7, <1>8, <1>9 DEF Next

\* At first there is none.
LEMMA FiniteInit == Init => FiniteRight
  <1>1. Init => DOMAIN done = {}
    BY DEF Init
  <1>2. IsFiniteSet({})
    BY FS_EmptySet
  <1> QED BY <1>1, <1>2 DEF FiniteRight

\* A status of DepBuilder is followed by one; its calls have returned at "ok".
LEMMA StatusStep ==
    ASSUME Shape, status \in Working, Next
    PROVE  /\ status' \in Working \cup {"ok"}
           /\ status' = "ok" => stack' = << >> /\ ret' = << >> /\ goals' = << >>
  <1>1. CASE Finish
    BY <1>1 DEF Finish
  <1>2. CASE ~Finish
    <2>1. status' = status \/ status' = "error"
      BY <1>2 DEF Next, BuildPlan, FoundDone, ReturnRoot, InputKnown, InputPlanned, Chosen, NoneLeft, NoRule,
                  PickParent, FillDepNode, Fill, AddDep, ReturnNode, Ended, vars
    <2> QED BY <2>1 DEF Working
  <1> QED BY <1>1, <1>2

\* The graph does not change while it is written.
LEMMA PlanKept ==
    ASSUME Shape, PlanInv, GraphInv, OpenRight, RootsRight, FiniteRight, UNCHANGED plan,
           status \in Generating, status' \in Generating \ {"ok"}
    PROVE  Shape' /\ PlanInv' /\ GraphInv' /\ OpenRight' /\ RootsRight' /\ FiniteRight'
  <1>1. /\ mk' = mk /\ goals' = goals /\ roots' = roots /\ stack' = stack /\ ret' = ret /\ done' = done
        /\ node' = node /\ needed' = needed
    BY DEF plan
  <1>2. status # "error" /\ status' # "error" /\ status' # "ok"
    BY DEF Generating
  <1>3. Shape'
    BY <1>1, <1>2 DEF Shape, TablesOk, RetOk, StatusOk, Nodes
  <1>4. PlanInv'
    BY <1>1, <1>2 DEF PlanInv, Unmatched, CallsRight, Top
  <1>5. GraphInv'
    <2>1. Unmatched' /\ SiblingsFree' => GraphRight
      BY <1>1, <1>2 DEF GraphInv, Unmatched, SiblingsFree, Nodes
    <2>2. GraphRight => GraphRight'
      BY <1>1 DEF GraphRight, OutputsRight, FilledRight, TurningRight, DoneRight, EdgesOk, CallsMatch, Nodes
    <2> QED BY <2>1, <2>2 DEF GraphInv
  <1>6. OpenRight' /\ FiniteRight'
    BY <1>1 DEF OpenRight, FiniteRight, Nodes
  <1>7. RootsRight'
    BY <1>1, <1>2 DEF RootsRight
  <1> QED BY <1>3, <1>4, <1>5, <1>6, <1>7

\* The phases follow each other.
LEMMA PhaseStep ==
    ASSUME Shape, PhaseRight, GNext \/ UNCHANGED <<vars, gvars>>
    PROVE  PhaseRight'
  <1>1. CASE status \in {"run", "error"} /\ Next /\ UNCHANGED gvars
    <2>1. /\ status' \in Working \cup {"ok"}
          /\ status' = "ok" => stack' = << >> /\ ret' = << >> /\ goals' = << >>
      BY <1>1, StatusStep DEF Working
    <2> QED BY <1>1, <2>1 DEF PhaseRight, Working, Generating, gvars
  <1>2. CASE Generate
    BY <1>2 DEF Generate, PhaseRight, Working, Generating, plan
  <1>3. CASE PopulateNinjaNode
    BY <1>3 DEF PopulateNinjaNode, PhaseRight, Working, Generating, vars
  <1>4. CASE GenerateNinja
    BY <1>4 DEF GenerateNinja, PhaseRight, Working, Generating, plan, gvars
  <1>5. CASE EmitNode
    BY <1>5 DEF EmitNode, PhaseRight, Working, Generating, vars
  <1>6. CASE EmitDefault
    BY <1>6 DEF EmitDefault, PhaseRight, Working, Generating, plan
  <1>7. CASE UNCHANGED <<vars, gvars>>
    BY <1>7 DEF PhaseRight, vars, gvars
  <1> QED BY <1>1, <1>2, <1>3, <1>4, <1>5, <1>6, <1>7 DEF GNext

-----------------------------------------------------------------------------
(* The graph that is written.                                              *)

\* The graph is ready.
GraphReady == Shape /\ OpenRight /\ RootsRight /\ GraphRight /\ stack = << >> /\ ~PopulateError(mk)

\* The second parts of edges.
LEMMA NodesOfIs ==
    ASSUME NEW s, IsSeq(s), NEW S, \A e \in Range(s) : e[2] \in S
    PROVE  NodesOf(s) \in Seq(S) /\ \A e \in Range(s) : e[2] \in Range(NodesOf(s))
  <1>1. Len(s) \in Nat /\ DOMAIN s = 1 .. Len(s)
    BY SeqIs
  <1>2. \A i \in 1 .. Len(s) : s[i][2] \in S
    BY <1>1 DEF Range
  <1>3. NodesOf(s) \in [1 .. Len(s) -> S]
    BY <1>1, <1>2 DEF NodesOf
  <1>4. NodesOf(s) \in Seq(S)
    BY <1>1, <1>3
  <1>5. ASSUME NEW e \in Range(s) PROVE e[2] \in Range(NodesOf(s))
    <2>1. PICK i \in DOMAIN s : e = s[i]
      BY DEF Range
    <2>2. DOMAIN NodesOf(s) = DOMAIN s /\ NodesOf(s)[i] = e[2]
      BY <2>1 DEF NodesOf
    <2> QED BY <2>1, <2>2 DEF Range
  <1> QED BY <1>4, <1>5

\* The children of a node are nodes.
LEMMA ChildrenIs ==
    ASSUME GraphReady, NEW n \in Nodes
    PROVE  Children(n) \in Seq(Nodes) /\ \A e \in EdgesOf(node[n]) : e[2] \in Range(Children(n)) /\ e[2] \in Nodes
  <1>1. NodeOk(node[n])
    BY DEF GraphReady, Shape, TablesOk
  <1>2. IsSeq(node[n].deps) /\ IsSeq(node[n].orders) /\ IsSeq(node[n].validations)
    BY <1>1 DEF NodeOk, EdgeFields
  <1>3. EdgesOf(node[n]) \subseteq NodeEdges(node)
    BY DEF NodeEdges, Nodes
  <1>4. \A e \in EdgesOf(node[n]) : e[2] \in Nodes
    BY <1>3 DEF EdgesIn, GraphReady, GraphRight, EdgesOk
  <1>5. PICK a, b, c : a = NodesOf(node[n].deps) /\ b = NodesOf(node[n].orders) /\ c = NodesOf(node[n].validations)
    OBVIOUS
  <1>6. a \in Seq(Nodes) /\ \A e \in Range(node[n].deps) : e[2] \in Range(a)
    BY <1>2, <1>4, <1>5, NodesOfIs DEF EdgesOf
  <1>7. b \in Seq(Nodes) /\ \A e \in Range(node[n].orders) : e[2] \in Range(b)
    BY <1>2, <1>4, <1>5, NodesOfIs DEF EdgesOf
  <1>8. c \in Seq(Nodes) /\ \A e \in Range(node[n].validations) : e[2] \in Range(c)
    BY <1>2, <1>4, <1>5, NodesOfIs DEF EdgesOf
  <1>9. PICK d : d = a \o b
    OBVIOUS
  <1>10. d \in Seq(Nodes) /\ Range(d) = Range(a) \cup Range(b)
    BY <1>6, <1>7, <1>9, ConcatIs
  <1>11. d \o c \in Seq(Nodes) /\ Range(d \o c) = Range(d) \cup Range(c) /\ Children(n) = d \o c
    <2>1. Children(n) = d \o c
      BY <1>5, <1>9 DEF Children
    <2> QED BY <1>8, <1>10, <2>1, ConcatIs
  <1> QED BY <1>4, <1>6, <1>7, <1>8, <1>10, <1>11 DEF EdgesOf

\* The roots are nodes.
LEMMA RootsAre ==
    ASSUME GraphReady
    PROVE  /\ NodesOf(roots) \in Seq(Nodes)
           /\ \A e \in Range(roots) : e[2] \in Nodes /\ RightFor(mk, e[1], node[e[2]])
           /\ \A e \in Range(roots) : e[2] \in Range(NodesOf(roots))
  <1>1. \A e \in Range(roots) : e[2] \in Nodes /\ RightFor(mk, e[1], node[e[2]])
    BY DEF EdgesIn, GraphReady, GraphRight, EdgesOk
  <1>2. IsSeq(roots)
    BY DEF GraphReady, Shape
  <1>3. /\ NodesOf(roots) \in Seq(Nodes)
        /\ \A e \in Range(roots) : e[2] \in Range(NodesOf(roots))
    BY <1>1, <1>2, NodesOfIs
  <1> QED BY <1>1, <1>3

\* The implicit outputs of a node are those of its output, or there are none.
LEMMA ImplicitAre ==
    ASSUME GraphReady, NEW n \in Nodes
    PROVE  /\ IsSeq(node[n].implicit)
           /\ \A o \in Range(node[n].implicit) : node[n].output \in Parents(mk, o)
  <1>1. ~Opening(stack, n)
    BY DEF Opening, GraphReady
  <1>2. node[n].implicit = ImplicitOutputs(mk, node[n].output) \/ node[n].implicit = << >>
    BY <1>1 DEF GraphReady, GraphRight, FilledRight
  <1>3. IsSeq(<< >>) /\ Range(<< >>) = {}
    BY DEF IsSeq, Range
  <1>4. PICK p : p = node[n].output
    OBVIOUS
  <1>5. IsSeq(ImplicitOutputs(mk, p))
    BY ImplicitSeq DEF GraphReady
  <1>6. ASSUME NEW o \in Range(ImplicitOutputs(mk, p)) PROVE p \in Parents(mk, o)
    BY <1>3 DEF Parents, ImplicitOutputs, Words
  <1> QED BY <1>2, <1>3, <1>4, <1>5, <1>6

\* The statement of a node has its outputs, and is of this node only.
LEMMA StatementIs ==
    ASSUME GraphReady, NEW n \in Nodes, NEW b, IsFor(b, node[n])
    PROVE  /\ Range(b.outs) = Outs(n) /\ b.outs[1] = node[n].output /\ b.outs[1] \in Range(b.outs)
           /\ \A m \in Nodes : IsFor(b, node[m]) => m = n
  <1>1. ASSUME NEW m \in Nodes, IsFor(b, node[m]) PROVE Range(b.outs) = Outs(m) /\ b.outs[1] = node[m].output
    <2>1. IsSeq(node[m].implicit)
      BY ImplicitAre
    <2>2. PICK s : s = node[m].implicit
      OBVIOUS
    <2>3. b.outs = <<node[m].output>> \o s
      BY <1>1, <2>2 DEF IsFor
    <2>4. b.outs[1] = node[m].output /\ Range(b.outs) = {node[m].output} \cup Range(s)
      BY <2>1, <2>2, <2>3, ConsIs
    <2> QED BY <2>2, <2>4 DEF Outs
  <1>2. Range(b.outs) = Outs(n) /\ b.outs[1] = node[n].output
    BY <1>1
  <1>3. b.outs[1] \in Range(b.outs)
    BY <1>2 DEF Outs
  <1>4. ASSUME NEW m \in Nodes, IsFor(b, node[m]) PROVE m = n
    BY <1>1, <1>2, <1>4 DEF GraphReady, GraphRight, OutputsRight
  <1> QED BY <1>2, <1>3, <1>4

\* What is visited is told by the output.
LEMMA OneOutput ==
    ASSUME GraphReady, NEW n \in Nodes, NEW m \in Nodes, node[n].output = node[m].output
    PROVE  n = m
  BY DEF GraphReady, GraphRight, OutputsRight

-----------------------------------------------------------------------------
(* PopulateNinjaNode.                                                      *)

\* Rule ids count the nodes that have one.
Numbered(ns) == {i \in DOMAIN ns : ns[i][2] >= 0}

\* The next id, before and after a node is added.
LEMMA RuleIdIs ==
    ASSUME NEW S, NEW ns \in Seq(S \X Int), NEW n \in S, NEW r \in Int
    PROVE  /\ Cardinality(Numbered(ns)) \in Nat
           /\ r < 0 => Cardinality(Numbered(Append(ns, <<n, r>>))) = Cardinality(Numbered(ns))
           /\ r >= 0 => Cardinality(Numbered(Append(ns, <<n, r>>))) = Cardinality(Numbered(ns)) + 1
  <1>1. PICK a : a = Append(ns, <<n, r>>)
    OBVIOUS
  <1>2. <<n, r>> \in S \X Int
    OBVIOUS
  <1>3. /\ a \in Seq(S \X Int) /\ Len(ns) \in Nat /\ DOMAIN ns = 1 .. Len(ns) /\ DOMAIN a = 1 .. Len(ns) + 1
        /\ \A i \in 1 .. Len(ns) : a[i] = ns[i]
        /\ a[Len(ns) + 1] = <<n, r>>
    BY <1>1, <1>2
  <1>4. IsFiniteSet(Numbered(ns)) /\ Cardinality(Numbered(ns)) \in Nat
    <2>1. IsFiniteSet(1 .. Len(ns))
      BY <1>3, FS_Interval
    <2>2. Numbered(ns) \subseteq 1 .. Len(ns)
      BY <1>3 DEF Numbered
    <2>3. IsFiniteSet(Numbered(ns))
      BY <2>1, <2>2, FS_Subset
    <2> QED BY <2>3, FS_CardinalityType
  <1>5. CASE r < 0
    <2>1. Numbered(a) = Numbered(ns)
      <3>1. ASSUME NEW i PROVE i \in Numbered(a) <=> i \in Numbered(ns)
        <4>1. i \in 1 .. Len(ns) + 1 <=> i \in 1 .. Len(ns) \/ i = Len(ns) + 1
          BY <1>3
        <4>2. a[Len(ns) + 1][2] = r /\ ~(r >= 0) /\ Len(ns) + 1 \notin 1 .. Len(ns)
          BY <1>3, <1>5
        <4> QED BY <1>3, <4>1, <4>2 DEF Numbered
      <3> QED BY <3>1
    <2> QED BY <1>1, <1>4, <1>5, <2>1
  <1>6. CASE r >= 0
    <2>1. Numbered(a) = Numbered(ns) \cup {Len(ns) + 1}
      <3>1. ASSUME NEW i PROVE i \in Numbered(a) <=> i \in Numbered(ns) \cup {Len(ns) + 1}
        <4>1. i \in 1 .. Len(ns) + 1 <=> i \in 1 .. Len(ns) \/ i = Len(ns) + 1
          BY <1>3
        <4>2. a[Len(ns) + 1][2] = r
          BY <1>3
        <4> QED BY <1>3, <1>6, <4>1, <4>2 DEF Numbered
      <3> QED BY <3>1
    <2>2. Len(ns) + 1 \notin Numbered(ns)
      BY <1>3 DEF Numbered
    <2>3. Cardinality(Numbered(a)) = Cardinality(Numbered(ns)) + 1
      BY <1>4, <2>1, <2>2, FS_AddElement
    <2> QED BY <1>1, <1>4, <1>6, <2>3
  <1> QED BY <1>4, <1>5, <1>6

\* A node is added to nodes_, with the next rule id or none.
LEMMA AddNode ==
    ASSUME GraphReady, QueueRight, status = "populate", NEW n \in Nodes, ~Visited(n), ~Omitted(n),
           nodes' = Append(nodes, <<n, IF node[n].cmds = << >> THEN -1 ELSE RuleId>>),
           populated' = populated \cup {node[n].output}, UNCHANGED <<mk, node, status>>, pending' \in Seq(Nodes)
    PROVE  /\ QueueRight'
           /\ \A k \in Nodes : (\E j \in DOMAIN nodes : nodes[j][1] = k) => \E j \in DOMAIN nodes' : nodes'[j][1] = k
           /\ \E j \in DOMAIN nodes' : nodes'[j][1] = n
  <1>1. PICK r : r = IF node[n].cmds = << >> THEN -1 ELSE RuleId
    OBVIOUS
  <1>2. RuleId = Cardinality(Numbered(nodes)) /\ RuleId' = Cardinality(Numbered(nodes'))
    BY DEF RuleId, Numbered
  <1>3. nodes \in Seq(Nodes \X Int)
    BY DEF QueueRight
  <1>4. RuleId \in Nat
    <2>1. PICK z : z \in Int
      BY 0 \in Int
    <2>2. Cardinality(Numbered(nodes)) \in Nat
      BY <1>3, <2>1, RuleIdIs
    <2> QED BY <1>2, <2>2
  <1>5. r \in Int /\ (r = -1 \/ r = RuleId)
    BY <1>1, <1>4
  <1>6. nodes' = Append(nodes, <<n, r>>)
    BY <1>1
  <1>7. RuleId' \in Nat /\ RuleId' >= RuleId /\ r < RuleId'
    <2>1. RuleId' = IF r < 0 THEN RuleId ELSE RuleId + 1
      BY <1>2, <1>3, <1>5, <1>6, RuleIdIs
    <2> QED BY <1>4, <1>5, <2>1
  <1>8. <<n, r>> \in Nodes \X Int
    BY <1>5
  <1>9. /\ nodes' \in Seq(Nodes \X Int) /\ Len(nodes) \in Nat
        /\ DOMAIN nodes = 1 .. Len(nodes) /\ DOMAIN nodes' = 1 .. Len(nodes) + 1
        /\ \A i \in 1 .. Len(nodes) : nodes'[i] = nodes[i]
        /\ nodes'[Len(nodes) + 1] = <<n, r>>
    BY <1>3, <1>6, <1>8
  <1>10. /\ \A i \in DOMAIN nodes' : i \in DOMAIN nodes \/ i = Len(nodes) + 1
         /\ \A i \in DOMAIN nodes : i \in DOMAIN nodes' /\ nodes'[i] = nodes[i] /\ nodes[i][1] \in Nodes /\ nodes[i][2] \in Int
         /\ Len(nodes) + 1 \in DOMAIN nodes'
    BY <1>3, <1>9
  <1>11. Nodes' = Nodes
    BY DEF Nodes
  <1>12. \A i \in DOMAIN nodes : Visited(nodes[i][1]) /\ ~Omitted(nodes[i][1]) /\ nodes[i][1] # n /\ nodes[i][2] < RuleId
    BY DEF QueueRight
  <1>13. /\ \A k : Visited(k) => Visited(k)'
         /\ Visited(n)' /\ \A k : Omitted(k)' <=> Omitted(k)
    BY DEF Visited, Omitted
  <1>14. \A i \in DOMAIN nodes' : Visited(nodes[i][1])' /\ ~Omitted(nodes[i][1])'
    <2>1. ASSUME NEW i \in DOMAIN nodes' PROVE node[nodes'[i][1]].output \in populated' /\ ~Omitted(nodes'[i][1])
      <3>1. CASE i \in DOMAIN nodes
        <4>1. nodes'[i] = nodes[i] /\ Visited(nodes[i][1]) /\ ~Omitted(nodes[i][1])
          BY <1>10, <1>12, <3>1
        <4> QED BY <4>1 DEF Visited
      <3>2. CASE i = Len(nodes) + 1
        <4>1. nodes'[i][1] = n
          BY <1>9, <3>2
        <4>2. node[n].output \in populated'
          OBVIOUS
        <4> QED BY <4>1, <4>2
      <3> QED BY <1>10, <3>1, <3>2
    <2> QED BY <2>1 DEF Visited, Omitted
  <1>15. \A i, j \in DOMAIN nodes' : i # j => nodes'[i][1] # nodes'[j][1]
    BY <1>9, <1>10, <1>12 DEF QueueRight
  <1>16. \A i, j \in DOMAIN nodes' : i # j => nodes'[i][2] = -1 \/ nodes'[i][2] # nodes'[j][2]
    BY <1>4, <1>5, <1>9, <1>10, <1>12 DEF QueueRight
  <1>17. \A i \in DOMAIN nodes' : nodes'[i][2] < RuleId'
    BY <1>4, <1>7, <1>9, <1>10, <1>12
  <1>18. QueueRight'
    BY <1>9, <1>11, <1>14, <1>15, <1>16, <1>17 DEF QueueRight
  <1> QED BY <1>9, <1>10, <1>18

\* PopulateNinjaNode visits the first of the pending nodes.
LEMMA PopulateGen ==
    ASSUME GraphReady, PhaseRight, QueueRight, NoneLost, PopulateNinjaNode
    PROVE  QueueRight' /\ BuildsRight' /\ NoneLost' /\ DefaultRight'
  <1>1. PICK n : n = Head(pending)
    OBVIOUS
  <1>2. PICK rest : rest = IF ~Visited(n) /\ ~Omitted(n) THEN Children(n) ELSE << >>
    OBVIOUS
  <1>3. /\ status = "populate" /\ pending # << >>
        /\ populated' = populated \cup {node[n].output}
        /\ nodes' = IF ~Visited(n) /\ ~Omitted(n)
                    THEN Append(nodes, <<n, IF node[n].cmds = << >> THEN -1 ELSE RuleId>>) ELSE nodes
        /\ pending' = rest \o Tail(pending)
        /\ mk' = mk /\ node' = node /\ roots' = roots /\ status' = status /\ builds' = builds
    BY <1>1, <1>2 DEF PopulateNinjaNode, vars
  <1>4. pending \in Seq(Nodes) /\ nodes \in Seq(Nodes \X Int) /\ builds = << >> /\ Nodes' = Nodes
    BY <1>3 DEF QueueRight, PhaseRight, Nodes
  <1>5. n \in Nodes /\ Tail(pending) \in Seq(Nodes) /\ Range(pending) = {n} \cup Range(Tail(pending))
    <2>1. IsSeq(pending) /\ Range(pending) \subseteq Nodes
      BY <1>4, OverSet
    <2>2. Range(pending) = {n} \cup Range(Tail(pending))
      BY <1>1, <1>3, <2>1, TailIs
    <2> QED BY <1>3, <1>4, <2>1, <2>2
  <1>6. rest \in Seq(Nodes)
    BY <1>2, <1>5, ChildrenIs
  <1>7. pending' \in Seq(Nodes) /\ Range(pending') = Range(rest) \cup Range(Tail(pending))
    <2>1. PICK t : t = Tail(pending)
      OBVIOUS
    <2>2. t \in Seq(Nodes) /\ pending' = rest \o t
      BY <1>3, <1>5, <2>1
    <2>3. rest \o t \in Seq(Nodes) /\ Range(rest \o t) = Range(rest) \cup Range(t)
      BY <1>6, <2>2, ConcatIs
    <2> QED BY <2>1, <2>2, <2>3
  <1>8. \A k : Omitted(k)' <=> Omitted(k)
    BY <1>3 DEF Omitted
  <1>9. \A k : Visited(k)' <=> Visited(k) \/ node[k].output = node[n].output
    BY <1>3 DEF Visited
  <1>10. \A k \in Nodes : Visited(k)' <=> Visited(k) \/ k = n
    BY <1>5, <1>9, OneOutput
  <1>11. /\ QueueRight'
         /\ \A k \in Nodes : (\E j \in DOMAIN nodes : nodes[j][1] = k) => \E j \in DOMAIN nodes' : nodes'[j][1] = k
         /\ Visited(n) \/ Omitted(n) \/ \E j \in DOMAIN nodes' : nodes'[j][1] = n
    <2>1. CASE ~Visited(n) /\ ~Omitted(n)
      <3>1. nodes' = Append(nodes, <<n, IF node[n].cmds = << >> THEN -1 ELSE RuleId>>)
        BY <1>3, <2>1
      <3> QED BY <1>3, <1>5, <1>7, <2>1, <3>1, AddNode
    <2>2. CASE Visited(n) \/ Omitted(n)
      <3>1. nodes' = nodes
        BY <1>3, <2>2
      <3>2. RuleId' = RuleId
        BY <3>1 DEF RuleId
      <3>3. \A i \in DOMAIN nodes : node[nodes[i][1]].output \in populated' /\ ~Omitted(nodes[i][1])
        BY <1>3 DEF QueueRight, Visited
      <3>4. \A i \in DOMAIN nodes' : Visited(nodes[i][1])' /\ ~Omitted(nodes[i][1])'
        BY <1>3, <3>1, <3>3 DEF Visited, Omitted
      <3> QED BY <1>3, <1>4, <1>7, <2>2, <3>1, <3>2, <3>4 DEF QueueRight
    <2> QED BY <2>1, <2>2
  <1>12. BuildsRight'
    <2>1. builds' = << >> /\ DOMAIN builds' = {} /\ IsSeq(builds')
      BY <1>3, <1>4 DEF IsSeq
    <2> QED BY <2>1 DEF BuildsRight
  <1>13. NoneLost'
    <2>1. ASSUME NEW k, k \in Range(pending) \/ Visited(k) PROVE k \in Range(pending') \/ Visited(k)'
      BY <1>5, <1>7, <1>9, <2>1
    <2>2. \A e \in Range(roots) : e[2] \in Range(pending') \/ Visited(e[2])'
      BY <1>3, <2>1 DEF NoneLost
    <2>3. ASSUME NEW k \in Nodes, Visited(k)' PROVE Omitted(k)' \/ \E j \in DOMAIN nodes' : nodes'[j][1] = k
      <3>1. Visited(k) => Omitted(k) \/ \E j \in DOMAIN nodes : nodes[j][1] = k
        BY <1>3, <1>4 DEF NoneLost
      <3>2. k = n => Visited(k) \/ Omitted(k) \/ \E j \in DOMAIN nodes' : nodes'[j][1] = k
        BY <1>11
      <3> QED BY <1>8, <1>10, <1>11, <2>3, <3>1, <3>2
    <2>4. ASSUME NEW k \in Nodes, Visited(k)', ~Omitted(k)', NEW e \in EdgesOf(node[k])
          PROVE  e[2] \in Range(pending') \/ Visited(e[2])'
      <3>1. CASE Visited(k)
        <4>1. e[2] \in Range(pending) \/ Visited(e[2])
          BY <1>8, <2>4, <3>1 DEF NoneLost
        <4> QED BY <2>1, <4>1
      <3>2. CASE ~Visited(k)
        <4>1. k = n /\ rest = Children(k)
          BY <1>2, <1>8, <1>10, <2>4, <3>2
        <4>2. e[2] \in Range(Children(k))
          BY ChildrenIs
        <4> QED BY <1>7, <4>1, <4>2
      <3> QED BY <3>1, <3>2
    <2>5. PICK q : q = pending'
      OBVIOUS
    <2>6. \A k \in Nodes : node[k].output \in populated' /\ ~Omitted(k) =>
             \A e \in EdgesOf(node[k]) : e[2] \in Range(q) \/ node[e[2]].output \in populated'
      BY <1>3, <1>8, <2>4, <2>5 DEF Visited
    <2> QED BY <1>3, <1>4, <1>8, <2>2, <2>3, <2>5, <2>6 DEF NoneLost, Visited
  <1>14. DefaultRight'
    BY <1>3 DEF DefaultRight
  <1> QED BY <1>11, <1>12, <1>13, <1>14

-----------------------------------------------------------------------------
(* EmitNode.                                                               *)

\* The first of the nodes leaves the queue.
LEMMA TailQueue ==
    ASSUME QueueRight, nodes # << >>, status \in {"emit", "done"}, nodes' = Tail(nodes),
           UNCHANGED <<mk, node, status, pending, populated>>
    PROVE  /\ QueueRight'
           /\ 1 \in DOMAIN nodes /\ Head(nodes) = nodes[1] /\ nodes[1] \in Nodes \X Int
           /\ \A j \in DOMAIN nodes' : j + 1 \in DOMAIN nodes /\ j + 1 # 1 /\ nodes'[j] = nodes[j + 1]
           /\ \A k : (\E j \in DOMAIN nodes : nodes[j][1] = k) =>
                        nodes[1][1] = k \/ \E j \in DOMAIN nodes' : nodes'[j][1] = k
  <1>1. nodes \in Seq(Nodes \X Int) /\ pending \in Seq(Nodes)
    BY DEF QueueRight
  <1>2. IsSeq(nodes) /\ Range(nodes) \subseteq Nodes \X Int
    BY <1>1, OverSet
  <1>3. /\ 1 \in DOMAIN nodes /\ Head(nodes) = nodes[1]
        /\ \A j \in DOMAIN nodes' : j + 1 \in DOMAIN nodes /\ j + 1 # 1 /\ nodes'[j] = nodes[j + 1] /\ j \in Nat
        /\ Range(nodes) = {Head(nodes)} \cup Range(nodes')
    BY <1>2, TailIs
  <1>4. nodes[1] \in Nodes \X Int
    BY <1>2, <1>3 DEF Range
  <1>5. nodes' \in Seq(Nodes \X Int) /\ Nodes' = Nodes
    BY <1>1 DEF Nodes
  <1>6. \A i \in DOMAIN nodes' : Visited(nodes[i][1])' /\ ~Omitted(nodes[i][1])'
    <2>1. \A i \in DOMAIN nodes' : Visited(nodes'[i][1]) /\ ~Omitted(nodes'[i][1])
      BY <1>3 DEF QueueRight
    <2> QED BY <2>1 DEF Visited, Omitted
  <1>7. \A i, j \in DOMAIN nodes' : i # j => i + 1 # j + 1
    BY <1>3
  <1>8. \A i, j \in DOMAIN nodes' : i # j => nodes'[i][1] # nodes'[j][1]
    BY <1>3, <1>7 DEF QueueRight
  <1>9. \A i, j \in DOMAIN nodes' : i # j => nodes'[i][2] = -1 \/ nodes'[i][2] # nodes'[j][2]
    BY <1>3, <1>7 DEF QueueRight
  <1>10. QueueRight'
    BY <1>1, <1>5, <1>6, <1>8, <1>9 DEF QueueRight
  <1>11. ASSUME NEW k, NEW j \in DOMAIN nodes, nodes[j][1] = k
         PROVE  nodes[1][1] = k \/ \E i \in DOMAIN nodes' : nodes'[i][1] = k
    <2>1. nodes[j] \in Range(nodes)
      BY DEF Range
    <2>2. nodes[j] = nodes[1] \/ nodes[j] \in Range(nodes')
      BY <1>3, <2>1
    <2>3. CASE nodes[j] \in Range(nodes')
      <3>1. PICK i \in DOMAIN nodes' : nodes'[i] = nodes[j]
        BY <2>3 DEF Range
      <3> QED BY <1>11, <3>1
    <2> QED BY <1>11, <2>2, <2>3
  <1> QED BY <1>3, <1>4, <1>10, <1>11

\* A statement for the first of the nodes is added to the file.
LEMMA AddBuild ==
    ASSUME GraphReady, QueueRight, BuildsRight, nodes # << >>, NEW n \in Nodes, NEW b, n = nodes[1][1], IsFor(b, node[n]),
           ~Omitted(n),
           b.rule = nodes[1][2], builds' = Append(builds, b), UNCHANGED <<mk, node>>, 1 \in DOMAIN nodes,
           \A j \in DOMAIN nodes' : j + 1 \in DOMAIN nodes /\ j + 1 # 1 /\ nodes'[j] = nodes[j + 1]
    PROVE  /\ BuildsRight'
           /\ \A i \in DOMAIN builds : i \in DOMAIN builds' /\ builds'[i] = builds[i]
           /\ \E i \in DOMAIN builds' : builds'[i] = b
  <1>1. IsSeq(builds)
    BY DEF BuildsRight
  <1>2. PICK l : l = Len(builds) + 1
    OBVIOUS
  <1>3. /\ IsSeq(builds') /\ builds'[l] = b /\ l \in DOMAIN builds' /\ l \notin DOMAIN builds
        /\ \A i \in DOMAIN builds : i \in DOMAIN builds' /\ builds'[i] = builds[i]
        /\ \A i \in DOMAIN builds' : i \in DOMAIN builds \/ i = l
    <2>1. Len(builds) \in Nat /\ DOMAIN builds = 1 .. Len(builds)
      BY <1>1, SeqIs
    <2>2. /\ IsSeq(builds') /\ Len(builds') = Len(builds) + 1
          /\ \A i \in 1 .. Len(builds) : builds'[i] = builds[i]
          /\ builds'[Len(builds) + 1] = b
      BY <1>1, AppendIs
    <2>3. DOMAIN builds' = 1 .. Len(builds')
      BY <2>2, SeqIs
    <2> QED BY <1>2, <2>1, <2>2, <2>3
  <1>4. Nodes' = Nodes /\ node' = node
    BY DEF Nodes
  <1>5. \A i \in DOMAIN builds : ~IsFor(builds[i], node[n]) /\ (nodes[1][2] = -1 \/ builds[i].rule # nodes[1][2])
    BY DEF BuildsRight
  <1>6. \A k \in Nodes : IsFor(b, node[k]) => k = n
    BY StatementIs
  <1>7. \A j \in DOMAIN nodes' : nodes'[j][1] # n /\ (nodes'[j][2] = -1 \/ nodes'[j][2] # b.rule)
    BY DEF QueueRight
  <1>8. \A i \in DOMAIN builds' : \E k \in Nodes : IsFor(builds'[i], node[k]) /\ ~Omitted(k)
    BY <1>3 DEF BuildsRight
  <1>9. \A i \in DOMAIN builds' : \A k \in Nodes : IsFor(builds'[i], node[k]) => \A j \in DOMAIN nodes' : nodes'[j][1] # k
    BY <1>3, <1>6, <1>7 DEF BuildsRight
  <1>10. \A i, j \in DOMAIN builds' : \A k \in Nodes : IsFor(builds'[i], node[k]) /\ IsFor(builds'[j], node[k]) => i = j
    BY <1>3, <1>5, <1>6 DEF BuildsRight
  <1>11. \A i, j \in DOMAIN builds' : i # j => builds'[i].rule = -1 \/ builds'[i].rule # builds'[j].rule
    BY <1>3, <1>5 DEF BuildsRight
  <1>12. \A i \in DOMAIN builds' : \A j \in DOMAIN nodes' : nodes'[j][2] = -1 \/ builds'[i].rule # nodes'[j][2]
    BY <1>3, <1>7 DEF BuildsRight
  <1>13. BuildsRight'
    BY <1>3, <1>4, <1>8, <1>9, <1>10, <1>11, <1>12 DEF BuildsRight, Omitted
  <1> QED BY <1>3, <1>13

\* What EmitBuild writes for a node.
LEMMA EmitIs == ASSUME NEW x, NEW r PROVE EmitBuild(x, r).rule = r /\ IsFor(EmitBuild(x, r), x)
  <1>1. PICK b : b = EmitBuild(x, r)
    OBVIOUS
  <1>2. PICK a : a = IF x.phony /\ "phony_output" \notin mk.flags THEN {Always} ELSE {}
    OBVIOUS
  <1>3. /\ b.outs = <<x.output>> \o x.implicit /\ b.rule = r /\ b.ins = NamesOf(x.deps) \cup a
        /\ b.orders = NamesOf(x.orders) /\ b.validations = NamesOf(x.validations)
    BY <1>1, <1>2 DEF EmitBuild, Always
  <1>4. EdgeNames(x) = NamesOf(x.deps) \cup NamesOf(x.orders) \cup NamesOf(x.validations)
    BY DEF EdgeNames, EdgesOf, NamesOf
  <1>5. a \subseteq {Always}
    BY <1>2
  <1> QED BY <1>1, <1>3, <1>4, <1>5 DEF IsFor, NeededBy

\* EmitNode writes the first of the nodes.
LEMMA EmitGen ==
    ASSUME GraphReady, PhaseRight, QueueRight, BuildsRight, NoneLost, DefaultRight, EmitNode
    PROVE  QueueRight' /\ BuildsRight' /\ NoneLost' /\ DefaultRight'
  <1>1. PICK n : n = nodes[1][1]
    OBVIOUS
  <1>2. /\ status = "emit" /\ nodes # << >> /\ nodes' = Tail(nodes) /\ status' = status
        /\ mk' = mk /\ node' = node /\ roots' = roots /\ pending' = pending /\ populated' = populated
    BY DEF EmitNode, vars
  <1>3. /\ QueueRight' /\ 1 \in DOMAIN nodes /\ Head(nodes) = nodes[1] /\ nodes[1] \in Nodes \X Int
        /\ \A j \in DOMAIN nodes' : j + 1 \in DOMAIN nodes /\ j + 1 # 1 /\ nodes'[j] = nodes[j + 1]
        /\ \A k : (\E j \in DOMAIN nodes : nodes[j][1] = k) =>
                        nodes[1][1] = k \/ \E j \in DOMAIN nodes' : nodes'[j][1] = k
    BY <1>2, TailQueue
  <1>4. n \in Nodes /\ Nodes' = Nodes
    BY <1>1, <1>2, <1>3 DEF Nodes
  <1>5. /\ \A k : Omitted(k)' <=> Omitted(k)
        /\ \A k : Visited(k)' <=> Visited(k)
    BY <1>2 DEF Omitted, Visited
  <1>6. CASE IsSpecialTarget(node[n].output)
    <2>1. builds' = builds /\ default' = default
      BY <1>1, <1>3, <1>6 DEF EmitNode
    <2>2. BuildsRight'
      <3>1. \A i \in DOMAIN builds : \A k \in Nodes : IsFor(builds[i], node[k]) => \A j \in DOMAIN nodes' : nodes'[j][1] # k
        BY <1>3 DEF BuildsRight
      <3>2. \A i \in DOMAIN builds : \A j \in DOMAIN nodes' : nodes'[j][2] = -1 \/ builds[i].rule # nodes'[j][2]
        BY <1>3 DEF BuildsRight
      <3> QED BY <1>2, <1>4, <2>1, <3>1, <3>2 DEF BuildsRight, Omitted
    <2>3. NoneLost'
      <3>1. ASSUME NEW k \in Nodes, Visited(k)
            PROVE  \/ Omitted(k) \/ (\E j \in DOMAIN nodes' : nodes'[j][1] = k)
                   \/ IsSpecialTarget(node[k].output) \/ \E i \in DOMAIN builds : IsFor(builds[i], node[k])
        BY <1>1, <1>3, <1>6, <3>1 DEF NoneLost
      <3> QED BY <1>2, <1>4, <2>1, <3>1 DEF NoneLost, Omitted, Visited
    <2>4. DefaultRight'
      BY <1>2, <2>1 DEF DefaultRight, IsDefault
    <2> QED BY <1>3, <2>2, <2>3, <2>4
  <1>7. CASE ~IsSpecialTarget(node[n].output)
    <2>1. PICK b : b = EmitBuild(node[n], nodes[1][2])
      OBVIOUS
    <2>2. b.rule = nodes[1][2] /\ IsFor(b, node[n])
      BY <2>1, EmitIs
    <2>3. builds' = Append(builds, b) /\ default' = IF node[n].default THEN <<node[n].output>> ELSE default
      BY <1>1, <1>3, <1>7, <2>1 DEF EmitNode
    <2>4. IsFor(b, node[n]) /\ ~Omitted(n)
      BY <1>1, <1>3, <2>2 DEF QueueRight
    <2>5. /\ BuildsRight'
          /\ \A i \in DOMAIN builds : i \in DOMAIN builds' /\ builds'[i] = builds[i]
          /\ \E i \in DOMAIN builds' : builds'[i] = b
      BY <1>1, <1>2, <1>3, <1>4, <2>2, <2>3, <2>4, AddBuild
    <2>6. NoneLost'
      <3>1. ASSUME NEW k \in Nodes, Visited(k)
            PROVE  \/ Omitted(k) \/ (\E j \in DOMAIN nodes' : nodes'[j][1] = k)
                   \/ IsSpecialTarget(node[k].output) \/ \E i \in DOMAIN builds' : IsFor(builds'[i], node[k])
        <4>1. \/ Omitted(k) \/ (\E j \in DOMAIN nodes : nodes[j][1] = k)
              \/ IsSpecialTarget(node[k].output) \/ \E i \in DOMAIN builds : IsFor(builds[i], node[k])
          BY <3>1 DEF NoneLost
        <4>2. k = n => \E i \in DOMAIN builds' : IsFor(builds'[i], node[k])
          BY <2>4, <2>5
        <4>3. (\E i \in DOMAIN builds : IsFor(builds[i], node[k])) => \E i \in DOMAIN builds' : IsFor(builds'[i], node[k])
          BY <2>5
        <4> QED BY <1>1, <1>3, <4>1, <4>2, <4>3
      <3> QED BY <1>2, <1>4, <3>1 DEF NoneLost, Omitted, Visited
    <2>7. DefaultRight'
      <3>1. b.outs[1] = node[n].output
        BY <1>4, <2>4, StatementIs
      <3>2. default' # << >> => \E i \in DOMAIN builds' : IsDefault(default', builds'[i])
        <4>1. CASE node[n].default
          <5>1. node[n].output = FirstRule(mk)
            BY <1>4, <4>1 DEF GraphReady, OpenRight
          <5> QED BY <2>3, <2>5, <3>1, <4>1, <5>1 DEF IsDefault
        <4>2. CASE ~node[n].default
          BY <1>2, <2>3, <2>5, <4>2 DEF DefaultRight
        <4> QED BY <4>1, <4>2
      <3> QED BY <1>2, <3>2 DEF DefaultRight, IsDefault
    <2> QED BY <1>3, <2>5, <2>6, <2>7
  <1> QED BY <1>6, <1>7

-----------------------------------------------------------------------------
(* The other steps, and the theorem.                                       *)

GenRight == QueueRight /\ BuildsRight /\ NoneLost /\ DefaultRight

\* Nothing has been generated.
LEMMA GenNothing ==
    ASSUME pending = << >>, populated = {}, nodes = << >>, builds = << >>, status \notin {"populate", "emit", "done"}
    PROVE  GenRight
  <1>1. DOMAIN nodes = {} /\ DOMAIN builds = {} /\ IsSeq(builds)
    BY DEF IsSeq
  <1>2. \A n : ~Visited(n)
    BY DEF Visited
  <1>3. pending \in Seq(Nodes) /\ nodes \in Seq(Nodes \X Int)
    OBVIOUS
  <1> QED BY <1>1, <1>2, <1>3 DEF GenRight, QueueRight, BuildsRight, NoneLost, DefaultRight

\* The generator starts with the roots.
LEMMA GenerateGen ==
    ASSUME GraphReady, PhaseRight, Generate
    PROVE  GenRight'
  <1>1. /\ status = "ok" /\ status' = "populate" /\ pending' = NodesOf(roots) /\ node' = node /\ roots' = roots
        /\ populated' = populated /\ nodes' = nodes /\ builds' = builds
    BY DEF Generate, plan
  <1>2. populated = {} /\ nodes = << >> /\ builds = << >>
    BY <1>1 DEF PhaseRight, Working, Generating
  <1>3. DOMAIN nodes' = {} /\ DOMAIN builds' = {} /\ IsSeq(builds') /\ nodes' \in Seq(Nodes' \X Int)
    BY <1>1, <1>2 DEF IsSeq
  <1>4. \A n : ~Visited(n)'
    BY <1>1, <1>2 DEF Visited
  <1>5. pending' \in Seq(Nodes') /\ \A e \in Range(roots') : e[2] \in Range(pending')
    BY <1>1, RootsAre DEF Nodes
  <1> QED BY <1>1, <1>3, <1>4, <1>5 DEF GenRight, QueueRight, BuildsRight, NoneLost, DefaultRight

\* All nodes are visited: the file is begun.
LEMMA BeginGen ==
    ASSUME PhaseRight, GenRight, GenerateNinja
    PROVE  GenRight'
  <1>1. /\ status = "populate" /\ pending = << >> /\ status' = "emit"
        /\ mk' = mk /\ node' = node /\ roots' = roots /\ pending' = pending /\ populated' = populated
        /\ nodes' = nodes /\ builds' = builds /\ default' = default
    BY DEF GenerateNinja, plan, gvars
  <1>2. default = << >> /\ Range(pending) = {} /\ Nodes' = Nodes
    BY <1>1 DEF PhaseRight, Working, Generating, Range, Nodes
  <1>3. \A e \in Range(roots) : Visited(e[2])
    BY <1>1, <1>2 DEF GenRight, NoneLost
  <1>4. QueueRight' /\ BuildsRight'
    BY <1>1, <1>2 DEF GenRight, QueueRight, BuildsRight, Visited, Omitted
  <1>5. NoneLost'
    BY <1>1, <1>2, <1>3 DEF GenRight, NoneLost, Visited, Omitted
  <1>6. DefaultRight'
    BY <1>1, <1>2 DEF DefaultRight
  <1> QED BY <1>4, <1>5, <1>6 DEF GenRight

\* The file is ended with the default statement.
LEMMA EndGen ==
    ASSUME PhaseRight, GenRight, EmitDefault
    PROVE  GenRight'
  <1>1. /\ status = "emit" /\ nodes = << >> /\ status' = "done" /\ (mk.goals = << >> => default # << >>)
        /\ mk' = mk /\ node' = node /\ roots' = roots /\ pending' = pending /\ populated' = populated
        /\ nodes' = nodes /\ builds' = builds /\ default' = IF mk.goals = << >> THEN default ELSE mk.goals
    BY DEF EmitDefault, plan
  <1>2. Nodes' = Nodes
    BY <1>1 DEF Nodes
  <1>3. QueueRight' /\ BuildsRight'
    BY <1>1, <1>2 DEF GenRight, QueueRight, BuildsRight, Visited, Omitted
  <1>4. NoneLost'
    BY <1>1, <1>2 DEF GenRight, NoneLost, Visited, Omitted
  <1>5. DefaultRight'
    BY <1>1 DEF GenRight, DefaultRight, IsDefault
  <1> QED BY <1>3, <1>4, <1>5 DEF GenRight

\* All that is known of a state.
Inv == Shape /\ PlanInv /\ GraphInv /\ OpenRight /\ RootsRight /\ FiniteRight /\ PhaseRight /\ GenInv

\* When the graph is made, it is ready to be written.
LEMMA IsReady ==
    ASSUME Inv, status \in Generating, Unmatched, SiblingsFree
    PROVE  GraphReady /\ GenRight
  <1>1. status # "error"
    BY DEF Generating
  <1> QED BY <1>1 DEF Inv, GraphReady, GenRight, GenInv, GraphInv, Shape, StatusOk, PhaseRight

\* Every step keeps all of it.
LEMMA GenStep == ASSUME Inv, GNext \/ UNCHANGED <<vars, gvars>> PROVE Inv'
  <1>1. PhaseRight'
    BY PhaseStep DEF Inv
  <1>2. CASE status \in {"run", "error"} /\ Next /\ UNCHANGED gvars
    <2>1. Shape' /\ PlanInv' /\ GraphInv' /\ OpenRight' /\ RootsRight' /\ FiniteRight'
      BY <1>2, ShapeStep, PlanStep, GraphStep, OpenStep, RootsStep, FiniteStep DEF Inv
    <2>2. status' \in Working \cup {"ok"}
      BY <1>2, StatusStep DEF Inv, Working
    <2>3. GenRight'
      <3>1. /\ pending' = << >> /\ populated' = {} /\ nodes' = << >> /\ builds' = << >>
            /\ status' \notin {"populate", "emit", "done"}
        BY <1>1, <2>2 DEF PhaseRight, Working, Generating
      <3>2. DOMAIN nodes' = {} /\ DOMAIN builds' = {} /\ IsSeq(builds')
        BY <3>1 DEF IsSeq
      <3>3. \A n : ~Visited(n)'
        BY <3>1 DEF Visited
      <3>4. pending' \in Seq(Nodes') /\ nodes' \in Seq(Nodes' \X Int)
        BY <3>1
      <3> QED BY <3>1, <3>2, <3>3, <3>4 DEF GenRight, QueueRight, BuildsRight, NoneLost, DefaultRight
    <2> QED BY <1>1, <2>1, <2>3 DEF Inv, GenInv, GenRight
  <1>3. CASE Generate \/ GenerateNinja \/ EmitDefault
    <2>1. UNCHANGED plan /\ status \in Generating /\ status' \in Generating \ {"ok"}
      BY <1>3 DEF Generate, GenerateNinja, EmitDefault, Generating
    <2>2. Shape' /\ PlanInv' /\ GraphInv' /\ OpenRight' /\ RootsRight' /\ FiniteRight'
      BY <2>1, PlanKept DEF Inv
    <2>3. ASSUME Unmatched', SiblingsFree' PROVE GenRight'
      <3>1. Unmatched /\ SiblingsFree
        BY <2>1, <2>3 DEF Unmatched, SiblingsFree, Nodes, plan
      <3>2. GraphReady /\ GenRight
        BY <2>1, <3>1, IsReady
      <3> QED BY <1>3, <3>2, GenerateGen, BeginGen, EndGen DEF Inv
    <2> QED BY <1>1, <2>2, <2>3 DEF Inv, GenInv, GenRight
  <1>4. CASE PopulateNinjaNode \/ EmitNode
    <2>1. UNCHANGED vars /\ status \in Generating
      BY <1>4 DEF PopulateNinjaNode, EmitNode, Generating
    <2>2. Shape' /\ PlanInv' /\ GraphInv' /\ OpenRight' /\ RootsRight' /\ FiniteRight'
      BY <2>1, ShapeStep, PlanStep, GraphStep, OpenStep, RootsStep, FiniteStep DEF Inv
    <2>3. ASSUME Unmatched', SiblingsFree' PROVE GenRight'
      <3>1. Unmatched /\ SiblingsFree
        BY <2>1, <2>3 DEF Unmatched, SiblingsFree, Nodes, vars
      <3>2. GraphReady /\ GenRight
        BY <2>1, <3>1, IsReady
      <3> QED BY <1>4, <3>2, PopulateGen, EmitGen DEF Inv, GenRight
    <2> QED BY <1>1, <2>2, <2>3 DEF Inv, GenInv, GenRight
  <1>5. CASE UNCHANGED <<vars, gvars>>
    <2>1. UNCHANGED vars /\ UNCHANGED gvars
      BY <1>5
    <2>2. Shape' /\ PlanInv' /\ GraphInv' /\ OpenRight' /\ RootsRight' /\ FiniteRight'
      BY <2>1, ShapeStep, PlanStep, GraphStep, OpenStep, RootsStep, FiniteStep DEF Inv
    <2>3. GenInv'
      BY <2>1 DEF Inv, GenInv, Unmatched, SiblingsFree, QueueRight, BuildsRight, NoneLost, DefaultRight, IsDefault,
                  Visited, Omitted, RuleId, Nodes, vars, gvars
    <2> QED BY <1>1, <2>2, <2>3 DEF Inv
  <1> QED BY <1>2, <1>3, <1>4, <1>5 DEF GNext

\* It holds at first.
LEMMA GenInit == GInit => Inv
  <1> SUFFICES ASSUME GInit PROVE Inv
    OBVIOUS
  <1>1. Shape /\ PlanInv /\ GraphInv /\ OpenRight /\ RootsRight /\ FiniteRight
    BY ShapeInit, PlanInit, GraphInit, OpenInit, RootsInit, FiniteInit DEF GInit
  <1>2. status \in Working /\ stack = << >>
    BY DEF GInit, Init, Working
  <1>3. PhaseRight
    BY <1>2 DEF GInit, PhaseRight, Working, Generating
  <1>4. GenRight
    BY <1>2, GenNothing DEF GInit, Working
  <1> QED BY <1>1, <1>3, <1>4 DEF Inv, GenInv, GenRight

\* A goal of the file is built by the file, or by nothing.
LEMMA GoalsBuilt ==
    ASSUME GraphReady, GenRight, PhaseRight, GoalsPlain, status = "done", NEW t \in Range(mk.goals)
    PROVE  t \in Built \/ ~node[done[t]].hasRule
  <1>1. goals = << >> /\ nodes = << >>
    BY DEF PhaseRight, Generating
  <1>2. Range(goals) = {} /\ DOMAIN nodes = {}
    BY <1>1 DEF Range
  <1>3. t \in Rooted(roots)
    BY <1>2, GoalsRooted DEF GraphReady
  <1>4. PICK e \in Range(roots) : e[1] = t
    BY <1>3 DEF Rooted
  <1>5. PICK n : n = e[2]
    OBVIOUS
  <1>6. n \in Nodes /\ RightFor(mk, t, node[n]) /\ Visited(n)
    BY <1>4, <1>5, RootsAre DEF GenRight, NoneLost
  <1>7. ASSUME NEW k \in Nodes, RightFor(mk, t, node[k]) PROVE t \in Outs(k)
    BY <1>7 DEF RightFor, Outs, GoalsPlain
  <1>8. t \in Outs(n)
    BY <1>6, <1>7
  <1>9. ~Unwritten(node[n].output)
    <2>1. CASE t = node[n].output
      BY <2>1 DEF GoalsPlain
    <2>2. CASE t \in Range(node[n].implicit)
      BY <1>6, <2>2, ImplicitAre DEF GoalsPlain
    <2> QED BY <1>8, <2>1, <2>2 DEF Outs
  <1>10. CASE Omitted(n)
    <2>1. ~node[n].hasRule
      BY <1>9, <1>10 DEF Omitted, Unwritten
    <2>2. t \in DOMAIN done
      BY <1>6, <1>8 DEF GraphReady, GraphRight, OutputsRight, Outs
    <2>3. ~Turning(mk, stack, t) /\ done[t] \in Nodes
      BY <2>2 DEF GraphReady, Turning, Opening, Shape, TablesOk
    <2>4. RightFor(mk, t, node[done[t]])
      BY <2>2, <2>3 DEF GraphReady, GraphRight, DoneRight
    <2>5. t \in Outs(done[t])
      BY <1>7, <2>3, <2>4
    <2>6. done[t] = n
      BY <1>6, <1>8, <2>3, <2>5, OutsDiffer DEF GraphReady, GraphRight
    <2> QED BY <2>1, <2>6
  <1>11. CASE ~Omitted(n)
    <2>1. PICK i \in DOMAIN builds : IsFor(builds[i], node[n])
      BY <1>2, <1>6, <1>9, <1>11 DEF GenRight, NoneLost, Unwritten
    <2>2. t \in Range(builds[i].outs)
      BY <1>6, <1>8, <2>1, StatementIs
    <2>3. builds[i] \in Statements
      BY DEF Statements, Range
    <2> QED BY <2>2, <2>3 DEF Built
  <1> QED BY <1>10, <1>11

\* Ninja accepts the file that is generated, for every Makefile in which no
\* implicit output has a candidate of its own and no second target of a chosen
\* pattern rule has commands of its own, and whose goals are neither special
\* nor such second targets: no output has two statements and no rule two
\* statements, and the default targets are made by the file, are files, or
\* are made by nothing.
THEOREM FileIsRight == GSpec => [](Unmatched /\ SiblingsFree /\ GoalsPlain => FileRight)
  <1>1. GInit => Inv
    BY GenInit
  <1>2. Inv /\ [GNext]_<<vars, gvars>> => Inv'
    BY GenStep
  <1>3. Inv => (Unmatched /\ SiblingsFree /\ GoalsPlain => FileRight)
    <2> SUFFICES ASSUME Inv, Unmatched, SiblingsFree, GoalsPlain, status = "done" PROVE FileRight
      BY DEF FileRight
    <2>1. GraphReady /\ GenRight /\ PhaseRight
      BY IsReady DEF Inv, Generating
    <2>2. ASSUME NEW i \in DOMAIN builds, NEW j \in DOMAIN builds, i # j
          PROVE  Range(builds[i].outs) \cap Range(builds[j].outs) = {}
      <3>1. PICK n \in Nodes : IsFor(builds[i], node[n])
        BY <2>1 DEF GenRight, BuildsRight
      <3>2. PICK m \in Nodes : IsFor(builds[j], node[m])
        BY <2>1 DEF GenRight, BuildsRight
      <3>3. n # m
        BY <2>1, <2>2, <3>1, <3>2 DEF GenRight, BuildsRight
      <3>4. Outs(n) \cap Outs(m) = {}
        BY <2>1, <3>3, OutsDiffer DEF GraphReady, GraphRight
      <3>5. Range(builds[i].outs) = Outs(n) /\ Range(builds[j].outs) = Outs(m)
        BY <2>1, <3>1, <3>2, StatementIs
      <3> QED BY <3>4, <3>5
    <2>3. \A i, j \in DOMAIN builds : i # j => builds[i].rule = -1 \/ builds[i].rule # builds[j].rule
      BY <2>1 DEF GenRight, BuildsRight
    <2>4. ASSUME NEW t \in Range(default)
          PROVE  t \in Built \/ t \in mk.files \/ ~node[done[t]].hasRule
      <3>1. CASE mk.goals = << >>
        <4>1. PICK i \in DOMAIN builds : default = <<builds[i].outs[1]>>
          BY <2>1, <3>1 DEF GenRight, DefaultRight, IsDefault
        <4>2. t = builds[i].outs[1]
          BY <4>1 DEF Range
        <4>3. PICK n \in Nodes : IsFor(builds[i], node[n])
          BY <2>1 DEF GenRight, BuildsRight
        <4>4. t \in Range(builds[i].outs)
          BY <2>1, <4>2, <4>3, StatementIs
        <4>5. builds[i] \in Statements
          BY DEF Statements, Range
        <4> QED BY <4>4, <4>5 DEF Built
      <3>2. CASE mk.goals # << >>
        <4>1. t \in Range(mk.goals)
          BY <2>1, <3>2 DEF GenRight, DefaultRight
        <4> QED BY <2>1, <4>1, GoalsBuilt
      <3> QED BY <3>1, <3>2
    <2> QED BY <2>2, <2>3, <2>4 DEF FileRight
  <1> QED BY <1>1, <1>2, <1>3, PTL DEF GSpec

-----------------------------------------------------------------------------
(* What is reached, in the file and in the graph.                          *)

\* Induction: a set with 0 and the successors of its elements has all numbers.
LEMMA NatSet ==
    ASSUME NEW T, 0 \in T, \A n \in Nat : n \in T => n + 1 \in T
    PROVE  Nat \subseteq T
  <1>1. SUFFICES ASSUME Nat \ T # {} PROVE FALSE
    BY <1>1
  <1>2. IsWellFoundedOn({p \in Nat \X Nat : p[1] < p[2]}, Nat)
    BY NatLessThanWellFounded DEF OpToRel
  <1>3. PICK R : R = {p \in Nat \X Nat : p[1] < p[2]}
    OBVIOUS
  <1>4. PICK U : U = Nat \ T
    OBVIOUS
  <1>5. \E x \in U : \A y \in U : ~(<<y, x>> \in R)
    BY <1>1, <1>2, <1>3, <1>4, WFMin
  <1>6. PICK x \in U : \A y \in U : ~(<<y, x>> \in R)
    BY <1>5
  <1>7. ASSUME NEW y \in U PROVE y >= x
    <2>1. x \in Nat /\ y \in Nat
      BY <1>4
    <2>2. <<y, x>> \notin R
      BY <1>6
    <2>3. y < x => <<y, x>> \in R
      BY <1>3, <2>1
    <2> QED BY <2>1, <2>2, <2>3
  <1>8. x # 0 /\ x - 1 \in Nat
    BY <1>4
  <1>9. x - 1 \in T
    BY <1>4, <1>7, <1>8
  <1>10. x - 1 + 1 \in T /\ x - 1 + 1 = x
    BY <1>4, <1>8, <1>9
  <1> QED BY <1>4, <1>10

\* One step of Closure, and its Step[0] .. Step[n].
FileNext(A) == A \cup UNION {InFile(x) : x \in A}
GraphNext(B) == B \cup UNION {InGraph(x) : x \in B}
FileSteps(g, n, S) == g = [k \in 0 .. n |-> IF k = 0 THEN S ELSE FileNext(g[k - 1])]
GraphSteps(h, n, S) == h = [k \in 0 .. n |-> IF k = 0 THEN S ELSE GraphNext(h[k - 1])]

\* The function that Closure defines exists: in the file ...
LEMMA FileStepsExist == ASSUME NEW S, NEW n \in Nat PROVE \E g : FileSteps(g, n, S)
  <1>1. PICK T : T = {m \in Nat : \E g : FileSteps(g, m, S)}
    OBVIOUS
  <1>2. 0 \in T
    <2>1. PICK g : g = [k \in 0 .. 0 |-> S]
      OBVIOUS
    <2>2. FileSteps(g, 0, S)
      BY <2>1 DEF FileSteps
    <2> QED BY <1>1, <2>2
  <1>3. ASSUME NEW m \in Nat, m \in T PROVE m + 1 \in T
    <2>1. PICK g : FileSteps(g, m, S)
      BY <1>1, <1>3
    <2>2. PICK h : h = [k \in 0 .. m + 1 |-> IF k = m + 1 THEN FileNext(g[m]) ELSE g[k]]
      OBVIOUS
    <2>3. ASSUME NEW k \in 0 .. m + 1 PROVE h[k] = IF k = 0 THEN S ELSE FileNext(h[k - 1])
      <3>1. CASE k = m + 1
        <4>1. k # 0 /\ k - 1 = m /\ h[m] = g[m] /\ h[k] = FileNext(g[m])
          BY <2>2, <3>1
        <4> QED BY <4>1
      <3>2. CASE k # m + 1
        <4>1. k \in 0 .. m /\ h[k] = g[k] /\ (k # 0 => h[k - 1] = g[k - 1])
          BY <2>2, <3>2
        <4>2. g[k] = IF k = 0 THEN S ELSE FileNext(g[k - 1])
          BY <2>1, <4>1 DEF FileSteps
        <4> QED BY <4>1, <4>2
      <3> QED BY <3>1, <3>2
    <2>4. FileSteps(h, m + 1, S)
      <3>1. h = [k \in 0 .. m + 1 |-> h[k]]
        BY <2>2
      <3> QED BY <2>3, <3>1 DEF FileSteps
    <2> QED BY <1>1, <2>4
  <1>4. Nat \subseteq T
    BY <1>2, <1>3, NatSet
  <1> QED BY <1>1, <1>4

\* ... and in the graph.
LEMMA GraphStepsExist == ASSUME NEW S, NEW n \in Nat PROVE \E g : GraphSteps(g, n, S)
  <1>1. PICK T : T = {m \in Nat : \E g : GraphSteps(g, m, S)}
    OBVIOUS
  <1>2. 0 \in T
    <2>1. PICK g : g = [k \in 0 .. 0 |-> S]
      OBVIOUS
    <2>2. GraphSteps(g, 0, S)
      BY <2>1 DEF GraphSteps
    <2> QED BY <1>1, <2>2
  <1>3. ASSUME NEW m \in Nat, m \in T PROVE m + 1 \in T
    <2>1. PICK g : GraphSteps(g, m, S)
      BY <1>1, <1>3
    <2>2. PICK h : h = [k \in 0 .. m + 1 |-> IF k = m + 1 THEN GraphNext(g[m]) ELSE g[k]]
      OBVIOUS
    <2>3. ASSUME NEW k \in 0 .. m + 1 PROVE h[k] = IF k = 0 THEN S ELSE GraphNext(h[k - 1])
      <3>1. CASE k = m + 1
        <4>1. k # 0 /\ k - 1 = m /\ h[m] = g[m] /\ h[k] = GraphNext(g[m])
          BY <2>2, <3>1
        <4> QED BY <4>1
      <3>2. CASE k # m + 1
        <4>1. k \in 0 .. m /\ h[k] = g[k] /\ (k # 0 => h[k - 1] = g[k - 1])
          BY <2>2, <3>2
        <4>2. g[k] = IF k = 0 THEN S ELSE GraphNext(g[k - 1])
          BY <2>1, <4>1 DEF GraphSteps
        <4> QED BY <4>1, <4>2
      <3> QED BY <3>1, <3>2
    <2>4. GraphSteps(h, m + 1, S)
      <3>1. h = [k \in 0 .. m + 1 |-> h[k]]
        BY <2>2
      <3> QED BY <2>3, <3>1 DEF GraphSteps
    <2> QED BY <1>1, <2>4
  <1>4. Nat \subseteq T
    BY <1>2, <1>3, NatSet
  <1> QED BY <1>1, <1>4

\* Closure takes as many steps as there are names.
LEMMA ClosureIs ==
    ASSUME NEW n \in Nat, n = Cardinality(DOMAIN done), NEW S, NEW R
    PROVE  \E g, h : /\ FileSteps(g, n, S) /\ Closure(S, InFile) = g[n]
                     /\ GraphSteps(h, n, R) /\ Closure(R, InGraph) = h[n]
  <1>1. PICK g : g = CHOOSE f : f = [k \in 0 .. Cardinality(DOMAIN done) |->
                                       IF k = 0 THEN S ELSE f[k - 1] \cup UNION {InFile(x) : x \in f[k - 1]}]
    OBVIOUS
  <1>2. FileSteps(g, n, S)
    <2>1. \E f : FileSteps(f, n, S)
      BY FileStepsExist
    <2> QED BY <1>1, <2>1 DEF FileSteps, FileNext
  <1>3. Closure(S, InFile) = g[n]
    BY <1>1 DEF Closure
  <1>4. PICK h : h = CHOOSE f : f = [k \in 0 .. Cardinality(DOMAIN done) |->
                                       IF k = 0 THEN R ELSE f[k - 1] \cup UNION {InGraph(x) : x \in f[k - 1]}]
    OBVIOUS
  <1>5. GraphSteps(h, n, R)
    <2>1. \E f : GraphSteps(f, n, R)
      BY GraphStepsExist
    <2> QED BY <1>4, <2>1 DEF GraphSteps, GraphNext
  <1>6. Closure(R, InGraph) = h[n]
    BY <1>4 DEF Closure
  <1> QED BY <1>2, <1>3, <1>5, <1>6

\* Names and nodes that belong together: a name is an output of one of the
\* nodes, and each of the nodes is visited and has an output among the names.
Matched(A, B) ==
    /\ \A t \in A : t = Always \/ \E m \in B : t \in Outs(m)
    /\ \A m \in B : m \in Nodes /\ Visited(m) /\ \E t \in A : t \in Outs(m)

\* The file is written, and ninja can see all of the graph.
Written ==
    /\ status = "done" /\ PhaseRight /\ GraphReady /\ GenRight /\ GraphPlain
    /\ \A n \in Nodes : node[n].siblings = {}

\* An edge is for an output of its node.
LEMMA EdgeIs ==
    ASSUME Written, NEW e, e \in Range(roots) \/ \E n \in Nodes : e \in EdgesOf(node[n])
    PROVE  e[2] \in Nodes /\ e[1] \in Outs(e[2])
  <1>1. e \in EdgesIn(node, roots)
    BY DEF EdgesIn, NodeEdges, Nodes
  <1>2. e[2] \in Nodes /\ RightFor(mk, e[1], node[e[2]])
    BY <1>1 DEF Written, GraphReady, GraphRight, EdgesOk
  <1> QED BY <1>2 DEF Written, RightFor, Outs

\* A statement is that of the node with one of its outputs.
LEMMA StatementOf ==
    ASSUME Written, NEW n \in Nodes, NEW t \in Outs(n), NEW b \in Statements, t \in Range(b.outs)
    PROVE  IsFor(b, node[n]) /\ ~Omitted(n)
  <1>1. PICK i \in DOMAIN builds : b = builds[i]
    BY DEF Statements, Range
  <1>2. PICK m \in Nodes : IsFor(b, node[m]) /\ ~Omitted(m)
    BY <1>1 DEF Written, GenRight, BuildsRight
  <1>3. t \in Outs(m)
    BY <1>2, StatementIs DEF Written
  <1>4. m = n
    BY <1>3, OutsDiffer DEF Written, GraphReady, GraphRight
  <1> QED BY <1>2, <1>4

\* A node that is visited and has a rule, or is phony, has a statement.
LEMMA HasStatement ==
    ASSUME Written, NEW n \in Nodes, Visited(n), ~Omitted(n)
    PROVE  \E b \in Statements : IsFor(b, node[n])
  <1>1. DOMAIN nodes = {}
    BY DEF Written, PhaseRight
  <1>2. ~IsSpecialTarget(node[n].output)
    BY DEF Written, GraphPlain, Unwritten
  <1>3. PICK i \in DOMAIN builds : IsFor(builds[i], node[n])
    BY <1>1, <1>2 DEF Written, GenRight, NoneLost
  <1>4. builds[i] \in Statements
    BY DEF Statements, Range
  <1> QED BY <1>3, <1>4

\* Always is no output.
LEMMA AlwaysNoOutput == ASSUME Written, NEW n \in Nodes PROVE Always \notin Outs(n)
  BY DEF Written, GraphPlain, GraphReady, GraphRight, OutputsRight, Outs

\* The default targets and the roots belong together.
LEMMA MatchedFirst == ASSUME Written PROVE Matched(Range(default), Range(NodesOf(roots)))
  <1>1. goals = << >> /\ nodes = << >> /\ pending = << >>
    BY DEF Written, PhaseRight, Generating
  <1>2. Rooted(roots) = Targets(mk) /\ FirstRule(mk) # << >>
    <2>1. Range(goals) = {}
      BY <1>1 DEF Range
    <2>2. status # "error"
      BY DEF Written
    <2> QED BY <2>1, <2>2 DEF Written, GraphReady, RootsRight
  <1>3. Range(default) = Targets(mk)
    <2>1. CASE mk.goals = << >>
      <3>1. default = <<FirstRule(mk)>>
        BY <2>1 DEF Written, GenRight, DefaultRight, IsDefault
      <3> QED BY <1>2, <2>1, <3>1 DEF Targets, Range
    <2>2. CASE mk.goals # << >>
      BY <2>2 DEF Written, GenRight, DefaultRight, Targets
    <2> QED BY <2>1, <2>2
  <1>4. \A m \in Range(NodesOf(roots)) : \E e \in Range(roots) : e[2] = m
    BY DEF NodesOf, Range
  <1>5. \A e \in Range(roots) : e[2] \in Range(NodesOf(roots))
    BY RootsAre DEF Written
  <1>6. ASSUME NEW t \in Range(default) PROVE \E m \in Range(NodesOf(roots)) : t \in Outs(m)
    <2>1. PICK e \in Range(roots) : e[1] = t
      BY <1>2, <1>3 DEF Rooted
    <2> QED BY <1>5, <2>1, EdgeIs
  <1>7. ASSUME NEW m \in Range(NodesOf(roots))
        PROVE  m \in Nodes /\ Visited(m) /\ \E t \in Range(default) : t \in Outs(m)
    <2>1. PICK e \in Range(roots) : e[2] = m
      BY <1>4
    <2>2. m \in Nodes /\ e[1] \in Outs(m)
      BY <2>1, EdgeIs
    <2>3. Visited(m)
      BY <2>1 DEF Written, GenRight, NoneLost
    <2>4. e[1] \in Range(default)
      BY <1>2, <1>3 DEF Rooted
    <2> QED BY <2>2, <2>3, <2>4
  <1> QED BY <1>6, <1>7 DEF Matched

\* They still do after a step in the file and one in the graph.
LEMMA MatchedNext == ASSUME Written, NEW A, NEW B, Matched(A, B) PROVE Matched(FileNext(A), GraphNext(B))
  <1>1. ASSUME NEW t \in FileNext(A) PROVE t = Always \/ \E m \in GraphNext(B) : t \in Outs(m)
    <2>1. CASE t \in A
      BY <2>1 DEF Matched, GraphNext
    <2>2. CASE t \notin A
      <3>1. PICK u \in A : t \in InFile(u)
        BY <2>2 DEF FileNext
      <3>2. PICK b \in Statements : u \in Range(b.outs) /\ t \in NeededBy(b)
        BY <3>1 DEF InFile
      <3>3. PICK k \in Nodes : IsFor(b, node[k])
        BY DEF Statements, Range, Written, GenRight, BuildsRight
      <3>4. u \in Outs(k)
        BY <3>2, <3>3, StatementIs DEF Written
      <3>5. u # Always
        BY <3>4, AlwaysNoOutput
      <3>6. PICK m \in B : u \in Outs(m)
        BY <3>5 DEF Matched
      <3>7. m \in Nodes
        BY DEF Matched
      <3>8. IsFor(b, node[m])
        BY <3>2, <3>6, <3>7, StatementOf
      <3>9. t = Always \/ t \in EdgeNames(node[m])
        BY <3>2, <3>8 DEF IsFor
      <3>10. ASSUME NEW e \in EdgesOf(node[m]), t = e[1] PROVE \E k2 \in GraphNext(B) : t \in Outs(k2)
        <4>1. e[2] \in InGraph(m)
          BY DEF InGraph, EdgesOf
        <4>2. e[2] \in GraphNext(B)
          BY <4>1 DEF GraphNext
        <4>3. e[1] \in Outs(e[2])
          BY <3>7, EdgeIs
        <4> QED BY <3>10, <4>2, <4>3
      <3> QED BY <3>9, <3>10 DEF EdgeNames
    <2> QED BY <2>1, <2>2
  <1>2. ASSUME NEW m \in GraphNext(B) PROVE m \in Nodes /\ Visited(m) /\ \E t \in FileNext(A) : t \in Outs(m)
    <2>1. CASE m \in B
      BY <2>1 DEF Matched, FileNext
    <2>2. CASE m \notin B
      <3>1. PICK n \in B : m \in InGraph(n)
        BY <2>2 DEF GraphNext
      <3>2. PICK e \in EdgesOf(node[n]) : m = e[2]
        BY <3>1 DEF InGraph, EdgesOf
      <3>3. n \in Nodes /\ Visited(n)
        BY DEF Matched
      <3>4. PICK u \in A : u \in Outs(n)
        BY DEF Matched
      <3>5. m \in Nodes /\ e[1] \in Outs(m)
        BY <3>2, <3>3, EdgeIs
      <3>6. ~Omitted(n)
        <4>1. 1 .. Len(stack) = {}
          BY DEF Written, GraphReady
        <4>2. node[n].hasRule
          BY <3>2, <3>3, <4>1 DEF Written, GraphReady, OpenRight
        <4>3. ~Unwritten(node[n].output)
          BY <3>3 DEF Written, GraphPlain
        <4> QED BY <4>2, <4>3 DEF Omitted, Unwritten
      <3>7. Visited(m)
        <4>1. Range(pending) = {}
          BY DEF Written, PhaseRight, Range
        <4> QED BY <3>2, <3>3, <3>6, <4>1 DEF Written, GenRight, NoneLost
      <3>8. PICK b \in Statements : IsFor(b, node[n])
        BY <3>3, <3>6, HasStatement
      <3>9. u \in Range(b.outs)
        BY <3>3, <3>4, <3>8, StatementIs DEF Written
      <3>10. e[1] \in NeededBy(b)
        BY <3>2, <3>8 DEF IsFor, EdgeNames
      <3>11. e[1] \in InFile(u)
        BY <3>9, <3>10 DEF InFile
      <3>12. e[1] \in FileNext(A)
        BY <3>11 DEF FileNext
      <3> QED BY <3>5, <3>7, <3>12
    <2> QED BY <2>1, <2>2
  <1> QED BY <1>1, <1>2 DEF Matched

\* And at the end of Closure.
LEMMA MatchedClosure ==
    ASSUME Written, NEW n \in Nat, NEW g, NEW h,
           FileSteps(g, n, Range(default)), GraphSteps(h, n, Range(NodesOf(roots)))
    PROVE  Matched(g[n], h[n])
  <1>1. PICK T : T = {k \in Nat : k <= n => Matched(g[k], h[k])}
    OBVIOUS
  <1>2. 0 \in T
    <2>1. 0 \in 0 .. n
      OBVIOUS
    <2>2. g[0] = Range(default)
      BY <2>1 DEF FileSteps
    <2>3. h[0] = Range(NodesOf(roots))
      BY <2>1 DEF GraphSteps
    <2> QED BY <1>1, <2>2, <2>3, MatchedFirst
  <1>3. ASSUME NEW k \in Nat, k \in T PROVE k + 1 \in T
    <2>1. CASE k + 1 <= n
      <3>1. k + 1 \in 0 .. n /\ k + 1 # 0 /\ (k + 1) - 1 = k /\ k <= n
        BY <2>1
      <3>2. g[k + 1] = FileNext(g[k])
        BY <3>1 DEF FileSteps
      <3>3. h[k + 1] = GraphNext(h[k])
        BY <3>1 DEF GraphSteps
      <3>4. Matched(g[k], h[k])
        BY <1>1, <1>3, <3>1
      <3> QED BY <1>1, <3>2, <3>3, <3>4, MatchedNext
    <2>2. CASE ~(k + 1 <= n)
      BY <1>1, <2>2
    <2> QED BY <2>1, <2>2
  <1>4. n \in T
    BY <1>2, <1>3, NatSet
  <1> QED BY <1>1, <1>4

\* The statements and the nodes that are reached are the same.
LEMMA MatchedEnd ==
    ASSUME Written, NEW A, NEW B, Matched(A, B)
    PROVE  {b.outs[1] : b \in {b \in Statements : Range(b.outs) \cap A # {}}}
           = {node[n].output : n \in {n \in B : Finished(n) \/ node[n].phony}}
  <1>1. ASSUME NEW b \in Statements, Range(b.outs) \cap A # {}
        PROVE  \E n \in B : (Finished(n) \/ node[n].phony) /\ b.outs[1] = node[n].output
    <2>1. PICK t \in A : t \in Range(b.outs)
      BY <1>1
    <2>2. PICK k \in Nodes : IsFor(b, node[k])
      BY DEF Statements, Range, Written, GenRight, BuildsRight
    <2>3. t \in Outs(k) /\ b.outs[1] = node[k].output
      BY <2>1, <2>2, StatementIs DEF Written
    <2>4. t # Always
      BY <2>3, AlwaysNoOutput
    <2>5. PICK n \in B : t \in Outs(n)
      BY <2>4 DEF Matched
    <2>6. n \in Nodes
      BY DEF Matched
    <2>7. IsFor(b, node[n]) /\ ~Omitted(n)
      BY <2>1, <2>5, <2>6, StatementOf
    <2>8. b.outs[1] = node[n].output
      BY <2>6, <2>7, StatementIs DEF Written
    <2> QED BY <2>7, <2>8 DEF Omitted, Finished
  <1>2. ASSUME NEW n \in B, Finished(n) \/ node[n].phony
        PROVE  \E b \in Statements : Range(b.outs) \cap A # {} /\ b.outs[1] = node[n].output
    <2>1. n \in Nodes /\ Visited(n)
      BY DEF Matched
    <2>2. ~Omitted(n)
      BY <1>2, <2>1 DEF Written, GraphPlain, Unwritten, Omitted, Finished
    <2>3. PICK b \in Statements : IsFor(b, node[n])
      BY <2>1, <2>2, HasStatement
    <2>4. PICK t \in A : t \in Outs(n)
      BY DEF Matched
    <2>5. Range(b.outs) = Outs(n) /\ b.outs[1] = node[n].output
      BY <2>1, <2>3, StatementIs DEF Written
    <2> QED BY <2>4, <2>5
  <1> QED BY <1>1, <1>2

\* Ninja builds the graph, whatever its size, for the Makefiles of FileIsRight
\* in which no target of the graph is special, Android's out, or named as the
\* statement that is always built: following names from the default targets,
\* ninja reaches the statements of exactly the nodes that are reached from the
\* roots of the graph, so that PopulateNinjaNode loses none and EmitBuild
\* names none that is not needed.
THEOREM FileIsComplete == GSpec => [](Unmatched /\ SiblingsFree /\ GraphPlain => NinjaRight)
  <1>1. GInit => Inv
    BY GenInit
  <1>2. Inv /\ [GNext]_<<vars, gvars>> => Inv'
    BY GenStep
  <1>3. Inv => (Unmatched /\ SiblingsFree /\ GraphPlain => NinjaRight)
    <2> SUFFICES ASSUME Inv, Unmatched, SiblingsFree, GraphPlain, status = "done",
                        \A n \in Nodes : node[n].siblings = {}
                 PROVE  NinjaRight
      BY DEF NinjaRight
    <2>1. GraphReady /\ GenRight /\ PhaseRight
      BY IsReady DEF Inv, Generating
    <2>2. Written
      BY <2>1 DEF Written
    <2>3. Cardinality(DOMAIN done) \in Nat
      <3>1. PICK F : IsFiniteSet(F) /\ \A t \in DOMAIN done : t \in F \/ \E n \in Nodes : t \in node[n].siblings
        BY DEF Inv, FiniteRight
      <3>2. DOMAIN done \in SUBSET F
        BY <3>1
      <3>3. IsFiniteSet(DOMAIN done)
        BY <3>1, <3>2, FS_Subset
      <3> QED BY <3>3, FS_CardinalityType
    <2>4. PICK n \in Nat : n = Cardinality(DOMAIN done)
      BY <2>3
    <2>5. PICK A, B : A = Closure(Range(default), InFile) /\ B = Closure(Range(NodesOf(roots)), InGraph)
      OBVIOUS
    <2>6. Matched(A, B)
      <3>1. PICK g, h : /\ FileSteps(g, n, Range(default)) /\ Closure(Range(default), InFile) = g[n]
                        /\ GraphSteps(h, n, Range(NodesOf(roots))) /\ Closure(Range(NodesOf(roots)), InGraph) = h[n]
        BY <2>4, ClosureIs
      <3> QED BY <2>2, <2>5, <3>1, MatchedClosure
    <2>7. {b.outs[1] : b \in {b \in Statements : Range(b.outs) \cap A # {}}}
          = {node[k].output : k \in {k \in B : Finished(k) \/ node[k].phony}}
      BY <2>2, <2>6, MatchedEnd
    <2> QED BY <2>5, <2>7 DEF NinjaRight
  <1> QED BY <1>1, <1>2, <1>3, PTL DEF GSpec
=============================================================================
