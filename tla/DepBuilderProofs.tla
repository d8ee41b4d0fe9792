-------------------------- MODULE DepBuilderProofs --------------------------
(***************************************************************************)
(* Theorems about DepBuilder: its tables fit together for every Makefile,  *)
(* and, for the Makefiles in which no two rules compete for an implicit    *)
(* output or for the second target of a pattern rule, every edge leads to  *)
(* a node that makes the target and no two nodes make the same one.        *)
(***************************************************************************)
EXTENDS DepBuilder, SequenceTheorems, TLAPS

-----------------------------------------------------------------------------
(* Shape: the tables and the calls.                                        *)

CallFields == {"node", "at", "out", "cands", "try", "ins", "last", "chosen", "second", "rest", "saved"}
EdgeFields == {"deps", "orders", "validations"}
NodeFields == {"output", "default", "hasRule", "implicit", "siblings", "vars"} \cup EdgeFields
IsSeq(s) == s \in Seq(Range(s))

CallOk(f) ==
    /\ CallFields \subseteq DOMAIN f /\ EdgeFields \subseteq DOMAIN f.rest
    /\ f.at \in {"pick", "picked", "deps"} /\ f.second \in BOOLEAN
NodeOk(x) == NodeFields \subseteq DOMAIN x /\ \A k \in EdgeFields : IsSeq(x[k])

CallsOk(stk, ns) ==
    /\ IsSeq(stk)
    /\ \A i \in 1 .. Len(stk) : CallOk(stk[i]) /\ stk[i].node \in ns
    /\ \A i, j \in 1 .. Len(stk) : stk[i].node = stk[j].node => i = j
TablesOk ==
    /\ DOMAIN needed = Nodes /\ Nodes \subseteq DOMAIN done
    /\ \A t \in DOMAIN done : done[t] \in Nodes
    /\ \A n \in Nodes : NodeOk(node[n])
RetOk == ret # << >> => ret = <<ret[1]>> /\ ret[1] \in Nodes
StatusOk ==
    /\ status = "ok" => stack = << >> /\ ret = << >>
    /\ status # "error" => ~PopulateError(mk)

Shape == CallsOk(stack, Nodes) /\ TablesOk /\ RetOk /\ StatusOk /\ IsSeq(roots)

-----------------------------------------------------------------------------
(* The calls of BuildPlan, if no implicit output matches a pattern.        *)

\* No implicit output has a candidate of its own.
Unmatched ==
    \A p \in DOMAIN mk.implicit : \A t \in Range(ImplicitOutputs(mk, p)) : Candidates(mk, t) = << >>

\* A candidate is at hand or was chosen only for a target that has no
\* commands and no parent.
Free(m, f) == PrimaryRule(m, f.out) = 0 /\ Parents(m, f.node) = {}
CallRight(m, f) ==
    /\ f.at = "pick" /\ f.try \in DOMAIN f.cands => Free(m, f)
    /\ f.chosen # NoCandidate => Free(m, f) /\ f.chosen \in Range(Candidates(m, f.out))
    /\ f.cands # << >> => f.cands = Candidates(m, f.out)
    /\ IF f.second THEN Parents(m, f.node) = {f.out} ELSE f.out = f.node
    /\ f.at = "deps" /\ ~f.second => Parents(m, f.node) = {}

\* A call that waits for another one.
Waits(m, f) == f.at = "deps" \/ (f.at = "pick" /\ Free(m, f))
CallsRight ==
    /\ \A i \in 1 .. Len(stack) : CallRight(mk, stack[i])
    /\ \A i \in 1 .. Len(stack) : i # Len(stack) => Waits(mk, stack[i])
    /\ stack # << >> /\ ret # << >> => Waits(mk, Top)

-----------------------------------------------------------------------------
(* The graph, if moreover no second target of a pattern rule has commands. *)

\* No second target of a chosen pattern rule has commands of its own.
SiblingsFree == \A n \in Nodes : \A s \in node[n].siblings : PrimaryRule(mk, s) = 0

\* The node whose rule is being looked for; an implicit output among these
\* will get its parent's output.
Opening(stk, n) == stk # << >> /\ stk[Len(stk)].node = n /\ stk[Len(stk)].at # "deps"
Turning(m, stk, n) == Opening(stk, n) /\ Parents(m, n) # {}

\* The node x is right for t.
RightFor(m, t, x) ==
    IF PrimaryRule(m, t) # 0 THEN x.output = t
    ELSE t \in {x.output} \cup Range(x.implicit) \cup x.siblings

\* Outputs: that of the target the node is for, or of its parent; each of one
\* node only.
OutputsRight ==
    \A n \in Nodes :
        /\ node[n].output \in DOMAIN done /\ Range(node[n].implicit) \subseteq DOMAIN done
        /\ node[n].output = n \/ Parents(mk, n) = {node[n].output}
        /\ node[n].output = n /\ Parents(mk, n) # {} => Opening(stack, n)
        /\ \A k \in Nodes : node[k].output = node[n].output => k = n

\* The node of a call before FillDepNode, and of one after it.
FilledRight ==
    /\ \A i \in 1 .. Len(stack) : stack[i].at # "deps" =>
          /\ node[stack[i].node].output = stack[i].out
          /\ node[stack[i].node].implicit = << >>
    /\ \A n \in Nodes :
          \/ Opening(stack, n)
          \/ node[n].implicit = ImplicitOutputs(mk, node[n].output)
          \/ node[n].implicit = << >> /\ PrimaryRule(mk, node[n].output) = 0

EdgesOf(x) == Range(x.deps) \cup Range(x.orders) \cup Range(x.validations)
NodeEdges(nd) == UNION {EdgesOf(nd[n]) : n \in DOMAIN nd}
EdgesIn(nd, rs) == NodeEdges(nd) \cup Range(rs)

\* Nothing refers to a node that will get its parent's output.
TurningRight ==
    \A n \in Nodes : Turning(mk, stack, n) =>
        /\ \A t \in DOMAIN done : done[t] = n => t \in {n, node[n].output}
        /\ \A e \in EdgesIn(node, roots) : e[2] # n
        /\ node[n].output = n => \A k \in Nodes : node[k].output \notin Parents(mk, n)

DoneRight ==
    \A t \in DOMAIN done :
        RightFor(mk, t, node[done[t]]) \/ (t = done[t] /\ Turning(mk, stack, t))
EdgesOk == \A e \in EdgesIn(node, roots) : e[2] \in Nodes /\ RightFor(mk, e[1], node[e[2]])

\* What a call asks for, and what the call above it is for.
Asks(f) ==
    IF f.at = "pick" THEN Head(f.ins)
    ELSE LET ks == {k \in EdgeFields : f.rest[k] # << >>} IN
         Head(f.rest[IF "deps" \in ks THEN "deps" ELSE IF "orders" \in ks THEN "orders" ELSE "validations"])
Asked(stk, gs, i) == IF i = 0 THEN Head(gs) ELSE Asks(stk[i])
CallsMatch ==
    /\ \A i \in 1 .. Len(stack) : stack[i].node = Asked(stack, goals, i - 1)
    /\ ret # << >> => RightFor(mk, Asked(stack, goals, Len(stack)), node[ret[1]])

GraphRight ==
    OutputsRight /\ FilledRight /\ TurningRight /\ DoneRight /\ EdgesOk /\ CallsMatch

PlanInv == status # "error" /\ Unmatched => CallsRight
GraphInv == status # "error" /\ Unmatched /\ SiblingsFree => GraphRight

-----------------------------------------------------------------------------
(* Sequences of anything.                                                  *)

\* What is known of a sequence.
LEMMA SeqIs ==
    ASSUME NEW s, IsSeq(s)
    PROVE  Len(s) \in Nat /\ DOMAIN s = 1 .. Len(s) /\ (s # << >> <=> Len(s) > 0)
  <1>1. PICK S : s \in Seq(S)
    BY DEF IsSeq
  <1> QED BY <1>1

\* A function on 1 .. n is a sequence.
LEMMA FunctionIsSeq ==
    ASSUME NEW s, NEW n \in Nat, s = [i \in 1 .. n |-> s[i]]
    PROVE  IsSeq(s) /\ Len(s) = n
  <1>1. PICK T : T = Range(s)
    OBVIOUS
  <1>2. DOMAIN s = 1 .. n
    OBVIOUS
  <1>3. \A i \in 1 .. n : s[i] \in T
    BY <1>1, <1>2 DEF Range
  <1>4. s \in [1 .. n -> T]
    BY <1>3
  <1>5. s \in Seq(T) /\ Len(s) = n
    BY <1>4
  <1> QED BY <1>1, <1>5 DEF IsSeq

\* Append on sequences of anything.
LEMMA AppendIs ==
    ASSUME NEW s, IsSeq(s), NEW x
    PROVE  /\ IsSeq(Append(s, x)) /\ Append(s, x) # << >>
           /\ Len(Append(s, x)) = Len(s) + 1
           /\ \A i \in 1 .. Len(s) : Append(s, x)[i] = s[i]
           /\ Append(s, x)[Len(s) + 1] = x
           /\ Range(Append(s, x)) = Range(s) \cup {x}
  <1>1. PICK S : s \in Seq(S)
    BY DEF IsSeq
  <1>2. s \in Seq(S \cup {x}) /\ x \in S \cup {x}
    BY <1>1
  <1>3. PICK a : a = Append(s, x)
    OBVIOUS
  <1>4. /\ a \in Seq(S \cup {x}) /\ Len(s) \in Nat /\ Len(a) = Len(s) + 1 /\ a # << >>
        /\ DOMAIN s = 1 .. Len(s) /\ DOMAIN a = 1 .. Len(s) + 1
        /\ \A i \in 1 .. Len(s) : a[i] = s[i]
        /\ a[Len(s) + 1] = x
    BY <1>2, <1>3
  <1>5. a = [i \in 1 .. Len(a) |-> a[i]]
    BY <1>4
  <1>6. IsSeq(a)
    <2>1. Len(a) \in Nat
      BY <1>4
    <2> QED BY <1>5, <2>1, FunctionIsSeq
  <1>7. Range(a) = Range(s) \cup {x}
    <2>1. ASSUME NEW y \in Range(a) PROVE y \in Range(s) \cup {x}
      BY <1>4 DEF Range
    <2>2. ASSUME NEW y \in Range(s) \cup {x} PROVE y \in Range(a)
      BY <1>4 DEF Range
    <2> QED BY <2>1, <2>2
  <1> QED BY <1>3, <1>4, <1>6, <1>7

\* All but the last element.
LEMMA FrontIs ==
    ASSUME NEW s, IsSeq(s), s # << >>
    PROVE  /\ IsSeq(Front(s)) /\ Len(Front(s)) = Len(s) - 1
           /\ \A i \in 1 .. Len(s) - 1 : Front(s)[i] = s[i]
  <1>1. Len(s) \in Nat /\ Len(s) > 0
    BY SeqIs
  <1>2. PICK S : s \in Seq(S)
    BY DEF IsSeq
  <1>3. PICK a : a = SubSeq(s, 1, Len(s) - 1)
    OBVIOUS
  <1>4. /\ a \in Seq(S) /\ Len(a) = Len(s) - 1
        /\ \A i \in 1 .. Len(s) - 1 : a[i] = s[i]
    <2>1. Len(s) - 1 \in 0 .. Len(s) /\ 1 \in 1 .. Len(s) + 1
      BY <1>1
    <2>2. /\ a \in Seq(S)
          /\ Len(a) = IF 1 <= Len(s) - 1 THEN Len(s) - 1 - 1 + 1 ELSE 0
          /\ \A i \in 1 .. Len(s) - 1 - 1 + 1 : a[i] = s[1 + i - 1]
      BY <1>2, <1>3, <2>1, SubSeqProperties
    <2>3. ASSUME NEW i \in 1 .. Len(s) - 1 PROVE a[i] = s[i]
      <3>1. i \in 1 .. Len(s) - 1 - 1 + 1 /\ 1 + i - 1 = i
        BY <1>1
      <3>2. a[i] = s[1 + i - 1]
        BY <2>2, <3>1
      <3> QED BY <3>1, <3>2
    <2>4. Len(a) = Len(s) - 1
      <3>1. ASSUME NEW n \in Nat, n > 0 PROVE (IF 1 <= n - 1 THEN n - 1 - 1 + 1 ELSE 0) = n - 1
        BY <3>1
      <3> QED BY <1>1, <2>2, <3>1, Zenon
    <2> QED BY <2>2, <2>3, <2>4
  <1>5. a = [i \in 1 .. Len(a) |-> a[i]] /\ Len(a) \in Nat
    BY <1>4
  <1>6. IsSeq(a)
    BY <1>5, FunctionIsSeq
  <1> QED BY <1>3, <1>4, <1>6 DEF Front

-----------------------------------------------------------------------------
(* Calls.                                                                  *)

SameCall(f, g) ==
    g.node = f.node /\ g.second = f.second /\ g.chosen = f.chosen /\ g.rest = f.rest

\* Trying another candidate.
LEMMA TryIs ==
    ASSUME NEW f, CallOk(f), NEW k
    PROVE  /\ CallOk(Try(f, k)) /\ SameCall(f, Try(f, k))
           /\ Try(f, k).at = f.at /\ Try(f, k).out = f.out /\ Try(f, k).cands = f.cands
  BY DEF Try, CallOk, CallFields, SameCall

\* A candidate is at hand only if there are any.
LEMMA PickRuleIs ==
    ASSUME NEW f, CallOk(f), NEW t
    PROVE  LET g == PickRule(f, t) IN
           /\ CallOk(g) /\ SameCall(f, g) /\ g.at = "pick" /\ g.out = t
           /\ g.try \in DOMAIN g.cands => PrimaryRule(mk, t) = 0 /\ Candidates(mk, t) # << >>
           /\ g.cands # << >> => g.cands = Candidates(mk, t)
  <1>1. PICK c : c = IF PrimaryRule(mk, t) # 0 THEN << >> ELSE Candidates(mk, t)
    OBVIOUS
  <1>2. PICK h : h = [f EXCEPT !.at = "pick", !.out = t, !.cands = c, !.last = RuleStackBack]
    OBVIOUS
  <1>3. PICK g : g = Try(h, 0)
    OBVIOUS
  <1>9. g = PickRule(f, t)
    BY <1>1, <1>2, <1>3 DEF PickRule, PickFrom
  <1>4. CallOk(h) /\ SameCall(f, h) /\ h.at = "pick" /\ h.out = t /\ h.cands = c
    BY <1>2 DEF CallOk, CallFields, SameCall
  <1>5. /\ CallOk(g) /\ SameCall(h, g) /\ g.at = "pick" /\ g.out = t /\ g.cands = c
    BY <1>3, <1>4, TryIs
  <1>6. c # << >> => PrimaryRule(mk, t) = 0 /\ Candidates(mk, t) # << >> /\ c = Candidates(mk, t)
    BY <1>1
  <1>7. g.try \in DOMAIN c => c # << >>
    <2>1. DOMAIN << >> = {}
      OBVIOUS
    <2> QED BY <2>1
  <1>8. SameCall(f, g)
    BY <1>4, <1>5 DEF SameCall
  <1> QED BY <1>5, <1>6, <1>7, <1>8, <1>9

\* A new call.
LEMMA NewCallIs ==
    ASSUME NEW t
    PROVE  /\ CallOk(NewCall(t)) /\ NewCall(t).node = t /\ NewCall(t).second = FALSE
           /\ NewCall(t).chosen = NoCandidate
  BY DEF NewCall, CallOk, CallFields, EdgeFields

-----------------------------------------------------------------------------
(* Shape.                                                                  *)

\* The call at work.
LEMMA TopIs ==
    ASSUME Shape, stack # << >>
    PROVE  /\ Len(stack) \in Nat /\ Len(stack) > 0 /\ Len(stack) \in 1 .. Len(stack)
           /\ CallOk(Top) /\ Top.node \in Nodes
  <1>1. Len(stack) \in Nat /\ Len(stack) > 0
    BY SeqIs DEF Shape, CallsOk
  <1> QED BY <1>1 DEF Shape, CallsOk, Top

\* The call at work changes.
LEMMA SetTopOk ==
    ASSUME Shape, stack # << >>, NEW g, CallOk(g), g.node = Top.node, stack' = SetTop(g),
           NEW ns, Nodes \subseteq ns
    PROVE  /\ CallsOk(stack', ns) /\ stack' # << >> /\ Len(stack') = Len(stack) /\ Top' = g
           /\ \A i \in 1 .. Len(stack) : i # Len(stack) => stack'[i] = stack[i]
  <1>1. /\ Len(stack) \in Nat /\ Len(stack) > 0 /\ Top.node \in Nodes
    BY TopIs
  <1>2. /\ IsSeq(stack') /\ stack' # << >> /\ Len(stack') = Len(stack) /\ stack'[Len(stack)] = g
        /\ \A i \in 1 .. Len(stack) : i # Len(stack) => stack'[i] = stack[i]
    <2>1. IsSeq(stack) /\ stack' = [stack EXCEPT ![Len(stack)] = g]
      BY DEF Shape, CallsOk, SetTop
    <2>2. DOMAIN stack = 1 .. Len(stack)
      BY <2>1, SeqIs
    <2>3. stack' = [i \in 1 .. Len(stack) |-> stack'[i]] /\ stack'[Len(stack)] = g
      <3>1. stack' = [i \in 1 .. Len(stack) |-> stack'[i]]
        BY <1>1, <2>1, <2>2
      <3>2. stack'[Len(stack)] = g
        BY <1>1, <2>1, <2>2
      <3> QED BY <3>1, <3>2
    <2>4. IsSeq(stack') /\ Len(stack') = Len(stack)
      BY <1>1, <2>3, FunctionIsSeq
    <2>5. stack' # << >>
      BY <1>1, <2>4, SeqIs
    <2>6. \A i \in 1 .. Len(stack) : i # Len(stack) => stack'[i] = stack[i]
      BY <2>1, <2>2
    <2> QED BY <2>3, <2>4, <2>5, <2>6
  <1>3. \A i \in 1 .. Len(stack) : CallOk(stack'[i]) /\ stack'[i].node = stack[i].node
    BY <1>2 DEF Shape, CallsOk, Top
  <1>4. \A i, j \in 1 .. Len(stack) : stack[i].node = stack[j].node => i = j
    BY DEF Shape, CallsOk
  <1>5. CallsOk(stack', ns)
    BY <1>2, <1>3, <1>4 DEF CallsOk, Shape
  <1> QED BY <1>2, <1>5 DEF Top

\* A call returns.
LEMMA FrontOk ==
    ASSUME Shape, stack # << >>, stack' = Front(stack), NEW ns, Nodes \subseteq ns
    PROVE  /\ CallsOk(stack', ns) /\ Len(stack') = Len(stack) - 1
           /\ \A i \in 1 .. Len(stack') : /\ i \in 1 .. Len(stack) /\ i # Len(stack)
                                          /\ stack'[i] = stack[i]
  <1>1. Len(stack) \in Nat /\ Len(stack) > 0
    BY TopIs
  <1>2. /\ IsSeq(stack') /\ Len(stack') = Len(stack) - 1
        /\ \A i \in 1 .. Len(stack) - 1 : stack'[i] = stack[i]
    BY FrontIs DEF Shape, CallsOk
  <1>3. \A i, j \in 1 .. Len(stack) : stack[i].node = stack[j].node => i = j
    BY DEF Shape, CallsOk
  <1>4. \A i \in 1 .. Len(stack') : i \in 1 .. Len(stack) /\ i # Len(stack) /\ stack'[i] = stack[i]
    <2>1. ASSUME NEW d \in Nat, NEW i \in 1 .. d - 1 PROVE i \in 1 .. d /\ i # d
      OBVIOUS
    <2> QED BY <1>1, <1>2, <2>1
  <1> QED BY <1>2, <1>3, <1>4 DEF CallsOk, Shape

\* A call is made.
LEMMA PushOk ==
    ASSUME Shape, NEW g, CallOk(g), g.node \notin Nodes, stack' = Append(stack, g),
           NEW ns, Nodes \subseteq ns, g.node \in ns
    PROVE  /\ CallsOk(stack', ns) /\ Len(stack') = Len(stack) + 1 /\ Top' = g /\ stack' # << >>
           /\ \A i \in 1 .. Len(stack) : stack'[i] = stack[i]
  <1>1. Len(stack) \in Nat
    BY SeqIs DEF Shape, CallsOk
  <1>2. /\ IsSeq(stack') /\ Len(stack') = Len(stack) + 1 /\ stack' # << >>
        /\ \A i \in 1 .. Len(stack) : stack'[i] = stack[i]
        /\ stack'[Len(stack) + 1] = g
    BY AppendIs DEF Shape, CallsOk
  <1>3. \A i, j \in 1 .. Len(stack) : stack[i].node = stack[j].node => i = j
    BY DEF Shape, CallsOk
  <1>4. \A i \in 1 .. Len(stack') : i = Len(stack) + 1 \/ i \in 1 .. Len(stack)
    BY <1>1, <1>2
  <1>5. \A i \in 1 .. Len(stack) : CallOk(stack[i]) /\ stack[i].node \in Nodes
    BY DEF Shape, CallsOk
  <1>6. CallsOk(stack', ns)
    BY <1>2, <1>3, <1>4, <1>5 DEF CallsOk
  <1> QED BY <1>2, <1>6 DEF Top

\* Nothing but the calls, ret and the status changes.
LEMMA SameTables ==
    ASSUME TablesOk, UNCHANGED <<done, node, needed>>
    PROVE  TablesOk' /\ Nodes' = Nodes
  BY DEF TablesOk, Nodes

\* A node changes, and perhaps some names are made by it.
LEMMA NodeTables ==
    ASSUME TablesOk, NEW n \in Nodes, NEW x, NodeOk(x), NEW ks,
           node' = [node EXCEPT ![n] = x], done' = Put(done, ks, n), needed' = needed
    PROVE  TablesOk' /\ Nodes' = Nodes
  BY DEF TablesOk, Nodes, Put

\* Putting nothing.
LEMMA PutNone ==
    ASSUME TablesOk, NEW n \in Nodes, NEW x, NodeOk(x),
           node' = [node EXCEPT ![n] = x], UNCHANGED <<done, needed>>
    PROVE  TablesOk' /\ Nodes' = Nodes
  BY DEF TablesOk, Nodes

\* BuildPlan begins.
LEMMA BuildPlanShape == ASSUME Shape, BuildPlan PROVE Shape'
  <1>1. PICK t : t = Called
    OBVIOUS
  <1>2. /\ t \notin DOMAIN done /\ done' = Put(done, {t}, t)
        /\ node' = Put(node, {t}, NewNode(t))
        /\ (\E m : needed' = Put(needed, {t}, m))
        /\ stack' = Append(stack, PickRule(NewCall(t), t))
        /\ UNCHANGED <<mk, roots, ret, status>> /\ status = "run"
    BY <1>1 DEF BuildPlan, Mark, Calling, Running
  <1>3. CallsOk(stack, Nodes) /\ TablesOk /\ RetOk /\ StatusOk /\ IsSeq(roots)
    BY DEF Shape, CallsOk
  <1>4. Nodes' = Nodes \cup {t} /\ t \notin Nodes
    BY <1>2, <1>3 DEF Nodes, Put, TablesOk
  <1>5. NodeOk(NewNode(t))
    <2>1. IsSeq(<< >>)
      BY DEF IsSeq
    <2> QED BY <2>1 DEF NodeOk, NewNode, NodeFields, EdgeFields
  <1>6. TablesOk'
    <2>1. DOMAIN needed' = Nodes'
      BY <1>2, <1>3, <1>4 DEF Put, TablesOk
    <2>2. Nodes' \subseteq DOMAIN done' /\ \A s \in DOMAIN done' : done'[s] \in Nodes'
      BY <1>2, <1>3, <1>4 DEF Put, TablesOk
    <2>3. \A n \in Nodes' : NodeOk(node'[n])
      BY <1>2, <1>3, <1>4, <1>5 DEF Put, TablesOk, Nodes
    <2> QED BY <2>1, <2>2, <2>3 DEF TablesOk
  <1>7. PICK g : g = PickRule(NewCall(t), t)
    OBVIOUS
  <1>8. CallOk(g) /\ g.node = t
    <2>1. PICK h : h = NewCall(t)
      OBVIOUS
    <2>2. CallOk(h) /\ h.node = t
      BY <2>1, NewCallIs
    <2>3. CallOk(g) /\ SameCall(h, g)
      BY <1>7, <2>1, <2>2, PickRuleIs
    <2> QED BY <2>2, <2>3 DEF SameCall
  <1>9. CallsOk(stack', Nodes') /\ stack' # << >>
    BY <1>2, <1>4, <1>7, <1>8, PushOk
  <1>10. RetOk' /\ StatusOk' /\ IsSeq(roots')
    BY <1>2, <1>3, <1>4 DEF RetOk, StatusOk
  <1> QED BY <1>6, <1>9, <1>10 DEF Shape

\* The call at work goes on to another candidate, input or loop.
LEMMA SetTopShape ==
    ASSUME Shape, stack # << >>, NEW g, CallOk(g), g.node = Top.node, stack' = SetTop(g),
           TablesOk', Nodes' = Nodes, RetOk', StatusOk', IsSeq(roots)'
    PROVE  Shape'
  <1>1. CallsOk(stack', Nodes')
    BY SetTopOk
  <1> QED BY <1>1 DEF Shape

\* PickRule goes on.
LEMMA PickShape ==
    ASSUME Shape, InputKnown \/ InputPlanned \/ NoneLeft \/ Chosen
    PROVE  Shape'
  <1>1. stack # << >> /\ status = "run" /\ UNCHANGED <<mk, roots, status, needed>> /\ RetOk'
    BY DEF InputKnown, InputPlanned, NoneLeft, Chosen, Probing, Ready, Returned, Running, RetOk,
           Shape, Nodes
  <1>2. CallOk(Top) /\ Top.node \in Nodes
    BY <1>1, TopIs
  <1>3. TablesOk /\ StatusOk /\ IsSeq(roots)
    BY DEF Shape
  <1>4. StatusOk' /\ IsSeq(roots)'
    BY <1>1, <1>3 DEF StatusOk
  <1>5. \E g : CallOk(g) /\ g.node = Top.node /\ stack' = SetTop(g)
    <2>1. PICK g : g = [Top EXCEPT !.ins = Tail(@)]
      OBVIOUS
    <2>2. PICK h : h = Try(Top, Top.try)
      OBVIOUS
    <2>3. CallOk(g) /\ g.node = Top.node
      BY <1>2, <2>1 DEF CallOk, CallFields
    <2>4. CallOk(h) /\ h.node = Top.node
      BY <1>2, <2>2, TryIs DEF SameCall
    <2>5. CASE InputKnown \/ InputPlanned
      BY <2>1, <2>2, <2>3, <2>4, <2>5 DEF InputKnown, InputPlanned, NextInput, NextCandidate
    <2>6. CASE NoneLeft \/ Chosen
      <3>1. PICK c : stack' = SetTop([Top EXCEPT !.at = "picked", !.chosen = c])
                     \/ stack' = SetTop([Top EXCEPT !.at = "picked"])
        BY <2>6 DEF NoneLeft, Chosen
      <3>2. PICK a : a = [Top EXCEPT !.at = "picked", !.chosen = c]
        OBVIOUS
      <3>3. PICK b : b = [Top EXCEPT !.at = "picked"]
        OBVIOUS
      <3>4. CallOk(a) /\ a.node = Top.node /\ CallOk(b) /\ b.node = Top.node
        BY <1>2, <3>2, <3>3 DEF CallOk, CallFields
      <3> QED BY <3>1, <3>2, <3>3, <3>4
    <2> QED BY <2>5, <2>6
  <1>6. TablesOk' /\ Nodes' = Nodes
    <2>1. CASE Chosen
      <3>1. PICK x : x = [node[Top.node] EXCEPT !.siblings = @ \cup Siblings(Cand)]
        OBVIOUS
      <3>2. node' = [node EXCEPT ![Top.node] = x]
        BY <2>1, <3>1 DEF Chosen
      <3>3. NodeOk(x)
        BY <1>2, <1>3, <3>1 DEF TablesOk, NodeOk, NodeFields, EdgeFields
      <3>4. PICK ks : done' = Put(done, ks, Top.node)
        BY <2>1 DEF Chosen
      <3> QED BY <1>1, <1>2, <1>3, <3>2, <3>3, <3>4, NodeTables
    <2>2. CASE ~Chosen
      BY <1>1, <1>3, <2>2, SameTables DEF InputKnown, InputPlanned, NoneLeft
    <2> QED BY <2>1, <2>2
  <1> QED BY <1>1, <1>4, <1>5, <1>6, SetTopShape

\* The rule of the parent is picked instead.
LEMMA PickParentShape == ASSUME Shape, PickParent PROVE Shape'
  <1>1. stack # << >> /\ UNCHANGED <<mk, roots, ret, status, needed>>
    BY DEF PickParent, Picked
  <1>2. CallOk(Top) /\ Top.node \in Nodes
    BY <1>1, TopIs
  <1>3. TablesOk /\ StatusOk /\ IsSeq(roots) /\ RetOk /\ status = "run"
    BY DEF Shape, PickParent, Picked, Running
  <1>4. PICK p : /\ done' = Put(done, {p}, Top.node)
                 /\ node' = [node EXCEPT ![Top.node].output = p]
                 /\ stack' = SetTop(PickRule([Top EXCEPT !.second = TRUE], p))
    BY DEF PickParent, Mark
  <1>5. PICK f : f = [Top EXCEPT !.second = TRUE]
    OBVIOUS
  <1>6. CallOk(f) /\ f.node = Top.node
    BY <1>2, <1>5 DEF CallOk, CallFields
  <1>7. PICK g : g = PickRule(f, p)
    OBVIOUS
  <1>8. CallOk(g) /\ g.node = Top.node
    BY <1>6, <1>7, PickRuleIs DEF SameCall
  <1>9. PICK x : x = [node[Top.node] EXCEPT !.output = p]
    OBVIOUS
  <1>10. NodeOk(x)
    BY <1>2, <1>3, <1>9 DEF TablesOk, NodeOk, NodeFields, EdgeFields
  <1>11. TablesOk' /\ Nodes' = Nodes
    BY <1>1, <1>2, <1>3, <1>4, <1>9, <1>10, NodeTables
  <1>12. StatusOk' /\ IsSeq(roots)' /\ RetOk'
    BY <1>1, <1>3, <1>11 DEF StatusOk, RetOk
  <1> QED BY <1>1, <1>4, <1>5, <1>7, <1>8, <1>11, <1>12, SetTopShape

\* What FillDepNode changes.
LEMMA FillIs ==
    ASSUME Shape, FillDepNode
    PROVE  /\ stack # << >> /\ status = "run" /\ UNCHANGED <<mk, goals, roots, ret, needed>>
           /\ \E x, g : /\ node' = [node EXCEPT ![Top.node] = x] /\ NodeOk(x)
                        /\ x.output = Top.out /\ x.implicit = ImplicitOutputs(mk, Top.out)
                        /\ x.siblings = node[Top.node].siblings
                        /\ x.hasRule = node[Top.node].hasRule /\ x.default = node[Top.node].default
                        /\ \A k \in EdgeFields : x[k] = node[Top.node][k]
                        /\ stack' = SetTop(g) /\ CallOk(g) /\ g.node = Top.node /\ g.at = "deps"
                        /\ g.out = Top.out /\ g.second = Top.second /\ g.chosen = Top.chosen
                        /\ g.cands = Top.cands
           /\ done' = Put(done, Range(ImplicitOutputs(mk, Top.out)), Top.node)
           /\ status' \in {"error", status}
  <1>1. stack # << >> /\ status = "run" /\ UNCHANGED <<mk, goals, roots, ret, needed>>
    BY DEF FillDepNode, Picked, Running
  <1>2. CallOk(Top) /\ Top.node \in Nodes /\ NodeOk(node[Top.node])
    BY <1>1, TopIs DEF Shape, TablesOk
  <1>3. PICK a, b, c, d, e :
           /\ node' = [node EXCEPT ![Top.node] =
                 [node[Top.node] EXCEPT !.output = Top.out, !.cmds = a,
                                        !.implicit = ImplicitOutputs(mk, Top.out), !.pool = b]]
           /\ stack' = SetTop([Top EXCEPT !.at = "deps", !.out = Top.out, !.chosen = Top.chosen,
                                 !.saved = scope,
                                 !.rest = [deps |-> c, orders |-> d, validations |-> e]])
           /\ done' = Put(done, Range(ImplicitOutputs(mk, Top.out)), Top.node)
           /\ status' \in {"error", status}
    BY DEF FillDepNode, Fill
  <1>4. PICK x : x = [node[Top.node] EXCEPT !.output = Top.out, !.cmds = a,
                                  !.implicit = ImplicitOutputs(mk, Top.out), !.pool = b]
    OBVIOUS
  <1>5. /\ NodeOk(x) /\ x.output = Top.out /\ x.implicit = ImplicitOutputs(mk, Top.out)
        /\ x.siblings = node[Top.node].siblings
        /\ x.hasRule = node[Top.node].hasRule /\ x.default = node[Top.node].default
        /\ \A k \in EdgeFields : x[k] = node[Top.node][k]
    BY <1>2, <1>4 DEF NodeOk, NodeFields, EdgeFields
  <1>6. PICK g : g = [Top EXCEPT !.at = "deps", !.out = Top.out, !.chosen = Top.chosen,
                        !.saved = scope, !.rest = [deps |-> c, orders |-> d, validations |-> e]]
    OBVIOUS
  <1>7. /\ CallOk(g) /\ g.node = Top.node /\ g.at = "deps" /\ g.out = Top.out
        /\ g.second = Top.second /\ g.chosen = Top.chosen /\ g.cands = Top.cands
    BY <1>2, <1>6 DEF CallOk, CallFields, EdgeFields
  <1> QED BY <1>1, <1>3, <1>4, <1>5, <1>6, <1>7

\* FillDepNode keeps Shape.
LEMMA FillShape == ASSUME Shape, FillDepNode PROVE Shape'
  <1>1. /\ stack # << >> /\ status = "run" /\ UNCHANGED <<mk, roots, ret, needed>>
        /\ done' = Put(done, Range(ImplicitOutputs(mk, Top.out)), Top.node)
        /\ status' \in {"error", status}
    BY FillIs
  <1>2. PICK x, g : /\ node' = [node EXCEPT ![Top.node] = x] /\ NodeOk(x)
                    /\ stack' = SetTop(g) /\ CallOk(g) /\ g.node = Top.node
    BY FillIs
  <1>3. TablesOk /\ StatusOk /\ IsSeq(roots) /\ RetOk /\ Top.node \in Nodes
    BY <1>1, TopIs DEF Shape
  <1>4. TablesOk' /\ Nodes' = Nodes
    BY <1>1, <1>2, <1>3, NodeTables
  <1>5. StatusOk' /\ IsSeq(roots)' /\ RetOk'
    BY <1>1, <1>3, <1>4 DEF StatusOk, RetOk
  <1> QED BY <1>1, <1>2, <1>4, <1>5, SetTopShape

\* What AddDep changes.
LEMMA AddDepIs ==
    ASSUME Shape, AddDep
    PROVE  /\ stack # << >> /\ Top.at = "deps" /\ ret # << >>
           /\ status = "run" /\ UNCHANGED <<mk, goals, roots, done, needed>>
           /\ \E x, g, k : /\ node' = [node EXCEPT ![Top.node] = x] /\ NodeOk(x)
                           /\ x.output = node[Top.node].output
                           /\ x.implicit = node[Top.node].implicit
                           /\ x.siblings = node[Top.node].siblings
                           /\ x.hasRule = node[Top.node].hasRule /\ x.default = node[Top.node].default
                           /\ k \in EdgeFields
                           /\ Range(x[k]) = Range(node[Top.node][k]) \cup {<<Called, ret[1]>>}
                           /\ \A l \in EdgeFields : l # k => x[l] = node[Top.node][l]
                           /\ stack' = SetTop(g) /\ CallOk(g) /\ g.node = Top.node /\ g.at = "deps"
                           /\ g.out = Top.out /\ g.second = Top.second /\ g.chosen = Top.chosen
                           /\ g.cands = Top.cands
           /\ ret' = << >> /\ status' \in {"error", status}
  <1>1. /\ stack # << >> /\ Top.at = "deps" /\ ret # << >> /\ ret' = << >>
        /\ status = "run" /\ UNCHANGED <<mk, goals, roots, done, needed>>
        /\ status' \in {"error", status}
    BY DEF AddDep, Returned, Running
  <1>2. CallOk(Top) /\ Top.node \in Nodes /\ NodeOk(node[Top.node])
    BY <1>1, TopIs DEF Shape, TablesOk
  <1>3. PICK k : k = Kind
    OBVIOUS
  <1>4. k \in EdgeFields
    BY <1>3 DEF Kind, EdgeFields
  <1>5. /\ node' = [node EXCEPT ![Top.node][k] = Append(@, <<Called, ret[1]>>)]
        /\ stack' = SetTop([Top EXCEPT !.rest[k] = Tail(@)])
    BY <1>3 DEF AddDep
  <1>6. PICK l : l = node[Top.node][k]
    OBVIOUS
  <1>7. PICK x : x = [node[Top.node] EXCEPT ![k] = Append(l, <<Called, ret[1]>>)]
    OBVIOUS
  <1>8. node' = [node EXCEPT ![Top.node] = x]
    BY <1>5, <1>6, <1>7
  <1>9. /\ IsSeq(Append(l, <<Called, ret[1]>>))
        /\ Range(Append(l, <<Called, ret[1]>>)) = Range(l) \cup {<<Called, ret[1]>>}
    BY <1>2, <1>4, <1>6, AppendIs DEF NodeOk
  <1>10. /\ DOMAIN x = DOMAIN node[Top.node] /\ NodeFields \subseteq DOMAIN x
         /\ x[k] = Append(l, <<Called, ret[1]>>)
         /\ \A f \in NodeFields : f # k => x[f] = node[Top.node][f]
    BY <1>2, <1>4, <1>7 DEF NodeOk, NodeFields
  <1>11. NodeOk(x)
    BY <1>2, <1>9, <1>10 DEF NodeOk, NodeFields
  <1>12. /\ x.output = node[Top.node].output /\ x.implicit = node[Top.node].implicit
         /\ x.siblings = node[Top.node].siblings
         /\ x.hasRule = node[Top.node].hasRule /\ x.default = node[Top.node].default
         /\ \A f \in EdgeFields : f # k => x[f] = node[Top.node][f]
    BY <1>4, <1>10 DEF NodeFields, EdgeFields
  <1>13. PICK g : g = [Top EXCEPT !.rest[k] = Tail(@)]
    OBVIOUS
  <1>14. /\ CallOk(g) /\ g.node = Top.node /\ g.at = Top.at /\ g.out = Top.out
         /\ g.second = Top.second /\ g.chosen = Top.chosen /\ g.cands = Top.cands
    BY <1>2, <1>4, <1>13 DEF CallOk, CallFields
  <1>15. stack' = SetTop(g) /\ g.at = "deps"
    BY <1>1, <1>5, <1>13, <1>14
  <1>16. Range(x[k]) = Range(node[Top.node][k]) \cup {<<Called, ret[1]>>}
    BY <1>6, <1>9, <1>10
  <1> QED BY <1>1, <1>4, <1>8, <1>11, <1>12, <1>14, <1>15, <1>16, Zenon

\* AddDep keeps Shape.
LEMMA AddDepShape == ASSUME Shape, AddDep PROVE Shape'
  <1>1. /\ stack # << >> /\ status = "run" /\ UNCHANGED <<mk, roots, done, needed>>
        /\ ret' = << >> /\ status' \in {"error", status}
    BY AddDepIs
  <1>2. PICK x, g : /\ node' = [node EXCEPT ![Top.node] = x] /\ NodeOk(x)
                    /\ stack' = SetTop(g) /\ CallOk(g) /\ g.node = Top.node
    BY AddDepIs
  <1>3. TablesOk /\ StatusOk /\ IsSeq(roots) /\ RetOk /\ Top.node \in Nodes
    BY <1>1, TopIs DEF Shape
  <1>4. TablesOk' /\ Nodes' = Nodes
    BY <1>1, <1>2, <1>3, PutNone
  <1>5. StatusOk' /\ IsSeq(roots)' /\ RetOk'
    BY <1>1, <1>3, <1>4 DEF StatusOk, RetOk
  <1> QED BY <1>1, <1>2, <1>4, <1>5, SetTopShape

\* What ReturnNode changes.
LEMMA ReturnNodeIs ==
    ASSUME Shape, ReturnNode
    PROVE  /\ stack # << >> /\ Top.at = "deps" /\ status = "run" /\ ret = << >>
           /\ UNCHANGED <<mk, goals, roots, done, needed>>
           /\ \E x : /\ node' = [node EXCEPT ![Top.node] = x] /\ NodeOk(x)
                     /\ x.output = node[Top.node].output
                     /\ x.implicit = node[Top.node].implicit
                     /\ x.siblings = node[Top.node].siblings
                     /\ x.hasRule = TRUE /\ x.vars = scope /\ x.default = (Top.out = FirstRule(mk))
                     /\ \A k \in EdgeFields : x[k] = node[Top.node][k]
           /\ ret' = <<Top.node>> /\ stack' = Front(stack) /\ status' \in {"error", status}
  <1>1. /\ stack # << >> /\ Top.at = "deps" /\ status = "run" /\ ret = << >>
        /\ UNCHANGED <<mk, goals, roots, done, needed>>
        /\ ret' = <<Top.node>> /\ stack' = Front(stack) /\ status' \in {"error", status}
    BY DEF ReturnNode, Running
  <1>2. Top.node \in Nodes /\ NodeOk(node[Top.node])
    BY <1>1, TopIs DEF Shape, TablesOk
  <1>3. PICK b : b = (Top.out = FirstRule(mk))
    OBVIOUS
  <1>4. PICK x : x = [node[Top.node] EXCEPT !.hasRule = TRUE, !.vars = scope, !.default = b]
    OBVIOUS
  <1>5. node' = [node EXCEPT ![Top.node] = x]
    <2>1. node' = [node EXCEPT ![Top.node].hasRule = TRUE, ![Top.node].vars = scope, ![Top.node].default = b]
      BY <1>3 DEF ReturnNode
    <2> QED BY <1>2, <1>4, <2>1 DEF Nodes
  <1>6. /\ NodeOk(x) /\ x.output = node[Top.node].output /\ x.implicit = node[Top.node].implicit
        /\ x.siblings = node[Top.node].siblings /\ x.hasRule = TRUE /\ x.vars = scope /\ x.default = b
        /\ \A k \in EdgeFields : x[k] = node[Top.node][k]
    <2>1. PICK y : y = node[Top.node]
      OBVIOUS
    <2>2. DOMAIN x = DOMAIN y /\ x = [y EXCEPT !.hasRule = TRUE, !.vars = scope, !.default = b]
      BY <1>4, <2>1
    <2>3. x.hasRule = TRUE /\ x.vars = scope /\ x.default = b
      BY <1>2, <2>1, <2>2 DEF NodeOk, NodeFields
    <2>4. x.output = y.output /\ x.implicit = y.implicit /\ x.siblings = y.siblings
      BY <1>2, <2>1, <2>2 DEF NodeOk, NodeFields
    <2>5. \A k \in EdgeFields : x[k] = y[k]
      BY <1>2, <2>1, <2>2 DEF NodeOk, NodeFields, EdgeFields
    <2>6. NodeOk(x)
      BY <1>2, <2>1, <2>2, <2>5 DEF NodeOk
    <2> QED BY <2>1, <2>3, <2>4, <2>5, <2>6
  <1>7. x.default = (Top.out = FirstRule(mk))
    BY <1>3, <1>6
  <1> QED BY <1>1, <1>5, <1>6, <1>7, Zenon

\* A call that returns keeps Shape.
LEMMA ReturnShape == ASSUME Shape, ReturnNode \/ NoRule PROVE Shape'
  <1>1. /\ stack # << >> /\ status = "run" /\ UNCHANGED <<mk, roots, done, needed>>
        /\ ret' = <<Top.node>> /\ stack' = Front(stack) /\ status' \in {"error", status}
    BY ReturnNodeIs DEF NoRule, Ready, Running
  <1>2. TablesOk /\ StatusOk /\ IsSeq(roots) /\ Top.node \in Nodes
    BY <1>1, TopIs DEF Shape
  <1>3. TablesOk' /\ Nodes' = Nodes
    <2>1. CASE ReturnNode
      <3>1. PICK x : node' = [node EXCEPT ![Top.node] = x] /\ NodeOk(x)
        BY <2>1, ReturnNodeIs
      <3> QED BY <1>1, <1>2, <3>1, PutNone
    <2>2. CASE NoRule
      BY <1>1, <1>2, <2>2, SameTables DEF NoRule
    <2> QED BY <2>1, <2>2
  <1>4. CallsOk(stack', Nodes')
    BY <1>1, <1>3, FrontOk
  <1>5. StatusOk' /\ IsSeq(roots)' /\ RetOk'
    BY <1>1, <1>2, <1>3 DEF StatusOk, RetOk
  <1> QED BY <1>3, <1>4, <1>5 DEF Shape

\* The other steps keep Shape.
LEMMA OtherShape == ASSUME Shape, FoundDone \/ ReturnRoot \/ Finish \/ Ended \/ UNCHANGED vars PROVE Shape'
  <1>1. UNCHANGED <<mk, stack, done, node, needed>>
    BY DEF FoundDone, ReturnRoot, Finish, Ended, vars
  <1>2. CallsOk(stack, Nodes) /\ TablesOk /\ RetOk /\ StatusOk /\ IsSeq(roots)
    BY DEF Shape
  <1>3. TablesOk' /\ Nodes' = Nodes
    BY <1>1, <1>2, SameTables
  <1>4. CallsOk(stack', Nodes')
    BY <1>1, <1>2, <1>3
  <1>5. RetOk'
    BY <1>2, <1>3 DEF RetOk, FoundDone, ReturnRoot, Finish, Ended, vars, TablesOk
  <1>6. StatusOk'
    BY <1>1, <1>2 DEF StatusOk, FoundDone, ReturnRoot, Finish, Ended, vars, Running, Calling
  <1>7. IsSeq(roots')
    <2>1. CASE ReturnRoot
      BY <1>2, <2>1, AppendIs DEF ReturnRoot
    <2>2. CASE ~ReturnRoot
      BY <1>2, <2>2 DEF FoundDone, Finish, Ended, vars
    <2> QED BY <2>1, <2>2
  <1> QED BY <1>3, <1>4, <1>5, <1>6, <1>7 DEF Shape

\* Every step keeps Shape.
LEMMA ShapeStep == ASSUME Shape, [Next]_vars PROVE Shape'
  BY BuildPlanShape, PickShape, PickParentShape, FillShape, AddDepShape, ReturnShape, OtherShape
     DEF Next

\* It holds at first.
LEMMA ShapeInit == Init => Shape
  <1> SUFFICES ASSUME Init PROVE Shape
    OBVIOUS
  <1>1. IsSeq(<< >>)
    BY DEF IsSeq
  <1>2. CallsOk(stack, Nodes) /\ RetOk /\ StatusOk /\ IsSeq(roots)
    BY <1>1 DEF Init, CallsOk, RetOk, StatusOk
  <1>3. TablesOk
    BY DEF Init, TablesOk, Nodes
  <1> QED BY <1>2, <1>3 DEF Shape

\* The tables of BuildPlan fit together for every Makefile, with any rules,
\* patterns, variables and goals: a target has at most one call, although a
\* plan is asked for in the middle of others, and every name in done_ has a node.
THEOREM TypeCorrect == Spec => []TypeOK
  <1>1. Init => Shape
    BY ShapeInit
  <1>2. Shape /\ [Next]_vars => Shape'
    BY ShapeStep
  <1>3. Shape => TypeOK
    <2> SUFFICES ASSUME Shape PROVE TypeOK
      OBVIOUS
    <2>1. DOMAIN stack = 1 .. Len(stack)
      BY SeqIs DEF Shape, CallsOk
    <2> QED BY <2>1 DEF Shape, CallsOk, TablesOk, TypeOK
  <1> QED BY <1>1, <1>2, <1>3, PTL DEF Spec

-----------------------------------------------------------------------------
(* PlanInv.                                                                *)

\* What PopulateRules has checked.
LEMMA ParentIs ==
    ASSUME ~PopulateError(mk), NEW t, NEW p \in Parents(mk, t)
    PROVE  /\ p \in DOMAIN mk.implicit /\ t \in Range(ImplicitOutputs(mk, p))
           /\ PrimaryRule(mk, p) # 0 /\ Parents(mk, t) = {p} /\ PrimaryRule(mk, t) = 0
           /\ RulesFor(mk, p) # << >>
  <1>1. p \in DOMAIN mk.implicit /\ t \in Range(ImplicitOutputs(mk, p))
    BY DEF Parents
  <1>2. PICK i \in DOMAIN ImplicitOutputs(mk, p) : t = ImplicitOutputs(mk, p)[i]
    BY <1>1 DEF Range
  <1>3. PrimaryRule(mk, p) # 0 /\ Parents(mk, t) = {p} /\ PrimaryRule(mk, t) = 0
    BY <1>1, <1>2 DEF PopulateError
  <1>4. RulesFor(mk, p) # << >>
    <2>1. Range(<< >>) = {}
      BY DEF Range
    <2> QED BY <1>1, <2>1 DEF ImplicitOutputs, Words
  <1> QED BY <1>1, <1>3, <1>4

\* The Makefile stays the same, and an error ends the run.
LEMMA StepKeeps ==
    ASSUME [Next]_vars
    PROVE  mk' = mk /\ (status' # "error" => status # "error") /\ (Unmatched' <=> Unmatched)
  <1>1. mk' = mk
    BY DEF Next, vars, BuildPlan, FoundDone, ReturnRoot, InputKnown, InputPlanned, Chosen, NoneLeft,
           NoRule, PickParent, FillDepNode, AddDep, ReturnNode, Finish, Ended
  <1>2. status = "error" => status' = "error"
    BY DEF Next, vars, BuildPlan, FoundDone, ReturnRoot, InputKnown, InputPlanned, Chosen, NoneLeft,
           NoRule, PickParent, FillDepNode, AddDep, ReturnNode, Finish, Ended, Calling, Running,
           Returned, Ready, Picked
  <1> QED BY <1>1, <1>2 DEF Unmatched

\* The call at work changes.
LEMMA SetTopRight ==
    ASSUME Shape, CallsRight, stack # << >>, NEW g, CallOk(g), g.node = Top.node,
           stack' = SetTop(g), mk' = mk, CallRight(mk, g), ret' = << >> \/ Waits(mk, g)
    PROVE  CallsRight'
  <1>1. /\ stack' # << >> /\ Len(stack') = Len(stack) /\ Top' = g
        /\ \A i \in 1 .. Len(stack) : i # Len(stack) => stack'[i] = stack[i]
    BY SetTopOk
  <1>2. \A i \in 1 .. Len(stack) : stack'[i] = IF i = Len(stack) THEN g ELSE stack[i]
    BY <1>1 DEF Top
  <1>3. \A i \in 1 .. Len(stack') : CallRight(mk', stack'[i])
    BY <1>1, <1>2 DEF CallsRight
  <1>4. \A i \in 1 .. Len(stack') : i # Len(stack') => Waits(mk', stack'[i])
    BY <1>1, <1>2 DEF CallsRight
  <1> QED BY <1>1, <1>3, <1>4 DEF CallsRight

\* A call returns.
LEMMA FrontRight ==
    ASSUME Shape, CallsRight, stack # << >>, stack' = Front(stack), mk' = mk
    PROVE  CallsRight'
  <1>1. /\ IsSeq(stack') /\ Len(stack') = Len(stack) - 1
        /\ \A i \in 1 .. Len(stack') : /\ i \in 1 .. Len(stack) /\ i # Len(stack)
                                       /\ stack'[i] = stack[i]
    BY FrontOk DEF CallsOk
  <1>2. \A i \in 1 .. Len(stack') : CallRight(mk', stack'[i]) /\ Waits(mk', stack'[i])
    BY <1>1 DEF CallsRight
  <1>3. stack' # << >> => Len(stack') \in 1 .. Len(stack')
    <2>1. stack' # << >> => Len(stack') \in Nat /\ Len(stack') > 0
      BY <1>1, SeqIs
    <2> QED BY <2>1
  <1> QED BY <1>2, <1>3 DEF CallsRight, Top

\* A call is made only by one that can wait.
LEMMA CallerWaits ==
    ASSUME Shape, CallsRight, Calling, stack # << >>
    PROVE  Waits(mk, Top)
  <1>1. CallRight(mk, Top)
    BY TopIs DEF CallsRight, Top
  <1> QED BY <1>1 DEF Calling, Probing, Left, Waits, CallRight

\* BuildPlan begins.
LEMMA BuildPlanRight ==
    ASSUME Shape, CallsRight, Unmatched, BuildPlan
    PROVE  CallsRight'
  <1>1. PICK t : t = Called
    OBVIOUS
  <1>2. /\ t \notin DOMAIN done /\ stack' = Append(stack, PickRule(NewCall(t), t))
        /\ Calling /\ mk' = mk /\ ret' = ret /\ ret = << >> /\ status = "run"
    BY <1>1 DEF BuildPlan, Calling, Running
  <1>3. t \notin Nodes /\ ~PopulateError(mk)
    BY <1>2 DEF Shape, TablesOk, StatusOk
  <1>4. PICK h : h = NewCall(t)
    OBVIOUS
  <1>5. CallOk(h) /\ h.node = t /\ h.second = FALSE /\ h.chosen = NoCandidate
    BY <1>4, NewCallIs
  <1>6. PICK g : g = PickRule(h, t)
    OBVIOUS
  <1>7. /\ CallOk(g) /\ g.node = t /\ g.second = FALSE /\ g.chosen = NoCandidate
        /\ g.at = "pick" /\ g.out = t /\ (g.cands # << >> => g.cands = Candidates(mk, t))
        /\ g.try \in DOMAIN g.cands => PrimaryRule(mk, t) = 0 /\ Candidates(mk, t) # << >>
    BY <1>5, <1>6, PickRuleIs DEF SameCall
  <1>8. Candidates(mk, t) # << >> => Parents(mk, t) = {}
    <2>1. \A p \in Parents(mk, t) : p \in DOMAIN mk.implicit /\ t \in Range(ImplicitOutputs(mk, p))
      BY DEF Parents
    <2> QED BY <2>1 DEF Unmatched
  <1>9. CallRight(mk, g)
    BY <1>7, <1>8 DEF CallRight, Free
  <1>10. /\ Len(stack') = Len(stack) + 1 /\ Top' = g /\ stack' # << >>
         /\ \A i \in 1 .. Len(stack) : stack'[i] = stack[i]
    <2>1. PICK ns : ns = Nodes \cup {t}
      OBVIOUS
    <2>2. stack' = Append(stack, g) /\ g.node \notin Nodes /\ Nodes \subseteq ns /\ g.node \in ns
      BY <1>2, <1>3, <1>4, <1>6, <1>7, <2>1
    <2> QED BY <1>7, <2>2, PushOk
  <1>11. Len(stack) \in Nat /\ (stack # << >> <=> Len(stack) > 0)
    BY SeqIs DEF Shape, CallsOk
  <1>12. \A i \in 1 .. Len(stack') : i = Len(stack') \/ i \in 1 .. Len(stack)
    BY <1>10, <1>11
  <1>13. \A i \in 1 .. Len(stack) : Waits(mk, stack[i])
    <2> SUFFICES ASSUME NEW i \in 1 .. Len(stack) PROVE Waits(mk, stack[i])
      OBVIOUS
    <2>1. CASE i # Len(stack)
      BY <2>1 DEF CallsRight
    <2>2. CASE i = Len(stack)
      BY <1>2, <1>11, <2>2, CallerWaits DEF Top
    <2> QED BY <2>1, <2>2
  <1>14. \A i \in 1 .. Len(stack') : CallRight(mk', stack'[i])
    BY <1>2, <1>9, <1>10, <1>12 DEF CallsRight, Top
  <1>15. \A i \in 1 .. Len(stack') : i # Len(stack') => Waits(mk', stack'[i])
    BY <1>2, <1>10, <1>12, <1>13
  <1> QED BY <1>2, <1>14, <1>15 DEF CallsRight

\* PickRule goes on; an input is asked for, and a candidate chosen, only where
\* the target has no commands and no parent.
LEMMA PickRight ==
    ASSUME Shape, CallsRight, InputKnown \/ InputPlanned \/ NoneLeft \/ Chosen
    PROVE  CallsRight'
  <1>1. stack # << >> /\ mk' = mk /\ ret' = << >>
    BY DEF InputKnown, InputPlanned, NoneLeft, Chosen, Probing, Ready, Returned
  <1>2. CallOk(Top) /\ CallRight(mk, Top)
    BY <1>1, TopIs DEF CallsRight, Top
  <1>3. \E g : CallOk(g) /\ g.node = Top.node /\ stack' = SetTop(g) /\ CallRight(mk, g)
    <2>1. CASE InputKnown \/ InputPlanned
      <3>1. Top.at = "pick" /\ Free(mk, Top)
        <4>1. CASE InputKnown
          BY <1>2, <4>1 DEF InputKnown, Probing, Left, CallRight
        <4>2. CASE InputPlanned
          BY <1>1, <4>2 DEF InputPlanned, Returned, CallsRight, Waits
        <4> QED BY <2>1, <4>1, <4>2
      <3>2. PICK g : g = [Top EXCEPT !.ins = Tail(@)]
        OBVIOUS
      <3>3. PICK h : h = Try(Top, Top.try)
        OBVIOUS
      <3>4. /\ CallOk(g) /\ g.node = Top.node /\ g.at = Top.at /\ g.out = Top.out
            /\ g.second = Top.second /\ g.chosen = Top.chosen /\ g.cands = Top.cands
        BY <1>2, <3>2 DEF CallOk, CallFields
      <3>5. /\ CallOk(h) /\ h.node = Top.node /\ h.at = Top.at /\ h.out = Top.out
            /\ h.second = Top.second /\ h.chosen = Top.chosen /\ h.cands = Top.cands
        BY <1>2, <3>3, TryIs DEF SameCall
      <3>6. CallRight(mk, g) /\ CallRight(mk, h)
        BY <1>2, <3>1, <3>4, <3>5 DEF CallRight, Free
      <3>7. stack' = SetTop(g) \/ stack' = SetTop(h)
        BY <2>1, <3>2, <3>3 DEF InputKnown, InputPlanned, NextInput, NextCandidate
      <3> QED BY <3>4, <3>5, <3>6, <3>7
    <2>2. CASE NoneLeft
      <3>1. PICK g : g = [Top EXCEPT !.at = "picked"]
        OBVIOUS
      <3>2. /\ CallOk(g) /\ g.node = Top.node /\ g.at = "picked" /\ g.out = Top.out
            /\ g.second = Top.second /\ g.chosen = Top.chosen /\ g.cands = Top.cands
        BY <1>2, <3>1 DEF CallOk, CallFields
      <3>3. CallRight(mk, g)
        BY <1>2, <3>2 DEF CallRight, Free
      <3> QED BY <2>2, <3>1, <3>2, <3>3 DEF NoneLeft
    <2>3. CASE Chosen
      <3>1. PICK g : g = [Top EXCEPT !.at = "picked", !.chosen = Cand]
        OBVIOUS
      <3>2. /\ CallOk(g) /\ g.node = Top.node /\ g.at = "picked" /\ g.out = Top.out
            /\ g.second = Top.second /\ g.cands = Top.cands /\ g.chosen = Cand
        BY <1>2, <3>1 DEF CallOk, CallFields
      <3>3. Free(mk, Top) /\ Cand \in Range(Candidates(mk, Top.out))
        <4>1. Top.try \in DOMAIN Top.cands /\ Free(mk, Top)
          BY <1>2, <2>3 DEF Chosen, Ready, Left, CallRight
        <4>2. Top.cands # << >> /\ Cand \in Range(Top.cands)
          BY <4>1 DEF Cand, Range
        <4> QED BY <1>2, <4>1, <4>2 DEF CallRight
      <3>4. CallRight(mk, g)
        BY <1>2, <3>2, <3>3 DEF CallRight, Free
      <3> QED BY <2>3, <3>1, <3>2, <3>4 DEF Chosen
    <2> QED BY <2>1, <2>2, <2>3
  <1> QED BY <1>1, <1>3, SetTopRight

\* The parent of an implicit output has commands, so that no candidate is
\* looked for, and none had been found for the implicit output itself.
LEMMA PickParentRight ==
    ASSUME Shape, CallsRight, PickParent
    PROVE  CallsRight'
  <1>1. /\ stack # << >> /\ mk' = mk /\ ret' = << >> /\ status = "run"
        /\ Top.at = "picked" /\ Top.second = FALSE /\ Parents(mk, Top.out) # {}
    <2>1. stack # << >> /\ Top.second \in BOOLEAN
      BY TopIs DEF CallOk, PickParent, Picked
    <2>2. ret = << >>
      BY DEF PickParent, Picked, CallsRight, Waits
    <2> QED BY <2>1, <2>2 DEF PickParent, Picked, Running, Parent
  <1>2. CallOk(Top) /\ CallRight(mk, Top)
    BY <1>1, TopIs DEF CallsRight, Top
  <1>3. PICK p \in Parents(mk, Top.out) : stack' = SetTop(PickRule([Top EXCEPT !.second = TRUE], p))
    BY <1>1 DEF PickParent, Parent
  <1>4. Top.out = Top.node
    BY <1>1, <1>2 DEF CallRight
  <1>5. ~PopulateError(mk)
    BY <1>1 DEF Shape, StatusOk
  <1>6. PrimaryRule(mk, p) # 0 /\ Parents(mk, Top.node) = {p}
    BY <1>3, <1>4, <1>5, ParentIs
  <1>7. PICK f : f = [Top EXCEPT !.second = TRUE]
    OBVIOUS
  <1>8. CallOk(f) /\ f.node = Top.node /\ f.second = TRUE /\ f.chosen = Top.chosen
    BY <1>2, <1>7 DEF CallOk, CallFields
  <1>9. PICK g : g = PickRule(f, p)
    OBVIOUS
  <1>10. /\ CallOk(g) /\ g.node = Top.node /\ g.second = TRUE /\ g.chosen = Top.chosen
         /\ g.at = "pick" /\ g.out = p /\ (g.cands # << >> => g.cands = Candidates(mk, p))
         /\ g.try \in DOMAIN g.cands => PrimaryRule(mk, p) = 0
    BY <1>8, <1>9, PickRuleIs DEF SameCall
  <1>11. Top.chosen = NoCandidate
    BY <1>2, <1>6 DEF CallRight, Free
  <1>12. CallRight(mk, g)
    BY <1>6, <1>10, <1>11 DEF CallRight
  <1> QED BY <1>1, <1>3, <1>7, <1>9, <1>10, <1>12, SetTopRight

\* The loops over the inputs.
LEMMA LoopRight ==
    ASSUME Shape, CallsRight, FillDepNode \/ AddDep
    PROVE  CallsRight'
  <1>1. /\ stack # << >> /\ mk' = mk
        /\ \E g : /\ stack' = SetTop(g) /\ CallOk(g) /\ g.node = Top.node /\ g.at = "deps"
                  /\ g.out = Top.out /\ g.second = Top.second /\ g.chosen = Top.chosen
                  /\ g.cands = Top.cands
    BY FillIs, AddDepIs
  <1>2. PICK g : /\ stack' = SetTop(g) /\ CallOk(g) /\ g.node = Top.node /\ g.at = "deps"
                 /\ g.out = Top.out /\ g.second = Top.second /\ g.chosen = Top.chosen
                 /\ g.cands = Top.cands
    BY <1>1
  <1>3. CallRight(mk, Top)
    BY <1>1, TopIs DEF CallsRight, Top
  <1>4. ~Top.second => Parents(mk, Top.node) = {}
    <2>1. CASE FillDepNode
      BY <1>3, <2>1 DEF FillDepNode, Picked, Parent, CallRight
    <2>2. CASE AddDep
      BY <1>3, <2>2, AddDepIs DEF CallRight
    <2> QED BY <2>1, <2>2
  <1>5. CallRight(mk, g) /\ Waits(mk, g)
    BY <1>2, <1>3, <1>4 DEF CallRight, Free, Waits
  <1> QED BY <1>1, <1>2, <1>5, SetTopRight

\* The other steps.
LEMMA OtherRight ==
    ASSUME Shape, CallsRight,
           FoundDone \/ ReturnRoot \/ Finish \/ Ended \/ UNCHANGED vars
    PROVE  CallsRight'
  <1>1. UNCHANGED <<mk, stack>>
    BY DEF FoundDone, ReturnRoot, Finish, Ended, vars
  <1>2. stack # << >> /\ ret' # << >> => Waits(mk, Top)
    BY CallerWaits DEF FoundDone, ReturnRoot, Finish, Ended, vars, CallsRight
  <1> QED BY <1>1, <1>2 DEF CallsRight, Top

\* A call that returns was made by one that can wait.
LEMMA ReturnRight ==
    ASSUME Shape, CallsRight, ReturnNode \/ NoRule
    PROVE  CallsRight'
  <1>1. stack # << >> /\ stack' = Front(stack) /\ mk' = mk
    BY DEF ReturnNode, NoRule, Ready
  <1> QED BY <1>1, FrontRight

\* Every step keeps PlanInv.
LEMMA PlanStep == ASSUME Shape, PlanInv, [Next]_vars PROVE PlanInv'
  <1> SUFFICES ASSUME status' # "error", Unmatched' PROVE CallsRight'
    BY DEF PlanInv
  <1>1. CallsRight /\ Unmatched
    BY StepKeeps DEF PlanInv
  <1> QED BY <1>1, BuildPlanRight, PickRight, PickParentRight, LoopRight, ReturnRight, OtherRight DEF Next

\* It holds at first.
LEMMA PlanInit == Init => PlanInv
  <1> SUFFICES ASSUME Init PROVE CallsRight
    BY DEF PlanInv
  <1>1. stack = << >> /\ ret = << >>
    BY DEF Init
  <1>2. 1 .. Len(stack) = {}
    BY <1>1
  <1> QED BY <1>1, <1>2 DEF CallsRight

-----------------------------------------------------------------------------
(* GraphInv: facts about the state before a step.                          *)

\* A node stays right for a target when it gets more outputs.
LEMMA RightMono ==
    ASSUME NEW m, NEW t, NEW x, NEW y, RightFor(m, t, x), y.output = x.output,
           Range(x.implicit) \subseteq Range(y.implicit), x.siblings \subseteq y.siblings
    PROVE  RightFor(m, t, y)
  BY DEF RightFor

\* A node changes, and its edges do not.
LEMMA SameEdges ==
    ASSUME NEW n \in Nodes, NEW x, node' = [node EXCEPT ![n] = x], EdgesOf(x) = EdgesOf(node[n]),
           roots' = roots
    PROVE  EdgesIn(node', roots') = EdgesIn(node, roots)
  <1>1. DOMAIN node' = DOMAIN node /\ \A k \in DOMAIN node : EdgesOf(node'[k]) = EdgesOf(node[k])
    BY DEF Nodes
  <1>2. NodeEdges(node') = NodeEdges(node)
    BY <1>1 DEF NodeEdges
  <1> QED BY <1>2 DEF EdgesIn

\* The edges of a node are those of its three lists.
LEMMA FieldEdges ==
    ASSUME NEW x, NEW y, \A k \in EdgeFields : x[k] = y[k]
    PROVE  EdgesOf(x) = EdgesOf(y)
  BY DEF EdgesOf, EdgeFields

\* A call that waits is for a target with no commands and no parent, or is
\* past FillDepNode.
LEMMA WaitingNode ==
    ASSUME FilledRight, Shape, NEW n, Opening(stack, n), Waits(mk, Top)
    PROVE  /\ n \in Nodes /\ node[n].implicit = << >> /\ PrimaryRule(mk, node[n].output) = 0
           /\ Parents(mk, n) = {}
  <1>1. stack # << >> /\ Top.node = n /\ Top.at # "deps"
    BY DEF Opening, Top
  <1>2. Len(stack) \in 1 .. Len(stack) /\ n \in Nodes
    BY <1>1, TopIs
  <1>3. node[n].output = Top.out /\ node[n].implicit = << >>
    BY <1>1, <1>2 DEF FilledRight, Top
  <1> QED BY <1>1, <1>2, <1>3 DEF Waits, Free

\* While a call waits, no node is an implicit output that has still its own name.
LEMMA NoneTurning ==
    ASSUME FilledRight, Shape, stack = << >> \/ Waits(mk, Top), NEW n
    PROVE  ~Turning(mk, stack, n)
  <1> SUFFICES ASSUME Turning(mk, stack, n) PROVE FALSE
    OBVIOUS
  <1>1. Opening(stack, n) /\ Parents(mk, n) # {}
    BY DEF Turning
  <1>2. Waits(mk, Top)
    BY <1>1 DEF Opening
  <1> QED BY <1>1, <1>2, WaitingNode

\* A node that is not such an output makes the target it was created for.
LEMMA OwnRight ==
    ASSUME OutputsRight, FilledRight, ~PopulateError(mk), NEW n \in Nodes, ~Turning(mk, stack, n)
    PROVE  RightFor(mk, n, node[n])
  <1>1. CASE Parents(mk, n) = {}
    <2>1. node[n].output = n
      BY <1>1 DEF OutputsRight
    <2> QED BY <2>1 DEF RightFor
  <1>2. CASE Parents(mk, n) # {}
    <2>1. ~Opening(stack, n)
      BY <1>2 DEF Turning
    <2>2. PICK p : p = node[n].output
      OBVIOUS
    <2>3. p # n /\ Parents(mk, n) = {p}
      BY <1>2, <2>1, <2>2 DEF OutputsRight
    <2>4. /\ n \in Range(ImplicitOutputs(mk, p)) /\ PrimaryRule(mk, p) # 0
          /\ PrimaryRule(mk, n) = 0
      BY <2>3, ParentIs
    <2>5. node[n].implicit = ImplicitOutputs(mk, p)
      BY <2>1, <2>2, <2>4 DEF FilledRight
    <2> QED BY <2>4, <2>5 DEF RightFor
  <1> QED BY <1>1, <1>2

\* What BuildPlan is called with.
LEMMA CalledIs ==
    ASSUME Shape, Calling \/ Returned("deps")
    PROVE  Called = Asked(stack, goals, Len(stack))
  <1>1. Len(stack) \in Nat /\ (stack # << >> <=> Len(stack) > 0)
    BY SeqIs DEF Shape, CallsOk
  <1>2. CASE stack = << >>
    BY <1>1, <1>2 DEF Called, Asked
  <1>3. CASE stack # << >>
    <2>1. Asked(stack, goals, Len(stack)) = Asks(Top)
      BY <1>1, <1>3 DEF Asked, Top
    <2>2. Top.at \in {"pick", "deps"}
      BY <1>3 DEF Calling, Probing, Returned
    <2>3. Asks(Top) = IF Top.at = "pick" THEN Head(Top.ins) ELSE Head(Top.rest[Kind])
      BY <2>2 DEF Asks, Kind, Kinds, EdgeFields
    <2> QED BY <1>3, <2>1, <2>3 DEF Called
  <1> QED BY <1>2, <1>3

\* An implicit output has a parent.
LEMMA ImplicitIs ==
    ASSUME ~PopulateError(mk), NEW p, NEW t \in Range(ImplicitOutputs(mk, p))
    PROVE  Parents(mk, t) = {p} /\ PrimaryRule(mk, t) = 0 /\ PrimaryRule(mk, p) # 0
  <1>1. Range(<< >>) = {}
    BY DEF Range
  <1>2. p \in DOMAIN mk.implicit
    BY <1>1 DEF ImplicitOutputs, Words
  <1>3. p \in Parents(mk, t)
    BY <1>2 DEF Parents
  <1> QED BY <1>3, ParentIs

\* The call at work changes: the calls still match.
LEMMA SetTopMatch ==
    ASSUME Shape, CallsMatch, stack # << >>, NEW g, CallOk(g), g.node = Top.node,
           stack' = SetTop(g), goals' = goals, ret' = << >>
    PROVE  CallsMatch'
  <1>1. /\ Len(stack') = Len(stack) /\ Top' = g /\ Len(stack) \in Nat
        /\ \A i \in 1 .. Len(stack) : i # Len(stack) => stack'[i] = stack[i]
    BY SetTopOk, TopIs
  <1>2. ASSUME NEW i \in 1 .. Len(stack) PROVE stack'[i].node = Asked(stack', goals', i - 1)
    <2>1. stack'[i].node = stack[i].node
      BY <1>1 DEF Top
    <2>2. stack[i].node = Asked(stack, goals, i - 1)
      BY DEF CallsMatch
    <2>3. i - 1 = 0 \/ (i - 1 \in 1 .. Len(stack) /\ i - 1 # Len(stack))
      BY <1>1
    <2>4. Asked(stack', goals', i - 1) = Asked(stack, goals, i - 1)
      BY <1>1, <2>3 DEF Asked
    <2> QED BY <2>1, <2>2, <2>4
  <1> QED BY <1>1, <1>2 DEF CallsMatch

\* A call is made: it is for what the call below asks for.
LEMMA PushMatch ==
    ASSUME Shape, CallsMatch, NEW g, CallOk(g), g.node \notin Nodes,
           g.node = Asked(stack, goals, Len(stack)),
           stack' = Append(stack, g), goals' = goals, ret' = << >>
    PROVE  CallsMatch'
  <1>1. Len(stack) \in Nat
    BY SeqIs DEF Shape, CallsOk
  <1>2. /\ Len(stack') = Len(stack) + 1 /\ Top' = g
        /\ \A i \in 1 .. Len(stack) : stack'[i] = stack[i]
    <2>1. PICK ns : ns = Nodes \cup {g.node}
      OBVIOUS
    <2>2. Nodes \subseteq ns /\ g.node \in ns
      BY <2>1
    <2> QED BY <2>2, PushOk
  <1>3. ASSUME NEW i \in 1 .. Len(stack') PROVE stack'[i].node = Asked(stack', goals', i - 1)
    <2>1. i - 1 = 0 \/ i - 1 \in 1 .. Len(stack)
      BY <1>1, <1>2
    <2>2. Asked(stack', goals', i - 1) = Asked(stack, goals, i - 1)
      BY <1>2, <2>1 DEF Asked
    <2>3. CASE i \in 1 .. Len(stack)
      BY <1>2, <2>2, <2>3 DEF CallsMatch
    <2>4. CASE i = Len(stack) + 1
      <3>1. stack'[i] = g
        BY <1>2, <2>4 DEF Top
      <3>2. i - 1 = Len(stack)
        BY <1>1, <2>4
      <3> QED BY <2>2, <3>1, <3>2
    <2> QED BY <1>1, <1>2, <2>3, <2>4
  <1> QED BY <1>3 DEF CallsMatch

\* A call returns a node that is right for its target: the call below asked for it.
LEMMA FrontMatch ==
    ASSUME Shape, CallsMatch, stack # << >>, stack' = Front(stack), goals' = goals, mk' = mk,
           NEW n, ret' = <<n>>, n = Top.node, RightFor(mk, n, node'[n])
    PROVE  CallsMatch'
  <1>1. Len(stack) \in Nat /\ Len(stack) > 0 /\ Len(stack) \in 1 .. Len(stack)
    BY TopIs
  <1>2. /\ Len(stack') = Len(stack) - 1
        /\ \A i \in 1 .. Len(stack') : /\ i \in 1 .. Len(stack) /\ i # Len(stack)
                                       /\ stack'[i] = stack[i]
    BY FrontOk
  <1>3. ASSUME NEW i \in 0 .. Len(stack') PROVE Asked(stack', goals', i) = Asked(stack, goals, i)
    BY <1>1, <1>2 DEF Asked
  <1>4. ASSUME NEW i \in 1 .. Len(stack') PROVE stack'[i].node = Asked(stack', goals', i - 1)
    <2>1. i - 1 \in 0 .. Len(stack')
      BY <1>1, <1>2
    <2>2. stack[i].node = Asked(stack, goals, i - 1)
      BY <1>2 DEF CallsMatch
    <2> QED BY <1>2, <1>3, <2>1, <2>2
  <1>5. Asked(stack', goals', Len(stack')) = n
    <2>1. Len(stack') \in 0 .. Len(stack') /\ Len(stack') = Len(stack) - 1
      BY <1>1, <1>2
    <2>2. Asked(stack, goals, Len(stack) - 1) = n
      BY <1>1 DEF CallsMatch, Top
    <2> QED BY <1>3, <2>1, <2>2
  <1>6. ret'[1] = n
    OBVIOUS
  <1> QED BY <1>4, <1>5, <1>6 DEF CallsMatch

\* The same node is at work before FillDepNode, or none is.
LEMMA SetTopOpening ==
    ASSUME Shape, stack # << >>, NEW g, CallOk(g), g.node = Top.node, stack' = SetTop(g), NEW n
    PROVE  /\ g.at # "deps" /\ Top.at # "deps" => (Opening(stack', n) <=> Opening(stack, n))
           /\ g.at = "deps" => ~Opening(stack', n)
  <1>1. Len(stack') = Len(stack) /\ Top' = g /\ stack' # << >>
    BY SetTopOk
  <1> QED BY <1>1 DEF Opening, Top

\* The node of a call is not that of another one.
LEMMA OtherCalls ==
    ASSUME Shape, stack # << >>, NEW i \in 1 .. Len(stack), i # Len(stack)
    PROVE  stack[i].node # Top.node /\ stack[i].node \in Nodes
  BY TopIs DEF Shape, CallsOk, Top

\* The calls before FillDepNode whose node the step leaves alone.
LEMMA SetTopFilled ==
    ASSUME Shape, FilledRight, stack # << >>, NEW g, CallOk(g), g.node = Top.node,
           stack' = SetTop(g), NEW x, node'[Top.node] = x,
           \A k \in Nodes : k # Top.node => node'[k] = node[k],
           g.at # "deps" => x.output = g.out /\ x.implicit = << >>
    PROVE  \A i \in 1 .. Len(stack') : stack'[i].at # "deps" =>
              /\ node'[stack'[i].node].output = stack'[i].out
              /\ node'[stack'[i].node].implicit = << >>
  <1>1. /\ Len(stack') = Len(stack) /\ Top' = g /\ Top.node \in Nodes
        /\ \A i \in 1 .. Len(stack) : i # Len(stack) => stack'[i] = stack[i]
    BY SetTopOk, TopIs
  <1> SUFFICES ASSUME NEW i \in 1 .. Len(stack), stack'[i].at # "deps"
               PROVE  /\ node'[stack'[i].node].output = stack'[i].out
                      /\ node'[stack'[i].node].implicit = << >>
    BY <1>1
  <1>2. CASE i # Len(stack)
    <2>1. stack'[i] = stack[i] /\ stack[i].node # Top.node /\ stack[i].node \in Nodes
      BY <1>1, <1>2, OtherCalls
    <2>2. node'[stack[i].node] = node[stack[i].node]
      BY <2>1
    <2> QED BY <2>1, <2>2 DEF FilledRight
  <1>3. CASE i = Len(stack)
    <2>1. stack'[i] = g
      BY <1>1, <1>3 DEF Top
    <2>2. node'[g.node] = x
      OBVIOUS
    <2> QED BY <2>1, <2>2
  <1> QED BY <1>2, <1>3

-----------------------------------------------------------------------------
(* GraphInv: the steps.                                                    *)

\* BuildPlan begins, while no node is about to get another name; when it is
\* for an implicit output, no node makes the parent yet, for it would have
\* made the implicit output too.
LEMMA BuildPlanGraph ==
    ASSUME Shape, CallsRight, GraphRight, BuildPlan
    PROVE  GraphRight'
  <1>1. PICK t : t = Called
    OBVIOUS
  <1>2. /\ t \notin DOMAIN done /\ done' = Put(done, {t}, t) /\ node' = Put(node, {t}, NewNode(t))
        /\ stack' = Append(stack, PickRule(NewCall(t), t))
        /\ Calling /\ UNCHANGED <<mk, goals, roots, ret>> /\ ret = << >> /\ status = "run"
    BY <1>1 DEF BuildPlan, Calling, Running, Mark
  <1>3. /\ OutputsRight /\ FilledRight /\ DoneRight /\ EdgesOk /\ CallsMatch /\ TablesOk
        /\ ~PopulateError(mk)
    BY <1>2 DEF GraphRight, Shape, StatusOk
  <1>4. stack = << >> \/ Waits(mk, Top)
    BY <1>2, CallerWaits
  <1>5. \A n : ~Turning(mk, stack, n)
    BY <1>3, <1>4, NoneTurning
  <1>6. PICK g : g = PickRule(NewCall(t), t)
    OBVIOUS
  <1>7. CallOk(g) /\ g.node = t /\ g.at = "pick" /\ g.out = t
    <2>1. PICK h : h = NewCall(t)
      OBVIOUS
    <2>2. CallOk(h) /\ h.node = t
      BY <2>1, NewCallIs
    <2>3. g = PickRule(h, t)
      BY <1>6, <2>1
    <2> QED BY <2>2, <2>3, PickRuleIs DEF SameCall
  <1>8. t \notin Nodes /\ Nodes' = Nodes \cup {t}
    BY <1>2, <1>3 DEF TablesOk, Nodes, Put
  <1>9. /\ Len(stack') = Len(stack) + 1 /\ Top' = g /\ stack' # << >>
        /\ \A i \in 1 .. Len(stack) : stack'[i] = stack[i]
    <2>1. PICK ns : ns = Nodes \cup {t}
      OBVIOUS
    <2>2. stack' = Append(stack, g) /\ g.node \notin Nodes /\ Nodes \subseteq ns /\ g.node \in ns
      BY <1>2, <1>6, <1>7, <1>8, <2>1
    <2> QED BY <1>7, <2>2, PushOk
  <1>10. \A n : Opening(stack', n) <=> n = t
    BY <1>7, <1>9 DEF Opening, Top
  <1>11. PICK x : x = NewNode(t)
    OBVIOUS
  <1>12. x.output = t /\ x.implicit = << >> /\ EdgesOf(x) = {}
    <2>1. Range(<< >>) = {}
      BY DEF Range
    <2> QED BY <1>11, <2>1 DEF NewNode, EdgesOf
  <1>13. node'[t] = x /\ \A n \in Nodes : node'[n] = node[n]
    BY <1>2, <1>8, <1>11 DEF Put, Nodes
  <1>14. DOMAIN done' = DOMAIN done \cup {t} /\ done'[t] = t /\ \A s \in DOMAIN done : done'[s] = done[s]
    BY <1>2 DEF Put
  <1>15. EdgesIn(node', roots') = EdgesIn(node, roots)
    <2>1. NodeEdges(node') = NodeEdges(node)
      BY <1>8, <1>12, <1>13 DEF NodeEdges, Nodes
    <2> QED BY <1>2, <2>1 DEF EdgesIn
  <1>16. OutputsRight'
    <2> SUFFICES ASSUME NEW n \in Nodes'
                 PROVE  /\ node'[n].output \in DOMAIN done' /\ Range(node'[n].implicit) \subseteq DOMAIN done'
                        /\ node'[n].output = n \/ Parents(mk, n) = {node'[n].output}
                        /\ node'[n].output = n /\ Parents(mk, n) # {} => Opening(stack', n)
                        /\ \A k \in Nodes' : node'[k].output = node'[n].output => k = n
      BY <1>2 DEF OutputsRight
    <2>1. \A k \in Nodes : node[k].output # t
      BY <1>2, <1>3 DEF OutputsRight
    <2>2. CASE n = t
      <3>1. Range(<< >>) = {}
        BY DEF Range
      <3> QED BY <1>8, <1>10, <1>12, <1>13, <1>14, <2>1, <2>2, <3>1
    <2>3. CASE n \in Nodes
      <3>1. ~(node[n].output = n /\ Parents(mk, n) # {})
        BY <1>3, <1>5, <2>3 DEF OutputsRight, Turning
      <3>2. \A k \in Nodes' : node'[k].output = node'[n].output => k = n
        BY <1>3, <1>8, <1>12, <1>13, <2>1, <2>3 DEF OutputsRight
      <3>3. /\ node[n].output \in DOMAIN done /\ Range(node[n].implicit) \subseteq DOMAIN done
            /\ node[n].output = n \/ Parents(mk, n) = {node[n].output}
        BY <1>3, <2>3 DEF OutputsRight
      <3> QED BY <1>13, <1>14, <2>3, <3>1, <3>2, <3>3
    <2> QED BY <1>8, <2>2, <2>3
  <1>17. FilledRight'
    <2>1. Len(stack) \in Nat
      BY SeqIs DEF Shape, CallsOk
    <2>2. ASSUME NEW i \in 1 .. Len(stack'), stack'[i].at # "deps"
          PROVE  /\ node'[stack'[i].node].output = stack'[i].out
                 /\ node'[stack'[i].node].implicit = << >>
      <3>1. CASE i = Len(stack')
        BY <1>7, <1>9, <1>12, <1>13, <3>1 DEF Top
      <3>2. CASE i # Len(stack')
        <4>1. i \in 1 .. Len(stack)
          BY <1>9, <2>1, <3>2
        <4>2. stack'[i] = stack[i] /\ stack[i].node \in Nodes
          BY <1>9, <4>1 DEF Shape, CallsOk
        <4> QED BY <1>3, <1>13, <2>2, <4>1, <4>2 DEF FilledRight
      <3> QED BY <3>1, <3>2
    <2>3. ASSUME NEW n \in Nodes'
          PROVE  \/ Opening(stack', n)
                 \/ node'[n].implicit = ImplicitOutputs(mk, node'[n].output)
                 \/ node'[n].implicit = << >> /\ PrimaryRule(mk, node'[n].output) = 0
      <3>1. CASE n = t
        BY <1>10, <3>1
      <3>2. CASE n \in Nodes /\ Opening(stack, n)
        <4>1. Waits(mk, Top)
          BY <1>4, <3>2 DEF Opening
        <4> QED BY <1>3, <1>13, <3>2, <4>1, WaitingNode
      <3>3. CASE n \in Nodes /\ ~Opening(stack, n)
        BY <1>3, <1>13, <3>3 DEF FilledRight
      <3> QED BY <1>8, <3>1, <3>2, <3>3
    <2> QED BY <1>2, <2>2, <2>3 DEF FilledRight
  <1>18. TurningRight'
    <2> SUFFICES ASSUME Parents(mk, t) # {}
                 PROVE  /\ \A s \in DOMAIN done' : done'[s] = t => s = t
                        /\ \A e \in EdgesIn(node, roots) : e[2] # t
                        /\ \A k \in Nodes' : node'[k].output \notin Parents(mk, t)
      <3>1. \A n : Turning(mk, stack', n) => n = t /\ Parents(mk, t) # {}
        BY <1>10 DEF Turning
      <3>2. node'[t].output = t
        BY <1>12, <1>13
      <3> QED BY <1>2, <1>15, <3>1, <3>2 DEF TurningRight
    <2>1. \A s \in DOMAIN done' : done'[s] = t => s = t
      BY <1>3, <1>8, <1>14 DEF TablesOk
    <2>2. \A e \in EdgesIn(node, roots) : e[2] # t
      BY <1>3, <1>8 DEF EdgesOk
    <2>3. ASSUME NEW k \in Nodes', node'[k].output \in Parents(mk, t) PROVE FALSE
      <3>1. PICK p : p = node'[k].output
        OBVIOUS
      <3>2. t \in Range(ImplicitOutputs(mk, p)) /\ PrimaryRule(mk, p) # 0 /\ PrimaryRule(mk, t) = 0
        BY <1>3, <2>3, <3>1, ParentIs
      <3>3. k \in Nodes /\ node[k].output = p
        BY <1>8, <1>12, <1>13, <3>1, <3>2
      <3>4. ~Opening(stack, k)
        <4>1. Opening(stack, k) => Waits(mk, Top)
          BY <1>4 DEF Opening
        <4> QED BY <1>3, <3>2, <3>3, <4>1, WaitingNode
      <3>5. node[k].implicit = ImplicitOutputs(mk, p)
        BY <1>3, <3>2, <3>3, <3>4 DEF FilledRight
      <3> QED BY <1>2, <1>3, <3>2, <3>3, <3>5 DEF OutputsRight
    <2> QED BY <2>1, <2>2, <2>3
  <1>19. DoneRight'
    <2>1. RightFor(mk, t, x)
      BY <1>12 DEF RightFor
    <2>2. \A s \in DOMAIN done : RightFor(mk, s, node[done[s]]) /\ done[s] \in Nodes
      BY <1>3, <1>5 DEF DoneRight, TablesOk
    <2>3. ASSUME NEW s \in DOMAIN done' PROVE RightFor(mk, s, node'[done'[s]])
      <3>1. CASE s = t
        BY <1>13, <1>14, <2>1, <3>1
      <3>2. CASE s \in DOMAIN done
        <4>1. done'[s] = done[s] /\ done[s] \in Nodes
          BY <1>14, <2>2, <3>2
        <4>2. node'[done'[s]] = node[done[s]]
          BY <1>13, <4>1
        <4> QED BY <2>2, <3>2, <4>2
      <3> QED BY <1>14, <3>1, <3>2
    <2> QED BY <1>2, <2>3 DEF DoneRight
  <1>20. EdgesOk'
    BY <1>2, <1>3, <1>8, <1>13, <1>15 DEF EdgesOk
  <1>21. CallsMatch'
    <2>1. t = Asked(stack, goals, Len(stack))
      BY <1>1, <1>2, CalledIs
    <2> QED BY <1>2, <1>3, <1>6, <1>7, <1>8, <2>1, PushMatch
  <1> QED BY <1>16, <1>17, <1>18, <1>19, <1>20, <1>21 DEF GraphRight

\* PickRule goes on, and the graph is left alone.
LEMMA PickGraph ==
    ASSUME Shape, GraphRight, InputKnown \/ InputPlanned \/ NoneLeft
    PROVE  GraphRight'
  <1>1. /\ stack # << >> /\ UNCHANGED <<mk, goals, roots, done, node>> /\ ret' = << >> /\ Top.at = "pick"
    BY DEF InputKnown, InputPlanned, NoneLeft, Probing, Ready, Returned
  <1>2. CallOk(Top) /\ Top.node \in Nodes /\ Len(stack) \in 1 .. Len(stack)
    BY <1>1, TopIs
  <1>3. PICK g : /\ CallOk(g) /\ g.node = Top.node /\ stack' = SetTop(g) /\ g.at # "deps"
                 /\ g.out = Top.out
    <2>1. PICK a : a = [Top EXCEPT !.ins = Tail(@)]
      OBVIOUS
    <2>2. PICK b : b = Try(Top, Top.try)
      OBVIOUS
    <2>3. PICK c : c = [Top EXCEPT !.at = "picked"]
      OBVIOUS
    <2>4. CallOk(a) /\ a.node = Top.node /\ a.at # "deps" /\ a.out = Top.out
      BY <1>1, <1>2, <2>1 DEF CallOk, CallFields
    <2>5. CallOk(b) /\ b.node = Top.node /\ b.at # "deps" /\ b.out = Top.out
      BY <1>1, <1>2, <2>2, TryIs DEF SameCall
    <2>6. CallOk(c) /\ c.node = Top.node /\ c.at # "deps" /\ c.out = Top.out
      BY <1>2, <2>3 DEF CallOk, CallFields
    <2>7. stack' = SetTop(a) \/ stack' = SetTop(b) \/ stack' = SetTop(c)
      BY <2>1, <2>2, <2>3 DEF InputKnown, InputPlanned, NoneLeft, NextInput, NextCandidate
    <2> QED BY <2>4, <2>5, <2>6, <2>7
  <1>4. \A n : Opening(stack', n) <=> Opening(stack, n)
    BY <1>1, <1>3, SetTopOpening
  <1>5. /\ OutputsRight /\ FilledRight /\ TurningRight /\ DoneRight /\ EdgesOk /\ CallsMatch
    BY DEF GraphRight
  <1>6. Nodes' = Nodes /\ EdgesIn(node', roots') = EdgesIn(node, roots)
    BY <1>1 DEF Nodes
  <1>7. OutputsRight'
    BY <1>1, <1>4, <1>5, <1>6 DEF OutputsRight
  <1>8. FilledRight'
    <2>1. PICK x : x = node[Top.node]
      OBVIOUS
    <2>2. x.output = g.out /\ x.implicit = << >>
      BY <1>1, <1>2, <1>3, <1>5, <2>1 DEF FilledRight, Top
    <2>3. node'[Top.node] = x /\ \A k \in Nodes : k # Top.node => node'[k] = node[k]
      BY <1>1, <2>1
    <2>4. \A i \in 1 .. Len(stack') : stack'[i].at # "deps" =>
              /\ node'[stack'[i].node].output = stack'[i].out
              /\ node'[stack'[i].node].implicit = << >>
      BY <1>1, <1>3, <1>5, <2>2, <2>3, SetTopFilled
    <2> QED BY <1>1, <1>4, <1>5, <1>6, <2>4 DEF FilledRight
  <1>9. TurningRight' /\ DoneRight' /\ EdgesOk'
    BY <1>1, <1>4, <1>5, <1>6 DEF TurningRight, DoneRight, EdgesOk, Turning
  <1>10. CallsMatch'
    BY <1>1, <1>3, <1>5, SetTopMatch
  <1> QED BY <1>7, <1>8, <1>9, <1>10 DEF GraphRight

\* A node at work before FillDepNode is the only one.
LEMMA OpeningIsTop ==
    ASSUME NEW n, Opening(stack, n)
    PROVE  n = Top.node /\ stack # << >>
  BY DEF Opening, Top

\* A candidate is chosen: the node makes the other targets of its patterns
\* too, which have no commands of their own.
LEMMA ChosenGraph ==
    ASSUME Shape, CallsRight, GraphRight, Chosen, SiblingsFree'
    PROVE  GraphRight'
  <1>1. /\ stack # << >> /\ UNCHANGED <<mk, goals, roots>> /\ ret' = << >> /\ Top.at = "pick"
        /\ Top.try \in DOMAIN Top.cands
    BY DEF Chosen, Ready, Left
  <1>2. /\ CallOk(Top) /\ Top.node \in Nodes /\ Len(stack) \in 1 .. Len(stack) /\ CallRight(mk, Top)
        /\ NodeOk(node[Top.node])
    BY <1>1, TopIs DEF CallsRight, Top, Shape, TablesOk
  <1>3. Parents(mk, Top.node) = {}
    BY <1>1, <1>2 DEF CallRight, Free
  <1>4. PICK S : S = Siblings(Cand)
    OBVIOUS
  <1>5. PICK x : x = [node[Top.node] EXCEPT !.siblings = @ \cup S]
    OBVIOUS
  <1>6. node' = [node EXCEPT ![Top.node] = x] /\ done' = Put(done, S, Top.node)
    BY <1>4, <1>5 DEF Chosen
  <1>7. /\ x.output = node[Top.node].output /\ x.implicit = node[Top.node].implicit
        /\ x.siblings = node[Top.node].siblings \cup S
        /\ \A k \in EdgeFields : x[k] = node[Top.node][k]
    BY <1>2, <1>5 DEF NodeOk, NodeFields, EdgeFields
  <1>8. PICK g : g = [Top EXCEPT !.at = "picked", !.chosen = Cand]
    OBVIOUS
  <1>9. CallOk(g) /\ g.node = Top.node /\ stack' = SetTop(g) /\ g.at # "deps" /\ g.out = Top.out
    BY <1>2, <1>8 DEF CallOk, CallFields, Chosen
  <1>10. \A n : Opening(stack', n) <=> Opening(stack, n)
    BY <1>1, <1>9, SetTopOpening
  <1>11. OutputsRight /\ FilledRight /\ DoneRight /\ EdgesOk /\ CallsMatch /\ TablesOk
    BY DEF GraphRight, Shape
  <1>12. Nodes' = Nodes /\ node'[Top.node] = x /\ \A k \in Nodes : k # Top.node => node'[k] = node[k]
    BY <1>2, <1>6 DEF Nodes
  <1>13. EdgesIn(node', roots') = EdgesIn(node, roots)
    <2>1. EdgesOf(x) = EdgesOf(node[Top.node])
      BY <1>7, FieldEdges
    <2> QED BY <1>1, <1>2, <1>6, <2>1, SameEdges
  <1>14. \A k \in Nodes : node'[k].output = node[k].output /\ node'[k].implicit = node[k].implicit
    BY <1>7, <1>12
  <1>15. \A t : \A k \in Nodes : RightFor(mk, t, node[k]) => RightFor(mk, t, node'[k])
    <2> SUFFICES ASSUME NEW k \in Nodes, NEW t, RightFor(mk, t, node[k]) PROVE RightFor(mk, t, node'[k])
      OBVIOUS
    <2>1. node[k].siblings \subseteq node'[k].siblings
      BY <1>7, <1>12
    <2> QED BY <1>14, <2>1, RightMono
  <1>16. DOMAIN done' = DOMAIN done \cup S /\ \A t \in DOMAIN done' : done'[t] = IF t \in S THEN Top.node ELSE done[t]
    BY <1>6 DEF Put
  <1>17. \A n : ~Turning(mk, stack', n)
    BY <1>3, <1>10, OpeningIsTop DEF Turning
  <1>18. OutputsRight'
    BY <1>1, <1>10, <1>11, <1>12, <1>14, <1>16 DEF OutputsRight
  <1>19. FilledRight'
    <2>1. x.output = g.out /\ x.implicit = << >>
      BY <1>1, <1>2, <1>7, <1>9, <1>11 DEF FilledRight, Top
    <2>2. \A i \in 1 .. Len(stack') : stack'[i].at # "deps" =>
              /\ node'[stack'[i].node].output = stack'[i].out
              /\ node'[stack'[i].node].implicit = << >>
      BY <1>1, <1>9, <1>11, <1>12, <2>1, SetTopFilled
    <2> QED BY <1>1, <1>10, <1>11, <1>12, <1>14, <2>2 DEF FilledRight
  <1>20. TurningRight'
    BY <1>1, <1>17 DEF TurningRight
  <1>21. DoneRight'
    <2> SUFFICES ASSUME NEW t \in DOMAIN done' PROVE RightFor(mk, t, node'[done'[t]])
      BY <1>1 DEF DoneRight
    <2>1. CASE t \in S
      <3>1. done'[t] = Top.node /\ t \in x.siblings
        BY <1>7, <1>16, <2>1
      <3>2. PrimaryRule(mk, t) = 0
        BY <1>1, <1>2, <1>12, <3>1 DEF SiblingsFree
      <3> QED BY <1>12, <3>1, <3>2 DEF RightFor
    <2>2. CASE t \notin S
      <3>1. t \in DOMAIN done /\ done'[t] = done[t] /\ done[t] \in Nodes
        BY <1>11, <1>16, <2>2 DEF TablesOk
      <3>2. ~Turning(mk, stack, t)
        BY <1>3, OpeningIsTop DEF Turning
      <3>3. RightFor(mk, t, node[done[t]])
        BY <1>11, <3>1, <3>2 DEF DoneRight
      <3> QED BY <1>15, <3>1, <3>3
    <2> QED BY <2>1, <2>2
  <1>22. EdgesOk'
    BY <1>1, <1>11, <1>12, <1>13, <1>15 DEF EdgesOk
  <1>23. CallsMatch'
    BY <1>1, <1>9, <1>11, SetTopMatch
  <1> QED BY <1>18, <1>19, <1>20, <1>21, <1>22, <1>23 DEF GraphRight

\* An implicit output gets the name of its parent, which no other node has.
LEMMA PickParentGraph ==
    ASSUME Shape, CallsRight, GraphRight, PickParent
    PROVE  GraphRight'
  <1>1. /\ stack # << >> /\ UNCHANGED <<mk, goals, roots, ret>> /\ status = "run"
        /\ Top.at = "picked" /\ Top.second = FALSE /\ Parents(mk, Top.out) # {}
    <2>1. stack # << >> /\ Top.second \in BOOLEAN
      BY TopIs DEF CallOk, PickParent, Picked
    <2> QED BY <2>1 DEF PickParent, Picked, Running, Parent
  <1>2. /\ CallOk(Top) /\ Top.node \in Nodes /\ Len(stack) \in 1 .. Len(stack) /\ CallRight(mk, Top)
        /\ NodeOk(node[Top.node])
    BY <1>1, TopIs DEF CallsRight, Top, Shape, TablesOk
  <1>3. PICK n : n = Top.node
    OBVIOUS
  <1>4. PICK p \in Parents(mk, Top.out) :
           /\ done' = Put(done, {p}, n)
           /\ node' = [node EXCEPT ![n].output = p]
           /\ stack' = SetTop(PickRule([Top EXCEPT !.second = TRUE], p))
    BY <1>1, <1>3 DEF PickParent, Parent, Mark
  <1>5. Top.out = n /\ ret' = << >>
    BY <1>1, <1>2, <1>3 DEF CallRight, CallsRight, Waits
  <1>6. ~PopulateError(mk)
    BY <1>1 DEF Shape, StatusOk
  <1>7. PrimaryRule(mk, p) # 0 /\ Parents(mk, n) = {p} /\ PrimaryRule(mk, n) = 0 /\ p # n
    BY <1>4, <1>5, <1>6, ParentIs
  <1>8. PICK f : f = [Top EXCEPT !.second = TRUE]
    OBVIOUS
  <1>9. CallOk(f) /\ f.node = n
    BY <1>2, <1>3, <1>8 DEF CallOk, CallFields
  <1>10. PICK g : g = PickRule(f, p)
    OBVIOUS
  <1>11. CallOk(g) /\ g.node = Top.node /\ g.at # "deps" /\ g.out = p /\ stack' = SetTop(g)
    <2>1. CallOk(g) /\ SameCall(f, g) /\ g.at = "pick" /\ g.out = p
      BY <1>9, <1>10, PickRuleIs
    <2> QED BY <1>3, <1>4, <1>8, <1>9, <1>10, <2>1 DEF SameCall
  <1>12. \A k : Opening(stack', k) <=> Opening(stack, k)
    BY <1>1, <1>11, SetTopOpening
  <1>13. OutputsRight /\ FilledRight /\ TurningRight /\ DoneRight /\ EdgesOk /\ CallsMatch /\ TablesOk
    BY DEF GraphRight, Shape
  <1>14. PICK x : x = [node[n] EXCEPT !.output = p]
    OBVIOUS
  <1>15. /\ x.output = p /\ x.implicit = node[n].implicit /\ x.siblings = node[n].siblings
         /\ \A k \in EdgeFields : x[k] = node[n][k]
    BY <1>2, <1>3, <1>14 DEF NodeOk, NodeFields, EdgeFields
  <1>16. /\ node' = [node EXCEPT ![n] = x] /\ Nodes' = Nodes /\ node'[n] = x /\ n \in Nodes
         /\ \A k \in Nodes : k # n => node'[k] = node[k]
    BY <1>2, <1>3, <1>4, <1>14 DEF Nodes
  <1>17. EdgesIn(node', roots') = EdgesIn(node, roots)
    <2>1. EdgesOf(x) = EdgesOf(node[n])
      BY <1>15, FieldEdges
    <2> QED BY <1>1, <1>16, <2>1, SameEdges
  <1>18. DOMAIN done' = DOMAIN done \cup {p} /\ done'[p] = n /\ \A t \in DOMAIN done : t # p => done'[t] = done[t]
    BY <1>4 DEF Put
  <1>19. node[n].output = n /\ node[n].implicit = << >>
    BY <1>1, <1>2, <1>3, <1>5, <1>13 DEF FilledRight, Top
  <1>20. Opening(stack, n) /\ Turning(mk, stack, n)
    BY <1>1, <1>3, <1>7 DEF Opening, Turning, Top
  <1>21. /\ \A t \in DOMAIN done : done[t] = n => t = n
         /\ \A e \in EdgesIn(node, roots) : e[2] # n
         /\ \A k \in Nodes : node[k].output # p
    BY <1>7, <1>13, <1>16, <1>19, <1>20 DEF TurningRight
  <1>22. OutputsRight'
    <2> SUFFICES ASSUME NEW k \in Nodes
                 PROVE  /\ node'[k].output \in DOMAIN done' /\ Range(node'[k].implicit) \subseteq DOMAIN done'
                        /\ node'[k].output = k \/ Parents(mk, k) = {node'[k].output}
                        /\ node'[k].output = k /\ Parents(mk, k) # {} => Opening(stack', k)
                        /\ \A l \in Nodes : node'[l].output = node'[k].output => l = k
      BY <1>1, <1>16 DEF OutputsRight
    <2>1. CASE k = n
      <3>1. Range(<< >>) = {}
        BY DEF Range
      <3> QED BY <1>7, <1>15, <1>16, <1>18, <1>19, <1>21, <2>1, <3>1
    <2>2. CASE k # n
      <3>1. /\ node[k].output \in DOMAIN done /\ Range(node[k].implicit) \subseteq DOMAIN done
            /\ node[k].output = k \/ Parents(mk, k) = {node[k].output}
            /\ node[k].output = k /\ Parents(mk, k) # {} => Opening(stack, k)
            /\ \A l \in Nodes : node[l].output = node[k].output => l = k
        BY <1>13 DEF OutputsRight
      <3> QED BY <1>12, <1>15, <1>16, <1>18, <1>21, <2>2, <3>1
    <2> QED BY <2>1, <2>2
  <1>23. FilledRight'
    <2>1. x.output = g.out /\ x.implicit = << >>
      BY <1>11, <1>15, <1>19
    <2>2. \A i \in 1 .. Len(stack') : stack'[i].at # "deps" =>
              /\ node'[stack'[i].node].output = stack'[i].out
              /\ node'[stack'[i].node].implicit = << >>
      BY <1>1, <1>3, <1>11, <1>13, <1>16, <2>1, SetTopFilled
    <2>3. \A k \in Nodes : \/ Opening(stack', k)
                           \/ node'[k].implicit = ImplicitOutputs(mk, node'[k].output)
                           \/ node'[k].implicit = << >> /\ PrimaryRule(mk, node'[k].output) = 0
      BY <1>12, <1>13, <1>16, <1>20 DEF FilledRight
    <2> QED BY <1>1, <1>16, <2>2, <2>3 DEF FilledRight
  <1>24. TurningRight'
    <2>1. \A k : Turning(mk, stack', k) => k = n
      BY <1>3, <1>12, OpeningIsTop DEF Turning
    <2>2. \A t \in DOMAIN done' : done'[t] = n => t \in {n, p}
      BY <1>18, <1>21
    <2> QED BY <1>1, <1>7, <1>15, <1>16, <1>17, <1>21, <2>1, <2>2 DEF TurningRight
  <1>25. DoneRight'
    <2> SUFFICES ASSUME NEW t \in DOMAIN done'
                 PROVE  RightFor(mk, t, node'[done'[t]]) \/ (t = done'[t] /\ Turning(mk, stack', t))
      BY <1>1 DEF DoneRight
    <2>1. CASE t = p
      BY <1>15, <1>16, <1>18, <2>1 DEF RightFor
    <2>2. CASE t # p /\ done[t] = n
      BY <1>12, <1>18, <1>20, <1>21, <2>2 DEF Turning
    <2>3. CASE t # p /\ done[t] # n
      <3>1. t \in DOMAIN done /\ done'[t] = done[t] /\ done[t] \in Nodes
        BY <1>13, <1>18, <2>3 DEF TablesOk
      <3>2. RightFor(mk, t, node[done[t]]) \/ (t = done[t] /\ Turning(mk, stack, t))
        BY <1>13, <3>1 DEF DoneRight
      <3>3. ~(t = done[t] /\ Turning(mk, stack, t))
        BY <1>3, <2>3, OpeningIsTop DEF Turning
      <3> QED BY <1>16, <2>3, <3>1, <3>2, <3>3
    <2> QED BY <2>1, <2>2, <2>3
  <1>26. EdgesOk'
    BY <1>1, <1>13, <1>16, <1>17, <1>21 DEF EdgesOk
  <1>27. CallsMatch'
    BY <1>1, <1>5, <1>11, <1>13, SetTopMatch
  <1> QED BY <1>22, <1>23, <1>24, <1>25, <1>26, <1>27 DEF GraphRight

\* FillDepNode: the node makes the implicit outputs too.
LEMMA FillGraph ==
    ASSUME Shape, CallsRight, GraphRight, FillDepNode
    PROVE  GraphRight'
  <1>1. /\ stack # << >> /\ UNCHANGED <<mk, goals, roots, ret>> /\ status = "run"
        /\ Top.at = "picked" /\ (Top.second \/ Parents(mk, Top.out) = {})
    BY FillIs DEF FillDepNode, Picked, Parent
  <1>2. /\ CallOk(Top) /\ Top.node \in Nodes /\ Len(stack) \in 1 .. Len(stack) /\ CallRight(mk, Top)
        /\ ret' = << >> /\ ~PopulateError(mk)
    BY <1>1, TopIs DEF CallsRight, Top, Waits, Shape, StatusOk
  <1>3. PICK n : n = Top.node
    OBVIOUS
  <1>4. PICK p : p = Top.out
    OBVIOUS
  <1>5. PICK S : S = Range(ImplicitOutputs(mk, p))
    OBVIOUS
  <1>6. PICK x, g : /\ node' = [node EXCEPT ![n] = x]
                    /\ x.output = p /\ x.implicit = ImplicitOutputs(mk, p)
                    /\ x.siblings = node[n].siblings
                    /\ \A k \in EdgeFields : x[k] = node[n][k]
                    /\ stack' = SetTop(g) /\ CallOk(g) /\ g.node = Top.node /\ g.at = "deps"
    BY <1>3, <1>4, FillIs
  <1>7. done' = Put(done, S, n)
    BY <1>3, <1>4, <1>5, FillIs
  <1>8. OutputsRight /\ FilledRight /\ DoneRight /\ EdgesOk /\ CallsMatch /\ TablesOk
    BY DEF GraphRight, Shape
  <1>9. node[n].output = p /\ node[n].implicit = << >>
    BY <1>1, <1>2, <1>3, <1>4, <1>8 DEF FilledRight, Top
  <1>10. \A k : ~Opening(stack', k) /\ ~Turning(mk, stack', k)
    BY <1>1, <1>6, SetTopOpening DEF Turning
  <1>11. n \in Nodes /\ Nodes' = Nodes /\ node'[n] = x /\ \A k \in Nodes : k # n => node'[k] = node[k]
    BY <1>2, <1>3, <1>6 DEF Nodes
  <1>12. EdgesIn(node', roots') = EdgesIn(node, roots)
    <2>1. EdgesOf(x) = EdgesOf(node[n])
      BY <1>6, FieldEdges
    <2> QED BY <1>1, <1>6, <1>11, <2>1, SameEdges
  <1>13. DOMAIN done' = DOMAIN done \cup S /\ \A t \in DOMAIN done' : done'[t] = IF t \in S THEN n ELSE done[t]
    BY <1>7 DEF Put
  <1>14. \A k \in Nodes : node'[k].output = node[k].output
    BY <1>6, <1>9, <1>11
  <1>15. \/ Parents(mk, n) = {} /\ p = n
         \/ Parents(mk, n) = {p} /\ p # n /\ n \in S
    <2>1. CASE Top.second
      <3>1. Parents(mk, n) = {p}
        BY <1>2, <1>3, <1>4, <2>1 DEF CallRight
      <3>2. PrimaryRule(mk, p) # 0 /\ PrimaryRule(mk, n) = 0 /\ n \in Range(ImplicitOutputs(mk, p))
        BY <1>2, <3>1, ParentIs
      <3> QED BY <1>5, <3>1, <3>2
    <2>2. CASE ~Top.second
      <3>1. Parents(mk, Top.out) = {}
        BY <1>1, <2>2
      <3>2. Top.out = Top.node
        BY <1>2, <2>2 DEF CallRight
      <3> QED BY <1>3, <1>4, <3>1, <3>2
    <2> QED BY <2>1, <2>2
  <1>16. \A t : \A k \in Nodes : RightFor(mk, t, node[k]) => RightFor(mk, t, node'[k])
    <2> SUFFICES ASSUME NEW k \in Nodes, NEW t, RightFor(mk, t, node[k]) PROVE RightFor(mk, t, node'[k])
      OBVIOUS
    <2>1. Range(<< >>) = {}
      BY DEF Range
    <2>2. Range(node[k].implicit) \subseteq Range(node'[k].implicit) /\ node[k].siblings \subseteq node'[k].siblings
      BY <1>6, <1>9, <1>11, <2>1
    <2> QED BY <1>14, <2>2, RightMono
  <1>17. OutputsRight'
    <2> SUFFICES ASSUME NEW k \in Nodes
                 PROVE  /\ node'[k].output \in DOMAIN done' /\ Range(node'[k].implicit) \subseteq DOMAIN done'
                        /\ node'[k].output = k \/ Parents(mk, k) = {node'[k].output}
                        /\ ~(node'[k].output = k /\ Parents(mk, k) # {})
                        /\ \A l \in Nodes : node'[l].output = node'[k].output => l = k
      BY <1>1, <1>11 DEF OutputsRight
    <2>1. /\ node[k].output \in DOMAIN done /\ Range(node[k].implicit) \subseteq DOMAIN done
          /\ node[k].output = k \/ Parents(mk, k) = {node[k].output}
          /\ node[k].output = k /\ Parents(mk, k) # {} => Opening(stack, k)
          /\ \A l \in Nodes : node[l].output = node[k].output => l = k
      BY <1>8 DEF OutputsRight
    <2>2. Range(node'[k].implicit) \subseteq DOMAIN done'
      BY <1>5, <1>6, <1>11, <1>13, <2>1
    <2>3. ~(node[k].output = k /\ Parents(mk, k) # {})
      <3>1. CASE k = n
        BY <1>9, <1>15, <3>1
      <3>2. CASE k # n
        BY <1>3, <2>1, <3>2, OpeningIsTop
      <3> QED BY <3>1, <3>2
    <2> QED BY <1>13, <1>14, <2>1, <2>2, <2>3
  <1>18. FilledRight'
    <2>1. \A i \in 1 .. Len(stack') : stack'[i].at # "deps" =>
              /\ node'[stack'[i].node].output = stack'[i].out
              /\ node'[stack'[i].node].implicit = << >>
      BY <1>1, <1>3, <1>6, <1>8, <1>11, SetTopFilled
    <2>2. ASSUME NEW k \in Nodes
          PROVE  \/ node'[k].implicit = ImplicitOutputs(mk, node'[k].output)
                 \/ node'[k].implicit = << >> /\ PrimaryRule(mk, node'[k].output) = 0
      <3>1. CASE k = n
        BY <1>6, <1>11, <3>1
      <3>2. CASE k # n
        <4>1. ~Opening(stack, k)
          BY <1>3, <3>2, OpeningIsTop
        <4> QED BY <1>8, <1>11, <3>2, <4>1 DEF FilledRight
      <3> QED BY <3>1, <3>2
    <2> QED BY <1>1, <1>11, <2>1, <2>2 DEF FilledRight
  <1>19. TurningRight'
    BY <1>1, <1>10 DEF TurningRight
  <1>20. DoneRight'
    <2> SUFFICES ASSUME NEW t \in DOMAIN done' PROVE RightFor(mk, t, node'[done'[t]])
      BY <1>1 DEF DoneRight
    <2>1. CASE t \in S
      <3>1. PrimaryRule(mk, t) = 0
        BY <1>2, <1>5, <2>1, ImplicitIs
      <3>2. done'[t] = n
        BY <1>13, <2>1
      <3> QED BY <1>5, <1>6, <1>11, <2>1, <3>1, <3>2 DEF RightFor
    <2>2. CASE t \notin S
      <3>1. t \in DOMAIN done /\ done'[t] = done[t] /\ done[t] \in Nodes
        BY <1>8, <1>13, <2>2 DEF TablesOk
      <3>2. ~Turning(mk, stack, t)
        BY <1>3, <1>15, <2>2, OpeningIsTop DEF Turning
      <3>3. RightFor(mk, t, node[done[t]])
        BY <1>8, <3>1, <3>2 DEF DoneRight
      <3> QED BY <1>16, <3>1, <3>3
    <2> QED BY <2>1, <2>2
  <1>21. EdgesOk'
    BY <1>1, <1>8, <1>11, <1>12, <1>16 DEF EdgesOk
  <1>22. CallsMatch'
    BY <1>1, <1>2, <1>6, <1>8, SetTopMatch
  <1> QED BY <1>17, <1>18, <1>19, <1>20, <1>21, <1>22 DEF GraphRight

\* The outputs of the nodes stay, and no node was at work before FillDepNode
\* whose target has a parent or commands.
LEMMA SameOutputs ==
    ASSUME OutputsRight, FilledRight, UNCHANGED <<mk, done>>, Nodes' = Nodes,
           \A k \in Nodes : node'[k].output = node[k].output /\ node'[k].implicit = node[k].implicit,
           \A k \in Nodes : Opening(stack, k) =>
              Parents(mk, k) = {} /\ node[k].implicit = ImplicitOutputs(mk, node[k].output)
    PROVE  /\ OutputsRight'
           /\ \A k \in Nodes :
                 \/ node'[k].implicit = ImplicitOutputs(mk, node'[k].output)
                 \/ node'[k].implicit = << >> /\ PrimaryRule(mk, node'[k].output) = 0
  <1>1. OutputsRight'
    <2> SUFFICES ASSUME NEW k \in Nodes
                 PROVE  /\ node'[k].output \in DOMAIN done' /\ Range(node'[k].implicit) \subseteq DOMAIN done'
                        /\ node'[k].output = k \/ Parents(mk, k) = {node'[k].output}
                        /\ ~(node'[k].output = k /\ Parents(mk, k) # {})
                        /\ \A l \in Nodes : node'[l].output = node'[k].output => l = k
      BY DEF OutputsRight
    <2> QED BY DEF OutputsRight
  <1>2. \A k \in Nodes : \/ node'[k].implicit = ImplicitOutputs(mk, node'[k].output)
                         \/ node'[k].implicit = << >> /\ PrimaryRule(mk, node'[k].output) = 0
    BY DEF FilledRight
  <1> QED BY <1>1, <1>2

\* An input is added: the node that was returned is right for it.
LEMMA AddDepGraph ==
    ASSUME Shape, CallsRight, GraphRight, AddDep
    PROVE  GraphRight'
  <1>1. /\ stack # << >> /\ Top.at = "deps" /\ ret # << >> /\ status = "run"
        /\ UNCHANGED <<mk, goals, roots, done>> /\ ret' = << >>
    BY AddDepIs
  <1>2. Top.node \in Nodes /\ Len(stack) \in 1 .. Len(stack) /\ ret[1] \in Nodes
    BY <1>1, TopIs DEF Shape, RetOk
  <1>3. PICK n : n = Top.node
    OBVIOUS
  <1>4. PICK e : e = <<Called, ret[1]>>
    OBVIOUS
  <1>4a. PICK x, g, k :
           /\ node' = [node EXCEPT ![Top.node] = x] /\ NodeOk(x)
           /\ x.output = node[Top.node].output
           /\ x.implicit = node[Top.node].implicit
           /\ x.siblings = node[Top.node].siblings
           /\ x.hasRule = node[Top.node].hasRule /\ x.default = node[Top.node].default
           /\ k \in EdgeFields
           /\ Range(x[k]) = Range(node[Top.node][k]) \cup {<<Called, ret[1]>>}
           /\ \A l \in EdgeFields : l # k => x[l] = node[Top.node][l]
           /\ stack' = SetTop(g) /\ CallOk(g) /\ g.node = Top.node /\ g.at = "deps"
           /\ g.out = Top.out /\ g.second = Top.second /\ g.chosen = Top.chosen
           /\ g.cands = Top.cands
    BY AddDepIs, Zenon
  <1>5. /\ node' = [node EXCEPT ![n] = x]
        /\ x.output = node[n].output /\ x.implicit = node[n].implicit /\ x.siblings = node[n].siblings
        /\ k \in EdgeFields /\ Range(x[k]) = Range(node[n][k]) \cup {e}
        /\ \A l \in EdgeFields : l # k => x[l] = node[n][l]
        /\ stack' = SetTop(g) /\ CallOk(g) /\ g.node = Top.node /\ g.at = "deps"
    BY <1>3, <1>4, <1>4a
  <1>6. OutputsRight /\ FilledRight /\ DoneRight /\ EdgesOk /\ CallsMatch /\ TablesOk
    BY DEF GraphRight, Shape
  <1>7. n \in Nodes /\ Nodes' = Nodes /\ node'[n] = x /\ \A l \in Nodes : l # n => node'[l] = node[l]
    BY <1>2, <1>3, <1>5 DEF Nodes
  <1>8. \A l \in Nodes : /\ node'[l].output = node[l].output /\ node'[l].implicit = node[l].implicit
                         /\ node'[l].siblings = node[l].siblings
    BY <1>5, <1>7
  <1>9. \A l : ~Opening(stack, l) /\ ~Turning(mk, stack, l) /\ ~Opening(stack', l) /\ ~Turning(mk, stack', l)
    BY <1>1, <1>5, SetTopOpening DEF Opening, Turning, Top
  <1>10. \A t : \A l \in Nodes : RightFor(mk, t, node[l]) => RightFor(mk, t, node'[l])
    BY <1>8 DEF RightFor
  <1>11. EdgesIn(node', roots') \subseteq EdgesIn(node, roots) \cup {e}
    <2>1. EdgesOf(x) = EdgesOf(node[n]) \cup {e}
      BY <1>5 DEF EdgesOf, EdgeFields
    <2>2. \A l \in Nodes : EdgesOf(node'[l]) \subseteq EdgesOf(node[l]) \cup {e}
      BY <1>7, <2>1
    <2> QED BY <1>1, <1>7, <2>2 DEF EdgesIn, NodeEdges, Nodes
  <1>12. e[2] \in Nodes /\ RightFor(mk, e[1], node[e[2]])
    <2>1. Called = Asked(stack, goals, Len(stack))
      BY CalledIs DEF AddDep
    <2>2. RightFor(mk, Called, node[ret[1]])
      BY <1>1, <1>6, <2>1 DEF CallsMatch
    <2> QED BY <1>2, <1>4, <2>2
  <1>13. OutputsRight' /\ \A l \in Nodes :
                 \/ node'[l].implicit = ImplicitOutputs(mk, node'[l].output)
                 \/ node'[l].implicit = << >> /\ PrimaryRule(mk, node'[l].output) = 0
    BY <1>1, <1>6, <1>7, <1>8, <1>9, SameOutputs
  <1>14. FilledRight'
    <2>1. \A i \in 1 .. Len(stack') : stack'[i].at # "deps" =>
              /\ node'[stack'[i].node].output = stack'[i].out
              /\ node'[stack'[i].node].implicit = << >>
      BY <1>1, <1>3, <1>5, <1>6, <1>7, SetTopFilled
    <2> QED BY <1>1, <1>7, <1>13, <2>1 DEF FilledRight
  <1>15. TurningRight'
    BY <1>1, <1>9 DEF TurningRight
  <1>16. DoneRight'
    <2>1. \A t \in DOMAIN done : RightFor(mk, t, node[done[t]]) /\ done[t] \in Nodes
      BY <1>6, <1>9 DEF DoneRight, TablesOk
    <2> QED BY <1>1, <1>10, <2>1 DEF DoneRight
  <1>17. EdgesOk'
    BY <1>1, <1>6, <1>7, <1>10, <1>11, <1>12 DEF EdgesOk
  <1>18. CallsMatch'
    BY <1>1, <1>5, <1>6, SetTopMatch
  <1> QED BY <1>13, <1>14, <1>15, <1>16, <1>17, <1>18 DEF GraphRight

\* BuildPlan returns a node that makes its target; without a rule, the target
\* has no implicit outputs.
LEMMA ReturnGraph ==
    ASSUME Shape, CallsRight, GraphRight, ReturnNode \/ NoRule
    PROVE  GraphRight'
  <1>1. /\ stack # << >> /\ UNCHANGED <<mk, goals, roots, done>> /\ status = "run"
        /\ ret' = <<Top.node>> /\ stack' = Front(stack)
    BY ReturnNodeIs DEF NoRule, Ready, Running
  <1>2. Top.node \in Nodes /\ Len(stack) \in 1 .. Len(stack) /\ CallRight(mk, Top) /\ ~PopulateError(mk)
    BY <1>1, TopIs DEF CallsRight, Top, Shape, StatusOk
  <1>3. PICK n : n = Top.node
    OBVIOUS
  <1>4. /\ OutputsRight /\ FilledRight /\ DoneRight /\ EdgesOk /\ CallsMatch /\ TablesOk
    BY DEF GraphRight, Shape
  <1>5. /\ Nodes' = Nodes /\ EdgesIn(node', roots') = EdgesIn(node, roots)
        /\ \A k \in Nodes : /\ node'[k].output = node[k].output /\ node'[k].implicit = node[k].implicit
                            /\ node'[k].siblings = node[k].siblings
    <2>1. CASE NoRule
      BY <1>1, <2>1 DEF NoRule, Nodes
    <2>2. CASE ReturnNode
      <3>1. PICK x : /\ node' = [node EXCEPT ![Top.node] = x]
                     /\ x.output = node[Top.node].output /\ x.implicit = node[Top.node].implicit
                     /\ x.siblings = node[Top.node].siblings
                     /\ \A k \in EdgeFields : x[k] = node[Top.node][k]
        BY <2>2, ReturnNodeIs
      <3>2. EdgesOf(x) = EdgesOf(node[Top.node])
        BY <3>1, FieldEdges
      <3>3. EdgesIn(node', roots') = EdgesIn(node, roots)
        BY <1>1, <1>2, <3>1, <3>2, SameEdges
      <3> QED BY <1>2, <3>1, <3>3 DEF Nodes
    <2> QED BY <2>1, <2>2
  <1>6. \A k \in Nodes : Opening(stack, k) =>
              Parents(mk, k) = {} /\ node[k].implicit = ImplicitOutputs(mk, node[k].output)
    <2> SUFFICES ASSUME Opening(stack, n)
                 PROVE  Parents(mk, n) = {} /\ node[n].implicit = ImplicitOutputs(mk, node[n].output)
      BY <1>3, OpeningIsTop
    <2>1. NoRule /\ Top.at # "deps"
      BY ReturnNodeIs DEF Opening, Top
    <2>2. RulesFor(mk, Top.out) = << >> /\ Parents(mk, Top.out) = {}
      BY <2>1 DEF NoRule, Merge, HasMerger
    <2>3. ~Top.second
      <3> SUFFICES ASSUME Top.second PROVE FALSE
        OBVIOUS
      <3>1. Top.out \in Parents(mk, Top.node)
        BY <1>2 DEF CallRight
      <3> QED BY <1>2, <2>2, <3>1, ParentIs
    <2>4. Top.out = n
      BY <1>2, <1>3, <2>3 DEF CallRight
    <2>5. node[n].output = n /\ node[n].implicit = << >>
      BY <1>2, <1>3, <1>4, <2>1, <2>4 DEF FilledRight, Top
    <2>6. ImplicitOutputs(mk, n) = << >>
      BY <2>2, <2>4 DEF ImplicitOutputs, Words
    <2> QED BY <2>2, <2>4, <2>5, <2>6
  <1>7. \A k : ~Turning(mk, stack, k)
    BY <1>2, <1>6, OpeningIsTop DEF Turning
  <1>8. OutputsRight' /\ \A k \in Nodes :
              \/ node'[k].implicit = ImplicitOutputs(mk, node'[k].output)
              \/ node'[k].implicit = << >> /\ PrimaryRule(mk, node'[k].output) = 0
    BY <1>1, <1>4, <1>5, <1>6, SameOutputs
  <1>9. /\ CallsOk(stack', Nodes) /\ Len(stack') = Len(stack) - 1
        /\ \A i \in 1 .. Len(stack') : /\ i \in 1 .. Len(stack) /\ i # Len(stack)
                                       /\ stack'[i] = stack[i]
    BY <1>1, FrontOk
  <1>10. FilledRight'
    <2>1. \A i \in 1 .. Len(stack') : stack'[i].at # "deps" =>
              /\ node'[stack'[i].node].output = stack'[i].out
              /\ node'[stack'[i].node].implicit = << >>
      <3> SUFFICES ASSUME NEW i \in 1 .. Len(stack'), stack'[i].at # "deps"
                   PROVE  /\ node'[stack'[i].node].output = stack'[i].out
                          /\ node'[stack'[i].node].implicit = << >>
        OBVIOUS
      <3>1. i \in 1 .. Len(stack) /\ stack'[i] = stack[i] /\ stack'[i].node \in Nodes
        BY <1>9 DEF CallsOk
      <3>2. node[stack[i].node].output = stack[i].out /\ node[stack[i].node].implicit = << >>
        BY <1>4, <3>1 DEF FilledRight
      <3> QED BY <1>5, <3>1, <3>2
    <2> QED BY <1>1, <1>5, <1>8, <2>1 DEF FilledRight
  <1>11. TurningRight'
    <2>1. \A k : ~Turning(mk, stack', k)
      <3> SUFFICES ASSUME NEW k, Turning(mk, stack', k) PROVE FALSE
        OBVIOUS
      <3>1. stack' # << >> /\ stack'[Len(stack')].at # "deps" /\ Parents(mk, stack'[Len(stack')].node) # {}
        BY DEF Turning, Opening
      <3>2. Len(stack') \in 1 .. Len(stack')
        <4>1. Len(stack') \in Nat /\ Len(stack') > 0
          BY <1>9, <3>1, SeqIs DEF CallsOk
        <4> QED BY <4>1
      <3>3. Waits(mk, stack'[Len(stack')])
        BY <1>9, <3>2 DEF CallsRight
      <3> QED BY <3>1, <3>3 DEF Waits, Free
    <2> QED BY <1>1, <2>1 DEF TurningRight
  <1>12. \A t : \A k \in Nodes : RightFor(mk, t, node[k]) => RightFor(mk, t, node'[k])
    BY <1>5 DEF RightFor
  <1>13. DoneRight'
    <2>1. \A t \in DOMAIN done : RightFor(mk, t, node[done[t]]) /\ done[t] \in Nodes
      BY <1>4, <1>7 DEF DoneRight, TablesOk
    <2> QED BY <1>1, <1>12, <2>1 DEF DoneRight
  <1>14. EdgesOk'
    BY <1>1, <1>4, <1>5, <1>12 DEF EdgesOk
  <1>15. CallsMatch'
    <2>1. RightFor(mk, n, node[n])
      BY <1>2, <1>3, <1>4, <1>7, OwnRight
    <2>2. RightFor(mk, n, node'[n])
      BY <1>2, <1>3, <1>12, <2>1
    <2> QED BY <1>1, <1>3, <1>4, <2>2, FrontMatch
  <1> QED BY <1>8, <1>10, <1>11, <1>13, <1>14, <1>15 DEF GraphRight

\* The other steps: a node that exists is returned, and a goal is finished.
LEMMA OtherGraph ==
    ASSUME Shape, CallsRight, GraphRight, FoundDone \/ ReturnRoot \/ Finish \/ Ended \/ UNCHANGED vars
    PROVE  GraphRight'
  <1>1. UNCHANGED <<mk, stack, done, node>>
    BY DEF FoundDone, ReturnRoot, Finish, Ended, vars
  <1>2. OutputsRight /\ FilledRight /\ TurningRight /\ DoneRight /\ EdgesOk /\ CallsMatch /\ TablesOk
    BY DEF GraphRight, Shape
  <1>3. OutputsRight' /\ FilledRight' /\ DoneRight'
    BY <1>1, <1>2 DEF OutputsRight, FilledRight, DoneRight, Nodes
  <1>4. CASE FoundDone
    <2>1. Called \in DOMAIN done /\ ret' = <<done[Called]>> /\ UNCHANGED <<goals, roots>> /\ Calling
      BY <1>4 DEF FoundDone
    <2>2. RightFor(mk, Called, node[done[Called]])
      <3>1. stack = << >> \/ Waits(mk, Top)
        BY <2>1, CallerWaits
      <3>2. ~Turning(mk, stack, Called)
        BY <1>2, <3>1, NoneTurning
      <3> QED BY <1>2, <2>1, <3>2 DEF DoneRight
    <2>3. Called = Asked(stack, goals, Len(stack))
      BY <2>1, CalledIs
    <2>4. CallsMatch'
      BY <1>1, <1>2, <2>1, <2>2, <2>3 DEF CallsMatch
    <2>5. TurningRight' /\ EdgesOk'
      BY <1>1, <1>2, <2>1 DEF TurningRight, EdgesOk, Nodes
    <2> QED BY <1>3, <2>4, <2>5 DEF GraphRight
  <1>5. CASE ReturnRoot
    <2>1. /\ stack = << >> /\ ret # << >> /\ ret' = << >>
          /\ roots' = Append(roots, <<Head(goals), ret[1]>>)
      BY <1>5 DEF ReturnRoot
    <2>2. Len(stack) = 0 /\ 1 .. Len(stack) = {}
      BY <2>1
    <2>3. PICK e : e = <<Head(goals), ret[1]>>
      OBVIOUS
    <2>4. e[2] \in Nodes /\ RightFor(mk, e[1], node[e[2]])
      <3>1. RightFor(mk, Head(goals), node[ret[1]])
        BY <1>2, <2>1, <2>2 DEF CallsMatch, Asked
      <3>2. ret[1] \in Nodes
        BY <2>1 DEF Shape, RetOk
      <3> QED BY <2>3, <3>1, <3>2
    <2>5. EdgesIn(node', roots') = EdgesIn(node, roots) \cup {e}
      <3>1. Range(roots') = Range(roots) \cup {e}
        BY <2>1, <2>3, AppendIs DEF Shape
      <3>2. NodeEdges(node') = NodeEdges(node)
        BY <1>1
      <3> QED BY <3>1, <3>2 DEF EdgesIn
    <2>6. EdgesOk'
      BY <1>1, <1>2, <2>4, <2>5 DEF EdgesOk, Nodes
    <2>7. TurningRight'
      BY <1>1, <2>1 DEF TurningRight, Turning, Opening
    <2>8. CallsMatch'
      BY <1>1, <2>1, <2>2 DEF CallsMatch
    <2> QED BY <1>3, <2>6, <2>7, <2>8 DEF GraphRight
  <1>6. CASE Finish \/ Ended \/ UNCHANGED vars
    <2>1. UNCHANGED <<goals, roots, ret>>
      BY <1>6 DEF Finish, Ended, vars
    <2>2. TurningRight' /\ EdgesOk' /\ CallsMatch'
      BY <1>1, <1>2, <2>1 DEF TurningRight, EdgesOk, CallsMatch, Nodes
    <2> QED BY <1>3, <2>2 DEF GraphRight
  <1> QED BY <1>4, <1>5, <1>6

\* No node loses a sibling.
LEMMA SiblingsKept ==
    ASSUME Shape, [Next]_vars, NEW n \in Nodes
    PROVE  n \in Nodes' /\ node[n].siblings \subseteq node'[n].siblings
  <1>1. CASE BuildPlan
    <2>1. PICK t : t \notin DOMAIN done /\ node' = Put(node, {t}, NewNode(t))
      BY <1>1 DEF BuildPlan
    <2>2. n # t
      BY <2>1 DEF Shape, TablesOk
    <2> QED BY <2>1, <2>2 DEF Put, Nodes
  <1>2. CASE Chosen
    <2>1. Top.node \in Nodes /\ NodeOk(node[Top.node])
      BY <1>2, TopIs DEF Chosen, Ready, Shape, TablesOk
    <2>2. node' = [node EXCEPT ![Top.node].siblings = @ \cup Siblings(Cand)]
      BY <1>2 DEF Chosen
    <2> QED BY <2>1, <2>2 DEF Nodes, NodeOk, NodeFields
  <1>3. CASE PickParent
    <2>1. Top.node \in Nodes /\ NodeOk(node[Top.node])
      BY <1>3, TopIs DEF PickParent, Picked, Shape, TablesOk
    <2>2. PICK p : node' = [node EXCEPT ![Top.node].output = p]
      BY <1>3 DEF PickParent
    <2> QED BY <2>1, <2>2 DEF Nodes, NodeOk, NodeFields
  <1>4. CASE FillDepNode \/ AddDep \/ ReturnNode
    <2>1. Top.node \in Nodes
      BY <1>4, TopIs, FillIs, AddDepIs, ReturnNodeIs
    <2>2. PICK x : node' = [node EXCEPT ![Top.node] = x] /\ x.siblings = node[Top.node].siblings
      BY <1>4, FillIs, AddDepIs, ReturnNodeIs
    <2> QED BY <2>1, <2>2 DEF Nodes
  <1>5. CASE FoundDone \/ ReturnRoot \/ InputKnown \/ InputPlanned \/ NoneLeft \/ NoRule \/ Finish \/ Ended
             \/ UNCHANGED vars
    <2>1. node' = node
      BY <1>5 DEF FoundDone, ReturnRoot, InputKnown, InputPlanned, NoneLeft, NoRule, Finish, Ended, vars
    <2> QED BY <2>1 DEF Nodes
  <1> QED BY <1>1, <1>2, <1>3, <1>4, <1>5 DEF Next

\* What is known of all siblings is known of them before the step.
LEMMA SiblingsGrow ==
    ASSUME Shape, [Next]_vars, SiblingsFree'
    PROVE  SiblingsFree
  BY StepKeeps, SiblingsKept DEF SiblingsFree

\* Every step keeps GraphInv.
LEMMA GraphStep == ASSUME Shape, PlanInv, GraphInv, [Next]_vars PROVE GraphInv'
  <1> SUFFICES ASSUME status' # "error", Unmatched', SiblingsFree' PROVE GraphRight'
    BY DEF GraphInv
  <1>1. CallsRight /\ GraphRight
    BY StepKeeps, SiblingsGrow DEF PlanInv, GraphInv
  <1> QED BY <1>1, BuildPlanGraph, PickGraph, ChosenGraph, PickParentGraph, FillGraph, AddDepGraph,
             ReturnGraph, OtherGraph DEF Next

\* It holds at first.
LEMMA GraphInit == Init => GraphInv
  <1> SUFFICES ASSUME Init PROVE GraphRight
    BY DEF GraphInv
  <1>1. stack = << >> /\ ret = << >> /\ roots = << >> /\ DOMAIN node = {} /\ DOMAIN done = {}
    BY DEF Init
  <1>2. 1 .. Len(stack) = {} /\ Range(roots) = {}
    BY <1>1 DEF Range
  <1>3. EdgesIn(node, roots) = {}
    BY <1>1, <1>2 DEF EdgesIn, NodeEdges
  <1> QED BY <1>1, <1>2, <1>3 DEF GraphRight, OutputsRight, FilledRight, TurningRight, DoneRight,
             EdgesOk, CallsMatch, Nodes

\* No name is the output of two nodes once all calls have returned.
LEMMA OutsDiffer ==
    ASSUME OutputsRight, FilledRight, ~PopulateError(mk), stack = << >>,
           NEW n \in Nodes, NEW m \in Nodes, n # m
    PROVE  Outs(n) \cap Outs(m) = {}
  <1>1. \A k : ~Opening(stack, k)
    BY DEF Opening
  <1>2. ASSUME NEW k \in Nodes, NEW o \in Range(node[k].implicit)
        PROVE  Parents(mk, o) = {node[k].output} /\ PrimaryRule(mk, o) = 0
    <2>1. Range(<< >>) = {}
      BY DEF Range
    <2>2. o \in Range(ImplicitOutputs(mk, node[k].output))
      BY <1>1, <1>2, <2>1 DEF FilledRight
    <2> QED BY <2>2, ImplicitIs
  <1>3. ASSUME NEW k \in Nodes PROVE Parents(mk, node[k].output) = {} \/ PrimaryRule(mk, node[k].output) # 0
    <2>1. CASE node[k].output = k
      BY <1>1, <2>1 DEF OutputsRight
    <2>2. CASE Parents(mk, k) = {node[k].output}
      BY <2>2, ParentIs
    <2> QED BY <2>1, <2>2 DEF OutputsRight
  <1>4. node[n].output # node[m].output
    BY DEF OutputsRight
  <1>5. ASSUME NEW o \in Outs(n), o \in Outs(m) PROVE FALSE
    <2>1. o = node[n].output \/ o \in Range(node[n].implicit)
      BY DEF Outs
    <2>2. o = node[m].output \/ o \in Range(node[m].implicit)
      BY <1>5 DEF Outs
    <2>3. CASE o \in Range(node[n].implicit)
      <3>1. Parents(mk, o) = {node[n].output} /\ PrimaryRule(mk, o) = 0
        BY <1>2, <2>3
      <3>2. o \in Range(node[m].implicit) => Parents(mk, o) = {node[m].output}
        BY <1>2
      <3>3. o = node[m].output => Parents(mk, o) = {} \/ PrimaryRule(mk, o) # 0
        BY <1>3
      <3> QED BY <1>4, <2>2, <3>1, <3>2, <3>3
    <2>4. CASE o = node[n].output
      <3>1. Parents(mk, o) = {} \/ PrimaryRule(mk, o) # 0
        BY <1>3, <2>4
      <3>2. o \in Range(node[m].implicit) => Parents(mk, o) = {node[m].output} /\ PrimaryRule(mk, o) = 0
        BY <1>2
      <3> QED BY <1>4, <2>2, <2>4, <3>1, <3>2
    <2> QED BY <2>1, <2>3, <2>4
  <1> QED BY <1>5

\* In the graph MakeDep returns, every edge, and every goal, leads to a node
\* that makes the target it is for, and no two nodes make the same one, for
\* every Makefile in which no implicit output has a candidate of its own and
\* no second target of a chosen pattern rule has commands of its own: what
\* done_ answers in the middle of a plan is still right when the plan is ready.
THEOREM GraphIsRight == Spec => [](Unmatched /\ SiblingsFree => EdgesRight)
  <1> DEFINE Inv == Shape /\ PlanInv /\ GraphInv
  <1>1. Init => Inv
    BY ShapeInit, PlanInit, GraphInit
  <1>2. Inv /\ [Next]_vars => Inv'
    BY ShapeStep, PlanStep, GraphStep
  <1>3. Inv => (Unmatched /\ SiblingsFree => EdgesRight)
    <2> SUFFICES ASSUME Inv, Unmatched, SiblingsFree, status = "ok" PROVE EdgesRight
      BY DEF EdgesRight
    <2>1. GraphRight /\ stack = << >> /\ ~PopulateError(mk)
      BY DEF GraphInv, Shape, StatusOk
    <2>2. EdgesIn(node, roots) = Edges \cup Range(roots)
      BY DEF EdgesIn, NodeEdges, EdgesOf, Edges, Nodes
    <2>3. \A e \in Edges \cup Range(roots) :
              IF PrimaryRule(mk, e[1]) # 0 THEN node[e[2]].output = e[1]
              ELSE e[1] \in Outs(e[2]) \cup node[e[2]].siblings
      BY <2>1, <2>2 DEF GraphRight, EdgesOk, RightFor, Outs
    <2>4. \A n, m \in Nodes : n # m => Outs(n) \cap Outs(m) = {}
      BY <2>1, OutsDiffer DEF GraphRight
    <2> QED BY <2>3, <2>4 DEF EdgesRight
  <1> QED BY <1>1, <1>2, <1>3, PTL DEF Spec

-----------------------------------------------------------------------------
(* Plans that are not ready, and the default target.                       *)

\* A node on the stack has no rule yet; one that is neither there nor ready
\* has no inputs; the default node is the first target's.
OpenRight ==
    /\ \A i \in 1 .. Len(stack) :
          /\ ~node[stack[i].node].hasRule
          /\ stack[i].at = "deps" => node[stack[i].node].output = stack[i].out
    /\ \A n \in Nodes : node[n].default => node[n].hasRule /\ node[n].output = FirstRule(mk)
    /\ \A n \in Nodes : \/ node[n].hasRule \/ EdgesOf(node[n]) = {}
                        \/ \E i \in 1 .. Len(stack) : stack[i].node = n /\ stack[i].at = "deps"

\* The call at work changes, and its node.
LEMMA SetTopOpen ==
    ASSUME Shape, OpenRight, stack # << >>, NEW g, CallOk(g), g.node = Top.node, stack' = SetTop(g),
           mk' = mk, Nodes' = Nodes, \A n \in Nodes : n # Top.node => node'[n] = node[n],
           NEW x, node'[Top.node] = x, ~x.hasRule, ~x.default, g.at = "deps" => x.output = g.out,
           g.at = "deps" \/ EdgesOf(x) = {}
    PROVE  OpenRight'
  <1>1. /\ stack' # << >> /\ Len(stack') = Len(stack) /\ Top' = g
        /\ \A i \in 1 .. Len(stack) : i # Len(stack) => stack'[i] = stack[i]
    BY SetTopOk
  <1>2. stack'[Len(stack)] = g /\ Len(stack) \in 1 .. Len(stack) /\ Top.node \in Nodes
    BY <1>1, TopIs DEF Top
  <1>3. \A i \in 1 .. Len(stack) : i # Len(stack) => stack[i].node # Top.node /\ stack[i].node \in Nodes
    BY <1>2 DEF Shape, CallsOk, Top
  <1>4. ASSUME NEW i \in 1 .. Len(stack')
        PROVE  ~node'[stack'[i].node].hasRule /\ (stack'[i].at = "deps" => node'[stack'[i].node].output = stack'[i].out)
    <2>1. CASE i = Len(stack)
      BY <1>2, <2>1
    <2>2. CASE i # Len(stack)
      BY <1>1, <1>3, <1>4, <2>2 DEF OpenRight
    <2> QED BY <2>1, <2>2
  <1>5. \A n \in Nodes : node'[n].default => node'[n].hasRule /\ node'[n].output = FirstRule(mk)
    BY DEF OpenRight
  <1>6. ASSUME NEW n \in Nodes
        PROVE  \/ node'[n].hasRule \/ EdgesOf(node'[n]) = {}
               \/ \E i \in 1 .. Len(stack') : stack'[i].node = n /\ stack'[i].at = "deps"
    <2>1. CASE n = Top.node
      BY <1>1, <1>2, <2>1
    <2>2. CASE n # Top.node
      <3>1. \/ node[n].hasRule \/ EdgesOf(node[n]) = {}
            \/ \E i \in 1 .. Len(stack) : stack[i].node = n /\ stack[i].at = "deps"
        BY DEF OpenRight
      <3>2. CASE \E i \in 1 .. Len(stack) : stack[i].node = n /\ stack[i].at = "deps"
        <4>1. PICK i \in 1 .. Len(stack) : stack[i].node = n /\ stack[i].at = "deps"
          BY <3>2
        <4>2. i # Len(stack)
          BY <2>2, <4>1 DEF Top
        <4> QED BY <1>1, <4>1, <4>2
      <3> QED BY <2>2, <3>1, <3>2
    <2> QED BY <2>1, <2>2
  <1> QED BY <1>4, <1>5, <1>6 DEF OpenRight

\* The node of the call at work.
LEMMA TopOpen ==
    ASSUME Shape, OpenRight, stack # << >>
    PROVE  /\ ~node[Top.node].hasRule /\ ~node[Top.node].default /\ Top.node \in Nodes
           /\ Top.at # "deps" => EdgesOf(node[Top.node]) = {}
  <1>1. Len(stack) \in 1 .. Len(stack) /\ Top.node \in Nodes
    BY TopIs
  <1>2. ~node[Top.node].hasRule /\ ~node[Top.node].default
    BY <1>1 DEF OpenRight, Top
  <1>3. ASSUME NEW i \in 1 .. Len(stack), stack[i].node = Top.node, stack[i].at = "deps" PROVE Top.at = "deps"
    BY <1>1, <1>3 DEF Shape, CallsOk, Top
  <1> QED BY <1>1, <1>2, <1>3 DEF OpenRight

\* PickRule goes on, for the target or for its parent.
LEMMA MoveIs ==
    ASSUME Shape, InputKnown \/ InputPlanned \/ NoneLeft \/ Chosen \/ PickParent
    PROVE  /\ stack # << >> /\ Top.at # "deps" /\ status = "run" /\ UNCHANGED <<mk, scope, needed, status>>
           /\ Nodes' = Nodes /\ \A n \in Nodes : n # Top.node => node'[n] = node[n]
           /\ /\ node'[Top.node].hasRule = node[Top.node].hasRule
              /\ node'[Top.node].default = node[Top.node].default
              /\ \A k \in EdgeFields : node'[Top.node][k] = node[Top.node][k]
           /\ \E g : /\ stack' = SetTop(g) /\ CallOk(g) /\ g.node = Top.node /\ g.at # "deps"
  <1>1. stack # << >> /\ Top.at # "deps" /\ status = "run" /\ UNCHANGED <<mk, scope, needed, status>>
    BY DEF InputKnown, InputPlanned, NoneLeft, Chosen, PickParent, Probing, Ready, Returned, Picked, Running
  <1>2. CallOk(Top) /\ Top.node \in Nodes /\ NodeOk(node[Top.node])
    BY <1>1, TopIs DEF Shape, TablesOk
  <1>3. /\ Nodes' = Nodes /\ \A n \in Nodes : n # Top.node => node'[n] = node[n]
        /\ node'[Top.node].hasRule = node[Top.node].hasRule
        /\ node'[Top.node].default = node[Top.node].default
        /\ \A k \in EdgeFields : node'[Top.node][k] = node[Top.node][k]
    <2>1. CASE InputKnown \/ InputPlanned \/ NoneLeft
      <3>1. node' = node
        BY <2>1 DEF InputKnown, InputPlanned, NoneLeft
      <3> QED BY <3>1 DEF Nodes
    <2>2. CASE Chosen
      <3>1. PICK y : node' = [node EXCEPT ![Top.node] = [node[Top.node] EXCEPT !.siblings = y]]
        BY <1>2, <2>2 DEF Chosen, Nodes
      <3> QED BY <1>2, <3>1 DEF Nodes, NodeOk, NodeFields, EdgeFields
    <2>3. CASE PickParent
      <3>1. PICK y : node' = [node EXCEPT ![Top.node] = [node[Top.node] EXCEPT !.output = y]]
        BY <1>2, <2>3 DEF PickParent, Nodes
      <3> QED BY <1>2, <3>1 DEF Nodes, NodeOk, NodeFields, EdgeFields
    <2> QED BY <2>1, <2>2, <2>3
  <1>4. \E g : stack' = SetTop(g) /\ CallOk(g) /\ g.node = Top.node /\ g.at # "deps"
    <2>1. CASE InputKnown \/ InputPlanned
      <3>1. PICK g : g = [Top EXCEPT !.ins = Tail(@)]
        OBVIOUS
      <3>2. PICK h : h = Try(Top, Top.try)
        OBVIOUS
      <3>3. CallOk(g) /\ g.node = Top.node /\ g.at = Top.at
        BY <1>2, <3>1 DEF CallOk, CallFields
      <3>4. CallOk(h) /\ h.node = Top.node /\ h.at = Top.at
        BY <1>2, <3>2, TryIs DEF SameCall
      <3>5. stack' = SetTop(g) \/ stack' = SetTop(h)
        BY <2>1, <3>1, <3>2 DEF InputKnown, InputPlanned, NextInput, NextCandidate
      <3> QED BY <1>1, <3>3, <3>4, <3>5
    <2>2. CASE NoneLeft
      <3>1. PICK g : g = [Top EXCEPT !.at = "picked"]
        OBVIOUS
      <3>2. CallOk(g) /\ g.node = Top.node /\ g.at = "picked"
        BY <1>2, <3>1 DEF CallOk, CallFields
      <3> QED BY <2>2, <3>1, <3>2 DEF NoneLeft
    <2>3. CASE Chosen
      <3>1. PICK g : g = [Top EXCEPT !.at = "picked", !.chosen = Cand]
        OBVIOUS
      <3>2. CallOk(g) /\ g.node = Top.node /\ g.at = "picked"
        BY <1>2, <3>1 DEF CallOk, CallFields
      <3> QED BY <2>3, <3>1, <3>2 DEF Chosen
    <2>4. CASE PickParent
      <3>1. PICK p : stack' = SetTop(PickRule([Top EXCEPT !.second = TRUE], p))
        BY <2>4 DEF PickParent
      <3>2. PICK f : f = [Top EXCEPT !.second = TRUE]
        OBVIOUS
      <3>3. CallOk(f) /\ f.node = Top.node
        BY <1>2, <3>2 DEF CallOk, CallFields
      <3>4. PICK g : g = PickRule(f, p)
        OBVIOUS
      <3>5. CallOk(g) /\ g.node = Top.node /\ g.at = "pick"
        BY <3>3, <3>4, PickRuleIs DEF SameCall
      <3> QED BY <3>1, <3>2, <3>4, <3>5
    <2> QED BY <2>1, <2>2, <2>3, <2>4
  <1> QED BY <1>1, <1>3, <1>4

\* BuildPlan begins with a node that has nothing.
LEMMA BuildPlanOpen == ASSUME Shape, OpenRight, BuildPlan PROVE OpenRight'
  <1>1. PICK t : t = Called
    OBVIOUS
  <1>2. /\ t \notin DOMAIN done /\ mk' = mk
        /\ node' = Put(node, {t}, NewNode(t)) /\ stack' = Append(stack, PickRule(NewCall(t), t))
    BY <1>1 DEF BuildPlan
  <1>3. t \notin Nodes /\ Nodes' = Nodes \cup {t} /\ node'[t] = NewNode(t) /\ \A n \in Nodes : node'[n] = node[n]
    BY <1>2 DEF Shape, TablesOk, Put, Nodes
  <1>4. PICK g : g = PickRule(NewCall(t), t)
    OBVIOUS
  <1>5. CallOk(g) /\ g.node = t /\ g.at = "pick"
    <2>1. PICK h : h = NewCall(t)
      OBVIOUS
    <2>2. CallOk(h) /\ h.node = t
      BY <2>1, NewCallIs
    <2> QED BY <1>4, <2>1, <2>2, PickRuleIs DEF SameCall
  <1>6. Len(stack') = Len(stack) + 1 /\ Top' = g /\ \A i \in 1 .. Len(stack) : stack'[i] = stack[i]
    <2>1. PICK ns : ns = Nodes \cup {t}
      OBVIOUS
    <2>2. stack' = Append(stack, g) /\ g.node \notin Nodes /\ Nodes \subseteq ns /\ g.node \in ns
      BY <1>2, <1>3, <1>4, <1>5, <2>1
    <2> QED BY <1>5, <2>2, PushOk
  <1>7. Len(stack) \in Nat
    BY SeqIs DEF Shape, CallsOk
  <1>8. /\ \A i \in 1 .. Len(stack') : i \in 1 .. Len(stack) \/ i = Len(stack')
        /\ \A i \in 1 .. Len(stack) : i \in 1 .. Len(stack') /\ stack[i].node \in Nodes
        /\ stack'[Len(stack')] = g
    BY <1>6, <1>7 DEF Shape, CallsOk, Top
  <1>9. ~NewNode(t).hasRule /\ ~NewNode(t).default /\ EdgesOf(NewNode(t)) = {}
    <2>1. Range(<< >>) = {}
      BY DEF Range
    <2> QED BY <2>1 DEF NewNode, EdgesOf
  <1>10. \A i \in 1 .. Len(stack') :
            /\ ~node'[stack'[i].node].hasRule
            /\ stack'[i].at = "deps" => node'[stack'[i].node].output = stack'[i].out
    BY <1>3, <1>5, <1>6, <1>8, <1>9 DEF OpenRight
  <1>11. \A n \in Nodes' : node'[n].default => node'[n].hasRule /\ node'[n].output = FirstRule(mk')
    BY <1>2, <1>3, <1>9 DEF OpenRight
  <1>12. \A n \in Nodes' : \/ node'[n].hasRule \/ EdgesOf(node'[n]) = {}
                           \/ \E i \in 1 .. Len(stack') : stack'[i].node = n /\ stack'[i].at = "deps"
    <2>1. ASSUME NEW n \in Nodes
          PROVE  \/ node'[n].hasRule \/ EdgesOf(node'[n]) = {}
                 \/ \E i \in 1 .. Len(stack') : stack'[i].node = n /\ stack'[i].at = "deps"
      BY <1>3, <1>6, <1>8 DEF OpenRight
    <2> QED BY <1>3, <1>9, <2>1
  <1> QED BY <1>10, <1>11, <1>12 DEF OpenRight

\* The call at work goes on.
LEMMA WorkOpen ==
    ASSUME Shape, OpenRight,
           InputKnown \/ InputPlanned \/ NoneLeft \/ Chosen \/ PickParent \/ FillDepNode \/ AddDep
    PROVE  OpenRight'
  <1>1. CASE InputKnown \/ InputPlanned \/ NoneLeft \/ Chosen \/ PickParent
    <2>1. /\ stack # << >> /\ Top.at # "deps" /\ mk' = mk /\ Nodes' = Nodes
          /\ \A n \in Nodes : n # Top.node => node'[n] = node[n]
          /\ node'[Top.node].hasRule = node[Top.node].hasRule /\ node'[Top.node].default = node[Top.node].default
          /\ \A k \in EdgeFields : node'[Top.node][k] = node[Top.node][k]
      BY <1>1, MoveIs
    <2>2. PICK g : stack' = SetTop(g) /\ CallOk(g) /\ g.node = Top.node /\ g.at # "deps"
      BY <1>1, MoveIs
    <2>3. PICK x : x = node'[Top.node]
      OBVIOUS
    <2>4. ~x.hasRule /\ ~x.default
      BY <2>1, <2>3, TopOpen
    <2>5. EdgesOf(x) = {}
      BY <2>1, <2>3, TopOpen, FieldEdges
    <2> QED BY <2>1, <2>2, <2>3, <2>4, <2>5, SetTopOpen
  <1>2. CASE FillDepNode \/ AddDep
    <2>1. stack # << >> /\ mk' = mk
      BY <1>2, FillIs, AddDepIs
    <2>2. Top.node \in Nodes /\ ~node[Top.node].hasRule /\ ~node[Top.node].default
      BY <2>1, TopOpen
    <2>3. \E x, g : /\ node' = [node EXCEPT ![Top.node] = x] /\ x.hasRule = node[Top.node].hasRule
                    /\ x.default = node[Top.node].default /\ x.output = g.out
                    /\ stack' = SetTop(g) /\ CallOk(g) /\ g.node = Top.node /\ g.at = "deps"
      <3>1. CASE FillDepNode
        <4>1. PICK x, g : /\ node' = [node EXCEPT ![Top.node] = x]
                          /\ x.hasRule = node[Top.node].hasRule /\ x.default = node[Top.node].default
                          /\ x.output = Top.out /\ g.out = Top.out
                          /\ stack' = SetTop(g) /\ CallOk(g) /\ g.node = Top.node /\ g.at = "deps"
          BY <3>1, FillIs
        <4> QED BY <4>1
      <3>2. CASE AddDep
        <4>1. PICK x, g : /\ node' = [node EXCEPT ![Top.node] = x]
                          /\ x.hasRule = node[Top.node].hasRule /\ x.default = node[Top.node].default
                          /\ x.output = node[Top.node].output /\ g.out = Top.out
                          /\ stack' = SetTop(g) /\ CallOk(g) /\ g.node = Top.node /\ g.at = "deps"
          BY <3>2, AddDepIs
        <4>2. node[Top.node].output = Top.out
          <5>1. Top.at = "deps" /\ Len(stack) \in 1 .. Len(stack)
            BY <2>1, <3>2, AddDepIs, TopIs
          <5> QED BY <5>1 DEF OpenRight, Top
        <4> QED BY <4>1, <4>2
      <3> QED BY <1>2, <3>1, <3>2
    <2>4. PICK x, g : /\ node' = [node EXCEPT ![Top.node] = x] /\ x.hasRule = node[Top.node].hasRule
                      /\ x.default = node[Top.node].default /\ x.output = g.out
                      /\ stack' = SetTop(g) /\ CallOk(g) /\ g.node = Top.node /\ g.at = "deps"
      BY <2>3
    <2>5. Nodes' = Nodes /\ node'[Top.node] = x /\ \A n \in Nodes : n # Top.node => node'[n] = node[n]
      BY <2>2, <2>4 DEF Nodes
    <2>6. ~x.hasRule /\ ~x.default
      BY <2>2, <2>4
    <2> QED BY <2>1, <2>4, <2>5, <2>6, SetTopOpen
  <1> QED BY <1>1, <1>2

\* A call returns, with a rule or without inputs.
LEMMA ReturnOpen == ASSUME Shape, OpenRight, ReturnNode \/ NoRule PROVE OpenRight'
  <1>1. stack # << >> /\ stack' = Front(stack) /\ mk' = mk
    BY DEF ReturnNode, NoRule, Ready
  <1>2. /\ Len(stack') = Len(stack) - 1
        /\ \A i \in 1 .. Len(stack') : i \in 1 .. Len(stack) /\ i # Len(stack) /\ stack'[i] = stack[i]
    BY <1>1, FrontOk
  <1>3. Len(stack) \in Nat /\ Len(stack) \in 1 .. Len(stack) /\ Top.node \in Nodes
    BY <1>1, TopIs
  <1>4. \A i \in 1 .. Len(stack) : i # Len(stack) => stack[i].node # Top.node /\ stack[i].node \in Nodes
    BY <1>3 DEF Shape, CallsOk, Top
  <1>5. \A i \in 1 .. Len(stack) : i # Len(stack) => i \in 1 .. Len(stack')
    BY <1>2, <1>3
  <1>6. /\ Nodes' = Nodes /\ \A n \in Nodes : n # Top.node => node'[n] = node[n]
        /\ node'[Top.node].default => node'[Top.node].hasRule /\ node'[Top.node].output = FirstRule(mk)
        /\ node'[Top.node].hasRule \/ EdgesOf(node'[Top.node]) = {}
    <2>1. CASE ReturnNode
      <3>1. PICK x : /\ node' = [node EXCEPT ![Top.node] = x] /\ x.output = node[Top.node].output
                     /\ x.hasRule = TRUE /\ x.default = (Top.out = FirstRule(mk))
        BY <2>1, ReturnNodeIs
      <3>2. Nodes' = Nodes /\ node'[Top.node] = x /\ \A n \in Nodes : n # Top.node => node'[n] = node[n]
        BY <1>3, <3>1 DEF Nodes
      <3>3. node[Top.node].output = Top.out
        <4>1. Top.at = "deps"
          BY <2>1, ReturnNodeIs
        <4> QED BY <1>3, <4>1 DEF OpenRight, Top
      <3> QED BY <3>1, <3>2, <3>3
    <2>2. CASE NoRule
      <3>1. node' = node /\ Top.at # "deps"
        BY <2>2 DEF NoRule, Ready
      <3>2. ~node[Top.node].default /\ EdgesOf(node[Top.node]) = {}
        BY <1>1, <3>1, TopOpen
      <3> QED BY <3>1, <3>2 DEF Nodes
    <2> QED BY <2>1, <2>2
  <1>7. \A i \in 1 .. Len(stack') :
            /\ ~node'[stack'[i].node].hasRule
            /\ stack'[i].at = "deps" => node'[stack'[i].node].output = stack'[i].out
    <2>1. ASSUME NEW i \in 1 .. Len(stack')
          PROVE  /\ ~node'[stack'[i].node].hasRule
                 /\ stack'[i].at = "deps" => node'[stack'[i].node].output = stack'[i].out
      <3>1. i \in 1 .. Len(stack) /\ stack'[i] = stack[i] /\ stack[i].node \in Nodes /\ stack[i].node # Top.node
        BY <1>2, <1>4
      <3>2. node'[stack[i].node] = node[stack[i].node]
        BY <1>6, <3>1
      <3>3. ~node[stack[i].node].hasRule /\ (stack[i].at = "deps" => node[stack[i].node].output = stack[i].out)
        BY <3>1 DEF OpenRight
      <3> QED BY <3>1, <3>2, <3>3
    <2> QED BY <2>1
  <1>8. \A n \in Nodes' : node'[n].default => node'[n].hasRule /\ node'[n].output = FirstRule(mk')
    BY <1>1, <1>6 DEF OpenRight
  <1>9. ASSUME NEW n \in Nodes
        PROVE  \/ node'[n].hasRule \/ EdgesOf(node'[n]) = {}
               \/ \E i \in 1 .. Len(stack') : stack'[i].node = n /\ stack'[i].at = "deps"
    <2>1. CASE n = Top.node
      BY <1>6, <2>1
    <2>2. CASE n # Top.node
      <3>1. \/ node[n].hasRule \/ EdgesOf(node[n]) = {}
            \/ \E i \in 1 .. Len(stack) : stack[i].node = n /\ stack[i].at = "deps"
        BY DEF OpenRight
      <3>2. CASE \E i \in 1 .. Len(stack) : stack[i].node = n /\ stack[i].at = "deps"
        <4>1. PICK i \in 1 .. Len(stack) : stack[i].node = n /\ stack[i].at = "deps"
          BY <3>2
        <4>2. i # Len(stack)
          BY <2>2, <4>1 DEF Top
        <4> QED BY <1>2, <1>5, <4>1, <4>2
      <3> QED BY <1>6, <2>2, <3>1, <3>2
    <2> QED BY <2>1, <2>2
  <1> QED BY <1>6, <1>7, <1>8, <1>9 DEF OpenRight

\* Every step keeps OpenRight.
LEMMA OpenStep == ASSUME Shape, OpenRight, [Next]_vars PROVE OpenRight'
  <1>1. CASE FoundDone \/ ReturnRoot \/ Finish \/ Ended \/ UNCHANGED vars
    <2>1. UNCHANGED <<mk, stack, node>>
      BY <1>1 DEF FoundDone, ReturnRoot, Finish, Ended, vars
    <2> QED BY <2>1 DEF OpenRight, Nodes
  <1> QED BY <1>1, BuildPlanOpen, WorkOpen, ReturnOpen DEF Next

\* It holds at first.
LEMMA OpenInit == Init => OpenRight
  <1> SUFFICES ASSUME Init PROVE OpenRight
    OBVIOUS
  <1>1. 1 .. Len(stack) = {} /\ Nodes = {}
    BY DEF Init, Nodes
  <1> QED BY <1>1 DEF OpenRight
=============================================================================
