----------------------------- MODULE DepBuilder -----------------------------
(***************************************************************************)
(* ckati's dependency builder (dep.cc): MakeDep turns the rules of a       *)
(* Makefile into a graph of DepNodes.  BuildPlan calls itself for the      *)
(* inputs of a target, and also, through PickRule, CanPickImplicitRule and *)
(* Exists, to find out whether an input could be made at all; stack holds  *)
(* its calls.  A DepNode is named by the target it was created for.        *)
(***************************************************************************)
EXTENDS Rules

CONSTANTS
    Makefiles,  \* the Makefiles to be tried
    Slashed, Writable  \* names with a slash, names under g_flags.writable

\* The goals, and the words of a variable, are sequences.
ASSUME MakefilesAssumption ==
    \A m \in Makefiles :
        /\ m.goals \in Seq(Range(m.goals))
        /\ \A t \in DOMAIN m.implicit : m.implicit[t] \in Seq(Range(m.implicit[t]))

Nobody == <<"nobody">>
NoVars == [v \in {} |-> << >>]

VARIABLES
    mk,      \* the Makefile
    goals,   \* targets that Build has still to do
    roots,   \* the result, pairs <<target, node>>
    stack,   \* calls of BuildPlan
    ret,     \* << >>, or <<n>> when a call has returned node n
    done,    \* done_
    node,    \* the DepNodes
    scope,   \* cur_rule_vars_
    status,  \* "run", "ok" or "error"
    needed   \* history: the node whose plan first asked for a node

vars == <<mk, goals, roots, stack, ret, done, node, scope, status, needed>>

Top == stack[Len(stack)]
Merge(t) == HasMerger(mk, t)
Running == status = "run"
Put(f, keys, x) == [k \in DOMAIN f \cup keys |-> IF k \in keys THEN x ELSE f[k]]

NewNode(t) ==
    [output |-> t, phony |-> t \in Phony(mk), restat |-> t \in Restat(mk), default |-> FALSE, hasRule |-> FALSE, cmds |-> << >>,
     deps |-> << >>, orders |-> << >>, validations |-> << >>,
     implicit |-> << >>, siblings |-> {}, vars |-> NoVars, pool |-> << >>]

\* rule_stack_.back(): the pattern rule whose inputs are being looked for
RuleStackBack ==
    LET Trying(f) == f.at = "pick" /\ f.try \in DOMAIN f.cands /\ f.cands[f.try].pat # << >>
        I == {i \in DOMAIN stack : Trying(stack[i])}
        f == stack[CHOOSE i \in I : \A j \in I : j <= i]
    IN IF I = {} THEN 0 ELSE f.cands[f.try].rule

-----------------------------------------------------------------------------
(* BuildPlan is called, and returns.                                       *)

\* Exists, but for the call of BuildPlan
Known(t) == Merge(t) \/ t \in Phony(mk) \/ t \in mk.files

\* There is a candidate at hand; it has an input that is still to be looked for.
Left == Top.try \in DOMAIN Top.cands
Cand == Top.cands[Top.try]
Probing == stack # << >> /\ Top.at = "pick" /\ Left /\ Top.ins # << >>

\* The loops over the inputs that are not finished, and the current one.
Kinds == {k \in {"deps", "orders", "validations"} : Top.rest[k] # << >>}
Kind == IF "deps" \in Kinds THEN "deps" ELSE IF "orders" \in Kinds THEN "orders" ELSE "validations"

Calling ==
    /\ Running /\ ret = << >>
    /\ \/ stack = << >> /\ goals # << >>
       \/ Probing /\ ~Known(Head(Top.ins))
       \/ stack # << >> /\ Top.at = "deps" /\ Kinds # {}
Called ==
    IF stack = << >> THEN Head(goals)
    ELSE IF Top.at = "pick" THEN Head(Top.ins) ELSE Head(Top.rest[Kind])

\* A call of BuildPlan.
NewCall(t) ==
    [node |-> t, at |-> "pick", out |-> t, cands |-> << >>, try |-> 0, ins |-> << >>,
     last |-> 0, chosen |-> NoCandidate, second |-> FALSE,
     rest |-> [deps |-> << >>, orders |-> << >>, validations |-> << >>], saved |-> NoVars]

\* The call f tries a candidate after the k-th, if there is one; a pattern rule
\* does not make its own direct input.
Try(f, k) ==
    LET I == {i \in DOMAIN f.cands : i > k /\ (f.cands[i].pat = << >> \/ f.cands[i].rule # f.last)}
    IN [f EXCEPT !.try = IF I = {} THEN 0 ELSE Min(I),
                 !.ins = IF I = {} THEN << >> ELSE f.cands[Min(I)].inputs]
PickFrom(f, t, cands) ==
    Try([f EXCEPT !.at = "pick", !.out = t, !.cands = cands, !.last = RuleStackBack], 0)
PickRule(f, t) == PickFrom(f, t, IF PrimaryRule(mk, t) # 0 THEN << >> ELSE Candidates(mk, t))

\* Mutants: done_ is set when the plan is ready; it is not set for a parent.
MutMarkLate(t, n) == done
MutMarkNoParent(t, n) == IF t = n THEN Put(done, {t}, n) ELSE done
Mark(t, n) == Put(done, {t}, n)

BuildPlan ==
    /\ Calling /\ Called \notin DOMAIN done
    /\ LET t == Called IN
       /\ done' = Mark(t, t)
       /\ node' = Put(node, {t}, NewNode(t))
       /\ needed' = Put(needed, {t}, IF stack = << >> THEN Nobody ELSE Top.node)
       /\ stack' = Append(stack, PickRule(NewCall(t), t))
       /\ scope' = IF stack = << >> THEN NoVars ELSE scope
    /\ UNCHANGED <<mk, goals, roots, ret, status>>

\* A node that exists is returned as it is, also in the middle of its plan.
FoundDone ==
    /\ Calling /\ Called \in DOMAIN done
    /\ ret' = <<done[Called]>>
    /\ UNCHANGED <<mk, goals, roots, stack, done, node, scope, status, needed>>

Returned(at) == Running /\ ret # << >> /\ stack # << >> /\ Top.at = at
SetTop(f) == [stack EXCEPT ![Len(stack)] = f]

ReturnRoot ==
    /\ Running /\ ret # << >> /\ stack = << >>
    /\ roots' = Append(roots, <<Head(goals), ret[1]>>)
    /\ goals' = Tail(goals) /\ ret' = << >>
    /\ UNCHANGED <<mk, stack, done, node, scope, status, needed>>

-----------------------------------------------------------------------------
(* PickRule and CanPickImplicitRule.                                       *)

\* The next input of the candidate, or the next candidate.
NextInput == SetTop([Top EXCEPT !.ins = Tail(@)])
NextCandidate == SetTop(Try(Top, Top.try))

InputKnown ==
    /\ Running /\ ret = << >> /\ Probing /\ Known(Head(Top.ins))
    /\ stack' = NextInput
    /\ UNCHANGED <<mk, goals, roots, ret, done, node, scope, status, needed>>

InputPlanned ==
    /\ Returned("pick")
    /\ stack' = IF node[ret[1]].hasRule THEN NextInput ELSE NextCandidate
    /\ ret' = << >>
    /\ UNCHANGED <<mk, goals, roots, done, node, scope, status, needed>>

\* The variables that are put into scope, and those kept in the node.
Defined(sc, v) == v \in DOMAIN sc \/ v \in DOMAIN mk.globals
Value(sc, v) == IF v \in DOMAIN sc THEN sc[v] ELSE mk.globals[v]
NodeVars == {".KATI_DEPFILE", ".KATI_NINJA_POOL"}
Scoped(own) ==
    LET Ok == {v \in DOMAIN own : ~(own[v].op = "?=" /\ Defined(scope, v))}
    IN [v \in Ok |-> IF own[v].op = "+=" /\ Defined(scope, v)
                     THEN Value(scope, v) \o own[v].val ELSE own[v].val]

\* The errors about an output of the node.
BadOutput(n, o) ==
    \/ "phony_looks_real" \in mk.flags /\ n.phony /\ o \in Slashed
    \/ "writable" \in mk.flags /\ ~n.phony /\ o \notin Writable
BadSymlink(t, impl) == \E o \in Range(Words(mk, "symlinks", t)) : o # t /\ ~Contains(impl, o)

\* FillDepNode and what follows up to the loops over the inputs.
Fill(t, c, n) ==
    LET new == Scoped(OwnVars(mk, t, c))
        impl == ImplicitOutputs(mk, t)
        full == [node[n] EXCEPT !.output = t, !.cmds = Commands(mk, t, c), !.implicit = impl,
                                !.pool = IF ".KATI_NINJA_POOL" \in DOMAIN new
                                         THEN new[".KATI_NINJA_POOL"] ELSE << >>]
    IN /\ node' = [node EXCEPT ![n] = full]
       /\ scope' = [v \in DOMAIN new \ NodeVars |-> new[v]] @@ scope
       /\ done' = Put(done, Range(impl), n)
       /\ stack' = SetTop([Top EXCEPT !.at = "deps", !.out = t, !.chosen = c, !.saved = scope,
                             !.rest = [deps |-> InputsOf(mk, t, c, "inputs"),
                                       orders |-> InputsOf(mk, t, c, "orders"),
                                       validations |-> Words(mk, "validations", t)]])
       /\ status' = IF \/ BadSymlink(t, impl)
                       \/ \E o \in {t} \cup Range(impl) : BadOutput(full, o)
                    THEN "error" ELSE status

\* The outputs of the other patterns of a rule are made by the same node.
Siblings(c) ==
    IF c.pat = << >> THEN {}
    ELSE {Subst(c.pat, Top.out, p) : p \in Range(mk.rules[c.rule].patterns) \ {c.pat}}

\* A candidate is picked, or, when none is left, the rules of the target
\* itself if it has any; c is what pattern_rule points to.
Ready == Running /\ ret = << >> /\ stack # << >> /\ Top.at = "pick" /\ Top.ins = << >>

Chosen ==
    /\ Ready /\ Left
    /\ done' = Put(done, Siblings(Cand), Top.node)
    /\ node' = [node EXCEPT ![Top.node].siblings = @ \cup Siblings(Cand)]
    /\ stack' = SetTop([Top EXCEPT !.at = "picked", !.chosen = Cand])
    /\ UNCHANGED <<mk, goals, roots, ret, scope, status, needed>>

NoneLeft ==
    /\ Ready /\ ~Left /\ Merge(Top.out)
    /\ stack' = SetTop([Top EXCEPT !.at = "picked"])
    /\ UNCHANGED <<mk, goals, roots, ret, done, node, scope, status, needed>>

NoRule ==
    /\ Ready /\ ~Left /\ ~Merge(Top.out)
    /\ ret' = <<Top.node>> /\ stack' = Front(stack)
    /\ UNCHANGED <<mk, goals, roots, done, node, scope, status, needed>>

Picked == Running /\ stack # << >> /\ Top.at = "picked"
Parent == Parents(mk, Top.out)

\* An implicit output: the rule of its parent is picked instead.
PickParent ==
    /\ Picked /\ ~Top.second /\ Parent # {}
    /\ LET p == CHOOSE p \in Parent : TRUE IN
       /\ done' = Mark(p, Top.node)
       /\ node' = [node EXCEPT ![Top.node].output = p]
       /\ stack' = SetTop(PickRule([Top EXCEPT !.second = TRUE], p))
    /\ UNCHANGED <<mk, goals, roots, ret, scope, status, needed>>

\* CHECK(!pattern_rule) of FillDepNode, and CHECK(irule->outputs.size() == 1)
\* of PickRule: kati ends there, and the model takes no further step, which a
\* run finds as a deadlock.  The first fails when an implicit output matches a
\* pattern rule: what was picked for it is kept when the rule of its parent is.
CheckFails ==
    LET c == Top.chosen IN
    \/ PrimaryRule(mk, Top.out) # 0 /\ c.rule # 0
    \/ /\ c.rule # 0 /\ c.pat = << >> /\ ~Merge(Top.out) /\ Top.out \in DOMAIN mk.vars
       /\ Len(mk.rules[c.rule].outputs) # 1

FillDepNode ==
    /\ Picked /\ (Top.second \/ Parent = {}) /\ ~CheckFails
    /\ Fill(Top.out, Top.chosen, Top.node)
    /\ UNCHANGED <<mk, goals, roots, ret, needed>>

-----------------------------------------------------------------------------
(* The loops over the inputs, and the end of BuildPlan.                    *)

\* c, under the name i, counts as phony.
LooksPhony(c, i) ==
    node[c].phony \/ (~node[c].hasRule /\ "top_level_phony" \in mk.flags /\ i \notin Slashed)
BadDep(i, c) ==
    \/ Kind = "deps" /\ "real_to_phony" \in mk.flags /\ ~node[Top.node].phony /\ LooksPhony(c, i)
    \/ Kind = "validations" /\ "no_validations" \in mk.flags

AddDep ==
    /\ Returned("deps")
    /\ node' = [node EXCEPT ![Top.node][Kind] = Append(@, <<Called, ret[1]>>)]
    /\ status' = IF BadDep(Called, ret[1]) THEN "error" ELSE status
    /\ stack' = SetTop([Top EXCEPT !.rest[Kind] = Tail(@)])
    /\ ret' = << >>
    /\ UNCHANGED <<mk, goals, roots, done, scope, needed>>

\* A real target without commands, and perhaps without inputs.
NoCommands(n) ==
    /\ ~n.phony /\ n.cmds = << >> /\ {"writable", "phony_looks_real"} \subseteq mk.flags
    /\ IF n.deps = << >> /\ n.orders = << >>
       THEN "real_no_cmds_or_deps" \in mk.flags ELSE "real_no_cmds" \in mk.flags

\* Mutant: the variables stay in scope.
MutScopeKept == scope
Restored == Top.saved

ReturnNode ==
    /\ Running /\ ret = << >> /\ stack # << >> /\ Top.at = "deps" /\ Kinds = {}
    /\ node' = [node EXCEPT ![Top.node].hasRule = TRUE, ![Top.node].vars = scope,
                           ![Top.node].default = (Top.out = FirstRule(mk))]
    /\ status' = IF \/ NoCommands(node[Top.node])
                    \/ "no_symlink_outputs" \in mk.flags /\ Words(mk, "symlinks", Top.out) # << >>
                 THEN "error" ELSE status
    /\ scope' = Restored
    /\ ret' = <<Top.node>> /\ stack' = Front(stack)
    /\ UNCHANGED <<mk, goals, roots, done, needed>>

Finish ==
    /\ Running /\ stack = << >> /\ ret = << >> /\ goals = << >>
    /\ status' = "ok"
    /\ UNCHANGED <<mk, goals, roots, stack, ret, done, node, scope, needed>>

-----------------------------------------------------------------------------
Init ==
    /\ mk \in Makefiles
    /\ goals = IF mk.goals = << >> /\ FirstRule(mk) # << >> THEN <<FirstRule(mk)>> ELSE mk.goals
    /\ status = IF PopulateError(mk) \/ FirstRule(mk) = << >> THEN "error" ELSE "run"
    /\ roots = << >> /\ stack = << >> /\ ret = << >> /\ scope = NoVars
    /\ done = [t \in {} |-> t] /\ node = [t \in {} |-> 0] /\ needed = [t \in {} |-> t]

\* MakeDep has returned, or kati has exited.
Ended == status # "run" /\ UNCHANGED vars

Next ==
    \/ BuildPlan \/ FoundDone \/ ReturnRoot \/ InputKnown \/ InputPlanned \/ Chosen
    \/ NoneLeft \/ NoRule \/ PickParent \/ FillDepNode \/ AddDep \/ ReturnNode \/ Finish \/ Ended

Spec == Init /\ [][Next]_vars

-----------------------------------------------------------------------------
(* Properties.                                                             *)

Nodes == DOMAIN node
Finished(n) == node[n].hasRule
OnStack(n) == \E i \in DOMAIN stack : stack[i].node = n

\* The tables fit together: a target has one call of BuildPlan at most, whose node is in
\* the table although a plan is asked for while another one is looked for.
TypeOK ==
    /\ DOMAIN needed = Nodes /\ Nodes \subseteq DOMAIN done
    /\ \A t \in DOMAIN done : done[t] \in Nodes
    /\ \A i, j \in DOMAIN stack : stack[i].node = stack[j].node => i = j

\* What a reader of the Makefile expects.  Among the pattern rules whose
\* inputs all exist, or are made by a node of the finished graph, the one with
\* the longest prefix and then the last one is used; a suffix rule, the last
\* one, only when there is none; and neither if t has commands itself.
Makeable(i) == Known(i) \/ (i \in DOMAIN done /\ Finished(done[i]))
RulesOf(t) == {i \in DOMAIN mk.rules : Contains(mk.rules[i].outputs, t)}
WithCommands(t) == {i \in RulesOf(t) : mk.rules[i].cmds # << >>}
Matching(t) ==
    {c \in UNION {Range(Tries(mk, e.rule, t)) : e \in Range(Entries(mk))} :
        \A i \in Range(c.inputs) : Makeable(i)}
Suffixed(t) == {c \in Range(SuffixRules(mk, t)) : \A i \in Range(c.inputs) : Makeable(i)}
Better(c, d) ==
    LET l == Len(Prefix(c.pat))
        m == Len(Prefix(d.pat))
    IN l > m \/ (l = m /\ c.rule >= d.rule)
Expected(t) ==
    CASE WithCommands(t) = {} /\ Matching(t) # {} ->
            CHOOSE c \in Matching(t) : \A d \in Matching(t) : Better(c, d)
      [] WithCommands(t) = {} /\ Matching(t) = {} /\ Suffixed(t) # {} ->
            CHOOSE c \in Suffixed(t) : \A d \in Suffixed(t) : c.rule >= d.rule
      [] OTHER -> NoCandidate
ExpectedCommands(t) ==
    LET own == SetToSortSeq(WithCommands(t), <) IN
    CASE own = << >> /\ Expected(t).rule = 0 -> << >>
      [] own = << >> /\ Expected(t).rule # 0 -> mk.rules[Expected(t).rule].cmds
      [] own # << >> /\ ~mk.rules[own[1]].dcolon -> mk.rules[Last(own)].cmds
      [] OTHER -> FlattenSeq([i \in DOMAIN own |-> mk.rules[own[i]].cmds])
ExpectedInputs(t) ==
    Range(Expected(t).inputs) \cup
    UNION {Range(Applied(mk.rules[i], t, mk.rules[i].inputs)) :
             i \in UNION {RulesOf(o) : o \in {t} \cup Range(ImplicitOutputs(mk, t))}}

\* When the graph is built, every node has the commands and the inputs a
\* reader expects, and a node without a rule has none to be used: what Exists
\* answered in the middle of other plans, and done_ remembers, is still right
\* at the end.
RuleRight ==
    status = "ok" => \A n \in Nodes :
        LET t == node[n].output IN
        IF Merge(t) \/ Expected(t) # NoCandidate
        THEN /\ Finished(n)
             /\ node[n].cmds = ExpectedCommands(t)
             /\ {d[1] : d \in Range(node[n].deps)} = ExpectedInputs(t)
        ELSE ~Finished(n)

\* Every edge leads to a node that makes the target it is for, with the
\* commands of the target itself if it has any, and no two nodes have the
\* same output: ninja refuses such a file.
Outs(n) == {node[n].output} \cup Range(node[n].implicit)
Edges == UNION {Range(node[n].deps) \cup Range(node[n].orders) \cup Range(node[n].validations) : n \in Nodes}
EdgesRight ==
    status = "ok" =>
        /\ \A e \in Edges \cup Range(roots) :
              IF PrimaryRule(mk, e[1]) # 0 THEN node[e[2]].output = e[1]
              ELSE e[1] \in Outs(e[2]) \cup node[e[2]].siblings
        /\ \A n, m \in Nodes : n # m /\ Finished(n) /\ Finished(m) => Outs(n) \cap Outs(m) = {}

\* The variables of a target are in effect for its prerequisites, which are
\* its own and those of the target that first needed it, and no others: none
\* leaks out of a plan.
Own(n) == IF n = Nobody THEN {} ELSE DOMAIN OwnVars(mk, node[n].output, Expected(node[n].output)) \ NodeVars
VarsInherited ==
    status = "ok" => \A n \in Nodes : Finished(n) /\ (needed[n] = Nobody \/ Finished(needed[n])) =>
        LET up == IF needed[n] = Nobody THEN NoVars ELSE node[needed[n]].vars IN
        /\ DOMAIN up \subseteq DOMAIN node[n].vars
        /\ \A v \in DOMAIN node[n].vars \ Own(n) : v \in DOMAIN up /\ node[n].vars[v] = up[v]
=============================================================================
