------------------------------ MODULE NinjaGen ------------------------------
(***************************************************************************)
(* The ninja generator (ninja.cc) at work on the graph that DepBuilder has *)
(* made: PopulateNinjaNode visits the nodes, EmitNode and EmitBuild write  *)
(* the file.  What a rule runs is in Recipe; here a command is its name.   *)
(***************************************************************************)
EXTENDS DepBuilder

VARIABLES
    pending,    \* calls of PopulateNinjaNode to come, in order
    populated,  \* done_
    nodes,      \* nodes_: pairs <<node, rule_id>>
    builds,     \* the build statements
    default     \* default_target_ (<< >> if none), and then the default statement

\* All of DepBuilder's variables but status, which goes on from "ok" to
\* "populate", "emit" and "done"
plan == <<mk, goals, roots, stack, ret, done, node, scope, needed>>
gvars == <<pending, populated, nodes, builds, default>>

NodesOf(edges) == [i \in DOMAIN edges |-> edges[i][2]]
NamesOf(edges) == {e[1] : e \in Range(edges)}

Generate ==
    /\ status = "ok"
    /\ status' = "populate" /\ pending' = NodesOf(roots)
    /\ UNCHANGED <<plan, populated, nodes, builds, default>>

Visited(n) == node[n].output \in populated
\* A leaf, or the directory out in Android
Omitted(n) ==
    \/ "android_echo" \in mk.flags /\ node[n].output = <<"out">>
    \/ ~node[n].hasRule /\ ~node[n].phony

\* Mutant: validations are not visited.
MutChildren(n) == NodesOf(node[n].deps) \o NodesOf(node[n].orders)
Children(n) == NodesOf(node[n].deps) \o NodesOf(node[n].orders) \o NodesOf(node[n].validations)

\* Mutant: rule_id_ counts the nodes without commands.
MutRuleId == Cardinality({i \in DOMAIN nodes : nodes[i][2] < 0})
RuleId == Cardinality({i \in DOMAIN nodes : nodes[i][2] >= 0})
PopulateNinjaNode ==
    /\ status = "populate" /\ pending # << >>
    /\ LET n == Head(pending)
           add == ~Visited(n) /\ ~Omitted(n)
       IN /\ populated' = populated \cup {node[n].output}
          /\ nodes' = IF add THEN Append(nodes, <<n, IF node[n].cmds = << >> THEN -1 ELSE RuleId>>) ELSE nodes
          /\ pending' = (IF add THEN Children(n) ELSE << >>) \o Tail(pending)
    /\ UNCHANGED <<vars, builds, default>>

GenerateNinja ==
    /\ status = "populate" /\ pending = << >>
    /\ status' = "emit"
    /\ UNCHANGED <<plan, gvars>>

\* The pool: its own, none at all, or the one for every rule
PoolOf(n, rule) ==
    CASE n.pool = <<"none">> -> << >>
      [] n.pool \notin {<< >>, <<"none">>} -> n.pool
      [] OTHER -> IF "default_pool" \in mk.flags /\ rule # -1 THEN <<"default">> ELSE << >>

EmitBuild(n, rule) ==
    [outs |-> <<n.output>> \o n.implicit, rule |-> rule,
     ins |-> NamesOf(n.deps) \cup
             (IF n.phony /\ "phony_output" \notin mk.flags THEN {<<"_kati_always_build_">>} ELSE {}),
     orders |-> NamesOf(n.orders), validations |-> NamesOf(n.validations),
     pool |-> PoolOf(n, rule), phonyOutput |-> n.phony /\ "phony_output" \in mk.flags]

\* nodes shrinks as its nodes are written.
EmitNode ==
    /\ status = "emit" /\ nodes # << >>
    /\ LET n == node[Head(nodes)[1]] IN
       IF IsSpecialTarget(n.output) THEN UNCHANGED <<builds, default>>
       ELSE /\ builds' = Append(builds, EmitBuild(n, Head(nodes)[2]))
            /\ default' = IF n.default THEN <<n.output>> ELSE default
    /\ nodes' = Tail(nodes)
    /\ UNCHANGED <<vars, pending, populated>>

\* CHECK(default_target_) when no target was given
EmitDefault ==
    /\ status = "emit" /\ nodes = << >>
    /\ mk.goals = << >> => default # << >>
    /\ default' = IF mk.goals = << >> THEN default ELSE mk.goals
    /\ status' = "done"
    /\ UNCHANGED <<plan, pending, populated, nodes, builds>>

GInit ==
    /\ Init
    /\ pending = << >> /\ populated = {} /\ nodes = << >> /\ builds = << >> /\ default = << >>
GNext ==
    \/ status \in {"run", "error"} /\ Next /\ UNCHANGED gvars
    \/ Generate \/ PopulateNinjaNode \/ GenerateNinja \/ EmitNode \/ EmitDefault
    \/ status = "done" /\ UNCHANGED <<vars, gvars>>
GSpec == GInit /\ [][GNext]_<<vars, gvars>>

-----------------------------------------------------------------------------
(* Properties.                                                             *)

Statements == Range(builds)
Built == UNION {Range(b.outs) : b \in Statements}
NeededBy(b) == b.ins \cup b.orders \cup b.validations

\* Ninja accepts the file: no output has two statements, and the default
\* targets are known.
FileRight ==
    status = "done" =>
        /\ \A i, j \in DOMAIN builds : i # j => Range(builds[i].outs) \cap Range(builds[j].outs) = {}
        /\ \A i, j \in DOMAIN builds : i # j => builds[i].rule = -1 \/ builds[i].rule # builds[j].rule
        /\ \A t \in Range(default) : t \in Built \/ t \in mk.files \/ ~node[done[t]].hasRule

\* What is reached from a set, in the file and in the graph.
Closure(S, Succ(_)) ==
    LET Step[k \in 0 .. Cardinality(DOMAIN done)] ==
          IF k = 0 THEN S ELSE Step[k - 1] \cup UNION {Succ(x) : x \in Step[k - 1]}
    IN Step[Cardinality(DOMAIN done)]
InFile(t) == UNION {NeededBy(b) : b \in {b \in Statements : t \in Range(b.outs)}}
InGraph(n) == {e[2] : e \in Range(node[n].deps) \cup Range(node[n].orders) \cup Range(node[n].validations)}

\* Ninja builds the graph: from the default targets, following names, it
\* reaches the statements of exactly the nodes that are reached from the roots
\* in the graph, so that none is lost and none is built without being needed.
NinjaRight ==
    status = "done" /\ (\A n \in Nodes : node[n].siblings = {}) =>
        LET names == Closure(Range(default), InFile)
            reached == Closure(Range(NodesOf(roots)), InGraph)
        IN {b.outs[1] : b \in {b \in Statements : Range(b.outs) \cap names # {}}}
           = {node[n].output : n \in {n \in reached : Finished(n) \/ node[n].phony}}
=============================================================================
