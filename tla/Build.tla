-------------------------------- MODULE Build --------------------------------
(***************************************************************************)
(* What a build promises, whoever runs it: a target is begun once, its     *)
(* commands run and it counts as made only after everything it depends on, *)
(* and nothing is made from a target that failed.  The sequential Executor *)
(* and the parallel WorkerManager are shown to implement it.               *)
(***************************************************************************)
CONSTANTS Node, Deps, OrderOnlys    \* as in Executor and WorkerManager

VARIABLES
    state,      \* [Node -> {"idle", "begun", "working", "made", "failed"}]
    there       \* the targets that exist as files

Elems(s) == {s[i] : i \in DOMAIN s}
Succ(n) == Elems(Deps[n]) \cup Elems(OrderOnlys[n])

\* d depends on n itself, so that n cannot wait for it: n is in every set
\* that holds d and all that its members depend on.
Circular(n, d) ==
    \A S \in SUBSET Node : d \in S /\ (\A m \in S : Succ(m) \subseteq S) => n \in S

\* All that n depends on is made; a circular dependency is dropped, and an
\* order-only one need only exist.
Ready(n) ==
    /\ \A d \in Elems(Deps[n]) : state[d] = "made" \/ Circular(n, d)
    /\ \A d \in Elems(OrderOnlys[n]) : state[d] = "made" \/ d \in there \/ Circular(n, d)

Become(n, s) == state' = [state EXCEPT ![n] = s]

Begin(n) == state[n] = "idle" /\ Become(n, "begun")
Work(n) == state[n] = "begun" /\ Become(n, "working") /\ Ready(n)
Make(n) == state[n] \in {"begun", "working"} /\ Become(n, "made") /\ Ready(n)
Fail(n) == state[n] \in {"begun", "working"} /\ Become(n, "failed") /\ Ready(n)

\* The build ends, or is killed, and nothing of it is remembered.
Over == state' = [n \in Node |-> "idle"]

Init == state = [n \in Node |-> "idle"] /\ there \subseteq Node
Next ==
    /\ \/ \E n \in Node : Begin(n) \/ Work(n) \/ Make(n) \/ Fail(n)
       \/ Over
       \/ UNCHANGED state
    /\ there \subseteq there' /\ there' \subseteq Node
Spec == Init /\ [][Next]_<<state, there>>
=============================================================================
