-------------------------- MODULE MCWorkerManager --------------------------
(* Small dependency graphs for WorkerManager.                              *)
EXTENDS WorkerManager, TLC

Graph(f) == [n \in Node |-> IF n \in DOMAIN f THEN f[n] ELSE << >>]

\* No target is needed twice: all: a b, a: src, b: | dir
TreeDeps == Graph("all" :> <<"a", "b">> @@ "a" :> <<"src">>)
TreeOrderOnlys == Graph("b" :> <<"dir">>)
TreeGoals == {<<"all">>}

\* Shared and repeated dependencies: all: a b, a: lib lib, b: lib | a, and loops
\* of targets that have no other dependency.
SharedDeps == Graph("all" :> <<"a", "b">> @@ "a" :> <<"lib", "lib">> @@ "b" :> <<"lib">>
                    @@ "self" :> <<"self">> @@ "loop" :> <<"pool">> @@ "pool" :> <<"loop">>)
SharedGoals == {<<"all", "b">>, <<"b", "all">>, <<"self", "loop">>, <<"b", "lost">>}
SharedOrderOnlys == Graph("b" :> <<"a">>)
NoOrderOnlys == Graph([n \in {} |-> << >>])

\* The goals test1 and test2 of testcase/basic_dep.mk.
BasicDeps == Graph("test1" :> <<"foo">> @@ "test2" :> <<"foo">>)
BasicGoals == {<<"test1", "test2">>}
=============================================================================
