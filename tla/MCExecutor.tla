----------------------------- MODULE MCExecutor -----------------------------
(* A small dependency graph for Executor.                                  *)
EXTENDS Executor, TLC

Graph(f) == [n \in Node |-> IF n \in DOMAIN f THEN f[n] ELSE << >>]

\* all: b a; a: lib | dir; b: lib src; lib: src; loop: pool; pool: loop;
\* conf.mk: src, an optional opt.mk and a goal lost without rules.
MCDeps == Graph("all" :> <<"b", "a">> @@ "a" :> <<"lib">> @@ "b" :> <<"lib", "src">>
                @@ "lib" :> <<"src">> @@ "loop" :> <<"pool">> @@ "pool" :> <<"loop">>
                @@ "conf.mk" :> <<"src">>)
MCOrderOnlys == Graph("a" :> <<"dir">>)
MCCmds == [n \in Node |-> CASE n \in {"a"} -> 2
                            [] n \in {"b", "lib", "dir", "loop", "conf.mk"} -> 1
                            [] OTHER -> 0]
MCMakefiles == <<"conf.mk">>
MCOptMakefiles == <<"opt.mk">>
MCGoals == {<<"all">>, <<"loop", "b">>, <<"lost">>}
MCInitFiles == {{"src"}, {"src", "conf.mk", "lib", "a", "pool"}}
=============================================================================
