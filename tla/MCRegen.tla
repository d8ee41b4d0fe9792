------------------------------ MODULE MCRegen ------------------------------
(* Small trees and Makefiles for Regen.                                    *)
EXTENDS Regen, TLC

MCParent == [p \in Path |-> IF p \in {"d/x", "d/y"} THEN "d" ELSE Top]
MCMatches == [g \in {"d/*"} |-> {"d/x", "d/y"} \cap Path]

Env(v, path) == [x \in Var |-> IF x = "PATH" THEN path ELSE v]
Text(p) == <<Line("text", p, "new")>>
EditOf(f) == [p \in Path |-> IF p \in DOMAIN f THEN f[p] ELSE {}]

\* A Makefile that includes another one and searches a directory.
TreeMk1 == <<Line("sinclude", "sub.mk", ""), Line("find", "d", "")>>
TreeMk2 == <<Line("glob", "d/*", ""), Line("include", "sub.mk", "")>>
TreeSub == <<Line("cat", "d/x", "")>>
TreeFiles == "Makefile" :> TreeMk1 @@ "kati" :> << >> @@ "d" :> << >>
TreeEdits == EditOf("Makefile" :> {TreeMk2} @@ "sub.mk" :> {TreeSub}
                    @@ "d" :> {<< >>} @@ "d/x" :> {Text("d/x")})
TreeDeletable == {"sub.mk", "d", "d/x"}
OneEnv == {Env("a", "/bin")}

\* Makefiles that read and write files; the wildcard is ignored.
FilesMk1 == <<Line("write", "d/x", "t"), Line("read", "r", "")>>
FilesMk3 == <<Line("write", "d/x", "t"), Line("cat", "d/x", ""), Line("glob", "d/*", "")>>
FilesMk2 == <<Line("read", "r", ""), Line("write", "r", "")>>
FilesMk4 == <<Line("echo", "r", "t")>>
FilesInit == "Makefile" :> FilesMk1 @@ "kati" :> << >> @@ "d" :> << >>
FilesEdits == EditOf("Makefile" :> {FilesMk2, FilesMk3, FilesMk4} @@ "r" :> {Text("r")} @@ "d/x" :> {Text("d/x")})
FilesDeletable == {"d", "d/x"}

\* Makefiles that use the environment.  The first one also gives both threads of the
\* check work, and creating d/x makes a command and the wildcard dirty at once.
EnvMk1 == <<Line("set", "W", "a"), Line("export", "W", ""), Line("default", "V", "b"),
            Line("var", "V", ""), Line("cat", "kati", ""), Line("cat", "d/x", ""),
            Line("glob", "d/*", "")>>
EnvMk2 == <<Line("unexport", "W", ""), Line("glob", "kati", ""), Line("var", "V", "")>>
EnvInit == "Makefile" :> EnvMk1 @@ "kati" :> << >> @@ "d" :> << >>
EnvEdits == EditOf("Makefile" :> {EnvMk2} @@ "kati" :> {Text("kati")} @@ "d/x" :> {Text("d/x")})
SomeEnvs == {Env(v, "/bin") : v \in {"a", Unset}}

\* A Makefile that appends to a file it has written.
AppendFiles == "Makefile" :> <<Line("write", "r", "a"), Line("append", "r", "b")>>
               @@ "kati" :> << >>
NoEdits == EditOf([p \in {} |-> {}])
=============================================================================
