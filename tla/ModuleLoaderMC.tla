--------------------------- MODULE ModuleLoaderMC ---------------------------
(* ModuleLoader on small programs. *)
EXTENDS ModuleLoader

File(dir, name) == <<dir, name>>
From(file, form, path) == [from |-> file, form |-> form, path |-> path]

ThePaths == {"a", "b", "c", "lib/b", "p"}
TargetIn(files) ==
    [dir \in Dirs |-> [path \in Paths |->
        LET file == IF path = "lib/b" /\ dir = "app" THEN File("lib", "b") ELSE File(dir, path)
        IN  IF file \in files THEN file ELSE NoFile]]

(* main imports a and lib/b; each imports the c next to it, which imports   *)
(* the package p; a asks for c in either form.                              *)
TreeFiles ==
    {File("app", "main"), File("app", "a"), File("app", "c"), File("lib", "b"),
     File("lib", "c"), File("store", "p")}
TreeImports ==
    {From(File("app", "main"), "fimport", "a"), From(File("app", "main"), "fimport", "lib/b"),
     From(File("app", "a"), "fimport", "c"), From(File("app", "a"), "import", "c"),
     From(File("lib", "b"), "fimport", "c"), From(File("lib", "c"), "import", "p"),
     From(File("app", "c"), "import", "p")}
TreeTarget == TargetIn(TreeFiles)

(* a and b import each other. *)
CycleFiles == {File("app", "main"), File("app", "a"), File("app", "b")}
CycleImports ==
    {From(File("app", "main"), "fimport", "a"), From(File("app", "a"), "fimport", "b"),
     From(File("app", "b"), "fimport", "a")}
CycleTarget == TargetIn(CycleFiles)

TheEntry == File("app", "main")
=============================================================================
