---------------------------- MODULE ModuleLoader ----------------------------
(***************************************************************************)
(* How the interpreter finds, runs and caches the modules a program        *)
(* imports (runtime/modules.go): the cache interp.modules, the file that   *)
(* relative paths start from (interp.filename) and the count of modules    *)
(* being loaded (interp.libLoadDepth).  All three belong to the one        *)
(* Interpreter that every goroutine uses; only the cache has a lock.       *)
(*                                                                         *)
(* What modules import is a constant; when they do it, how often, in which *)
(* function and with which outcome is open.                                *)
(***************************************************************************)
EXTENDS Integers, FiniteSets, Sequences, SequencesExt

CONSTANTS
    Goroutines,     \* goroutines of the program
    Main,           \* the one that runs main
    Dirs,           \* directories
    Paths,          \* the paths that imports name
    Files,          \* the files there are: a directory and a name
    Target,         \* the file a path names from a directory, or NoFile
    NoFile,
    Cwd,            \* the working directory
    Store,          \* the directory of the installed packages
    Entry,          \* the file of the program
    Imports,        \* the imports in the text of each file: from, form, path
    Serial,         \* the program has one goroutine at a time import and call
    MaxSteps,       \* bound on the imports and calls of the program
    MaxDepth,       \* bound on the activations of one goroutine
    MaxRuns,        \* bound on the times one file is run
    MaxLost         \* bound: counts of other goroutines lost to one that races with them

Forms == {"import", "fimport"}

ASSUME GoroutinesAssumption == Main \in Goroutines /\ IsFiniteSet(Goroutines)
ASSUME FilesAssumption ==
    /\ Cwd \in Dirs /\ Store \in Dirs
    /\ \A f \in Files : f[1] \in Dirs
    /\ Entry \in Files /\ NoFile \notin Files
    /\ Target \in [Dirs -> [Paths -> Files \cup {NoFile}]]
ASSUME ImportsAssumption == Imports \subseteq [from : Files, form : Forms, path : Paths]
ASSUME SerialAssumption == Serial \in BOOLEAN
ASSUME BoundsAssumption == MaxSteps \in Nat /\ MaxDepth \in Nat /\ MaxRuns \in Nat
ASSUME LostAssumption == MaxLost \in Nat

VARIABLES
    modules,        \* interp.modules: the run whose exports are cached, or 0
    filename,       \* interp.filename
    libLoadDepth,   \* interp.libLoadDepth
    stack,          \* the activations of each goroutine
    missed,         \* the file a goroutine has not found in the cache
    runs,           \* how often each file has been run
    given,          \* the modules that importers have got: a ghost
    complete,       \* the modules that ran to their end: a ghost
    steps           \* the imports and calls so far: a bound

vars == <<modules, filename, libLoadDepth, stack, missed, runs, given, complete, steps>>

(* prev is the filename to put back: every activation but that of a         *)
(* goroutine's own statement puts one back.  run numbers the runs of file.  *)
Kinds == {"main", "spawned", "load", "done", "call"}
Activation == [kind : Kinds, file : Files, prev : Files, run : Nat]

Active(kind, file, run) ==
    [kind |-> kind, file |-> file, prev |-> filename, run |-> run]

-----------------------------------------------------------------------------
Init ==
    /\ modules = [f \in Files |-> 0]
    /\ filename = Entry
    /\ libLoadDepth = 0
    /\ stack = [g \in Goroutines |->
                  IF g = Main THEN <<Active("main", Entry, 0)>> ELSE <<>>]
    /\ missed = [g \in Goroutines |-> NoFile]
    /\ runs = [f \in Files |-> 0]
    /\ given = {}
    /\ complete = {}
    /\ steps = 0

-----------------------------------------------------------------------------
Top(g) == Last(stack[g])
Running(g, kinds) == stack[g] # <<>> /\ missed[g] = NoFile /\ Top(g).kind \in kinds
Code == {"main", "spawned", "load", "call"}

(* No other goroutine is in a module it loads or in a call. *)
Free(g) ==
    Serial => \A h \in Goroutines \ {g} : Len(stack[h]) <= 1 /\ missed[h] = NoFile

Push(g, a) == stack' = [stack EXCEPT ![g] = Append(stack[g], a)]
Pop(g) == stack' = [stack EXCEPT ![g] = Front(stack[g])]

(* ++ and -- of a plain integer.  Where goroutines load modules at the same *)
(* time, one writes over what others have counted since it read.            *)
Counted(d) ==
    \E lost \in (-MaxLost)..MaxLost :
        /\ Serial => lost = 0
        /\ libLoadDepth' = libLoadDepth + d + lost

(* One more import or call. *)
Stepped == steps < MaxSteps /\ steps' = steps + 1

(* The first of these directories from which the path names a file. *)
FirstOf(dirs, path) ==
    LET found == {i \in DOMAIN dirs : Target[dirs[i]][path] # NoFile}
    IN  IF found = {} THEN NoFile
        ELSE Target[dirs[CHOOSE i \in found : \A j \in found : i <= j]][path]

(* @import asks the package manager first, which looks in the working       *)
(* directory before its store; @fimport starts from the current file.       *)
ResolveFrom(file, form, path) ==
    IF form = "import" THEN FirstOf(<<Cwd, Store, file[1]>>, path)
    ELSE FirstOf(<<file[1], Cwd, Store>>, path)
Resolve(form, path) == ResolveFrom(filename, form, path)

(* The files whose functions the code of a file calls: its own and those of *)
(* the modules it imports.                                                  *)
Uses(file) ==
    {file} \cup {ResolveFrom(file, r.form, r.path) : r \in {i \in Imports : i.from = file}}

(* @fimport of a package does not look in the cache. *)
Cached(form, file) == modules[file] # 0 /\ ~(form = "fimport" /\ file[1] = Store)

(* Variant with a bug: the cache is not asked for the file. *)
ImportUncached(g, r) ==
    LET file == Resolve(r.form, r.path)
    IN  /\ Running(g, Code) /\ Free(g)
        /\ r.from = Top(g).file
        /\ Stepped
        /\ missed' = [missed EXCEPT ![g] = file]
        /\ UNCHANGED <<modules, filename, libLoadDepth, stack, runs, given, complete>>

(* An import: the file and, under the read lock, the cache.                 *)
Import(g, r) ==
    LET file == Resolve(r.form, r.path)
    IN  /\ Running(g, Code) /\ Free(g)
        /\ r.from = Top(g).file
        /\ Stepped
        /\ \/ file = NoFile /\ UNCHANGED <<missed, given>>
           \/ /\ file # NoFile
              /\ Cached(r.form, file)
              /\ given' = given \cup {<<file, modules[file]>>}
              /\ UNCHANGED missed
           \/ /\ file # NoFile
              /\ ~Cached(r.form, file)
              /\ missed' = [missed EXCEPT ![g] = file]
              /\ UNCHANGED given
        /\ UNCHANGED <<modules, filename, libLoadDepth, stack, runs, complete>>

(* Variant with a bug: a file that does not parse is taken for a loaded one. *)
ParseFailsLoaded(g) ==
    /\ missed[g] # NoFile
    /\ missed' = [missed EXCEPT ![g] = NoFile]
    /\ Counted(-1)
    /\ UNCHANGED <<modules, filename, stack, runs, given, complete, steps>>

(* The file cannot be read, or not be parsed: filename is back at once. *)
ParseFails(g) ==
    /\ missed[g] # NoFile
    /\ missed' = [missed EXCEPT ![g] = NoFile]
    /\ UNCHANGED <<modules, filename, libLoadDepth, stack, runs, given, complete, steps>>

(* Variant with a bug: a module is in the cache from its first statement on. *)
LoadCachedEarly(g) ==
    LET file == missed[g]
    IN  /\ file # NoFile
        /\ Len(stack[g]) < MaxDepth
        /\ runs[file] < MaxRuns
        /\ runs' = [runs EXCEPT ![file] = runs[file] + 1]
        /\ Push(g, Active("load", file, runs[file] + 1))
        /\ modules' = [modules EXCEPT ![file] = runs[file] + 1]
        /\ filename' = file
        /\ Counted(1)
        /\ missed' = [missed EXCEPT ![g] = NoFile]
        /\ UNCHANGED <<given, complete, steps>>

(* The file runs as a module. *)
Load(g) ==
    LET file == missed[g]
    IN  /\ file # NoFile
        /\ Len(stack[g]) < MaxDepth
        /\ runs[file] < MaxRuns
        /\ runs' = [runs EXCEPT ![file] = runs[file] + 1]
        /\ Push(g, Active("load", file, runs[file] + 1))
        /\ filename' = file
        /\ Counted(1)
        /\ missed' = [missed EXCEPT ![g] = NoFile]
        /\ UNCHANGED <<modules, given, complete, steps>>

(* Its last statement, or a return: the exports go into the cache. *)
Executed(g) ==
    /\ Running(g, {"load"})
    /\ Counted(-1)
    /\ modules' = [modules EXCEPT ![Top(g).file] = Top(g).run]
    /\ complete' = complete \cup {<<Top(g).file, Top(g).run>>}
    /\ stack' = [stack EXCEPT ![g][Len(stack[g])].kind = "done"]
    /\ UNCHANGED <<filename, missed, runs, given, steps>>

(* The deferred function of evalModuleSourceFile, and back in the importer. *)
LoadReturns(g) ==
    /\ Running(g, {"done"})
    /\ filename' = Top(g).prev
    /\ given' = given \cup {<<Top(g).file, Top(g).run>>}
    /\ Pop(g)
    /\ UNCHANGED <<modules, libLoadDepth, missed, runs, complete, steps>>

(* Variant with a bug: a module that fails leaves its name behind. *)
LoadFailsInPlace(g) ==
    /\ Running(g, {"load"})
    /\ Counted(-1)
    /\ Pop(g)
    /\ UNCHANGED <<modules, filename, missed, runs, given, complete, steps>>

(* A statement of the module fails: nothing is cached, and the importer may *)
(* go on, having caught the error, or fail in turn.                         *)
LoadFails(g) ==
    /\ Running(g, {"load"})
    /\ Counted(-1)
    /\ filename' = Top(g).prev
    /\ Pop(g)
    /\ UNCHANGED <<modules, missed, runs, given, complete, steps>>

(* A call of a function of a module that has been imported, or of the same  *)
(* file: its SourceFile is the file it was declared in.                     *)
Call(g, file) ==
    /\ Running(g, Code) /\ Free(g)
    /\ Stepped
    /\ Len(stack[g]) < MaxDepth
    /\ file \in Uses(Top(g).file)
    /\ file = Top(g).file \/ \E m \in given : m[1] = file
    /\ stack' = [stack EXCEPT ![g] = Append(stack[g], Active("call", file, 0))]
    /\ filename' = file
    /\ UNCHANGED <<modules, libLoadDepth, missed, runs, given, complete>>

(* The call returns, or fails. *)
Return(g) ==
    /\ Running(g, {"call"})
    /\ filename' = Top(g).prev
    /\ Pop(g)
    /\ UNCHANGED <<modules, libLoadDepth, missed, runs, given, complete, steps>>

Spawn(g, h) ==
    /\ Running(g, Code)
    /\ h # Main /\ stack[h] = <<>>
    /\ stack' = [stack EXCEPT ![h] = <<Active("spawned", Top(g).file, 0)>>]
    /\ UNCHANGED <<modules, filename, libLoadDepth, missed, runs, given, complete, steps>>

(* The end of main or of a spawned statement. *)
Ends(g) ==
    /\ Running(g, {"main", "spawned"})
    /\ Pop(g)
    /\ UNCHANGED <<modules, filename, libLoadDepth, missed, runs, given, complete, steps>>

(* A panic in a spawned goroutine runs the deferred functions of all its    *)
(* activations, the lowest one last, and is recovered.                      *)
Panic(g) ==
    /\ g # Main
    /\ Running(g, Code)
    /\ stack' = [stack EXCEPT ![g] = <<>>]
    /\ filename' = IF Len(stack[g]) = 1 THEN filename ELSE stack[g][2].prev
    /\ UNCHANGED <<modules, libLoadDepth, missed, runs, given, complete, steps>>

-----------------------------------------------------------------------------
Step(g) ==
    \/ \E r \in Imports : Import(g, r)
    \/ ParseFails(g)
    \/ Load(g)
    \/ Executed(g)
    \/ LoadReturns(g)
    \/ LoadFails(g)
    \/ \E file \in Files : Call(g, file)
    \/ Return(g)
    \/ \E h \in Goroutines : Spawn(g, h)
    \/ Ends(g)
    \/ Panic(g)

Next == \E g \in Goroutines : Step(g)

Spec == Init /\ [][Next]_vars

-----------------------------------------------------------------------------
TypeOK ==
    /\ modules \in [Files -> Nat]
    /\ filename \in Files
    /\ libLoadDepth \in Int
    /\ Serial => libLoadDepth \in Nat
    /\ stack \in [Goroutines -> Seq(Activation)]
    /\ missed \in [Goroutines -> Files \cup {NoFile}]
    /\ runs \in [Files -> Nat]
    /\ given \in SUBSET (Files \X Nat)
    /\ complete \in SUBSET (Files \X Nat)
    /\ steps \in 0..MaxSteps

Loads(g) == {i \in DOMAIN stack[g] : stack[g][i].kind = "load"}
Loading == {p \in Goroutines \X (1..MaxDepth) : p[2] \in Loads(p[1])}

(* All importers of a file have the same module, however often and from     *)
(* wherever it is imported, also when a run of it has failed before: what a *)
(* module keeps in its variables is shared.                                 *)
OneInstance == \A m, n \in given : m[1] = n[1] => m = n

(* No importer gets the exports of a module that has not run to its end,   *)
(* neither in the middle of it nor after it has failed or panicked.         *)
OnlyComplete == given \subseteq complete

(* Relative imports and error messages start from the file of the code that *)
(* runs, whatever modules, calls, failures and panics came before.          *)
FilenameFollows ==
    /\ \A g \in Goroutines : Len(stack[g]) > 1 => filename = Top(g).file
    /\ (\A g \in Goroutines : Len(stack[g]) <= 1) => filename = Entry

(* libLoadDepth lets modules that are being loaded use internal.native:     *)
(* each of them is counted, and a failed one has not taken the count of     *)
(* another with it.  The program loads in one goroutine at a time: others   *)
(* may lose each other's counts.                                            *)
LoadDepthCovers == libLoadDepth >= Cardinality(Loading)

(* A module that is being loaded is not loaded again: an import cycle is    *)
(* reported, as docs/errors.md:141 (E0012) says.  It does not hold of files *)
(* that import each other: the code never reports E0012.                    *)
NoReload ==
    \A g \in Goroutines : \A i, j \in Loads(g) :
        stack[g][i].file = stack[g][j].file => i = j
=============================================================================
