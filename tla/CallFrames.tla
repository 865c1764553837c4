----------------------------- MODULE CallFrames -----------------------------
(***************************************************************************)
(* The interpreter's activation frames: how callUserFunction, Block and    *)
(* the other scoping statements take an Environment from the pool, when it *)
(* goes back, what a closure, a spawn and a defer keep of it, and the      *)
(* fields of the one Interpreter (defers, callDepth, filename) that every  *)
(* goroutine shares (runtime/env.go, functions.go, exec.go, control.go).   *)
(*                                                                         *)
(* One action is one step of one goroutine between two points where        *)
(* another goroutine can be observed; MarkEscaped is a step per frame of   *)
(* the chain it walks.  Values, names and expressions are abstracted: a    *)
(* program is the set of statement kinds it uses (Statements).             *)
(***************************************************************************)
EXTENDS Integers, FiniteSets, Sequences, SequencesExt, Ordered

CONSTANTS
    Envs,           \* the Environment objects of the process
    NoEnv,          \* a nil *Environment
    TopEnv,         \* the Environment Exec runs the program in
    LibEnv,         \* the Environment of one imported module
    Goroutines,     \* goroutines that run Lunex code
    Main,           \* the one that runs RunAST
    MainFile,       \* the file of the program
    LibFile,        \* the file of the imported module
    NoFile,         \* Function.SourceFile == ""
    Sites,          \* the defer statements of the program
    Statements,     \* the statement kinds the program uses
    MaxCallDepth,   \* maxCallDepth (1000 in the code)
    MaxFrames,      \* bound: frames of one goroutine
    MaxFunctions,   \* bound: function values
    MaxDefers,      \* bound: pending deferred bodies of one activation
    MaxLost         \* bound: updates of callDepth lost to a race

Files == {MainFile, LibFile}

StatementKinds ==
    {"block", "scope", "new", "spawn", "select", "component",
     "defer", "blockdefer", "nesteddefer", "newdefer"}

ASSUME EnvsAssumption ==
    /\ NoEnv \notin Envs
    /\ {TopEnv, LibEnv} \subseteq Envs
    /\ TopEnv # LibEnv
ASSUME GoroutinesAssumption == Main \in Goroutines
ASSUME FilesAssumption == NoFile \notin Files
ASSUME StatementsAssumption == Statements \subseteq StatementKinds
ASSUME BoundsAssumption ==
    /\ MaxCallDepth \in Nat /\ MaxFrames \in Nat /\ MaxFunctions \in Nat
    /\ MaxDefers \in Nat /\ MaxLost \in Nat

VARIABLES
    live,       \* the Environments handed out and neither released nor collected
    parent,     \* Environment.parent
    escaped,    \* Environment.escaped
    fns,        \* the function values the program can reach
    frames,     \* the Go stack of each goroutine, bottom first
    walk,       \* the MarkEscaped call a goroutine is in, if any
    defers,     \* Interpreter.defers
    callDepth,  \* Interpreter.callDepth
    filename    \* Interpreter.filename

vars == <<live, parent, escaped, fns, frames, walk, defers, callDepth, filename>>
envVars == <<live, parent, escaped>>
interpVars == <<defers, callDepth, filename>>

(* A function value: the Environment it captured and its SourceFile. *)
Function == [env : Envs, file : Files \cup {NoFile}]

(* interp.deferEntry; by is the activation that registered it, a ghost. *)
DeferEntry == [env : Envs, site : Sites, by : Goroutines \X Nat]

FrameKinds == {"base", "case", "fn", "new", "block", "scope", "defer"}
Phases == {"bind", "body", "defers", "select"}

(* call is the position of the activation the frame belongs to (0: none);   *)
(* env is the Environment the frame's code runs in; file is fn.SourceFile;  *)
(* prev, saved and todo are callUserFunction's locals prevFile, savedDefers *)
(* and localDefers; cases are the goroutines execSelect waits for.          *)
Frame ==
    [kind : FrameKinds, call : Nat, env : Envs, file : Files \cup {NoFile},
     prev : Files \cup {NoFile},
     saved : Seq(DeferEntry), todo : Seq(DeferEntry),
     phase : Phases, cases : SUBSET Goroutines]

NewFrame(kind, call, e) ==
    [kind |-> kind, call |-> call, env |-> e, file |-> NoFile, prev |-> NoFile,
     saved |-> <<>>, todo |-> <<>>, phase |-> "body", cases |-> {}]

(* Why a goroutine is in MarkEscaped, and where it has got to. *)
Walk == [at : Envs \cup {NoEnv}, why : {"fn", "hoist", "spawn"}]
NoWalk == [at |-> NoEnv, why |-> "none"]

-----------------------------------------------------------------------------
Init ==
    /\ live = {TopEnv, LibEnv}
    /\ parent = [e \in Envs |-> NoEnv]
    /\ escaped = [e \in Envs |-> e \in {TopEnv, LibEnv}]
    /\ fns = {[env |-> TopEnv, file |-> MainFile],
              [env |-> LibEnv, file |-> LibFile]}
    /\ frames = [g \in Goroutines |->
                   IF g = Main THEN <<NewFrame("base", 0, TopEnv)>> ELSE <<>>]
    /\ walk = [g \in Goroutines |-> NoWalk]
    /\ defers = <<>>
    /\ callDepth = 0
    /\ filename = MainFile

-----------------------------------------------------------------------------
Top(g) == Last(frames[g])
Depth(g) == Len(frames[g])

(* The Environments the frames of g run in. *)
RunIn(g) == {frames[g][i].env : i \in 1..Depth(g)}

FnIndices(g) == {i \in 1..Depth(g) : frames[g][i].kind = "fn"}

(* g is about to evaluate an expression; it may call and create functions. *)
Evaluating(g) ==
    /\ frames[g] # <<>>
    /\ walk[g] = NoWalk
    /\ Top(g).phase \in {"bind", "body"}

(* g is about to execute a statement inside a function. *)
Executing(g) ==
    /\ Evaluating(g)
    /\ Top(g).phase = "body"
    /\ Top(g).kind \notin {"base", "case"}

(* Room in the bounded pool, one object kept for each select that waits. *)
Selecting == {g \in Goroutines : frames[g] # <<>> /\ Top(g).phase = "select"}
RoomForEnv == Cardinality(Envs \ live) > Cardinality(Selecting)

(* NewEnvironment(p): any object that is not in use, cleared and reset. *)
NewEnvironment(e, p) ==
    /\ e \notin live
    /\ live' = live \cup {e}
    /\ parent' = [parent EXCEPT ![e] = p]
    /\ escaped' = [escaped EXCEPT ![e] = FALSE]

(* ReleaseEnvironment(e): an escaped Environment is left to the collector. *)
ReleaseEnvironment(e) ==
    IF escaped[e]
    THEN UNCHANGED envVars
    ELSE /\ live' = live \ {e}
         /\ parent' = [parent EXCEPT ![e] = NoEnv]
         /\ UNCHANGED escaped

Push(g, f) ==
    /\ Depth(g) < MaxFrames
    /\ frames' = [frames EXCEPT ![g] = Append(@, f)]

Pop(g) == frames' = [frames EXCEPT ![g] = Front(@)]

SetPhase(g, p) == frames' = [frames EXCEPT ![g][Depth(g)].phase = p]

ActiveCalls ==
    Cardinality(UNION {{g} \X FnIndices(g) : g \in Goroutines})

(* callDepth++ and callDepth-- are a load and a store: with another         *)
(* goroutine running, one update may overwrite the other.                   *)
Lost(g, d) ==
    /\ \E h \in Goroutines \ {g} : frames[h] # <<>>
    /\ callDepth - d - ActiveCalls \in (-MaxLost)..MaxLost

Add(g, d) ==
    callDepth' \in {callDepth + d} \cup {c \in {callDepth} : Lost(g, d)}

-----------------------------------------------------------------------------
(* callUserFunction up to bindParams: the depth check, the saves, fnEnv.    *)
Call(g, f) ==
    /\ Evaluating(g)
    /\ f \in fns
    /\ RoomForEnv
    /\ callDepth < MaxCallDepth
    /\ Add(g, 1)
    /\ filename' = IF f.file = NoFile THEN filename ELSE f.file
    /\ defers' = <<>>
    /\ \E e \in Envs :
         /\ NewEnvironment(e, f.env)
         /\ Push(g, [NewFrame("fn", Depth(g) + 1, e) EXCEPT
                       !.file = f.file,
                       !.prev = IF f.file = NoFile THEN NoFile ELSE filename,
                       !.saved = defers,
                       !.phase = "bind"])
    /\ UNCHANGED <<fns, walk>>

(* bindParams has bound every parameter; the body starts. *)
ParamsBound(g) ==
    /\ Evaluating(g)
    /\ Top(g).phase = "bind"
    /\ SetPhase(g, "body")
    /\ UNCHANGED <<envVars, fns, walk, interpVars>>

(* Variant with a bug: filename is not put back. *)
LeaveCallKeepingFile(g) ==
    /\ ReleaseEnvironment(Top(g).env)
    /\ filename' = filename
    /\ Add(g, -1)
    /\ Pop(g)

(* What the Go defers of callUserFunction do when it returns: the release,  *)
(* the file, the depth.                                                     *)
LeaveCall(g) ==
    /\ ReleaseEnvironment(Top(g).env)
    /\ filename' = IF Top(g).prev = NoFile THEN filename ELSE Top(g).prev
    /\ Add(g, -1)
    /\ Pop(g)

(* A default value's expression failed: bindParams returns its error. *)
BindFails(g) ==
    /\ Evaluating(g)
    /\ Top(g).phase = "bind"
    /\ Top(g).kind = "fn"
    /\ defers' = Top(g).saved
    /\ LeaveCall(g)
    /\ UNCHANGED <<fns, walk>>

(* Variant with a bug: fnEnv is released before the deferred bodies run. *)
BodyEndsReleasing(g) ==
    /\ Executing(g)
    /\ Top(g).kind = "fn"
    /\ ReleaseEnvironment(Top(g).env)
    /\ defers' = Top(g).saved
    /\ frames' = [frames EXCEPT ![g][Depth(g)].phase = "defers",
                                ![g][Depth(g)].todo = defers]
    /\ UNCHANGED <<fns, walk, callDepth, filename>>

(* The body is over, by its last statement, a return or an error. *)
BodyEnds(g) ==
    /\ Executing(g)
    /\ Top(g).kind = "fn"
    /\ defers' = Top(g).saved
    /\ frames' = [frames EXCEPT ![g][Depth(g)].phase = "defers",
                                ![g][Depth(g)].todo = defers]
    /\ UNCHANGED <<envVars, fns, walk, callDepth, filename>>

(* Variant with a bug: the loop runs upwards. *)
RunDeferInOrder(g) ==
    /\ frames[g] # <<>>
    /\ Top(g).phase = "defers"
    /\ Top(g).todo # <<>>
    /\ frames' = [frames EXCEPT ![g] =
                    Append([@ EXCEPT ![Depth(g)].todo = Tail(Top(g).todo)],
                           NewFrame("defer", Depth(g), Head(Top(g).todo).env))]
    /\ UNCHANGED <<envVars, fns, walk, interpVars>>

(* The loop over localDefers, last first, starts the next deferred body. *)
RunDefer(g) ==
    /\ frames[g] # <<>>
    /\ Top(g).phase = "defers"
    /\ Top(g).todo # <<>>
    /\ frames' = [frames EXCEPT ![g] =
                    Append([@ EXCEPT ![Depth(g)].todo = Front(Top(g).todo)],
                           NewFrame("defer", Depth(g), Last(Top(g).todo).env))]
    /\ UNCHANGED <<envVars, fns, walk, interpVars>>

(* The deferred body is over; its error, if any, is dropped. *)
DeferEnds(g) ==
    /\ Executing(g)
    /\ Top(g).kind = "defer"
    /\ Pop(g)
    /\ UNCHANGED <<envVars, fns, walk, interpVars>>

(* Every deferred body has run: callUserFunction returns. *)
Return(g) ==
    /\ frames[g] # <<>>
    /\ Top(g).phase = "defers"
    /\ Top(g).todo = <<>>
    /\ LeaveCall(g)
    /\ UNCHANGED <<fns, walk, defers>>

(* callClass: the constructor runs in a child of the Environment the class   *)
(* captured; it counts no depth, keeps no defers and releases nothing.      *)
Construct(g, f) ==
    /\ "new" \in Statements
    /\ Evaluating(g)
    /\ f \in fns
    /\ RoomForEnv
    /\ \E e \in Envs :
         /\ NewEnvironment(e, f.env)
         /\ Push(g, [NewFrame("new", Depth(g) + 1, e) EXCEPT !.phase = "bind"])
    /\ UNCHANGED <<fns, walk, interpVars>>

(* The constructor's parameters failed, or its body is over. *)
Constructed(g) ==
    /\ Evaluating(g)
    /\ Top(g).kind = "new"
    /\ Pop(g)
    /\ UNCHANGED <<envVars, fns, walk, interpVars>>

-----------------------------------------------------------------------------
(* A Block with declarations of its own runs in a child Environment. *)
EnterBlock(g) ==
    /\ "block" \in Statements
    /\ Executing(g)
    /\ RoomForEnv
    /\ \E e \in Envs : NewEnvironment(e, Top(g).env) /\ Push(g, NewFrame("block", Top(g).call, e))
    /\ UNCHANGED <<fns, walk, interpVars>>

(* The block is over, normally or by an error, and releases childEnv. *)
LeaveBlock(g) ==
    /\ Executing(g)
    /\ Top(g).kind = "block"
    /\ ReleaseEnvironment(Top(g).env)
    /\ Pop(g)
    /\ UNCHANGED <<fns, walk, interpVars>>

(* for, each, catch, have, ifHave, ifSet, with, match and select cases run  *)
(* in a child Environment that nothing releases.                            *)
EnterScope(g) ==
    /\ "scope" \in Statements
    /\ Executing(g)
    /\ RoomForEnv
    /\ \E e \in Envs : NewEnvironment(e, Top(g).env) /\ Push(g, NewFrame("scope", Top(g).call, e))
    /\ UNCHANGED <<fns, walk, interpVars>>

LeaveScope(g) ==
    /\ Executing(g)
    /\ Top(g).kind = "scope"
    /\ Pop(g)
    /\ UNCHANGED <<envVars, fns, walk, interpVars>>

-----------------------------------------------------------------------------
Idle == {h \in Goroutines : frames[h] = <<>>}
Walking(whys) == {h \in Goroutines : walk[h].why \in whys}
RoomForFunction ==
    Cardinality(fns) + Cardinality(Walking({"fn", "hoist"})) < MaxFunctions

(* Variant with a bug: spawn does not mark the frame. *)
BeginMarkButSpawn(g, why) ==
    /\ Evaluating(g)
    /\ \/ why = "fn" /\ RoomForFunction
       \/ why = "hoist" /\ Executing(g) /\ Top(g).kind = "fn" /\ RoomForFunction
       \/ /\ why = "spawn" /\ Executing(g) /\ "spawn" \in Statements
          /\ Cardinality(Walking({"spawn"})) < Cardinality(Idle)
    /\ walk' = [walk EXCEPT ![g] =
                  [at |-> IF why = "spawn" THEN NoEnv ELSE Top(g).env, why |-> why]]
    /\ UNCHANGED <<envVars, fns, frames, interpVars>>

(* fn and arrow expressions, fn and class declarations, and the hoisted fn  *)
(* declarations of a body start with MarkEscaped of the current frame; so   *)
(* does spawn, which here needs one of the bounded goroutines.              *)
BeginMark(g, why) ==
    /\ Evaluating(g)
    /\ \/ why = "fn" /\ RoomForFunction
       \/ why = "hoist" /\ Executing(g) /\ Top(g).kind = "fn" /\ RoomForFunction
       \/ /\ why = "spawn" /\ Executing(g) /\ "spawn" \in Statements
          /\ Cardinality(Walking({"spawn"})) < Cardinality(Idle)
    /\ walk' = [walk EXCEPT ![g] = [at |-> Top(g).env, why |-> why]]
    /\ UNCHANGED <<envVars, fns, frames, interpVars>>

(* Variant with a bug: only the frame itself is marked. *)
MarkStepOnce(g) ==
    /\ walk[g].at # NoEnv
    /\ ~escaped[walk[g].at]
    /\ escaped' = [escaped EXCEPT ![walk[g].at] = TRUE]
    /\ walk' = [walk EXCEPT ![g].at = NoEnv]
    /\ UNCHANGED <<live, parent, fns, frames, interpVars>>

(* One turn of MarkEscaped's loop that wins its compare-and-swap. *)
MarkStep(g) ==
    /\ walk[g].at # NoEnv
    /\ ~escaped[walk[g].at]
    /\ escaped' = [escaped EXCEPT ![walk[g].at] = TRUE]
    /\ walk' = [walk EXCEPT ![g].at = parent[walk[g].at]]
    /\ UNCHANGED <<live, parent, fns, frames, interpVars>>

(* MarkEscaped stops at the root, or at a frame already escaped. *)
MarkStops(g) ==
    /\ walk[g] # NoWalk
    /\ walk[g].at # NoEnv => escaped[walk[g].at]
    /\ walk' = [walk EXCEPT ![g] = NoWalk]

(* The function value comes into being; a hoisted one has no SourceFile. *)
MakeFunction(g) ==
    /\ walk[g].why \in {"fn", "hoist"}
    /\ MarkStops(g)
    /\ fns' = fns \cup
         {[env |-> Top(g).env,
           file |-> IF walk[g].why = "hoist" THEN NoFile ELSE filename]}
    /\ UNCHANGED <<envVars, frames, interpVars>>

(* go func() { defer recover(); evalExpr(node.Expr, env) }() *)
Spawn(g, h) ==
    /\ walk[g].why = "spawn"
    /\ MarkStops(g)
    /\ frames[h] = <<>>
    /\ frames' = [frames EXCEPT ![h] = <<NewFrame("base", 0, Top(g).env)>>]
    /\ UNCHANGED <<envVars, fns, interpVars>>

(* The expression of the spawn, or of a select case, has been evaluated. *)
GoroutineEnds(h) ==
    /\ h # Main
    /\ Evaluating(h)
    /\ Depth(h) = 1
    /\ Pop(h)
    /\ UNCHANGED <<envVars, fns, walk, interpVars>>

(* Variant with a bug: callDepth-- is not deferred. *)
PanicKeepingDepth(h) ==
    /\ h # Main
    /\ frames[h] # <<>> /\ frames[h][1].kind = "base"
    /\ Executing(h)
    /\ LET freed == {e \in RunIn(h) : ~escaped[e]}
       IN  /\ live' = live \ freed
           /\ parent' = [e \in Envs |-> IF e \in freed THEN NoEnv ELSE parent[e]]
    /\ frames' = [frames EXCEPT ![h] = <<>>]
    /\ UNCHANGED <<escaped, fns, walk, interpVars>>

(* A panic inside a spawned goroutine is recovered at its bottom: the Go    *)
(* defers of its calls run, the rest of callUserFunction and the release of *)
(* a Block do not.  (Anywhere else a panic ends the process.)               *)
Panic(h) ==
    /\ h # Main
    /\ frames[h] # <<>> /\ frames[h][1].kind = "base"
    /\ Executing(h)
    /\ LET calls == FnIndices(h)
           freed == {e \in {frames[h][i].env : i \in calls} : ~escaped[e]}
           files == {i \in calls : frames[h][i].prev # NoFile}
       IN  /\ live' = live \ freed
           /\ parent' = [e \in Envs |-> IF e \in freed THEN NoEnv ELSE parent[e]]
           /\ \/ files = {} /\ filename' = filename
              \/ \E i \in files : /\ \A j \in files : i <= j
                                  /\ filename' = frames[h][i].prev
           /\ callDepth' = callDepth - Cardinality(calls)
    /\ frames' = [frames EXCEPT ![h] = <<>>]
    /\ UNCHANGED <<escaped, fns, walk, defers>>

-----------------------------------------------------------------------------
(* execComponent builds a function over the current frame without marking. *)
Component(g) ==
    /\ "component" \in Statements
    /\ Executing(g)
    /\ RoomForFunction
    /\ fns' = fns \cup {[env |-> Top(g).env, file |-> NoFile]}
    /\ UNCHANGED <<envVars, frames, walk, interpVars>>

(* execSelect starts a goroutine per case, in the current frame, and waits. *)
Select(g, cases) ==
    /\ "select" \in Statements
    /\ Executing(g)
    /\ RoomForEnv
    /\ cases # {}
    /\ cases \subseteq Idle
    /\ Cardinality(Walking({"spawn"})) <= Cardinality(Idle \ cases)
    /\ frames' = [h \in Goroutines |->
                    IF h \in cases THEN <<NewFrame("case", 0, Top(g).env)>>
                    ELSE IF h = g
                    THEN [frames[g] EXCEPT ![Depth(g)].phase = "select",
                                           ![Depth(g)].cases = cases]
                    ELSE frames[h]]
    /\ UNCHANGED <<envVars, fns, walk, interpVars>>

(* The first result is in: its case runs in caseEnv, the other goroutines   *)
(* go on in env.                                                            *)
SelectCase(g) ==
    /\ frames[g] # <<>>
    /\ Top(g).phase = "select"
    /\ \E h \in Top(g).cases : frames[h] = <<>>
    /\ \E e \in Envs :
         /\ NewEnvironment(e, Top(g).env)
         /\ frames' = [frames EXCEPT ![g] =
                         Append([@ EXCEPT ![Depth(g)].phase = "body",
                                          ![Depth(g)].cases = {}],
                                NewFrame("scope", Top(g).call, e))]
    /\ UNCHANGED <<fns, walk, interpVars>>

-----------------------------------------------------------------------------
(* The kinds of defer statement: directly in the function's frame, inside a *)
(* block with a frame of its own, inside a body that is itself deferred, or *)
(* in a constructor.                                                        *)
DeferKind(g) ==
    IF frames[g][Top(g).call].kind = "new" THEN "newdefer"
    ELSE IF frames[g][Top(g).call].phase = "defers" THEN "nesteddefer"
    ELSE IF \E i \in Top(g).call..Depth(g) : frames[g][i].kind = "block"
    THEN "blockdefer"
    ELSE "defer"

(* defer appends the body and the current frame to Interpreter.defers. *)
Defer(g, site) ==
    /\ Executing(g)
    /\ DeferKind(g) \in Statements
    /\ Len(defers) < MaxDefers
    /\ defers' = Append(defers, [env |-> Top(g).env, site |-> site,
                                 by |-> <<g, Top(g).call>>])
    /\ UNCHANGED <<envVars, fns, frames, walk, callDepth, filename>>

-----------------------------------------------------------------------------
(* The entries that wait in Interpreter.defers or in a savedDefers or       *)
(* localDefers of some activation.                                          *)
Pending ==
    ToSet(defers) \cup
    UNION {UNION {ToSet(frames[g][i].saved) \cup ToSet(frames[g][i].todo) :
                    i \in 1..Depth(g)} : g \in Goroutines}

InFrame(e) == \E g \in Goroutines : \E i \in 1..Depth(g) : frames[g][i].env = e

(* Go's collector: the program has dropped its functions over e, and        *)
(* nothing else refers to e.                                                *)
Collect(e) ==
    /\ e \in live \ {TopEnv, LibEnv}
    /\ \A c \in live : parent[c] # e
    /\ ~InFrame(e)
    /\ \A g \in Goroutines : walk[g].at # e
    /\ \A d \in Pending : d.env # e
    /\ live' = live \ {e}
    /\ parent' = [parent EXCEPT ![e] = NoEnv]
    /\ fns' = {f \in fns : f.env # e}
    /\ UNCHANGED <<escaped, frames, walk, interpVars>>

-----------------------------------------------------------------------------
Step(g) ==
    \/ \E f \in fns : Call(g, f)
    \/ ParamsBound(g)
    \/ BindFails(g)
    \/ BodyEnds(g)
    \/ RunDefer(g)
    \/ DeferEnds(g)
    \/ Return(g)
    \/ \E f \in fns : Construct(g, f)
    \/ Constructed(g)
    \/ EnterBlock(g)
    \/ LeaveBlock(g)
    \/ EnterScope(g)
    \/ LeaveScope(g)
    \/ \E why \in {"fn", "hoist", "spawn"} : BeginMark(g, why)
    \/ MarkStep(g)
    \/ MakeFunction(g)
    \/ \E h \in Goroutines : Spawn(g, h)
    \/ GoroutineEnds(g)
    \/ Panic(g)
    \/ Component(g)
    \/ \E cases \in SUBSET (Goroutines \ {g}) : Select(g, cases)
    \/ SelectCase(g)
    \/ \E site \in Sites : Defer(g, site)

Next == (\E g \in Goroutines : Step(g)) \/ (\E e \in Envs : Collect(e))

Spec == Init /\ [][Next]_vars

-----------------------------------------------------------------------------
TypeOK ==
    /\ live \subseteq Envs
    /\ parent \in [Envs -> Envs \cup {NoEnv}]
    /\ escaped \in [Envs -> BOOLEAN]
    /\ fns \subseteq Function
    /\ frames \in [Goroutines -> Seq(Frame)]
    /\ walk \in [Goroutines -> Walk \cup {NoWalk}]
    /\ defers \in Seq(DeferEntry)
    /\ callDepth \in Int
    /\ filename \in Files

(* Some Environments and all those above them: the least set that contains  *)
(* them and the parents of its members.                                     *)
Above(E) ==
    {x \in Envs :
       \A S \in SUBSET Envs :
           (E \subseteq S /\ \A y \in S : parent[y] \in S \cup {NoEnv}) => x \in S}

Captured == {f.env : f \in fns}
Deferred == {d.env : d \in Pending}

(* No Environment that code runs in or that a function value captured, nor  *)
(* any above it, is back in the pool: name lookup never walks a recycled    *)
(* frame (ReleaseEnvironment, MarkEscaped).                                 *)
NoDangling ==
    Above(Captured \cup UNION {RunIn(g) : g \in Goroutines}) \subseteq live

(* A function value's whole scope chain is marked escaped, so that it is    *)
(* locked on access and never released ("a closure was created over it").   *)
CapturedEscaped == \A e \in Above(Captured) : escaped[e]

(* An Environment that is not escaped, which env.go reads and writes        *)
(* without its mutex, is within reach of one goroutine only, not counting   *)
(* one that is blocked in a select.                                         *)
UnescapedPrivate ==
    \A g, h \in Goroutines \ Selecting :
        g # h => \A e \in Above(RunIn(g)) \cap Above(RunIn(h)) : escaped[e]

(* The Environment of a deferred body, and those above it, are alive and    *)
(* unreleased for as long as the body waits to run.                         *)
DeferredLive == Above(Deferred) \subseteq live

(* When a function exits, the bodies it runs are those it deferred, and it  *)
(* leaves none of them behind in a list of somebody else.  It does not hold *)
(* of two goroutines that defer: Interpreter.defers is one for all.         *)
DeferredByOwner ==
    \A g \in Goroutines : \A i \in FnIndices(g) :
        LET own == <<g, i>>
            a == frames[g][i]
        IN  /\ \A d \in ToSet(a.todo) : d.by = own
            /\ a.phase = "defers" => \A d \in Pending \ ToSet(a.todo) : d.by # own

(* callDepth counts the calls that are active: one that returned, failed on *)
(* its parameters or was unwound by a panic has given its depth back.       *)
DepthBalanced == callDepth = ActiveCalls

RunningFile ==
    LET withFile == {i \in FnIndices(Main) : frames[Main][i].file # NoFile}
    IN  IF withFile = {} THEN MainFile
        ELSE frames[Main][CHOOSE i \in withFile : \A j \in withFile : j <= i].file

(* Error messages name the file of the code that runs, and a call that has  *)
(* returned or failed leaves no deferred body behind.                       *)
CallStateRestored ==
    /\ filename = RunningFile
    /\ FnIndices(Main) = {} => defers = <<>>

-----------------------------------------------------------------------------
(* The abstract stack of the one goroutine of a program without spawn: the  *)
(* list of an activation is Interpreter.defers while it is the innermost    *)
(* one, its localDefers while it exits, and otherwise what the next         *)
(* activation saved.                                                        *)
SitesOf(entries) == [k \in 1..Len(entries) |-> entries[k].site]

DeferStackOf(g) ==
    LET calls == Ascending(FnIndices(g))
        At(k) == frames[g][calls[k]]
    IN  [k \in 1..Len(calls) |->
           [exiting |-> At(k).phase = "defers",
            pending |-> SitesOf(IF At(k).phase = "defers" THEN At(k).todo
                                ELSE IF k = Len(calls) THEN defers
                                ELSE At(k + 1).saved)]]

PromisedDefers == INSTANCE DeferStack WITH stack <- DeferStackOf(Main)

(* The interpreter's one list, saved and restored around every call, keeps  *)
(* the promise of defer: each activation runs its own bodies, all of them,  *)
(* last first.                                                              *)
KeepsDeferPromise == PromisedDefers!Spec
=============================================================================
