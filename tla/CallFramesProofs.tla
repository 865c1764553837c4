------------------------ MODULE CallFramesProofs ------------------------
(***************************************************************************)
(* Theorems about CallFrames, for every pool, every set of goroutines and  *)
(* every bound.                                                            *)
(***************************************************************************)
EXTENDS CallFrames, StackLemmas, FiniteSetTheorems, TLAPS

(* A goroutine marks frames while it evaluates something, so it has a frame *)
(* to go on in. *)
WalkInside ==
    \A g \in Goroutines :
        walk[g] # NoWalk => frames[g] # <<>> /\ Top(g).phase \in {"bind", "body"}

TypeInv == TypeOK /\ WalkInside

LEMMA NewFrameType ==
    ASSUME NEW k \in FrameKinds, NEW c \in Nat, NEW e \in Envs
    PROVE  NewFrame(k, c, e) \in Frame
  BY DEF NewFrame, Frame, Phases

LEMMA TypeInit == Init => TypeInv
<1> SUFFICES ASSUME Init PROVE TypeInv
  OBVIOUS
<1> USE EnvsAssumption, GoroutinesAssumption, FilesAssumption
<1>1. NewFrame("base", 0, TopEnv) \in Frame
  BY NewFrameType DEF FrameKinds
<1>2. frames \in [Goroutines -> Seq(Frame)]
  BY <1>1 DEF Init
<1>3. fns \subseteq Function
  BY DEF Init, Function, Files
<1> QED
  BY <1>2, <1>3 DEF Init, TypeInv, TypeOK, WalkInside, Files

(* The top frame of a goroutine that has one. *)
LEMMA TopFacts ==
    ASSUME TypeOK, NEW g \in Goroutines, frames[g] # <<>>
    PROVE  /\ Depth(g) \in Nat \ {0}
           /\ Top(g) = frames[g][Depth(g)]
           /\ Top(g) \in Frame
           /\ Front(frames[g]) \in Seq(Frame)
           /\ Len(Front(frames[g])) = Depth(g) - 1
           /\ \A i \in 1..(Depth(g) - 1) : Front(frames[g])[i] = frames[g][i]
<1>1. frames[g] \in Seq(Frame)
  BY DEF TypeOK
<1> QED
  BY <1>1, SeqFacts, Zenon DEF Top, Depth

LEMMA FramesOf == ASSUME TypeOK, NEW g \in Goroutines
                  PROVE  frames[g] \in Seq(Frame) /\ Depth(g) \in Nat
  BY DEF TypeOK, Depth

(* A step that changes the frames of one goroutine, which is not marking,   *)
(* leaves the goroutines that are marking in place. *)
LEMMA WalkUndisturbed ==
    ASSUME TypeInv, NEW g \in Goroutines, walk[g] = NoWalk, walk' = walk,
           \A h \in Goroutines \ {g} : frames'[h] = frames[h]
    PROVE  WalkInside'
  BY DEF TypeInv, WalkInside, Top

LEMMA PushType ==
    ASSUME TypeOK, NEW g \in Goroutines, NEW f \in Frame, Push(g, f)
    PROVE  /\ frames' \in [Goroutines -> Seq(Frame)]
           /\ \A h \in Goroutines \ {g} : frames'[h] = frames[h]
           /\ frames'[g] = Append(frames[g], f)
  BY FramesOf, AppendFacts DEF TypeOK, Push

LEMMA PopType ==
    ASSUME TypeOK, NEW g \in Goroutines, frames[g] # <<>>, Pop(g)
    PROVE  /\ frames' \in [Goroutines -> Seq(Frame)]
           /\ \A h \in Goroutines \ {g} : frames'[h] = frames[h]
           /\ frames'[g] = Front(frames[g])
  BY TopFacts DEF TypeOK, Pop

LEMMA NewEnvironmentType ==
    ASSUME TypeOK, NEW e \in Envs, NEW p \in Envs, NewEnvironment(e, p)
    PROVE  /\ live' \subseteq Envs
           /\ parent' \in [Envs -> Envs \cup {NoEnv}]
           /\ escaped' \in [Envs -> BOOLEAN]
  BY DEF TypeOK, NewEnvironment

LEMMA ReleaseEnvironmentType ==
    ASSUME TypeOK, NEW e \in Envs, ReleaseEnvironment(e)
    PROVE  /\ live' \subseteq Envs
           /\ parent' \in [Envs -> Envs \cup {NoEnv}]
           /\ escaped' \in [Envs -> BOOLEAN]
  BY DEF TypeOK, ReleaseEnvironment, envVars

LEMMA AddType ==
    ASSUME TypeOK, NEW g \in Goroutines, NEW d \in Int, Add(g, d)
    PROVE  callDepth' \in Int
  BY DEF TypeOK, Add

LEMMA LeaveCallType ==
    ASSUME TypeOK, NEW g \in Goroutines, frames[g] # <<>>, LeaveCall(g)
    PROVE  /\ live' \subseteq Envs
           /\ parent' \in [Envs -> Envs \cup {NoEnv}]
           /\ escaped' \in [Envs -> BOOLEAN]
           /\ frames' \in [Goroutines -> Seq(Frame)]
           /\ \A h \in Goroutines \ {g} : frames'[h] = frames[h]
           /\ callDepth' \in Int
           /\ filename' \in Files
<1>1. Top(g) \in Frame
  BY TopFacts
<1>2. Top(g).env \in Envs /\ Top(g).prev \in Files \cup {NoFile}
  BY <1>1 DEF Frame
<1>3. callDepth' \in Int
  BY AddType DEF LeaveCall
<1>4. filename' \in Files
  BY <1>2 DEF LeaveCall, TypeOK
<1> QED
  BY <1>2, <1>3, <1>4, ReleaseEnvironmentType, PopType DEF LeaveCall

(* The three kinds of frame change that keep the depth. *)
LEMMA TopUpdateType ==
    ASSUME TypeOK, NEW g \in Goroutines, frames[g] # <<>>, NEW f \in Frame,
           frames' = [frames EXCEPT ![g] = [frames[g] EXCEPT ![Depth(g)] = f]]
    PROVE  /\ frames' \in [Goroutines -> Seq(Frame)]
           /\ \A h \in Goroutines \ {g} : frames'[h] = frames[h]
<1>1. [frames[g] EXCEPT ![Depth(g)] = f] \in Seq(Frame)
  BY TopFacts, FramesOf, ExceptSeq DEF Depth
<1> QED
  BY <1>1 DEF TypeOK

-----------------------------------------------------------------------------
(* Each group of actions keeps the type invariant. *)

LEMMA CallType ==
    ASSUME TypeInv, NEW g \in Goroutines, NEW f \in fns, Call(g, f)
    PROVE  TypeInv'
<1> USE DEF TypeInv
<1>1. f.env \in Envs /\ f.file \in Files \cup {NoFile} /\ filename \in Files
  BY DEF TypeOK, Function
<1>2. PICK e \in Envs :
         /\ NewEnvironment(e, f.env)
         /\ Push(g, [NewFrame("fn", Depth(g) + 1, e) EXCEPT
                       !.file = f.file,
                       !.prev = IF f.file = NoFile THEN NoFile ELSE filename,
                       !.saved = defers,
                       !.phase = "bind"])
  BY DEF Call
<1>3. NewFrame("fn", Depth(g) + 1, e) \in Frame
  BY NewFrameType, FramesOf DEF FrameKinds
<1>4. [NewFrame("fn", Depth(g) + 1, e) EXCEPT
         !.file = f.file,
         !.prev = IF f.file = NoFile THEN NoFile ELSE filename,
         !.saved = defers,
         !.phase = "bind"] \in Frame
  BY <1>1, <1>3 DEF Frame, Phases, TypeOK
<1>5. /\ live' \subseteq Envs
      /\ parent' \in [Envs -> Envs \cup {NoEnv}]
      /\ escaped' \in [Envs -> BOOLEAN]
  BY <1>1, <1>2, NewEnvironmentType
<1>6. /\ frames' \in [Goroutines -> Seq(Frame)]
      /\ \A h \in Goroutines \ {g} : frames'[h] = frames[h]
  BY <1>2, <1>4, PushType
<1>7. WalkInside'
  BY <1>6, WalkUndisturbed DEF Call, Evaluating
<1>8. callDepth' \in Int
  BY AddType DEF Call
<1> QED
  BY <1>1, <1>5, <1>6, <1>7, <1>8 DEF Call, TypeOK

LEMMA ConstructType ==
    ASSUME TypeInv, NEW g \in Goroutines, NEW f \in fns, Construct(g, f)
    PROVE  TypeInv'
<1> USE DEF TypeInv
<1>1. f.env \in Envs
  BY DEF TypeOK, Function
<1>2. PICK e \in Envs :
         /\ NewEnvironment(e, f.env)
         /\ Push(g, [NewFrame("new", Depth(g) + 1, e) EXCEPT !.phase = "bind"])
  BY DEF Construct
<1>3. NewFrame("new", Depth(g) + 1, e) \in Frame
  BY NewFrameType, FramesOf DEF FrameKinds
<1>4. [NewFrame("new", Depth(g) + 1, e) EXCEPT !.phase = "bind"] \in Frame
  BY <1>3 DEF Frame, Phases
<1>5. /\ live' \subseteq Envs
      /\ parent' \in [Envs -> Envs \cup {NoEnv}]
      /\ escaped' \in [Envs -> BOOLEAN]
  BY <1>1, <1>2, NewEnvironmentType
<1>6. /\ frames' \in [Goroutines -> Seq(Frame)]
      /\ \A h \in Goroutines \ {g} : frames'[h] = frames[h]
  BY <1>2, <1>4, PushType
<1>7. WalkInside'
  BY <1>6, WalkUndisturbed DEF Construct, Evaluating
<1> QED
  BY <1>5, <1>6, <1>7 DEF Construct, TypeOK, interpVars

(* A step that pushes a new frame over a new Environment. *)
LEMMA EnterType ==
    ASSUME TypeInv, NEW g \in Goroutines, Evaluating(g),
           NEW k \in {"block", "scope"}, NEW e \in Envs,
           NewEnvironment(e, Top(g).env), Push(g, NewFrame(k, Top(g).call, e)),
           UNCHANGED <<fns, walk, interpVars>>
    PROVE  TypeInv'
<1> USE DEF TypeInv
<1>1. Top(g) \in Frame
  BY TopFacts DEF Evaluating
<1>2. Top(g).env \in Envs /\ NewFrame(k, Top(g).call, e) \in Frame
  BY <1>1, NewFrameType DEF Frame, FrameKinds
<1>3. /\ live' \subseteq Envs
      /\ parent' \in [Envs -> Envs \cup {NoEnv}]
      /\ escaped' \in [Envs -> BOOLEAN]
  BY <1>2, NewEnvironmentType
<1>4. /\ frames' \in [Goroutines -> Seq(Frame)]
      /\ \A h \in Goroutines \ {g} : frames'[h] = frames[h]
  BY <1>2, PushType
<1>5. WalkInside'
  BY <1>4, WalkUndisturbed DEF Evaluating
<1> QED
  BY <1>3, <1>4, <1>5 DEF TypeOK, interpVars

(* A step that pops a frame, leaving its Environment to the pool or not. *)
LEMMA LeaveType ==
    ASSUME TypeInv, NEW g \in Goroutines, frames[g] # <<>>, walk[g] = NoWalk,
           UNCHANGED envVars \/ ReleaseEnvironment(Top(g).env), Pop(g),
           UNCHANGED <<fns, walk, interpVars>>
    PROVE  TypeInv'
<1> USE DEF TypeInv
<1>1. Top(g) \in Frame
  BY TopFacts
<1>2. Top(g).env \in Envs
  BY <1>1 DEF Frame
<1>3. /\ live' \subseteq Envs
      /\ parent' \in [Envs -> Envs \cup {NoEnv}]
      /\ escaped' \in [Envs -> BOOLEAN]
  BY <1>2, ReleaseEnvironmentType DEF envVars, TypeOK
<1>4. /\ frames' \in [Goroutines -> Seq(Frame)]
      /\ \A h \in Goroutines \ {g} : frames'[h] = frames[h]
  BY PopType
<1>5. WalkInside'
  BY <1>4, WalkUndisturbed
<1> QED
  BY <1>3, <1>4, <1>5 DEF TypeOK, interpVars

(* A step that only rewrites the top frame of g, and possibly defers. *)
LEMMA RewriteType ==
    ASSUME TypeInv, NEW g \in Goroutines, frames[g] # <<>>, walk[g] = NoWalk,
           NEW f \in Frame,
           frames' = [frames EXCEPT ![g] = [frames[g] EXCEPT ![Depth(g)] = f]],
           defers' \in Seq(DeferEntry),
           UNCHANGED <<envVars, fns, walk, callDepth, filename>>
    PROVE  TypeInv'
<1>1. /\ frames' \in [Goroutines -> Seq(Frame)]
      /\ \A h \in Goroutines \ {g} : frames'[h] = frames[h]
  BY TopUpdateType DEF TypeInv
<1>2. WalkInside'
  BY <1>1, WalkUndisturbed
<1> QED
  BY <1>1, <1>2 DEF TypeInv, TypeOK, envVars

LEMMA ParamsBoundType ==
    ASSUME TypeInv, NEW g \in Goroutines, ParamsBound(g)
    PROVE  TypeInv'
<1>1. frames[g] # <<>> /\ walk[g] = NoWalk
  BY DEF ParamsBound, Evaluating
<1>2. Top(g) \in Frame /\ Top(g) = frames[g][Depth(g)] /\ Depth(g) \in 1..Depth(g)
  BY <1>1, TopFacts DEF TypeInv
<1>3. [Top(g) EXCEPT !.phase = "body"] \in Frame
  BY <1>2 DEF Frame, Phases
<1>4. frames' = [frames EXCEPT ![g] = [frames[g] EXCEPT
                   ![Depth(g)] = [Top(g) EXCEPT !.phase = "body"]]]
  BY <1>2 DEF ParamsBound, SetPhase, TypeInv, TypeOK
<1> QED
  BY <1>1, <1>3, <1>4, RewriteType DEF ParamsBound, interpVars, TypeInv, TypeOK

LEMMA BodyEndsType ==
    ASSUME TypeInv, NEW g \in Goroutines, BodyEnds(g)
    PROVE  TypeInv'
<1>1. frames[g] # <<>> /\ walk[g] = NoWalk
  BY DEF BodyEnds, Executing, Evaluating
<1>2. Top(g) \in Frame /\ Top(g) = frames[g][Depth(g)] /\ Depth(g) \in 1..Depth(g)
  BY <1>1, TopFacts DEF TypeInv
<1> DEFINE F == [Top(g) EXCEPT !.phase = "defers", !.todo = defers]
<1>3. F \in Frame /\ Top(g).saved \in Seq(DeferEntry)
  BY <1>2 DEF Frame, Phases, TypeInv, TypeOK
<1>4. frames' = [frames EXCEPT ![g] = [frames[g] EXCEPT ![Depth(g)] = F]]
  BY <1>2 DEF BodyEnds, TypeInv, TypeOK
<1> QED
  BY <1>1, <1>3, <1>4, RewriteType DEF BodyEnds

(* callUserFunction returns, from its parameters or from its defers. *)
LEMMA LeaveCallKeepsType ==
    ASSUME TypeInv, NEW g \in Goroutines, frames[g] # <<>>, walk[g] = NoWalk,
           LeaveCall(g), UNCHANGED <<fns, walk>>, defers' \in Seq(DeferEntry)
    PROVE  TypeInv'
<1>1. /\ live' \subseteq Envs
      /\ parent' \in [Envs -> Envs \cup {NoEnv}]
      /\ escaped' \in [Envs -> BOOLEAN]
      /\ frames' \in [Goroutines -> Seq(Frame)]
      /\ \A h \in Goroutines \ {g} : frames'[h] = frames[h]
      /\ callDepth' \in Int
      /\ filename' \in Files
  BY LeaveCallType DEF TypeInv
<1>2. WalkInside'
  BY <1>1, WalkUndisturbed
<1> QED
  BY <1>1, <1>2 DEF TypeInv, TypeOK

LEMMA BindFailsType ==
    ASSUME TypeInv, NEW g \in Goroutines, BindFails(g)
    PROVE  TypeInv'
<1>1. frames[g] # <<>> /\ walk[g] = NoWalk
  BY DEF BindFails, Evaluating
<1>2. Top(g).saved \in Seq(DeferEntry)
  BY <1>1, TopFacts DEF TypeInv, Frame
<1> QED
  BY <1>1, <1>2, LeaveCallKeepsType DEF BindFails

(* A goroutine that is not evaluating anything is not marking frames. *)
LEMMA NotMarking ==
    ASSUME TypeInv, NEW g \in Goroutines, Top(g).phase \in {"defers", "select"}
    PROVE  walk[g] = NoWalk
  BY DEF TypeInv, WalkInside

LEMMA ReturnType ==
    ASSUME TypeInv, NEW g \in Goroutines, Return(g)
    PROVE  TypeInv'
<1>1. frames[g] # <<>> /\ walk[g] = NoWalk
  BY NotMarking DEF Return
<1> QED
  BY <1>1, LeaveCallKeepsType DEF Return, TypeInv, TypeOK

LEMMA RunDeferType ==
    ASSUME TypeInv, NEW g \in Goroutines, RunDefer(g)
    PROVE  TypeInv'
<1>1. frames[g] # <<>> /\ walk[g] = NoWalk
  BY NotMarking DEF RunDefer
<1>2. /\ Top(g) \in Frame /\ Top(g) = frames[g][Depth(g)]
      /\ Depth(g) \in 1..Depth(g) /\ Depth(g) \in Nat
      /\ frames[g] \in Seq(Frame)
  BY <1>1, TopFacts, FramesOf DEF TypeInv
<1>3. Top(g).todo \in Seq(DeferEntry) /\ Top(g).todo # <<>>
  BY <1>2 DEF Frame, RunDefer
<1>4. Front(Top(g).todo) \in Seq(DeferEntry) /\ Last(Top(g).todo) \in DeferEntry
  BY <1>3, SeqFacts
<1>5. [Top(g) EXCEPT !.todo = Front(Top(g).todo)] \in Frame
  BY <1>2, <1>4 DEF Frame
<1> DEFINE s == [frames[g] EXCEPT ![Depth(g)].todo = Front(Top(g).todo)]
           f == NewFrame("defer", Depth(g), Last(Top(g).todo).env)
<1>6. s \in Seq(Frame)
  <2>1. s = [frames[g] EXCEPT ![Depth(g)] = [Top(g) EXCEPT !.todo = Front(Top(g).todo)]]
    BY <1>2
  <2> QED
    BY <1>2, <1>5, <2>1, ExceptSeq DEF Depth
<1>7. f \in Frame
  BY <1>2, <1>4, NewFrameType DEF FrameKinds, DeferEntry
<1>8. Append(s, f) \in Seq(Frame)
  BY <1>6, <1>7
<1>9. frames' = [frames EXCEPT ![g] = Append(s, f)]
  BY DEF RunDefer, TypeInv, TypeOK
<1>10. WalkInside'
  <2>1. \A h \in Goroutines \ {g} : frames'[h] = frames[h]
    BY <1>9 DEF TypeInv, TypeOK
  <2> QED
    BY <1>1, <2>1, WalkUndisturbed DEF RunDefer
<1> QED
  BY <1>8, <1>9, <1>10 DEF RunDefer, TypeInv, TypeOK, envVars, interpVars

LEMMA MarkType ==
    ASSUME TypeInv, NEW g \in Goroutines,
           \/ \E why \in {"fn", "hoist", "spawn"} : BeginMark(g, why)
           \/ MarkStep(g)
    PROVE  TypeInv'
<1>1. CASE \E why \in {"fn", "hoist", "spawn"} : BeginMark(g, why)
  <2>1. PICK why \in {"fn", "hoist", "spawn"} : BeginMark(g, why)
    BY <1>1
  <2>2. frames[g] # <<>> /\ Top(g) \in Frame /\ Top(g).phase \in {"bind", "body"}
    BY <2>1, TopFacts DEF BeginMark, Evaluating, TypeInv
  <2>3. [at |-> Top(g).env, why |-> why] \in Walk
    BY <2>2 DEF Walk, Frame
  <2> QED
    BY <2>1, <2>2, <2>3
       DEF BeginMark, TypeInv, TypeOK, WalkInside, Top, envVars, interpVars
<1>2. CASE MarkStep(g)
  <2>1. walk[g] # NoWalk /\ walk[g].at \in Envs /\ walk[g] \in Walk
    BY <1>2 DEF MarkStep, NoWalk, TypeInv, TypeOK, Walk
  <2>2. [walk[g] EXCEPT !.at = parent[walk[g].at]] \in Walk
    BY <2>1 DEF Walk, TypeInv, TypeOK
  <2>3. walk' = [walk EXCEPT ![g] = [walk[g] EXCEPT !.at = parent[walk[g].at]]]
    BY <1>2 DEF MarkStep, TypeInv, TypeOK
  <2>4. TypeOK'
    BY <1>2, <2>1, <2>2, <2>3 DEF MarkStep, TypeInv, TypeOK, interpVars
  <2>5. WalkInside'
    BY <1>2, <2>1, <2>3 DEF MarkStep, TypeInv, TypeOK, WalkInside, Top
  <2> QED
    BY <2>4, <2>5 DEF TypeInv
<1> QED
  BY <1>1, <1>2

(* Marking is over. *)
LEMMA MarkStopsFacts ==
    ASSUME TypeInv, NEW g \in Goroutines, MarkStops(g)
    PROVE  /\ frames[g] # <<>> /\ Top(g) \in Frame
           /\ walk' \in [Goroutines -> Walk \cup {NoWalk}]
           /\ walk'[g] = NoWalk
           /\ \A h \in Goroutines \ {g} : walk'[h] = walk[h]
<1>1. frames[g] # <<>>
  BY DEF MarkStops, TypeInv, WalkInside
<1> QED
  BY <1>1, TopFacts DEF MarkStops, TypeInv, TypeOK

LEMMA MakeFunctionType ==
    ASSUME TypeInv, NEW g \in Goroutines, MakeFunction(g)
    PROVE  TypeInv'
<1>1. /\ frames[g] # <<>> /\ Top(g) \in Frame
      /\ walk' \in [Goroutines -> Walk \cup {NoWalk}]
      /\ walk'[g] = NoWalk
      /\ \A h \in Goroutines \ {g} : walk'[h] = walk[h]
  BY MarkStopsFacts DEF MakeFunction
<1>2. fns' \subseteq Function
  BY <1>1 DEF MakeFunction, Function, Frame, TypeInv, TypeOK
<1>3. WalkInside'
  BY <1>1 DEF MakeFunction, TypeInv, WalkInside, Top
<1> QED
  BY <1>1, <1>2, <1>3 DEF MakeFunction, TypeInv, TypeOK, envVars, interpVars

LEMMA SpawnType ==
    ASSUME TypeInv, NEW g \in Goroutines, NEW h \in Goroutines, Spawn(g, h)
    PROVE  TypeInv'
<1>1. /\ frames[g] # <<>> /\ Top(g) \in Frame
      /\ walk' \in [Goroutines -> Walk \cup {NoWalk}]
      /\ walk'[g] = NoWalk
      /\ \A k \in Goroutines \ {g} : walk'[k] = walk[k]
  BY MarkStopsFacts DEF Spawn
<1>2. NewFrame("base", 0, Top(g).env) \in Frame
  BY <1>1, NewFrameType DEF Frame, FrameKinds
<1>3. /\ frames' \in [Goroutines -> Seq(Frame)]
      /\ \A k \in Goroutines \ {h} : frames'[k] = frames[k]
  BY <1>2 DEF Spawn, TypeInv, TypeOK
<1>4. walk'[h] = NoWalk
  BY <1>1 DEF Spawn, TypeInv, WalkInside
<1>5. WalkInside'
  BY <1>1, <1>3, <1>4 DEF TypeInv, WalkInside, Top
<1> QED
  BY <1>1, <1>3, <1>5 DEF Spawn, TypeInv, TypeOK, envVars, interpVars

LEMMA PanicType ==
    ASSUME TypeInv, NEW g \in Goroutines, Panic(g)
    PROVE  TypeInv'
<1>1. frames[g] # <<>> /\ walk[g] = NoWalk
  BY DEF Panic, Executing, Evaluating
<1>2. Cardinality(FnIndices(g)) \in Nat
  <2>1. IsFiniteSet(1..Depth(g))
    BY FS_Interval, FramesOf DEF TypeInv
  <2>2. IsFiniteSet(FnIndices(g))
    BY <2>1, FS_Subset DEF FnIndices
  <2> QED
    BY <2>2, FS_CardinalityType
<1>3. callDepth' \in Int
  BY <1>2 DEF Panic, TypeInv, TypeOK
<1>4. filename' \in Files
  <2>1. \A i \in FnIndices(g) : frames[g][i] \in Frame
    BY FramesOf, ElementOfSeq DEF FnIndices, Depth, TypeInv
  <2>2. \A i \in FnIndices(g) : frames[g][i].prev # NoFile => frames[g][i].prev \in Files
    BY <2>1 DEF Frame
  <2> QED
    BY <2>2 DEF Panic, TypeInv, TypeOK
<1>5. parent' \in [Envs -> Envs \cup {NoEnv}] /\ live' \subseteq Envs
  BY DEF Panic, TypeInv, TypeOK
<1>6. /\ frames' \in [Goroutines -> Seq(Frame)]
      /\ \A h \in Goroutines \ {g} : frames'[h] = frames[h]
  BY DEF Panic, TypeInv, TypeOK
<1>7. WalkInside'
  BY <1>1, <1>6, WalkUndisturbed DEF Panic
<1> QED
  BY <1>3, <1>4, <1>5, <1>6, <1>7 DEF Panic, TypeInv, TypeOK

LEMMA SelectType ==
    ASSUME TypeInv, NEW g \in Goroutines, NEW cases \in SUBSET (Goroutines \ {g}),
           Select(g, cases)
    PROVE  TypeInv'
<1>1. frames[g] # <<>> /\ walk[g] = NoWalk
  BY DEF Select, Executing, Evaluating
<1>2. /\ Top(g) \in Frame /\ Top(g) = frames[g][Depth(g)]
      /\ Depth(g) \in 1..Depth(g) /\ frames[g] \in Seq(Frame)
  BY <1>1, TopFacts, FramesOf DEF TypeInv
<1>3. NewFrame("case", 0, Top(g).env) \in Frame
  BY <1>2, NewFrameType DEF Frame, FrameKinds
<1>4. [frames[g] EXCEPT ![Depth(g)].phase = "select",
                        ![Depth(g)].cases = cases] \in Seq(Frame)
  <2>1. [Top(g) EXCEPT !.phase = "select", !.cases = cases] \in Frame
    BY <1>2 DEF Frame, Phases
  <2>2. [frames[g] EXCEPT ![Depth(g)].phase = "select", ![Depth(g)].cases = cases]
        = [frames[g] EXCEPT ![Depth(g)] =
             [Top(g) EXCEPT !.phase = "select", !.cases = cases]]
    BY <1>2
  <2> DEFINE f == [Top(g) EXCEPT !.phase = "select", !.cases = cases]
  <2> HIDE DEF f
  <2>3. [frames[g] EXCEPT ![Depth(g)] = f] \in Seq(Frame)
    <3>1. f \in Frame
      BY <2>1 DEF f
    <3> QED
      BY <1>2, <3>1, ExceptSeq DEF Depth
  <2> QED
    BY <2>2, <2>3 DEF f
<1>5. frames' \in [Goroutines -> Seq(Frame)]
  BY <1>3, <1>4 DEF Select, TypeInv, TypeOK
<1>6. \A h \in Goroutines \ ({g} \cup cases) : frames'[h] = frames[h]
  BY DEF Select
<1>7. \A h \in {g} \cup cases : walk'[h] = NoWalk
  BY <1>1 DEF Select, Idle, TypeInv, WalkInside
<1>8. WalkInside'
  BY <1>6, <1>7 DEF Select, TypeInv, WalkInside, Top
<1> QED
  BY <1>5, <1>8 DEF Select, TypeInv, TypeOK, envVars, interpVars

LEMMA SelectCaseType ==
    ASSUME TypeInv, NEW g \in Goroutines, SelectCase(g)
    PROVE  TypeInv'
<1>1. frames[g] # <<>> /\ walk[g] = NoWalk
  BY NotMarking DEF SelectCase
<1>2. /\ Top(g) \in Frame /\ Top(g) = frames[g][Depth(g)]
      /\ Depth(g) \in 1..Depth(g) /\ frames[g] \in Seq(Frame)
  BY <1>1, TopFacts, FramesOf DEF TypeInv
<1> DEFINE s == [frames[g] EXCEPT ![Depth(g)].phase = "body",
                                  ![Depth(g)].cases = {}]
<1>3. s \in Seq(Frame)
  <2>1. [Top(g) EXCEPT !.phase = "body", !.cases = {}] \in Frame
    BY <1>2 DEF Frame, Phases
  <2>2. s = [frames[g] EXCEPT ![Depth(g)] =
               [Top(g) EXCEPT !.phase = "body", !.cases = {}]]
    BY <1>2
  <2>3. [frames[g] EXCEPT ![Depth(g)] =
           [Top(g) EXCEPT !.phase = "body", !.cases = {}]] \in Seq(Frame)
    BY <1>2, <2>1, ExceptSeq DEF Depth
  <2> QED
    BY <2>2, <2>3, Zenon
<1>4. PICK e \in Envs :
         /\ NewEnvironment(e, Top(g).env)
         /\ frames' = [frames EXCEPT ![g] =
                         Append([@ EXCEPT ![Depth(g)].phase = "body",
                                          ![Depth(g)].cases = {}],
                                NewFrame("scope", Top(g).call, e))]
  BY DEF SelectCase
<1>5. Top(g).env \in Envs /\ NewFrame("scope", Top(g).call, e) \in Frame
  BY <1>2, NewFrameType DEF Frame, FrameKinds
<1>6. Append(s, NewFrame("scope", Top(g).call, e)) \in Seq(Frame)
  BY <1>3, <1>5
<1>7. frames' = [frames EXCEPT ![g] = Append(s, NewFrame("scope", Top(g).call, e))]
  BY <1>4 DEF TypeInv, TypeOK
<1>8. /\ live' \subseteq Envs
      /\ parent' \in [Envs -> Envs \cup {NoEnv}]
      /\ escaped' \in [Envs -> BOOLEAN]
  BY <1>4, <1>5, NewEnvironmentType DEF TypeInv
<1>9. WalkInside'
  <2>1. \A h \in Goroutines \ {g} : frames'[h] = frames[h]
    BY <1>7 DEF TypeInv, TypeOK
  <2> QED
    BY <1>1, <2>1, WalkUndisturbed DEF SelectCase
<1> QED
  BY <1>6, <1>7, <1>8, <1>9 DEF SelectCase, TypeInv, TypeOK, interpVars

LEMMA DeferType ==
    ASSUME TypeInv, NEW g \in Goroutines, NEW site \in Sites, Defer(g, site)
    PROVE  TypeInv'
<1>1. Top(g) \in Frame
  BY TopFacts DEF Defer, Executing, Evaluating, TypeInv
<1>2. [env |-> Top(g).env, site |-> site, by |-> <<g, Top(g).call>>] \in DeferEntry
  BY <1>1 DEF Frame, DeferEntry
<1> QED
  BY <1>2 DEF Defer, TypeInv, TypeOK, WalkInside, Top, envVars

LEMMA ComponentType ==
    ASSUME TypeInv, NEW g \in Goroutines, Component(g)
    PROVE  TypeInv'
<1>1. Top(g) \in Frame
  BY TopFacts DEF Component, Executing, Evaluating, TypeInv
<1>2. fns' \subseteq Function
  BY <1>1 DEF Component, Function, Frame, TypeInv, TypeOK
<1> QED
  BY <1>2 DEF Component, TypeInv, TypeOK, WalkInside, Top, envVars, interpVars

LEMMA CollectType ==
    ASSUME TypeInv, NEW e \in Envs, Collect(e)
    PROVE  TypeInv'
  BY DEF Collect, TypeInv, TypeOK, WalkInside, Top, interpVars

LEMMA EnterOrLeaveType ==
    ASSUME TypeInv, NEW g \in Goroutines,
           \/ EnterBlock(g) \/ EnterScope(g) \/ LeaveBlock(g) \/ LeaveScope(g)
           \/ DeferEnds(g) \/ GoroutineEnds(g) \/ Constructed(g)
    PROVE  TypeInv'
<1>1. CASE EnterBlock(g)
  BY <1>1, EnterType DEF EnterBlock, Executing
<1>2. CASE EnterScope(g)
  BY <1>2, EnterType DEF EnterScope, Executing
<1>3. CASE LeaveBlock(g)
  BY <1>3, LeaveType DEF LeaveBlock, Executing, Evaluating
<1>4. CASE LeaveScope(g)
  BY <1>4, LeaveType DEF LeaveScope, Executing, Evaluating
<1>5. CASE DeferEnds(g)
  BY <1>5, LeaveType DEF DeferEnds, Executing, Evaluating
<1>6. CASE GoroutineEnds(g)
  BY <1>6, LeaveType DEF GoroutineEnds, Evaluating
<1>7. CASE Constructed(g)
  BY <1>7, LeaveType DEF Constructed, Evaluating
<1> QED
  BY <1>1, <1>2, <1>3, <1>4, <1>5, <1>6, <1>7

LEMMA TypeNext == TypeInv /\ [Next]_vars => TypeInv'
<1> SUFFICES ASSUME TypeInv, [Next]_vars PROVE TypeInv'
  OBVIOUS
<1>1. CASE UNCHANGED vars
  BY <1>1 DEF vars, TypeInv, TypeOK, WalkInside, Top
<1>2. ASSUME NEW g \in Goroutines, Step(g) PROVE TypeInv'
  <2>1. CASE \E f \in fns : Call(g, f) \/ Construct(g, f)
    BY <2>1, CallType, ConstructType
  <2>2. CASE ParamsBound(g) \/ BindFails(g)
    BY <2>2, ParamsBoundType, BindFailsType
  <2>3. CASE BodyEnds(g) \/ RunDefer(g) \/ Return(g)
    BY <2>3, BodyEndsType, RunDeferType, ReturnType
  <2>4. CASE \/ EnterBlock(g) \/ EnterScope(g) \/ LeaveBlock(g) \/ LeaveScope(g)
             \/ DeferEnds(g) \/ GoroutineEnds(g) \/ Constructed(g)
    BY <2>4, EnterOrLeaveType
  <2>5. CASE \/ \E why \in {"fn", "hoist", "spawn"} : BeginMark(g, why)
             \/ MarkStep(g)
    BY <2>5, MarkType
  <2>6. CASE MakeFunction(g) \/ \E h \in Goroutines : Spawn(g, h)
    BY <2>6, MakeFunctionType, SpawnType
  <2>7. CASE Panic(g) \/ Component(g)
    BY <2>7, PanicType, ComponentType
  <2>8. CASE \/ \E cases \in SUBSET (Goroutines \ {g}) : Select(g, cases)
             \/ SelectCase(g)
    BY <2>8, SelectType, SelectCaseType
  <2>9. CASE \E site \in Sites : Defer(g, site)
    BY <2>9, DeferType
  <2> QED
    BY <1>2, <2>1, <2>2, <2>3, <2>4, <2>5, <2>6, <2>7, <2>8, <2>9 DEF Step
<1>3. CASE \E e \in Envs : Collect(e)
  BY <1>3, CollectType
<1> QED
  BY <1>1, <1>2, <1>3 DEF Next

(* Every reachable state of the interpreter's frames is well formed: frames *)
(* and functions name Environments of the pool, and marking happens only in *)
(* a goroutine that has a frame to go on in. *)
THEOREM TypeCorrect == Spec => []TypeOK
<1>1. Spec => []TypeInv
  BY TypeInit, TypeNext, PTL DEF Spec
<1>2. TypeInv => TypeOK
  BY DEF TypeInv
<1> QED
  BY <1>1, <1>2, PTL

-----------------------------------------------------------------------------
(***************************************************************************)
(* The pool of Environments is used safely by every program that keeps to  *)
(* functions, closures, constructors, blocks, the scoping statements and   *)
(* spawn, with any number of goroutines: no scope chain reaches a recycled *)
(* frame, captured chains are escaped, and what is not escaped is private. *)
(***************************************************************************)

(* The programs the theorems are about.  A component is a function over a   *)
(* frame that nothing marks, and the goroutines of a select share the frame *)
(* they are started in: programs with them break what the theorems say.     *)
Disciplined == Statements \subseteq {"block", "scope", "new", "spawn"}

(* Envs that are escaped with everything above them, up to the root or, for *)
(* a chain that is being marked, up to the frame x where marking has got to.*)
SettledSet(S, lv, up, esc, x) ==
    S \subseteq lv /\ \A y \in S : esc[y] /\ up[y] \in S \cup {NoEnv, x}
SettledIn(lv, up, esc, x) ==
    {y \in Envs : \E S \in SUBSET Envs : y \in S /\ SettledSet(S, lv, up, esc, x)}
Settled(x) == SettledIn(live, parent, escaped, x)

(* No defer, select or component is pending or under way. *)
Shape ==
    /\ defers = <<>>
    /\ \A g \in Goroutines : \A i \in 1..Depth(g) :
         LET f == frames[g][i]
         IN  /\ f.kind \in {"base", "fn", "new", "block", "scope"}
             /\ f.phase # "select"
             /\ f.saved = <<>> /\ f.todo = <<>>

(* What a function captured is settled. *)
FunctionsSettled == \A f \in fns : f.env \in Settled(NoEnv)

(* Where the Environment of a frame hangs in the scope tree. *)
FramesRooted ==
    \A g \in Goroutines : \A i \in 1..Depth(g) :
        LET f == frames[g][i]
        IN  /\ f.env \in live
            /\ f.kind = "base" => f.env \in Settled(NoEnv)
            /\ f.kind \in {"fn", "new"} => parent[f.env] \in Settled(NoEnv)
            /\ f.kind \in {"block", "scope"} =>
                 i > 1 /\ parent[f.env] = frames[g][i - 1].env

(* A frame that is not escaped belongs to one activation. *)
UnescapedOnce ==
    \A g, h \in Goroutines : \A i \in 1..Depth(g), j \in 1..Depth(h) :
        (frames[g][i].env = frames[h][j].env /\ ~escaped[frames[g][i].env])
        => g = h /\ i = j

(* An escaped frame is settled, or it waits for the marking that goes on    *)
(* further down the stack of its own goroutine. *)
FramesSettling ==
    \A g \in Goroutines : \A i \in 1..Depth(g) :
        LET e == frames[g][i].env
        IN  escaped[e] =>
              \/ e \in Settled(NoEnv)
              \/ /\ e \in Settled(walk[g].at)
                 /\ \A k \in i..Depth(g) : frames[g][k].env # walk[g].at

(* Where marking has got to. *)
WalkPlace ==
    \A g \in Goroutines : walk[g] # NoWalk =>
        /\ Top(g).env = walk[g].at \/ escaped[Top(g).env]
        /\ \/ walk[g].at = NoEnv
           \/ walk[g].at \in Settled(NoEnv)
           \/ ~escaped[walk[g].at] /\ walk[g].at \in RunIn(g)

ScopeInv ==
    /\ Shape
    /\ FunctionsSettled
    /\ FramesRooted
    /\ UnescapedOnce
    /\ FramesSettling
    /\ WalkPlace

-----------------------------------------------------------------------------
(* Facts about settled sets: they are closed upwards, the greatest such, and *)
(* survive every step that only touches what is not escaped. *)
LEMMA SettledFacts ==
    ASSUME NEW lv, NEW up, NEW esc, NEW x, NEW y \in SettledIn(lv, up, esc, x)
    PROVE  /\ y \in Envs /\ y \in lv /\ esc[y]
           /\ up[y] \in SettledIn(lv, up, esc, x) \cup {NoEnv, x}
<1>1. PICK S \in SUBSET Envs : y \in S /\ SettledSet(S, lv, up, esc, x)
  BY DEF SettledIn
<1>2. S \subseteq SettledIn(lv, up, esc, x)
  BY <1>1 DEF SettledIn
<1> QED
  BY <1>1, <1>2 DEF SettledSet

LEMMA SettledMax ==
    ASSUME NEW lv, NEW up, NEW esc, NEW x, NEW S \in SUBSET Envs,
           SettledSet(S, lv, up, esc, x)
    PROVE  S \subseteq SettledIn(lv, up, esc, x)
  BY DEF SettledIn

LEMMA SettledMore ==
    ASSUME NEW lv, NEW up, NEW esc, NEW x
    PROVE  SettledIn(lv, up, esc, NoEnv) \subseteq SettledIn(lv, up, esc, x)
<1> DEFINE S == SettledIn(lv, up, esc, NoEnv)
<1>1. S \in SUBSET Envs
  BY DEF SettledIn
<1>2. SettledSet(S, lv, up, esc, x)
  BY SettledFacts DEF SettledSet
<1> QED
  BY <1>1, <1>2, SettledMax

(* Once marking has reached a settled frame, what waited for it is settled. *)
LEMMA SettledAt ==
    ASSUME NEW lv, NEW up, NEW esc, NEW x \in SettledIn(lv, up, esc, NoEnv) \cup {NoEnv}
    PROVE  SettledIn(lv, up, esc, x) \subseteq SettledIn(lv, up, esc, NoEnv)
<1> DEFINE S == SettledIn(lv, up, esc, x) \cup SettledIn(lv, up, esc, NoEnv)
<1>1. S \in SUBSET Envs
  BY DEF SettledIn
<1>2. ASSUME NEW y \in S
      PROVE  y \in lv /\ esc[y] /\ up[y] \in S \cup {NoEnv}
  BY <1>2, SettledFacts
<1>3. SettledSet(S, lv, up, esc, NoEnv)
  BY <1>2 DEF SettledSet
<1>4. S \subseteq SettledIn(lv, up, esc, NoEnv)
  BY <1>1, <1>3, SettledMax
<1> QED
  BY <1>4

LEMMA SettledPersists ==
    ASSUME NEW lv, NEW up, NEW esc, NEW lv2, NEW up2, NEW esc2, NEW x,
           \A y \in Envs : y \in lv /\ esc[y] => y \in lv2 /\ esc2[y] /\ up2[y] = up[y]
    PROVE  SettledIn(lv, up, esc, x) \subseteq SettledIn(lv2, up2, esc2, x)
<1> DEFINE S == SettledIn(lv, up, esc, x)
<1>1. S \in SUBSET Envs
  BY DEF SettledIn
<1>2. ASSUME NEW y \in S
      PROVE  y \in lv2 /\ esc2[y] /\ up2[y] \in S \cup {NoEnv, x}
  <2>1. y \in Envs /\ y \in lv /\ esc[y] /\ up[y] \in S \cup {NoEnv, x}
    BY <1>2, SettledFacts, Zenon
  <2>2. y \in lv2 /\ esc2[y] /\ up2[y] = up[y]
    BY <2>1
  <2> QED
    BY <2>1, <2>2, Zenon
<1>3. SettledSet(S, lv2, up2, esc2, x)
  BY <1>2 DEF SettledSet
<1> QED
  BY <1>1, <1>3, SettledMax

LEMMA SettledClosed ==
    \A y \in Settled(NoEnv) :
        /\ y \in Envs /\ y \in live /\ escaped[y]
        /\ parent[y] \in Settled(NoEnv) \cup {NoEnv}
<1> SUFFICES ASSUME NEW y \in Settled(NoEnv)
             PROVE  /\ y \in Envs /\ y \in live /\ escaped[y]
                    /\ parent[y] \in Settled(NoEnv) \cup {NoEnv}
  OBVIOUS
<1>1. /\ y \in Envs /\ y \in live /\ escaped[y]
      /\ parent[y] \in Settled(NoEnv) \cup {NoEnv, NoEnv}
  BY SettledFacts, Zenon DEF Settled
<1> QED
  BY <1>1

-----------------------------------------------------------------------------
(* The invariant implies the properties. *)

LEMMA FrameFacts ==
    ASSUME TypeOK, NEW g \in Goroutines, NEW i \in 1..Depth(g)
    PROVE  /\ frames[g][i] \in Frame /\ frames[g][i].env \in Envs
           /\ frames[g][i].env \in RunIn(g)
           /\ i \in Nat \ {0} /\ Depth(g) \in Nat
<1>1. frames[g] \in Seq(Frame) /\ Depth(g) \in Nat
  BY FramesOf
<1>2. frames[g][i] \in Frame
  BY <1>1, ElementOfSeq DEF Depth
<1>3. frames[g][i].env \in Envs
  BY <1>2 DEF Frame
<1>4. frames[g][i].env \in RunIn(g)
  BY DEF RunIn
<1>5. i \in Nat \ {0}
  BY <1>1
<1> QED
  BY <1>1, <1>2, <1>3, <1>4, <1>5

(* Going up from a frame of g one stays among its frames or reaches a       *)
(* settled Environment. *)
LEMMA AboveFrames ==
    ASSUME TypeOK, ScopeInv, NEW g \in Goroutines
    PROVE  \A y \in RunIn(g) \cup Settled(NoEnv) :
              /\ y \in Envs /\ y \in live
              /\ parent[y] \in RunIn(g) \cup Settled(NoEnv) \cup {NoEnv}
<1>1. ASSUME NEW y \in Settled(NoEnv)
      PROVE  y \in Envs /\ y \in live /\ parent[y] \in Settled(NoEnv) \cup {NoEnv}
  BY <1>1, SettledClosed
<1>2. ASSUME NEW i \in 1..Depth(g)
      PROVE  LET y == frames[g][i].env
             IN  /\ y \in Envs /\ y \in live
                 /\ parent[y] \in RunIn(g) \cup Settled(NoEnv) \cup {NoEnv}
  <2> DEFINE f == frames[g][i]
  <2>1. f.env \in Envs /\ f.env \in live
    BY FrameFacts DEF ScopeInv, FramesRooted
  <2>2. f.kind \in {"base", "fn", "new", "block", "scope"}
    BY DEF ScopeInv, Shape
  <2>3. CASE f.kind = "base"
    BY <1>1, <2>1, <2>3 DEF ScopeInv, FramesRooted
  <2>4. CASE f.kind \in {"fn", "new"}
    BY <2>1, <2>4 DEF ScopeInv, FramesRooted
  <2>5. CASE f.kind \in {"block", "scope"}
    <3>1. i > 1 /\ parent[f.env] = frames[g][i - 1].env
      BY <2>5 DEF ScopeInv, FramesRooted
    <3>2. i - 1 \in 1..Depth(g)
      BY <3>1, FrameFacts
    <3> QED
      BY <2>1, <3>1, <3>2, FrameFacts
  <2> QED
    BY <2>2, <2>3, <2>4, <2>5
<1> QED
  BY <1>1, <1>2 DEF RunIn

LEMMA AboveIn ==
    ASSUME NEW E, NEW S \in SUBSET Envs, E \subseteq S,
           \A y \in S : parent[y] \in S \cup {NoEnv}
    PROVE  Above(E) \subseteq S
  BY DEF Above

LEMMA ScopeInvImplies ==
    ASSUME TypeOK, ScopeInv
    PROVE  NoDangling /\ CapturedEscaped /\ UnescapedPrivate
<1>1. Captured \subseteq Settled(NoEnv)
  BY DEF ScopeInv, FunctionsSettled, Captured
<1>2. /\ Settled(NoEnv) \in SUBSET Envs
      /\ \A y \in Settled(NoEnv) :
           y \in live /\ escaped[y] /\ parent[y] \in Settled(NoEnv) \cup {NoEnv}
  BY SettledClosed
<1>3. CapturedEscaped
  <2>1. Above(Captured) \subseteq Settled(NoEnv)
    BY <1>1, <1>2, AboveIn
  <2> QED
    BY <1>2, <2>1 DEF CapturedEscaped
<1>4. NoDangling
  <2> DEFINE R == UNION {RunIn(g) : g \in Goroutines}
             S == Settled(NoEnv) \cup R
  <2>1. ASSUME NEW y \in S
        PROVE  y \in Envs /\ y \in live /\ parent[y] \in S \cup {NoEnv}
    <3>1. CASE y \in Settled(NoEnv)
      BY <1>2, <3>1
    <3>2. CASE \E g \in Goroutines : y \in RunIn(g)
      <4>1. PICK g \in Goroutines : y \in RunIn(g)
        BY <3>2
      <4>2. /\ y \in Envs /\ y \in live
            /\ parent[y] \in RunIn(g) \cup Settled(NoEnv) \cup {NoEnv}
        BY <4>1, AboveFrames
      <4> QED
        BY <4>2
    <3> QED
      BY <3>1, <3>2
  <2>2. Above(Captured \cup R) \subseteq S
    <3>1. Captured \cup R \subseteq S
      BY <1>1
    <3>2. S \in SUBSET Envs /\ \A y \in S : parent[y] \in S \cup {NoEnv}
      BY <2>1
    <3> HIDE DEF S
    <3> QED
      BY <3>1, <3>2, AboveIn
  <2> QED
    BY <2>1, <2>2 DEF NoDangling
<1>5. UnescapedPrivate
  <2> SUFFICES ASSUME NEW g \in Goroutines, NEW h \in Goroutines, g # h,
                      NEW e \in Above(RunIn(g)) \cap Above(RunIn(h)), ~escaped[e]
               PROVE  FALSE
    BY Zenon DEF UnescapedPrivate
  <2>1. \A k \in Goroutines : Above(RunIn(k)) \subseteq RunIn(k) \cup Settled(NoEnv)
    <3> TAKE k \in Goroutines
    <3> DEFINE S == RunIn(k) \cup Settled(NoEnv)
    <3>1. RunIn(k) \subseteq S
      OBVIOUS
    <3>2. S \in SUBSET Envs /\ \A y \in S : parent[y] \in S \cup {NoEnv}
      BY AboveFrames
    <3> HIDE DEF S
    <3>3. Above(RunIn(k)) \subseteq S
      BY <3>1, <3>2, AboveIn
    <3> QED
      BY <3>3 DEF S
  <2>2. e \in RunIn(g) /\ e \in RunIn(h)
    BY <1>2, <2>1
  <2> QED
    BY <2>2 DEF RunIn, ScopeInv, UnescapedOnce
<1> QED
  BY <1>3, <1>4, <1>5

-----------------------------------------------------------------------------
(* The invariant is inductive. *)

LEMMA ScopeInit == Init => ScopeInv
<1> SUFFICES ASSUME Init PROVE ScopeInv
  OBVIOUS
<1> USE EnvsAssumption, GoroutinesAssumption
<1>1. {TopEnv, LibEnv} \subseteq Settled(NoEnv)
  <2> DEFINE S == {TopEnv, LibEnv}
  <2>1. S \in SUBSET Envs /\ SettledSet(S, live, parent, escaped, NoEnv)
    BY DEF Init, SettledSet
  <2> QED
    BY <2>1, SettledMax DEF Settled
<1>2. \A g \in Goroutines : Depth(g) = IF g = Main THEN 1 ELSE 0
  BY DEF Init, Depth
<1>3. \A g \in Goroutines : \A i \in 1..Depth(g) :
         g = Main /\ i = 1 /\ frames[g][i] = NewFrame("base", 0, TopEnv)
  BY <1>2 DEF Init
<1>4. Shape
  BY <1>3 DEF Shape, Init, NewFrame
<1>5. FunctionsSettled
  BY <1>1 DEF FunctionsSettled, Init
<1>6. FramesRooted
  BY <1>1, <1>3 DEF FramesRooted, Init, NewFrame
<1>7. UnescapedOnce
  BY <1>3 DEF UnescapedOnce
<1>8. FramesSettling
  BY <1>1, <1>3 DEF FramesSettling, NewFrame
<1>9. WalkPlace
  BY DEF WalkPlace, Init
<1> QED
  BY <1>4, <1>5, <1>6, <1>7, <1>8, <1>9 DEF ScopeInv

(* Outside MarkEscaped an escaped frame is settled. *)
LEMMA IdleSettled ==
    ASSUME ScopeInv, NEW g \in Goroutines, walk[g] = NoWalk, NEW i \in 1..Depth(g),
           escaped[frames[g][i].env]
    PROVE  frames[g][i].env \in Settled(NoEnv)
  BY DEF ScopeInv, FramesSettling, NoWalk

(* The invariant at one frame and at one goroutine. *)
LEMMA AtFrame ==
    ASSUME ScopeInv, NEW g \in Goroutines, NEW i \in 1..Depth(g)
    PROVE  LET f == frames[g][i]
               e == frames[g][i].env
           IN  /\ f.kind \in {"base", "fn", "new", "block", "scope"}
               /\ f.phase # "select" /\ f.saved = <<>> /\ f.todo = <<>>
               /\ e \in live
               /\ f.kind = "base" => e \in Settled(NoEnv)
               /\ f.kind \in {"fn", "new"} => parent[e] \in Settled(NoEnv)
               /\ f.kind \in {"block", "scope"} =>
                    i > 1 /\ parent[e] = frames[g][i - 1].env
               /\ escaped[e] =>
                    \/ e \in Settled(NoEnv)
                    \/ /\ e \in Settled(walk[g].at)
                       /\ \A k \in i..Depth(g) : frames[g][k].env # walk[g].at
<1>1. Shape /\ FramesRooted /\ FramesSettling
  BY DEF ScopeInv
<1> QED
  BY <1>1 DEF Shape, FramesRooted, FramesSettling

LEMMA AtWalk ==
    ASSUME ScopeInv, NEW g \in Goroutines, walk[g] # NoWalk
    PROVE  /\ Top(g).env = walk[g].at \/ escaped[Top(g).env]
           /\ \/ walk[g].at = NoEnv
              \/ walk[g].at \in Settled(NoEnv)
              \/ ~escaped[walk[g].at] /\ walk[g].at \in RunIn(g)
  BY DEF ScopeInv, WalkPlace

LEMMA OnceAt ==
    ASSUME ScopeInv, NEW g \in Goroutines, NEW h \in Goroutines,
           NEW i \in 1..Depth(g), NEW j \in 1..Depth(h),
           frames[g][i].env = frames[h][j].env, ~escaped[frames[g][i].env]
    PROVE  g = h /\ i = j
  BY DEF ScopeInv, UnescapedOnce

(* A step that keeps the first n frames of g, and gives some Environments   *)
(* of the others, not escaped, back to the pool. *)
Shrinks(g, n, freed) ==
    /\ \A e \in freed : ~escaped[e] /\ \E i \in (n + 1)..Depth(g) : frames[g][i].env = e
    /\ Len(frames'[g]) = n
    /\ \A i \in 1..n : /\ frames'[g][i].env = frames[g][i].env
                       /\ frames'[g][i].kind = frames[g][i].kind
                       /\ frames'[g][i].phase # "select"
                       /\ frames'[g][i].saved = <<>> /\ frames'[g][i].todo = <<>>
    /\ \A h \in Goroutines \ {g} : frames'[h] = frames[h]
    /\ live' = live \ freed
    /\ parent' = [e \in Envs |-> IF e \in freed THEN NoEnv ELSE parent[e]]
    /\ escaped' = escaped /\ fns' = fns /\ walk' = walk /\ defers' = <<>>

LEMMA ShrinkKeeps ==
    ASSUME TypeInv, ScopeInv, NEW g \in Goroutines, walk[g] = NoWalk,
           NEW n \in 0..Depth(g), NEW freed \in SUBSET Envs, Shrinks(g, n, freed)
    PROVE  ScopeInv'
<1> USE DEF Shrinks
<1>1. \A x : SettledIn(live, parent, escaped, x) \subseteq SettledIn(live', parent', escaped', x)
  <2>1. \A y \in Envs : y \in live /\ escaped[y]
                         => y \in live' /\ escaped'[y] /\ parent'[y] = parent[y]
    OBVIOUS
  <2> QED
    BY <2>1, SettledPersists
<1>a. Settled(NoEnv) \subseteq Settled(NoEnv)'
  BY <1>1 DEF Settled
<1>b. \A h \in Goroutines : Settled(walk[h].at) \subseteq Settled(walk[h].at)'
  BY <1>1 DEF Settled
<1>2. Depth(g) \in Nat /\ n \in Nat /\ n <= Depth(g)
  BY FramesOf DEF TypeInv
<1>3. ASSUME NEW h \in Goroutines, NEW i \in 1..Len(frames'[h])
      PROVE  /\ i \in 1..Depth(h)
             /\ frames'[h][i].env = frames[h][i].env
             /\ frames'[h][i].kind = frames[h][i].kind
             /\ frames'[h][i].env \in Envs
             /\ frames'[h][i].env \notin freed
             /\ h = g => i <= n
  <2>1. i \in 1..Depth(h) /\ (h = g => i \in 1..n)
    BY <1>2, <1>3 DEF Depth
  <2>2. frames'[h][i].env = frames[h][i].env /\ frames'[h][i].kind = frames[h][i].kind
    BY <2>1
  <2>3. frames[h][i].env \in Envs
    BY <2>1, FrameFacts DEF TypeInv
  <2>4. frames[h][i].env \notin freed
    <3> SUFFICES ASSUME frames[h][i].env \in freed PROVE FALSE
      OBVIOUS
    <3>1. PICK j \in (n + 1)..Depth(g) : frames[g][j].env = frames[h][i].env
      OBVIOUS
    <3>2. j \in 1..Depth(g)
      BY <1>2
    <3>3. h = g /\ i = j
      BY <2>1, <3>1, <3>2 DEF ScopeInv, UnescapedOnce
    <3> QED
      BY <1>2, <2>1, <3>3
  <2> QED
    BY <1>2, <2>1, <2>2, <2>3, <2>4
<1>4. Shape'
  <2> SUFFICES ASSUME NEW h \in Goroutines, NEW i \in 1..Len(frames'[h])
               PROVE  /\ frames'[h][i].kind \in {"base", "fn", "new", "block", "scope"}
                      /\ frames'[h][i].phase # "select"
                      /\ frames'[h][i].saved = <<>> /\ frames'[h][i].todo = <<>>
    BY DEF Shape, Depth
  <2>1. CASE h = g
    BY <1>2, <1>3, <2>1 DEF ScopeInv, Shape
  <2>2. CASE h # g
    BY <1>3, <2>2 DEF ScopeInv, Shape
  <2> QED
    BY <2>1, <2>2
<1>5. FunctionsSettled'
  BY <1>1 DEF ScopeInv, FunctionsSettled, Settled
<1>6. FramesRooted'
  <2> SUFFICES ASSUME NEW h \in Goroutines, NEW i \in 1..Len(frames'[h])
               PROVE  LET f == frames'[h][i]
                      IN  /\ f.env \in live'
                          /\ f.kind = "base" => f.env \in Settled(NoEnv)'
                          /\ f.kind \in {"fn", "new"} => parent'[f.env] \in Settled(NoEnv)'
                          /\ f.kind \in {"block", "scope"} =>
                               i > 1 /\ parent'[f.env] = frames'[h][i - 1].env
    BY DEF FramesRooted, Depth
  <2>1. /\ i \in 1..Depth(h)
        /\ frames'[h][i].env = frames[h][i].env
        /\ frames'[h][i].kind = frames[h][i].kind
        /\ frames'[h][i].env \in live'
        /\ parent'[frames'[h][i].env] = parent[frames[h][i].env]
    BY <1>3 DEF ScopeInv, FramesRooted
  <2>2. ASSUME i > 1 PROVE frames'[h][i - 1].env = frames[h][i - 1].env
    <3>1. i - 1 \in 1..Len(frames'[h])
      BY <1>2, <2>1, <2>2, FramesOf DEF TypeInv, Depth
    <3> QED
      BY <1>3, <3>1
  <2> QED
    BY <1>a, <2>1, <2>2, AtFrame
<1>7. UnescapedOnce'
  BY <1>3 DEF ScopeInv, UnescapedOnce, Depth
<1>8. FramesSettling'
  <2> SUFFICES ASSUME NEW h \in Goroutines, NEW i \in 1..Len(frames'[h]),
                      escaped[frames'[h][i].env]
               PROVE  LET e == frames'[h][i].env
                      IN  \/ e \in Settled(NoEnv)'
                          \/ /\ e \in Settled(walk[h].at)'
                             /\ \A k \in i..Len(frames'[h]) : frames'[h][k].env # walk[h].at
    BY DEF FramesSettling, Depth, Settled
  <2>1. CASE h = g
    BY <1>a, <1>3, <2>1, IdleSettled
  <2>2. CASE h # g
    <3>1. frames'[h] = frames[h] /\ Len(frames'[h]) = Depth(h) /\ i \in 1..Depth(h)
      BY <2>2 DEF Depth
    <3>2. escaped[frames[h][i].env]
      BY <1>a, <3>1
    <3>3. \/ frames[h][i].env \in Settled(NoEnv)
          \/ /\ frames[h][i].env \in Settled(walk[h].at)
             /\ \A k \in i..Depth(h) : frames[h][k].env # walk[h].at
      BY <3>1, <3>2, AtFrame, Zenon
    <3>4. Settled(walk[h].at) \subseteq Settled(walk[h].at)'
      BY <1>b, Zenon
    <3> HIDE DEF Shrinks
    <3>5. CASE frames[h][i].env \in Settled(NoEnv)
      BY <1>a, <3>1, <3>5
    <3>6. CASE /\ frames[h][i].env \in Settled(walk[h].at)
               /\ \A k \in i..Depth(h) : frames[h][k].env # walk[h].at
      BY <3>1, <3>4, <3>6
    <3> QED
      BY <3>3, <3>5, <3>6
  <2> QED
    BY <2>1, <2>2
<1>9. WalkPlace'
  <2> SUFFICES ASSUME NEW h \in Goroutines, walk[h] # NoWalk
               PROVE  /\ Top(h)'.env = walk[h].at \/ escaped[Top(h)'.env]
                      /\ \/ walk[h].at = NoEnv
                         \/ walk[h].at \in Settled(NoEnv)'
                         \/ ~escaped[walk[h].at] /\ walk[h].at \in RunIn(h)'
    BY DEF WalkPlace
  <2>1. h # g /\ Top(h)' = Top(h) /\ RunIn(h)' = RunIn(h)
    BY DEF Top, RunIn, Depth
  <2> QED
    BY <1>a, <2>1, AtWalk
<1> QED
  BY <1>4, <1>5, <1>6, <1>7, <1>8, <1>9 DEF ScopeInv

(* A step that pushes a frame over a new Environment, whose parent is what a *)
(* function captured or the frame below. *)
LEMMA PushKeeps ==
    ASSUME TypeInv, ScopeInv, NEW g \in Goroutines, walk[g] = NoWalk,
           NEW e \in Envs, NEW p \in Envs, NewEnvironment(e, p),
           NEW f \in Frame, f.env = e, f.phase # "select",
           f.saved = <<>>, f.todo = <<>>,
           \/ f.kind \in {"fn", "new"} /\ p \in Settled(NoEnv)
           \/ f.kind \in {"block", "scope"} /\ frames[g] # <<>> /\ p = Top(g).env,
           frames' = [frames EXCEPT ![g] = Append(frames[g], f)],
           UNCHANGED <<fns, walk>>, defers' = <<>>
    PROVE  ScopeInv'
<1>1. /\ e \notin live /\ live' = live \cup {e}
      /\ parent'[e] = p /\ \A y \in Envs \ {e} : parent'[y] = parent[y]
      /\ ~escaped'[e] /\ \A y \in Envs \ {e} : escaped'[y] = escaped[y]
  BY DEF NewEnvironment, TypeInv, TypeOK
<1>2. \A x : SettledIn(live, parent, escaped, x) \subseteq SettledIn(live', parent', escaped', x)
  <2>1. \A y \in Envs : y \in live /\ escaped[y]
                         => y \in live' /\ escaped'[y] /\ parent'[y] = parent[y]
    BY <1>1
  <2> QED
    BY <2>1, SettledPersists
<1>3. Settled(NoEnv) \subseteq Settled(NoEnv)'
  BY <1>2 DEF Settled
<1>4. \A h \in Goroutines : Settled(walk[h].at) \subseteq Settled(walk[h].at)'
  BY <1>2 DEF Settled
<1> DEFINE d == Depth(g) + 1
<1>5. /\ frames[g] \in Seq(Frame) /\ Depth(g) \in Nat
      /\ Len(frames'[g]) = d /\ frames'[g][d] = f
      /\ \A i \in 1..Depth(g) : frames'[g][i] = frames[g][i]
      /\ \A h \in Goroutines \ {g} : frames'[h] = frames[h]
  <2>1. frames[g] \in Seq(Frame) /\ Depth(g) \in Nat
    BY FramesOf DEF TypeInv
  <2>2. frames'[g] = Append(frames[g], f)
    BY DEF TypeInv, TypeOK
  <2>3. \A h \in Goroutines \ {g} : frames'[h] = frames[h]
    BY DEF TypeInv, TypeOK
  <2> QED
    BY <2>1, <2>2, <2>3, AppendFacts DEF Depth
<1> HIDE DEF d
<1>6. ASSUME NEW h \in Goroutines, NEW i \in 1..Len(frames'[h]), ~(h = g /\ i = d)
      PROVE  /\ i \in 1..Depth(h)
             /\ frames'[h][i] = frames[h][i]
             /\ frames[h][i].env \in Envs
             /\ frames[h][i].env # e
             /\ h = g => i < d
  <2>1. i \in 1..Depth(h) /\ frames'[h][i] = frames[h][i] /\ (h = g => i < d)
    BY <1>5, <1>6 DEF Depth, d
  <2>2. frames[h][i].env \in Envs /\ frames[h][i].env \in live
    BY <2>1, FrameFacts, AtFrame DEF TypeInv
  <2> QED
    BY <1>1, <2>1, <2>2
<1>7. Shape'
  <2> SUFFICES ASSUME NEW h \in Goroutines, NEW i \in 1..Len(frames'[h])
               PROVE  /\ frames'[h][i].kind \in {"base", "fn", "new", "block", "scope"}
                      /\ frames'[h][i].phase # "select"
                      /\ frames'[h][i].saved = <<>> /\ frames'[h][i].todo = <<>>
    BY DEF Shape, Depth
  <2>1. CASE h = g /\ i = d
    BY <1>5, <2>1
  <2>2. CASE ~(h = g /\ i = d)
    BY <1>6, <2>2, AtFrame
  <2> QED
    BY <2>1, <2>2
<1>8. FunctionsSettled'
  BY <1>3 DEF ScopeInv, FunctionsSettled
<1>9. FramesRooted'
  <2> SUFFICES ASSUME NEW h \in Goroutines, NEW i \in 1..Len(frames'[h])
               PROVE  LET k == frames'[h][i]
                      IN  /\ k.env \in live'
                          /\ k.kind = "base" => k.env \in Settled(NoEnv)'
                          /\ k.kind \in {"fn", "new"} => parent'[k.env] \in Settled(NoEnv)'
                          /\ k.kind \in {"block", "scope"} =>
                               i > 1 /\ parent'[k.env] = frames'[h][i - 1].env
    BY DEF FramesRooted, Depth
  <2>1. CASE h = g /\ i = d /\ f.kind \in {"fn", "new"}
    BY <1>1, <1>3, <1>5, <2>1
  <2>2. CASE h = g /\ i = d /\ f.kind \in {"block", "scope"}
    <3>1. p = frames[g][Depth(g)].env /\ Depth(g) \in 1..Depth(g) /\ d - 1 = Depth(g)
      BY <2>2, TopFacts DEF TypeInv, d
    <3> QED
      BY <1>1, <1>5, <2>2, <3>1 DEF d
  <2>3. CASE ~(h = g /\ i = d)
    <3>1. /\ i \in 1..Depth(h)
          /\ frames'[h][i] = frames[h][i]
          /\ frames[h][i].env \in live'
          /\ parent'[frames[h][i].env] = parent[frames[h][i].env]
      BY <1>1, <1>6, <2>3, AtFrame
    <3>2. ASSUME i > 1 PROVE frames'[h][i - 1] = frames[h][i - 1]
      <4>1. i - 1 \in 1..Len(frames'[h]) /\ ~(h = g /\ i - 1 = d)
        BY <1>5, <1>6, <2>3, <3>1, <3>2, FramesOf DEF TypeInv, Depth, d
      <4> QED
        BY <1>6, <4>1
    <3> QED
      BY <1>3, <3>1, <3>2, AtFrame
  <2> QED
    BY <2>1, <2>2, <2>3
<1>10. UnescapedOnce'
  <2> SUFFICES ASSUME NEW h \in Goroutines, NEW k \in Goroutines,
                      NEW i \in 1..Len(frames'[h]), NEW j \in 1..Len(frames'[k]),
                      frames'[h][i].env = frames'[k][j].env,
                      ~escaped'[frames'[h][i].env]
               PROVE  h = k /\ i = j
    BY DEF UnescapedOnce, Depth
  <2>1. CASE h = g /\ i = d
    BY <1>5, <1>6, <2>1
  <2>2. CASE k = g /\ j = d
    BY <1>5, <1>6, <2>2
  <2>3. CASE ~(h = g /\ i = d) /\ ~(k = g /\ j = d)
    <3>1. /\ i \in 1..Depth(h) /\ frames'[h][i] = frames[h][i]
          /\ frames[h][i].env \in Envs \ {e}
      BY <1>6, <2>3, ZenonT(60)
    <3>2. j \in 1..Depth(k) /\ frames'[k][j] = frames[k][j]
      BY <1>6, <2>3, ZenonT(60)
    <3>3. frames[h][i].env = frames[k][j].env /\ ~escaped[frames[h][i].env]
      BY <1>1, <3>1, <3>2
    <3> QED
      BY <3>1, <3>2, <3>3, OnceAt
  <2> QED
    BY <2>1, <2>2, <2>3
<1>11. FramesSettling'
  <2> SUFFICES ASSUME NEW h \in Goroutines, NEW i \in 1..Len(frames'[h]),
                      escaped'[frames'[h][i].env]
               PROVE  LET y == frames'[h][i].env
                      IN  \/ y \in Settled(NoEnv)'
                          \/ /\ y \in Settled(walk[h].at)'
                             /\ \A k \in i..Len(frames'[h]) : frames'[h][k].env # walk[h].at
    BY DEF FramesSettling, Depth, Settled
  <2>1. ~(h = g /\ i = d)
    BY <1>1, <1>5
  <2>2. /\ i \in 1..Depth(h) /\ frames'[h][i] = frames[h][i]
        /\ escaped[frames[h][i].env]
    BY <1>1, <1>6, <2>1
  <2>3. CASE h = g
    BY <1>3, <2>2, <2>3, IdleSettled
  <2>4. CASE h # g
    <3>1. frames'[h] = frames[h] /\ Len(frames'[h]) = Depth(h)
      BY <1>5, <2>4 DEF Depth
    <3>2. \/ frames[h][i].env \in Settled(NoEnv)
          \/ /\ frames[h][i].env \in Settled(walk[h].at)
             /\ \A k \in i..Depth(h) : frames[h][k].env # walk[h].at
      BY <2>2, AtFrame
    <3> QED
      BY <1>3, <1>4, <2>2, <3>1, <3>2
  <2> QED
    BY <2>3, <2>4
<1>12. WalkPlace'
  <2> SUFFICES ASSUME NEW h \in Goroutines, walk[h] # NoWalk
               PROVE  /\ Top(h)'.env = walk[h].at \/ escaped'[Top(h)'.env]
                      /\ \/ walk[h].at = NoEnv
                         \/ walk[h].at \in Settled(NoEnv)'
                         \/ ~escaped'[walk[h].at] /\ walk[h].at \in RunIn(h)'
    BY DEF WalkPlace
  <2>1. h # g /\ frames[h] # <<>> /\ Top(h)' = Top(h) /\ RunIn(h)' = RunIn(h)
    BY <1>5 DEF Top, RunIn, Depth, TypeInv, WalkInside
  <2>2. \A y \in RunIn(h) : y \in Envs \ {e}
    BY <1>1, FrameFacts, AtFrame DEF RunIn, TypeInv
  <2>3. Top(h).env \in RunIn(h)
    BY <2>1, TopFacts DEF RunIn, TypeInv
  <2> QED
    BY <1>1, <1>3, <2>1, <2>2, <2>3, AtWalk
<1> QED
  BY <1>7, <1>8, <1>9, <1>10, <1>11, <1>12 DEF ScopeInv

(* MarkEscaped starts at the top frame, which is settled or not escaped. *)
LEMMA BeginMarkKeeps ==
    ASSUME TypeInv, ScopeInv, NEW g \in Goroutines, NEW why \in {"fn", "hoist", "spawn"},
           BeginMark(g, why)
    PROVE  ScopeInv'
<1>1. /\ frames[g] # <<>> /\ walk[g] = NoWalk
      /\ UNCHANGED <<live, parent, escaped, fns, frames, defers>>
  BY DEF BeginMark, Evaluating, envVars, interpVars
<1>2. /\ walk'[g].at = Top(g).env
      /\ \A h \in Goroutines \ {g} : walk'[h] = walk[h]
  BY DEF BeginMark, TypeInv, TypeOK
<1>3. /\ Depth(g) \in 1..Depth(g) /\ Top(g) = frames[g][Depth(g)]
      /\ Top(g).env \in RunIn(g)
  BY <1>1, TopFacts DEF TypeInv, RunIn
<1>4. Shape' /\ FunctionsSettled' /\ FramesRooted' /\ UnescapedOnce'
  BY <1>1 DEF ScopeInv, Shape, FunctionsSettled, FramesRooted, UnescapedOnce, Settled, Depth
<1>5. FramesSettling'
  <2> SUFFICES ASSUME NEW h \in Goroutines, NEW i \in 1..Depth(h),
                      escaped[frames[h][i].env]
               PROVE  LET y == frames[h][i].env
                      IN  \/ y \in Settled(NoEnv)
                          \/ /\ y \in SettledIn(live, parent, escaped, walk'[h].at)
                             /\ \A k \in i..Depth(h) : frames[h][k].env # walk'[h].at
    BY <1>1 DEF FramesSettling, Depth, Settled
  <2>1. CASE h = g
    BY <1>1, <2>1, IdleSettled
  <2>2. CASE h # g
    BY <1>2, <2>2, AtFrame DEF Settled
  <2> QED
    BY <2>1, <2>2
<1>6. WalkPlace'
  <2> SUFFICES ASSUME NEW h \in Goroutines, walk'[h] # NoWalk
               PROVE  /\ Top(h).env = walk'[h].at \/ escaped[Top(h).env]
                      /\ \/ walk'[h].at = NoEnv
                         \/ walk'[h].at \in Settled(NoEnv)
                         \/ ~escaped[walk'[h].at] /\ walk'[h].at \in RunIn(h)
    BY <1>1 DEF WalkPlace, Settled, Top, RunIn, Depth
  <2>1. CASE h = g
    BY <1>1, <1>2, <1>3, <2>1, IdleSettled
  <2>2. CASE h # g
    BY <1>2, <2>2, AtWalk
  <2> QED
    BY <2>1, <2>2
<1> QED
  BY <1>4, <1>5, <1>6 DEF ScopeInv

(* One frame p is marked and marking moves on to the one above it: what     *)
(* waited for p, and p itself, now wait for q. *)
LEMMA MarkStepKeeps ==
    ASSUME TypeInv, ScopeInv, NEW g \in Goroutines, MarkStep(g)
    PROVE  ScopeInv'
<1> DEFINE p == walk[g].at
           q == parent[p]
           Old(x) == SettledIn(live, parent, escaped, x)
           New(x) == SettledIn(live, parent, escaped', x)
<1>1. /\ p # NoEnv /\ ~escaped[p]
      /\ UNCHANGED <<live, parent, fns, frames, defers>>
      /\ walk[g] # NoWalk
  BY DEF MarkStep, interpVars, NoWalk
<1>2. /\ walk'[g].at = q
      /\ \A h \in Goroutines \ {g} : walk'[h] = walk[h]
      /\ p \in Envs /\ p \in RunIn(g)
  <2>1. p \in Envs
    BY <1>1 DEF TypeInv, TypeOK, Walk
  <2>2. p \notin Settled(NoEnv)
    BY <1>1, SettledClosed
  <2> QED
    BY <1>1, <2>1, <2>2, AtWalk DEF MarkStep, TypeInv, TypeOK, Walk
<1>3. escaped'[p] /\ \A y \in Envs \ {p} : escaped'[y] = escaped[y]
  BY <1>2 DEF MarkStep, TypeInv, TypeOK
<1>4. \A x : Old(x) \subseteq New(x)
  <2>1. \A y \in Envs : y \in live /\ escaped[y] => y \in live /\ escaped'[y] /\ parent[y] = parent[y]
    BY <1>2, <1>3
  <2> QED
    BY <2>1, SettledPersists
<1> HIDE DEF Old, New
<1>5. PICK n \in 1..Depth(g) : frames[g][n].env = p
  BY <1>2 DEF RunIn
<1>6. p \in live /\ \A i \in 1..Depth(g) : frames[g][i].env = p => i = n
  BY <1>1, <1>5, AtFrame DEF ScopeInv, UnescapedOnce
<1>7. Old(p) \cup {p} \subseteq New(q)
  <2> DEFINE S == Old(p) \cup {p}
  <2>1. S \in SUBSET Envs
    BY <1>2 DEF Old, SettledIn
  <2>2. \A y \in Old(p) : y \in Envs /\ y \in live /\ escaped[y] /\ parent[y] \in Old(p) \cup {NoEnv, p}
    <3> SUFFICES ASSUME NEW y \in Old(p)
                 PROVE  /\ y \in Envs /\ y \in live /\ escaped[y]
                        /\ parent[y] \in Old(p) \cup {NoEnv, p}
      OBVIOUS
    <3> HIDE DEF p
    <3> QED
      BY SettledFacts, Zenon DEF Old
  <2>3. SettledSet(S, live, parent, escaped', q)
    BY <1>2, <1>3, <1>6, <2>2 DEF SettledSet
  <2> QED
    BY <2>1, <2>3, SettledMax DEF New
<1>8. Old(NoEnv) \subseteq New(NoEnv) /\ New(NoEnv) \subseteq New(q)
  BY <1>4, SettledMore DEF New
<1>9. q \in New(NoEnv) \cup {NoEnv} => New(q) \subseteq New(NoEnv)
  BY SettledAt DEF New
(* The frame above p: the root, a settled frame, or the one below on the    *)
(* stack, which then is not escaped or settled. *)
<1>10. \/ q \in New(NoEnv) \cup {NoEnv}
       \/ n > 1 /\ q = frames[g][n - 1].env /\ ~escaped'[q] /\ q # p
  <2>1. frames[g][n].kind \in {"base", "fn", "new", "block", "scope"}
    BY AtFrame
  <2>2. CASE frames[g][n].kind = "base"
    <3>1. p \in Settled(NoEnv)
      BY <1>5, <2>2, AtFrame
    <3> QED
      BY <1>1, <3>1, SettledClosed
  <2>3. CASE frames[g][n].kind \in {"fn", "new"}
    BY <1>5, <1>8, <2>3, AtFrame DEF Settled, Old
  <2>4. CASE frames[g][n].kind \in {"block", "scope"}
    <3>1. n > 1 /\ q = frames[g][n - 1].env
      BY <1>5, <2>4, AtFrame
    <3>2. n - 1 \in 1..Depth(g) /\ n \in (n - 1)..Depth(g) /\ n - 1 # n
      BY <3>1, FrameFacts DEF TypeInv
    <3>3. q # p /\ q \in Envs
      BY <1>6, <3>1, <3>2, FrameFacts DEF TypeInv
    <3>4. CASE ~escaped[q]
      BY <1>3, <3>1, <3>3, <3>4
    <3>5. CASE escaped[q]
      <4>1. q \in Settled(NoEnv) \/ \A k \in (n - 1)..Depth(g) : frames[g][k].env # p
        BY <3>1, <3>2, <3>5, AtFrame
      <4>2. q \in Settled(NoEnv)
        BY <1>5, <3>2, <4>1
      <4> QED
        BY <1>8, <4>2 DEF Settled, Old
    <3> QED
      BY <3>4, <3>5
  <2> QED
    BY <2>1, <2>2, <2>3, <2>4
<1>11. Shape'
  BY <1>1 DEF ScopeInv, Shape, Depth
<1>12. FunctionsSettled'
  BY <1>1, <1>8 DEF ScopeInv, FunctionsSettled, Settled, Old, New
<1>13. FramesRooted'
  <2>1. Settled(NoEnv) \subseteq Settled(NoEnv)'
    BY <1>1, <1>8 DEF Settled, Old, New
  <2> QED
    BY <1>1, <2>1, AtFrame DEF FramesRooted, Depth
<1>14. UnescapedOnce'
  <2>1. \A h \in Goroutines : \A i \in 1..Depth(h) : frames[h][i].env \in Envs
    BY FrameFacts DEF TypeInv
  <2> SUFFICES ASSUME NEW h \in Goroutines, NEW k \in Goroutines,
                      NEW i \in 1..Depth(h), NEW j \in 1..Depth(k),
                      frames[h][i].env = frames[k][j].env, ~escaped'[frames[h][i].env]
               PROVE  h = k /\ i = j
    BY <1>1 DEF UnescapedOnce, Depth
  <2>2. ~escaped[frames[h][i].env]
    BY <1>1, <1>3, <2>1
  <2> QED
    BY <2>2, OnceAt
<1>15. FramesSettling'
  <2> SUFFICES ASSUME NEW h \in Goroutines, NEW i \in 1..Depth(h),
                      escaped'[frames[h][i].env]
               PROVE  LET y == frames[h][i].env
                      IN  \/ y \in New(NoEnv)
                          \/ /\ y \in New(walk'[h].at)
                             /\ \A k \in i..Depth(h) : frames[h][k].env # walk'[h].at
    BY <1>1 DEF FramesSettling, Depth, Settled, New
  <2> DEFINE y == frames[h][i].env
  <2>0. y \in Envs /\ i \in Nat /\ Depth(h) \in Nat
    BY FrameFacts DEF TypeInv
  <2>1. y = p => h = g /\ i = n
    BY <1>1, <1>5 DEF ScopeInv, UnescapedOnce
  <2>2. CASE h # g
    <3>1. escaped[y]
      BY <1>3, <2>0, <2>1, <2>2
    <3>2. \/ y \in Old(NoEnv)
          \/ /\ y \in Old(walk[h].at)
             /\ \A k \in i..Depth(h) : frames[h][k].env # walk[h].at
      BY <3>1, AtFrame DEF Settled, Old
    <3>3. Old(walk[h].at) \subseteq New(walk[h].at)
      BY <1>4
    <3> QED
      BY <1>2, <1>8, <2>2, <3>2, <3>3
  <2>3. CASE h = g
    <3>1. y \in New(NoEnv) \/ (y \in New(q) /\ i >= n)
      <4>1. CASE i = n
        BY <1>5, <1>7, <2>0, <2>3, <4>1
      <4>2. CASE i # n
        <5>1. escaped[y]
          BY <1>3, <2>0, <2>1, <4>2
        <5>2. \/ y \in Old(NoEnv)
              \/ y \in Old(p) /\ \A k \in i..Depth(g) : frames[g][k].env # p
          BY <2>3, <5>1, AtFrame DEF Settled, Old
        <5>3. (\A k \in i..Depth(g) : frames[g][k].env # p) => i >= n
          BY <1>5, <2>0
        <5> QED
          BY <1>7, <1>8, <5>2, <5>3
      <4> QED
        BY <4>1, <4>2
    <3>2. CASE q \in New(NoEnv) \cup {NoEnv}
      BY <1>9, <3>1, <3>2
    <3>3. CASE n > 1 /\ q = frames[g][n - 1].env /\ ~escaped'[q] /\ q # p
      <4>1. \A k \in n..Depth(g) : frames[g][k].env # q
        <5> SUFFICES ASSUME NEW k \in n..Depth(g), frames[g][k].env = q PROVE FALSE
          OBVIOUS
        <5>1. n - 1 \in 1..Depth(g) /\ k \in 1..Depth(g) /\ k # n - 1
          BY <2>0, <2>3, <3>3
        <5>2. q \in Envs
          BY <3>3, <5>1, FrameFacts DEF TypeInv
        <5>3. ~escaped[q]
          BY <1>3, <3>3, <5>2
        <5> QED
          BY <3>3, <5>1, <5>3 DEF ScopeInv, UnescapedOnce
      <4> QED
        BY <1>2, <2>0, <2>3, <3>1, <4>1
    <3> QED
      BY <1>10, <3>2, <3>3
  <2> QED
    BY <2>2, <2>3
<1>16. WalkPlace'
  <2> SUFFICES ASSUME NEW h \in Goroutines, walk'[h] # NoWalk
               PROVE  /\ Top(h).env = walk'[h].at \/ escaped'[Top(h).env]
                      /\ \/ walk'[h].at = NoEnv
                         \/ walk'[h].at \in New(NoEnv)
                         \/ ~escaped'[walk'[h].at] /\ walk'[h].at \in RunIn(h)
    BY <1>1 DEF WalkPlace, Settled, New, Top, RunIn, Depth
  <2>1. \A k \in Goroutines : \A y \in RunIn(k) : y \in Envs /\ (y = p => k = g)
    BY <1>1, <1>5, FrameFacts DEF RunIn, TypeInv, ScopeInv, UnescapedOnce
  <2>2. \A k \in Goroutines : walk[k] # NoWalk => Top(k).env \in Envs
    BY TopFacts DEF TypeInv, WalkInside, Frame
  <2>3. CASE h = g
    <3>1. Top(g).env = p \/ escaped[Top(g).env]
      BY <1>1, AtWalk
    <3>2. escaped'[Top(g).env]
      BY <1>1, <1>3, <2>2, <3>1
    <3>3. n > 1 => frames[g][n - 1].env \in RunIn(g)
      BY FramesOf DEF RunIn, TypeInv
    <3> QED
      BY <1>2, <1>10, <2>3, <3>2, <3>3
  <2>4. CASE h # g
    <3>1. /\ Top(h).env = walk[h].at \/ escaped[Top(h).env]
          /\ \/ walk[h].at = NoEnv
             \/ walk[h].at \in Old(NoEnv)
             \/ ~escaped[walk[h].at] /\ walk[h].at \in RunIn(h)
      BY <1>2, <2>4, AtWalk DEF Settled, Old
    <3>2. walk'[h] = walk[h] /\ Top(h).env \in Envs
      BY <1>2, <2>2, <2>4
    <3> QED
      BY <1>3, <1>8, <2>1, <2>4, <3>1, <3>2
  <2> QED
    BY <2>3, <2>4
<1> QED
  BY <1>11, <1>12, <1>13, <1>14, <1>15, <1>16 DEF ScopeInv

(* When marking stops, the frame it started from is settled. *)
LEMMA MarkedSettled ==
    ASSUME TypeInv, ScopeInv, NEW g \in Goroutines, MarkStops(g)
    PROVE  /\ frames[g] # <<>> /\ Top(g).env \in Settled(NoEnv)
           /\ walk'[g] = NoWalk /\ \A h \in Goroutines \ {g} : walk'[h] = walk[h]
<1>1. /\ frames[g] # <<>> /\ walk[g] # NoWalk
      /\ walk'[g] = NoWalk /\ \A h \in Goroutines \ {g} : walk'[h] = walk[h]
  BY MarkStopsFacts DEF MarkStops
<1>2. Top(g) = frames[g][Depth(g)] /\ Depth(g) \in 1..Depth(g) /\ Top(g).env \in Envs
  BY <1>1, TopFacts, FrameFacts DEF TypeInv
<1>3. walk[g].at = NoEnv \/ walk[g].at \in Settled(NoEnv)
  BY <1>1, AtWalk DEF MarkStops
<1>4. Settled(walk[g].at) \subseteq Settled(NoEnv)
  BY <1>3, SettledAt DEF Settled
<1>5. CASE escaped[Top(g).env]
  BY <1>1, <1>2, <1>4, <1>5, AtFrame
<1>6. CASE Top(g).env = walk[g].at
  BY <1>1, <1>2, <1>3, <1>6, EnvsAssumption
<1> QED
  BY <1>1, <1>5, <1>6, AtWalk

LEMMA MakeFunctionKeeps ==
    ASSUME TypeInv, ScopeInv, NEW g \in Goroutines, MakeFunction(g)
    PROVE  ScopeInv'
<1>1. /\ frames[g] # <<>> /\ Top(g).env \in Settled(NoEnv)
      /\ walk'[g] = NoWalk /\ \A h \in Goroutines \ {g} : walk'[h] = walk[h]
  BY MarkedSettled DEF MakeFunction
<1>2. UNCHANGED <<live, parent, escaped, frames, defers>>
  BY DEF MakeFunction, envVars, interpVars
<1>3. Shape' /\ FramesRooted' /\ UnescapedOnce'
  <2>1. Settled(NoEnv)' = Settled(NoEnv)
    BY <1>2 DEF Settled
  <2>2. Shape'
    BY <1>2 DEF ScopeInv, Shape, Depth
  <2>3. FramesRooted'
    BY <1>2, <2>1 DEF ScopeInv, FramesRooted, Depth
  <2>4. UnescapedOnce'
    BY <1>2 DEF ScopeInv, UnescapedOnce, Depth
  <2> QED
    BY <2>2, <2>3, <2>4
<1>4. FunctionsSettled'
  <2>1. Settled(NoEnv)' = Settled(NoEnv)
    BY <1>2 DEF Settled
  <2>2. \A f \in fns' : f \in fns \/ f.env = Top(g).env
    BY DEF MakeFunction
  <2> QED
    BY <1>1, <2>1, <2>2 DEF ScopeInv, FunctionsSettled
<1>5. FramesSettling'
  <2> SUFFICES ASSUME NEW h \in Goroutines, NEW i \in 1..Depth(h),
                      escaped[frames[h][i].env]
               PROVE  LET y == frames[h][i].env
                      IN  \/ y \in Settled(NoEnv)
                          \/ /\ y \in SettledIn(live, parent, escaped, walk'[h].at)
                             /\ \A k \in i..Depth(h) : frames[h][k].env # walk'[h].at
    BY <1>2 DEF FramesSettling, Depth, Settled
  <2>1. CASE h = g
    <3>1. walk[g].at = NoEnv \/ walk[g].at \in Settled(NoEnv)
      BY AtWalk DEF MakeFunction, MarkStops
    <3>2. Settled(walk[g].at) \subseteq Settled(NoEnv)
      BY <3>1, SettledAt DEF Settled
    <3> QED
      BY <2>1, <3>2, AtFrame
  <2>2. CASE h # g
    BY <1>1, <2>2, AtFrame DEF Settled
  <2> QED
    BY <2>1, <2>2
<1>6. WalkPlace'
  <2> SUFFICES ASSUME NEW h \in Goroutines, walk'[h] # NoWalk
               PROVE  /\ Top(h).env = walk'[h].at \/ escaped[Top(h).env]
                      /\ \/ walk'[h].at = NoEnv
                         \/ walk'[h].at \in Settled(NoEnv)
                         \/ ~escaped[walk'[h].at] /\ walk'[h].at \in RunIn(h)
    BY <1>2 DEF WalkPlace, Settled, Top, RunIn, Depth
  <2> QED
    BY <1>1, AtWalk
<1> QED
  BY <1>3, <1>4, <1>5, <1>6 DEF ScopeInv

(* The new goroutine starts in a settled frame. *)
LEMMA SpawnKeeps ==
    ASSUME TypeInv, ScopeInv, NEW g \in Goroutines, NEW h \in Goroutines, Spawn(g, h)
    PROVE  ScopeInv'
<1>1. /\ frames[g] # <<>> /\ Top(g).env \in Settled(NoEnv)
      /\ walk'[g] = NoWalk /\ \A k \in Goroutines \ {g} : walk'[k] = walk[k]
  BY MarkedSettled DEF Spawn
<1>2. UNCHANGED <<live, parent, escaped, fns, defers>> /\ frames[h] = <<>> /\ h # g
  BY <1>1 DEF Spawn, envVars, interpVars
<1> DEFINE f == NewFrame("base", 0, Top(g).env)
<1>3. /\ frames'[h] = <<f>> /\ \A k \in Goroutines \ {h} : frames'[k] = frames[k]
  BY DEF Spawn, TypeInv, TypeOK
<1>4. /\ f.kind = "base" /\ f.env = Top(g).env /\ f.phase # "select"
      /\ f.saved = <<>> /\ f.todo = <<>>
  BY DEF NewFrame
<1> HIDE DEF f
<1>5. Top(g).env \in live /\ escaped[Top(g).env]
  BY <1>1, SettledClosed
<1>6. ASSUME NEW k \in Goroutines, NEW i \in 1..Len(frames'[k])
      PROVE  \/ k = h /\ i = 1 /\ frames'[k][i] = f
             \/ k # h /\ i \in 1..Depth(k) /\ frames'[k] = frames[k]
  <2>1. CASE k = h
    <3>1. frames'[h] = <<f>> /\ Len(<<f>>) = 1 /\ <<f>>[1] = f
      BY <1>3
    <3>2. i \in 1..1
      BY <1>6, <2>1, <3>1, Zenon
    <3> QED
      BY <2>1, <3>1, <3>2
  <2>2. CASE k # h
    BY <1>3, <1>6, <2>2 DEF Depth
  <2> QED
    BY <2>1, <2>2
<1>7. Shape'
  <2> SUFFICES ASSUME NEW k \in Goroutines, NEW i \in 1..Len(frames'[k])
               PROVE  /\ frames'[k][i].kind \in {"base", "fn", "new", "block", "scope"}
                      /\ frames'[k][i].phase # "select"
                      /\ frames'[k][i].saved = <<>> /\ frames'[k][i].todo = <<>>
    BY <1>2 DEF Shape, Depth, ScopeInv
  <2> QED
    BY <1>4, <1>6, AtFrame
<1>8. FunctionsSettled'
  BY <1>2 DEF ScopeInv, FunctionsSettled, Settled
<1>9. FramesRooted'
  <2>1. \A x : Settled(x)' = Settled(x)
    BY <1>2 DEF Settled
  <2> SUFFICES ASSUME NEW k \in Goroutines, NEW i \in 1..Len(frames'[k])
               PROVE  LET x == frames'[k][i]
                      IN  /\ x.env \in live
                          /\ x.kind = "base" => x.env \in Settled(NoEnv)
                          /\ x.kind \in {"fn", "new"} => parent[x.env] \in Settled(NoEnv)
                          /\ x.kind \in {"block", "scope"} =>
                               i > 1 /\ parent[x.env] = frames'[k][i - 1].env
    BY <1>2, <2>1 DEF FramesRooted, Depth
  <2> QED
    BY <1>1, <1>4, <1>5, <1>6, AtFrame
<1>10. UnescapedOnce'
  <2> SUFFICES ASSUME NEW k \in Goroutines, NEW m \in Goroutines,
                      NEW i \in 1..Len(frames'[k]), NEW j \in 1..Len(frames'[m]),
                      frames'[k][i].env = frames'[m][j].env, ~escaped[frames'[k][i].env]
               PROVE  k = m /\ i = j
    BY <1>2 DEF UnescapedOnce, Depth
  <2>1. k # h /\ m # h
    <3>1. ~(k = h)
      BY <1>4, <1>5, <1>6
    <3>2. ~(m = h)
      BY <1>4, <1>5, <1>6
    <3> QED
      BY <3>1, <3>2
  <2>2. frames'[k] = frames[k] /\ i \in 1..Depth(k)
    BY <1>6, <2>1
  <2>3. frames'[m] = frames[m] /\ j \in 1..Depth(m)
    BY <1>6, <2>1
  <2>4. frames[k][i].env = frames[m][j].env /\ ~escaped[frames[k][i].env]
    BY <2>2, <2>3
  <2>5. frames[k][i].env = frames[m][j].env /\ ~escaped[frames[k][i].env]
        => k = m /\ i = j
    <3>1. i \in 1..Depth(k) /\ j \in 1..Depth(m)
      BY <2>2, <2>3
    <3>2. UnescapedOnce
      BY DEF ScopeInv
    <3> QED
      BY <3>1, <3>2 DEF UnescapedOnce
  <2> QED
    BY <2>4, <2>5
<1>11. FramesSettling'
  <2> SUFFICES ASSUME NEW k \in Goroutines, NEW i \in 1..Len(frames'[k]),
                      escaped[frames'[k][i].env]
               PROVE  LET y == frames'[k][i].env
                      IN  \/ y \in Settled(NoEnv)
                          \/ /\ y \in SettledIn(live, parent, escaped, walk'[k].at)
                             /\ \A j \in i..Len(frames'[k]) : frames'[k][j].env # walk'[k].at
    BY <1>2 DEF FramesSettling, Depth, Settled
  <2>1. CASE k = h
    BY <1>1, <1>4, <1>6, <2>1
  <2>2. CASE k = g
    <3>1. walk[g].at = NoEnv \/ walk[g].at \in Settled(NoEnv)
      BY AtWalk DEF Spawn, MarkStops
    <3>2. Settled(walk[g].at) \subseteq Settled(NoEnv)
      BY <3>1, SettledAt DEF Settled
    <3> QED
      BY <1>2, <1>6, <2>2, <3>2, AtFrame
  <2>3. CASE k # h /\ k # g
    <3>1. /\ frames'[k] = frames[k] /\ Len(frames'[k]) = Depth(k)
          /\ i \in 1..Depth(k) /\ walk'[k] = walk[k]
      BY <1>1, <1>6, <2>3 DEF Depth
    <3>2. \/ frames[k][i].env \in Settled(NoEnv)
          \/ /\ frames[k][i].env \in Settled(walk[k].at)
             /\ \A j \in i..Depth(k) : frames[k][j].env # walk[k].at
      BY <3>1, AtFrame
    <3> QED
      BY <3>1, <3>2 DEF Settled
  <2> QED
    BY <2>1, <2>2, <2>3
<1>12. WalkPlace'
  <2> SUFFICES ASSUME NEW k \in Goroutines, walk'[k] # NoWalk
               PROVE  /\ Top(k)'.env = walk'[k].at \/ escaped[Top(k)'.env]
                      /\ \/ walk'[k].at = NoEnv
                         \/ walk'[k].at \in Settled(NoEnv)
                         \/ ~escaped[walk'[k].at] /\ walk'[k].at \in RunIn(k)'
    BY <1>2 DEF WalkPlace, Settled
  <2>1. k # g /\ walk'[k] = walk[k]
    BY <1>1
  <2>2. k # h
    BY <1>2, <2>1 DEF TypeInv, WalkInside
  <2>3. Top(k)' = Top(k) /\ RunIn(k)' = RunIn(k)
    BY <1>3, <2>2 DEF Top, RunIn, Depth
  <2> QED
    BY <2>1, <2>3, AtWalk
<1> QED
  BY <1>7, <1>8, <1>9, <1>10, <1>11, <1>12 DEF ScopeInv

(* The collector takes an Environment that nothing reaches: what is settled *)
(* without it stays settled. *)
LEMMA CollectKeeps ==
    ASSUME TypeInv, ScopeInv, NEW e \in Envs, Collect(e)
    PROVE  ScopeInv'
<1> DEFINE Old(x) == SettledIn(live, parent, escaped, x)
           New(x) == SettledIn(live', parent', escaped, x)
<1>1. /\ live' = live \ {e} /\ \A y \in Envs \ {e} : parent'[y] = parent[y]
      /\ \A c \in live : parent[c] # e
      /\ UNCHANGED <<escaped, frames, walk, defers>>
  BY DEF Collect, TypeInv, TypeOK, interpVars
<1>2. \A x : Old(x) \ {e} \subseteq New(x)
  <2> SUFFICES ASSUME NEW x PROVE Old(x) \ {e} \subseteq New(x)
    BY Zenon
  <2> DEFINE S == Old(x) \ {e}
  <2>1. ASSUME NEW y \in Old(x)
        PROVE  y \in Envs /\ y \in live /\ escaped[y] /\ parent[y] \in Old(x) \cup {NoEnv, x}
    BY <2>1, SettledFacts, Zenon
  <2>2. S \in SUBSET Envs
    BY <2>1
  <2>3. SettledSet(S, live', parent', escaped, x)
    <3> SUFFICES ASSUME NEW y \in S
                 PROVE  y \in live' /\ escaped[y] /\ parent'[y] \in S \cup {NoEnv, x}
      BY DEF SettledSet
    <3> HIDE DEF Old
    <3>1. y \in Envs /\ y \in live /\ escaped[y] /\ parent[y] \in Old(x) \cup {NoEnv, x}
      BY <2>1
    <3> QED
      BY <1>1, <3>1
  <2> QED
    BY <2>2, <2>3, SettledMax
<1> HIDE DEF Old, New
<1>3. ASSUME NEW g \in Goroutines, NEW i \in 1..Depth(g)
      PROVE  /\ frames[g][i].env \in Envs \ {e}
             /\ parent'[frames[g][i].env] = parent[frames[g][i].env]
             /\ parent[frames[g][i].env] # e
  <2>1. frames[g][i].env \in Envs /\ frames[g][i].env \in live
    BY FrameFacts, AtFrame DEF TypeInv
  <2>2. frames[g][i].env # e
    BY DEF Collect, InFrame
  <2> QED
    BY <1>1, <2>1, <2>2
<1>4. Shape'
  BY <1>1 DEF ScopeInv, Shape, Depth
<1>5. FunctionsSettled'
  <2>1. \A f \in fns' : f \in fns /\ f.env # e
    BY DEF Collect
  <2>2. \A f \in fns' : f.env \in New(NoEnv)
    BY <1>2, <2>1 DEF ScopeInv, FunctionsSettled, Settled, Old
  <2> QED
    BY <1>1, <2>2 DEF FunctionsSettled, Settled, New
<1>6. FramesRooted'
  <2> SUFFICES ASSUME NEW g \in Goroutines, NEW i \in 1..Depth(g)
               PROVE  LET f == frames[g][i]
                      IN  /\ f.env \in live'
                          /\ f.kind = "base" => f.env \in New(NoEnv)
                          /\ f.kind \in {"fn", "new"} => parent'[f.env] \in New(NoEnv)
                          /\ f.kind \in {"block", "scope"} =>
                               i > 1 /\ parent'[f.env] = frames[g][i - 1].env
    BY <1>1 DEF FramesRooted, Depth, Settled, New
  <2>1. Settled(NoEnv) \ {e} \subseteq New(NoEnv)
    BY <1>2 DEF Settled, Old
  <2> QED
    BY <1>1, <1>3, <2>1, AtFrame
<1>7. UnescapedOnce'
  BY <1>1 DEF ScopeInv, UnescapedOnce, Depth
<1>8. FramesSettling'
  <2> SUFFICES ASSUME NEW g \in Goroutines, NEW i \in 1..Depth(g),
                      escaped[frames[g][i].env]
               PROVE  LET y == frames[g][i].env
                      IN  \/ y \in New(NoEnv)
                          \/ /\ y \in New(walk[g].at)
                             /\ \A k \in i..Depth(g) : frames[g][k].env # walk[g].at
    BY <1>1 DEF FramesSettling, Depth, Settled, New
  <2>1. \/ frames[g][i].env \in Old(NoEnv)
        \/ /\ frames[g][i].env \in Old(walk[g].at)
           /\ \A k \in i..Depth(g) : frames[g][k].env # walk[g].at
    <3>1. \/ frames[g][i].env \in Settled(NoEnv)
          \/ /\ frames[g][i].env \in Settled(walk[g].at)
             /\ \A k \in i..Depth(g) : frames[g][k].env # walk[g].at
      BY AtFrame, Zenon
    <3> QED
      BY <3>1 DEF Settled, Old
  <2>2. Old(NoEnv) \ {e} \subseteq New(NoEnv) /\ Old(walk[g].at) \ {e} \subseteq New(walk[g].at)
    BY <1>2
  <2> QED
    BY <1>3, <2>1, <2>2
<1>9. WalkPlace'
  <2> SUFFICES ASSUME NEW g \in Goroutines, walk[g] # NoWalk
               PROVE  /\ Top(g).env = walk[g].at \/ escaped[Top(g).env]
                      /\ \/ walk[g].at = NoEnv
                         \/ walk[g].at \in New(NoEnv)
                         \/ ~escaped[walk[g].at] /\ walk[g].at \in RunIn(g)
    BY <1>1 DEF WalkPlace, Settled, New, Top, RunIn, Depth
  <2>1. walk[g].at # e
    BY DEF Collect
  <2>2. Settled(NoEnv) \ {e} \subseteq New(NoEnv)
    BY <1>2 DEF Settled, Old
  <2>3. /\ Top(g).env = walk[g].at \/ escaped[Top(g).env]
        /\ \/ walk[g].at = NoEnv
           \/ walk[g].at \in Settled(NoEnv)
           \/ ~escaped[walk[g].at] /\ walk[g].at \in RunIn(g)
    BY AtWalk
  <2> QED
    BY <2>1, <2>2, <2>3
<1> QED
  BY <1>4, <1>5, <1>6, <1>7, <1>8, <1>9 DEF ScopeInv

(* The steps that shrink or rewrite the stack of one goroutine. *)
LEMMA ReleaseFreed ==
    ASSUME TypeOK, NEW e \in Envs, ReleaseEnvironment(e)
    PROVE  \E freed \in SUBSET {e} :
              /\ \A y \in freed : ~escaped[y]
              /\ live' = live \ freed
              /\ parent' = [y \in Envs |-> IF y \in freed THEN NoEnv ELSE parent[y]]
              /\ escaped' = escaped
<1>1. CASE escaped[e]
  <2>1. UNCHANGED <<live, parent, escaped>>
    BY <1>1 DEF ReleaseEnvironment, envVars
  <2>2. parent' = [y \in Envs |-> IF y \in {} THEN NoEnv ELSE parent[y]]
    BY <2>1 DEF TypeOK
  <2> WITNESS {} \in SUBSET {e}
  <2> QED
    BY <2>1, <2>2
<1>2. CASE ~escaped[e]
  <2>1. parent' = [y \in Envs |-> IF y \in {e} THEN NoEnv ELSE parent[y]]
    BY <1>2 DEF ReleaseEnvironment, TypeOK
  <2> WITNESS {e} \in SUBSET {e}
  <2> QED
    BY <1>2, <2>1 DEF ReleaseEnvironment
<1> QED
  BY <1>1, <1>2

LEMMA PopKeeps ==
    ASSUME TypeInv, ScopeInv, NEW g \in Goroutines, frames[g] # <<>>, walk[g] = NoWalk,
           UNCHANGED envVars \/ ReleaseEnvironment(Top(g).env), Pop(g),
           UNCHANGED <<fns, walk>>, defers' = <<>>
    PROVE  ScopeInv'
<1>1. /\ Depth(g) \in Nat \ {0} /\ Top(g) = frames[g][Depth(g)]
      /\ Top(g).env \in Envs
      /\ Len(frames'[g]) = Depth(g) - 1
      /\ \A i \in 1..(Depth(g) - 1) : frames'[g][i] = frames[g][i]
      /\ \A h \in Goroutines \ {g} : frames'[h] = frames[h]
  <2>1. TypeOK
    BY DEF TypeInv
  <2>2. frames'[g] = Front(frames[g]) /\ \A h \in Goroutines \ {g} : frames'[h] = frames[h]
    BY <2>1, PopType
  <2>3. /\ Depth(g) \in Nat \ {0} /\ Top(g) = frames[g][Depth(g)] /\ Top(g) \in Frame
        /\ Len(Front(frames[g])) = Depth(g) - 1
        /\ \A i \in 1..(Depth(g) - 1) : Front(frames[g])[i] = frames[g][i]
    BY <2>1, TopFacts
  <2>4. Top(g).env \in Envs
    BY <2>3 DEF Frame
  <2> QED
    BY <2>2, <2>3, <2>4
<1>2. PICK freed \in SUBSET {Top(g).env} :
         /\ \A y \in freed : ~escaped[y]
         /\ live' = live \ freed
         /\ parent' = [y \in Envs |-> IF y \in freed THEN NoEnv ELSE parent[y]]
         /\ escaped' = escaped
  <2>1. CASE UNCHANGED envVars
    <3>1. parent' = [y \in Envs |-> IF y \in {} THEN NoEnv ELSE parent[y]]
      BY <2>1 DEF envVars, TypeInv, TypeOK
    <3> WITNESS {} \in SUBSET {Top(g).env}
    <3> QED
      BY <2>1, <3>1 DEF envVars
  <2>2. CASE ReleaseEnvironment(Top(g).env)
    BY <1>1, <2>2, ReleaseFreed DEF TypeInv
  <2> QED
    BY <2>1, <2>2
<1> DEFINE n == Depth(g) - 1
<1>3. n \in 0..Depth(g) /\ Depth(g) \in (n + 1)..Depth(g)
  BY <1>1
<1>4. \A y \in freed : ~escaped[y] /\ \E i \in (n + 1)..Depth(g) : frames[g][i].env = y
  BY <1>1, <1>2, <1>3
<1>5. \A i \in 1..n :
         /\ frames'[g][i].env = frames[g][i].env
         /\ frames'[g][i].kind = frames[g][i].kind
         /\ frames'[g][i].phase # "select"
         /\ frames'[g][i].saved = <<>> /\ frames'[g][i].todo = <<>>
  <2> TAKE i \in 1..n
  <2>1. i \in 1..Depth(g)
    BY <1>1
  <2> QED
    BY <1>1, <2>1, AtFrame
<1>6. freed \in SUBSET Envs /\ escaped' = escaped /\ fns' = fns /\ walk' = walk
  BY <1>1, <1>2
<1>7. Len(frames'[g]) = n
  BY <1>1
<1> HIDE DEF n
<1>8. Shrinks(g, n, freed)
  BY <1>1, <1>2, <1>4, <1>5, <1>6, <1>7 DEF Shrinks
<1> QED
  BY <1>3, <1>6, <1>8, ShrinkKeeps

(* The top frame goes on to another phase. *)
LEMMA RewriteKeeps ==
    ASSUME TypeInv, ScopeInv, NEW g \in Goroutines, frames[g] # <<>>, walk[g] = NoWalk,
           NEW f \in Frame, f.env = Top(g).env, f.kind = Top(g).kind,
           f.phase # "select", f.saved = <<>>, f.todo = <<>>,
           frames' = [frames EXCEPT ![g] = [frames[g] EXCEPT ![Depth(g)] = f]],
           UNCHANGED <<envVars, fns, walk>>, defers' = <<>>
    PROVE  ScopeInv'
<1>1. /\ frames[g] \in Seq(Frame) /\ Depth(g) \in Nat \ {0}
      /\ Top(g) = frames[g][Depth(g)]
  BY TopFacts, FramesOf DEF TypeInv
<1>2. /\ frames'[g] = [frames[g] EXCEPT ![Depth(g)] = f]
      /\ \A h \in Goroutines \ {g} : frames'[h] = frames[h]
  BY DEF TypeInv, TypeOK
<1>3. /\ Len(frames'[g]) = Depth(g)
      /\ \A i \in 1..Depth(g) : frames'[g][i] = IF i = Depth(g) THEN f ELSE frames[g][i]
  BY <1>1, <1>2, ExceptSeq DEF Depth
<1>4. \A i \in 1..Depth(g) : /\ frames'[g][i].env = frames[g][i].env
                             /\ frames'[g][i].kind = frames[g][i].kind
                             /\ frames'[g][i].phase # "select"
                             /\ frames'[g][i].saved = <<>> /\ frames'[g][i].todo = <<>>
  BY <1>1, <1>3, AtFrame
<1>5. /\ live' = live \ {} /\ escaped' = escaped /\ fns' = fns /\ walk' = walk
      /\ parent' = [y \in Envs |-> IF y \in {} THEN NoEnv ELSE parent[y]]
  BY DEF envVars, TypeInv, TypeOK
<1>6. Depth(g) \in 0..Depth(g) /\ {} \in SUBSET Envs
  BY <1>1
<1>7. Shrinks(g, Depth(g), {})
  BY <1>2, <1>3, <1>4, <1>5 DEF Shrinks
<1> QED
  BY <1>6, <1>7, ShrinkKeeps

(* A panic drops every frame of its goroutine. *)
LEMMA PanicKeeps ==
    ASSUME TypeInv, ScopeInv, NEW g \in Goroutines, Panic(g)
    PROVE  ScopeInv'
<1> DEFINE freed == {e \in {frames[g][i].env : i \in FnIndices(g)} : ~escaped[e]}
<1>1. /\ walk[g] = NoWalk /\ live' = live \ freed
      /\ parent' = [e \in Envs |-> IF e \in freed THEN NoEnv ELSE parent[e]]
      /\ UNCHANGED <<escaped, fns, walk, defers>>
  BY DEF Panic, Executing, Evaluating
<1>2. Len(frames'[g]) = 0 /\ \A h \in Goroutines \ {g} : frames'[h] = frames[h]
  BY DEF Panic, TypeInv, TypeOK
<1>3. 0 \in 0..Depth(g) /\ 0 + 1 = 1
  BY FramesOf DEF TypeInv
<1>4. freed \in SUBSET Envs
  BY FrameFacts DEF FnIndices, TypeInv
<1>5. \A e \in freed : ~escaped[e] /\ \E i \in (0 + 1)..Depth(g) : frames[g][i].env = e
  BY <1>3 DEF FnIndices
<1>6. defers' = <<>>
  BY <1>1 DEF ScopeInv, Shape
<1>7. escaped' = escaped /\ fns' = fns /\ walk' = walk
  BY <1>1
<1>8. \A i \in 1..0 : /\ frames'[g][i].env = frames[g][i].env
                     /\ frames'[g][i].kind = frames[g][i].kind
                     /\ frames'[g][i].phase # "select"
                     /\ frames'[g][i].saved = <<>> /\ frames'[g][i].todo = <<>>
  OBVIOUS
<1> HIDE DEF freed
<1>9. Shrinks(g, 0, freed)
  BY <1>1, <1>2, <1>5, <1>6, <1>7, <1>8 DEF Shrinks
<1> QED
  BY <1>1, <1>3, <1>4, <1>9, ShrinkKeeps

LEMMA CallKeeps ==
    ASSUME TypeInv, ScopeInv, NEW g \in Goroutines, NEW f \in fns, Call(g, f)
    PROVE  ScopeInv'
<1>1. f.env \in Settled(NoEnv) /\ f.env \in Envs /\ f.file \in Files \cup {NoFile}
  BY DEF TypeInv, TypeOK, Function, ScopeInv, FunctionsSettled
<1>2. walk[g] = NoWalk /\ defers = <<>> /\ filename \in Files /\ Depth(g) + 1 \in Nat
  BY FramesOf DEF Call, Evaluating, ScopeInv, Shape, TypeInv, TypeOK
<1>3. PICK e \in Envs :
         /\ NewEnvironment(e, f.env)
         /\ Push(g, [NewFrame("fn", Depth(g) + 1, e) EXCEPT
                       !.file = f.file,
                       !.prev = IF f.file = NoFile THEN NoFile ELSE filename,
                       !.saved = defers,
                       !.phase = "bind"])
  BY DEF Call
<1> DEFINE x == [NewFrame("fn", Depth(g) + 1, e) EXCEPT
                   !.file = f.file,
                   !.prev = IF f.file = NoFile THEN NoFile ELSE filename,
                   !.saved = defers,
                   !.phase = "bind"]
<1>4. NewFrame("fn", Depth(g) + 1, e) \in Frame
  BY <1>2, NewFrameType DEF FrameKinds
<1>5. x \in Frame
  BY <1>1, <1>2, <1>4 DEF Frame, Phases, TypeInv, TypeOK
<1>6. x.env = e /\ x.kind \in {"fn", "new"} /\ x.phase # "select" /\ x.saved = <<>> /\ x.todo = <<>>
  BY <1>2 DEF NewFrame
<1>7. frames' = [frames EXCEPT ![g] = Append(frames[g], x)]
  BY <1>3 DEF Push, TypeInv, TypeOK
<1>8. UNCHANGED <<fns, walk>> /\ defers' = <<>>
  BY DEF Call
<1> HIDE DEF x
<1> QED
  BY <1>1, <1>2, <1>3, <1>5, <1>6, <1>7, <1>8, PushKeeps, Zenon

LEMMA ConstructKeeps ==
    ASSUME TypeInv, ScopeInv, NEW g \in Goroutines, NEW f \in fns, Construct(g, f)
    PROVE  ScopeInv'
<1>1. f.env \in Settled(NoEnv) /\ f.env \in Envs
  BY DEF TypeInv, TypeOK, Function, ScopeInv, FunctionsSettled
<1>2. walk[g] = NoWalk /\ defers = <<>> /\ Depth(g) + 1 \in Nat
  BY FramesOf DEF Construct, Evaluating, ScopeInv, Shape, TypeInv
<1>3. PICK e \in Envs :
         /\ NewEnvironment(e, f.env)
         /\ Push(g, [NewFrame("new", Depth(g) + 1, e) EXCEPT !.phase = "bind"])
  BY DEF Construct
<1> DEFINE x == [NewFrame("new", Depth(g) + 1, e) EXCEPT !.phase = "bind"]
<1>4. NewFrame("new", Depth(g) + 1, e) \in Frame
  BY <1>2, NewFrameType DEF FrameKinds
<1>5. x \in Frame
  BY <1>4 DEF Frame, Phases
<1>6. x.env = e /\ x.kind \in {"fn", "new"} /\ x.phase # "select" /\ x.saved = <<>> /\ x.todo = <<>>
  BY DEF NewFrame
<1>7. frames' = [frames EXCEPT ![g] = Append(frames[g], x)]
  BY <1>3 DEF Push, TypeInv, TypeOK
<1>8. UNCHANGED <<fns, walk>> /\ defers' = <<>>
  BY <1>2 DEF Construct, interpVars
<1> HIDE DEF x
<1> QED
  BY <1>1, <1>2, <1>3, <1>5, <1>6, <1>7, <1>8, PushKeeps, Zenon

LEMMA EnterKeeps ==
    ASSUME TypeInv, ScopeInv, NEW g \in Goroutines, Executing(g),
           NEW k \in {"block", "scope"}, NEW e \in Envs,
           NewEnvironment(e, Top(g).env), Push(g, NewFrame(k, Top(g).call, e)),
           UNCHANGED <<fns, walk, interpVars>>
    PROVE  ScopeInv'
<1>1. /\ frames[g] # <<>> /\ walk[g] = NoWalk
      /\ UNCHANGED <<fns, walk>> /\ defers' = <<>>
  BY DEF Executing, Evaluating, interpVars, ScopeInv, Shape
<1>2. Top(g) \in Frame
  BY <1>1, TopFacts DEF TypeInv
<1>3. Top(g).env \in Envs /\ Top(g).call \in Nat
  BY <1>2 DEF Frame
<1> DEFINE x == NewFrame(k, Top(g).call, e)
<1>4. x \in Frame
  BY <1>3, NewFrameType DEF FrameKinds
<1>5. x.env = e /\ x.kind \in {"block", "scope"} /\ x.phase # "select"
      /\ x.saved = <<>> /\ x.todo = <<>>
  BY DEF NewFrame
<1>6. frames' = [frames EXCEPT ![g] = Append(frames[g], x)]
  BY DEF Push, TypeInv, TypeOK
<1> HIDE DEF x
<1> QED
  BY <1>1, <1>3, <1>4, <1>5, <1>6, PushKeeps, Zenon

LEMMA PhaseKeeps ==
    ASSUME TypeInv, ScopeInv, NEW g \in Goroutines, ParamsBound(g) \/ BodyEnds(g)
    PROVE  ScopeInv'
<1>1. /\ frames[g] # <<>> /\ walk[g] = NoWalk
      /\ UNCHANGED <<envVars, fns, walk>> /\ defers = <<>>
  BY DEF ParamsBound, BodyEnds, Executing, Evaluating, ScopeInv, Shape
<1>2. /\ Top(g) \in Frame /\ Top(g) = frames[g][Depth(g)] /\ Depth(g) \in 1..Depth(g)
      /\ Top(g).saved = <<>> /\ Top(g).todo = <<>>
  BY <1>1, TopFacts, AtFrame DEF TypeInv
<1>3. CASE ParamsBound(g)
  <2> DEFINE x == [Top(g) EXCEPT !.phase = "body"]
  <2>1. /\ x \in Frame /\ x.env = Top(g).env /\ x.kind = Top(g).kind
        /\ x.phase # "select" /\ x.saved = <<>> /\ x.todo = <<>>
    BY <1>2 DEF Frame, Phases
  <2>2. frames' = [frames EXCEPT ![g] = [frames[g] EXCEPT ![Depth(g)] = x]]
    BY <1>2, <1>3 DEF ParamsBound, SetPhase, TypeInv, TypeOK
  <2>3. defers' = <<>>
    BY <1>1, <1>3 DEF ParamsBound, interpVars
  <2> HIDE DEF x
  <2> QED
    BY <1>1, <2>1, <2>2, <2>3, RewriteKeeps, Zenon
<1>4. CASE BodyEnds(g)
  <2> DEFINE x == [Top(g) EXCEPT !.phase = "defers", !.todo = defers]
  <2>1. /\ x \in Frame /\ x.env = Top(g).env /\ x.kind = Top(g).kind
        /\ x.phase # "select" /\ x.saved = <<>> /\ x.todo = <<>>
    BY <1>1, <1>2 DEF Frame, Phases, TypeInv, TypeOK
  <2>2. frames' = [frames EXCEPT ![g] = [frames[g] EXCEPT ![Depth(g)] = x]]
    BY <1>2, <1>4 DEF BodyEnds, TypeInv, TypeOK
  <2>3. defers' = <<>>
    BY <1>2, <1>4 DEF BodyEnds
  <2> HIDE DEF x
  <2> QED
    BY <1>1, <2>1, <2>2, <2>3, RewriteKeeps, Zenon
<1> QED
  BY <1>3, <1>4

LEMMA LeaveKeeps ==
    ASSUME TypeInv, ScopeInv, NEW g \in Goroutines,
           \/ BindFails(g) \/ Return(g) \/ Constructed(g)
           \/ LeaveBlock(g) \/ LeaveScope(g) \/ GoroutineEnds(g)
    PROVE  ScopeInv'
<1>1. frames[g] # <<>> /\ walk[g] = NoWalk
  BY NotMarking DEF BindFails, Return, Constructed, LeaveBlock, LeaveScope, GoroutineEnds,
                    Executing, Evaluating
<1>2. defers = <<>> /\ Top(g).saved = <<>>
  <2>1. Top(g) = frames[g][Depth(g)] /\ Depth(g) \in 1..Depth(g)
    BY <1>1, TopFacts DEF TypeInv
  <2> QED
    BY <2>1, AtFrame DEF ScopeInv, Shape
<1>3. /\ UNCHANGED envVars \/ ReleaseEnvironment(Top(g).env)
      /\ Pop(g) /\ UNCHANGED <<fns, walk>>
  BY DEF BindFails, Return, Constructed, LeaveBlock, LeaveScope, GoroutineEnds, LeaveCall
<1>4. defers' = <<>>
  BY <1>2 DEF BindFails, Return, Constructed, LeaveBlock, LeaveScope, GoroutineEnds, interpVars
<1> QED
  BY <1>1, <1>3, <1>4, PopKeeps

(* The steps of the other statements do not happen. *)
LEMMA OtherStatements ==
    ASSUME TypeInv, ScopeInv, Disciplined, NEW g \in Goroutines,
           \/ RunDefer(g) \/ DeferEnds(g) \/ Component(g) \/ SelectCase(g)
           \/ \E cases \in SUBSET (Goroutines \ {g}) : Select(g, cases)
           \/ \E site \in Sites : Defer(g, site)
    PROVE  FALSE
<1>1. frames[g] # <<>>
  BY DEF RunDefer, DeferEnds, Component, SelectCase, Select, Defer, Executing, Evaluating
<1>2. Top(g) = frames[g][Depth(g)] /\ Depth(g) \in 1..Depth(g)
  BY <1>1, TopFacts DEF TypeInv
<1>3. /\ Top(g).kind # "defer" /\ Top(g).phase # "select" /\ Top(g).todo = <<>>
  BY <1>2, AtFrame
<1>4. {"select", "component", "defer", "blockdefer", "nesteddefer", "newdefer"} \cap Statements = {}
  BY DEF Disciplined
<1>5. DeferKind(g) \in {"defer", "blockdefer", "nesteddefer", "newdefer"}
  BY DEF DeferKind
<1> QED
  BY <1>3, <1>4, <1>5
     DEF RunDefer, DeferEnds, Component, SelectCase, Select, Defer

LEMMA ScopeNext == Disciplined /\ TypeInv /\ ScopeInv /\ [Next]_vars => ScopeInv'
<1> SUFFICES ASSUME Disciplined, TypeInv, ScopeInv, [Next]_vars PROVE ScopeInv'
  OBVIOUS
<1>1. CASE UNCHANGED vars
  <2> USE <1>1 DEF vars
  <2>1. Settled(NoEnv)' = Settled(NoEnv)
    BY DEF Settled
  <2>2. \A g \in Goroutines : Settled(walk[g].at)' = Settled(walk[g].at)
    BY DEF Settled
  <2>3. Shape' /\ FunctionsSettled' /\ UnescapedOnce'
    BY <2>1 DEF ScopeInv, Shape, FunctionsSettled, UnescapedOnce, Depth
  <2>4. FramesRooted'
    BY <2>1 DEF ScopeInv, FramesRooted, Depth
  <2>5. FramesSettling'
    BY <2>1, <2>2 DEF ScopeInv, FramesSettling, Depth
  <2>6. WalkPlace'
    BY <2>1 DEF ScopeInv, WalkPlace, Top, RunIn, Depth
  <2> QED
    BY <2>3, <2>4, <2>5, <2>6 DEF ScopeInv
<1>2. ASSUME NEW g \in Goroutines, Step(g) PROVE ScopeInv'
  <2>1. CASE \E f \in fns : Call(g, f) \/ Construct(g, f)
    BY <2>1, CallKeeps, ConstructKeeps
  <2>2. CASE ParamsBound(g) \/ BodyEnds(g)
    BY <2>2, PhaseKeeps
  <2>3. CASE \/ BindFails(g) \/ Return(g) \/ Constructed(g)
             \/ LeaveBlock(g) \/ LeaveScope(g) \/ GoroutineEnds(g)
    BY <2>3, LeaveKeeps
  <2>4. CASE EnterBlock(g)
    BY <2>4, EnterKeeps DEF EnterBlock
  <2>5. CASE EnterScope(g)
    BY <2>5, EnterKeeps DEF EnterScope
  <2>6. CASE \E why \in {"fn", "hoist", "spawn"} : BeginMark(g, why)
    BY <2>6, BeginMarkKeeps
  <2>7. CASE MarkStep(g)
    BY <2>7, MarkStepKeeps
  <2>8. CASE MakeFunction(g) \/ \E h \in Goroutines : Spawn(g, h)
    BY <2>8, MakeFunctionKeeps, SpawnKeeps
  <2>9. CASE Panic(g)
    BY <2>9, PanicKeeps
  <2>10. CASE \/ RunDefer(g) \/ DeferEnds(g) \/ Component(g) \/ SelectCase(g)
              \/ \E cases \in SUBSET (Goroutines \ {g}) : Select(g, cases)
              \/ \E site \in Sites : Defer(g, site)
    BY <2>10, OtherStatements
  <2> QED
    BY <1>2, <2>1, <2>2, <2>3, <2>4, <2>5, <2>6, <2>7, <2>8, <2>9, <2>10 DEF Step
<1>3. CASE \E e \in Envs : Collect(e)
  BY <1>3, CollectKeeps
<1> QED
  BY <1>1, <1>2, <1>3 DEF Next

-----------------------------------------------------------------------------
(* In every disciplined program, with any number of goroutines, functions   *)
(* and frames: no scope chain that code can walk reaches a frame that went  *)
(* back to the pool; what a closure captured is escaped all the way up; and *)
(* a frame that is not escaped, which is used without a lock, is within     *)
(* reach of one goroutine only. *)
THEOREM ScopesSafe ==
    ASSUME Disciplined
    PROVE  Spec => [](NoDangling /\ CapturedEscaped /\ UnescapedPrivate)
<1>1. Init => TypeInv /\ ScopeInv
  BY TypeInit, ScopeInit
<1>2. TypeInv /\ ScopeInv /\ [Next]_vars => TypeInv' /\ ScopeInv'
  BY TypeNext, ScopeNext
<1>3. TypeInv /\ ScopeInv => NoDangling /\ CapturedEscaped /\ UnescapedPrivate
  BY ScopeInvImplies DEF TypeInv
<1> QED
  BY <1>1, <1>2, <1>3, PTL DEF Spec

(* A frame that is not escaped is used without a lock: no two goroutines    *)
(* ever reach the same one. *)
THEOREM EnvironmentsPrivate ==
    ASSUME Disciplined
    PROVE  Spec => []UnescapedPrivate
<1>1. Spec => [](NoDangling /\ CapturedEscaped /\ UnescapedPrivate)
  BY ScopesSafe
<1> QED
  BY <1>1, PTL

-----------------------------------------------------------------------------
(***************************************************************************)
(* The depth: callDepth counts the calls of the goroutines' stacks.        *)
(***************************************************************************)

FnsIn(s) == {i \in 1..Len(s) : s[i].kind = "fn"}
CallsOf(fr) == UNION {{g} \X FnsIn(fr[g]) : g \in Goroutines}

(* A goroutine's stack begins at a go statement or at the program, and only *)
(* calls have deferred bodies to run. *)
Rooted(s) ==
    /\ s # <<>> => s[1].kind \in {"base", "case"}
    /\ \A i \in 1..Len(s) : s[i].phase = "defers" => s[i].kind = "fn"

(* How many updates of callDepth can have been lost. *)
Drift == IF Goroutines = {Main} THEN 0 ELSE MaxLost

DepthInv ==
    /\ IsFiniteSet(CallsOf(frames))
    /\ \A g \in Goroutines : Rooted(frames[g])
    /\ callDepth - ActiveCalls \in (-Drift)..Drift

LEMMA ActiveAre ==
    ActiveCalls = Cardinality(CallsOf(frames)) /\ ActiveCalls' = Cardinality(CallsOf(frames'))
  BY DEF ActiveCalls, CallsOf, FnsIn, FnIndices, Depth

LEMMA CallsAre ==
    ASSUME NEW fr, NEW x
    PROVE  x \in CallsOf(fr) <=> \E g \in Goroutines : \E i \in FnsIn(fr[g]) : x = <<g, i>>
<1>1. ASSUME x \in CallsOf(fr)
      PROVE  \E g \in Goroutines : \E i \in FnsIn(fr[g]) : x = <<g, i>>
  <2>1. PICK g \in Goroutines : x \in {g} \X FnsIn(fr[g])
    BY <1>1 DEF CallsOf
  <2>2. PICK i \in FnsIn(fr[g]) : x = <<g, i>>
    BY <2>1
  <2> QED
    BY <2>2
<1>2. ASSUME NEW g \in Goroutines, NEW i \in FnsIn(fr[g]), x = <<g, i>>
      PROVE  x \in CallsOf(fr)
  <2>1. x \in {g} \X FnsIn(fr[g])
    BY <1>2
  <2> QED
    BY <2>1 DEF CallsOf
<1> QED
  BY <1>1, <1>2

LEMMA CallsSame ==
    ASSUME NEW fr, NEW to, \A g \in Goroutines : FnsIn(to[g]) = FnsIn(fr[g])
    PROVE  CallsOf(to) = CallsOf(fr)
<1>1. ASSUME NEW x PROVE x \in CallsOf(to) <=> x \in CallsOf(fr)
  <2>1. x \in CallsOf(to) <=> \E h \in Goroutines : \E i \in FnsIn(to[h]) : x = <<h, i>>
    BY CallsAre
  <2>2. x \in CallsOf(fr) <=> \E h \in Goroutines : \E i \in FnsIn(fr[h]) : x = <<h, i>>
    BY CallsAre
  <2> QED
    BY <2>1, <2>2
<1> QED
  BY <1>1

(* Only the calls of g are other ones. *)
Elsewhere(fr, to, g) == \A h \in Goroutines \ {g} : FnsIn(to[h]) = FnsIn(fr[h])

LEMMA CallsAdd ==
    ASSUME NEW fr, NEW to, NEW g \in Goroutines, NEW n, n \notin FnsIn(fr[g]),
           FnsIn(to[g]) = FnsIn(fr[g]) \cup {n},
           Elsewhere(fr, to, g)
    PROVE  CallsOf(to) = CallsOf(fr) \cup {<<g, n>>} /\ <<g, n>> \notin CallsOf(fr)
<1>1. ASSUME NEW x PROVE x \in CallsOf(to) <=> x \in CallsOf(fr) \/ x = <<g, n>>
  <2>1. x \in CallsOf(to) <=> \E h \in Goroutines : \E i \in FnsIn(to[h]) : x = <<h, i>>
    BY CallsAre
  <2>2. x \in CallsOf(fr) <=> \E h \in Goroutines : \E i \in FnsIn(fr[h]) : x = <<h, i>>
    BY CallsAre
  <2> QED
    BY <2>1, <2>2 DEF Elsewhere
<1>2. <<g, n>> \notin CallsOf(fr)
  <2>1. <<g, n>> \in CallsOf(fr) => \E h \in Goroutines : \E i \in FnsIn(fr[h]) : <<g, n>> = <<h, i>>
    BY CallsAre
  <2> QED
    BY <2>1
<1> QED
  BY <1>1, <1>2

LEMMA CallsRemove ==
    ASSUME NEW fr, NEW to, NEW g \in Goroutines, NEW K, K \subseteq FnsIn(fr[g]),
           FnsIn(to[g]) = FnsIn(fr[g]) \ K,
           Elsewhere(fr, to, g)
    PROVE  CallsOf(to) = CallsOf(fr) \ ({g} \X K) /\ {g} \X K \subseteq CallsOf(fr)
<1>1. ASSUME NEW x PROVE x \in CallsOf(to) <=> x \in CallsOf(fr) /\ x \notin {g} \X K
  <2>1. x \in CallsOf(to) <=> \E h \in Goroutines : \E i \in FnsIn(to[h]) : x = <<h, i>>
    BY CallsAre
  <2>2. x \in CallsOf(fr) <=> \E h \in Goroutines : \E i \in FnsIn(fr[h]) : x = <<h, i>>
    BY CallsAre
  <2>3. x \in {g} \X K <=> \E i \in K : x = <<g, i>>
    OBVIOUS
  <2> QED
    BY <2>1, <2>2, <2>3 DEF Elsewhere
<1>2. ASSUME NEW x \in {g} \X K PROVE x \in CallsOf(fr)
  <2>1. x \in CallsOf(fr) <=> \E h \in Goroutines : \E i \in FnsIn(fr[h]) : x = <<h, i>>
    BY CallsAre
  <2>2. \E i \in K : x = <<g, i>>
    OBVIOUS
  <2> QED
    BY <2>1, <2>2
<1> QED
  BY <1>1, <1>2

(* What a push, a pop and a rewriting do to the calls of a stack. *)
LEMMA FnsAppend ==
    ASSUME NEW s \in Seq(Frame), NEW f \in Frame, s # <<>>, Rooted(s), f.phase # "defers"
    PROVE  /\ f.kind = "fn" => FnsIn(Append(s, f)) = FnsIn(s) \cup {Len(s) + 1}
           /\ f.kind # "fn" => FnsIn(Append(s, f)) = FnsIn(s)
           /\ Len(s) + 1 \notin FnsIn(s)
           /\ Rooted(Append(s, f))
<1>1. /\ Len(s) \in Nat \ {0} /\ Len(Append(s, f)) = Len(s) + 1
      /\ Append(s, f)[Len(s) + 1] = f /\ \A i \in 1..Len(s) : Append(s, f)[i] = s[i]
  BY AppendFacts, SeqFacts
<1>2. 1..(Len(s) + 1) = 1..Len(s) \cup {Len(s) + 1} /\ Len(s) + 1 \notin 1..Len(s) /\ 1 \in 1..Len(s)
  BY <1>1
<1>3. Append(s, f)[1] = s[1]
  BY <1>1, <1>2
<1> QED
  BY <1>1, <1>2, <1>3 DEF FnsIn, Rooted

LEMMA FnsFront ==
    ASSUME NEW s \in Seq(Frame), s # <<>>, Rooted(s)
    PROVE  /\ Last(s).kind = "fn" => Len(s) \in FnsIn(s) /\ FnsIn(Front(s)) = FnsIn(s) \ {Len(s)}
           /\ Last(s).kind # "fn" => FnsIn(Front(s)) = FnsIn(s)
           /\ Rooted(Front(s))
<1>1. /\ Len(s) \in Nat \ {0} /\ Last(s) = s[Len(s)]
      /\ Front(s) \in Seq(Frame) /\ Len(Front(s)) = Len(s) - 1
      /\ \A i \in 1..(Len(s) - 1) : Front(s)[i] = s[i]
  BY SeqFacts
<1>2. 1..Len(s) = 1..(Len(s) - 1) \cup {Len(s)} /\ Len(s) \notin 1..(Len(s) - 1)
  BY <1>1
<1>3. Rooted(Front(s))
  <2>1. SUFFICES ASSUME Front(s) # <<>> PROVE Front(s)[1] = s[1]
    BY <1>1, <1>2, <2>1 DEF Rooted
  <2>2. Len(s) - 1 # 0
    BY <1>1, <2>1, EmptySeq
  <2>3. 1 \in 1..(Len(s) - 1)
    BY <1>1, <2>2
  <2> QED
    BY <1>1, <2>3
<1> QED
  BY <1>1, <1>2, <1>3 DEF FnsIn

LEMMA FnsAlike ==
    ASSUME NEW s \in Seq(Frame), NEW t \in Seq(Frame), Len(t) = Len(s), Rooted(s),
           \A i \in 1..Len(s) : t[i].kind = s[i].kind /\ (t[i].phase = "defers" => t[i].kind = "fn")
    PROVE  FnsIn(t) = FnsIn(s) /\ Rooted(t)
<1>1. FnsIn(t) = FnsIn(s)
  BY DEF FnsIn
<1>2. ASSUME t # <<>> PROVE s # <<>> /\ 1 \in 1..Len(s)
  BY <1>2, EmptySeq
<1> QED
  BY <1>1, <1>2 DEF Rooted

LEMMA TopRewritten ==
    ASSUME NEW s \in Seq(Frame), s # <<>>, Rooted(s), NEW x \in Frame,
           x.kind = Last(s).kind, x.phase = "defers" => x.kind = "fn"
    PROVE  /\ [s EXCEPT ![Len(s)] = x] \in Seq(Frame)
           /\ [s EXCEPT ![Len(s)] = x] # <<>>
           /\ Len([s EXCEPT ![Len(s)] = x]) = Len(s)
           /\ FnsIn([s EXCEPT ![Len(s)] = x]) = FnsIn(s)
           /\ Rooted([s EXCEPT ![Len(s)] = x])
<1> DEFINE t == [s EXCEPT ![Len(s)] = x]
<1>1. Len(s) \in Nat \ {0} /\ Last(s) = s[Len(s)] /\ Len(s) \in 1..Len(s)
  <2>1. Len(s) \in Nat \ {0} /\ Last(s) = s[Len(s)]
    BY SeqFacts
  <2> QED
    BY <2>1
<1>2. t \in Seq(Frame) /\ Len(t) = Len(s)
  BY <1>1, ExceptSeq
<1>3. \A i \in 1..Len(s) : t[i] = IF i = Len(s) THEN x ELSE s[i]
  <2>1. DOMAIN s = 1..Len(s)
    OBVIOUS
  <2> QED
    BY <1>1, <2>1
<1> HIDE DEF t
<1>4. \A i \in 1..Len(s) : s[i].phase = "defers" => s[i].kind = "fn"
  BY DEF Rooted
<1>5. \A i \in 1..Len(s) : t[i].kind = s[i].kind /\ (t[i].phase = "defers" => t[i].kind = "fn")
  BY <1>1, <1>3, <1>4
<1>6. FnsIn(t) = FnsIn(s) /\ Rooted(t)
  BY <1>2, <1>5, FnsAlike
<1>7. t # <<>>
  BY <1>1, <1>2
<1> QED
  BY <1>2, <1>6, <1>7 DEF t

LEMMA EmptyRooted == FnsIn(<<>>) = {} /\ Rooted(<<>>)
  BY DEF FnsIn, Rooted

(* A step that changes neither the calls of a stack nor the depth. *)
LEMMA QuietStep ==
    ASSUME DepthInv, callDepth' = callDepth,
           \A h \in Goroutines : FnsIn(frames'[h]) = FnsIn(frames[h]) /\ Rooted(frames'[h])
    PROVE  DepthInv'
<1>1. CallsOf(frames') = CallsOf(frames)
  BY CallsSame
<1>2. ActiveCalls' = Cardinality(CallsOf(frames'))
  BY ActiveAre
<1> QED
  BY <1>1, <1>2, ActiveAre DEF DepthInv

(* Drift is what Lost allows. *)
LEMMA AddKeeps ==
    ASSUME TypeOK, DepthInv, NEW g \in Goroutines, NEW d \in Int, Add(g, d),
           ActiveCalls' = ActiveCalls + d, ActiveCalls \in Nat
    PROVE  callDepth' - ActiveCalls' \in (-Drift)..Drift
<1>1. callDepth \in Int /\ callDepth - ActiveCalls \in (-Drift)..Drift /\ MaxLost \in Nat /\ Drift \in Nat
  BY BoundsAssumption DEF TypeOK, DepthInv, Drift
<1>2. CASE callDepth' = callDepth + d
  BY <1>1, <1>2
<1>3. CASE callDepth' = callDepth /\ Lost(g, d)
  <2>1. \E h \in Goroutines \ {g} : frames[h] # <<>>
    BY <1>3 DEF Lost
  <2>2. Goroutines # {Main}
    BY <2>1, GoroutinesAssumption
  <2>3. callDepth - d - ActiveCalls \in (-MaxLost)..MaxLost /\ Drift = MaxLost
    BY <1>3, <2>2 DEF Lost, Drift
  <2> QED
    BY <1>1, <1>3, <2>3
<1> QED
  BY <1>2, <1>3 DEF Add

LEMMA CallDepthKept ==
    ASSUME TypeInv, DepthInv, NEW g \in Goroutines, NEW f \in fns, Call(g, f)
    PROVE  DepthInv'
<1>1. f.env \in Envs /\ f.file \in Files \cup {NoFile} /\ filename \in Files /\ TypeOK
  BY DEF TypeInv, TypeOK, Function
<1>2. PICK e \in Envs :
         Push(g, [NewFrame("fn", Depth(g) + 1, e) EXCEPT
                       !.file = f.file,
                       !.prev = IF f.file = NoFile THEN NoFile ELSE filename,
                       !.saved = defers,
                       !.phase = "bind"])
  BY DEF Call
<1> DEFINE x == [NewFrame("fn", Depth(g) + 1, e) EXCEPT
                       !.file = f.file,
                       !.prev = IF f.file = NoFile THEN NoFile ELSE filename,
                       !.saved = defers,
                       !.phase = "bind"]
<1>3. x \in Frame /\ x.kind = "fn" /\ x.phase # "defers"
  <2>1. NewFrame("fn", Depth(g) + 1, e) \in Frame
    BY <1>1, FramesOf, NewFrameType DEF FrameKinds
  <2>2. x \in Frame
    BY <1>1, <2>1 DEF Frame, Phases, TypeOK
  <2> QED
    BY <2>2 DEF NewFrame
<1> HIDE DEF x
<1>4. /\ frames' \in [Goroutines -> Seq(Frame)]
      /\ \A h \in Goroutines \ {g} : frames'[h] = frames[h]
      /\ frames'[g] = Append(frames[g], x)
  BY <1>1, <1>2, <1>3, PushType DEF x
<1> DEFINE n == Len(frames[g]) + 1
<1>5. /\ FnsIn(frames'[g]) = FnsIn(frames[g]) \cup {n} /\ n \notin FnsIn(frames[g])
      /\ Rooted(frames'[g])
  <2>1. frames[g] \in Seq(Frame) /\ frames[g] # <<>> /\ Rooted(frames[g])
    BY <1>1, FramesOf DEF Call, Evaluating, DepthInv
  <2> QED
    BY <1>3, <1>4, <2>1, FnsAppend
<1> HIDE DEF n
<1>6. /\ CallsOf(frames') = CallsOf(frames) \cup {<<g, n>>}
      /\ <<g, n>> \notin CallsOf(frames)
  <2>1. Elsewhere(frames, frames', g)
    BY <1>4 DEF Elsewhere
  <2> QED
    BY <1>5, <2>1, CallsAdd, Zenon
<1>7. ActiveCalls' = Cardinality(CallsOf(frames'))
  BY ActiveAre
<1>8. IsFiniteSet(CallsOf(frames))
  BY DEF DepthInv
<1>9. IsFiniteSet(CallsOf(frames')) /\ ActiveCalls' = ActiveCalls + 1 /\ ActiveCalls \in Nat
  BY <1>6, <1>7, <1>8, ActiveAre, FS_AddElement, FS_CardinalityType
<1>10. callDepth' - ActiveCalls' \in (-Drift)..Drift
  BY <1>1, <1>9, AddKeeps DEF Call
<1>11. \A h \in Goroutines : Rooted(frames'[h])
  BY <1>4, <1>5 DEF DepthInv
<1> QED
  BY <1>9, <1>10, <1>11 DEF DepthInv

LEMMA LeaveCallDepthKept ==
    ASSUME TypeInv, DepthInv, NEW g \in Goroutines, frames[g] # <<>>, Top(g).kind = "fn", LeaveCall(g)
    PROVE  DepthInv'
<1>1. TypeOK /\ frames[g] \in Seq(Frame) /\ Rooted(frames[g])
  BY FramesOf DEF TypeInv, DepthInv
<1>2. /\ \A h \in Goroutines \ {g} : frames'[h] = frames[h]
      /\ frames'[g] = Front(frames[g])
  BY <1>1, PopType DEF LeaveCall
<1> DEFINE n == Len(frames[g])
<1>3. /\ FnsIn(frames'[g]) = FnsIn(frames[g]) \ {n} /\ n \in FnsIn(frames[g])
      /\ Rooted(frames'[g])
  BY <1>1, <1>2, FnsFront DEF Top
<1> HIDE DEF n
<1>4. CallsOf(frames') = CallsOf(frames) \ {<<g, n>>} /\ <<g, n>> \in CallsOf(frames)
  <2>1. {n} \subseteq FnsIn(frames[g])
    BY <1>3
  <2>2. CallsOf(frames') = CallsOf(frames) \ ({g} \X {n}) /\ {g} \X {n} \subseteq CallsOf(frames)
    <3>1. Elsewhere(frames, frames', g)
      BY <1>2 DEF Elsewhere
    <3> QED
      BY <1>3, <2>1, <3>1, CallsRemove, Zenon
  <2>3. {g} \X {n} = {<<g, n>>}
    OBVIOUS
  <2> QED
    BY <2>2, <2>3
<1>5. ActiveCalls' = Cardinality(CallsOf(frames'))
  BY ActiveAre
<1>6. IsFiniteSet(CallsOf(frames))
  BY DEF DepthInv
<1>7. IsFiniteSet(CallsOf(frames')) /\ ActiveCalls' = ActiveCalls + (-1) /\ ActiveCalls \in Nat
  <2>1. IsFiniteSet(CallsOf(frames')) /\ Cardinality(CallsOf(frames')) = Cardinality(CallsOf(frames)) - 1
    BY <1>4, <1>6, FS_RemoveElement
  <2>2. ActiveCalls = Cardinality(CallsOf(frames)) /\ ActiveCalls \in Nat
    BY <1>6, ActiveAre, FS_CardinalityType
  <2> QED
    BY <1>5, <2>1, <2>2
<1>8. callDepth' - ActiveCalls' \in (-Drift)..Drift
  BY <1>1, <1>7, AddKeeps DEF LeaveCall
<1>9. \A h \in Goroutines : Rooted(frames'[h])
  BY <1>2, <1>3 DEF DepthInv
<1> QED
  BY <1>7, <1>8, <1>9 DEF DepthInv

(* A panic gives back the depth of every call it unwinds. *)
LEMMA PanicDepthKept ==
    ASSUME TypeInv, DepthInv, NEW h \in Goroutines, Panic(h)
    PROVE  DepthInv'
<1>1. TypeOK /\ callDepth \in Int
  BY DEF TypeInv, TypeOK
<1>2. /\ \A g \in Goroutines \ {h} : frames'[g] = frames[g]
      /\ frames'[h] = <<>>
      /\ callDepth' = callDepth - Cardinality(FnsIn(frames[h]))
  BY <1>1 DEF Panic, TypeOK, FnsIn, FnIndices, Depth
<1> DEFINE K == FnsIn(frames[h])
<1>3. CallsOf(frames') = CallsOf(frames) \ ({h} \X K) /\ {h} \X K \subseteq CallsOf(frames)
  <2>1. FnsIn(frames'[h]) = FnsIn(frames[h]) \ K
    BY <1>2, EmptyRooted
  <2>2. Elsewhere(frames, frames', h) /\ K \subseteq FnsIn(frames[h])
    BY <1>2 DEF Elsewhere
  <2> QED
    BY <2>1, <2>2, CallsRemove, Zenon
<1>4. IsFiniteSet(K) /\ Cardinality(K) \in Nat
  <2>1. Len(frames[h]) \in Nat
    BY <1>1, FramesOf
  <2>2. IsFiniteSet(1..Len(frames[h])) /\ K \in SUBSET (1..Len(frames[h]))
    BY <2>1, FS_Interval DEF FnsIn
  <2> QED
    BY <2>2, FS_Subset, FS_CardinalityType
<1> HIDE DEF K
<1>5. IsFiniteSet({h} \X K) /\ Cardinality({h} \X K) = Cardinality(K)
  <2>1. IsFiniteSet({h}) /\ Cardinality({h}) = 1
    BY FS_Singleton
  <2>2. IsFiniteSet({h} \X K) /\ Cardinality({h} \X K) = 1 * Cardinality(K)
    BY <1>4, <2>1, FS_Product
  <2> QED
    BY <1>4, <2>2
<1>6. ActiveCalls' = Cardinality(CallsOf(frames'))
  BY ActiveAre
<1>7. IsFiniteSet(CallsOf(frames)) /\ Cardinality(CallsOf(frames)) \in Nat
  BY FS_CardinalityType DEF DepthInv
<1>8. CallsOf(frames) \cap ({h} \X K) = {h} \X K
  BY <1>3
<1>9. IsFiniteSet(CallsOf(frames')) /\ ActiveCalls' = ActiveCalls - Cardinality(K)
  <2>1. /\ IsFiniteSet(CallsOf(frames) \ ({h} \X K))
        /\ Cardinality(CallsOf(frames) \ ({h} \X K))
             = Cardinality(CallsOf(frames)) - Cardinality(CallsOf(frames) \cap ({h} \X K))
    BY <1>7, FS_Difference, Zenon
  <2>2. Cardinality(CallsOf(frames) \cap ({h} \X K)) = Cardinality(K)
    BY <1>5, <1>8
  <2> QED
    BY <1>3, <1>6, <2>1, <2>2, ActiveAre
<1>10. callDepth' - ActiveCalls' \in (-Drift)..Drift
  <2>1. callDepth - ActiveCalls \in (-Drift)..Drift /\ Drift \in Nat
    BY BoundsAssumption DEF DepthInv, Drift
  <2>2. ActiveCalls \in Nat
    BY <1>7, ActiveAre
  <2> QED
    BY <1>1, <1>2, <1>4, <1>9, <2>1, <2>2 DEF K
<1>11. \A g \in Goroutines : Rooted(frames'[g])
  BY <1>2, EmptyRooted DEF DepthInv
<1> QED
  BY <1>9, <1>10, <1>11 DEF DepthInv

LEMMA StatementDepthKept ==
    ASSUME TypeInv, TypeInv', DepthInv, NEW g \in Goroutines,
           \/ \E f \in fns : Construct(g, f)
           \/ Constructed(g) \/ EnterBlock(g) \/ LeaveBlock(g) \/ EnterScope(g) \/ LeaveScope(g)
           \/ DeferEnds(g) \/ GoroutineEnds(g)
    PROVE  DepthInv'
<1>1. /\ TypeOK /\ frames[g] # <<>> /\ frames[g] \in Seq(Frame) /\ Rooted(frames[g])
      /\ \A h \in Goroutines : frames[h] \in Seq(Frame) /\ Rooted(frames[h])
      /\ Top(g) \in Frame /\ Depth(g) \in Nat
  BY FramesOf, TopFacts DEF TypeInv, DepthInv, Construct, Constructed, EnterBlock, LeaveBlock, EnterScope,
     LeaveScope, DeferEnds, GoroutineEnds, Executing, Evaluating
<1>2. callDepth' = callDepth
  BY DEF Construct, Constructed, EnterBlock, LeaveBlock, EnterScope, LeaveScope, DeferEnds, GoroutineEnds,
     interpVars
<1>3. ASSUME NEW f \in Frame, f.kind # "fn", f.phase # "defers", Push(g, f) PROVE DepthInv'
  <2>1. /\ \A h \in Goroutines \ {g} : frames'[h] = frames[h]
        /\ frames'[g] = Append(frames[g], f)
    BY <1>1, <1>3, PushType
  <2>2. FnsIn(frames'[g]) = FnsIn(frames[g]) /\ Rooted(frames'[g])
    BY <1>1, <1>3, <2>1, FnsAppend
  <2> QED
    BY <1>1, <1>2, <2>1, <2>2, QuietStep
<1>4. ASSUME Top(g).kind # "fn", Pop(g) PROVE DepthInv'
  <2>1. /\ \A h \in Goroutines \ {g} : frames'[h] = frames[h]
        /\ frames'[g] = Front(frames[g])
    BY <1>1, <1>4, PopType
  <2>2. FnsIn(frames'[g]) = FnsIn(frames[g]) /\ Rooted(frames'[g])
    BY <1>1, <1>4, <2>1, FnsFront DEF Top
  <2> QED
    BY <1>1, <1>2, <2>1, <2>2, QuietStep
<1>5. CASE \E f \in fns : Construct(g, f)
  <2>1. PICK e \in Envs : Push(g, [NewFrame("new", Depth(g) + 1, e) EXCEPT !.phase = "bind"])
    BY <1>5 DEF Construct
  <2>2. NewFrame("new", Depth(g) + 1, e) \in Frame
    BY <1>1, NewFrameType DEF FrameKinds
  <2>3. [NewFrame("new", Depth(g) + 1, e) EXCEPT !.phase = "bind"] \in Frame
    BY <2>2 DEF Frame, Phases
  <2>4. /\ [NewFrame("new", Depth(g) + 1, e) EXCEPT !.phase = "bind"].kind # "fn"
        /\ [NewFrame("new", Depth(g) + 1, e) EXCEPT !.phase = "bind"].phase # "defers"
    BY DEF NewFrame
  <2> QED
    BY <1>3, <2>1, <2>3, <2>4
<1>6. CASE EnterBlock(g) \/ EnterScope(g)
  <2>1. PICK e \in Envs, k \in {"block", "scope"} : Push(g, NewFrame(k, Top(g).call, e))
    BY <1>6 DEF EnterBlock, EnterScope
  <2>2. /\ NewFrame(k, Top(g).call, e) \in Frame
        /\ NewFrame(k, Top(g).call, e).kind # "fn"
        /\ NewFrame(k, Top(g).call, e).phase # "defers"
    <3>1. Top(g).call \in Nat /\ k \in FrameKinds
      BY <1>1 DEF Frame, FrameKinds
    <3> QED
      BY <3>1, NewFrameType DEF NewFrame
  <2> QED
    BY <1>3, <2>1, <2>2
<1>7. CASE Constructed(g) \/ LeaveBlock(g) \/ LeaveScope(g) \/ DeferEnds(g)
  BY <1>4, <1>7 DEF Constructed, LeaveBlock, LeaveScope, DeferEnds
<1>8. CASE GoroutineEnds(g)
  <2>1. Top(g).kind # "fn"
    BY <1>1, <1>8, TopFacts DEF GoroutineEnds, Rooted
  <2> QED
    BY <1>4, <1>8, <2>1 DEF GoroutineEnds
<1> QED
  BY <1>5, <1>6, <1>7, <1>8

(* The steps that rewrite the top frame, and those that leave the stacks be. *)
LEMMA RewriteDepthKept ==
    ASSUME TypeInv, TypeInv', DepthInv, NEW g \in Goroutines,
           ParamsBound(g) \/ BodyEnds(g) \/ RunDefer(g) \/ SelectCase(g)
    PROVE  DepthInv'
<1>1. /\ TypeOK /\ frames[g] # <<>> /\ frames[g] \in Seq(Frame) /\ Rooted(frames[g])
      /\ \A h \in Goroutines : frames[h] \in Seq(Frame) /\ Rooted(frames[h])
      /\ Top(g) \in Frame /\ Top(g) = frames[g][Depth(g)] /\ Depth(g) \in Nat /\ Depth(g) \in 1..Depth(g)
  BY FramesOf, TopFacts DEF TypeInv, DepthInv, ParamsBound, BodyEnds, RunDefer, SelectCase, Executing, Evaluating
<1>2. callDepth' = callDepth
  BY DEF ParamsBound, BodyEnds, RunDefer, SelectCase, interpVars
<1>3. \A h \in Goroutines : frames'[h] \in Seq(Frame)
  BY DEF TypeInv, TypeOK
<1>4. ASSUME \A h \in Goroutines \ {g} : frames'[h] = frames[h],
             FnsIn(frames'[g]) = FnsIn(frames[g]), Rooted(frames'[g])
      PROVE  DepthInv'
  BY <1>1, <1>2, <1>4, QuietStep
<1>5. CASE ParamsBound(g) \/ BodyEnds(g)
  <2>1. /\ \A h \in Goroutines \ {g} : frames'[h] = frames[h]
        /\ FnsIn(frames'[g]) = FnsIn(frames[g]) /\ Rooted(frames'[g])
    <3>1. PICK x : /\ frames' = [frames EXCEPT ![g] = [frames[g] EXCEPT ![Depth(g)] = x]]
                   /\ x \in Frame /\ x.kind = Top(g).kind /\ (x.phase = "defers" => x.kind = "fn")
      <4>1. CASE ParamsBound(g)
        <5> DEFINE x == [Top(g) EXCEPT !.phase = "body"]
        <5>1. frames' = [frames EXCEPT ![g] = [frames[g] EXCEPT ![Depth(g)] = x]]
          BY <1>1, <4>1 DEF ParamsBound, SetPhase, TypeOK
        <5>2. x \in Frame /\ x.kind = Top(g).kind /\ x.phase # "defers"
          BY <1>1 DEF Frame, Phases
        <5> QED
          BY <5>1, <5>2
      <4>2. CASE BodyEnds(g)
        <5> DEFINE x == [Top(g) EXCEPT !.phase = "defers", !.todo = defers]
        <5>1. frames' = [frames EXCEPT ![g] = [frames[g] EXCEPT ![Depth(g)] = x]]
          <6>1. [frames[g] EXCEPT ![Depth(g)].phase = "defers", ![Depth(g)].todo = defers]
                = [frames[g] EXCEPT ![Depth(g)] = x]
            BY <1>1
          <6>2. frames' = [frames EXCEPT ![g] = [frames[g] EXCEPT ![Depth(g)].phase = "defers",
                                                                  ![Depth(g)].todo = defers]]
            BY <1>1, <4>2 DEF BodyEnds, TypeOK
          <6> QED
            BY <6>1, <6>2
        <5>2. x \in Frame /\ x.kind = Top(g).kind /\ Top(g).kind = "fn"
          BY <1>1, <4>2 DEF Frame, Phases, BodyEnds, TypeOK
        <5> QED
          BY <5>1, <5>2
      <4> QED
        BY <1>5, <4>1, <4>2
    <3>2. /\ FnsIn([frames[g] EXCEPT ![Len(frames[g])] = x]) = FnsIn(frames[g])
          /\ Rooted([frames[g] EXCEPT ![Len(frames[g])] = x])
      BY <1>1, <3>1, TopRewritten DEF Top
    <3> QED
      BY <1>1, <3>1, <3>2 DEF TypeOK, Depth
  <2> QED
    BY <1>4, <2>1
<1>6. ASSUME NEW s \in Seq(Frame), s # <<>>, Rooted(s), FnsIn(s) = FnsIn(frames[g]),
             NEW f \in Frame, f.kind # "fn", f.phase # "defers",
             frames' = [frames EXCEPT ![g] = Append(s, f)]
      PROVE  DepthInv'
  <2>1. FnsIn(Append(s, f)) = FnsIn(s) /\ Rooted(Append(s, f))
    BY <1>6, FnsAppend
  <2> QED
    BY <1>1, <1>4, <1>6, <2>1 DEF TypeOK
<1>7. CASE RunDefer(g)
  <2>1. Top(g).todo \in Seq(DeferEntry) /\ Top(g).todo # <<>>
    BY <1>1, <1>7 DEF RunDefer, Frame
  <2>2. Front(Top(g).todo) \in Seq(DeferEntry) /\ Last(Top(g).todo) \in DeferEntry
    BY <2>1, SeqFacts
  <2> DEFINE x == [Top(g) EXCEPT !.todo = Front(Top(g).todo)]
             s == [frames[g] EXCEPT ![Depth(g)] = x]
             f == NewFrame("defer", Depth(g), Last(Top(g).todo).env)
  <2>3. x \in Frame /\ x.kind = Top(g).kind /\ x.phase = Top(g).phase
    BY <1>1, <2>2 DEF Frame
  <2>4. frames' = [frames EXCEPT ![g] = Append(s, f)]
    BY <1>1, <1>7 DEF RunDefer, TypeOK
  <2>5. f \in Frame /\ f.kind # "fn" /\ f.phase # "defers"
    <3>1. Last(Top(g).todo).env \in Envs
      BY <2>2 DEF DeferEntry
    <3>2. f \in Frame
      BY <1>1, <3>1, NewFrameType DEF FrameKinds
    <3> QED
      BY <3>2 DEF NewFrame
  <2> HIDE DEF x, f
  <2>6. s \in Seq(Frame) /\ s # <<>> /\ FnsIn(s) = FnsIn(frames[g]) /\ Rooted(s)
    <3>1. x.kind = Last(frames[g]).kind /\ (x.phase = "defers" => x.kind = "fn")
      BY <1>1, <2>3 DEF Top, Rooted, Depth
    <3> QED
      BY <1>1, <2>3, <3>1, TopRewritten DEF Depth
  <2> QED
    BY <1>6, <2>4, <2>5, <2>6
<1>8. CASE SelectCase(g)
  <2>1. PICK e \in Envs : frames' = [frames EXCEPT ![g] =
                         Append([@ EXCEPT ![Depth(g)].phase = "body",
                                          ![Depth(g)].cases = {}],
                                NewFrame("scope", Top(g).call, e))]
    BY <1>8 DEF SelectCase
  <2> DEFINE x == [Top(g) EXCEPT !.phase = "body", !.cases = {}]
             s == [frames[g] EXCEPT ![Depth(g)] = x]
             f == NewFrame("scope", Top(g).call, e)
  <2>2. x \in Frame /\ x.kind = Top(g).kind /\ x.phase # "defers"
    BY <1>1 DEF Frame, Phases
  <2>3. frames' = [frames EXCEPT ![g] = Append(s, f)]
    <3>1. [frames[g] EXCEPT ![Depth(g)].phase = "body", ![Depth(g)].cases = {}] = s
      BY <1>1
    <3> QED
      BY <1>1, <2>1, <3>1 DEF TypeOK
  <2>4. f \in Frame /\ f.kind # "fn" /\ f.phase # "defers"
    <3>1. Top(g).call \in Nat
      BY <1>1 DEF Frame
    <3>2. f \in Frame
      BY <3>1, NewFrameType DEF FrameKinds
    <3> QED
      BY <3>2 DEF NewFrame
  <2> HIDE DEF x, f
  <2>5. s \in Seq(Frame) /\ s # <<>> /\ FnsIn(s) = FnsIn(frames[g]) /\ Rooted(s)
    <3>1. x.kind = Last(frames[g]).kind /\ (x.phase = "defers" => x.kind = "fn")
      BY <1>1, <2>2 DEF Top, Rooted, Depth
    <3> QED
      BY <1>1, <2>2, <3>1, TopRewritten DEF Depth
  <2> QED
    BY <1>6, <2>3, <2>4, <2>5
<1> QED
  BY <1>5, <1>7, <1>8

LEMMA StartDepthKept ==
    ASSUME TypeInv, TypeInv', DepthInv, NEW g \in Goroutines,
           \/ \E h \in Goroutines : Spawn(g, h)
           \/ \E cases \in SUBSET (Goroutines \ {g}) : Select(g, cases)
    PROVE  DepthInv'
<1>1. /\ TypeOK /\ callDepth' = callDepth
      /\ \A h \in Goroutines : frames[h] \in Seq(Frame) /\ Rooted(frames[h]) /\ frames'[h] \in Seq(Frame)
  BY FramesOf DEF TypeInv, TypeOK, DepthInv, Spawn, Select, interpVars
<1>2. ASSUME NEW h \in Goroutines, frames[h] = <<>>, NEW k \in {"base", "case"}, NEW e,
             frames'[h] = <<NewFrame(k, 0, e)>>
      PROVE  FnsIn(frames'[h]) = FnsIn(frames[h]) /\ Rooted(frames'[h])
  <2>1. FnsIn(frames'[h]) = {} /\ Rooted(frames'[h])
    BY <1>2 DEF FnsIn, Rooted, NewFrame
  <2> QED
    BY <1>2, <2>1, EmptyRooted
<1>3. CASE \E h \in Goroutines : Spawn(g, h)
  <2>1. PICK h \in Goroutines : /\ frames[h] = <<>>
                                /\ frames' = [frames EXCEPT ![h] = <<NewFrame("base", 0, Top(g).env)>>]
    BY <1>3 DEF Spawn
  <2>2. frames'[h] = <<NewFrame("base", 0, Top(g).env)>> /\ \A k \in Goroutines \ {h} : frames'[k] = frames[k]
    BY <1>1, <2>1 DEF TypeOK
  <2>3. FnsIn(frames'[h]) = FnsIn(frames[h]) /\ Rooted(frames'[h])
    BY <1>2, <2>1, <2>2
  <2> QED
    BY <1>1, <2>2, <2>3, QuietStep
<1>4. CASE \E cases \in SUBSET (Goroutines \ {g}) : Select(g, cases)
  <2>1. PICK cases \in SUBSET (Goroutines \ {g}) : Select(g, cases)
    BY <1>4
  <2>2. /\ frames[g] # <<>> /\ cases \subseteq Idle
        /\ frames' = [h \in Goroutines |->
                    IF h \in cases THEN <<NewFrame("case", 0, Top(g).env)>>
                    ELSE IF h = g
                    THEN [frames[g] EXCEPT ![Depth(g)].phase = "select",
                                           ![Depth(g)].cases = cases]
                    ELSE frames[h]]
    BY <2>1 DEF Select, Executing, Evaluating
  <2>3. /\ Top(g) \in Frame /\ Top(g) = frames[g][Depth(g)]
        /\ Depth(g) \in 1..Depth(g) /\ Depth(g) \in Nat
    BY <1>1, <2>2, TopFacts
  <2> DEFINE x == [Top(g) EXCEPT !.phase = "select", !.cases = cases]
  <2>4. frames'[g] = [frames[g] EXCEPT ![Depth(g)] = x]
    <3>1. [frames[g] EXCEPT ![Depth(g)].phase = "select", ![Depth(g)].cases = cases]
          = [frames[g] EXCEPT ![Depth(g)] = x]
      BY <2>3
    <3>2. frames'[g] = [frames[g] EXCEPT ![Depth(g)].phase = "select", ![Depth(g)].cases = cases]
      BY <2>2
    <3> QED
      BY <3>1, <3>2
  <2>5. x \in Frame /\ x.kind = Top(g).kind /\ x.phase # "defers"
    BY <2>3 DEF Frame, Phases
  <2> HIDE DEF x
  <2>6. FnsIn(frames'[g]) = FnsIn(frames[g]) /\ Rooted(frames'[g])
    <3>1. x.kind = Last(frames[g]).kind
      BY <1>1, <2>5 DEF Top
    <3> QED
      BY <1>1, <2>2, <2>4, <2>5, <3>1, TopRewritten DEF Depth
  <2>7. ASSUME NEW h \in cases PROVE FnsIn(frames'[h]) = FnsIn(frames[h]) /\ Rooted(frames'[h])
    <3>1. h \in Goroutines /\ frames[h] = <<>> /\ frames'[h] = <<NewFrame("case", 0, Top(g).env)>>
      BY <2>2 DEF Idle
    <3> QED
      BY <1>2, <3>1
  <2>8. \A h \in Goroutines : h \notin cases /\ h # g => frames'[h] = frames[h]
    BY <2>2
  <2> QED
    BY <1>1, <2>6, <2>7, <2>8, QuietStep
<1> QED
  BY <1>3, <1>4

LEMMA DepthInit == Init => DepthInv
<1> SUFFICES ASSUME Init PROVE DepthInv
  OBVIOUS
<1>1. \A g \in Goroutines : FnsIn(frames[g]) = {} /\ Rooted(frames[g])
  BY DEF Init, FnsIn, Rooted, NewFrame
<1>2. CallsOf(frames) = {}
  BY <1>1 DEF CallsOf
<1>3. IsFiniteSet(CallsOf(frames)) /\ ActiveCalls = 0
  BY <1>2, FS_EmptySet, ActiveAre
<1> QED
  BY <1>1, <1>3, BoundsAssumption DEF Init, DepthInv, Drift

LEMMA DepthNext == TypeInv /\ TypeInv' /\ DepthInv /\ [Next]_vars => DepthInv'
<1> SUFFICES ASSUME TypeInv, TypeInv', DepthInv, [Next]_vars PROVE DepthInv'
  OBVIOUS
<1>1. ASSUME frames' = frames, callDepth' = callDepth PROVE DepthInv'
  BY <1>1, QuietStep DEF DepthInv
<1>2. CASE UNCHANGED vars
  BY <1>1, <1>2 DEF vars
<1>3. ASSUME NEW g \in Goroutines, Step(g) PROVE DepthInv'
  <2>1. CASE \E f \in fns : Call(g, f)
    BY <2>1, CallDepthKept
  <2>2. CASE BindFails(g) \/ Return(g)
    <3>1. frames[g] # <<>> /\ LeaveCall(g)
      BY <2>2 DEF BindFails, Return, Evaluating
    <3>2. Top(g).kind = "fn"
      <4>1. CASE BindFails(g)
        BY <4>1 DEF BindFails
      <4>2. CASE Return(g)
        <5>1. TypeOK /\ Rooted(frames[g])
          BY DEF TypeInv, DepthInv
        <5>2. Top(g) = frames[g][Depth(g)] /\ Depth(g) \in 1..Len(frames[g])
          BY <3>1, <5>1, TopFacts, FramesOf DEF Depth
        <5> QED
          BY <4>2, <5>1, <5>2 DEF Return, Rooted
      <4> QED
        BY <2>2, <4>1, <4>2
    <3> QED
      BY <3>1, <3>2, LeaveCallDepthKept
  <2>3. CASE Panic(g)
    BY <2>3, PanicDepthKept
  <2>4. CASE \/ \E f \in fns : Construct(g, f)
             \/ Constructed(g) \/ EnterBlock(g) \/ LeaveBlock(g) \/ EnterScope(g) \/ LeaveScope(g)
             \/ DeferEnds(g) \/ GoroutineEnds(g)
    BY <2>4, StatementDepthKept
  <2>5. CASE ParamsBound(g) \/ BodyEnds(g) \/ RunDefer(g) \/ SelectCase(g)
    BY <2>5, RewriteDepthKept
  <2>6. CASE \/ \E h \in Goroutines : Spawn(g, h)
             \/ \E cases \in SUBSET (Goroutines \ {g}) : Select(g, cases)
    BY <2>6, StartDepthKept
  <2>7. CASE \/ \E why \in {"fn", "hoist", "spawn"} : BeginMark(g, why)
             \/ MarkStep(g) \/ MakeFunction(g) \/ Component(g)
             \/ \E site \in Sites : Defer(g, site)
    BY <1>1, <2>7 DEF BeginMark, MarkStep, MakeFunction, Component, Defer, interpVars
  <2> QED
    BY <1>3, <2>1, <2>2, <2>3, <2>4, <2>5, <2>6, <2>7 DEF Step
<1>4. CASE \E e \in Envs : Collect(e)
  BY <1>1, <1>4 DEF Collect, interpVars
<1> QED
  BY <1>2, <1>3, <1>4 DEF Next

(* callDepth is the number of calls that are active, in any program with    *)
(* any number of goroutines: a call that returned, failed on its parameters *)
(* or was unwound by a panic has given its depth back.  Two goroutines may  *)
(* lose an update (MaxLost), one cannot.                                    *)
THEOREM DepthExact ==
    ASSUME MaxLost = 0 \/ Goroutines = {Main}
    PROVE  Spec => []DepthBalanced
<1>1. Init => TypeInv /\ DepthInv
  BY TypeInit, DepthInit
<1>2. TypeInv /\ DepthInv /\ [Next]_vars => TypeInv' /\ DepthInv'
  BY TypeNext, DepthNext
<1>3. TypeInv /\ DepthInv => DepthBalanced
  <2> SUFFICES ASSUME TypeInv, DepthInv PROVE DepthBalanced
    OBVIOUS
  <2>1. Drift = 0 /\ callDepth \in Int /\ callDepth - ActiveCalls \in (-Drift)..Drift
    BY DEF Drift, DepthInv, TypeInv, TypeOK
  <2>2. ActiveCalls \in Nat
    BY ActiveAre, FS_CardinalityType DEF DepthInv
  <2> QED
    BY <2>1, <2>2 DEF DepthBalanced
<1> QED
  BY <1>1, <1>2, <1>3, PTL DEF Spec

-----------------------------------------------------------------------------
(***************************************************************************)
(* One goroutine: what callUserFunction saves at entry is what it finds at *)
(* exit, however calls, constructors, blocks, errors and deferred bodies   *)
(* nest.                                                                   *)
(***************************************************************************)

(* Programs without spawn and select that defer in functions and blocks     *)
(* only: a defer in a constructor or in a deferred body is registered with  *)
(* somebody else. *)
OneAtATime ==
    /\ Goroutines = {Main}
    /\ Statements \cap {"newdefer", "nesteddefer"} = {}

(* The activation a frame belongs to is the innermost one up to it, and it  *)
(* has bound its parameters if another frame has come upon it. *)
Owned(s, i) ==
    /\ s[i].call \in 1..i
    /\ s[s[i].call].kind \in {"fn", "new"}
    /\ \A j \in (s[i].call + 1)..i : s[j].kind \notin {"fn", "new"}
    /\ s[i].call < i => s[s[i].call].phase # "bind"

Framed(s) ==
    /\ s # <<>> /\ s[1].kind = "base"
    /\ \A i \in 2..Len(s) : s[i].kind \notin {"base", "case"} /\ Owned(s, i)
    /\ \A i \in 1..Len(s) : s[i].phase = "defers" => s[i].kind = "fn"

(* The places where a list of deferred bodies is kept: one with each call,  *)
(* for its caller, and after them Interpreter.defers (d). *)
Levels(s) == FnsIn(s) \cup {Len(s) + 1}
ListAt(s, d, x) == IF x = Len(s) + 1 THEN d ELSE s[x].saved
Lowest(s, x) == \A i \in FnsIn(s) : x <= i
Follows(s, i, x) == i < x /\ \A k \in FnsIn(s) : k <= i \/ x <= k

(* Below the first call nothing is deferred; a call that exits has put its  *)
(* caller's list back, one that binds parameters has an empty list. *)
ListsKept(s, d) ==
    /\ \A x \in Levels(s) : Lowest(s, x) => ListAt(s, d, x) = <<>>
    /\ \A i \in FnsIn(s), x \in Levels(s) : Follows(s, i, x) =>
         /\ s[i].phase = "defers" => ListAt(s, d, x) = s[i].saved
         /\ s[i].phase = "bind" => ListAt(s, d, x) = <<>>

(* The same of Interpreter.filename (f): it is the file of the innermost    *)
(* call that has one, and prev is what it was below. *)
WithFile(s) == {i \in FnsIn(s) : s[i].file # NoFile}
FileBelow(s, n, f) ==
    \/ f = MainFile /\ \A j \in WithFile(s) : n <= j
    \/ \E j \in WithFile(s) : j < n /\ f = s[j].file /\ \A k \in WithFile(s) : k < n => k <= j
FilesKept(s, f) ==
    /\ FileBelow(s, Len(s) + 1, f)
    /\ \A i \in FnsIn(s) : s[i].file = NoFile => s[i].prev = NoFile
    /\ \A i \in WithFile(s) : s[i].prev # NoFile /\ FileBelow(s, i, s[i].prev)

CallsInv ==
    /\ Framed(frames[Main])
    /\ ListsKept(frames[Main], defers)
    /\ FilesKept(frames[Main], filename)

-----------------------------------------------------------------------------
(* What a push, a pop and a rewriting do to each. *)

LEMMA FramedAppend ==
    ASSUME NEW s \in Seq(Frame), Framed(s), NEW x \in Frame, x.kind \notin {"base", "case"},
           x.phase # "defers",
           \/ x.kind \in {"fn", "new"} /\ x.call = Len(s) + 1
           \/ x.kind = "defer" /\ x.call = Len(s) /\ Last(s).phase = "defers"
           \/ /\ x.kind \in {"block", "scope"} /\ x.call = Last(s).call
              /\ Last(s).phase = "body" /\ Last(s).kind # "base"
    PROVE  Framed(Append(s, x))
<1> DEFINE n == Len(s)
           t == Append(s, x)
<1>1. /\ n \in Nat \ {0} /\ Last(s) = s[n] /\ t \in Seq(Frame) /\ Len(t) = n + 1
      /\ t[n + 1] = x /\ \A i \in 1..n : t[i] = s[i]
  <2>1. n \in Nat \ {0} /\ Last(s) = s[n]
    BY SeqFacts DEF Framed
  <2>2. /\ t \in Seq(Frame) /\ Len(t) = n + 1
        /\ t[n + 1] = x /\ \A i \in 1..n : t[i] = s[i]
    BY AppendFacts
  <2> QED
    BY <2>1, <2>2
<1> HIDE DEF t
<1>2. s[1].kind = "base" /\ t[1] = s[1] /\ t # <<>>
  BY <1>1, EmptySeq DEF Framed
<1>3. ASSUME NEW i \in 1..(n + 1), t[i].phase = "defers" PROVE t[i].kind = "fn"
  BY <1>1, <1>3 DEF Framed
<1>4. ASSUME NEW i \in 2..(n + 1), i # n + 1 PROVE t[i].kind \notin {"base", "case"} /\ Owned(t, i)
  <2>1. i \in 2..n /\ i \in 1..n /\ t[i] = s[i]
    BY <1>1, <1>4
  <2>2. s[i].kind \notin {"base", "case"} /\ Owned(s, i)
    BY <2>1 DEF Framed
  <2>3. /\ s[i].call \in 1..n /\ t[s[i].call] = s[s[i].call]
        /\ \A j \in (s[i].call + 1)..i : t[j] = s[j]
    BY <1>1, <2>1, <2>2 DEF Owned
  <2> QED
    BY <2>1, <2>2, <2>3 DEF Owned
<1>5. Owned(t, n + 1)
  <2>1. CASE x.kind \in {"fn", "new"} /\ x.call = n + 1
    BY <1>1, <2>1 DEF Owned
  <2>2. CASE x.kind = "defer" /\ x.call = n /\ s[n].phase = "defers"
    <3>1. s[n].kind = "fn" /\ t[n] = s[n]
      BY <1>1, <2>2 DEF Framed
    <3>2. \A j \in (n + 1)..(n + 1) : t[j] = x
      BY <1>1
    <3> QED
      BY <1>1, <2>2, <3>1, <3>2 DEF Owned
  <2>3. CASE x.kind \in {"block", "scope"} /\ x.call = s[n].call /\ s[n].phase = "body" /\ s[n].kind # "base"
    <3>1. n # 1 /\ n \in 2..n
      BY <1>1, <1>2, <2>3
    <3>2. Owned(s, n)
      BY <3>1 DEF Framed
    <3> DEFINE c == s[n].call
    <3>3. /\ c \in 1..n /\ s[c].kind \in {"fn", "new"} /\ t[c] = s[c] /\ x.call = c
          /\ \A j \in (c + 1)..n : s[j].kind \notin {"fn", "new"}
          /\ s[c].phase # "bind"
      BY <1>1, <2>3, <3>2 DEF Owned
    <3> HIDE DEF c
    <3>4. ASSUME NEW j \in (c + 1)..(n + 1) PROVE t[j].kind \notin {"fn", "new"}
      <4>1. CASE j = n + 1
        BY <1>1, <2>3, <4>1
      <4>2. CASE j # n + 1
        <5>1. j \in (c + 1)..n /\ j \in 1..n
          BY <1>1, <3>3, <4>2
        <5> QED
          BY <1>1, <3>3, <5>1
      <4> QED
        BY <4>1, <4>2
    <3>5. c \in 1..(n + 1)
      BY <1>1, <3>3
    <3> QED
      BY <1>1, <3>3, <3>4, <3>5 DEF Owned
  <2> QED
    BY <1>1, <2>1, <2>2, <2>3
<1> QED
  BY <1>1, <1>2, <1>3, <1>4, <1>5 DEF Framed, t

LEMMA FramedFront ==
    ASSUME NEW s \in Seq(Frame), Framed(s), Last(s).kind # "base"
    PROVE  Framed(Front(s)) /\ Len(s) \in Nat \ {0, 1}
<1> DEFINE n == Len(s)
           t == Front(s)
<1>1. /\ n \in Nat \ {0} /\ Last(s) = s[n] /\ t \in Seq(Frame) /\ Len(t) = n - 1
      /\ \A i \in 1..(n - 1) : t[i] = s[i]
  BY SeqFacts DEF Framed
<1>2. n # 1
  BY <1>1 DEF Framed
<1> HIDE DEF t
<1>3. s[1].kind = "base" /\ t[1] = s[1] /\ t # <<>>
  BY <1>1, <1>2, EmptySeq DEF Framed
<1>4. ASSUME NEW i \in 2..(n - 1) PROVE t[i].kind \notin {"base", "case"} /\ Owned(t, i)
  <2>1. i \in 2..n /\ i \in 1..(n - 1) /\ t[i] = s[i]
    BY <1>1, <1>4
  <2>2. s[i].kind \notin {"base", "case"} /\ Owned(s, i)
    BY <2>1 DEF Framed
  <2>3. /\ s[i].call \in 1..(n - 1) /\ t[s[i].call] = s[s[i].call]
        /\ \A j \in (s[i].call + 1)..i : t[j] = s[j]
    <3>1. s[i].call \in 1..i
      BY <2>2 DEF Owned
    <3>2. s[i].call \in 1..(n - 1) /\ \A j \in (s[i].call + 1)..i : j \in 1..(n - 1)
      BY <1>1, <2>1, <3>1
    <3> QED
      BY <1>1, <3>2
  <2> QED
    BY <2>1, <2>2, <2>3 DEF Owned
<1>5. \A i \in 1..(n - 1) : t[i].phase = "defers" => t[i].kind = "fn"
  BY <1>1 DEF Framed
<1> QED
  BY <1>1, <1>2, <1>3, <1>4, <1>5 DEF Framed, t

(* x is the same activation as the top one, perhaps further on. *)
LEMMA FramedRewritten ==
    ASSUME NEW s \in Seq(Frame), Framed(s), NEW x \in Frame,
           x.kind = Last(s).kind, x.call = Last(s).call, x.phase = "defers" => x.kind = "fn"
    PROVE  Framed([s EXCEPT ![Len(s)] = x])
<1> DEFINE n == Len(s)
           t == [s EXCEPT ![n] = x]
<1>1. n \in Nat \ {0} /\ Last(s) = s[n]
  BY SeqFacts DEF Framed
<1>2. n \in 1..n /\ DOMAIN s = 1..n
  BY <1>1
<1>3. t \in Seq(Frame) /\ Len(t) = n /\ t[n] = x /\ \A i \in 1..n : i # n => t[i] = s[i]
  <2>1. t[n] = x /\ \A i \in 1..n : i # n => t[i] = s[i]
    BY <1>2
  <2>2. t \in Seq(Frame) /\ Len(t) = n
    BY <1>2, ExceptSeq
  <2> QED
    BY <2>1, <2>2
<1> HIDE DEF t
<1>4. \A i \in 1..n : t[i].kind = s[i].kind /\ t[i].call = s[i].call
  BY <1>1, <1>3
<1>5. t # <<>> /\ t[1].kind = "base" /\ 1 \in 1..n
  BY <1>1, <1>3, <1>4, EmptySeq DEF Framed
<1>6. ASSUME NEW i \in 2..n PROVE t[i].kind \notin {"base", "case"} /\ Owned(t, i)
  <2>1. s[i].kind \notin {"base", "case"} /\ Owned(s, i) /\ i \in 1..n
    BY <1>1 DEF Framed
  <2>2. /\ s[i].call \in 1..n /\ t[i].call = s[i].call
        /\ t[s[i].call].kind = s[s[i].call].kind
        /\ \A j \in (s[i].call + 1)..i : t[j].kind = s[j].kind
    BY <1>1, <1>4, <2>1 DEF Owned
  <2>3. s[i].call < i => s[i].call # n
    BY <1>1, <2>1, <2>2
  <2>4. t[i].call < i => t[t[i].call].phase # "bind"
    BY <1>3, <2>1, <2>2, <2>3 DEF Owned
  <2> QED
    BY <1>4, <2>1, <2>2, <2>4 DEF Owned
<1>7. \A i \in 1..n : t[i].phase = "defers" => t[i].kind = "fn"
  BY <1>1, <1>3 DEF Framed
<1> QED
  BY <1>3, <1>5, <1>6, <1>7 DEF Framed, t

(* The same of the lists. *)
LEMMA LevelsOf ==
    ASSUME NEW s \in Seq(Frame)
    PROVE  FnsIn(s) \subseteq 1..Len(s) /\ Levels(s) \subseteq 1..(Len(s) + 1) /\ Len(s) \in Nat
  BY DEF FnsIn, Levels

LEMMA ListsCall ==
    ASSUME NEW s \in Seq(Frame), NEW d, ListsKept(s, d), NEW x \in Frame,
           x.kind = "fn", x.saved = d, x.phase = "bind"
    PROVE  ListsKept(Append(s, x), <<>>)
<1> DEFINE n == Len(s)
           t == Append(s, x)
<1>1. n \in Nat /\ Len(t) = n + 1 /\ t[n + 1] = x /\ \A i \in 1..n : t[i] = s[i]
  BY AppendFacts
<1> HIDE DEF t
<1>2. FnsIn(t) = FnsIn(s) \cup {n + 1} /\ FnsIn(s) \subseteq 1..n
  <2>1. 1..(n + 1) = 1..n \cup {n + 1}
    BY <1>1
  <2> QED
    BY <1>1, <2>1 DEF FnsIn
<1>3. Levels(t) = Levels(s) \cup {n + 2} /\ Levels(s) \subseteq 1..(n + 1)
  BY <1>1, <1>2 DEF Levels
<1>4. ASSUME NEW y \in Levels(s) PROVE ListAt(t, <<>>, y) = ListAt(s, d, y)
  <2>1. y \in 1..(n + 1) /\ y # n + 2
    BY <1>1, <1>3
  <2>2. CASE y = n + 1
    BY <1>1, <2>1, <2>2 DEF ListAt
  <2>3. CASE y # n + 1
    <3>1. y \in 1..n
      BY <1>1, <2>1, <2>3
    <3> QED
      BY <1>1, <2>1, <2>3, <3>1 DEF ListAt
  <2> QED
    BY <2>2, <2>3
<1>5. ASSUME NEW y \in Levels(t), Lowest(t, y) PROVE ListAt(t, <<>>, y) = <<>>
  <2>1. CASE y \in Levels(s)
    <3>1. Lowest(s, y)
      BY <1>2, <1>5 DEF Lowest
    <3> QED
      BY <1>4, <2>1, <3>1 DEF ListsKept
  <2>2. CASE y = n + 2
    BY <1>1, <2>2 DEF ListAt
  <2> QED
    BY <1>3, <2>1, <2>2
<1>6. ASSUME NEW i \in FnsIn(t), NEW y \in Levels(t), Follows(t, i, y)
      PROVE  /\ t[i].phase = "defers" => ListAt(t, <<>>, y) = t[i].saved
             /\ t[i].phase = "bind" => ListAt(t, <<>>, y) = <<>>
  <2>1. CASE y \in Levels(s)
    <3>1. i \in FnsIn(s) /\ t[i] = s[i]
      BY <1>1, <1>2, <1>3, <1>6, <2>1 DEF Follows
    <3>2. Follows(s, i, y)
      BY <1>2, <1>6 DEF Follows
    <3> QED
      BY <1>4, <2>1, <3>1, <3>2 DEF ListsKept
  <2>2. CASE y = n + 2
    <3>1. n + 1 <= i \/ n + 2 <= n + 1
      BY <1>2, <1>6, <2>2 DEF Follows
    <3>2. i = n + 1
      BY <1>1, <1>2, <3>1
    <3> QED
      BY <1>1, <2>2, <3>2 DEF ListAt
  <2> QED
    BY <1>3, <2>1, <2>2
<1> QED
  BY <1>5, <1>6 DEF ListsKept, t

(* A frame that is no call comes or goes. *)
LEMMA ListsFrame ==
    ASSUME NEW s \in Seq(Frame), NEW t \in Seq(Frame), NEW d, ListsKept(s, d), FnsIn(t) = FnsIn(s),
           \A i \in FnsIn(s) : t[i].saved = s[i].saved /\ t[i].phase = s[i].phase
    PROVE  ListsKept(t, d)
<1> DEFINE n == Len(s)
           m == Len(t)
<1>1. FnsIn(s) \subseteq 1..n /\ FnsIn(s) \subseteq 1..m /\ n \in Nat /\ m \in Nat
  BY LevelsOf
<1>2. ASSUME NEW y \in Levels(t)
      PROVE  \E z \in Levels(s) : /\ ListAt(t, d, y) = ListAt(s, d, z)
                                  /\ Lowest(t, y) => Lowest(s, z)
                                  /\ \A i \in FnsIn(s) : Follows(t, i, y) => Follows(s, i, z)
  <2>1. CASE y \in FnsIn(s)
    <3>1. y \in Levels(s) /\ ListAt(t, d, y) = ListAt(s, d, y)
      BY <1>1, <2>1 DEF Levels, ListAt
    <3>2. Lowest(t, y) => Lowest(s, y)
      BY DEF Lowest
    <3>3. \A i \in FnsIn(s) : Follows(t, i, y) => Follows(s, i, y)
      BY DEF Follows
    <3> QED
      BY <3>1, <3>2, <3>3
  <2>2. CASE y = m + 1
    <3>1. n + 1 \in Levels(s) /\ ListAt(t, d, y) = ListAt(s, d, n + 1)
      BY <2>2 DEF Levels, ListAt
    <3>2. \A i \in FnsIn(s) : i < y /\ i < n + 1 /\ ~(y <= i)
      BY <1>1, <2>2
    <3>3. Lowest(t, y) => Lowest(s, n + 1)
      BY <3>2 DEF Lowest
    <3>4. \A i \in FnsIn(s) : Follows(t, i, y) => Follows(s, i, n + 1)
      BY <3>2 DEF Follows
    <3> QED
      BY <3>1, <3>3, <3>4
  <2> QED
    BY <2>1, <2>2 DEF Levels
<1>3. ASSUME NEW y \in Levels(t), Lowest(t, y) PROVE ListAt(t, d, y) = <<>>
  <2>1. PICK z \in Levels(s) : /\ ListAt(t, d, y) = ListAt(s, d, z)
                               /\ Lowest(t, y) => Lowest(s, z)
                               /\ \A i \in FnsIn(s) : Follows(t, i, y) => Follows(s, i, z)
    BY <1>2
  <2> QED
    BY <1>3, <2>1 DEF ListsKept
<1>4. ASSUME NEW i \in FnsIn(t), NEW y \in Levels(t), Follows(t, i, y)
      PROVE  /\ t[i].phase = "defers" => ListAt(t, d, y) = t[i].saved
             /\ t[i].phase = "bind" => ListAt(t, d, y) = <<>>
  <2>1. PICK z \in Levels(s) : /\ ListAt(t, d, y) = ListAt(s, d, z)
                               /\ Lowest(t, y) => Lowest(s, z)
                               /\ \A j \in FnsIn(s) : Follows(t, j, y) => Follows(s, j, z)
    BY <1>2
  <2>2. i \in FnsIn(s)
    OBVIOUS
  <2> QED
    BY <1>4, <2>1, <2>2 DEF ListsKept
<1> QED
  BY <1>3, <1>4 DEF ListsKept

LEMMA ListsReturn ==
    ASSUME NEW s \in Seq(Frame), NEW d, ListsKept(s, d), s # <<>>, Last(s).kind = "fn"
    PROVE  ListsKept(Front(s), Last(s).saved)
<1> DEFINE n == Len(s)
           t == Front(s)
           e == Last(s).saved
<1>1. /\ n \in Nat \ {0} /\ Last(s) = s[n] /\ Len(t) = n - 1
      /\ \A i \in 1..(n - 1) : t[i] = s[i]
  BY SeqFacts
<1> HIDE DEF t
<1>2. FnsIn(s) = FnsIn(t) \cup {n} /\ FnsIn(t) \subseteq 1..(n - 1)
  <2>1. 1..n = 1..(n - 1) \cup {n}
    BY <1>1
  <2> QED
    BY <1>1, <2>1 DEF FnsIn
<1>3. ASSUME NEW y \in Levels(t)
      PROVE  /\ y \in Levels(s) /\ y \in 1..n /\ ListAt(t, e, y) = ListAt(s, d, y)
             /\ Lowest(t, y) => Lowest(s, y)
             /\ \A i \in FnsIn(t) : Follows(t, i, y) => Follows(s, i, y)
  <2>1. y \in Levels(s) /\ y \in 1..n /\ y <= n
    BY <1>1, <1>2 DEF Levels
  <2>2. ListAt(t, e, y) = ListAt(s, d, y)
    <3>1. CASE y = n
      BY <1>1, <3>1 DEF ListAt
    <3>2. CASE y # n
      <4>1. y \in 1..(n - 1) /\ y # n + 1
        BY <1>1, <2>1, <3>2
      <4> QED
        BY <1>1, <3>2, <4>1 DEF ListAt
    <3> QED
      BY <3>1, <3>2
  <2>3. Lowest(t, y) => Lowest(s, y)
    BY <1>2, <2>1 DEF Lowest
  <2>4. \A i \in FnsIn(t) : Follows(t, i, y) => Follows(s, i, y)
    BY <1>2, <2>1 DEF Follows
  <2> QED
    BY <2>1, <2>2, <2>3, <2>4
<1>4. \A i \in FnsIn(t) : t[i] = s[i] /\ i \in FnsIn(s)
  BY <1>1, <1>2
<1> QED
  BY <1>3, <1>4 DEF ListsKept, t, e

(* The innermost call goes on: its parameters are bound, it defers a body,  *)
(* or it exits. *)
LEMMA ListsTop ==
    ASSUME NEW s \in Seq(Frame), NEW t \in Seq(Frame), NEW d, NEW e, ListsKept(s, d),
           Len(t) = Len(s), FnsIn(t) = FnsIn(s),
           NEW c \in FnsIn(s), \A i \in FnsIn(s) : i <= c,
           \A i \in FnsIn(s) : t[i].saved = s[i].saved /\ (i # c => t[i].phase = s[i].phase),
           t[c].phase = "defers" => e = t[c].saved,
           t[c].phase = "bind" => e = <<>>
    PROVE  ListsKept(t, e)
<1> DEFINE n == Len(s)
<1>1. FnsIn(s) \subseteq 1..n /\ n \in Nat /\ Levels(t) = Levels(s) /\ Levels(s) = FnsIn(s) \cup {n + 1}
  BY LevelsOf DEF Levels
<1>2. ASSUME NEW y \in FnsIn(s) PROVE ListAt(t, e, y) = ListAt(s, d, y)
  BY <1>1 DEF ListAt
<1>3. ASSUME NEW y \in Levels(t), Lowest(t, y) PROVE ListAt(t, e, y) = <<>>
  <2>1. y \in FnsIn(s)
    BY <1>1, <1>3 DEF Lowest
  <2>2. Lowest(s, y) /\ y \in Levels(s)
    BY <1>1, <1>3 DEF Lowest
  <2> QED
    BY <1>2, <2>1, <2>2 DEF ListsKept
<1>4. ASSUME NEW i \in FnsIn(t), NEW y \in Levels(t), Follows(t, i, y)
      PROVE  /\ t[i].phase = "defers" => ListAt(t, e, y) = t[i].saved
             /\ t[i].phase = "bind" => ListAt(t, e, y) = <<>>
  <2>1. CASE y \in FnsIn(s)
    <3>1. i # c /\ Follows(s, i, y) /\ i \in FnsIn(s) /\ y \in Levels(s)
      <4>1. i < y /\ y <= c /\ i \in 1..n /\ y \in 1..n /\ c \in 1..n
        BY <1>1, <1>4, <2>1 DEF Follows
      <4> QED
        BY <1>1, <1>4, <4>1 DEF Follows
    <3> QED
      BY <1>2, <2>1, <3>1 DEF ListsKept
  <2>2. CASE y = n + 1
    <3>1. i = c
      <4>1. c <= i \/ n + 1 <= c
        BY <1>4, <2>2 DEF Follows
      <4>2. i \in 1..n /\ c \in 1..n /\ i <= c
        BY <1>1
      <4> QED
        BY <1>1, <4>1, <4>2
    <3> QED
      BY <2>2, <3>1 DEF ListAt
  <2> QED
    BY <1>1, <2>1, <2>2
<1> QED
  BY <1>3, <1>4 DEF ListsKept

(* The same of the file. *)
LEMMA FilesCall ==
    ASSUME NEW s \in Seq(Frame), NEW f \in Files, FilesKept(s, f), NEW x \in Frame, x.kind = "fn",
           x.prev = IF x.file = NoFile THEN NoFile ELSE f
    PROVE  FilesKept(Append(s, x), IF x.file = NoFile THEN f ELSE x.file)
<1> DEFINE n == Len(s)
           t == Append(s, x)
           e == IF x.file = NoFile THEN f ELSE x.file
<1>1. n \in Nat /\ Len(t) = n + 1 /\ t[n + 1] = x /\ \A i \in 1..n : t[i] = s[i]
  BY AppendFacts
<1>2. f # NoFile
  BY FilesAssumption
<1> HIDE DEF t
<1>3. FnsIn(t) = FnsIn(s) \cup {n + 1} /\ FnsIn(s) \subseteq 1..n
  <2>1. 1..(n + 1) = 1..n \cup {n + 1}
    BY <1>1
  <2> QED
    BY <1>1, <2>1 DEF FnsIn
<1>4. /\ \A i \in FnsIn(s) : t[i] = s[i] /\ (i \in WithFile(t) <=> i \in WithFile(s))
      /\ n + 1 \in WithFile(t) <=> x.file # NoFile
      /\ WithFile(s) \subseteq FnsIn(s) /\ WithFile(t) \subseteq FnsIn(t)
      /\ FnsIn(s) \subseteq 1..n
  BY <1>1, <1>3 DEF WithFile
<1>5. ASSUME NEW k \in Nat, k <= n + 1, NEW v PROVE FileBelow(s, k, v) => FileBelow(t, k, v)
  <2>1. \A j \in WithFile(t) : j < k => j \in WithFile(s) /\ t[j] = s[j]
    BY <1>1, <1>3, <1>4, <1>5
  <2>2. \A j \in WithFile(t) : j \in WithFile(s) \/ k <= j
    BY <1>1, <1>3, <1>4, <1>5
  <2>3. CASE v = MainFile /\ \A j \in WithFile(s) : k <= j
    BY <2>2, <2>3 DEF FileBelow
  <2>4. CASE \E j \in WithFile(s) : j < k /\ v = s[j].file /\ \A i \in WithFile(s) : i < k => i <= j
    <3>1. PICK j \in WithFile(s) : j < k /\ v = s[j].file /\ \A i \in WithFile(s) : i < k => i <= j
      BY <2>4
    <3>2. j \in WithFile(t) /\ t[j] = s[j]
      BY <1>4
    <3>3. \A i \in WithFile(t) : i < k => i <= j
      BY <2>1, <3>1
    <3> QED
      BY <3>1, <3>2, <3>3 DEF FileBelow
  <2> QED
    BY <2>3, <2>4 DEF FileBelow
<1>6. FileBelow(t, n + 2, e)
  <2>1. CASE x.file # NoFile
    <3>1. n + 1 \in WithFile(t) /\ n + 1 < n + 2 /\ e = t[n + 1].file
      BY <1>1, <1>4, <2>1
    <3>2. \A i \in WithFile(t) : i <= n + 1
      BY <1>1, <1>3, <1>4
    <3> QED
      BY <3>1, <3>2 DEF FileBelow
  <2>2. CASE x.file = NoFile
    <3>1. FileBelow(t, n + 1, f)
      BY <1>1, <1>5 DEF FilesKept
    <3>2. \A i \in WithFile(t) : i < n + 1
      BY <1>1, <1>3, <1>4, <2>2
    <3>3. CASE f = MainFile /\ \A j \in WithFile(t) : n + 1 <= j
      <4>1. WithFile(t) = {}
        BY <1>1, <1>3, <1>4, <3>2, <3>3
      <4> QED
        BY <2>2, <3>3, <4>1 DEF FileBelow
    <3>4. CASE \E j \in WithFile(t) : j < n + 1 /\ f = t[j].file /\ \A i \in WithFile(t) : i < n + 1 => i <= j
      <4>1. PICK j \in WithFile(t) : f = t[j].file /\ \A i \in WithFile(t) : i < n + 1 => i <= j
        BY <3>4
      <4>2. j < n + 2
        BY <1>1, <1>3, <1>4
      <4>3. \A i \in WithFile(t) : i <= j
        BY <3>2, <4>1
      <4> QED
        BY <2>2, <4>1, <4>2, <4>3 DEF FileBelow
    <3> QED
      BY <3>1, <3>3, <3>4 DEF FileBelow
  <2> QED
    BY <2>1, <2>2
<1>7. \A i \in FnsIn(t) : t[i].file = NoFile => t[i].prev = NoFile
  BY <1>1, <1>3, <1>4 DEF FilesKept
<1>8. ASSUME NEW i \in WithFile(t) PROVE t[i].prev # NoFile /\ FileBelow(t, i, t[i].prev)
  <2>1. CASE i \in FnsIn(s)
    <3>1. i \in WithFile(s) /\ t[i] = s[i] /\ i \in Nat /\ i <= n + 1
      BY <1>1, <1>4, <2>1
    <3>2. s[i].prev # NoFile /\ FileBelow(s, i, s[i].prev)
      BY <3>1 DEF FilesKept
    <3> QED
      BY <1>5, <3>1, <3>2
  <2>2. CASE i = n + 1
    <3>1. t[i].prev = f /\ FileBelow(s, n + 1, f) /\ n + 1 \in Nat /\ n + 1 <= n + 1
      BY <1>1, <1>4, <2>2 DEF FilesKept
    <3>2. FileBelow(t, n + 1, f)
      BY <1>5, <3>1
    <3> QED
      BY <1>2, <2>2, <3>1, <3>2
  <2> QED
    BY <1>3, <1>4, <2>1, <2>2
<1>9. n + 2 = Len(t) + 1
  BY <1>1
<1> QED
  BY <1>6, <1>7, <1>8, <1>9 DEF FilesKept, t, e

(* The stacks have the same calls, at the same places. *)
LEMMA FilesFrame ==
    ASSUME NEW s \in Seq(Frame), NEW t \in Seq(Frame), NEW f, FilesKept(s, f), FnsIn(t) = FnsIn(s),
           \A i \in FnsIn(s) : t[i].file = s[i].file /\ t[i].prev = s[i].prev
    PROVE  FilesKept(t, f)
<1> DEFINE n == Len(s)
           m == Len(t)
<1>1. FnsIn(s) \subseteq 1..n /\ FnsIn(s) \subseteq 1..m /\ n \in Nat /\ m \in Nat
  BY LevelsOf
<1>2. WithFile(t) = WithFile(s) /\ WithFile(s) \subseteq FnsIn(s)
  BY DEF WithFile
<1>3. \A j \in WithFile(s) : j < n + 1 /\ j < m + 1 /\ ~(n + 1 <= j) /\ t[j].file = s[j].file
  BY <1>1, <1>2
<1>4. FileBelow(t, m + 1, f)
  <2>1. FileBelow(s, n + 1, f)
    BY DEF FilesKept
  <2>2. CASE f = MainFile /\ \A j \in WithFile(s) : n + 1 <= j
    BY <1>2, <1>3, <2>2 DEF FileBelow
  <2>3. CASE \E j \in WithFile(s) : j < n + 1 /\ f = s[j].file /\ \A i \in WithFile(s) : i < n + 1 => i <= j
    BY <1>2, <1>3, <2>3 DEF FileBelow
  <2> QED
    BY <2>1, <2>2, <2>3 DEF FileBelow
<1>5. ASSUME NEW k, NEW v PROVE FileBelow(s, k, v) => FileBelow(t, k, v)
  BY <1>2, <1>3 DEF FileBelow
<1> QED
  BY <1>2, <1>4, <1>5 DEF FilesKept

LEMMA FilesReturn ==
    ASSUME NEW s \in Seq(Frame), NEW f, FilesKept(s, f), s # <<>>, Last(s).kind = "fn"
    PROVE  FilesKept(Front(s), IF Last(s).prev = NoFile THEN f ELSE Last(s).prev)
<1> DEFINE n == Len(s)
           t == Front(s)
           e == IF Last(s).prev = NoFile THEN f ELSE Last(s).prev
<1>1. /\ n \in Nat \ {0} /\ Last(s) = s[n] /\ Len(t) = n - 1
      /\ \A i \in 1..(n - 1) : t[i] = s[i]
  BY SeqFacts
<1> HIDE DEF t
<1>2. FnsIn(s) = FnsIn(t) \cup {n} /\ FnsIn(t) \subseteq 1..(n - 1) /\ n \in FnsIn(s)
  <2>1. 1..n = 1..(n - 1) \cup {n}
    BY <1>1
  <2> QED
    BY <1>1, <2>1 DEF FnsIn
<1>3. /\ \A i \in FnsIn(t) : t[i] = s[i] /\ (i \in WithFile(t) <=> i \in WithFile(s)) /\ i < n
      /\ n \in WithFile(s) <=> s[n].file # NoFile
      /\ WithFile(s) \subseteq FnsIn(s) /\ WithFile(t) \subseteq FnsIn(t)
      /\ \A i \in WithFile(s) : i \in WithFile(t) \/ i = n
  BY <1>1, <1>2 DEF WithFile
<1>4. ASSUME NEW k \in Nat, k <= n, NEW v PROVE FileBelow(s, k, v) => FileBelow(t, k, v)
  <2>1. CASE v = MainFile /\ \A j \in WithFile(s) : k <= j
    BY <1>3, <2>1 DEF FileBelow
  <2>2. CASE \E j \in WithFile(s) : j < k /\ v = s[j].file /\ \A i \in WithFile(s) : i < k => i <= j
    <3>1. PICK j \in WithFile(s) : j < k /\ v = s[j].file /\ \A i \in WithFile(s) : i < k => i <= j
      BY <2>2
    <3>2. j # n
      BY <1>1, <1>4, <3>1
    <3>3. j \in WithFile(t) /\ t[j] = s[j]
      BY <1>3, <3>2
    <3> QED
      BY <1>3, <3>1, <3>3 DEF FileBelow
  <2> QED
    BY <2>1, <2>2 DEF FileBelow
<1>5. FileBelow(t, n, e)
  <2>1. CASE s[n].file # NoFile
    <3>1. s[n].prev # NoFile /\ FileBelow(s, n, s[n].prev)
      BY <1>3, <2>1 DEF FilesKept
    <3>2. e = s[n].prev
      BY <1>1, <3>1
    <3> QED
      BY <1>1, <1>4, <3>1, <3>2
  <2>2. CASE s[n].file = NoFile
    <3>1. s[n].prev = NoFile /\ FileBelow(s, n + 1, f)
      BY <1>2, <2>2 DEF FilesKept
    <3>2. e = f
      BY <1>1, <3>1
    <3>3. \A j \in WithFile(s) : j \in WithFile(t) /\ j < n /\ j < n + 1 /\ ~(n + 1 <= j) /\ t[j] = s[j]
      <4> SUFFICES ASSUME NEW j \in WithFile(s)
                   PROVE  j \in WithFile(t) /\ j < n /\ j < n + 1 /\ ~(n + 1 <= j) /\ t[j] = s[j]
        OBVIOUS
      <4>1. j \in WithFile(t) /\ j \in FnsIn(t)
        BY <1>3, <2>2
      <4>2. j \in 1..(n - 1) /\ t[j] = s[j]
        BY <1>2, <1>3, <4>1
      <4> QED
        BY <1>1, <4>1, <4>2
    <3>4. CASE f = MainFile /\ \A j \in WithFile(s) : n + 1 <= j
      BY <1>3, <3>2, <3>3, <3>4 DEF FileBelow
    <3>5. CASE \E j \in WithFile(s) : j < n + 1 /\ f = s[j].file /\ \A i \in WithFile(s) : i < n + 1 => i <= j
      BY <1>3, <3>2, <3>3, <3>5 DEF FileBelow
    <3> QED
      BY <3>1, <3>4, <3>5 DEF FileBelow
  <2> QED
    BY <2>1, <2>2
<1>6. \A i \in FnsIn(t) : t[i].file = NoFile => t[i].prev = NoFile
  BY <1>2, <1>3 DEF FilesKept
<1>7. ASSUME NEW i \in WithFile(t) PROVE t[i].prev # NoFile /\ FileBelow(t, i, t[i].prev)
  <2>1. i \in WithFile(s) /\ t[i] = s[i] /\ i \in Nat /\ i <= n
    BY <1>1, <1>2, <1>3
  <2>2. s[i].prev # NoFile /\ FileBelow(s, i, s[i].prev)
    BY <2>1 DEF FilesKept
  <2> QED
    BY <1>4, <2>1, <2>2
<1>8. n = Len(t) + 1
  BY <1>1
<1> QED
  BY <1>5, <1>6, <1>7, <1>8 DEF FilesKept, t, e

-----------------------------------------------------------------------------
(* What a step does to the stack (s becomes t), to the list of deferred     *)
(* bodies (d becomes e) and to the file (f becomes h). *)

Enters(s, d, f, t, e, h) ==
    \E x \in Frame :
        /\ x.kind = "fn" /\ x.call = Len(s) + 1 /\ x.phase = "bind" /\ x.saved = d
        /\ x.prev = IF x.file = NoFile THEN NoFile ELSE f
        /\ t = Append(s, x) /\ e = <<>> /\ h = IF x.file = NoFile THEN f ELSE x.file

Stacks(s, t) ==
    \E x \in Frame :
        /\ x.kind \notin {"base", "case", "fn"} /\ x.phase # "defers"
        /\ \/ x.kind = "new" /\ x.call = Len(s) + 1
           \/ /\ x.kind \in {"block", "scope"} /\ x.call = Last(s).call
              /\ Last(s).phase = "body" /\ Last(s).kind # "base"
        /\ t = Append(s, x)

Leaves(s, f, t, e, h) ==
    /\ Last(s).kind = "fn"
    /\ \/ Last(s).phase = "bind"
       \/ Last(s).phase = "defers" /\ Last(s).todo = <<>>
    /\ t = Front(s) /\ e = Last(s).saved
    /\ h = IF Last(s).prev = NoFile THEN f ELSE Last(s).prev

Unstacks(s, t) == Last(s).kind \notin {"base", "fn"} /\ t = Front(s)

Binds(s, t) ==
    /\ Last(s).phase = "bind"
    /\ t = [s EXCEPT ![Len(s)] = [Last(s) EXCEPT !.phase = "body"]]

Exits(s, d, t, e) ==
    /\ Last(s).kind = "fn" /\ Last(s).phase = "body"
    /\ t = [s EXCEPT ![Len(s)] = [Last(s) EXCEPT !.phase = "defers", !.todo = d]]
    /\ e = Last(s).saved

RunsOne(s, t) ==
    /\ Last(s).phase = "defers" /\ Last(s).todo # <<>>
    /\ \E x \in Frame :
          /\ x.kind = "defer" /\ x.call = Len(s) /\ x.phase = "body"
          /\ t = Append([s EXCEPT ![Len(s)] = [Last(s) EXCEPT !.todo = Front(Last(s).todo)]], x)

Defers(s, d, e) ==
    /\ Len(s) > 1 /\ Last(s).phase = "body"
    /\ s[Last(s).call].kind # "new" /\ s[Last(s).call].phase # "defers"
    /\ \E y \in DeferEntry : e = Append(d, y)

Moves(s, d, f, t, e, h) ==
    \/ Enters(s, d, f, t, e, h)
    \/ Leaves(s, f, t, e, h)
    \/ Stacks(s, t) /\ e = d /\ h = f
    \/ Unstacks(s, t) /\ e = d /\ h = f
    \/ Binds(s, t) /\ e = d /\ h = f
    \/ Exits(s, d, t, e) /\ h = f
    \/ RunsOne(s, t) /\ e = d /\ h = f
    \/ Defers(s, d, e) /\ t = s /\ h = f
    \/ t = s /\ e = d /\ h = f

LEMMA MainFacts ==
    ASSUME TypeInv, CallsInv
    PROVE  /\ frames[Main] \in Seq(Frame) /\ frames[Main] # <<>> /\ Main \in Goroutines
           /\ Top(Main) \in Frame /\ Top(Main) = Last(frames[Main])
           /\ Depth(Main) = Len(frames[Main]) /\ Depth(Main) \in Nat \ {0}
           /\ Last(frames[Main]) = frames[Main][Depth(Main)]
           /\ Depth(Main) \in 1..Depth(Main)
           /\ Top(Main).saved \in Seq(DeferEntry) /\ Top(Main).todo \in Seq(DeferEntry)
           /\ defers \in Seq(DeferEntry) /\ filename \in Files
<1>1. TypeOK /\ frames[Main] # <<>> /\ Main \in Goroutines
  BY GoroutinesAssumption DEF TypeInv, CallsInv, Framed
<1>2. frames[Main] \in Seq(Frame) /\ Top(Main) \in Frame /\ Depth(Main) \in Nat \ {0}
      /\ Top(Main) = frames[Main][Depth(Main)]
  BY <1>1, TopFacts, FramesOf
<1>3. Depth(Main) \in 1..Depth(Main)
  BY <1>2
<1>4. Top(Main).saved \in Seq(DeferEntry) /\ Top(Main).todo \in Seq(DeferEntry)
  BY <1>2 DEF Frame
<1> QED
  BY <1>1, <1>2, <1>3, <1>4 DEF Top, Depth, TypeOK

(* A call that exits finds its caller's list in Interpreter.defers. *)
LEMMA ListAtExit ==
    ASSUME NEW s \in Seq(Frame), NEW d, ListsKept(s, d), s # <<>>, Last(s).kind = "fn"
    PROVE  /\ Last(s).phase = "defers" => d = Last(s).saved
           /\ Last(s).phase = "bind" => d = <<>>
<1> DEFINE n == Len(s)
<1>1. n \in Nat \ {0} /\ Last(s) = s[n]
  BY SeqFacts
<1>2. n \in FnsIn(s) /\ n + 1 \in Levels(s) /\ FnsIn(s) \subseteq 1..n
  BY <1>1 DEF FnsIn, Levels
<1>3. Follows(s, n, n + 1)
  BY <1>1, <1>2 DEF Follows
<1>4. ListAt(s, d, n + 1) = d
  BY DEF ListAt
<1> QED
  BY <1>1, <1>2, <1>3, <1>4 DEF ListsKept

LEMMA SoloStep ==
    ASSUME OneAtATime, TypeInv, TypeInv', CallsInv, Step(Main)
    PROVE  Moves(frames[Main], defers, filename, frames'[Main], defers', filename')
<1> DEFINE s == frames[Main]
           n == Len(s)
           t == frames'[Main]
<1> SUFFICES Moves(s, defers, filename, t, defers', filename')
  OBVIOUS
<1>1. /\ s \in Seq(Frame) /\ s # <<>> /\ Main \in Goroutines
      /\ Top(Main) \in Frame /\ Top(Main) = Last(s)
      /\ Depth(Main) = n /\ n \in Nat \ {0} /\ n \in 1..n /\ Last(s) = s[n]
      /\ Last(s).saved \in Seq(DeferEntry) /\ Last(s).todo \in Seq(DeferEntry)
      /\ defers \in Seq(DeferEntry) /\ filename \in Files
  BY MainFacts
<1>2. TypeOK /\ frames \in [Goroutines -> Seq(Frame)] /\ Framed(s) /\ ListsKept(s, defers)
  BY DEF TypeInv, TypeOK, CallsInv
<1>3. ASSUME NEW f \in fns, Call(Main, f) PROVE Enters(s, defers, filename, t, defers', filename')
  <2>1. f.env \in Envs /\ f.file \in Files \cup {NoFile}
    BY <1>2 DEF TypeOK, Function
  <2>2. PICK e \in Envs :
         Push(Main, [NewFrame("fn", Depth(Main) + 1, e) EXCEPT
                       !.file = f.file,
                       !.prev = IF f.file = NoFile THEN NoFile ELSE filename,
                       !.saved = defers,
                       !.phase = "bind"])
    BY <1>3 DEF Call
  <2> DEFINE x == [NewFrame("fn", n + 1, e) EXCEPT
                       !.file = f.file,
                       !.prev = IF f.file = NoFile THEN NoFile ELSE filename,
                       !.saved = defers,
                       !.phase = "bind"]
  <2>3. NewFrame("fn", n + 1, e) \in Frame
    BY <1>1, NewFrameType DEF FrameKinds
  <2>4. x \in Frame
    BY <1>1, <2>1, <2>3 DEF Frame, Phases
  <2>5. /\ x.kind = "fn" /\ x.call = n + 1 /\ x.phase = "bind" /\ x.saved = defers
        /\ x.file = f.file /\ x.prev = IF f.file = NoFile THEN NoFile ELSE filename
    BY DEF NewFrame
  <2>6. t = Append(s, x)
    BY <1>1, <1>2, <2>2 DEF Push
  <2>7. defers' = <<>> /\ filename' = IF f.file = NoFile THEN filename ELSE f.file
    BY <1>3 DEF Call
  <2> HIDE DEF x, s, t, n
  <2> QED
    BY <2>4, <2>5, <2>6, <2>7 DEF Enters, n
<1>4. ASSUME BindFails(Main) \/ Return(Main) PROVE Leaves(s, filename, t, defers', filename')
  <2>1. t = Front(s) /\ filename' = IF Last(s).prev = NoFile THEN filename ELSE Last(s).prev
    <3>1. /\ frames' = [frames EXCEPT ![Main] = Front(@)]
          /\ filename' = IF Top(Main).prev = NoFile THEN filename ELSE Top(Main).prev
      BY <1>4 DEF BindFails, Return, LeaveCall, Pop
    <3> QED
      BY <1>1, <1>2, <3>1
  <2>2. CASE BindFails(Main)
    <3>1. Last(s).phase = "bind" /\ Last(s).kind = "fn" /\ defers' = Last(s).saved
      BY <1>1, <2>2 DEF BindFails
    <3> QED
      BY <2>1, <3>1 DEF Leaves
  <2>3. CASE Return(Main)
    <3>1. Last(s).phase = "defers" /\ Last(s).todo = <<>> /\ defers' = defers
      BY <1>1, <2>3 DEF Return
    <3>2. Last(s).kind = "fn"
      BY <1>1, <1>2, <3>1 DEF Framed
    <3>3. defers = Last(s).saved
      BY <1>1, <1>2, <3>1, <3>2, ListAtExit
    <3> QED
      BY <2>1, <3>1, <3>2, <3>3 DEF Leaves
  <2> QED
    BY <1>4, <2>2, <2>3
<1>5. ASSUME \/ \E f \in fns : Construct(Main, f)
             \/ EnterBlock(Main) \/ EnterScope(Main)
      PROVE  Stacks(s, t) /\ defers' = defers /\ filename' = filename
  <2>1. CASE \E f \in fns : Construct(Main, f)
    <3>1. PICK e \in Envs : Push(Main, [NewFrame("new", n + 1, e) EXCEPT !.phase = "bind"])
      BY <1>1, <2>1 DEF Construct
    <3> DEFINE x == [NewFrame("new", n + 1, e) EXCEPT !.phase = "bind"]
    <3>2. NewFrame("new", n + 1, e) \in Frame
      BY <1>1, NewFrameType DEF FrameKinds
    <3>3. x \in Frame
      BY <3>2 DEF Frame, Phases
    <3>4. x.kind = "new" /\ x.call = n + 1 /\ x.phase = "bind"
      BY DEF NewFrame
    <3>5. t = Append(s, x)
      BY <1>1, <1>2, <3>1 DEF Push
    <3>6. defers' = defers /\ filename' = filename
      BY <2>1 DEF Construct, interpVars
    <3> HIDE DEF x, s, t, n
    <3> QED
      BY <3>3, <3>4, <3>5, <3>6 DEF Stacks, n
  <2>2. CASE EnterBlock(Main) \/ EnterScope(Main)
    <3>1. PICK e \in Envs, k \in {"block", "scope"} : Push(Main, NewFrame(k, Last(s).call, e))
      BY <1>1, <2>2 DEF EnterBlock, EnterScope
    <3> DEFINE x == NewFrame(k, Last(s).call, e)
    <3>2. x \in Frame
      <4>1. Last(s).call \in Nat /\ k \in FrameKinds
        BY <1>1 DEF Frame, FrameKinds
      <4> QED
        BY <4>1, NewFrameType
    <3>3. x.kind = k /\ x.call = Last(s).call /\ x.phase = "body"
      BY DEF NewFrame
    <3>4. t = Append(s, x)
      BY <1>1, <1>2, <3>1 DEF Push
    <3>5. defers' = defers /\ filename' = filename
      BY <2>2 DEF EnterBlock, EnterScope, interpVars
    <3>6. Last(s).phase = "body" /\ Last(s).kind # "base"
      BY <1>1, <2>2 DEF EnterBlock, EnterScope, Executing
    <3> HIDE DEF x, s, t, n
    <3> QED
      BY <3>2, <3>3, <3>4, <3>5, <3>6 DEF Stacks, n
  <2> QED
    BY <1>5, <2>1, <2>2
<1>6. ASSUME Constructed(Main) \/ LeaveBlock(Main) \/ LeaveScope(Main) \/ DeferEnds(Main)
      PROVE  Unstacks(s, t) /\ defers' = defers /\ filename' = filename
  <2>1. t = Front(s) /\ defers' = defers /\ filename' = filename
    BY <1>1, <1>2, <1>6 DEF Constructed, LeaveBlock, LeaveScope, DeferEnds, Pop, interpVars
  <2>2. Last(s).kind \notin {"base", "fn"}
    BY <1>1, <1>6 DEF Constructed, LeaveBlock, LeaveScope, DeferEnds
  <2> QED
    BY <2>1, <2>2 DEF Unstacks
<1>7. ASSUME ParamsBound(Main) PROVE Binds(s, t) /\ defers' = defers /\ filename' = filename
  BY <1>1, <1>2, <1>7 DEF ParamsBound, SetPhase, interpVars, Binds
<1>8. ASSUME BodyEnds(Main) PROVE Exits(s, defers, t, defers') /\ filename' = filename
  <2>1. Last(s).kind = "fn" /\ Last(s).phase = "body" /\ defers' = Last(s).saved /\ filename' = filename
    BY <1>1, <1>8 DEF BodyEnds, Executing
  <2>2. t = [s EXCEPT ![n].phase = "defers", ![n].todo = defers]
    BY <1>1, <1>2, <1>8 DEF BodyEnds
  <2>3. t = [s EXCEPT ![n] = [s[n] EXCEPT !.phase = "defers", !.todo = defers]]
    BY <1>1, <2>2
  <2> QED
    BY <1>1, <2>1, <2>3 DEF Exits
<1>9. ASSUME RunDefer(Main) PROVE RunsOne(s, t) /\ defers' = defers /\ filename' = filename
  <2>1. Last(s).todo # <<>> /\ Last(s).phase = "defers" /\ defers' = defers /\ filename' = filename
    BY <1>1, <1>9 DEF RunDefer, interpVars
  <2> DEFINE x == NewFrame("defer", n, Last(Last(s).todo).env)
  <2>2. Last(Last(s).todo) \in DeferEntry
    BY <1>1, <2>1, SeqFacts
  <2>3. x \in Frame
    <3>1. Last(Last(s).todo).env \in Envs
      BY <2>2 DEF DeferEntry
    <3> QED
      BY <1>1, <3>1, NewFrameType DEF FrameKinds
  <2>4. x.kind = "defer" /\ x.call = n /\ x.phase = "body"
    BY DEF NewFrame
  <2>5. t = Append([s EXCEPT ![n].todo = Front(Last(s).todo)], x)
    BY <1>1, <1>2, <1>9 DEF RunDefer
  <2>6. [s EXCEPT ![n].todo = Front(Last(s).todo)] = [s EXCEPT ![n] = [Last(s) EXCEPT !.todo = Front(Last(s).todo)]]
    BY <1>1
  <2>7. t = Append([s EXCEPT ![n] = [Last(s) EXCEPT !.todo = Front(Last(s).todo)]], x)
    BY <2>5, <2>6
  <2> HIDE DEF x, s, t, n
  <2> QED
    BY <2>1, <2>3, <2>4, <2>7 DEF RunsOne, n
<1>10. ASSUME NEW site \in Sites, Defer(Main, site) PROVE Defers(s, defers, defers') /\ t = s /\ filename' = filename
  <2>1. /\ Last(s).phase = "body" /\ Last(s).kind # "base" /\ frames' = frames /\ filename' = filename
        /\ DeferKind(Main) \notin {"newdefer", "nesteddefer"}
    BY <1>1, <1>10 DEF Defer, Executing, OneAtATime
  <2>2. s[Last(s).call].kind # "new" /\ s[Last(s).call].phase # "defers"
    BY <1>1, <2>1 DEF DeferKind
  <2>3. Len(s) > 1
    BY <1>1, <1>2, <2>1 DEF Framed
  <2> DEFINE y == [env |-> Top(Main).env, site |-> site, by |-> <<Main, Top(Main).call>>]
  <2>4. y \in DeferEntry
    BY <1>1 DEF DeferEntry, Frame
  <2>5. defers' = Append(defers, y)
    BY <1>10 DEF Defer
  <2> HIDE DEF y
  <2> QED
    BY <2>1, <2>2, <2>3, <2>4, <2>5 DEF Defers
<1>11. ASSUME \/ \E why \in {"fn", "hoist", "spawn"} : BeginMark(Main, why)
              \/ MarkStep(Main) \/ MakeFunction(Main) \/ Component(Main)
       PROVE  t = s /\ defers' = defers /\ filename' = filename
  BY <1>11 DEF BeginMark, MarkStep, MakeFunction, Component, interpVars
<1>12. ASSUME \/ \E h \in Goroutines : Spawn(Main, h)
              \/ GoroutineEnds(Main) \/ Panic(Main)
       PROVE  FALSE
  BY <1>1, <1>12 DEF Spawn, GoroutineEnds, Panic, OneAtATime
<1>13. ASSUME \/ \E cases \in SUBSET (Goroutines \ {Main}) : Select(Main, cases)
              \/ SelectCase(Main)
       PROVE  FALSE
  <2>1. CASE \E cases \in SUBSET (Goroutines \ {Main}) : Select(Main, cases)
    BY <2>1 DEF Select, OneAtATime
  <2>2. CASE SelectCase(Main)
    <3>1. Top(Main).cases \subseteq {Main}
      BY <1>1 DEF Frame, OneAtATime
    <3> QED
      BY <1>1, <2>2, <3>1 DEF SelectCase
  <2> QED
    BY <1>13, <2>1, <2>2
<1> HIDE DEF s, t, n
<1>14. CASE (\E f \in fns : Call(Main, f)) \/ BindFails(Main) \/ Return(Main)
  BY <1>3, <1>4, <1>14 DEF Moves
<1>15. CASE \/ \E f \in fns : Construct(Main, f)
            \/ EnterBlock(Main) \/ EnterScope(Main)
            \/ Constructed(Main) \/ LeaveBlock(Main) \/ LeaveScope(Main) \/ DeferEnds(Main)
  BY <1>5, <1>6, <1>15 DEF Moves
<1>16. CASE ParamsBound(Main) \/ BodyEnds(Main) \/ RunDefer(Main) \/ \E site \in Sites : Defer(Main, site)
  BY <1>7, <1>8, <1>9, <1>10, <1>16 DEF Moves
<1>17. CASE \/ \E why \in {"fn", "hoist", "spawn"} : BeginMark(Main, why)
            \/ MarkStep(Main) \/ MakeFunction(Main) \/ Component(Main)
  BY <1>11, <1>17 DEF Moves
<1> QED
  BY <1>12, <1>13, <1>14, <1>15, <1>16, <1>17 DEF Step

-----------------------------------------------------------------------------
(* Each kind of step keeps the invariant. *)

KeptBy(s, d, f) == Framed(s) /\ ListsKept(s, d) /\ FilesKept(s, f)

LEMMA FnsPlus ==
    ASSUME NEW s \in Seq(Frame), NEW x \in Frame
    PROVE  /\ x.kind # "fn" => FnsIn(Append(s, x)) = FnsIn(s)
           /\ x.kind = "fn" => FnsIn(Append(s, x)) = FnsIn(s) \cup {Len(s) + 1}
           /\ Append(s, x) \in Seq(Frame)
           /\ \A i \in FnsIn(s) : Append(s, x)[i] = s[i]
<1>1. /\ Len(s) \in Nat /\ Len(Append(s, x)) = Len(s) + 1 /\ Append(s, x) \in Seq(Frame)
      /\ Append(s, x)[Len(s) + 1] = x /\ \A i \in 1..Len(s) : Append(s, x)[i] = s[i]
  BY AppendFacts
<1>2. 1..(Len(s) + 1) = 1..Len(s) \cup {Len(s) + 1} /\ Len(s) + 1 \notin 1..Len(s)
  BY <1>1
<1> QED
  BY <1>1, <1>2 DEF FnsIn

LEMMA FnsMinus ==
    ASSUME NEW s \in Seq(Frame), s # <<>>
    PROVE  /\ Last(s).kind # "fn" => FnsIn(Front(s)) = FnsIn(s)
           /\ Last(s).kind = "fn" => /\ FnsIn(s) = FnsIn(Front(s)) \cup {Len(s)}
                                     /\ Len(s) = Len(Front(s)) + 1
           /\ Front(s) \in Seq(Frame)
           /\ \A i \in FnsIn(Front(s)) : Front(s)[i] = s[i]
<1>1. /\ Len(s) \in Nat \ {0} /\ Last(s) = s[Len(s)] /\ Len(Front(s)) = Len(s) - 1
      /\ Front(s) \in Seq(Frame)
      /\ \A i \in 1..(Len(s) - 1) : Front(s)[i] = s[i]
  BY SeqFacts
<1>2. 1..Len(s) = 1..(Len(s) - 1) \cup {Len(s)} /\ Len(s) \notin 1..(Len(s) - 1)
  BY <1>1
<1> QED
  BY <1>1, <1>2 DEF FnsIn

LEMMA FnsTop ==
    ASSUME NEW s \in Seq(Frame), s # <<>>, NEW x \in Frame, x.kind = Last(s).kind
    PROVE  /\ [s EXCEPT ![Len(s)] = x] \in Seq(Frame)
           /\ Len([s EXCEPT ![Len(s)] = x]) = Len(s)
           /\ FnsIn([s EXCEPT ![Len(s)] = x]) = FnsIn(s)
           /\ [s EXCEPT ![Len(s)] = x][Len(s)] = x
           /\ \A i \in FnsIn(s) : i # Len(s) => [s EXCEPT ![Len(s)] = x][i] = s[i]
           /\ Last([s EXCEPT ![Len(s)] = x]) = x
           /\ [s EXCEPT ![Len(s)] = x] # <<>>
<1> DEFINE n == Len(s)
           t == [s EXCEPT ![n] = x]
<1>1. n \in Nat \ {0} /\ Last(s) = s[n]
  BY SeqFacts
<1>2. n \in 1..n /\ DOMAIN s = 1..n
  BY <1>1
<1>3. t \in Seq(Frame) /\ Len(t) = n /\ t[n] = x /\ \A i \in 1..n : i # n => t[i] = s[i]
  <2>1. t[n] = x /\ \A i \in 1..n : i # n => t[i] = s[i]
    BY <1>2
  <2>2. t \in Seq(Frame) /\ Len(t) = n
    BY <1>2, ExceptSeq
  <2> QED
    BY <2>1, <2>2
<1> HIDE DEF t
<1>4. FnsIn(t) = FnsIn(s)
  BY <1>1, <1>3 DEF FnsIn
<1>5. t # <<>> /\ Last(t) = x
  BY <1>1, <1>3, EmptySeq DEF Last
<1> QED
  BY <1>3, <1>4, <1>5 DEF t, FnsIn

LEMMA EntersKeeps ==
    ASSUME NEW s \in Seq(Frame), NEW d, NEW f \in Files, KeptBy(s, d, f),
           NEW t, NEW e, NEW h, Enters(s, d, f, t, e, h)
    PROVE  KeptBy(t, e, h)
<1>1. PICK x \in Frame :
        /\ x.kind = "fn" /\ x.call = Len(s) + 1 /\ x.phase = "bind" /\ x.saved = d
        /\ x.prev = IF x.file = NoFile THEN NoFile ELSE f
        /\ t = Append(s, x) /\ e = <<>> /\ h = IF x.file = NoFile THEN f ELSE x.file
  BY DEF Enters
<1>2. Framed(t)
  BY <1>1, FramedAppend DEF KeptBy
<1>3. ListsKept(t, e)
  BY <1>1, ListsCall DEF KeptBy
<1>4. FilesKept(t, h)
  BY <1>1, FilesCall DEF KeptBy
<1> QED
  BY <1>2, <1>3, <1>4 DEF KeptBy

LEMMA LeavesKeeps ==
    ASSUME NEW s \in Seq(Frame), NEW d, NEW f, KeptBy(s, d, f),
           NEW t, NEW e, NEW h, Leaves(s, f, t, e, h)
    PROVE  KeptBy(t, e, h)
<1>1. s # <<>> /\ Last(s).kind = "fn"
  BY DEF KeptBy, Framed, Leaves
<1>2. Framed(t)
  BY <1>1, FramedFront DEF KeptBy, Leaves
<1>3. ListsKept(t, e)
  BY <1>1, ListsReturn DEF KeptBy, Leaves
<1>4. FilesKept(t, h)
  BY <1>1, FilesReturn DEF KeptBy, Leaves
<1> QED
  BY <1>2, <1>3, <1>4 DEF KeptBy

LEMMA StacksKeeps ==
    ASSUME NEW s \in Seq(Frame), NEW d, NEW f, KeptBy(s, d, f), NEW t, Stacks(s, t)
    PROVE  KeptBy(t, d, f)
<1>1. PICK x \in Frame :
        /\ x.kind \notin {"base", "case", "fn"} /\ x.phase # "defers"
        /\ \/ x.kind = "new" /\ x.call = Len(s) + 1
           \/ /\ x.kind \in {"block", "scope"} /\ x.call = Last(s).call
              /\ Last(s).phase = "body" /\ Last(s).kind # "base"
        /\ t = Append(s, x)
  BY DEF Stacks
<1>2. Framed(t)
  BY <1>1, FramedAppend DEF KeptBy
<1>3. FnsIn(t) = FnsIn(s) /\ t \in Seq(Frame) /\ \A i \in FnsIn(s) : t[i] = s[i]
  BY <1>1, FnsPlus
<1>4. ListsKept(t, d) /\ FilesKept(t, f)
  BY <1>3, ListsFrame, FilesFrame DEF KeptBy
<1> QED
  BY <1>2, <1>4 DEF KeptBy

LEMMA UnstacksKeeps ==
    ASSUME NEW s \in Seq(Frame), NEW d, NEW f, KeptBy(s, d, f), NEW t, Unstacks(s, t)
    PROVE  KeptBy(t, d, f)
<1>1. s # <<>> /\ Last(s).kind \notin {"base", "fn"} /\ t = Front(s)
  BY DEF KeptBy, Framed, Unstacks
<1>2. Framed(t)
  BY <1>1, FramedFront DEF KeptBy
<1>3. FnsIn(t) = FnsIn(s) /\ t \in Seq(Frame) /\ \A i \in FnsIn(s) : t[i] = s[i]
  BY <1>1, FnsMinus
<1>4. ListsKept(t, d) /\ FilesKept(t, f)
  BY <1>3, ListsFrame, FilesFrame DEF KeptBy
<1> QED
  BY <1>2, <1>4 DEF KeptBy

(* The top frame goes on: what it saved stays what it was. *)
LEMMA TopKeeps ==
    ASSUME NEW s \in Seq(Frame), NEW d, NEW f, KeptBy(s, d, f), NEW e, NEW x \in Frame,
           x.kind = Last(s).kind, x.call = Last(s).call, x.saved = Last(s).saved,
           x.file = Last(s).file, x.prev = Last(s).prev,
           x.phase = "defers" => x.kind = "fn",
           \/ x.kind # "fn" /\ e = d
           \/ /\ x.kind = "fn"
              /\ x.phase = "defers" => e = x.saved
              /\ x.phase = "bind" => e = <<>>
    PROVE  KeptBy([s EXCEPT ![Len(s)] = x], e, f)
<1> DEFINE n == Len(s)
           t == [s EXCEPT ![n] = x]
<1>1. s # <<>> /\ n \in Nat \ {0} /\ Last(s) = s[n]
  BY SeqFacts DEF KeptBy, Framed
<1>2. Framed(t)
  BY FramedRewritten DEF KeptBy
<1>3. /\ t \in Seq(Frame) /\ Len(t) = n /\ FnsIn(t) = FnsIn(s) /\ t[n] = x
      /\ \A i \in FnsIn(s) : i # n => t[i] = s[i]
  BY <1>1, FnsTop
<1> HIDE DEF t
<1>4. \A i \in FnsIn(s) : t[i].saved = s[i].saved /\ t[i].file = s[i].file /\ t[i].prev = s[i].prev
  BY <1>1, <1>3
<1>5. FilesKept(t, f)
  BY <1>3, <1>4, FilesFrame DEF KeptBy
<1>6. CASE x.kind # "fn" /\ e = d
  <2>1. n \notin FnsIn(s)
    BY <1>1, <1>6 DEF FnsIn
  <2>2. \A i \in FnsIn(s) : t[i].phase = s[i].phase
    BY <1>3, <2>1
  <2>3. ListsKept(t, e)
    BY <1>3, <1>4, <1>6, <2>2, ListsFrame DEF KeptBy
  <2> QED
    BY <1>2, <1>5, <2>3 DEF KeptBy, t
<1>7. CASE x.kind = "fn" /\ (x.phase = "defers" => e = x.saved) /\ (x.phase = "bind" => e = <<>>)
  <2>1. n \in FnsIn(s) /\ \A i \in FnsIn(s) : i <= n
    BY <1>1, <1>7 DEF FnsIn
  <2>2. \A i \in FnsIn(s) : i # n => t[i].phase = s[i].phase
    BY <1>3
  <2>3. ListsKept(s, d)
    BY DEF KeptBy
  <2>4. ListsKept(t, e)
    BY <1>3, <1>4, <1>7, <2>1, <2>2, <2>3, ListsTop
  <2> QED
    BY <1>2, <1>5, <2>4 DEF KeptBy, t
<1> QED
  BY <1>6, <1>7

LEMMA MovesKeep ==
    ASSUME NEW s \in Seq(Frame), NEW d \in Seq(DeferEntry), NEW f \in Files, KeptBy(s, d, f),
           NEW t, NEW e, NEW h, Moves(s, d, f, t, e, h)
    PROVE  KeptBy(t, e, h)
<1> DEFINE n == Len(s)
           a == Last(s)
<1>1. s # <<>> /\ n \in Nat \ {0} /\ a = s[n] /\ a \in Frame /\ Framed(s) /\ ListsKept(s, d)
  BY SeqFacts DEF KeptBy, Framed
<1>2. n \in 1..n
  BY <1>1
<1>3. /\ a.kind = "fn" /\ a.phase = "defers" => d = a.saved
      /\ a.kind = "fn" /\ a.phase = "bind" => d = <<>>
      /\ a.phase = "defers" => a.kind = "fn"
  BY <1>1, <1>2, ListAtExit DEF Framed
<1>4. CASE Enters(s, d, f, t, e, h)
  BY <1>4, EntersKeeps
<1>5. CASE Leaves(s, f, t, e, h)
  BY <1>5, LeavesKeeps
<1>6. CASE Stacks(s, t) /\ e = d /\ h = f
  BY <1>6, StacksKeeps
<1>7. CASE Unstacks(s, t) /\ e = d /\ h = f
  BY <1>7, UnstacksKeeps
<1>8. CASE Binds(s, t) /\ e = d /\ h = f
  <2> DEFINE x == [a EXCEPT !.phase = "body"]
  <2>1. t = [s EXCEPT ![n] = x] /\ a.phase = "bind"
    BY <1>8 DEF Binds
  <2>2. /\ x \in Frame /\ x.kind = a.kind /\ x.call = a.call /\ x.saved = a.saved
        /\ x.file = a.file /\ x.prev = a.prev /\ x.phase = "body"
    BY <1>1 DEF Frame, Phases
  <2> HIDE DEF x
  <2>3. KeptBy([s EXCEPT ![n] = x], d, f)
    BY <2>2, TopKeeps
  <2> QED
    BY <1>8, <2>1, <2>3
<1>9. CASE Exits(s, d, t, e) /\ h = f
  <2> DEFINE x == [a EXCEPT !.phase = "defers", !.todo = d]
  <2>1. t = [s EXCEPT ![n] = x] /\ a.kind = "fn" /\ e = a.saved
    BY <1>9 DEF Exits
  <2>2. /\ x \in Frame /\ x.kind = a.kind /\ x.call = a.call /\ x.saved = a.saved
        /\ x.file = a.file /\ x.prev = a.prev /\ x.phase = "defers"
    BY <1>1 DEF Frame, Phases
  <2> HIDE DEF x
  <2>3. KeptBy([s EXCEPT ![n] = x], e, f)
    BY <2>1, <2>2, TopKeeps
  <2> QED
    BY <1>9, <2>1, <2>3
<1>10. CASE RunsOne(s, t) /\ e = d /\ h = f
  <2>1. PICK y \in Frame : /\ y.kind = "defer" /\ y.call = n /\ y.phase = "body"
                           /\ t = Append([s EXCEPT ![n] = [a EXCEPT !.todo = Front(a.todo)]], y)
    BY <1>10 DEF RunsOne
  <2> DEFINE x == [a EXCEPT !.todo = Front(a.todo)]
             r == [s EXCEPT ![n] = x]
  <2>2. a.phase = "defers" /\ a.kind = "fn" /\ Front(a.todo) \in Seq(DeferEntry)
    <3>1. a.phase = "defers" /\ a.todo # <<>> /\ a.todo \in Seq(DeferEntry)
      BY <1>1, <1>10 DEF RunsOne, Frame
    <3> QED
      BY <1>3, <3>1, SeqFacts
  <2>3. /\ x \in Frame /\ x.kind = a.kind /\ x.call = a.call /\ x.saved = a.saved
        /\ x.file = a.file /\ x.prev = a.prev /\ x.phase = a.phase
    BY <1>1, <2>2 DEF Frame
  <2> HIDE DEF x
  <2>4. KeptBy(r, d, f)
    BY <1>3, <2>2, <2>3, TopKeeps
  <2>5. r \in Seq(Frame) /\ Len(r) = n /\ Last(r) = x
    BY <1>1, <2>3, FnsTop
  <2> HIDE DEF r
  <2>6. Framed(Append(r, y))
    BY <2>1, <2>2, <2>3, <2>4, <2>5, FramedAppend DEF KeptBy
  <2>7. /\ FnsIn(Append(r, y)) = FnsIn(r) /\ Append(r, y) \in Seq(Frame)
        /\ \A i \in FnsIn(r) : Append(r, y)[i] = r[i]
    BY <2>1, <2>5, FnsPlus
  <2>8. ListsKept(Append(r, y), d) /\ FilesKept(Append(r, y), f)
    BY <2>4, <2>5, <2>7, ListsFrame, FilesFrame DEF KeptBy
  <2>9. t = Append(r, y)
    BY <2>1 DEF r, x
  <2> QED
    BY <1>10, <2>6, <2>8, <2>9 DEF KeptBy
<1>11. CASE Defers(s, d, e) /\ t = s /\ h = f
  <2>1. /\ n > 1 /\ a.phase = "body" /\ s[a.call].kind # "new" /\ s[a.call].phase # "defers"
    BY <1>11 DEF Defers
  <2> DEFINE c == a.call
  <2>2. n \in 2..n /\ Owned(s, n)
    BY <1>1, <2>1 DEF Framed
  <2>3. /\ c \in 1..n /\ s[c].kind = "fn" /\ s[c].phase # "bind" /\ s[c].phase # "defers"
        /\ \A j \in (c + 1)..n : s[j].kind # "fn"
    BY <1>1, <2>1, <2>2 DEF Owned
  <2> HIDE DEF c
  <2>4. c \in FnsIn(s) /\ \A i \in FnsIn(s) : i <= c
    <3>1. ASSUME NEW i \in FnsIn(s), ~(i <= c) PROVE FALSE
      <4>1. i \in (c + 1)..n /\ s[i].kind = "fn"
        BY <1>1, <2>3, <3>1 DEF FnsIn
      <4> QED
        BY <2>3, <4>1
    <3> QED
      BY <2>3, <3>1 DEF FnsIn
  <2>5. ListsKept(s, e)
    BY <1>1, <2>3, <2>4, ListsTop
  <2> QED
    BY <1>11, <2>5 DEF KeptBy
<1>12. CASE t = s /\ e = d /\ h = f
  BY <1>12
<1> QED
  BY <1>4, <1>5, <1>6, <1>7, <1>8, <1>9, <1>10, <1>11, <1>12 DEF Moves

LEMMA CallsInit == Init => CallsInv
<1> SUFFICES ASSUME Init PROVE CallsInv
  OBVIOUS
<1> DEFINE b == NewFrame("base", 0, TopEnv)
<1>1. frames[Main] = <<b>> /\ defers = <<>> /\ filename = MainFile
  BY GoroutinesAssumption DEF Init
<1>2. b.kind = "base" /\ b.phase = "body"
  BY DEF NewFrame
<1> HIDE DEF b
<1>3. Len(<<b>>) = 1 /\ <<b>>[1] = b /\ <<b>> # <<>>
  OBVIOUS
<1>4. FnsIn(<<b>>) = {}
  BY <1>2, <1>3 DEF FnsIn
<1>5. Framed(<<b>>)
  BY <1>2, <1>3 DEF Framed
<1>6. ListsKept(<<b>>, <<>>)
  BY <1>3, <1>4 DEF ListsKept, Levels, ListAt
<1>7. FilesKept(<<b>>, MainFile)
  BY <1>4 DEF FilesKept, FileBelow, WithFile
<1> QED
  BY <1>1, <1>5, <1>6, <1>7 DEF CallsInv

LEMMA CallsMove ==
    ASSUME OneAtATime, TypeInv, TypeInv', CallsInv, [Next]_vars
    PROVE  Moves(frames[Main], defers, filename, frames'[Main], defers', filename')
<1>1. CASE UNCHANGED vars
  BY <1>1 DEF vars, Moves
<1>2. CASE \E e \in Envs : Collect(e)
  BY <1>2 DEF Collect, Moves, interpVars
<1>3. CASE \E g \in Goroutines : Step(g)
  <2>1. Step(Main)
    BY <1>3 DEF OneAtATime
  <2> QED
    BY <2>1, SoloStep
<1> QED
  BY <1>1, <1>2, <1>3 DEF Next

LEMMA CallsNext == OneAtATime /\ TypeInv /\ TypeInv' /\ CallsInv /\ [Next]_vars => CallsInv'
<1> SUFFICES ASSUME OneAtATime, TypeInv, TypeInv', CallsInv, [Next]_vars PROVE CallsInv'
  OBVIOUS
<1>1. Moves(frames[Main], defers, filename, frames'[Main], defers', filename')
  BY CallsMove
<1>2. KeptBy(frames[Main], defers, filename)
  BY DEF CallsInv, KeptBy
<1>3. frames[Main] \in Seq(Frame) /\ defers \in Seq(DeferEntry) /\ filename \in Files
  BY MainFacts
<1>4. KeptBy(frames'[Main], defers', filename')
  BY <1>1, <1>2, <1>3, MovesKeep
<1> QED
  BY <1>4 DEF CallsInv, KeptBy

(* In a program of one goroutine, whatever calls, closures, constructors,   *)
(* blocks, errors and deferred bodies do: the file that an error message    *)
(* names is that of the code that runs, and no deferred body is left behind *)
(* when the last call is over. *)
THEOREM CallStateKept ==
    ASSUME OneAtATime
    PROVE  Spec => []CallStateRestored
<1>1. Init => TypeInv /\ CallsInv
  BY TypeInit, CallsInit
<1>2. TypeInv /\ CallsInv /\ [Next]_vars => TypeInv' /\ CallsInv'
  BY TypeNext, CallsNext
<1>3. TypeInv /\ CallsInv => CallStateRestored
  <2> SUFFICES ASSUME TypeInv, CallsInv PROVE CallStateRestored
    OBVIOUS
  <2> DEFINE s == frames[Main]
             n == Len(s)
  <2>1. s \in Seq(Frame) /\ n \in Nat \ {0} /\ Depth(Main) = n
    BY MainFacts
  <2>2. FnIndices(Main) = FnsIn(s) /\ FnsIn(s) \subseteq 1..n
    BY LevelsOf DEF FnIndices, FnsIn, Depth
  <2>3. ASSUME FnsIn(s) = {} PROVE defers = <<>>
    <3>1. n + 1 \in Levels(s) /\ Lowest(s, n + 1) /\ ListAt(s, defers, n + 1) = defers
      BY <2>3 DEF Levels, Lowest, ListAt
    <3> QED
      BY <3>1 DEF CallsInv, ListsKept
  <2>4. filename = RunningFile
    <3> DEFINE W == {i \in FnIndices(Main) : s[i].file # NoFile}
    <3>1. W = WithFile(s) /\ W \subseteq 1..n
      BY <2>2 DEF WithFile
    <3>2. FileBelow(s, n + 1, filename)
      BY DEF CallsInv, FilesKept
    <3>3. RunningFile = IF W = {} THEN MainFile ELSE s[CHOOSE i \in W : \A j \in W : j <= i].file
      BY DEF RunningFile
    <3> HIDE DEF W
    <3>4. \A j \in W : j < n + 1 /\ j \in Nat
      BY <2>1, <3>1
    <3>5. CASE filename = MainFile /\ \A j \in WithFile(s) : n + 1 <= j
      <4>1. W = {}
        BY <2>1, <3>1, <3>4, <3>5
      <4> QED
        BY <3>3, <3>5, <4>1
    <3>6. CASE \E j \in WithFile(s) : j < n + 1 /\ filename = s[j].file
                                     /\ \A k \in WithFile(s) : k < n + 1 => k <= j
      <4>1. PICK j \in W : filename = s[j].file /\ \A k \in W : k <= j
        BY <3>1, <3>4, <3>6
      <4> DEFINE i == CHOOSE i \in W : \A k \in W : k <= i
      <4>2. i \in W /\ \A k \in W : k <= i
        BY <4>1
      <4> HIDE DEF i
      <4>3. i = j
        <5>1. i <= j /\ j <= i /\ i \in Nat /\ j \in Nat
          BY <3>4, <4>1, <4>2
        <5> QED
          BY <5>1
      <4>4. RunningFile = s[i].file
        BY <3>3, <4>1 DEF i
      <4> QED
        BY <4>1, <4>3, <4>4
    <3> QED
      BY <3>2, <3>5, <3>6 DEF FileBelow
  <2> QED
    BY <2>2, <2>3, <2>4 DEF CallStateRestored
<1> QED
  BY <1>1, <1>2, <1>3, PTL DEF Spec

-----------------------------------------------------------------------------
(***************************************************************************)
(* The abstract stack of defers.  Read of a Go stack s and of the list d in *)
(* Interpreter.defers, it has one activation for each call of s.            *)
(***************************************************************************)

(* The bodies that the k-th call has still to run, cs being the calls. *)
OwnList(s, d, cs, k) ==
    IF s[cs[k]].phase = "defers" THEN s[cs[k]].todo
    ELSE IF k = Len(cs) THEN d
    ELSE s[cs[k + 1]].saved

AsStack(s, d) ==
    [k \in 1..Len(Ascending(FnsIn(s))) |->
       [exiting |-> s[Ascending(FnsIn(s))[k]].phase = "defers",
        pending |-> SitesOf(OwnList(s, d, Ascending(FnsIn(s)), k))]]

LEMMA ReadAsStack ==
    /\ DeferStackOf(Main) = AsStack(frames[Main], defers)
    /\ DeferStackOf(Main)' = AsStack(frames'[Main], defers')
  BY DEF DeferStackOf, AsStack, OwnList, FnIndices, FnsIn, Depth

LEMMA SitesFacts ==
    ASSUME NEW d \in Seq(DeferEntry)
    PROVE  /\ SitesOf(d) \in Seq(Sites) /\ Len(SitesOf(d)) = Len(d)
           /\ \A k \in 1..Len(d) : SitesOf(d)[k] = d[k].site
<1>1. Len(d) \in Nat /\ \A k \in 1..Len(d) : d[k] \in DeferEntry
  BY ElementOfSeq, LenProperties
<1>2. \A k \in 1..Len(d) : d[k].site \in Sites
  BY <1>1 DEF DeferEntry
<1>3. [k \in 1..Len(d) |-> d[k].site] \in Seq(Sites)
  BY <1>1, <1>2
<1> QED
  BY <1>1, <1>3 DEF SitesOf

LEMMA SitesEmpty == SitesOf(<<>>) = <<>>
  BY SitesFacts, EmptySeq

LEMMA SitesAppend ==
    ASSUME NEW d \in Seq(DeferEntry), NEW y \in DeferEntry
    PROVE  SitesOf(Append(d, y)) = Append(SitesOf(d), y.site) /\ y.site \in Sites
<1> DEFINE n == Len(d)
           a == SitesOf(Append(d, y))
           b == Append(SitesOf(d), y.site)
<1>1. y.site \in Sites
  BY DEF DeferEntry
<1>2. /\ Append(d, y) \in Seq(DeferEntry) /\ Len(Append(d, y)) = n + 1 /\ n \in Nat
      /\ Append(d, y)[n + 1] = y /\ \A i \in 1..n : Append(d, y)[i] = d[i]
  BY AppendFacts
<1>3. /\ SitesOf(d) \in Seq(Sites) /\ Len(SitesOf(d)) = n
      /\ \A k \in 1..n : SitesOf(d)[k] = d[k].site
  BY SitesFacts
<1>4. /\ a \in Seq(Sites) /\ Len(a) = n + 1
      /\ \A k \in 1..(n + 1) : a[k] = Append(d, y)[k].site
  BY <1>2, SitesFacts
<1>5. /\ b \in Seq(Sites) /\ Len(b) = n + 1
      /\ b[n + 1] = y.site /\ \A i \in 1..n : b[i] = SitesOf(d)[i]
  BY <1>1, <1>3, AppendFacts
<1> HIDE DEF a, b
<1>6. \A k \in 1..(n + 1) : a[k] = b[k]
  <2> TAKE k \in 1..(n + 1)
  <2>1. CASE k = n + 1
    BY <1>2, <1>4, <1>5, <2>1
  <2>2. CASE k # n + 1
    <3>1. k \in 1..n
      BY <1>2, <2>2
    <3> QED
      BY <1>2, <1>3, <1>4, <1>5, <3>1
  <2> QED
    BY <2>1, <2>2
<1>7. a = b
  BY <1>4, <1>5, <1>6, SeqEqual
<1> QED
  BY <1>1, <1>7 DEF a, b

LEMMA SitesFront ==
    ASSUME NEW d \in Seq(DeferEntry), d # <<>>
    PROVE  SitesOf(Front(d)) = Front(SitesOf(d)) /\ SitesOf(d) # <<>> /\ Front(d) \in Seq(DeferEntry)
<1> DEFINE n == Len(d)
           a == SitesOf(Front(d))
           b == Front(SitesOf(d))
<1>1. /\ Front(d) \in Seq(DeferEntry) /\ Len(Front(d)) = n - 1 /\ n \in Nat \ {0}
      /\ \A i \in 1..(n - 1) : Front(d)[i] = d[i]
  BY SeqFacts
<1>2. /\ SitesOf(d) \in Seq(Sites) /\ Len(SitesOf(d)) = n
      /\ \A k \in 1..n : SitesOf(d)[k] = d[k].site
  BY SitesFacts
<1>3. SitesOf(d) # <<>>
  BY <1>1, <1>2, EmptySeq
<1>4. /\ a \in Seq(Sites) /\ Len(a) = n - 1
      /\ \A k \in 1..(n - 1) : a[k] = Front(d)[k].site
  BY <1>1, SitesFacts
<1>5. /\ b \in Seq(Sites) /\ Len(b) = n - 1
      /\ \A i \in 1..(n - 1) : b[i] = SitesOf(d)[i]
  BY <1>2, <1>3, SeqFacts
<1> HIDE DEF a, b
<1>6. \A k \in 1..(n - 1) : a[k] = b[k]
  <2> TAKE k \in 1..(n - 1)
  <2>1. k \in 1..n
    BY <1>1
  <2> QED
    BY <1>1, <1>2, <1>4, <1>5, <2>1
<1>7. a = b
  BY <1>4, <1>5, <1>6, SeqEqual
<1> QED
  BY <1>1, <1>3, <1>7 DEF a, b

Activations == [exiting : BOOLEAN, pending : Seq(Sites)]

(* The calls of a stack, in their order. *)
LEMMA CallsFacts ==
    ASSUME NEW s \in Seq(Frame)
    PROVE  /\ IsFiniteSet(FnsIn(s)) /\ FnsIn(s) \in SUBSET Int
           /\ Cardinality(FnsIn(s)) \in Nat
           /\ Len(Ascending(FnsIn(s))) = Cardinality(FnsIn(s))
           /\ \A k \in 1..Cardinality(FnsIn(s)) : Ascending(FnsIn(s))[k] \in FnsIn(s)
           /\ \A i, j \in 1..Cardinality(FnsIn(s)) : i < j => Ascending(FnsIn(s))[i] < Ascending(FnsIn(s))[j]
           /\ \A x \in FnsIn(s) : \E k \in 1..Cardinality(FnsIn(s)) : Ascending(FnsIn(s))[k] = x
<1>1. FnsIn(s) \subseteq 1..Len(s) /\ Len(s) \in Nat
  BY LevelsOf
<1>2. IsFiniteSet(FnsIn(s)) /\ FnsIn(s) \in SUBSET Int
  <2>1. IsFiniteSet(1..Len(s))
    BY <1>1, FS_Interval
  <2>2. IsFiniteSet(FnsIn(s))
    BY <1>1, <2>1, FS_Subset
  <2>3. \A x \in FnsIn(s) : x \in Int
    BY <1>1
  <2> QED
    BY <2>2, <2>3
<1>3. /\ Cardinality(FnsIn(s)) \in Nat
      /\ Ascending(FnsIn(s)) \in [1..Cardinality(FnsIn(s)) -> FnsIn(s)]
      /\ \A i, j \in 1..Cardinality(FnsIn(s)) : i < j => Ascending(FnsIn(s))[i] < Ascending(FnsIn(s))[j]
      /\ \A x \in FnsIn(s) : \E k \in 1..Cardinality(FnsIn(s)) : Ascending(FnsIn(s))[k] = x
  BY <1>2, AscendingFacts
<1>4. Len(Ascending(FnsIn(s))) = Cardinality(FnsIn(s))
  BY <1>3 DEF Ascending
<1> QED
  BY <1>2, <1>3, <1>4

LEMMA StackFacts ==
    ASSUME NEW s \in Seq(Frame), NEW d \in Seq(DeferEntry)
    PROVE  /\ AsStack(s, d) \in Seq(Activations)
           /\ Len(AsStack(s, d)) = Cardinality(FnsIn(s))
           /\ \A k \in 1..Cardinality(FnsIn(s)) :
                AsStack(s, d)[k] =
                  [exiting |-> s[Ascending(FnsIn(s))[k]].phase = "defers",
                   pending |-> SitesOf(OwnList(s, d, Ascending(FnsIn(s)), k))]
<1> DEFINE cs == Ascending(FnsIn(s))
           m == Cardinality(FnsIn(s))
           entry(k) == [exiting |-> s[cs[k]].phase = "defers", pending |-> SitesOf(OwnList(s, d, cs, k))]
<1>1. m \in Nat /\ Len(cs) = m /\ \A k \in 1..m : cs[k] \in FnsIn(s)
  BY CallsFacts
<1> HIDE DEF m, cs
<1>2. \A i \in FnsIn(s) : s[i] \in Frame
  BY ElementOfSeq, LevelsOf
<1>3. ASSUME NEW k \in 1..m PROVE entry(k) \in Activations
  <2>1. s[cs[k]].todo \in Seq(DeferEntry)
    BY <1>1, <1>2 DEF Frame
  <2>2. OwnList(s, d, cs, k) \in Seq(DeferEntry)
    <3>1. CASE k = m
      BY <1>1, <2>1, <3>1 DEF OwnList
    <3>2. CASE k # m
      <4>1. k + 1 \in 1..m
        BY <1>1, <3>2
      <4>2. s[cs[k + 1]].saved \in Seq(DeferEntry)
        BY <1>1, <1>2, <4>1 DEF Frame
      <4> QED
        BY <1>1, <2>1, <3>2, <4>2 DEF OwnList
    <3> QED
      BY <3>1, <3>2
  <2>3. SitesOf(OwnList(s, d, cs, k)) \in Seq(Sites)
    BY <2>2, SitesFacts
  <2> QED
    BY <2>3 DEF Activations
<1>4. AsStack(s, d) = [k \in 1..m |-> entry(k)]
  BY <1>1 DEF AsStack, cs
<1> HIDE DEF entry
<1>5. /\ AsStack(s, d) \in Seq(Activations) /\ Len(AsStack(s, d)) = m
      /\ \A k \in 1..m : AsStack(s, d)[k] = entry(k)
  BY <1>1, <1>3, <1>4
<1> QED
  BY <1>5 DEF entry, cs, m

(* What the call at i stands for, if no other has come upon it. *)
Entry(s, d, i) ==
    [exiting |-> s[i].phase = "defers",
     pending |-> SitesOf(IF s[i].phase = "defers" THEN s[i].todo ELSE d)]

(* t has the calls of s, and of them all (Alike), all but the last (Goes)   *)
(* in the same state; or one more at n, which has saved d (Longer). *)
Alike(s, t) ==
    /\ FnsIn(t) = FnsIn(s)
    /\ \A i \in FnsIn(s) : /\ t[i].saved = s[i].saved /\ t[i].todo = s[i].todo
                           /\ (t[i].phase = "defers" <=> s[i].phase = "defers")

Goes(s, t, c) ==
    /\ FnsIn(t) = FnsIn(s)
    /\ c \in FnsIn(s) /\ \A i \in FnsIn(s) : i <= c
    /\ \A i \in FnsIn(s) : /\ t[i].saved = s[i].saved
                           /\ i # c => /\ t[i].todo = s[i].todo
                                       /\ (t[i].phase = "defers" <=> s[i].phase = "defers")

Longer(s, t, n, d) ==
    /\ FnsIn(t) = FnsIn(s) \cup {n} /\ n \in Nat
    /\ \A i \in FnsIn(s) : i < n /\ t[i] = s[i]
    /\ t[n].saved = d

(* Two stacks with the same calls, saved lists and exits stand for the same. *)
LEMMA SameStack ==
    ASSUME NEW s \in Seq(Frame), NEW t \in Seq(Frame), NEW d \in Seq(DeferEntry), Alike(s, t)
    PROVE  AsStack(t, d) = AsStack(s, d)
<1>0. /\ FnsIn(t) = FnsIn(s)
      /\ \A i \in FnsIn(s) : /\ t[i].saved = s[i].saved /\ t[i].todo = s[i].todo
                             /\ (t[i].phase = "defers" <=> s[i].phase = "defers")
  BY DEF Alike
<1> DEFINE cs == Ascending(FnsIn(s))
           m == Cardinality(FnsIn(s))
<1>1. m \in Nat /\ Len(cs) = m /\ \A k \in 1..m : cs[k] \in FnsIn(s)
  BY CallsFacts
<1>2. /\ AsStack(s, d) \in Seq(Activations) /\ Len(AsStack(s, d)) = m
      /\ AsStack(t, d) \in Seq(Activations) /\ Len(AsStack(t, d)) = m
  BY <1>0, StackFacts
<1>3. ASSUME NEW k \in 1..m PROVE AsStack(s, d)[k] = AsStack(t, d)[k]
  <2>1. /\ AsStack(s, d)[k] = [exiting |-> s[cs[k]].phase = "defers", pending |-> SitesOf(OwnList(s, d, cs, k))]
        /\ AsStack(t, d)[k] = [exiting |-> t[cs[k]].phase = "defers", pending |-> SitesOf(OwnList(t, d, cs, k))]
    BY <1>0, StackFacts
  <2> HIDE DEF cs, m
  <2>2. (t[cs[k]].phase = "defers") = (s[cs[k]].phase = "defers") /\ t[cs[k]].todo = s[cs[k]].todo
    BY <1>0, <1>1
  <2>3. OwnList(t, d, cs, k) = OwnList(s, d, cs, k)
    <3>1. CASE k = m
      BY <1>1, <2>2, <3>1 DEF OwnList
    <3>2. CASE k # m
      <4>1. k + 1 \in 1..m
        BY <1>1, <3>2
      <4>2. t[cs[k + 1]].saved = s[cs[k + 1]].saved
        BY <1>0, <1>1, <4>1
      <4> QED
        BY <1>1, <2>2, <3>2, <4>2 DEF OwnList
    <3> QED
      BY <3>1, <3>2
  <2> QED
    BY <2>1, <2>2, <2>3
<1> QED
  BY <1>2, <1>3, SeqEqual

(* A call on top of the others stands for one activation more. *)
LEMMA LongerStack ==
    ASSUME NEW s \in Seq(Frame), NEW t \in Seq(Frame), NEW d \in Seq(DeferEntry), NEW e \in Seq(DeferEntry),
           NEW n, Longer(s, t, n, d)
    PROVE  /\ AsStack(t, e) = Append(AsStack(s, d), Entry(t, e, n))
           /\ AsStack(s, d) = Front(AsStack(t, e))
           /\ AsStack(t, e) # <<>>
           /\ Last(AsStack(t, e)) = Entry(t, e, n)
<1> USE DEF Longer
<1> DEFINE cs == Ascending(FnsIn(s))
           ds == Ascending(FnsIn(t))
           m == Cardinality(FnsIn(s))
           A == AsStack(s, d)
           B == AsStack(t, e)
           x == Entry(t, e, n)
<1>1. /\ m \in Nat /\ Len(cs) = m /\ \A k \in 1..m : cs[k] \in FnsIn(s)
      /\ IsFiniteSet(FnsIn(s)) /\ FnsIn(s) \in SUBSET Int
  BY CallsFacts
<1>2. Cardinality(FnsIn(t)) = m + 1 /\ ds[m + 1] = n /\ \A k \in 1..m : ds[k] = cs[k]
  <2> DEFINE u == Ascending(FnsIn(s) \cup {n})
  <2>1. n \in Int
    OBVIOUS
  <2>2. Cardinality(FnsIn(s) \cup {n}) = m + 1 /\ u[m + 1] = n /\ \A k \in 1..m : u[k] = cs[k]
    BY <1>1, <2>1, AscendingGrows
  <2>3. ds = u
    OBVIOUS
  <2> QED
    BY <2>2, <2>3
<1>3. Len(ds) = m + 1
  BY <1>2, CallsFacts
<1>4. /\ A \in Seq(Activations) /\ Len(A) = m
      /\ B \in Seq(Activations) /\ Len(B) = m + 1
  BY <1>2, StackFacts
<1>5. \A k \in 1..m : A[k] = [exiting |-> s[cs[k]].phase = "defers", pending |-> SitesOf(OwnList(s, d, cs, k))]
  BY StackFacts
<1>6. \A k \in 1..(m + 1) : B[k] = [exiting |-> t[ds[k]].phase = "defers", pending |-> SitesOf(OwnList(t, e, ds, k))]
  BY <1>2, StackFacts
<1> HIDE DEF cs, ds, m, A, B
<1>7. m + 1 \in 1..(m + 1) /\ B[m + 1] = x
  <2>1. m + 1 \in 1..(m + 1)
    BY <1>1
  <2>2. OwnList(t, e, ds, m + 1) = IF t[n].phase = "defers" THEN t[n].todo ELSE e
    BY <1>2, <1>3 DEF OwnList
  <2> QED
    BY <1>2, <1>6, <2>1, <2>2 DEF Entry
<1> HIDE DEF x
<1>8. ASSUME NEW k \in 1..m PROVE B[k] = A[k]
  <2>1. k \in 1..(m + 1) /\ ds[k] = cs[k] /\ t[cs[k]] = s[cs[k]] /\ k # m + 1
    BY <1>1, <1>2
  <2>2. OwnList(t, e, ds, k) = OwnList(s, d, cs, k)
    <3>1. CASE k = m
      BY <1>1, <1>2, <1>3, <2>1, <3>1 DEF OwnList
    <3>2. CASE k # m
      <4>1. k + 1 \in 1..m
        BY <1>1, <3>2
      <4>2. ds[k + 1] = cs[k + 1] /\ t[cs[k + 1]] = s[cs[k + 1]]
        BY <1>1, <1>2, <4>1
      <4> QED
        BY <1>1, <1>3, <2>1, <3>2, <4>2 DEF OwnList
    <3> QED
      BY <3>1, <3>2
  <2>3. B[k] = [exiting |-> s[cs[k]].phase = "defers", pending |-> SitesOf(OwnList(t, e, ds, k))]
    BY <1>6, <2>1
  <2> QED
    BY <1>5, <2>2, <2>3
<1>9. x \in Activations
  BY <1>4, <1>7, ElementOfSeq
<1>10. B = Append(A, x)
  <2>1. /\ Append(A, x) \in Seq(Activations) /\ Len(Append(A, x)) = m + 1
        /\ Append(A, x)[m + 1] = x /\ \A i \in 1..m : Append(A, x)[i] = A[i]
    BY <1>4, <1>9, AppendFacts
  <2>2. \A k \in 1..(m + 1) : B[k] = Append(A, x)[k]
    <3> TAKE k \in 1..(m + 1)
    <3>1. k = m + 1 \/ k \in 1..m
      BY <1>1
    <3> QED
      BY <1>7, <1>8, <2>1, <3>1
  <2> QED
    BY <1>4, <2>1, <2>2, SeqEqual
<1>11. B # <<>> /\ Last(B) = x
  <2>1. Append(A, x) # <<>> /\ Last(Append(A, x)) = x
    BY <1>4, <1>9, AppendFacts
  <2> QED
    BY <1>10, <2>1
<1>12. A = Front(B)
  <2>1. Front(B) \in Seq(Activations) /\ Len(Front(B)) = m /\ \A i \in 1..m : Front(B)[i] = B[i]
    <3>1. /\ Front(B) \in Seq(Activations) /\ Len(Front(B)) = Len(B) - 1
          /\ \A i \in 1..(Len(B) - 1) : Front(B)[i] = B[i]
      BY <1>4, <1>11, SeqFacts
    <3>2. Len(B) - 1 = m
      BY <1>1, <1>4
    <3> QED
      BY <3>1, <3>2
  <2>2. \A i \in 1..m : A[i] = Front(B)[i]
    BY <1>8, <2>1
  <2> HIDE DEF x
  <2> QED
    BY <1>4, <2>1, <2>2, SeqEqual
<1> QED
  BY <1>10, <1>11, <1>12 DEF A, B, x

(* The innermost call goes on: the activations below it stay. *)
LEMMA ChangedStack ==
    ASSUME NEW s \in Seq(Frame), NEW t \in Seq(Frame), NEW d \in Seq(DeferEntry), NEW e \in Seq(DeferEntry),
           NEW c, Goes(s, t, c)
    PROVE  /\ AsStack(s, d) \in Seq(Activations) /\ AsStack(s, d) # <<>>
           /\ Last(AsStack(s, d)) = Entry(s, d, c)
           /\ AsStack(s, d)[Len(AsStack(s, d))] = Last(AsStack(s, d))
           /\ Len(AsStack(s, d)) \in DOMAIN AsStack(s, d)
           /\ AsStack(t, e) = [AsStack(s, d) EXCEPT ![Len(AsStack(s, d))] = Entry(t, e, c)]
<1> USE DEF Goes
<1> DEFINE cs == Ascending(FnsIn(s))
           m == Cardinality(FnsIn(s))
           A == AsStack(s, d)
           B == AsStack(t, e)
           x == Entry(t, e, c)
<1>1. /\ m \in Nat /\ Len(cs) = m /\ \A k \in 1..m : cs[k] \in FnsIn(s)
      /\ FnsIn(s) \in SUBSET Int
      /\ \A i, j \in 1..m : i < j => cs[i] < cs[j]
      /\ \A y \in FnsIn(s) : \E k \in 1..m : cs[k] = y
  BY CallsFacts
<1>2. /\ A \in Seq(Activations) /\ Len(A) = m
      /\ B \in Seq(Activations) /\ Len(B) = m
      /\ \A k \in 1..m : A[k] = [exiting |-> s[cs[k]].phase = "defers", pending |-> SitesOf(OwnList(s, d, cs, k))]
      /\ \A k \in 1..m : B[k] = [exiting |-> t[cs[k]].phase = "defers", pending |-> SitesOf(OwnList(t, e, cs, k))]
  BY StackFacts
<1> HIDE DEF cs, m, A, B
<1>3. m \in 1..m /\ cs[m] = c
  <2>1. PICK k \in 1..m : cs[k] = c
    BY <1>1
  <2>2. m \in 1..m
    BY <1>1, <2>1
  <2>3. cs[m] <= c /\ cs[m] \in Int /\ c \in Int
    BY <1>1, <2>2
  <2>4. CASE k < m
    <3>1. c < cs[m]
      BY <1>1, <2>1, <2>2, <2>4
    <3> QED
      BY <2>3, <3>1
  <2>5. CASE k = m
    BY <2>1, <2>2, <2>5
  <2> QED
    BY <1>1, <2>1, <2>4, <2>5
<1>4. /\ A[m] = Entry(s, d, c)
      /\ B[m] = x
  <2>1. /\ OwnList(s, d, cs, m) = IF s[c].phase = "defers" THEN s[c].todo ELSE d
        /\ OwnList(t, e, cs, m) = IF t[c].phase = "defers" THEN t[c].todo ELSE e
    BY <1>1, <1>3 DEF OwnList
  <2> QED
    BY <1>2, <1>3, <2>1 DEF Entry
<1> HIDE DEF x
<1>5. A # <<>> /\ Last(A) = A[m]
  BY <1>1, <1>2, <1>3, EmptySeq DEF Last
<1>6. ASSUME NEW k \in 1..m, k # m PROVE B[k] = A[k]
  <2>1. k + 1 \in 1..m /\ k < m
    BY <1>1, <1>6
  <2>2. cs[k] # c /\ cs[k] \in FnsIn(s) /\ cs[k + 1] \in FnsIn(s)
    <3>1. cs[k] < c /\ cs[k] \in Int /\ c \in Int
      BY <1>1, <1>3, <2>1
    <3> QED
      BY <1>1, <2>1, <3>1
  <2>3. /\ t[cs[k]].todo = s[cs[k]].todo
        /\ (t[cs[k]].phase = "defers") = (s[cs[k]].phase = "defers")
        /\ t[cs[k + 1]].saved = s[cs[k + 1]].saved
    <3>1. \A i \in FnsIn(s) : /\ t[i].saved = s[i].saved
                              /\ i # c => t[i].todo = s[i].todo
                              /\ i # c => (t[i].phase = "defers" <=> s[i].phase = "defers")
      BY DEF Goes
    <3> QED
      BY <2>2, <3>1
  <2>4. OwnList(t, e, cs, k) = OwnList(s, d, cs, k)
    BY <1>1, <1>6, <2>3 DEF OwnList
  <2> QED
    BY <1>2, <2>3, <2>4
<1>7. B = [A EXCEPT ![m] = x]
  <2>1. x \in Activations
    BY <1>2, <1>3, <1>4, ElementOfSeq
  <2> DEFINE C == [A EXCEPT ![m] = x]
  <2>2. DOMAIN A = 1..m
    BY <1>2
  <2>3. C \in Seq(Activations) /\ Len(C) = m
    BY <1>2, <1>3, <2>1, ExceptSeq
  <2>4. \A k \in 1..m : C[k] = B[k]
    BY <1>3, <1>4, <1>6, <2>2
  <2> HIDE DEF C
  <2>5. B = C
    BY <1>2, <2>3, <2>4, SeqEqual
  <2> QED
    BY <2>5 DEF C
<1>8. Len(A) = m /\ m \in DOMAIN A
  BY <1>2, <1>3
<1> QED
  BY <1>2, <1>4, <1>5, <1>7, <1>8 DEF A, B, x

-----------------------------------------------------------------------------
(* What each kind of step is to the abstract stack: A becomes B. *)

Ends(A, B, x) == B = [A EXCEPT ![Len(A)] = x]

Promised(A, B) ==
    \/ B = A
    \/ B = Append(A, [exiting |-> FALSE, pending |-> <<>>])
    \/ A # <<>> /\ Last(A).pending = <<>> /\ B = Front(A)
    \/ /\ A \in Seq(Activations) /\ A # <<>> /\ Len(A) \in DOMAIN A /\ A[Len(A)] = Last(A)
       /\ \E p \in Seq(Sites) :
            \/ /\ Last(A) = [exiting |-> FALSE, pending |-> p]
               /\ \/ Ends(A, B, [exiting |-> TRUE, pending |-> p])
                  \/ \E site \in Sites : Ends(A, B, [exiting |-> FALSE, pending |-> Append(p, site)])
            \/ /\ Last(A) = [exiting |-> TRUE, pending |-> p] /\ p # <<>>
               /\ Ends(A, B, [exiting |-> TRUE, pending |-> Front(p)])

LEMMA StackMoves ==
    ASSUME NEW s \in Seq(Frame), NEW t \in Seq(Frame), NEW d \in Seq(DeferEntry), NEW e \in Seq(DeferEntry),
           NEW f, NEW h, Framed(s), ListsKept(s, d), Moves(s, d, f, t, e, h)
    PROVE  Promised(AsStack(s, d), AsStack(t, e))
<1> DEFINE n == Len(s)
           a == Last(s)
           A == AsStack(s, d)
           B == AsStack(t, e)
<1> SUFFICES Promised(A, B)
  OBVIOUS
<1>1. s # <<>> /\ n \in Nat \ {0} /\ a = s[n] /\ a \in Frame /\ n \in 1..n
  <2>1. s # <<>>
    BY DEF Framed
  <2>2. n \in Nat \ {0} /\ a = s[n] /\ a \in Frame
    BY <2>1, SeqFacts
  <2> QED
    BY <2>1, <2>2
<1>2. a.todo \in Seq(DeferEntry) /\ a.saved \in Seq(DeferEntry)
  BY <1>1 DEF Frame
<1>3. a.kind = "fn" => n \in FnsIn(s) /\ \A i \in FnsIn(s) : i <= n
  BY <1>1 DEF FnsIn
<1>4. ASSUME Alike(s, t), e = d PROVE Promised(A, B)
  <2>1. B = A
    BY <1>4, SameStack
  <2> QED
    BY <2>1 DEF Promised
<1>5. CASE Enters(s, d, f, t, e, h)
  <2> DEFINE q == n + 1
  <2>1. PICK x \in Frame : x.kind = "fn" /\ x.phase = "bind" /\ x.saved = d /\ t = Append(s, x) /\ e = <<>>
    BY <1>5 DEF Enters
  <2>2. FnsIn(t) = FnsIn(s) \cup {q} /\ \A i \in FnsIn(s) : t[i] = s[i]
    BY <1>1, <2>1, FnsPlus
  <2>3. t[q] = x /\ q \in Nat /\ \A i \in FnsIn(s) : i < q
    <3>1. t[q] = x
      BY <1>1, <2>1, AppendFacts
    <3> QED
      BY <1>1, <3>1 DEF FnsIn
  <2> HIDE DEF q
  <2>4. Longer(s, t, q, d)
    BY <2>1, <2>2, <2>3 DEF Longer
  <2>5. B = Append(A, Entry(t, e, q))
    BY <2>4, LongerStack
  <2>6. (t[q].phase = "defers") = FALSE /\ e = <<>>
    BY <2>1, <2>3
  <2>7. Entry(t, e, q) = [exiting |-> FALSE, pending |-> <<>>]
    BY <2>6, SitesEmpty DEF Entry
  <2> QED
    BY <2>5, <2>7 DEF Promised
<1>6. CASE Leaves(s, f, t, e, h)
  <2>1. a.kind = "fn" /\ t = Front(s) /\ e = a.saved
    BY <1>6 DEF Leaves
  <2>2. a.phase = "bind" \/ (a.phase = "defers" /\ a.todo = <<>>)
    BY <1>6 DEF Leaves
  <2>3. FnsIn(s) = FnsIn(t) \cup {n} /\ n = Len(t) + 1 /\ \A i \in FnsIn(t) : t[i] = s[i]
    BY <1>1, <2>1, FnsMinus
  <2>4. Longer(t, s, n, e)
    <3>1. \A i \in FnsIn(t) : i < n
      BY <1>1, <2>3 DEF FnsIn
    <3> QED
      BY <1>1, <2>1, <2>3, <3>1 DEF Longer
  <2>5. B = Front(A) /\ A # <<>> /\ Last(A) = Entry(s, d, n)
    BY <2>4, LongerStack
  <2>6. (IF s[n].phase = "defers" THEN s[n].todo ELSE d) = <<>>
    BY <1>1, <2>1, <2>2, ListAtExit
  <2>7. Entry(s, d, n).pending = <<>>
    BY <2>6, SitesEmpty DEF Entry
  <2> QED
    BY <2>5, <2>7 DEF Promised
<1>7. CASE Stacks(s, t) /\ e = d
  <2>1. PICK x \in Frame : x.kind # "fn" /\ t = Append(s, x)
    BY <1>7 DEF Stacks
  <2>2. FnsIn(t) = FnsIn(s) /\ \A i \in FnsIn(s) : t[i] = s[i]
    BY <2>1, FnsPlus
  <2> QED
    BY <1>4, <1>7, <2>2 DEF Alike
<1>8. CASE Unstacks(s, t) /\ e = d
  <2>1. a.kind # "fn" /\ t = Front(s)
    BY <1>8 DEF Unstacks
  <2>2. FnsIn(t) = FnsIn(s) /\ \A i \in FnsIn(s) : t[i] = s[i]
    BY <1>1, <2>1, FnsMinus
  <2> QED
    BY <1>4, <1>8, <2>2 DEF Alike
<1>9. CASE Binds(s, t) /\ e = d
  <2> DEFINE x == [a EXCEPT !.phase = "body"]
  <2>1. a.phase = "bind" /\ t = [s EXCEPT ![n] = x]
    BY <1>9 DEF Binds
  <2>2. x \in Frame /\ x.kind = a.kind /\ x.phase = "body" /\ x.saved = a.saved /\ x.todo = a.todo
    BY <1>1 DEF Frame, Phases
  <2> HIDE DEF x
  <2>3. FnsIn(t) = FnsIn(s) /\ t[n] = x /\ \A i \in FnsIn(s) : i # n => t[i] = s[i]
    <3> DEFINE r == [s EXCEPT ![n] = x]
    <3>1. FnsIn(r) = FnsIn(s) /\ r[n] = x /\ \A i \in FnsIn(s) : i # n => r[i] = s[i]
      BY <1>1, <2>2, FnsTop
    <3>2. t = r
      BY <2>1
    <3> HIDE DEF r
    <3> QED
      BY <3>1, <3>2
  <2>4. Alike(s, t)
    BY <1>1, <2>1, <2>2, <2>3 DEF Alike
  <2> QED
    BY <1>4, <1>9, <2>4
<1>10. CASE Exits(s, d, t, e)
  <2> DEFINE x == [a EXCEPT !.phase = "defers", !.todo = d]
             p == SitesOf(d)
  <2>1. a.kind = "fn" /\ a.phase = "body" /\ t = [s EXCEPT ![n] = x]
    BY <1>10 DEF Exits
  <2>2. x \in Frame /\ x.kind = a.kind /\ x.phase = "defers" /\ x.saved = a.saved /\ x.todo = d
    BY <1>1 DEF Frame, Phases
  <2> HIDE DEF x
  <2>3. FnsIn(t) = FnsIn(s) /\ t[n] = x /\ \A i \in FnsIn(s) : i # n => t[i] = s[i]
    <3> DEFINE r == [s EXCEPT ![n] = x]
    <3>1. FnsIn(r) = FnsIn(s) /\ r[n] = x /\ \A i \in FnsIn(s) : i # n => r[i] = s[i]
      BY <1>1, <2>2, FnsTop
    <3>2. t = r
      BY <2>1
    <3> HIDE DEF r
    <3> QED
      BY <3>1, <3>2
  <2>4. Goes(s, t, n)
    BY <1>1, <1>3, <2>1, <2>2, <2>3 DEF Goes
  <2>5. /\ A \in Seq(Activations) /\ A # <<>> /\ Last(A) = Entry(s, d, n)
        /\ A[Len(A)] = Last(A) /\ Len(A) \in DOMAIN A
        /\ Ends(A, B, Entry(t, e, n))
    BY <2>4, ChangedStack DEF Ends
  <2>6. /\ (s[n].phase = "defers") = FALSE /\ (t[n].phase = "defers") = TRUE
        /\ t[n].todo = d
    BY <1>1, <2>1, <2>2, <2>3
  <2>7. /\ Entry(s, d, n) = [exiting |-> FALSE, pending |-> p]
        /\ Entry(t, e, n) = [exiting |-> TRUE, pending |-> p]
    BY <2>6 DEF Entry
  <2>8. p \in Seq(Sites)
    BY SitesFacts
  <2> HIDE DEF p, A, B
  <2> QED
    BY <2>5, <2>7, <2>8 DEF Promised
<1>11. CASE RunsOne(s, t) /\ e = d
  <2> DEFINE x == [a EXCEPT !.todo = Front(a.todo)]
             r == [s EXCEPT ![n] = x]
             p == SitesOf(a.todo)
  <2>1. a.phase = "defers" /\ a.todo # <<>>
    BY <1>11 DEF RunsOne
  <2>2. PICK w \in Frame : w.kind = "defer" /\ t = Append(r, w)
    BY <1>11 DEF RunsOne
  <2>3. a.kind = "fn"
    BY <1>1, <2>1 DEF Framed
  <2>4. SitesOf(Front(a.todo)) = Front(p) /\ p # <<>> /\ p \in Seq(Sites) /\ Front(a.todo) \in Seq(DeferEntry)
    BY <1>2, <2>1, SitesFront, SitesFacts
  <2>5. x \in Frame /\ x.kind = a.kind /\ x.phase = "defers" /\ x.saved = a.saved /\ x.todo = Front(a.todo)
    BY <1>1, <2>1, <2>4 DEF Frame
  <2> HIDE DEF x
  <2>6. FnsIn(r) = FnsIn(s) /\ r[n] = x /\ r \in Seq(Frame) /\ \A i \in FnsIn(s) : i # n => r[i] = s[i]
    BY <1>1, <2>5, FnsTop
  <2> HIDE DEF r
  <2>7. FnsIn(t) = FnsIn(r) /\ \A i \in FnsIn(r) : t[i] = r[i]
    BY <2>2, <2>6, FnsPlus
  <2>8. FnsIn(t) = FnsIn(s) /\ t[n] = x /\ \A i \in FnsIn(s) : i # n => t[i] = s[i]
    BY <1>3, <2>3, <2>6, <2>7
  <2>9. Goes(s, t, n)
    BY <1>1, <1>3, <2>3, <2>5, <2>8 DEF Goes
  <2>10. /\ A \in Seq(Activations) /\ A # <<>> /\ Last(A) = Entry(s, d, n)
         /\ A[Len(A)] = Last(A) /\ Len(A) \in DOMAIN A
         /\ Ends(A, B, Entry(t, e, n))
    BY <2>9, ChangedStack DEF Ends
  <2>11. /\ (s[n].phase = "defers") = TRUE /\ (t[n].phase = "defers") = TRUE
         /\ s[n].todo = a.todo /\ t[n].todo = Front(a.todo)
    BY <1>1, <2>1, <2>5, <2>8
  <2>12. /\ Entry(s, d, n) = [exiting |-> TRUE, pending |-> p]
         /\ Entry(t, e, n) = [exiting |-> TRUE, pending |-> Front(p)]
    BY <2>4, <2>11 DEF Entry
  <2> HIDE DEF p, A, B
  <2> QED
    BY <2>4, <2>10, <2>12 DEF Promised
<1>12. CASE Defers(s, d, e) /\ t = s
  <2>1. PICK y \in DeferEntry : e = Append(d, y)
    BY <1>12 DEF Defers
  <2>2. n > 1 /\ a.phase = "body" /\ s[a.call].kind # "new" /\ s[a.call].phase # "defers"
    BY <1>12 DEF Defers
  <2> DEFINE c == a.call
             p == SitesOf(d)
  <2>3. n \in 2..n /\ Owned(s, n)
    BY <1>1, <2>2 DEF Framed
  <2>4. /\ c \in 1..n /\ s[c].kind = "fn" /\ s[c].phase # "defers"
        /\ \A j \in (c + 1)..n : s[j].kind # "fn"
    BY <1>1, <2>2, <2>3 DEF Owned
  <2> HIDE DEF c
  <2>5. c \in FnsIn(s) /\ \A i \in FnsIn(s) : i <= c
    <3>1. ASSUME NEW i \in FnsIn(s), ~(i <= c) PROVE FALSE
      <4>1. i \in (c + 1)..n /\ s[i].kind = "fn"
        BY <1>1, <2>4, <3>1 DEF FnsIn
      <4> QED
        BY <2>4, <4>1
    <3> QED
      BY <2>4, <3>1 DEF FnsIn
  <2>6. Goes(s, t, c)
    BY <1>12, <2>5 DEF Goes
  <2>7. /\ A \in Seq(Activations) /\ A # <<>> /\ Last(A) = Entry(s, d, c)
        /\ A[Len(A)] = Last(A) /\ Len(A) \in DOMAIN A
        /\ Ends(A, B, Entry(t, e, c))
    BY <2>6, ChangedStack DEF Ends
  <2>8. (s[c].phase = "defers") = FALSE /\ (t[c].phase = "defers") = FALSE
    BY <1>12, <2>4
  <2>9. SitesOf(e) = Append(p, y.site) /\ y.site \in Sites /\ p \in Seq(Sites)
    BY <2>1, SitesAppend, SitesFacts
  <2>10. /\ Entry(s, d, c) = [exiting |-> FALSE, pending |-> p]
         /\ Entry(t, e, c) = [exiting |-> FALSE, pending |-> Append(p, y.site)]
    BY <2>8, <2>9 DEF Entry
  <2> HIDE DEF p, A, B
  <2> QED
    BY <2>7, <2>9, <2>10 DEF Promised
<1>13. CASE t = s /\ e = d
  BY <1>4, <1>13 DEF Alike
<1> QED
  BY <1>5, <1>6, <1>7, <1>8, <1>9, <1>10, <1>11, <1>12, <1>13 DEF Moves

LEMMA SameActivation ==
    ASSUME NEW x \in Activations, NEW y \in Activations, x.exiting = y.exiting, x.pending = y.pending
    PROVE  x = y
  BY DEF Activations

LEMMA ChangedActivation ==
    ASSUME NEW x \in Activations
    PROVE  /\ \A b \in BOOLEAN : [x EXCEPT !.exiting = b] = [exiting |-> b, pending |-> x.pending]
           /\ \A p \in Seq(Sites) : [x EXCEPT !.pending = p] = [exiting |-> x.exiting, pending |-> p]
<1>1. ASSUME NEW b \in BOOLEAN PROVE [x EXCEPT !.exiting = b] = [exiting |-> b, pending |-> x.pending]
  <2> DEFINE y == [x EXCEPT !.exiting = b]
             z == [exiting |-> b, pending |-> x.pending]
  <2>1. y \in Activations /\ z \in Activations
    BY DEF Activations
  <2>2. y.exiting = z.exiting /\ y.pending = z.pending
    BY DEF Activations
  <2> HIDE DEF y, z
  <2>3. y = z
    BY <2>1, <2>2, SameActivation
  <2> QED
    BY <2>3 DEF y, z
<1>2. ASSUME NEW p \in Seq(Sites) PROVE [x EXCEPT !.pending = p] = [exiting |-> x.exiting, pending |-> p]
  <2> DEFINE y == [x EXCEPT !.pending = p]
             z == [exiting |-> x.exiting, pending |-> p]
  <2>1. y \in Activations /\ z \in Activations
    BY DEF Activations
  <2>2. y.exiting = z.exiting /\ y.pending = z.pending
    BY DEF Activations
  <2> HIDE DEF y, z
  <2>3. y = z
    BY <2>1, <2>2, SameActivation
  <2> QED
    BY <2>3 DEF y, z
<1> QED
  BY <1>1, <1>2

LEMMA PromisedSteps ==
    ASSUME NEW A, NEW B, Promised(A, B), DeferStackOf(Main) = A, DeferStackOf(Main)' = B
    PROVE  [PromisedDefers!Next]_(DeferStackOf(Main))
<1>1. CASE B = A
  BY <1>1
<1>2. CASE B = Append(A, [exiting |-> FALSE, pending |-> <<>>])
  <2>1. PromisedDefers!Enter
    BY <1>2 DEF PromisedDefers!Enter
  <2> QED
    BY <2>1 DEF PromisedDefers!Next
<1>3. CASE A # <<>> /\ Last(A).pending = <<>> /\ B = Front(A)
  <2>1. PromisedDefers!Leave
    BY <1>3 DEF PromisedDefers!Leave, PromisedDefers!Last, PromisedDefers!Front, Last, Front
  <2> QED
    BY <2>1 DEF PromisedDefers!Next
<1>4. ASSUME A \in Seq(Activations), A # <<>>, Len(A) \in DOMAIN A, A[Len(A)] = Last(A),
             NEW p \in Seq(Sites),
             \/ /\ Last(A) = [exiting |-> FALSE, pending |-> p]
                /\ \/ Ends(A, B, [exiting |-> TRUE, pending |-> p])
                   \/ \E site \in Sites : Ends(A, B, [exiting |-> FALSE, pending |-> Append(p, site)])
             \/ /\ Last(A) = [exiting |-> TRUE, pending |-> p] /\ p # <<>>
                /\ Ends(A, B, [exiting |-> TRUE, pending |-> Front(p)])
      PROVE  PromisedDefers!Next
  <2> DEFINE m == Len(A)
  <2>1. CASE Last(A) = [exiting |-> FALSE, pending |-> p] /\ Ends(A, B, [exiting |-> TRUE, pending |-> p])
    <3>1. [exiting |-> TRUE, pending |-> p] = [A[m] EXCEPT !.exiting = TRUE]
      <4> DEFINE x == A[m]
      <4>1. x = Last(A) /\ x \in Activations /\ x.pending = p
        BY <1>4, <2>1 DEF Activations
      <4> HIDE DEF x
      <4>2. [x EXCEPT !.exiting = TRUE] = [exiting |-> TRUE, pending |-> p]
        BY <4>1, ChangedActivation
      <4> QED
        BY <4>2 DEF x
    <3>2. B = [A EXCEPT ![m].exiting = TRUE]
      BY <2>1, <3>1 DEF Ends
    <3>3. Last(A).exiting = FALSE
      BY <2>1
    <3>4. PromisedDefers!Exit
      BY <1>4, <3>2, <3>3 DEF PromisedDefers!Exit, PromisedDefers!Inside, PromisedDefers!Last, PromisedDefers!Front, Last, Front
    <3> QED
      BY <3>4 DEF PromisedDefers!Next
  <2>2. ASSUME NEW site \in Sites, Last(A) = [exiting |-> FALSE, pending |-> p],
               Ends(A, B, [exiting |-> FALSE, pending |-> Append(p, site)])
        PROVE  PromisedDefers!Next
    <3>1. [exiting |-> FALSE, pending |-> Append(p, site)] = [A[m] EXCEPT !.pending = Append(A[m].pending, site)]
      <4> DEFINE x == A[m]
      <4>1. x = Last(A) /\ x \in Activations /\ x.pending = p /\ x.exiting = FALSE
        BY <1>4, <2>2 DEF Activations
      <4>2. Append(p, site) \in Seq(Sites)
        BY <2>2, AppendProperties
      <4> HIDE DEF x
      <4>3. [x EXCEPT !.pending = Append(p, site)] = [exiting |-> FALSE, pending |-> Append(p, site)]
        BY <4>1, <4>2, ChangedActivation
      <4>4. [A[m] EXCEPT !.pending = Append(p, site)] = [exiting |-> FALSE, pending |-> Append(p, site)]
        BY <4>3 DEF x
      <4>5. A[m].pending = p
        BY <4>1 DEF x
      <4> QED
        BY <4>4, <4>5
    <3>2. B = [A EXCEPT ![m].pending = Append(@, site)]
      BY <2>2, <3>1 DEF Ends
    <3>3. Last(A).exiting = FALSE
      BY <2>2
    <3>4. PromisedDefers!Register(site)
      BY <1>4, <3>2, <3>3 DEF PromisedDefers!Register, PromisedDefers!Inside, PromisedDefers!Last, PromisedDefers!Front, Last, Front
    <3> QED
      BY <3>4 DEF PromisedDefers!Next
  <2>3. CASE /\ Last(A) = [exiting |-> TRUE, pending |-> p] /\ p # <<>>
             /\ Ends(A, B, [exiting |-> TRUE, pending |-> Front(p)])
    <3>1. [exiting |-> TRUE, pending |-> Front(p)] = [A[m] EXCEPT !.pending = Front(A[m].pending)]
      <4> DEFINE x == A[m]
      <4>1. x = Last(A) /\ x \in Activations /\ x.pending = p /\ x.exiting = TRUE
        BY <1>4, <2>3 DEF Activations
      <4>2. Front(p) \in Seq(Sites)
        BY <2>3, SeqFacts
      <4> HIDE DEF x
      <4>3. [x EXCEPT !.pending = Front(p)] = [exiting |-> TRUE, pending |-> Front(p)]
        BY <4>1, <4>2, ChangedActivation
      <4>4. [A[m] EXCEPT !.pending = Front(p)] = [exiting |-> TRUE, pending |-> Front(p)]
        BY <4>3 DEF x
      <4>5. A[m].pending = p
        BY <4>1 DEF x
      <4> QED
        BY <4>4, <4>5
    <3>2. B = [A EXCEPT ![m].pending = Front(@)]
      BY <2>3, <3>1 DEF Ends
    <3>3. Last(A).exiting = TRUE /\ Last(A).pending # <<>>
      BY <2>3
    <3>4. PromisedDefers!RunLast
      BY <1>4, <3>2, <3>3 DEF PromisedDefers!RunLast, PromisedDefers!Inside, PromisedDefers!Last, PromisedDefers!Front, Last, Front
    <3> QED
      BY <3>4 DEF PromisedDefers!Next
  <2> QED
    BY <1>4, <2>1, <2>2, <2>3
<1> QED
  BY <1>1, <1>2, <1>3, <1>4 DEF Promised

LEMMA StackStep ==
    ASSUME OneAtATime, TypeInv, TypeInv', CallsInv, [Next]_vars
    PROVE  [PromisedDefers!Next]_(DeferStackOf(Main))
<1>1. Moves(frames[Main], defers, filename, frames'[Main], defers', filename')
  BY CallsMove
<1>2. frames[Main] \in Seq(Frame) /\ defers \in Seq(DeferEntry)
  BY MainFacts
<1>3. frames'[Main] \in Seq(Frame) /\ defers' \in Seq(DeferEntry)
  BY GoroutinesAssumption DEF TypeInv, TypeOK
<1>4. Framed(frames[Main]) /\ ListsKept(frames[Main], defers)
  BY DEF CallsInv
<1>5. Promised(AsStack(frames[Main], defers), AsStack(frames'[Main], defers'))
  BY <1>1, <1>2, <1>3, <1>4, StackMoves
<1> QED
  BY <1>5, ReadAsStack, PromisedSteps

LEMMA StackInit == Init => PromisedDefers!Init
<1> SUFFICES ASSUME Init PROVE PromisedDefers!Init
  OBVIOUS
<1>1. FnIndices(Main) = {}
  <2>1. frames[Main] = <<NewFrame("base", 0, TopEnv)>>
    BY GoroutinesAssumption DEF Init
  <2>2. \A i \in 1..1 : frames[Main][i].kind = "base"
    BY <2>1 DEF NewFrame
  <2> QED
    BY <2>1, <2>2 DEF FnIndices, Depth
<1>2. Ascending({}) = <<>> /\ Len(Ascending({})) = 0
  BY FS_EmptySet DEF Ascending
<1>3. DeferStackOf(Main) = <<>>
  BY <1>1, <1>2 DEF DeferStackOf
<1> QED
  BY <1>3 DEF PromisedDefers!Init

(* defer, in a program of one goroutine: each activation of a function runs *)
(* the bodies it deferred itself, in its body and in its blocks, all of     *)
(* them, the last one first, and before its caller goes on. The list saved  *)
(* and restored around every call implements a stack of lists.              *)
THEOREM DefersPromised ==
    ASSUME OneAtATime
    PROVE  Spec => KeepsDeferPromise
<1>1. Init => TypeInv /\ CallsInv /\ PromisedDefers!Init
  BY TypeInit, CallsInit, StackInit
<1>2. TypeInv /\ CallsInv /\ [Next]_vars => TypeInv' /\ CallsInv' /\ [PromisedDefers!Next]_(DeferStackOf(Main))
  BY TypeNext, CallsNext, StackStep
<1> QED
  BY <1>1, <1>2, PTL DEF Spec, KeepsDeferPromise, PromisedDefers!Spec

-----------------------------------------------------------------------------
(***************************************************************************)
(* A deferred body waits in the Environment of the function that deferred  *)
(* it.  In a program of one goroutine that defers only directly in its     *)
(* functions, with calls, closures, constructors, blocks and errors as it  *)
(* likes, that Environment and those above it stay alive until the body    *)
(* has run.                                                                *)
(***************************************************************************)

(* A defer inside a block keeps the block's Environment, which is released  *)
(* before the body runs, and a component captures a frame that nothing      *)
(* marks: the theorem is about the programs that do neither. *)
DefersInFunctions == OneAtATime /\ Statements \cap {"component", "blockdefer"} = {}

(* The Environments whose whole chain, up to the root, is alive and avoids  *)
(* x: they do not notice when x goes back to the pool. *)
ClearSet(S, lv, up, x) == S \subseteq lv \ {x} /\ \A y \in S : up[y] \in S \cup {NoEnv}
ClearIn(lv, up, x) == {y \in Envs : \E S \in SUBSET Envs : y \in S /\ ClearSet(S, lv, up, x)}
Clear(x) == ClearIn(live, parent, x)

(* What a list of deferred bodies, a frame and a stack s with the list d in *)
(* Interpreter.defers refer to. *)
Inside(l, S) == \A k \in 1..Len(l) : l[k].env \in S
FrameIn(f, S) == f.env \in S /\ Inside(f.saved, S) /\ Inside(f.todo, S)
UsesIn(s, d, S) == Inside(d, S) /\ \A i \in 1..Len(s) : FrameIn(s[i], S)

(* What is still there when the frame i has returned: the frames beneath it *)
(* and the list it put back; for a block, that is the list of the call that *)
(* it belongs to, wherever it is kept. *)
BeneathIn(s, d, i, S) ==
    /\ Inside(s[i].saved, S)
    /\ \A j \in 1..(i - 1) : FrameIn(s[j], S)
    /\ s[i].kind = "block" =>
         \A x \in Levels(s) : Follows(s, i, x) => Inside(ListAt(s, d, x), S)

(* An Environment that its frame will release is used by nothing beneath. *)
Sheltered(s, d, lv, up, esc) ==
    \A i \in 1..Len(s) :
        s[i].kind \in {"fn", "block"} /\ ~esc[s[i].env]
        => BeneathIn(s, d, i, ClearIn(lv, up, s[i].env))

EscapedSettling == \A y \in live : escaped[y] => y \in Settled(walk[Main].at)

MarkingPlace ==
    /\ walk[Main] # NoWalk => Top(Main).env = walk[Main].at \/ escaped[Top(Main).env]
    /\ walk[Main].at \in Clear(NoEnv) \cup {NoEnv}

DeferInv ==
    /\ FunctionsSettled
    /\ EscapedSettling
    /\ MarkingPlace
    /\ UsesIn(frames[Main], defers, Clear(NoEnv))
    /\ Sheltered(frames[Main], defers, live, parent, escaped)

-----------------------------------------------------------------------------
(* Clear sets are closed upwards, and the greatest such. *)
LEMMA ClearFacts ==
    ASSUME NEW lv, NEW up, NEW x, NEW y \in ClearIn(lv, up, x)
    PROVE  y \in Envs /\ y \in lv /\ y # x /\ up[y] \in ClearIn(lv, up, x) \cup {NoEnv}
<1>1. PICK S \in SUBSET Envs : y \in S /\ ClearSet(S, lv, up, x)
  BY DEF ClearIn
<1>2. S \subseteq ClearIn(lv, up, x)
  BY <1>1 DEF ClearIn
<1> QED
  BY <1>1, <1>2 DEF ClearSet

LEMMA ClearMax ==
    ASSUME NEW lv, NEW up, NEW x, NEW S \in SUBSET Envs, ClearSet(S, lv, up, x)
    PROVE  S \subseteq ClearIn(lv, up, x)
  BY DEF ClearIn

(* What is settled up to the root is clear. *)
LEMMA SettledClear == Settled(NoEnv) \subseteq Clear(NoEnv)
<1> DEFINE S == Settled(NoEnv)
<1>1. \A y \in S : y \in Envs /\ y \in live /\ parent[y] \in S \cup {NoEnv}
  BY SettledClosed
<1>2. S \in SUBSET Envs /\ ClearSet(S, live, parent, NoEnv)
  BY <1>1, EnvsAssumption DEF ClearSet
<1> QED
  BY <1>2, ClearMax DEF Clear

(* A new Environment e under p, which is clear. *)
LEMMA ClearNew ==
    ASSUME NEW lv, NEW up, NEW lv2, NEW up2, NEW e \in Envs, e \notin lv,
           NEW p \in ClearIn(lv, up, NoEnv), lv2 = lv \cup {e}, up2[e] = p,
           \A y \in Envs \ {e} : up2[y] = up[y]
    PROVE  /\ \A x : ClearIn(lv, up, x) \subseteq ClearIn(lv2, up2, x)
           /\ ClearIn(lv, up, NoEnv) \subseteq ClearIn(lv2, up2, e)
           /\ e \in ClearIn(lv2, up2, NoEnv)
<1>1. ASSUME NEW x, NEW z, ClearIn(lv, up, x) \cap {z} = {}
      PROVE  ClearIn(lv, up, x) \subseteq ClearIn(lv2, up2, z)
  <2> DEFINE S == ClearIn(lv, up, x)
  <2>1. ASSUME NEW y \in S
        PROVE  y \in Envs /\ y \in lv2 /\ y # z /\ up2[y] \in S \cup {NoEnv}
    <3>1. y \in Envs /\ y \in lv /\ up[y] \in S \cup {NoEnv}
      BY <2>1, ClearFacts, Zenon
    <3>2. y # e /\ y # z
      BY <1>1, <3>1
    <3> QED
      BY <3>1, <3>2
  <2>2. S \in SUBSET Envs /\ ClearSet(S, lv2, up2, z)
    BY <2>1 DEF ClearSet
  <2> HIDE DEF S
  <2> QED
    BY <2>2, ClearMax DEF S
<1>2. ASSUME NEW x PROVE ClearIn(lv, up, x) \cap {x} = {} /\ ClearIn(lv, up, x) \cap {e} = {}
  <2>1. \A y \in ClearIn(lv, up, x) : y # x /\ y \in lv
    BY ClearFacts, Zenon
  <2> QED
    BY <2>1
<1>3. e \in ClearIn(lv2, up2, NoEnv)
  <2> DEFINE R == ClearIn(lv, up, NoEnv)
             S == R \cup {e}
  <2>1. ASSUME NEW y \in R PROVE y \in Envs /\ y \in lv /\ y # e /\ up2[y] \in S \cup {NoEnv}
    <3>1. y \in Envs /\ y \in lv /\ up[y] \in R \cup {NoEnv}
      BY <2>1, ClearFacts, Zenon
    <3> QED
      BY <3>1
  <2>2. ClearSet(S, lv2, up2, NoEnv) /\ S \in SUBSET Envs
    BY <2>1, EnvsAssumption DEF ClearSet
  <2> HIDE DEF S
  <2>3. S \subseteq ClearIn(lv2, up2, NoEnv)
    BY <2>2, ClearMax
  <2> QED
    BY <2>3 DEF S
<1> QED
  BY <1>1, <1>2, <1>3

(* e goes: what is clear of it stays what it was. *)
LEMMA ClearGone ==
    ASSUME NEW lv, NEW up, NEW lv2, NEW up2, NEW e \in Envs, lv2 = lv \ {e},
           \A y \in Envs \ {e} : up2[y] = up[y], NEW x
    PROVE  ClearIn(lv, up, x) \cap ClearIn(lv, up, e) \subseteq ClearIn(lv2, up2, x)
<1> DEFINE S == ClearIn(lv, up, x) \cap ClearIn(lv, up, e)
<1>1. ASSUME NEW y \in S
      PROVE  y \in Envs /\ y \in lv2 /\ y # x /\ up2[y] \in S \cup {NoEnv}
  <2>1. y \in ClearIn(lv, up, x) /\ y \in ClearIn(lv, up, e)
    OBVIOUS
  <2>2. y \in Envs /\ y \in lv /\ y # x /\ up[y] \in ClearIn(lv, up, x) \cup {NoEnv}
    BY <2>1, ClearFacts, Zenon
  <2>3. y # e /\ up[y] \in ClearIn(lv, up, e) \cup {NoEnv}
    BY <2>1, ClearFacts, Zenon
  <2> QED
    BY <2>2, <2>3
<1>2. S \in SUBSET Envs /\ ClearSet(S, lv2, up2, x)
  BY <1>1 DEF ClearSet
<1> HIDE DEF S
<1> QED
  BY <1>2, ClearMax DEF S

(* The same when e is collected: no chain led to it but its own. *)
LEMMA ClearCollected ==
    ASSUME NEW lv, NEW up, NEW lv2, NEW up2, NEW e \in Envs, lv2 = lv \ {e},
           \A y \in Envs \ {e} : up2[y] = up[y], \A c \in lv : up[c] # e, NEW x
    PROVE  ClearIn(lv, up, x) \ {e} \subseteq ClearIn(lv2, up2, x)
<1> DEFINE S == ClearIn(lv, up, x) \ {e}
<1>1. ASSUME NEW y \in S
      PROVE  y \in Envs /\ y \in lv2 /\ y # x /\ up2[y] \in S \cup {NoEnv}
  <2>1. y \in Envs /\ y \in lv /\ y # x /\ up[y] \in ClearIn(lv, up, x) \cup {NoEnv}
    BY <1>1, ClearFacts, Zenon
  <2> QED
    BY <2>1
<1>2. S \in SUBSET Envs /\ ClearSet(S, lv2, up2, x)
  BY <1>1 DEF ClearSet
<1> HIDE DEF S
<1> QED
  BY <1>2, ClearMax DEF S

-----------------------------------------------------------------------------
(* What a step of the stack leaves alone.  Every frame that stays keeps its *)
(* kind, its Environment and what it saved, and those beneath the top stay  *)
(* as they are; the list that waits for a block is where it was, or at the  *)
(* place it was put to. *)
ListsStay(s, d, t, e) ==
    \A i \in 1..Len(t) : i <= Len(s) /\ s[i].kind = "block" =>
        \A x \in Levels(t) : Follows(t, i, x) =>
            \/ ListAt(t, e, x) = <<>>
            \/ \E y \in Levels(s) : Follows(s, i, y) /\ ListAt(t, e, x) = ListAt(s, d, y)

FramesStay(s, t) ==
    \A i \in 1..Len(t) : i <= Len(s) =>
        /\ t[i].kind = s[i].kind /\ t[i].env = s[i].env /\ t[i].saved = s[i].saved
        /\ i < Len(s) => t[i] = s[i]

LEMMA InsideFacts ==
    /\ \A S : Inside(<<>>, S)
    /\ \A l, S, T : Inside(l, S) /\ S \subseteq T => Inside(l, T)
    /\ \A l, S, T : Inside(l, S) /\ Inside(l, T) => Inside(l, S \cap T)
  BY DEF Inside

LEMMA FrameInMore ==
    ASSUME NEW f, NEW S, NEW T
    PROVE  /\ FrameIn(f, S) /\ S \subseteq T => FrameIn(f, T)
           /\ FrameIn(f, S) /\ FrameIn(f, T) => FrameIn(f, S \cap T)
  BY InsideFacts DEF FrameIn

LEMMA UsesMore ==
    ASSUME NEW s, NEW d, NEW S, NEW T, UsesIn(s, d, S), S \subseteq T
    PROVE  UsesIn(s, d, T)
  BY InsideFacts, FrameInMore DEF UsesIn

LEMMA UsesBoth ==
    ASSUME NEW s, NEW d, NEW S, NEW T, UsesIn(s, d, S), UsesIn(s, d, T)
    PROVE  UsesIn(s, d, S \cap T)
  BY InsideFacts, FrameInMore DEF UsesIn

LEMMA BeneathMore ==
    ASSUME NEW s, NEW d, NEW i, NEW S, NEW T, BeneathIn(s, d, i, S), S \subseteq T
    PROVE  BeneathIn(s, d, i, T)
  BY InsideFacts, FrameInMore DEF BeneathIn

LEMMA BeneathBoth ==
    ASSUME NEW s, NEW d, NEW i, NEW S, NEW T, BeneathIn(s, d, i, S), BeneathIn(s, d, i, T)
    PROVE  BeneathIn(s, d, i, S \cap T)
  BY InsideFacts, FrameInMore DEF BeneathIn

(* What is beneath a frame is part of the whole. *)
LEMMA UsesBeneath ==
    ASSUME NEW s \in Seq(Frame), NEW d, NEW i \in 1..Len(s), NEW S, UsesIn(s, d, S)
    PROVE  BeneathIn(s, d, i, S)
<1>1. Inside(s[i].saved, S)
  BY DEF UsesIn, FrameIn
<1>2. \A j \in 1..(i - 1) : FrameIn(s[j], S)
  <2>1. \A j \in 1..(i - 1) : j \in 1..Len(s)
    OBVIOUS
  <2> QED
    BY <2>1 DEF UsesIn
<1>3. \A x \in Levels(s) : Inside(ListAt(s, d, x), S)
  BY DEF UsesIn, FrameIn, Levels, ListAt, FnsIn
<1> QED
  BY <1>1, <1>2, <1>3 DEF BeneathIn

(* A step keeps what is beneath a frame that stays. *)
LEMMA BeneathKept ==
    ASSUME NEW s \in Seq(Frame), NEW t \in Seq(Frame), NEW d, NEW e,
           FramesStay(s, t), ListsStay(s, d, t, e), NEW S,
           NEW i \in 1..Len(t), i <= Len(s), BeneathIn(s, d, i, S)
    PROVE  BeneathIn(t, e, i, S)
<1>1. t[i].kind = s[i].kind /\ t[i].saved = s[i].saved
  BY DEF FramesStay
<1>2. Inside(t[i].saved, S)
  BY <1>1 DEF BeneathIn
<1>3. \A j \in 1..(i - 1) : FrameIn(t[j], S)
  <2> SUFFICES ASSUME NEW j \in 1..(i - 1) PROVE FrameIn(t[j], S)
    OBVIOUS
  <2>1. j \in 1..Len(t) /\ j <= Len(s) /\ j < Len(s)
    OBVIOUS
  <2>2. t[j] = s[j]
    BY <2>1 DEF FramesStay
  <2> QED
    BY <2>2 DEF BeneathIn
<1>4. ASSUME t[i].kind = "block", NEW x \in Levels(t), Follows(t, i, x)
      PROVE  Inside(ListAt(t, e, x), S)
  <2>1. \/ ListAt(t, e, x) = <<>>
        \/ \E y \in Levels(s) : Follows(s, i, y) /\ ListAt(t, e, x) = ListAt(s, d, y)
    BY <1>1, <1>4 DEF ListsStay
  <2> QED
    BY <1>1, <1>4, <2>1, InsideFacts DEF BeneathIn
<1> QED
  BY <1>2, <1>3, <1>4 DEF BeneathIn

-----------------------------------------------------------------------------
(* The steps: a call, a return, and those that keep the calls. *)

LEMMA ListsStayCall ==
    ASSUME NEW s \in Seq(Frame), NEW d, NEW x \in Frame, x.kind = "fn", x.saved = d
    PROVE  ListsStay(s, d, Append(s, x), <<>>)
<1> DEFINE n == Len(s)
           t == Append(s, x)
<1>1. n \in Nat /\ Len(t) = n + 1 /\ t[n + 1] = x /\ \A i \in 1..n : t[i] = s[i]
  BY AppendFacts
<1>2. FnsIn(t) = FnsIn(s) \cup {n + 1} /\ FnsIn(s) \subseteq 1..n
  BY FnsPlus, LevelsOf
<1> HIDE DEF t
<1> SUFFICES ASSUME NEW i \in 1..Len(t), i <= n, NEW y \in Levels(t), Follows(t, i, y),
                    ListAt(t, <<>>, y) # <<>>
             PROVE  \E z \in Levels(s) : Follows(s, i, z) /\ ListAt(t, <<>>, y) = ListAt(s, d, z)
  BY DEF ListsStay, t
<1>3. y \in FnsIn(s) \cup {n + 1} /\ y \in Levels(s)
  BY <1>1, <1>2 DEF Levels, ListAt
<1>4. Follows(s, i, y)
  BY <1>2 DEF Follows
<1>5. ListAt(t, <<>>, y) = ListAt(s, d, y)
  BY <1>1, <1>2, <1>3 DEF ListAt
<1> QED
  BY <1>3, <1>4, <1>5

LEMMA ListsStayReturn ==
    ASSUME NEW s \in Seq(Frame), s # <<>>, Last(s).kind = "fn", NEW d
    PROVE  ListsStay(s, d, Front(s), Last(s).saved)
<1> DEFINE n == Len(s)
           t == Front(s)
           e == Last(s).saved
<1>1. /\ n \in Nat \ {0} /\ Len(t) = n - 1 /\ Last(s) = s[n]
      /\ \A i \in 1..(n - 1) : t[i] = s[i]
  BY SeqFacts
<1>2. FnsIn(s) = FnsIn(t) \cup {n} /\ FnsIn(t) \subseteq 1..(n - 1)
  <2>1. t \in Seq(Frame)
    BY SeqFacts
  <2> QED
    BY <1>1, <2>1, FnsMinus, LevelsOf
<1> HIDE DEF t
<1> SUFFICES ASSUME NEW i \in 1..Len(t), NEW y \in Levels(t), Follows(t, i, y)
             PROVE  \E z \in Levels(s) : Follows(s, i, z) /\ ListAt(t, e, y) = ListAt(s, d, z)
  BY DEF ListsStay, t
<1>3. y \in FnsIn(t) \cup {n} /\ y \in Levels(s)
  BY <1>1, <1>2 DEF Levels
<1>4. Follows(s, i, y)
  <2>1. \A k \in FnsIn(t) : k <= i \/ y <= k
    BY DEF Follows
  <2>2. y <= n
    BY <1>1, <1>2, <1>3
  <2> QED
    BY <1>2, <2>1, <2>2 DEF Follows
<1>5. ListAt(t, e, y) = ListAt(s, d, y)
  BY <1>1, <1>2, <1>3 DEF ListAt
<1> QED
  BY <1>3, <1>4, <1>5

LEMMA ListsStayFrame ==
    ASSUME NEW s \in Seq(Frame), NEW t \in Seq(Frame), NEW d, NEW e, FnsIn(t) = FnsIn(s),
           \A i \in FnsIn(s) : t[i].saved = s[i].saved,
           \/ e = d
           \/ \A i \in 1..Len(t) : i <= Len(s) /\ s[i].kind = "block"
                                   => ~Follows(t, i, Len(t) + 1)
    PROVE  ListsStay(s, d, t, e)
<1>0. /\ FnsIn(t) \subseteq 1..Len(t) /\ Len(t) \in Nat
      /\ FnsIn(s) \subseteq 1..Len(s) /\ Len(s) \in Nat
  BY LevelsOf
<1> SUFFICES ASSUME NEW i \in 1..Len(t), i <= Len(s), s[i].kind = "block",
                    NEW y \in Levels(t), Follows(t, i, y)
             PROVE  \E z \in Levels(s) : Follows(s, i, z) /\ ListAt(t, e, y) = ListAt(s, d, z)
  BY DEF ListsStay
<1>1. CASE y \in FnsIn(t)
  <2>1. y \in Levels(s) /\ y # Len(t) + 1 /\ y # Len(s) + 1
    BY <1>0, <1>1 DEF Levels
  <2>2. Follows(s, i, y)
    BY DEF Follows
  <2>3. ListAt(t, e, y) = ListAt(s, d, y)
    BY <1>1, <2>1 DEF ListAt
  <2> QED
    BY <2>1, <2>2, <2>3
<1>2. CASE y = Len(t) + 1
  <2>1. e = d
    BY <1>2
  <2>2. \A k \in FnsIn(s) : k <= i
    <3> SUFFICES ASSUME NEW k \in FnsIn(s) PROVE k <= i
      OBVIOUS
    <3>1. k <= i \/ Len(t) + 1 <= k
      BY <1>2 DEF Follows
    <3>2. k \in 1..Len(t)
      BY <1>0
    <3> QED
      BY <1>0, <3>1, <3>2
  <2>3. Follows(s, i, Len(s) + 1)
    BY <1>0, <2>2 DEF Follows
  <2> QED
    BY <1>2, <2>1, <2>3 DEF Levels, ListAt
<1> QED
  BY <1>1, <1>2 DEF Levels

(* The frames, when one is pushed, popped or rewritten. *)
LEMMA FramesStayAppend ==
    ASSUME NEW s \in Seq(Frame), NEW x \in Frame
    PROVE  FramesStay(s, Append(s, x))
<1>1. Len(s) \in Nat /\ Len(Append(s, x)) = Len(s) + 1 /\ \A i \in 1..Len(s) : Append(s, x)[i] = s[i]
  BY AppendFacts
<1> QED
  BY <1>1 DEF FramesStay

LEMMA FramesStayFront ==
    ASSUME NEW s \in Seq(Frame), s # <<>>
    PROVE  FramesStay(s, Front(s))
<1>1. /\ Len(s) \in Nat \ {0} /\ Len(Front(s)) = Len(s) - 1
      /\ \A i \in 1..(Len(s) - 1) : Front(s)[i] = s[i]
  BY SeqFacts
<1> DEFINE n == Len(s)
           t == Front(s)
<1>2. n \in Nat \ {0} /\ Len(t) = n - 1 /\ \A i \in 1..(n - 1) : t[i] = s[i]
  BY <1>1
<1> HIDE DEF n, t
<1> SUFFICES ASSUME NEW i \in 1..(n - 1) PROVE t[i] = s[i]
  BY <1>2 DEF FramesStay, n, t
<1> QED
  BY <1>2

LEMMA FramesStayTop ==
    ASSUME NEW s \in Seq(Frame), s # <<>>, NEW x \in Frame,
           x.kind = Last(s).kind, x.env = Last(s).env, x.saved = Last(s).saved
    PROVE  /\ FramesStay(s, [s EXCEPT ![Len(s)] = x])
           /\ Len([s EXCEPT ![Len(s)] = x]) = Len(s)
           /\ \A i \in 1..Len(s) : [s EXCEPT ![Len(s)] = x][i] = IF i = Len(s) THEN x ELSE s[i]
<1> DEFINE n == Len(s)
           t == [s EXCEPT ![n] = x]
<1>0. n \in Nat \ {0} /\ Last(s) = s[n]
  BY SeqFacts
<1>1. n \in Nat \ {0} /\ Last(s) = s[n] /\ n \in 1..n
  BY <1>0
<1>2. t[n] = x /\ \A i \in 1..n : i # n => t[i] = s[i]
  BY <1>1
<1>3. t \in Seq(Frame) /\ Len(t) = n
  BY <1>1, ExceptSeq
<1> HIDE DEF t
<1>4. \A i \in 1..n : t[i] = IF i = n THEN x ELSE s[i]
  BY <1>2
<1>5. FramesStay(s, t)
  <2> SUFFICES ASSUME NEW i \in 1..n
               PROVE  /\ t[i].kind = s[i].kind /\ t[i].env = s[i].env /\ t[i].saved = s[i].saved
                      /\ i < n => t[i] = s[i]
    BY <1>3 DEF FramesStay
  <2>1. CASE i = n
    BY <1>1, <1>2, <2>1
  <2>2. CASE i # n
    BY <1>2, <2>2
  <2> QED
    BY <2>1, <2>2
<1> QED
  BY <1>3, <1>4, <1>5 DEF t

-----------------------------------------------------------------------------
(* A stack step in short: what was beneath a frame that stays has stayed. *)
Stays(s, d, t, e) ==
    \A i \in 1..Len(t) : i <= Len(s) =>
        /\ t[i].kind = s[i].kind /\ t[i].env = s[i].env
        /\ \A S \in SUBSET Envs : BeneathIn(s, d, i, S) => BeneathIn(t, e, i, S)

LEMMA StaysFrom ==
    ASSUME NEW s \in Seq(Frame), NEW t \in Seq(Frame), NEW d, NEW e,
           FramesStay(s, t), ListsStay(s, d, t, e)
    PROVE  Stays(s, d, t, e)
<1> SUFFICES ASSUME NEW i \in 1..Len(t), i <= Len(s)
             PROVE  /\ t[i].kind = s[i].kind /\ t[i].env = s[i].env
                    /\ \A S \in SUBSET Envs : BeneathIn(s, d, i, S) => BeneathIn(t, e, i, S)
  BY DEF Stays
<1>1. t[i].kind = s[i].kind /\ t[i].env = s[i].env
  BY DEF FramesStay
<1>2. ASSUME NEW S \in SUBSET Envs, BeneathIn(s, d, i, S) PROVE BeneathIn(t, e, i, S)
  BY <1>2, BeneathKept
<1> QED
  BY <1>1, <1>2

LEMMA StaysBoth ==
    ASSUME NEW s \in Seq(Frame), NEW r \in Seq(Frame), NEW t \in Seq(Frame),
           NEW d, NEW e, NEW h, Len(r) = Len(s), Stays(s, d, r, e), Stays(r, e, t, h)
    PROVE  Stays(s, d, t, h)
<1> SUFFICES ASSUME NEW i \in 1..Len(t), i <= Len(s)
             PROVE  /\ t[i].kind = s[i].kind /\ t[i].env = s[i].env
                    /\ \A S \in SUBSET Envs : BeneathIn(s, d, i, S) => BeneathIn(t, h, i, S)
  BY DEF Stays
<1>1. i \in 1..Len(r)
  OBVIOUS
<1> QED
  BY <1>1 DEF Stays

(* A frame comes. *)
LEMMA PushStays ==
    ASSUME NEW s \in Seq(Frame), NEW d, NEW e, NEW x \in Frame, x.todo = <<>>,
           \/ x.kind = "fn" /\ x.saved = d /\ e = <<>>
           \/ x.kind # "fn" /\ x.saved = <<>> /\ e = d,
           NEW S, UsesIn(s, d, S)
    PROVE  /\ Stays(s, d, Append(s, x), e)
           /\ \A T : S \subseteq T /\ x.env \in T => UsesIn(Append(s, x), e, T)
           /\ BeneathIn(Append(s, x), e, Len(s) + 1, S)
<1> DEFINE t == Append(s, x)
           n == Len(s)
<1>1. /\ n \in Nat /\ Len(t) = n + 1 /\ t \in Seq(Frame)
      /\ t[n + 1] = x /\ \A i \in 1..n : t[i] = s[i]
  BY AppendFacts
<1>2. ListsStay(s, d, t, e)
  <2>1. CASE x.kind = "fn" /\ x.saved = d /\ e = <<>>
    BY <2>1, ListsStayCall
  <2>2. CASE x.kind # "fn" /\ e = d
    <3>1. FnsIn(t) = FnsIn(s) /\ \A i \in FnsIn(s) : t[i] = s[i]
      BY <2>2, FnsPlus
    <3> HIDE DEF t
    <3> QED
      BY <1>1, <2>2, <3>1, ListsStayFrame
  <2> QED
    BY <2>1, <2>2
<1>3. Stays(s, d, t, e)
  BY <1>1, <1>2, StaysFrom, FramesStayAppend
<1> HIDE DEF t
<1>4. Inside(x.saved, S) /\ Inside(x.todo, S) /\ Inside(e, S)
  BY InsideFacts DEF UsesIn
<1>5. \A i \in 1..n : FrameIn(t[i], S)
  BY <1>1 DEF UsesIn
<1>6. ASSUME NEW T, S \subseteq T, x.env \in T PROVE UsesIn(t, e, T)
  <2>1. Inside(e, T) /\ FrameIn(x, T) /\ \A i \in 1..n : FrameIn(t[i], T)
    BY <1>4, <1>5, <1>6, InsideFacts, FrameInMore DEF FrameIn
  <2>2. \A i \in 1..(n + 1) : i \in 1..n \/ i = n + 1
    BY <1>1
  <2> QED
    BY <1>1, <2>1, <2>2 DEF UsesIn
<1>7. BeneathIn(t, e, n + 1, S)
  <2>1. (n + 1) - 1 = n
    BY <1>1
  <2>2. ASSUME NEW y \in Levels(t), Follows(t, n + 1, y) PROVE Inside(ListAt(t, e, y), S)
    <3>1. y = n + 2
      BY <1>1, <2>2, LevelsOf DEF Follows
    <3>2. ListAt(t, e, y) = e
      BY <1>1, <3>1 DEF ListAt
    <3> QED
      BY <1>4, <3>2
  <2> QED
    BY <1>1, <1>4, <1>5, <2>1, <2>2 DEF BeneathIn
<1> QED
  BY <1>3, <1>6, <1>7 DEF t

(* A frame goes. *)
LEMMA PopStays ==
    ASSUME NEW s \in Seq(Frame), s # <<>>, NEW d, NEW e,
           \/ Last(s).kind = "fn" /\ e = Last(s).saved
           \/ Last(s).kind # "fn" /\ e = d
    PROVE  /\ Stays(s, d, Front(s), e)
           /\ \A S : UsesIn(s, d, S) => UsesIn(Front(s), e, S)
           /\ Last(s).kind \in {"fn", "block"} =>
                \A S : BeneathIn(s, d, Len(s), S) => UsesIn(Front(s), e, S)
<1> DEFINE t == Front(s)
           n == Len(s)
<1>1. /\ n \in Nat \ {0} /\ Len(t) = n - 1 /\ t \in Seq(Frame) /\ Last(s) = s[n]
      /\ \A i \in 1..(n - 1) : t[i] = s[i]
  BY SeqFacts
<1>2. ListsStay(s, d, t, e)
  <2>1. CASE Last(s).kind = "fn" /\ e = Last(s).saved
    BY <2>1, ListsStayReturn
  <2>2. CASE Last(s).kind # "fn" /\ e = d
    <3>1. FnsIn(t) = FnsIn(s) /\ \A i \in FnsIn(t) : t[i] = s[i]
      BY <2>2, FnsMinus
    <3> HIDE DEF t
    <3> QED
      BY <1>1, <2>2, <3>1, ListsStayFrame
  <2> QED
    BY <2>1, <2>2
<1>3. Stays(s, d, t, e)
  BY <1>1, <1>2, StaysFrom, FramesStayFront
<1> HIDE DEF t
<1>4. ASSUME NEW S, UsesIn(s, d, S) PROVE UsesIn(t, e, S)
  <2>1. \A i \in 1..n : FrameIn(s[i], S)
    BY <1>4 DEF UsesIn
  <2>2. n \in 1..n /\ \A i \in 1..(n - 1) : i \in 1..n
    BY <1>1
  <2>3. Inside(e, S)
    BY <1>1, <1>4, <2>1, <2>2 DEF UsesIn, FrameIn
  <2> QED
    BY <1>1, <2>1, <2>2, <2>3 DEF UsesIn
<1>5. ASSUME Last(s).kind \in {"fn", "block"}, NEW S, BeneathIn(s, d, n, S)
      PROVE  UsesIn(t, e, S)
  <2>1. Inside(e, S)
    <3>1. CASE Last(s).kind = "fn"
      BY <1>1, <1>5, <3>1 DEF BeneathIn
    <3>2. CASE Last(s).kind = "block"
      <4>1. Follows(s, n, n + 1) /\ n + 1 \in Levels(s) /\ ListAt(s, d, n + 1) = d
        BY <1>1, LevelsOf DEF Follows, Levels, ListAt
      <4> QED
        BY <1>1, <1>5, <3>2, <4>1 DEF BeneathIn
    <3> QED
      BY <1>5, <3>1, <3>2
  <2>2. \A i \in 1..(n - 1) : FrameIn(s[i], S)
    BY <1>5 DEF BeneathIn
  <2> QED
    BY <1>1, <2>1, <2>2 DEF UsesIn
<1> QED
  BY <1>3, <1>4, <1>5 DEF t

(* The top frame goes on, and the list may move to it and back. *)
LEMMA TopStays ==
    ASSUME NEW s \in Seq(Frame), s # <<>>, NEW d, NEW e, NEW x \in Frame,
           x.kind = Last(s).kind, x.env = Last(s).env, x.saved = Last(s).saved,
           \/ e = d
           \/ x.kind = "fn" /\ e = x.saved
    PROVE  /\ Stays(s, d, [s EXCEPT ![Len(s)] = x], e)
           /\ \A S : UsesIn(s, d, S) /\ Inside(x.todo, S) => UsesIn([s EXCEPT ![Len(s)] = x], e, S)
<1> DEFINE n == Len(s)
           t == [s EXCEPT ![n] = x]
<1>1. /\ FramesStay(s, t) /\ Len(t) = n
      /\ \A i \in 1..n : t[i] = IF i = n THEN x ELSE s[i]
  BY FramesStayTop
<1>2. n \in Nat \ {0} /\ Last(s) = s[n]
  BY SeqFacts
<1>3. t \in Seq(Frame) /\ FnsIn(t) = FnsIn(s)
  BY FnsTop
<1> HIDE DEF t
<1>4. FnsIn(s) \subseteq 1..n /\ n \in 1..n
  BY <1>2, LevelsOf
<1>5. \A i \in FnsIn(s) : t[i].saved = s[i].saved
  BY <1>1, <1>2, <1>4
<1>6. ListsStay(s, d, t, e)
  <2>1. CASE e = d
    BY <1>3, <1>5, <2>1, ListsStayFrame
  <2>2. CASE x.kind = "fn"
    <3>1. n \in FnsIn(t)
      BY <1>2, <1>3, <1>4, <2>2 DEF FnsIn
    <3>2. \A i \in 1..n : s[i].kind = "block" => i # n
      BY <1>2, <2>2
    <3>3. \A i \in 1..Len(t) : i <= Len(s) /\ s[i].kind = "block" => ~Follows(t, i, Len(t) + 1)
      BY <1>1, <1>2, <3>1, <3>2 DEF Follows
    <3> QED
      BY <1>3, <1>5, <3>3, ListsStayFrame
  <2> QED
    BY <2>1, <2>2
<1>7. Stays(s, d, t, e)
  BY <1>1, <1>3, <1>6, StaysFrom
<1>8. ASSUME NEW S, UsesIn(s, d, S), Inside(x.todo, S) PROVE UsesIn(t, e, S)
  <2>1. \A i \in 1..n : FrameIn(s[i], S)
    BY <1>8 DEF UsesIn
  <2>2. FrameIn(x, S)
    BY <1>2, <1>4, <1>8, <2>1 DEF FrameIn
  <2>3. Inside(e, S)
    BY <1>8, <2>2 DEF UsesIn, FrameIn
  <2> QED
    BY <1>1, <2>1, <2>2, <2>3 DEF UsesIn
<1> QED
  BY <1>7, <1>8 DEF t

(* A body is deferred in a frame that no block is open in. *)
LEMMA DeferStays ==
    ASSUME NEW s \in Seq(Frame), NEW d \in Seq(DeferEntry), NEW y \in DeferEntry,
           \A i \in 1..Len(s) : s[i].kind = "block" => ~Follows(s, i, Len(s) + 1)
    PROVE  /\ Stays(s, d, s, Append(d, y))
           /\ \A S : UsesIn(s, d, S) /\ y.env \in S => UsesIn(s, Append(d, y), S)
<1> DEFINE e == Append(d, y)
<1>1. /\ Len(d) \in Nat /\ Len(e) = Len(d) + 1 /\ e[Len(d) + 1] = y
      /\ \A k \in 1..Len(d) : e[k] = d[k]
  BY AppendFacts
<1> HIDE DEF e
<1>2. ListsStay(s, d, s, e) /\ FramesStay(s, s)
  BY ListsStayFrame DEF FramesStay
<1>3. Stays(s, d, s, e)
  BY <1>2, StaysFrom
<1>4. ASSUME NEW S, UsesIn(s, d, S), y.env \in S PROVE UsesIn(s, e, S)
  <2>1. \A k \in 1..(Len(d) + 1) : k \in 1..Len(d) \/ k = Len(d) + 1
    BY <1>1
  <2>2. Inside(e, S)
    BY <1>1, <1>4, <2>1 DEF UsesIn, Inside
  <2> QED
    BY <1>4, <2>2 DEF UsesIn
<1> QED
  BY <1>3, <1>4 DEF e

-----------------------------------------------------------------------------
(* The invariant, step by step. *)

(* A step that keeps what is escaped, and starts or ends no marking. *)
LEMMA MarksKept ==
    ASSUME TypeInv, DeferInv, walk[Main] = NoWalk, UNCHANGED <<fns, walk>>,
           \A y \in Envs : y \in live /\ escaped[y]
                           => y \in live' /\ escaped'[y] /\ parent'[y] = parent[y],
           \A y \in live' : escaped'[y] => y \in live /\ escaped[y]
    PROVE  FunctionsSettled' /\ EscapedSettling' /\ MarkingPlace'
<1>1. \A x : SettledIn(live, parent, escaped, x) \subseteq SettledIn(live', parent', escaped', x)
  BY SettledPersists
<1>2. FunctionsSettled'
  BY <1>1 DEF DeferInv, FunctionsSettled, Settled
<1>3. EscapedSettling'
  BY <1>1 DEF DeferInv, EscapedSettling, Settled
<1>4. MarkingPlace'
  BY DEF MarkingPlace, NoWalk
<1> QED
  BY <1>2, <1>3, <1>4

(* What the new stack uses is in K, and the step spoils nothing in K. *)
LEMMA ShelterKept ==
    ASSUME NEW s \in Seq(Frame), NEW t \in Seq(Frame), NEW d, NEW e,
           NEW lv, NEW up, NEW esc, NEW lv2, NEW up2, NEW esc2, NEW K \in SUBSET Envs,
           Stays(s, d, t, e), Sheltered(s, d, lv, up, esc), UsesIn(t, e, K),
           \A i \in 1..Len(s) : esc[s[i].env] => esc2[s[i].env],
           \A x \in Envs : ClearIn(lv, up, x) \cap K \subseteq ClearIn(lv2, up2, x),
           \A i \in 1..Len(t) : i > Len(s) /\ t[i].kind \in {"fn", "block"}
                                => BeneathIn(t, e, i, ClearIn(lv2, up2, t[i].env))
    PROVE  Sheltered(t, e, lv2, up2, esc2)
<1> SUFFICES ASSUME NEW i \in 1..Len(t), t[i].kind \in {"fn", "block"}, ~esc2[t[i].env]
             PROVE  BeneathIn(t, e, i, ClearIn(lv2, up2, t[i].env))
  BY DEF Sheltered
<1>1. CASE i > Len(s)
  BY <1>1
<1>2. CASE i <= Len(s)
  <2>1. i \in 1..Len(s) /\ t[i].kind = s[i].kind /\ t[i].env = s[i].env
    BY <1>2 DEF Stays
  <2> DEFINE x == t[i].env
             C == ClearIn(lv, up, x)
  <2>2. C \in SUBSET Envs /\ x \in Envs
    <3>1. t[i] \in Frame
      BY ElementOfSeq
    <3> QED
      BY <3>1 DEF ClearIn, Frame
  <2>3. BeneathIn(s, d, i, C)
    BY <2>1 DEF Sheltered
  <2> HIDE DEF C, x
  <2>4. BeneathIn(t, e, i, C)
    BY <1>2, <2>2, <2>3 DEF Stays
  <2>5. BeneathIn(t, e, i, K)
    BY UsesBeneath
  <2>6. BeneathIn(t, e, i, C \cap K)
    BY <2>4, <2>5, BeneathBoth
  <2>7. C \cap K \subseteq ClearIn(lv2, up2, x)
    BY <2>2 DEF C
  <2> QED
    BY <2>6, <2>7, BeneathMore DEF x
<1>3. i \in Nat /\ Len(s) \in Nat
  OBVIOUS
<1> QED
  BY <1>1, <1>2, <1>3

(* What the frames of the stack run in is alive. *)
LEMMA UsedLive ==
    ASSUME TypeInv, DeferInv
    PROVE  /\ \A y \in Clear(NoEnv) : y \in live /\ y \in Envs
           /\ \A i \in 1..Len(frames[Main]) : frames[Main][i].env \in Clear(NoEnv)
<1>1. \A y \in Clear(NoEnv) : y \in live /\ y \in Envs
  BY ClearFacts DEF Clear
<1>2. \A i \in 1..Len(frames[Main]) : frames[Main][i].env \in Clear(NoEnv)
  BY DEF DeferInv, UsesIn, FrameIn
<1> QED
  BY <1>1, <1>2

(* A frame with a new Environment e, under p, is pushed. *)
LEMMA NewFrameKeeps ==
    ASSUME TypeInv, TypeInv', CallsInv, DeferInv, walk[Main] = NoWalk, UNCHANGED <<fns, walk>>,
           NEW e \in Envs, NEW p \in Clear(NoEnv), NewEnvironment(e, p),
           NEW x \in Frame, x.env = e, x.todo = <<>>, frames'[Main] = Append(frames[Main], x),
           \/ x.kind = "fn" /\ x.saved = defers /\ defers' = <<>>
           \/ x.kind # "fn" /\ x.saved = <<>> /\ defers' = defers
    PROVE  DeferInv'
<1> DEFINE s == frames[Main]
           t == frames'[Main]
           n == Len(s)
           A == Clear(NoEnv)
           B == ClearIn(live', parent', NoEnv)
<1>1. s \in Seq(Frame) /\ t \in Seq(Frame) /\ n \in Nat /\ Len(t) = n + 1 /\ t[n + 1] = x
  BY MainFacts, AppendFacts
<1>2. /\ e \notin live /\ live' = live \cup {e} /\ parent'[e] = p /\ escaped'[e] = FALSE
      /\ \A y \in Envs \ {e} : parent'[y] = parent[y] /\ escaped'[y] = escaped[y]
  BY DEF NewEnvironment, TypeInv, TypeOK
<1>3. /\ \A z : ClearIn(live, parent, z) \subseteq ClearIn(live', parent', z)
      /\ A \subseteq ClearIn(live', parent', e)
      /\ e \in B
  <2>1. p \in ClearIn(live, parent, NoEnv)
    BY DEF Clear
  <2>2. e \notin live /\ live' = live \cup {e} /\ parent'[e] = p
    BY <1>2
  <2>3. \A y \in Envs \ {e} : parent'[y] = parent[y]
    BY <1>2
  <2>4. /\ \A z : ClearIn(live, parent, z) \subseteq ClearIn(live', parent', z)
        /\ ClearIn(live, parent, NoEnv) \subseteq ClearIn(live', parent', e)
        /\ e \in ClearIn(live', parent', NoEnv)
    BY <2>1, <2>2, <2>3, ClearNew, ZenonT(60)
  <2> QED
    BY <2>4 DEF Clear
<1>4. UsesIn(s, defers, A)
  BY DEF DeferInv
<1> HIDE DEF A, B, s, t, n
<1>5. /\ Stays(s, defers, t, defers')
      /\ \A T : A \subseteq T /\ x.env \in T => UsesIn(t, defers', T)
      /\ BeneathIn(t, defers', n + 1, A)
  <2>1. \/ x.kind = "fn" /\ x.saved = defers /\ defers' = <<>>
        \/ x.kind # "fn" /\ x.saved = <<>> /\ defers' = defers
    OBVIOUS
  <2>2. t = Append(s, x) /\ n = Len(s)
    BY DEF s, t, n
  <2> QED
    BY <1>1, <1>4, <2>1, <2>2, PushStays, ZenonT(60)
<1>6. A \subseteq B /\ A \in SUBSET Envs
  BY <1>3, UsedLive DEF A, B, Clear
<1>7. UsesIn(t, defers', B)
  BY <1>3, <1>5, <1>6
<1>8. Sheltered(t, defers', live', parent', escaped')
  <2>1. UsesIn(t, defers', Envs)
    BY <1>5, <1>6
  <2>2. \A i \in 1..n : escaped[s[i].env] => escaped'[s[i].env]
    <3>1. \A i \in 1..n : s[i].env \in live /\ s[i].env \in Envs
      BY UsedLive DEF s, n
    <3> QED
      BY <1>2, <3>1
  <2>3. \A i \in 1..Len(t) : i > n /\ t[i].kind \in {"fn", "block"}
                             => BeneathIn(t, defers', i, ClearIn(live', parent', t[i].env))
    <3>1. \A i \in 1..Len(t) : i > n => i = n + 1
      BY <1>1
    <3>2. BeneathIn(t, defers', n + 1, ClearIn(live', parent', e))
      BY <1>3, <1>5, BeneathMore
    <3> QED
      BY <1>1, <3>1, <3>2
  <2>4. Sheltered(s, defers, live, parent, escaped)
    BY DEF DeferInv, s
  <2>5. \A z \in Envs : ClearIn(live, parent, z) \cap Envs \subseteq ClearIn(live', parent', z)
    BY <1>3
  <2> HIDE DEF n
  <2> QED
    BY <1>1, <1>5, <2>1, <2>2, <2>3, <2>4, <2>5, ShelterKept DEF n
<1>9. FunctionsSettled' /\ EscapedSettling' /\ MarkingPlace'
  <2>1. \A y \in Envs : y \in live /\ escaped[y]
                        => y \in live' /\ escaped'[y] /\ parent'[y] = parent[y]
    BY <1>2
  <2>2. \A y \in live' : escaped'[y] => y \in live /\ escaped[y]
    BY <1>2 DEF TypeInv, TypeOK
  <2> QED
    BY <2>1, <2>2, MarksKept
<1> QED
  BY <1>7, <1>8, <1>9 DEF DeferInv, Clear, B, t

(* The top frame goes, and its Environment with it when it is a call or a   *)
(* block and nothing has marked it. *)
LEMMA PopFrameKeeps ==
    ASSUME TypeInv, TypeInv', CallsInv, DeferInv, walk[Main] = NoWalk, UNCHANGED <<fns, walk>>,
           frames'[Main] = Front(frames[Main]),
           \/ UNCHANGED envVars
           \/ ReleaseEnvironment(Top(Main).env) /\ Top(Main).kind \in {"fn", "block"},
           \/ Top(Main).kind = "fn" /\ defers' = Top(Main).saved
           \/ Top(Main).kind # "fn" /\ defers' = defers
    PROVE  DeferInv'
<1> DEFINE s == frames[Main]
           t == frames'[Main]
           n == Len(s)
           A == Clear(NoEnv)
           e == Top(Main).env
<1>1. /\ s \in Seq(Frame) /\ s # <<>> /\ Top(Main) = Last(s) /\ Last(s) = s[n] /\ n \in 1..n
      /\ n \in Nat \ {0} /\ Top(Main) \in Frame
  BY MainFacts DEF Depth
<1>2. t \in Seq(Frame) /\ Len(t) = n - 1 /\ e \in Envs
  <2>1. t \in Seq(Frame) /\ Len(t) = n - 1
    BY <1>1, SeqFacts
  <2> QED
    BY <1>1, <2>1 DEF Frame
<1>3. /\ UsesIn(s, defers, A) /\ Sheltered(s, defers, live, parent, escaped)
      /\ A \in SUBSET Envs
  BY UsedLive DEF DeferInv
<1> HIDE DEF A, e, s, t, n
<1>4. /\ Stays(s, defers, t, defers')
      /\ \A S : UsesIn(s, defers, S) => UsesIn(t, defers', S)
      /\ Last(s).kind \in {"fn", "block"} =>
           \A S : BeneathIn(s, defers, n, S) => UsesIn(t, defers', S)
  BY <1>1, PopStays DEF s, t, n
<1>5. \A i \in 1..Len(t) : i > n => FALSE
  BY <1>1, <1>2
<1>6. CASE UNCHANGED envVars
  <2>1. UNCHANGED <<live, parent, escaped>>
    BY <1>6 DEF envVars
  <2>2. UsesIn(t, defers', A)
    BY <1>3, <1>4
  <2>3. Sheltered(t, defers', live, parent, escaped)
    <3>1. \A x \in Envs : ClearIn(live, parent, x) \cap A \subseteq ClearIn(live, parent, x)
      OBVIOUS
    <3>2. \A i \in 1..Len(s) : escaped[s[i].env] => escaped[s[i].env]
      OBVIOUS
    <3>3. \A i \in 1..Len(t) : i > Len(s) /\ t[i].kind \in {"fn", "block"}
                                => BeneathIn(t, defers', i, ClearIn(live, parent, t[i].env))
      BY <1>5 DEF n
    <3> QED
      BY <1>1, <1>2, <1>3, <1>4, <2>2, <3>1, <3>2, <3>3, ShelterKept
  <2>4. FunctionsSettled' /\ EscapedSettling' /\ MarkingPlace'
    BY <2>1, MarksKept
  <2> QED
    BY <2>1, <2>2, <2>3, <2>4 DEF DeferInv, Clear, A, t
<1>7. CASE ReleaseEnvironment(e) /\ Top(Main).kind \in {"fn", "block"} /\ ~escaped[e]
  <2> DEFINE K == A \cap ClearIn(live, parent, e)
             B == ClearIn(live', parent', NoEnv)
  <2>1. /\ live' = live \ {e} /\ escaped' = escaped
        /\ \A y \in Envs \ {e} : parent'[y] = parent[y]
    BY <1>7 DEF ReleaseEnvironment, TypeInv, TypeOK
  <2>2. UsesIn(t, defers', K)
    <3>1. BeneathIn(s, defers, n, ClearIn(live, parent, e))
      BY <1>1, <1>3, <1>7 DEF Sheltered, n, e
    <3>2. UsesIn(t, defers', ClearIn(live, parent, e)) /\ UsesIn(t, defers', A)
      BY <1>1, <1>3, <1>4, <1>7, <3>1
    <3> QED
      BY <3>2, UsesBoth
  <2>3. \A x : ClearIn(live, parent, x) \cap ClearIn(live, parent, e) \subseteq ClearIn(live', parent', x)
    BY <1>2, <2>1, ClearGone
  <2>4. K \subseteq B /\ K \in SUBSET Envs
    BY <1>3, <2>3 DEF A, Clear
  <2>5. \A x \in Envs : ClearIn(live, parent, x) \cap K \subseteq ClearIn(live', parent', x)
    BY <2>3
  <2> HIDE DEF K, B
  <2>6. UsesIn(t, defers', B)
    BY <2>2, <2>4, UsesMore
  <2>7. Sheltered(t, defers', live', parent', escaped')
    <3>1. \A i \in 1..Len(s) : escaped[s[i].env] => escaped'[s[i].env]
      BY <2>1
    <3>2. \A i \in 1..Len(t) : i > Len(s) /\ t[i].kind \in {"fn", "block"}
                                => BeneathIn(t, defers', i, ClearIn(live', parent', t[i].env))
      BY <1>5 DEF n
    <3> QED
      BY <1>1, <1>2, <1>3, <1>4, <2>2, <2>4, <2>5, <3>1, <3>2, ShelterKept
  <2>8. FunctionsSettled' /\ EscapedSettling' /\ MarkingPlace'
    <3>1. \A y \in Envs : y \in live /\ escaped[y]
                          => y \in live' /\ escaped'[y] /\ parent'[y] = parent[y]
      BY <1>7, <2>1
    <3>2. \A y \in live' : escaped'[y] => y \in live /\ escaped[y]
      BY <2>1
    <3> QED
      BY <3>1, <3>2, MarksKept
  <2> QED
    BY <2>6, <2>7, <2>8 DEF DeferInv, Clear, B, t
<1>8. CASE ReleaseEnvironment(e) /\ escaped[e]
  BY <1>6, <1>8 DEF ReleaseEnvironment
<1> QED
  BY <1>6, <1>7, <1>8 DEF e

(* The stack and the list change, the Environments do not. *)
LEMMA StackKeeps ==
    ASSUME TypeInv, TypeInv', CallsInv, DeferInv, walk[Main] = NoWalk,
           UNCHANGED <<envVars, fns, walk>>,
           Stays(frames[Main], defers, frames'[Main], defers'),
           UsesIn(frames'[Main], defers', Clear(NoEnv)),
           \A i \in 1..Len(frames'[Main]) :
              i > Len(frames[Main]) => frames'[Main][i].kind \notin {"fn", "block"}
    PROVE  DeferInv'
<1> DEFINE s == frames[Main]
           t == frames'[Main]
           A == Clear(NoEnv)
<1>1. UNCHANGED <<live, parent, escaped>>
  BY DEF envVars
<1>2. s \in Seq(Frame) /\ t \in Seq(Frame) /\ A \in SUBSET Envs
  BY UsedLive, GoroutinesAssumption DEF TypeInv, TypeOK
<1>3. Sheltered(s, defers, live, parent, escaped)
  BY DEF DeferInv
<1> HIDE DEF s, t, A
<1>4. Sheltered(t, defers', live, parent, escaped)
  <2>1. \A x \in Envs : ClearIn(live, parent, x) \cap A \subseteq ClearIn(live, parent, x)
    OBVIOUS
  <2>2. \A i \in 1..Len(s) : escaped[s[i].env] => escaped[s[i].env]
    OBVIOUS
  <2>3. \A i \in 1..Len(t) : i > Len(s) /\ t[i].kind \in {"fn", "block"}
                              => BeneathIn(t, defers', i, ClearIn(live, parent, t[i].env))
    BY DEF s, t
  <2>4. Stays(s, defers, t, defers') /\ UsesIn(t, defers', A)
    BY DEF s, t, A
  <2> QED
    BY <1>2, <1>3, <2>1, <2>2, <2>3, <2>4, ShelterKept
<1>5. FunctionsSettled' /\ EscapedSettling' /\ MarkingPlace'
  BY <1>1, MarksKept
<1> QED
  BY <1>1, <1>4, <1>5 DEF DeferInv, Clear, A, t

-----------------------------------------------------------------------------
(* The actions. *)

LEMMA CallShelters ==
    ASSUME TypeInv, TypeInv', CallsInv, DeferInv, NEW f \in fns, Call(Main, f) \/ Construct(Main, f)
    PROVE  DeferInv'
<1>1. f.env \in Clear(NoEnv) /\ f.env \in Envs /\ f.file \in Files \cup {NoFile}
  <2>1. f.env \in Settled(NoEnv) /\ f \in Function
    BY DEF DeferInv, FunctionsSettled, TypeInv, TypeOK
  <2> QED
    BY <2>1, SettledClear DEF Function
<1>2. /\ walk[Main] = NoWalk /\ UNCHANGED <<fns, walk>>
      /\ Depth(Main) + 1 \in Nat /\ Depth(Main) = Len(frames[Main])
      /\ filename \in Files /\ defers \in Seq(DeferEntry)
  <2>1. /\ Depth(Main) \in Nat \ {0} /\ Depth(Main) = Len(frames[Main])
        /\ filename \in Files /\ defers \in Seq(DeferEntry)
    BY MainFacts
  <2>2. walk[Main] = NoWalk /\ UNCHANGED <<fns, walk>>
    BY DEF Call, Construct, Evaluating
  <2> QED
    BY <2>1, <2>2
<1>3. CASE Call(Main, f)
  <2>1. PICK e \in Envs :
           /\ NewEnvironment(e, f.env)
           /\ Push(Main, [NewFrame("fn", Depth(Main) + 1, e) EXCEPT
                            !.file = f.file,
                            !.prev = IF f.file = NoFile THEN NoFile ELSE filename,
                            !.saved = defers,
                            !.phase = "bind"])
    BY <1>3 DEF Call
  <2> DEFINE x == [NewFrame("fn", Depth(Main) + 1, e) EXCEPT
                     !.file = f.file,
                     !.prev = IF f.file = NoFile THEN NoFile ELSE filename,
                     !.saved = defers,
                     !.phase = "bind"]
  <2>2. NewFrame("fn", Depth(Main) + 1, e) \in Frame
    BY <1>2, NewFrameType DEF FrameKinds
  <2>3. x \in Frame
    BY <1>1, <1>2, <2>2 DEF Frame, Phases
  <2>4. x.env = e /\ x.kind = "fn" /\ x.saved = defers /\ x.todo = <<>>
    BY DEF NewFrame
  <2> HIDE DEF x
  <2>5. frames'[Main] = Append(frames[Main], x)
    BY <2>1, GoroutinesAssumption DEF Push, TypeInv, TypeOK, x
  <2>6. defers' = <<>>
    BY <1>3 DEF Call
  <2> QED
    BY <1>1, <1>2, <2>1, <2>3, <2>4, <2>5, <2>6, NewFrameKeeps
<1>4. CASE Construct(Main, f)
  <2>1. PICK e \in Envs :
           /\ NewEnvironment(e, f.env)
           /\ Push(Main, [NewFrame("new", Depth(Main) + 1, e) EXCEPT !.phase = "bind"])
    BY <1>4 DEF Construct
  <2> DEFINE x == [NewFrame("new", Depth(Main) + 1, e) EXCEPT !.phase = "bind"]
  <2>2. NewFrame("new", Depth(Main) + 1, e) \in Frame
    BY <1>2, NewFrameType DEF FrameKinds
  <2>3. x \in Frame
    BY <2>2 DEF Frame, Phases
  <2>4. x.env = e /\ x.kind = "new" /\ x.saved = <<>> /\ x.todo = <<>>
    BY DEF NewFrame
  <2> HIDE DEF x
  <2>5. frames'[Main] = Append(frames[Main], x)
    BY <2>1, GoroutinesAssumption DEF Push, TypeInv, TypeOK, x
  <2>6. defers' = defers
    BY <1>4 DEF Construct, interpVars
  <2> QED
    BY <1>1, <1>2, <2>1, <2>3, <2>4, <2>5, <2>6, NewFrameKeeps
<1> QED
  BY <1>3, <1>4

LEMMA EnterShelters ==
    ASSUME TypeInv, TypeInv', CallsInv, DeferInv, EnterBlock(Main) \/ EnterScope(Main)
    PROVE  DeferInv'
<1>1. /\ walk[Main] = NoWalk /\ UNCHANGED <<fns, walk>> /\ defers' = defers
      /\ frames[Main] # <<>>
  BY DEF EnterBlock, EnterScope, Executing, Evaluating, interpVars
<1>2. PICK e \in Envs, k \in {"block", "scope"} :
         NewEnvironment(e, Top(Main).env) /\ Push(Main, NewFrame(k, Top(Main).call, e))
  BY DEF EnterBlock, EnterScope
<1>3. Top(Main).env \in Clear(NoEnv) /\ Top(Main).call \in Nat
  <2>1. Top(Main) = frames[Main][Depth(Main)] /\ Depth(Main) \in 1..Len(frames[Main]) /\ Top(Main) \in Frame
    BY MainFacts
  <2> QED
    BY <2>1, UsedLive DEF Frame
<1> DEFINE x == NewFrame(k, Top(Main).call, e)
<1>4. x \in Frame
  BY <1>3, NewFrameType DEF FrameKinds
<1>5. x.env = e /\ x.kind # "fn" /\ x.saved = <<>> /\ x.todo = <<>>
  BY DEF NewFrame
<1> HIDE DEF x
<1>6. frames'[Main] = Append(frames[Main], x)
  BY <1>2, GoroutinesAssumption DEF Push, TypeInv, TypeOK, x
<1> QED
  BY <1>1, <1>2, <1>3, <1>4, <1>5, <1>6, NewFrameKeeps

LEMMA LeaveShelters ==
    ASSUME TypeInv, TypeInv', CallsInv, DeferInv,
           \/ BindFails(Main) \/ Return(Main)
           \/ LeaveBlock(Main) \/ LeaveScope(Main) \/ Constructed(Main) \/ DeferEnds(Main)
    PROVE  DeferInv'
<1>1. /\ frames[Main] # <<>> /\ walk[Main] = NoWalk /\ UNCHANGED <<fns, walk>>
      /\ Main \in Goroutines
  BY NotMarking, GoroutinesAssumption
     DEF BindFails, Return, LeaveBlock, LeaveScope, Constructed, DeferEnds, Executing, Evaluating
<1>2. frames'[Main] = Front(frames[Main])
  BY <1>1 DEF BindFails, Return, LeaveCall, LeaveBlock, LeaveScope, Constructed, DeferEnds,
              Pop, TypeInv, TypeOK
<1>3. CASE BindFails(Main) \/ Return(Main)
  <2>1. Top(Main).kind = "fn" /\ defers' = Top(Main).saved
    <3>1. CASE BindFails(Main)
      BY <3>1 DEF BindFails
    <3>2. CASE Return(Main)
      <4>1. Top(Main).phase = "defers" /\ defers' = defers
        BY <3>2 DEF Return
      <4>2. /\ Top(Main) = Last(frames[Main]) /\ Last(frames[Main]) = frames[Main][Depth(Main)]
            /\ Depth(Main) \in 1..Len(frames[Main])
            /\ frames[Main] \in Seq(Frame)
        BY MainFacts
      <4>3. Top(Main).kind = "fn"
        BY <4>1, <4>2 DEF CallsInv, Framed
      <4>4. ListsKept(frames[Main], defers)
        BY DEF CallsInv
      <4> QED
        BY <1>1, <4>1, <4>2, <4>3, <4>4, ListAtExit
    <3> QED
      BY <1>3, <3>1, <3>2
  <2>2. ReleaseEnvironment(Top(Main).env)
    BY <1>3 DEF BindFails, Return, LeaveCall
  <2> QED
    BY <1>1, <1>2, <2>1, <2>2, PopFrameKeeps
<1>4. CASE LeaveBlock(Main)
  <2>1. Top(Main).kind = "block" /\ defers' = defers /\ ReleaseEnvironment(Top(Main).env)
    BY <1>4 DEF LeaveBlock, interpVars
  <2> QED
    BY <1>1, <1>2, <2>1, PopFrameKeeps
<1>5. CASE LeaveScope(Main) \/ Constructed(Main) \/ DeferEnds(Main)
  <2>1. Top(Main).kind # "fn" /\ defers' = defers /\ UNCHANGED envVars
    BY <1>5 DEF LeaveScope, Constructed, DeferEnds, interpVars
  <2> QED
    BY <1>1, <1>2, <2>1, PopFrameKeeps
<1> QED
  BY <1>3, <1>4, <1>5

LEMMA TopShelters ==
    ASSUME TypeInv, TypeInv', CallsInv, DeferInv, ParamsBound(Main) \/ BodyEnds(Main)
    PROVE  DeferInv'
<1> DEFINE s == frames[Main]
           n == Len(s)
           A == Clear(NoEnv)
           top == Top(Main)
<1>1. /\ s \in Seq(Frame) /\ s # <<>> /\ top = Last(s) /\ top \in Frame
      /\ Depth(Main) = n /\ n \in Nat \ {0} /\ Last(s) = s[n] /\ n \in 1..n
      /\ defers \in Seq(DeferEntry) /\ top.saved \in Seq(DeferEntry)
  BY MainFacts
<1>2. walk[Main] = NoWalk /\ UNCHANGED <<envVars, fns, walk>>
  BY DEF ParamsBound, BodyEnds, Executing, Evaluating
<1>3. UsesIn(s, defers, A)
  BY DEF DeferInv
<1>4. PICK x \in Frame :
         /\ x.kind = top.kind /\ x.env = top.env /\ x.saved = top.saved
         /\ \/ defers' = defers /\ x.todo = top.todo
            \/ x.kind = "fn" /\ defers' = x.saved /\ x.todo = defers
         /\ frames'[Main] = [s EXCEPT ![n] = x]
  <2>1. CASE ParamsBound(Main)
    <3> DEFINE x == [top EXCEPT !.phase = "body"]
    <3>1. /\ x \in Frame /\ x.kind = top.kind /\ x.env = top.env /\ x.saved = top.saved
          /\ x.todo = top.todo
      BY <1>1 DEF Frame, Phases
    <3>2. defers' = defers /\ frames'[Main] = [s EXCEPT ![n] = x]
      BY <1>1, <2>1, GoroutinesAssumption DEF ParamsBound, SetPhase, interpVars, TypeInv, TypeOK
    <3> HIDE DEF x
    <3> QED
      BY <3>1, <3>2
  <2>2. CASE BodyEnds(Main)
    <3> DEFINE x == [top EXCEPT !.phase = "defers", !.todo = defers]
    <3>1. /\ x \in Frame /\ x.kind = top.kind /\ x.env = top.env /\ x.saved = top.saved
          /\ x.todo = defers
      BY <1>1 DEF Frame, Phases
    <3>2. top.kind = "fn" /\ defers' = top.saved
      BY <2>2 DEF BodyEnds
    <3>3. frames'[Main] = [s EXCEPT ![n].phase = "defers", ![n].todo = defers]
      BY <1>1, <2>2, GoroutinesAssumption DEF BodyEnds, TypeInv, TypeOK
    <3>4. frames'[Main] = [s EXCEPT ![n] = x]
      BY <1>1, <3>3
    <3> HIDE DEF x
    <3> QED
      BY <3>1, <3>2, <3>4
  <2> QED
    BY <2>1, <2>2
<1> HIDE DEF s, n, A, top
<1>5. Inside(x.todo, A)
  <2>1. FrameIn(s[n], A) /\ Inside(defers, A)
    BY <1>1, <1>3 DEF UsesIn, n
  <2>2. Inside(top.todo, A)
    BY <1>1, <2>1 DEF FrameIn
  <2>3. x.todo = top.todo \/ x.todo = defers
    BY <1>4
  <2> QED
    BY <2>1, <2>2, <2>3
<1>6. Stays(s, defers, frames'[Main], defers') /\ UsesIn(frames'[Main], defers', A)
  <2>1. /\ x.kind = Last(s).kind /\ x.env = Last(s).env /\ x.saved = Last(s).saved
        /\ defers' = defers \/ (x.kind = "fn" /\ defers' = x.saved)
    BY <1>1, <1>4
  <2>2. /\ Stays(s, defers, [s EXCEPT ![Len(s)] = x], defers')
        /\ UsesIn([s EXCEPT ![Len(s)] = x], defers', A)
    BY <1>1, <1>3, <1>5, <2>1, TopStays
  <2> QED
    BY <1>4, <2>2 DEF n
<1>7. Len(frames'[Main]) = Len(s)
  BY <1>1, <1>4, FnsTop DEF n
<1>8. \A i \in 1..Len(frames'[Main]) :
              i > Len(s) => frames'[Main][i].kind \notin {"fn", "block"}
  BY <1>7
<1> QED
  BY <1>2, <1>6, <1>8, StackKeeps DEF s, A

LEMMA RunShelters ==
    ASSUME TypeInv, TypeInv', CallsInv, DeferInv, RunDefer(Main)
    PROVE  DeferInv'
<1> DEFINE s == frames[Main]
           n == Len(s)
           A == Clear(NoEnv)
           top == Top(Main)
           x == [top EXCEPT !.todo = Front(top.todo)]
           y == NewFrame("defer", n, Last(top.todo).env)
           r == [s EXCEPT ![n] = x]
<1>1. /\ s \in Seq(Frame) /\ s # <<>> /\ top = Last(s) /\ top \in Frame
      /\ Depth(Main) = n /\ n \in Nat \ {0} /\ Last(s) = s[n] /\ n \in 1..n
      /\ defers \in Seq(DeferEntry) /\ top.todo \in Seq(DeferEntry)
  BY MainFacts
<1>2. walk[Main] = NoWalk /\ UNCHANGED <<envVars, fns, walk>> /\ defers' = defers /\ top.todo # <<>>
  BY NotMarking, GoroutinesAssumption DEF RunDefer, interpVars
<1>3. UsesIn(s, defers, A)
  BY DEF DeferInv
<1>4. /\ Last(top.todo) \in DeferEntry /\ Front(top.todo) \in Seq(DeferEntry)
      /\ Len(top.todo) \in Nat \ {0} /\ Last(top.todo) = top.todo[Len(top.todo)]
      /\ Len(Front(top.todo)) = Len(top.todo) - 1
      /\ \A k \in 1..(Len(top.todo) - 1) : Front(top.todo)[k] = top.todo[k]
  BY <1>1, <1>2, SeqFacts
<1>5. Inside(top.todo, A)
  BY <1>1, <1>3 DEF UsesIn, FrameIn
<1> HIDE DEF A
<1>6. Inside(Front(top.todo), A) /\ Last(top.todo).env \in A
  BY <1>4, <1>5 DEF Inside
<1>7. /\ x \in Frame /\ x.kind = top.kind /\ x.env = top.env /\ x.saved = top.saved
      /\ x.todo = Front(top.todo)
  BY <1>1, <1>4 DEF Frame
<1>8. y \in Frame /\ y.kind = "defer" /\ y.env = Last(top.todo).env /\ y.saved = <<>> /\ y.todo = <<>>
  <2>1. Last(top.todo).env \in Envs
    BY <1>4 DEF DeferEntry
  <2>2. y \in Frame
    BY <1>1, <2>1, NewFrameType DEF FrameKinds
  <2> QED
    BY <2>2 DEF NewFrame
<1>9. frames'[Main] = Append(r, y)
  <2>1. frames'[Main] = Append([s EXCEPT ![n].todo = Front(top.todo)], y)
    BY <1>1, GoroutinesAssumption DEF RunDefer, TypeInv, TypeOK
  <2>2. [s EXCEPT ![n].todo = Front(top.todo)] = r
    BY <1>1
  <2> QED
    BY <2>1, <2>2
<1> HIDE DEF s, n, top, x, y, r
<1>10. r \in Seq(Frame) /\ Len(r) = n
  BY <1>1, <1>7, FnsTop DEF n, r
<1>11. Stays(s, defers, r, defers) /\ UsesIn(r, defers, A)
  BY <1>1, <1>3, <1>6, <1>7, TopStays DEF n, r
<1>12. Stays(r, defers, Append(r, y), defers) /\ UsesIn(Append(r, y), defers, A)
  BY <1>6, <1>8, <1>10, <1>11, PushStays
<1>13. /\ Append(r, y) \in Seq(Frame) /\ Len(Append(r, y)) = n + 1 /\ Append(r, y)[n + 1] = y
  BY <1>8, <1>10, AppendFacts
<1>14. Stays(s, defers, Append(r, y), defers)
  BY <1>1, <1>10, <1>11, <1>12, <1>13, StaysBoth DEF n
<1>15. \A i \in 1..Len(frames'[Main]) : i > Len(s) => frames'[Main][i].kind \notin {"fn", "block"}
  <2>1. \A i \in 1..(n + 1) : i > n => i = n + 1
    BY <1>1
  <2> QED
    BY <1>8, <1>9, <1>13, <2>1 DEF n
<1> QED
  BY <1>2, <1>9, <1>12, <1>14, <1>15, StackKeeps DEF s, A

LEMMA DeferShelters ==
    ASSUME DefersInFunctions, TypeInv, TypeInv', CallsInv, DeferInv,
           NEW site \in Sites, Defer(Main, site)
    PROVE  DeferInv'
<1> DEFINE s == frames[Main]
           n == Len(s)
           A == Clear(NoEnv)
           top == Top(Main)
           c == top.call
           y == [env |-> top.env, site |-> site, by |-> <<Main, c>>]
<1>1. /\ s \in Seq(Frame) /\ s # <<>> /\ top = s[n] /\ top \in Frame
      /\ Depth(Main) = n /\ n \in Nat \ {0} /\ n \in 1..n /\ defers \in Seq(DeferEntry)
  BY MainFacts
<1>2. /\ walk[Main] = NoWalk /\ UNCHANGED <<envVars, fns, walk>>
      /\ defers' = Append(defers, y) /\ frames'[Main] = s /\ top.kind # "base"
  BY DEF Defer, Executing, Evaluating
<1>3. UsesIn(s, defers, A) /\ top.env \in A
  BY <1>1, UsedLive DEF DeferInv
<1>4. y \in DeferEntry /\ y.env = top.env
  BY <1>1, GoroutinesAssumption DEF DeferEntry, Frame
(* The innermost call is open with no block in it. *)
<1>5. s[c].kind # "new" /\ \A i \in c..n : s[i].kind # "block"
  <2>1. DeferKind(Main) \in Statements
    BY DEF Defer
  <2>2. DeferKind(Main) \notin {"newdefer", "nesteddefer", "blockdefer"}
    BY <2>1 DEF DefersInFunctions, OneAtATime
  <2> QED
    BY <1>1, <2>2 DEF DeferKind
<1>6. c \in 1..n /\ s[c].kind \in {"fn", "new"}
  <2>1. Framed(s)
    BY DEF CallsInv
  <2>2. n # 1
    BY <1>1, <1>2, <2>1 DEF Framed
  <2>3. n \in 2..n
    <3> HIDE DEF n
    <3> QED
      BY <1>1, <2>2
  <2> QED
    BY <1>1, <2>1, <2>3 DEF Framed, Owned
<1> HIDE DEF s, n, A, top, c, y
<1>7. \A i \in 1..n : s[i].kind = "block" => ~Follows(s, i, n + 1)
  <2> SUFFICES ASSUME NEW i \in 1..n, s[i].kind = "block", Follows(s, i, n + 1) PROVE FALSE
    OBVIOUS
  <2>1. c \in FnsIn(s)
    BY <1>5, <1>6 DEF FnsIn, n
  <2>2. c <= i \/ n + 1 <= c
    BY <2>1 DEF Follows
  <2>3. i \in c..n
    BY <1>1, <1>6, <2>2
  <2> QED
    BY <1>5, <2>3
<1>8. /\ Stays(s, defers, s, Append(defers, y))
      /\ UsesIn(s, Append(defers, y), A)
  BY <1>1, <1>3, <1>4, <1>7, DeferStays DEF n
<1>9. \A i \in 1..Len(s) : i > Len(s) => FALSE
  BY <1>1 DEF n
<1> QED
  BY <1>2, <1>8, <1>9, StackKeeps DEF s, A

(* Marking: the frame it has got to is alive, and what it has passed is     *)
(* settled but for the way on from there. *)
LEMMA BeginShelters ==
    ASSUME TypeInv, TypeInv', CallsInv, DeferInv, NEW why \in {"fn", "hoist", "spawn"}, BeginMark(Main, why)
    PROVE  DeferInv'
<1>1. /\ walk[Main] = NoWalk /\ UNCHANGED <<live, parent, escaped, fns, frames, defers>>
      /\ walk'[Main].at = Top(Main).env /\ Top(Main)' = Top(Main)
  BY GoroutinesAssumption
     DEF BeginMark, Executing, Evaluating, envVars, interpVars, TypeInv, TypeOK, Top
<1>2. Top(Main).env \in Clear(NoEnv)
  <2>1. Top(Main) = frames[Main][Depth(Main)] /\ Depth(Main) \in 1..Len(frames[Main])
    BY MainFacts
  <2> QED
    BY <2>1, UsedLive
<1>3. FunctionsSettled'
  BY <1>1 DEF DeferInv, FunctionsSettled, Settled
<1>4. EscapedSettling'
  <2> SUFFICES ASSUME NEW y \in live, escaped[y]
               PROVE  y \in SettledIn(live, parent, escaped, walk'[Main].at)
    BY <1>1 DEF EscapedSettling, Settled
  <2>1. y \in SettledIn(live, parent, escaped, NoEnv)
    BY <1>1 DEF DeferInv, EscapedSettling, Settled, NoWalk
  <2> QED
    BY <2>1, SettledMore
<1>5. MarkingPlace'
  BY <1>1, <1>2 DEF MarkingPlace, Clear
<1>6. UsesIn(frames[Main], defers, Clear(NoEnv))' /\ Sheltered(frames[Main], defers, live, parent, escaped)'
  BY <1>1 DEF DeferInv, Clear
<1> QED
  BY <1>3, <1>4, <1>5, <1>6 DEF DeferInv

LEMMA MarkShelters ==
    ASSUME TypeInv, TypeInv', CallsInv, DeferInv, MarkStep(Main)
    PROVE  DeferInv'
<1> DEFINE p == walk[Main].at
           q == parent[p]
           S == Settled(p) \cup {p}
<1>1. /\ p # NoEnv /\ ~escaped[p] /\ UNCHANGED <<live, parent, fns, frames, defers>>
      /\ walk[Main] # NoWalk
  BY DEF MarkStep, interpVars, NoWalk
<1>2. /\ p \in Clear(NoEnv) /\ p \in Envs /\ p \in live /\ q \in Clear(NoEnv) \cup {NoEnv}
  <2>1. p \in Clear(NoEnv)
    BY <1>1 DEF DeferInv, MarkingPlace
  <2> HIDE DEF p
  <2> QED
    BY <2>1, ClearFacts, Zenon DEF Clear
<1>3. /\ walk'[Main].at = q /\ escaped'[p] /\ \A y \in Envs \ {p} : escaped'[y] = escaped[y]
  <2>1. walk[Main] \in Walk
    BY <1>1, GoroutinesAssumption DEF TypeInv, TypeOK
  <2>2. walk'[Main].at = q
    BY <2>1, GoroutinesAssumption DEF MarkStep, TypeInv, TypeOK, Walk
  <2> QED
    BY <1>2, <2>2 DEF MarkStep, TypeInv, TypeOK
<1> HIDE DEF p
<1>4. \A x : SettledIn(live, parent, escaped, x) \subseteq SettledIn(live, parent, escaped', x)
  <2>1. \A y \in Envs : y \in live /\ escaped[y] => y \in live /\ escaped'[y] /\ parent[y] = parent[y]
    BY <1>1, <1>3
  <2> QED
    BY <2>1, SettledPersists
<1>5. S \subseteq SettledIn(live, parent, escaped', q)
  <2>1. ASSUME NEW y \in Settled(p)
        PROVE  y \in Envs /\ y \in live /\ escaped[y] /\ parent[y] \in Settled(p) \cup {NoEnv, p}
    BY <2>1, SettledFacts, Zenon DEF Settled
  <2>2. \A y \in S : y \in Envs /\ y \in live /\ escaped'[y] /\ parent[y] \in S \cup {NoEnv, q}
    BY <1>2, <1>3, <2>1
  <2>3. S \in SUBSET Envs /\ SettledSet(S, live, parent, escaped', q)
    BY <2>2 DEF SettledSet
  <2> HIDE DEF S, q
  <2> QED
    BY <2>3, SettledMax
<1>6. FunctionsSettled'
  BY <1>1, <1>4 DEF DeferInv, FunctionsSettled, Settled
<1>7. EscapedSettling'
  <2> SUFFICES ASSUME NEW y \in live, escaped'[y]
               PROVE  y \in SettledIn(live, parent, escaped', q)
    BY <1>1, <1>3 DEF EscapedSettling, Settled
  <2>1. y \in S
    BY <1>3 DEF DeferInv, EscapedSettling, TypeInv, TypeOK, p
  <2> QED
    BY <1>5, <2>1
<1>8. MarkingPlace'
  <2>1. Top(Main)' = Top(Main) /\ Top(Main).env \in Envs
    BY <1>1, MainFacts DEF Top, Frame
  <2>2. Top(Main).env = p \/ escaped[Top(Main).env]
    BY <1>1 DEF DeferInv, MarkingPlace, p
  <2>3. escaped'[Top(Main).env]
    BY <1>3, <2>1, <2>2
  <2> QED
    BY <1>1, <1>2, <1>3, <2>1, <2>3 DEF MarkingPlace, Clear
<1>9. UsesIn(frames[Main], defers, Clear(NoEnv))'
  BY <1>1 DEF DeferInv, Clear
<1>10. Sheltered(frames[Main], defers, live, parent, escaped)'
  <2> SUFFICES ASSUME NEW i \in 1..Len(frames[Main]), frames[Main][i].kind \in {"fn", "block"},
                      ~escaped'[frames[Main][i].env]
               PROVE  BeneathIn(frames[Main], defers, i, ClearIn(live, parent, frames[Main][i].env))
    BY <1>1 DEF Sheltered
  <2>1. frames[Main][i].env \in Envs
    BY UsedLive
  <2>2. ~escaped[frames[Main][i].env]
    BY <1>3, <2>1
  <2> QED
    BY <2>2 DEF DeferInv, Sheltered
<1> QED
  BY <1>6, <1>7, <1>8, <1>9, <1>10 DEF DeferInv

LEMMA FunctionShelters ==
    ASSUME TypeInv, TypeInv', CallsInv, DeferInv, MakeFunction(Main)
    PROVE  DeferInv'
<1> DEFINE p == walk[Main].at
<1>1. /\ walk[Main] # NoWalk /\ UNCHANGED <<live, parent, escaped, frames, defers>>
      /\ p # NoEnv => escaped[p]
      /\ fns' \subseteq fns \cup {f \in Function : f.env = Top(Main).env}
      /\ walk'[Main] = NoWalk
  <2>1. fns' \subseteq Function
    BY DEF TypeInv, TypeOK
  <2>2. MarkStops(Main) /\ Main \in Goroutines
    BY GoroutinesAssumption DEF MakeFunction
  <2>3. walk'[Main] = NoWalk
    BY <2>2, MarkStopsFacts
  <2> QED
    BY <2>1, <2>2, <2>3 DEF MakeFunction, MarkStops, envVars, interpVars
<1>2. p = NoEnv \/ p \in Settled(p)
  <2>1. p \in Clear(NoEnv) \cup {NoEnv}
    BY DEF DeferInv, MarkingPlace
  <2>2. p = NoEnv \/ p \in live
    BY <2>1, UsedLive
  <2> QED
    BY <1>1, <2>2 DEF DeferInv, EscapedSettling
<1> HIDE DEF p
<1>3. Settled(p) \subseteq Settled(NoEnv)
  <2> DEFINE S == Settled(p)
  <2>1. ASSUME NEW y \in S
        PROVE  y \in Envs /\ y \in live /\ escaped[y] /\ parent[y] \in S \cup {NoEnv, p}
    BY <2>1, SettledFacts, Zenon DEF Settled
  <2>2. S \in SUBSET Envs /\ SettledSet(S, live, parent, escaped, NoEnv)
    BY <1>2, <2>1 DEF SettledSet
  <2> HIDE DEF S
  <2> QED
    BY <2>2, SettledMax DEF Settled, S
<1>4. Top(Main).env \in Settled(NoEnv)
  <2>1. Top(Main) = frames[Main][Depth(Main)] /\ Depth(Main) \in 1..Len(frames[Main])
    BY MainFacts
  <2>2. Top(Main).env \in live /\ Top(Main).env # NoEnv
    BY <2>1, UsedLive, EnvsAssumption
  <2>3. escaped[Top(Main).env]
    BY <1>1, <2>2 DEF DeferInv, MarkingPlace, p
  <2>4. Top(Main).env \in Settled(p)
    BY <2>2, <2>3 DEF DeferInv, EscapedSettling, p
  <2> QED
    BY <1>3, <2>4
<1>5. Settled(NoEnv)' = Settled(NoEnv)
  BY <1>1 DEF Settled
<1>6. FunctionsSettled'
  BY <1>1, <1>4, <1>5 DEF DeferInv, FunctionsSettled
<1>7. EscapedSettling'
  <2> SUFFICES ASSUME NEW y \in live, escaped[y]
               PROVE  y \in SettledIn(live, parent, escaped, NoEnv)
    BY <1>1 DEF EscapedSettling, Settled, NoWalk
  <2> QED
    BY <1>3 DEF DeferInv, EscapedSettling, Settled, p
<1>8. MarkingPlace'
  BY <1>1 DEF MarkingPlace, NoWalk
<1>9. UsesIn(frames[Main], defers, Clear(NoEnv))' /\ Sheltered(frames[Main], defers, live, parent, escaped)'
  BY <1>1 DEF DeferInv, Clear
<1> QED
  BY <1>6, <1>7, <1>8, <1>9 DEF DeferInv

LEMMA CollectShelters ==
    ASSUME TypeInv, TypeInv', CallsInv, DeferInv, NEW e \in Envs, Collect(e)
    PROVE  DeferInv'
<1> DEFINE s == frames[Main]
           A == Clear(NoEnv)
           K == A \ {e}
           B == ClearIn(live', parent', NoEnv)
<1>1. /\ live' = live \ {e} /\ UNCHANGED <<escaped, frames, walk, defers>>
      /\ \A y \in Envs \ {e} : parent'[y] = parent[y]
      /\ \A y \in live : parent[y] # e
      /\ fns' \subseteq {f \in fns : f.env # e}
  BY DEF Collect, interpVars, TypeInv, TypeOK
<1>2. walk[Main].at # e
  BY GoroutinesAssumption DEF Collect
<1>3. A \in SUBSET Envs /\ UsesIn(s, defers, A) /\ s \in Seq(Frame)
  BY UsedLive, MainFacts DEF DeferInv
(* Nothing in use refers to e. *)
<1>4. UsesIn(s, defers, K)
  <2>1. /\ \A i \in 1..Len(s) : s[i].env # e
        /\ \A d \in Pending : d.env # e
    BY GoroutinesAssumption DEF Collect, InFrame, Depth
  <2>2. \A k \in 1..Len(defers) : defers[k] \in Pending
    BY DEF Pending, ToSet
  <2>3. ASSUME NEW i \in 1..Len(s)
        PROVE  /\ \A k \in 1..Len(s[i].saved) : s[i].saved[k] \in Pending
               /\ \A k \in 1..Len(s[i].todo) : s[i].todo[k] \in Pending
    <3>1. /\ \A k \in 1..Len(s[i].saved) : s[i].saved[k] \in ToSet(s[i].saved)
          /\ \A k \in 1..Len(s[i].todo) : s[i].todo[k] \in ToSet(s[i].todo)
      BY DEF ToSet
    <3>2. ToSet(s[i].saved) \cup ToSet(s[i].todo) \subseteq Pending
      BY GoroutinesAssumption DEF Pending, Depth
    <3> QED
      BY <3>1, <3>2
  <2>4. Inside(defers, K)
    BY <1>3, <2>1, <2>2 DEF UsesIn, Inside
  <2>5. ASSUME NEW i \in 1..Len(s) PROVE FrameIn(s[i], K)
    BY <1>3, <2>1, <2>3 DEF UsesIn, FrameIn, Inside
  <2> QED
    BY <2>4, <2>5 DEF UsesIn
<1>5. \A x : ClearIn(live, parent, x) \ {e} \subseteq ClearIn(live', parent', x)
  <2>1. \A y \in Envs \ {e} : parent'[y] = parent[y]
    BY <1>1
  <2>2. live' = live \ {e} /\ \A c \in live : parent[c] # e
    BY <1>1
  <2> QED
    BY <2>1, <2>2, ClearCollected
<1>6. UsesIn(s, defers, B)
  <2>1. K \subseteq B
    BY <1>5 DEF Clear
  <2> HIDE DEF K, B, s
  <2> QED
    BY <1>4, <2>1, UsesMore
<1>7. Sheltered(s, defers, live', parent', escaped)
  <2>1. \A x \in Envs : ClearIn(live, parent, x) \cap K \subseteq ClearIn(live', parent', x)
    BY <1>5
  <2>2. Stays(s, defers, s, defers) /\ K \in SUBSET Envs
    BY <1>3 DEF Stays
  <2>3. Sheltered(s, defers, live, parent, escaped)
    BY DEF DeferInv
  <2>4. \A i \in 1..Len(s) : i > Len(s) /\ s[i].kind \in {"fn", "block"}
                              => BeneathIn(s, defers, i, ClearIn(live', parent', s[i].env))
    BY <1>3
  <2>5. \A i \in 1..Len(s) : escaped[s[i].env] => escaped[s[i].env]
    OBVIOUS
  <2> HIDE DEF K, s
  <2> QED
    BY <1>3, <1>4, <2>1, <2>2, <2>3, <2>4, <2>5, ShelterKept
(* The settled chains that are left do not go through e. *)
<1>8. ASSUME NEW x, x # e
      PROVE  Settled(x) \ {e} \subseteq SettledIn(live', parent', escaped, x)
  <2> DEFINE S == Settled(x) \ {e}
  <2>1. ASSUME NEW y \in S
        PROVE  y \in Envs /\ y \in live' /\ escaped[y] /\ parent'[y] \in S \cup {NoEnv, x}
    <3>1. y \in Envs /\ y \in live /\ escaped[y] /\ parent[y] \in Settled(x) \cup {NoEnv, x}
      BY <2>1, SettledFacts, Zenon DEF Settled
    <3>2. y # e /\ parent[y] # e /\ parent'[y] = parent[y] /\ y \in live'
      BY <1>1, <2>1, <3>1
    <3> QED
      BY <3>1, <3>2
  <2>2. S \in SUBSET Envs /\ SettledSet(S, live', parent', escaped, x)
    BY <2>1 DEF SettledSet
  <2> HIDE DEF S
  <2> QED
    BY <2>2, SettledMax DEF S
<1>9. FunctionsSettled'
  <2>1. \A f \in fns' : f.env \in Settled(NoEnv) \ {e}
    BY <1>1 DEF DeferInv, FunctionsSettled
  <2>2. Settled(NoEnv) \ {e} \subseteq SettledIn(live', parent', escaped, NoEnv)
    BY <1>8, EnvsAssumption
  <2> QED
    BY <1>1, <2>1, <2>2 DEF FunctionsSettled, Settled
<1>10. EscapedSettling'
  <2>1. \A y \in live' : escaped[y] => y \in Settled(walk[Main].at) \ {e}
    BY <1>1 DEF DeferInv, EscapedSettling
  <2>2. Settled(walk[Main].at) \ {e} \subseteq SettledIn(live', parent', escaped, walk[Main].at)
    BY <1>2, <1>8
  <2> QED
    BY <1>1, <2>1, <2>2 DEF EscapedSettling, Settled
<1>11. MarkingPlace'
  <2>1. walk[Main].at \in B \cup {NoEnv}
    BY <1>2, <1>5 DEF DeferInv, MarkingPlace, Clear
  <2> QED
    BY <1>1, <2>1 DEF DeferInv, MarkingPlace, Top, Clear
<1> QED
  BY <1>1, <1>6, <1>7, <1>9, <1>10, <1>11 DEF DeferInv, Clear

LEMMA DeferInit == Init => DeferInv
<1> SUFFICES ASSUME Init PROVE DeferInv
  OBVIOUS
<1> USE EnvsAssumption, GoroutinesAssumption
<1> DEFINE S == {TopEnv, LibEnv}
           b == NewFrame("base", 0, TopEnv)
<1>1. S \in SUBSET Envs /\ live = S /\ walk[Main] = NoWalk /\ defers = <<>>
      /\ \A y \in S : escaped[y] /\ parent[y] = NoEnv
  BY DEF Init
<1>2. S \subseteq Settled(NoEnv)
  <2>1. SettledSet(S, live, parent, escaped, NoEnv)
    BY <1>1 DEF SettledSet
  <2> QED
    BY <1>1, <2>1, SettledMax DEF Settled
<1>3. frames[Main] = <<b>> /\ Len(<<b>>) = 1 /\ <<b>>[1] = b
  BY DEF Init
<1>4. b.kind = "base" /\ b.env = TopEnv /\ b.saved = <<>> /\ b.todo = <<>>
  BY DEF NewFrame
<1> HIDE DEF b
<1>5. FunctionsSettled
  BY <1>2 DEF FunctionsSettled, Init
<1>6. EscapedSettling /\ MarkingPlace
  BY <1>1, <1>2 DEF EscapedSettling, MarkingPlace, NoWalk
<1>7. TopEnv \in Clear(NoEnv)
  BY <1>2, SettledClear
<1>8. UsesIn(<<b>>, <<>>, Clear(NoEnv))
  <2>1. FrameIn(b, Clear(NoEnv)) /\ Inside(<<>>, Clear(NoEnv))
    BY <1>4, <1>7, InsideFacts DEF FrameIn
  <2> QED
    BY <1>3, <2>1 DEF UsesIn
<1>9. Sheltered(<<b>>, <<>>, live, parent, escaped)
  BY <1>3, <1>4 DEF Sheltered
<1> QED
  BY <1>1, <1>3, <1>5, <1>6, <1>8, <1>9 DEF DeferInv

LEMMA DeferNext ==
    DefersInFunctions /\ TypeInv /\ TypeInv' /\ CallsInv /\ DeferInv /\ [Next]_vars => DeferInv'
<1> SUFFICES ASSUME DefersInFunctions, TypeInv, TypeInv', CallsInv, DeferInv, [Next]_vars
             PROVE  DeferInv'
  OBVIOUS
<1>1. CASE UNCHANGED vars
  BY <1>1 DEF vars, DeferInv, FunctionsSettled, EscapedSettling, MarkingPlace, Settled, Clear, Top
<1>2. CASE \E e \in Envs : Collect(e)
  BY <1>2, CollectShelters
<1>3. CASE \E g \in Goroutines : Step(g)
  <2>1. Step(Main) /\ OneAtATime
    BY <1>3 DEF DefersInFunctions, OneAtATime
  <2>2. CASE \E f \in fns : Call(Main, f) \/ Construct(Main, f)
    BY <2>2, CallShelters
  <2>3. CASE EnterBlock(Main) \/ EnterScope(Main)
    BY <2>3, EnterShelters
  <2>4. CASE \/ BindFails(Main) \/ Return(Main)
             \/ LeaveBlock(Main) \/ LeaveScope(Main) \/ Constructed(Main) \/ DeferEnds(Main)
    BY <2>4, LeaveShelters
  <2>5. CASE ParamsBound(Main) \/ BodyEnds(Main) \/ RunDefer(Main)
    BY <2>5, TopShelters, RunShelters
  <2>6. CASE \E site \in Sites : Defer(Main, site)
    BY <2>6, DeferShelters
  <2>7. CASE \/ \E why \in {"fn", "hoist", "spawn"} : BeginMark(Main, why)
             \/ MarkStep(Main) \/ MakeFunction(Main)
    BY <2>7, BeginShelters, MarkShelters, FunctionShelters
  <2>8. CASE \/ Component(Main) \/ SelectCase(Main) \/ GoroutineEnds(Main) \/ Panic(Main)
             \/ \E h \in Goroutines : Spawn(Main, h)
             \/ \E cases \in SUBSET (Goroutines \ {Main}) : Select(Main, cases)
    <3>1. frames[Main] # <<>> /\ Top(Main) \in Frame
      BY MainFacts
    <3>2. ~Component(Main)
      BY DEF Component, DefersInFunctions
    <3>3. ~SelectCase(Main)
      <4>1. Top(Main).cases \subseteq {Main}
        BY <2>1, <3>1 DEF Frame, OneAtATime
      <4> QED
        BY <3>1, <4>1 DEF SelectCase
    <3>4. ~GoroutineEnds(Main) /\ ~Panic(Main)
      BY DEF GoroutineEnds, Panic
    <3>5. ~ \E h \in Goroutines : Spawn(Main, h)
      BY <2>1, <3>1 DEF Spawn, OneAtATime
    <3>6. ~ \E cases \in SUBSET (Goroutines \ {Main}) : Select(Main, cases)
      BY <2>1 DEF Select, OneAtATime
    <3> QED
      BY <2>8, <3>2, <3>3, <3>4, <3>5, <3>6
  <2> HIDE DEF DeferInv
  <2> QED
    BY <2>1, <2>2, <2>3, <2>4, <2>5, <2>6, <2>7, <2>8 DEF Step
<1> QED
  BY <1>1, <1>2, <1>3 DEF Next

(* In a program of one goroutine that defers in its functions, whatever     *)
(* calls, closures, constructors, blocks, errors, deferred bodies and the   *)
(* collector do: the Environment of a body that waits to run, and those     *)
(* above it, are neither in the pool nor collected, and no more are those   *)
(* that code runs in or that a function value captured. *)
THEOREM DeferredAlive ==
    ASSUME DefersInFunctions
    PROVE  Spec => [](DeferredLive /\ NoDangling)
<1>0. OneAtATime
  BY DEF DefersInFunctions
<1>1. Init => TypeInv /\ CallsInv /\ DeferInv
  BY TypeInit, CallsInit, DeferInit
<1>2. TypeInv /\ CallsInv /\ DeferInv /\ [Next]_vars => TypeInv' /\ CallsInv' /\ DeferInv'
  BY <1>0, TypeNext, CallsNext, DeferNext
<1>3. TypeInv /\ CallsInv /\ DeferInv => DeferredLive /\ NoDangling
  <2> SUFFICES ASSUME TypeInv, CallsInv, DeferInv PROVE DeferredLive /\ NoDangling
    OBVIOUS
  <2> DEFINE s == frames[Main]
             A == Clear(NoEnv)
  <2>1. /\ A \in SUBSET Envs /\ A \subseteq live
        /\ \A y \in A : parent[y] \in A \cup {NoEnv}
    BY UsedLive, ClearFacts DEF Clear
  <2>2. UsesIn(s, defers, A)
    BY DEF DeferInv
  <2>3. Captured \cup UNION {RunIn(g) : g \in Goroutines} \subseteq A
    <3>1. Captured \subseteq A
      BY SettledClear DEF DeferInv, FunctionsSettled, Captured
    <3>2. \A g \in Goroutines : g = Main
      BY <1>0 DEF OneAtATime
    <3>3. RunIn(Main) \subseteq A
      BY <2>2 DEF RunIn, Depth, UsesIn, FrameIn
    <3> QED
      BY <3>1, <3>2, <3>3
  <2>4. Deferred \subseteq A
    <3> SUFFICES ASSUME NEW d \in Pending PROVE d.env \in A
      BY DEF Deferred
    <3>1. CASE d \in ToSet(defers)
      BY <2>2, <3>1 DEF ToSet, UsesIn, Inside
    <3>2. CASE \E i \in 1..Depth(Main) : d \in ToSet(s[i].saved) \cup ToSet(s[i].todo)
      <4>1. PICK i \in 1..Len(s) : d \in ToSet(s[i].saved) \cup ToSet(s[i].todo)
        BY <3>2 DEF Depth
      <4>2. Inside(s[i].saved, A) /\ Inside(s[i].todo, A)
        BY <2>2 DEF UsesIn, FrameIn
      <4> QED
        BY <4>1, <4>2 DEF ToSet, Inside
    <3> QED
      BY <1>0, <3>1, <3>2 DEF Pending, OneAtATime
  <2> HIDE DEF A
  <2> QED
    BY <2>1, <2>3, <2>4, AboveIn DEF DeferredLive, NoDangling
<1> QED
  BY <1>1, <1>2, <1>3, PTL DEF Spec
=========================================================================
