------------------------ MODULE ModuleLoaderProofs ------------------------
(***************************************************************************)
(* Theorems about ModuleLoader, for every program: any files, directories, *)
(* imports, number of goroutines and bounds.                               *)
(***************************************************************************)
EXTENDS ModuleLoader, StackLemmas, FiniteSetTheorems, TLAPS

(* A stack of activations: a statement of its own at the bottom, modules    *)
(* and calls above it. *)
Base == {"main", "spawned"}
WellFormed(s) ==
    /\ s \in Seq(Activation)
    /\ \A i \in 1..Len(s) : s[i].kind \in Base <=> i = 1
    /\ Len(s) > 1 => Len(s) <= MaxDepth

(* A file is looked for by code that goes on when it has been loaded. *)
MissedInside == \A g \in Goroutines : missed[g] # NoFile => stack[g] # <<>>

(* The count of a program that loads in one goroutine at a time. *)
DepthSound == Serial => LoadDepthCovers
DepthType == libLoadDepth \in Int /\ (Serial => libLoadDepth \in Nat)

TypeInv ==
    /\ TypeOK
    /\ \A g \in Goroutines : WellFormed(stack[g])
    /\ MissedInside
    /\ DepthSound

-----------------------------------------------------------------------------
(* What the operations make of one stack. *)

LEMMA ActiveType ==
    ASSUME TypeOK, NEW k \in Kinds, NEW f \in Files, NEW r \in Nat
    PROVE  Active(k, f, r) \in Activation
  BY DEF TypeOK, Active, Activation

LEMMA PushKeeps ==
    ASSUME NEW s, WellFormed(s), s # <<>>, Len(s) < MaxDepth,
           NEW a \in Activation, a.kind \in {"load", "call"}
    PROVE  WellFormed(Append(s, a))
<1>1. s \in Seq(Activation) /\ Len(s) \in Nat \ {0}
  BY SeqFacts DEF WellFormed
<1>2. /\ Append(s, a) \in Seq(Activation) /\ Len(Append(s, a)) = Len(s) + 1
      /\ Append(s, a)[Len(s) + 1] = a
      /\ \A i \in 1..Len(s) : Append(s, a)[i] = s[i]
  BY <1>1, AppendFacts
<1>3. a.kind \notin Base
  BY DEF Base
<1>4. ASSUME NEW i \in 1..Len(Append(s, a))
      PROVE  Append(s, a)[i].kind \in Base <=> i = 1
  <2>1. CASE i = Len(s) + 1
    BY <1>1, <1>2, <1>3, <2>1
  <2>2. CASE i \in 1..Len(s)
    BY <1>2, <2>2 DEF WellFormed
  <2> QED
    BY <1>1, <1>2, <1>4, <2>1, <2>2
<1> QED
  BY <1>1, <1>2, <1>4, BoundsAssumption DEF WellFormed

LEMMA PopKeeps ==
    ASSUME NEW s, WellFormed(s), s # <<>>
    PROVE  WellFormed(Front(s))
<1>1. /\ s \in Seq(Activation) /\ Len(s) \in Nat \ {0}
      /\ Front(s) \in Seq(Activation) /\ Len(Front(s)) = Len(s) - 1
      /\ \A i \in 1..(Len(s) - 1) : Front(s)[i] = s[i]
  BY SeqFacts DEF WellFormed
<1> QED
  BY <1>1, BoundsAssumption DEF WellFormed

Done(s) == [s EXCEPT ![Len(s)].kind = "done"]

LEMMA DoneFacts ==
    ASSUME NEW s, WellFormed(s), s # <<>>
    PROVE  /\ Done(s) \in Seq(Activation)
           /\ Len(s) \in Nat \ {0}
           /\ Len(Done(s)) = Len(s)
           /\ \A i \in 1..(Len(s) - 1) : Done(s)[i] = s[i]
           /\ Done(s)[Len(s)] = [s[Len(s)] EXCEPT !.kind = "done"]
<1>1. s \in Seq(Activation) /\ Len(s) \in Nat \ {0}
  BY SeqFacts DEF WellFormed
<1>2. s[Len(s)] \in Activation
  BY <1>1, ElementOfSeq
<1>3. [s[Len(s)] EXCEPT !.kind = "done"] \in Activation
  BY <1>2 DEF Activation, Kinds
<1>4. Done(s) = [s EXCEPT ![Len(s)] = [s[Len(s)] EXCEPT !.kind = "done"]]
  BY DEF Done
<1> DEFINE n == Len(s)
           a == [s[n] EXCEPT !.kind = "done"]
<1> HIDE DEF a
<1>5. /\ [s EXCEPT ![n] = a] \in Seq(Activation)
      /\ Len([s EXCEPT ![n] = a]) = n
      /\ \A i \in 1..n : [s EXCEPT ![n] = a][i] = IF i = n THEN a ELSE s[i]
  <2>1. a \in Activation /\ n \in 1..n
    BY <1>1, <1>3 DEF a
  <2> QED
    BY <1>1, <2>1, ExceptSeq
<1>6. Done(s) = [s EXCEPT ![n] = a]
  BY <1>4 DEF a
<1> HIDE DEF Done
<1>7. n \in 1..n /\ \A i \in 1..(n - 1) : i \in 1..n /\ i # n
  BY <1>1
<1>8. \A i \in 1..(n - 1) : Done(s)[i] = s[i]
  BY <1>5, <1>6, <1>7
<1>9. Done(s)[n] = a
  BY <1>5, <1>6, <1>7
<1> QED
  BY <1>1, <1>5, <1>6, <1>8, <1>9 DEF a

LEMMA DoneKeeps ==
    ASSUME NEW s, WellFormed(s), s # <<>>, Last(s).kind \notin Base
    PROVE  WellFormed(Done(s))
<1>1. s \in Seq(Activation) /\ Len(s) \in Nat \ {0} /\ Last(s) = s[Len(s)]
  BY SeqFacts DEF WellFormed
<1>2. s[Len(s)] \in Activation
  BY <1>1, ElementOfSeq
<1>3. [s[Len(s)] EXCEPT !.kind = "done"].kind = "done" /\ "done" \notin Base
  BY <1>2 DEF Activation, Base
<1>4. Len(s) # 1
  BY <1>1 DEF WellFormed
<1>5. ASSUME NEW i \in 1..Len(s)
      PROVE  Done(s)[i].kind \in Base <=> i = 1
  <2>1. CASE i = Len(s)
    BY <1>3, <1>4, <2>1, DoneFacts
  <2>2. CASE i \in 1..(Len(s) - 1)
    <3>1. Done(s)[i] = s[i]
      BY <2>2, DoneFacts
    <3>2. s[i].kind \in Base <=> i = 1
      BY DEF WellFormed
    <3> QED
      BY <3>1, <3>2
  <2> QED
    BY <1>1, <1>5, <2>1, <2>2
<1> QED
  BY <1>1, <1>5, DoneFacts DEF WellFormed

LEMMA BaseKeeps ==
    ASSUME NEW a \in Activation, a.kind \in Base
    PROVE  WellFormed(<<>>) /\ WellFormed(<<a>>)
<1>1. <<>> \in Seq(Activation) /\ Len(<<>>) = 0
  OBVIOUS
<1>2. <<a>> \in Seq(Activation) /\ Len(<<a>>) = 1 /\ <<a>>[1] = a
  OBVIOUS
<1> QED
  BY <1>1, <1>2 DEF WellFormed

-----------------------------------------------------------------------------
(* The loads of all goroutines, as their stacks change. *)

LEMMA LoadingFinite == IsFiniteSet(Loading) /\ Cardinality(Loading) \in Nat
<1>1. IsFiniteSet(1..MaxDepth)
  BY FS_Interval, BoundsAssumption
<1>2. IsFiniteSet(Goroutines \X (1..MaxDepth))
  BY <1>1, FS_Product, GoroutinesAssumption
<1>3. Loading \in SUBSET (Goroutines \X (1..MaxDepth))
  BY DEF Loading
<1>4. IsFiniteSet(Loading)
  BY <1>2, <1>3, FS_Subset
<1> QED
  BY <1>4, FS_CardinalityType

(* Nothing is loaded that was not loaded before. *)
LEMMA LoadingShrinks ==
    ASSUME TypeInv, Loading' \subseteq Loading, UNCHANGED libLoadDepth
    PROVE  DepthSound'
<1>1. Cardinality(Loading') <= Cardinality(Loading) /\ IsFiniteSet(Loading')
  BY LoadingFinite, FS_Subset
<1>2. Cardinality(Loading') \in Nat
  BY <1>1, FS_CardinalityType
<1> QED
  BY <1>1, <1>2, LoadingFinite DEF DepthSound, LoadDepthCovers, TypeInv, TypeOK

LEMMA CountedFacts ==
    ASSUME TypeOK, NEW d \in Int, Counted(d)
    PROVE  libLoadDepth' \in Int /\ (Serial => libLoadDepth' = libLoadDepth + d)
  BY LostAssumption DEF Counted, TypeOK

(* One more module is loaded, and counted. *)
LEMMA LoadingGrows ==
    ASSUME TypeInv, NEW p, Loading' \subseteq Loading \cup {p},
           Counted(1)
    PROVE  DepthType' /\ DepthSound'
<1>1. /\ IsFiniteSet(Loading \cup {p})
      /\ Cardinality(Loading \cup {p}) \in Nat
      /\ Cardinality(Loading \cup {p}) <= Cardinality(Loading) + 1
  <2>1. IsFiniteSet(Loading) /\ Cardinality(Loading) \in Nat
    BY LoadingFinite
  <2>2. IsFiniteSet(Loading \cup {p})
    BY <2>1, FS_AddElement
  <2>3. Cardinality(Loading \cup {p}) = Cardinality(Loading)
        \/ Cardinality(Loading \cup {p}) = Cardinality(Loading) + 1
    BY <2>1, FS_AddElement
  <2> QED
    BY <2>1, <2>2, <2>3
<1>2. Cardinality(Loading') <= Cardinality(Loading \cup {p}) /\ IsFiniteSet(Loading')
  BY <1>1, FS_Subset
<1>3. Cardinality(Loading') \in Nat
  BY <1>2, FS_CardinalityType
<1>4. libLoadDepth' \in Int /\ (Serial => libLoadDepth' = libLoadDepth + 1)
  <2>1. TypeOK /\ 1 \in Int
    BY DEF TypeInv
  <2> QED
    BY <2>1, CountedFacts
<1> QED
  BY <1>1, <1>2, <1>3, <1>4, LoadingFinite
  DEF DepthType, DepthSound, LoadDepthCovers, TypeInv, TypeOK

(* A module is loaded no longer, and counted no longer: the count was not 0. *)
LEMMA LoadingEnds ==
    ASSUME TypeInv, NEW p \in Loading, Loading' \subseteq Loading \ {p},
           Counted(-1)
    PROVE  DepthType' /\ DepthSound'
<1>1. /\ IsFiniteSet(Loading \ {p})
      /\ Cardinality(Loading \ {p}) = Cardinality(Loading) - 1
      /\ Cardinality(Loading \ {p}) \in Nat
  BY LoadingFinite, FS_RemoveElement, FS_CardinalityType
<1>2. Cardinality(Loading') <= Cardinality(Loading \ {p}) /\ IsFiniteSet(Loading')
  BY <1>1, FS_Subset
<1>3. Cardinality(Loading') \in Nat
  BY <1>2, FS_CardinalityType
<1>4. libLoadDepth' \in Int /\ (Serial => libLoadDepth' = libLoadDepth + (-1))
  <2>1. TypeOK /\ (-1) \in Int
    BY DEF TypeInv
  <2> QED
    BY <2>1, CountedFacts
<1> QED
  BY <1>1, <1>2, <1>3, <1>4, LoadingFinite
  DEF DepthType, DepthSound, LoadDepthCovers, TypeInv, TypeOK

(* One stack changes. *)
Becomes(g, s) == stack' = [stack EXCEPT ![g] = s]

LEMMA StackOf ==
    ASSUME TypeInv, NEW g \in Goroutines, NEW s, Becomes(g, s)
    PROVE  stack'[g] = s /\ \A h \in Goroutines \ {g} : stack'[h] = stack[h]
  BY DEF TypeInv, TypeOK, Becomes

LEMMA StackKeeps ==
    ASSUME TypeInv, NEW g \in Goroutines, NEW s, Becomes(g, s), WellFormed(s)
    PROVE  /\ stack' \in [Goroutines -> Seq(Activation)]
           /\ \A h \in Goroutines : WellFormed(stack'[h])
<1>1. \A h \in Goroutines : WellFormed(stack'[h])
  BY StackOf DEF TypeInv
<1>2. s \in Seq(Activation)
  BY DEF WellFormed
<1> QED
  BY <1>1, <1>2 DEF TypeInv, TypeOK, Becomes

LoadsIn(s) == {i \in 1..Len(s) : s[i].kind = "load"}

LEMMA LoadingIs ==
    ASSUME TypeInv, NEW g \in Goroutines, NEW s, Becomes(g, s), WellFormed(s)
    PROVE  /\ \A p : p \in Loading <=>
                /\ p \in Goroutines \X (1..MaxDepth)
                /\ p[2] \in LoadsIn(stack[p[1]])
           /\ \A p : p \in Loading' <=>
                /\ p \in Goroutines \X (1..MaxDepth)
                /\ p[2] \in LoadsIn(IF p[1] = g THEN s ELSE stack[p[1]])
<1>1. \A h \in Goroutines : stack[h] \in Seq(Activation)
  BY DEF TypeInv, TypeOK
<1>2. \A h \in Goroutines : DOMAIN stack[h] = 1..Len(stack[h])
  BY <1>1
<1>3. s \in Seq(Activation) /\ DOMAIN s = 1..Len(s)
  BY DEF WellFormed
<1>4. \A h \in Goroutines : Loads(h) = LoadsIn(stack[h])
  BY <1>2 DEF Loads, LoadsIn
<1>5. \A h \in Goroutines : stack'[h] = IF h = g THEN s ELSE stack[h]
  BY StackOf
<1>6. \A h \in Goroutines : Loads(h)' = LoadsIn(IF h = g THEN s ELSE stack[h])
  BY <1>2, <1>3, <1>5 DEF Loads, LoadsIn
<1>7. \A p \in Goroutines \X (1..MaxDepth) : p[1] \in Goroutines
  OBVIOUS
<1> QED
  BY <1>4, <1>6, <1>7 DEF Loading

(* Of a stack with no new load, or of one that is gone. *)
LEMMA LoadsShrink ==
    ASSUME TypeInv, NEW g \in Goroutines, NEW s, Becomes(g, s), WellFormed(s),
           LoadsIn(s) \subseteq LoadsIn(stack[g])
    PROVE  Loading' \subseteq Loading
  BY LoadingIs

LEMMA LoadsPush ==
    ASSUME TypeInv, NEW g \in Goroutines, NEW s, Becomes(g, s), WellFormed(s),
           NEW i, LoadsIn(s) \subseteq LoadsIn(stack[g]) \cup {i}
    PROVE  Loading' \subseteq Loading \cup {<<g, i>>}
<1> SUFFICES ASSUME NEW p \in Loading', p \notin Loading
             PROVE  p = <<g, i>>
  OBVIOUS
<1>1. p \in Goroutines \X (1..MaxDepth) /\ p = <<p[1], p[2]>>
  BY LoadingIs
<1>2. p[1] = g
  BY LoadingIs
<1>3. p[2] = i
  BY <1>2, LoadingIs
<1> QED
  BY <1>1, <1>2, <1>3

LEMMA LoadsPop ==
    ASSUME TypeInv, NEW g \in Goroutines, NEW s, Becomes(g, s), WellFormed(s),
           NEW i \in LoadsIn(stack[g]), LoadsIn(s) \subseteq LoadsIn(stack[g]) \ {i}
    PROVE  <<g, i>> \in Loading /\ Loading' \subseteq Loading \ {<<g, i>>}
<1>1. WellFormed(stack[g]) /\ stack[g] \in Seq(Activation)
  BY DEF TypeInv, WellFormed
<1>2. i \in 1..Len(stack[g]) /\ stack[g][i].kind = "load"
  BY DEF LoadsIn
<1>3. i # 1
  BY <1>1, <1>2 DEF WellFormed, Base
<1>4. i \in 1..MaxDepth
  BY <1>1, <1>2, <1>3, BoundsAssumption DEF WellFormed
<1>5. <<g, i>> \in Loading
  BY <1>4, LoadingIs
<1>6. Loading' \subseteq Loading
  BY LoadsShrink
<1>7. <<g, i>> \notin Loading'
  BY LoadingIs
<1> QED
  BY <1>5, <1>6, <1>7

-----------------------------------------------------------------------------
(* Type correctness. *)

LEMMA FirstOfType ==
    ASSUME NEW a \in Dirs, NEW b \in Dirs, NEW c \in Dirs, NEW path \in Paths
    PROVE  FirstOf(<<a, b, c>>, path) \in Files \cup {NoFile}
<1> DEFINE dirs == <<a, b, c>>
           found == {i \in DOMAIN dirs : Target[dirs[i]][path] # NoFile}
           first == CHOOSE i \in found : \A j \in found : i <= j
<1>1. DOMAIN dirs = 1..3 /\ \A i \in 1..3 : dirs[i] \in Dirs
  OBVIOUS
<1>2. CASE found = {}
  BY <1>2 DEF FirstOf
<1>3. CASE found # {}
  <2>1. found \subseteq 1..3
    BY <1>1
  <2>2. \E i \in found : \A j \in found : i <= j
    <3>1. CASE 1 \in found
      BY <2>1, <3>1
    <3>2. CASE 1 \notin found /\ 2 \in found
      BY <2>1, <3>2
    <3>3. CASE 1 \notin found /\ 2 \notin found
      BY <1>3, <2>1, <3>3
    <3> QED
      BY <3>1, <3>2, <3>3
  <2>3. first \in found
    BY <2>2
  <2>4. dirs[first] \in Dirs
    BY <1>1, <2>1, <2>3
  <2>5. Target[dirs[first]][path] \in Files \cup {NoFile}
    BY <2>4, FilesAssumption
  <2>6. FirstOf(dirs, path) = Target[dirs[first]][path]
    BY <1>3 DEF FirstOf
  <2> QED
    BY <2>5, <2>6
<1> QED
  BY <1>2, <1>3

LEMMA ResolveType ==
    ASSUME TypeOK, NEW r \in Imports
    PROVE  Resolve(r.form, r.path) \in Files \cup {NoFile}
<1>1. filename[1] \in Dirs /\ Cwd \in Dirs /\ Store \in Dirs /\ r.path \in Paths
  BY FilesAssumption, ImportsAssumption DEF TypeOK
<1> QED
  BY <1>1, FirstOfType DEF Resolve, ResolveFrom

LEMMA TypeInit == Init => TypeInv
<1> SUFFICES ASSUME Init PROVE TypeInv
  OBVIOUS
<1> DEFINE a == Active("main", Entry, 0)
<1>1. a \in Activation /\ a.kind \in Base
  BY FilesAssumption DEF Init, Active, Activation, Kinds, Base
<1> HIDE DEF a
<1>2. WellFormed(<<>>) /\ WellFormed(<<a>>)
  BY <1>1, BaseKeeps
<1>3. \A g \in Goroutines : stack[g] = IF g = Main THEN <<a>> ELSE <<>>
  BY DEF Init, a
<1>4. \A g \in Goroutines : WellFormed(stack[g])
  BY <1>2, <1>3
<1>5. stack \in [Goroutines -> Seq(Activation)]
  BY <1>4 DEF WellFormed, Init
<1>6. TypeOK
  BY <1>5, FilesAssumption, BoundsAssumption DEF Init, TypeOK
<1>7. Loading = {}
  <2>1. \A g \in Goroutines : DOMAIN stack[g] = 1..Len(stack[g])
    BY <1>5
  <2>2. \A g \in Goroutines : Loads(g) = {}
    <3> SUFFICES ASSUME NEW g \in Goroutines, NEW i \in 1..Len(stack[g])
                 PROVE  stack[g][i].kind # "load"
      BY <2>1 DEF Loads
    <3>1. stack[g] = <<a>>
      BY <1>3
    <3>2. i = 1
      BY <3>1
    <3> QED
      BY <1>1, <3>1, <3>2 DEF Base
  <2> QED
    BY <2>2 DEF Loading
<1>8. LoadDepthCovers
  BY <1>7, FS_EmptySet DEF LoadDepthCovers, Init
<1> QED
  BY <1>4, <1>6, <1>8 DEF TypeInv, DepthSound, MissedInside, Init

(* The top activation of a goroutine that has one. *)
LEMMA TopFacts ==
    ASSUME TypeInv, NEW g \in Goroutines, stack[g] # <<>>
    PROVE  /\ Len(stack[g]) \in Nat \ {0}
           /\ Top(g) = stack[g][Len(stack[g])]
           /\ Top(g) \in Activation
           /\ WellFormed(Front(stack[g]))
           /\ Len(Front(stack[g])) = Len(stack[g]) - 1
           /\ \A i \in 1..(Len(stack[g]) - 1) : Front(stack[g])[i] = stack[g][i]
           /\ LoadsIn(Front(stack[g])) = LoadsIn(stack[g]) \ {Len(stack[g])}
<1>1. WellFormed(stack[g]) /\ stack[g] \in Seq(Activation)
  BY DEF TypeInv, WellFormed
<1>2. WellFormed(Front(stack[g]))
  BY <1>1, PopKeeps
<1>3. /\ Len(stack[g]) \in Nat \ {0}
      /\ Top(g) = stack[g][Len(stack[g])]
      /\ Top(g) \in Activation
      /\ Len(Front(stack[g])) = Len(stack[g]) - 1
      /\ \A i \in 1..(Len(stack[g]) - 1) : Front(stack[g])[i] = stack[g][i]
  BY <1>1, SeqFacts, Zenon DEF Top
<1>4. LoadsIn(Front(stack[g])) = LoadsIn(stack[g]) \ {Len(stack[g])}
  BY <1>3 DEF LoadsIn
<1> QED
  BY <1>2, <1>3, <1>4

(* One activation more: a module or a call. *)
LEMMA PushFacts ==
    ASSUME TypeInv, NEW g \in Goroutines, stack[g] # <<>>, Len(stack[g]) < MaxDepth,
           NEW a \in Activation, a.kind \in {"load", "call"}
    PROVE  /\ WellFormed(Append(stack[g], a))
           /\ Len(stack[g]) \in Nat \ {0}
           /\ Len(Append(stack[g], a)) = Len(stack[g]) + 1
           /\ Append(stack[g], a)[Len(stack[g]) + 1] = a
           /\ \A i \in 1..Len(stack[g]) : Append(stack[g], a)[i] = stack[g][i]
           /\ LoadsIn(Append(stack[g], a)) =
                IF a.kind = "load" THEN LoadsIn(stack[g]) \cup {Len(stack[g]) + 1}
                ELSE LoadsIn(stack[g])
<1>1. WellFormed(stack[g]) /\ stack[g] \in Seq(Activation)
  BY DEF TypeInv, WellFormed
<1>2. WellFormed(Append(stack[g], a))
  BY <1>1, PushKeeps
<1>3. /\ Len(stack[g]) \in Nat \ {0}
      /\ Len(Append(stack[g], a)) = Len(stack[g]) + 1
      /\ Append(stack[g], a)[Len(stack[g]) + 1] = a
      /\ \A i \in 1..Len(stack[g]) : Append(stack[g], a)[i] = stack[g][i]
  BY <1>1, AppendFacts, TopFacts
<1>4. LoadsIn(Append(stack[g], a)) =
        IF a.kind = "load" THEN LoadsIn(stack[g]) \cup {Len(stack[g]) + 1}
        ELSE LoadsIn(stack[g])
  BY <1>3 DEF LoadsIn
<1> QED
  BY <1>2, <1>3, <1>4

(* A step that leaves the stacks and the count as they are. *)
LEMMA SameStacks ==
    ASSUME TypeInv, UNCHANGED <<libLoadDepth, stack>>
    PROVE  /\ stack' \in [Goroutines -> Seq(Activation)]
           /\ \A h \in Goroutines : WellFormed(stack'[h])
           /\ DepthSound'
<1>1. Loading' = Loading
  BY DEF Loading, Loads
<1> QED
  BY <1>1, LoadingShrinks DEF TypeInv, TypeOK

(* A step that changes the stack of a goroutine that looks for nothing, and *)
(* begins no load. *)
LEMMA OtherStack ==
    ASSUME TypeInv, NEW g \in Goroutines, NEW s, Becomes(g, s), WellFormed(s),
           LoadsIn(s) \subseteq LoadsIn(stack[g]), UNCHANGED libLoadDepth,
           UNCHANGED missed, missed[g] = NoFile
    PROVE  /\ stack' \in [Goroutines -> Seq(Activation)]
           /\ \A h \in Goroutines : WellFormed(stack'[h])
           /\ DepthSound'
           /\ MissedInside'
<1>1. DepthSound'
  BY LoadsShrink, LoadingShrinks
<1>2. MissedInside'
  BY StackOf DEF TypeInv, MissedInside
<1> QED
  BY <1>1, <1>2, StackKeeps

LEMMA ImportType ==
    ASSUME TypeInv, NEW g \in Goroutines, NEW r \in Imports, Import(g, r)
    PROVE  TypeInv'
<1> DEFINE file == Resolve(r.form, r.path)
<1>1. file \in Files \cup {NoFile}
  BY ResolveType DEF TypeInv
<1> HIDE DEF file
<1>2. /\ \/ UNCHANGED missed
         \/ missed' = [missed EXCEPT ![g] = file]
      /\ \/ UNCHANGED given
         \/ file # NoFile /\ given' = given \cup {<<file, modules[file]>>}
      /\ steps < MaxSteps /\ steps' = steps + 1
      /\ UNCHANGED <<modules, filename, libLoadDepth, stack, runs, complete>>
      /\ stack[g] # <<>>
  <2>1. /\ stack[g] # <<>>
        /\ steps < MaxSteps /\ steps' = steps + 1
        /\ UNCHANGED <<modules, filename, libLoadDepth, stack, runs, complete>>
    BY DEF Import, Stepped, Running
  <2>2. \/ UNCHANGED missed
        \/ missed' = [missed EXCEPT ![g] = file]
    BY Zenon DEF Import, file
  <2>3. \/ UNCHANGED given
        \/ file # NoFile /\ given' = given \cup {<<file, modules[file]>>}
    BY Zenon DEF Import, file
  <2> QED
    BY <2>1, <2>2, <2>3
<1>3. missed' \in [Goroutines -> Files \cup {NoFile}]
  BY <1>1, <1>2 DEF TypeInv, TypeOK
<1>4. given' \in SUBSET (Files \X Nat)
  BY <1>1, <1>2 DEF TypeInv, TypeOK
<1>5. steps' \in 0..MaxSteps
  BY <1>2, BoundsAssumption DEF TypeInv, TypeOK
<1>6. MissedInside'
  BY <1>2 DEF TypeInv, TypeOK, MissedInside
<1> QED
  BY <1>2, <1>3, <1>4, <1>5, <1>6, SameStacks DEF TypeInv, TypeOK

LEMMA ParseFailsType ==
    ASSUME TypeInv, NEW g \in Goroutines, ParseFails(g)
    PROVE  TypeInv'
<1>1. MissedInside'
  BY DEF ParseFails, TypeInv, TypeOK, MissedInside
<1> QED
  BY <1>1, SameStacks DEF ParseFails, TypeInv, TypeOK

LEMMA LoadType ==
    ASSUME TypeInv, NEW g \in Goroutines, Load(g)
    PROVE  TypeInv'
<1> DEFINE file == missed[g]
           a == Active("load", file, runs[file] + 1)
           s == Append(stack[g], a)
<1>1. file \in Files /\ stack[g] # <<>> /\ Len(stack[g]) < MaxDepth
  BY DEF Load, TypeInv, TypeOK, MissedInside
<1>2. runs[file] \in Nat
  BY <1>1 DEF TypeInv, TypeOK
<1>3. a \in Activation /\ a.kind = "load"
  BY <1>1, <1>2, ActiveType DEF TypeInv, Kinds, Active
<1>4. Becomes(g, s)
  BY DEF Load, Push, Becomes
<1> HIDE DEF a
<1>5. WellFormed(s) /\ LoadsIn(s) \subseteq LoadsIn(stack[g]) \cup {Len(stack[g]) + 1}
  BY <1>1, <1>3, PushFacts
<1> HIDE DEF s
<1>6. Loading' \subseteq Loading \cup {<<g, Len(stack[g]) + 1>>}
  BY <1>4, <1>5, LoadsPush
<1>7. DepthType' /\ DepthSound'
  BY <1>6, LoadingGrows DEF Load
<1>8. MissedInside'
  <2>1. missed' = [missed EXCEPT ![g] = NoFile]
    BY DEF Load
  <2> QED
    BY <1>4, <2>1, StackOf DEF TypeInv, TypeOK, MissedInside
<1>9. \A h \in Goroutines : WellFormed(stack'[h])
  BY <1>4, <1>5, StackKeeps
<1>10. TypeOK'
  <2>1. stack' \in [Goroutines -> Seq(Activation)]
    BY <1>4, <1>5, StackKeeps
  <2>2. /\ filename' \in Files /\ runs' \in [Files -> Nat]
        /\ missed' \in [Goroutines -> Files \cup {NoFile}]
    BY <1>1, <1>2 DEF Load, TypeInv, TypeOK
  <2> QED
    BY <1>7, <2>1, <2>2 DEF Load, DepthType, TypeInv, TypeOK
<1> QED
  BY <1>7, <1>8, <1>9, <1>10 DEF TypeInv

LEMMA ExecutedType ==
    ASSUME TypeInv, NEW g \in Goroutines, Executed(g)
    PROVE  TypeInv'
<1> DEFINE s == Done(stack[g])
           n == Len(stack[g])
<1>1. stack[g] # <<>> /\ Top(g).kind = "load" /\ Top(g) = Last(stack[g])
  BY DEF Executed, Running, Top
<1>2. WellFormed(stack[g])
  BY DEF TypeInv
<1>3. WellFormed(s)
  BY <1>1, <1>2, DoneKeeps DEF Base
<1>4. /\ Len(s) = n /\ n \in Nat \ {0}
      /\ \A i \in 1..(n - 1) : s[i] = stack[g][i]
      /\ s[n] = [stack[g][n] EXCEPT !.kind = "done"]
  BY <1>1, <1>2, DoneFacts
<1>5. Top(g) = stack[g][n] /\ Top(g) \in Activation
  BY <1>1, TopFacts
<1>6. Becomes(g, s)
  BY DEF Executed, Becomes, Done
<1> HIDE DEF s, n
<1>7. s[n].kind = "done"
  BY <1>4, <1>5 DEF Activation
<1>8. n \in LoadsIn(stack[g]) /\ LoadsIn(s) \subseteq LoadsIn(stack[g]) \ {n}
  <2>1. n \in LoadsIn(stack[g])
    BY <1>1, <1>4, <1>5 DEF LoadsIn, n
  <2>2. n = Len(stack[g])
    BY DEF n
  <2> SUFFICES ASSUME NEW i \in 1..n, s[i].kind = "load"
               PROVE  i # n /\ i \in 1..Len(stack[g]) /\ stack[g][i].kind = "load"
    BY <1>4, <2>1 DEF LoadsIn
  <2>3. i # n
    BY <1>7
  <2>4. i \in 1..(n - 1)
    BY <1>4, <2>3
  <2> QED
    BY <1>4, <2>2, <2>3, <2>4
<1>9. <<g, n>> \in Loading /\ Loading' \subseteq Loading \ {<<g, n>>}
  BY <1>3, <1>6, <1>8, LoadsPop
<1>10. DepthType' /\ DepthSound'
  BY <1>9, LoadingEnds DEF Executed
<1>11. MissedInside'
  BY <1>1, <1>6, StackOf DEF Executed, Running, TypeInv, MissedInside
<1>12. /\ stack' \in [Goroutines -> Seq(Activation)]
       /\ \A h \in Goroutines : WellFormed(stack'[h])
  BY <1>3, <1>6, StackKeeps
<1>13. Top(g).file \in Files /\ Top(g).run \in Nat
  BY <1>5 DEF Activation
<1> QED
  <2>1. modules' \in [Files -> Nat]
    BY <1>13 DEF Executed, TypeInv, TypeOK
  <2>2. complete' \in SUBSET (Files \X Nat)
    BY <1>13 DEF Executed, TypeInv, TypeOK
  <2>3. TypeOK'
    BY <1>10, <1>12, <2>1, <2>2 DEF Executed, DepthType, TypeInv, TypeOK
  <2> QED
    BY <1>10, <1>11, <1>12, <2>3 DEF TypeInv

(* A step that ends the top activation of g. *)
LEMMA PopType ==
    ASSUME TypeInv, NEW g \in Goroutines, stack[g] # <<>>, missed[g] = NoFile, Pop(g),
           UNCHANGED <<libLoadDepth, missed>>
    PROVE  /\ stack' \in [Goroutines -> Seq(Activation)]
           /\ \A h \in Goroutines : WellFormed(stack'[h])
           /\ DepthSound'
           /\ MissedInside'
<1> DEFINE s == Front(stack[g])
<1>1. Becomes(g, s)
  BY DEF Pop, Becomes
<1>2. WellFormed(s) /\ LoadsIn(s) \subseteq LoadsIn(stack[g])
  BY TopFacts
<1> HIDE DEF s
<1> QED
  BY <1>1, <1>2, OtherStack

LEMMA LoadReturnsType ==
    ASSUME TypeInv, NEW g \in Goroutines, LoadReturns(g)
    PROVE  TypeInv'
<1>1. stack[g] # <<>> /\ missed[g] = NoFile
  BY DEF LoadReturns, Running
<1>2. Top(g).prev \in Files /\ Top(g).file \in Files /\ Top(g).run \in Nat
  BY <1>1, TopFacts DEF Activation
<1>3. /\ stack' \in [Goroutines -> Seq(Activation)]
      /\ \A h \in Goroutines : WellFormed(stack'[h])
      /\ DepthSound'
      /\ MissedInside'
  BY <1>1, PopType DEF LoadReturns
<1>4. given' \in SUBSET (Files \X Nat)
  BY <1>2 DEF LoadReturns, TypeInv, TypeOK
<1>5. TypeOK'
  BY <1>2, <1>3, <1>4 DEF LoadReturns, TypeInv, TypeOK
<1> QED
  BY <1>3, <1>5 DEF TypeInv

LEMMA LoadFailsType ==
    ASSUME TypeInv, NEW g \in Goroutines, LoadFails(g)
    PROVE  TypeInv'
<1> DEFINE s == Front(stack[g])
           n == Len(stack[g])
<1>1. stack[g] # <<>> /\ missed[g] = NoFile /\ Top(g).kind = "load"
  BY DEF LoadFails, Running
<1>2. Top(g).prev \in Files
  BY <1>1, TopFacts DEF Activation
<1>3. Becomes(g, s)
  BY DEF LoadFails, Pop, Becomes
<1>4. WellFormed(s) /\ n \in LoadsIn(stack[g]) /\ LoadsIn(s) \subseteq LoadsIn(stack[g]) \ {n}
  BY <1>1, TopFacts DEF LoadsIn
<1> HIDE DEF s, n
<1>5. <<g, n>> \in Loading /\ Loading' \subseteq Loading \ {<<g, n>>}
  BY <1>3, <1>4, LoadsPop
<1>6. DepthType' /\ DepthSound'
  BY <1>5, LoadingEnds DEF LoadFails
<1>7. MissedInside'
  BY <1>1, <1>3, StackOf DEF LoadFails, TypeInv, MissedInside
<1>8. /\ stack' \in [Goroutines -> Seq(Activation)]
      /\ \A h \in Goroutines : WellFormed(stack'[h])
  BY <1>3, <1>4, StackKeeps
<1> QED
  BY <1>2, <1>6, <1>7, <1>8 DEF LoadFails, DepthType, TypeInv, TypeOK

LEMMA CallType ==
    ASSUME TypeInv, NEW g \in Goroutines, NEW file \in Files, Call(g, file)
    PROVE  TypeInv'
<1> DEFINE a == Active("call", file, 0)
           s == Append(stack[g], a)
<1>1. stack[g] # <<>> /\ missed[g] = NoFile /\ Len(stack[g]) < MaxDepth
  BY DEF Call, Running
<1>2. a \in Activation /\ a.kind = "call"
  BY ActiveType DEF TypeInv, Kinds, Active
<1>3. Becomes(g, s)
  BY DEF Call, Becomes
<1> HIDE DEF a
<1>4. WellFormed(s) /\ LoadsIn(s) \subseteq LoadsIn(stack[g])
  BY <1>1, <1>2, PushFacts
<1> HIDE DEF s
<1>5. /\ stack' \in [Goroutines -> Seq(Activation)]
      /\ \A h \in Goroutines : WellFormed(stack'[h])
      /\ DepthSound'
      /\ MissedInside'
  BY <1>1, <1>3, <1>4, OtherStack DEF Call
<1>6. steps' \in 0..MaxSteps
  BY BoundsAssumption DEF Call, Stepped, TypeInv, TypeOK
<1> QED
  BY <1>5, <1>6 DEF Call, TypeInv, TypeOK

LEMMA ReturnType ==
    ASSUME TypeInv, NEW g \in Goroutines, Return(g)
    PROVE  TypeInv'
<1>1. stack[g] # <<>> /\ missed[g] = NoFile
  BY DEF Return, Running
<1>2. Top(g).prev \in Files
  BY <1>1, TopFacts DEF Activation
<1>3. /\ stack' \in [Goroutines -> Seq(Activation)]
      /\ \A h \in Goroutines : WellFormed(stack'[h])
      /\ DepthSound'
      /\ MissedInside'
  BY <1>1, PopType DEF Return
<1> QED
  BY <1>2, <1>3 DEF Return, TypeInv, TypeOK

LEMMA SpawnType ==
    ASSUME TypeInv, NEW g \in Goroutines, NEW h \in Goroutines, Spawn(g, h)
    PROVE  TypeInv'
<1> DEFINE a == Active("spawned", Top(g).file, 0)
<1>1. stack[g] # <<>> /\ stack[h] = <<>>
  BY DEF Spawn, Running
<1>2. missed[h] = NoFile
  BY <1>1 DEF TypeInv, MissedInside
<1>3. Top(g).file \in Files
  BY <1>1, TopFacts DEF Activation
<1>4. a \in Activation /\ a.kind \in Base /\ a.kind = "spawned"
  BY <1>3, ActiveType DEF TypeInv, Kinds, Base, Active
<1>5. Becomes(h, <<a>>)
  BY DEF Spawn, Becomes
<1> HIDE DEF a
<1>6. LoadsIn(<<a>>) = {}
  BY <1>4 DEF LoadsIn
<1>7. /\ stack' \in [Goroutines -> Seq(Activation)]
      /\ \A k \in Goroutines : WellFormed(stack'[k])
      /\ DepthSound'
      /\ MissedInside'
  BY <1>2, <1>4, <1>5, <1>6, BaseKeeps, OtherStack DEF Spawn
<1> QED
  BY <1>7 DEF Spawn, TypeInv, TypeOK

LEMMA EndsType ==
    ASSUME TypeInv, NEW g \in Goroutines, Ends(g)
    PROVE  TypeInv'
<1>1. stack[g] # <<>> /\ missed[g] = NoFile
  BY DEF Ends, Running
<1>2. /\ stack' \in [Goroutines -> Seq(Activation)]
      /\ \A h \in Goroutines : WellFormed(stack'[h])
      /\ DepthSound'
      /\ MissedInside'
  BY <1>1, PopType DEF Ends
<1> QED
  BY <1>2 DEF Ends, TypeInv, TypeOK

LEMMA PanicType ==
    ASSUME TypeInv, NEW g \in Goroutines, Panic(g)
    PROVE  TypeInv'
<1>1. stack[g] # <<>> /\ missed[g] = NoFile
  BY DEF Panic, Running
<1>2. filename' \in Files
  <2>1. CASE Len(stack[g]) = 1
    BY <2>1 DEF Panic, TypeInv, TypeOK
  <2>2. CASE Len(stack[g]) # 1
    <3>1. stack[g] \in Seq(Activation)
      BY DEF TypeInv, TypeOK
    <3>2. stack[g][2] \in Activation
      <4>1. \A n \in Nat \ {0} : n # 1 => 2 \in 1..n
        OBVIOUS
      <4>2. 2 \in 1..Len(stack[g])
        BY <1>1, <2>2, <4>1, TopFacts, Zenon
      <4> QED
        BY <3>1, <4>2, ElementOfSeq
    <3> QED
      BY <2>2, <3>2 DEF Panic, Activation
  <2> QED
    BY <2>1, <2>2
<1>3. Becomes(g, <<>>)
  BY DEF Panic, Becomes
<1>4. WellFormed(<<>>)
  BY DEF WellFormed
<1>5. LoadsIn(<<>>) = {}
  BY DEF LoadsIn
<1>6. /\ stack' \in [Goroutines -> Seq(Activation)]
      /\ \A h \in Goroutines : WellFormed(stack'[h])
      /\ DepthSound'
      /\ MissedInside'
  BY <1>1, <1>3, <1>4, <1>5, OtherStack DEF Panic
<1> QED
  BY <1>2, <1>6 DEF Panic, TypeInv, TypeOK

LEMMA TypeStep == TypeInv /\ [Next]_vars => TypeInv'
<1> SUFFICES ASSUME TypeInv, [Next]_vars PROVE TypeInv'
  OBVIOUS
<1>1. ASSUME NEW g \in Goroutines, Step(g)
      PROVE  TypeInv'
  BY <1>1, ImportType, ParseFailsType, LoadType, ExecutedType, LoadReturnsType,
     LoadFailsType, CallType, ReturnType, SpawnType, EndsType, PanicType DEF Step
<1>2. CASE UNCHANGED vars
  BY <1>2, SameStacks DEF vars, TypeInv, TypeOK, MissedInside
<1> QED
  BY <1>1, <1>2 DEF Next

LEMMA TypeAlways == Spec => []TypeInv
  BY TypeInit, TypeStep, PTL DEF Spec

(* Every variable of the loader has its type in every reachable state, for  *)
(* any program.  libLoadDepth is never negative where one goroutine at a    *)
(* time loads, by an invariant of its own: the modules being loaded are     *)
(* counted.  Where several do it is any integer, as updates get lost.       *)
THEOREM LoaderTypes == Spec => []TypeOK
<1>1. TypeInv => TypeOK
  BY DEF TypeInv
<1> QED
  BY <1>1, TypeAlways, PTL

(* In a program that loads in one goroutine at a time, libLoadDepth says so *)
(* while a module is loaded: it is never below the number of modules being  *)
(* executed, whatever fails, panics or is loaded twice.                     *)
THEOREM DepthCovers ==
    ASSUME Serial
    PROVE  Spec => []LoadDepthCovers
<1>1. TypeInv => LoadDepthCovers
  BY DEF TypeInv, DepthSound
<1> QED
  BY <1>1, TypeAlways, PTL

-----------------------------------------------------------------------------
(* No importer gets a module that has not run to its end. *)

(* The exports that are in the cache, or about to be handed to the importer *)
(* that has loaded them, are those of complete runs. *)
CompleteInv ==
    /\ given \subseteq complete
    /\ \A f \in Files : modules[f] # 0 => <<f, modules[f]>> \in complete
    /\ \A g \in Goroutines : \A i \in 1..Len(stack[g]) :
         stack[g][i].kind = "done" => <<stack[g][i].file, stack[g][i].run>> \in complete

DoneIn(s) == {<<s[i].file, s[i].run>> : i \in {j \in 1..Len(s) : s[j].kind = "done"}}

LEMMA DoneStack ==
    ASSUME TypeInv, CompleteInv, NEW g \in Goroutines, NEW s, Becomes(g, s),
           complete \subseteq complete', DoneIn(s) \subseteq complete'
    PROVE  \A h \in Goroutines : \A i \in 1..Len(stack'[h]) :
             stack'[h][i].kind = "done" =>
               <<stack'[h][i].file, stack'[h][i].run>> \in complete'
<1> SUFFICES ASSUME NEW h \in Goroutines, NEW i \in 1..Len(stack'[h]),
                    stack'[h][i].kind = "done"
             PROVE  <<stack'[h][i].file, stack'[h][i].run>> \in complete'
  OBVIOUS
<1>1. CASE h = g
  <2>1. stack'[h] = s
    BY <1>1, StackOf
  <2> QED
    BY <2>1 DEF DoneIn
<1>2. CASE h # g
  <2>1. stack'[h] = stack[h]
    BY <1>2, StackOf
  <2> QED
    BY <2>1 DEF CompleteInv
<1> QED
  BY <1>1, <1>2

LEMMA DoneOf ==
    ASSUME CompleteInv, NEW g \in Goroutines
    PROVE  DoneIn(stack[g]) \subseteq complete
  BY DEF CompleteInv, DoneIn

LEMMA CompleteInit == Init => CompleteInv
<1> SUFFICES ASSUME Init PROVE CompleteInv
  OBVIOUS
<1>1. ASSUME NEW g \in Goroutines, NEW i \in 1..Len(stack[g])
      PROVE  stack[g][i].kind # "done"
  <2>1. CASE g = Main
    <3>1. stack[g] = <<Active("main", Entry, 0)>>
      BY <2>1 DEF Init
    <3>2. i = 1
      BY <3>1
    <3> QED
      BY <3>1, <3>2 DEF Active
  <2>2. CASE g # Main
    BY <2>2 DEF Init
  <2> QED
    BY <2>1, <2>2
<1> QED
  BY <1>1 DEF Init, CompleteInv

LEMMA CompleteImport ==
    ASSUME TypeInv, CompleteInv, NEW g \in Goroutines, NEW r \in Imports, Import(g, r)
    PROVE  CompleteInv'
<1> DEFINE file == Resolve(r.form, r.path)
<1>1. file \in Files \cup {NoFile}
  BY ResolveType DEF TypeInv
<1>2. \/ UNCHANGED given
      \/ /\ file # NoFile /\ modules[file] # 0
         /\ given' = given \cup {<<file, modules[file]>>}
  BY Zenon DEF Import, Cached
<1> HIDE DEF file
<1>3. given' \subseteq complete
  BY <1>1, <1>2 DEF CompleteInv
<1> QED
  BY <1>3 DEF Import, CompleteInv

LEMMA CompleteExecuted ==
    ASSUME TypeInv, CompleteInv, NEW g \in Goroutines, Executed(g)
    PROVE  CompleteInv'
<1> DEFINE s == Done(stack[g])
           n == Len(stack[g])
           m == <<Top(g).file, Top(g).run>>
<1>1. stack[g] # <<>> /\ WellFormed(stack[g])
  BY DEF Executed, Running, TypeInv
<1>2. /\ Len(s) = n /\ n \in Nat \ {0}
      /\ \A i \in 1..(n - 1) : s[i] = stack[g][i]
      /\ s[n] = [stack[g][n] EXCEPT !.kind = "done"]
  BY <1>1, DoneFacts
<1>3. Top(g) = stack[g][n] /\ Top(g) \in Activation
  BY <1>1, TopFacts
<1>4. s[n].file = Top(g).file /\ s[n].run = Top(g).run
  BY <1>2, <1>3 DEF Activation
<1>5. Becomes(g, s)
  BY DEF Executed, Becomes, Done
<1>6. /\ complete' = complete \cup {m}
      /\ modules' = [modules EXCEPT ![Top(g).file] = Top(g).run]
      /\ UNCHANGED given
  BY DEF Executed
<1>7. DoneIn(s) \subseteq complete'
  <2> HIDE DEF s, n
  <2> SUFFICES ASSUME NEW i \in 1..n, s[i].kind = "done"
               PROVE  <<s[i].file, s[i].run>> \in complete'
    BY <1>2 DEF DoneIn
  <2>1. CASE i = n
    BY <1>4, <1>6, <2>1
  <2>2. CASE i # n
    <3>1. i \in 1..(n - 1)
      BY <1>2, <2>2
    <3>2. s[i] = stack[g][i]
      BY <1>2, <3>1
    <3> QED
      BY <1>2, <1>6, <3>1, <3>2 DEF CompleteInv, n
  <2> QED
    BY <2>1, <2>2
<1>8. \A f \in Files : modules'[f] # 0 => <<f, modules'[f]>> \in complete'
  BY <1>6 DEF CompleteInv, TypeInv, TypeOK
<1> HIDE DEF s, n, m
<1> QED
  BY <1>5, <1>6, <1>7, <1>8, DoneStack DEF CompleteInv

(* A step that takes the top activation off, or puts one that is not done. *)
LEMMA CompleteOther ==
    ASSUME TypeInv, CompleteInv, NEW g \in Goroutines, NEW s, Becomes(g, s),
           DoneIn(s) \subseteq DoneIn(stack[g]),
           UNCHANGED <<modules, complete>>, given' \subseteq complete
    PROVE  CompleteInv'
<1>1. DoneIn(s) \subseteq complete
  BY DoneOf
<1> QED
  BY <1>1, DoneStack DEF CompleteInv

LEMMA DonePop ==
    ASSUME TypeInv, NEW g \in Goroutines, stack[g] # <<>>
    PROVE  DoneIn(Front(stack[g])) \subseteq DoneIn(stack[g])
<1>1. /\ Len(stack[g]) \in Nat /\ Len(Front(stack[g])) = Len(stack[g]) - 1
      /\ \A i \in 1..(Len(stack[g]) - 1) : Front(stack[g])[i] = stack[g][i]
  BY TopFacts
<1> QED
  BY <1>1 DEF DoneIn

LEMMA DonePush ==
    ASSUME TypeInv, NEW g \in Goroutines, stack[g] # <<>>, Len(stack[g]) < MaxDepth,
           NEW a \in Activation, a.kind \in {"load", "call"}
    PROVE  DoneIn(Append(stack[g], a)) \subseteq DoneIn(stack[g])
<1> DEFINE s == Append(stack[g], a)
<1>1. /\ Len(stack[g]) \in Nat /\ Len(s) = Len(stack[g]) + 1
      /\ s[Len(stack[g]) + 1] = a
      /\ \A i \in 1..Len(stack[g]) : s[i] = stack[g][i]
  BY PushFacts
<1> HIDE DEF s
<1>2. ASSUME NEW i \in 1..Len(s), s[i].kind = "done"
      PROVE  i \in 1..Len(stack[g]) /\ s[i] = stack[g][i]
  <2>1. i # Len(stack[g]) + 1
    BY <1>1, <1>2
  <2> QED
    BY <1>1, <1>2, <2>1
<1>3. DoneIn(s) \subseteq DoneIn(stack[g])
  BY <1>2 DEF DoneIn
<1> QED
  BY <1>3 DEF s

LEMMA CompleteStep == TypeInv /\ CompleteInv /\ [Next]_vars => CompleteInv'
<1> SUFFICES ASSUME TypeInv, CompleteInv, [Next]_vars PROVE CompleteInv'
  OBVIOUS
<1>1. ASSUME NEW g \in Goroutines, Step(g)
      PROVE  CompleteInv'
  <2>1. ASSUME NEW r \in Imports, Import(g, r) PROVE CompleteInv'
    BY <2>1, CompleteImport
  <2>2. CASE ParseFails(g)
    BY <2>2 DEF ParseFails, CompleteInv
  <2>3. CASE Load(g)
    <3> DEFINE a == Active("load", missed[g], runs[missed[g]] + 1)
    <3>1. /\ missed[g] \in Files /\ stack[g] # <<>> /\ Len(stack[g]) < MaxDepth
          /\ Becomes(g, Append(stack[g], a))
      BY <2>3 DEF Load, Push, Becomes, TypeInv, TypeOK, MissedInside
    <3>2. runs[missed[g]] \in Nat
      BY <3>1 DEF TypeInv, TypeOK
    <3>3. a \in Activation /\ a.kind = "load"
      BY <3>1, <3>2, ActiveType DEF TypeInv, Kinds, Active
    <3> HIDE DEF a
    <3>4. DoneIn(Append(stack[g], a)) \subseteq DoneIn(stack[g])
      BY <3>1, <3>3, DonePush
    <3> QED
      BY <2>3, <3>1, <3>4, CompleteOther DEF Load, CompleteInv
  <2>4. CASE Executed(g)
    BY <2>4, CompleteExecuted
  <2>5. CASE LoadReturns(g)
    <3>1. stack[g] # <<>> /\ Becomes(g, Front(stack[g])) /\ Top(g).kind = "done"
      BY <2>5 DEF LoadReturns, Running, Pop, Becomes
    <3>2. <<Top(g).file, Top(g).run>> \in complete
      <4>1. Top(g) = stack[g][Len(stack[g])] /\ Len(stack[g]) \in 1..Len(stack[g])
        BY <3>1, TopFacts
      <4> QED
        BY <3>1, <4>1 DEF CompleteInv
    <3>3. given' \subseteq complete
      BY <2>5, <3>2 DEF LoadReturns, CompleteInv
    <3> QED
      BY <2>5, <3>1, <3>3, DonePop, CompleteOther DEF LoadReturns
  <2>6. CASE LoadFails(g)
    <3>1. stack[g] # <<>> /\ Becomes(g, Front(stack[g]))
      BY <2>6 DEF LoadFails, Running, Pop, Becomes
    <3> QED
      BY <2>6, <3>1, DonePop, CompleteOther DEF LoadFails, CompleteInv
  <2>7. ASSUME NEW file \in Files, Call(g, file) PROVE CompleteInv'
    <3> DEFINE a == Active("call", file, 0)
    <3>1. /\ stack[g] # <<>> /\ Len(stack[g]) < MaxDepth
          /\ Becomes(g, Append(stack[g], a))
      BY <2>7 DEF Call, Running, Becomes
    <3>2. a \in Activation /\ a.kind = "call"
      BY ActiveType DEF TypeInv, Kinds, Active
    <3> HIDE DEF a
    <3>3. DoneIn(Append(stack[g], a)) \subseteq DoneIn(stack[g])
      BY <3>1, <3>2, DonePush
    <3> QED
      BY <2>7, <3>1, <3>3, CompleteOther DEF Call, CompleteInv
  <2>8. CASE Return(g)
    <3>1. stack[g] # <<>> /\ Becomes(g, Front(stack[g]))
      BY <2>8 DEF Return, Running, Pop, Becomes
    <3> QED
      BY <2>8, <3>1, DonePop, CompleteOther DEF Return, CompleteInv
  <2>9. ASSUME NEW h \in Goroutines, Spawn(g, h) PROVE CompleteInv'
    <3> DEFINE a == Active("spawned", Top(g).file, 0)
    <3>1. Becomes(h, <<a>>) /\ a.kind = "spawned"
      BY <2>9 DEF Spawn, Becomes, Active
    <3> HIDE DEF a
    <3>2. DoneIn(<<a>>) = {}
      BY <3>1 DEF DoneIn
    <3> QED
      BY <2>9, <3>1, <3>2, CompleteOther DEF Spawn, CompleteInv
  <2>10. CASE Ends(g)
    <3>1. stack[g] # <<>> /\ Becomes(g, Front(stack[g]))
      BY <2>10 DEF Ends, Running, Pop, Becomes
    <3> QED
      BY <2>10, <3>1, DonePop, CompleteOther DEF Ends, CompleteInv
  <2>11. CASE Panic(g)
    <3>1. Becomes(g, <<>>) /\ DoneIn(<<>>) = {}
      BY <2>11 DEF Panic, Becomes, DoneIn
    <3> QED
      BY <2>11, <3>1, CompleteOther DEF Panic, CompleteInv
  <2> QED
    BY <1>1, <2>1, <2>2, <2>3, <2>4, <2>5, <2>6, <2>7, <2>8, <2>9, <2>10, <2>11 DEF Step
<1>2. CASE UNCHANGED vars
  BY <1>2 DEF vars, CompleteInv
<1> QED
  BY <1>1, <1>2 DEF Next

(* What an importer gets is what a run of the file left at its end: never   *)
(* the exports of a module in the middle of its statements, or of one that  *)
(* has failed, with any number of goroutines importing at any moment.       *)
THEOREM OnlyCompleteModules == Spec => []OnlyComplete
<1>1. CompleteInv => OnlyComplete
  BY DEF CompleteInv, OnlyComplete
<1> QED
  BY <1>1, TypeAlways, CompleteInit, CompleteStep, PTL DEF Spec

-----------------------------------------------------------------------------
(* The current file, in a program that imports and calls in one goroutine   *)
(* at a time. *)

(* Where a goroutine goes back to is the file of the activation below. *)
Chained(s) ==
    \A i \in 2..Len(s) : s[i].prev = IF i = 2 THEN Entry ELSE s[i - 1].file

Busy(g) == Len(stack[g]) > 1 \/ missed[g] # NoFile
OneBusy == \A g, h \in Goroutines : Busy(g) /\ Busy(h) => g = h

FilenameInv ==
    /\ \A g \in Goroutines : Chained(stack[g])
    /\ OneBusy
    /\ FilenameFollows

(* The file that the activations of one goroutine ask for. *)
CurrentFile(s) == IF Len(s) > 1 THEN Last(s).file ELSE Entry

(* When only g may be busy, the file is the one that its stack asks for. *)
LEMMA FileOfBusy ==
    ASSUME TypeInv, FilenameInv, NEW g \in Goroutines,
           \A h \in Goroutines \ {g} : ~Busy(h)
    PROVE  filename = CurrentFile(stack[g])
<1>1. \A h \in Goroutines : Len(stack[h]) \in Nat
  BY DEF TypeInv, TypeOK
<1>2. CASE Len(stack[g]) > 1
  BY <1>2 DEF FilenameInv, FilenameFollows, CurrentFile, Top
<1>3. CASE ~(Len(stack[g]) > 1)
  <2>1. \A h \in Goroutines : Len(stack[h]) <= 1
    BY <1>1, <1>3 DEF Busy
  <2> QED
    BY <1>3, <2>1 DEF FilenameInv, FilenameFollows, CurrentFile
<1> QED
  BY <1>2, <1>3

(* A step of the one goroutine that is busy, before or after it. *)
LEMMA BusyStep ==
    ASSUME TypeInv, FilenameInv, NEW g \in Goroutines, NEW s, Becomes(g, s),
           WellFormed(s), Chained(s),
           \A h \in Goroutines \ {g} : ~Busy(h) /\ missed'[h] = missed[h],
           filename' = CurrentFile(s)
    PROVE  FilenameInv'
<1>1. stack'[g] = s /\ \A h \in Goroutines \ {g} : stack'[h] = stack[h]
  BY StackOf
<1>2. \A h \in Goroutines \ {g} : ~Busy(h)'
  BY <1>1 DEF Busy
<1>3. OneBusy'
  BY <1>2 DEF OneBusy
<1>4. \A h \in Goroutines : Chained(stack'[h])
  BY <1>1 DEF FilenameInv
<1>5. FilenameFollows'
  <2>1. ASSUME NEW h \in Goroutines, Len(stack'[h]) > 1
        PROVE  filename' = Last(stack'[h]).file
    <3>1. h = g
      BY <1>2, <2>1 DEF Busy
    <3> QED
      BY <1>1, <2>1, <3>1 DEF CurrentFile
  <2>2. ASSUME \A h \in Goroutines : Len(stack'[h]) <= 1
        PROVE  filename' = Entry
    <3>1. Len(s) <= 1 /\ Len(s) \in Nat
      BY <1>1, <2>2 DEF WellFormed
    <3> QED
      BY <3>1 DEF CurrentFile
  <2> QED
    BY <2>1, <2>2 DEF FilenameFollows, Top
<1> QED
  BY <1>3, <1>4, <1>5 DEF FilenameInv

(* A step of a goroutine that is not busy before or after it. *)
LEMMA QuietStep ==
    ASSUME TypeInv, FilenameInv, NEW g \in Goroutines, NEW s, Becomes(g, s),
           WellFormed(s), Len(s) <= 1, ~Busy(g), UNCHANGED <<missed, filename>>
    PROVE  FilenameInv'
<1>1. stack'[g] = s /\ \A h \in Goroutines \ {g} : stack'[h] = stack[h]
  BY StackOf
<1>2. \A h \in Goroutines : Len(stack[h]) \in Nat /\ Len(stack'[h]) \in Nat
  BY <1>1 DEF TypeInv, TypeOK, WellFormed
<1>3. Len(stack[g]) <= 1 /\ Len(stack'[g]) <= 1
  BY <1>1, <1>2 DEF Busy
<1>4. OneBusy'
  <2>1. \A h \in Goroutines : Busy(h)' => Busy(h)
    BY <1>1, <1>2, <1>3 DEF Busy
  <2> QED
    BY <2>1 DEF FilenameInv, OneBusy
<1>5. \A h \in Goroutines : Chained(stack'[h])
  <2>1. Chained(s)
    BY <1>1, <1>2, <1>3 DEF Chained
  <2> QED
    BY <1>1, <2>1 DEF FilenameInv
<1>6. FilenameFollows'
  <2>1. ASSUME NEW h \in Goroutines, Len(stack'[h]) > 1
        PROVE  filename' = Last(stack'[h]).file
    <3>1. h # g
      BY <1>2, <1>3, <2>1
    <3>2. stack'[h] = stack[h] /\ Len(stack[h]) > 1
      BY <1>1, <2>1, <3>1
    <3> QED
      BY <3>2 DEF FilenameInv, FilenameFollows, Top
  <2>2. ASSUME \A h \in Goroutines : Len(stack'[h]) <= 1
        PROVE  filename' = Entry
    <3>1. \A h \in Goroutines : Len(stack[h]) <= 1
      BY <1>1, <1>3, <2>2
    <3> QED
      BY <3>1 DEF FilenameInv, FilenameFollows
  <2> QED
    BY <2>1, <2>2 DEF FilenameFollows, Top
<1> QED
  BY <1>4, <1>5, <1>6 DEF FilenameInv

LEMMA Beyond ==
    ASSUME NEW n \in Nat \ {0}, n # 1
    PROVE  /\ n > 1 /\ n \in 2..n /\ n - 1 \in Nat \ {0} /\ n - 1 \in 1..(n - 1)
           /\ n + 1 # 2 /\ (n + 1) - 1 = n
           /\ n # 2 => n - 1 > 1
  OBVIOUS

LEMMA ChainedPush ==
    ASSUME TypeInv, NEW g \in Goroutines, Chained(stack[g]),
           stack[g] # <<>>, Len(stack[g]) < MaxDepth,
           NEW a \in Activation, a.kind \in {"load", "call"},
           a.prev = CurrentFile(stack[g])
    PROVE  /\ Chained(Append(stack[g], a))
           /\ CurrentFile(Append(stack[g], a)) = a.file
<1> DEFINE n == Len(stack[g])
           s == Append(stack[g], a)
<1>1. /\ n \in Nat \ {0} /\ Len(s) = n + 1 /\ s[n + 1] = a
      /\ \A i \in 1..n : s[i] = stack[g][i]
  BY PushFacts
<1>2. Last(s) = s[Len(s)] /\ Last(stack[g]) = stack[g][n]
  BY TopFacts DEF Last, Top
<1> HIDE DEF s
<1>3. CurrentFile(s) = a.file
  BY <1>1, <1>2 DEF CurrentFile
<1>4. ASSUME NEW i \in 2..Len(s)
      PROVE  s[i].prev = IF i = 2 THEN Entry ELSE s[i - 1].file
  <2>1. CASE i = n + 1
    <3>1. s[i].prev = CurrentFile(stack[g])
      BY <1>1, <2>1
    <3>2. CASE n = 1
      BY <2>1, <3>1, <3>2 DEF CurrentFile
    <3>3. CASE n # 1
      <4>1. n > 1 /\ i # 2 /\ i - 1 = n
        BY <1>1, <2>1, <3>3, Beyond, Zenon
      <4>2. s[i - 1] = stack[g][n]
        BY <1>1, <4>1
      <4> QED
        BY <1>2, <3>1, <4>1, <4>2 DEF CurrentFile
    <3> QED
      BY <3>2, <3>3
  <2>2. CASE i # n + 1
    <3>1. i \in 2..n /\ i \in 1..n /\ (i # 2 => i - 1 \in 1..n)
      BY <1>1, <2>2
    <3>2. s[i] = stack[g][i] /\ (i # 2 => s[i - 1] = stack[g][i - 1])
      BY <1>1, <3>1
    <3> QED
      BY <3>1, <3>2 DEF Chained
  <2> QED
    BY <2>1, <2>2
<1> QED
  BY <1>3, <1>4 DEF Chained, s

LEMMA ChainedPop ==
    ASSUME TypeInv, NEW g \in Goroutines, Chained(stack[g]), stack[g] # <<>>,
           Top(g).kind \notin Base
    PROVE  /\ Chained(Front(stack[g]))
           /\ CurrentFile(Front(stack[g])) = Top(g).prev
           /\ Busy(g)
<1> DEFINE n == Len(stack[g])
           s == Front(stack[g])
<1>1. /\ n \in Nat \ {0} /\ Len(s) = n - 1 /\ Top(g) = stack[g][n]
      /\ \A i \in 1..(n - 1) : s[i] = stack[g][i]
  BY TopFacts
<1>2. n \in 1..n /\ WellFormed(stack[g])
  BY <1>1 DEF TypeInv
<1>3. n # 1
  BY <1>1, <1>2 DEF WellFormed
<1>4. /\ n > 1 /\ n \in 2..n /\ n - 1 \in Nat \ {0} /\ n - 1 \in 1..(n - 1)
      /\ n # 2 => n - 1 > 1
  BY <1>1, <1>3, Beyond, Zenon
<1>5. Top(g).prev = IF n = 2 THEN Entry ELSE stack[g][n - 1].file
  BY <1>1, <1>4 DEF Chained
<1>6. Last(s) = s[Len(s)]
  BY DEF Last
<1> HIDE DEF s
<1>7. CurrentFile(s) = Top(g).prev
  <2>1. CASE n = 2
    BY <1>1, <1>5, <2>1 DEF CurrentFile
  <2>2. CASE n # 2
    <3>1. Len(s) > 1 /\ Len(s) = n - 1 /\ n - 1 \in 1..(n - 1)
      BY <1>1, <1>4, <2>2
    <3> QED
      BY <1>1, <1>5, <1>6, <2>2, <3>1 DEF CurrentFile
  <2> QED
    BY <2>1, <2>2
<1>8. Chained(s)
  <2> SUFFICES ASSUME NEW i \in 2..(n - 1)
               PROVE  s[i].prev = IF i = 2 THEN Entry ELSE s[i - 1].file
    BY <1>1 DEF Chained
  <2>1. i \in 2..n /\ i \in 1..(n - 1) /\ i - 1 \in 1..(n - 1)
    BY <1>1
  <2>2. s[i] = stack[g][i] /\ s[i - 1] = stack[g][i - 1]
    BY <1>1, <2>1
  <2> QED
    BY <2>1, <2>2 DEF Chained
<1>9. Busy(g)
  BY <1>4 DEF Busy
<1> QED
  BY <1>7, <1>8, <1>9 DEF s

LEMMA FilenameInit == Init => FilenameInv
<1> SUFFICES ASSUME Init PROVE FilenameInv
  OBVIOUS
<1>1. \A g \in Goroutines : Len(stack[g]) <= 1
  <2> SUFFICES ASSUME NEW g \in Goroutines PROVE Len(stack[g]) <= 1
    OBVIOUS
  <2> DEFINE a == Active("main", Entry, 0)
  <2>1. stack[g] = <<a>> \/ stack[g] = <<>>
    BY DEF Init
  <2> HIDE DEF a
  <2>2. Len(<<a>>) <= 1 /\ Len(<<>>) <= 1
    OBVIOUS
  <2> QED
    BY <2>1, <2>2
<1>2. \A g \in Goroutines : Len(stack[g]) \in Nat
  BY TypeInit DEF TypeInv, TypeOK
<1>3. \A g \in Goroutines : ~Busy(g) /\ Chained(stack[g])
  BY <1>1, <1>2 DEF Init, Busy, Chained
<1> QED
  BY <1>1, <1>2, <1>3 DEF Init, FilenameInv, OneBusy, FilenameFollows

(* In a serial program an import or a call begins when nobody else is busy. *)
LEMMA FreeQuiet ==
    ASSUME TypeInv, Serial, NEW g \in Goroutines, Free(g)
    PROVE  \A h \in Goroutines \ {g} : ~Busy(h)
  BY DEF Free, Busy, TypeInv, TypeOK

LEMMA BusyQuiet ==
    ASSUME FilenameInv, NEW g \in Goroutines, Busy(g)
    PROVE  \A h \in Goroutines \ {g} : ~Busy(h)
  BY DEF FilenameInv, OneBusy

(* A step that looks for a file, or finds that there is none to run. *)
LEMMA MissedStep ==
    ASSUME TypeInv, FilenameInv, NEW g \in Goroutines,
           \A h \in Goroutines \ {g} : ~Busy(h) /\ missed'[h] = missed[h],
           UNCHANGED <<stack, filename>>
    PROVE  FilenameInv'
<1>1. \A h \in Goroutines \ {g} : ~Busy(h)'
  BY DEF Busy
<1>2. OneBusy'
  BY <1>1 DEF OneBusy
<1> QED
  BY <1>2 DEF FilenameInv, FilenameFollows, Top

(* The end of an activation that puts the file of the importer or caller    *)
(* back. *)
LEMMA PopStep ==
    ASSUME TypeInv, FilenameInv, NEW g \in Goroutines, stack[g] # <<>>,
           Top(g).kind \notin Base, Pop(g), filename' = Top(g).prev, UNCHANGED missed
    PROVE  FilenameInv'
<1> DEFINE s == Front(stack[g])
<1>1. Becomes(g, s)
  BY DEF Pop, Becomes
<1>2. WellFormed(s)
  BY TopFacts
<1>3. Chained(stack[g])
  BY DEF FilenameInv
<1>4. Chained(s) /\ filename' = CurrentFile(s) /\ Busy(g)
  BY <1>3, ChainedPop
<1> HIDE DEF s
<1> QED
  BY <1>1, <1>2, <1>4, BusyQuiet, BusyStep

(* A module or a call begins. *)
LEMMA PushStep ==
    ASSUME TypeInv, FilenameInv, NEW g \in Goroutines, stack[g] # <<>>,
           Len(stack[g]) < MaxDepth,
           \A h \in Goroutines \ {g} : ~Busy(h) /\ missed'[h] = missed[h],
           NEW a \in Activation, a.kind \in {"load", "call"}, a.prev = filename,
           Becomes(g, Append(stack[g], a)), filename' = a.file
    PROVE  FilenameInv'
<1> DEFINE s == Append(stack[g], a)
<1>1. filename = CurrentFile(stack[g])
  BY FileOfBusy
<1>2. Chained(stack[g])
  BY DEF FilenameInv
<1>3. Chained(s) /\ CurrentFile(s) = a.file
  BY <1>1, <1>2, ChainedPush
<1>4. WellFormed(s)
  BY PushFacts
<1> HIDE DEF s
<1>5. Becomes(g, s)
  BY DEF s
<1> QED
  BY <1>3, <1>4, <1>5, BusyStep

(* The module has run: it keeps its place on the stack. *)
LEMMA ExecutedStep ==
    ASSUME TypeInv, FilenameInv, NEW g \in Goroutines, Executed(g)
    PROVE  FilenameInv'
<1> DEFINE s == Done(stack[g])
           n == Len(stack[g])
<1>1. /\ stack[g] # <<>> /\ WellFormed(stack[g]) /\ Chained(stack[g])
      /\ Top(g).kind = "load" /\ Top(g) = Last(stack[g])
  BY DEF Executed, Running, TypeInv, FilenameInv, Top
<1>2. /\ Len(s) = n /\ n \in Nat \ {0}
      /\ \A i \in 1..(n - 1) : s[i] = stack[g][i]
      /\ s[n] = [stack[g][n] EXCEPT !.kind = "done"]
  BY <1>1, DoneFacts
<1>3. Top(g) = stack[g][n] /\ Top(g) \in Activation
  BY <1>1, TopFacts
<1>4. WellFormed(s) /\ Becomes(g, s)
  BY <1>1, DoneKeeps DEF Executed, Becomes, Done, Base
<1>5. Busy(g)
  BY <1>1, ChainedPop DEF Base
<1>6. filename = CurrentFile(stack[g])
  BY <1>5, BusyQuiet, FileOfBusy
<1>7. Last(s) = s[Len(s)] /\ Last(stack[g]) = stack[g][n]
  BY DEF Last
<1> HIDE DEF s
<1>8. \A i \in 1..n : s[i].file = stack[g][i].file /\ s[i].prev = stack[g][i].prev
  <2> SUFFICES ASSUME NEW i \in 1..n
               PROVE  s[i].file = stack[g][i].file /\ s[i].prev = stack[g][i].prev
    OBVIOUS
  <2>1. CASE i = n
    BY <1>2, <1>3, <2>1 DEF Activation
  <2>2. CASE i # n
    <3>1. i \in 1..(n - 1)
      BY <1>2, <2>2
    <3> QED
      BY <1>2, <3>1
  <2> QED
    BY <2>1, <2>2
<1>9. Chained(s)
  <2> SUFFICES ASSUME NEW i \in 2..n
               PROVE  s[i].prev = IF i = 2 THEN Entry ELSE s[i - 1].file
    BY <1>2 DEF Chained
  <2>1. i \in 1..n /\ i - 1 \in 1..n
    BY <1>2
  <2> QED
    BY <1>1, <1>8, <2>1 DEF Chained
<1>10. CurrentFile(s) = CurrentFile(stack[g])
  <2>1. n \in 1..n
    BY <1>2
  <2> QED
    BY <1>2, <1>7, <1>8, <2>1 DEF CurrentFile
<1>11. filename' = CurrentFile(s) /\ UNCHANGED missed
  BY <1>6, <1>10 DEF Executed
<1> QED
  BY <1>4, <1>5, <1>9, <1>11, BusyQuiet, BusyStep

LEMMA EndsStep ==
    ASSUME TypeInv, FilenameInv, NEW g \in Goroutines, Ends(g)
    PROVE  FilenameInv'
<1> DEFINE n == Len(stack[g])
<1>1. stack[g] # <<>> /\ missed[g] = NoFile /\ Top(g).kind \in Base
  BY DEF Ends, Running, Base
<1>2. /\ n \in Nat \ {0} /\ Top(g) = stack[g][n]
      /\ WellFormed(Front(stack[g])) /\ Len(Front(stack[g])) = n - 1
  BY <1>1, TopFacts
<1>3. n = 1
  <2>1. n \in 1..n
    BY <1>2
  <2> QED
    BY <1>1, <1>2, <2>1 DEF TypeInv, WellFormed
<1>4. ~Busy(g)
  BY <1>1, <1>3 DEF Busy
<1>5. Len(Front(stack[g])) <= 1
  BY <1>2, <1>3
<1>6. Becomes(g, Front(stack[g])) /\ UNCHANGED <<missed, filename>>
  BY DEF Ends, Pop, Becomes
<1> QED
  BY <1>2, <1>4, <1>5, <1>6, QuietStep

LEMMA PanicStep ==
    ASSUME TypeInv, FilenameInv, NEW g \in Goroutines, Panic(g)
    PROVE  FilenameInv'
<1> DEFINE n == Len(stack[g])
<1>1. stack[g] # <<>> /\ missed[g] = NoFile /\ Becomes(g, <<>>) /\ UNCHANGED missed
  BY DEF Panic, Running, Becomes
<1>2. WellFormed(<<>>) /\ Chained(<<>>) /\ CurrentFile(<<>>) = Entry /\ Len(<<>>) <= 1
  BY DEF WellFormed, Chained, CurrentFile
<1>3. n \in Nat \ {0}
  BY <1>1, TopFacts
<1>4. CASE n = 1
  <2>1. ~Busy(g)
    BY <1>1, <1>4 DEF Busy
  <2>2. UNCHANGED filename
    BY <1>4 DEF Panic
  <2> QED
    BY <1>1, <1>2, <2>1, <2>2, QuietStep
<1>5. CASE n # 1
  <2>1. n > 1
    BY <1>3, <1>5, Beyond, Zenon
  <2>2. 2 \in 2..n
    BY <1>3, <2>1
  <2>3. stack[g][2].prev = Entry
    BY <2>2 DEF FilenameInv, Chained
  <2>4. filename' = CurrentFile(<<>>)
    BY <1>2, <1>5, <2>3 DEF Panic
  <2>5. Busy(g)
    BY <2>1 DEF Busy
  <2> QED
    BY <1>1, <1>2, <2>4, <2>5, BusyQuiet, BusyStep
<1> QED
  BY <1>4, <1>5

LEMMA FilenameStep == Serial /\ TypeInv /\ FilenameInv /\ [Next]_vars => FilenameInv'
<1> SUFFICES ASSUME Serial, TypeInv, FilenameInv, [Next]_vars PROVE FilenameInv'
  OBVIOUS
<1>1. ASSUME NEW g \in Goroutines, Step(g)
      PROVE  FilenameInv'
  <2>1. ASSUME NEW r \in Imports, Import(g, r) PROVE FilenameInv'
    <3>1. Free(g) /\ UNCHANGED <<stack, filename>>
      BY <2>1 DEF Import
    <3>2. missed' = missed \/ \E f : missed' = [missed EXCEPT ![g] = f]
      BY <2>1 DEF Import
    <3>3. \A h \in Goroutines \ {g} : missed'[h] = missed[h]
      BY <3>2 DEF TypeInv, TypeOK
    <3> QED
      BY <3>1, <3>3, FreeQuiet, MissedStep
  <2>2. CASE ParseFails(g)
    <3>1. Busy(g) /\ \A h \in Goroutines \ {g} : missed'[h] = missed[h]
      BY <2>2 DEF ParseFails, Busy, TypeInv, TypeOK
    <3> QED
      BY <2>2, <3>1, BusyQuiet, MissedStep DEF ParseFails
  <2>3. CASE Load(g)
    <3> DEFINE file == missed[g]
               a == Active("load", file, runs[file] + 1)
    <3>1. /\ file \in Files /\ stack[g] # <<>> /\ Len(stack[g]) < MaxDepth
          /\ Becomes(g, Append(stack[g], a))
      BY <2>3 DEF Load, Push, Becomes, TypeInv, TypeOK, MissedInside
    <3>2. runs[file] \in Nat
      BY <3>1 DEF TypeInv, TypeOK
    <3>3. a \in Activation
      BY <3>1, <3>2, ActiveType DEF TypeInv, Kinds
    <3>4. a.kind = "load" /\ a.prev = filename /\ filename' = a.file
      BY <2>3 DEF Load, Active
    <3>5. Busy(g) /\ \A h \in Goroutines \ {g} : missed'[h] = missed[h]
      BY <2>3 DEF Load, Busy, TypeInv, TypeOK
    <3> HIDE DEF a
    <3> QED
      BY <3>1, <3>3, <3>4, <3>5, BusyQuiet, PushStep
  <2>4. CASE Executed(g)
    BY <2>4, ExecutedStep
  <2>5. CASE LoadReturns(g)
    BY <2>5, PopStep DEF LoadReturns, Running, Base
  <2>6. CASE LoadFails(g)
    BY <2>6, PopStep DEF LoadFails, Running, Base
  <2>7. ASSUME NEW file \in Files, Call(g, file) PROVE FilenameInv'
    <3> DEFINE a == Active("call", file, 0)
    <3>1. /\ stack[g] # <<>> /\ Len(stack[g]) < MaxDepth /\ Free(g)
          /\ Becomes(g, Append(stack[g], a)) /\ UNCHANGED missed
      BY <2>7 DEF Call, Running, Becomes
    <3>2. a \in Activation
      BY ActiveType DEF TypeInv, Kinds
    <3>3. a.kind = "call" /\ a.prev = filename /\ filename' = a.file
      BY <2>7 DEF Call, Active
    <3> HIDE DEF a
    <3> QED
      BY <3>1, <3>2, <3>3, FreeQuiet, PushStep
  <2>8. CASE Return(g)
    BY <2>8, PopStep DEF Return, Running, Base
  <2>9. ASSUME NEW h \in Goroutines, Spawn(g, h) PROVE FilenameInv'
    <3> DEFINE a == Active("spawned", Top(g).file, 0)
    <3>1. stack[g] # <<>> /\ stack[h] = <<>> /\ Becomes(h, <<a>>)
      BY <2>9 DEF Spawn, Running, Becomes
    <3>2. Top(g).file \in Files
      BY <3>1, TopFacts DEF Activation
    <3>3. a \in Activation /\ a.kind \in Base
      BY <3>2, ActiveType DEF TypeInv, Kinds, Base, Active
    <3>4. ~Busy(h)
      BY <3>1 DEF Busy, TypeInv, MissedInside
    <3> HIDE DEF a
    <3>5. WellFormed(<<a>>) /\ Len(<<a>>) <= 1
      BY <3>3, BaseKeeps
    <3> QED
      BY <2>9, <3>1, <3>4, <3>5, QuietStep DEF Spawn
  <2>10. CASE Ends(g)
    BY <2>10, EndsStep
  <2>11. CASE Panic(g)
    BY <2>11, PanicStep
  <2> QED
    BY <1>1, <2>1, <2>2, <2>3, <2>4, <2>5, <2>6, <2>7, <2>8, <2>9, <2>10, <2>11 DEF Step
<1>2. CASE UNCHANGED vars
  BY <1>2 DEF vars, FilenameInv, OneBusy, Busy, FilenameFollows, Top
<1> QED
  BY <1>1, <1>2 DEF Next

(* In a program that imports and calls in one goroutine at a time, and      *)
(* spawns as it likes, the current file is that of the code that runs:      *)
(* whatever modules, calls, failures and panics come, each puts back the    *)
(* file of the one below it.                                                *)
THEOREM FilenameRestored ==
    ASSUME Serial
    PROVE  Spec => []FilenameFollows
<1>1. FilenameInv => FilenameFollows
  BY DEF FilenameInv
<1>2. TypeInv /\ FilenameInv /\ [Next]_vars => FilenameInv'
  BY FilenameStep
<1> QED
  BY <1>1, <1>2, TypeAlways, FilenameInit, PTL DEF Spec

-----------------------------------------------------------------------------
(* The modules that importers get, in a program whose imports lead nowhere  *)
(* back. *)

(* The imports of a file lead to files of lower rank only, from where they  *)
(* are and from the file of the program, where a spawned statement starts;  *)
(* and packages are not asked for with @fimport, which does not look for    *)
(* them in the cache. *)
OneWay(rank) ==
    \A r \in Imports : \A here \in {r.from, Entry} :
        LET file == ResolveFrom(here, r.form, r.path)
        IN  file # NoFile =>
              /\ rank[file] < rank[r.from]
              /\ r.form = "fimport" => file[1] # Store
NoCycle == \E rank \in [Files -> Nat] : OneWay(rank)

(* An activation below another is of a file of its rank or above, and of    *)
(* one above that of a module that was loaded from it. *)
Loaded == {"load", "done"}
Descends(a, b, rank) ==
    /\ rank[b.file] <= rank[a.file]
    /\ b.kind \in Loaded => rank[b.file] < rank[a.file]

(* A module that is being loaded is not in the cache, one that was just     *)
(* loaded is, and is the one. *)
RunSound(a, cache) ==
    /\ a.kind \in Loaded => a.run # 0
    /\ a.kind = "load" => cache[a.file] = 0
    /\ a.kind = "done" => cache[a.file] = a.run

StackSound(s, cache, rank) ==
    \A i \in 1..Len(s) :
        /\ RunSound(s[i], cache)
        /\ \A j \in 1..(i - 1) : Descends(s[j], s[i], rank)

MissSound(s, file, cache, rank) ==
    file # NoFile =>
        /\ cache[file] = 0
        /\ \A i \in 1..Len(s) : rank[file] < rank[s[i].file]

InstanceInv(rank) ==
    /\ \A g \in Goroutines :
        /\ StackSound(stack[g], modules, rank)
        /\ MissSound(stack[g], missed[g], modules, rank)
    /\ \A m \in given : m[2] # 0 /\ modules[m[1]] = m[2]

(* One stack. *)
LEMMA SoundPush ==
    ASSUME NEW rank, NEW cache, NEW s \in Seq(Activation), StackSound(s, cache, rank),
           NEW a \in Activation, RunSound(a, cache),
           \A i \in 1..Len(s) : Descends(s[i], a, rank)
    PROVE  StackSound(Append(s, a), cache, rank)
<1> DEFINE t == Append(s, a)
           n == Len(s)
<1>1. n \in Nat /\ Len(t) = n + 1 /\ t[n + 1] = a /\ \A i \in 1..n : t[i] = s[i]
  BY AppendFacts
<1> HIDE DEF t, n
<1>2. ASSUME NEW i \in 1..(n + 1)
      PROVE  /\ RunSound(t[i], cache)
             /\ \A j \in 1..(i - 1) : Descends(t[j], t[i], rank)
  <2>1. CASE i = n + 1
    <3>1. \A j \in 1..(i - 1) : j \in 1..n
      BY <1>1, <2>1
    <3> QED
      BY <1>1, <2>1, <3>1 DEF n
  <2>2. CASE i # n + 1
    <3>1. i \in 1..n /\ \A j \in 1..(i - 1) : j \in 1..n
      BY <1>1, <2>2
    <3>2. i \in 1..Len(s)
      BY <3>1 DEF n
    <3>3. /\ RunSound(s[i], cache)
          /\ \A j \in 1..(i - 1) : Descends(s[j], s[i], rank)
      BY <3>2 DEF StackSound
    <3> QED
      BY <1>1, <3>1, <3>3
  <2> QED
    BY <2>1, <2>2
<1> QED
  BY <1>1, <1>2 DEF StackSound, t

LEMMA SoundPop ==
    ASSUME NEW rank, NEW cache, NEW s, WellFormed(s), s # <<>>,
           StackSound(s, cache, rank)
    PROVE  StackSound(Front(s), cache, rank)
<1> DEFINE t == Front(s)
           n == Len(s)
<1>1. n \in Nat \ {0} /\ Len(t) = n - 1 /\ \A i \in 1..(n - 1) : t[i] = s[i]
  BY SeqFacts DEF WellFormed
<1> HIDE DEF t
<1>2. ASSUME NEW i \in 1..(n - 1)
      PROVE  /\ RunSound(t[i], cache)
             /\ \A j \in 1..(i - 1) : Descends(t[j], t[i], rank)
  <2>1. i \in 1..n /\ \A j \in 1..(i - 1) : j \in 1..(n - 1)
    BY <1>1
  <2> QED
    BY <1>1, <2>1 DEF StackSound
<1> QED
  BY <1>1, <1>2 DEF StackSound, t

LEMMA SoundBase ==
    ASSUME NEW rank, NEW cache, NEW s, WellFormed(s), Len(s) <= 1
    PROVE  StackSound(s, cache, rank)
<1>1. \A i \in 1..Len(s) : i = 1 /\ s[i].kind \in Base
  BY DEF WellFormed
<1>2. \A k \in Base : k \notin Loaded /\ k # "load" /\ k # "done"
  BY DEF Base, Loaded
<1>3. \A i \in 1..Len(s) : RunSound(s[i], cache)
  BY <1>1, <1>2 DEF RunSound
<1> QED
  BY <1>1, <1>3 DEF StackSound

(* The top of a stack is of the lowest rank in it. *)
LEMMA TopRank ==
    ASSUME TypeInv, NEW rank \in [Files -> Nat], NEW g \in Goroutines, stack[g] # <<>>,
           NEW cache, StackSound(stack[g], cache, rank)
    PROVE  /\ \A i \in 1..Len(stack[g]) : /\ stack[g][i].file \in Files
                                          /\ rank[stack[g][i].file] \in Nat
                                          /\ rank[Top(g).file] <= rank[stack[g][i].file]
           /\ Top(g).file \in Files
           /\ rank[Top(g).file] \in Nat
<1> DEFINE s == stack[g]
           n == Len(s)
<1>1. n \in Nat \ {0} /\ Top(g) = s[n] /\ Top(g) \in Activation
  BY TopFacts
<1>2. \A i \in 1..n : s[i].file \in Files /\ rank[s[i].file] \in Nat
  <2>1. \A i \in 1..n : s[i] \in Activation
    BY ElementOfSeq DEF TypeInv, TypeOK
  <2> QED
    BY <2>1 DEF Activation
<1> HIDE DEF s
<1>3. ASSUME NEW i \in 1..n PROVE rank[s[n].file] <= rank[s[i].file]
  <2>1. n \in 1..n
    BY <1>1
  <2>2. CASE i = n
    BY <1>2, <2>1, <2>2
  <2>3. CASE i # n
    <3>1. i \in 1..(n - 1)
      BY <1>1, <2>3
    <3>2. Descends(s[i], s[n], rank)
      BY <2>1, <3>1 DEF StackSound, s
    <3> QED
      BY <3>2 DEF Descends
  <2> QED
    BY <2>2, <2>3
<1>4. Top(g).file \in Files
  BY <1>1 DEF Activation
<1> QED
  BY <1>1, <1>2, <1>3, <1>4 DEF s

(* What a quiet goroutine has satisfies the invariant whatever the cache. *)
LEMMA QuietSound ==
    ASSUME TypeInv, NEW h \in Goroutines, ~Busy(h), NEW rank, NEW cache
    PROVE  /\ StackSound(stack[h], cache, rank)
           /\ MissSound(stack[h], missed[h], cache, rank)
<1>1. Len(stack[h]) <= 1 /\ missed[h] = NoFile /\ WellFormed(stack[h])
  BY DEF Busy, TypeInv, TypeOK
<1>2. StackSound(stack[h], cache, rank)
  BY <1>1, SoundBase
<1> QED
  BY <1>1, <1>2 DEF MissSound

(* The rank of the file that an import names, and how it is asked for. *)
LEMMA ResolvedBelow ==
    ASSUME TypeInv, FilenameInv, Serial, NEW rank, OneWay(rank),
           NEW g \in Goroutines, stack[g] # <<>>, Free(g),
           NEW r \in Imports, r.from = Top(g).file,
           Resolve(r.form, r.path) # NoFile
    PROVE  /\ rank[Resolve(r.form, r.path)] < rank[Top(g).file]
           /\ r.form = "fimport" => Resolve(r.form, r.path)[1] # Store
<1>1. filename = CurrentFile(stack[g])
  BY FreeQuiet, FileOfBusy
<1>2. filename \in {r.from, Entry}
  BY <1>1 DEF CurrentFile, Top
<1> QED
  BY <1>2 DEF OneWay, Resolve

(* A step that changes one goroutine, and not the cache. *)
LEMMA InstanceOne ==
    ASSUME TypeInv, NEW rank, InstanceInv(rank), NEW g \in Goroutines,
           NEW s, Becomes(g, s), StackSound(s, modules, rank),
           NEW f, missed' = [missed EXCEPT ![g] = f], MissSound(s, f, modules, rank),
           UNCHANGED modules,
           \A m \in given' : m \in given \/ (m[2] # 0 /\ modules[m[1]] = m[2])
    PROVE  InstanceInv(rank)'
<1>1. stack'[g] = s /\ \A h \in Goroutines \ {g} : stack'[h] = stack[h]
  BY StackOf
<1>2. missed'[g] = f /\ \A h \in Goroutines \ {g} : missed'[h] = missed[h]
  BY DEF TypeInv, TypeOK
<1>3. ASSUME NEW h \in Goroutines
      PROVE  /\ StackSound(stack'[h], modules, rank)
             /\ MissSound(stack'[h], missed'[h], modules, rank)
  <2>1. CASE h = g
    BY <1>1, <1>2, <2>1
  <2>2. CASE h # g
    BY <1>1, <1>2, <2>2 DEF InstanceInv
  <2> QED
    BY <2>1, <2>2
<1>4. \A m \in given' : m[2] # 0 /\ modules[m[1]] = m[2]
  BY DEF InstanceInv
<1> QED
  BY <1>3, <1>4 DEF InstanceInv

LEMMA SameMissed ==
    ASSUME TypeInv, NEW g \in Goroutines, UNCHANGED missed
    PROVE  missed' = [missed EXCEPT ![g] = missed[g]]
  BY DEF TypeInv, TypeOK

LEMMA NothingMissed ==
    ASSUME NEW s, NEW cache, NEW rank
    PROVE  MissSound(s, NoFile, cache, rank)
  BY DEF MissSound

LEMMA InstanceImport ==
    ASSUME TypeInv, FilenameInv, Serial, NEW rank \in [Files -> Nat], OneWay(rank),
           InstanceInv(rank), NEW g \in Goroutines, NEW r \in Imports, Import(g, r)
    PROVE  InstanceInv(rank)'
<1> DEFINE file == Resolve(r.form, r.path)
           s == stack[g]
<1>1. file \in Files \cup {NoFile}
  BY ResolveType DEF TypeInv
<1>2. /\ s # <<>> /\ missed[g] = NoFile /\ Free(g) /\ r.from = Top(g).file
      /\ UNCHANGED <<modules, stack>>
  BY DEF Import, Running
<1>3. Becomes(g, s) /\ StackSound(s, modules, rank)
  BY <1>2 DEF Becomes, InstanceInv, TypeInv, TypeOK
<1>4. \/ UNCHANGED <<missed, given>>
      \/ file # NoFile /\ Cached(r.form, file) /\ UNCHANGED missed
         /\ given' = given \cup {<<file, modules[file]>>}
      \/ file # NoFile /\ ~Cached(r.form, file) /\ UNCHANGED given
         /\ missed' = [missed EXCEPT ![g] = file]
  BY Zenon DEF Import
<1>5. file # NoFile => /\ rank[file] < rank[Top(g).file]
                       /\ r.form = "fimport" => file[1] # Store
  BY <1>2, ResolvedBelow
<1> HIDE DEF file, s
<1>6. CASE UNCHANGED missed
  <2>1. missed' = [missed EXCEPT ![g] = NoFile]
    BY <1>2, <1>6, SameMissed
  <2>2. CASE UNCHANGED given
    BY <1>2, <1>3, <2>1, <2>2, NothingMissed, InstanceOne
  <2>3. CASE /\ file # NoFile /\ Cached(r.form, file)
             /\ given' = given \cup {<<file, modules[file]>>}
    <3>1. modules[file] # 0
      BY <2>3 DEF Cached
    <3>2. \A m \in given' : m \in given \/ (m[2] # 0 /\ modules[m[1]] = m[2])
      BY <2>3, <3>1
    <3> QED
      BY <1>2, <1>3, <2>1, <3>2, NothingMissed, InstanceOne
  <2> QED
    BY <1>4, <2>2, <2>3
<1>7. CASE /\ file # NoFile /\ ~Cached(r.form, file) /\ UNCHANGED given
           /\ missed' = [missed EXCEPT ![g] = file]
  <2>1. file \in Files /\ modules[file] = 0
    BY <1>1, <1>5, <1>7 DEF Cached
  <2>2. rank[file] \in Nat /\ rank[file] < rank[Top(g).file]
    BY <1>5, <1>7, <2>1
  <2>3. \A i \in 1..Len(s) : rank[file] < rank[s[i].file]
    <3>1. /\ \A i \in 1..Len(s) : /\ rank[s[i].file] \in Nat
                                  /\ rank[Top(g).file] <= rank[s[i].file]
          /\ rank[Top(g).file] \in Nat
      BY <1>2, <1>3, TopRank DEF s
    <3> QED
      BY <2>2, <3>1
  <2>4. MissSound(s, file, modules, rank)
    BY <2>1, <2>3 DEF MissSound
  <2> QED
    BY <1>2, <1>3, <1>7, <2>4, InstanceOne
<1> QED
  BY <1>4, <1>6, <1>7

LEMMA InstanceParseFails ==
    ASSUME TypeInv, NEW rank, InstanceInv(rank), NEW g \in Goroutines, ParseFails(g)
    PROVE  InstanceInv(rank)'
<1>1. /\ missed' = [missed EXCEPT ![g] = NoFile]
      /\ UNCHANGED <<modules, stack, given>>
  BY DEF ParseFails
<1>2. Becomes(g, stack[g]) /\ StackSound(stack[g], modules, rank)
  BY <1>1 DEF Becomes, InstanceInv, TypeInv, TypeOK
<1> QED
  BY <1>1, <1>2, NothingMissed, InstanceOne

LEMMA InstanceLoad ==
    ASSUME TypeInv, NEW rank \in [Files -> Nat], InstanceInv(rank),
           NEW g \in Goroutines, Load(g)
    PROVE  InstanceInv(rank)'
<1> DEFINE file == missed[g]
           a == Active("load", file, runs[file] + 1)
           s == Append(stack[g], a)
<1>1. /\ file \in Files /\ file # NoFile
      /\ stack[g] \in Seq(Activation) /\ runs[file] \in Nat
  BY DEF Load, TypeInv, TypeOK
<1>2. /\ a \in Activation /\ a.kind = "load" /\ a.file = file /\ a.run = runs[file] + 1
  BY <1>1, ActiveType DEF TypeInv, Kinds, Active
<1>3. /\ Becomes(g, s) /\ missed' = [missed EXCEPT ![g] = NoFile]
      /\ UNCHANGED <<modules, given>>
  BY DEF Load, Push, Becomes
<1> HIDE DEF a
<1>4. /\ StackSound(stack[g], modules, rank) /\ modules[file] = 0
      /\ \A i \in 1..Len(stack[g]) : rank[file] < rank[stack[g][i].file]
  BY <1>1 DEF InstanceInv, MissSound
<1>5. RunSound(a, modules)
  <2>1. runs[file] + 1 # 0
    BY <1>1
  <2> QED
    BY <1>2, <1>4, <2>1 DEF RunSound
<1>6. \A i \in 1..Len(stack[g]) : Descends(stack[g][i], a, rank)
  <2>1. \A i \in 1..Len(stack[g]) : stack[g][i].file \in Files
    <3>1. \A i \in 1..Len(stack[g]) : stack[g][i] \in Activation
      BY <1>1, ElementOfSeq
    <3> QED
      BY <3>1 DEF Activation
  <2>2. \A x, y \in Files : rank[x] < rank[y] => rank[x] <= rank[y]
    OBVIOUS
  <2> QED
    BY <1>1, <1>2, <1>4, <2>1, <2>2 DEF Descends
<1>7. StackSound(s, modules, rank)
  BY <1>1, <1>2, <1>4, <1>5, <1>6, SoundPush
<1> HIDE DEF s
<1> QED
  BY <1>3, <1>7, NothingMissed, InstanceOne

(* A step that takes the top activation off, or that ends the goroutine. *)
LEMMA InstancePop ==
    ASSUME TypeInv, NEW rank, InstanceInv(rank), NEW g \in Goroutines,
           stack[g] # <<>>, missed[g] = NoFile, Pop(g), UNCHANGED <<modules, missed>>,
           \A m \in given' : m \in given \/ (m[2] # 0 /\ modules[m[1]] = m[2])
    PROVE  InstanceInv(rank)'
<1>1. missed' = [missed EXCEPT ![g] = NoFile]
  BY SameMissed
<1>2. Becomes(g, Front(stack[g]))
  BY DEF Pop, Becomes
<1>3. StackSound(Front(stack[g]), modules, rank)
  BY SoundPop DEF InstanceInv, TypeInv
<1> QED
  BY <1>1, <1>2, <1>3, NothingMissed, InstanceOne

LEMMA InstanceReturns ==
    ASSUME TypeInv, NEW rank, InstanceInv(rank), NEW g \in Goroutines, LoadReturns(g)
    PROVE  InstanceInv(rank)'
<1>1. /\ stack[g] # <<>> /\ missed[g] = NoFile /\ Top(g).kind = "done"
      /\ Pop(g) /\ UNCHANGED <<modules, missed>>
      /\ given' = given \cup {<<Top(g).file, Top(g).run>>}
  BY DEF LoadReturns, Running
<1>2. Top(g) = stack[g][Len(stack[g])] /\ Len(stack[g]) \in Nat \ {0}
  BY <1>1, TopFacts
<1>3. RunSound(Top(g), modules)
  <2>1. Len(stack[g]) \in 1..Len(stack[g])
    BY <1>2
  <2> QED
    BY <1>2, <2>1 DEF InstanceInv, StackSound
<1>4. Top(g).run # 0 /\ modules[Top(g).file] = Top(g).run
  BY <1>1, <1>3 DEF RunSound, Loaded
<1>5. \A m \in given' : m \in given \/ (m[2] # 0 /\ modules[m[1]] = m[2])
  BY <1>1, <1>4
<1> QED
  BY <1>1, <1>5, InstancePop

LEMMA InstanceCall ==
    ASSUME TypeInv, NEW rank \in [Files -> Nat], OneWay(rank), InstanceInv(rank),
           NEW g \in Goroutines, NEW file \in Files, Call(g, file)
    PROVE  InstanceInv(rank)'
<1> DEFINE a == Active("call", file, 0)
           s == Append(stack[g], a)
<1>1. /\ stack[g] # <<>> /\ missed[g] = NoFile /\ UNCHANGED <<modules, missed, given>>
      /\ Becomes(g, s) /\ file \in Uses(Top(g).file)
      /\ stack[g] \in Seq(Activation)
  BY DEF Call, Running, Becomes, TypeInv, TypeOK
<1>2. /\ a \in Activation /\ a.kind = "call" /\ a.file = file
  BY ActiveType DEF TypeInv, Kinds, Active
<1> HIDE DEF a
<1>3. StackSound(stack[g], modules, rank)
  BY DEF InstanceInv
<1>4. /\ \A i \in 1..Len(stack[g]) : /\ rank[stack[g][i].file] \in Nat
                                     /\ rank[Top(g).file] <= rank[stack[g][i].file]
      /\ rank[Top(g).file] \in Nat
  BY <1>1, <1>3, TopRank
<1>5. rank[file] \in Nat /\ rank[file] <= rank[Top(g).file]
  <2>1. CASE file = Top(g).file
    BY <1>4, <2>1
  <2>2. CASE file # Top(g).file
    <3>1. PICK r \in Imports : r.from = Top(g).file
                               /\ file = ResolveFrom(Top(g).file, r.form, r.path)
      BY <1>1, <2>2 DEF Uses
    <3>2. file # NoFile
      BY FilesAssumption
    <3>3. rank[file] < rank[Top(g).file]
      BY <3>1, <3>2 DEF OneWay
    <3> QED
      BY <1>4, <3>3
  <2> QED
    BY <2>1, <2>2
<1>6. \A i \in 1..Len(stack[g]) : Descends(stack[g][i], a, rank)
  <2>1. \A i \in 1..Len(stack[g]) : rank[file] <= rank[stack[g][i].file]
    BY <1>4, <1>5
  <2> QED
    BY <1>2, <2>1 DEF Descends, Loaded
<1>7. RunSound(a, modules)
  BY <1>2 DEF RunSound, Loaded
<1>8. StackSound(s, modules, rank)
  BY <1>1, <1>2, <1>3, <1>6, <1>7, SoundPush
<1>9. missed' = [missed EXCEPT ![g] = NoFile]
  BY <1>1, SameMissed
<1> HIDE DEF s
<1> QED
  BY <1>1, <1>8, <1>9, NothingMissed, InstanceOne

(* A goroutine that has at most its own statement afterwards. *)
LEMMA InstanceBase ==
    ASSUME TypeInv, NEW rank, InstanceInv(rank), NEW h \in Goroutines, missed[h] = NoFile,
           NEW s, Becomes(h, s), WellFormed(s), Len(s) <= 1,
           UNCHANGED <<modules, missed, given>>
    PROVE  InstanceInv(rank)'
  BY SameMissed, SoundBase, NothingMissed, InstanceOne

(* The exports of a module go into the cache: it was not there, none of its *)
(* importers has it, and no other activation is one of its loads. *)
LEMMA InstanceExecuted ==
    ASSUME TypeInv, FilenameInv, NEW rank \in [Files -> Nat], InstanceInv(rank),
           NEW g \in Goroutines, Executed(g)
    PROVE  InstanceInv(rank)'
<1> DEFINE s == stack[g]
           t == Done(s)
           n == Len(s)
           file == Top(g).file
           run == Top(g).run
<1>1. /\ s # <<>> /\ missed[g] = NoFile /\ Top(g).kind = "load" /\ WellFormed(s)
      /\ modules' = [modules EXCEPT ![file] = run]
      /\ UNCHANGED <<missed, given>>
      /\ Becomes(g, t)
  BY DEF Executed, Running, TypeInv, Becomes, Done
<1>2. /\ Len(t) = n /\ n \in Nat \ {0}
      /\ \A i \in 1..(n - 1) : t[i] = s[i]
      /\ t[n] = [s[n] EXCEPT !.kind = "done"]
  BY <1>1, DoneFacts
<1>3. Top(g) = s[n] /\ Top(g) \in Activation
  BY <1>1, TopFacts
<1>4. StackSound(s, modules, rank)
  BY DEF InstanceInv
<1>5. /\ t[n].file = file /\ t[n].kind = "done" /\ t[n].run = run
      /\ file \in Files /\ run \in Nat
  BY <1>2, <1>3 DEF Activation
<1>6. n \in 1..n /\ \A j \in 1..(n - 1) : j \in 1..n /\ j # n
  BY <1>2
<1>7. run # 0 /\ modules[file] = 0
  <2>1. RunSound(Top(g), modules)
    BY <1>3, <1>4, <1>6 DEF StackSound
  <2> QED
    BY <1>1, <2>1 DEF RunSound, Loaded
<1>8. /\ modules'[file] = run
      /\ \A f \in Files : f # file => modules'[f] = modules[f]
  BY <1>1, <1>5 DEF TypeInv, TypeOK
<1>9. \A i \in 1..n : s[i].file \in Files /\ rank[s[i].file] \in Nat
  BY <1>1, <1>4, TopRank
<1>10. \A i \in 1..(n - 1) : s[i].file # file
  <2> SUFFICES ASSUME NEW i \in 1..(n - 1) PROVE s[i].file # file
    OBVIOUS
  <2>1. Descends(s[i], s[n], rank)
    BY <1>4, <1>6 DEF StackSound
  <2>2. rank[file] < rank[s[i].file]
    BY <1>1, <1>3, <2>1 DEF Descends, Loaded
  <2> QED
    BY <1>5, <2>2
<1> HIDE DEF s, t, n, file, run
<1>11. \A i \in 1..(n - 1) : RunSound(t[i], modules')
  <2> SUFFICES ASSUME NEW i \in 1..(n - 1) PROVE RunSound(s[i], modules')
    BY <1>2
  <2>1. RunSound(s[i], modules)
    BY <1>4, <1>6 DEF StackSound, n
  <2>2. modules'[s[i].file] = modules[s[i].file]
    BY <1>6, <1>8, <1>9, <1>10
  <2> QED
    BY <2>1, <2>2 DEF RunSound
<1>12. RunSound(t[n], modules')
  BY <1>5, <1>7, <1>8 DEF RunSound, Loaded
<1>13. StackSound(t, modules', rank)
  <2> SUFFICES ASSUME NEW i \in 1..n
               PROVE  /\ RunSound(t[i], modules')
                      /\ \A j \in 1..(i - 1) : Descends(t[j], t[i], rank)
    BY <1>2 DEF StackSound
  <2>1. RunSound(t[i], modules')
    <3>1. i = n \/ i \in 1..(n - 1)
      BY <1>2
    <3> QED
      BY <1>11, <1>12, <3>1
  <2>2. ASSUME NEW j \in 1..(i - 1) PROVE Descends(t[j], t[i], rank)
    <3>1. j \in 1..(n - 1)
      BY <1>2
    <3>2. t[j] = s[j]
      BY <1>2, <3>1
    <3>3. Descends(s[j], s[i], rank)
      BY <1>4 DEF StackSound, n
    <3>4. CASE i = n
      <4>1. s[n].file = file /\ s[n].kind = "load"
        BY <1>1, <1>3 DEF file, s, n
      <4> QED
        BY <1>5, <3>2, <3>3, <3>4, <4>1 DEF Descends, Loaded
    <3>5. CASE i # n
      <4>1. i \in 1..(n - 1)
        BY <1>2, <3>5
      <4>2. t[i] = s[i]
        BY <1>2, <4>1
      <4> QED
        BY <3>2, <3>3, <4>2
    <3> QED
      BY <3>4, <3>5
  <2> QED
    BY <2>1, <2>2
<1>14. Busy(g)
  BY <1>1, ChainedPop DEF Base, FilenameInv, s
<1>15. stack'[g] = t /\ \A h \in Goroutines \ {g} : stack'[h] = stack[h]
  BY <1>1, StackOf
<1>16. ASSUME NEW h \in Goroutines
       PROVE  /\ StackSound(stack'[h], modules', rank)
              /\ MissSound(stack'[h], missed'[h], modules', rank)
  <2>1. CASE h = g
    BY <1>1, <1>13, <1>15, <2>1, NothingMissed
  <2>2. CASE h # g
    <3>1. ~Busy(h)
      BY <1>14, <2>2, BusyQuiet
    <3> QED
      BY <1>1, <1>15, <2>2, <3>1, QuietSound
  <2> QED
    BY <2>1, <2>2
<1>17. \A m \in given' : m[2] # 0 /\ modules'[m[1]] = m[2]
  <2> SUFFICES ASSUME NEW m \in given PROVE m[2] # 0 /\ modules'[m[1]] = m[2]
    BY <1>1
  <2>1. m[1] \in Files /\ m[2] # 0 /\ modules[m[1]] = m[2]
    BY DEF InstanceInv, TypeInv, TypeOK
  <2>2. m[1] # file
    BY <1>7, <2>1
  <2> QED
    BY <1>8, <2>1, <2>2
<1> QED
  BY <1>16, <1>17 DEF InstanceInv

LEMMA InstanceInit ==
    ASSUME NEW rank, Init
    PROVE  InstanceInv(rank)
<1>1. ASSUME NEW g \in Goroutines
      PROVE  StackSound(stack[g], modules, rank) /\ MissSound(stack[g], missed[g], modules, rank)
  <2>1. ~Busy(g)
    <3> DEFINE a == Active("main", Entry, 0)
    <3>1. (stack[g] = <<a>> \/ stack[g] = <<>>) /\ missed[g] = NoFile
      BY DEF Init
    <3> HIDE DEF a
    <3>2. ~(Len(<<a>>) > 1) /\ ~(Len(<<>>) > 1)
      OBVIOUS
    <3> QED
      BY <3>1, <3>2 DEF Busy
  <2> QED
    BY <2>1, TypeInit, QuietSound
<1> QED
  BY <1>1 DEF Init, InstanceInv

LEMMA InstanceStep ==
    ASSUME NEW rank \in [Files -> Nat], OneWay(rank), Serial,
           TypeInv, FilenameInv, InstanceInv(rank), [Next]_vars
    PROVE  InstanceInv(rank)'
<1>1. ASSUME NEW g \in Goroutines, Step(g)
      PROVE  InstanceInv(rank)'
  <2>1. ASSUME NEW r \in Imports, Import(g, r) PROVE InstanceInv(rank)'
    BY <2>1, InstanceImport
  <2>2. CASE ParseFails(g)
    BY <2>2, InstanceParseFails
  <2>3. CASE Load(g)
    BY <2>3, InstanceLoad
  <2>4. CASE Executed(g)
    BY <2>4, InstanceExecuted
  <2>5. CASE LoadReturns(g)
    BY <2>5, InstanceReturns
  <2>6. CASE LoadFails(g)
    BY <2>6, InstancePop DEF LoadFails, Running
  <2>7. ASSUME NEW file \in Files, Call(g, file) PROVE InstanceInv(rank)'
    BY <2>7, InstanceCall
  <2>8. CASE Return(g)
    BY <2>8, InstancePop DEF Return, Running
  <2>9. ASSUME NEW h \in Goroutines, Spawn(g, h) PROVE InstanceInv(rank)'
    <3> DEFINE a == Active("spawned", Top(g).file, 0)
    <3>1. /\ stack[g] # <<>> /\ stack[h] = <<>> /\ Becomes(h, <<a>>)
          /\ UNCHANGED <<modules, missed, given>>
      BY <2>9 DEF Spawn, Running, Becomes
    <3>2. Top(g).file \in Files
      BY <3>1, TopFacts DEF Activation
    <3>3. a \in Activation /\ a.kind \in Base
      BY <3>2, ActiveType DEF TypeInv, Kinds, Base, Active
    <3>4. missed[h] = NoFile
      BY <3>1 DEF TypeInv, MissedInside
    <3> HIDE DEF a
    <3>5. WellFormed(<<a>>) /\ Len(<<a>>) <= 1
      BY <3>3, BaseKeeps
    <3> QED
      BY <3>1, <3>4, <3>5, InstanceBase
  <2>10. CASE Ends(g)
    BY <2>10, InstancePop DEF Ends, Running
  <2>11. CASE Panic(g)
    <3>1. /\ missed[g] = NoFile /\ Becomes(g, <<>>) /\ UNCHANGED <<modules, missed, given>>
      BY <2>11 DEF Panic, Running, Becomes
    <3>2. WellFormed(<<>>) /\ Len(<<>>) <= 1
      BY DEF WellFormed
    <3> QED
      BY <3>1, <3>2, InstanceBase
  <2> QED
    BY <1>1, <2>1, <2>2, <2>3, <2>4, <2>5, <2>6, <2>7, <2>8, <2>9, <2>10, <2>11 DEF Step
<1>2. CASE UNCHANGED vars
  BY <1>2 DEF vars, InstanceInv
<1> QED
  BY <1>1, <1>2 DEF Next

LEMMA InstanceOf ==
    ASSUME NEW CONSTANT rank \in [Files -> Nat], OneWay(rank), Serial
    PROVE  Spec => []OneInstance
<1>1. TypeInv /\ InstanceInv(rank) => OneInstance
  <2> SUFFICES ASSUME TypeInv, InstanceInv(rank), NEW m \in given, NEW n \in given,
                      m[1] = n[1]
               PROVE  m = n
    BY DEF OneInstance
  <2>1. m \in Files \X Nat /\ n \in Files \X Nat
    BY DEF TypeInv, TypeOK
  <2>2. m[2] = n[2]
    BY DEF InstanceInv
  <2> QED
    BY <2>1, <2>2
<1>2. TypeInv /\ FilenameInv /\ [Next]_vars => FilenameInv'
  BY FilenameStep
<1>3. TypeInv /\ FilenameInv /\ InstanceInv(rank) /\ [Next]_vars => InstanceInv(rank)'
  BY InstanceStep
<1>4. Init => InstanceInv(rank)
  BY InstanceInit
<1> QED
  BY <1>1, <1>2, <1>3, <1>4, TypeAlways, FilenameInit, PTL DEF Spec

(* In a program that imports and calls in one goroutine at a time, whose    *)
(* imports have no cycle and whose packages are not asked for with @fimport,*)
(* all importers of a file have the same module, whatever loads of it have  *)
(* failed before and from wherever and in whatever form it is imported. An  *)
(* import cycle has the file loaded again while it is being loaded, and     *)
(* @fimport of a package each time it is asked for.                         *)
THEOREM OneModuleEach ==
    ASSUME Serial, NoCycle
    PROVE  Spec => []OneInstance
<1>1. PICK rank \in [Files -> Nat] : OneWay(rank)
  BY DEF NoCycle
<1> QED
  BY <1>1, InstanceOf
=============================================================================
