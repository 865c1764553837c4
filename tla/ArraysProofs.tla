---------------------------- MODULE ArraysProofs ----------------------------
(***************************************************************************)
(* Theorems about Arrays, for every program: any arrays, elements, spare   *)
(* capacity and bounds; and about Operators, for any numbers and texts.    *)
(***************************************************************************)
EXTENDS ValuesMC, SequenceTheorems, FiniteSetTheorems, TLAPS

(* The slice of an array lies within its block; arrays that share a block   *)
(* are kin. *)
Within(a) == off[a] + len[a] <= Len(mem[base[a]])
MemInv ==
    /\ \A a \in held : Within(a)
    /\ \A a, b \in held : base[a] = base[b] => a = b \/ <<a, b>> \in kin
    /\ \A a, b \in held : <<a, b>> \in kin => <<b, a>> \in kin

(* What a loop reads is still what was there when it began: reduce reads    *)
(* the array, the others the slice, which no method has written, and which  *)
(* no longer reaches beyond the array's as long as they have the same       *)
(* block. *)
ReadsTheSame ==
    /\ loop.seen = SubSeq(loop.start, 1, loop.next)
    /\ loop.next <= Len(loop.start)
    /\ loop.live => loop.start = Contents(loop.on)
    /\ ~loop.live =>
        /\ loop.start = SliceOf(loop.base, loop.off, loop.len)
        /\ base[loop.on] = loop.base =>
             loop.off + loop.len <= off[loop.on] + len[loop.on]
LoopInv ==
    loop.on # NoArray =>
        /\ loop.on \in held
        /\ loop.off + loop.len <= Len(mem[loop.base])
        /\ \A a \in held : base[a] = loop.base => a = loop.on \/ <<a, loop.on>> \in kin
        /\ loop.calm => ReadsTheSame

ArraysInv == TypeOK /\ MemInv /\ LoopInv

-----------------------------------------------------------------------------
(* Sequences. *)

LEMMA SliceFacts ==
    ASSUME NEW S, NEW s \in Seq(S), NEW o \in Nat, NEW l \in Nat, o + l <= Len(s)
    PROVE  /\ SubSeq(s, o + 1, o + l) \in Seq(S)
           /\ Len(SubSeq(s, o + 1, o + l)) = l
           /\ \A i \in 1..l : SubSeq(s, o + 1, o + l)[i] = s[o + i]
           /\ \A i \in 1..l : o + i \in 1..Len(s)
<1>1. Len(s) \in Nat
  BY LenProperties
<1>2. \A i \in 1..l : o + i \in 1..Len(s)
  BY <1>1
<1>3. \A j \in (o + 1)..(o + l) : s[j] \in S
  <2>1. \A j \in (o + 1)..(o + l) : j \in 1..Len(s)
    BY <1>1
  <2> QED
    BY <2>1, ElementOfSeq
<1>4. o + 1 \in Int /\ o + l \in Int
  OBVIOUS
<1>5. /\ SubSeq(s, o + 1, o + l) \in Seq(S)
      /\ Len(SubSeq(s, o + 1, o + l)) =
           IF o + 1 <= o + l THEN (o + l) - (o + 1) + 1 ELSE 0
      /\ \A i \in 1..((o + l) - (o + 1) + 1) : SubSeq(s, o + 1, o + l)[i] = s[(o + 1) + i - 1]
  BY <1>3, <1>4, SubSeqProperties
<1>6. \A i \in 1..l : (o + 1) + i - 1 = o + i
  OBVIOUS
<1>7. (o + l) - (o + 1) + 1 = l /\ (o + 1 <= o + l <=> l # 0)
  OBVIOUS
<1>8. Len(SubSeq(s, o + 1, o + l)) = l
  BY <1>5, <1>7
<1> QED
  BY <1>2, <1>5, <1>6, <1>7, <1>8

(* A slice that is elsewhere, with the same elements. *)
LEMMA SameSlice ==
    ASSUME NEW S, NEW s \in Seq(S), NEW t \in Seq(S),
           NEW o \in Nat, NEW l \in Nat, o + l <= Len(s),
           Len(t) = l, \A i \in 1..l : s[o + i] = t[i]
    PROVE  SubSeq(s, o + 1, o + l) = t
<1>1. /\ SubSeq(s, o + 1, o + l) \in Seq(S)
      /\ Len(SubSeq(s, o + 1, o + l)) = l
      /\ \A i \in 1..l : SubSeq(s, o + 1, o + l)[i] = s[o + i]
  BY SliceFacts
<1> QED
  BY <1>1, SeqEqual

(* A list that is given element by element. *)
LEMMA ListFacts ==
    ASSUME NEW S, NEW n \in Nat, NEW f \in [1..n -> S]
    PROVE  f \in Seq(S) /\ Len(f) = n /\ DOMAIN f = 1..n
<1>1. f \in Seq(S)
  OBVIOUS
<1>2. DOMAIN f = 1..n /\ DOMAIN f = 1..Len(f) /\ Len(f) \in Nat
  BY <1>1, LenProperties
<1> QED
  BY <1>1, <1>2

-----------------------------------------------------------------------------
(* Blocks and slices. *)

LEMMA ContentsFacts ==
    ASSUME TypeOK, NEW a \in Arrays, Within(a)
    PROVE  /\ Contents(a) \in Seq(Elems)
           /\ Len(Contents(a)) = len[a] /\ len[a] \in Nat
           /\ \A i \in 1..len[a] : Contents(a)[i] = mem[base[a]][off[a] + i]
<1> DEFINE m == mem[base[a]]
           o == off[a]
           l == len[a]
<1>1. m \in Seq(Elems) /\ o \in Nat /\ l \in Nat /\ o + l <= Len(m)
  BY DEF TypeOK, Within
<1>2. Contents(a) = SubSeq(m, o + 1, o + l)
  BY DEF Contents, SliceOf
<1> HIDE DEF m, o, l
<1>3. /\ Contents(a) \in Seq(Elems)
      /\ Len(Contents(a)) = l
      /\ \A i \in 1..l : Contents(a)[i] = m[o + i]
  BY <1>1, <1>2, SliceFacts
<1> QED
  BY <1>1, <1>3 DEF m, o, l

LEMMA UnusedFacts ==
    ASSUME AnyUnused
    PROVE  Unused \in Blocks /\ Unused \notin Used
<1>1. \E b \in Blocks : b \notin Used
  BY DEF AnyUnused
<1> QED
  BY <1>1 DEF Unused

LEMMA InUse ==
    /\ \A a \in held : base[a] \in Used
    /\ loop.on # NoArray => loop.base \in Used
  BY DEF Used

(* The memory and the slices, and their types. *)
MemTypes ==
    /\ mem \in [Blocks -> Seq(Elems)]
    /\ base \in [Arrays -> Blocks]
    /\ off \in [Arrays -> Nat]
    /\ len \in [Arrays -> Nat]

(* A step that changes the slices of the arrays in A, some of them new, and *)
(* writes no block in use but those in W: a slice stays where it is or goes *)
(* to a block that nothing else has. *)
Moved(A, W) ==
    /\ MemTypes'
    /\ held \subseteq held' /\ held' \subseteq held \cup A /\ A \subseteq held'
    /\ held' \subseteq Arrays
    /\ UNCHANGED kin
    /\ \A c \in held \ A : base'[c] = base[c] /\ off'[c] = off[c] /\ len'[c] = len[c]
    /\ \A b \in Used : Len(mem'[b]) = Len(mem[b]) /\ (b \notin W => mem'[b] = mem[b])
    /\ \A c \in A : /\ Within(c)'
                    /\ \/ c \in held /\ base'[c] = base[c]
                       \/ base'[c] \notin Used /\ \A d \in A \ {c} : base'[d] # base'[c]

LEMMA MovedShares ==
    ASSUME TypeOK, MemInv, NEW A, NEW W, Moved(A, W),
           NEW a \in held', NEW b \in held', base'[a] = base'[b], a # b
    PROVE  <<a, b>> \in kin
<1>1. \A c \in held' : \/ c \in held /\ base'[c] = base[c]
                       \/ c \in A /\ base'[c] \notin Used
                          /\ \A d \in A \ {c} : base'[d] # base'[c]
  BY DEF Moved
<1>2. \A c \in held : base[c] \in Used
  BY InUse
<1>3. ASSUME NEW c \in held', NEW d \in held', c # d, base'[c] = base'[d]
      PROVE  c \in held /\ base'[c] = base[c]
  <2>1. CASE c \in A /\ base'[c] \notin Used /\ \A e \in A \ {c} : base'[e] # base'[c]
    <3>1. d \notin A
      BY <1>3, <2>1
    <3>2. d \in held /\ base'[d] = base[d]
      BY <1>1, <3>1
    <3> QED
      BY <1>2, <1>3, <2>1, <3>2
  <2> QED
    BY <1>1, <2>1
<1>4. a \in held /\ b \in held /\ base[a] = base[b]
  BY <1>3
<1> QED
  BY <1>4 DEF MemInv

LEMMA MovedKeeps ==
    ASSUME TypeOK, MemInv, NEW A, NEW W, Moved(A, W)
    PROVE  /\ MemTypes' /\ held' \subseteq Arrays /\ kin' \subseteq held' \X held'
           /\ MemInv'
           /\ \A c \in held \ A : base[c] \notin W => Contents(c)' = Contents(c)
           /\ \A c \in held' : Within(c)'
<1>1. kin' \subseteq held' \X held'
  BY DEF Moved, TypeOK
<1>2. \A c \in held' : Within(c)'
  <2>1. ASSUME NEW c \in held \ A PROVE Within(c)'
    <3>1. base'[c] = base[c] /\ off'[c] = off[c] /\ len'[c] = len[c]
      BY DEF Moved
    <3>2. Len(mem'[base[c]]) = Len(mem[base[c]])
      BY InUse DEF Moved
    <3> QED
      BY <3>1, <3>2 DEF Within, MemInv
  <2> QED
    BY <2>1 DEF Moved
<1>3. \A a, b \in held' : base'[a] = base'[b] => a = b \/ <<a, b>> \in kin'
  BY MovedShares DEF Moved
<1>4. \A a, b \in held' : <<a, b>> \in kin' => <<b, a>> \in kin'
  BY DEF Moved, MemInv, TypeOK
<1>5. ASSUME NEW c \in held \ A, base[c] \notin W PROVE Contents(c)' = Contents(c)
  <2>1. base'[c] = base[c] /\ off'[c] = off[c] /\ len'[c] = len[c]
    BY DEF Moved
  <2>2. mem'[base[c]] = mem[base[c]]
    BY <1>5, InUse DEF Moved
  <2> QED
    BY <2>1, <2>2 DEF Contents, SliceOf
<1> QED
  BY <1>1, <1>2, <1>3, <1>4, <1>5 DEF Moved, MemInv

-----------------------------------------------------------------------------
(* The loop that is under way, when a method or an expression moves slices. *)

(* The elements of a, and what lies before them, are still in the block     *)
(* that a had; and if it still has that block, it reaches as far as it did. *)
Still(a) ==
    /\ \A i \in 1..(off[a] + len[a]) : mem'[base[a]][i] = mem[base[a]][i]
    /\ base'[a] = base[a] => off[a] + len[a] <= off'[a] + len'[a]

Untouched(A, W) == loop.on \notin A /\ loop.base \notin W /\ base[loop.on] \notin W
Gentle(A, W) ==
    /\ ~loop.live
    /\ loop.on \in A /\ W \subseteq {base[loop.on]}
    /\ Still(loop.on)

LEMMA LoopFacts ==
    ASSUME TypeOK
    PROVE  /\ loop.on \in Arrays \cup {NoArray} /\ loop.live \in BOOLEAN
           /\ loop.base \in Blocks /\ loop.off \in Nat /\ loop.len \in Nat
           /\ loop.next \in Nat /\ loop.seen \in Seq(Elems) /\ loop.start \in Seq(Elems)
           /\ loop.calm \in BOOLEAN
  BY DEF TypeOK, Loop

LEMMA CalmFacts ==
    ASSUME TypeOK, NEW c \in BOOLEAN
    PROVE  /\ [loop EXCEPT !.calm = c] \in Loop
           /\ [loop EXCEPT !.calm = c].on = loop.on
           /\ [loop EXCEPT !.calm = c].live = loop.live
           /\ [loop EXCEPT !.calm = c].base = loop.base
           /\ [loop EXCEPT !.calm = c].off = loop.off
           /\ [loop EXCEPT !.calm = c].len = loop.len
           /\ [loop EXCEPT !.calm = c].next = loop.next
           /\ [loop EXCEPT !.calm = c].seen = loop.seen
           /\ [loop EXCEPT !.calm = c].start = loop.start
           /\ [loop EXCEPT !.calm = c].calm = c
           /\ [loop EXCEPT !.calm = loop.calm] = loop
  BY DEF TypeOK, Loop

(* The slice that the loop reads, when its array has changed gently. *)
LEMMA GentleSlice ==
    ASSUME TypeOK, MemInv, LoopInv, NEW A, NEW W, Moved(A, W), Gentle(A, W),
           loop.on # NoArray, loop.calm
    PROVE  SubSeq(mem'[loop.base], loop.off + 1, loop.off + loop.len) = loop.start
<1> DEFINE b == loop.base
           o == loop.off
           l == loop.len
           m == mem[b]
           n == mem'[b]
           t == loop.start
<1>1. /\ b \in Blocks /\ o \in Nat /\ l \in Nat /\ loop.on \in held /\ loop.on \in Arrays
      /\ t \in Seq(Elems)
  BY LoopFacts DEF LoopInv, TypeOK
<1>2. m \in Seq(Elems) /\ n \in Seq(Elems) /\ Len(n) = Len(m)
  <2>1. m \in Seq(Elems) /\ n \in Seq(Elems)
    BY <1>1 DEF TypeOK, Moved, MemTypes
  <2>2. b \in Used
    BY InUse
  <2> QED
    BY <2>1, <2>2 DEF Moved
<1>3. o + l <= Len(m) /\ t = SubSeq(m, o + 1, o + l)
  BY DEF LoopInv, ReadsTheSame, Gentle, SliceOf
<1>4. /\ Len(t) = l
      /\ \A i \in 1..l : t[i] = m[o + i]
      /\ \A i \in 1..l : o + i \in 1..Len(m)
  <2> HIDE DEF m, o, l, t
  <2> QED
    BY <1>1, <1>2, <1>3, SliceFacts
<1>5. \A i \in 1..l : n[o + i] = m[o + i]
  <2>1. CASE b \notin W
    <3>1. m = n
      BY <2>1, InUse DEF Moved
    <3> QED
      BY <3>1
  <2>2. CASE b \in W
    <3>1. b = base[loop.on] /\ Still(loop.on)
      BY <2>2 DEF Gentle
    <3>2. o + l <= off[loop.on] + len[loop.on]
      BY <3>1 DEF LoopInv, ReadsTheSame, Gentle
    <3>3. off[loop.on] \in Nat /\ len[loop.on] \in Nat
      BY <1>1 DEF TypeOK
    <3>4. \A i \in 1..l : o + i \in 1..(off[loop.on] + len[loop.on])
      <4> HIDE DEF o, l
      <4> QED
        BY <1>1, <3>2, <3>3 DEF o, l
    <3>5. \A i \in 1..(off[loop.on] + len[loop.on]) : n[i] = m[i]
      BY <3>1 DEF Still
    <3> HIDE DEF m, n, o, l
    <3> QED
      BY <3>4, <3>5
  <2> QED
    BY <2>1, <2>2
<1> HIDE DEF m, n, o, l, t
<1>6. o + l <= Len(n)
  BY <1>2, <1>3
<1>7. \A i \in 1..l : n[o + i] = t[i]
  BY <1>4, <1>5
<1>8. SubSeq(n, o + 1, o + l) = t
  BY <1>1, <1>2, <1>4, <1>6, <1>7, SameSlice
<1> QED
  BY <1>8 DEF n, o, l, t

LEMMA LoopKeeps ==
    ASSUME TypeOK, MemInv, LoopInv, NEW A, NEW W, Moved(A, W),
           NEW c \in BOOLEAN, loop' = [loop EXCEPT !.calm = c], c => loop.calm,
           loop.on # NoArray /\ c => Untouched(A, W) \/ Gentle(A, W)
    PROVE  TypeOK' /\ MemInv' /\ LoopInv'
<1>1. /\ loop' \in Loop /\ loop'.on = loop.on /\ loop'.live = loop.live
      /\ loop'.base = loop.base /\ loop'.off = loop.off /\ loop'.len = loop.len
      /\ loop'.next = loop.next /\ loop'.seen = loop.seen /\ loop'.start = loop.start
      /\ loop'.calm = c
  BY CalmFacts
<1>2. TypeOK' /\ MemInv'
  BY <1>1, MovedKeeps DEF TypeOK, MemTypes, Loop
<1>3. ASSUME loop.on # NoArray
      PROVE  /\ loop.on \in held'
             /\ loop.off + loop.len <= Len(mem'[loop.base])
             /\ \A a \in held' : base'[a] = loop.base => a = loop.on \/ <<a, loop.on>> \in kin'
  <2>1. loop.on \in held'
    BY <1>3 DEF LoopInv, Moved
  <2>2. loop.base \in Used
    BY <1>3, InUse
  <2>3. loop.off + loop.len <= Len(mem'[loop.base])
    BY <1>3, <2>2 DEF LoopInv, Moved
  <2>4. ASSUME NEW a \in held', base'[a] = loop.base
        PROVE  a = loop.on \/ <<a, loop.on>> \in kin'
    <3>1. a \in held /\ base[a] = loop.base
      BY <2>2, <2>4 DEF Moved
    <3> QED
      BY <1>3, <3>1 DEF LoopInv, Moved
  <2> QED
    BY <2>1, <2>3, <2>4
<1>4. ASSUME loop.on # NoArray, c
      PROVE  ReadsTheSame'
  <2>1. ReadsTheSame /\ loop.on \in held /\ loop.calm
    BY <1>3, <1>4 DEF LoopInv
  <2>2. CASE Untouched(A, W)
    <3>1. loop.on \in held \ A
      BY <2>1, <2>2 DEF Untouched
    <3>3. PICK a \in held \ A : a = loop.on
      BY <3>1
    <3>4. Contents(a)' = Contents(a)
      BY <2>2, <3>3, MovedKeeps DEF Untouched
    <3>5. mem'[loop.base] = mem[loop.base]
      BY <1>4, <2>2, InUse DEF Untouched, Moved
    <3>6. SliceOf(loop.base, loop.off, loop.len)' = SliceOf(loop.base, loop.off, loop.len)
      BY <1>1, <3>5 DEF SliceOf
    <3>7. base'[a] = base[a] /\ off'[a] = off[a] /\ len'[a] = len[a]
      BY <3>3 DEF Moved
    <3>8. loop'.on = a
      BY <1>1, <3>3
    <3>9. Contents(loop.on)' = Contents(loop.on)
      BY <3>3, <3>4, <3>8
    <3> QED
      BY <1>1, <2>1, <3>3, <3>6, <3>7, <3>9 DEF ReadsTheSame
  <2>3. CASE Gentle(A, W)
    <3>1. SubSeq(mem'[loop.base], loop.off + 1, loop.off + loop.len) = loop.start
      BY <1>4, <2>1, <2>3, GentleSlice
    <3>2. SliceOf(loop.base, loop.off, loop.len)' = loop'.start
      BY <1>1, <3>1 DEF SliceOf
    <3>3. ~loop'.live
      BY <1>1, <2>3 DEF Gentle
    <3>4. ASSUME base'[loop.on] = loop.base
          PROVE  loop.off + loop.len <= off'[loop.on] + len'[loop.on]
      <4>1. base'[loop.on] = base[loop.on]
        BY <1>4, <2>1, <2>3, <3>4, InUse DEF Gentle, Moved
      <4>2. off[loop.on] + len[loop.on] <= off'[loop.on] + len'[loop.on]
        BY <2>3, <4>1 DEF Gentle, Still
      <4>3. loop.off + loop.len <= off[loop.on] + len[loop.on]
        BY <2>1, <2>3, <3>4, <4>1 DEF Gentle, ReadsTheSame
      <4>4. /\ loop.off \in Nat /\ loop.len \in Nat /\ off[loop.on] \in Nat /\ len[loop.on] \in Nat
            /\ off'[loop.on] \in Nat /\ len'[loop.on] \in Nat
        BY <2>1, LoopFacts DEF TypeOK, Moved, MemTypes
      <4> QED
        BY <4>2, <4>3, <4>4
    <3>5. loop'.seen = SubSeq(loop'.start, 1, loop'.next) /\ loop'.next <= Len(loop'.start)
      BY <1>1, <2>1 DEF ReadsTheSame
    <3> QED
      BY <1>1, <3>2, <3>3, <3>4, <3>5 DEF ReadsTheSame
  <2> QED
    BY <1>4, <2>2, <2>3
<1> QED
  BY <1>1, <1>2, <1>3, <1>4 DEF LoopInv

(* A method of a. *)
LEMMA MethodKeeps ==
    ASSUME ArraysInv, NEW a \in held, NEW N, N \cap held = {},
           NEW W, W \subseteq {base[a]}, Moved({a} \cup N, W),
           NEW inPlace \in BOOLEAN, Changes(a, inPlace), ~inPlace => Still(a)
    PROVE  ArraysInv'
<1> DEFINE c == /\ loop.calm
                /\ ~ (\/ <<a, loop.on>> \in kin
                      \/ a = loop.on /\ (inPlace \/ loop.live))
<1>1. TypeOK /\ MemInv /\ LoopInv
  BY DEF ArraysInv
<1>2. loop' = [loop EXCEPT !.calm = c]
  BY DEF Changes
<1>3. c \in BOOLEAN /\ (c => loop.calm)
  BY <1>1, LoopFacts
<1>4. ASSUME loop.on # NoArray, c
      PROVE  Untouched({a} \cup N, W) \/ Gentle({a} \cup N, W)
  <2>1. loop.on \in held /\ <<a, loop.on>> \notin kin
    BY <1>1, <1>4 DEF LoopInv
  <2>2. CASE a = loop.on
    <3>1. ~loop.live /\ Still(a)
      BY <1>4, <2>2
    <3> QED
      BY <2>2, <3>1 DEF Gentle
  <2>3. CASE a # loop.on
    <3>1. loop.on \notin {a} \cup N
      BY <2>1, <2>3
    <3>2. base[a] # base[loop.on]
      BY <1>1, <2>1, <2>3 DEF MemInv
    <3>3. base[a] # loop.base
      BY <1>1, <1>4, <2>1, <2>3 DEF LoopInv
    <3> QED
      BY <3>1, <3>2, <3>3 DEF Untouched
  <2> QED
    BY <2>2, <2>3
<1> HIDE DEF c
<1> QED
  BY <1>1, <1>2, <1>3, <1>4, LoopKeeps DEF ArraysInv

(* An array is made; or the loop has ended in it. *)
LEMMA MakingKeeps ==
    ASSUME ArraysInv, NEW N, N \cap held = {}, Moved(N, {}), UNCHANGED loop
    PROVE  ArraysInv'
<1>1. TypeOK /\ MemInv /\ LoopInv
  BY DEF ArraysInv
<1>2. loop' = [loop EXCEPT !.calm = loop.calm] /\ loop.calm \in BOOLEAN
  BY <1>1, LoopFacts, CalmFacts
<1>3. loop.on # NoArray => Untouched(N, {})
  BY <1>1 DEF LoopInv, Untouched
<1> QED
  BY <1>1, <1>2, <1>3, LoopKeeps DEF ArraysInv

LEMMA NoLoopType == NoLoop \in Loop /\ NoLoop.on = NoArray
<1>1. (CHOOSE b \in Blocks : TRUE) \in Blocks
  BY ArraysAssumption
<1>2. <<>> \in Seq(Elems)
  OBVIOUS
<1> QED
  BY <1>1, <1>2 DEF NoLoop, Loop

LEMMA EndingKeeps ==
    ASSUME ArraysInv, NEW N, NEW W, Moved(N, W), loop' = NoLoop
    PROVE  ArraysInv'
<1>1. TypeOK /\ MemInv /\ LoopInv
  BY DEF ArraysInv
<1>2. loop' \in Loop /\ loop'.on = NoArray
  BY NoLoopType
<1>3. TypeOK' /\ MemInv'
  BY <1>1, <1>2, MovedKeeps DEF TypeOK, MemTypes, Loop
<1> QED
  BY <1>2, <1>3 DEF ArraysInv, LoopInv

-----------------------------------------------------------------------------
(* What the operations on blocks do. *)

Over(m, o, s) ==
    [i \in DOMAIN m |-> IF i > o /\ i <= o + Len(s) THEN s[i - o] ELSE m[i]]

LEMMA OverFacts ==
    ASSUME NEW S, NEW m \in Seq(S), NEW s \in Seq(S), NEW o \in Nat, o + Len(s) <= Len(m)
    PROVE  /\ Over(m, o, s) \in Seq(S)
           /\ Len(Over(m, o, s)) = Len(m)
           /\ \A i \in 1..Len(m) : i <= o \/ i > o + Len(s) => Over(m, o, s)[i] = m[i]
           /\ \A i \in 1..Len(s) : Over(m, o, s)[o + i] = s[i]
           /\ SubSeq(Over(m, o, s), o + 1, o + Len(s)) = s
<1> DEFINE n == Len(m)
           k == Len(s)
           f == Over(m, o, s)
<1>1. /\ n \in Nat /\ k \in Nat /\ DOMAIN m = 1..n
      /\ \A i \in 1..n : m[i] \in S
      /\ \A i \in 1..k : s[i] \in S
  BY LenProperties, ElementOfSeq
<1>2. f = [i \in 1..n |-> IF i > o /\ i <= o + k THEN s[i - o] ELSE m[i]]
  BY <1>1 DEF Over
<1> HIDE DEF f, n, k
<1>3. \A i \in 1..n : i > o /\ i <= o + k => i - o \in 1..k
  BY <1>1
<1>4. f \in [1..n -> S]
  BY <1>1, <1>2, <1>3
<1>5. f \in Seq(S) /\ Len(f) = n
  BY <1>1, <1>4, ListFacts
<1>6. \A i \in 1..n : i <= o \/ i > o + k => f[i] = m[i]
  BY <1>1, <1>2
<1>7. \A i \in 1..k : o + i \in 1..n /\ o + i > o /\ o + i <= o + k /\ (o + i) - o = i
  BY <1>1 DEF n, k
<1>8. \A i \in 1..k : f[o + i] = s[i]
  BY <1>2, <1>7
<1>9. SubSeq(f, o + 1, o + k) = s
  <2>1. o + k <= Len(f) /\ Len(s) = k
    BY <1>5 DEF n, k
  <2> QED
    BY <1>1, <1>5, <1>8, <2>1, SameSlice
<1> QED
  BY <1>5, <1>6, <1>8, <1>9 DEF f, n, k

(* s begins with what a holds. *)
Extends(s, a) ==
    /\ len[a] <= Len(s)
    /\ \A i \in 1..len[a] : s[i] = Contents(a)[i]

LEMMA WriteDoes ==
    ASSUME TypeOK, NEW a \in held, Within(a), NEW s \in Seq(Elems),
           Fits(a, Len(s)), Write(a, s)
    PROVE  /\ Moved({a}, {base[a]})
           /\ held' = held
           /\ Contents(a)' = s
           /\ Extends(s, a) => Still(a)
<1> DEFINE b == base[a]
           m == mem[b]
           o == off[a]
           f == Over(m, o, s)
<1>1. /\ a \in Arrays /\ b \in Blocks /\ m \in Seq(Elems) /\ o \in Nat /\ len[a] \in Nat
      /\ Len(s) \in Nat /\ o + Len(s) <= Len(m)
  BY LenProperties DEF TypeOK, Fits
<1>2. /\ mem' = [mem EXCEPT ![b] = f]
      /\ len' = [len EXCEPT ![a] = Len(s)]
      /\ UNCHANGED <<held, base, off, kin>>
  BY DEF Write, Over
<1> HIDE DEF f
<1>3. /\ f \in Seq(Elems) /\ Len(f) = Len(m)
      /\ \A i \in 1..Len(m) : i <= o \/ i > o + Len(s) => f[i] = m[i]
      /\ \A i \in 1..Len(s) : f[o + i] = s[i]
      /\ SubSeq(f, o + 1, o + Len(s)) = s
  <2> HIDE DEF m, o
  <2> QED
    BY <1>1, OverFacts DEF f
<1>4. mem'[b] = f /\ \A c \in Blocks \ {b} : mem'[c] = mem[c]
  BY <1>1, <1>2 DEF TypeOK
<1>5. len'[a] = Len(s) /\ \A c \in held \ {a} : len'[c] = len[c]
  BY <1>1, <1>2 DEF TypeOK
<1>6. MemTypes'
  BY <1>1, <1>2, <1>3 DEF TypeOK, MemTypes
<1>7. Within(a)'
  BY <1>1, <1>2, <1>3, <1>4, <1>5 DEF Within
<1>8. Used \subseteq Blocks
  BY LoopFacts DEF Used, TypeOK
<1>9. Moved({a}, {b})
  <2>1. held \subseteq Arrays
    BY DEF TypeOK
  <2>2. \A c \in Used : Len(mem'[c]) = Len(mem[c]) /\ (c \notin {b} => mem'[c] = mem[c])
    BY <1>3, <1>4, <1>8
  <2> QED
    BY <1>2, <1>5, <1>6, <1>7, <2>1, <2>2 DEF Moved
<1>10. Contents(a)' = s
  BY <1>2, <1>3, <1>4, <1>5 DEF Contents, SliceOf
<1>11. ASSUME Extends(s, a) PROVE Still(a)
  <2>1. len[a] <= Len(s) /\ \A i \in 1..len[a] : s[i] = m[o + i]
    BY <1>11, <1>1, ContentsFacts DEF Extends
  <2>2. ASSUME NEW i \in 1..(o + len[a]) PROVE f[i] = m[i]
    <3>1. i \in 1..Len(m)
      BY <1>1, <2>1
    <3>2. CASE i <= o
      BY <1>3, <3>1, <3>2
    <3>3. CASE i > o
      <4>1. i - o \in 1..len[a] /\ i - o \in 1..Len(s) /\ o + (i - o) = i
        BY <1>1, <2>1, <3>3
      <4> QED
        BY <1>3, <2>1, <4>1
    <3> QED
      BY <1>1, <3>2, <3>3
  <2>3. base'[a] = base[a] => off[a] + len[a] <= off'[a] + len'[a]
    BY <1>1, <1>2, <1>5, <2>1
  <2> QED
    BY <1>4, <2>2, <2>3 DEF Still
<1> QED
  BY <1>2, <1>9, <1>10, <1>11

LEMMA UsedBlocks ==
    ASSUME TypeOK
    PROVE  Used \subseteq Blocks
  BY LoopFacts DEF Used, TypeOK

LEMMA NilsFacts ==
    ASSUME NEW s \in Seq(Elems), NEW k \in Spare
    PROVE  /\ s \o Nils(k) \in Seq(Elems)
           /\ Len(s) <= Len(s \o Nils(k))
           /\ \A i \in 1..Len(s) : (s \o Nils(k))[i] = s[i]
           /\ SubSeq(s \o Nils(k), 0 + 1, 0 + Len(s)) = s
<1>1. k \in Nat
  BY ArraysAssumption
<1>2. Nils(k) \in [1..k -> Elems]
  BY ArraysAssumption DEF Nils
<1> DEFINE t == Nils(k)
           u == s \o t
<1> HIDE DEF t
<1>3. t \in Seq(Elems) /\ Len(t) = k
  BY <1>1, <1>2, ListFacts DEF t
<1>4. Len(s) \in Nat
  BY LenProperties
<1>5. /\ u \in Seq(Elems) /\ Len(u) = Len(s) + k
      /\ \A i \in 1..(Len(s) + k) : u[i] = IF i <= Len(s) THEN s[i] ELSE t[i - Len(s)]
  BY <1>3, ConcatProperties
<1> HIDE DEF u
<1>6. Len(s) <= Len(u) /\ \A i \in 1..Len(s) : u[i] = s[i]
  BY <1>1, <1>4, <1>5
<1>7. SubSeq(u, 0 + 1, 0 + Len(s)) = s
  <2>1. 0 + Len(s) <= Len(u) /\ \A i \in 1..Len(s) : u[0 + i] = s[i]
    BY <1>4, <1>6
  <2> QED
    BY <1>4, <1>5, <2>1, SameSlice
<1> QED
  BY <1>5, <1>6, <1>7 DEF t, u

(* A slice that has a block of its own from now on. *)
LEMMA PlaceDoes ==
    ASSUME TypeOK, NEW x \in Arrays, NEW s \in Seq(Elems), Place(x, s),
           held \subseteq held', held' = held \cup {x}
    PROVE  /\ Moved({x}, {})
           /\ Contents(x)' = s
           /\ base'[x] \notin Used
<1> DEFINE b == Unused
<1>1. b \in Blocks /\ b \notin Used
  BY UnusedFacts DEF Place
<1>2. PICK k \in Spare : mem' = [mem EXCEPT ![b] = s \o Nils(k)]
  BY DEF Place
<1>3. /\ base' = [base EXCEPT ![x] = b]
      /\ off' = [off EXCEPT ![x] = 0]
      /\ len' = [len EXCEPT ![x] = Len(s)]
      /\ UNCHANGED kin
  BY DEF Place
<1> DEFINE f == s \o Nils(k)
<1> HIDE DEF b
<1>4. f \in Seq(Elems) /\ Len(s) \in Nat /\ Len(s) <= Len(f) /\ SubSeq(f, 0 + 1, 0 + Len(s)) = s
  BY NilsFacts, LenProperties
<1> HIDE DEF f
<1>5. mem' = [mem EXCEPT ![b] = f]
  BY <1>2 DEF f
<1>6. mem'[b] = f /\ \A c \in Blocks \ {b} : mem'[c] = mem[c]
  BY <1>1, <1>5 DEF TypeOK
<1>7. /\ base'[x] = b /\ off'[x] = 0 /\ len'[x] = Len(s)
      /\ \A c \in held \ {x} : base'[c] = base[c] /\ off'[c] = off[c] /\ len'[c] = len[c]
  BY <1>3 DEF TypeOK
<1>8. MemTypes'
  <2>1. mem' \in [Blocks -> Seq(Elems)]
    BY <1>1, <1>4, <1>5 DEF TypeOK
  <2> QED
    BY <1>1, <1>3, <1>4, <2>1 DEF TypeOK, MemTypes
<1>9. Within(x)'
  BY <1>4, <1>6, <1>7 DEF Within
<1>10. \A c \in Used : mem'[c] = mem[c]
  BY <1>1, <1>6, UsedBlocks
<1>11. held' \subseteq Arrays
  BY DEF TypeOK
<1>12. Moved({x}, {})
  BY <1>1, <1>3, <1>7, <1>8, <1>9, <1>10, <1>11 DEF Moved
<1>13. Contents(x)' = s
  BY <1>4, <1>6, <1>7 DEF Contents, SliceOf
<1> QED
  BY <1>1, <1>7, <1>12, <1>13

LEMMA StillMoved ==
    ASSUME TypeOK, NEW a \in held, \A b \in Used : mem'[b] = mem[b], base'[a] \notin Used
    PROVE  Still(a)
  BY InUse DEF Still

LEMMA MoveDoes ==
    ASSUME TypeOK, NEW a \in held, NEW s \in Seq(Elems), Move(a, s)
    PROVE  Moved({a}, {}) /\ held' = held /\ Contents(a)' = s /\ Still(a)
<1>1. Place(a, s) /\ held' = held /\ a \in Arrays /\ held' = held \cup {a}
  BY DEF Move, TypeOK
<1>2. Moved({a}, {}) /\ Contents(a)' = s /\ base'[a] \notin Used
  BY <1>1, PlaceDoes
<1>3. Still(a)
  BY <1>2, StillMoved DEF Moved
<1> QED
  BY <1>1, <1>2, <1>3

LEMMA MakeDoes ==
    ASSUME TypeOK, NEW n \in Arrays, NEW s \in Seq(Elems), Make(n, s)
    PROVE  /\ n \notin held /\ held' = held \cup {n}
           /\ Moved({n}, {}) /\ Contents(n)' = s
  BY PlaceDoes DEF Make

LEMMA WriteLess ==
    ASSUME NEW A, NEW W, NEW V, Moved(A, W), W \subseteq V
    PROVE  Moved(A, V)
  BY DEF Moved

LEMMA StoreDoes ==
    ASSUME TypeOK, NEW a \in held, Within(a), NEW s \in Seq(Elems), Store(a, s)
    PROVE  /\ Moved({a}, {base[a]}) /\ held' = held /\ Contents(a)' = s
           /\ Extends(s, a) => Still(a)
<1>1. CASE Fits(a, Len(s))
  BY <1>1, WriteDoes DEF Store
<1>2. CASE ~Fits(a, Len(s))
  <2>1. Move(a, s)
    BY <1>2 DEF Store
  <2>2. Moved({a}, {}) /\ held' = held /\ Contents(a)' = s /\ Still(a)
    BY <2>1, MoveDoes
  <2> QED
    BY <2>2, WriteLess
<1> QED
  BY <1>1, <1>2

(* A slice, shorter. *)
LEMMA NarrowDoes ==
    ASSUME TypeOK, NEW a \in held, Within(a), NEW o \in Nat, NEW l \in Nat,
           o + l <= off[a] + len[a], Narrow(a, o, l)
    PROVE  /\ Moved({a}, {}) /\ held' = held
           /\ Contents(a)' = SubSeq(mem[base[a]], o + 1, o + l)
           /\ o + l = off[a] + len[a] => Still(a)
<1>1. /\ off' = [off EXCEPT ![a] = o]
      /\ len' = [len EXCEPT ![a] = l]
      /\ UNCHANGED <<held, mem, base, kin>>
  BY DEF Narrow
<1>2. a \in Arrays /\ held \subseteq Arrays
  BY DEF TypeOK
<1>3. /\ off'[a] = o /\ len'[a] = l
      /\ \A c \in held \ {a} : off'[c] = off[c] /\ len'[c] = len[c]
  BY <1>1, <1>2 DEF TypeOK
<1>4. MemTypes'
  BY <1>1 DEF TypeOK, MemTypes
<1>5. Within(a)'
  <2>1. off[a] \in Nat /\ len[a] \in Nat /\ Len(mem[base[a]]) \in Nat
    BY <1>2, LenProperties DEF TypeOK
  <2> QED
    BY <1>1, <1>3, <2>1 DEF Within
<1>6. Moved({a}, {})
  BY <1>1, <1>2, <1>3, <1>4, <1>5 DEF Moved
<1>7. Contents(a)' = SubSeq(mem[base[a]], o + 1, o + l)
  BY <1>1, <1>3 DEF Contents, SliceOf
<1>8. o + l = off[a] + len[a] => Still(a)
  BY <1>1, <1>3, <1>2 DEF Still, TypeOK
<1> QED
  BY <1>1, <1>6, <1>7, <1>8

(* When there is no room, the rest of the block is filled before it is left. *)
LEMMA GrowDoes ==
    ASSUME TypeOK, NEW a \in held, Within(a), NEW s \in Seq(Elems), Extends(s, a), Grow(a, s)
    PROVE  Moved({a}, {base[a]}) /\ held' = held /\ Contents(a)' = s /\ Still(a)
<1>1. CASE Fits(a, Len(s))
  BY <1>1, WriteDoes DEF Grow
<1>2. CASE ~Fits(a, Len(s))
  <2> DEFINE b == base[a]
             m == mem[b]
             u == Unused
             g == [i \in DOMAIN m |-> IF i > off[a] + len[a] THEN Undefined ELSE m[i]]
  <2>1. u \in Blocks /\ u \notin Used
    BY <1>2, UnusedFacts DEF Grow
  <2>2. PICK k \in Spare : mem' = [mem EXCEPT ![b] = g, ![u] = s \o Nils(k)]
    BY <1>2 DEF Grow
  <2>3. /\ base' = [base EXCEPT ![a] = u]
        /\ off' = [off EXCEPT ![a] = 0]
        /\ len' = [len EXCEPT ![a] = Len(s)]
        /\ UNCHANGED <<held, kin>>
    BY <1>2 DEF Grow
  <2> DEFINE f == s \o Nils(k)
  <2> HIDE DEF u
  <2>4. f \in Seq(Elems) /\ Len(s) \in Nat /\ Len(s) <= Len(f) /\ SubSeq(f, 0 + 1, 0 + Len(s)) = s
    BY NilsFacts, LenProperties
  <2>5. /\ a \in Arrays /\ held \subseteq Arrays /\ b \in Blocks /\ b \in Used /\ b # u
        /\ m \in Seq(Elems) /\ off[a] \in Nat /\ len[a] \in Nat /\ off[a] + len[a] <= Len(m)
    BY <2>1, InUse DEF TypeOK, Within
  <2>6. /\ g \in Seq(Elems) /\ Len(g) = Len(m)
        /\ \A i \in 1..(off[a] + len[a]) : g[i] = m[i]
    <3>1. /\ DOMAIN m = 1..Len(m) /\ Len(m) \in Nat
          /\ \A i \in 1..Len(m) : m[i] \in Elems
      BY <2>5, LenProperties, ElementOfSeq
    <3>2. g \in [1..Len(m) -> Elems]
      BY <3>1, ArraysAssumption
    <3>3. \A i \in 1..(off[a] + len[a]) : i \in DOMAIN m /\ ~(i > off[a] + len[a])
      BY <2>5, <3>1
    <3> QED
      BY <3>1, <3>2, <3>3, ListFacts
  <2> HIDE DEF f, g, m
  <2>7. mem' = [mem EXCEPT ![b] = g, ![u] = f]
    BY <2>2 DEF f
  <2>8. mem'[u] = f /\ mem'[b] = g /\ \A c \in Blocks \ {b, u} : mem'[c] = mem[c]
    BY <2>1, <2>5, <2>7 DEF TypeOK
  <2>9. /\ base'[a] = u /\ off'[a] = 0 /\ len'[a] = Len(s)
        /\ \A c \in held \ {a} : base'[c] = base[c] /\ off'[c] = off[c] /\ len'[c] = len[c]
    BY <2>3, <2>5 DEF TypeOK
  <2>10. MemTypes'
    <3>1. mem' \in [Blocks -> Seq(Elems)]
      BY <2>1, <2>4, <2>5, <2>6, <2>7 DEF TypeOK
    <3> QED
      BY <2>1, <2>3, <2>4, <3>1 DEF TypeOK, MemTypes
  <2>11. Within(a)'
    BY <2>4, <2>8, <2>9 DEF Within
  <2>12. \A c \in Used : Len(mem'[c]) = Len(mem[c]) /\ (c \notin {b} => mem'[c] = mem[c])
    BY <2>1, <2>6, <2>8, UsedBlocks DEF m
  <2>13. Moved({a}, {b})
    BY <2>1, <2>3, <2>5, <2>9, <2>10, <2>11, <2>12 DEF Moved
  <2>14. Contents(a)' = s
    BY <2>4, <2>8, <2>9 DEF Contents, SliceOf
  <2>15. Still(a)
    BY <2>5, <2>6, <2>8, <2>9 DEF Still, m
  <2> QED
    BY <2>3, <2>13, <2>14, <2>15
<1> QED
  BY <1>1, <1>2

(* The new value of the array, and the part that splice takes out of it. *)
SpliceAt(a, start) == From(start, Len(Contents(a)))
SpliceTo(a, start, count) ==
    SpliceAt(a, start) + Count(count, SpliceAt(a, start), Len(Contents(a)))
Spliced(a, start, count, items) ==
    SubSeq(Contents(a), 1, SpliceAt(a, start)) \o items
      \o SubSeq(Contents(a), SpliceTo(a, start, count) + 1, Len(Contents(a)))
TakenOut(a, start, count) ==
    SubSeq(Contents(a), SpliceAt(a, start) + 1, SpliceTo(a, start, count))

LEMMA SpliceTypes ==
    ASSUME TypeOK, NEW a \in held, Within(a),
           NEW start \in Int, NEW count \in Nat, NEW items \in Seq(Elems)
    PROVE  /\ SpliceAt(a, start) \in Nat /\ SpliceAt(a, start) <= Len(Contents(a))
           /\ SpliceTo(a, start, count) =
                IF SpliceAt(a, start) + count > Len(Contents(a)) THEN Len(Contents(a))
                ELSE SpliceAt(a, start) + count
           /\ SpliceTo(a, start, count) \in Nat
           /\ SpliceAt(a, start) <= SpliceTo(a, start, count)
           /\ SpliceTo(a, start, count) <= Len(Contents(a))
           /\ Spliced(a, start, count, items) \in Seq(Elems)
           /\ TakenOut(a, start, count) \in Seq(Elems)
           /\ Len(TakenOut(a, start, count)) = SpliceTo(a, start, count) - SpliceAt(a, start)
<1> DEFINE s == Contents(a)
           n == Len(s)
           from == SpliceAt(a, start)
           to == SpliceTo(a, start, count)
<1>1. s \in Seq(Elems) /\ n \in Nat
  BY ContentsFacts DEF TypeOK
<1> HIDE DEF s
<1>2. from \in Nat /\ from <= n
  BY <1>1 DEF SpliceAt, From, s
<1> HIDE DEF from
<1>3. to = IF from + count > n THEN n ELSE from + count
  BY <1>1, <1>2 DEF SpliceTo, Count, from, s
<1>4. to \in Nat /\ from <= to /\ to <= n
  BY <1>1, <1>2, <1>3
<1> HIDE DEF to, n
<1>5. SubSeq(s, 0 + 1, 0 + from) \in Seq(Elems)
  <2>1. 0 \in Nat /\ 0 + from <= Len(s)
    BY <1>2 DEF n
  <2> QED
    BY <1>1, <1>2, <2>1, SliceFacts
<1>6. /\ SubSeq(s, from + 1, from + (to - from)) \in Seq(Elems)
      /\ Len(SubSeq(s, from + 1, from + (to - from))) = to - from
  <2>1. to - from \in Nat /\ from + (to - from) <= Len(s)
    BY <1>2, <1>4 DEF n
  <2> DEFINE k == to - from
  <2>2. k \in Nat /\ from + k <= Len(s)
    BY <2>1
  <2>4. s \in Seq(Elems) /\ from \in Nat
    BY <1>1, <1>2
  <2> HIDE DEF k
  <2>3. /\ SubSeq(s, from + 1, from + k) \in Seq(Elems)
        /\ Len(SubSeq(s, from + 1, from + k)) = k
    BY <2>2, <2>4, SliceFacts, SMTT(30)
  <2> QED
    BY <2>3 DEF k
<1>7. SubSeq(s, to + 1, to + (n - to)) \in Seq(Elems)
  <2>1. n - to \in Nat /\ to + (n - to) <= Len(s)
    BY <1>1, <1>4 DEF n
  <2> DEFINE k == n - to
  <2>2. k \in Nat /\ to + k <= Len(s)
    BY <2>1
  <2> HIDE DEF k
  <2>3. SubSeq(s, to + 1, to + k) \in Seq(Elems)
    BY <1>1, <1>4, <2>2, SliceFacts
  <2> QED
    BY <2>3 DEF k
<1>8. 0 + 1 = 1 /\ 0 + from = from /\ from + (to - from) = to /\ to + (n - to) = n
  BY <1>1, <1>2, <1>4
<1>9. SubSeq(s, 1, from) \in Seq(Elems) /\ SubSeq(s, to + 1, n) \in Seq(Elems)
  BY <1>5, <1>7, <1>8
<1>10. (SubSeq(s, 1, from) \o items) \o SubSeq(s, to + 1, n) \in Seq(Elems)
  <2>1. SubSeq(s, 1, from) \o items \in Seq(Elems)
    BY <1>9, ConcatProperties
  <2> QED
    BY <1>9, <2>1, ConcatProperties
<1>11. Spliced(a, start, count, items) \in Seq(Elems)
  BY <1>10 DEF Spliced, s, n, from, to
<1>12. /\ TakenOut(a, start, count) \in Seq(Elems)
       /\ Len(TakenOut(a, start, count)) = to - from
  BY <1>6, <1>8 DEF TakenOut, s, from, to
<1> QED
  BY <1>2, <1>3, <1>4, <1>11, <1>12 DEF s, n, from, to

LEMMA SpliceDoes ==
    ASSUME TypeOK, NEW a \in held, Within(a), NEW n \in Arrays,
           NEW start \in Int, NEW count \in Nat, NEW items \in Seq(Elems),
           Splice(a, n, start, count, items)
    PROVE  /\ n \notin held /\ held' = held \cup {n}
           /\ Moved({a} \cup {n}, {})
           /\ Contents(a)' = Spliced(a, start, count, items)
           /\ Contents(n)' = TakenOut(a, start, count)
           /\ Still(a) /\ Changes(a, FALSE)
<1> DEFINE new == Spliced(a, start, count, items)
           out == TakenOut(a, start, count)
           u == Unused
           v == CHOOSE b \in Blocks : b \notin Used \cup {Unused}
<1>1. u \in Blocks /\ u \notin Used
  BY UnusedFacts DEF Splice
<1>2. v \in Blocks /\ v \notin Used /\ v # u
  <2>1. \E b \in Blocks : b \notin Used \cup {Unused}
    BY DEF Splice
  <2> QED
    BY <2>1
<1>3. /\ n \notin held
      /\ mem' = [mem EXCEPT ![u] = new, ![v] = out]
      /\ base' = [base EXCEPT ![a] = u, ![n] = v]
      /\ off' = [off EXCEPT ![a] = 0, ![n] = 0]
      /\ len' = [len EXCEPT ![a] = Len(new),
                            ![n] = SpliceTo(a, start, count) - SpliceAt(a, start)]
      /\ held' = held \cup {n}
      /\ Changes(a, FALSE)
      /\ UNCHANGED kin
  BY DEF Splice, Spliced, TakenOut, SpliceTo, SpliceAt
<1>4. /\ new \in Seq(Elems) /\ out \in Seq(Elems)
      /\ Len(out) = SpliceTo(a, start, count) - SpliceAt(a, start)
  BY SpliceTypes
<1> HIDE DEF new, out, u, v
<1>5. a \in Arrays /\ a # n /\ held \subseteq Arrays /\ Len(new) \in Nat /\ Len(out) \in Nat
  BY <1>3, <1>4, LenProperties DEF TypeOK
<1>6. mem'[u] = new /\ mem'[v] = out /\ \A c \in Blocks \ {u, v} : mem'[c] = mem[c]
  BY <1>1, <1>2, <1>3 DEF TypeOK
<1>7. /\ base'[a] = u /\ off'[a] = 0 /\ len'[a] = Len(new)
      /\ base'[n] = v /\ off'[n] = 0 /\ len'[n] = Len(out)
  BY <1>3, <1>4, <1>5 DEF TypeOK
<1>8. \A c \in held \ ({a} \cup {n}) : base'[c] = base[c] /\ off'[c] = off[c] /\ len'[c] = len[c]
  BY <1>3, <1>5 DEF TypeOK
<1>9. MemTypes'
  <2>1. mem' \in [Blocks -> Seq(Elems)]
    BY <1>3, <1>4 DEF TypeOK
  <2>2. base' \in [Arrays -> Blocks] /\ off' \in [Arrays -> Nat]
    BY <1>1, <1>2, <1>3 DEF TypeOK
  <2>3. len' \in [Arrays -> Nat]
    BY <1>3, <1>4, <1>5 DEF TypeOK
  <2> QED
    BY <2>1, <2>2, <2>3 DEF MemTypes
<1>10. Within(a)' /\ Within(n)'
  BY <1>5, <1>6, <1>7 DEF Within
<1>11. \A c \in Used : mem'[c] = mem[c]
  BY <1>1, <1>2, <1>6, UsedBlocks
<1>12. Moved({a} \cup {n}, {})
  <2>1. held \subseteq held' /\ held' \subseteq held \cup ({a} \cup {n})
        /\ {a} \cup {n} \subseteq held' /\ held' \subseteq Arrays
    BY <1>3, <1>5
  <2>2. \A c \in {a} \cup {n} : /\ Within(c)'
                                /\ base'[c] \notin Used
                                /\ \A d \in ({a} \cup {n}) \ {c} : base'[d] # base'[c]
    BY <1>1, <1>2, <1>5, <1>7, <1>10
  <2> QED
    BY <1>3, <1>8, <1>9, <1>11, <2>1, <2>2 DEF Moved
<1>13. Contents(a)' = new /\ Contents(n)' = out
  <2>1. SubSeq(new, 0 + 1, 0 + Len(new)) = new /\ SubSeq(out, 0 + 1, 0 + Len(out)) = out
    <3>1. \A s \in Seq(Elems) : SubSeq(s, 0 + 1, 0 + Len(s)) = s
      <4> SUFFICES ASSUME NEW s \in Seq(Elems) PROVE SubSeq(s, 0 + 1, 0 + Len(s)) = s
        OBVIOUS
      <4>1. Len(s) \in Nat /\ 0 + Len(s) <= Len(s) /\ \A i \in 1..Len(s) : s[0 + i] = s[i]
        BY LenProperties
      <4> QED
        BY <4>1, SameSlice
    <3> QED
      BY <1>4, <3>1
  <2> QED
    BY <1>6, <1>7, <2>1 DEF Contents, SliceOf
<1>14. Still(a)
  BY <1>1, <1>7, <1>11, StillMoved
<1> QED
  BY <1>3, <1>12, <1>13, <1>14 DEF new, out

-----------------------------------------------------------------------------
(* What a program sees of a method, and of an expression that makes an      *)
(* array: arrays that are not kin keep what they hold. *)

Alters(a, s) ==
    /\ held' = held /\ UNCHANGED kin
    /\ Contents(a)' = s
    /\ \A c \in held \ {a} : <<a, c>> \notin kin => Contents(c)' = Contents(c)

Makes(n, s) ==
    /\ n \notin held /\ held' = held \cup {n} /\ UNCHANGED kin
    /\ Contents(n)' = s
    /\ \A c \in held : Contents(c)' = Contents(c)

LEMMA HeldFacts ==
    ASSUME ArraysInv, NEW a \in held
    PROVE  /\ TypeOK /\ a \in Arrays /\ Within(a)
           /\ base[a] \in Blocks /\ mem[base[a]] \in Seq(Elems)
           /\ off[a] \in Nat /\ len[a] \in Nat
           /\ off[a] + len[a] <= Len(mem[base[a]]) /\ Len(mem[base[a]]) \in Nat
           /\ Contents(a) \in Seq(Elems) /\ Len(Contents(a)) = len[a]
           /\ \A i \in 1..len[a] : /\ Contents(a)[i] = mem[base[a]][off[a] + i]
                                   /\ Contents(a)[i] \in Elems
<1>1. TypeOK /\ a \in Arrays /\ Within(a)
  BY DEF ArraysInv, TypeOK, MemInv
<1>2. /\ base[a] \in Blocks /\ mem[base[a]] \in Seq(Elems)
      /\ off[a] \in Nat /\ len[a] \in Nat
  BY <1>1 DEF TypeOK
<1>3. off[a] + len[a] <= Len(mem[base[a]]) /\ Len(mem[base[a]]) \in Nat
  BY <1>1, <1>2, LenProperties DEF Within
<1>4. /\ Contents(a) \in Seq(Elems) /\ Len(Contents(a)) = len[a]
      /\ \A i \in 1..len[a] : Contents(a)[i] = mem[base[a]][off[a] + i]
  BY <1>1, ContentsFacts
<1>5. \A i \in 1..len[a] : Contents(a)[i] \in Elems
  BY <1>4, ElementOfSeq
<1> QED
  BY <1>1, <1>2, <1>3, <1>4, <1>5

LEMMA MethodAlters ==
    ASSUME ArraysInv, NEW a \in held, NEW W, W \subseteq {base[a]}, Moved({a}, W),
           held' = held, NEW s, Contents(a)' = s,
           NEW inPlace \in BOOLEAN, Changes(a, inPlace), ~inPlace => Still(a)
    PROVE  ArraysInv' /\ Alters(a, s)
<1>1. Moved({a} \cup {}, W)
  <2>1. {a} \cup {} = {a}
    OBVIOUS
  <2> QED
    BY <2>1
<1>2. ArraysInv'
  BY <1>1, MethodKeeps
<1>3. ASSUME NEW c \in held \ {a}, <<a, c>> \notin kin PROVE Contents(c)' = Contents(c)
  <2>1. base[a] # base[c]
    BY <1>3 DEF ArraysInv, MemInv
  <2> QED
    BY <2>1, MovedKeeps DEF ArraysInv
<1> QED
  BY <1>2, <1>3 DEF Alters, Moved

LEMMA MadeMakes ==
    ASSUME ArraysInv, NEW n, n \notin held, held' = held \cup {n}, Moved({n}, {}),
           NEW s, Contents(n)' = s
    PROVE  /\ Makes(n, s)
           /\ loop' = loop \/ loop' = NoLoop => ArraysInv'
<1>1. \A c \in held \ {n} : Contents(c)' = Contents(c)
  BY MovedKeeps DEF ArraysInv
<1>2. \A c \in held : c \in held \ {n}
  OBVIOUS
<1>3. Makes(n, s)
  BY <1>1, <1>2 DEF Makes, Moved
<1>4. loop' = loop => ArraysInv'
  BY MakingKeeps
<1>5. loop' = NoLoop => ArraysInv'
  BY EndingKeeps
<1> QED
  BY <1>3, <1>4, <1>5

LEMMA ListsType ==
    ASSUME NEW items \in Lists \cup {<<>>}
    PROVE  items \in Seq(Elems)
<1>1. CASE items \in Lists
  <2>1. PICK n \in 1..MaxItems : items \in [1..n -> Elems]
    BY <1>1 DEF Lists
  <2>2. n \in Nat
    BY ArraysAssumption
  <2> QED
    BY <2>1, <2>2, ListFacts
<1>2. CASE items = <<>>
  BY <1>2
<1> QED
  BY <1>1, <1>2

(* More of the same. *)
LEMMA LongerExtends ==
    ASSUME ArraysInv, NEW a \in held, NEW t \in Seq(Elems)
    PROVE  /\ Contents(a) \o t \in Seq(Elems)
           /\ Extends(Contents(a) \o t, a)
           /\ Len(Contents(a) \o t) = len[a] + Len(t)
           /\ \A i \in 1..(len[a] + Len(t)) :
                (Contents(a) \o t)[i] = IF i <= len[a] THEN Contents(a)[i] ELSE t[i - len[a]]
<1> DEFINE s == Contents(a)
           u == s \o t
<1>1. s \in Seq(Elems) /\ Len(s) = len[a] /\ len[a] \in Nat /\ Len(t) \in Nat
  BY HeldFacts, LenProperties
<1> HIDE DEF s
<1>2. /\ u \in Seq(Elems) /\ Len(u) = len[a] + Len(t)
      /\ \A i \in 1..(len[a] + Len(t)) : u[i] = IF i <= len[a] THEN s[i] ELSE t[i - len[a]]
  <2>1. /\ u \in Seq(Elems) /\ Len(u) = Len(s) + Len(t)
        /\ \A i \in 1..(Len(s) + Len(t)) : u[i] = IF i <= Len(s) THEN s[i] ELSE t[i - Len(s)]
    BY <1>1, ConcatProperties, Zenon
  <2> HIDE DEF u
  <2> QED
    BY <1>1, <2>1
<1> HIDE DEF u
<1>3. len[a] <= Len(u) /\ \A i \in 1..len[a] : u[i] = s[i]
  <2>1. len[a] <= Len(u)
    BY <1>1, <1>2
  <2>2. \A i \in 1..len[a] : i \in 1..(len[a] + Len(t)) /\ i <= len[a]
    BY <1>1
  <2>3. \A i \in 1..len[a] : u[i] = IF i <= len[a] THEN s[i] ELSE t[i - len[a]]
    BY <1>2, <2>2
  <2> QED
    BY <2>1, <2>2, <2>3
<1>4. Extends(s \o t, a)
  BY <1>3 DEF Extends, s, u
<1>5. /\ s \o t \in Seq(Elems) /\ Len(s \o t) = len[a] + Len(t)
      /\ \A i \in 1..(len[a] + Len(t)) :
           (s \o t)[i] = IF i <= len[a] THEN s[i] ELSE t[i - len[a]]
  BY <1>2 DEF u
<1> QED
  BY <1>4, <1>5 DEF s

LEMMA PushStep ==
    ASSUME ArraysInv, NEW a \in held, NEW items \in Lists, Push(a, items)
    PROVE  ArraysInv' /\ Alters(a, Contents(a) \o items)
<1> DEFINE s == Contents(a) \o items
<1>1. s \in Seq(Elems) /\ Extends(s, a)
  BY ListsType, LongerExtends
<1>2. Store(a, s) /\ Changes(a, FALSE)
  BY DEF Push
<1> HIDE DEF s
<1>3. Moved({a}, {base[a]}) /\ held' = held /\ Contents(a)' = s /\ Still(a)
  BY <1>1, <1>2, HeldFacts, StoreDoes
<1>4. ArraysInv' /\ Alters(a, s)
  BY <1>2, <1>3, MethodAlters
<1> QED
  BY <1>4 DEF s

LEMMA UnshiftStep ==
    ASSUME ArraysInv, NEW a \in held, NEW items \in Lists, Unshift(a, items)
    PROVE  ArraysInv' /\ Alters(a, items \o Contents(a))
<1> DEFINE s == items \o Contents(a)
<1>1. s \in Seq(Elems)
  BY ListsType, HeldFacts, ConcatProperties
<1>2. Move(a, s) /\ Changes(a, FALSE)
  BY DEF Unshift
<1> HIDE DEF s
<1>3. Moved({a}, {}) /\ held' = held /\ Contents(a)' = s /\ Still(a)
  BY <1>1, <1>2, HeldFacts, MoveDoes
<1>4. ArraysInv' /\ Alters(a, s)
  BY <1>2, <1>3, MethodAlters
<1> QED
  BY <1>4 DEF s

(* A part of what a holds. *)
LEMMA PartOf ==
    ASSUME ArraysInv, NEW a \in held, NEW k \in Nat, NEW l \in Nat, k + l <= len[a]
    PROVE  /\ SubSeq(mem[base[a]], (off[a] + k) + 1, (off[a] + k) + l)
                = SubSeq(Contents(a), k + 1, k + l)
           /\ SubSeq(Contents(a), k + 1, k + l) \in Seq(Elems)
           /\ Len(SubSeq(Contents(a), k + 1, k + l)) = l
           /\ \A i \in 1..l : SubSeq(Contents(a), k + 1, k + l)[i] = Contents(a)[k + i]
<1> DEFINE s == Contents(a)
           m == mem[base[a]]
           o == off[a]
           n == len[a]
<1>1. /\ s \in Seq(Elems) /\ Len(s) = n /\ m \in Seq(Elems)
      /\ o \in Nat /\ n \in Nat /\ o + n <= Len(m) /\ Len(m) \in Nat
      /\ \A i \in 1..n : s[i] = m[o + i]
  BY HeldFacts
<1>2. k + l <= n
  OBVIOUS
<1> HIDE DEF s, m, o, n
<1> DEFINE t == SubSeq(s, k + 1, k + l)
<1>3. /\ t \in Seq(Elems) /\ Len(t) = l
      /\ \A i \in 1..l : t[i] = s[k + i]
  BY <1>1, <1>2, SliceFacts
<1> HIDE DEF t
<1>4. \A i \in 1..l : k + i \in 1..n /\ (o + k) + i = o + (k + i)
  BY <1>1, <1>2
<1>5. \A i \in 1..l : m[(o + k) + i] = t[i]
  <2> SUFFICES ASSUME NEW i \in 1..l PROVE m[(o + k) + i] = t[i]
    OBVIOUS
  <2>1. t[i] = s[k + i] /\ k + i \in 1..n /\ (o + k) + i = o + (k + i)
    BY <1>3, <1>4
  <2>2. s[k + i] = m[o + (k + i)]
    BY <1>1, <2>1
  <2> QED
    BY <2>1, <2>2
<1>6. o + k \in Nat /\ (o + k) + l <= Len(m)
  BY <1>1, <1>2
<1>7. SubSeq(m, (o + k) + 1, (o + k) + l) = t
  BY <1>1, <1>3, <1>5, <1>6, SameSlice
<1> QED
  BY <1>3, <1>7 DEF s, m, o, n, t

LEMMA NarrowStep ==
    ASSUME ArraysInv, NEW a \in held, NEW k \in Nat, NEW l \in Nat, k + l <= len[a],
           Narrow(a, off[a] + k, l),
           NEW inPlace \in BOOLEAN, Changes(a, inPlace), ~inPlace => k + l = len[a]
    PROVE  ArraysInv' /\ Alters(a, SubSeq(Contents(a), k + 1, k + l))
<1> DEFINE o == off[a] + k
<1>1. o \in Nat /\ o + l <= off[a] + len[a] /\ (k + l = len[a] => o + l = off[a] + len[a])
  BY HeldFacts
<1>2. TypeOK /\ Within(a) /\ Narrow(a, o, l)
  BY HeldFacts
<1> HIDE DEF o
<1>3. /\ Moved({a}, {}) /\ held' = held
      /\ Contents(a)' = SubSeq(mem[base[a]], o + 1, o + l)
      /\ o + l = off[a] + len[a] => Still(a)
  BY <1>1, <1>2, NarrowDoes
<1>4. Contents(a)' = SubSeq(Contents(a), k + 1, k + l)
  BY <1>3, PartOf DEF o
<1>5. ~inPlace => Still(a)
  BY <1>1, <1>3
<1> QED
  BY <1>3, <1>4, <1>5, MethodAlters

LEMMA PopStep ==
    ASSUME ArraysInv, NEW a \in held, Pop(a)
    PROVE  /\ ArraysInv' /\ Len(Contents(a)) > 0
           /\ Alters(a, SubSeq(Contents(a), 1, Len(Contents(a)) - 1))
<1> DEFINE l == len[a] - 1
<1>1. len[a] > 0 /\ Narrow(a, off[a], l) /\ Changes(a, TRUE)
  BY DEF Pop
<1>2. l \in Nat /\ 0 + l <= len[a] /\ off[a] + 0 = off[a] /\ Len(Contents(a)) = len[a]
  BY <1>1, HeldFacts
<1> HIDE DEF l
<1>3. ArraysInv' /\ Alters(a, SubSeq(Contents(a), 0 + 1, 0 + l))
  BY <1>1, <1>2, NarrowStep
<1>4. 0 + 1 = 1 /\ 0 + l = l
  BY <1>2
<1> QED
  BY <1>1, <1>2, <1>3, <1>4 DEF l

LEMMA ShiftStep ==
    ASSUME ArraysInv, NEW a \in held, Shift(a)
    PROVE  /\ ArraysInv' /\ Len(Contents(a)) > 0
           /\ Alters(a, Tail(Contents(a)))
<1> DEFINE l == len[a] - 1
           s == Contents(a)
<1>1. len[a] > 0 /\ Narrow(a, off[a] + 1, l) /\ Changes(a, FALSE)
  BY DEF Shift
<1>2. l \in Nat /\ 1 + l <= len[a] /\ 1 + l = len[a] /\ Len(s) = len[a] /\ s \in Seq(Elems)
  BY <1>1, HeldFacts
<1> DEFINE t == SubSeq(s, 1 + 1, 1 + l)
<1> HIDE DEF l
<1>3. ArraysInv' /\ Alters(a, t)
  BY <1>1, <1>2, NarrowStep
<1>4. t \in Seq(Elems) /\ Len(t) = l /\ \A i \in 1..l : t[i] = s[1 + i]
  BY <1>2, PartOf
<1> HIDE DEF t, s
<1>5. s # <<>>
  BY <1>1, <1>2, EmptySeq
<1>6. Tail(s) \in Seq(Elems) /\ Len(Tail(s)) = l /\ \A i \in 1..l : Tail(s)[i] = s[i + 1]
  BY <1>2, <1>5, HeadTailProperties DEF l
<1>7. \A i \in 1..l : 1 + i = i + 1
  BY <1>2
<1>8. t = Tail(s)
  BY <1>2, <1>4, <1>6, <1>7, SeqEqual
<1> QED
  BY <1>1, <1>2, <1>3, <1>8 DEF s

(* A list of the same length, written in place. *)
LEMMA RewriteStep ==
    ASSUME ArraysInv, NEW a \in held, NEW s \in [1..len[a] -> Elems],
           Write(a, s), Changes(a, TRUE)
    PROVE  ArraysInv' /\ Alters(a, s)
<1>1. s \in Seq(Elems) /\ Len(s) = len[a]
  <2> DEFINE n == len[a]
  <2>1. n \in Nat /\ s \in [1..n -> Elems]
    BY HeldFacts
  <2> HIDE DEF n
  <2>2. s \in Seq(Elems) /\ Len(s) = n
    BY <2>1, ListFacts
  <2> QED
    BY <2>2 DEF n
<1>2. TypeOK /\ Within(a) /\ Fits(a, Len(s))
  BY <1>1, HeldFacts DEF Fits
<1>3. Moved({a}, {base[a]}) /\ held' = held /\ Contents(a)' = s
  BY <1>1, <1>2, WriteDoes
<1> QED
  BY <1>3, MethodAlters

LEMMA ReverseStep ==
    ASSUME ArraysInv, NEW a \in held, Reverse(a)
    PROVE  /\ ArraysInv'
           /\ Alters(a, [i \in 1..len[a] |-> Contents(a)[len[a] + 1 - i]])
<1> DEFINE s == [i \in 1..len[a] |-> Contents(a)[len[a] + 1 - i]]
<1>1. \A i \in 1..len[a] : len[a] + 1 - i \in 1..len[a]
  BY HeldFacts
<1>2. s \in [1..len[a] -> Elems]
  BY <1>1, HeldFacts
<1>3. Write(a, s) /\ Changes(a, TRUE)
  BY DEF Reverse
<1> HIDE DEF s
<1>4. ArraysInv' /\ Alters(a, s)
  BY <1>2, <1>3, RewriteStep
<1> QED
  BY <1>4 DEF s

LEMMA FillStep ==
    ASSUME ArraysInv, NEW a \in held, NEW e \in Elems, NEW start \in Nat, NEW end \in Nat,
           Fill(a, e, start, end)
    PROVE  /\ ArraysInv'
           /\ Alters(a, [i \in 1..len[a] |->
                           IF start < i /\ i <= end THEN e ELSE Contents(a)[i]])
<1> DEFINE s == [i \in 1..len[a] |-> IF start < i /\ i <= end THEN e ELSE Contents(a)[i]]
<1>1. s \in [1..len[a] -> Elems]
  BY HeldFacts
<1>2. Write(a, s) /\ Changes(a, TRUE)
  BY DEF Fill
<1> HIDE DEF s
<1>3. ArraysInv' /\ Alters(a, s)
  BY <1>1, <1>2, RewriteStep
<1> QED
  BY <1>3 DEF s

(* The orders that sort may bring the elements into: there is one. *)
Sorting(s, n, p) ==
    /\ p \in [1..n -> 1..n]
    /\ \A i, j \in 1..n : i < j =>
         \/ Rank[s[p[i]]] < Rank[s[p[j]]]
         \/ Rank[s[p[i]]] = Rank[s[p[j]]] /\ p[i] < p[j]

LEMMA SortStep ==
    ASSUME ArraysInv, NEW a \in held, Sort(a)
    PROVE  /\ ArraysInv'
           /\ \E p : /\ Sorting(Contents(a), len[a], p)
                     /\ Alters(a, [i \in 1..len[a] |-> Contents(a)[p[i]]])
<1>1. PICK p \in [1..len[a] -> 1..len[a]] :
        /\ Sorting(Contents(a), len[a], p)
        /\ Write(a, [i \in 1..len[a] |-> Contents(a)[p[i]]])
        /\ Changes(a, TRUE)
  BY DEF Sort, Sorting
<1> DEFINE s == [i \in 1..len[a] |-> Contents(a)[p[i]]]
<1>2. s \in [1..len[a] -> Elems]
  BY HeldFacts
<1> HIDE DEF s
<1>3. ArraysInv' /\ Alters(a, s)
  BY <1>1, <1>2, RewriteStep DEF s
<1> QED
  BY <1>1, <1>3 DEF s

(* At least as long, and the gap filled. *)
Padded(s, n) == [i \in 1..n |-> IF i <= Len(s) THEN s[i] ELSE Undefined]

LEMMA GapFacts ==
    ASSUME ArraysInv, NEW a \in held, NEW n \in Nat, len[a] <= n
    PROVE  /\ Gap(a, n) \in Seq(Elems) /\ Len(Gap(a, n)) = n - len[a]
           /\ \A i \in 1..(n - len[a]) : Gap(a, n)[i] = Undefined
           /\ Contents(a) \o Gap(a, n) = Padded(Contents(a), n)
           /\ Padded(Contents(a), n) \in Seq(Elems) /\ Len(Padded(Contents(a), n)) = n
           /\ Extends(Padded(Contents(a), n), a)
<1> DEFINE g == Gap(a, n)
           k == n - len[a]
           t == Padded(Contents(a), n)
           u == Contents(a) \o g
<1>1. k \in Nat /\ len[a] \in Nat /\ len[a] + k = n /\ Len(Contents(a)) = len[a]
  BY HeldFacts
<1>2. g \in [1..k -> Elems] /\ \A i \in 1..k : g[i] = Undefined
  BY ArraysAssumption DEF Gap
<1> HIDE DEF k
<1>3. g \in Seq(Elems) /\ Len(g) = k
  BY <1>1, <1>2, ListFacts
<1> HIDE DEF g
<1>4. /\ u \in Seq(Elems) /\ Extends(u, a) /\ Len(u) = n
      /\ \A i \in 1..n : u[i] = IF i <= len[a] THEN Contents(a)[i] ELSE g[i - len[a]]
  BY <1>1, <1>3, LongerExtends
<1>5. /\ t \in Seq(Elems) /\ Len(t) = n
      /\ \A i \in 1..n : t[i] = IF i <= len[a] THEN Contents(a)[i] ELSE Undefined
  <2>1. t = [i \in 1..n |-> IF i <= len[a] THEN Contents(a)[i] ELSE Undefined]
    BY <1>1 DEF Padded
  <2>2. \A i \in 1..n : i <= len[a] => i \in 1..len[a]
    BY <1>1
  <2>3. t \in [1..n -> Elems]
    BY <2>1, <2>2, HeldFacts, ArraysAssumption
  <2> QED
    BY <2>1, <2>3, ListFacts
<1> HIDE DEF t, u
<1>6. \A i \in 1..n : ~(i <= len[a]) => i - len[a] \in 1..k
  BY <1>1
<1>7. \A i \in 1..n : u[i] = t[i]
  BY <1>2, <1>4, <1>5, <1>6
<1>8. u = t
  BY <1>4, <1>5, <1>7, SeqEqual
<1> QED
  BY <1>2, <1>3, <1>4, <1>5, <1>8 DEF g, k, t, u

LEMMA SetLengthStep ==
    ASSUME ArraysInv, NEW a \in held, NEW n \in Nat, SetLength(a, n)
    PROVE  ArraysInv' /\ Alters(a, Padded(Contents(a), n))
<1>1. CASE n < len[a]
  <2>1. Narrow(a, off[a], n) /\ Changes(a, TRUE)
    BY <1>1 DEF SetLength
  <2>2. 0 + n <= len[a] /\ off[a] + 0 = off[a] /\ 0 + n = n /\ 0 + 1 = 1
    BY <1>1, HeldFacts
  <2> DEFINE t == SubSeq(Contents(a), 0 + 1, 0 + n)
  <2>3. ArraysInv' /\ Alters(a, t)
    BY <2>1, <2>2, NarrowStep
  <2>4. t \in Seq(Elems) /\ Len(t) = n /\ \A i \in 1..n : t[i] = Contents(a)[0 + i]
    BY <2>2, PartOf
  <2> DEFINE u == Padded(Contents(a), n)
  <2>5. u \in Seq(Elems) /\ Len(u) = n /\ \A i \in 1..n : u[i] = Contents(a)[i]
    <3>1. \A i \in 1..n : i <= Len(Contents(a)) /\ i \in 1..len[a]
      BY <1>1, HeldFacts
    <3>2. u = [i \in 1..n |-> Contents(a)[i]]
      BY <3>1 DEF Padded
    <3>3. u \in [1..n -> Elems]
      BY <3>1, <3>2, HeldFacts
    <3> QED
      BY <3>2, <3>3, ListFacts
  <2> HIDE DEF t, u
  <2>6. \A i \in 1..n : 0 + i = i
    OBVIOUS
  <2>7. t = u
    BY <2>4, <2>5, <2>6, SeqEqual
  <2> QED
    BY <2>3, <2>7 DEF u
<1>2. CASE ~(n < len[a])
  <2> DEFINE s == Padded(Contents(a), n)
  <2>1. len[a] <= n
    BY <1>2, HeldFacts
  <2>2. Grow(a, Contents(a) \o Gap(a, n)) /\ Changes(a, FALSE)
    BY <1>2 DEF SetLength
  <2>3. Contents(a) \o Gap(a, n) = s /\ s \in Seq(Elems) /\ Extends(s, a)
    BY <2>1, GapFacts
  <2> HIDE DEF s
  <2>4. Grow(a, s)
    BY <2>2, <2>3
  <2>5. Moved({a}, {base[a]}) /\ held' = held /\ Contents(a)' = s /\ Still(a)
    BY <2>3, <2>4, HeldFacts, GrowDoes
  <2>6. ArraysInv' /\ Alters(a, s)
    BY <2>2, <2>5, MethodAlters
  <2> QED
    BY <2>6 DEF s
<1> QED
  BY <1>1, <1>2

(* arr[i] = e: as long as it was, or up to i. *)
Assigned(s, i, e) ==
    [Padded(s, IF i + 1 <= Len(s) THEN Len(s) ELSE i + 1) EXCEPT ![i + 1] = e]

LEMMA AssignStep ==
    ASSUME ArraysInv, NEW a \in held, NEW i \in Nat, NEW e \in Elems, Assign(a, i, e)
    PROVE  ArraysInv' /\ Alters(a, Assigned(Contents(a), i, e))
<1> DEFINE s == Contents(a)
           n == len[a]
<1>1. s \in Seq(Elems) /\ Len(s) = n /\ n \in Nat /\ \A k \in 1..n : s[k] \in Elems
  BY HeldFacts
<1>2. CASE i < n
  <2> DEFINE t == [s EXCEPT ![i + 1] = e]
  <2>1. Write(a, t) /\ Changes(a, TRUE)
    BY <1>2 DEF Assign
  <2>2. i + 1 <= n /\ i + 1 \in 1..n
    BY <1>1, <1>2
  <2>3. Padded(s, n) = s
    <3>1. Padded(s, n) = [k \in 1..n |-> s[k]]
      <4> HIDE DEF s, n
      <4>1. \A k \in 1..n : k <= Len(s)
        BY <1>1
      <4> QED
        BY <4>1 DEF Padded
    <3>2. DOMAIN s = 1..n
      <4> HIDE DEF s, n
      <4> QED
        BY <1>1, LenProperties
    <3>3. s \in [1..n -> Elems]
      <4> HIDE DEF s, n
      <4> QED
        BY <1>1, LenProperties
    <3> HIDE DEF s, n
    <3> QED
      BY <3>1, <3>3
  <2>4. t = Assigned(s, i, e)
    BY <1>1, <2>2, <2>3 DEF Assigned
  <2>5. t \in [1..n -> Elems]
    <3>1. s \in [1..n -> Elems]
      <4> HIDE DEF s, n
      <4> QED
        BY <1>1, LenProperties
    <3> QED
      BY <3>1
  <2> HIDE DEF t
  <2>6. ArraysInv' /\ Alters(a, t)
    BY <2>1, <2>5, RewriteStep
  <2> QED
    BY <2>4, <2>6
<1>3. CASE ~(i < n)
  <2> DEFINE g == Padded(s, i)
             t == g \o <<e>>
             u == Assigned(s, i, e)
  <2>1. Grow(a, s \o Gap(a, i) \o <<e>>) /\ Changes(a, FALSE)
    BY <1>3 DEF Assign
  <2>2. n <= i
    BY <1>1, <1>3
  <2>3. s \o Gap(a, i) = g /\ g \in Seq(Elems) /\ Len(g) = i /\ Extends(g, a)
    BY <2>2, GapFacts
  <2>4. t = Append(g, e)
    <3> HIDE DEF g
    <3> QED
      BY <2>3, AppendIsConcat
  <2>5. /\ t \in Seq(Elems) /\ Len(t) = i + 1 /\ t[i + 1] = e
        /\ \A k \in 1..i : t[k] = g[k]
    <3> HIDE DEF g, t
    <3> QED
      BY <2>3, <2>4, AppendProperties
  <2>6. Extends(t, a)
    <3>1. n <= Len(t) /\ \A k \in 1..n : k \in 1..i
      BY <1>1, <2>2, <2>5
    <3> HIDE DEF g, t
    <3> QED
      BY <2>3, <2>5, <3>1 DEF Extends
  <2>7. t = u
    <3>1. u = [Padded(s, i + 1) EXCEPT ![i + 1] = e]
      BY <1>1, <2>2 DEF Assigned
    <3>2. Padded(s, i + 1) \in Seq(Elems) /\ Len(Padded(s, i + 1)) = i + 1
      BY <1>1, <2>2, GapFacts
    <3>3. \A k \in 1..i : Padded(s, i + 1)[k] = g[k]
      BY DEF Padded
    <3>4. /\ u \in Seq(Elems) /\ Len(u) = i + 1
          /\ \A k \in 1..(i + 1) : u[k] = IF k = i + 1 THEN e ELSE Padded(s, i + 1)[k]
      <4>1. i + 1 \in 1..Len(Padded(s, i + 1))
        BY <3>2
      <4> QED
        BY <3>1, <3>2, <4>1, ExceptSeq
    <3>5. \A k \in 1..(i + 1) : k = i + 1 \/ k \in 1..i
      OBVIOUS
    <3> HIDE DEF g, t, u
    <3>6. \A k \in 1..(i + 1) : t[k] = u[k]
      BY <2>5, <3>3, <3>4, <3>5
    <3> QED
      BY <2>5, <3>4, <3>6, SeqEqual
  <2>8. Grow(a, t)
    BY <2>1, <2>3
  <2> HIDE DEF t, u
  <2>9. Moved({a}, {base[a]}) /\ held' = held /\ Contents(a)' = t /\ Still(a)
    BY <2>5, <2>6, <2>8, HeldFacts, GrowDoes
  <2>10. ArraysInv' /\ Alters(a, t)
    BY <2>1, <2>9, MethodAlters
  <2> QED
    BY <2>7, <2>10 DEF u
<1> QED
  BY <1>2, <1>3

-----------------------------------------------------------------------------
(* New arrays. *)

LEMMA MakeStep ==
    ASSUME ArraysInv, NEW n \in Arrays \ held, NEW s \in Seq(Elems), Make(n, s),
           loop' = loop \/ loop' = NoLoop
    PROVE  ArraysInv' /\ Makes(n, s)
<1>1. TypeOK
  BY DEF ArraysInv
<1>2. n \notin held /\ held' = held \cup {n} /\ Moved({n}, {}) /\ Contents(n)' = s
  BY <1>1, MakeDoes
<1> QED
  BY <1>2, MadeMakes

LEMMA BoundsFacts ==
    ASSUME NEW n \in Nat, NEW start \in Int, NEW end \in Int
    PROVE  /\ From(start, n) \in Nat /\ From(start, n) <= n
           /\ To(end, From(start, n), n) \in Nat
           /\ From(start, n) <= To(end, From(start, n), n)
           /\ To(end, From(start, n), n) <= n
<1>1. From(start, n) \in Nat /\ From(start, n) <= n
  BY DEF From
<1> DEFINE f == From(start, n)
<1> HIDE DEF f
<1>2. f \in Nat /\ f <= n
  BY <1>1 DEF f
<1>3. To(end, f, n) \in Nat /\ f <= To(end, f, n) /\ To(end, f, n) <= n
  BY <1>2 DEF To
<1> QED
  BY <1>2, <1>3 DEF f

LEMMA SliceStep ==
    ASSUME ArraysInv, NEW n \in Arrays \ held, NEW a \in held,
           NEW start \in Int, NEW end \in Int, Slice(a, n, start, end)
    PROVE  /\ ArraysInv'
           /\ \E from, to \in Nat : /\ from <= to /\ to <= len[a]
                                    /\ Makes(n, SubSeq(Contents(a), from + 1, to))
<1> DEFINE from == From(start, len[a])
           to == To(end, from, len[a])
<1>1. len[a] \in Nat
  BY HeldFacts
<1>2. from \in Nat /\ to \in Nat /\ from <= to /\ to <= len[a]
  <2> DEFINE l == len[a]
  <2>1. l \in Nat
    BY <1>1
  <2> HIDE DEF l
  <2>2. /\ From(start, l) \in Nat
        /\ To(end, From(start, l), l) \in Nat
        /\ From(start, l) <= To(end, From(start, l), l)
        /\ To(end, From(start, l), l) <= l
    BY <2>1, BoundsFacts
  <2> QED
    BY <2>2 DEF l
<1>3. Make(n, SubSeq(Contents(a), from + 1, to)) /\ UNCHANGED loop
  BY DEF Slice
<1> HIDE DEF from, to
<1>4. SubSeq(Contents(a), from + 1, to) \in Seq(Elems)
  <2>1. to - from \in Nat /\ from + (to - from) = to /\ from + (to - from) <= len[a]
    BY <1>1, <1>2
  <2>2. SubSeq(Contents(a), from + 1, from + (to - from)) \in Seq(Elems)
    BY <1>2, <2>1, PartOf
  <2> QED
    BY <2>1, <2>2
<1>5. ArraysInv' /\ Makes(n, SubSeq(Contents(a), from + 1, to))
  BY <1>3, <1>4, MakeStep
<1> QED
  BY <1>2, <1>5

LEMMA ConcatStep ==
    ASSUME ArraysInv, NEW n \in Arrays \ held, NEW a \in held, NEW b \in held, Concat(a, b, n)
    PROVE  ArraysInv' /\ Makes(n, Contents(a) \o Contents(b))
<1>1. Contents(a) \in Seq(Elems) /\ Contents(b) \in Seq(Elems)
  BY HeldFacts
<1>2. Contents(a) \o Contents(b) \in Seq(Elems)
  BY <1>1, ConcatProperties
<1> QED
  BY <1>2, MakeStep DEF Concat

LEMMA SpliceStep ==
    ASSUME ArraysInv, NEW n \in Arrays \ held, NEW a \in held,
           NEW start \in Int, NEW count \in Nat, NEW items \in Seq(Elems),
           Splice(a, n, start, count, items)
    PROVE  /\ ArraysInv'
           /\ held' = held \cup {n} /\ UNCHANGED kin
           /\ Contents(a)' = Spliced(a, start, count, items)
           /\ Contents(n)' = TakenOut(a, start, count)
           /\ \A c \in held \ {a} : Contents(c)' = Contents(c)
<1>1. TypeOK /\ Within(a)
  BY HeldFacts
<1>2. /\ n \notin held /\ held' = held \cup {n}
      /\ Moved({a} \cup {n}, {})
      /\ Contents(a)' = Spliced(a, start, count, items)
      /\ Contents(n)' = TakenOut(a, start, count)
      /\ Still(a) /\ Changes(a, FALSE)
  BY <1>1, SpliceDoes
<1>3. {n} \cap held = {} /\ {} \subseteq {base[a]}
  OBVIOUS
<1>4. ArraysInv'
  BY <1>2, <1>3, MethodKeeps
<1>5. \A c \in held \ ({a} \cup {n}) : Contents(c)' = Contents(c)
  BY <1>2, MovedKeeps DEF ArraysInv
<1>6. \A c \in held \ {a} : c \in held \ ({a} \cup {n})
  OBVIOUS
<1> QED
  BY <1>2, <1>4, <1>5, <1>6 DEF Moved

(* The array that shares its block is kin to all that may have it. *)
LEMMA ShareStep ==
    ASSUME ArraysInv, NEW n \in Arrays \ held, NEW a \in held, NEW i \in Nat, i <= len[a],
           Share(a, i, n)
    PROVE  /\ ArraysInv'
           /\ held' = held \cup {n}
           /\ Contents(n)' = SubSeq(Contents(a), i + 1, len[a])
           /\ \A c \in held : Contents(c)' = Contents(c)
           /\ kin' = kin \cup ({n} \X Family(a)) \cup (Family(a) \X {n})
<1> DEFINE F == Family(a)
           l == len[a] - i
<1>1. /\ held' = held \cup {n}
      /\ base' = [base EXCEPT ![n] = base[a]]
      /\ off' = [off EXCEPT ![n] = off[a] + i]
      /\ len' = [len EXCEPT ![n] = l]
      /\ kin' = kin \cup ({n} \X F) \cup (F \X {n})
      /\ UNCHANGED <<mem, loop>>
  BY DEF Share
<1>2. /\ TypeOK /\ MemInv /\ LoopInv
      /\ off[a] \in Nat /\ len[a] \in Nat /\ base[a] \in Blocks
      /\ off[a] + len[a] <= Len(mem[base[a]]) /\ Len(mem[base[a]]) \in Nat
  BY HeldFacts DEF ArraysInv
<1>3. F \subseteq held /\ a \in F /\ \A c \in held : <<a, c>> \in kin => c \in F
  BY DEF Family
<1>4. l \in Nat /\ (off[a] + i) + l = off[a] + len[a] /\ i + l = len[a] /\ i + l <= len[a]
  BY <1>2
<1> HIDE DEF F, l
<1>5. /\ base'[n] = base[a] /\ off'[n] = off[a] + i /\ len'[n] = l
      /\ \A c \in held : c # n /\ base'[c] = base[c] /\ off'[c] = off[c] /\ len'[c] = len[c]
  BY <1>1, <1>2 DEF TypeOK
<1>6. TypeOK'
  <2>1. kin' \subseteq held' \X held'
    BY <1>1, <1>2, <1>3 DEF TypeOK
  <2>2. base' \in [Arrays -> Blocks]
    BY <1>1, <1>2 DEF TypeOK
  <2>3. off' \in [Arrays -> Nat] /\ len' \in [Arrays -> Nat]
    BY <1>1, <1>2, <1>4 DEF TypeOK
  <2> QED
    BY <1>1, <1>2, <2>1, <2>2, <2>3 DEF TypeOK
<1>7. MemInv'
  <2>1. \A c \in held' : Within(c)'
    <3>1. Within(n)'
      BY <1>1, <1>2, <1>4, <1>5 DEF Within
    <3>2. \A c \in held : Within(c)'
      BY <1>1, <1>2, <1>5 DEF Within, MemInv
    <3> QED
      BY <1>1, <3>1, <3>2
  <2>2. ASSUME NEW c \in held, base[c] = base[a] PROVE c \in F
    BY <1>2, <1>3, <2>2 DEF MemInv
  <2>3. ASSUME NEW c \in held', NEW d \in held', base'[c] = base'[d]
        PROVE  c = d \/ <<c, d>> \in kin'
    <3>1. CASE c \in held /\ d \in held
      BY <1>1, <1>2, <1>5, <2>3, <3>1 DEF MemInv
    <3>2. CASE c = n /\ d \in held
      <4>1. d \in F
        BY <1>5, <2>2, <2>3, <3>2
      <4> QED
        BY <1>1, <3>2, <4>1
    <3>3. CASE c \in held /\ d = n
      <4>1. c \in F
        BY <1>5, <2>2, <2>3, <3>3
      <4> QED
        BY <1>1, <3>3, <4>1
    <3> QED
      BY <1>1, <3>1, <3>2, <3>3
  <2>4. \A c, d \in held' : <<c, d>> \in kin' => <<d, c>> \in kin'
    BY <1>1, <1>2 DEF MemInv, TypeOK
  <2> QED
    BY <2>1, <2>3, <2>4 DEF MemInv
<1>8. \A c \in held : Contents(c)' = Contents(c)
  BY <1>1, <1>5 DEF Contents, SliceOf
<1>9. LoopInv'
  <2> SUFFICES ASSUME loop.on # NoArray
               PROVE  /\ loop.on \in held'
                      /\ loop.off + loop.len <= Len(mem'[loop.base])
                      /\ \A c \in held' : base'[c] = loop.base
                                            => c = loop.on \/ <<c, loop.on>> \in kin'
                      /\ loop.calm => ReadsTheSame'
    BY <1>1 DEF LoopInv
  <2>1. loop.on \in held /\ loop.off + loop.len <= Len(mem[loop.base])
    BY <1>2 DEF LoopInv
  <2>2. ASSUME NEW c \in held', base'[c] = loop.base
        PROVE  c = loop.on \/ <<c, loop.on>> \in kin'
    <3>1. CASE c \in held
      BY <1>1, <1>2, <1>5, <2>2, <3>1 DEF LoopInv
    <3>2. CASE c = n
      <4>1. a = loop.on \/ <<a, loop.on>> \in kin
        BY <1>2, <1>5, <2>2, <3>2 DEF LoopInv
      <4>2. loop.on \in F
        BY <1>3, <2>1, <4>1
      <4> QED
        BY <1>1, <3>2, <4>2
    <3> QED
      BY <1>1, <3>1, <3>2
  <2>3. ASSUME loop.calm PROVE ReadsTheSame'
    <3>1. ReadsTheSame
      BY <1>2, <2>3 DEF LoopInv
    <3>2. PICK o \in held : o = loop.on
      BY <2>1
    <3>3. loop'.on = o /\ Contents(o)' = Contents(o)
      BY <1>1, <1>8, <3>2
    <3>4. Contents(loop.on)' = Contents(loop.on)
      BY <3>2, <3>3
    <3>5. SliceOf(loop.base, loop.off, loop.len)' = SliceOf(loop.base, loop.off, loop.len)
      BY <1>1 DEF SliceOf
    <3>6. base'[loop.on] = base[loop.on] /\ off'[loop.on] = off[loop.on]
          /\ len'[loop.on] = len[loop.on]
      BY <1>5, <2>1
    <3> QED
      BY <1>1, <3>1, <3>4, <3>5, <3>6 DEF ReadsTheSame
  <2> QED
    BY <1>1, <2>1, <2>2, <2>3
<1>10. Contents(n)' = SubSeq(Contents(a), i + 1, len[a])
  <2>1. SubSeq(mem[base[a]], (off[a] + i) + 1, (off[a] + i) + l)
          = SubSeq(Contents(a), i + 1, i + l)
    BY <1>4, PartOf
  <2> QED
    BY <1>1, <1>4, <1>5, <2>1 DEF Contents, SliceOf
<1> QED
  BY <1>1, <1>6, <1>7, <1>8, <1>9, <1>10 DEF ArraysInv, F

LEMMA ForgetStep ==
    ASSUME ArraysInv, NEW a \in held, Forget(a)
    PROVE  /\ ArraysInv'
           /\ held' = held \ {a}
           /\ kin' = {p \in kin : p[1] # a /\ p[2] # a}
           /\ \A c \in held : Contents(c)' = Contents(c)
<1>1. /\ loop.on # a
      /\ held' = held \ {a}
      /\ kin' = {p \in kin : p[1] # a /\ p[2] # a}
      /\ UNCHANGED <<mem, slices, loop>>
  BY DEF Forget
<1>2. UNCHANGED <<mem, base, off, len, loop>>
  BY <1>1 DEF slices
<1>3. TypeOK /\ MemInv /\ LoopInv
  BY DEF ArraysInv
<1>4. TypeOK'
  BY <1>1, <1>2, <1>3 DEF TypeOK
<1>5. MemInv'
  <2>1. \A c, d \in held' : <<c, d>> \in kin' <=> <<c, d>> \in kin
    BY <1>1
  <2>2. \A c \in held' : c \in held
    BY <1>1
  <2>3. \A c \in held' : Within(c)'
    BY <1>2, <1>3, <2>2 DEF MemInv, Within
  <2>4. \A c, d \in held' : base'[c] = base'[d] => c = d \/ <<c, d>> \in kin'
    BY <1>2, <1>3, <2>1, <2>2 DEF MemInv
  <2>5. \A c, d \in held' : <<c, d>> \in kin' => <<d, c>> \in kin'
    BY <1>3, <2>1, <2>2 DEF MemInv
  <2> QED
    BY <2>3, <2>4, <2>5 DEF MemInv
<1>6. \A c \in held : Contents(c)' = Contents(c)
  BY <1>2 DEF Contents, SliceOf
<1>7. LoopInv'
  <2>1. ReadsTheSame => ReadsTheSame'
    BY <1>2 DEF ReadsTheSame, Contents, SliceOf
  <2>2. loop.on # NoArray => \A c \in held' : base'[c] = loop.base
                                => c = loop.on \/ <<c, loop.on>> \in kin'
    BY <1>1, <1>2, <1>3 DEF LoopInv
  <2> QED
    BY <1>1, <1>2, <1>3, <2>1, <2>2 DEF LoopInv
<1> QED
  BY <1>1, <1>4, <1>5, <1>6, <1>7 DEF ArraysInv

-----------------------------------------------------------------------------
(* The loop. *)

LEMMA SameArrays ==
    ASSUME ArraysInv, UNCHANGED <<held, mem, slices, kin>>, loop' \in Loop, LoopInv'
    PROVE  /\ ArraysInv' /\ held' = held /\ UNCHANGED kin
           /\ \A c \in held : Contents(c)' = Contents(c)
<1>1. UNCHANGED <<held, mem, base, off, len, kin>>
  BY DEF slices
<1>2. TypeOK'
  BY <1>1 DEF ArraysInv, TypeOK, Loop
<1>3. MemInv'
  BY <1>1 DEF ArraysInv, MemInv, Within
<1> QED
  BY <1>1, <1>2, <1>3 DEF ArraysInv, Contents, SliceOf

LEMMA BeginStep ==
    ASSUME ArraysInv, NEW a \in held, NEW live \in BOOLEAN, Begin(a, live)
    PROVE  /\ ArraysInv' /\ held' = held /\ UNCHANGED kin
           /\ \A c \in held : Contents(c)' = Contents(c)
<1>1. /\ loop' = [on |-> a, live |-> live, base |-> base[a], off |-> off[a], len |-> len[a],
                  next |-> 0, seen |-> <<>>, start |-> Contents(a), calm |-> TRUE]
      /\ UNCHANGED <<held, mem, slices, kin>>
  BY DEF Begin
<1>2. UNCHANGED <<held, mem, base, off, len, kin>>
  BY <1>1 DEF slices
<1>3. /\ a \in Arrays /\ base[a] \in Blocks /\ off[a] \in Nat /\ len[a] \in Nat
      /\ Contents(a) \in Seq(Elems) /\ Len(Contents(a)) = len[a]
      /\ off[a] + len[a] <= Len(mem[base[a]])
  BY HeldFacts
<1>4. loop' \in Loop
  BY <1>1, <1>3 DEF Loop
<1>5. /\ loop'.on = a /\ loop'.live = live /\ loop'.base = base[a] /\ loop'.off = off[a]
      /\ loop'.len = len[a] /\ loop'.next = 0 /\ loop'.seen = <<>>
      /\ loop'.start = Contents(a)
  BY <1>1
<1>6. ReadsTheSame'
  <2>1. SubSeq(loop'.start, 1, loop'.next) = <<>>
    BY <1>5, SubSeqEmpty
  <2>2. Contents(a)' = Contents(a) /\ SliceOf(base[a], off[a], len[a])' = Contents(a)
    BY <1>2 DEF Contents, SliceOf
  <2>3. Contents(loop.on)' = loop'.start
    BY <1>2, <1>5 DEF Contents, SliceOf
  <2>4. SliceOf(loop.base, loop.off, loop.len)' = loop'.start
    BY <1>2, <1>5 DEF Contents, SliceOf
  <2>5. loop'.off + loop'.len <= off'[loop'.on] + len'[loop'.on]
    BY <1>2, <1>3, <1>5
  <2>6. loop'.next <= Len(loop'.start)
    BY <1>3, <1>5
  <2> QED
    BY <1>5, <2>1, <2>3, <2>4, <2>5, <2>6 DEF ReadsTheSame
<1>7. LoopInv'
  <2>1. \A c \in held : base[c] = base[a] => c = a \/ <<c, a>> \in kin
    BY DEF ArraysInv, MemInv
  <2> QED
    BY <1>2, <1>3, <1>5, <1>6, <2>1 DEF LoopInv
<1> QED
  BY <1>1, <1>4, <1>7, SameArrays

LEMMA EndStep ==
    ASSUME ArraysInv, End
    PROVE  /\ ArraysInv' /\ held' = held /\ UNCHANGED kin
           /\ \A c \in held : Contents(c)' = Contents(c)
<1>1. loop' = NoLoop /\ UNCHANGED <<held, mem, slices, kin>>
  BY DEF End
<1>2. loop' \in Loop /\ LoopInv'
  BY <1>1, NoLoopType DEF LoopInv
<1> QED
  BY <1>1, <1>2, SameArrays

LEMMA OneMore ==
    ASSUME NEW s \in Seq(Elems), NEW n \in Nat, n + 1 <= Len(s)
    PROVE  SubSeq(s, 1, n + 1) = Append(SubSeq(s, 1, n), s[n + 1])
<1> DEFINE t == SubSeq(s, 0 + 1, 0 + n)
           u == SubSeq(s, 0 + 1, 0 + (n + 1))
           v == Append(t, s[n + 1])
<1>1. Len(s) \in Nat /\ 0 + n <= Len(s) /\ 0 + (n + 1) <= Len(s) /\ n + 1 \in 1..Len(s)
  BY LenProperties
<1>2. t \in Seq(Elems) /\ Len(t) = n /\ \A i \in 1..n : t[i] = s[0 + i]
  BY <1>1, SliceFacts
<1>3. u \in Seq(Elems) /\ Len(u) = n + 1 /\ \A i \in 1..(n + 1) : u[i] = s[0 + i]
  <2> DEFINE k == n + 1
  <2>1. k \in Nat /\ 0 + k <= Len(s)
    BY <1>1
  <2> HIDE DEF k
  <2>2. /\ SubSeq(s, 0 + 1, 0 + k) \in Seq(Elems)
        /\ Len(SubSeq(s, 0 + 1, 0 + k)) = k
        /\ \A i \in 1..k : SubSeq(s, 0 + 1, 0 + k)[i] = s[0 + i]
    BY <2>1, SliceFacts
  <2> QED
    BY <2>2 DEF k
<1>4. s[n + 1] \in Elems
  BY <1>1, ElementOfSeq
<1> HIDE DEF t, u
<1>5. /\ v \in Seq(Elems) /\ Len(v) = n + 1 /\ v[n + 1] = s[n + 1]
      /\ \A i \in 1..n : v[i] = t[i]
  BY <1>2, <1>4, AppendProperties
<1> HIDE DEF v
<1>6. \A i \in 1..(n + 1) : u[i] = v[i]
  <2>1. \A i \in 1..(n + 1) : (i = n + 1 \/ i \in 1..n) /\ 0 + i = i
    OBVIOUS
  <2> QED
    BY <1>2, <1>3, <1>5, <2>1
<1>7. u = v
  BY <1>3, <1>5, <1>6, SeqEqual
<1>8. 0 + 1 = 1 /\ 0 + n = n /\ 0 + (n + 1) = n + 1
  OBVIOUS
<1> QED
  BY <1>7, <1>8 DEF t, u, v

LEMMA VisitStep ==
    ASSUME ArraysInv, Visit
    PROVE  /\ ArraysInv' /\ held' = held /\ UNCHANGED kin
           /\ \A c \in held : Contents(c)' = Contents(c)
<1> DEFINE e == Current
           n == loop.next
<1>1. /\ loop.on # NoArray /\ More
      /\ loop' = [loop EXCEPT !.next = n + 1, !.seen = Append(loop.seen, e)]
      /\ UNCHANGED <<held, mem, slices, kin>>
  BY DEF Visit
<1>2. UNCHANGED <<held, mem, base, off, len, kin>>
  BY <1>1 DEF slices
<1>3. /\ TypeOK /\ LoopInv /\ loop \in Loop /\ loop.on \in held
      /\ loop.off + loop.len <= Len(mem[loop.base])
      /\ loop.calm => ReadsTheSame
  BY <1>1 DEF ArraysInv, LoopInv, TypeOK
<1>4. /\ loop.base \in Blocks /\ loop.off \in Nat /\ loop.len \in Nat /\ n \in Nat
      /\ loop.seen \in Seq(Elems) /\ loop.start \in Seq(Elems) /\ loop.live \in BOOLEAN
      /\ mem[loop.base] \in Seq(Elems)
  BY <1>3, LoopFacts DEF TypeOK
<1>5. e \in Elems /\ (loop.calm => n + 1 <= Len(loop.start) /\ e = loop.start[n + 1])
  <2>1. CASE loop.live
    <3>1. e = Contents(loop.on)[n + 1] /\ n < len[loop.on]
      BY <1>1, <2>1 DEF Current, More
    <3>2. /\ Len(Contents(loop.on)) = len[loop.on] /\ len[loop.on] \in Nat
          /\ \A i \in 1..len[loop.on] : Contents(loop.on)[i] \in Elems
      BY <1>3, HeldFacts
    <3>3. n + 1 \in 1..len[loop.on]
      BY <1>4, <3>1, <3>2
    <3>4. loop.calm => loop.start = Contents(loop.on)
      BY <1>3, <2>1 DEF ReadsTheSame
    <3>5. e \in Elems
      BY <3>1, <3>2, <3>3
    <3>6. n + 1 <= len[loop.on]
      BY <3>3
    <3> HIDE DEF e
    <3> QED
      BY <3>1, <3>2, <3>4, <3>5, <3>6
  <2>2. CASE ~loop.live
    <3> DEFINE m == mem[loop.base]
               o == loop.off
               l == loop.len
               t == SubSeq(m, o + 1, o + l)
    <3>1. e = m[o + n + 1] /\ n < l
      BY <1>1, <2>2 DEF Current, More
    <3>2. loop.calm => loop.start = t
      BY <1>3, <2>2 DEF ReadsTheSame, SliceOf
    <3>3. m \in Seq(Elems) /\ o \in Nat /\ l \in Nat /\ o + l <= Len(m) /\ Len(m) \in Nat
      BY <1>3, <1>4, LenProperties
    <3> HIDE DEF m, o, l
    <3>4. Len(t) = l /\ \A i \in 1..l : t[i] = m[o + i] /\ o + i \in 1..Len(m)
      BY <3>3, SliceFacts
    <3>9. n \in Nat /\ n < l
      BY <1>4, <3>1
    <3> HIDE DEF e, t, n
    <3>5. n + 1 \in 1..l /\ o + n + 1 = o + (n + 1) /\ n + 1 <= l
      BY <3>3, <3>9
    <3>6. e = t[n + 1] /\ o + (n + 1) \in 1..Len(m) /\ e = m[o + (n + 1)]
      BY <3>1, <3>4, <3>5
    <3>7. e \in Elems
      BY <3>3, <3>6, ElementOfSeq
    <3> QED
      BY <3>2, <3>4, <3>5, <3>6, <3>7
  <2> QED
    BY <2>1, <2>2
<1> HIDE DEF e
<1>6. Append(loop.seen, e) \in Seq(Elems)
  BY <1>4, <1>5, AppendProperties
<1> DEFINE v == Append(loop.seen, e)
           k == n + 1
<1>7. /\ loop' \in Loop /\ loop'.on = loop.on /\ loop'.live = loop.live
      /\ loop'.base = loop.base /\ loop'.off = loop.off /\ loop'.len = loop.len
      /\ loop'.next = k /\ loop'.seen = v
      /\ loop'.start = loop.start /\ loop'.calm = loop.calm
  <2>1. k \in Nat /\ v \in Seq(Elems) /\ loop' = [loop EXCEPT !.next = k, !.seen = v]
    BY <1>1, <1>4, <1>6
  <2> HIDE DEF k, v, n
  <2> QED
    BY <1>3, <2>1 DEF Loop
<1>8. ASSUME loop.calm PROVE ReadsTheSame'
  <2>1. ReadsTheSame /\ n + 1 <= Len(loop.start) /\ e = loop.start[n + 1]
    BY <1>3, <1>5, <1>8
  <2>2. SubSeq(loop.start, 1, n + 1) = Append(SubSeq(loop.start, 1, n), loop.start[n + 1])
    BY <1>4, <2>1, OneMore
  <2>3. loop'.seen = SubSeq(loop'.start, 1, loop'.next)
    BY <1>7, <2>1, <2>2 DEF ReadsTheSame
  <2>4. Contents(loop.on)' = Contents(loop.on)
    BY <1>2, <1>7 DEF Contents, SliceOf
  <2>5. SliceOf(loop.base, loop.off, loop.len)' = SliceOf(loop.base, loop.off, loop.len)
    BY <1>2, <1>7 DEF SliceOf
  <2> QED
    BY <1>2, <1>7, <2>1, <2>3, <2>4, <2>5 DEF ReadsTheSame
<1>9. LoopInv'
  <2>1. \A c \in held : base[c] = loop.base => c = loop.on \/ <<c, loop.on>> \in kin
    BY <1>1, <1>3 DEF LoopInv
  <2> QED
    BY <1>2, <1>3, <1>7, <1>8, <2>1 DEF LoopInv
<1> QED
  BY <1>1, <1>7, <1>9, SameArrays

-----------------------------------------------------------------------------
(* Steps, by what becomes of the contents. *)

(* What a method leaves of t. *)
Result(t, s) ==
    \/ \E items \in Lists : s = t \o items \/ s = items \o t
    \/ Len(t) > 0 /\ (s = SubSeq(t, 1, Len(t) - 1) \/ s = Tail(t))
    \/ \E n \in 0..MaxLen : s = Padded(t, n)
    \/ \E i \in 0..(MaxLen - 1), e \in Elems : s = Assigned(t, i, e)
    \/ \E e \in Elems, start, end \in 0..MaxLen :
         s = [i \in 1..Len(t) |-> IF start < i /\ i <= end THEN e ELSE t[i]]
    \/ s = [i \in 1..Len(t) |-> t[Len(t) + 1 - i]]
    \/ \E p : Sorting(t, Len(t), p) /\ s = [i \in 1..Len(t) |-> t[p[i]]]

LEMMA ChangeStep ==
    ASSUME ArraysInv, NEW a \in held, Change(a)
    PROVE  ArraysInv' /\ \E s : Result(Contents(a), s) /\ Alters(a, s)
<1> DEFINE t == Contents(a)
<1>1. Len(t) = len[a]
  BY HeldFacts
<1> HIDE DEF t
<1>2. ASSUME NEW items \in Lists, Push(a, items) \/ Unshift(a, items)
      PROVE  ArraysInv' /\ \E s : Result(t, s) /\ Alters(a, s)
  <2>1. ArraysInv' /\ (Alters(a, t \o items) \/ Alters(a, items \o t))
    BY <1>2, PushStep, UnshiftStep DEF t
  <2>2. Result(t, t \o items) /\ Result(t, items \o t)
    BY DEF Result
  <2> QED
    BY <2>1, <2>2
<1>3. ASSUME Pop(a) \/ Shift(a)
      PROVE  ArraysInv' /\ \E s : Result(t, s) /\ Alters(a, s)
  <2>1. /\ ArraysInv' /\ Len(t) > 0
        /\ Alters(a, SubSeq(t, 1, Len(t) - 1)) \/ Alters(a, Tail(t))
    BY <1>3, PopStep, ShiftStep DEF t
  <2>2. Result(t, SubSeq(t, 1, Len(t) - 1)) /\ Result(t, Tail(t))
    BY <2>1 DEF Result
  <2> QED
    BY <2>1, <2>2
<1>4. ASSUME Reverse(a)
      PROVE  ArraysInv' /\ \E s : Result(t, s) /\ Alters(a, s)
  <2> DEFINE s == [i \in 1..Len(t) |-> t[Len(t) + 1 - i]]
  <2>1. ArraysInv' /\ Alters(a, s)
    BY <1>1, <1>4, ReverseStep DEF t
  <2>2. Result(t, s)
    BY DEF Result
  <2> QED
    BY <2>1, <2>2
<1>5. ASSUME Sort(a)
      PROVE  ArraysInv' /\ \E s : Result(t, s) /\ Alters(a, s)
  <2>1. /\ ArraysInv'
        /\ \E p : Sorting(t, len[a], p) /\ Alters(a, [i \in 1..len[a] |-> t[p[i]]])
    BY <1>5, SortStep DEF t
  <2>2. PICK p : Sorting(t, Len(t), p) /\ Alters(a, [i \in 1..Len(t) |-> t[p[i]]])
    BY <1>1, <2>1
  <2>3. Result(t, [i \in 1..Len(t) |-> t[p[i]]])
    BY <2>2 DEF Result
  <2> QED
    BY <2>1, <2>2, <2>3
<1>6. ASSUME NEW n \in 0..MaxLen, SetLength(a, n)
      PROVE  ArraysInv' /\ \E s : Result(t, s) /\ Alters(a, s)
  <2>1. n \in Nat
    BY ArraysAssumption
  <2>2. ArraysInv' /\ Alters(a, Padded(t, n))
    BY <1>6, <2>1, SetLengthStep DEF t
  <2>3. Result(t, Padded(t, n))
    BY DEF Result
  <2> QED
    BY <2>2, <2>3
<1>7. ASSUME NEW i \in 0..(MaxLen - 1), NEW e \in Elems, Assign(a, i, e)
      PROVE  ArraysInv' /\ \E s : Result(t, s) /\ Alters(a, s)
  <2>1. i \in Nat
    BY ArraysAssumption
  <2>2. ArraysInv' /\ Alters(a, Assigned(t, i, e))
    BY <1>7, <2>1, AssignStep DEF t
  <2>3. Result(t, Assigned(t, i, e))
    BY DEF Result
  <2> QED
    BY <2>2, <2>3
<1>8. ASSUME NEW e \in Elems, NEW start \in 0..MaxLen, NEW end \in 0..MaxLen,
             Fill(a, e, start, end)
      PROVE  ArraysInv' /\ \E s : Result(t, s) /\ Alters(a, s)
  <2> DEFINE s == [i \in 1..Len(t) |-> IF start < i /\ i <= end THEN e ELSE t[i]]
  <2>1. start \in Nat /\ end \in Nat
    BY ArraysAssumption
  <2>2. ArraysInv' /\ Alters(a, s)
    BY <1>1, <1>8, <2>1, FillStep DEF t
  <2>3. Result(t, s)
    BY DEF Result
  <2> QED
    BY <2>2, <2>3
<1>9. ArraysInv' /\ \E s : Result(t, s) /\ Alters(a, s)
  BY <1>2, <1>3, <1>4, <1>5, <1>6, <1>7, <1>8, Zenon DEF Change
<1> QED
  BY <1>9 DEF t

Splices(a, n, start, count, items) ==
    /\ held' = held \cup {n} /\ UNCHANGED kin
    /\ Contents(a)' = Spliced(a, start, count, items)
    /\ Contents(n)' = TakenOut(a, start, count)
    /\ \A c \in held \ {a} : Contents(c)' = Contents(c)

Shares(a, i, n) ==
    /\ held' = held \cup {n}
    /\ Contents(n)' = SubSeq(Contents(a), i + 1, len[a])
    /\ \A c \in held : Contents(c)' = Contents(c)
    /\ kin' = kin \cup ({n} \X Family(a)) \cup (Family(a) \X {n})

Parts(a, n) ==
    \E from, to \in Nat : /\ from <= to /\ to <= len[a]
                          /\ Makes(n, SubSeq(Contents(a), from + 1, to))

(* What a new array is. *)
Creates(n) ==
    \/ \E items \in Lists \cup {<<>>} : Makes(n, items)
    \/ \E a \in held : Parts(a, n)
    \/ \E a, b \in held : Makes(n, Contents(a) \o Contents(b))
    \/ \E a \in held :
         \E start \in Starts, count \in 0..MaxLen, items \in Lists \cup {<<>>} :
           Splices(a, n, start, count, items)
    \/ \E a \in held, i \in Nat : i <= len[a] /\ Shares(a, i, n)

LEMMA CreateStep ==
    ASSUME ArraysInv, NEW n \in Arrays \ held, Create(n)
    PROVE  ArraysInv' /\ Creates(n)
<1>1. ASSUME NEW items \in Lists \cup {<<>>}, Literal(n, items) \/ Collect(n, items)
      PROVE  ArraysInv' /\ Creates(n)
  <2>1. items \in Seq(Elems)
    BY ListsType
  <2>2. Make(n, items) /\ (loop' = loop \/ loop' = NoLoop)
    BY <1>1 DEF Literal, Collect
  <2>3. ArraysInv' /\ Makes(n, items)
    BY <2>1, <2>2, MakeStep
  <2> QED
    BY <2>3 DEF Creates
<1>2. ASSUME NEW a \in held, NEW start \in Starts, NEW count \in 0..MaxLen,
             NEW items \in Lists \cup {<<>>}, Splice(a, n, start, count, items)
      PROVE  ArraysInv' /\ Creates(n)
  <2>1. items \in Seq(Elems) /\ start \in Int /\ count \in Nat
    BY ListsType, ArraysAssumption
  <2>2. ArraysInv' /\ Splices(a, n, start, count, items)
    BY <1>2, <2>1, SpliceStep DEF Splices
  <2> QED
    BY <2>2 DEF Creates
<1>3. ASSUME NEW a \in held, NEW start \in Starts, NEW end \in Starts \cup 0..MaxLen,
             Slice(a, n, start, end)
      PROVE  ArraysInv' /\ Creates(n)
  <2>1. start \in Int /\ end \in Int
    BY ArraysAssumption
  <2>2. ArraysInv' /\ Parts(a, n)
    BY <1>3, <2>1, SliceStep DEF Parts
  <2> QED
    BY <2>2 DEF Creates
<1>4. ASSUME NEW a \in held, NEW b \in held, Concat(a, b, n)
      PROVE  ArraysInv' /\ Creates(n)
  <2>1. ArraysInv' /\ Makes(n, Contents(a) \o Contents(b))
    BY <1>4, ConcatStep
  <2> QED
    BY <2>1 DEF Creates
<1>5. ASSUME NEW a \in held, NEW i \in 0..MaxLen, DestructureRest(a, i, n) \/ MatchRest(a, i, n)
      PROVE  ArraysInv' /\ Creates(n)
  <2>1. i \in Nat /\ len[a] \in Nat
    BY ArraysAssumption, HeldFacts
  <2>2. CASE i <= len[a] /\ Share(a, i, n)
    <3>1. ArraysInv' /\ Shares(a, i, n)
      BY <2>1, <2>2, ShareStep DEF Shares
    <3> QED
      BY <2>1, <2>2, <3>1 DEF Creates
  <2>3. CASE Make(n, <<>>) /\ UNCHANGED loop
    <3>1. <<>> \in Seq(Elems)
      BY EmptySeq
    <3>2. ArraysInv' /\ Makes(n, <<>>)
      BY <2>3, <3>1, MakeStep
    <3> QED
      BY <3>2 DEF Creates
  <2> QED
    BY <1>5, <2>1, <2>2, <2>3 DEF DestructureRest, MatchRest
<1> QED
  BY <1>1, <1>2, <1>3, <1>4, <1>5, Zenon DEF Create

(* A step that leaves the arrays alone: of a loop, or none. *)
Rests ==
    /\ held' = held /\ UNCHANGED kin
    /\ \A c \in held : Contents(c)' = Contents(c)

Forgets(a) ==
    /\ held' = held \ {a}
    /\ kin' = {p \in kin : p[1] # a /\ p[2] # a}
    /\ \A c \in held : Contents(c)' = Contents(c)

LEMMA NextStep ==
    ASSUME ArraysInv, [Next]_vars
    PROVE  /\ ArraysInv'
           /\ \/ Rests
              \/ \E a \in held : Forgets(a)
              \/ \E a \in held : \E s : Result(Contents(a), s) /\ Alters(a, s)
              \/ \E n \in Arrays \ held : Creates(n)
<1>1. ASSUME NEW a \in held, Change(a)
      PROVE  ArraysInv' /\ \E s : Result(Contents(a), s) /\ Alters(a, s)
  BY <1>1, ChangeStep
<1>2. ASSUME NEW a \in held, Forget(a) PROVE ArraysInv' /\ Forgets(a)
  BY <1>2, ForgetStep DEF Forgets
<1>3. ASSUME NEW a \in held, NEW live \in BOOLEAN, Begin(a, live) PROVE ArraysInv' /\ Rests
  BY <1>3, BeginStep DEF Rests
<1>4. ASSUME NEW n \in Arrays \ held, Create(n) PROVE ArraysInv' /\ Creates(n)
  BY <1>4, CreateStep
<1>5. ASSUME Visit \/ End PROVE ArraysInv' /\ Rests
  BY <1>5, VisitStep, EndStep DEF Rests
<1>6. ASSUME UNCHANGED vars PROVE ArraysInv' /\ Rests
  <2>1. UNCHANGED <<held, mem, base, off, len, kin, loop>>
    BY <1>6 DEF vars
  <2>2. Rests
    BY <2>1 DEF Rests, Contents, SliceOf
  <2>3. TypeOK' /\ MemInv'
    BY <2>1 DEF ArraysInv, TypeOK, MemInv, Within
  <2>4. LoopInv'
    BY <2>1 DEF ArraysInv, LoopInv, ReadsTheSame, Contents, SliceOf
  <2> QED
    BY <2>2, <2>3, <2>4 DEF ArraysInv
<1> QED
  BY <1>1, <1>2, <1>3, <1>4, <1>5, <1>6, Zenon DEF Next

LEMMA ArraysInit == Init => ArraysInv
<1> SUFFICES ASSUME Init PROVE ArraysInv
  OBVIOUS
<1>1. <<>> \in Seq(Elems) /\ (CHOOSE b \in Blocks : TRUE) \in Blocks
  BY ArraysAssumption, EmptySeq
<1>2. TypeOK
  BY <1>1, NoLoopType DEF Init, TypeOK
<1>3. MemInv /\ LoopInv
  BY NoLoopType DEF Init, MemInv, LoopInv
<1> QED
  BY <1>2, <1>3 DEF ArraysInv

(* Every slice lies in its block, only kin share one, and what a loop has   *)
(* still to read is what was there when it began: the slices of value.go.   *)
THEOREM ArraysInvariant == Spec => []ArraysInv
<1>1. ArraysInv /\ [Next]_vars => ArraysInv'
  BY NextStep
<1> QED
  BY <1>1, ArraysInit, PTL DEF Spec

(* Blocks, slices and loops keep their types, after any methods. *)
THEOREM ArraysTypes == Spec => []TypeOK
<1>1. ArraysInv => TypeOK
  BY DEF ArraysInv
<1> QED
  BY <1>1, ArraysInvariant, PTL

(* A loop visits the elements that its array had when it began, in their    *)
(* order, whatever its body does to other arrays and while what it does to  *)
(* its own leaves the block as it is: the range loops of value.go.          *)
THEOREM LoopsVisit == Spec => []LoopVisits
<1>1. ArraysInv => LoopVisits
  BY DEF ArraysInv, LoopInv, ReadsTheSame, LoopVisits
<1> QED
  BY <1>1, ArraysInvariant, PTL

-----------------------------------------------------------------------------
(* Sorting rearranges. *)

LEMMA SortingRearranges ==
    ASSUME NEW t \in Seq(Elems), NEW p, Sorting(t, Len(t), p)
    PROVE  /\ p \in Bijection(1..Len(t), 1..Len(t))
           /\ [i \in 1..Len(t) |-> t[p[i]]] \in [1..Len(t) -> Elems]
           /\ Values!InOrder([i \in 1..Len(t) |-> t[p[i]]])
<1> DEFINE n == Len(t)
           S == 1..n
           u == [i \in S |-> t[p[i]]]
<1>1. n \in Nat /\ \A i \in S : t[i] \in Elems
  BY LenProperties, ElementOfSeq
<1>2. /\ p \in [S -> S]
      /\ \A i, j \in S : i < j => \/ Rank[t[p[i]]] < Rank[t[p[j]]]
                                  \/ Rank[t[p[i]]] = Rank[t[p[j]]] /\ p[i] < p[j]
  BY DEF Sorting
<1> HIDE DEF n
<1>3. \A i \in S : p[i] \in S /\ t[p[i]] \in Elems /\ Rank[t[p[i]]] \in Nat
  BY <1>1, <1>2, ArraysAssumption
<1>4. \A i, j \in S : i < j => Rank[t[p[i]]] <= Rank[t[p[j]]] /\ p[i] # p[j]
  <2> SUFFICES ASSUME NEW i \in S, NEW j \in S, i < j
               PROVE  Rank[t[p[i]]] <= Rank[t[p[j]]] /\ p[i] # p[j]
    OBVIOUS
  <2> DEFINE k == Rank[t[p[i]]]
             l == Rank[t[p[j]]]
  <2>1. k \in Nat /\ l \in Nat /\ p[i] \in S /\ p[j] \in S
    BY <1>3
  <2>2. k < l \/ (k = l /\ p[i] < p[j])
    BY <1>2
  <2>3. k < l => p[i] # p[j]
    <3>1. p[i] = p[j] => k = l
      OBVIOUS
    <3> HIDE DEF k, l
    <3> QED
      BY <2>1, <3>1
  <2> HIDE DEF k, l
  <2>4. k <= l
    BY <2>1, <2>2
  <2>5. p[i] # p[j]
    BY <1>1, <2>1, <2>2, <2>3
  <2> QED
    BY <2>4, <2>5 DEF k, l
<1>5. p \in Bijection(S, S)
  <2>1. \A i, j \in S : p[i] = p[j] => i = j
    <3>1. \A i, j \in S : i < j \/ j < i \/ i = j
      BY <1>1
    <3> QED
      BY <1>4, <3>1
  <2>2. p \in Injection(S, S)
    BY <1>2, <2>1 DEF Injection, IsInjective
  <2>3. IsFiniteSet(S)
    BY <1>1, FS_Interval
  <2>4. p \in Surjection(S, S)
    BY <2>2, <2>3, FS_Injection
  <2> QED
    BY <2>2, <2>4 DEF Bijection
<1>6. u \in [S -> Elems] /\ DOMAIN u = S /\ \A i \in S : u[i] = t[p[i]]
  BY <1>3
<1>7. Values!InOrder(u)
  <2> HIDE DEF u
  <2> QED
    BY <1>4, <1>6 DEF Values!InOrder
<1> QED
  BY <1>5, <1>6, <1>7 DEF n

LEMMA SameCardinality ==
    ASSUME NEW S
    PROVE  Values!Cardinality(S) = Cardinality(S)
BY DEF Values!Cardinality, Cardinality

LEMMA CountKept ==
    ASSUME NEW t \in Seq(Elems), NEW p \in Bijection(1..Len(t), 1..Len(t)), NEW e
    PROVE  Values!Count([i \in 1..Len(t) |-> t[p[i]]], e) = Values!Count(t, e)
<1> DEFINE S == 1..Len(t)
           u == [i \in S |-> t[p[i]]]
           A == {i \in S : t[p[i]] = e}
           B == {i \in S : t[i] = e}
           f == [i \in A |-> p[i]]
<1>1. Len(t) \in Nat /\ DOMAIN t = S
  BY LenProperties
<1>2. IsFiniteSet(S)
  BY <1>1, FS_Interval
<1>3. /\ p \in [S -> S]
      /\ \A i, j \in S : p[i] = p[j] => i = j
      /\ \A j \in S : \E i \in S : p[i] = j
  BY DEF Bijection, Injection, Surjection, IsInjective
<1>4. {i \in DOMAIN u : u[i] = e} = A
  OBVIOUS
<1>5. {i \in DOMAIN t : t[i] = e} = B
  BY <1>1
<1> HIDE DEF S
<1>6. IsFiniteSet(A)
  <2>1. A \subseteq S
    OBVIOUS
  <2> QED
    BY <1>2, <2>1, FS_Subset
<1>7. f \in Bijection(A, B)
  <2>1. f \in [A -> B]
    BY <1>3
  <2>2. \A i, j \in A : f[i] = f[j] => i = j
    BY <1>3
  <2>3. \A j \in B : \E i \in A : f[i] = j
    <3> SUFFICES ASSUME NEW j \in B PROVE \E i \in A : f[i] = j
      OBVIOUS
    <3>1. PICK i \in S : p[i] = j
      BY <1>3
    <3>2. i \in A
      BY <3>1
    <3> QED
      BY <3>1, <3>2
  <2> HIDE DEF f, A, B
  <2> QED
    BY <2>1, <2>2, <2>3 DEF Bijection, Injection, Surjection, IsInjective
<1>8. ExistsBijection(A, B)
  BY <1>7 DEF ExistsBijection
<1>9. Cardinality(B) = Cardinality(A)
  BY <1>6, <1>8, FS_Bijection
<1>10. Values!Count(u, e) = Cardinality({i \in DOMAIN u : u[i] = e})
  BY SameCardinality DEF Values!Count
<1>11. Values!Count(t, e) = Cardinality({i \in DOMAIN t : t[i] = e})
  BY SameCardinality DEF Values!Count
<1>12. Values!Count(u, e) = Values!Count(t, e)
  BY <1>4, <1>5, <1>9, <1>10, <1>11
<1> QED
  BY <1>12 DEF S

-----------------------------------------------------------------------------
(* Each step as ArrayValues has it. *)

LEMMA AltersMaps ==
    ASSUME NEW a \in held, NEW s, Alters(a, s)
    PROVE  Values!Held' = Values!Held /\ Values!Change(a, s)
<1>1. /\ held' = held /\ kin' = kin /\ Contents(a)' = s
      /\ \A c \in held \ {a} : <<a, c>> \notin kin => Contents(c)' = Contents(c)
  BY DEF Alters
<1> QED
  BY <1>1 DEF Values!Held, Values!Change, Values!OthersKeep

LEMMA MakesMaps ==
    ASSUME NEW n, NEW s, Makes(n, s)
    PROVE  n \in Values!Held' \ Values!Held /\ Values!Make(n, s)
<1>1. /\ n \notin held /\ held' = held \cup {n} /\ kin' = kin /\ Contents(n)' = s
      /\ \A c \in held : Contents(c)' = Contents(c)
  BY DEF Makes
<1> QED
  BY <1>1 DEF Values!Held, Values!Make

LEMMA ForgetMaps ==
    ASSUME NEW a \in held, Forgets(a)
    PROVE  a \in Values!Held \ Values!Held' /\ Values!Forget(a)
<1>1. /\ held' = held \ {a}
      /\ kin' = {p \in kin : p[1] # a /\ p[2] # a}
      /\ \A c \in held : Contents(c)' = Contents(c)
  BY DEF Forgets
<1> QED
  BY <1>1 DEF Values!Held, Values!Forget

LEMMA OneMaps ==
    ASSUME ArraysInv, NEW a \in held, NEW s, Result(Contents(a), s), Alters(a, s)
    PROVE  Values!Held' = Values!Held /\ Values!OnOne(a)
<1> DEFINE t == [c \in held |-> Contents(c)][a]
<1>1. t = Contents(a) /\ Contents(a) \in Seq(Elems)
  BY HeldFacts
<1>2. Values!Held' = Values!Held /\ Values!Change(a, s)
  BY AltersMaps
<1>3. t \in Seq(Elems) /\ Result(t, s) /\ Len(t) \in Nat
  BY <1>1, LenProperties
<1> DEFINE One ==
     \/ \E items \in Values!Lists : Values!Change(a, t \o items) \/ Values!Change(a, items \o t)
     \/ /\ Len(t) > 0
        /\ Values!Change(a, SubSeq(t, 1, Len(t) - 1)) \/ Values!Change(a, Tail(t))
     \/ \E m \in 0..MaxLen : Values!Change(a, Values!Extended(t, m))
     \/ \E i \in 1..MaxLen, e \in Elems :
          Values!Change(a, [Values!Extended(t, IF i <= Len(t) THEN Len(t) ELSE i) EXCEPT ![i] = e])
     \/ \E from, to \in 0..MaxLen, e \in Elems :
          Values!Change(a, [i \in 1..Len(t) |-> IF from < i /\ i <= to THEN e ELSE t[i]])
     \/ Values!Change(a, [i \in 1..Len(t) |-> t[Len(t) + 1 - i]])
     \/ \E u \in [1..Len(t) -> Elems] :
          /\ Values!InOrder(u) /\ \A e \in Elems : Values!Count(u, e) = Values!Count(t, e)
          /\ Values!Change(a, u)
<1>4. One => Values!OnOne(a)
  BY DEF Values!OnOne
<1> HIDE DEF t
<1>5. ASSUME \E items \in Lists : s = t \o items \/ s = items \o t
      PROVE  One
  <2>1. Values!Lists = Lists
    BY DEF Values!Lists, Lists
  <2>2. \E items \in Values!Lists : Values!Change(a, t \o items) \/ Values!Change(a, items \o t)
    BY <1>2, <1>5, <2>1
  <2> QED
    BY <2>2
<1>6. ASSUME Len(t) > 0 /\ (s = SubSeq(t, 1, Len(t) - 1) \/ s = Tail(t))
      PROVE  One
  <2>1. /\ Len(t) > 0
        /\ Values!Change(a, SubSeq(t, 1, Len(t) - 1)) \/ Values!Change(a, Tail(t))
    BY <1>2, <1>6
  <2> QED
    BY <2>1
<1>7. ASSUME \E n \in 0..MaxLen : s = Padded(t, n)
      PROVE  One
  <2>1. PICK n \in 0..MaxLen : s = Padded(t, n)
    BY <1>7
  <2>2. Values!Extended(t, n) = s
    BY <2>1 DEF Values!Extended, Padded
  <2>3. \E m \in 0..MaxLen : Values!Change(a, Values!Extended(t, m))
    BY <1>2, <2>2
  <2> QED
    BY <2>3
<1>8. ASSUME \E i \in 0..(MaxLen - 1), e \in Elems : s = Assigned(t, i, e)
      PROVE  One
  <2>1. PICK i \in 0..(MaxLen - 1), e \in Elems : s = Assigned(t, i, e)
    BY <1>8
  <2> DEFINE j == i + 1
  <2>2. j \in 1..MaxLen
    BY ArraysAssumption
  <2>3. [Values!Extended(t, IF j <= Len(t) THEN Len(t) ELSE j) EXCEPT ![j] = e] = s
    BY <2>1 DEF Values!Extended, Padded, Assigned
  <2> HIDE DEF j
  <2>4. Values!Change(a, [Values!Extended(t, IF j <= Len(t) THEN Len(t) ELSE j) EXCEPT ![j] = e])
    BY <1>2, <2>3
  <2>5. One
    BY <2>2, <2>4
  <2> QED
    BY <2>5
<1>9. ASSUME \E e \in Elems, start, end \in 0..MaxLen :
             s = [i \in 1..Len(t) |-> IF start < i /\ i <= end THEN e ELSE t[i]]
      PROVE  One
  <2>1. PICK e \in Elems, start \in 0..MaxLen, end \in 0..MaxLen :
               s = [i \in 1..Len(t) |-> IF start < i /\ i <= end THEN e ELSE t[i]]
    BY <1>9
  <2>2. Values!Change(a, [i \in 1..Len(t) |-> IF start < i /\ i <= end THEN e ELSE t[i]])
    BY <1>2, <2>1
  <2>3. One
    BY <2>2
  <2> QED
    BY <2>3
<1>10. ASSUME s = [i \in 1..Len(t) |-> t[Len(t) + 1 - i]]
      PROVE  One
  <2>1. Values!Change(a, [i \in 1..Len(t) |-> t[Len(t) + 1 - i]])
    BY <1>2, <1>10
  <2> QED
    BY <2>1
<1>11. ASSUME \E p : Sorting(t, Len(t), p) /\ s = [i \in 1..Len(t) |-> t[p[i]]]
      PROVE  One
  <2>1. PICK p : Sorting(t, Len(t), p) /\ s = [i \in 1..Len(t) |-> t[p[i]]]
    BY <1>11
  <2>2. p \in Bijection(1..Len(t), 1..Len(t)) /\ s \in [1..Len(t) -> Elems] /\ Values!InOrder(s)
    BY <1>3, <2>1, SortingRearranges
  <2>3. \A e \in Elems : Values!Count(s, e) = Values!Count(t, e)
    BY <1>3, <2>1, <2>2, CountKept
  <2>4. \E u \in [1..Len(t) -> Elems] :
          /\ Values!InOrder(u) /\ \A e \in Elems : Values!Count(u, e) = Values!Count(t, e)
          /\ Values!Change(a, u)
    BY <1>2, <2>2, <2>3
  <2> QED
    BY <2>4
<1>12. One
  <2> HIDE DEF One
  <2> QED
    BY <1>3, <1>5, <1>6, <1>7, <1>8, <1>9, <1>10, <1>11 DEF Result
<1> QED
  BY <1>2, <1>4, <1>12

LEMMA PartsMaps ==
    ASSUME ArraysInv, NEW n, NEW a \in held, Parts(a, n)
    PROVE  n \in Values!Held' \ Values!Held /\ Values!Create(n)
<1> DEFINE t == [c \in held |-> Contents(c)][a]
<1>1. t = Contents(a) /\ Len(t) = len[a] /\ Len(t) \in Nat /\ t \in Seq(Elems)
  BY HeldFacts
<1>2. PICK from, to \in Nat : from <= to /\ to <= len[a] /\ Makes(n, SubSeq(Contents(a), from + 1, to))
  BY DEF Parts
<1>3. /\ n \in Values!Held' \ Values!Held
      /\ Values!Make(n, SubSeq(Contents(a), from + 1, to))
  BY <1>2, MakesMaps
<1>4. a \in Values!Held
  BY DEF Values!Held
<1> DEFINE i == from + 1
<1>5. (\E j \in 1..Len(t) : \E k \in j..Len(t) : Values!Make(n, SubSeq(t, j, k))) => Values!Create(n)
  BY <1>4 DEF Values!Create
<1> HIDE DEF t
<1>6. Values!Make(n, SubSeq(t, i, to))
  BY <1>1, <1>3
<1>7. CASE from < to
  <2>1. i \in 1..Len(t) /\ to \in i..Len(t)
    BY <1>1, <1>2, <1>7
  <2> HIDE DEF i
  <2> QED
    BY <1>3, <1>5, <1>6, <2>1
<1>8. CASE from = to
  <2>1. SubSeq(t, i, to) = <<>>
    <3>1. i \in Int /\ to \in Int /\ to < i
      BY <1>8
    <3> HIDE DEF i
    <3> QED
      BY <3>1, SubSeqEmpty
  <2>2. Values!Make(n, <<>>)
    BY <1>6, <2>1
  <2> QED
    BY <1>3, <2>2 DEF Values!Create
<1> QED
  BY <1>2, <1>7, <1>8

LEMMA SharesMaps ==
    ASSUME ArraysInv, NEW n \in Arrays \ held, NEW a \in held, NEW i \in Nat, i <= len[a],
           Shares(a, i, n)
    PROVE  n \in Values!Held' \ Values!Held /\ Values!Bind(a, n)
<1> DEFINE m == [c \in held |-> Contents(c)]
           F == {a} \cup {b \in held : <<a, b>> \in kin}
<1>1. /\ held' = held \cup {n} /\ Contents(n)' = SubSeq(Contents(a), i + 1, len[a])
      /\ \A c \in held : Contents(c)' = Contents(c)
      /\ kin' = kin \cup ({n} \X F) \cup (F \X {n})
  BY DEF Shares, Family
<1>2. Len(Contents(a)) = len[a] /\ len[a] \in Nat
  BY HeldFacts
<1>3. m[a] = Contents(a) /\ i \in 0..Len(m[a]) /\ DOMAIN m = held
  BY <1>2
<1>4. /\ DOMAIN [c \in held' |-> Contents(c)'] = held \cup {n}
      /\ [c \in held' |-> Contents(c)'][n] = SubSeq(m[a], i + 1, Len(m[a]))
      /\ \A b \in held : [c \in held' |-> Contents(c)'][b] = m[b]
  BY <1>1, <1>2
<1>5. Values!Held = held /\ Values!Held' = held \cup {n}
  BY <1>1 DEF Values!Held
<1>6. \E j \in 0..Len(m[a]) :
        /\ DOMAIN [c \in held' |-> Contents(c)'] = Values!Held \cup {n}
        /\ [c \in held' |-> Contents(c)'][n] = SubSeq(m[a], j + 1, Len(m[a]))
        /\ \A b \in Values!Held : [c \in held' |-> Contents(c)'][b] = m[b]
  BY <1>3, <1>4, <1>5
<1>7. LET family == {a} \cup {b \in Values!Held : <<a, b>> \in kin}
      IN  kin' = kin \cup ({n} \X family) \cup (family \X {n})
  BY <1>1, <1>5
<1> QED
  BY <1>5, <1>6, <1>7 DEF Values!Bind

LEMMA SplicesMaps ==
    ASSUME ArraysInv, NEW n \in Arrays \ held, NEW a \in held,
           NEW start \in Starts, NEW count \in 0..MaxLen, NEW items \in Lists \cup {<<>>},
           Splices(a, n, start, count, items)
    PROVE  n \in Values!Held' \ Values!Held /\ Values!Splice(a, n)
<1> DEFINE m == [c \in held |-> Contents(c)]
           w == [c \in held' |-> Contents(c)']
           t == m[a]
           from == Values!From(start, Len(t))
           to == IF from + count <= Len(t) THEN from + count ELSE Len(t)
<1>1. t = Contents(a) /\ Len(t) = len[a] /\ Len(t) \in Nat /\ t \in Seq(Elems)
  BY HeldFacts
<1>2. /\ held' = held \cup {n} /\ kin' = kin
      /\ Contents(a)' = Spliced(a, start, count, items)
      /\ Contents(n)' = TakenOut(a, start, count)
      /\ \A c \in held \ {a} : Contents(c)' = Contents(c)
  BY DEF Splices
<1>3. start \in Int /\ count \in Nat /\ items \in Seq(Elems)
  BY ListsType, ArraysAssumption
<1>4. SpliceAt(a, start) = from
  <2> DEFINE l == Len(t)
  <2>1. l \in Nat /\ SpliceAt(a, start) = From(start, l)
    BY <1>1 DEF SpliceAt
  <2> HIDE DEF l, t
  <2>2. From(start, l) = Values!From(start, l)
    BY <1>3, <2>1 DEF From, Values!From
  <2> QED
    BY <2>1, <2>2 DEF l
<1>5. SpliceTo(a, start, count) = to
  <2>1. /\ SpliceAt(a, start) \in Nat
        /\ SpliceTo(a, start, count) =
             IF SpliceAt(a, start) + count > Len(Contents(a)) THEN Len(Contents(a))
             ELSE SpliceAt(a, start) + count
    BY <1>3, SpliceTypes, HeldFacts
  <2> HIDE DEF t, from
  <2> QED
    BY <1>1, <1>3, <1>4, <2>1
<1>6. /\ w[n] = SubSeq(t, from + 1, to)
      /\ w[a] = SubSeq(t, 1, from) \o items \o SubSeq(t, to + 1, Len(t))
  <2>1. w[n] = Contents(n)' /\ w[a] = Contents(a)'
    BY <1>2
  <2> HIDE DEF w, t, from, to
  <2> QED
    BY <1>1, <1>2, <1>4, <1>5, <2>1 DEF Spliced, TakenOut
<1>7. Values!Held = held /\ Values!Held' = held \cup {n}
  BY <1>2 DEF Values!Held
<1>8. Values!OthersKeep(a, {n})
  BY <1>2, <1>7 DEF Values!OthersKeep
<1>9. Values!Splice(a, n)
  BY <1>2, <1>6, <1>8 DEF Values!Splice, Values!Lists, Lists
<1> QED
  BY <1>7, <1>9

LEMMA CreatesMaps ==
    ASSUME ArraysInv, NEW n \in Arrays \ held, Creates(n)
    PROVE  /\ n \in Values!Held' \ Values!Held
           /\ Values!Create(n) \/ \E a \in Values!Held : Values!Splice(a, n) \/ Values!Bind(a, n)
<1>1. Values!Held = held /\ Values!Lists = Lists
  BY DEF Values!Held, Values!Lists, Lists
<1>2. ASSUME NEW items \in Lists \cup {<<>>}, Makes(n, items)
      PROVE  n \in Values!Held' \ Values!Held /\ Values!Create(n)
  <2>1. n \in Values!Held' \ Values!Held /\ Values!Make(n, items)
    BY <1>2, MakesMaps
  <2> QED
    BY <1>1, <2>1 DEF Values!Create
<1>3. ASSUME NEW a \in held, Parts(a, n)
      PROVE  n \in Values!Held' \ Values!Held /\ Values!Create(n)
  BY <1>3, PartsMaps
<1>4. ASSUME NEW a \in held, NEW b \in held, Makes(n, Contents(a) \o Contents(b))
      PROVE  n \in Values!Held' \ Values!Held /\ Values!Create(n)
  <2> DEFINE m == [c \in held |-> Contents(c)]
  <2>1. n \in Values!Held' \ Values!Held /\ Values!Make(n, Contents(a) \o Contents(b))
    BY <1>4, MakesMaps
  <2>2. m[a] = Contents(a) /\ m[b] = Contents(b)
    OBVIOUS
  <2>3. Values!Make(n, m[a] \o m[b])
    <3> HIDE DEF m
    <3> QED
      BY <2>1, <2>2
  <2> QED
    BY <1>1, <2>1, <2>3 DEF Values!Create
<1>5. ASSUME NEW a \in held, NEW start \in Starts, NEW count \in 0..MaxLen,
             NEW items \in Lists \cup {<<>>}, Splices(a, n, start, count, items)
      PROVE  n \in Values!Held' \ Values!Held /\ Values!Splice(a, n)
  BY <1>5, SplicesMaps
<1>6. ASSUME NEW a \in held, NEW i \in Nat, i <= len[a], Shares(a, i, n)
      PROVE  n \in Values!Held' \ Values!Held /\ Values!Bind(a, n)
  BY <1>6, SharesMaps
<1> QED
  BY <1>1, <1>2, <1>3, <1>4, <1>5, <1>6 DEF Creates

LEMMA StepMaps ==
    ASSUME ArraysInv, [Next]_vars
    PROVE  [Values!Next]_<<[a \in held |-> Contents(a)], kin>>
<1> DEFINE m == [a \in held |-> Contents(a)]
           w == [a \in held' |-> Contents(a)']
<1>1. CASE Rests
  <2>1. w = m /\ kin' = kin
    BY <1>1 DEF Rests
  <2> QED
    BY <2>1
<1>2. ASSUME NEW a \in held, Forgets(a) PROVE Values!Next
  <2>1. a \in Values!Held \ Values!Held' /\ Values!Forget(a)
    BY <1>2, ForgetMaps
  <2> QED
    BY <2>1 DEF Values!Next
<1>3. ASSUME NEW a \in held, NEW s, Result(Contents(a), s), Alters(a, s), w # m
      PROVE  Values!Next
  <2>1. Values!Held' = Values!Held /\ Values!OnOne(a)
    BY <1>3, OneMaps
  <2>2. a \in Values!Held
    BY DEF Values!Held
  <2> QED
    BY <1>3, <2>1, <2>2 DEF Values!Next
<1>4. ASSUME NEW n \in Arrays \ held, Creates(n) PROVE Values!Next
  <2>1. /\ n \in Values!Held' \ Values!Held
        /\ Values!Create(n) \/ \E a \in Values!Held : Values!Splice(a, n) \/ Values!Bind(a, n)
    BY <1>4, CreatesMaps
  <2> QED
    BY <2>1 DEF Values!Next
<1>5. ASSUME NEW a \in held, NEW s, Alters(a, s) PROVE kin' = kin
  BY <1>5 DEF Alters
<1>6. Values!Next \/ (w = m /\ kin' = kin)
  <2> HIDE DEF w, m
  <2> QED
    BY <1>1, <1>2, <1>3, <1>4, <1>5, NextStep DEF w, m, Rests
<1> QED
  BY <1>6

LEMMA InitMaps == Init => Values!Init
<1> SUFFICES ASSUME Init PROVE Values!Init
  OBVIOUS
<1>1. held = {} /\ kin = {}
  BY DEF Init
<1>2. [a \in held |-> Contents(a)] = [a \in {} |-> <<>>]
  BY <1>1
<1> QED
  BY <1>1, <1>2 DEF Values!Init

(* The arrays of a program are sequences of their own: a method changes the *)
(* one it is called on, though slices of one block may lie below several.   *)
THEOREM ArraysAreValues == Spec => ImplementsValues
<1>1. ArraysInv /\ [Next]_vars => [Values!Next]_<<[a \in held |-> Contents(a)], kin>>
  BY StepMaps
<1> QED
  BY <1>1, InitMaps, ArraysInvariant, PTL DEF Spec, ImplementsValues, Values!Spec

-----------------------------------------------------------------------------
(* Operators: what the numbers and the texts of their values can be. *)
Numerals == {<<>>} \cup {<<n>> : n \in Int}
Tags == {"undefined", "null", "boolean", "number", "string", "object"}

LEMMA NumeralFacts ==
    /\ <<>> \in Numerals /\ <<0>> \in Numerals /\ <<1>> \in Numerals
    /\ \A n \in Int : <<n>> \in Numerals /\ <<n>> # <<>>
  BY DEF Numerals

LEMMA ValueParts ==
    ASSUME NEW tag, NEW text, NEW num, NEW v, v = Ops!Value(tag, text, num)
    PROVE  v = Ops!Value(v.tag, v.text, v.num) /\ v.tag = tag /\ v.text = text /\ v.num = num
  BY DEF Ops!Value

LEMMA ValueTypes ==
    ASSUME NEW v \in Ops!AllValues, Integral \subseteq Int
    PROVE  /\ v = Ops!Value(v.tag, v.text, v.num)
           /\ v.tag \in Tags /\ v.num \in Numerals
           /\ v.tag = "number" => v.text = ""
           /\ v.tag = "undefined" => v.num = <<>>
           /\ v.tag = "null" => v.num = <<0>>
<1>1. CASE v = Ops!UndefinedValue
  BY <1>1, NumeralFacts DEF Ops!UndefinedValue, Ops!Value, Tags, Ops!NotANumber
<1>2. CASE v = Ops!NullValue
  BY <1>2, NumeralFacts DEF Ops!NullValue, Ops!Value, Tags, Ops!Zero
<1>3. CASE v \in {Ops!Boolean(TRUE), Ops!Boolean(FALSE)}
  <2>1. v = Ops!Value("boolean", "true", <<1>>) \/ v = Ops!Value("boolean", "false", <<0>>)
    BY <1>3 DEF Ops!Boolean, Ops!Zero, Ops!One
  <2>2. v = Ops!Value(v.tag, v.text, v.num) /\ v.tag = "boolean" /\ v.num \in {<<1>>, <<0>>}
    BY <2>1, ValueParts
  <2> QED
    BY <2>2, NumeralFacts DEF Tags
<1>4. CASE v = Ops!ObjectValue
  <2>1. \E text : v = Ops!Value("object", text, <<>>)
    BY <1>4, Zenon DEF Ops!ObjectValue, Ops!NotANumber
  <2>2. v = Ops!Value(v.tag, v.text, v.num) /\ v.tag = "object" /\ v.num = <<>>
    BY <2>1, ValueParts
  <2> QED
    BY <2>2, NumeralFacts DEF Tags
<1>5. CASE v \in {Ops!NumberVal(Ops!NotANumber)} \cup {Ops!NumberVal(<<n>>) : n \in Integral}
  <2>1. PICK num \in Numerals : v = Ops!NumberVal(num)
    BY <1>5, NumeralFacts DEF Ops!NotANumber
  <2> QED
    BY <2>1 DEF Ops!NumberVal, Ops!Value, Tags
<1>6. CASE v \in {Ops!StringVal(Collation[i]) : i \in DOMAIN Collation}
  <2>1. PICK i \in DOMAIN Collation : v = Ops!StringVal(Collation[i])
    BY <1>6
  <2> DEFINE num == IF Collation[i] = "" THEN <<0>> ELSE IF Collation[i] = "1" THEN <<1>> ELSE <<>>
  <2>2. num \in Numerals
    BY NumeralFacts
  <2>3. v = Ops!Value("string", Collation[i], num)
    BY <2>1 DEF Ops!StringVal, Ops!Zero, Ops!One, Ops!NotANumber
  <2> HIDE DEF num
  <2> QED
    BY <2>2, <2>3 DEF Ops!Value, Tags
<1> QED
  BY <1>1, <1>2, <1>3, <1>4, <1>5, <1>6 DEF Ops!AllValues

LEMMA NumbersOrdered ==
    ASSUME NEW x \in Numerals, NEW y \in Numerals
    PROVE  /\ ~(Ops!Below(x, y) /\ Ops!Below(y, x))
           /\ Ops!Below(x, y) => ~Ops!Same(x, y) /\ ~Ops!Same(y, x)
           /\ Ops!Same(x, y) <=> Ops!Same(y, x)
  BY DEF Ops!Below, Ops!Same, Numerals, Ops!NotANumber

(* The texts of a collation are in one order. *)
CollationKnown ==
    /\ DOMAIN Collation \subseteq Int
    /\ \A i, j \in DOMAIN Collation : Collation[i] = Collation[j] => i = j

LEMMA TextsOrdered ==
    ASSUME CollationKnown, NEW s, NEW t
    PROVE  /\ ~(Ops!TextBefore(s, t) /\ Ops!TextBefore(t, s))
           /\ Ops!TextBefore(s, t) => s # t
  BY DEF CollationKnown, Ops!TextBefore

LEMMA TextsBoth ==
    ASSUME NEW l, NEW r
    PROVE  /\ Ops!Texts(l, r) <=> l.tag = "string" /\ r.tag = "string"
           /\ Ops!Numbers(l, r) <=> l.tag = "number" /\ r.tag = "number"
           /\ Ops!ATextIn(l, r) <=> l.tag = "string" \/ r.tag = "string"
  BY DEF Ops!Texts, Ops!Numbers, Ops!ATextIn

LEMMA GivesTrue ==
    ASSUME NEW b \in BOOLEAN
    PROVE  Ops!Gives(Ops!Boolean(b)) = Ops!Gives(Ops!Boolean(TRUE)) <=> b
<1>1. Ops!Boolean(TRUE).text = "true" /\ Ops!Boolean(FALSE).text = "false"
  BY DEF Ops!Boolean, Ops!Value
<1>2. \A v : Ops!Gives(v).value = v
  BY DEF Ops!Gives
<1>3. Ops!Boolean(TRUE) # Ops!Boolean(FALSE)
  BY <1>1
<1> DEFINE yes == Ops!Boolean(TRUE)
<1> DEFINE no == Ops!Boolean(FALSE)
<1>4. Ops!Gives(yes) # Ops!Gives(no)
  <2>1. yes # no
    BY <1>3
  <2> HIDE DEF yes, no
  <2> QED
    BY <1>2, <2>1
<1>5. CASE b = TRUE
  BY <1>5
<1>6. CASE b = FALSE
  BY <1>4, <1>6
<1> QED
  BY <1>5, <1>6

LEMMA Comparing ==
    ASSUME NEW l, NEW r
    PROVE  LET Is(op) == Ops!evalBinary(op, l, r) = Ops!Gives(Ops!Boolean(TRUE)) IN
           /\ Is("<") <=> Ops!Less(l, r)
           /\ Is(">") <=> Ops!Greater(l, r)
           /\ Is("<=") <=> Ops!AtMost(l, r)
           /\ Is(">=") <=> Ops!AtLeast(l, r)
           /\ Is("==") <=> Ops!Equals(l, r)
           /\ Is("!=") <=> ~Ops!Equals(l, r)
<1>1. /\ Ops!evalBinary("<", l, r) = Ops!Gives(Ops!Boolean(Ops!Less(l, r)))
      /\ Ops!evalBinary(">", l, r) = Ops!Gives(Ops!Boolean(Ops!Greater(l, r)))
      /\ Ops!evalBinary("<=", l, r) = Ops!Gives(Ops!Boolean(Ops!AtMost(l, r)))
      /\ Ops!evalBinary(">=", l, r) = Ops!Gives(Ops!Boolean(Ops!AtLeast(l, r)))
      /\ Ops!evalBinary("==", l, r) = Ops!Gives(Ops!Boolean(Ops!Equals(l, r)))
      /\ Ops!evalBinary("!=", l, r) = Ops!Gives(Ops!Boolean(~Ops!Equals(l, r)))
  BY DEF Ops!evalBinary, Ops!Arithmetic, Ops!Bitwise
<1>2. /\ Ops!Less(l, r) \in BOOLEAN /\ Ops!Greater(l, r) \in BOOLEAN
      /\ Ops!AtMost(l, r) \in BOOLEAN /\ Ops!AtLeast(l, r) \in BOOLEAN
      /\ Ops!Equals(l, r) \in BOOLEAN
  BY DEF Ops!Less, Ops!Greater, Ops!AtMost, Ops!AtLeast, Ops!Equals, Ops!TextBefore, Ops!Below, Ops!Same
<1> QED
  BY <1>1, <1>2, GivesTrue

LEMMA EqualsBothWays ==
    ASSUME NEW l \in Ops!AllValues, NEW r \in Ops!AllValues, Integral \subseteq Int
    PROVE  Ops!Equals(l, r) <=> Ops!Equals(r, l)
<1>1. l.num \in Numerals /\ r.num \in Numerals
  BY ValueTypes
<1>2. Ops!Same(l.num, r.num) <=> Ops!Same(r.num, l.num)
  BY <1>1, NumbersOrdered
<1>3. {l.tag, r.tag} = {r.tag, l.tag}
  OBVIOUS
<1> QED
  BY <1>2, <1>3 DEF Ops!Equals, Ops!IsNullish

LEMMA ComparisonsDo ==
    ASSUME NEW l \in Ops!AllValues, NEW r \in Ops!AllValues, Integral \subseteq Int, CollationKnown
    PROVE  Ops!ComparisonsAgree(l, r)
<1>1. l.num \in Numerals /\ r.num \in Numerals
  BY ValueTypes
<1>2. /\ ~(Ops!Below(l.num, r.num) /\ Ops!Below(r.num, l.num))
      /\ Ops!Below(l.num, r.num) => ~Ops!Same(l.num, r.num) /\ ~Ops!Same(r.num, l.num)
      /\ Ops!Below(r.num, l.num) => ~Ops!Same(l.num, r.num) /\ ~Ops!Same(r.num, l.num)
      /\ Ops!Same(l.num, r.num) <=> Ops!Same(r.num, l.num)
  BY <1>1, NumbersOrdered
<1>3. /\ ~(Ops!TextBefore(l.text, r.text) /\ Ops!TextBefore(r.text, l.text))
      /\ Ops!TextBefore(l.text, r.text) => l.text # r.text
      /\ Ops!TextBefore(r.text, l.text) => l.text # r.text
  BY TextsOrdered
<1>4. Ops!Texts(l, r) <=> Ops!Texts(r, l)
  BY TextsBoth
<1>5. /\ Ops!Less(l, r) <=> Ops!Greater(r, l)
      /\ Ops!AtMost(l, r) <=> Ops!AtLeast(r, l)
      /\ ~(Ops!Less(l, r) /\ Ops!Greater(l, r))
      /\ Ops!Less(l, r) => Ops!AtMost(l, r) /\ ~Ops!AtMost(r, l)
  BY <1>2, <1>3, <1>4 DEF Ops!Less, Ops!Greater, Ops!AtMost, Ops!AtLeast
<1>6. ASSUME Ops!Texts(l, r) \/ Ops!Numbers(l, r)
      PROVE  Ops!AtMost(l, r) <=> (Ops!Less(l, r) \/ Ops!Equals(l, r))
  <2>1. CASE Ops!Texts(l, r)
    <3>1. l.tag = "string" /\ r.tag = "string"
      BY <2>1, TextsBoth
    <3>2. Ops!Equals(l, r) <=> l.text = r.text
      BY <3>1 DEF Ops!Equals, Ops!IsNullish
    <3> QED
      BY <2>1, <3>2 DEF Ops!AtMost, Ops!Less
  <2>2. CASE Ops!Numbers(l, r)
    <3>1. l.tag = "number" /\ r.tag = "number" /\ ~Ops!Texts(l, r)
      BY <2>2, TextsBoth
    <3>2. Ops!Equals(l, r) <=> Ops!Same(l.num, r.num)
      BY <3>1 DEF Ops!Equals, Ops!IsNullish
    <3> QED
      BY <3>1, <3>2 DEF Ops!AtMost, Ops!Less
  <2> QED
    BY <1>6, <2>1, <2>2
<1> QED
  BY <1>5, <1>6, Comparing, EqualsBothWays DEF Ops!ComparisonsAgree

-----------------------------------------------------------------------------
LEMMA SilentStored ==
    ASSUME NEW x, NEW n, NEW silent \in BOOLEAN
    PROVE  Ops!Silent(Ops!Stored(x, Ops!Gives(
                IF n = Ops!NotANumber /\ ~silent THEN Ops!UndefinedValue ELSE Ops!NumberVal(n))))
           = Ops!Silent(Ops!Stored(x, Ops!Gives(Ops!NumberVal(n))))
<1>1. \A w : Ops!Stored(x, Ops!Gives(w)) = [x |-> w, error |-> ""]
  BY DEF Ops!Stored, Ops!Gives
<1>2. Ops!UndefinedValue # Ops!NumberVal(Ops!NotANumber)
  BY DEF Ops!UndefinedValue, Ops!NumberVal, Ops!Value
<1>3. CASE n = Ops!NotANumber /\ ~silent
  <2>1. Ops!Silent([x |-> Ops!UndefinedValue, error |-> ""]) = [x |-> Ops!UndefinedValue, error |-> ""]
    BY <1>2 DEF Ops!Silent
  <2>2. Ops!Silent([x |-> Ops!NumberVal(n), error |-> ""]) = [x |-> Ops!UndefinedValue, error |-> ""]
    BY <1>3 DEF Ops!Silent
  <2> QED
    BY <1>1, <1>3, <2>1, <2>2
<1>4. CASE ~(n = Ops!NotANumber /\ ~silent)
  BY <1>4
<1> QED
  BY <1>3, <1>4

LEMMA ArithmeticBothWays ==
    ASSUME NEW op \in Ops!Arithmetic \cup {"<<", ">>"}, NEW l, NEW r
    PROVE  \/ Ops!evalBinary(op, l, r) = Ops!evalBinaryValues(op, l, r)
           \/ /\ Ops!evalBinary(op, l, r) = Ops!Checked(op, l, r)
              /\ Ops!evalBinaryValues(op, l, r) = Ops!Gives(Ops!NumberVal(Ops!Float(op, l.num, r.num)))
<1>1. CASE op \in {"+", "-", "*"}
  <2>1. Ops!evalBinary(op, l, r) = Ops!evalArithmetic(op, l, r)
    BY <1>1 DEF Ops!evalBinary, Ops!Arithmetic, Ops!Bitwise
  <2>2. CASE op = "+" /\ Ops!Texts(l, r)
    BY <2>1, <2>2 DEF Ops!evalArithmetic, Ops!evalBinaryValues
  <2>3. CASE ~(op = "+" /\ Ops!Texts(l, r)) /\ Ops!ATextIn(l, r)
    BY <1>1, <2>1, <2>3 DEF Ops!evalArithmetic, Ops!evalBinaryValues
  <2>4. CASE ~(op = "+" /\ Ops!Texts(l, r)) /\ ~Ops!ATextIn(l, r)
    BY <1>1, <2>1, <2>4 DEF Ops!evalArithmetic, Ops!evalBinaryValues
  <2> QED
    BY <2>2, <2>3, <2>4
<1>2. CASE op = "/"
  <2>1. Ops!evalBinary(op, l, r) = Ops!evalArithmetic(op, l, r)
    BY <1>2 DEF Ops!evalBinary, Ops!Arithmetic, Ops!Bitwise
  <2> QED
    BY <1>2, <2>1 DEF Ops!evalArithmetic, Ops!evalBinaryValues
<1>3. CASE op = "%"
  <2>1. Ops!evalBinary(op, l, r) = Ops!evalArithmetic(op, l, r)
    BY <1>3 DEF Ops!evalBinary, Ops!Arithmetic, Ops!Bitwise
  <2> QED
    BY <1>3, <2>1 DEF Ops!evalArithmetic, Ops!evalBinaryValues
<1>4. CASE op = "**"
  <2>1. Ops!evalBinary(op, l, r) = Ops!evalArithmetic(op, l, r)
    BY <1>4 DEF Ops!evalBinary, Ops!Arithmetic, Ops!Bitwise
  <2> QED
    BY <1>4, <2>1 DEF Ops!evalArithmetic, Ops!evalBinaryValues
<1>5. CASE op \in {"<<", ">>"}
  BY <1>5 DEF Ops!evalBinary, Ops!evalBinaryValues, Ops!Arithmetic, Ops!Bitwise
<1> QED
  BY <1>1, <1>2, <1>3, <1>4, <1>5 DEF Ops!Arithmetic

LEMMA CompoundsDo ==
    ASSUME NEW op \in Ops!Compounds \cup {"++"}, NEW l, NEW r
    PROVE  Ops!CompoundAgrees(op, l, r)
<1> DEFINE e == [value |-> r, sets |-> {}]
<1> DEFINE one == [e EXCEPT !.value = Ops!NumberVal(Ops!One)]
<1>1. /\ Ops!After(l, e) = l /\ e.value = r
      /\ Ops!After(l, one) = l /\ one.value = Ops!NumberVal(Ops!One)
  BY DEF Ops!After
<1> HIDE DEF e, one
<1>2. ASSUME op \in Ops!Compounds
      PROVE  Ops!Silent(Ops!evalAssign(l, op, e)) = Ops!Silent(Ops!evalAssignOp(l, op, e))
  <2>1. Ops!evalAssignOp(l, op, e) = Ops!Stored(l, Ops!evalBinaryValues(op, l, r))
    BY <1>1 DEF Ops!evalAssignOp
  <2>2. CASE op \in Ops!ShortCircuit
    <3>1. Ops!evalAssign(l, op, e) = Ops!Stored(l, Ops!Gives(IF Ops!Decides(op, l) THEN l ELSE r))
      BY <1>1, <2>2 DEF Ops!evalAssign
    <3>2. Ops!evalBinaryValues(op, l, r) = Ops!Gives(IF Ops!Decides(op, l) THEN l ELSE r)
      BY <2>2 DEF Ops!evalBinaryValues, Ops!Decides, Ops!ShortCircuit
    <3> QED
      BY <2>1, <3>1, <3>2
  <2>3. CASE op \notin Ops!ShortCircuit
    <3>1. op \in Ops!Arithmetic \cup {"<<", ">>"}
      BY <1>2, <2>3 DEF Ops!Compounds
    <3>2. ~Ops!Decides(op, l)
      BY <2>3 DEF Ops!Decides, Ops!ShortCircuit
    <3>3. Ops!evalAssign(l, op, e) = Ops!Stored(l, Ops!evalBinary(op, l, r))
      BY <1>1, <2>3, <3>2 DEF Ops!evalAssign
    <3>4. CASE Ops!evalBinary(op, l, r) = Ops!evalBinaryValues(op, l, r)
      BY <2>1, <3>3, <3>4
    <3>5. CASE /\ Ops!evalBinary(op, l, r) = Ops!Checked(op, l, r)
               /\ Ops!evalBinaryValues(op, l, r) = Ops!Gives(Ops!NumberVal(Ops!Float(op, l.num, r.num)))
      <4> DEFINE silent == Ops!Numbers(l, r) /\ op \in {"+", "-", "*", "/"}
      <4> DEFINE n == Ops!Float(op, l.num, r.num)
      <4>1. Ops!Checked(op, l, r) = Ops!Gives(
                IF n = Ops!NotANumber /\ ~silent THEN Ops!UndefinedValue ELSE Ops!NumberVal(n))
        BY DEF Ops!Checked
      <4>2. silent \in BOOLEAN
        OBVIOUS
      <4> HIDE DEF silent, n
      <4>3. Ops!Silent(Ops!Stored(l, Ops!Gives(
                IF n = Ops!NotANumber /\ ~silent THEN Ops!UndefinedValue ELSE Ops!NumberVal(n))))
            = Ops!Silent(Ops!Stored(l, Ops!Gives(Ops!NumberVal(n))))
        BY <4>2, SilentStored
      <4>4. Ops!Silent(Ops!evalAssign(l, op, e)) = Ops!Silent(Ops!Stored(l, Ops!Gives(Ops!NumberVal(n))))
        BY <3>3, <3>5, <4>1, <4>3
      <4> QED
        BY <2>1, <3>5, <4>4 DEF n
    <3> QED
      BY <3>1, <3>4, <3>5, ArithmeticBothWays
  <2> QED
    BY <2>2, <2>3
<1>3. ASSUME l.tag # "string"
      PROVE  Ops!evalIncrement(l) = Ops!evalAssignOp(l, "+", one)
  <2> DEFINE unit == Ops!NumberVal(Ops!One)
  <2>1. unit.tag = "number" /\ unit.num = Ops!One
    BY DEF Ops!NumberVal, Ops!Value
  <2> HIDE DEF unit
  <2>2. ~Ops!Texts(l, unit) /\ ~Ops!ATextIn(l, unit)
    BY <1>3, <2>1 DEF Ops!Texts, Ops!ATextIn
  <2>3. Ops!evalBinaryValues("+", l, unit) = Ops!Gives(Ops!NumberVal(Ops!Float("+", l.num, Ops!One)))
    BY <2>1, <2>2 DEF Ops!evalBinaryValues
  <2> QED
    BY <1>1, <2>3 DEF Ops!evalIncrement, Ops!evalAssignOp, unit
<1> QED
  BY <1>2, <1>3 DEF Ops!CompoundAgrees, e, one

-----------------------------------------------------------------------------
(* The texts are lists of characters, as all strings of TLA+ are. *)
TextsAreLists == \E chars : \A v \in Ops!AllValues : Ops!TextOf(v) \in Seq(chars)

LEMMA EndsArePart ==
    ASSUME NEW chars, NEW text \in Seq(chars), NEW part \in Seq(chars)
    PROVE  /\ Ops!HasPrefix(text, part) => Ops!HasPart(text, part)
           /\ Ops!HasSuffix(text, part) => Ops!HasPart(text, part)
<1>1. SubSeq(text, 1, Len(text)) = text /\ SubSeq(part, 1, Len(part)) = part
  OBVIOUS
<1>2. Len(text) \in Nat /\ Len(part) \in Nat
  OBVIOUS
<1>3. Ops!HasSuffix(part, part)
  BY <1>1, <1>2 DEF Ops!HasSuffix
<1>4. ASSUME Ops!HasPrefix(text, part)
      PROVE  Ops!HasPart(text, part)
  <2>1. SubSeq(text, 1, Len(part)) = part /\ Len(part) \in 0 .. Len(text)
    BY <1>2, <1>4 DEF Ops!HasPrefix
  <2>2. Ops!HasSuffix(SubSeq(text, 1, Len(part)), part)
    BY <1>3, <2>1
  <2> QED
    BY <2>1, <2>2 DEF Ops!HasPart
<1>5. ASSUME Ops!HasSuffix(text, part)
      PROVE  Ops!HasPart(text, part)
  <2>1. Ops!HasSuffix(SubSeq(text, 1, Len(text)), part)
    BY <1>1, <1>5, Zenon
  <2>2. Len(text) \in 0 .. Len(text)
    BY <1>2
  <2> QED
    BY <2>1, <2>2 DEF Ops!HasPart
<1> QED
  BY <1>4, <1>5

LEMMA BetweenByOrder ==
    ASSUME NEW v \in Ops!AllValues, NEW x \in Ops!AllValues, NEW y, Integral \subseteq Int,
           ~Ops!Texts(v, x), ~Ops!Texts(v, y)
    PROVE  Ops!Within(v, x, y) <=> Ops!AtLeast(v, x) /\ Ops!AtMost(v, y)
<1>1. Ops!Same(x.num, v.num) <=> Ops!Same(v.num, x.num)
  BY DEF Ops!Same
<1>2. Ops!Same(y.num, v.num) <=> Ops!Same(v.num, y.num)
  BY DEF Ops!Same
<1> QED
  BY <1>1, <1>2 DEF Ops!Within, Ops!AtLeast, Ops!AtMost

LEMMA ConditionsDo ==
    ASSUME NEW v \in Ops!AllValues, NEW x \in Ops!AllValues, NEW y \in Ops!AllValues,
           Integral \subseteq Int, TextsAreLists
    PROVE  Ops!ConditionsAgree(v, x, y)
<1> DEFINE array == Ops!ArrayVal(<<x, y>>)
<1> DEFINE object == Ops!ObjectVal({Ops!TextOf(x)})
<1> DEFINE Have(mode, given) == Ops!testHaveCondition(mode, v, given)
<1>1. Have("", Ops!Absent) <=> Ops!IsTruthy(v)
  BY DEF Ops!testHaveCondition, Ops!IsTruthy, Ops!IsNullish
<1>2. Have("is", x) <=> ~Have("is_not", x)
  <2>1. x.tag # "absent" /\ Ops!Absent.tag = "absent"
    BY ValueTypes DEF Tags, Ops!Absent, Ops!Value
  <2>2. Have("is", x) <=> Ops!TestIs(v, x)
    BY DEF Ops!testHaveCondition
  <2>3. Have("is_not", x) <=> (x = Ops!Absent \/ ~Ops!TestIs(v, x))
    BY DEF Ops!testHaveCondition
  <2> QED
    BY <2>1, <2>2, <2>3
<1>3. /\ array.tag = "array" /\ array.items = <<x, y>>
      /\ object.tag = "object"
  BY DEF Ops!ArrayVal, Ops!ObjectVal
<1> HIDE DEF array, object
<1>4. /\ Have("in", array) <=> Ops!Holds(array, v)
      /\ Have("not_in", array) <=> ~Ops!Holds(array, v)
      /\ Have("in", object) <=> Ops!evalIn(v, object)
  BY <1>3 DEF Ops!testHaveCondition, Ops!TestIn, Ops!TestNotIn, Ops!evalIn
<1>5. Ops!Holds(array, v) => Ops!Equals(v, x) \/ Ops!Equals(v, y)
  <2>1. \A w \in Ops!AllValues : Ops!Equals(w, v) => Ops!Equals(v, w)
    BY EqualsBothWays
  <2>2. ASSUME NEW i \in DOMAIN array.items, Ops!StrictEquals(array.items[i], v)
        PROVE  Ops!Equals(x, v) \/ Ops!Equals(y, v)
    <3>1. array.items[i] = x \/ array.items[i] = y
      BY <1>3
    <3> QED
      BY <2>2, <3>1 DEF Ops!StrictEquals
  <2> QED
    BY <2>1, <2>2 DEF Ops!Holds
<1>6. ASSUME x.tag = "string"
      PROVE  /\ Ops!testHaveCondition("startsWith", x, v) => Have("in", x)
             /\ Ops!testHaveCondition("endsWith", x, v) => Have("in", x)
  <2>1. Ops!TextOf(x) = x.text
    BY <1>6 DEF Ops!TextOf
  <2>2. PICK chars : x.text \in Seq(chars) /\ Ops!TextOf(v) \in Seq(chars)
    BY <2>1 DEF TextsAreLists
  <2>3. Have("in", x) <=> Ops!HasPart(x.text, Ops!TextOf(v))
    BY <1>6 DEF Ops!testHaveCondition, Ops!TestIn
  <2>4. Ops!testHaveCondition("startsWith", x, v) => Ops!HasPrefix(x.text, Ops!TextOf(v))
    BY <2>1 DEF Ops!testHaveCondition
  <2>5. Ops!testHaveCondition("endsWith", x, v) => Ops!HasSuffix(x.text, Ops!TextOf(v))
    BY <2>1 DEF Ops!testHaveCondition
  <2> QED
    BY <2>2, <2>3, <2>4, <2>5, EndsArePart
<1>7. /\ Ops!evalBinary(">=", v, x) = Ops!Gives(Ops!Boolean(TRUE)) <=> Ops!AtLeast(v, x)
      /\ Ops!evalBinary("<=", v, y) = Ops!Gives(Ops!Boolean(TRUE)) <=> Ops!AtMost(v, y)
      /\ Ops!evalBinary("==", v, x) = Ops!Gives(Ops!Boolean(TRUE)) <=> Ops!Equals(v, x)
      /\ Ops!evalBinary("==", v, y) = Ops!Gives(Ops!Boolean(TRUE)) <=> Ops!Equals(v, y)
  BY Comparing
<1>8. ~Ops!Texts(v, x) /\ ~Ops!Texts(v, y) =>
        (Ops!Within(v, x, y) <=> Ops!AtLeast(v, x) /\ Ops!AtMost(v, y))
  BY BetweenByOrder
<1> QED
  BY <1>1, <1>2, <1>4, <1>5, <1>6, <1>7, <1>8 DEF Ops!ConditionsAgree, array, object

-----------------------------------------------------------------------------
AppliedKnown == applied \in Applications \cup {NothingApplied}

(* For all numbers and texts of the values, `x op y' and `x op= y', the    *)
(* comparisons of two values and the conditions of have agree as           *)
(* OperatorsAgree says.                                                    *)
THEOREM OperatorsAlwaysAgree ==
    ASSUME Integral \subseteq Int, CollationKnown, TextsAreLists
    PROVE  MCSpec => []OperatorsAgree
<1>1. MCInit => AppliedKnown
  BY DEF MCInit, AppliedKnown
<1>2. AppliedKnown /\ [MCNext]_<<vars, steps, applied>> => AppliedKnown'
  <2> SUFFICES ASSUME AppliedKnown, applied' = applied
               PROVE  AppliedKnown'
    BY DEF MCNext
  <2> QED
    BY Zenon DEF AppliedKnown, Applications, NothingApplied
<1>3. AppliedKnown => OperatorsAgree
  <2> SUFFICES ASSUME applied \in Applications
               PROVE  OperatorsAgree
    BY DEF AppliedKnown, OperatorsAgree
  <2>1. /\ applied.op \in Ops!Compounds \cup {"++"}
        /\ applied.left \in Ops!AllValues /\ applied.right \in Ops!AllValues
    BY DEF Applications
  <2>2. Ops!CompoundAgrees(applied.op, applied.left, applied.right)
    BY <2>1, CompoundsDo
  <2>3. Ops!ComparisonsAgree(applied.left, applied.right)
    BY <2>1, ComparisonsDo
  <2>4. \A other \in Ops!AllValues : Ops!ConditionsAgree(applied.left, applied.right, other)
    BY <2>1, ConditionsDo
  <2> QED
    BY <2>2, <2>3, <2>4 DEF OperatorsAgree
<1> QED
  BY <1>1, <1>2, <1>3, PTL DEF MCSpec
=============================================================================
