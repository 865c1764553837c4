------------------------------- MODULE Arrays -------------------------------
(***************************************************************************)
(* The arrays of a program and the memory under them (runtime/value.go).   *)
(* An array is a *Value with a Go slice: an offset and a length in a       *)
(* backing array, here a block, whose length is the slice's capacity.      *)
(* Methods narrow the slice, write its block in place or move it to a new  *)
(* block; a loop goes over the slice that the array had when it began, and *)
(* its body may do all of that to the array meanwhile.  What an array      *)
(* holds beyond its length and what Go adds to a capacity are not seen.    *)
(***************************************************************************)
EXTENDS Integers, Sequences, FiniteSets

CONSTANTS
    Arrays,     \* the *Value objects of arrays
    NoArray,
    Blocks,     \* Go's backing arrays
    Elems,      \* what arrays hold
    Undefined,  \* what fills a gap
    Rank,       \* the order of the elements as texts
    Spare,      \* how much longer than needed append makes a new block
    Starts,     \* the start arguments of slice and splice
    MaxItems,   \* how many elements one call gives
    MaxLen      \* bound on lengths

ASSUME ArraysAssumption ==
    /\ NoArray \notin Arrays /\ Blocks # {}
    /\ Undefined \in Elems
    /\ Rank \in [Elems -> Nat]
    /\ Spare \subseteq Nat /\ Starts \subseteq Int
    /\ MaxItems \in Nat /\ MaxLen \in Nat

VARIABLES
    held,       \* the arrays the program holds
    mem,        \* the elements of each block
    base,       \* the block of each array's slice,
    off,        \*   where the slice begins in it
    len,        \*   and its length
    kin,        \* pairs of arrays that a rest binding has joined
    loop        \* the iteration that is under way

vars == <<held, mem, base, off, len, kin, loop>>
slices == <<base, off, len>>

NoLoop ==
    [on |-> NoArray, live |-> FALSE, base |-> CHOOSE b \in Blocks : TRUE, off |-> 0, len |-> 0,
     next |-> 0, seen |-> <<>>, start |-> <<>>, calm |-> TRUE]

Lists == UNION {[1..n -> Elems] : n \in 1..MaxItems}

SliceOf(b, o, l) == SubSeq(mem[b], o + 1, o + l)
Contents(a) == SliceOf(base[a], off[a], len[a])

(* A block nothing refers to.  Go's collector finds them.                   *)
Used == {base[a] : a \in held} \cup (IF loop.on = NoArray THEN {} ELSE {loop.base})
Unused == CHOOSE b \in Blocks : b \notin Used
AnyUnused == Blocks \ Used # {}

Nils(k) == [i \in 1..k |-> Undefined]

(* Whether a change of a may change what the loop still has to read: any    *)
(* change of an array that shares its block, a change in place of its own,  *)
(* and any of its own if it reads the array anew each time.                 *)
Changes(a, inPlace) ==
    loop' = [loop EXCEPT !.calm =
               @ /\ ~ (\/ <<a, loop.on>> \in kin
                       \/ a = loop.on /\ (inPlace \/ loop.live))]

-----------------------------------------------------------------------------
(* The slice of a, shorter: nothing is written. *)
Narrow(a, o, l) ==
    /\ off' = [off EXCEPT ![a] = o]
    /\ len' = [len EXCEPT ![a] = l]
    /\ UNCHANGED <<held, mem, base, kin>>

(* s is written over a's block, from where the slice begins. *)
Write(a, s) ==
    /\ mem' = [mem EXCEPT ![base[a]] =
                 [i \in DOMAIN mem[base[a]] |->
                    IF i > off[a] /\ i <= off[a] + Len(s) THEN s[i - off[a]]
                    ELSE mem[base[a]][i]]]
    /\ len' = [len EXCEPT ![a] = Len(s)]
    /\ UNCHANGED <<held, base, off, kin>>

Fits(a, n) == off[a] + n <= Len(mem[base[a]])

(* a, new or old, becomes a slice of a block of its own. *)
Place(a, s) ==
    /\ AnyUnused
    /\ \E k \in Spare : mem' = [mem EXCEPT ![Unused] = s \o Nils(k)]
    /\ base' = [base EXCEPT ![a] = Unused]
    /\ off' = [off EXCEPT ![a] = 0]
    /\ len' = [len EXCEPT ![a] = Len(s)]
    /\ UNCHANGED kin

Move(a, s) == Place(a, s) /\ UNCHANGED held

Make(n, s) ==
    /\ n \notin held /\ Len(s) <= MaxLen
    /\ Place(n, s)
    /\ held' = held \cup {n}

(* append(ArrVal, elements...) *)
Store(a, s) == IF Fits(a, Len(s)) THEN Write(a, s) ELSE Move(a, s)

(* append one element at a time: the block is full before it is left. *)
Grow(a, s) ==
    IF Fits(a, Len(s)) THEN Write(a, s)
    ELSE /\ AnyUnused
         /\ \E k \in Spare :
              mem' = [mem EXCEPT
                        ![base[a]] = [i \in DOMAIN mem[base[a]] |->
                                        IF i > off[a] + len[a] THEN Undefined
                                        ELSE mem[base[a]][i]],
                        ![Unused] = s \o Nils(k)]
         /\ base' = [base EXCEPT ![a] = Unused]
         /\ off' = [off EXCEPT ![a] = 0]
         /\ len' = [len EXCEPT ![a] = Len(s)]
         /\ UNCHANGED <<held, kin>>

Gap(a, n) == [i \in 1..(n - len[a]) |-> Undefined]

-----------------------------------------------------------------------------
(* Methods that change the array they are called on. *)
Push(a, items) ==
    /\ len[a] + Len(items) <= MaxLen
    /\ Store(a, Contents(a) \o items)
    /\ Changes(a, FALSE)

Unshift(a, items) ==
    /\ len[a] + Len(items) <= MaxLen
    /\ Move(a, items \o Contents(a))
    /\ Changes(a, FALSE)

Pop(a) == len[a] > 0 /\ Narrow(a, off[a], len[a] - 1) /\ Changes(a, TRUE)

Shift(a) == len[a] > 0 /\ Narrow(a, off[a] + 1, len[a] - 1) /\ Changes(a, FALSE)

(* arr.length = n; shorter, the slice keeps its capacity. *)
SetLength(a, n) ==
    IF n < len[a] THEN Narrow(a, off[a], n) /\ Changes(a, TRUE)
    ELSE Grow(a, Contents(a) \o Gap(a, n)) /\ Changes(a, FALSE)

(* arr[i] = e, for i >= 0; a negative index is a panic of Go.               *)
Assign(a, i, e) ==
    IF i < len[a]
    THEN Write(a, [Contents(a) EXCEPT ![i + 1] = e]) /\ Changes(a, TRUE)
    ELSE Grow(a, Contents(a) \o Gap(a, i) \o <<e>>) /\ Changes(a, FALSE)

(* fill writes from start, which may not be negative, up to end.            *)
Fill(a, e, start, end) ==
    /\ Write(a, [i \in 1..len[a] |->
                   IF start < i /\ i <= end THEN e ELSE Contents(a)[i]])
    /\ Changes(a, TRUE)

Reverse(a) ==
    /\ Write(a, [i \in 1..len[a] |-> Contents(a)[len[a] + 1 - i]])
    /\ Changes(a, TRUE)

(* sort.SliceStable: by their texts, equals in their order.                 *)
Sort(a) ==
    LET s == Contents(a) IN
    \E p \in [1..len[a] -> 1..len[a]] :
        /\ \A i, j \in 1..len[a] : i < j =>
             \/ Rank[s[p[i]]] < Rank[s[p[j]]]
             \/ Rank[s[p[i]]] = Rank[s[p[j]]] /\ p[i] < p[j]
        /\ Write(a, [i \in 1..len[a] |-> s[p[i]]])
        /\ Changes(a, TRUE)

(* The bounds of slice and splice, both of which take what is out of them.  *)
From(start, n) ==
    LET s == IF start < 0 THEN n + start ELSE start
    IN  IF s < 0 THEN 0 ELSE IF s > n THEN n ELSE s

To(end, from, n) ==
    LET e == IF end < 0 THEN n + end ELSE end
        m == IF e > n THEN n ELSE e
    IN  IF m < from THEN from ELSE m

Count(count, from, n) ==
    LET c == IF count < 0 THEN 0 ELSE count
    IN  IF from + c > n THEN n - from ELSE c

(* Variant with a bug: the elements that stay are moved within the block.   *)
SpliceInPlace(a, n, start, count, items) ==
    LET s == Contents(a)
        from == From(start, Len(s))
        to == from + Count(count, from, Len(s))
        new == SubSeq(s, 1, from) \o items \o SubSeq(s, to + 1, Len(s))
    IN  /\ n \notin held /\ AnyUnused
        /\ Len(new) <= Len(s)
        /\ mem' = [mem EXCEPT ![Unused] = SubSeq(s, from + 1, to),
                     ![base[a]] = [i \in DOMAIN mem[base[a]] |->
                        IF i > off[a] /\ i <= off[a] + Len(new) THEN new[i - off[a]]
                        ELSE mem[base[a]][i]]]
        /\ base' = [base EXCEPT ![n] = Unused]
        /\ off' = [off EXCEPT ![n] = 0]
        /\ len' = [len EXCEPT ![a] = Len(new), ![n] = to - from]
        /\ held' = held \cup {n}
        /\ Changes(a, FALSE)
        /\ UNCHANGED kin

(* splice: the array and the one it returns get a new block each.           *)
Splice(a, n, start, count, items) ==
    LET s == Contents(a)
        from == From(start, Len(s))
        to == from + Count(count, from, Len(s))
        new == SubSeq(s, 1, from) \o items \o SubSeq(s, to + 1, Len(s))
        second == CHOOSE b \in Blocks : b \notin Used \cup {Unused}
    IN  /\ n \notin held /\ Len(new) <= MaxLen
        /\ AnyUnused /\ Blocks \ (Used \cup {Unused}) # {}
        /\ mem' = [mem EXCEPT ![Unused] = new, ![second] = SubSeq(s, from + 1, to)]
        /\ base' = [base EXCEPT ![a] = Unused, ![n] = second]
        /\ off' = [off EXCEPT ![a] = 0, ![n] = 0]
        /\ len' = [len EXCEPT ![a] = Len(new), ![n] = to - from]
        /\ held' = held \cup {n}
        /\ Changes(a, FALSE)
        /\ UNCHANGED kin

-----------------------------------------------------------------------------
(* Methods and expressions that make a new array. *)
Literal(n, items) == Make(n, items) /\ UNCHANGED loop

(* Variant with a bug: the part is a slice of the same block. *)
SliceSharing(a, n, start, end) ==
    LET from == From(start, len[a])
    IN  /\ n \notin held
        /\ held' = held \cup {n}
        /\ base' = [base EXCEPT ![n] = base[a]]
        /\ off' = [off EXCEPT ![n] = off[a] + from]
        /\ len' = [len EXCEPT ![n] = To(end, from, len[a]) - from]
        /\ UNCHANGED <<mem, kin, loop>>

Slice(a, n, start, end) ==
    LET from == From(start, len[a])
    IN  Make(n, SubSeq(Contents(a), from + 1, To(end, from, len[a]))) /\ UNCHANGED loop

(* concat and [...a, ...b]; values, flat and [...a] are it with an empty b. *)
Concat(a, b, n) == Make(n, Contents(a) \o Contents(b)) /\ UNCHANGED loop

Family(a) == {a} \cup {b \in held : <<a, b>> \in kin}

(* The rest of an array pattern is val.ArrVal[i:].                          *)
Share(a, i, n) ==
    /\ n \notin held
    /\ held' = held \cup {n}
    /\ base' = [base EXCEPT ![n] = base[a]]
    /\ off' = [off EXCEPT ![n] = off[a] + i]
    /\ len' = [len EXCEPT ![n] = len[a] - i]
    /\ kin' = kin \cup ({n} \X Family(a)) \cup (Family(a) \X {n})
    /\ UNCHANGED <<mem, loop>>

(* A declaration shares no block when there is no rest; a pattern of match  *)
(* does, and what is left of the block may still be written.                *)
DestructureRest(a, i, n) ==
    IF i < len[a] THEN Share(a, i, n) ELSE Make(n, <<>>) /\ UNCHANGED loop
MatchRest(a, i, n) == i <= len[a] /\ Share(a, i, n)

(* The program lets go of an array. *)
Forget(a) ==
    /\ loop.on # a
    /\ held' = held \ {a}
    /\ kin' = {p \in kin : p[1] # a /\ p[2] # a}
    /\ UNCHANGED <<mem, slices, loop>>

-----------------------------------------------------------------------------
(* for each, for ... of, forEach, map, filter, find, some, every and        *)
(* flatMap go over the slice they find; reduce asks the array each time.    *)
Begin(a, live) ==
    /\ loop.on = NoArray
    /\ loop' = [on |-> a, live |-> live, base |-> base[a], off |-> off[a], len |-> len[a],
                next |-> 0, seen |-> <<>>, start |-> Contents(a), calm |-> TRUE]
    /\ UNCHANGED <<held, mem, slices, kin>>

More == loop.next < (IF loop.live THEN len[loop.on] ELSE loop.len)

Current ==
    IF loop.live THEN Contents(loop.on)[loop.next + 1]
    ELSE mem[loop.base][loop.off + loop.next + 1]

Visit ==
    /\ loop.on # NoArray /\ More
    /\ loop' = [loop EXCEPT !.next = @ + 1, !.seen = Append(@, Current)]
    /\ UNCHANGED <<held, mem, slices, kin>>

(* At its end, or at a break, an error or what find looks for.              *)
End ==
    /\ loop.on # NoArray
    /\ loop' = NoLoop
    /\ UNCHANGED <<held, mem, slices, kin>>

(* map, filter and flatMap make an array of what their functions return.    *)
Collect(n, results) ==
    /\ loop.on # NoArray /\ ~More
    /\ Make(n, results)
    /\ loop' = NoLoop

-----------------------------------------------------------------------------
Init ==
    /\ held = {}
    /\ mem = [b \in Blocks |-> <<>>]
    /\ base = [a \in Arrays |-> CHOOSE b \in Blocks : TRUE]
    /\ off = [a \in Arrays |-> 0]
    /\ len = [a \in Arrays |-> 0]
    /\ kin = {}
    /\ loop = NoLoop

Change(a) ==
    \/ \E items \in Lists : Push(a, items) \/ Unshift(a, items)
    \/ Pop(a) \/ Shift(a) \/ Reverse(a) \/ Sort(a)
    \/ \E n \in 0..MaxLen : SetLength(a, n)
    \/ \E i \in 0..(MaxLen - 1), e \in Elems : Assign(a, i, e)
    \/ \E e \in Elems, start, end \in 0..MaxLen : Fill(a, e, start, end)

Create(n) ==
    \/ \E items \in Lists \cup {<<>>} : Literal(n, items)
    \/ \E a \in held :
         \/ \E start \in Starts, count \in 0..MaxLen, items \in Lists \cup {<<>>} :
              Splice(a, n, start, count, items)
         \/ \E start \in Starts, end \in Starts \cup 0..MaxLen : Slice(a, n, start, end)
         \/ \E b \in held : Concat(a, b, n)
         \/ \E i \in 0..MaxLen : DestructureRest(a, i, n) \/ MatchRest(a, i, n)
    \/ \E results \in Lists \cup {<<>>} : Collect(n, results)

Next ==
    \/ \E a \in held : Change(a) \/ Forget(a) \/ \E live \in BOOLEAN : Begin(a, live)
    \/ \E n \in Arrays \ held : Create(n)
    \/ Visit \/ End

Spec == Init /\ [][Next]_vars

-----------------------------------------------------------------------------
Loop ==
    [on : Arrays \cup {NoArray}, live : BOOLEAN, base : Blocks, off : Nat, len : Nat,
     next : Nat, seen : Seq(Elems), start : Seq(Elems), calm : BOOLEAN]

TypeOK ==
    /\ held \subseteq Arrays
    /\ mem \in [Blocks -> Seq(Elems)]
    /\ base \in [Arrays -> Blocks]
    /\ off \in [Arrays -> Nat]
    /\ len \in [Arrays -> Nat]
    /\ kin \subseteq held \X held
    /\ loop \in Loop

(* Arrays behave as sequences of their own, whatever shares blocks below.   *)
Values == INSTANCE ArrayValues WITH contents <- [a \in held |-> Contents(a)]
ImplementsValues == Values!Spec

(* A loop visits the elements as they were when it began, in their order,   *)
(* whatever its body does to other arrays, and while it only adds to its    *)
(* own, takes from its front or replaces its parts: these change the slice, *)
(* not the block the loop goes over.  reduce follows the array instead.     *)
LoopVisits ==
    loop.on # NoArray /\ loop.calm => loop.seen = SubSeq(loop.start, 1, loop.next)
=============================================================================
