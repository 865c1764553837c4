---------------------------- MODULE ArrayValues ----------------------------
(***************************************************************************)
(* What a program may take arrays for: each is a sequence of its own, and  *)
(* a method changes the array it is called on and no other, but for those  *)
(* that a rest binding (let [x, ...xs] = ys, and the patterns of match)    *)
(* made of it or made it of.  Of these, kin, nothing is said.              *)
(***************************************************************************)
EXTENDS Integers, Sequences, FiniteSets

CONSTANTS Arrays, Elems, Undefined, Rank, MaxLen, MaxItems, Starts

VARIABLES
    contents,   \* the elements of each array the program holds
    kin         \* pairs of arrays that may share storage

Held == DOMAIN contents
Lists == UNION {[1..n -> Elems] : n \in 1..MaxItems}

(* From the start of one argument, counted from the end if it is negative. *)
From(start, n) ==
    IF start >= 0 THEN (IF start <= n THEN start ELSE n)
    ELSE IF n + start >= 0 THEN n + start ELSE 0

OthersKeep(a, made) ==
    /\ DOMAIN contents' = Held \cup made
    /\ \A b \in Held \ {a} : <<a, b>> \notin kin => contents'[b] = contents[b]

Change(a, s) == OthersKeep(a, {}) /\ contents'[a] = s /\ UNCHANGED kin

Make(n, s) ==
    /\ DOMAIN contents' = Held \cup {n}
    /\ contents'[n] = s
    /\ \A b \in Held : contents'[b] = contents[b]
    /\ UNCHANGED kin

Extended(s, n) == [i \in 1..n |-> IF i <= Len(s) THEN s[i] ELSE Undefined]

Count(s, e) == Cardinality({i \in DOMAIN s : s[i] = e})
InOrder(s) == \A i, j \in DOMAIN s : i < j => Rank[s[i]] <= Rank[s[j]]

OnOne(a) ==
    LET s == contents[a]
        n == Len(s)
    IN  \/ \E items \in Lists : Change(a, s \o items) \/ Change(a, items \o s)
        \/ n > 0 /\ (Change(a, SubSeq(s, 1, n - 1)) \/ Change(a, Tail(s)))
        \/ \E m \in 0..MaxLen : Change(a, Extended(s, m))
        \/ \E i \in 1..MaxLen, e \in Elems :
             Change(a, [Extended(s, IF i <= n THEN n ELSE i) EXCEPT ![i] = e])
        \/ \E from, to \in 0..MaxLen, e \in Elems :
             Change(a, [i \in 1..n |-> IF from < i /\ i <= to THEN e ELSE s[i]])
        \/ Change(a, [i \in 1..n |-> s[n + 1 - i]])
        \/ \E t \in [1..n -> Elems] :
             InOrder(t) /\ (\A e \in Elems : Count(t, e) = Count(s, e)) /\ Change(a, t)

Splice(a, n) ==
    LET s == contents[a] IN
    \E start \in Starts, count \in 0..MaxLen, items \in Lists \cup {<<>>} :
        LET from == From(start, Len(s))
            to == IF from + count <= Len(s) THEN from + count ELSE Len(s)
        IN  /\ OthersKeep(a, {n})
            /\ contents'[n] = SubSeq(s, from + 1, to)
            /\ contents'[a] = SubSeq(s, 1, from) \o items \o SubSeq(s, to + 1, Len(s))
            /\ UNCHANGED kin

(* A new array: of elements, of a part of an array, of two arrays.          *)
Create(n) ==
    \/ \E items \in Lists \cup {<<>>} : Make(n, items)
    \/ \E a \in Held : \E from \in 1..Len(contents[a]) : \E to \in from..Len(contents[a]) :
         Make(n, SubSeq(contents[a], from, to))
    \/ \E a, b \in Held : Make(n, contents[a] \o contents[b])

Bind(a, n) ==
    /\ \E i \in 0..Len(contents[a]) :
         /\ DOMAIN contents' = Held \cup {n}
         /\ contents'[n] = SubSeq(contents[a], i + 1, Len(contents[a]))
         /\ \A b \in Held : contents'[b] = contents[b]
    /\ LET family == {a} \cup {b \in Held : <<a, b>> \in kin}
       IN  kin' = kin \cup ({n} \X family) \cup (family \X {n})

Forget(a) ==
    /\ contents' = [b \in Held \ {a} |-> contents[b]]
    /\ kin' = {p \in kin : p[1] # a /\ p[2] # a}

Init == contents = [a \in {} |-> <<>>] /\ kin = {}

Next ==
    \/ Held' = Held /\ contents' # contents /\ \E a \in Held : OnOne(a)
    \/ \E a \in Held \ Held' : Forget(a)
    \/ \E n \in Held' \ Held : Create(n) \/ \E a \in Held : Splice(a, n) \/ Bind(a, n)

Spec == Init /\ [][Next]_<<contents, kin>>
=============================================================================
