--------------------------- MODULE DbTableProofs ---------------------------
(* What a program that uses a table of std.db may rely on, for any number   *)
(* of goroutines, table objects, ids and documents.                         *)
EXTENDS DbTable, Queries, StackLemmas, TLAPS

WithRows == {"insert", "append", "inserted", "marshal", "write", "updated", "delete", "deleted"}
OneRow == {"insert", "append", "inserted"}

(* An operation under way is one on a table object, and has rows to work    *)
(* through exactly while it needs them.                                     *)
Working(g) ==
    /\ op[g].stage \notin {"idle", "dbdrop"} => op[g].h \in Handles
    /\ op[g].stage \in WithRows <=> op[g].todo # <<>>
    /\ op[g].stage \in OneRow => Len(op[g].todo) = 1
    /\ op[g].stage = "write" => op[g].payload \in Doc

TypeInv == TypeOK /\ \A g \in Goroutines : Working(g)

-----------------------------------------------------------------------------
(* What the steps of an operation change                                    *)

OthersKeep(g) ==
    op' \in [Goroutines -> Op] /\ \A k \in Goroutines \ {g} : op'[k] = op[k]

LEMMA OpFields ==
    /\ Idle \in Op
    /\ \A o \in Op : /\ o.stage \in Stages /\ o.h \in Handles \cup {NoHandle}
                     /\ o.todo \in Seq(Row) /\ o.payload \in Doc \cup {NoDoc}
<1>1. Idle \in Op
  <2>1. <<>> \in Seq(Row)
    BY EmptySeq
  <2> QED
    BY <2>1 DEF Idle, Op, Stages
<1> QED
  BY <1>1 DEF Op

LEMMA BecomeFacts ==
    ASSUME TypeOK, NEW g \in Goroutines, NEW o \in Op, Become(g, o)
    PROVE  OthersKeep(g) /\ op'[g] = o
  BY DEF TypeOK, Become, OthersKeep

LEMMA DoneFacts ==
    ASSUME TypeOK, NEW g \in Goroutines, Done(g)
    PROVE  OthersKeep(g) /\ op'[g] = Idle
  BY BecomeFacts, OpFields DEF Done

LEMMA GoFacts ==
    ASSUME TypeOK, NEW g \in Goroutines, NEW s \in Stages, Go(g, s)
    PROVE  /\ OthersKeep(g)
           /\ op'[g].stage = s /\ op'[g].h = op[g].h /\ op'[g].todo = op[g].todo
           /\ op'[g].payload = op[g].payload
<1> DEFINE o == op[g]
           p == [o EXCEPT !.stage = s]
<1>1. o \in Op
  BY DEF TypeOK
<1> HIDE DEF p
<1>2. p \in Op /\ p.stage = s /\ p.h = o.h /\ p.todo = o.todo /\ p.payload = o.payload
  BY <1>1 DEF p, Op
<1>3. OthersKeep(g) /\ op'[g] = p
  BY <1>2, BecomeFacts DEF Go, p
<1> QED
  BY <1>2, <1>3

LEMMA StartFacts ==
    ASSUME TypeOK, NEW g \in Goroutines, NEW s \in Stages, NEW h \in Handles,
           Become(g, [Idle EXCEPT !.stage = s, !.h = h])
    PROVE  /\ OthersKeep(g)
           /\ op'[g].stage = s /\ op'[g].h = h /\ op'[g].todo = <<>>
<1> DEFINE p == [Idle EXCEPT !.stage = s, !.h = h]
<1>1. Idle \in Op /\ Idle.todo = <<>>
  BY OpFields DEF Idle
<1>2. p \in Op /\ p.stage = s /\ p.h = h /\ p.todo = <<>>
  BY <1>1 DEF Op
<1> HIDE DEF p
<1>3. OthersKeep(g) /\ op'[g] = p
  BY <1>2, BecomeFacts DEF p
<1> QED
  BY <1>2, <1>3

LEMMA WithRowsFacts ==
    ASSUME TypeInv, NEW g \in Goroutines, op[g].stage \in WithRows
    PROVE  /\ op[g] \in Op /\ op[g].h \in Handles
           /\ op[g].todo \in Seq(Row) /\ op[g].todo # <<>>
           /\ Len(op[g].todo) \in Nat \ {0} /\ op[g].todo[1] \in Row
           /\ op[g].todo[1].id \in Ids /\ op[g].todo[1].ref \in Refs
           /\ Tail(op[g].todo) \in Seq(Row) /\ Len(Tail(op[g].todo)) = Len(op[g].todo) - 1
           /\ \A i \in 1..Len(Tail(op[g].todo)) : Tail(op[g].todo)[i] = op[g].todo[i + 1]
<1>1. op[g] \in Op /\ op[g].todo \in Seq(Row)
  BY OpFields DEF TypeInv, TypeOK
<1>2. op[g].h \in Handles /\ op[g].todo # <<>>
  BY DEF TypeInv, Working, WithRows
<1>3. Len(op[g].todo) \in Nat \ {0}
  BY <1>1, <1>2, EmptySeq
<1>4. op[g].todo[1] \in Row
  BY <1>1, <1>3, ElementOfSeq
<1>5. op[g].todo[1].id \in Ids /\ op[g].todo[1].ref \in Refs
  BY <1>4 DEF Row
<1>6. /\ Tail(op[g].todo) \in Seq(Row) /\ Len(Tail(op[g].todo)) = Len(op[g].todo) - 1
      /\ \A i \in 1..Len(Tail(op[g].todo)) : Tail(op[g].todo)[i] = op[g].todo[i + 1]
  BY <1>1, <1>2, HeadTailProperties
<1> QED
  BY <1>1, <1>2, <1>3, <1>4, <1>5, <1>6

(* One row is settled: the rest of the rows is left, or the operation over. *)
Left(g, s) ==
    /\ OthersKeep(g)
    /\ op'[g].todo = Tail(op[g].todo)
    /\ \/ op'[g] = Idle /\ Tail(op[g].todo) = <<>>
       \/ op'[g].stage = s /\ op'[g].h = op[g].h /\ Tail(op[g].todo) # <<>>

LEMMA NextRowFacts ==
    ASSUME TypeInv, NEW g \in Goroutines, op[g].stage \in WithRows, NEW s \in Stages,
           NextRow(g, s)
    PROVE  Left(g, s)
<1> DEFINE o == op[g]
           t == Tail(o.todo)
           p == [o EXCEPT !.stage = s, !.todo = t]
<1>1. o \in Op /\ t \in Seq(Row) /\ Len(t) = Len(o.todo) - 1 /\ Len(o.todo) \in Nat \ {0}
  BY WithRowsFacts
<1>2. CASE Len(o.todo) = 1
  <2>1. Len(t) = 0
    BY <1>1, <1>2
  <2>2. t = <<>>
    BY <1>1, <2>1, EmptySeq
  <2>3. OthersKeep(g) /\ op'[g] = Idle
    BY <1>2, DoneFacts DEF NextRow, TypeInv
  <2> QED
    BY <2>2, <2>3 DEF Left, Idle
<1>3. CASE Len(o.todo) # 1
  <2>1. t # <<>>
    <3>1. Len(t) # 0 /\ Len(<<>>) = 0
      BY <1>1, <1>3
    <3> QED
      BY <3>1
  <2> HIDE DEF o, t
  <2>3. p \in Op /\ p.stage = s /\ p.todo = t /\ p.h = o.h
    BY <1>1 DEF Op
  <2>4. OthersKeep(g) /\ op'[g] = p
    BY <1>3, <2>3, BecomeFacts DEF NextRow, TypeInv, p, o, t
  <2> QED
    BY <2>1, <2>3, <2>4 DEF Left, o, t
<1> QED
  BY <1>2, <1>3

LEMMA NotifyFacts ==
    ASSUME TypeInv, NEW g \in Goroutines, op[g].stage \in WithRows,
           NEW e \in Stages, NEW s \in Stages, Notify(g, e, s)
    PROVE  \/ /\ op[g].h \in watching /\ OthersKeep(g)
              /\ op'[g].stage = e /\ op'[g].h = op[g].h /\ op'[g].todo = op[g].todo
           \/ op[g].h \notin watching /\ Left(g, s)
<1>1. CASE op[g].h \in watching
  BY <1>1, GoFacts DEF Notify, TypeInv
<1>2. CASE op[g].h \notin watching
  BY <1>2, NextRowFacts DEF Notify
<1> QED
  BY <1>1, <1>2

(* Working is kept by steps of these forms. *)
LEMMA WorkingKept ==
    ASSUME \A k \in Goroutines : Working(k), NEW g \in Goroutines, OthersKeep(g), Working(g)'
    PROVE  \A k \in Goroutines : Working(k)'
  BY DEF OthersKeep, Working

LEMMA WorkingIdle ==
    ASSUME NEW g \in Goroutines, op'[g] = Idle
    PROVE  Working(g)'
  BY DEF Working, Idle, WithRows, OneRow

LEMMA WorkingStarts ==
    ASSUME NEW g \in Goroutines, op'[g].stage \notin WithRows, op'[g].h \in Handles,
           op'[g].todo = <<>>
    PROVE  Working(g)'
  BY DEF Working, WithRows, OneRow

LEMMA WorkingGoesOn ==
    ASSUME NEW g \in Goroutines, Working(g), op[g].stage \in WithRows,
           op'[g].stage \in WithRows, op'[g].stage \in OneRow => op[g].stage \in OneRow,
           op'[g].h = op[g].h, op'[g].todo = op[g].todo,
           op'[g].stage = "write" => op'[g].payload \in Doc
    PROVE  Working(g)'
  BY DEF Working, WithRows

LEMMA WorkingLeft ==
    ASSUME NEW g \in Goroutines, Working(g), op[g].stage \in WithRows,
           NEW s \in WithRows \ OneRow, s # "write", Left(g, s)
    PROVE  Working(g)'
  BY WorkingIdle DEF Working, WithRows, OneRow, Left

-----------------------------------------------------------------------------
(* Types                                                                     *)

LEMMA OfProgram ==
    ASSUME TypeOK
    PROVE  /\ program.goroutines \subseteq Goroutines
           /\ program.docs \subseteq Doc
           /\ program.fields \subseteq {"u", "n"}
<1>1. program \in Program
  BY ProgramsAssumption DEF TypeOK
<1> QED
  BY <1>1 DEF Program

LEMMA SomeDoc == (CHOOSE d \in Doc : TRUE) \in Doc
<1>1. PICK a \in Us, b \in Ns : TRUE
  BY DocsAssumption
<1>2. [u |-> a, n |-> b] \in Doc
  BY DEF Doc
<1> QED
  BY <1>2, Zenon

(* The rows of a table object, and room for new documents. *)
LEMMA RowsFacts ==
    ASSUME TypeOK, NEW h \in Handles
    PROVE  /\ rows[h] \in Seq(Row) /\ Len(rows[h]) \in Nat /\ DOMAIN rows[h] = 1..Len(rows[h])
           /\ \A k \in DOMAIN rows[h] :
                 /\ rows[h][k] \in Row /\ rows[h][k].id \in Ids /\ rows[h][k].ref \in Refs
                 /\ heap[rows[h][k].ref] \in Doc
<1>1. rows[h] \in Seq(Row)
  BY DEF TypeOK
<1>2. Len(rows[h]) \in Nat /\ DOMAIN rows[h] = 1..Len(rows[h])
  BY <1>1, LenProperties
<1>3. ASSUME NEW k \in DOMAIN rows[h] PROVE rows[h][k] \in Row
  BY <1>1, <1>2, <1>3, ElementOfSeq
<1>4. \A k \in DOMAIN rows[h] : rows[h][k].id \in Ids /\ rows[h][k].ref \in Refs
  BY <1>3 DEF Row
<1> QED
  BY <1>1, <1>2, <1>3, <1>4 DEF TypeOK

LEMMA DiskFacts ==
    ASSUME TypeOK
    PROVE  /\ disk.rows \in Seq(DiskRow) /\ Len(disk.rows) \in Nat
           /\ DOMAIN disk.rows = 1..Len(disk.rows)
           /\ \A k \in DOMAIN disk.rows :
                 /\ disk.rows[k] \in DiskRow /\ disk.rows[k].id \in Ids
                 /\ disk.rows[k].doc \in Doc
<1>1. disk.rows \in Seq(DiskRow)
  BY DEF TypeOK
<1>2. Len(disk.rows) \in Nat /\ DOMAIN disk.rows = 1..Len(disk.rows)
  BY <1>1, LenProperties
<1>3. ASSUME NEW k \in DOMAIN disk.rows PROVE disk.rows[k] \in DiskRow
  BY <1>1, <1>2, <1>3, ElementOfSeq
<1>4. \A k \in DOMAIN disk.rows : disk.rows[k].id \in Ids /\ disk.rows[k].doc \in Doc
  BY <1>3 DEF DiskRow
<1> QED
  BY <1>1, <1>2, <1>3, <1>4

LEMMA FreeFacts ==
    /\ Len(FreeSeq) \in Nat /\ DOMAIN FreeSeq = 1..Len(FreeSeq)
    /\ \A k \in 1..Len(FreeSeq) : FreeSeq[k] \in Free /\ FreeSeq[k] \in Refs
    /\ \A j, k \in 1..Len(FreeSeq) : FreeSeq[j] = FreeSeq[k] => j = k
    /\ Free # {} => Len(FreeSeq) > 0
<1> DEFINE n == Cardinality(Free)
<1>1. Free \subseteq Refs
  BY Zenon DEF Free
<1>0. Free \in SUBSET Int
  BY <1>1, RefsAssumption
<1>2. IsFiniteSet(Free)
  BY <1>1, RefsAssumption, FS_Subset
<1>3. /\ n \in Nat /\ FreeSeq \in [1..n -> Free]
      /\ \A i, j \in 1..n : i < j => FreeSeq[i] < FreeSeq[j]
      /\ \A x \in Free : \E k \in 1..n : FreeSeq[k] = x
  BY <1>0, <1>2, AscendingFacts DEF FreeSeq
<1>4. Len(FreeSeq) = n
  BY <1>3
<1>5. ASSUME NEW j \in 1..n, NEW k \in 1..n, FreeSeq[j] = FreeSeq[k] PROVE j = k
  <2>1. FreeSeq[j] \in Int
    BY <1>0, <1>3
  <2>2. ~(j < k) /\ ~(k < j)
    BY <1>3, <1>5, <2>1
  <2> QED
    BY <1>3, <2>2
<1>6. Free # {} => n > 0
  BY <1>3
<1>7. \A k \in 1..n : FreeSeq[k] \in Free /\ FreeSeq[k] \in Refs
  BY <1>1, <1>3
<1> QED
  BY <1>3, <1>4, <1>5, <1>6, <1>7

LEMMA MatchingFacts ==
    ASSUME TypeOK, NEW h \in Handles, NEW filter, NEW onlyFirst \in BOOLEAN
    PROVE  Matching(h, filter, onlyFirst) \in SUBSET (1..Len(rows[h]))
<1> DEFINE all == {k \in DOMAIN rows[h] : <<rows[h][k].id, heap[rows[h][k].ref].u>> \in filter}
<1>1. DOMAIN rows[h] = 1..Len(rows[h]) /\ Len(rows[h]) \in Nat
  BY RowsFacts
<1>2. all \in SUBSET (1..Len(rows[h]))
  BY <1>1
<1> HIDE DEF all
<1>3. IsFiniteSet(all) /\ all \in SUBSET Int
  <2>1. IsFiniteSet(1..Len(rows[h])) /\ 1..Len(rows[h]) \in SUBSET Int
    BY <1>1, FS_Interval
  <2> QED
    BY <1>2, <2>1, FS_Subset
<1>4. ASSUME all # {} PROVE Min(all) \in all
  <2>1. \E m \in all : \A y \in all : m <= y
    BY <1>3, <1>4, LeastOf
  <2> QED
    BY <2>1 DEF Min
<1>5. Matching(h, filter, onlyFirst) = IF onlyFirst /\ all # {} THEN {Min(all)} ELSE all
  BY DEF Matching, all
<1> QED
  BY <1>2, <1>4, <1>5

LEMMA PickedRows ==
    ASSUME TypeOK, NEW h \in Handles, NEW K \in SUBSET (1..Len(rows[h]))
    PROVE  /\ Picked(rows[h], K) \in Seq(Row)
           /\ K # {} => Picked(rows[h], K) # <<>>
<1>1. rows[h] \in Seq(Row)
  BY DEF TypeOK
<1>2. /\ Picked(rows[h], K) \in Seq(Row)
      /\ Len(Picked(rows[h], K)) = Cardinality(K) /\ Cardinality(K) \in Nat
      /\ \A x \in K : \E k \in 1..Cardinality(K) : Ascending(K)[k] = x
  BY <1>1, PickedFacts
<1>3. ASSUME K # {} PROVE Len(Picked(rows[h], K)) # 0
  <2>1. PICK x \in K : TRUE
    BY <1>3
  <2> QED
    BY <1>2, <2>1
<1>4. Len(<<>>) = 0
  OBVIOUS
<1> QED
  BY <1>2, <1>3, <1>4

(* The part of the type invariant that most steps leave alone. *)
RestTyped ==
    /\ unique \subseteq Handles /\ handed \subseteq Handles /\ watching \subseteq Handles
    /\ current \in Handles \cup {NoHandle}

LEMMA TypesOfParts ==
    ASSUME program \in Programs,
           disk \in [table : BOOLEAN, index : BOOLEAN, rows : Seq(DiskRow)],
           heap \in [Refs -> Doc], rows \in [Handles -> Seq(Row)],
           loaded \in [Handles -> BOOLEAN], RestTyped, view \in [Ids -> Doc \cup {NoDoc}],
           op \in [Goroutines -> Op], \A g \in Goroutines : Working(g)
    PROVE  TypeInv
  BY DEF TypeInv, TypeOK, RestTyped

LEMMA TypesInitially == Init => TypeInv
<1> SUFFICES ASSUME Init PROVE TypeInv
  OBVIOUS
<1>1. <<>> \in Seq(DiskRow) /\ <<>> \in Seq(Row)
  BY EmptySeq
<1>2. program \in Programs /\ program.existing \in BOOLEAN
  BY ProgramsAssumption DEF Init, Program
<1>3. disk \in [table : BOOLEAN, index : BOOLEAN, rows : Seq(DiskRow)]
  BY <1>1, <1>2 DEF Init
<1>4. heap \in [Refs -> Doc]
  BY SomeDoc DEF Init
<1>5. rows \in [Handles -> Seq(Row)] /\ loaded \in [Handles -> BOOLEAN]
  BY <1>1 DEF Init
<1>6. RestTyped /\ view \in [Ids -> Doc \cup {NoDoc}]
  BY DEF Init, RestTyped
<1>7. op \in [Goroutines -> Op]
  BY OpFields DEF Init
<1>8. \A g \in Goroutines : Working(g)
  BY DEF Init, Working, Idle, WithRows, OneRow
<1> QED
  BY <1>2, <1>3, <1>4, <1>5, <1>6, <1>7, <1>8, TypesOfParts

(* How the steps of one kind keep the types: they change op, and little else *)
LEMMA TypesIfOnlyOp ==
    ASSUME TypeInv, NEW g \in Goroutines, OthersKeep(g), Working(g)',
           UNCHANGED <<program, disk, heap, rows, loaded>>, RestTyped',
           view' \in [Ids -> Doc \cup {NoDoc}]
    PROVE  TypeInv'
<1>1. \A k \in Goroutines : Working(k)'
  BY WorkingKept DEF TypeInv
<1> QED
  BY <1>1 DEF TypeInv, TypeOK, OthersKeep, RestTyped

LEMMA TypesIfOpAndDisk ==
    ASSUME TypeInv, NEW g \in Goroutines, OthersKeep(g), Working(g)',
           disk' \in [table : BOOLEAN, index : BOOLEAN, rows : Seq(DiskRow)],
           UNCHANGED <<program, heap, rows, loaded, registry, watcher>>
    PROVE  TypeInv'
<1>1. \A k \in Goroutines : Working(k)'
  BY WorkingKept DEF TypeInv
<1> QED
  BY <1>1 DEF TypeInv, TypeOK, OthersKeep, registry, watcher

LEMMA TypesIfOpAndMemory ==
    ASSUME TypeInv, NEW g \in Goroutines, OthersKeep(g), Working(g)',
           disk' \in [table : BOOLEAN, index : BOOLEAN, rows : Seq(DiskRow)],
           heap' \in [Refs -> Doc], rows' \in [Handles -> Seq(Row)],
           loaded' \in [Handles -> BOOLEAN], UNCHANGED <<program, registry, watcher>>
    PROVE  TypeInv'
<1>1. \A k \in Goroutines : Working(k)'
  BY WorkingKept DEF TypeInv
<1> QED
  BY <1>1 DEF TypeInv, TypeOK, OthersKeep, registry, watcher

LEMMA TableTypes ==
    ASSUME TypeInv, NEW g \in Goroutines, Table(g), UNCHANGED program
    PROVE  TypeInv'
<1>1. <<>> \in Seq(Row)
  BY EmptySeq
<1>2. PICK h \in Handles \ handed : /\ current' = h /\ handed' = handed \cup {h}
                                    /\ rows' = [rows EXCEPT ![h] = <<>>]
                                    /\ loaded' = [loaded EXCEPT ![h] = FALSE]
                                    /\ unique' = unique \ {h}
                                    /\ watching' = watching \ {h}
  BY DEF Table
<1>3. UNCHANGED <<disk, heap, view, op>>
  BY DEF Table
<1>4. rows' \in [Handles -> Seq(Row)] /\ loaded' \in [Handles -> BOOLEAN] /\ RestTyped'
  BY <1>1, <1>2 DEF TypeInv, TypeOK, RestTyped
<1>5. \A k \in Goroutines : Working(k)'
  BY <1>3 DEF TypeInv, Working
<1> QED
  BY <1>3, <1>4, <1>5 DEF TypeInv, TypeOK, RestTyped

LEMMA EnsureLoadedTypes ==
    ASSUME TypeInv, NEW g \in Goroutines, NEW h \in Handles, EnsureLoaded(g, h), UNCHANGED program
    PROVE  TypeInv'
<1>1. /\ OthersKeep(g) /\ op'[g].stage = "ready" /\ op'[g].h = h /\ op'[g].todo = <<>>
  BY StartFacts DEF EnsureLoaded, TypeInv, Stages
<1>2. Working(g)'
  BY <1>1, WorkingStarts DEF WithRows
<1>3. disk' \in [table : BOOLEAN, index : BOOLEAN, rows : Seq(DiskRow)]
  BY DEF EnsureLoaded, TypeInv, TypeOK
<1>4. UNCHANGED <<program, registry, watcher>>
  BY DEF EnsureLoaded
<1>5. CASE loaded[h]
  <2>1. UNCHANGED <<heap, rows, loaded>>
    BY <1>5 DEF EnsureLoaded, memory
  <2> QED
    BY <1>1, <1>2, <1>3, <1>4, <2>1, TypesIfOpAndMemory DEF TypeInv, TypeOK
<1>6. CASE ~loaded[h]
  <2> DEFINE s == [k \in DOMAIN disk.rows |-> [id |-> disk.rows[k].id, ref |-> FreeSeq[k]]]
  <2>1. /\ DOMAIN disk.rows = 1..Len(disk.rows) /\ Len(disk.rows) \in Nat
        /\ \A k \in DOMAIN disk.rows : disk.rows[k].id \in Ids /\ disk.rows[k].doc \in Doc
    BY DiskFacts DEF TypeInv
  <2>2. Len(disk.rows) <= Len(FreeSeq)
    BY <1>6 DEF EnsureLoaded
  <2>3. \A k \in DOMAIN disk.rows : FreeSeq[k] \in Refs
    BY <2>1, <2>2, FreeFacts
  <2>4. s \in Seq(Row)
    <3>1. \A k \in 1..Len(disk.rows) : [id |-> disk.rows[k].id, ref |-> FreeSeq[k]] \in Row
      BY <2>1, <2>3 DEF Row
    <3>2. s \in [1..Len(disk.rows) -> Row]
      BY <2>1, <3>1
    <3> QED
      BY <2>1, <3>2, SeqDef
  <2>5. /\ rows' = [rows EXCEPT ![h] = s] /\ loaded' = [loaded EXCEPT ![h] = TRUE]
        /\ heap' = [r \in Refs |->
                       IF \E k \in DOMAIN disk.rows : FreeSeq[k] = r
                       THEN disk.rows[CHOOSE k \in DOMAIN disk.rows : FreeSeq[k] = r].doc
                       ELSE heap[r]]
    BY <1>6 DEF EnsureLoaded
  <2>6. rows' \in [Handles -> Seq(Row)] /\ loaded' \in [Handles -> BOOLEAN]
    BY <2>4, <2>5 DEF TypeInv, TypeOK
  <2>7. heap' \in [Refs -> Doc]
    <3>1. heap \in [Refs -> Doc]
      BY DEF TypeInv, TypeOK
    <3> QED
      BY <2>1, <2>5, <3>1
  <2> QED
    BY <1>1, <1>2, <1>3, <1>4, <2>6, <2>7, TypesIfOpAndMemory
<1> QED
  BY <1>5, <1>6 DEF TypeInv, TypeOK

LEMMA CheckInsertTypes ==
    ASSUME TypeInv, NEW g \in Goroutines, NEW id \in Ids, NEW doc \in program.docs,
           CheckInsert(g, id, doc), UNCHANGED program
    PROVE  TypeInv'
<1>1. UNCHANGED <<disk, rows, loaded, registry, watcher>>
  BY DEF CheckInsert
<1>2. doc \in Doc
  BY OfProgram DEF TypeInv
<1>3. CASE Done(g) /\ UNCHANGED heap
  <2>1. OthersKeep(g) /\ Working(g)'
    BY <1>3, DoneFacts, WorkingIdle DEF TypeInv
  <2> QED
    BY <1>1, <1>3, <2>1, TypesIfOpAndMemory DEF TypeInv, TypeOK
<1>4. CASE ~(Done(g) /\ UNCHANGED heap)
  <2> DEFINE t == <<[id |-> id, ref |-> FreeSeq[1]]>>
             p == [op[g] EXCEPT !.stage = "insert", !.todo = t]
  <2>1. FreeSeq[1] \in Refs
    BY <1>4, FreeFacts DEF CheckInsert
  <2>2. t \in Seq(Row) /\ Len(t) = 1 /\ t # <<>>
    BY <2>1 DEF Row
  <2>3. heap' = [heap EXCEPT ![FreeSeq[1]] = doc] /\ Become(g, p)
    BY <1>4 DEF CheckInsert
  <2>4. op[g] \in Op /\ op[g].h \in Handles
    BY DEF TypeInv, TypeOK, CheckInsert, At, Working
  <2> HIDE DEF t
  <2>5. p \in Op /\ p.stage = "insert" /\ p.todo = t /\ p.h = op[g].h
    BY <2>2, <2>4 DEF Op, Stages
  <2> HIDE DEF p
  <2>6. OthersKeep(g) /\ op'[g] = p
    BY <2>3, <2>5, BecomeFacts DEF TypeInv
  <2>7. Working(g)'
    BY <2>2, <2>4, <2>5, <2>6 DEF Working, WithRows
  <2>8. heap' \in [Refs -> Doc]
    BY <1>2, <2>3 DEF TypeInv, TypeOK
  <2> QED
    BY <1>1, <2>6, <2>7, <2>8, TypesIfOpAndMemory DEF TypeInv, TypeOK
<1> QED
  BY <1>3, <1>4

LEMMA StoreInsertTypes ==
    ASSUME TypeInv, NEW g \in Goroutines, StoreInsert(g), UNCHANGED program
    PROVE  TypeInv'
<1> DEFINE row == [id |-> op[g].todo[1].id, doc |-> heap[op[g].todo[1].ref]]
<1>1. op[g].stage = "insert" /\ op[g].stage \in WithRows
  BY DEF StoreInsert, At, WithRows
<1>2. UNCHANGED <<heap, rows, loaded, registry, watcher>>
  BY DEF StoreInsert, memory
<1>3. row \in DiskRow
  <2>1. op[g].todo[1].id \in Ids /\ op[g].todo[1].ref \in Refs
    BY <1>1, WithRowsFacts
  <2> QED
    BY <2>1 DEF DiskRow, TypeInv, TypeOK
<1>4. CASE Done(g) /\ UNCHANGED disk
  <2>1. OthersKeep(g) /\ Working(g)'
    BY <1>4, DoneFacts, WorkingIdle DEF TypeInv
  <2> QED
    BY <1>2, <1>4, <2>1, TypesIfOpAndDisk DEF TypeInv, TypeOK
<1>5. CASE ~(Done(g) /\ UNCHANGED disk)
  <2>1. disk' = [disk EXCEPT !.rows = Append(@, row)] /\ Go(g, "append")
    BY <1>5 DEF StoreInsert
  <2>2. Append(disk.rows, row) \in Seq(DiskRow)
    BY <1>3, AppendFacts DEF TypeInv, TypeOK
  <2>3. disk' \in [table : BOOLEAN, index : BOOLEAN, rows : Seq(DiskRow)]
    BY <2>1, <2>2 DEF TypeInv, TypeOK
  <2>4. /\ OthersKeep(g)
        /\ op'[g].stage = "append" /\ op'[g].h = op[g].h /\ op'[g].todo = op[g].todo
    BY <2>1, GoFacts DEF TypeInv, Stages
  <2>5. Working(g)'
    BY <1>1, <2>4, WorkingGoesOn DEF TypeInv, WithRows, OneRow
  <2> QED
    BY <1>2, <2>3, <2>4, <2>5, TypesIfOpAndDisk
<1> QED
  BY <1>4, <1>5

(* A step that tells the watcher, or goes on to the next row. *)
LEMMA NotifyWorking ==
    ASSUME TypeInv, NEW g \in Goroutines, op[g].stage \in WithRows,
           NEW e \in WithRows \ {"write"}, e \in OneRow => op[g].stage \in OneRow,
           NEW s \in {"idle", "marshal", "delete"},
           s = "idle" => op[g].stage \in OneRow, Notify(g, e, s)
    PROVE  OthersKeep(g) /\ Working(g)'
<1>1. e \in Stages /\ s \in Stages
  BY DEF WithRows, OneRow, Stages
<1>2. CASE /\ OthersKeep(g)
           /\ op'[g].stage = e /\ op'[g].h = op[g].h /\ op'[g].todo = op[g].todo
  BY <1>2, WorkingGoesOn DEF TypeInv
<1>3. CASE Left(g, s) /\ s # "idle"
  BY <1>3, WorkingLeft DEF TypeInv, Left, WithRows, OneRow
<1>4. CASE Left(g, s) /\ s = "idle"
  <2>1. Len(op[g].todo) = 1
    BY <1>4 DEF TypeInv, Working
  <2>2. Len(Tail(op[g].todo)) = 0
    BY <2>1, WithRowsFacts
  <2>3. Tail(op[g].todo) = <<>>
    BY <2>2, WithRowsFacts, EmptySeq
  <2>4. op'[g] = Idle
    BY <1>4, <2>3 DEF Left
  <2> QED
    BY <1>4, <2>4, WorkingIdle DEF Left
<1> QED
  BY <1>1, <1>2, <1>3, <1>4, NotifyFacts

LEMMA AppendRowTypes ==
    ASSUME TypeInv, NEW g \in Goroutines, AppendRow(g), UNCHANGED program
    PROVE  TypeInv'
<1>1. op[g].stage = "append" /\ op[g].stage \in WithRows /\ op[g].stage \in OneRow
  BY DEF AppendRow, At, WithRows, OneRow
<1>2. op[g].h \in Handles /\ op[g].todo[1] \in Row
  BY <1>1, WithRowsFacts
<1>3. Append(rows[op[g].h], op[g].todo[1]) \in Seq(Row)
  BY <1>2, AppendFacts DEF TypeInv, TypeOK
<1>4. rows' = [rows EXCEPT ![op[g].h] = Append(rows[op[g].h], op[g].todo[1])]
  BY DEF AppendRow
<1>5. rows' \in [Handles -> Seq(Row)]
  BY <1>3, <1>4 DEF TypeInv, TypeOK
<1>6. OthersKeep(g) /\ Working(g)'
  BY <1>1, NotifyWorking DEF AppendRow, WithRows
<1>7. UNCHANGED <<disk, heap, loaded, registry, watcher>>
  BY DEF AppendRow
<1> QED
  BY <1>5, <1>6, <1>7, TypesIfOpAndMemory DEF TypeInv, TypeOK

LEMMA UpdateRowsTypes ==
    ASSUME TypeInv, NEW g \in Goroutines, NEW filter, NEW onlyFirst \in BOOLEAN,
           NEW field \in program.fields, NEW val \in IF field = "u" THEN Us ELSE Ns,
           UpdateRows(g, filter, field, val, onlyFirst), UNCHANGED program
    PROVE  TypeInv'
<1> DEFINE h == op[g].h
           hit == Matching(h, filter, onlyFirst)
           t == Picked(rows[h], hit)
<1>1. h \in Handles /\ op[g] \in Op
  BY DEF UpdateRows, At, TypeInv, TypeOK, Working
<1>2. hit \in SUBSET (1..Len(rows[h]))
  BY <1>1, MatchingFacts DEF TypeInv
<1>3. t \in Seq(Row) /\ (hit # {} => t # <<>>)
  BY <1>1, <1>2, PickedRows DEF TypeInv
<1>4. heap' \in [Refs -> Doc]
  <2>1. \A d \in Doc : [d EXCEPT ![field] = val] \in Doc
    <3>1. field \in {"u", "n"}
      BY OfProgram DEF TypeInv
    <3>2. CASE field = "u"
      BY <3>2 DEF Doc
    <3>3. CASE field = "n"
      BY <3>3 DEF Doc
    <3> QED
      BY <3>1, <3>2, <3>3
  <2>2. heap' = [r \in Refs |-> IF \E k \in hit : rows[h][k].ref = r
                                THEN [heap[r] EXCEPT ![field] = val] ELSE heap[r]]
    BY DEF UpdateRows
  <2>3. \A r \in Refs : heap[r] \in Doc
    BY DEF TypeInv, TypeOK
  <2>4. \A r \in Refs : (IF \E k \in hit : rows[h][k].ref = r
                         THEN [heap[r] EXCEPT ![field] = val] ELSE heap[r]) \in Doc
    BY <2>1, <2>3
  <2> HIDE DEF hit, h
  <2> QED
    BY <2>2, <2>4
<1>5. OthersKeep(g) /\ Working(g)'
  <2>1. CASE hit = {}
    BY <2>1, DoneFacts, WorkingIdle DEF UpdateRows, TypeInv
  <2>2. CASE hit # {}
    <3> DEFINE p == [op[g] EXCEPT !.stage = "marshal", !.todo = t]
    <3>1. Become(g, p)
      BY <2>2 DEF UpdateRows
    <3> HIDE DEF t, hit
    <3>2. p \in Op /\ p.stage = "marshal" /\ p.todo = t /\ p.h = h
      BY <1>1, <1>3 DEF Op, Stages
    <3> HIDE DEF p
    <3>3. OthersKeep(g) /\ op'[g] = p
      BY <3>1, <3>2, BecomeFacts DEF TypeInv
    <3> QED
      BY <1>1, <1>3, <2>2, <3>2, <3>3 DEF Working, WithRows, OneRow
  <2> QED
    BY <2>1, <2>2
<1>6. UNCHANGED <<disk, rows, loaded, registry, watcher>>
  BY DEF UpdateRows
<1> QED
  BY <1>4, <1>5, <1>6, TypesIfOpAndMemory DEF TypeInv, TypeOK

(* What Marshal does to the operation. *)
LEMMA MarshalFacts ==
    ASSUME TypeInv, NEW g \in Goroutines, Marshal(g)
    PROVE  /\ op[g].stage = "marshal" /\ op[g].stage \in WithRows /\ OthersKeep(g)
           /\ op'[g].stage = "write" /\ op'[g].h = op[g].h /\ op'[g].todo = op[g].todo
           /\ op'[g].payload = heap[op[g].todo[1].ref]
<1> DEFINE d == heap[op[g].todo[1].ref]
           p == [op[g] EXCEPT !.stage = "write", !.payload = d]
<1>1. op[g].stage = "marshal" /\ op[g].stage \in WithRows
  BY DEF Marshal, At, WithRows
<1>2. op[g] \in Op /\ d \in Doc
  <2>1. op[g].todo[1].ref \in Refs
    BY <1>1, WithRowsFacts
  <2> QED
    BY <2>1 DEF TypeInv, TypeOK
<1>3. Become(g, p)
  BY DEF Marshal
<1> HIDE DEF d
<1>4. p \in Op /\ p.stage = "write" /\ p.todo = op[g].todo /\ p.h = op[g].h /\ p.payload = d
  BY <1>2 DEF Op, Stages
<1> HIDE DEF p
<1>5. OthersKeep(g) /\ op'[g] = p
  BY <1>3, <1>4, BecomeFacts DEF TypeInv
<1> QED
  BY <1>1, <1>4, <1>5 DEF d

LEMMA MarshalTypes ==
    ASSUME TypeInv, NEW g \in Goroutines, Marshal(g), UNCHANGED program
    PROVE  TypeInv'
<1>1. Working(g)'
  <2>1. heap[op[g].todo[1].ref] \in Doc
    BY MarshalFacts, WithRowsFacts DEF TypeInv, TypeOK
  <2> QED
    BY <2>1, MarshalFacts, WorkingGoesOn DEF TypeInv, WithRows, OneRow
<1> QED
  BY <1>1, MarshalFacts, TypesIfOpAndDisk DEF Marshal, memory, TypeInv, TypeOK

(* What WriteUpdate leaves in SQLite: the same rows, one of them changed.   *)
LEMMA WriteUpdateDisk ==
    ASSUME TypeInv, NEW g \in Goroutines, WriteUpdate(g)
    PROVE  /\ disk'.table = disk.table /\ disk'.index = disk.index
           /\ disk'.rows \in Seq(DiskRow) /\ DOMAIN disk'.rows = DOMAIN disk.rows
           /\ disk' \in [table : BOOLEAN, index : BOOLEAN, rows : Seq(DiskRow)]
           /\ \A k \in DOMAIN disk.rows :
                 /\ disk'.rows[k].id = disk.rows[k].id
                 /\ disk.rows[k].id # op[g].todo[1].id => disk'.rows[k] = disk.rows[k]
                 /\ Updatable(op[g].todo[1].id, op[g].payload) /\ disk.rows[k].id = op[g].todo[1].id =>
                       disk'.rows[k].doc = op[g].payload
           /\ ~Updatable(op[g].todo[1].id, op[g].payload) => disk' = disk
<1> DEFINE id == op[g].todo[1].id
           doc == op[g].payload
           s == [k \in DOMAIN disk.rows |->
                   IF disk.rows[k].id = id THEN [id |-> id, doc |-> doc] ELSE disk.rows[k]]
<1>1. op[g].stage = "write" /\ op[g].stage \in WithRows
  BY DEF WriteUpdate, At, WithRows
<1>2. id \in Ids /\ doc \in Doc
  BY <1>1, WithRowsFacts DEF TypeInv, Working
<1>3. /\ disk.rows \in Seq(DiskRow) /\ DOMAIN disk.rows = 1..Len(disk.rows) /\ Len(disk.rows) \in Nat
      /\ \A k \in DOMAIN disk.rows : disk.rows[k] \in DiskRow
  BY DiskFacts DEF TypeInv
<1>4. s \in Seq(DiskRow)
  <2>1. [id |-> id, doc |-> doc] \in DiskRow
    BY <1>2 DEF DiskRow
  <2> HIDE DEF id, doc
  <2>2. s \in [1..Len(disk.rows) -> DiskRow]
    BY <1>3, <2>1
  <2> HIDE DEF s
  <2> QED
    BY <1>3, <2>2, SeqDef
<1>5. CASE Updatable(id, doc)
  <2>1. disk' = [disk EXCEPT !.rows = s]
    BY <1>5 DEF WriteUpdate
  <2>2. disk'.rows = s /\ disk'.table = disk.table /\ disk'.index = disk.index
    BY <2>1 DEF TypeInv, TypeOK
  <2>3. disk' \in [table : BOOLEAN, index : BOOLEAN, rows : Seq(DiskRow)]
    BY <1>4, <2>1 DEF TypeInv, TypeOK
  <2>4. \A k \in DOMAIN disk.rows :
           /\ s[k].id = disk.rows[k].id
           /\ disk.rows[k].id # id => s[k] = disk.rows[k]
           /\ disk.rows[k].id = id => s[k].doc = doc
    OBVIOUS
  <2>5. DOMAIN s = DOMAIN disk.rows
    OBVIOUS
  <2> HIDE DEF s
  <2> QED
    BY <1>4, <1>5, <2>2, <2>3, <2>4, <2>5
<1>6. CASE ~Updatable(id, doc)
  <2>1. disk' = disk
    BY <1>6 DEF WriteUpdate
  <2> QED
    BY <1>3, <1>6, <2>1 DEF TypeInv, TypeOK
<1> QED
  BY <1>5, <1>6

LEMMA WriteUpdateTypes ==
    ASSUME TypeInv, NEW g \in Goroutines, WriteUpdate(g), UNCHANGED program
    PROVE  TypeInv'
<1>1. op[g].stage = "write" /\ op[g].stage \in WithRows
  BY DEF WriteUpdate, At, WithRows
<1>2. OthersKeep(g) /\ Working(g)'
  BY <1>1, NotifyWorking DEF WriteUpdate, WithRows, OneRow
<1> QED
  BY <1>2, WriteUpdateDisk, TypesIfOpAndDisk DEF WriteUpdate, memory

LEMMA DeleteRowsTypes ==
    ASSUME TypeInv, NEW g \in Goroutines, NEW filter, NEW onlyFirst \in BOOLEAN,
           DeleteRows(g, filter, onlyFirst), UNCHANGED program
    PROVE  TypeInv'
<1> DEFINE h == op[g].h
           hit == Matching(h, filter, onlyFirst)
           t == Picked(rows[h], hit)
           kept == DOMAIN rows[h] \ hit
<1>1. h \in Handles /\ op[g] \in Op
  BY DEF DeleteRows, At, TypeInv, TypeOK, Working
<1>2. hit \in SUBSET (1..Len(rows[h])) /\ kept \in SUBSET (1..Len(rows[h]))
  BY <1>1, MatchingFacts, RowsFacts DEF TypeInv
<1>3. t \in Seq(Row) /\ (hit # {} => t # <<>>)
  BY <1>1, <1>2, PickedRows DEF TypeInv
<1>4. Picked(rows[h], kept) \in Seq(Row)
  BY <1>1, <1>2, PickedRows DEF TypeInv
<1>5. rows' = [rows EXCEPT ![h] = Picked(rows[h], kept)]
  BY DEF DeleteRows
<1>6. rows' \in [Handles -> Seq(Row)]
  BY <1>4, <1>5 DEF TypeInv, TypeOK
<1>7. OthersKeep(g) /\ Working(g)'
  <2>1. CASE hit = {}
    BY <2>1, DoneFacts, WorkingIdle DEF DeleteRows, TypeInv
  <2>2. CASE hit # {}
    <3> DEFINE p == [op[g] EXCEPT !.stage = "delete", !.todo = t]
    <3>1. Become(g, p)
      BY <2>2 DEF DeleteRows
    <3> HIDE DEF t, hit
    <3>2. p \in Op /\ p.stage = "delete" /\ p.todo = t /\ p.h = h
      BY <1>1, <1>3 DEF Op, Stages
    <3> HIDE DEF p
    <3>3. OthersKeep(g) /\ op'[g] = p
      BY <3>1, <3>2, BecomeFacts DEF TypeInv
    <3> QED
      BY <1>1, <1>3, <2>2, <3>2, <3>3 DEF Working, WithRows, OneRow
  <2> QED
    BY <2>1, <2>2
<1>8. UNCHANGED <<disk, heap, loaded, registry, watcher>>
  BY DEF DeleteRows
<1> QED
  BY <1>6, <1>7, <1>8, TypesIfOpAndMemory DEF TypeInv, TypeOK

(* DELETE takes the row of an id out of SQLite, in their order.             *)
OthersOf(id) == {k \in DOMAIN disk.rows : disk.rows[k].id # id}
LEMMA WithoutFacts ==
    ASSUME TypeInv, NEW id
    PROVE  /\ Without(id) \in [table : BOOLEAN, index : BOOLEAN, rows : Seq(DiskRow)]
           /\ Without(id).table = disk.table /\ Without(id).index = disk.index
           /\ Without(id).rows = Picked(disk.rows, OthersOf(id))
           /\ OthersOf(id) \in SUBSET (1..Len(disk.rows))
<1>1. disk.rows \in Seq(DiskRow) /\ DOMAIN disk.rows = 1..Len(disk.rows)
  BY DiskFacts DEF TypeInv
<1>2. OthersOf(id) \in SUBSET (1..Len(disk.rows))
  BY <1>1 DEF OthersOf
<1>3. Picked(disk.rows, OthersOf(id)) \in Seq(DiskRow)
  BY <1>1, <1>2, PickedFacts
<1>4. Without(id) = [disk EXCEPT !.rows = Picked(disk.rows, OthersOf(id))]
  BY DEF Without, OthersOf
<1> QED
  BY <1>2, <1>3, <1>4 DEF TypeInv, TypeOK

LEMMA DeleteRowTypes ==
    ASSUME TypeInv, NEW g \in Goroutines, DeleteRow(g), UNCHANGED program
    PROVE  TypeInv'
<1>1. op[g].stage = "delete" /\ op[g].stage \in WithRows
  BY DEF DeleteRow, At, WithRows
<1>2. OthersKeep(g) /\ Working(g)'
  BY <1>1, NotifyWorking DEF DeleteRow, WithRows, OneRow
<1> QED
  BY <1>2, WithoutFacts, TypesIfOpAndDisk DEF DeleteRow, memory

(* The steps of an operation that works through no rows.                    *)
LEMMA WholeTypes ==
    ASSUME TypeInv, NEW g \in Goroutines, UNCHANGED program,
           \/ \E h \in Handles : ClearDisk(g, h) \/ DropDisk(g, h) \/ SetSchema(g, h)
           \/ ClearRows(g) \/ DropRows(g) \/ DbDropDisk(g) \/ DbForget(g)
           \/ CreateIndex(g) \/ Query(g) \/ Watch(g)
           \/ \E h \in Handles : Unwatch(g, h)
    PROVE  TypeInv'
<1>0. <<>> \in Seq(DiskRow) /\ <<>> \in Seq(Row) /\ Dropped \in [table : BOOLEAN, index : BOOLEAN, rows : Seq(DiskRow)]
  BY EmptySeq DEF Dropped
<1>1. ASSUME NEW h \in Handles, ClearDisk(g, h) PROVE TypeInv'
  <2>1. OthersKeep(g) /\ Working(g)'
    <3>1. OthersKeep(g) /\ op'[g].stage = "clear" /\ op'[g].h = h /\ op'[g].todo = <<>>
      BY <1>1, StartFacts DEF ClearDisk, TypeInv, Stages
    <3> QED
      BY <3>1, WorkingStarts DEF WithRows
  <2>2. disk' \in [table : BOOLEAN, index : BOOLEAN, rows : Seq(DiskRow)]
    BY <1>0, <1>1 DEF ClearDisk, TypeInv, TypeOK
  <2> QED
    BY <1>1, <2>1, <2>2, TypesIfOpAndDisk DEF ClearDisk, memory
<1>2. ASSUME NEW h \in Handles, DropDisk(g, h) PROVE TypeInv'
  <2>1. OthersKeep(g) /\ Working(g)'
    <3>1. OthersKeep(g) /\ op'[g].stage = "drop" /\ op'[g].h = h /\ op'[g].todo = <<>>
      BY <1>2, StartFacts DEF DropDisk, TypeInv, Stages
    <3> QED
      BY <3>1, WorkingStarts DEF WithRows
  <2> QED
    BY <1>0, <1>2, <2>1, TypesIfOpAndDisk DEF DropDisk, memory
<1>3. ASSUME NEW h \in Handles, SetSchema(g, h) PROVE TypeInv'
  <2>1. OthersKeep(g) /\ Working(g)'
    <3>1. OthersKeep(g) /\ op'[g].stage = "index" /\ op'[g].h = h /\ op'[g].todo = <<>>
      BY <1>3, StartFacts DEF SetSchema, TypeInv, Stages
    <3> QED
      BY <3>1, WorkingStarts DEF WithRows
  <2>2. RestTyped' /\ UNCHANGED <<disk, heap, rows, loaded, view>>
    BY <1>3 DEF SetSchema, memory, watcher, TypeInv, TypeOK, RestTyped
  <2> QED
    BY <2>1, <2>2, TypesIfOnlyOp DEF TypeInv, TypeOK
<1>4. ASSUME ClearRows(g) PROVE TypeInv'
  <2>1. OthersKeep(g) /\ Working(g)'
    BY <1>4, DoneFacts, WorkingIdle DEF ClearRows, TypeInv
  <2>2. rows' \in [Handles -> Seq(Row)] /\ loaded' \in [Handles -> BOOLEAN]
    BY <1>0, <1>4 DEF ClearRows, TypeInv, TypeOK
  <2> QED
    BY <1>4, <2>1, <2>2, TypesIfOpAndMemory DEF ClearRows, TypeInv, TypeOK
<1>5. ASSUME DropRows(g) PROVE TypeInv'
  <2>1. OthersKeep(g) /\ op'[g] = Idle
    BY <1>5, DoneFacts DEF DropRows, TypeInv
  <2>2. \A k \in Goroutines : Working(k)'
    BY <2>1, WorkingIdle, WorkingKept DEF TypeInv
  <2>3. rows' \in [Handles -> Seq(Row)] /\ loaded' \in [Handles -> BOOLEAN]
    BY <1>0, <1>5 DEF DropRows, TypeInv, TypeOK
  <2>4. RestTyped' /\ UNCHANGED <<disk, heap, view>>
    BY <1>5 DEF DropRows, TypeInv, TypeOK, RestTyped
  <2> QED
    BY <2>1, <2>2, <2>3, <2>4 DEF TypeInv, TypeOK, RestTyped, OthersKeep
<1>6. ASSUME DbDropDisk(g) PROVE TypeInv'
  <2>1. /\ OthersKeep(g) /\ op'[g].stage = "dbdrop" /\ op'[g].h = op[g].h /\ op'[g].todo = op[g].todo
    BY <1>6, GoFacts DEF DbDropDisk, TypeInv, Stages
  <2>2. op[g].todo = <<>>
    BY <1>6 DEF DbDropDisk, At, TypeInv, Working, WithRows
  <2>3. Working(g)'
    BY <2>1, <2>2 DEF Working, WithRows, OneRow
  <2> QED
    BY <1>0, <1>6, <2>1, <2>3, TypesIfOpAndDisk DEF DbDropDisk, memory
<1>7. ASSUME DbForget(g) PROVE TypeInv'
  <2>1. OthersKeep(g) /\ Working(g)'
    BY <1>7, DoneFacts, WorkingIdle DEF DbForget, TypeInv
  <2>2. RestTyped' /\ UNCHANGED <<disk, heap, rows, loaded, view>>
    BY <1>7 DEF DbForget, memory, watcher, TypeInv, TypeOK, RestTyped
  <2> QED
    BY <2>1, <2>2, TypesIfOnlyOp DEF TypeInv, TypeOK
<1>8. ASSUME CreateIndex(g) PROVE TypeInv'
  <2>1. OthersKeep(g) /\ Working(g)'
    BY <1>8, DoneFacts, WorkingIdle DEF CreateIndex, TypeInv
  <2>2. disk' \in [table : BOOLEAN, index : BOOLEAN, rows : Seq(DiskRow)]
    <3>1. (disk.index \/ (disk.table /\ Distinct(disk.rows))) \in BOOLEAN
      OBVIOUS
    <3> DEFINE b == disk.index \/ (disk.table /\ Distinct(disk.rows))
    <3>2. disk' = [disk EXCEPT !.index = b]
      BY <1>8 DEF CreateIndex
    <3> HIDE DEF b
    <3> QED
      BY <3>1, <3>2 DEF TypeInv, TypeOK, b
  <2> QED
    BY <1>8, <2>1, <2>2, TypesIfOpAndDisk DEF CreateIndex, memory
<1>9. ASSUME Query(g) PROVE TypeInv'
  <2>1. OthersKeep(g) /\ Working(g)'
    BY <1>9, DoneFacts, WorkingIdle DEF Query, TypeInv
  <2> QED
    BY <1>9, <2>1, TypesIfOpAndDisk DEF Query, memory, TypeInv, TypeOK
<1>10. ASSUME Watch(g) PROVE TypeInv'
  <2> DEFINE h == op[g].h
  <2>1. OthersKeep(g) /\ Working(g)'
    BY <1>10, DoneFacts, WorkingIdle DEF Watch, TypeInv
  <2>2. h \in Handles
    BY <1>10 DEF Watch, At, TypeInv, Working
  <2>3. AsMap(Read(h)) \in [Ids -> Doc \cup {NoDoc}]
    <3>1. \A k \in DOMAIN rows[h] : heap[rows[h][k].ref] \in Doc
      BY <2>2, RowsFacts DEF TypeInv
    <3>2. DOMAIN Read(h) = DOMAIN rows[h] /\ \A k \in DOMAIN rows[h] : Read(h)[k].doc \in Doc
      BY <3>1 DEF Read
    <3>3. ASSUME NEW i \in Ids, i \in IdsOf(Read(h))
          PROVE  Read(h)[CHOOSE k \in DOMAIN Read(h) : Read(h)[k].id = i].doc \in Doc
      <4>1. \E k \in DOMAIN Read(h) : Read(h)[k].id = i
        BY <3>3 DEF IdsOf
      <4>2. (CHOOSE k \in DOMAIN Read(h) : Read(h)[k].id = i) \in DOMAIN Read(h)
        BY <4>1
      <4> QED
        BY <3>2, <4>2
    <3> QED
      BY <3>3 DEF AsMap
  <2>4. RestTyped' /\ UNCHANGED <<disk, heap, rows, loaded>> /\ view' = AsMap(Read(h))
    BY <1>10, <2>2 DEF Watch, memory, registry, TypeInv, TypeOK, RestTyped
  <2> QED
    BY <2>1, <2>3, <2>4, TypesIfOnlyOp
<1>11. ASSUME NEW h \in Handles, Unwatch(g, h) PROVE TypeInv'
  BY <1>11 DEF Unwatch, memory, registry, TypeInv, TypeOK, Working
<1> QED
  BY <1>1, <1>2, <1>3, <1>4, <1>5, <1>6, <1>7, <1>8, <1>9, <1>10, <1>11

LEMMA NotifiedTypes ==
    ASSUME TypeInv, NEW g \in Goroutines, Notified(g), UNCHANGED program
    PROVE  TypeInv'
<1> DEFINE row == op[g].todo[1]
<1>1. op[g].stage \in {"inserted", "updated", "deleted"} /\ op[g].stage \in WithRows
  BY DEF Notified, At, WithRows
<1>2. row.id \in Ids /\ row.ref \in Refs /\ heap[row.ref] \in Doc
  BY <1>1, WithRowsFacts DEF TypeInv, TypeOK
<1>3. OthersKeep(g) /\ Working(g)'
  <2>1. CASE Done(g)
    BY <2>1, DoneFacts, WorkingIdle DEF TypeInv
  <2>2. CASE NextRow(g, "marshal")
    BY <1>1, <2>2, NextRowFacts, WorkingLeft DEF TypeInv, Left, WithRows, OneRow, Stages
  <2>3. CASE NextRow(g, "delete")
    BY <1>1, <2>3, NextRowFacts, WorkingLeft DEF TypeInv, Left, WithRows, OneRow, Stages
  <2> QED
    BY <2>1, <2>2, <2>3 DEF Notified
<1>4. view' \in [Ids -> Doc \cup {NoDoc}]
  BY <1>2 DEF Notified, TypeInv, TypeOK
<1>5. RestTyped' /\ UNCHANGED <<disk, heap, rows, loaded>>
  BY DEF Notified, memory, registry, TypeInv, TypeOK, RestTyped
<1> QED
  BY <1>3, <1>4, <1>5, TypesIfOnlyOp

LEMMA RestartTypes ==
    ASSUME TypeInv, Restart, UNCHANGED program
    PROVE  TypeInv'
<1>1. <<>> \in Seq(Row)
  BY EmptySeq
<1>2. rows' \in [Handles -> Seq(Row)] /\ loaded' \in [Handles -> BOOLEAN]
  BY <1>1 DEF Restart
<1>3. op' \in [Goroutines -> Op] /\ \A g \in Goroutines : Working(g)'
  BY OpFields DEF Restart, Working, Idle, WithRows, OneRow
<1>4. RestTyped' /\ UNCHANGED <<disk, heap, view>>
  BY DEF Restart, RestTyped
<1> QED
  BY <1>2, <1>3, <1>4 DEF TypeInv, TypeOK, RestTyped

LEMMA TypesKept == TypeInv /\ [Next]_vars => TypeInv'
<1> SUFFICES ASSUME TypeInv, [Next]_vars PROVE TypeInv'
  OBVIOUS
<1>1. CASE UNCHANGED vars
  BY <1>1 DEF vars, TypeInv, TypeOK, Working
<1>2. CASE Restart /\ UNCHANGED program
  BY <1>2, RestartTypes
<1>3. ASSUME NEW g \in program.goroutines, Step(g), UNCHANGED program PROVE TypeInv'
  <2>1. g \in Goroutines
    BY OfProgram DEF TypeInv
  <2>2. CASE Table(g) \/ (\E h \in Handles : EnsureLoaded(g, h)) \/ StoreInsert(g) \/ AppendRow(g)
    BY <1>3, <2>1, <2>2, TableTypes, EnsureLoadedTypes, StoreInsertTypes, AppendRowTypes
  <2>3. CASE \E id \in Ids, doc \in program.docs : CheckInsert(g, id, doc)
    BY <1>3, <2>1, <2>3, CheckInsertTypes
  <2>4. CASE \E filter \in Filters, field \in program.fields, onlyFirst \in BOOLEAN :
               \E val \in IF field = "u" THEN Us ELSE Ns :
                 UpdateRows(g, filter, field, val, onlyFirst)
    BY <1>3, <2>1, <2>4, UpdateRowsTypes
  <2>5. CASE \E filter \in Filters, onlyFirst \in BOOLEAN : DeleteRows(g, filter, onlyFirst)
    BY <1>3, <2>1, <2>5, DeleteRowsTypes
  <2>6. CASE Marshal(g) \/ WriteUpdate(g) \/ DeleteRow(g) \/ Notified(g)
    BY <1>3, <2>1, <2>6, MarshalTypes, WriteUpdateTypes, DeleteRowTypes, NotifiedTypes
  <2>7. CASE \/ \E h \in Handles : ClearDisk(g, h) \/ DropDisk(g, h) \/ SetSchema(g, h)
             \/ ClearRows(g) \/ DropRows(g) \/ DbDropDisk(g) \/ DbForget(g)
             \/ CreateIndex(g) \/ Query(g) \/ Watch(g)
             \/ \E h \in Handles : Unwatch(g, h)
    BY <1>3, <2>1, <2>7, WholeTypes
  <2> QED
    BY <1>3, <2>2, <2>3, <2>4, <2>5, <2>6, <2>7 DEF Step
<1> QED
  BY <1>1, <1>2, <1>3 DEF Next

(* The copies, SQLite's table, the objects and what each operation has      *)
(* still to do are of their types in every reachable state.                 *)
THEOREM TableTypesKept == Spec => []TypeOK
<1>1. TypeInv => TypeOK
  BY DEF TypeInv
<1> QED
  BY <1>1, TypesInitially, TypesKept, PTL DEF Spec

-----------------------------------------------------------------------------
(* What each step of an operation on rows does to the operation              *)

Quiet(g) == OthersKeep(g) /\ op'[g] = Idle
GoesOn(g, s) ==
    /\ OthersKeep(g)
    /\ op'[g].stage = s /\ op'[g].h = op[g].h /\ op'[g].todo = op[g].todo

LEMMA OneRowLeft ==
    ASSUME TypeInv, NEW g \in Goroutines, op[g].stage \in OneRow, NEW s, Left(g, s)
    PROVE  Quiet(g)
<1>1. Len(op[g].todo) = 1 /\ op[g].stage \in WithRows
  BY DEF TypeInv, Working, OneRow, WithRows
<1>2. Len(Tail(op[g].todo)) = 0 /\ Tail(op[g].todo) \in Seq(Row)
  BY <1>1, WithRowsFacts
<1>3. Tail(op[g].todo) = <<>>
  BY <1>2, EmptySeq
<1> QED
  BY <1>3 DEF Left, Quiet

(* A document put where r points to. *)
Put(r, doc) == [heap EXCEPT ![r] = doc]

LEMMA CheckInsertDoes ==
    ASSUME TypeInv, NEW g \in Goroutines, NEW id \in Ids, NEW doc \in program.docs,
           CheckInsert(g, id, doc)
    PROVE  /\ op[g].stage = "ready" /\ Does("insert") /\ op[g].h \in Handles
           /\ UNCHANGED <<disk, rows, loaded, unique, current, handed, watching, view>>
           /\ \/ Quiet(g) /\ UNCHANGED heap
              \/ /\ ~Taken(op[g].h, id, doc.u) /\ doc \in Doc
                 /\ OthersKeep(g) /\ op'[g].stage = "insert" /\ op'[g].h = op[g].h
                 /\ \E r \in Free : /\ r \in Refs
                                    /\ heap' = Put(r, doc)
                                    /\ op'[g].todo = <<[id |-> id, ref |-> r]>>
<1>1. /\ op[g].stage = "ready" /\ Does("insert") /\ op[g].h \in Handles /\ op[g] \in Op
      /\ UNCHANGED <<disk, rows, loaded, unique, current, handed, watching, view>>
  BY DEF CheckInsert, At, TypeInv, TypeOK, Working, registry, watcher
<1>2. CASE Done(g) /\ UNCHANGED heap
  BY <1>1, <1>2, DoneFacts DEF TypeInv, Quiet
<1>3. CASE ~(Done(g) /\ UNCHANGED heap)
  <2> DEFINE t == <<[id |-> id, ref |-> FreeSeq[1]]>>
             p == [op[g] EXCEPT !.stage = "insert", !.todo = t]
  <2>1. FreeSeq[1] \in Free /\ FreeSeq[1] \in Refs
    BY <1>3, FreeFacts DEF CheckInsert
  <2>2. t \in Seq(Row)
    BY <2>1 DEF Row
  <2>3. /\ ~Taken(op[g].h, id, doc.u) /\ heap' = Put(FreeSeq[1], doc)
        /\ Become(g, p)
    BY <1>3 DEF CheckInsert, Put
  <2>4. doc \in Doc
    BY OfProgram DEF TypeInv
  <2>5. \E r \in Free : r \in Refs /\ heap' = Put(r, doc) /\ t = <<[id |-> id, ref |-> r]>>
    BY <2>1, <2>3
  <2> HIDE DEF t
  <2>6. p \in Op /\ p.stage = "insert" /\ p.todo = t /\ p.h = op[g].h
    BY <1>1, <2>2 DEF Op, Stages
  <2> HIDE DEF p
  <2>7. OthersKeep(g) /\ op'[g] = p
    BY <2>3, <2>6, BecomeFacts DEF TypeInv
  <2> QED
    BY <1>1, <2>3, <2>4, <2>5, <2>6, <2>7
<1> QED
  BY <1>2, <1>3

(* The row an insert writes. *)
NewRow(g) == [id |-> op[g].todo[1].id, doc |-> heap[op[g].todo[1].ref]]

LEMMA StoreInsertDoes ==
    ASSUME TypeInv, NEW g \in Goroutines, StoreInsert(g)
    PROVE  /\ op[g].stage = "insert" /\ NewRow(g) \in DiskRow
           /\ UNCHANGED <<heap, rows, loaded, unique, current, handed, watching, view>>
           /\ \/ Quiet(g) /\ UNCHANGED disk
              \/ /\ Insertable(NewRow(g)) /\ GoesOn(g, "append")
                 /\ disk'.rows = Append(disk.rows, NewRow(g))
                 /\ disk'.table = disk.table /\ disk'.index = disk.index
<1>1. op[g].stage = "insert" /\ op[g].stage \in WithRows
  BY DEF StoreInsert, At, WithRows
<1>2. UNCHANGED <<heap, rows, loaded, unique, current, handed, watching, view>>
  BY DEF StoreInsert, memory, registry, watcher
<1>3. NewRow(g) \in DiskRow
  <2>1. op[g].todo[1].id \in Ids /\ op[g].todo[1].ref \in Refs
    BY <1>1, WithRowsFacts
  <2> QED
    BY <2>1 DEF NewRow, DiskRow, TypeInv, TypeOK
<1>4. CASE Done(g) /\ UNCHANGED disk
  BY <1>1, <1>2, <1>3, <1>4, DoneFacts DEF TypeInv, Quiet
<1>5. CASE ~(Done(g) /\ UNCHANGED disk)
  <2>1. disk' = [disk EXCEPT !.rows = Append(@, NewRow(g))] /\ Go(g, "append") /\ Insertable(NewRow(g))
    BY <1>5 DEF StoreInsert, NewRow
  <2>2. GoesOn(g, "append")
    BY <2>1, GoFacts DEF TypeInv, Stages, GoesOn
  <2>3. disk'.rows = Append(disk.rows, NewRow(g)) /\ disk'.table = disk.table /\ disk'.index = disk.index
    BY <2>1 DEF TypeInv, TypeOK
  <2> QED
    BY <1>1, <1>2, <1>3, <2>1, <2>2, <2>3
<1> QED
  BY <1>4, <1>5

LEMMA AppendRowDoes ==
    ASSUME TypeInv, NEW g \in Goroutines, AppendRow(g)
    PROVE  /\ op[g].stage = "append" /\ op[g].h \in Handles /\ op[g].todo[1] \in Row
           /\ rows' = [rows EXCEPT ![op[g].h] = Append(rows[op[g].h], op[g].todo[1])]
           /\ UNCHANGED <<disk, heap, loaded, unique, current, handed, watching, view>>
           /\ \/ op[g].h \notin watching /\ Quiet(g)
              \/ op[g].h \in watching /\ GoesOn(g, "inserted")
<1>1. op[g].stage = "append" /\ op[g].stage \in WithRows /\ op[g].stage \in OneRow
  BY DEF AppendRow, At, WithRows, OneRow
<1>2. \/ op[g].h \notin watching /\ Left(g, "idle")
      \/ op[g].h \in watching /\ GoesOn(g, "inserted")
  BY <1>1, NotifyFacts DEF AppendRow, Stages, GoesOn
<1>3. op[g].h \in Handles /\ op[g].todo[1] \in Row
  BY <1>1, WithRowsFacts
<1> QED
  BY <1>1, <1>2, <1>3, OneRowLeft DEF AppendRow, registry, watcher

(* The rows an update or a delete works through. *)
Hit(g, filter, onlyFirst) == Matching(op[g].h, filter, onlyFirst)
Kept(g, filter, onlyFirst) == (1..Len(rows[op[g].h])) \ Hit(g, filter, onlyFirst)

(* What an update makes of the documents. *)
Rewritten(g, filter, onlyFirst, field, val) ==
    [r \in Refs |-> IF \E k \in Hit(g, filter, onlyFirst) : rows[op[g].h][k].ref = r
                    THEN [heap[r] EXCEPT ![field] = val] ELSE heap[r]]
Values(field) == IF field = "u" THEN Us ELSE Ns

LEMMA UpdateRowsDoes ==
    ASSUME TypeInv, NEW g \in Goroutines, NEW filter, NEW onlyFirst \in BOOLEAN,
           NEW field \in program.fields, NEW val \in Values(field),
           UpdateRows(g, filter, field, val, onlyFirst)
    PROVE  /\ op[g].stage = "ready" /\ Does("update") /\ op[g].h \in Handles
           /\ Hit(g, filter, onlyFirst) \in SUBSET (1..Len(rows[op[g].h]))
           /\ heap' = Rewritten(g, filter, onlyFirst, field, val)
           /\ UNCHANGED <<disk, rows, loaded, unique, current, handed, watching, view>>
           /\ \/ Hit(g, filter, onlyFirst) = {} /\ Quiet(g)
              \/ /\ Hit(g, filter, onlyFirst) # {}
                 /\ OthersKeep(g) /\ op'[g].stage = "marshal" /\ op'[g].h = op[g].h
                 /\ op'[g].todo = Picked(rows[op[g].h], Hit(g, filter, onlyFirst))
<1> DEFINE h == op[g].h
           hit == Hit(g, filter, onlyFirst)
           t == Picked(rows[h], hit)
<1>1. op[g].stage = "ready" /\ Does("update") /\ h \in Handles /\ op[g] \in Op
  BY DEF UpdateRows, At, TypeInv, TypeOK, Working
<1>2. hit \in SUBSET (1..Len(rows[h]))
  BY <1>1, MatchingFacts DEF TypeInv, Hit
<1>3. t \in Seq(Row)
  BY <1>1, <1>2, PickedRows DEF TypeInv
<1>4. /\ heap' = Rewritten(g, filter, onlyFirst, field, val)
      /\ UNCHANGED <<disk, rows, loaded, unique, current, handed, watching, view>>
  BY DEF UpdateRows, Hit, Rewritten, registry, watcher
<1>5. CASE hit = {}
  <2>1. Quiet(g)
    BY <1>5, DoneFacts DEF UpdateRows, Hit, TypeInv, Quiet
  <2> QED
    BY <1>1, <1>2, <1>4, <1>5, <2>1
<1>6. CASE hit # {}
  <2> DEFINE p == [op[g] EXCEPT !.stage = "marshal", !.todo = t]
  <2>1. Become(g, p)
    BY <1>6 DEF UpdateRows, Hit
  <2> HIDE DEF t
  <2>2. p \in Op /\ p.stage = "marshal" /\ p.todo = t /\ p.h = h
    BY <1>1, <1>3 DEF Op, Stages
  <2> HIDE DEF p
  <2>3. OthersKeep(g) /\ op'[g] = p
    BY <2>1, <2>2, BecomeFacts DEF TypeInv
  <2> QED
    BY <1>1, <1>2, <1>4, <1>6, <2>2, <2>3 DEF t
<1> QED
  BY <1>5, <1>6

LEMMA DeleteRowsDoes ==
    ASSUME TypeInv, NEW g \in Goroutines, NEW filter, NEW onlyFirst \in BOOLEAN,
           DeleteRows(g, filter, onlyFirst)
    PROVE  /\ op[g].stage = "ready" /\ op[g].h \in Handles
           /\ Hit(g, filter, onlyFirst) \in SUBSET (1..Len(rows[op[g].h]))
           /\ Kept(g, filter, onlyFirst) \in SUBSET (1..Len(rows[op[g].h]))
           /\ rows' = [rows EXCEPT ![op[g].h] = Picked(rows[op[g].h], Kept(g, filter, onlyFirst))]
           /\ UNCHANGED <<disk, heap, loaded, unique, current, handed, watching, view>>
           /\ \/ Hit(g, filter, onlyFirst) = {} /\ Quiet(g)
              \/ /\ Hit(g, filter, onlyFirst) # {}
                 /\ OthersKeep(g) /\ op'[g].stage = "delete" /\ op'[g].h = op[g].h
                 /\ op'[g].todo = Picked(rows[op[g].h], Hit(g, filter, onlyFirst))
<1> DEFINE h == op[g].h
           hit == Hit(g, filter, onlyFirst)
           kept == Kept(g, filter, onlyFirst)
           t == Picked(rows[h], hit)
<1>1. op[g].stage = "ready" /\ h \in Handles /\ op[g] \in Op
  BY DEF DeleteRows, At, TypeInv, TypeOK, Working
<1>2. hit \in SUBSET (1..Len(rows[h])) /\ kept \in SUBSET (1..Len(rows[h]))
  BY <1>1, MatchingFacts DEF TypeInv, Hit, Kept
<1>3. t \in Seq(Row) /\ DOMAIN rows[h] = 1..Len(rows[h])
  BY <1>1, <1>2, PickedRows, RowsFacts DEF TypeInv
<1>4. /\ rows' = [rows EXCEPT ![h] = Picked(rows[h], kept)]
      /\ UNCHANGED <<disk, heap, loaded, unique, current, handed, watching, view>>
  BY <1>3 DEF DeleteRows, Hit, Kept, registry, watcher
<1>5. CASE hit = {}
  <2>1. Quiet(g)
    BY <1>5, DoneFacts DEF DeleteRows, Hit, TypeInv, Quiet
  <2> QED
    BY <1>1, <1>2, <1>4, <1>5, <2>1
<1>6. CASE hit # {}
  <2> DEFINE p == [op[g] EXCEPT !.stage = "delete", !.todo = t]
  <2>1. Become(g, p)
    BY <1>6 DEF DeleteRows, Hit
  <2> HIDE DEF t
  <2>2. p \in Op /\ p.stage = "delete" /\ p.todo = t /\ p.h = h
    BY <1>1, <1>3 DEF Op, Stages
  <2> HIDE DEF p
  <2>3. OthersKeep(g) /\ op'[g] = p
    BY <2>1, <2>2, BecomeFacts DEF TypeInv
  <2> QED
    BY <1>1, <1>2, <1>4, <1>6, <2>2, <2>3 DEF t
<1> QED
  BY <1>5, <1>6

LEMMA WriteUpdateDoes ==
    ASSUME TypeInv, NEW g \in Goroutines, WriteUpdate(g)
    PROVE  /\ op[g].stage = "write"
           /\ UNCHANGED <<heap, rows, loaded, unique, current, handed, watching, view>>
           /\ \/ op[g].h \notin watching /\ Left(g, "marshal")
              \/ op[g].h \in watching /\ GoesOn(g, "updated")
<1>1. op[g].stage = "write" /\ op[g].stage \in WithRows
  BY DEF WriteUpdate, At, WithRows
<1>2. \/ op[g].h \notin watching /\ Left(g, "marshal")
      \/ op[g].h \in watching /\ GoesOn(g, "updated")
  BY <1>1, NotifyFacts DEF WriteUpdate, Stages, GoesOn
<1> QED
  BY <1>1, <1>2 DEF WriteUpdate, memory, registry, watcher

LEMMA DeleteRowDoes ==
    ASSUME TypeInv, NEW g \in Goroutines, DeleteRow(g)
    PROVE  /\ op[g].stage = "delete"
           /\ disk'.rows = Picked(disk.rows, OthersOf(op[g].todo[1].id))
           /\ disk'.table = disk.table /\ disk'.index = disk.index
           /\ UNCHANGED <<heap, rows, loaded, unique, current, handed, watching, view>>
           /\ \/ op[g].h \notin watching /\ Left(g, "delete")
              \/ op[g].h \in watching /\ GoesOn(g, "deleted")
<1>1. op[g].stage = "delete" /\ op[g].stage \in WithRows
  BY DEF DeleteRow, At, WithRows
<1>2. \/ op[g].h \notin watching /\ Left(g, "delete")
      \/ op[g].h \in watching /\ GoesOn(g, "deleted")
  BY <1>1, NotifyFacts DEF DeleteRow, Stages, GoesOn
<1> QED
  BY <1>1, <1>2, WithoutFacts DEF DeleteRow, memory, registry, watcher

LEMMA NotifiedDoes ==
    ASSUME TypeInv, NEW g \in Goroutines, Notified(g)
    PROVE  /\ op[g].stage \in {"inserted", "updated", "deleted"}
           /\ UNCHANGED <<disk, heap, rows, loaded, unique, current, handed, watching>>
           /\ op[g].stage = "inserted" => Quiet(g)
           /\ op[g].stage = "updated" => Left(g, "marshal")
           /\ op[g].stage = "deleted" => Left(g, "delete")
           /\ view' = [view EXCEPT ![op[g].todo[1].id] =
                         IF op[g].stage = "deleted" THEN NoDoc ELSE heap[op[g].todo[1].ref]]
<1>1. op[g].stage \in {"inserted", "updated", "deleted"} /\ op[g].stage \in WithRows
  BY DEF Notified, At, WithRows
<1>2. UNCHANGED <<disk, heap, rows, loaded, unique, current, handed, watching>>
  BY DEF Notified, memory, registry
<1>3. op[g].stage = "inserted" => Quiet(g)
  BY DoneFacts DEF Notified, At, TypeInv, Quiet
<1>4. op[g].stage = "updated" => Left(g, "marshal")
  BY <1>1, NextRowFacts DEF Notified, At, Stages
<1>5. op[g].stage = "deleted" => Left(g, "delete")
  BY <1>1, NextRowFacts DEF Notified, At, Stages
<1>6. view' = [view EXCEPT ![op[g].todo[1].id] =
                 IF op[g].stage = "deleted" THEN NoDoc ELSE heap[op[g].todo[1].ref]]
  BY DEF Notified, At
<1> QED
  BY <1>1, <1>2, <1>3, <1>4, <1>5, <1>6

-----------------------------------------------------------------------------
(* Operations on one table object                                            *)

(* One goroutine that uses the table.                                        *)
Solo(p) == \A g, k \in p.goroutines : g = k

(* Programs that clear and drop a table when no other goroutine uses it, and *)
(* do not use the objects of dropped tables.                                 *)
Whole == {"clear", "drop", "dbdrop"}
Careful(p) ==
    /\ "keepdropped" \notin p.operations
    /\ p.operations \cap Whole # {} => Solo(p)

(* An operation is one of a goroutine of the program, on the table object it *)
(* was given, which has loaded the table unless all of the table goes.       *)
Under == WithRows \cup {"ready"}
OpFine(g) ==
    /\ op[g].stage # "idle" => g \in program.goroutines
    /\ op[g].stage \notin {"idle", "dbdrop"} => op[g].h \in handed
    /\ op[g].stage \in Under => loaded[op[g].h] /\ disk.table
    /\ op[g].stage \in Whole => Solo(program) /\ disk.rows = <<>>

OpsInv ==
    /\ handed \subseteq {current}
    /\ \A g \in Goroutines : OpFine(g)
    /\ \A h \in Handles : ~loaded[h] => rows[h] = <<>>

LEMMA OthersIdle ==
    ASSUME OpsInv, Solo(program), NEW g \in program.goroutines
    PROVE  \A k \in Goroutines \ {g} : op[k].stage = "idle"
  BY DEF OpsInv, OpFine, Solo

(* Query, inserts, updates, deletes and what they tell the watcher. *)
RowStep(g) ==
    \/ Query(g) \/ StoreInsert(g) \/ AppendRow(g) \/ Marshal(g) \/ WriteUpdate(g)
    \/ DeleteRow(g) \/ Notified(g) \/ Watch(g)
    \/ \E id \in Ids, doc \in program.docs : CheckInsert(g, id, doc)
    \/ \E filter \in Filters, field \in program.fields, onlyFirst \in BOOLEAN :
         \E val \in Values(field) :
           UpdateRows(g, filter, field, val, onlyFirst)
    \/ \E filter \in Filters, onlyFirst \in BOOLEAN : DeleteRows(g, filter, onlyFirst)

LEMMA RowStepDoes ==
    ASSUME TypeInv, NEW g \in Goroutines, RowStep(g)
    PROVE  /\ op[g].stage \in Under /\ OthersKeep(g)
           /\ op'[g] = Idle \/ (op'[g].stage \in WithRows /\ op'[g].h = op[g].h)
           /\ UNCHANGED <<loaded, unique, current, handed>> /\ disk'.table = disk.table
           /\ \A h \in Handles : h # op[g].h => rows'[h] = rows[h]
<1> USE DEF Under, WithRows
<1>1. CASE Query(g)
  <2>1. Quiet(g)
    BY <1>1, DoneFacts DEF Query, TypeInv, Quiet
  <2> QED
    BY <1>1, <2>1 DEF Query, At, Quiet, memory, registry
<1>2. CASE Watch(g)
  <2>1. Quiet(g)
    BY <1>2, DoneFacts DEF Watch, TypeInv, Quiet
  <2> QED
    BY <1>2, <2>1 DEF Watch, At, Quiet, memory, registry
<1>3. CASE StoreInsert(g)
  BY <1>3, StoreInsertDoes DEF Quiet, GoesOn
<1>4. CASE AppendRow(g)
  <2>1. \A h \in Handles : h # op[g].h => rows'[h] = rows[h]
    BY <1>4, AppendRowDoes DEF TypeInv, TypeOK
  <2> QED
    BY <1>4, <2>1, AppendRowDoes DEF Quiet, GoesOn
<1>5. CASE Marshal(g)
  BY <1>5, MarshalFacts DEF Marshal, memory, registry
<1>6. CASE WriteUpdate(g)
  BY <1>6, WriteUpdateDoes, WriteUpdateDisk DEF Left, GoesOn
<1>7. CASE DeleteRow(g)
  BY <1>7, DeleteRowDoes DEF Left, GoesOn
<1>8. CASE Notified(g)
  BY <1>8, NotifiedDoes DEF Left, Quiet
<1>9. ASSUME NEW id \in Ids, NEW doc \in program.docs, CheckInsert(g, id, doc)
      PROVE  /\ op[g].stage \in Under /\ OthersKeep(g)
             /\ op'[g] = Idle \/ (op'[g].stage \in WithRows /\ op'[g].h = op[g].h)
             /\ UNCHANGED <<loaded, unique, current, handed>> /\ disk'.table = disk.table
             /\ \A h \in Handles : h # op[g].h => rows'[h] = rows[h]
  BY <1>9, CheckInsertDoes DEF Quiet
<1>10. ASSUME NEW filter \in Filters, NEW field \in program.fields, NEW onlyFirst \in BOOLEAN,
              NEW val \in Values(field),
              UpdateRows(g, filter, field, val, onlyFirst)
       PROVE  /\ op[g].stage \in Under /\ OthersKeep(g)
              /\ op'[g] = Idle \/ (op'[g].stage \in WithRows /\ op'[g].h = op[g].h)
              /\ UNCHANGED <<loaded, unique, current, handed>> /\ disk'.table = disk.table
              /\ \A h \in Handles : h # op[g].h => rows'[h] = rows[h]
  <2>1. op[g].stage = "ready" /\ UNCHANGED <<disk, rows, loaded, unique, current, handed>>
    BY <1>10, UpdateRowsDoes
  <2>2. Quiet(g) \/ (OthersKeep(g) /\ op'[g].stage = "marshal" /\ op'[g].h = op[g].h)
    BY <1>10, UpdateRowsDoes
  <2> QED
    BY <2>1, <2>2 DEF Quiet
<1>11. ASSUME NEW filter \in Filters, NEW onlyFirst \in BOOLEAN, DeleteRows(g, filter, onlyFirst)
       PROVE  /\ op[g].stage \in Under /\ OthersKeep(g)
              /\ op'[g] = Idle \/ (op'[g].stage \in WithRows /\ op'[g].h = op[g].h)
              /\ UNCHANGED <<loaded, unique, current, handed>> /\ disk'.table = disk.table
              /\ \A h \in Handles : h # op[g].h => rows'[h] = rows[h]
  <2> DEFINE h0 == op[g].h
             s == Picked(rows[h0], Kept(g, filter, onlyFirst))
  <2>1. rows' = [rows EXCEPT ![h0] = s]
    BY <1>11, DeleteRowsDoes
  <2> HIDE DEF s
  <2>2. \A h \in Handles : h # h0 => rows'[h] = rows[h]
    BY <2>1 DEF TypeInv, TypeOK
  <2> HIDE DEF h0
  <2> QED
    BY <1>11, <2>2, DeleteRowsDoes DEF Quiet, h0
<1> QED
  BY <1>1, <1>2, <1>3, <1>4, <1>5, <1>6, <1>7, <1>8, <1>9, <1>10, <1>11 DEF RowStep

LEMMA OpsInitially == Init => OpsInv
  BY DEF Init, OpsInv, OpFine, Idle, Under, WithRows, Whole

LEMMA OpIdle ==
    ASSUME NEW g \in Goroutines, op'[g] = Idle
    PROVE  OpFine(g)'
  BY DEF OpFine, Idle, Under, WithRows, Whole

(* The other operations are as they were, and so is what they rely on. *)
LEMMA OpsKept ==
    ASSUME OpsInv, NEW g \in Goroutines, g \in program.goroutines, OthersKeep(g), OpFine(g)',
           UNCHANGED <<program, current, handed>>, disk.table => disk'.table,
           \A h \in handed : loaded[h] => loaded'[h],
           \A h \in Handles : ~loaded'[h] => rows'[h] = <<>>
    PROVE  OpsInv'
<1>1. ASSUME NEW k \in Goroutines \ {g} PROVE OpFine(k)'
  <2>1. op'[k] = op[k] /\ OpFine(k)
    BY DEF OthersKeep, OpsInv
  <2>2. op[k].stage \notin Whole
    BY <2>1, OthersIdle DEF OpFine, Whole
  <2> QED
    BY <2>1, <2>2 DEF OpFine, Under, WithRows
<1> QED
  BY <1>1 DEF OpsInv

LEMMA OpsAlone ==
    ASSUME OpsInv, Solo(program), NEW g \in Goroutines, g \in program.goroutines,
           OthersKeep(g), OpFine(g)',
           UNCHANGED program, handed' \subseteq {current'},
           \A h \in Handles : ~loaded'[h] => rows'[h] = <<>>
    PROVE  OpsInv'
<1>1. ASSUME NEW k \in Goroutines \ {g} PROVE OpFine(k)'
  <2>1. op'[k].stage = "idle"
    BY OthersIdle DEF OthersKeep
  <2> QED
    BY <2>1 DEF OpFine, Under, WithRows, Whole
<1> QED
  BY <1>1 DEF OpsInv

LEMMA RowStepOps ==
    ASSUME TypeInv, OpsInv, NEW g \in Goroutines, g \in program.goroutines,
           RowStep(g), UNCHANGED program
    PROVE  OpsInv'
<1>1. OpFine(g) /\ op[g].h \in Handles
  BY RowStepDoes DEF OpsInv, TypeInv, Working, Under, WithRows
<1>2. OpFine(g)'
  <2>1. CASE op'[g] = Idle
    BY <2>1, OpIdle
  <2>2. CASE op'[g].stage \in WithRows /\ op'[g].h = op[g].h
    <3>1. loaded[op[g].h] /\ disk.table /\ op[g].h \in handed
      BY <1>1, RowStepDoes DEF OpFine, Under, WithRows
    <3>2. UNCHANGED <<loaded, handed>> /\ disk'.table = disk.table
      BY RowStepDoes
    <3> QED
      BY <2>2, <3>1, <3>2 DEF OpFine, Under, WithRows, Whole
  <2> QED
    BY <2>1, <2>2, RowStepDoes
<1>3. loaded[op[g].h]
  BY <1>1, RowStepDoes DEF OpFine
<1>4. \A h \in Handles : ~loaded'[h] => rows'[h] = <<>>
  BY <1>3, RowStepDoes DEF OpsInv
<1> QED
  BY <1>2, <1>4, RowStepDoes, OpsKept

LEMMA TableOps ==
    ASSUME TypeInv, OpsInv, NEW g \in Goroutines, Table(g), UNCHANGED program
    PROVE  OpsInv'
<1>1. handed = {}
  BY HandlesAssumption DEF Table, OpsInv, TypeInv, TypeOK
<1>2. PICK h \in Handles \ handed : /\ current' = h /\ handed' = handed \cup {h}
                                    /\ rows' = [rows EXCEPT ![h] = <<>>]
                                    /\ loaded' = [loaded EXCEPT ![h] = FALSE]
  BY DEF Table
<1>3. UNCHANGED <<disk, op>>
  BY DEF Table
<1>4. ASSUME NEW k \in Goroutines PROVE OpFine(k)'
  <2>1. op[k].stage \in {"idle", "dbdrop"} /\ OpFine(k)
    BY <1>1 DEF OpsInv, OpFine
  <2> QED
    BY <1>3, <2>1 DEF OpFine, Under, WithRows
<1>5. \A k \in Handles : ~loaded'[k] => rows'[k] = <<>>
  BY <1>2 DEF OpsInv, TypeInv, TypeOK
<1> QED
  BY <1>1, <1>2, <1>4, <1>5 DEF OpsInv

(* What EnsureLoaded leaves in memory. *)
LoadedRow(k) == [id |-> disk.rows[k].id, ref |-> FreeSeq[k]]
LEMMA EnsureLoadedDoes ==
    ASSUME TypeInv, NEW g \in Goroutines, NEW h \in Handles, EnsureLoaded(g, h)
    PROVE  /\ op[g].stage = "idle" /\ h \in handed /\ OthersKeep(g)
           /\ op'[g].stage = "ready" /\ op'[g].h = h /\ op'[g].todo = <<>>
           /\ UNCHANGED <<unique, current, handed, watching, view>>
           /\ disk'.table /\ disk'.rows = disk.rows /\ disk'.index = disk.index
           /\ \/ loaded[h] /\ UNCHANGED <<heap, rows, loaded>>
              \/ /\ ~loaded[h] /\ loaded' = [loaded EXCEPT ![h] = TRUE]
                 /\ rows' = [rows EXCEPT ![h] = [k \in DOMAIN disk.rows |-> LoadedRow(k)]]
                 /\ \A k \in DOMAIN disk.rows :
                       FreeSeq[k] \in Free /\ FreeSeq[k] \in Refs /\ heap'[FreeSeq[k]] = disk.rows[k].doc
                 /\ \A r \in Refs \ Free : heap'[r] = heap[r]
                 /\ \A j, k \in DOMAIN disk.rows : FreeSeq[j] = FreeSeq[k] => j = k
<1>1. OthersKeep(g) /\ op'[g].stage = "ready" /\ op'[g].h = h /\ op'[g].todo = <<>>
  BY StartFacts DEF EnsureLoaded, TypeInv, Stages
<1>2. /\ op[g].stage = "idle" /\ h \in handed
      /\ UNCHANGED <<unique, current, handed, watching, view>>
      /\ disk'.table /\ disk'.rows = disk.rows /\ disk'.index = disk.index
  BY DEF EnsureLoaded, At, registry, watcher, TypeInv, TypeOK
<1>3. CASE loaded[h]
  BY <1>1, <1>2, <1>3 DEF EnsureLoaded, memory
<1>4. CASE ~loaded[h]
  <2>1. DOMAIN disk.rows = 1..Len(disk.rows) /\ Len(disk.rows) \in Nat
    BY DiskFacts DEF TypeInv
  <2>2. /\ Len(disk.rows) <= Len(FreeSeq) /\ loaded' = [loaded EXCEPT ![h] = TRUE]
        /\ rows' = [rows EXCEPT ![h] = [k \in DOMAIN disk.rows |-> LoadedRow(k)]]
        /\ heap' = [r \in Refs |->
                      IF \E k \in DOMAIN disk.rows : FreeSeq[k] = r
                      THEN disk.rows[CHOOSE k \in DOMAIN disk.rows : FreeSeq[k] = r].doc
                      ELSE heap[r]]
    BY <1>4 DEF EnsureLoaded, LoadedRow
  <2>3. \A k \in DOMAIN disk.rows : k \in 1..Len(FreeSeq)
    BY <2>1, <2>2, FreeFacts
  <2>4. \A k \in DOMAIN disk.rows : FreeSeq[k] \in Free /\ FreeSeq[k] \in Refs
    BY <2>3, FreeFacts
  <2>5. \A j, k \in DOMAIN disk.rows : FreeSeq[j] = FreeSeq[k] => j = k
    BY <2>3, FreeFacts
  <2>6. ASSUME NEW k \in DOMAIN disk.rows PROVE heap'[FreeSeq[k]] = disk.rows[k].doc
    <3>1. (CHOOSE j \in DOMAIN disk.rows : FreeSeq[j] = FreeSeq[k]) = k
      BY <2>5, <2>6
    <3> QED
      BY <2>2, <2>4, <3>1
  <2>7. \A r \in Refs \ Free : heap'[r] = heap[r]
    BY <2>2, <2>4
  <2> QED
    BY <1>1, <1>2, <1>4, <2>2, <2>4, <2>5, <2>6, <2>7
<1> QED
  BY <1>3, <1>4

LEMMA EnsureLoadedOps ==
    ASSUME TypeInv, OpsInv, NEW g \in Goroutines, g \in program.goroutines, NEW h \in Handles,
           EnsureLoaded(g, h), UNCHANGED program
    PROVE  OpsInv'
<1>1. /\ h \in handed /\ OthersKeep(g) /\ op'[g].stage = "ready" /\ op'[g].h = h
      /\ UNCHANGED <<current, handed>> /\ disk'.table
  BY EnsureLoadedDoes
<1>2. loaded'[h] /\ (\A k \in handed : loaded[k] => loaded'[k]) /\ \A k \in Handles : ~loaded'[k] => rows'[k] = <<>>
  <2>1. CASE loaded[h] /\ UNCHANGED <<heap, rows, loaded>>
    BY <2>1 DEF OpsInv
  <2>2. CASE /\ loaded' = [loaded EXCEPT ![h] = TRUE]
             /\ rows' = [rows EXCEPT ![h] = [k \in DOMAIN disk.rows |-> LoadedRow(k)]]
    BY <2>2 DEF OpsInv, TypeInv, TypeOK
  <2> QED
    BY <2>1, <2>2, EnsureLoadedDoes
<1>3. OpFine(g)'
  BY <1>1, <1>2 DEF OpFine, Whole
<1> QED
  BY <1>1, <1>2, <1>3, OpsKept

(* Clearing and dropping, in a program of one goroutine.                     *)
WholeStep(g) ==
    \/ \E h \in Handles : ClearDisk(g, h) \/ DropDisk(g, h)
    \/ ClearRows(g) \/ DropRows(g) \/ DbDropDisk(g) \/ DbForget(g)

LEMMA WholeStepDoes ==
    ASSUME TypeInv, OpsInv, Careful(program), NEW g \in Goroutines, WholeStep(g)
    PROVE  /\ OthersKeep(g) /\ Solo(program) /\ disk'.rows = <<>> /\ op'[g].todo = <<>>
           /\ op[g].stage \in Whole \cup {"idle"} /\ UNCHANGED <<heap, view>>
           /\ \/ /\ op'[g] = Idle /\ disk' = disk /\ op[g].stage \in Whole
              \/ /\ op[g].stage = "idle" /\ op'[g].stage \in Whole /\ handed # {}
                 /\ op'[g].stage # "dbdrop" => op'[g].h \in handed
                 /\ op'[g].stage = "clear" => (op'[g].h \in watching => Does("clearwatched"))
                 /\ UNCHANGED <<rows, loaded, unique, current, handed, watching>>
           /\ handed' \subseteq {current'}
           /\ \A h \in Handles : /\ rows'[h] \in {rows[h], <<>>}
                                 /\ ~loaded'[h] => rows'[h] = <<>>
           /\ op'[g] = Idle => \A h \in handed' : rows'[h] = <<>>
           /\ disk'.index => disk.index
<1>1. \A h \in Handles : ~loaded[h] => rows[h] = <<>>
  BY DEF OpsInv
<1>2. /\ Does("clear") => Solo(program)
      /\ Does("drop") => Solo(program)
      /\ Does("dbdrop") => Solo(program)
  BY DEF Careful, Does, Whole
<1>3. op[g].stage \in Whole => Solo(program) /\ disk.rows = <<>>
  BY DEF OpsInv, OpFine
<1>4. ASSUME NEW h \in Handles, ClearDisk(g, h) \/ DropDisk(g, h)
      PROVE  /\ OthersKeep(g) /\ op'[g].stage \in Whole /\ op'[g].stage # "dbdrop" /\ op'[g].h = h
             /\ op'[g].todo = <<>> /\ h \in handed /\ op[g].stage = "idle"
             /\ op'[g].stage = "clear" => (op'[g].h \in watching => Does("clearwatched"))
             /\ Solo(program) /\ disk'.rows = <<>>
             /\ disk'.index => disk.index
             /\ UNCHANGED <<heap, rows, loaded, unique, current, handed, watching, view>>
  <2>1. CASE ClearDisk(g, h)
    <3>1. OthersKeep(g) /\ op'[g].stage = "clear" /\ op'[g].h = h /\ op'[g].todo = <<>>
      BY <2>1, StartFacts DEF ClearDisk, TypeInv, Stages
    <3>2. disk'.rows = <<>> /\ disk'.index = disk.index
      BY <2>1 DEF ClearDisk, TypeInv, TypeOK
    <3> QED
      BY <1>2, <2>1, <3>1, <3>2 DEF ClearDisk, At, Whole, memory, registry, watcher
  <2>2. CASE DropDisk(g, h)
    <3>1. OthersKeep(g) /\ op'[g].stage = "drop" /\ op'[g].h = h /\ op'[g].todo = <<>>
      BY <2>2, StartFacts DEF DropDisk, TypeInv, Stages
    <3>2. disk'.rows = <<>> /\ ~disk'.index
      BY <2>2 DEF DropDisk, Dropped
    <3> QED
      BY <1>2, <2>2, <3>1, <3>2 DEF DropDisk, At, Whole, memory, registry, watcher
  <2> QED
    BY <1>4, <2>1, <2>2
<1>5. CASE \E h \in Handles : ClearDisk(g, h) \/ DropDisk(g, h)
  BY <1>1, <1>4, <1>5 DEF OpsInv, Idle, Whole
<1>6. CASE DbDropDisk(g)
  <2>1. OthersKeep(g) /\ op'[g].stage = "dbdrop" /\ op'[g].todo = op[g].todo
    BY <1>6, GoFacts DEF DbDropDisk, TypeInv, Stages
  <2>2. op[g].stage = "idle" /\ op[g].todo = <<>>
    BY <1>6 DEF DbDropDisk, At, TypeInv, Working, WithRows
  <2>3. disk'.rows = <<>> /\ ~disk'.index
    BY <1>6 DEF DbDropDisk, Dropped
  <2>4. UNCHANGED <<heap, rows, loaded, unique, current, handed, watching, view>> /\ handed # {} /\ Solo(program)
    BY <1>2, <1>6 DEF DbDropDisk, memory, registry, watcher
  <2> QED
    BY <1>1, <2>1, <2>2, <2>3, <2>4 DEF Whole, OpsInv, Idle
<1>7. CASE ClearRows(g)
  <2>1. Quiet(g) /\ op[g].stage = "clear"
    BY <1>7, DoneFacts DEF ClearRows, At, TypeInv, Quiet
  <2>2. /\ rows' = [rows EXCEPT ![op[g].h] = <<>>] /\ loaded' = [loaded EXCEPT ![op[g].h] = TRUE]
        /\ UNCHANGED <<disk, heap, view, current, handed>>
    BY <1>7 DEF ClearRows, registry, watcher
  <2>3. \A h \in Handles : rows'[h] \in {rows[h], <<>>} /\ (~loaded'[h] => rows'[h] = <<>>)
    BY <1>1, <2>2 DEF TypeInv, TypeOK
  <2>4. \A h \in handed' : rows'[h] = <<>>
    <3>1. op[g].h \in handed
      BY <2>1 DEF OpsInv, OpFine
    <3> QED
      BY <2>2, <3>1 DEF OpsInv, TypeInv, TypeOK
  <2> QED
    BY <1>3, <2>1, <2>2, <2>3, <2>4 DEF Quiet, Idle, Whole, OpsInv
<1>8. CASE DropRows(g)
  <2>1. Quiet(g) /\ op[g].stage = "drop"
    BY <1>8, DoneFacts DEF DropRows, At, TypeInv, Quiet
  <2>2. /\ rows' = [rows EXCEPT ![op[g].h] = <<>>] /\ loaded' = [loaded EXCEPT ![op[g].h] = FALSE]
        /\ UNCHANGED <<disk, heap, view, current, handed>>
    BY <1>8 DEF DropRows
  <2>3. \A h \in Handles : rows'[h] \in {rows[h], <<>>} /\ (~loaded'[h] => rows'[h] = <<>>)
    BY <1>1, <2>2 DEF TypeInv, TypeOK
  <2>4. \A h \in handed' : rows'[h] = <<>>
    <3>1. op[g].h \in handed
      BY <2>1 DEF OpsInv, OpFine
    <3> QED
      BY <2>2, <3>1 DEF OpsInv, TypeInv, TypeOK
  <2> QED
    BY <1>3, <2>1, <2>2, <2>3, <2>4 DEF Quiet, Idle, Whole, OpsInv
<1>9. CASE DbForget(g)
  <2>1. Quiet(g) /\ op[g].stage = "dbdrop"
    BY <1>9, DoneFacts DEF DbForget, At, TypeInv, Quiet
  <2>2. handed' = {} /\ UNCHANGED <<disk, heap, rows, loaded, view>>
    BY <1>9 DEF DbForget, memory, watcher, Careful, Does, OpsInv
  <2> QED
    BY <1>1, <1>3, <2>1, <2>2 DEF Quiet, Idle, Whole, OpsInv
<1> QED
  BY <1>5, <1>6, <1>7, <1>8, <1>9 DEF WholeStep

LEMMA WholeStepOps ==
    ASSUME TypeInv, OpsInv, Careful(program), NEW g \in Goroutines, g \in program.goroutines,
           WholeStep(g), UNCHANGED program
    PROVE  OpsInv'
<1>1. OpFine(g)'
  <2>1. CASE op'[g] = Idle
    BY <2>1, OpIdle
  <2>2. CASE op'[g].stage \in Whole /\ UNCHANGED handed /\ (op'[g].stage # "dbdrop" => op'[g].h \in handed)
    <3>1. Solo(program) /\ disk'.rows = <<>>
      BY WholeStepDoes
    <3> QED
      BY <2>2, <3>1 DEF OpFine, Under, WithRows, Whole, Solo
  <2> QED
    BY <2>1, <2>2, WholeStepDoes
<1> QED
  BY <1>1, WholeStepDoes, OpsAlone

(* The schema and the watch. *)
OtherStep(g) ==
    \/ CreateIndex(g)
    \/ \E h \in Handles : SetSchema(g, h) \/ Unwatch(g, h)

LEMMA OtherStepDoes ==
    ASSUME TypeInv, NEW g \in Goroutines, OtherStep(g)
    PROVE  /\ OthersKeep(g) /\ op[g].stage \in {"idle", "index"} /\ op'[g].stage \in {"idle", "index"}
           /\ op[g].todo = <<>> /\ op'[g].todo = <<>>
           /\ op'[g].stage = "index" => op'[g].h \in handed
           /\ UNCHANGED <<heap, rows, loaded, current, handed, view>>
           /\ disk'.rows = disk.rows /\ disk'.table = disk.table
<1>1. CASE CreateIndex(g)
  <2>1. Quiet(g) /\ op[g].stage = "index"
    BY <1>1, DoneFacts DEF CreateIndex, At, TypeInv, Quiet
  <2>2. disk'.rows = disk.rows /\ disk'.table = disk.table
    <3> DEFINE b == disk.index \/ (disk.table /\ Distinct(disk.rows))
    <3>1. disk' = [disk EXCEPT !.index = b]
      BY <1>1 DEF CreateIndex
    <3> HIDE DEF b
    <3> QED
      BY <3>1 DEF TypeInv, TypeOK
  <2>3. op[g].todo = <<>>
    BY <2>1 DEF TypeInv, Working, WithRows
  <2> QED
    BY <1>1, <2>1, <2>2, <2>3 DEF CreateIndex, Quiet, Idle, memory, registry, watcher
<1>2. ASSUME NEW h \in Handles, SetSchema(g, h)
      PROVE  /\ OthersKeep(g) /\ op[g].stage = "idle" /\ op'[g].stage = "index"
             /\ op[g].todo = <<>> /\ op'[g].todo = <<>> /\ op'[g].h \in handed
             /\ UNCHANGED <<disk, heap, rows, loaded, current, handed, view>>
  <2>1. OthersKeep(g) /\ op'[g].stage = "index" /\ op'[g].h = h /\ op'[g].todo = <<>>
    BY <1>2, StartFacts DEF SetSchema, TypeInv, Stages
  <2>2. op[g].stage = "idle" /\ op[g].todo = <<>>
    BY <1>2 DEF SetSchema, At, TypeInv, Working, WithRows
  <2> QED
    BY <1>2, <2>1, <2>2 DEF SetSchema, memory, watcher
<1>3. ASSUME NEW h \in Handles, Unwatch(g, h)
      PROVE  /\ OthersKeep(g) /\ op[g].stage = "idle" /\ op'[g].stage = "idle"
             /\ op[g].todo = <<>> /\ op'[g].todo = <<>>
             /\ UNCHANGED <<disk, heap, rows, loaded, current, handed, view>>
  BY <1>3 DEF Unwatch, At, TypeInv, TypeOK, Working, WithRows, OthersKeep, memory, registry
<1> QED
  BY <1>1, <1>2, <1>3 DEF OtherStep

LEMMA OtherStepOps ==
    ASSUME TypeInv, OpsInv, NEW g \in Goroutines, g \in program.goroutines,
           OtherStep(g), UNCHANGED program
    PROVE  OpsInv'
<1>1. OpFine(g)'
  BY OtherStepDoes DEF OpFine, Under, WithRows, Whole
<1>2. \A h \in Handles : ~loaded'[h] => rows'[h] = <<>>
  BY OtherStepDoes DEF OpsInv
<1> QED
  BY <1>1, <1>2, OtherStepDoes, OpsKept

LEMMA RestartOps == ASSUME TypeInv, OpsInv, Restart, UNCHANGED program PROVE OpsInv'
<1>1. \A g \in Goroutines : OpFine(g)'
  BY OpIdle DEF Restart
<1> QED
  BY <1>1 DEF Restart, OpsInv

(* The steps of the program, kind by kind. *)
LEMMA KindsOfSteps ==
    ASSUME TypeInv, [Next]_vars
    PROVE  /\ program' = program
           /\ \/ UNCHANGED vars
              \/ Restart
              \/ \E g \in Goroutines :
                    /\ g \in program.goroutines
                    /\ \/ Table(g)
                       \/ \E h \in Handles : EnsureLoaded(g, h)
                       \/ RowStep(g) \/ WholeStep(g) \/ OtherStep(g)
<1>1. ASSUME NEW g \in program.goroutines, Step(g)
      PROVE  \/ Table(g)
             \/ \E h \in Handles : EnsureLoaded(g, h)
             \/ RowStep(g) \/ WholeStep(g) \/ OtherStep(g)
  <2>1. CASE \/ Query(g) \/ StoreInsert(g) \/ AppendRow(g) \/ Marshal(g) \/ WriteUpdate(g)
             \/ DeleteRow(g) \/ Notified(g) \/ Watch(g)
             \/ \E id \in Ids, doc \in program.docs : CheckInsert(g, id, doc)
             \/ \E filter \in Filters, field \in program.fields, onlyFirst \in BOOLEAN :
                  \E val \in IF field = "u" THEN Us ELSE Ns :
                    UpdateRows(g, filter, field, val, onlyFirst)
             \/ \E filter \in Filters, onlyFirst \in BOOLEAN : DeleteRows(g, filter, onlyFirst)
    BY <2>1, Zenon DEF RowStep, Values
  <2>2. CASE \/ \E h \in Handles : ClearDisk(g, h)
             \/ \E h \in Handles : DropDisk(g, h)
             \/ ClearRows(g) \/ DropRows(g) \/ DbDropDisk(g) \/ DbForget(g)
    BY <2>2, Zenon DEF WholeStep
  <2>3. CASE \/ \E h \in Handles : SetSchema(g, h)
             \/ \E h \in Handles : Unwatch(g, h)
             \/ CreateIndex(g)
    BY <2>3, Zenon DEF OtherStep
  <2>4. CASE Table(g) \/ \E h \in Handles : EnsureLoaded(g, h)
    BY <2>4
  <2> QED
    BY <1>1, <2>1, <2>2, <2>3, <2>4 DEF Step
<1>2. program.goroutines \subseteq Goroutines
  BY OfProgram DEF TypeInv
<1> QED
  BY <1>1, <1>2 DEF Next, vars

LEMMA OpsInvKept ==
    ASSUME TypeInv, OpsInv, Careful(program), [Next]_vars
    PROVE  OpsInv'
<1>1. CASE UNCHANGED vars
  BY <1>1 DEF vars, OpsInv, OpFine
<1>2. CASE Restart
  BY <1>2, RestartOps, KindsOfSteps
<1>3. ASSUME NEW g \in Goroutines, g \in program.goroutines, UNCHANGED program,
             \/ Table(g)
             \/ \E h \in Handles : EnsureLoaded(g, h)
             \/ RowStep(g) \/ WholeStep(g) \/ OtherStep(g)
      PROVE  OpsInv'
  BY <1>3, TableOps, EnsureLoadedOps, RowStepOps, WholeStepOps, OtherStepOps
<1> QED
  BY <1>1, <1>2, <1>3, KindsOfSteps

-----------------------------------------------------------------------------
(* The rows of the copy and those of SQLite                                  *)

OnceIds(s) == \A j, k \in DOMAIN s : s[j].id = s[k].id => j = k

(* Rows appended, picked and taken off the front. *)
LEMMA IdsAppended ==
    ASSUME NEW S, NEW s \in Seq(S), NEW x \in S
    PROVE  /\ IdsOf(Append(s, x)) = IdsOf(s) \cup {x.id}
           /\ OnceIds(s) /\ x.id \notin IdsOf(s) => OnceIds(Append(s, x))
<1> DEFINE n == Len(s)
           t == Append(s, x)
<1>1. /\ t \in Seq(S) /\ Len(t) = n + 1 /\ n \in Nat /\ t[n + 1] = x
      /\ \A i \in 1..n : t[i] = s[i]
  BY AppendFacts
<1>2. DOMAIN s = 1..n /\ DOMAIN t = 1..(n + 1)
  BY <1>1, LenProperties
<1>3. \A i \in 1..(n + 1) : i \in 1..n \/ i = n + 1
  BY <1>1
<1>4. n + 1 \in 1..(n + 1) /\ \A i \in 1..n : i \in 1..(n + 1)
  BY <1>1
<1> HIDE DEF n, t
<1>5. IdsOf(t) = IdsOf(s) \cup {x.id}
  BY <1>1, <1>2, <1>3, <1>4 DEF IdsOf
<1>6. ASSUME OnceIds(s), x.id \notin IdsOf(s) PROVE OnceIds(t)
  BY <1>1, <1>2, <1>3, <1>6 DEF IdsOf, OnceIds
<1> QED
  BY <1>5, <1>6 DEF t

LEMMA IdsPicked ==
    ASSUME NEW S, NEW s \in Seq(S), NEW K \in SUBSET (1..Len(s))
    PROVE  /\ \A i : i \in IdsOf(Picked(s, K)) <=> \E k \in K : s[k].id = i
           /\ OnceIds(s) => OnceIds(Picked(s, K))
           /\ \A j \in DOMAIN Picked(s, K) : \E k \in K : Picked(s, K)[j] = s[k]
<1> DEFINE t == Picked(s, K)
           m == Cardinality(K)
           a == Ascending(K)
<1>1. /\ t \in Seq(S) /\ Len(t) = m /\ m \in Nat
      /\ \A k \in 1..m : a[k] \in K /\ t[k] = s[a[k]]
      /\ \A i, j \in 1..m : i < j => a[i] < a[j]
      /\ \A x \in K : \E k \in 1..m : a[k] = x
  BY PickedFacts
<1>2. DOMAIN t = 1..m /\ DOMAIN s = 1..Len(s)
  BY <1>1, LenProperties
<1>0. \A x \in K : x \in Nat /\ x \in DOMAIN s
  BY <1>2, LenProperties
<1> HIDE DEF t, m, a
<1>3. ASSUME NEW i \in 1..m, NEW j \in 1..m, a[i] = a[j] PROVE i = j
  <2>1. a[i] \in Nat
    BY <1>1, <1>0
  <2>2. ~(i < j) /\ ~(j < i)
    <3>1. ~(a[i] < a[j]) /\ ~(a[j] < a[i])
      BY <1>3, <2>1
    <3> QED
      BY <1>1, <3>1
  <2>3. i \in Nat /\ j \in Nat
    BY <1>1
  <2> QED
    BY <2>2, <2>3
<1>4. \A i : i \in IdsOf(t) <=> \E k \in K : s[k].id = i
  <2>1. \A i : i \in IdsOf(t) <=> \E j \in 1..m : t[j].id = i
    BY <1>2 DEF IdsOf
  <2>2. \A i : (\E j \in 1..m : t[j].id = i) => \E k \in K : s[k].id = i
    <3> SUFFICES ASSUME NEW j \in 1..m PROVE \E k \in K : s[k].id = t[j].id
      OBVIOUS
    <3>1. a[j] \in K /\ t[j] = s[a[j]]
      BY <1>1
    <3> QED
      BY <3>1
  <2>3. \A i : (\E k \in K : s[k].id = i) => \E j \in 1..m : t[j].id = i
    <3> SUFFICES ASSUME NEW k \in K PROVE \E j \in 1..m : t[j].id = s[k].id
      OBVIOUS
    <3>1. PICK j \in 1..m : a[j] = k
      BY <1>1
    <3> QED
      BY <1>1, <3>1
  <2> QED
    BY <2>1, <2>2, <2>3
<1>5. ASSUME OnceIds(s) PROVE OnceIds(t)
  <2>1. ASSUME NEW i \in 1..m, NEW j \in 1..m, t[i].id = t[j].id PROVE i = j
    <3>1. a[i] \in DOMAIN s /\ a[j] \in DOMAIN s /\ s[a[i]].id = s[a[j]].id
      BY <1>0, <1>1, <2>1
    <3>2. a[i] = a[j]
      BY <1>5, <3>1 DEF OnceIds
    <3> QED
      BY <1>3, <3>2
  <2> QED
    BY <1>2, <2>1 DEF OnceIds
<1>6. \A j \in DOMAIN t : \E k \in K : t[j] = s[k]
  BY <1>1, <1>2
<1> QED
  BY <1>4, <1>5, <1>6 DEF t

LEMMA IdsTail ==
    ASSUME NEW S, NEW s \in Seq(S), s # <<>>
    PROVE  /\ IdsOf(s) = {s[1].id} \cup IdsOf(Tail(s))
           /\ OnceIds(s) => OnceIds(Tail(s)) /\ s[1].id \notin IdsOf(Tail(s))
<1> DEFINE t == Tail(s)
           n == Len(s)
<1>1. /\ t \in Seq(S) /\ Len(t) = n - 1 /\ n \in Nat \ {0}
      /\ \A i \in 1..Len(t) : t[i] = s[i + 1]
  BY HeadTailProperties, EmptySeq
<1>2. DOMAIN t = 1..(n - 1) /\ DOMAIN s = 1..n
  BY <1>1, LenProperties
<1> HIDE DEF t, n
<1>3. \A i \in 1..(n - 1) : t[i] = s[i + 1] /\ i + 1 \in 1..n /\ i + 1 # 1
  BY <1>1
<1>4. ASSUME NEW i \in 1..n, i # 1 PROVE i - 1 \in 1..(n - 1) /\ t[i - 1] = s[i]
  BY <1>1, <1>4
<1>5. 1 \in 1..n
  BY <1>1
<1>6. IdsOf(s) = {s[1].id} \cup IdsOf(t)
  BY <1>2, <1>3, <1>4, <1>5 DEF IdsOf
<1>7. ASSUME OnceIds(s) PROVE OnceIds(t) /\ s[1].id \notin IdsOf(t)
  <2>1. ASSUME NEW i \in 1..(n - 1), NEW j \in 1..(n - 1), t[i].id = t[j].id PROVE i = j
    <3>1. i + 1 = j + 1
      BY <1>2, <1>3, <1>7, <2>1 DEF OnceIds
    <3> QED
      BY <1>1, <3>1
  <2>2. s[1].id \notin IdsOf(t)
    BY <1>2, <1>3, <1>5, <1>7 DEF OnceIds, IdsOf
  <2> QED
    BY <1>2, <2>1, <2>2 DEF OnceIds
<1> QED
  BY <1>6, <1>7 DEF t

LEMMA IdsEmpty == IdsOf(<<>>) = {} /\ OnceIds(<<>>)
  BY DEF IdsOf, OnceIds

(* The ids that SQLite has and the copy has not: of the row an insert has    *)
(* written, of the rows a delete has still to delete.                        *)
Extra(o) ==
    IF o.stage \in {"append", "delete"} THEN IdsOf(o.todo)
    ELSE IF o.stage = "deleted" THEN IdsOf(Tail(o.todo)) ELSE {}

(* Each row of SQLite is in the copy, or one operation has it in hand.       *)
SplitOf(D, N, X) ==
    \A i \in Ids :
        /\ i \in D <=> (i \in N \/ \E g \in Goroutines : i \in X[g])
        /\ \A g \in Goroutines : i \in X[g] =>
              i \notin N /\ \A k \in Goroutines \ {g} : i \notin X[k]
InHand == [g \in Goroutines |-> Extra(op[g])]
Split(h) == SplitOf(IdsOf(disk.rows), IdsOf(rows[h]), InHand)

Settled == \A g \in Goroutines : op[g].stage \notin Whole

IdsInv ==
    /\ OnceIds(disk.rows)
    /\ \A h \in Handles : OnceIds(rows[h])
    /\ \A g \in Goroutines : OnceIds(op[g].todo)
    /\ Settled => \A h \in handed : loaded[h] => Split(h)

LEMMA IdsInitially == ASSUME Init PROVE IdsInv
<1>1. OnceIds(disk.rows) /\ \A h \in Handles : OnceIds(rows[h])
  BY IdsEmpty DEF Init
<1>2. \A g \in Goroutines : OnceIds(op[g].todo)
  BY IdsEmpty DEF Init, Idle
<1> QED
  BY <1>1, <1>2 DEF Init, IdsInv

(* What a step may do to the ids in SQLite, in the copy and in hand.         *)
Shifted(D, N, x, E, M, y) ==
    \/ E = D /\ M = N /\ y = x
    \/ x = {} /\ M = N /\ \E i \in Ids \ D : E = D \cup {i} /\ y = {i}
    \/ E = D /\ M = N \cup x /\ y = {}
    \/ E = D /\ x = {} /\ \E S \in SUBSET N : M = N \ S /\ y = S
    \/ M = N /\ \E i \in x : E = D \ {i} /\ y = x \ {i}

LEMMA SplitKept ==
    ASSUME NEW D \in SUBSET Ids, NEW N \in SUBSET Ids, NEW X, NEW E, NEW M, NEW Y,
           NEW g \in Goroutines, SplitOf(D, N, X),
           \A k \in Goroutines \ {g} : Y[k] = X[k],
           Shifted(D, N, X[g], E, M, Y[g])
    PROVE  SplitOf(E, M, Y)
<1>1. CASE E = D /\ M = N /\ Y[g] = X[g]
  BY <1>1 DEF SplitOf
<1>2. CASE X[g] = {} /\ M = N /\ \E i \in Ids \ D : E = D \cup {i} /\ Y[g] = {i}
  BY <1>2 DEF SplitOf
<1>3. CASE E = D /\ M = N \cup X[g] /\ Y[g] = {}
  BY <1>3 DEF SplitOf
<1>4. CASE E = D /\ X[g] = {} /\ \E S \in SUBSET N : M = N \ S /\ Y[g] = S
  BY <1>4 DEF SplitOf
<1>5. CASE M = N /\ \E i \in X[g] : E = D \ {i} /\ Y[g] = X[g] \ {i}
  BY <1>5 DEF SplitOf
<1> QED
  BY <1>1, <1>2, <1>3, <1>4, <1>5 DEF Shifted

LEMMA IdsOfOne ==
    ASSUME NEW S, NEW s \in Seq(S), Len(s) = 1
    PROVE  IdsOf(s) = {s[1].id} /\ OnceIds(s)
<1>1. DOMAIN s = {1}
  BY LenProperties
<1> QED
  BY <1>1 DEF IdsOf, OnceIds

LEMMA OneRowIds ==
    ASSUME TypeInv, NEW g \in Goroutines, op[g].stage \in OneRow
    PROVE  IdsOf(op[g].todo) = {op[g].todo[1].id}
<1>1. op[g].todo \in Seq(Row) /\ Len(op[g].todo) = 1
  BY OpFields DEF TypeInv, TypeOK, Working
<1> QED
  BY <1>1, IdsOfOne

LEMMA IdsTyped ==
    ASSUME TypeOK
    PROVE  IdsOf(disk.rows) \in SUBSET Ids /\ \A h \in Handles : IdsOf(rows[h]) \in SUBSET Ids
  BY RowsFacts, DiskFacts DEF IdsOf

(* A step on rows is one on the one table object in use, which is loaded.    *)
LEMMA InUse ==
    ASSUME TypeInv, OpsInv, NEW g \in Goroutines, g \in program.goroutines, op[g].stage \in Under
    PROVE  /\ Settled /\ op[g].h \in handed /\ op[g].h \in Handles /\ loaded[op[g].h]
           /\ \A h \in handed : h = op[g].h
<1>1. OpFine(g) /\ op[g].h \in Handles
  BY DEF OpsInv, TypeInv, Working, Under, WithRows
<1>2. op[g].h \in handed /\ loaded[op[g].h]
  BY <1>1 DEF OpFine, Under, WithRows
<1>3. Settled
  <2>1. ASSUME NEW k \in Goroutines, op[k].stage \in Whole PROVE FALSE
    <3>1. k # g
      BY <2>1 DEF Under, WithRows, Whole
    <3>2. Solo(program)
      BY <2>1 DEF OpsInv, OpFine
    <3>3. op[k].stage = "idle"
      BY <3>1, <3>2, OthersIdle
    <3> QED
      BY <2>1, <3>3 DEF Whole
  <2> QED
    BY <2>1 DEF Settled
<1> QED
  BY <1>1, <1>2, <1>3 DEF OpsInv

(* What a step on rows does to the ids.                                      *)
Moved(g) ==
    /\ OnceIds(disk'.rows) /\ OnceIds(rows'[op[g].h]) /\ OnceIds(op'[g].todo)
    /\ Shifted(IdsOf(disk.rows), IdsOf(rows[op[g].h]), Extra(op[g]),
               IdsOf(disk'.rows), IdsOf(rows'[op[g].h]), Extra(op'[g]))

LEMMA ExtraIdle ==
    ASSUME NEW g \in Goroutines, op'[g] = Idle
    PROVE  Extra(op'[g]) = {} /\ OnceIds(op'[g].todo)
  BY IdsEmpty DEF Extra, Idle

LEMMA MovedNot ==
    ASSUME IdsInv, NEW g \in Goroutines, op[g].h \in Handles, disk'.rows = disk.rows,
           rows'[op[g].h] = rows[op[g].h], OnceIds(op'[g].todo),
           Extra(op'[g]) = Extra(op[g])
    PROVE  Moved(g)
  BY DEF Moved, Shifted, IdsInv

LEMMA ExtraLeft ==
    ASSUME TypeInv, IdsInv, NEW g \in Goroutines, op[g].stage \in WithRows, NEW s, Left(g, s)
    PROVE  /\ OnceIds(op'[g].todo)
           /\ s = "marshal" => Extra(op'[g]) = {}
           /\ s = "delete" => Extra(op'[g]) = IdsOf(Tail(op[g].todo))
<1>1. op[g].todo \in Seq(Row) /\ op[g].todo # <<>> /\ OnceIds(op[g].todo)
  BY WithRowsFacts DEF IdsInv
<1>2. OnceIds(Tail(op[g].todo))
  BY <1>1, IdsTail
<1>3. CASE op'[g] = Idle /\ Tail(op[g].todo) = <<>>
  BY <1>3, ExtraIdle, IdsEmpty DEF Left
<1>4. CASE op'[g].stage = s
  BY <1>2, <1>4 DEF Left, Extra
<1> QED
  BY <1>3, <1>4 DEF Left

LEMMA QuietMoves ==
    ASSUME TypeInv, IdsInv, NEW g \in Goroutines, op[g].h \in Handles, Extra(op[g]) = {},
           disk'.rows = disk.rows, rows' = rows, Quiet(g)
    PROVE  Moved(g)
  BY ExtraIdle, MovedNot DEF Quiet

LEMMA CheckInsertMoves ==
    ASSUME TypeInv, IdsInv, NEW g \in Goroutines, NEW id \in Ids, NEW doc \in program.docs,
           CheckInsert(g, id, doc)
    PROVE  Moved(g)
<1>1. op[g].h \in Handles /\ Extra(op[g]) = {} /\ UNCHANGED <<disk, rows>>
  BY CheckInsertDoes DEF Extra
<1>2. CASE Quiet(g)
  BY <1>1, <1>2, QuietMoves
<1>3. CASE ~Quiet(g)
  <2>1. op'[g].stage = "insert" /\ OthersKeep(g) /\ \E r \in Free : op'[g].todo = <<[id |-> id, ref |-> r]>>
    BY <1>3, CheckInsertDoes
  <2>2. OnceIds(op'[g].todo)
    BY <2>1 DEF OnceIds
  <2>3. Extra(op'[g]) = {}
    BY <2>1 DEF Extra
  <2> QED
    BY <1>1, <2>2, <2>3, MovedNot
<1> QED
  BY <1>2, <1>3

LEMMA StoreInsertMoves ==
    ASSUME TypeInv, IdsInv, NEW g \in Goroutines, StoreInsert(g)
    PROVE  Moved(g)
<1>1. /\ op[g].stage = "insert" /\ Extra(op[g]) = {} /\ rows' = rows /\ NewRow(g) \in DiskRow
      /\ op[g].stage \in OneRow
  BY StoreInsertDoes DEF Extra, OneRow
<1>2. op[g].h \in Handles /\ op[g].todo[1].id \in Ids
  BY <1>1, WithRowsFacts DEF WithRows
<1>3. CASE Quiet(g) /\ UNCHANGED disk
  BY <1>1, <1>2, <1>3, QuietMoves
<1>4. CASE ~(Quiet(g) /\ UNCHANGED disk)
  <2>1. /\ Insertable(NewRow(g)) /\ op'[g].stage = "append" /\ op'[g].todo = op[g].todo
        /\ disk'.rows = Append(disk.rows, NewRow(g))
    BY <1>4, StoreInsertDoes DEF GoesOn
  <2>2. NewRow(g).id = op[g].todo[1].id
    BY DEF NewRow
  <2>3. op[g].todo[1].id \notin IdsOf(disk.rows)
    BY <2>1, <2>2 DEF Insertable
  <2>4. Extra(op'[g]) = {op[g].todo[1].id}
    BY <1>1, <2>1, OneRowIds DEF Extra
  <2>5. IdsOf(disk'.rows) = IdsOf(disk.rows) \cup {op[g].todo[1].id} /\ OnceIds(disk'.rows)
    BY <1>1, <2>1, <2>2, <2>3, IdsAppended, DiskFacts DEF IdsInv, TypeInv
  <2>6. OnceIds(op'[g].todo) /\ OnceIds(rows'[op[g].h])
    BY <1>1, <1>2, <2>1 DEF IdsInv
  <2> QED
    BY <1>1, <1>2, <2>3, <2>4, <2>5, <2>6 DEF Moved, Shifted
<1> QED
  BY <1>3, <1>4

LEMMA AppendRowMoves ==
    ASSUME TypeInv, OpsInv, IdsInv, NEW g \in Goroutines, g \in program.goroutines, AppendRow(g)
    PROVE  Moved(g)
<1> DEFINE h == op[g].h
           x == op[g].todo[1]
<1>1. /\ op[g].stage = "append" /\ op[g].stage \in Under /\ op[g].stage \in OneRow
      /\ x \in Row /\ UNCHANGED disk /\ h \in Handles
  BY AppendRowDoes DEF Under, WithRows, OneRow
<1>2. Extra(op[g]) = {x.id}
  BY <1>1, OneRowIds DEF Extra
<1>3. Split(h)
  BY <1>1, InUse DEF IdsInv
<1>4. x.id \in Ids /\ x.id \in InHand[g]
  BY <1>1, <1>2 DEF Row, InHand
<1>5. x.id \notin IdsOf(rows[h])
  BY <1>3, <1>4 DEF Split, SplitOf
<1>6. rows'[h] = Append(rows[h], x)
  BY <1>1, AppendRowDoes DEF TypeInv, TypeOK
<1>7. rows[h] \in Seq(Row) /\ OnceIds(rows[h]) /\ OnceIds(disk.rows)
  BY <1>1, RowsFacts DEF TypeInv, IdsInv
<1>8. Extra(op'[g]) = {} /\ OnceIds(op'[g].todo)
  <2>1. CASE Quiet(g)
    BY <2>1, ExtraIdle DEF Quiet
  <2>2. CASE GoesOn(g, "inserted")
    BY <2>2 DEF GoesOn, Extra, IdsInv
  <2> QED
    BY <2>1, <2>2, AppendRowDoes
<1> HIDE DEF h, x
<1>9. IdsOf(rows'[h]) = IdsOf(rows[h]) \cup {x.id} /\ OnceIds(rows'[h])
  BY <1>1, <1>5, <1>6, <1>7, IdsAppended
<1> QED
  BY <1>1, <1>2, <1>7, <1>8, <1>9 DEF Moved, Shifted, h

LEMMA WriteUpdateMoves ==
    ASSUME TypeInv, IdsInv, NEW g \in Goroutines, WriteUpdate(g)
    PROVE  Moved(g)
<1>1. op[g].stage = "write" /\ op[g].stage \in WithRows /\ rows' = rows /\ Extra(op[g]) = {}
  BY WriteUpdateDoes DEF WithRows, Extra
<1>2. op[g].h \in Handles
  BY <1>1, WithRowsFacts
<1>3. IdsOf(disk'.rows) = IdsOf(disk.rows) /\ OnceIds(disk'.rows)
  BY WriteUpdateDisk DEF IdsOf, OnceIds, IdsInv
<1>4. Extra(op'[g]) = {} /\ OnceIds(op'[g].todo)
  <2>1. CASE Left(g, "marshal")
    BY <1>1, <2>1, ExtraLeft
  <2>2. CASE GoesOn(g, "updated")
    BY <2>2 DEF GoesOn, Extra, IdsInv
  <2> QED
    BY <2>1, <2>2, WriteUpdateDoes
<1> QED
  BY <1>1, <1>2, <1>3, <1>4 DEF Moved, Shifted, IdsInv

LEMMA UpdateRowsMoves ==
    ASSUME TypeInv, IdsInv, NEW g \in Goroutines, NEW filter, NEW onlyFirst \in BOOLEAN,
           NEW field \in program.fields, NEW val \in Values(field),
           UpdateRows(g, filter, field, val, onlyFirst)
    PROVE  Moved(g)
<1>1. /\ op[g].h \in Handles /\ Extra(op[g]) = {} /\ UNCHANGED <<disk, rows>>
      /\ Hit(g, filter, onlyFirst) \in SUBSET (1..Len(rows[op[g].h]))
  BY UpdateRowsDoes DEF Extra
<1>2. CASE Quiet(g)
  BY <1>1, <1>2, QuietMoves
<1>3. CASE ~Quiet(g)
  <2>1. op'[g].stage = "marshal" /\ op'[g].todo = Picked(rows[op[g].h], Hit(g, filter, onlyFirst))
    BY <1>3, UpdateRowsDoes
  <2>2. rows[op[g].h] \in Seq(Row) /\ OnceIds(rows[op[g].h])
    BY <1>1, RowsFacts DEF TypeInv, IdsInv
  <2>3. OnceIds(Picked(rows[op[g].h], Hit(g, filter, onlyFirst)))
    BY <1>1, <2>2, IdsPicked
  <2> QED
    BY <1>1, <2>1, <2>3, MovedNot DEF Extra
<1> QED
  BY <1>2, <1>3

LEMMA DeleteRowsMoves ==
    ASSUME TypeInv, IdsInv, NEW g \in Goroutines, NEW filter, NEW onlyFirst \in BOOLEAN,
           DeleteRows(g, filter, onlyFirst)
    PROVE  Moved(g)
<1> DEFINE h == op[g].h
           hit == Hit(g, filter, onlyFirst)
           kept == Kept(g, filter, onlyFirst)
           S == {rows[h][k].id : k \in hit}
<1>1. /\ h \in Handles /\ Extra(op[g]) = {} /\ UNCHANGED disk
      /\ hit \in SUBSET (1..Len(rows[h])) /\ kept \in SUBSET (1..Len(rows[h]))
      /\ rows' = [rows EXCEPT ![h] = Picked(rows[h], kept)]
  BY DeleteRowsDoes DEF Extra
<1>2. rows[h] \in Seq(Row) /\ OnceIds(rows[h]) /\ DOMAIN rows[h] = 1..Len(rows[h]) /\ OnceIds(disk.rows)
  BY <1>1, RowsFacts DEF TypeInv, IdsInv
<1>3. rows'[h] = Picked(rows[h], kept)
  BY <1>1 DEF TypeInv, TypeOK
<1>4. kept = (1..Len(rows[h])) \ hit
  BY DEF Kept
<1>5. OnceIds(rows'[h]) /\ \A i : i \in IdsOf(rows'[h]) <=> \E k \in kept : rows[h][k].id = i
  BY <1>1, <1>2, <1>3, IdsPicked
<1>6. OnceIds(op'[g].todo) /\ \A i : i \in Extra(op'[g]) <=> \E k \in hit : rows[h][k].id = i
  <2>1. CASE hit = {} /\ Quiet(g)
    BY <2>1, ExtraIdle DEF Quiet
  <2>2. CASE op'[g].stage = "delete" /\ op'[g].todo = Picked(rows[h], hit)
    <3>1. Extra(op'[g]) = IdsOf(op'[g].todo)
      BY <2>2 DEF Extra
    <3> QED
      BY <1>1, <1>2, <2>2, <3>1, IdsPicked
  <2> QED
    BY <2>1, <2>2, DeleteRowsDoes
<1> HIDE DEF h, hit, kept
<1>7. S \in SUBSET IdsOf(rows[h]) /\ Extra(op'[g]) = S
  <2>1. S \in SUBSET IdsOf(rows[h])
    BY <1>1, <1>2 DEF IdsOf
  <2>2. \A i : i \in S <=> \E k \in hit : rows[h][k].id = i
    OBVIOUS
  <2>3. Extra(op'[g]) = S
    BY <1>6, <2>2
  <2> QED
    BY <2>1, <2>3
<1>8. IdsOf(rows'[h]) = IdsOf(rows[h]) \ S
  <2>1. \A i : i \in IdsOf(rows[h]) <=> \E k \in 1..Len(rows[h]) : rows[h][k].id = i
    BY <1>2 DEF IdsOf
  <2>2. \A j \in hit, k \in kept : rows[h][j].id # rows[h][k].id
    BY <1>1, <1>2, <1>4 DEF OnceIds
  <2>3. \A i : i \in S <=> \E k \in hit : rows[h][k].id = i
    OBVIOUS
  <2>4. \A k \in 1..Len(rows[h]) : k \in hit \/ k \in kept
    BY <1>4
  <2>5. hit \subseteq 1..Len(rows[h]) /\ kept \subseteq 1..Len(rows[h])
    BY <1>1
  <2> HIDE DEF S
  <2>6. ASSUME NEW i \in IdsOf(rows'[h]) PROVE i \in IdsOf(rows[h]) /\ i \notin S
    <3>1. PICK k \in kept : rows[h][k].id = i
      BY <1>5
    <3> QED
      BY <2>1, <2>2, <2>3, <2>5, <3>1
  <2>7. ASSUME NEW i \in IdsOf(rows[h]), i \notin S PROVE i \in IdsOf(rows'[h])
    <3>1. PICK k \in 1..Len(rows[h]) : rows[h][k].id = i
      BY <2>1
    <3> QED
      BY <1>5, <2>3, <2>4, <2>7, <3>1
  <2> QED
    BY <2>6, <2>7
<1> HIDE DEF S
<1> QED
  BY <1>1, <1>2, <1>5, <1>6, <1>7, <1>8 DEF Moved, Shifted, h

LEMMA DeleteRowMoves ==
    ASSUME TypeInv, IdsInv, NEW g \in Goroutines, DeleteRow(g)
    PROVE  Moved(g)
<1> DEFINE t == op[g].todo
           i == op[g].todo[1].id
<1>1. op[g].stage = "delete" /\ op[g].stage \in WithRows /\ rows' = rows /\ Extra(op[g]) = IdsOf(t)
  BY DeleteRowDoes DEF WithRows, Extra
<1>2. op[g].h \in Handles /\ t \in Seq(Row) /\ t # <<>>
  BY <1>1, WithRowsFacts
<1>3. OnceIds(t) /\ OnceIds(disk.rows)
  BY DEF IdsInv
<1>4. IdsOf(t) = {i} \cup IdsOf(Tail(t)) /\ i \notin IdsOf(Tail(t)) /\ OnceIds(Tail(t))
  BY <1>2, <1>3, IdsTail
<1>5. OnceIds(op'[g].todo) /\ Extra(op'[g]) = IdsOf(Tail(t))
  <2>1. CASE Left(g, "delete")
    BY <1>1, <2>1, ExtraLeft
  <2>2. CASE GoesOn(g, "deleted")
    BY <1>3, <2>2 DEF GoesOn, Extra
  <2> QED
    BY <2>1, <2>2, DeleteRowDoes
<1>6. disk'.rows = Picked(disk.rows, OthersOf(i)) /\ OthersOf(i) \in SUBSET (1..Len(disk.rows))
  BY DeleteRowDoes, WithoutFacts
<1>7. disk.rows \in Seq(DiskRow) /\ DOMAIN disk.rows = 1..Len(disk.rows)
  BY DiskFacts DEF TypeInv
<1>8. OnceIds(disk'.rows) /\ \A j : j \in IdsOf(disk'.rows) <=> \E k \in OthersOf(i) : disk.rows[k].id = j
  BY <1>3, <1>6, <1>7, IdsPicked
<1> HIDE DEF t, i
<1>9. IdsOf(disk'.rows) = IdsOf(disk.rows) \ {i}
  BY <1>7, <1>8 DEF OthersOf, IdsOf
<1>10. i \in IdsOf(t) /\ Extra(op'[g]) = IdsOf(t) \ {i}
  BY <1>4, <1>5
<1> QED
  BY <1>1, <1>2, <1>5, <1>8, <1>9, <1>10 DEF Moved, Shifted, IdsInv

LEMMA NotifiedMoves ==
    ASSUME TypeInv, IdsInv, NEW g \in Goroutines, Notified(g)
    PROVE  Moved(g)
<1>1. op[g].stage \in {"inserted", "updated", "deleted"} /\ op[g].stage \in WithRows /\ UNCHANGED <<disk, rows>>
  BY NotifiedDoes DEF WithRows
<1>2. op[g].h \in Handles
  BY <1>1, WithRowsFacts
<1>3. CASE op[g].stage = "inserted"
  BY <1>1, <1>2, <1>3, NotifiedDoes, QuietMoves DEF Extra
<1>4. CASE op[g].stage = "updated"
  BY <1>1, <1>2, <1>4, NotifiedDoes, ExtraLeft, MovedNot DEF Extra
<1>5. CASE op[g].stage = "deleted"
  BY <1>1, <1>2, <1>5, NotifiedDoes, ExtraLeft, MovedNot DEF Extra
<1> QED
  BY <1>1, <1>3, <1>4, <1>5

LEMMA RowStepMoves ==
    ASSUME TypeInv, OpsInv, IdsInv, NEW g \in Goroutines, g \in program.goroutines, RowStep(g)
    PROVE  Moved(g)
<1>1. CASE Query(g) \/ Watch(g)
  <2>1. op[g].stage = "ready" /\ UNCHANGED <<disk, rows>> /\ Done(g)
    BY <1>1 DEF Query, Watch, At, memory
  <2>2. op[g].h \in Handles
    BY <2>1 DEF TypeInv, Working
  <2>3. Quiet(g)
    BY <2>1, DoneFacts DEF TypeInv, Quiet
  <2> QED
    BY <2>1, <2>2, <2>3, QuietMoves DEF Extra
<1>2. CASE Marshal(g)
  <2>1. UNCHANGED <<disk, rows>>
    BY <1>2 DEF Marshal, memory
  <2>2. op[g].h \in Handles /\ Extra(op[g]) = {} /\ Extra(op'[g]) = {} /\ op'[g].todo = op[g].todo
    BY <1>2, MarshalFacts, WithRowsFacts DEF Extra
  <2> QED
    BY <2>1, <2>2, MovedNot DEF IdsInv
<1> QED
  BY <1>1, <1>2, CheckInsertMoves, StoreInsertMoves, AppendRowMoves, WriteUpdateMoves,
     UpdateRowsMoves, DeleteRowsMoves, DeleteRowMoves, NotifiedMoves DEF RowStep

LEMMA RowStepIds ==
    ASSUME TypeInv, OpsInv, IdsInv, NEW g \in Goroutines, g \in program.goroutines, RowStep(g)
    PROVE  IdsInv'
<1>0. PICK h \in Handles : h = op[g].h
  BY RowStepDoes, InUse
<1>1. /\ op[g].stage \in Under /\ OthersKeep(g) /\ UNCHANGED <<loaded, handed>>
      /\ \A k \in Handles : k # h => rows'[k] = rows[k]
  BY <1>0, RowStepDoes
<1>2. h \in Handles /\ Split(h) /\ \A k \in handed : k = h
  BY <1>0, <1>1, InUse DEF IdsInv
<1>3. Moved(g)
  BY RowStepMoves
<1>4. OnceIds(disk'.rows) /\ \A k \in Handles : OnceIds(rows'[k])
  BY <1>0, <1>1, <1>3 DEF Moved, IdsInv
<1>5. \A k \in Goroutines : OnceIds(op'[k].todo)
  BY <1>1, <1>3 DEF Moved, IdsInv, OthersKeep
<1>6. Split(h)'
  <2> DEFINE X == [k \in Goroutines |-> Extra(op[k])]
             Y == [k \in Goroutines |-> Extra(op'[k])]
  <2>1. SplitOf(IdsOf(disk.rows), IdsOf(rows[h]), X)
    BY <1>2 DEF Split, InHand
  <2>2. \A k \in Goroutines \ {g} : Y[k] = X[k]
    BY <1>1 DEF OthersKeep
  <2>3. Shifted(IdsOf(disk.rows), IdsOf(rows[h]), X[g], IdsOf(disk'.rows), IdsOf(rows'[h]), Y[g])
    BY <1>0, <1>3 DEF Moved
  <2>4. IdsOf(disk.rows) \in SUBSET Ids /\ IdsOf(rows[h]) \in SUBSET Ids
    BY <1>2, IdsTyped DEF TypeInv
  <2> HIDE DEF X, Y
  <2>5. SplitOf(IdsOf(disk'.rows), IdsOf(rows'[h]), Y)
    BY <2>1, <2>2, <2>3, <2>4, SplitKept
  <2> QED
    BY <2>5 DEF Y, Split, InHand
<1> QED
  BY <1>1, <1>2, <1>4, <1>5, <1>6 DEF IdsInv

LEMMA ExtraNone ==
    ASSUME NEW o, o.stage \notin WithRows
    PROVE  Extra(o) = {}
  BY DEF Extra, WithRows

LEMMA ExtraRow ==
    ASSUME NEW o, NEW i, i \in Extra(o)
    PROVE  o.stage \in {"append", "delete", "deleted"} /\ o.stage \in WithRows
  BY DEF Extra, WithRows

(* Before the table object is loaded nothing is under way on its rows. *)
LEMMA NothingInHand ==
    ASSUME TypeInv, OpsInv, NEW h \in handed, ~loaded[h], NEW g \in Goroutines
    PROVE  op[g].stage \notin Under
  BY DEF OpsInv, OpFine, Under, WithRows

(* Steps that change neither ids nor what is in hand. *)
LEMMA IdsSame ==
    ASSUME IdsInv, NEW g \in Goroutines, OthersKeep(g), OnceIds(op'[g].todo),
           Extra(op[g]) = {}, Extra(op'[g]) = {}, Settled' => Settled,
           disk'.rows = disk.rows, UNCHANGED <<rows, loaded, handed>>
    PROVE  IdsInv'
<1>1. \A k \in Goroutines : OnceIds(op'[k].todo)
  BY DEF IdsInv, OthersKeep
<1>2. \A k \in Goroutines : Extra(op'[k]) = Extra(op[k])
  BY DEF OthersKeep
<1>3. InHand' = InHand
  BY <1>2 DEF InHand
<1> QED
  BY <1>1, <1>3 DEF IdsInv, Split

LEMMA EnsureLoadedIds ==
    ASSUME TypeInv, OpsInv, IdsInv, NEW g \in Goroutines, NEW h \in Handles, EnsureLoaded(g, h)
    PROVE  IdsInv'
<1>1. /\ op[g].stage = "idle" /\ h \in handed /\ OthersKeep(g)
      /\ op'[g].stage = "ready" /\ op'[g].todo = <<>>
      /\ UNCHANGED handed /\ disk'.rows = disk.rows
  BY EnsureLoadedDoes
<1>2. Extra(op[g]) = {} /\ Extra(op'[g]) = {} /\ OnceIds(op'[g].todo)
  BY <1>1, ExtraNone, IdsEmpty DEF WithRows
<1>3. CASE UNCHANGED <<heap, rows, loaded>>
  <2>1. Settled' => Settled
    BY <1>1 DEF Settled, OthersKeep, Whole
  <2> QED
    BY <1>1, <1>2, <1>3, <2>1, IdsSame
<1>4. CASE ~loaded[h]
  <2> DEFINE s == [k \in DOMAIN disk.rows |-> LoadedRow(k)]
  <2>1. rows' = [rows EXCEPT ![h] = s]
    BY <1>3, <1>4, EnsureLoadedDoes
  <2>2. DOMAIN s = DOMAIN disk.rows /\ \A k \in DOMAIN s : s[k].id = disk.rows[k].id
    BY DEF LoadedRow
  <2> HIDE DEF s
  <2>3. rows'[h] = s /\ \A k \in Handles : k # h => rows'[k] = rows[k]
    BY <2>1 DEF TypeInv, TypeOK
  <2>4. IdsOf(s) = IdsOf(disk.rows) /\ OnceIds(s)
    BY <2>2 DEF IdsOf, OnceIds, IdsInv
  <2>5. \A k \in Goroutines : Extra(op'[k]) = {}
    <3>1. \A k \in Goroutines : Extra(op[k]) = {}
      BY <1>1, <1>4, NothingInHand, ExtraNone DEF Under
    <3> QED
      BY <1>1, <1>2, <3>1 DEF OthersKeep
  <2>6. Split(h)'
    BY <1>1, <2>3, <2>4, <2>5 DEF Split, SplitOf, InHand
  <2>7. \A k \in handed' : k = h
    BY <1>1 DEF OpsInv
  <2>8. \A k \in Goroutines : OnceIds(op'[k].todo)
    BY <1>1, <1>2 DEF IdsInv, OthersKeep
  <2> QED
    BY <1>1, <2>3, <2>4, <2>6, <2>7, <2>8 DEF IdsInv
<1> QED
  BY <1>3, <1>4, EnsureLoadedDoes

LEMMA TableIds ==
    ASSUME TypeInv, OpsInv, IdsInv, NEW g \in Goroutines, Table(g)
    PROVE  IdsInv'
<1>1. handed = {}
  BY HandlesAssumption DEF Table, OpsInv, TypeInv, TypeOK
<1>2. PICK h \in Handles \ handed : /\ handed' = handed \cup {h}
                                    /\ rows' = [rows EXCEPT ![h] = <<>>]
                                    /\ loaded' = [loaded EXCEPT ![h] = FALSE]
  BY DEF Table
<1>3. \A k \in Handles : OnceIds(rows'[k])
  BY <1>2, IdsEmpty DEF IdsInv, TypeInv, TypeOK
<1>4. \A k \in handed' : ~loaded'[k]
  BY <1>1, <1>2 DEF TypeInv, TypeOK
<1> QED
  BY <1>3, <1>4 DEF Table, IdsInv

LEMMA WholeStepIds ==
    ASSUME TypeInv, OpsInv, IdsInv, Careful(program), NEW g \in Goroutines,
           g \in program.goroutines, WholeStep(g)
    PROVE  IdsInv'
<1>1. /\ OthersKeep(g) /\ Solo(program) /\ disk'.rows = <<>> /\ op'[g].todo = <<>>
      /\ \A h \in Handles : rows'[h] \in {rows[h], <<>>}
      /\ op'[g] = Idle => \A h \in handed' : rows'[h] = <<>>
      /\ op'[g] = Idle \/ op'[g].stage \in Whole
  BY WholeStepDoes
<1>2. OnceIds(disk'.rows) /\ \A h \in Handles : OnceIds(rows'[h])
  BY <1>1, IdsEmpty DEF IdsInv
<1>3. \A k \in Goroutines : OnceIds(op'[k].todo)
  BY <1>1, IdsEmpty DEF IdsInv, OthersKeep
<1>4. ASSUME Settled', NEW h \in handed' PROVE Split(h)'
  <2>1. op'[g] = Idle
    BY <1>1, <1>4 DEF Settled
  <2>2. \A k \in Goroutines : Extra(op'[k]) = {}
    <3>1. \A k \in Goroutines \ {g} : Extra(op[k]) = {}
      BY <1>1, OthersIdle, ExtraNone DEF WithRows
    <3> QED
      BY <1>1, <2>1, <3>1, ExtraIdle DEF OthersKeep
  <2>3. rows'[h] = <<>>
    BY <1>1, <1>4, <2>1
  <2> QED
    BY <1>1, <2>2, <2>3, IdsEmpty DEF Split, SplitOf, InHand
<1> QED
  BY <1>2, <1>3, <1>4 DEF IdsInv

LEMMA OtherStepIds ==
    ASSUME TypeInv, IdsInv, NEW g \in Goroutines, OtherStep(g)
    PROVE  IdsInv'
<1>1. Extra(op[g]) = {} /\ Extra(op'[g]) = {} /\ OnceIds(op'[g].todo)
  BY OtherStepDoes, ExtraNone, IdsEmpty DEF WithRows
<1>2. Settled' => Settled
  BY OtherStepDoes DEF Settled, OthersKeep, Whole
<1> QED
  BY <1>1, <1>2, OtherStepDoes, IdsSame

LEMMA RestartIds == ASSUME IdsInv, Restart PROVE IdsInv'
<1>1. \A g \in Goroutines : OnceIds(op'[g].todo)
  BY IdsEmpty DEF Restart, Idle
<1>2. \A h \in Handles : OnceIds(rows'[h])
  BY IdsEmpty DEF Restart
<1> QED
  BY <1>1, <1>2 DEF Restart, IdsInv

LEMMA IdsInvKept ==
    ASSUME TypeInv, OpsInv, IdsInv, Careful(program), [Next]_vars
    PROVE  IdsInv'
<1>1. CASE UNCHANGED vars
  BY <1>1 DEF vars, IdsInv, Split, InHand, Settled
<1>2. CASE Restart
  BY <1>2, RestartIds
<1>3. ASSUME NEW g \in Goroutines, g \in program.goroutines,
             \/ Table(g)
             \/ \E h \in Handles : EnsureLoaded(g, h)
             \/ RowStep(g) \/ WholeStep(g) \/ OtherStep(g)
      PROVE  IdsInv'
  BY <1>3, TableIds, EnsureLoadedIds, RowStepIds, WholeStepIds, OtherStepIds
<1> QED
  BY <1>1, <1>2, <1>3, KindsOfSteps

(* What is not loaded has no rows, and what is loaded has each row once.     *)
LEMMA RowsOnce ==
    ASSUME TypeInv, IdsInv, NEW h \in Handles
    PROVE  Cardinality(IdsOf(rows[h])) = Len(rows[h])
<1> DEFINE n == Len(rows[h])
           f == [k \in 1..n |-> rows[h][k].id]
<1>1. n \in Nat /\ DOMAIN rows[h] = 1..n /\ OnceIds(rows[h])
  BY RowsFacts DEF TypeInv, IdsInv
<1>2. NoneTwice(f, n)
  BY <1>1 DEF NoneTwice, OnceIds
<1>3. ValuesIn(f, n) = IdsOf(rows[h])
  BY <1>1 DEF ValuesIn, IdsOf
<1> HIDE DEF f, n
<1>4. Cardinality(ValuesIn(f, n)) = n
  BY <1>1, <1>2, CountValues
<1> QED
  BY <1>3, <1>4 DEF n

LEMMA OnDisk ==
    ASSUME TypeInv, OpsInv, IdsInv
    PROVE  RowsOnDisk
<1> SUFFICES ASSUME Settled, NEW h \in handed
             PROVE  /\ IdsOf(rows[h]) \subseteq IdsOf(disk.rows)
                    /\ Cardinality(IdsOf(rows[h])) = Len(rows[h])
                    /\ AtRest /\ h \in handed /\ loaded[h] => IdsOf(rows[h]) = IdsOf(disk.rows)
  BY DEF RowsOnDisk, Settled, Whole
<1>1. h \in Handles
  BY DEF TypeInv, TypeOK
<1>2. Cardinality(IdsOf(rows[h])) = Len(rows[h])
  BY <1>1, RowsOnce
<1>3. CASE ~loaded[h]
  BY <1>1, <1>2, <1>3, IdsEmpty DEF OpsInv
<1>4. CASE loaded[h]
  <2>1. Split(h) /\ IdsOf(rows[h]) \in SUBSET Ids /\ IdsOf(disk.rows) \in SUBSET Ids
    BY <1>1, <1>4, IdsTyped DEF IdsInv, TypeInv
  <2>2. IdsOf(rows[h]) \subseteq IdsOf(disk.rows)
    BY <2>1 DEF Split, SplitOf
  <2>3. ASSUME AtRest PROVE IdsOf(rows[h]) = IdsOf(disk.rows)
    <3>1. \A g \in Goroutines : InHand[g] = {}
      BY <2>3, ExtraNone DEF AtRest, InHand, WithRows
    <3> QED
      BY <2>1, <3>1 DEF Split, SplitOf
  <2> QED
    BY <1>2, <2>2, <2>3
<1> QED
  BY <1>3, <1>4

(* With any number of goroutines at work on a table, every row a query      *)
(* returns is in SQLite, and once; when the operations are over none is     *)
(* missing (std/db.go).  The programs clear and drop a table when no other  *)
(* goroutine uses it, and do not use the objects of dropped tables.         *)
THEOREM RowsStayOnDisk == (\A p \in Programs : Careful(p)) => (Spec => []RowsOnDisk)
<1> SUFFICES ASSUME \A p \in Programs : Careful(p) PROVE Spec => []RowsOnDisk
  OBVIOUS
<1> DEFINE Inv == TypeInv /\ OpsInv /\ IdsInv
<1>1. Init => Inv
  BY TypesInitially, OpsInitially, IdsInitially
<1>2. Inv /\ [Next]_vars => Inv'
  <2>1. TypeInv => Careful(program)
    BY DEF TypeInv, TypeOK
  <2> QED
    BY <2>1, TypesKept, OpsInvKept, IdsInvKept
<1>3. Inv => RowsOnDisk
  BY OnDisk
<1> QED
  BY <1>1, <1>2, <1>3, PTL DEF Spec

-----------------------------------------------------------------------------
(* No two rows in memory share a document, nor does one that is inserted.    *)

New == {"insert", "append"}
OnceRefs(s) == \A j, k \in DOMAIN s : s[j].ref = s[k].ref => j = k
NoSharedRef(s, t) == \A j \in DOMAIN s, k \in DOMAIN t : s[j].ref # t[k].ref
NotIn(s, r) == \A j \in DOMAIN s : s[j].ref # r

RefsInv ==
    /\ \A h \in Handles : OnceRefs(rows[h])
    /\ \A a, b \in Handles : a # b => NoSharedRef(rows[a], rows[b])
    /\ \A g \in Goroutines : op[g].stage \in New =>
          \A h \in Handles : NotIn(rows[h], op[g].todo[1].ref)
    /\ \A g, k \in Goroutines : op[g].stage \in New /\ op[k].stage \in New /\ g # k =>
          op[g].todo[1].ref # op[k].todo[1].ref

LEMMA RefsInitially == Init => RefsInv
  BY DEF Init, RefsInv, OnceRefs, NoSharedRef, New, Idle

LEMMA RefsShrink ==
    ASSUME RefsInv, \A h \in Handles : Subsequence(rows'[h], rows[h]),
           \A g \in Goroutines : op'[g].stage \in New => op[g].stage \in New /\ op'[g].todo = op[g].todo
    PROVE  RefsInv'
<1>1. ASSUME NEW h \in Handles PROVE OnceRefs(rows'[h])
  <2>1. OnceRefs(rows[h]) /\ Subsequence(rows'[h], rows[h])
    BY DEF RefsInv
  <2> QED
    BY <2>1 DEF OnceRefs, Subsequence
<1>2. \A h \in Handles : \A j \in DOMAIN rows'[h] : \E k \in DOMAIN rows[h] : rows'[h][j] = rows[h][k]
  BY SubsequenceFacts
<1>3. ASSUME NEW a \in Handles, NEW b \in Handles, a # b PROVE NoSharedRef(rows'[a], rows'[b])
  <2>1. NoSharedRef(rows[a], rows[b])
    BY <1>3 DEF RefsInv
  <2> QED
    BY <1>2, <2>1 DEF NoSharedRef
<1>4. ASSUME NEW g \in Goroutines, op'[g].stage \in New, NEW h \in Handles
      PROVE  NotIn(rows'[h], op'[g].todo[1].ref)
  <2>1. NotIn(rows[h], op'[g].todo[1].ref)
    BY <1>4 DEF RefsInv
  <2> QED
    BY <1>2, <2>1 DEF NotIn
<1>5. \A g, k \in Goroutines : op'[g].stage \in New /\ op'[k].stage \in New /\ g # k =>
          op'[g].todo[1].ref # op'[k].todo[1].ref
  BY DEF RefsInv
<1> QED
  BY <1>1, <1>3, <1>4, <1>5 DEF RefsInv

(* What is free is in nobody's rows. *)
LEMMA FreeRef ==
    ASSUME NEW r \in Free
    PROVE  /\ \A h \in Handles : NotIn(rows[h], r)
           /\ \A g \in Goroutines : \A k \in DOMAIN op[g].todo : op[g].todo[k].ref # r
<1>1. ASSUME NEW h \in Handles, NEW j \in DOMAIN rows[h] PROVE rows[h][j].ref # r
  <2>1. rows[h][j].ref \in UNION {{rows[a][k].ref : k \in DOMAIN rows[a]} : a \in Handles}
    <3>1. rows[h][j].ref \in {rows[h][k].ref : k \in DOMAIN rows[h]}
      OBVIOUS
    <3> QED
      BY <3>1
  <2> QED
    BY <2>1, Zenon DEF Free
<1>2. ASSUME NEW g \in Goroutines, NEW j \in DOMAIN op[g].todo PROVE op[g].todo[j].ref # r
  <2>1. op[g].todo[j].ref \in UNION {{op[a].todo[k].ref : k \in DOMAIN op[a].todo} : a \in Goroutines}
    <3>1. op[g].todo[j].ref \in {op[g].todo[k].ref : k \in DOMAIN op[g].todo}
      OBVIOUS
    <3> QED
      BY <3>1
  <2> QED
    BY <2>1, Zenon DEF Free
<1> QED
  BY <1>1, <1>2 DEF NotIn

LEMMA NewFacts ==
    ASSUME TypeInv, NEW g \in Goroutines, op[g].stage \in New
    PROVE  1 \in DOMAIN op[g].todo /\ op[g].stage \in WithRows
<1>1. op[g].stage \in WithRows
  BY DEF New, WithRows
<1>2. op[g].todo \in Seq(Row) /\ Len(op[g].todo) \in Nat \ {0}
  BY <1>1, WithRowsFacts
<1>3. 1 \in 1..Len(op[g].todo) /\ DOMAIN op[g].todo = 1..Len(op[g].todo)
  BY <1>2, LenProperties
<1> QED
  BY <1>1, <1>3

LEMMA CheckInsertRefs ==
    ASSUME TypeInv, RefsInv, NEW g \in Goroutines, NEW id \in Ids, NEW doc \in program.docs,
           CheckInsert(g, id, doc)
    PROVE  RefsInv'
<1>1. op[g].stage = "ready" /\ rows' = rows
  BY CheckInsertDoes
<1>2. CASE Quiet(g)
  <2>1. \A k \in Goroutines : op'[k].stage \in New => op[k].stage \in New /\ op'[k].todo = op[k].todo
    BY <1>2 DEF Quiet, OthersKeep, Idle, New
  <2> QED
    BY <1>1, <2>1, RefsShrink, SubsequenceFacts
<1>3. CASE ~Quiet(g)
  <2>1. PICK r \in Free : op'[g].todo = <<[id |-> id, ref |-> r]>>
    BY <1>3, CheckInsertDoes
  <2>2. op'[g].todo[1].ref = r /\ OthersKeep(g)
    BY <1>3, <2>1, CheckInsertDoes
  <2>3. /\ \A h \in Handles : NotIn(rows[h], r)
        /\ \A k \in Goroutines : op[k].stage \in New => op[k].todo[1].ref # r
    BY FreeRef, NewFacts
  <2>4. \A k \in Goroutines : op'[k].stage \in New => \A h \in Handles : NotIn(rows'[h], op'[k].todo[1].ref)
    BY <1>1, <2>2, <2>3 DEF RefsInv, OthersKeep
  <2>5. \A j, k \in Goroutines : op'[j].stage \in New /\ op'[k].stage \in New /\ j # k =>
          op'[j].todo[1].ref # op'[k].todo[1].ref
    BY <2>2, <2>3 DEF RefsInv, OthersKeep
  <2> QED
    BY <1>1, <2>4, <2>5 DEF RefsInv
<1> QED
  BY <1>2, <1>3

LEMMA AppendRowRefs ==
    ASSUME TypeInv, RefsInv, NEW g \in Goroutines, AppendRow(g)
    PROVE  RefsInv'
<1>0. PICK h \in Handles : h = op[g].h
  BY AppendRowDoes
<1>1. PICK x \in Row : x = op[g].todo[1]
  BY AppendRowDoes
<1>2. /\ op[g].stage = "append" /\ OthersKeep(g) /\ op'[g].stage \notin New
      /\ rows' = [rows EXCEPT ![h] = Append(rows[h], x)]
  BY <1>0, <1>1, AppendRowDoes DEF Quiet, GoesOn, Idle, New
<1> DEFINE n == Len(rows[h])
<1>3. rows[h] \in Seq(Row) /\ DOMAIN rows[h] = 1..n
  BY RowsFacts DEF TypeInv
<1>4. rows'[h] = Append(rows[h], x) /\ \A a \in Handles : a # h => rows'[a] = rows[a]
  BY <1>2 DEF TypeInv, TypeOK
<1>5. /\ DOMAIN rows'[h] = 1..(n + 1) /\ n \in Nat /\ rows'[h][n + 1] = x
      /\ \A i \in 1..n : rows'[h][i] = rows[h][i]
  BY <1>3, <1>4, AppendFacts, LenProperties
<1>6. \A i \in 1..(n + 1) : i \in 1..n \/ i = n + 1
  BY <1>5
<1> HIDE DEF n
<1>7. \A a \in Handles : NotIn(rows[a], x.ref)
  BY <1>1, <1>2 DEF RefsInv, New
<1>8. \A a \in Handles : OnceRefs(rows[a]) /\ \A b \in Handles : a # b => NoSharedRef(rows[a], rows[b])
  BY DEF RefsInv
<1>9. OnceRefs(rows'[h])
  BY <1>3, <1>5, <1>6, <1>7, <1>8 DEF OnceRefs, NotIn
<1>10. ASSUME NEW a \in Handles, a # h PROVE NoSharedRef(rows'[a], rows'[h]) /\ NoSharedRef(rows'[h], rows'[a])
  BY <1>3, <1>4, <1>5, <1>6, <1>7, <1>8, <1>10 DEF NoSharedRef, NotIn
<1>11. ASSUME NEW k \in Goroutines, op'[k].stage \in New
       PROVE  op[k].stage \in New /\ op'[k].todo = op[k].todo /\ k # g
  BY <1>2, <1>11 DEF OthersKeep
<1>12. ASSUME NEW k \in Goroutines, op'[k].stage \in New, NEW a \in Handles
       PROVE  NotIn(rows'[a], op'[k].todo[1].ref)
  <2>1. x.ref # op[k].todo[1].ref /\ NotIn(rows[a], op[k].todo[1].ref)
    BY <1>1, <1>2, <1>11, <1>12 DEF RefsInv, New
  <2>2. CASE a = h
    BY <1>3, <1>5, <1>6, <1>11, <1>12, <2>1, <2>2 DEF NotIn
  <2>3. CASE a # h
    BY <1>4, <1>11, <1>12, <2>1, <2>3
  <2> QED
    BY <2>2, <2>3
<1>13. \A j, k \in Goroutines : op'[j].stage \in New /\ op'[k].stage \in New /\ j # k =>
          op'[j].todo[1].ref # op'[k].todo[1].ref
  BY <1>11 DEF RefsInv
<1>14. \A a \in Handles : OnceRefs(rows'[a])
  BY <1>4, <1>8, <1>9
<1>15. \A a, b \in Handles : a # b => NoSharedRef(rows'[a], rows'[b])
  BY <1>4, <1>8, <1>10
<1> QED
  BY <1>12, <1>13, <1>14, <1>15 DEF RefsInv

LEMMA EnsureLoadedRefs ==
    ASSUME TypeInv, OpsInv, RefsInv, NEW g \in Goroutines, NEW h \in Handles, EnsureLoaded(g, h)
    PROVE  RefsInv'
<1>1. op[g].stage = "idle" /\ op'[g].stage = "ready" /\ OthersKeep(g) /\ h \in handed
  BY EnsureLoadedDoes
<1>2. \A k \in Goroutines : op'[k].stage \in New => op[k].stage \in New /\ op'[k].todo = op[k].todo
  BY <1>1 DEF OthersKeep, New
<1>3. CASE rows' = rows
  BY <1>2, <1>3, RefsShrink, SubsequenceFacts
<1>4. CASE rows' # rows
  <2> DEFINE s == [k \in DOMAIN disk.rows |-> LoadedRow(k)]
  <2>1. /\ ~loaded[h] /\ rows' = [rows EXCEPT ![h] = s]
        /\ \A k \in DOMAIN disk.rows : FreeSeq[k] \in Free
        /\ \A j, k \in DOMAIN disk.rows : FreeSeq[j] = FreeSeq[k] => j = k
    BY <1>4, EnsureLoadedDoes
  <2>2. DOMAIN s = DOMAIN disk.rows /\ \A k \in DOMAIN s : s[k].ref = FreeSeq[k]
    BY DEF LoadedRow
  <2> HIDE DEF s
  <2>3. rows'[h] = s /\ \A a \in Handles : a # h => rows'[a] = rows[a]
    BY <2>1 DEF TypeInv, TypeOK
  <2>4. \A k \in DOMAIN s : \A a \in Handles : NotIn(rows[a], s[k].ref)
    BY <2>1, <2>2, FreeRef
  <2>5. \A a \in Handles : OnceRefs(rows'[a])
    BY <2>1, <2>2, <2>3 DEF OnceRefs, RefsInv
  <2>6. ASSUME NEW a \in Handles, NEW b \in Handles, a # b PROVE NoSharedRef(rows'[a], rows'[b])
    <3>1. \A c \in Handles : c # h => NoSharedRef(rows'[c], rows'[h]) /\ NoSharedRef(rows'[h], rows'[c])
      BY <2>3, <2>4 DEF NoSharedRef, NotIn
    <3> QED
      BY <2>3, <2>6, <3>1 DEF RefsInv
  <2>7. \A k \in Goroutines : op'[k].stage \notin New
    BY <1>1, <1>2, <2>1, NothingInHand DEF Under, WithRows, New
  <2> QED
    BY <2>5, <2>6, <2>7 DEF RefsInv
<1> QED
  BY <1>3, <1>4

LEMMA RowStepRefs ==
    ASSUME TypeInv, RefsInv, NEW g \in Goroutines, RowStep(g)
    PROVE  RefsInv'
<1>1. CASE \/ Query(g) \/ StoreInsert(g) \/ Marshal(g) \/ WriteUpdate(g)
           \/ DeleteRow(g) \/ Notified(g) \/ Watch(g)
  <2>1. rows' = rows /\ OthersKeep(g)
    <3>1. rows' = rows
      BY <1>1 DEF Query, StoreInsert, Marshal, WriteUpdate, DeleteRow, Notified, Watch, memory
    <3> QED
      BY <3>1, RowStepDoes
  <2>2. op'[g].stage \in New => op[g].stage \in New /\ op'[g].todo = op[g].todo
    <3>1. CASE Query(g) \/ Watch(g)
      BY <3>1, DoneFacts DEF Query, Watch, TypeInv, Idle, New
    <3>2. CASE StoreInsert(g)
      BY <3>2, StoreInsertDoes DEF Quiet, GoesOn, Idle, New
    <3>3. CASE Marshal(g)
      BY <3>3, MarshalFacts DEF New
    <3>4. CASE WriteUpdate(g)
      BY <3>4, WriteUpdateDoes DEF Left, GoesOn, Idle, New
    <3>5. CASE DeleteRow(g)
      BY <3>5, DeleteRowDoes DEF Left, GoesOn, Idle, New
    <3>6. CASE Notified(g)
      BY <3>6, NotifiedDoes DEF Left, Quiet, Idle, New
    <3> QED
      BY <1>1, <3>1, <3>2, <3>3, <3>4, <3>5, <3>6
  <2> QED
    BY <2>1, <2>2, RefsShrink, SubsequenceFacts DEF OthersKeep
<1>2. ASSUME NEW filter \in Filters, NEW field \in program.fields, NEW onlyFirst \in BOOLEAN,
             NEW val \in Values(field), UpdateRows(g, filter, field, val, onlyFirst)
      PROVE  RefsInv'
  <2>1. rows' = rows /\ (Quiet(g) \/ (OthersKeep(g) /\ op'[g].stage = "marshal"))
    BY <1>2, UpdateRowsDoes
  <2>2. OthersKeep(g) /\ op'[g].stage \notin New
    BY <2>1 DEF Quiet, Idle, New
  <2> QED
    BY <2>1, <2>2, RefsShrink, SubsequenceFacts DEF OthersKeep
<1>3. ASSUME NEW filter \in Filters, NEW onlyFirst \in BOOLEAN, DeleteRows(g, filter, onlyFirst)
      PROVE  RefsInv'
  <2> DEFINE s == Picked(rows[op[g].h], Kept(g, filter, onlyFirst))
  <2>1. OthersKeep(g) /\ op'[g].stage \notin New
    BY <1>3, DeleteRowsDoes DEF Quiet, Idle, New
  <2>2. /\ op[g].h \in Handles /\ rows' = [rows EXCEPT ![op[g].h] = s]
        /\ Kept(g, filter, onlyFirst) \in SUBSET (1..Len(rows[op[g].h]))
    BY <1>3, DeleteRowsDoes
  <2>3. Subsequence(s, rows[op[g].h])
    BY <2>2, RowsFacts, PickedSubsequence DEF TypeInv
  <2> HIDE DEF s
  <2>4. \A h \in Handles : Subsequence(rows'[h], rows[h])
    BY <2>2, <2>3, SubsequenceFacts DEF TypeInv, TypeOK
  <2> QED
    BY <2>1, <2>4, RefsShrink DEF OthersKeep
<1> QED
  BY <1>1, <1>2, <1>3, CheckInsertRefs, AppendRowRefs DEF RowStep

(* Table objects that keep their rows or lose all of them. *)
LEMMA RefsKeptOrLost ==
    ASSUME RefsInv, \A h \in Handles : rows'[h] \in {rows[h], <<>>},
           \A g \in Goroutines : op'[g].stage \in New => op[g].stage \in New /\ op'[g].todo = op[g].todo
    PROVE  RefsInv'
<1>1. \A h \in Handles : Subsequence(rows'[h], rows[h])
  BY SubsequenceFacts
<1> QED
  BY <1>1, RefsShrink

LEMMA RefsInvKept ==
    ASSUME TypeInv, OpsInv, RefsInv, Careful(program), [Next]_vars
    PROVE  RefsInv'
<1>1. CASE UNCHANGED vars
  BY <1>1 DEF vars, RefsInv
<1>2. CASE Restart
  <2>1. \A h \in Handles : rows'[h] \in {rows[h], <<>>}
    BY <1>2 DEF Restart
  <2>2. \A g \in Goroutines : op'[g].stage \notin New
    BY <1>2 DEF Restart, New, Idle
  <2> QED
    BY <2>1, <2>2, RefsKeptOrLost
<1>3. ASSUME NEW g \in Goroutines, Table(g) PROVE RefsInv'
  <2>1. \A h \in Handles : rows'[h] \in {rows[h], <<>>}
    BY <1>3 DEF Table, TypeInv, TypeOK
  <2>2. op' = op
    BY <1>3 DEF Table
  <2> QED
    BY <2>1, <2>2, RefsKeptOrLost
<1>4. ASSUME NEW g \in Goroutines, WholeStep(g) PROVE RefsInv'
  <2>1. \A k \in Goroutines : op'[k].stage \in New => op[k].stage \in New /\ op'[k].todo = op[k].todo
    BY <1>4, WholeStepDoes DEF OthersKeep, Whole, Idle, New
  <2> QED
    BY <1>4, <2>1, WholeStepDoes, RefsKeptOrLost
<1>5. ASSUME NEW g \in Goroutines, OtherStep(g) PROVE RefsInv'
  <2>1. \A k \in Goroutines : op'[k].stage \in New => op[k].stage \in New /\ op'[k].todo = op[k].todo
    BY <1>5, OtherStepDoes DEF OthersKeep, New
  <2>2. rows' = rows
    BY <1>5, OtherStepDoes
  <2> QED
    BY <2>1, <2>2, RefsKeptOrLost
<1> QED
  BY <1>1, <1>2, <1>3, <1>4, <1>5, RowStepRefs, EnsureLoadedRefs, KindsOfSteps

-----------------------------------------------------------------------------
(* Operations are those of the program.                                      *)

Updating == {"marshal", "write", "updated"}
Asked(g) ==
    /\ op[g].stage = "index" => "schema" \in program.operations
    /\ op[g].stage \in Updating => "update" \in program.operations
    /\ op[g].stage = "drop" => "drop" \in program.operations
    /\ op[g].stage = "dbdrop" => "dbdrop" \in program.operations
AskedInv == \A g \in Goroutines : Asked(g)

LEMMA AskedInitially == Init => AskedInv
  BY DEF Init, AskedInv, Asked, Idle, Updating

LEMMA AskedIdle ==
    ASSUME NEW g \in Goroutines, op'[g].stage = "idle"
    PROVE  Asked(g)'
  BY DEF Asked, Updating

LEMMA AskedOthers ==
    ASSUME AskedInv, UNCHANGED program, NEW g \in Goroutines, OthersKeep(g), Asked(g)'
    PROVE  AskedInv'
  BY DEF AskedInv, Asked, OthersKeep

(* An operation updates if it did, or the program asks for an update. *)
LEMMA UpdatesAsked ==
    ASSUME TypeInv, NEW g \in Goroutines, RowStep(g), op'[g].stage \in Updating
    PROVE  op[g].stage \in Updating \/ Does("update")
<1>1. CASE Query(g) \/ Watch(g)
  BY <1>1, DoneFacts DEF Query, Watch, TypeInv, Idle, Updating
<1>2. CASE StoreInsert(g)
  BY <1>2, StoreInsertDoes DEF Quiet, GoesOn, Idle, Updating
<1>3. CASE Marshal(g)
  BY <1>3, MarshalFacts DEF Updating
<1>4. CASE WriteUpdate(g)
  BY <1>4, WriteUpdateDoes DEF Updating
<1>5. CASE DeleteRow(g)
  BY <1>5, DeleteRowDoes DEF Left, GoesOn, Idle, Updating
<1>6. CASE Notified(g)
  BY <1>6, NotifiedDoes DEF Left, Quiet, Idle, Updating
<1>7. CASE AppendRow(g)
  BY <1>7, AppendRowDoes DEF Quiet, GoesOn, Idle, Updating
<1>8. ASSUME NEW id \in Ids, NEW doc \in program.docs, CheckInsert(g, id, doc)
      PROVE  op'[g].stage \notin Updating
  <2>1. Quiet(g) \/ op'[g].stage = "insert"
    BY <1>8, CheckInsertDoes
  <2> QED
    BY <2>1 DEF Quiet, Idle, Updating
<1>9. ASSUME NEW filter \in Filters, NEW field \in program.fields, NEW onlyFirst \in BOOLEAN,
             NEW val \in Values(field), UpdateRows(g, filter, field, val, onlyFirst)
      PROVE  Does("update")
  BY <1>9, UpdateRowsDoes
<1>10. ASSUME NEW filter \in Filters, NEW onlyFirst \in BOOLEAN, DeleteRows(g, filter, onlyFirst)
       PROVE  op'[g].stage \notin Updating
  <2>1. Quiet(g) \/ op'[g].stage = "delete"
    BY <1>10, DeleteRowsDoes
  <2> QED
    BY <2>1 DEF Quiet, Idle, Updating
<1> QED
  BY <1>1, <1>2, <1>3, <1>4, <1>5, <1>6, <1>7, <1>8, <1>9, <1>10 DEF RowStep

LEMMA AskedInvKept ==
    ASSUME TypeInv, OpsInv, AskedInv, Careful(program), [Next]_vars
    PROVE  AskedInv'
<1>0. UNCHANGED program
  BY KindsOfSteps
<1>1. CASE UNCHANGED vars
  BY <1>1 DEF vars, AskedInv, Asked
<1>2. CASE Restart
  BY <1>2, AskedIdle DEF Restart, Idle, AskedInv
<1>3. ASSUME NEW g \in Goroutines, Table(g) PROVE AskedInv'
  BY <1>0, <1>3 DEF Table, AskedInv, Asked
<1>4. ASSUME NEW g \in Goroutines, NEW h \in Handles, EnsureLoaded(g, h) PROVE AskedInv'
  <2>1. Asked(g)'
    BY <1>4, EnsureLoadedDoes DEF Asked, Updating
  <2> QED
    BY <1>0, <1>4, <2>1, EnsureLoadedDoes, AskedOthers
<1>5. ASSUME NEW g \in Goroutines, RowStep(g) PROVE AskedInv'
  <2>1. op'[g].stage = "idle" \/ op'[g].stage \in WithRows
    BY <1>5, RowStepDoes DEF Idle
  <2>2. Asked(g)'
    BY <1>0, <1>5, <2>1, UpdatesAsked DEF AskedInv, Asked, WithRows, Does
  <2> QED
    BY <1>0, <1>5, <2>2, RowStepDoes, AskedOthers
<1>6. ASSUME NEW g \in Goroutines, OtherStep(g) PROVE AskedInv'
  <2>1. OthersKeep(g) /\ op'[g].stage \in {"idle", "index"}
    BY <1>6, OtherStepDoes
  <2>2. op'[g].stage = "index" => "schema" \in program.operations
    <3>1. CASE CreateIndex(g)
      BY <3>1, DoneFacts DEF CreateIndex, TypeInv, Idle
    <3>2. ASSUME NEW h \in Handles, Unwatch(g, h) PROVE op'[g].stage = "idle"
      BY <3>2 DEF Unwatch, At
    <3> QED
      BY <1>6, <3>1, <3>2 DEF OtherStep, SetSchema, Does
  <2>3. Asked(g)'
    BY <1>0, <2>1, <2>2 DEF Asked, Updating
  <2> QED
    BY <1>0, <2>1, <2>3, AskedOthers
<1>7. ASSUME NEW g \in Goroutines, WholeStep(g) PROVE AskedInv'
  <2>1. OthersKeep(g)
    BY <1>7, WholeStepDoes
  <2>2. ASSUME NEW h \in Handles, ClearDisk(g, h) PROVE Asked(g)'
    <3>1. op'[g].stage = "clear"
      BY <2>2, StartFacts DEF ClearDisk, TypeInv, Stages
    <3> QED
      BY <3>1 DEF Asked, Updating
  <2>3. ASSUME NEW h \in Handles, DropDisk(g, h) PROVE Asked(g)'
    <3>1. op'[g].stage = "drop" /\ Does("drop")
      BY <2>3, StartFacts DEF DropDisk, TypeInv, Stages
    <3> QED
      BY <1>0, <3>1 DEF Asked, Updating, Does
  <2>4. ASSUME DbDropDisk(g) PROVE Asked(g)'
    <3>1. op'[g].stage = "dbdrop" /\ Does("dbdrop")
      BY <2>4, GoFacts DEF DbDropDisk, TypeInv, Stages
    <3> QED
      BY <1>0, <3>1 DEF Asked, Updating, Does
  <2>5. ASSUME ClearRows(g) \/ DropRows(g) \/ DbForget(g) PROVE Asked(g)'
    <3>1. op'[g] = Idle
      BY <2>5, DoneFacts DEF ClearRows, DropRows, DbForget, TypeInv
    <3> QED
      BY <3>1, AskedIdle DEF Idle
  <2> QED
    BY <1>0, <1>7, <2>1, <2>2, <2>3, <2>4, <2>5, AskedOthers DEF WholeStep
<1> QED
  BY <1>1, <1>2, <1>3, <1>4, <1>5, <1>6, <1>7, KindsOfSteps

-----------------------------------------------------------------------------
(* The unique index of SQLite                                                *)

NoIndex(p) == ~p.existing /\ "schema" \notin p.operations
IndexInv ==
    /\ disk.index => Distinct(disk.rows)
    /\ NoIndex(program) => ~disk.index

LEMMA IndexInitially == Init => IndexInv
  BY DEF Init, IndexInv, Distinct, NoIndex

LEMMA IndexKept ==
    ASSUME IndexInv, UNCHANGED program, disk'.index => disk.index,
           disk.index /\ Distinct(disk.rows) => Distinct(disk'.rows)
    PROVE  IndexInv'
  BY DEF IndexInv

LEMMA DistinctSubsequence ==
    ASSUME NEW s, NEW t, Subsequence(s, t), Distinct(t)
    PROVE  Distinct(s)
  BY DEF Subsequence, Distinct

LEMMA RowStepIndex ==
    ASSUME TypeInv, IdsInv, IndexInv, UNCHANGED program, NEW g \in Goroutines, RowStep(g)
    PROVE  IndexInv'
<1>1. CASE disk' = disk
  BY <1>1, IndexKept
<1>2. CASE StoreInsert(g) /\ disk' # disk
  <2> DEFINE x == NewRow(g)
             n == Len(disk.rows)
  <2>1. /\ Insertable(x) /\ x \in DiskRow
        /\ disk'.rows = Append(disk.rows, x) /\ disk'.index = disk.index
    BY <1>2, StoreInsertDoes
  <2>2. disk.index => \A k \in DOMAIN disk.rows : disk.rows[k].doc.u # x.doc.u
    BY <2>1 DEF Insertable
  <2>3. disk.rows \in Seq(DiskRow) /\ DOMAIN disk.rows = 1..n /\ n \in Nat
    BY DiskFacts DEF TypeInv
  <2> HIDE DEF x, n
  <2>4. /\ DOMAIN disk'.rows = 1..(Len(disk.rows) + 1) /\ disk'.rows[Len(disk.rows) + 1] = x
        /\ \A i \in 1..Len(disk.rows) : disk'.rows[i] = disk.rows[i]
    BY <2>1, <2>3, AppendFacts, LenProperties
  <2>5. \A i \in 1..(n + 1) : i \in 1..n \/ i = n + 1
    BY <2>3
  <2>6. disk.index /\ Distinct(disk.rows) => Distinct(disk'.rows)
    <3>1. SUFFICES ASSUME disk.index, Distinct(disk.rows),
                          NEW j \in DOMAIN disk'.rows, NEW k \in DOMAIN disk'.rows,
                          disk'.rows[j].doc.u = disk'.rows[k].doc.u
                   PROVE  j = k
      BY DEF Distinct
    <3>2. CASE j \in 1..n /\ k \in 1..n
      BY <2>3, <2>4, <3>1, <3>2 DEF Distinct, n
    <3>3. CASE j = n + 1 /\ k # n + 1
      BY <2>2, <2>3, <2>4, <2>5, <3>1, <3>3 DEF n
    <3>4. CASE j # n + 1 /\ k = n + 1
      BY <2>2, <2>3, <2>4, <2>5, <3>1, <3>4 DEF n
    <3> QED
      BY <2>4, <2>5, <3>2, <3>3, <3>4 DEF n
  <2> QED
    BY <2>1, <2>6, IndexKept
<1>3. CASE WriteUpdate(g) /\ disk' # disk
  <2> DEFINE id == op[g].todo[1].id
             doc == op[g].payload
  <2>1. Updatable(id, doc) /\ disk'.index = disk.index /\ DOMAIN disk'.rows = DOMAIN disk.rows
    BY <1>3, WriteUpdateDisk
  <2>2. disk.index => \A k \in DOMAIN disk.rows : disk.rows[k].id # id => disk.rows[k].doc.u # doc.u
    BY <2>1 DEF Updatable
  <2>3. \A k \in DOMAIN disk.rows : /\ disk.rows[k].id # id => disk'.rows[k] = disk.rows[k]
                                    /\ disk.rows[k].id = id => disk'.rows[k].doc = doc
    BY <1>3, <2>1, WriteUpdateDisk
  <2>4. OnceIds(disk.rows)
    BY DEF IdsInv
  <2> HIDE DEF id, doc
  <2>5. ASSUME disk.index, Distinct(disk.rows), NEW j \in DOMAIN disk.rows, NEW k \in DOMAIN disk.rows,
               disk'.rows[j].doc.u = disk'.rows[k].doc.u
        PROVE  j = k
    BY <2>2, <2>3, <2>4, <2>5 DEF Distinct, OnceIds
  <2>6. disk.index /\ Distinct(disk.rows) => Distinct(disk'.rows)
    BY <2>1, <2>5 DEF Distinct
  <2> QED
    BY <2>1, <2>6, IndexKept
<1>4. CASE DeleteRow(g)
  <2>1. /\ disk'.index = disk.index /\ disk'.rows = Picked(disk.rows, OthersOf(op[g].todo[1].id))
        /\ OthersOf(op[g].todo[1].id) \in SUBSET (1..Len(disk.rows)) /\ disk.rows \in Seq(DiskRow)
    BY <1>4, DeleteRowDoes, WithoutFacts, DiskFacts DEF TypeInv
  <2>2. Subsequence(disk'.rows, disk.rows)
    BY <2>1, PickedSubsequence
  <2> QED
    BY <2>1, <2>2, DistinctSubsequence, IndexKept
<1>5. CASE \/ Query(g) \/ AppendRow(g) \/ Marshal(g) \/ Notified(g) \/ Watch(g)
           \/ \E id \in Ids, doc \in program.docs : CheckInsert(g, id, doc)
           \/ \E filter \in Filters, field \in program.fields, onlyFirst \in BOOLEAN :
                \E val \in Values(field) :
                  UpdateRows(g, filter, field, val, onlyFirst)
           \/ \E filter \in Filters, onlyFirst \in BOOLEAN : DeleteRows(g, filter, onlyFirst)
  <2>1. disk' = disk
    BY <1>5 DEF Query, AppendRow, Marshal, Notified, Watch, CheckInsert, UpdateRows, DeleteRows
  <2> QED
    BY <1>1, <2>1
<1> QED
  BY <1>1, <1>2, <1>3, <1>4, <1>5 DEF RowStep

LEMMA IndexInvKept ==
    ASSUME TypeInv, OpsInv, IdsInv, AskedInv, IndexInv, Careful(program), [Next]_vars
    PROVE  IndexInv'
<1>0. UNCHANGED program
  BY KindsOfSteps
<1>1. CASE disk' = disk
  BY <1>0, <1>1, IndexKept
<1>2. ASSUME NEW g \in Goroutines, NEW h \in Handles, EnsureLoaded(g, h) PROVE IndexInv'
  BY <1>0, <1>2, EnsureLoadedDoes, IndexKept
<1>3. ASSUME NEW g \in Goroutines, WholeStep(g) PROVE IndexInv'
  <2>1. disk'.rows = <<>> /\ (disk'.index => disk.index)
    BY <1>3, WholeStepDoes
  <2>2. Distinct(disk'.rows)
    BY <2>1 DEF Distinct
  <2> QED
    BY <1>0, <2>1, <2>2, IndexKept
<1>4. ASSUME NEW g \in Goroutines, CreateIndex(g) PROVE IndexInv'
  <2> DEFINE b == disk.index \/ (disk.table /\ Distinct(disk.rows))
  <2>1. disk' = [disk EXCEPT !.index = b] /\ op[g].stage = "index"
    BY <1>4 DEF CreateIndex, At
  <2>2. b => Distinct(disk.rows)
    BY DEF IndexInv
  <2> HIDE DEF b
  <2>3. disk'.rows = disk.rows /\ disk'.index = b
    BY <2>1 DEF TypeInv, TypeOK
  <2>4. ~NoIndex(program)
    BY <2>1 DEF NoIndex, AskedInv, Asked
  <2> QED
    BY <1>0, <2>2, <2>3, <2>4 DEF IndexInv
<1>5. ASSUME NEW g \in Goroutines, OtherStep(g) PROVE IndexInv'
  BY <1>1, <1>4, <1>5 DEF OtherStep, SetSchema, Unwatch
<1>6. CASE UNCHANGED vars \/ Restart \/ \E g \in Goroutines : Table(g)
  BY <1>1, <1>6 DEF vars, Restart, Table
<1> QED
  BY <1>0, <1>2, <1>3, <1>5, <1>6, RowStepIndex, KindsOfSteps

-----------------------------------------------------------------------------
(* The rows an operation works through: those of an update, and of an insert *)
(* the watcher hears of, are in the copy, those of a delete are not.         *)

InCopy == {"marshal", "write", "updated", "inserted"}
OutOfCopy == {"delete", "deleted"}
Among(t, s) == \A k \in DOMAIN t : \E i \in DOMAIN s : s[i] = t[k]
NoIdOf(t, s) == \A k \in DOMAIN t : t[k].id \notin IdsOf(s)

TodoFine(g) ==
    /\ op[g].stage \in InCopy => Among(op[g].todo, rows[op[g].h])
    /\ op[g].stage \in OutOfCopy => NoIdOf(op[g].todo, rows[op[g].h])
TodoInv == Solo(program) => \A g \in Goroutines : TodoFine(g)

LEMMA TodoInitially == Init => TodoInv
  BY DEF Init, TodoInv, TodoFine, Idle, InCopy, OutOfCopy

LEMMA TodoAlone ==
    ASSUME OpsInv, UNCHANGED program, NEW g \in Goroutines, g \in program.goroutines, OthersKeep(g),
           Solo(program) => TodoFine(g)'
    PROVE  TodoInv'
<1> SUFFICES ASSUME Solo(program), NEW k \in Goroutines PROVE TodoFine(k)'
  BY DEF TodoInv, Solo
<1>1. CASE k # g
  <2>1. op'[k].stage = "idle"
    BY <1>1, OthersIdle DEF OthersKeep
  <2> QED
    BY <2>1 DEF TodoFine, InCopy, OutOfCopy
<1> QED
  BY <1>1

LEMMA TodoNot ==
    ASSUME NEW g \in Goroutines, op'[g].stage \notin InCopy, op'[g].stage \notin OutOfCopy
    PROVE  TodoFine(g)'
  BY DEF TodoFine

LEMMA TodoQuiet ==
    ASSUME NEW g \in Goroutines, Quiet(g)
    PROVE  TodoFine(g)'
  BY TodoNot DEF Quiet, Idle, InCopy, OutOfCopy

LEMMA TailRows ==
    ASSUME NEW S, NEW t \in Seq(S), t # <<>>
    PROVE  Among(Tail(t), t)
<1>1. /\ Len(t) \in Nat \ {0} /\ Tail(t) \in Seq(S) /\ Len(Tail(t)) = Len(t) - 1
      /\ \A i \in 1..Len(Tail(t)) : Tail(t)[i] = t[i + 1]
  BY HeadTailProperties, EmptySeq
<1>2. DOMAIN Tail(t) = 1..(Len(t) - 1) /\ DOMAIN t = 1..Len(t)
  BY <1>1, LenProperties
<1>3. \A i \in 1..(Len(t) - 1) : i + 1 \in 1..Len(t)
  BY <1>1
<1> QED
  BY <1>1, <1>2, <1>3 DEF Among

(* An operation that goes on with the same rows or the rest of them. *)
LEMMA TodoGoesOn ==
    ASSUME TypeInv, NEW g \in Goroutines, op[g].stage \in WithRows, TodoFine(g), rows' = rows,
           NEW s, Left(g, s) \/ GoesOn(g, s),
           s \in InCopy => op[g].stage \in InCopy,
           s \in OutOfCopy => op[g].stage \in OutOfCopy
    PROVE  TodoFine(g)'
<1>1. Among(Tail(op[g].todo), op[g].todo)
  BY WithRowsFacts, TailRows
<1>2. CASE op'[g] = Idle
  BY <1>2, TodoNot DEF Idle, InCopy, OutOfCopy
<1>3. CASE op'[g].stage = s /\ op'[g].h = op[g].h /\ op'[g].todo = op[g].todo
  BY <1>3 DEF TodoFine
<1>4. CASE op'[g].stage = s /\ op'[g].h = op[g].h /\ op'[g].todo = Tail(op[g].todo)
  <2>1. op[g].stage \in InCopy => Among(Tail(op[g].todo), rows[op[g].h])
    BY <1>1 DEF TodoFine, Among
  <2>2. op[g].stage \in OutOfCopy => NoIdOf(Tail(op[g].todo), rows[op[g].h])
    BY <1>1 DEF TodoFine, Among, NoIdOf
  <2> QED
    BY <1>4, <2>1, <2>2 DEF TodoFine
<1> QED
  BY <1>2, <1>3, <1>4 DEF Left, GoesOn

LEMMA AppendRowTodo ==
    ASSUME TypeInv, NEW g \in Goroutines, AppendRow(g)
    PROVE  TodoFine(g)'
<1>0. PICK h \in Handles : h = op[g].h
  BY AppendRowDoes
<1>1. CASE Quiet(g)
  BY <1>1, TodoQuiet
<1>2. CASE ~Quiet(g)
  <2> DEFINE x == op[g].todo[1]
             n == Len(rows[h])
  <2>1. /\ op[g].stage = "append" /\ op'[g].stage = "inserted" /\ op'[g].h = h /\ op'[g].todo = op[g].todo
        /\ rows' = [rows EXCEPT ![h] = Append(rows[h], x)] /\ x \in Row
    BY <1>0, <1>2, AppendRowDoes DEF GoesOn
  <2>2. rows[h] \in Seq(Row) /\ n \in Nat
    BY RowsFacts DEF TypeInv
  <2>3. op[g].todo \in Seq(Row) /\ Len(op[g].todo) = 1
    BY <2>1, OpFields DEF TypeInv, TypeOK, Working, OneRow
  <2>4. DOMAIN op[g].todo = {1}
    BY <2>3, LenProperties
  <2>5. rows'[h] = Append(rows[h], x)
    BY <2>1 DEF TypeInv, TypeOK
  <2>6. n + 1 \in DOMAIN rows'[h] /\ rows'[h][n + 1] = x
    BY <2>1, <2>2, <2>5, AppendFacts, LenProperties
  <2>7. Among(op[g].todo, rows'[h])
    BY <2>4, <2>6 DEF Among
  <2> QED
    BY <2>1, <2>7 DEF TodoFine, OutOfCopy
<1> QED
  BY <1>1, <1>2

LEMMA UpdateRowsTodo ==
    ASSUME TypeInv, NEW g \in Goroutines, NEW filter, NEW onlyFirst \in BOOLEAN,
           NEW field \in program.fields, NEW val \in Values(field),
           UpdateRows(g, filter, field, val, onlyFirst)
    PROVE  TodoFine(g)'
<1>0. PICK h \in Handles : h = op[g].h
  BY UpdateRowsDoes
<1>1. CASE Quiet(g)
  BY <1>1, TodoQuiet
<1>2. CASE ~Quiet(g)
  <2> DEFINE t == Picked(rows[h], Hit(g, filter, onlyFirst))
  <2>1. /\ op'[g].stage = "marshal" /\ op'[g].h = h /\ op'[g].todo = t
        /\ rows' = rows
    BY <1>0, <1>2, UpdateRowsDoes
  <2>2. Hit(g, filter, onlyFirst) \in SUBSET (1..Len(rows[h])) /\ rows[h] \in Seq(Row)
    BY <1>0, UpdateRowsDoes, RowsFacts DEF TypeInv
  <2>3. Subsequence(t, rows[h])
    BY <2>2, PickedSubsequence
  <2>4. Among(t, rows[h])
    BY <2>3, SubsequenceFacts DEF Among
  <2> QED
    BY <2>1, <2>4 DEF TodoFine, OutOfCopy
<1> QED
  BY <1>1, <1>2

LEMMA DeleteRowsTodo ==
    ASSUME TypeInv, IdsInv, NEW g \in Goroutines, NEW filter, NEW onlyFirst \in BOOLEAN,
           DeleteRows(g, filter, onlyFirst)
    PROVE  TodoFine(g)'
<1>0. PICK h \in Handles : h = op[g].h
  BY DeleteRowsDoes
<1>1. CASE Quiet(g)
  BY <1>1, TodoQuiet
<1>2. CASE ~Quiet(g)
  <2> DEFINE hit == Hit(g, filter, onlyFirst)
             kept == Kept(g, filter, onlyFirst)
             t == Picked(rows[h], hit)
             s == Picked(rows[h], kept)
  <2>1. /\ op'[g].stage = "delete" /\ op'[g].h = h /\ op'[g].todo = t
        /\ rows' = [rows EXCEPT ![h] = s]
        /\ hit \in SUBSET (1..Len(rows[h])) /\ kept \in SUBSET (1..Len(rows[h]))
    BY <1>0, <1>2, DeleteRowsDoes
  <2>2. rows[h] \in Seq(Row) /\ OnceIds(rows[h]) /\ DOMAIN rows[h] = 1..Len(rows[h])
    BY RowsFacts DEF TypeInv, IdsInv
  <2>3. kept = (1..Len(rows[h])) \ hit
    BY <1>0 DEF Kept
  <2>4. \A i : i \in IdsOf(s) <=> \E k \in kept : rows[h][k].id = i
    BY <2>1, <2>2, IdsPicked
  <2>5. \A j \in DOMAIN t : \E k \in hit : t[j] = rows[h][k]
    BY <2>1, <2>2, IdsPicked
  <2> HIDE DEF s, t, hit, kept
  <2>6. rows'[h] = s
    BY <2>1 DEF TypeInv, TypeOK
  <2>7. \A j \in hit, k \in kept : rows[h][j].id # rows[h][k].id
    BY <2>1, <2>2, <2>3 DEF OnceIds
  <2>8. NoIdOf(t, s)
    <3> SUFFICES ASSUME NEW j \in DOMAIN t, t[j].id \in IdsOf(s) PROVE FALSE
      BY DEF NoIdOf
    <3>1. PICK k \in hit : t[j] = rows[h][k]
      BY <2>5
    <3>2. PICK l \in kept : rows[h][l].id = t[j].id
      BY <2>4
    <3> QED
      BY <2>7, <3>1, <3>2
  <2> QED
    BY <2>1, <2>6, <2>8 DEF TodoFine, InCopy
<1> QED
  BY <1>1, <1>2

LEMMA RowStepTodo ==
    ASSUME TypeInv, IdsInv, NEW g \in Goroutines, TodoFine(g), RowStep(g)
    PROVE  TodoFine(g)'
<1>1. CASE Query(g) \/ Watch(g)
  <2>1. Quiet(g)
    BY <1>1, DoneFacts DEF Query, Watch, TypeInv, Quiet
  <2> QED
    BY <2>1, TodoQuiet
<1>2. CASE StoreInsert(g)
  <2>1. Quiet(g) \/ op'[g].stage = "append"
    BY <1>2, StoreInsertDoes DEF GoesOn
  <2> QED
    BY <2>1, TodoQuiet, TodoNot DEF InCopy, OutOfCopy
<1>3. CASE Marshal(g)
  <2>1. op[g].stage \in WithRows /\ GoesOn(g, "write") /\ op[g].stage \in InCopy
    BY <1>3, MarshalFacts DEF GoesOn, InCopy
  <2>2. rows' = rows
    BY <1>3 DEF Marshal, memory
  <2> QED
    BY <2>1, <2>2, TodoGoesOn DEF OutOfCopy
<1>4. CASE WriteUpdate(g)
  <2>1. op[g].stage \in WithRows /\ op[g].stage \in InCopy /\ rows' = rows
    BY <1>4, WriteUpdateDoes DEF WithRows, InCopy
  <2>2. Left(g, "marshal") \/ GoesOn(g, "updated")
    BY <1>4, WriteUpdateDoes
  <2> QED
    BY <2>1, <2>2, TodoGoesOn DEF OutOfCopy
<1>5. CASE DeleteRow(g)
  <2>1. op[g].stage \in WithRows /\ op[g].stage \in OutOfCopy /\ rows' = rows
    BY <1>5, DeleteRowDoes DEF WithRows, OutOfCopy
  <2>2. Left(g, "delete") \/ GoesOn(g, "deleted")
    BY <1>5, DeleteRowDoes
  <2> QED
    BY <2>1, <2>2, TodoGoesOn DEF InCopy
<1>6. CASE Notified(g)
  <2>1. rows' = rows /\ op[g].stage \in {"inserted", "updated", "deleted"} /\ op[g].stage \in WithRows
    BY <1>6, NotifiedDoes DEF WithRows
  <2>2. CASE op[g].stage = "inserted"
    BY <1>6, <2>2, NotifiedDoes, TodoQuiet
  <2>3. CASE op[g].stage = "updated"
    BY <1>6, <2>1, <2>3, NotifiedDoes, TodoGoesOn DEF InCopy, OutOfCopy
  <2>4. CASE op[g].stage = "deleted"
    BY <1>6, <2>1, <2>4, NotifiedDoes, TodoGoesOn DEF InCopy, OutOfCopy
  <2> QED
    BY <2>1, <2>2, <2>3, <2>4
<1>7. ASSUME NEW id \in Ids, NEW doc \in program.docs, CheckInsert(g, id, doc)
      PROVE  TodoFine(g)'
  <2>1. Quiet(g) \/ op'[g].stage = "insert"
    BY <1>7, CheckInsertDoes
  <2> QED
    BY <2>1, TodoQuiet, TodoNot DEF InCopy, OutOfCopy
<1> QED
  BY <1>1, <1>2, <1>3, <1>4, <1>5, <1>6, <1>7, AppendRowTodo, UpdateRowsTodo, DeleteRowsTodo DEF RowStep

LEMMA TodoInvKept ==
    ASSUME TypeInv, OpsInv, IdsInv, TodoInv, Careful(program), [Next]_vars
    PROVE  TodoInv'
<1>0. UNCHANGED program
  BY KindsOfSteps
<1>1. CASE UNCHANGED vars
  BY <1>1 DEF vars, TodoInv, TodoFine
<1>2. CASE Restart
  <2>1. \A g \in Goroutines : op'[g].stage = "idle"
    BY <1>2 DEF Restart, Idle
  <2> QED
    BY <2>1, TodoNot DEF TodoInv, InCopy, OutOfCopy
<1>3. ASSUME NEW g \in Goroutines, g \in program.goroutines,
             Table(g) \/ (\E h \in Handles : EnsureLoaded(g, h)) \/ WholeStep(g) \/ OtherStep(g)
      PROVE  TodoInv'
  <2>1. OthersKeep(g) /\ op'[g].stage \in {"idle", "ready", "index"} \cup Whole
    <3>1. CASE Table(g)
      BY <3>1 DEF Table, At, TypeInv, TypeOK, OthersKeep
    <3>2. ASSUME NEW h \in Handles, EnsureLoaded(g, h) PROVE OthersKeep(g) /\ op'[g].stage = "ready"
      BY <3>2, EnsureLoadedDoes
    <3>3. CASE WholeStep(g)
      BY <3>3, WholeStepDoes DEF Idle
    <3>4. CASE OtherStep(g)
      BY <3>4, OtherStepDoes
    <3> QED
      BY <1>3, <3>1, <3>2, <3>3, <3>4
  <2>2. TodoFine(g)'
    BY <2>1, TodoNot DEF InCopy, OutOfCopy, Whole
  <2> QED
    BY <1>0, <1>3, <2>1, <2>2, TodoAlone
<1>4. ASSUME NEW g \in Goroutines, g \in program.goroutines, RowStep(g) PROVE TodoInv'
  BY <1>0, <1>4, RowStepDoes, RowStepTodo, TodoAlone DEF TodoInv
<1> QED
  BY <1>1, <1>2, <1>3, <1>4, KindsOfSteps

-----------------------------------------------------------------------------
(* The documents of the copy and those of SQLite                             *)

(* Programs whose updates reach SQLite, each as it is in memory: one         *)
(* goroutine updates, and no index refuses it.                               *)
KeepsFields(p) ==
    "update" \in p.operations => Solo(p) /\ ("u" \in p.fields => NoIndex(p))

(* The ids of the rows that are updated in memory and not yet in SQLite.     *)
Stale(o) ==
    IF o.stage \in {"marshal", "write"} THEN IdsOf(o.todo)
    ELSE IF o.stage = "updated" THEN IdsOf(Tail(o.todo)) ELSE {}
Pending(o) == {i \in Ids : \E g \in Goroutines : i \in Stale(o[g])}

(* The documents of row i are equal, but for the fields that updates change  *)
(* if one is pending.                                                        *)
Agrees(fields, pending, i, d, e) ==
    /\ ("u" \in fields => i \notin pending) => d.u = e.u
    /\ ("n" \in fields => i \notin pending) => d.n = e.n

FieldsAgree ==
    \A h \in handed : \A i \in DOMAIN rows[h], k \in DOMAIN disk.rows :
        rows[h][i].id = disk.rows[k].id =>
            Agrees(program.fields, Pending(op), rows[h][i].id, heap[rows[h][i].ref], disk.rows[k].doc)
AppendFine(g) ==
    op[g].stage = "append" => \A k \in DOMAIN disk.rows :
        disk.rows[k].id = op[g].todo[1].id => disk.rows[k].doc = heap[op[g].todo[1].ref]
WriteFine(g) == op[g].stage = "write" => op[g].payload = heap[op[g].todo[1].ref]

FieldsInv == FieldsAgree /\ \A g \in Goroutines : AppendFine(g) /\ WriteFine(g)

LEMMA FieldsInitially == Init => FieldsInv
  BY DEF Init, FieldsInv, FieldsAgree, AppendFine, WriteFine, Idle

(* Who updates is the only goroutine. *)
LEMMA OthersDoNotUpdate ==
    ASSUME OpsInv, AskedInv, KeepsFields(program), NEW g \in program.goroutines,
           NEW k \in Goroutines \ {g}
    PROVE  op[k].stage \notin Updating
<1> SUFFICES ASSUME op[k].stage \in Updating PROVE FALSE
  OBVIOUS
<1>1. Solo(program)
  BY DEF AskedInv, Asked, KeepsFields
<1>2. op[k].stage = "idle"
  BY <1>1, OthersIdle
<1> QED
  BY <1>2 DEF Updating

LEMMA StaleOnly == \A o : o.stage \notin Updating => Stale(o) = {}
  BY DEF Stale, Updating

HeapKeeps ==
    /\ \A h \in Handles : \A j \in DOMAIN rows[h] : heap'[rows[h][j].ref] = heap[rows[h][j].ref]
    /\ \A g \in Goroutines : op[g].stage = "append" => heap'[op[g].todo[1].ref] = heap[op[g].todo[1].ref]
RowsShrink ==
    \A h \in handed' : \A i \in DOMAIN rows'[h] :
        h \in handed /\ \E j \in DOMAIN rows[h] : rows'[h][i] = rows[h][j]
DiskShrinks == \A k \in DOMAIN disk'.rows : \E l \in DOMAIN disk.rows : disk'.rows[k] = disk.rows[l]

LEMMA PendingGrows ==
    ASSUME NEW g \in Goroutines, OthersKeep(g), Stale(op[g]) \subseteq Stale(op'[g])
    PROVE  Pending(op) \subseteq Pending(op')
  BY DEF Pending, OthersKeep

LEMMA OthersWriteFine ==
    ASSUME OpsInv, AskedInv, KeepsFields(program), NEW g \in Goroutines, g \in program.goroutines,
           OthersKeep(g), WriteFine(g)'
    PROVE  \A k \in Goroutines : WriteFine(k)'
<1>1. ASSUME NEW k \in Goroutines \ {g} PROVE WriteFine(k)'
  BY OthersDoNotUpdate DEF OthersKeep, WriteFine, Updating
<1> QED
  BY <1>1

LEMMA FieldsShrink ==
    ASSUME TypeInv, OpsInv, AskedInv, KeepsFields(program), FieldsInv, UNCHANGED program,
           NEW g \in Goroutines, g \in program.goroutines, OthersKeep(g),
           op'[g].stage # "append", WriteFine(g)', Stale(op[g]) \subseteq Stale(op'[g]),
           HeapKeeps, RowsShrink, DiskShrinks
    PROVE  FieldsInv'
<1>1. ASSUME NEW h \in handed', NEW i \in DOMAIN rows'[h], NEW k \in DOMAIN disk'.rows,
             rows'[h][i].id = disk'.rows[k].id
      PROVE  Agrees(program'.fields, Pending(op'), rows'[h][i].id, heap'[rows'[h][i].ref], disk'.rows[k].doc)
  <2>1. h \in handed /\ h \in Handles
    BY DEF RowsShrink, TypeInv, TypeOK
  <2>2. PICK j \in DOMAIN rows[h] : rows'[h][i] = rows[h][j]
    BY DEF RowsShrink
  <2>3. PICK l \in DOMAIN disk.rows : disk'.rows[k] = disk.rows[l]
    BY DEF DiskShrinks
  <2>4. Agrees(program.fields, Pending(op), rows[h][j].id, heap[rows[h][j].ref], disk.rows[l].doc)
    BY <1>1, <2>1, <2>2, <2>3 DEF FieldsInv, FieldsAgree
  <2>5. heap'[rows[h][j].ref] = heap[rows[h][j].ref]
    BY <2>1 DEF HeapKeeps
  <2>6. Pending(op) \subseteq Pending(op')
    BY PendingGrows
  <2> QED
    BY <2>2, <2>3, <2>4, <2>5, <2>6 DEF Agrees
<1>2. ASSUME NEW k \in Goroutines PROVE AppendFine(k)'
  <2>1. CASE k = g
    BY <2>1 DEF AppendFine
  <2>2. CASE k # g
    <3>1. op'[k] = op[k] /\ AppendFine(k)
      BY <2>2 DEF OthersKeep, FieldsInv
    <3> QED
      BY <3>1 DEF AppendFine, HeapKeeps, DiskShrinks
  <2> QED
    BY <2>1, <2>2
<1>3. \A k \in Goroutines : WriteFine(k)'
  BY OthersWriteFine
<1>4. FieldsAgree'
  BY <1>1 DEF FieldsAgree
<1> QED
  BY <1>2, <1>3, <1>4 DEF FieldsInv

LEMMA HeapSame == ASSUME heap' = heap PROVE HeapKeeps
  BY DEF HeapKeeps
LEMMA RowsSame == ASSUME rows' = rows, handed' \subseteq handed PROVE RowsShrink
  BY DEF RowsShrink
LEMMA DiskSame == ASSUME disk'.rows = disk.rows PROVE DiskShrinks
  BY DEF DiskShrinks

LEMMA QuietFields ==
    ASSUME NEW g \in Goroutines, op'[g] = Idle
    PROVE  op'[g].stage # "append" /\ WriteFine(g)' /\ Stale(op'[g]) = {}
  BY DEF Idle, WriteFine, Stale

LEMMA CheckInsertFields ==
    ASSUME TypeInv, OpsInv, AskedInv, KeepsFields(program), FieldsInv, UNCHANGED program,
           NEW g \in Goroutines, g \in program.goroutines,
           NEW id \in Ids, NEW doc \in program.docs, CheckInsert(g, id, doc)
    PROVE  FieldsInv'
<1>1. /\ op[g].stage = "ready" /\ RowsShrink /\ DiskShrinks /\ Stale(op[g]) = {}
  BY CheckInsertDoes, RowsSame, DiskSame DEF Stale
<1>2. CASE Quiet(g) /\ UNCHANGED heap
  BY <1>1, <1>2, QuietFields, HeapSame, FieldsShrink DEF Quiet
<1>3. CASE ~(Quiet(g) /\ UNCHANGED heap)
  <2>1. OthersKeep(g) /\ op'[g].stage = "insert"
    BY <1>3, CheckInsertDoes
  <2>2. PICK r \in Free : /\ r \in Refs /\ heap' = Put(r, doc)
                         /\ op'[g].todo = <<[id |-> id, ref |-> r]>>
    BY <1>3, CheckInsertDoes
  <2>3. HeapKeeps
    <3>1. \A h \in Handles : NotIn(rows[h], r)
      BY FreeRef
    <3>2. \A k \in Goroutines : op[k].stage = "append" => op[k].todo[1].ref # r
      BY FreeRef, NewFacts DEF New
    <3>3. \A x \in Refs : x # r => heap'[x] = heap[x]
      BY <2>2 DEF Put, TypeInv, TypeOK
    <3>4. \A h \in Handles : \A j \in DOMAIN rows[h] : rows[h][j].ref \in Refs
      BY RowsFacts DEF TypeInv
    <3>5. \A k \in Goroutines : op[k].stage = "append" => op[k].todo[1].ref \in Refs
      BY WithRowsFacts DEF WithRows
    <3> QED
      BY <3>1, <3>2, <3>3, <3>4, <3>5 DEF HeapKeeps, NotIn
  <2>4. WriteFine(g)' /\ op'[g].stage # "append"
    BY <2>1 DEF WriteFine
  <2> QED
    BY <1>1, <2>1, <2>3, <2>4, FieldsShrink
<1> QED
  BY <1>2, <1>3

LEMMA StoreInsertFields ==
    ASSUME TypeInv, OpsInv, IdsInv, AskedInv, KeepsFields(program), FieldsInv, UNCHANGED program,
           NEW g \in Goroutines, g \in program.goroutines, StoreInsert(g)
    PROVE  FieldsInv'
<1>0. PICK h \in Handles : h = op[g].h
  BY StoreInsertDoes, WithRowsFacts DEF WithRows
<1>1. /\ op[g].stage = "insert" /\ op[g].stage \in Under /\ Stale(op[g]) = {}
      /\ UNCHANGED <<heap, rows, handed>> /\ NewRow(g) \in DiskRow
  BY StoreInsertDoes DEF Stale, Under, WithRows
<1>2. CASE Quiet(g) /\ UNCHANGED disk
  BY <1>1, <1>2, QuietFields, HeapSame, RowsSame, DiskSame, FieldsShrink DEF Quiet
<1>3. CASE ~(Quiet(g) /\ UNCHANGED disk)
  <2> DEFINE n == Len(disk.rows)
             x == NewRow(g)
  <2>1. Insertable(x) /\ GoesOn(g, "append") /\ disk'.rows = Append(disk.rows, x)
    BY <1>3, StoreInsertDoes
  <2>2. disk.rows \in Seq(DiskRow) /\ DOMAIN disk.rows = 1..n /\ n \in Nat
    BY DiskFacts DEF TypeInv
  <2>3. /\ DOMAIN disk'.rows = 1..(n + 1) /\ disk'.rows[n + 1] = x
        /\ \A i \in 1..n : disk'.rows[i] = disk.rows[i]
    BY <1>1, <2>1, <2>2, AppendFacts, LenProperties
  <2>4. \A i \in 1..(n + 1) : i \in 1..n \/ i = n + 1
    BY <2>2
  <2>5. x.id = op[g].todo[1].id /\ x.doc = heap[op[g].todo[1].ref] /\ x.id \notin IdsOf(disk.rows)
    BY <2>1 DEF NewRow, Insertable
  <2>6. Split(h) /\ h \in handed /\ \A a \in handed : a = h
    BY <1>0, <1>1, InUse DEF IdsInv
  <2>7. x.id \in Ids
    BY <1>1 DEF DiskRow
  <2> HIDE DEF n, x
  <2>8. x.id \notin IdsOf(rows[h])
    BY <2>5, <2>6, <2>7 DEF Split, SplitOf
  <2>9. Pending(op) \subseteq Pending(op')
    BY <1>1, <2>1, PendingGrows DEF GoesOn
  <2>10. ASSUME NEW i \in DOMAIN rows[h], NEW k \in 1..(n + 1), rows[h][i].id = disk'.rows[k].id
         PROVE  Agrees(program.fields, Pending(op'), rows[h][i].id, heap[rows[h][i].ref], disk'.rows[k].doc)
    <3>1. k # n + 1
      BY <2>3, <2>8, <2>10 DEF IdsOf
    <3>2. k \in DOMAIN disk.rows /\ disk'.rows[k] = disk.rows[k]
      BY <2>2, <2>3, <2>4, <3>1
    <3>3. Agrees(program.fields, Pending(op), rows[h][i].id, heap[rows[h][i].ref], disk.rows[k].doc)
      BY <2>6, <2>10, <3>2 DEF FieldsInv, FieldsAgree
    <3> QED
      BY <2>9, <3>2, <3>3 DEF Agrees
  <2>11. FieldsAgree'
    BY <1>1, <2>3, <2>6, <2>10 DEF FieldsAgree
  <2>12. ASSUME NEW k \in Goroutines PROVE AppendFine(k)'
    <3>1. CASE k = g
      BY <1>1, <2>1, <2>2, <2>3, <2>4, <2>5, <3>1 DEF AppendFine, GoesOn, IdsOf
    <3>2. CASE k # g
      <4>1. op'[k] = op[k] /\ AppendFine(k)
        BY <2>1, <3>2 DEF GoesOn, OthersKeep, FieldsInv
      <4>2. ASSUME op[k].stage = "append" PROVE op[k].todo[1].id # x.id
        <5>1. op[k].stage \in WithRows /\ op[k].stage \in OneRow /\ op[k].todo[1].id \in Ids
          BY <4>2, WithRowsFacts DEF WithRows, OneRow
        <5>2. op[k].todo[1].id \in InHand[k]
          BY <4>2, <5>1, OneRowIds DEF InHand, Extra
        <5>3. op[k].todo[1].id \in IdsOf(disk.rows)
          BY <2>6, <5>1, <5>2 DEF Split, SplitOf
        <5> QED
          BY <2>5, <5>3
      <4> QED
        BY <1>1, <2>2, <2>3, <2>4, <4>1, <4>2 DEF AppendFine
    <3> QED
      BY <3>1, <3>2
  <2>13. \A k \in Goroutines : WriteFine(k)'
    BY <2>1, OthersWriteFine DEF GoesOn, WriteFine
  <2> QED
    BY <2>11, <2>12, <2>13 DEF FieldsInv
<1> QED
  BY <1>2, <1>3

LEMMA AppendRowFields ==
    ASSUME TypeInv, OpsInv, AskedInv, KeepsFields(program), FieldsInv, UNCHANGED program,
           NEW g \in Goroutines, g \in program.goroutines, AppendRow(g)
    PROVE  FieldsInv'
<1>0. PICK h \in Handles : h = op[g].h
  BY AppendRowDoes
<1>1. PICK x \in Row : x = op[g].todo[1]
  BY AppendRowDoes
<1>2. /\ op[g].stage = "append" /\ op[g].stage \in Under /\ Stale(op[g]) = {}
      /\ UNCHANGED <<disk, heap, handed>>
      /\ rows' = [rows EXCEPT ![h] = Append(rows[h], x)]
      /\ OthersKeep(g) /\ op'[g].stage \in {"idle", "inserted"}
  BY <1>0, <1>1, AppendRowDoes DEF Stale, Under, WithRows, Quiet, GoesOn, Idle
<1>3. h \in handed /\ \A a \in handed : a = h
  BY <1>0, <1>2, InUse
<1> DEFINE n == Len(rows[h])
<1>4. rows[h] \in Seq(Row) /\ DOMAIN rows[h] = 1..n
  BY RowsFacts DEF TypeInv
<1>5. rows'[h] = Append(rows[h], x)
  BY <1>2 DEF TypeInv, TypeOK
<1>6. /\ DOMAIN rows'[h] = 1..(n + 1) /\ n \in Nat /\ rows'[h][n + 1] = x
      /\ \A i \in 1..n : rows'[h][i] = rows[h][i]
  BY <1>4, <1>5, AppendFacts, LenProperties
<1>7. \A i \in 1..(n + 1) : i \in 1..n \/ i = n + 1
  BY <1>6
<1> HIDE DEF n
<1>8. Pending(op) \subseteq Pending(op')
  BY <1>2, PendingGrows
<1>9. ASSUME NEW i \in 1..(n + 1), NEW k \in DOMAIN disk.rows, rows'[h][i].id = disk.rows[k].id
      PROVE  Agrees(program.fields, Pending(op'), rows'[h][i].id, heap[rows'[h][i].ref], disk.rows[k].doc)
  <2>1. CASE i = n + 1
    <3>1. AppendFine(g)
      BY DEF FieldsInv
    <3>2. disk.rows[k].id = x.id => disk.rows[k].doc = heap[x.ref]
      BY <1>1, <1>2, <3>1 DEF AppendFine
    <3>3. rows'[h][i] = x
      BY <1>6, <2>1
    <3>4. disk.rows[k].doc = heap[x.ref]
      BY <1>9, <3>2, <3>3
    <3> QED
      BY <3>3, <3>4 DEF Agrees
  <2>2. CASE i \in 1..n
    <3>1. Agrees(program.fields, Pending(op), rows[h][i].id, heap[rows[h][i].ref], disk.rows[k].doc)
      BY <1>3, <1>4, <1>6, <1>9, <2>2 DEF FieldsInv, FieldsAgree
    <3> QED
      BY <1>6, <1>8, <2>2, <3>1 DEF Agrees
  <2> QED
    BY <1>7, <2>1, <2>2
<1>10. FieldsAgree'
  <2>1. \A i \in DOMAIN rows'[h], k \in DOMAIN disk.rows :
           rows'[h][i].id = disk.rows[k].id =>
             Agrees(program.fields, Pending(op'), rows'[h][i].id, heap[rows'[h][i].ref], disk.rows[k].doc)
    BY <1>6, <1>9
  <2>2. \A a \in handed' : a = h
    BY <1>2, <1>3
  <2> QED
    BY <1>2, <2>1, <2>2 DEF FieldsAgree
<1>11. \A k \in Goroutines : AppendFine(k)'
  BY <1>2 DEF AppendFine, OthersKeep, FieldsInv
<1>12. \A k \in Goroutines : WriteFine(k)'
  BY <1>2, OthersWriteFine DEF WriteFine
<1> QED
  BY <1>10, <1>11, <1>12 DEF FieldsInv

(* What an update changes of the documents. *)
LEMMA RewrittenFacts ==
    ASSUME TypeInv, NEW g \in Goroutines, NEW filter, NEW onlyFirst, NEW field \in program.fields,
           NEW val, heap' = Rewritten(g, filter, onlyFirst, field, val)
    PROVE  \A r \in Refs :
              /\ (\A k \in Hit(g, filter, onlyFirst) : rows[op[g].h][k].ref # r) => heap'[r] = heap[r]
              /\ field # "u" => heap'[r].u = heap[r].u
              /\ field # "n" => heap'[r].n = heap[r].n
<1> SUFFICES ASSUME NEW r \in Refs
             PROVE  /\ (\A k \in Hit(g, filter, onlyFirst) : rows[op[g].h][k].ref # r) => heap'[r] = heap[r]
                    /\ field # "u" => heap'[r].u = heap[r].u
                    /\ field # "n" => heap'[r].n = heap[r].n
  OBVIOUS
<1> DEFINE b == \E k \in Hit(g, filter, onlyFirst) : rows[op[g].h][k].ref = r
           d == heap[r]
<1>1. field \in {"u", "n"} /\ d \in Doc
  BY OfProgram DEF TypeInv, TypeOK
<1>2. heap'[r] = IF b THEN [d EXCEPT ![field] = val] ELSE d
  BY DEF Rewritten
<1>3. ~b => heap'[r] = d
  BY <1>2
<1>4. b => heap'[r] = [d EXCEPT ![field] = val]
  BY <1>2
<1>5. CASE field = "u" /\ b
  <2>1. [d EXCEPT ![field] = val].n = d.n
    BY <1>1, <1>5 DEF Doc
  <2> QED
    BY <1>4, <1>5, <2>1
<1>6. CASE field = "n" /\ b
  <2>1. [d EXCEPT ![field] = val].u = d.u
    BY <1>1, <1>6 DEF Doc
  <2> QED
    BY <1>4, <1>6, <2>1
<1>7. CASE ~b
  BY <1>3, <1>7
<1> QED
  BY <1>1, <1>5, <1>6, <1>7

LEMMA SoloUpdates ==
    ASSUME OpsInv, KeepsFields(program), Does("update"), NEW g \in program.goroutines, OthersKeep(g)
    PROVE  /\ \A k \in Goroutines \ {g} : op[k].stage = "idle" /\ op'[k].stage = "idle"
           /\ \A k \in Goroutines \ {g} : Stale(op[k]) = {} /\ AppendFine(k)' /\ WriteFine(k)'
<1>1. \A k \in Goroutines \ {g} : op[k].stage = "idle"
  BY OthersIdle DEF KeepsFields, Does
<1>2. \A k \in Goroutines \ {g} : op'[k].stage = "idle"
  BY <1>1 DEF OthersKeep
<1>3. \A k \in Goroutines \ {g} : AppendFine(k)' /\ WriteFine(k)'
  BY <1>2 DEF AppendFine, WriteFine
<1> QED
  BY <1>1, <1>2, <1>3 DEF Stale

LEMMA UpdateRowsFields ==
    ASSUME TypeInv, OpsInv, AskedInv, RefsInv, KeepsFields(program), FieldsInv, UNCHANGED program,
           NEW g \in Goroutines, g \in program.goroutines, NEW filter, NEW onlyFirst \in BOOLEAN,
           NEW field \in program.fields, NEW val \in Values(field),
           UpdateRows(g, filter, field, val, onlyFirst)
    PROVE  FieldsInv'
<1>0. PICK h \in Handles : h = op[g].h
  BY UpdateRowsDoes
<1>1. PICK hit \in SUBSET (1..Len(rows[h])) : hit = Hit(g, filter, onlyFirst)
  BY <1>0, UpdateRowsDoes
<1>2. /\ op[g].stage = "ready" /\ op[g].stage \in Under /\ Stale(op[g]) = {} /\ Does("update")
      /\ UNCHANGED <<disk, rows, handed>> /\ OthersKeep(g)
  BY UpdateRowsDoes DEF Stale, Under, Quiet
<1>3. h \in handed /\ \A a \in handed : a = h
  BY <1>0, <1>2, InUse
<1>4. heap' = Rewritten(g, filter, onlyFirst, field, val)
  BY UpdateRowsDoes
<1>5. \A r \in Refs : /\ (\A k \in hit : rows[h][k].ref # r) => heap'[r] = heap[r]
                      /\ field # "u" => heap'[r].u = heap[r].u
                      /\ field # "n" => heap'[r].n = heap[r].n
  <2>1. \A r \in Refs : /\ (\A k \in Hit(g, filter, onlyFirst) : rows[op[g].h][k].ref # r) => heap'[r] = heap[r]
                        /\ field # "u" => heap'[r].u = heap[r].u
                        /\ field # "n" => heap'[r].n = heap[r].n
    BY <1>4, RewrittenFacts
  <2> QED
    BY <1>0, <1>1, <2>1
<1>6. /\ rows[h] \in Seq(Row) /\ DOMAIN rows[h] = 1..Len(rows[h]) /\ OnceRefs(rows[h])
      /\ \A i \in DOMAIN rows[h] : rows[h][i].ref \in Refs /\ rows[h][i].id \in Ids
  BY RowsFacts DEF TypeInv, RefsInv
<1>7. CASE hit = {}
  <2>1. Quiet(g)
    BY <1>1, <1>7, UpdateRowsDoes
  <2>2. \A r \in Refs : heap'[r] = heap[r]
    BY <1>5, <1>7
  <2>3. HeapKeeps
    <3>1. \A a \in Handles : \A j \in DOMAIN rows[a] : rows[a][j].ref \in Refs
      BY RowsFacts DEF TypeInv
    <3>2. \A k \in Goroutines : op[k].stage = "append" => op[k].todo[1].ref \in Refs
      BY WithRowsFacts DEF WithRows
    <3> QED
      BY <2>2, <3>1, <3>2 DEF HeapKeeps
  <2> QED
    BY <1>2, <2>1, <2>3, QuietFields, RowsSame, DiskSame, FieldsShrink DEF Quiet
<1>8. CASE hit # {}
  <2> DEFINE t == Picked(rows[h], hit)
  <2>1. op'[g].stage = "marshal" /\ op'[g].todo = t
    BY <1>0, <1>1, <1>8, UpdateRowsDoes
  <2>2. \A i : i \in IdsOf(t) <=> \E k \in hit : rows[h][k].id = i
    BY <1>6, IdsPicked
  <2> HIDE DEF t
  <2>3. Stale(op'[g]) = IdsOf(t)
    BY <2>1 DEF Stale
  <2>4. Pending(op) = {}
    BY <1>2, SoloUpdates DEF Pending
  <2>5. ASSUME NEW i \in DOMAIN rows[h], NEW k \in DOMAIN disk.rows, rows[h][i].id = disk.rows[k].id
        PROVE  Agrees(program.fields, Pending(op'), rows[h][i].id, heap'[rows[h][i].ref], disk.rows[k].doc)
    <3>1. Agrees(program.fields, {}, rows[h][i].id, heap[rows[h][i].ref], disk.rows[k].doc)
      BY <1>3, <2>4, <2>5 DEF FieldsInv, FieldsAgree
    <3>2. CASE i \in hit
      <4>1. rows[h][i].id \in Pending(op')
        BY <1>6, <2>2, <2>3, <3>2 DEF Pending
      <4>2. /\ "u" \notin program.fields => heap'[rows[h][i].ref].u = heap[rows[h][i].ref].u
            /\ "n" \notin program.fields => heap'[rows[h][i].ref].n = heap[rows[h][i].ref].n
        BY <1>5, <1>6
      <4> QED
        BY <3>1, <4>1, <4>2 DEF Agrees
    <3>3. CASE i \notin hit
      <4>1. \A j \in hit : rows[h][j].ref # rows[h][i].ref
        BY <1>6, <3>3 DEF OnceRefs
      <4>2. heap'[rows[h][i].ref] = heap[rows[h][i].ref]
        BY <1>5, <1>6, <4>1
      <4> QED
        BY <3>1, <4>2 DEF Agrees
    <3> QED
      BY <3>2, <3>3
  <2>6. FieldsAgree'
    BY <1>2, <1>3, <2>5 DEF FieldsAgree
  <2>7. \A k \in Goroutines : AppendFine(k)' /\ WriteFine(k)'
    <3>1. AppendFine(g)' /\ WriteFine(g)'
      BY <2>1 DEF AppendFine, WriteFine
    <3> QED
      BY <1>2, <3>1, SoloUpdates
  <2> QED
    BY <2>6, <2>7 DEF FieldsInv
<1> QED
  BY <1>7, <1>8

LEMMA WriteUpdateFields ==
    ASSUME TypeInv, OpsInv, IdsInv, AskedInv, IndexInv, TodoInv, KeepsFields(program), FieldsInv,
           UNCHANGED program, NEW g \in Goroutines, g \in program.goroutines, WriteUpdate(g)
    PROVE  FieldsInv'
<1>1. /\ op[g].stage = "write" /\ op[g].stage \in WithRows /\ op[g].stage \in Under
      /\ op[g].stage \in Updating /\ op[g].stage \in InCopy
      /\ UNCHANGED <<heap, rows, handed>>
      /\ Left(g, "marshal") \/ GoesOn(g, "updated")
  BY WriteUpdateDoes DEF WithRows, Under, Updating, InCopy
<1>2. PICK h \in Handles : h = op[g].h
  BY <1>1, WithRowsFacts
<1>3. PICK x \in Row : x = op[g].todo[1]
  BY <1>1, WithRowsFacts
<1>4. /\ Does("update") /\ Solo(program)
      /\ "u" \in program.fields => NoIndex(program)
  BY <1>1 DEF AskedInv, Asked, KeepsFields, Does
<1>5. Split(h) /\ h \in handed /\ (\A a \in handed : a = h) /\ disk.table
  BY <1>1, <1>2, InUse DEF IdsInv, OpsInv, OpFine
<1>6. PICK i0 \in DOMAIN rows[h] : rows[h][i0] = x
  <2>1. Among(op[g].todo, rows[h])
    BY <1>1, <1>2, <1>4 DEF TodoInv, TodoFine
  <2>2. 1 \in DOMAIN op[g].todo
    <3>1. op[g].todo \in Seq(Row) /\ Len(op[g].todo) \in Nat \ {0}
      BY <1>1, WithRowsFacts
    <3>2. 1 \in 1..Len(op[g].todo)
      BY <3>1
    <3> QED
      BY <3>1, <3>2, LenProperties
  <2> QED
    BY <1>3, <2>1, <2>2 DEF Among
<1>7. op[g].payload = heap[x.ref]
  BY <1>1, <1>3 DEF FieldsInv, WriteFine
<1>8. OnceIds(rows[h]) /\ OnceIds(disk.rows) /\ OnceIds(op[g].todo) /\ x.id \in Ids
  BY DEF IdsInv, Row
<1>9. PICK k0 \in DOMAIN disk.rows : disk.rows[k0].id = x.id
  <2>1. x.id \in IdsOf(rows[h])
    BY <1>6 DEF IdsOf
  <2>2. x.id \in IdsOf(disk.rows)
    BY <1>5, <1>8, <2>1 DEF Split, SplitOf
  <2> QED
    BY <2>2 DEF IdsOf
<1>10. Updatable(x.id, op[g].payload)
  <2>1. ASSUME disk.index, NEW k \in DOMAIN disk.rows, disk.rows[k].id # x.id
        PROVE  disk.rows[k].doc.u # op[g].payload.u
    <3>1. Distinct(disk.rows) /\ "u" \notin program.fields
      BY <1>4, <2>1 DEF IndexInv
    <3>2. Agrees(program.fields, Pending(op), x.id, heap[x.ref], disk.rows[k0].doc)
      BY <1>5, <1>6, <1>9 DEF FieldsInv, FieldsAgree
    <3>3. heap[x.ref].u = disk.rows[k0].doc.u
      BY <3>1, <3>2 DEF Agrees
    <3>4. k # k0
      BY <1>9, <2>1
    <3> QED
      BY <1>7, <3>1, <3>3, <3>4 DEF Distinct
  <2> QED
    BY <1>5, <2>1 DEF Updatable
<1>11. /\ DOMAIN disk'.rows = DOMAIN disk.rows
       /\ \A k \in DOMAIN disk.rows :
             /\ disk'.rows[k].id = disk.rows[k].id
             /\ disk.rows[k].id # x.id => disk'.rows[k] = disk.rows[k]
             /\ disk.rows[k].id = x.id => disk'.rows[k].doc = heap[x.ref]
  BY <1>3, <1>7, <1>10, WriteUpdateDisk
<1>12. Pending(op) \subseteq Pending(op') \cup {x.id}
  <2>1. Stale(op[g]) = {x.id} \cup IdsOf(Tail(op[g].todo))
    <3>1. op[g].todo \in Seq(Row) /\ op[g].todo # <<>>
      BY <1>1, WithRowsFacts
    <3>2. Stale(op[g]) = IdsOf(op[g].todo)
      BY <1>1 DEF Stale
    <3> QED
      BY <1>3, <3>1, <3>2, IdsTail
  <2>2. IdsOf(Tail(op[g].todo)) \subseteq Stale(op'[g])
    <3>1. CASE Left(g, "marshal")
      BY <3>1, IdsEmpty DEF Left, Stale
    <3>2. CASE GoesOn(g, "updated")
      BY <3>2 DEF GoesOn, Stale
    <3> QED
      BY <1>1, <3>1, <3>2
  <2>3. OthersKeep(g)
    BY <1>1 DEF Left, GoesOn
  <2> QED
    BY <2>1, <2>2, <2>3 DEF Pending, OthersKeep
<1>13. ASSUME NEW i \in DOMAIN rows[h], NEW k \in DOMAIN disk.rows, rows[h][i].id = disk.rows[k].id
       PROVE  Agrees(program.fields, Pending(op'), rows[h][i].id, heap[rows[h][i].ref], disk'.rows[k].doc)
  <2>1. CASE disk.rows[k].id = x.id
    <3>1. i = i0
      BY <1>6, <1>8, <1>13, <2>1 DEF OnceIds
    <3>2. disk'.rows[k].doc = heap[rows[h][i].ref]
      BY <1>6, <1>11, <2>1, <3>1
    <3> QED
      BY <3>2 DEF Agrees
  <2>2. CASE disk.rows[k].id # x.id
    <3>1. Agrees(program.fields, Pending(op), rows[h][i].id, heap[rows[h][i].ref], disk.rows[k].doc)
      BY <1>5, <1>13 DEF FieldsInv, FieldsAgree
    <3> QED
      BY <1>11, <1>12, <1>13, <2>2, <3>1 DEF Agrees
  <2> QED
    BY <2>1, <2>2
<1>14. FieldsAgree'
  BY <1>1, <1>5, <1>11, <1>13 DEF FieldsAgree
<1>15. \A k \in Goroutines : AppendFine(k)' /\ WriteFine(k)'
  <2>1. AppendFine(g)' /\ WriteFine(g)'
    BY <1>1 DEF AppendFine, WriteFine, Left, GoesOn, Idle
  <2>2. OthersKeep(g)
    BY <1>1 DEF Left, GoesOn
  <2> QED
    BY <1>4, <2>1, <2>2, SoloUpdates
<1> QED
  BY <1>14, <1>15 DEF FieldsInv

LEMMA RowStepFields ==
    ASSUME TypeInv, OpsInv, IdsInv, RefsInv, AskedInv, IndexInv, TodoInv, KeepsFields(program),
           FieldsInv, UNCHANGED program, NEW g \in Goroutines, g \in program.goroutines, RowStep(g)
    PROVE  FieldsInv'
<1>1. CASE Query(g) \/ Watch(g)
  <2>1. op[g].stage = "ready" /\ UNCHANGED <<disk, rows, heap, handed>> /\ Done(g)
    BY <1>1 DEF Query, Watch, At, memory, registry
  <2>2. Quiet(g)
    BY <2>1, DoneFacts DEF TypeInv, Quiet
  <2> QED
    BY <2>1, <2>2, QuietFields, HeapSame, RowsSame, DiskSame, FieldsShrink DEF Quiet, Stale
<1>2. CASE Marshal(g)
  <2>1. UNCHANGED <<disk, rows, heap, handed>>
    BY <1>2 DEF Marshal, memory, registry
  <2>2. /\ OthersKeep(g) /\ op[g].stage = "marshal" /\ op'[g].stage = "write"
        /\ op'[g].todo = op[g].todo /\ op'[g].payload = heap[op[g].todo[1].ref]
    BY <1>2, MarshalFacts
  <2>3. WriteFine(g)' /\ Stale(op[g]) = Stale(op'[g])
    BY <2>1, <2>2 DEF WriteFine, Stale
  <2> QED
    BY <2>1, <2>2, <2>3, HeapSame, RowsSame, DiskSame, FieldsShrink
<1>3. CASE DeleteRow(g)
  <2>1. UNCHANGED <<heap, rows, handed>> /\ op[g].stage = "delete"
    BY <1>3, DeleteRowDoes
  <2>2. /\ disk'.rows = Picked(disk.rows, OthersOf(op[g].todo[1].id)) /\ disk.rows \in Seq(DiskRow)
        /\ OthersOf(op[g].todo[1].id) \in SUBSET (1..Len(disk.rows))
    BY <1>3, DeleteRowDoes, WithoutFacts, DiskFacts DEF TypeInv
  <2>3. DiskShrinks
    BY <2>2, PickedSubsequence, SubsequenceFacts DEF DiskShrinks
  <2>4. OthersKeep(g) /\ op'[g].stage \in {"idle", "delete", "deleted"}
    BY <1>3, DeleteRowDoes DEF Left, GoesOn, Idle
  <2>5. WriteFine(g)' /\ op'[g].stage # "append" /\ Stale(op[g]) = {}
    BY <2>1, <2>4 DEF WriteFine, Stale
  <2> QED
    BY <2>1, <2>3, <2>4, <2>5, HeapSame, RowsSame, FieldsShrink
<1>4. CASE Notified(g)
  <2>1. UNCHANGED <<disk, heap, rows, handed>> /\ op[g].stage \in {"inserted", "updated", "deleted"}
    BY <1>4, NotifiedDoes
  <2>2. CASE op[g].stage \in {"inserted", "deleted"}
    <3>1. OthersKeep(g) /\ op'[g].stage \in {"idle", "delete"}
      BY <1>4, <2>2, NotifiedDoes DEF Left, Quiet, Idle
    <3>2. WriteFine(g)' /\ op'[g].stage # "append" /\ Stale(op[g]) = {}
      BY <2>2, <3>1 DEF WriteFine, Stale
    <3> QED
      BY <2>1, <3>1, <3>2, HeapSame, RowsSame, DiskSame, FieldsShrink
  <2>3. CASE op[g].stage = "updated"
    <3>1. Left(g, "marshal")
      BY <1>4, <2>3, NotifiedDoes
    <3>2. WriteFine(g)' /\ op'[g].stage # "append"
      BY <3>1 DEF WriteFine, Left, Idle
    <3>3. Stale(op[g]) \subseteq Stale(op'[g])
      BY <2>3, <3>1, IdsEmpty DEF Stale, Left
    <3> QED
      BY <2>1, <3>1, <3>2, <3>3, HeapSame, RowsSame, DiskSame, FieldsShrink DEF Left
  <2> QED
    BY <2>1, <2>2, <2>3
<1>5. ASSUME NEW filter \in Filters, NEW onlyFirst \in BOOLEAN, DeleteRows(g, filter, onlyFirst)
      PROVE  FieldsInv'
  <2>0. PICK h \in Handles : h = op[g].h
    BY <1>5, DeleteRowsDoes
  <2> DEFINE s == Picked(rows[h], Kept(g, filter, onlyFirst))
  <2>1. OthersKeep(g) /\ op[g].stage = "ready" /\ op'[g].stage \in {"idle", "delete"}
    BY <1>5, DeleteRowsDoes DEF Quiet, Idle
  <2>2. /\ rows' = [rows EXCEPT ![h] = s] /\ UNCHANGED <<disk, heap, handed>>
        /\ Kept(g, filter, onlyFirst) \in SUBSET (1..Len(rows[h]))
    BY <1>5, <2>0, DeleteRowsDoes
  <2>3. \A i \in DOMAIN s : \E j \in DOMAIN rows[h] : s[i] = rows[h][j]
    BY <2>2, RowsFacts, PickedSubsequence, SubsequenceFacts DEF TypeInv
  <2> HIDE DEF s
  <2>4. RowsShrink
    BY <2>2, <2>3 DEF RowsShrink, TypeInv, TypeOK
  <2>5. WriteFine(g)' /\ op'[g].stage # "append" /\ Stale(op[g]) = {}
    BY <2>1 DEF WriteFine, Stale
  <2> QED
    BY <2>1, <2>2, <2>4, <2>5, HeapSame, DiskSame, FieldsShrink
<1> QED
  BY <1>1, <1>2, <1>3, <1>4, <1>5, CheckInsertFields, StoreInsertFields, AppendRowFields,
     UpdateRowsFields, WriteUpdateFields DEF RowStep

LEMMA EnsureLoadedFields ==
    ASSUME TypeInv, OpsInv, IdsInv, AskedInv, KeepsFields(program), FieldsInv, UNCHANGED program,
           NEW g \in Goroutines, g \in program.goroutines, NEW h \in Handles, EnsureLoaded(g, h)
    PROVE  FieldsInv'
<1>1. /\ op[g].stage = "idle" /\ op'[g].stage = "ready" /\ OthersKeep(g) /\ h \in handed
      /\ UNCHANGED handed /\ disk'.rows = disk.rows
  BY EnsureLoadedDoes
<1>2. WriteFine(g)' /\ Stale(op[g]) = {}
  BY <1>1 DEF WriteFine, Stale
<1>3. CASE UNCHANGED <<heap, rows>>
  BY <1>1, <1>2, <1>3, HeapSame, RowsSame, DiskSame, FieldsShrink
<1>4. CASE ~UNCHANGED <<heap, rows>>
  <2> DEFINE s == [k \in DOMAIN disk.rows |-> LoadedRow(k)]
  <2>1. /\ ~loaded[h] /\ rows' = [rows EXCEPT ![h] = s]
        /\ \A k \in DOMAIN disk.rows : heap'[FreeSeq[k]] = disk.rows[k].doc
    BY <1>4, EnsureLoadedDoes
  <2>2. DOMAIN s = DOMAIN disk.rows /\ \A k \in DOMAIN s : s[k].id = disk.rows[k].id /\ s[k].ref = FreeSeq[k]
    BY DEF LoadedRow
  <2> HIDE DEF s
  <2>3. rows'[h] = s /\ \A a \in handed' : a = h
    BY <1>1, <2>1 DEF TypeInv, TypeOK, OpsInv
  <2>4. FieldsAgree'
    BY <1>1, <2>1, <2>2, <2>3 DEF FieldsAgree, Agrees, IdsInv, OnceIds
  <2>5. \A k \in Goroutines : op'[k].stage \notin {"append", "write"}
    BY <1>1, <2>1, NothingInHand DEF OthersKeep, Under, WithRows
  <2>6. \A k \in Goroutines : AppendFine(k)' /\ WriteFine(k)'
    BY <2>5 DEF AppendFine, WriteFine
  <2> QED
    BY <2>4, <2>6 DEF FieldsInv
<1> QED
  BY <1>3, <1>4

LEMMA FieldsInvKept ==
    ASSUME TypeInv, OpsInv, IdsInv, RefsInv, AskedInv, IndexInv, TodoInv, KeepsFields(program),
           FieldsInv, Careful(program), [Next]_vars
    PROVE  FieldsInv'
<1>0. UNCHANGED program
  BY KindsOfSteps
<1>1. CASE UNCHANGED vars
  BY <1>1 DEF vars, FieldsInv, FieldsAgree, AppendFine, WriteFine
<1>2. CASE Restart
  <2>1. \A g \in Goroutines : AppendFine(g)' /\ WriteFine(g)'
    BY <1>2 DEF Restart, Idle, AppendFine, WriteFine
  <2> QED
    BY <1>2, <2>1 DEF Restart, FieldsInv, FieldsAgree
<1>3. ASSUME NEW g \in Goroutines, Table(g) PROVE FieldsInv'
  <2>1. handed = {}
    BY <1>3, HandlesAssumption DEF Table, OpsInv, TypeInv, TypeOK
  <2>2. PICK h \in Handles : handed' = {h} /\ rows' = [rows EXCEPT ![h] = <<>>]
    BY <1>3, <2>1 DEF Table
  <2>3. rows'[h] = <<>> /\ UNCHANGED <<disk, heap, op>>
    BY <1>3, <2>2 DEF Table, TypeInv, TypeOK
  <2>4. \A k \in Goroutines : AppendFine(k)' /\ WriteFine(k)'
    BY <2>3 DEF FieldsInv, AppendFine, WriteFine
  <2>5. FieldsAgree'
    BY <2>2, <2>3 DEF FieldsAgree
  <2> QED
    BY <2>4, <2>5 DEF FieldsInv
<1>4. ASSUME NEW g \in Goroutines, g \in program.goroutines, WholeStep(g) PROVE FieldsInv'
  <2>1. OthersKeep(g) /\ Solo(program) /\ disk'.rows = <<>> /\ op'[g].stage \in Whole \cup {"idle"}
    BY <1>4, WholeStepDoes DEF Idle
  <2>2. \A k \in Goroutines : op'[k].stage \in Whole \cup {"idle"}
    BY <1>4, <2>1, OthersIdle DEF OthersKeep
  <2>3. \A k \in Goroutines : AppendFine(k)' /\ WriteFine(k)'
    BY <2>2 DEF AppendFine, WriteFine, Whole
  <2>4. FieldsAgree'
    BY <2>1 DEF FieldsAgree
  <2> QED
    BY <2>3, <2>4 DEF FieldsInv
<1>5. ASSUME NEW g \in Goroutines, g \in program.goroutines, OtherStep(g) PROVE FieldsInv'
  <2>1. /\ OthersKeep(g) /\ op[g].stage \in {"idle", "index"} /\ op'[g].stage \in {"idle", "index"}
        /\ UNCHANGED <<heap, rows, handed>> /\ disk'.rows = disk.rows
    BY <1>5, OtherStepDoes
  <2>2. WriteFine(g)' /\ op'[g].stage # "append" /\ Stale(op[g]) = {}
    BY <2>1 DEF WriteFine, Stale
  <2> QED
    BY <1>0, <1>5, <2>1, <2>2, HeapSame, RowsSame, DiskSame, FieldsShrink
<1> QED
  BY <1>0, <1>1, <1>2, <1>3, <1>4, <1>5, RowStepFields, EnsureLoadedFields, KindsOfSteps

-----------------------------------------------------------------------------
(* A field the schema declares unique                                        *)

(* Programs under whose schema u stays unique once the index is there: it is *)
(* not dropped, and no update of u passes by the check.                      *)
KeepsUnique(p) ==
    "schema" \in p.operations =>
        /\ "drop" \notin p.operations /\ "dbdrop" \notin p.operations
        /\ "update" \in p.operations => Solo(p) /\ "u" \notin p.fields

UsOnce(h) == \A j, k \in DOMAIN rows[h] : heap[rows[h][j].ref].u = heap[rows[h][k].ref].u => j = k
Clearing == \E g \in Goroutines : op[g].stage = "clear"

UniqueInv ==
    /\ unique # {} => "schema" \in program.operations
    /\ "schema" \in program.operations => unique \subseteq handed
    /\ Clearing /\ disk.index => \A h \in unique : UsOnce(h)

LEMMA UniqueInitially == ASSUME Init, KeepsUnique(program) PROVE UniqueInv
  BY DEF Init, Idle, UniqueInv, Clearing, KeepsUnique

LEMMA DistinctRead ==
    ASSUME NEW h \in Handles, UsOnce(h)
    PROVE  Distinct(Read(h))
<1> DEFINE s == Read(h)
<1>1. DOMAIN s = DOMAIN rows[h] /\ \A k \in DOMAIN rows[h] : s[k].doc = heap[rows[h][k].ref]
  BY DEF Read
<1> HIDE DEF s
<1>2. Distinct(s)
  BY <1>1 DEF Distinct, UsOnce
<1> QED
  BY <1>2 DEF s

LEMMA UsOnceWhenSettled ==
    ASSUME TypeInv, OpsInv, IdsInv, AskedInv, IndexInv, KeepsUnique(program), FieldsInv, UniqueInv,
           Settled, disk.index, NEW h \in unique
    PROVE  UsOnce(h)
<1>1. h \in Handles /\ h \in handed /\ disk.index /\ "schema" \in program.operations
  BY DEF UniqueInv, TypeInv, TypeOK
<1>2. CASE ~loaded[h]
  BY <1>1, <1>2 DEF OpsInv, UsOnce
<1>3. CASE loaded[h]
  <2>1. Split(h) /\ OnceIds(rows[h]) /\ Distinct(disk.rows)
    BY <1>1, <1>3 DEF IdsInv, IndexInv
  <2>2. "u" \in program.fields => Pending(op) = {}
    <3>1. ASSUME "u" \in program.fields, NEW g \in Goroutines PROVE op[g].stage \notin Updating
      BY <1>1, <3>1 DEF KeepsUnique, AskedInv, Asked
    <3> QED
      BY <3>1, StaleOnly DEF Pending
  <2>3. ASSUME NEW i \in DOMAIN rows[h]
        PROVE  \E k \in DOMAIN disk.rows :
                  disk.rows[k].id = rows[h][i].id /\ disk.rows[k].doc.u = heap[rows[h][i].ref].u
    <3>1. rows[h][i].id \in Ids /\ rows[h][i].id \in IdsOf(rows[h])
      BY <1>1, RowsFacts DEF TypeInv, IdsOf
    <3>2. rows[h][i].id \in IdsOf(disk.rows)
      BY <2>1, <3>1 DEF Split, SplitOf
    <3>3. PICK k \in DOMAIN disk.rows : disk.rows[k].id = rows[h][i].id
      BY <3>2 DEF IdsOf
    <3>4. Agrees(program.fields, Pending(op), rows[h][i].id, heap[rows[h][i].ref], disk.rows[k].doc)
      BY <1>1, <3>3 DEF FieldsInv, FieldsAgree
    <3> QED
      BY <2>2, <3>3, <3>4 DEF Agrees
  <2>4. ASSUME NEW i \in DOMAIN rows[h], NEW j \in DOMAIN rows[h],
               heap[rows[h][i].ref].u = heap[rows[h][j].ref].u
        PROVE  i = j
    <3>1. PICK k \in DOMAIN disk.rows :
             disk.rows[k].id = rows[h][i].id /\ disk.rows[k].doc.u = heap[rows[h][i].ref].u
      BY <2>3
    <3>2. PICK l \in DOMAIN disk.rows :
             disk.rows[l].id = rows[h][j].id /\ disk.rows[l].doc.u = heap[rows[h][j].ref].u
      BY <2>3
    <3>3. k = l
      BY <2>1, <2>4, <3>1, <3>2 DEF Distinct
    <3> QED
      BY <2>1, <3>1, <3>2, <3>3 DEF OnceIds
  <2> QED
    BY <2>4 DEF UsOnce
<1> QED
  BY <1>2, <1>3

LEMMA RowStepSchema ==
    ASSUME TypeInv, NEW g \in Goroutines, RowStep(g)
    PROVE  disk'.index = disk.index
<1>1. CASE StoreInsert(g) \/ WriteUpdate(g) \/ DeleteRow(g)
  BY <1>1, StoreInsertDoes, WriteUpdateDisk, DeleteRowDoes
<1>2. CASE \/ Query(g) \/ AppendRow(g) \/ Marshal(g) \/ Notified(g) \/ Watch(g)
           \/ \E id \in Ids, doc \in program.docs : CheckInsert(g, id, doc)
           \/ \E filter \in Filters, field \in program.fields, onlyFirst \in BOOLEAN :
                \E val \in Values(field) :
                  UpdateRows(g, filter, field, val, onlyFirst)
           \/ \E filter \in Filters, onlyFirst \in BOOLEAN : DeleteRows(g, filter, onlyFirst)
  BY <1>2 DEF Query, AppendRow, Marshal, Notified, Watch, CheckInsert, UpdateRows, DeleteRows
<1> QED
  BY <1>1, <1>2 DEF RowStep

(* While a table is cleared no other goroutine takes a step. *)
LEMMA ClearingAlone ==
    ASSUME OpsInv, NEW g \in Goroutines, g \in program.goroutines, OthersKeep(g),
           op'[g].stage # "clear"
    PROVE  ~Clearing'
<1> SUFFICES ASSUME NEW k \in Goroutines, op'[k].stage = "clear" PROVE FALSE
  BY DEF Clearing
<1>1. k # g /\ op[k].stage = "clear"
  BY DEF OthersKeep
<1>2. Solo(program)
  BY <1>1 DEF OpsInv, OpFine, Whole
<1> QED
  BY <1>1, <1>2, OthersIdle

LEMMA UniqueInvKept ==
    ASSUME TypeInv, OpsInv, IdsInv, AskedInv, IndexInv, KeepsUnique(program),
           "schema" \in program.operations => FieldsInv,
           UniqueInv, Careful(program), [Next]_vars
    PROVE  UniqueInv'
<1>0. UNCHANGED program
  BY KindsOfSteps
<1>1. CASE UNCHANGED vars
  BY <1>1 DEF vars, UniqueInv, UsOnce, Clearing
<1>2. CASE Restart
  <2>1. ~Clearing'
    BY <1>2 DEF Restart, Clearing, Idle
  <2> QED
    BY <1>0, <1>2, <2>1 DEF Restart, UniqueInv
<1>3. ASSUME NEW g \in Goroutines, g \in program.goroutines, Table(g) PROVE UniqueInv'
  <2>1. handed = {}
    BY <1>3, HandlesAssumption DEF Table, OpsInv, TypeInv, TypeOK
  <2>2. unique = {}
    BY <2>1 DEF UniqueInv
  <2>3. unique' = {} /\ UNCHANGED <<disk, op>>
    BY <1>3, <2>2 DEF Table
  <2> QED
    BY <1>0, <2>3 DEF UniqueInv
<1>4. ASSUME NEW g \in Goroutines, g \in program.goroutines, NEW h \in Handles, EnsureLoaded(g, h)
      PROVE  UniqueInv'
  <2>1. ~Clearing'
    BY <1>4, EnsureLoadedDoes, ClearingAlone
  <2> QED
    BY <1>0, <1>4, <2>1, EnsureLoadedDoes DEF UniqueInv
<1>5. ASSUME NEW g \in Goroutines, g \in program.goroutines, RowStep(g) PROVE UniqueInv'
  <2>1. op'[g].stage # "clear" /\ OthersKeep(g) /\ UNCHANGED <<unique, handed>>
    BY <1>5, RowStepDoes DEF Idle, WithRows
  <2>2. ~Clearing'
    BY <1>5, <2>1, ClearingAlone
  <2> QED
    BY <1>0, <1>5, <2>1, <2>2, RowStepSchema DEF UniqueInv
<1>6. ASSUME NEW g \in Goroutines, g \in program.goroutines, OtherStep(g) PROVE UniqueInv'
  <2>1. ~Clearing'
    BY <1>6, OtherStepDoes, ClearingAlone
  <2>2. CASE CreateIndex(g)
    BY <1>0, <2>1, <2>2 DEF CreateIndex, registry, UniqueInv
  <2>3. ASSUME NEW h \in Handles, SetSchema(g, h) PROVE UniqueInv'
    BY <1>0, <2>1, <2>3 DEF SetSchema, Does, UniqueInv
  <2>4. ASSUME NEW h \in Handles, Unwatch(g, h) PROVE UniqueInv'
    BY <1>0, <2>1, <2>4 DEF Unwatch, registry, UniqueInv
  <2> QED
    BY <1>6, <2>2, <2>3, <2>4 DEF OtherStep
<1>7. ASSUME NEW g \in Goroutines, g \in program.goroutines, WholeStep(g) PROVE UniqueInv'
  <2>0. OthersKeep(g) /\ Solo(program)
    BY <1>7, WholeStepDoes
  <2>1. ASSUME NEW h \in Handles, ClearDisk(g, h) PROVE UniqueInv'
    <3>1. disk'.index = disk.index /\ UNCHANGED <<heap, rows, unique, handed>> /\ op[g].stage = "idle"
      BY <2>1 DEF ClearDisk, At, memory, registry, TypeInv, TypeOK
    <3>2. Settled
      <4>1. \A k \in Goroutines : op[k].stage = "idle"
        BY <1>7, <2>0, <3>1, OthersIdle
      <4> QED
        BY <4>1 DEF Settled, Whole
    <3>3. ASSUME disk.index, NEW a \in unique PROVE UsOnce(a)
      BY <3>2, <3>3, UsOnceWhenSettled DEF UniqueInv
    <3> QED
      BY <1>0, <3>1, <3>3 DEF UniqueInv, UsOnce
  <2>2. CASE (\E h \in Handles : DropDisk(g, h)) \/ DbDropDisk(g)
    <3>1. "schema" \notin program.operations
      BY <2>2 DEF DropDisk, DbDropDisk, Does, KeepsUnique
    <3>2. unique = {} /\ unique' = unique
      BY <2>2, <3>1 DEF DropDisk, DbDropDisk, registry, UniqueInv
    <3> QED
      BY <1>0, <3>1, <3>2 DEF UniqueInv
  <2>3. CASE ClearRows(g)
    <3>1. op'[g] = Idle /\ UNCHANGED <<disk, unique, handed>>
      BY <2>3, DoneFacts DEF ClearRows, TypeInv, registry
    <3>2. ~Clearing'
      BY <1>7, <2>0, <3>1, ClearingAlone DEF Idle
    <3> QED
      BY <1>0, <3>1, <3>2 DEF UniqueInv
  <2>4. CASE DropRows(g) \/ DbForget(g)
    <3>1. "schema" \notin program.operations
      <4>1. op[g].stage = "drop" \/ op[g].stage = "dbdrop"
        BY <2>4 DEF DropRows, DbForget, At
      <4> QED
        BY <4>1 DEF AskedInv, Asked, KeepsUnique
    <3>2. unique = {} /\ unique' \subseteq unique
      BY <2>4, <3>1 DEF DropRows, DbForget, UniqueInv
    <3> QED
      BY <1>0, <3>1, <3>2 DEF UniqueInv
  <2> QED
    BY <1>7, <2>1, <2>2, <2>3, <2>4 DEF WholeStep
<1> QED
  BY <1>1, <1>2, <1>3, <1>4, <1>5, <1>6, <1>7, KindsOfSteps

LEMMA UniqueStays ==
    ASSUME TypeInv, OpsInv, IdsInv, AskedInv, IndexInv, KeepsUnique(program),
           "schema" \in program.operations => FieldsInv, UniqueInv
    PROVE  UniqueKept
<1> SUFFICES ASSUME disk.index, NEW h \in unique
             PROVE  Distinct(Read(h)) /\ (loaded[h] => Distinct(disk.rows))
  BY DEF UniqueKept
<1>1. "schema" \in program.operations /\ h \in Handles /\ Distinct(disk.rows)
  BY DEF UniqueInv, IndexInv, TypeInv, TypeOK
<1>2. UsOnce(h)
  <2>1. CASE Settled
    BY <1>1, <2>1, UsOnceWhenSettled
  <2>2. CASE ~Settled
    <3>1. PICK g \in Goroutines : op[g].stage \in Whole
      BY <2>2 DEF Settled
    <3>2. op[g].stage = "clear"
      BY <1>1, <3>1 DEF Whole, AskedInv, Asked, KeepsUnique
    <3> QED
      BY <3>2 DEF UniqueInv, Clearing
  <2> QED
    BY <2>1, <2>2
<1> QED
  BY <1>1, <1>2, DistinctRead

(* The invariant behind the theorems on tables.                              *)
TableInv ==
    /\ TypeInv /\ OpsInv /\ IdsInv /\ RefsInv /\ AskedInv /\ IndexInv /\ TodoInv
    /\ KeepsFields(program) => FieldsInv

LEMMA TableInvKept ==
    ASSUME \A p \in Programs : Careful(p)
    PROVE  /\ Init => TableInv
           /\ TableInv /\ [Next]_vars => TableInv'
<1>1. Init => TableInv
  BY TypesInitially, OpsInitially, IdsInitially, RefsInitially, AskedInitially, IndexInitially,
     TodoInitially, FieldsInitially DEF TableInv
<1>2. ASSUME TableInv, [Next]_vars PROVE TableInv'
  <2>1. TypeInv /\ OpsInv /\ IdsInv /\ RefsInv /\ AskedInv /\ IndexInv /\ TodoInv /\ Careful(program)
    BY <1>2 DEF TableInv, TypeInv, TypeOK
  <2>2. program' = program
    BY <1>2, <2>1, KindsOfSteps
  <2>3. KeepsFields(program) => FieldsInv'
    BY <1>2, <2>1, FieldsInvKept DEF TableInv
  <2>4. TypeInv' /\ OpsInv' /\ IdsInv' /\ RefsInv'
    BY <1>2, <2>1, TypesKept, OpsInvKept, IdsInvKept, RefsInvKept
  <2>5. AskedInv' /\ IndexInv' /\ TodoInv'
    BY <1>2, <2>1, AskedInvKept, IndexInvKept, TodoInvKept
  <2> QED
    BY <2>2, <2>3, <2>4, <2>5 DEF TableInv
<1> QED
  BY <1>1, <1>2

(* With any number of goroutines at work on a table that has the index of    *)
(* its schema, no two rows a query returns have one value of the field the   *)
(* index is of, nor have two rows of SQLite, whenever the index came to be   *)
(* (std/db.go: checkUnique, and INSERT under the index).  The programs that   *)
(* set a schema drop no table and update another field, in one goroutine.    *)
THEOREM UniqueFieldKept ==
    (\A p \in Programs : Careful(p) /\ KeepsUnique(p)) => (Spec => []UniqueKept)
<1> SUFFICES ASSUME \A p \in Programs : Careful(p) /\ KeepsUnique(p) PROVE Spec => []UniqueKept
  OBVIOUS
<1> DEFINE Inv == TableInv /\ UniqueInv
<1>1. TableInv => /\ TypeInv /\ OpsInv /\ IdsInv /\ AskedInv /\ IndexInv
                  /\ KeepsUnique(program) /\ Careful(program)
                  /\ "schema" \in program.operations => FieldsInv
  BY DEF TableInv, TypeInv, TypeOK, KeepsUnique, KeepsFields
<1>2. Init => Inv
  <2>1. Init => KeepsUnique(program)
    BY DEF Init
  <2> QED
    BY <2>1, TableInvKept, UniqueInitially
<1>3. Inv /\ [Next]_vars => Inv'
  BY <1>1, TableInvKept, UniqueInvKept
<1>4. Inv => UniqueKept
  BY <1>1, UniqueStays
<1> QED
  BY <1>2, <1>3, <1>4, PTL DEF Spec

-----------------------------------------------------------------------------
(* One goroutine: the rows of the copy are in the order of SQLite's          *)

InOrder(s, t) ==
    \A i, j \in DOMAIN s, k, l \in DOMAIN t :
        s[i].id = t[k].id /\ s[j].id = t[l].id /\ i < j => k < l
LastRow(g) ==
    op[g].stage = "append" =>
        disk.rows # <<>> /\ disk.rows[Len(disk.rows)].id = op[g].todo[1].id
OrderInv ==
    Solo(program) =>
        /\ \A g \in Goroutines : LastRow(g)
        /\ \A h \in handed : InOrder(rows[h], disk.rows)

LEMMA OrderInitially == Init => OrderInv
  BY DEF Init, Idle, OrderInv, LastRow

(* Leaving rows out of either keeps their order. *)
LEMMA OrderShrinks ==
    ASSUME NEW s, NEW t, NEW a, NEW b, InOrder(s, t), Subsequence(a, s), Subsequence(b, t),
           DOMAIN b \subseteq Nat, DOMAIN t \subseteq Nat
    PROVE  InOrder(a, b)
<1>1. PICK e : \A j, k \in DOMAIN a : /\ e[j] \in DOMAIN s /\ a[j] = s[e[j]]
                                      /\ j < k => e[j] < e[k]
  BY DEF Subsequence
<1>2. PICK f : \A j, k \in DOMAIN b : /\ f[j] \in DOMAIN t /\ b[j] = t[f[j]]
                                      /\ j < k => f[j] < f[k]
  BY DEF Subsequence
<1> SUFFICES ASSUME NEW i \in DOMAIN a, NEW j \in DOMAIN a, NEW k \in DOMAIN b, NEW l \in DOMAIN b,
                    a[i].id = b[k].id, a[j].id = b[l].id, i < j
             PROVE  k < l
  BY DEF InOrder
<1>3. e[i] < e[j] /\ e[i] \in DOMAIN s /\ e[j] \in DOMAIN s /\ a[i] = s[e[i]] /\ a[j] = s[e[j]]
  BY <1>1
<1>4. f[k] \in DOMAIN t /\ f[l] \in DOMAIN t /\ b[k] = t[f[k]] /\ b[l] = t[f[l]]
  BY <1>2
<1>5. f[k] < f[l]
  BY <1>3, <1>4 DEF InOrder
<1>6. l < k => f[l] < f[k]
  BY <1>2
<1>7. k \in Nat /\ l \in Nat /\ f[k] \in Nat /\ f[l] \in Nat
  BY <1>4
<1>8. ~(l < k) /\ l # k
  BY <1>5, <1>6, <1>7
<1> QED
  BY <1>7, <1>8

(* Of rows that have the ids of SQLite's, one by one. *)
LEMMA OrderSame ==
    ASSUME NEW s, NEW t, OnceIds(t), DOMAIN s = DOMAIN t, \A k \in DOMAIN t : s[k].id = t[k].id
    PROVE  InOrder(s, t)
<1> SUFFICES ASSUME NEW i \in DOMAIN s, NEW j \in DOMAIN s, NEW k \in DOMAIN t, NEW l \in DOMAIN t,
                    s[i].id = t[k].id, s[j].id = t[l].id, i < j
             PROVE  k < l
  BY DEF InOrder
<1>1. i = k /\ j = l
  BY DEF OnceIds
<1> QED
  BY <1>1

LEMMA OrderEmpty == \A s : InOrder(<<>>, s) /\ InOrder(s, <<>>)
  BY DEF InOrder

(* A goroutine that is alone has all there is to keep. *)
LEMMA OrderAlone ==
    ASSUME OpsInv, UNCHANGED program, NEW g \in Goroutines, g \in program.goroutines, OthersKeep(g),
           Solo(program) => LastRow(g)' /\ \A h \in handed' : InOrder(rows'[h], disk'.rows)
    PROVE  OrderInv'
<1> SUFFICES ASSUME Solo(program) PROVE /\ \A k \in Goroutines : LastRow(k)'
                                        /\ \A h \in handed' : InOrder(rows'[h], disk'.rows)
  BY DEF OrderInv, Solo
<1>1. ASSUME NEW k \in Goroutines, k # g PROVE LastRow(k)'
  <2>1. op'[k].stage = "idle"
    BY <1>1, OthersIdle DEF OthersKeep
  <2> QED
    BY <2>1 DEF LastRow
<1> QED
  BY <1>1

(* Rows stay where they are, or some leave. *)
LEMMA OrderWithFewer ==
    ASSUME TypeInv, OpsInv, OrderInv, UNCHANGED program, NEW g \in Goroutines, g \in program.goroutines,
           OthersKeep(g), op'[g].stage # "append", handed' = handed,
           \A h \in handed : Subsequence(rows'[h], rows[h]), Subsequence(disk'.rows, disk.rows),
           DOMAIN disk'.rows \subseteq Nat
    PROVE  OrderInv'
<1>1. LastRow(g)'
  BY DEF LastRow
<1>2. DOMAIN disk.rows \subseteq Nat
  BY DiskFacts DEF TypeInv
<1>3. Solo(program) => \A h \in handed' : InOrder(rows'[h], disk'.rows)
  BY <1>2, OrderShrinks DEF OrderInv
<1> QED
  BY <1>1, <1>3, OrderAlone

LEMMA OrderIfSameRows ==
    ASSUME TypeInv, OpsInv, OrderInv, UNCHANGED program, NEW g \in Goroutines, g \in program.goroutines,
           OthersKeep(g), op'[g].stage # "append", handed' = handed,
           rows' = rows, disk'.rows = disk.rows
    PROVE  OrderInv'
<1>1. DOMAIN disk.rows \subseteq Nat
  BY DiskFacts DEF TypeInv
<1> QED
  BY <1>1, SubsequenceFacts, OrderWithFewer

LEMMA StoreInsertOrder ==
    ASSUME TypeInv, OpsInv, IdsInv, OrderInv, UNCHANGED program, NEW g \in Goroutines,
           g \in program.goroutines, StoreInsert(g)
    PROVE  OrderInv'
<1>1. /\ op[g].stage = "insert" /\ op[g].stage \in Under /\ UNCHANGED <<rows, handed>>
      /\ NewRow(g) \in DiskRow
  BY StoreInsertDoes DEF Under, WithRows
<1>2. CASE Quiet(g) /\ UNCHANGED disk
  BY <1>1, <1>2, OrderIfSameRows DEF Quiet, Idle
<1>3. CASE ~(Quiet(g) /\ UNCHANGED disk)
  <2> DEFINE n == Len(disk.rows)
             x == op[g].todo[1]
             d == disk'.rows
  <2>1. /\ Insertable(NewRow(g)) /\ OthersKeep(g) /\ op'[g].todo = op[g].todo
        /\ d = Append(disk.rows, NewRow(g))
    BY <1>3, StoreInsertDoes DEF GoesOn
  <2>2. NewRow(g).id = x.id /\ x.id \notin IdsOf(disk.rows)
    BY <2>1 DEF NewRow, Insertable
  <2>3. /\ disk.rows \in Seq(DiskRow) /\ n \in Nat /\ DOMAIN disk.rows = 1..n
    BY DiskFacts DEF TypeInv
  <2>4. /\ d \in Seq(DiskRow) /\ d # <<>> /\ Len(d) = n + 1 /\ d[n + 1] = NewRow(g)
        /\ \A k \in 1..n : d[k] = disk.rows[k]
    BY <1>1, <2>1, <2>3, AppendFacts
  <2>5. DOMAIN d = 1..(n + 1)
    BY <2>4, LenProperties
  <2>6. LastRow(g)'
    BY <2>1, <2>2, <2>4 DEF LastRow
  <2>7. ASSUME Solo(program), NEW h \in handed' PROVE InOrder(rows'[h], d)
    <3>1. h \in handed /\ h \in Handles /\ loaded[h] /\ Settled
      BY <1>1, <2>7, InUse DEF TypeInv, TypeOK
    <3>2. IdsOf(rows[h]) \in SUBSET Ids /\ Split(h)
      BY <3>1, IdsTyped DEF IdsInv, TypeInv
    <3>3. IdsOf(rows[h]) \subseteq IdsOf(disk.rows)
      BY <3>2 DEF Split, SplitOf
    <3>4. \A i \in DOMAIN rows[h] : rows[h][i].id # x.id
      BY <2>2, <3>3 DEF IdsOf
    <3>5. ASSUME NEW i \in DOMAIN rows[h], NEW k \in DOMAIN d, rows[h][i].id = d[k].id
          PROVE  k \in DOMAIN disk.rows /\ rows[h][i].id = disk.rows[k].id
      <4>1. k # n + 1
        BY <2>2, <2>4, <3>4, <3>5
      <4>2. k \in 1..n
        BY <2>3, <2>5, <4>1
      <4> QED
        BY <2>3, <2>4, <3>5, <4>2
    <3>6. InOrder(rows[h], disk.rows)
      BY <2>7, <3>1 DEF OrderInv
    <3>7. InOrder(rows[h], d)
      BY <3>5, <3>6 DEF InOrder
    <3> QED
      BY <1>1, <3>7
  <2> QED
    BY <2>1, <2>6, <2>7, OrderAlone
<1> QED
  BY <1>2, <1>3

LEMMA AppendRowOrder ==
    ASSUME TypeInv, OpsInv, IdsInv, OrderInv, UNCHANGED program, NEW g \in Goroutines,
           g \in program.goroutines, AppendRow(g)
    PROVE  OrderInv'
<1>0. PICK h \in Handles : h = op[g].h
  BY AppendRowDoes
<1> DEFINE x == op[g].todo[1]
           m == Len(rows[h])
           n == Len(disk.rows)
           r == rows'[h]
<1>1. /\ op[g].stage = "append" /\ op[g].stage \in Under /\ op[g].stage \in OneRow
      /\ x \in Row /\ UNCHANGED <<disk, handed>>
  BY AppendRowDoes DEF Under, WithRows, OneRow
<1>2. OthersKeep(g) /\ op'[g].stage # "append"
  BY AppendRowDoes DEF Quiet, GoesOn, Idle
<1>3. Settled /\ loaded[h] /\ h \in handed /\ \A a \in handed : a = h
  BY <1>0, <1>1, InUse
<1>4. x.id \notin IdsOf(rows[h])
  <2>1. Extra(op[g]) = {x.id} /\ Split(h) /\ x.id \in Ids
    BY <1>0, <1>1, <1>3, OneRowIds DEF Extra, IdsInv, Row
  <2> QED
    BY <2>1 DEF Split, SplitOf, InHand
<1>5. rows[h] \in Seq(Row) /\ m \in Nat /\ DOMAIN rows[h] = 1..m
  BY RowsFacts DEF TypeInv
<1>6. r = Append(rows[h], x)
  BY <1>0, <1>1, AppendRowDoes DEF TypeInv, TypeOK
<1>7. r \in Seq(Row) /\ Len(r) = m + 1 /\ r[m + 1] = x /\ \A i \in 1..m : r[i] = rows[h][i]
  BY <1>1, <1>5, <1>6, AppendFacts
<1>8. DOMAIN r = 1..(m + 1)
  BY <1>7, LenProperties
<1>9. OnceIds(disk.rows) /\ n \in Nat /\ DOMAIN disk.rows = 1..n
  BY DiskFacts DEF TypeInv, IdsInv
<1>10. ASSUME Solo(program) PROVE InOrder(r, disk.rows)
  <2>1. disk.rows # <<>> /\ disk.rows[n].id = x.id /\ InOrder(rows[h], disk.rows)
    BY <1>1, <1>3, <1>10 DEF OrderInv, LastRow
  <2>2. n \in 1..n
    BY <1>9, <2>1, DiskFacts, EmptySeq DEF TypeInv
  <2>3. \A k \in 1..n : disk.rows[k].id = x.id => k = n
    BY <1>9, <2>1, <2>2 DEF OnceIds
  <2> SUFFICES ASSUME NEW i \in DOMAIN r, NEW j \in DOMAIN r,
                      NEW k \in DOMAIN disk.rows, NEW l \in DOMAIN disk.rows,
                      r[i].id = disk.rows[k].id, r[j].id = disk.rows[l].id, i < j
               PROVE  k < l
    BY DEF InOrder
  <2>4. i \in 1..m /\ r[i] = rows[h][i]
    <3>1. i \in 1..m
      BY <1>5, <1>8
    <3> QED
      BY <1>7, <3>1
  <2>5. CASE j = m + 1
    <3>1. l = n
      BY <1>7, <1>9, <2>3, <2>5
    <3>2. rows[h][i].id # x.id
      BY <1>4, <1>5, <2>4 DEF IdsOf
    <3>3. k # n
      BY <2>1, <2>4, <3>2
    <3> QED
      BY <1>9, <3>1, <3>3
  <2>6. CASE j # m + 1
    <3>1. j \in 1..m
      BY <1>5, <1>8, <2>6
    <3>2. r[j] = rows[h][j]
      BY <1>7, <3>1
    <3> QED
      BY <1>5, <2>1, <2>4, <3>1, <3>2 DEF InOrder
  <2> QED
    BY <2>5, <2>6
<1>11. LastRow(g)'
  BY <1>2 DEF LastRow
<1>12. Solo(program) => \A a \in handed' : InOrder(rows'[a], disk'.rows)
  BY <1>1, <1>3, <1>10
<1> QED
  BY <1>2, <1>11, <1>12, OrderAlone

LEMMA WriteUpdateOrder ==
    ASSUME TypeInv, OpsInv, OrderInv, UNCHANGED program, NEW g \in Goroutines,
           g \in program.goroutines, WriteUpdate(g)
    PROVE  OrderInv'
<1>1. UNCHANGED <<rows, handed>> /\ DOMAIN disk'.rows = DOMAIN disk.rows
  BY WriteUpdateDoes, WriteUpdateDisk
<1>2. \A k \in DOMAIN disk.rows : disk'.rows[k].id = disk.rows[k].id
  BY WriteUpdateDisk
<1>3. OthersKeep(g) /\ op'[g].stage # "append"
  BY WriteUpdateDoes DEF Left, GoesOn, Idle
<1>4. ASSUME NEW h, InOrder(rows[h], disk.rows) PROVE InOrder(rows[h], disk'.rows)
  BY <1>1, <1>2, <1>4 DEF InOrder
<1>5. LastRow(g)'
  BY <1>3 DEF LastRow
<1>6. Solo(program) => \A h \in handed' : InOrder(rows'[h], disk'.rows)
  BY <1>1, <1>4 DEF OrderInv
<1> QED
  BY <1>3, <1>5, <1>6, OrderAlone

LEMMA DeleteRowsOrder ==
    ASSUME TypeInv, OpsInv, OrderInv, UNCHANGED program, NEW g \in Goroutines,
           g \in program.goroutines, NEW filter, NEW onlyFirst \in BOOLEAN,
           DeleteRows(g, filter, onlyFirst)
    PROVE  OrderInv'
<1>0. PICK h \in Handles : h = op[g].h
  BY DeleteRowsDoes
<1> DEFINE kept == Kept(g, filter, onlyFirst)
           s == Picked(rows[h], kept)
<1>1. /\ rows' = [rows EXCEPT ![h] = s] /\ kept \in SUBSET (1..Len(rows[h]))
      /\ UNCHANGED <<disk, handed>>
  BY <1>0, DeleteRowsDoes
<1>2. OthersKeep(g) /\ op'[g].stage # "append"
  BY DeleteRowsDoes DEF Quiet, Idle
<1>3. Subsequence(s, rows[h])
  BY <1>1, RowsFacts, PickedSubsequence DEF TypeInv
<1> HIDE DEF s, kept
<1>4. \A a \in handed : Subsequence(rows'[a], rows[a])
  <2>1. \A a \in Handles : rows'[a] = IF a = h THEN s ELSE rows[a]
    BY <1>1 DEF TypeInv, TypeOK
  <2>2. handed \subseteq Handles
    BY DEF TypeInv, TypeOK
  <2> QED
    BY <1>3, <2>1, <2>2, SubsequenceFacts
<1>5. Subsequence(disk'.rows, disk.rows) /\ DOMAIN disk'.rows \subseteq Nat
  BY <1>1, SubsequenceFacts, DiskFacts DEF TypeInv
<1> QED
  BY <1>1, <1>2, <1>4, <1>5, OrderWithFewer

LEMMA DeleteRowOrder ==
    ASSUME TypeInv, OpsInv, OrderInv, UNCHANGED program, NEW g \in Goroutines,
           g \in program.goroutines, DeleteRow(g)
    PROVE  OrderInv'
<1> DEFINE d == Picked(disk.rows, OthersOf(op[g].todo[1].id))
<1>1. disk'.rows = d /\ UNCHANGED <<rows, handed>>
  BY DeleteRowDoes
<1>2. OthersKeep(g) /\ op'[g].stage # "append"
  BY DeleteRowDoes DEF Left, GoesOn, Idle
<1>3. OthersOf(op[g].todo[1].id) \in SUBSET (1..Len(disk.rows)) /\ disk.rows \in Seq(DiskRow)
  BY WithoutFacts, DiskFacts DEF TypeInv
<1>4. Subsequence(d, disk.rows)
  BY <1>3, PickedSubsequence
<1>5. DOMAIN d \subseteq Nat
  BY DEF Picked
<1> QED
  BY <1>1, <1>2, <1>4, <1>5, SubsequenceFacts, OrderWithFewer

LEMMA RowStepOrder ==
    ASSUME TypeInv, OpsInv, IdsInv, OrderInv, UNCHANGED program, NEW g \in Goroutines,
           g \in program.goroutines, RowStep(g)
    PROVE  OrderInv'
<1>1. CASE Query(g) \/ Watch(g) \/ Marshal(g) \/ Notified(g)
  <2>1. UNCHANGED <<disk, rows, handed>>
    BY <1>1 DEF Query, Watch, Marshal, Notified, memory, registry
  <2>2. OthersKeep(g) /\ op'[g].stage # "append"
    <3>1. CASE Query(g) \/ Watch(g)
      BY <3>1, DoneFacts DEF Query, Watch, TypeInv, Idle
    <3>2. CASE Marshal(g)
      BY <3>2, MarshalFacts
    <3>3. CASE Notified(g)
      BY <3>3, NotifiedDoes DEF Quiet, Left, Idle
    <3> QED
      BY <1>1, <3>1, <3>2, <3>3
  <2> QED
    BY <2>1, <2>2, OrderIfSameRows
<1>2. ASSUME NEW id \in Ids, NEW doc \in program.docs, CheckInsert(g, id, doc)
      PROVE  OrderInv'
  <2>1. UNCHANGED <<disk, rows, handed>> /\ OthersKeep(g) /\ op'[g].stage # "append"
    BY <1>2, CheckInsertDoes DEF Quiet, Idle
  <2> QED
    BY <2>1, OrderIfSameRows
<1>3. ASSUME NEW filter, NEW onlyFirst \in BOOLEAN, NEW field \in program.fields,
             NEW val \in Values(field), UpdateRows(g, filter, field, val, onlyFirst)
      PROVE  OrderInv'
  <2>1. UNCHANGED <<disk, rows, handed>>
    BY <1>3, UpdateRowsDoes
  <2>2. Quiet(g) \/ (OthersKeep(g) /\ op'[g].stage = "marshal")
    BY <1>3, UpdateRowsDoes
  <2>3. OthersKeep(g) /\ op'[g].stage # "append"
    BY <2>2 DEF Quiet, Idle
  <2> QED
    BY <2>1, <2>3, OrderIfSameRows
<1> QED
  BY <1>1, <1>2, <1>3, StoreInsertOrder, AppendRowOrder, WriteUpdateOrder, DeleteRowsOrder,
     DeleteRowOrder DEF RowStep

LEMMA EnsureLoadedOrder ==
    ASSUME TypeInv, OpsInv, IdsInv, OrderInv, UNCHANGED program, NEW g \in Goroutines,
           g \in program.goroutines, NEW h \in Handles, EnsureLoaded(g, h)
    PROVE  OrderInv'
<1>1. /\ op'[g].stage = "ready" /\ OthersKeep(g) /\ h \in handed
      /\ UNCHANGED handed /\ disk'.rows = disk.rows
  BY EnsureLoadedDoes
<1>2. CASE UNCHANGED rows
  BY <1>1, <1>2, OrderIfSameRows
<1>3. CASE ~UNCHANGED rows
  <2> DEFINE s == [k \in DOMAIN disk.rows |-> LoadedRow(k)]
  <2>1. rows' = [rows EXCEPT ![h] = s]
    BY <1>3, EnsureLoadedDoes
  <2>2. DOMAIN s = DOMAIN disk.rows /\ \A k \in DOMAIN s : s[k].id = disk.rows[k].id
    BY DEF LoadedRow
  <2> HIDE DEF s
  <2>3. rows'[h] = s /\ \A a \in handed' : a = h
    BY <1>1, <2>1 DEF TypeInv, TypeOK, OpsInv
  <2>4. InOrder(s, disk.rows)
    BY <2>2, OrderSame DEF IdsInv
  <2>5. LastRow(g)'
    BY <1>1 DEF LastRow
  <2> QED
    BY <1>1, <2>3, <2>4, <2>5, OrderAlone
<1> QED
  BY <1>2, <1>3

LEMMA OrderInvKept ==
    ASSUME TypeInv, OpsInv, IdsInv, OrderInv, Careful(program), [Next]_vars
    PROVE  OrderInv'
<1>0. UNCHANGED program
  BY KindsOfSteps
<1>1. CASE UNCHANGED vars
  BY <1>1 DEF vars, OrderInv, LastRow
<1>2. CASE Restart
  BY <1>2 DEF Restart, OrderInv, LastRow, Idle
<1>3. ASSUME NEW g \in Goroutines, g \in program.goroutines, Table(g) PROVE OrderInv'
  <2>1. handed = {} /\ op[g].stage = "idle"
    BY <1>3, HandlesAssumption DEF Table, At, OpsInv, TypeInv, TypeOK
  <2>2. PICK h \in Handles : handed' = {h} /\ rows' = [rows EXCEPT ![h] = <<>>]
    BY <1>3, <2>1 DEF Table
  <2>3. op' = op /\ disk' = disk
    BY <1>3 DEF Table
  <2>4. rows'[h] = <<>>
    BY <2>2 DEF TypeInv, TypeOK
  <2> QED
    BY <1>0, <2>2, <2>3, <2>4, OrderEmpty DEF OrderInv, LastRow
<1>4. ASSUME NEW g \in Goroutines, g \in program.goroutines, WholeStep(g) PROVE OrderInv'
  <2>1. OthersKeep(g) /\ disk'.rows = <<>> /\ op'[g].stage # "append"
    BY <1>4, WholeStepDoes DEF Idle, Whole
  <2>2. LastRow(g)' /\ \A h \in handed' : InOrder(rows'[h], disk'.rows)
    BY <2>1, OrderEmpty DEF LastRow
  <2> QED
    BY <1>0, <1>4, <2>1, <2>2, OrderAlone
<1>5. ASSUME NEW g \in Goroutines, g \in program.goroutines, OtherStep(g) PROVE OrderInv'
  <2>1. /\ OthersKeep(g) /\ op'[g].stage # "append" /\ UNCHANGED <<rows, handed>>
        /\ disk'.rows = disk.rows
    BY <1>5, OtherStepDoes
  <2> QED
    BY <1>0, <1>5, <2>1, OrderIfSameRows
<1> QED
  BY <1>0, <1>1, <1>2, <1>3, <1>4, <1>5, RowStepOrder, EnsureLoadedOrder, KindsOfSteps

(* Rows with the same ids in the same order, and equal documents, are equal. *)
LEMMA SameIds ==
    ASSUME TypeInv, OpsInv, IdsInv, OrderInv, Solo(program), AtRest, NEW h \in handed, loaded[h]
    PROVE  /\ DOMAIN rows[h] = DOMAIN disk.rows
           /\ \A k \in DOMAIN disk.rows : rows[h][k].id = disk.rows[k].id
<1> DEFINE m == Len(rows[h])
           n == Len(disk.rows)
           f == [k \in 1..m |-> rows[h][k].id]
           e == [k \in 1..n |-> disk.rows[k].id]
<1>1. h \in Handles /\ Settled
  BY DEF AtRest, Settled, Whole, TypeInv, TypeOK
<1>2. /\ m \in Nat /\ n \in Nat /\ DOMAIN rows[h] = 1..m /\ DOMAIN disk.rows = 1..n
      /\ OnceIds(rows[h]) /\ OnceIds(disk.rows)
  BY <1>1, RowsFacts, DiskFacts DEF TypeInv, IdsInv
<1>3. NoneTwice(f, m) /\ NoneTwice(e, n)
  BY <1>2 DEF NoneTwice, OnceIds
<1>4. ValuesIn(f, m) = IdsOf(rows[h]) /\ ValuesIn(e, n) = IdsOf(disk.rows)
  BY <1>2 DEF ValuesIn, IdsOf
<1>5. IdsOf(rows[h]) = IdsOf(disk.rows)
  BY <1>1, OnDisk DEF RowsOnDisk, Settled, Whole
<1>6. \A i, j \in 1..m, k, l \in 1..n : f[i] = e[k] /\ f[j] = e[l] /\ i < j => k < l
  BY <1>2 DEF OrderInv, InOrder
<1>7. \A k \in 1..m : f[k] = rows[h][k].id
  OBVIOUS
<1>8. \A k \in 1..n : e[k] = disk.rows[k].id
  OBVIOUS
<1> HIDE DEF f, e
<1>9. m = n /\ \A k \in 1..m : f[k] = e[k]
  <2>1. m \in Nat /\ n \in Nat /\ ValuesIn(f, m) = ValuesIn(e, n)
    BY <1>2, <1>4, <1>5
  <2> HIDE DEF m, n
  <2> QED
    BY <1>3, <1>6, <2>1, SameOrder
<1> QED
  BY <1>2, <1>7, <1>8, <1>9

LEMMA CopyIsDisk ==
    ASSUME TypeInv, OpsInv, IdsInv, FieldsInv, OrderInv, Solo(program), AtRest,
           NEW h \in handed, loaded[h]
    PROVE  Read(h) = disk.rows
<1> DEFINE r == Read(h)
<1>1. /\ DOMAIN rows[h] = DOMAIN disk.rows /\ h \in Handles
      /\ \A k \in DOMAIN disk.rows : rows[h][k].id = disk.rows[k].id
  BY SameIds DEF TypeInv, TypeOK
<1>2. Pending(op) = {}
  BY StaleOnly DEF Pending, AtRest, Updating
<1>3. ASSUME NEW k \in DOMAIN disk.rows PROVE heap[rows[h][k].ref] = disk.rows[k].doc
  <2>1. Agrees(program.fields, Pending(op), rows[h][k].id, heap[rows[h][k].ref], disk.rows[k].doc)
    BY <1>1 DEF FieldsInv, FieldsAgree
  <2>2. heap[rows[h][k].ref] \in Doc /\ disk.rows[k].doc \in Doc
    BY <1>1, RowsFacts, DiskFacts DEF TypeInv
  <2> QED
    BY <1>2, <2>1, <2>2 DEF Agrees, Doc
<1>4. r = [k \in DOMAIN disk.rows |-> [id |-> disk.rows[k].id, doc |-> disk.rows[k].doc]]
  BY <1>1, <1>3 DEF Read
<1>5. disk.rows \in Seq(DiskRow) /\ Len(disk.rows) \in Nat /\ DOMAIN disk.rows = 1..Len(disk.rows)
  BY DiskFacts DEF TypeInv
<1>6. \A k \in DOMAIN disk.rows : disk.rows[k] \in DiskRow
  BY DiskFacts DEF TypeInv
<1>7. \A x \in DiskRow : x = [id |-> x.id, doc |-> x.doc]
  BY DEF DiskRow
<1>8. r = [k \in DOMAIN disk.rows |-> disk.rows[k]]
  BY <1>4, <1>6, <1>7
<1>9. disk.rows = [k \in DOMAIN disk.rows |-> disk.rows[k]]
  BY <1>5, LenProperties
<1> QED
  BY <1>8, <1>9

LEMMA OneGoroutine ==
    ASSUME TypeInv, Sequential
    PROVE  Solo(program)
<1>1. IsFiniteSet(program.goroutines)
  BY GoroutinesAssumption, OfProgram, FS_Subset DEF TypeInv
<1>2. PICK g : program.goroutines = {g}
  BY <1>1, FS_Singleton DEF Sequential
<1> QED
  BY <1>2 DEF Solo

(* Once every operation of a program of one goroutine is over, a loaded     *)
(* table object shows the rows that SQLite holds, with their documents and   *)
(* in their order (std/db.go: insertDoc, updateRows, deleteRows and clear    *)
(* change copy and file in steps of their own).  No index refuses what the   *)
(* program updates: the error of UPDATE is dropped.                          *)
THEOREM CopyCoherent ==
    (\A p \in Programs : Careful(p) /\ (Solo(p) => KeepsFields(p))) => (Spec => []CacheCoherent)
<1> SUFFICES ASSUME \A p \in Programs : Careful(p) /\ (Solo(p) => KeepsFields(p))
             PROVE  Spec => []CacheCoherent
  OBVIOUS
<1> DEFINE Inv == TableInv /\ OrderInv
<1>1. TableInv => TypeInv /\ OpsInv /\ IdsInv /\ Careful(program)
                  /\ (Solo(program) => FieldsInv)
  BY DEF TableInv, TypeInv, TypeOK
<1>2. Init => Inv
  BY TableInvKept, OrderInitially
<1>3. Inv /\ [Next]_vars => Inv'
  BY <1>1, TableInvKept, OrderInvKept
<1>4. Inv => CacheCoherent
  BY <1>1, OneGoroutine, CopyIsDisk DEF CacheCoherent
<1> QED
  BY <1>2, <1>3, <1>4, PTL DEF Spec
-----------------------------------------------------------------------------
(* What a watcher makes of the events                                        *)

(* Programs whose events tell of each change: one goroutine, which does not  *)
(* clear what it watches.                                                    *)
KeepsView(p) == "watch" \in p.operations => Solo(p) /\ "clearwatched" \notin p.operations

(* The ids of the rows a watcher has still to hear of. *)
Telling == {"inserted", "updated", "deleted"}
Unheard(o) ==
    IF o.stage \in Telling \cup {"marshal", "write", "delete"} THEN IdsOf(o.todo) ELSE {}
Heard(h, i) ==
    \/ \E k \in DOMAIN rows[h] : rows[h][k].id = i /\ view[i] = heap[rows[h][k].ref]
    \/ i \notin IdsOf(rows[h]) /\ view[i] = NoDoc

ViewFine(g) ==
    /\ \A a, b \in watching : a = b
    /\ \A h \in watching : loaded[h]
    /\ op[g].stage = "clear" => op[g].h \notin watching
    /\ op[g].stage \in Telling => op[g].h \in watching
    /\ \A h \in watching, i \in Ids : Heard(h, i) \/ (op[g].h = h /\ i \in Unheard(op[g]))
ViewInv ==
    /\ watching # {} => "watch" \in program.operations /\ program.goroutines # {}
    /\ "watch" \in program.operations => \A g \in program.goroutines : ViewFine(g)

LEMMA ViewInitially == ASSUME Init, program.goroutines \subseteq Goroutines PROVE ViewInv
  BY DEF Init, Idle, ViewInv, ViewFine, Telling

LEMMA HeardKept ==
    ASSUME NEW h, NEW i, Heard(h, i), rows'[h] = rows[h], view'[i] = view[i],
           \A k \in DOMAIN rows[h] : heap'[rows[h][k].ref] = heap[rows[h][k].ref]
    PROVE  Heard(h, i)'
  BY DEF Heard

(* The rows that are watched stay as they are. *)
Undisturbed ==
    /\ view' = view
    /\ \A h \in watching' :
          /\ rows'[h] = rows[h] /\ loaded'[h]
          /\ \A k \in DOMAIN rows[h] : heap'[rows[h][k].ref] = heap[rows[h][k].ref]
(* What is still to be told of them is as before. *)
Awaits(g) ==
    /\ op'[g].stage = "clear" => op'[g].h \notin watching'
    /\ op'[g].stage \in Telling => op'[g].h \in watching'
    /\ op[g].h \in watching' => \A i \in Unheard(op[g]) : op'[g].h = op[g].h /\ i \in Unheard(op'[g])

LEMMA ViewKept ==
    ASSUME NEW g \in Goroutines, ViewFine(g), watching' \subseteq watching, Undisturbed, Awaits(g)
    PROVE  ViewFine(g)'
<1>1. ASSUME NEW h \in watching', NEW i \in Ids
      PROVE  Heard(h, i)' \/ (op'[g].h = h /\ i \in Unheard(op'[g]))
  <2>1. Heard(h, i) \/ (op[g].h = h /\ i \in Unheard(op[g]))
    BY DEF ViewFine
  <2>2. CASE Heard(h, i)
    BY <2>2, HeardKept DEF Undisturbed
  <2>3. CASE op[g].h = h /\ i \in Unheard(op[g])
    BY <2>3 DEF Awaits
  <2> QED
    BY <2>1, <2>2, <2>3
<1>2. (\A a, b \in watching' : a = b) /\ \A h \in watching' : loaded'[h]
  BY DEF ViewFine, Undisturbed
<1>3. /\ op'[g].stage = "clear" => op'[g].h \notin watching'
      /\ op'[g].stage \in Telling => op'[g].h \in watching'
  BY DEF Awaits
<1> QED
  BY <1>1, <1>2, <1>3 DEF ViewFine

LEMMA AwaitsNothing ==
    ASSUME NEW g \in Goroutines, Unheard(op[g]) = {}, op'[g].stage \notin Telling \cup {"clear"}
    PROVE  Awaits(g)
  BY DEF Awaits

LEMMA Calm ==
    ASSUME NEW g \in Goroutines, ViewFine(g), watching' \subseteq watching,
           UNCHANGED <<heap, rows, loaded, view>>
    PROVE  Undisturbed
  BY DEF Undisturbed, ViewFine

LEMMA AwaitsTheSame ==
    ASSUME TypeInv, NEW g \in Goroutines, NEW s \in Telling, NEW q \in {"marshal", "delete"},
           op[g].stage \in WithRows, Unheard(op[g]) = IdsOf(op[g].todo), watching' = watching,
           \/ op[g].h \notin watching /\ Left(g, q)
           \/ op[g].h \in watching /\ GoesOn(g, s)
    PROVE  Awaits(g)
<1>1. CASE op[g].h \notin watching /\ Left(g, q)
  <2>1. op'[g].stage \notin Telling \cup {"clear"}
    BY <1>1 DEF Left, Idle, Telling
  <2> QED
    BY <1>1, <2>1 DEF Awaits
<1>2. CASE op[g].h \in watching /\ GoesOn(g, s)
  <2>1. Unheard(op'[g]) = IdsOf(op[g].todo) /\ s # "clear"
    BY <1>2 DEF GoesOn, Unheard, Telling
  <2> QED
    BY <1>2, <2>1 DEF Awaits, GoesOn
<1> QED
  BY <1>1, <1>2

LEMMA CheckInsertView ==
    ASSUME TypeInv, NEW g \in Goroutines, ViewFine(g), NEW id \in Ids, NEW doc \in program.docs,
           CheckInsert(g, id, doc)
    PROVE  ViewFine(g)'
<1>1. /\ op[g].stage = "ready" /\ Unheard(op[g]) = {}
      /\ UNCHANGED <<rows, loaded, watching, view>>
  BY CheckInsertDoes DEF Unheard, Telling
<1>2. CASE Quiet(g) /\ UNCHANGED heap
  BY <1>1, <1>2, Calm, AwaitsNothing, ViewKept DEF Quiet, Idle, Telling
<1>3. CASE ~(Quiet(g) /\ UNCHANGED heap)
  <2>1. PICK r \in Free : r \in Refs /\ heap' = Put(r, doc)
    BY <1>3, CheckInsertDoes
  <2>2. op'[g].stage = "insert"
    BY <1>3, CheckInsertDoes
  <2>3. \A h \in Handles : NotIn(rows[h], r) /\ \A k \in DOMAIN rows[h] : rows[h][k].ref \in Refs
    BY FreeRef, RowsFacts DEF TypeInv
  <2>4. \A q \in Refs : q # r => heap'[q] = heap[q]
    BY <2>1 DEF Put, TypeInv, TypeOK
  <2>5. Undisturbed
    <3>1. watching \subseteq Handles
      BY DEF TypeInv, TypeOK
    <3> QED
      BY <1>1, <2>3, <2>4, <3>1 DEF Undisturbed, ViewFine, NotIn
  <2> QED
    BY <1>1, <2>2, <2>5, AwaitsNothing, ViewKept DEF Telling
<1> QED
  BY <1>2, <1>3

LEMMA AppendRowView ==
    ASSUME TypeInv, NEW g \in Goroutines, ViewFine(g), AppendRow(g)
    PROVE  ViewFine(g)'
<1>0. PICK h \in Handles : h = op[g].h
  BY AppendRowDoes
<1> DEFINE x == op[g].todo[1]
           m == Len(rows[h])
           r == rows'[h]
<1>1. /\ op[g].stage = "append" /\ op[g].stage \in OneRow /\ Unheard(op[g]) = {} /\ x \in Row
      /\ UNCHANGED <<heap, loaded, watching, view>> /\ rows' = [rows EXCEPT ![h] = Append(rows[h], x)]
  BY <1>0, AppendRowDoes DEF OneRow, Unheard, Telling
<1>2. rows[h] \in Seq(Row) /\ m \in Nat /\ DOMAIN rows[h] = 1..m
  BY RowsFacts DEF TypeInv
<1>3. r = Append(rows[h], x) /\ \A a \in Handles : a # h => rows'[a] = rows[a]
  BY <1>1 DEF TypeInv, TypeOK
<1>4. CASE h \notin watching
  <2>1. Quiet(g)
    BY <1>0, <1>4, AppendRowDoes
  <2>2. watching \subseteq Handles
    BY DEF TypeInv, TypeOK
  <2>3. Undisturbed
    BY <1>1, <1>3, <1>4, <2>2 DEF Undisturbed, ViewFine
  <2> QED
    BY <1>1, <2>1, <2>3, AwaitsNothing, ViewKept DEF Quiet, Idle, Telling
<1>5. CASE h \in watching
  <2>1. op'[g].stage = "inserted" /\ op'[g].h = h /\ op'[g].todo = op[g].todo
    BY <1>0, <1>5, AppendRowDoes DEF GoesOn
  <2>2. Unheard(op'[g]) = {x.id}
    BY <1>1, <2>1, OneRowIds DEF Unheard, Telling
  <2>3. r \in Seq(Row) /\ Len(r) = m + 1 /\ \A k \in 1..m : r[k] = rows[h][k]
    BY <1>1, <1>2, <1>3, AppendFacts
  <2>4. DOMAIN r = 1..(m + 1)
    BY <2>3, LenProperties
  <2>5. \A k \in DOMAIN rows[h] : k \in DOMAIN r /\ r[k] = rows[h][k]
    BY <1>2, <2>3, <2>4
  <2>6. IdsOf(r) = IdsOf(rows[h]) \cup {x.id}
    BY <1>1, <1>2, <1>3, IdsAppended
  <2>7. ASSUME NEW i \in Ids, i # x.id PROVE Heard(h, i)'
    <3>1. Heard(h, i)
      BY <1>1, <1>5, <2>7 DEF ViewFine
    <3> QED
      BY <1>1, <2>5, <2>6, <2>7, <3>1 DEF Heard
  <2>8. \A a \in watching : a = h
    BY <1>5 DEF ViewFine
  <2> QED
    BY <1>1, <1>5, <2>1, <2>2, <2>7, <2>8 DEF ViewFine
<1> QED
  BY <1>4, <1>5

LEMMA UpdateRowsView ==
    ASSUME TypeInv, RefsInv, NEW g \in Goroutines, ViewFine(g), NEW filter, NEW onlyFirst \in BOOLEAN,
           NEW field \in program.fields, NEW val \in Values(field),
           UpdateRows(g, filter, field, val, onlyFirst)
    PROVE  ViewFine(g)'
<1>0. PICK h \in Handles : h = op[g].h
  BY UpdateRowsDoes
<1>1. PICK hit \in SUBSET (1..Len(rows[h])) : hit = Hit(g, filter, onlyFirst)
  BY <1>0, UpdateRowsDoes
<1>2. /\ op[g].stage = "ready" /\ Unheard(op[g]) = {}
      /\ UNCHANGED <<rows, loaded, watching, view>>
  BY UpdateRowsDoes DEF Unheard, Telling
<1>3. \A q \in Refs : (\A k \in hit : rows[h][k].ref # q) => heap'[q] = heap[q]
  <2>1. heap' = Rewritten(g, filter, onlyFirst, field, val)
    BY UpdateRowsDoes
  <2>2. \A q \in Refs : (\A k \in Hit(g, filter, onlyFirst) : rows[op[g].h][k].ref # q) => heap'[q] = heap[q]
    BY <2>1, RewrittenFacts
  <2> QED
    BY <1>0, <1>1, <2>2
<1>4. /\ rows[h] \in Seq(Row) /\ DOMAIN rows[h] = 1..Len(rows[h]) /\ OnceRefs(rows[h])
      /\ \A a \in Handles : \A k \in DOMAIN rows[a] : rows[a][k].ref \in Refs
  BY RowsFacts DEF TypeInv, RefsInv
<1>5. watching \subseteq Handles
  BY DEF TypeInv, TypeOK
<1>6. ASSUME NEW a \in Handles, a # h, NEW k \in DOMAIN rows[a]
      PROVE  heap'[rows[a][k].ref] = heap[rows[a][k].ref]
  <2>1. NoSharedRef(rows[h], rows[a])
    BY <1>6 DEF RefsInv
  <2>2. \A j \in hit : rows[h][j].ref # rows[a][k].ref
    BY <1>4, <2>1 DEF NoSharedRef
  <2> QED
    BY <1>3, <1>4, <2>2
<1>7. CASE hit = {}
  <2>1. Quiet(g)
    BY <1>1, <1>7, UpdateRowsDoes
  <2>2. Undisturbed
    BY <1>2, <1>3, <1>4, <1>5, <1>7 DEF Undisturbed, ViewFine
  <2> QED
    BY <1>2, <2>1, <2>2, AwaitsNothing, ViewKept DEF Quiet, Idle, Telling
<1>8. CASE hit # {} /\ h \notin watching
  <2>1. op'[g].stage = "marshal"
    BY <1>1, <1>8, UpdateRowsDoes
  <2>2. Undisturbed
    BY <1>2, <1>5, <1>6, <1>8 DEF Undisturbed, ViewFine
  <2> QED
    BY <1>2, <2>1, <2>2, AwaitsNothing, ViewKept DEF Telling
<1>9. CASE hit # {} /\ h \in watching
  <2> DEFINE t == Picked(rows[h], hit)
  <2>1. op'[g].stage = "marshal" /\ op'[g].h = h /\ op'[g].todo = t
    BY <1>0, <1>1, <1>9, UpdateRowsDoes
  <2>2. \A i : i \in IdsOf(t) <=> \E k \in hit : rows[h][k].id = i
    BY <1>4, IdsPicked
  <2> HIDE DEF t
  <2>3. Unheard(op'[g]) = IdsOf(t)
    BY <2>1 DEF Unheard
  <2>4. ASSUME NEW i \in Ids, i \notin IdsOf(t) PROVE Heard(h, i)'
    <3>1. Heard(h, i)
      BY <1>2, <1>9 DEF ViewFine
    <3>2. ASSUME NEW k \in DOMAIN rows[h], rows[h][k].id = i
          PROVE  heap'[rows[h][k].ref] = heap[rows[h][k].ref]
      <4>1. k \notin hit
        BY <2>2, <2>4, <3>2
      <4>2. \A j \in hit : rows[h][j].ref # rows[h][k].ref
        BY <1>4, <4>1 DEF OnceRefs
      <4> QED
        BY <1>3, <1>4, <4>2
    <3> QED
      BY <1>2, <3>1, <3>2 DEF Heard
  <2>5. \A a \in watching : a = h
    BY <1>9 DEF ViewFine
  <2> QED
    BY <1>2, <1>9, <2>1, <2>3, <2>4, <2>5 DEF ViewFine, Telling
<1> QED
  BY <1>7, <1>8, <1>9

LEMMA DeleteRowsView ==
    ASSUME TypeInv, NEW g \in Goroutines, ViewFine(g), NEW filter, NEW onlyFirst \in BOOLEAN,
           DeleteRows(g, filter, onlyFirst)
    PROVE  ViewFine(g)'
<1>0. PICK h \in Handles : h = op[g].h
  BY DeleteRowsDoes
<1> DEFINE hit == Hit(g, filter, onlyFirst)
           kept == Kept(g, filter, onlyFirst)
           t == Picked(rows[h], hit)
           s == Picked(rows[h], kept)
<1>1. /\ op[g].stage = "ready" /\ Unheard(op[g]) = {}
      /\ rows' = [rows EXCEPT ![h] = s]
      /\ hit \in SUBSET (1..Len(rows[h])) /\ kept \in SUBSET (1..Len(rows[h]))
      /\ UNCHANGED <<heap, loaded, watching, view>>
  BY <1>0, DeleteRowsDoes DEF Unheard, Telling
<1>2. rows[h] \in Seq(Row) /\ DOMAIN rows[h] = 1..Len(rows[h])
  BY RowsFacts DEF TypeInv
<1>3. kept = (1..Len(rows[h])) \ hit
  BY <1>0 DEF Kept
<1>4. \A i : i \in IdsOf(s) <=> \E k \in kept : rows[h][k].id = i
  BY <1>1, <1>2, IdsPicked
<1>5. \A i : i \in IdsOf(t) <=> \E k \in hit : rows[h][k].id = i
  BY <1>1, <1>2, IdsPicked
<1>6. \A k \in kept : \E j \in DOMAIN s : s[j] = rows[h][k]
  <2>1. Picked(rows[h], kept) = [j \in 1..Cardinality(kept) |-> rows[h][Ascending(kept)[j]]]
    BY DEF Picked
  <2>2. IsFiniteSet(kept) /\ kept \in SUBSET Int
    <3>0. Len(rows[h]) \in Nat
      BY RowsFacts DEF TypeInv
    <3>1. IsFiniteSet(1..Len(rows[h]))
      BY <3>0, FS_Interval
    <3>2. IsFiniteSet(kept)
      BY <1>1, <3>1, FS_Subset
    <3> QED
      BY <1>1, <3>2
  <2>3. \A k \in kept : \E j \in 1..Cardinality(kept) : Ascending(kept)[j] = k
    BY <2>2, AscendingFacts
  <2> QED
    BY <2>1, <2>3
<1>7. hit = {} => Quiet(g)
  BY DeleteRowsDoes
<1>8. hit # {} => op'[g].stage = "delete" /\ op'[g].h = h /\ op'[g].todo = t
  BY <1>0, DeleteRowsDoes
<1> HIDE DEF s, t, kept, hit
<1>9. rows'[h] = s /\ \A a \in Handles : a # h => rows'[a] = rows[a]
  BY <1>1 DEF TypeInv, TypeOK
<1>10. watching \subseteq Handles
  BY DEF TypeInv, TypeOK
<1>11. CASE h \notin watching
  <2>1. Undisturbed
    BY <1>1, <1>9, <1>10, <1>11 DEF Undisturbed, ViewFine
  <2>2. op'[g].stage \notin Telling \cup {"clear"}
    BY <1>7, <1>8 DEF Quiet, Idle, Telling
  <2> QED
    BY <1>1, <2>1, <2>2, AwaitsNothing, ViewKept
<1>12. CASE h \in watching
  <2>1. ASSUME NEW i \in Ids, \A k \in hit : rows[h][k].id # i PROVE Heard(h, i)'
    <3>1. Heard(h, i)
      BY <1>1, <1>12 DEF ViewFine
    <3>2. CASE i \notin IdsOf(rows[h]) /\ view[i] = NoDoc
      <4>1. i \notin IdsOf(s)
        BY <1>1, <1>2, <1>4, <3>2 DEF IdsOf
      <4> QED
        BY <1>1, <1>9, <3>2, <4>1 DEF Heard
    <3>3. ASSUME NEW k \in DOMAIN rows[h], rows[h][k].id = i, view[i] = heap[rows[h][k].ref]
          PROVE  Heard(h, i)'
      <4>1. k \in kept
        BY <1>2, <1>3, <2>1, <3>3
      <4>2. PICK j \in DOMAIN s : s[j] = rows[h][k]
        BY <1>6, <4>1
      <4> QED
        BY <1>1, <1>9, <3>3, <4>2 DEF Heard
    <3> QED
      BY <3>1, <3>2, <3>3 DEF Heard
  <2>2. \A a \in watching : a = h
    BY <1>12 DEF ViewFine
  <2>3. op'[g].stage \notin Telling \cup {"clear"}
    BY <1>7, <1>8 DEF Quiet, Idle, Telling
  <2>4. ASSUME NEW i \in Ids PROVE Heard(h, i)' \/ (op'[g].h = h /\ i \in Unheard(op'[g]))
    <3>1. CASE \A k \in hit : rows[h][k].id # i
      BY <2>1, <3>1
    <3>2. CASE ~(\A k \in hit : rows[h][k].id # i)
      <4>1. i \in IdsOf(t) /\ hit # {}
        BY <1>5, <3>2
      <4> QED
        BY <1>8, <4>1 DEF Unheard
    <3> QED
      BY <3>1, <3>2
  <2> QED
    BY <1>1, <2>2, <2>3, <2>4 DEF ViewFine
<1> QED
  BY <1>11, <1>12

LEMMA NotifiedView ==
    ASSUME TypeInv, IdsInv, NEW g \in Goroutines, TodoFine(g), ViewFine(g), Notified(g)
    PROVE  ViewFine(g)'
<1>1. /\ op[g].stage \in Telling /\ op[g].stage \in WithRows
      /\ UNCHANGED <<heap, rows, loaded, watching>>
  BY NotifiedDoes DEF Telling, WithRows
<1>2. PICK h \in watching : h = op[g].h
  BY <1>1 DEF ViewFine
<1> DEFINE x == op[g].todo[1]
           t == op[g].todo
<1>3. /\ x \in Row /\ x.id \in Ids /\ t \in Seq(Row) /\ t # <<>> /\ 1 \in DOMAIN t
  <2>1. t \in Seq(Row) /\ t # <<>> /\ Len(t) \in Nat \ {0} /\ x \in Row /\ x.id \in Ids
    BY <1>1, WithRowsFacts
  <2> QED
    BY <2>1, LenProperties
<1> PICK id \in Ids : id = x.id
  BY <1>3
<1>4. Unheard(op[g]) = {x.id} \cup IdsOf(Tail(t))
  BY <1>1, <1>3, IdsTail DEF Unheard
<1>5. \A i \in Ids : i # id => view'[i] = view[i]
  BY NotifiedDoes DEF TypeInv, TypeOK
<1>6. Heard(h, id)'
  <2>1. view'[id] = IF op[g].stage = "deleted" THEN NoDoc ELSE heap[x.ref]
    BY <1>3, NotifiedDoes DEF TypeInv, TypeOK
  <2>2. CASE op[g].stage = "deleted"
    <3>1. id \notin IdsOf(rows[h])
      BY <1>2, <1>3, <2>2 DEF TodoFine, OutOfCopy, NoIdOf
    <3> QED
      BY <1>1, <2>1, <2>2, <3>1 DEF Heard
  <2>3. CASE op[g].stage # "deleted"
    <3>1. PICK i \in DOMAIN rows[h] : rows[h][i] = x
      BY <1>1, <1>2, <1>3, <2>3 DEF TodoFine, InCopy, Telling, Among
    <3> QED
      BY <1>1, <2>1, <2>3, <3>1 DEF Heard
  <2> QED
    BY <2>2, <2>3
<1>7. ASSUME NEW i \in Ids, i \notin IdsOf(Tail(t)) PROVE Heard(h, i)'
  <2>1. CASE i = id
    BY <1>6, <2>1
  <2>2. CASE i # id
    <3>1. Heard(h, i)
      BY <1>4, <1>7, <2>2 DEF ViewFine
    <3> QED
      BY <1>1, <1>5, <2>2, <3>1, HeardKept
  <2> QED
    BY <2>1, <2>2
<1>8. op'[g].stage \notin Telling \cup {"clear"}
  BY NotifiedDoes DEF Telling, Quiet, Left, Idle
<1>9. ASSUME NEW i \in IdsOf(Tail(t)) PROVE op'[g].h = h /\ i \in Unheard(op'[g])
  <2>1. Tail(t) # <<>>
    BY <1>9, IdsEmpty
  <2>2. op[g].stage # "inserted"
    <3>1. ASSUME op[g].stage = "inserted" PROVE FALSE
      <4>1. IdsOf(t) = {id} /\ OnceIds(t)
        BY <3>1, OneRowIds DEF OneRow, IdsInv
      <4>2. id \notin IdsOf(Tail(t)) /\ IdsOf(Tail(t)) \subseteq IdsOf(t)
        BY <1>3, <4>1, IdsTail
      <4> QED
        BY <1>9, <4>1, <4>2
    <3> QED
      BY <3>1
  <2>3. Left(g, "marshal") \/ Left(g, "delete")
    BY <1>1, <2>2, NotifiedDoes DEF Telling
  <2>4. op'[g].stage \in {"marshal", "delete"} /\ op'[g].h = h /\ op'[g].todo = Tail(t)
    BY <1>2, <2>1, <2>3 DEF Left
  <2> QED
    BY <1>9, <2>4 DEF Unheard
<1>10. \A a \in watching' : a = h
  BY <1>1 DEF ViewFine
<1>11. \A a \in watching', i \in Ids : Heard(a, i)' \/ (op'[g].h = a /\ i \in Unheard(op'[g]))
  BY <1>7, <1>9, <1>10
<1> QED
  BY <1>1, <1>8, <1>10, <1>11 DEF ViewFine

LEMMA WatchView ==
    ASSUME TypeInv, OpsInv, NEW g \in Goroutines, ViewFine(g), Watch(g)
    PROVE  ViewFine(g)'
<1>0. PICK h \in Handles : h = op[g].h
  BY DEF Watch, At, TypeInv, Working
<1>1. /\ watching' = {h} /\ op'[g] = Idle /\ UNCHANGED <<rows, heap, loaded>>
      /\ view' = AsMap(Read(h))
  BY <1>0, DoneFacts DEF Watch, memory, TypeInv
<1>2. loaded[h]
  BY <1>0 DEF Watch, At, OpsInv, OpFine, Under
<1>3. ASSUME NEW i \in Ids PROVE Heard(h, i)'
  <2> DEFINE s == Read(h)
  <2>1. DOMAIN s = DOMAIN rows[h]
    BY DEF Read
  <2>2. \A k \in DOMAIN s : s[k].id = rows[h][k].id /\ s[k].doc = heap[rows[h][k].ref]
    BY DEF Read
  <2> HIDE DEF s
  <2>3. IdsOf(s) = IdsOf(rows[h])
    BY <2>1, <2>2 DEF IdsOf
  <2>4. view'[i] = IF i \in IdsOf(s) THEN s[CHOOSE k \in DOMAIN s : s[k].id = i].doc ELSE NoDoc
    BY <1>1 DEF AsMap, s
  <2>5. CASE i \in IdsOf(s)
    <3>1. PICK k \in DOMAIN s : s[k].id = i /\ view'[i] = s[k].doc
      BY <2>4, <2>5 DEF IdsOf
    <3> QED
      BY <1>1, <2>1, <2>2, <3>1 DEF Heard
  <2>6. CASE i \notin IdsOf(s)
    BY <1>1, <2>3, <2>4, <2>6 DEF Heard
  <2> QED
    BY <2>5, <2>6
<1> QED
  BY <1>1, <1>2, <1>3 DEF ViewFine, Idle, Telling

LEMMA RowStepView ==
    ASSUME TypeInv, OpsInv, IdsInv, RefsInv, NEW g \in Goroutines, TodoFine(g), ViewFine(g), RowStep(g)
    PROVE  ViewFine(g)'
<1>1. CASE Query(g)
  <2>1. op'[g] = Idle /\ UNCHANGED <<heap, rows, loaded, watching, view>> /\ Unheard(op[g]) = {}
    BY <1>1, DoneFacts DEF Query, At, TypeInv, memory, watcher, Unheard, Telling
  <2> QED
    BY <2>1, Calm, AwaitsNothing, ViewKept DEF Idle, Telling
<1>2. CASE StoreInsert(g)
  <2>1. UNCHANGED <<heap, rows, loaded, watching, view>> /\ Unheard(op[g]) = {}
    BY <1>2, StoreInsertDoes DEF Unheard, Telling
  <2>2. op'[g].stage \notin Telling \cup {"clear"}
    BY <1>2, StoreInsertDoes DEF Quiet, GoesOn, Idle, Telling
  <2> QED
    BY <2>1, <2>2, Calm, AwaitsNothing, ViewKept
<1>3. CASE Marshal(g)
  <2>1. UNCHANGED <<heap, rows, loaded, watching, view>>
    BY <1>3 DEF Marshal, memory, watcher
  <2>2. Awaits(g)
    BY <1>3, MarshalFacts DEF Awaits, Unheard, Telling
  <2> QED
    BY <2>1, <2>2, Calm, ViewKept
<1>4. CASE WriteUpdate(g)
  <2>1. /\ UNCHANGED <<heap, rows, loaded, watching, view>> /\ op[g].stage \in WithRows
        /\ Unheard(op[g]) = IdsOf(op[g].todo)
    BY <1>4, WriteUpdateDoes DEF WithRows, Unheard
  <2>2. \/ op[g].h \notin watching /\ Left(g, "marshal")
        \/ op[g].h \in watching /\ GoesOn(g, "updated")
    BY <1>4, WriteUpdateDoes
  <2>3. Awaits(g)
    BY <2>1, <2>2, AwaitsTheSame DEF Telling
  <2> QED
    BY <2>1, <2>3, Calm, ViewKept
<1>5. CASE DeleteRow(g)
  <2>1. /\ UNCHANGED <<heap, rows, loaded, watching, view>> /\ op[g].stage \in WithRows
        /\ Unheard(op[g]) = IdsOf(op[g].todo)
    BY <1>5, DeleteRowDoes DEF WithRows, Unheard
  <2>2. \/ op[g].h \notin watching /\ Left(g, "delete")
        \/ op[g].h \in watching /\ GoesOn(g, "deleted")
    BY <1>5, DeleteRowDoes
  <2>3. Awaits(g)
    BY <2>1, <2>2, AwaitsTheSame DEF Telling
  <2> QED
    BY <2>1, <2>3, Calm, ViewKept
<1>6. CASE \/ AppendRow(g) \/ Notified(g) \/ Watch(g)
           \/ \E id \in Ids, doc \in program.docs : CheckInsert(g, id, doc)
  BY <1>6, AppendRowView, NotifiedView, WatchView, CheckInsertView
<1>7. CASE \/ \E filter \in Filters, field \in program.fields, onlyFirst \in BOOLEAN :
                \E val \in Values(field) :
                  UpdateRows(g, filter, field, val, onlyFirst)
           \/ \E filter \in Filters, onlyFirst \in BOOLEAN : DeleteRows(g, filter, onlyFirst)
  BY <1>7, UpdateRowsView, DeleteRowsView
<1> QED
  BY <1>1, <1>2, <1>3, <1>4, <1>5, <1>6, <1>7 DEF RowStep

LEMMA EnsureLoadedView ==
    ASSUME TypeInv, NEW g \in Goroutines, ViewFine(g), NEW h \in Handles, EnsureLoaded(g, h)
    PROVE  ViewFine(g)'
<1>1. /\ op[g].stage = "idle" /\ op'[g].stage = "ready" /\ Unheard(op[g]) = {}
      /\ UNCHANGED <<watching, view>>
  BY EnsureLoadedDoes DEF Unheard, Telling
<1>2. Awaits(g)
  BY <1>1, AwaitsNothing DEF Telling
<1>3. CASE UNCHANGED <<heap, rows, loaded>>
  BY <1>1, <1>2, <1>3, Calm, ViewKept
<1>4. CASE ~UNCHANGED <<heap, rows, loaded>>
  <2> DEFINE s == [k \in DOMAIN disk.rows |-> LoadedRow(k)]
  <2>1. /\ ~loaded[h] /\ loaded' = [loaded EXCEPT ![h] = TRUE] /\ rows' = [rows EXCEPT ![h] = s]
        /\ \A r \in Refs \ Free : heap'[r] = heap[r]
    BY <1>4, EnsureLoadedDoes
  <2> HIDE DEF s
  <2>2. watching \subseteq Handles /\ h \notin watching
    BY <2>1 DEF ViewFine, TypeInv, TypeOK
  <2>3. \A a \in watching : rows'[a] = rows[a] /\ loaded'[a]
    BY <2>1, <2>2 DEF ViewFine, TypeInv, TypeOK
  <2>4. ASSUME NEW a \in watching, NEW k \in DOMAIN rows[a]
        PROVE  heap'[rows[a][k].ref] = heap[rows[a][k].ref]
    <3>1. rows[a][k].ref \in Refs
      BY <2>2, RowsFacts DEF TypeInv
    <3>2. rows[a][k].ref \notin Free
      BY <2>2, FreeRef DEF NotIn
    <3> QED
      BY <2>1, <3>1, <3>2
  <2>5. Undisturbed
    BY <1>1, <2>3, <2>4 DEF Undisturbed
  <2> QED
    BY <1>1, <1>2, <2>5, ViewKept
<1> QED
  BY <1>3, <1>4

LEMMA TableView ==
    ASSUME TypeInv, NEW g \in Goroutines, ViewFine(g), Table(g)
    PROVE  ViewFine(g)'
<1>1. PICK h \in Handles : /\ rows' = [rows EXCEPT ![h] = <<>>]
                           /\ loaded' = [loaded EXCEPT ![h] = FALSE]
                           /\ watching' = watching \ {h}
  BY DEF Table
<1>2. op[g].stage = "idle" /\ UNCHANGED <<heap, view, op>> /\ Unheard(op[g]) = {}
  BY DEF Table, At, Unheard, Telling
<1>3. watching \subseteq Handles
  BY DEF TypeInv, TypeOK
<1>4. \A a \in watching' : rows'[a] = rows[a] /\ loaded'[a]
  BY <1>1, <1>3 DEF ViewFine, TypeInv, TypeOK
<1>5. Undisturbed
  BY <1>2, <1>4 DEF Undisturbed
<1>6. Awaits(g)
  BY <1>2, AwaitsNothing DEF Telling
<1> QED
  BY <1>1, <1>5, <1>6, ViewKept

LEMMA WholeStepView ==
    ASSUME TypeInv, OpsInv, Careful(program), "clearwatched" \notin program.operations,
           NEW g \in Goroutines, ViewFine(g), WholeStep(g)
    PROVE  ViewFine(g)'
<1>0. watching \subseteq Handles
  BY DEF TypeInv, TypeOK
<1>1. /\ UNCHANGED <<heap, view>> /\ op[g].stage \in Whole \cup {"idle"} /\ Unheard(op[g]) = {}
  BY WholeStepDoes DEF Unheard, Telling, Whole
<1>2. ASSUME op'[g] = Idle, watching' \subseteq watching,
             \A h \in watching' : rows'[h] = rows[h] /\ loaded'[h]
      PROVE  ViewFine(g)'
  <2>1. Undisturbed
    BY <1>1, <1>2 DEF Undisturbed
  <2> QED
    BY <1>1, <1>2, <2>1, AwaitsNothing, ViewKept DEF Idle, Telling
<1>3. ASSUME NEW h \in Handles, ClearDisk(g, h) \/ DropDisk(g, h) PROVE ViewFine(g)'
  <2>1. UNCHANGED <<heap, rows, loaded, watching, view>>
    BY <1>3 DEF ClearDisk, DropDisk, memory, watcher
  <2>2. op'[g].stage \in Whole /\ (op'[g].stage = "clear" => op'[g].h \notin watching)
    <3>1. CASE ClearDisk(g, h)
      <4>1. op'[g].stage = "clear" /\ op'[g].h = h
        BY <3>1, StartFacts DEF ClearDisk, Stages, TypeInv
      <4> QED
        BY <3>1, <4>1 DEF ClearDisk, Does, Whole
    <3>2. CASE DropDisk(g, h)
      <4>1. op'[g].stage = "drop"
        BY <3>2, StartFacts DEF DropDisk, Stages, TypeInv
      <4> QED
        BY <4>1 DEF Whole
    <3> QED
      BY <1>3, <3>1, <3>2
  <2>3. Awaits(g)
    BY <1>1, <2>1, <2>2 DEF Awaits, Telling, Whole
  <2> QED
    BY <2>1, <2>3, Calm, ViewKept
<1>4. CASE ClearRows(g)
  <2>1. op[g].stage = "clear" /\ op'[g] = Idle /\ watching' = watching
    BY <1>4, DoneFacts DEF ClearRows, At, TypeInv, watcher
  <2>2. op[g].h \notin watching
    BY <2>1 DEF ViewFine
  <2>3. \A h \in watching : rows'[h] = rows[h] /\ loaded'[h]
    BY <1>0, <1>4, <2>2 DEF ClearRows, ViewFine, TypeInv, TypeOK
  <2> QED
    BY <1>2, <2>1, <2>3
<1>5. CASE DropRows(g)
  <2>1. op'[g] = Idle /\ watching' = watching \ {op[g].h}
    BY <1>5, DoneFacts DEF DropRows, TypeInv
  <2>2. \A h \in watching' : rows'[h] = rows[h] /\ loaded'[h]
    BY <1>0, <1>5, <2>1 DEF DropRows, ViewFine, TypeInv, TypeOK
  <2> QED
    BY <1>2, <2>1, <2>2
<1>6. CASE DbDropDisk(g)
  <2>1. UNCHANGED <<heap, rows, loaded, watching, view>>
    BY <1>6 DEF DbDropDisk, memory, watcher
  <2>2. op'[g].stage = "dbdrop"
    BY <1>6, GoFacts DEF DbDropDisk, Stages, TypeInv
  <2> QED
    BY <1>1, <2>1, <2>2, Calm, AwaitsNothing, ViewKept DEF Telling
<1>7. CASE DbForget(g)
  <2>1. op'[g] = Idle /\ UNCHANGED <<heap, rows, loaded, watching, view>>
    BY <1>7, DoneFacts DEF DbForget, TypeInv, memory, watcher
  <2> QED
    BY <1>1, <2>1, Calm, AwaitsNothing, ViewKept DEF Idle, Telling
<1> QED
  BY <1>3, <1>4, <1>5, <1>6, <1>7 DEF WholeStep

LEMMA OtherStepView ==
    ASSUME TypeInv, NEW g \in Goroutines, ViewFine(g), OtherStep(g)
    PROVE  ViewFine(g)'
<1>1. /\ op[g].stage \in {"idle", "index"} /\ op'[g].stage \in {"idle", "index"}
      /\ UNCHANGED <<heap, rows, loaded, view>>
  BY OtherStepDoes
<1>2. watching' \subseteq watching
  BY DEF OtherStep, SetSchema, CreateIndex, Unwatch, watcher
<1>3. Unheard(op[g]) = {} /\ op'[g].stage \notin Telling \cup {"clear"}
  BY <1>1 DEF Unheard, Telling
<1> QED
  BY <1>1, <1>2, <1>3, Calm, AwaitsNothing, ViewKept

(* Only watch adds to what is watched. *)
LEMMA Watching ==
    ASSUME TypeInv, OpsInv, Careful(program), NEW g \in Goroutines,
           \/ Table(g) \/ (\E h \in Handles : EnsureLoaded(g, h))
           \/ RowStep(g) \/ WholeStep(g) \/ OtherStep(g)
    PROVE  watching' # {} => watching # {} \/ "watch" \in program.operations
<1>1. CASE Table(g) \/ (\E h \in Handles : EnsureLoaded(g, h)) \/ OtherStep(g)
  BY <1>1 DEF Table, EnsureLoaded, OtherStep, SetSchema, CreateIndex, Unwatch, watcher
<1>2. CASE WholeStep(g)
  BY <1>2 DEF WholeStep, ClearDisk, DropDisk, ClearRows, DropRows, DbDropDisk, DbForget, watcher
<1>3. CASE RowStep(g)
  <2>1. CASE Watch(g)
    BY <2>1 DEF Watch, Does
  <2>2. CASE ~Watch(g)
    BY <1>3, <2>2 DEF RowStep, Query, StoreInsert, AppendRow, Marshal, WriteUpdate, DeleteRow,
                      Notified, CheckInsert, UpdateRows, DeleteRows, watcher
  <2> QED
    BY <2>1, <2>2
<1> QED
  BY <1>1, <1>2, <1>3

LEMMA ViewInvKept ==
    ASSUME TypeInv, OpsInv, IdsInv, RefsInv, TodoInv, KeepsView(program), ViewInv, Careful(program),
           [Next]_vars
    PROVE  ViewInv'
<1>0. UNCHANGED program
  BY KindsOfSteps
<1>1. CASE UNCHANGED vars
  BY <1>1 DEF vars, ViewInv, ViewFine, Heard
<1>2. CASE Restart
  <2>1. watching' = {} /\ \A g \in program.goroutines : op'[g] = Idle
    BY <1>2, OfProgram DEF Restart, TypeInv
  <2> QED
    BY <1>0, <2>1 DEF ViewInv, ViewFine, Idle, Telling
<1>3. ASSUME NEW g \in Goroutines, g \in program.goroutines,
             \/ Table(g) \/ (\E h \in Handles : EnsureLoaded(g, h))
             \/ RowStep(g) \/ WholeStep(g) \/ OtherStep(g)
      PROVE  ViewInv'
  <2>1. watching' # {} => "watch" \in program.operations
    BY <1>3, Watching DEF ViewInv
  <2>2. ASSUME "watch" \in program.operations PROVE ViewFine(g)'
    <3>1. /\ ViewFine(g) /\ TodoFine(g) /\ "clearwatched" \notin program.operations
      BY <1>3, <2>2 DEF ViewInv, KeepsView, TodoInv
    <3> QED
      BY <1>3, <3>1, TableView, EnsureLoadedView, RowStepView, WholeStepView, OtherStepView
  <2>3. "watch" \in program.operations => \A k \in program.goroutines : k = g
    BY <1>3 DEF KeepsView, Solo
  <2> QED
    BY <1>0, <1>3, <2>1, <2>2, <2>3 DEF ViewInv
<1> QED
  BY <1>1, <1>2, <1>3, KindsOfSteps

LEMMA ViewFollows ==
    ASSUME TypeInv, IdsInv, ViewInv
    PROVE  WatcherFollows
<1> SUFFICES ASSUME AtRest, NEW h \in watching PROVE view = AsMap(Read(h))
  BY DEF WatcherFollows
<1>1. PICK g \in program.goroutines : ViewFine(g) /\ g \in Goroutines
  BY OfProgram DEF ViewInv, TypeInv
<1>2. Unheard(op[g]) = {}
  BY <1>1 DEF AtRest, Unheard, Telling
<1>3. h \in Handles /\ OnceIds(rows[h]) /\ \A i \in Ids : Heard(h, i)
  BY <1>1, <1>2 DEF ViewFine, IdsInv, TypeInv, TypeOK
<1> DEFINE s == Read(h)
<1>4. DOMAIN s = DOMAIN rows[h]
  BY DEF Read
<1>5. \A k \in DOMAIN s : s[k].id = rows[h][k].id /\ s[k].doc = heap[rows[h][k].ref]
  BY DEF Read
<1> HIDE DEF s
<1>6. IdsOf(s) = IdsOf(rows[h])
  BY <1>4, <1>5 DEF IdsOf
<1>7. ASSUME NEW i \in Ids
      PROVE  view[i] = IF i \in IdsOf(s) THEN s[CHOOSE k \in DOMAIN s : s[k].id = i].doc ELSE NoDoc
  <2>1. CASE i \in IdsOf(s)
    <3>1. PICK k \in DOMAIN rows[h] : rows[h][k].id = i /\ view[i] = heap[rows[h][k].ref]
      BY <1>3, <1>6, <2>1 DEF Heard
    <3>2. PICK l \in DOMAIN s : s[l].id = i /\ l = CHOOSE j \in DOMAIN s : s[j].id = i
      BY <2>1 DEF IdsOf
    <3>3. l = k
      BY <1>3, <1>4, <1>5, <3>1, <3>2 DEF OnceIds
    <3> QED
      BY <1>5, <2>1, <3>1, <3>2, <3>3
  <2>2. CASE i \notin IdsOf(s)
    BY <1>3, <1>6, <2>2 DEF Heard, IdsOf
  <2> QED
    BY <2>1, <2>2
<1>8. AsMap(s) = [i \in Ids |-> view[i]]
  BY <1>7 DEF AsMap
<1>9. view = [i \in Ids |-> view[i]]
  BY DEF TypeInv, TypeOK
<1> QED
  BY <1>8, <1>9 DEF s

(* Once every operation is over, a watcher that keeps a copy of the rows by  *)
(* the events it is told has the rows of the table, with their documents     *)
(* (std/db.go: notifyWatches runs after each row, outside the lock).  The    *)
(* program has one goroutine, and clears no table it watches: clear tells    *)
(* the watcher nothing.                                                      *)
THEOREM WatcherHears ==
    (\A p \in Programs : Careful(p) /\ KeepsView(p)) => (Spec => []WatcherFollows)
<1> SUFFICES ASSUME \A p \in Programs : Careful(p) /\ KeepsView(p) PROVE Spec => []WatcherFollows
  OBVIOUS
<1> DEFINE Inv == TypeInv /\ OpsInv /\ IdsInv /\ RefsInv /\ TodoInv /\ ViewInv
<1>1. TypeInv => Careful(program) /\ KeepsView(program)
  BY DEF TypeInv, TypeOK
<1>2. Init => Inv
  <2>1. Init => program.goroutines \subseteq Goroutines
    BY TypesInitially, OfProgram DEF TypeInv
  <2> QED
    BY <2>1, TypesInitially, OpsInitially, IdsInitially, RefsInitially, TodoInitially, ViewInitially
<1>3. Inv /\ [Next]_vars => Inv'
  BY <1>1, TypesKept, OpsInvKept, IdsInvKept, RefsInvKept, TodoInvKept, ViewInvKept
<1>4. Inv => WatcherFollows
  BY ViewFollows
<1> QED
  BY <1>2, <1>3, <1>4, PTL DEF Spec

-----------------------------------------------------------------------------
(* What a program of one goroutine gets from a table: Queries               *)

(* What the defaults of a schema give is not checked when a document is     *)
(* written: a schema is sound when they pass its own rules.                 *)
DefaultsConform ==
    \A defs \in Schemas : \A f \in DOMAIN defs : \A n \in Nat :
        LET given == Defaulted(defs[f], n, Now)
        IN  given = Undefined \/ (~IsNullish(given) /\ Valid(given, defs[f]))

(* The rows are a list, and each field of the schema was once declared.     *)
RowsShaped ==
    /\ IsList(tableRows)
    /\ \A i \in DOMAIN tableRows : tableRows[i] = [id |-> tableRows[i].id, doc |-> tableRows[i].doc]
SchemaDeclared ==
    \A f \in DOMAIN schema : \E defs \in Schemas : f \in DOMAIN defs /\ schema[f] = defs[f]
QueriesInv == RowsShaped /\ SchemaDeclared /\ seqs \in Nat

LEMMA StrictEqualsFacts ==
    \A v, w : StrictEquals(v, w) => v.tag = w.tag /\ StrictEquals(w, v)
  BY DEF StrictEquals, IsNullish

(* What insert lets in is as the schema asks. *)
LEMMA WrittenConforms ==
    ASSUME DefaultsConform, SchemaDeclared, seqs \in Nat, NEW doc, Failing(doc, schema) = {},
           NEW f \in DOMAIN schema
    PROVE  LET val == FieldOf(Written(doc), f)
           IN  IF IsNullish(val)
               THEN ~schema[f].required /\ Defaulted(schema[f], 0, 0) = Undefined
               ELSE Valid(val, schema[f])
<1> DEFINE default == Defaulted(schema[f], NextSeq, Now)
           given == {g \in DOMAIN schema : Absent(doc, g) /\ Defaulted(schema[g], NextSeq, Now) # Undefined}
           some == [g \in given |-> Defaulted(schema[g], NextSeq, Now)]
           val == FieldOf(Written(doc), f)
<1>1. PICK defs \in Schemas : f \in DOMAIN defs /\ schema[f] = defs[f]
  BY DEF SchemaDeclared
<1>2. NextSeq \in Nat
  BY DEF NextSeq
<1>3. default = Undefined \/ (~IsNullish(default) /\ Valid(default, schema[f]))
  BY <1>1, <1>2 DEF DefaultsConform
<1>4. schema[f].generated \in {"", "$uuid", "$now", "$seq"}
  BY <1>1, SchemasAssumption
<1>5. default = Undefined => /\ schema[f].generated = "" /\ schema[f].default = Undefined
                             /\ Defaulted(schema[f], 0, 0) = Undefined
  BY <1>4 DEF Defaulted, Text, Number, Undefined
<1>6. Written(doc) = Merged(some, doc)
  BY DEF Written, ApplySchema
<1>7. f \in given => val = default
  BY <1>6 DEF FieldOf, Merged
<1>8. f \notin given => val = FieldOf(doc, f)
  BY <1>6 DEF FieldOf, Merged
<1>9. CASE f \in given
  BY <1>3, <1>7, <1>9
<1>10. CASE f \notin given /\ Absent(doc, f)
  <2>1. default = Undefined
    BY <1>10
  <2>2. ~schema[f].required
    BY <1>5, <1>10, <2>1 DEF Failing
  <2>3. IsNullish(val)
    BY <1>8, <1>10 DEF Absent
  <2> QED
    BY <1>5, <2>1, <2>2, <2>3
<1>11. CASE f \notin given /\ ~Absent(doc, f)
  <2>1. Valid(doc[f], schema[f])
    BY <1>11 DEF Failing
  <2>2. FieldOf(doc, f) = doc[f] /\ ~IsNullish(doc[f])
    BY <1>11 DEF Absent, FieldOf, IsNullish, Undefined
  <2> QED
    BY <1>8, <1>11, <2>1, <2>2
<1> QED
  BY <1>9, <1>10, <1>11

(* Each call of the program keeps the shape of the rows.                    *)
LEMMA InsertKeepsRows ==
    ASSUME QueriesInv, InsertedConform, DefaultsConform, NEW id, NEW doc, Insert(id, doc)
    PROVE  QueriesInv' /\ InsertedConform'
<1> DEFINE row == [id |-> id, doc |-> Written(doc)]
<1>1. IsList(tableRows) /\ Len(tableRows) \in Nat /\ DOMAIN tableRows = 1..Len(tableRows)
  BY ListFacts DEF QueriesInv, RowsShaped
<1>2. schema' = schema /\ seqs' \in Nat /\ SchemaDeclared'
  <2>1. seqs' \in {seqs, NextSeq}
    BY DEF Insert
  <2> QED
    BY <2>1 DEF Insert, NextSeq, QueriesInv, SchemaDeclared
<1>3. CASE ~CanInsert(id, doc)
  <2>1. UNCHANGED <<tableRows, fresh, schema>>
    BY <1>3 DEF Insert
  <2> QED
    BY <1>2, <2>1 DEF QueriesInv, RowsShaped, InsertedConform
<1>4. CASE CanInsert(id, doc)
  <2> DEFINE n == Len(tableRows)
  <2>1. tableRows' = Append(tableRows, row) /\ fresh' = fresh \cup {id}
    BY <1>4 DEF Insert
  <2>2. /\ IsList(tableRows')
        /\ DOMAIN tableRows' = 1..(n + 1)
        /\ tableRows'[n + 1] = row
        /\ \A i \in 1..n : tableRows'[i] = tableRows[i]
    BY <1>1, <2>1, ListAppend
  <2>3. RowsShaped'
    <3>1. ASSUME NEW i \in 1..(n + 1)
          PROVE  tableRows'[i] = [id |-> tableRows'[i].id, doc |-> tableRows'[i].doc]
      <4>1. CASE i = n + 1
        BY <2>2, <4>1
      <4>2. CASE i \in 1..n
        BY <1>1, <2>2, <4>2 DEF QueriesInv, RowsShaped
      <4> QED
        BY <1>1, <4>1, <4>2
    <3> QED
      BY <2>2, <3>1 DEF RowsShaped
  <2>4. /\ Failing(doc, schema) = {} /\ ~Clashes(tableRows, id, Written(doc), schema)
        /\ \A i \in 1..n : tableRows[i].id # id
    BY <1>1, <1>4 DEF CanInsert
  <2>5. InsertedConform'
    <3> SUFFICES ASSUME NEW i \in 1..(n + 1), tableRows'[i].id \in fresh',
                        NEW f \in DOMAIN schema
                 PROVE  LET val == FieldOf(tableRows'[i].doc, f)
                        IN  IF IsNullish(val)
                            THEN ~schema[f].required /\ Defaulted(schema[f], 0, 0) = Undefined
                            ELSE /\ Valid(val, schema[f])
                                 /\ schema[f].unique =>
                                      \A j \in 1..(n + 1) :
                                         (j # i /\ tableRows'[j].id \in fresh') =>
                                         ~StrictEquals(FieldOf(tableRows'[j].doc, f), val)
      BY <1>2, <2>2 DEF InsertedConform
    <3> DEFINE val == FieldOf(tableRows'[i].doc, f)
               new == FieldOf(Written(doc), f)
    <3>0. ASSUME schema[f].unique, ~IsNullish(new), NEW j \in 1..n
          PROVE  ~StrictEquals(FieldOf(tableRows[j].doc, f), new)
      <4>1. ~Absent(Written(doc), f) /\ Written(doc)[f] = new
        BY <3>0 DEF Absent, FieldOf, IsNullish, Undefined
      <4> QED
        BY <1>1, <2>4, <3>0, <4>1 DEF Clashes
    <3>1. CASE i = n + 1
      <4>1. val = new
        BY <2>2, <3>1
      <4>2. IF IsNullish(new)
            THEN ~schema[f].required /\ Defaulted(schema[f], 0, 0) = Undefined
            ELSE Valid(new, schema[f])
        BY <2>4, WrittenConforms DEF QueriesInv
      <4>3. ASSUME schema[f].unique, ~IsNullish(new), NEW j \in 1..(n + 1), j # i
            PROVE  ~StrictEquals(FieldOf(tableRows'[j].doc, f), new)
        <5>1. j \in 1..n
          BY <1>1, <3>1, <4>3
        <5> QED
          BY <2>2, <3>0, <4>3, <5>1
      <4> QED
        BY <4>1, <4>2, <4>3
    <3>2. CASE i \in 1..n
      <4>1. tableRows'[i] = tableRows[i] /\ tableRows[i].id \in fresh
        BY <2>1, <2>2, <2>4, <3>2
      <4>2. IF IsNullish(val)
            THEN ~schema[f].required /\ Defaulted(schema[f], 0, 0) = Undefined
            ELSE /\ Valid(val, schema[f])
                 /\ schema[f].unique =>
                      \A j \in 1..n : (j # i /\ tableRows[j].id \in fresh) =>
                         ~StrictEquals(FieldOf(tableRows[j].doc, f), val)
        BY <1>1, <3>2, <4>1 DEF InsertedConform
      <4>3. ASSUME ~IsNullish(val), schema[f].unique, NEW j \in 1..(n + 1), j # i,
                   tableRows'[j].id \in fresh'
            PROVE  ~StrictEquals(FieldOf(tableRows'[j].doc, f), val)
        <5>1. CASE j \in 1..n
          <6>1. tableRows'[j] = tableRows[j] /\ tableRows[j].id \in fresh
            BY <2>1, <2>2, <2>4, <4>3, <5>1
          <6> QED
            BY <4>2, <4>3, <5>1, <6>1
        <5>2. CASE j = n + 1
          <6>1. FieldOf(tableRows'[j].doc, f) = new
            BY <2>2, <5>2
          <6>2. CASE ~IsNullish(new)
            <7>1. ~StrictEquals(val, new)
              BY <3>0, <3>2, <4>1, <4>3, <6>2
            <7> QED
              BY <6>1, <7>1, StrictEqualsFacts
          <6>3. CASE IsNullish(new)
            BY <4>3, <6>1, <6>3, StrictEqualsFacts DEF IsNullish
          <6> QED
            BY <6>2, <6>3
        <5> QED
          BY <1>1, <5>1, <5>2
      <4> QED
        BY <4>2, <4>3
    <3> QED
      BY <1>1, <3>1, <3>2
  <2> QED
    BY <1>2, <2>3, <2>5 DEF QueriesInv
<1> QED
  BY <1>3, <1>4

(* Rows that keep their documents, and their order, go on conforming.       *)
LEMMA FewerConform ==
    ASSUME QueriesInv, InsertedConform, SchemaDeclared', seqs' \in Nat, IsList(tableRows'),
           schema' = schema, fresh' \subseteq fresh,
           NEW from, \A i \in DOMAIN tableRows' : from[i] \in DOMAIN tableRows,
           \A i, j \in DOMAIN tableRows' : i # j => from[i] # from[j],
           \A i \in DOMAIN tableRows' :
               /\ tableRows'[i] = [id |-> tableRows'[i].id, doc |-> tableRows'[i].doc]
               /\ tableRows'[i].id = tableRows[from[i]].id
               /\ tableRows'[i].id \in fresh' => tableRows'[i].doc = tableRows[from[i]].doc
    PROVE  QueriesInv' /\ InsertedConform'
<1>1. QueriesInv'
  BY DEF QueriesInv, RowsShaped
<1>2. ASSUME NEW i \in DOMAIN tableRows', tableRows'[i].id \in fresh', NEW f \in DOMAIN schema
      PROVE  LET val == FieldOf(tableRows'[i].doc, f)
             IN  IF IsNullish(val)
                 THEN ~schema[f].required /\ Defaulted(schema[f], 0, 0) = Undefined
                 ELSE /\ Valid(val, schema[f])
                      /\ schema[f].unique =>
                           \A j \in DOMAIN tableRows' :
                              (j # i /\ tableRows'[j].id \in fresh') =>
                              ~StrictEquals(FieldOf(tableRows'[j].doc, f), val)
  <2> DEFINE val == FieldOf(tableRows'[i].doc, f)
  <2>1. /\ from[i] \in DOMAIN tableRows /\ tableRows[from[i]].id \in fresh
        /\ tableRows'[i].doc = tableRows[from[i]].doc
    BY <1>2
  <2>2. IF IsNullish(val)
        THEN ~schema[f].required /\ Defaulted(schema[f], 0, 0) = Undefined
        ELSE /\ Valid(val, schema[f])
             /\ schema[f].unique =>
                  \A j \in DOMAIN tableRows : (j # from[i] /\ tableRows[j].id \in fresh) =>
                     ~StrictEquals(FieldOf(tableRows[j].doc, f), val)
    BY <2>1 DEF InsertedConform
  <2>3. ASSUME NEW j \in DOMAIN tableRows', j # i, tableRows'[j].id \in fresh'
        PROVE  /\ from[j] \in DOMAIN tableRows /\ from[j] # from[i]
               /\ tableRows[from[j]].id \in fresh
               /\ tableRows'[j].doc = tableRows[from[j]].doc
    BY <2>3
  <2> QED
    BY <2>2, <2>3
<1> QED
  BY <1>1, <1>2 DEF InsertedConform

LEMMA UpdateKeepsRows ==
    ASSUME QueriesInv, InsertedConform, NEW filter, NEW changes, NEW onlyFirst,
           UpdateMatches(filter, changes, onlyFirst)
    PROVE  QueriesInv' /\ InsertedConform'
<1> DEFINE chosen == Chosen(filter, onlyFirst)
           from == [i \in DOMAIN tableRows |-> i]
<1>1. IsList(tableRows) /\ Len(tableRows) \in Nat /\ DOMAIN tableRows = 1..Len(tableRows)
  BY ListFacts DEF QueriesInv, RowsShaped
<1>2. /\ tableRows' = [i \in DOMAIN tableRows |->
                         IF i \in chosen
                         THEN [tableRows[i] EXCEPT !.doc = Stamp(Merged(changes, @))]
                         ELSE tableRows[i]]
      /\ fresh' = fresh \ {tableRows[i].id : i \in chosen}
      /\ UNCHANGED <<schema, seqs>>
  BY DEF UpdateMatches
<1>3. DOMAIN tableRows' = DOMAIN tableRows /\ IsList(tableRows')
  <2>1. tableRows' = [i \in 1..Len(tableRows) |-> tableRows'[i]]
    BY <1>1, <1>2
  <2> QED
    BY <1>1, <2>1, ListOf
<1>4. \A i \in DOMAIN tableRows : tableRows[i] = [id |-> tableRows[i].id, doc |-> tableRows[i].doc]
  BY DEF QueriesInv, RowsShaped
<1>5. ASSUME NEW i \in DOMAIN tableRows
      PROVE  /\ tableRows'[i] = [id |-> tableRows'[i].id, doc |-> tableRows'[i].doc]
             /\ tableRows'[i].id = tableRows[i].id
             /\ tableRows'[i].id \in fresh' => tableRows'[i].doc = tableRows[i].doc
  <2>1. CASE i \in chosen
    <3>1. PICK d : tableRows'[i] = [tableRows[i] EXCEPT !.doc = d]
      BY <1>2, <2>1
    <3>2. tableRows'[i] = [id |-> tableRows[i].id, doc |-> d]
      BY <1>4, <3>1
    <3> QED
      BY <1>2, <2>1, <3>2
  <2>2. CASE i \notin chosen
    BY <1>2, <1>4, <2>2
  <2> QED
    BY <2>1, <2>2
<1>6. SchemaDeclared' /\ seqs' \in Nat /\ schema' = schema /\ fresh' \subseteq fresh
  BY <1>2 DEF QueriesInv, SchemaDeclared
<1>7. \A i \in DOMAIN tableRows' : from[i] = i
  BY <1>3
<1> HIDE DEF from, chosen
<1> QED
  BY <1>3, <1>5, <1>6, <1>7, FewerConform

LEMMA DeleteKeepsRows ==
    ASSUME QueriesInv, InsertedConform, NEW filter, NEW onlyFirst,
           DeleteMatches(filter, onlyFirst)
    PROVE  QueriesInv' /\ InsertedConform'
<1> DEFINE K == DOMAIN tableRows \ Chosen(filter, onlyFirst)
           from == Ascending(K)
<1>1. IsList(tableRows)
  BY DEF QueriesInv, RowsShaped
<1>2. tableRows' = Picked(tableRows, K) /\ UNCHANGED <<schema, seqs>> /\ fresh' \subseteq fresh
  BY DEF DeleteMatches
<1>3. K \in SUBSET DOMAIN tableRows
  OBVIOUS
<1> DEFINE n == Cardinality(K)
<1> HIDE DEF K
<1>4. /\ IsList(tableRows') /\ Len(tableRows') = n /\ n \in Nat
      /\ \A k \in 1..n : from[k] \in K /\ tableRows'[k] = tableRows[from[k]]
      /\ \A i, j \in 1..n : i < j => from[i] < from[j]
  BY <1>1, <1>2, <1>3, ListPicked
<1>5. DOMAIN tableRows' = 1..n
  BY <1>4, ListFacts
<1>6. DOMAIN tableRows \subseteq Nat
  BY <1>1, ListFacts
<1> HIDE DEF from
<1>7. \A i, j \in 1..n : i # j => from[i] # from[j]
  BY <1>3, <1>4, <1>6
<1>8. \A i \in DOMAIN tableRows : tableRows[i] = [id |-> tableRows[i].id, doc |-> tableRows[i].doc]
  BY DEF QueriesInv, RowsShaped
<1>9. ASSUME NEW i \in DOMAIN tableRows'
      PROVE  /\ from[i] \in DOMAIN tableRows
             /\ tableRows'[i] = [id |-> tableRows'[i].id, doc |-> tableRows'[i].doc]
             /\ tableRows'[i].id = tableRows[from[i]].id
             /\ tableRows'[i].id \in fresh' => tableRows'[i].doc = tableRows[from[i]].doc
  BY <1>3, <1>4, <1>5, <1>8
<1>10. SchemaDeclared' /\ seqs' \in Nat /\ schema' = schema /\ fresh' \subseteq fresh
  BY <1>2 DEF QueriesInv, SchemaDeclared
<1> QED
  BY <1>4, <1>5, <1>7, <1>9, <1>10, FewerConform

LEMMA SchemaKeepsRows ==
    ASSUME QueriesInv, InsertedConform, NEW defs \in Schemas, AddSchema(defs)
    PROVE  QueriesInv' /\ InsertedConform'
<1>1. schema' = Merged(defs, schema) /\ fresh' = {} /\ UNCHANGED <<tableRows, seqs>>
  BY DEF AddSchema
<1>2. ASSUME NEW f \in DOMAIN schema'
      PROVE  \/ f \in DOMAIN defs /\ schema'[f] = defs[f]
             \/ f \in DOMAIN schema /\ schema'[f] = schema[f]
  BY <1>1 DEF Merged
<1>3. SchemaDeclared'
  BY <1>2 DEF QueriesInv, SchemaDeclared
<1> QED
  BY <1>1, <1>3 DEF QueriesInv, RowsShaped, InsertedConform

LEMMA DropKeepsRows ==
    ASSUME QueriesInv, InsertedConform, Drop
    PROVE  QueriesInv' /\ InsertedConform'
<1>1. tableRows' = <<>> /\ schema' = <<>> /\ fresh' = {} /\ seqs' = seqs
  BY DEF Drop
<1>2. IsList(<<>>) /\ DOMAIN <<>> = {}
  BY ListSeq DEF IsList
<1> QED
  BY <1>1, <1>2 DEF QueriesInv, RowsShaped, SchemaDeclared, InsertedConform

LEMMA RunKeepsRows ==
    ASSUME QueriesInv, InsertedConform, RunAgain
    PROVE  QueriesInv' /\ InsertedConform'
<1>1. /\ tableRows' = [i \in DOMAIN tableRows |-> [tableRows[i] EXCEPT !.doc = DocNative(@)]]
      /\ schema' = <<>> /\ fresh' = {} /\ seqs' = seqs
  BY DEF RunAgain
<1>2. IsList(tableRows) /\ Len(tableRows) \in Nat /\ DOMAIN tableRows = 1..Len(tableRows)
  BY ListFacts DEF QueriesInv, RowsShaped
<1>3. IsList(tableRows') /\ DOMAIN tableRows' = DOMAIN tableRows
  <2>1. tableRows' = [i \in 1..Len(tableRows) |-> tableRows'[i]]
    BY <1>1, <1>2
  <2> QED
    BY <1>1, <1>2, <2>1, ListOf
<1>4. ASSUME NEW i \in DOMAIN tableRows
      PROVE  tableRows'[i] = [id |-> tableRows'[i].id, doc |-> tableRows'[i].doc]
  <2>1. tableRows[i] = [id |-> tableRows[i].id, doc |-> tableRows[i].doc]
    BY DEF QueriesInv, RowsShaped
  <2>2. PICK d : tableRows'[i] = [tableRows[i] EXCEPT !.doc = d]
    BY <1>1
  <2>3. tableRows'[i] = [id |-> tableRows[i].id, doc |-> d]
    BY <2>1, <2>2
  <2> QED
    BY <2>3
<1> QED
  BY <1>1, <1>3, <1>4 DEF QueriesInv, RowsShaped, SchemaDeclared, InsertedConform

LEMMA IdleKeepsRows ==
    ASSUME QueriesInv, InsertedConform, UNCHANGED <<tableRows, schema, seqs, fresh>>
    PROVE  QueriesInv' /\ InsertedConform'
  BY DEF QueriesInv, RowsShaped, SchemaDeclared, InsertedConform

LEMMA QueriesStart == QueriesInit => QueriesInv /\ InsertedConform
<1> SUFFICES ASSUME QueriesInit PROVE QueriesInv /\ InsertedConform
  OBVIOUS
<1>1. RowsShaped
  BY ExistingAssumption DEF QueriesInit, RowsShaped
<1> QED
  BY <1>1 DEF QueriesInit, QueriesInv, SchemaDeclared, InsertedConform

LEMMA WritesKeepRows ==
    ASSUME QueriesInv, InsertedConform, DefaultsConform, Write
    PROVE  QueriesInv' /\ InsertedConform'
<1>1. CASE \E id \in Offered, doc \in Docs : Insert(id, doc)
  BY <1>1, InsertKeepsRows
<1>2. CASE \E filter \in Probes, patch \in Patches, onlyFirst \in BOOLEAN :
              UpdateMatches(filter, patch, onlyFirst)
  BY <1>2, UpdateKeepsRows
<1>3. CASE \E filter \in Probes, onlyFirst \in BOOLEAN : DeleteMatches(filter, onlyFirst)
  BY <1>3, DeleteKeepsRows
<1>4. CASE \E id \in Offered, filter \in Probes, patch \in Patches : Upsert(id, filter, patch)
  <2>1. PICK id \in Offered, filter \in Probes, patch \in Patches : Upsert(id, filter, patch)
    BY <1>4
  <2>2. UpdateMatches(filter, patch, TRUE) \/ Insert(id, patch)
    BY <2>1 DEF Upsert
  <2> QED
    BY <2>2, UpdateKeepsRows, InsertKeepsRows
<1>5. CASE \E defs \in Schemas : AddSchema(defs)
  BY <1>5, SchemaKeepsRows
<1>6. CASE Drop \/ RunAgain
  BY <1>6, DropKeepsRows, RunKeepsRows
<1> QED
  BY <1>1, <1>2, <1>3, <1>4, <1>5, <1>6 DEF Write

LEMMA ChainsKeepRows ==
    ASSUME QueriesInv, InsertedConform, Chain
    PROVE  QueriesInv' /\ InsertedConform'
<1>1. CASE \E patch \in Patches : UpdateMatches(qb.filter, patch, FALSE)
  BY <1>1, UpdateKeepsRows
<1>2. CASE DeleteMatches(qb.filter, FALSE)
  BY <1>2, DeleteKeepsRows
<1>3. CASE \E q : Becomes(q)
  BY <1>3, IdleKeepsRows DEF Becomes
<1> QED
  BY <1>1, <1>2, <1>3
     DEF Chain, TableWhere, TableSelect, Where, And, Or, Select, OrderBy, LimitTo, Offset

(* Whatever a program of one goroutine inserts, updates, deletes, upserts,  *)
(* declares, drops and runs again: a row that insert let in under the       *)
(* schema, and that no update has changed since, has the fields it requires *)
(* and those with a default, of the types and within the bounds it asks     *)
(* for, and shares no value of a unique field with another such row.        *)
THEOREM RowsConform ==
    ASSUME DefaultsConform
    PROVE  QueriesSpec => []InsertedConform
<1>1. QueriesInit => QueriesInv /\ InsertedConform
  BY QueriesStart
<1>2. QueriesInv /\ InsertedConform /\ [QueriesNext]_queryVars => (QueriesInv /\ InsertedConform)'
  <2> SUFFICES ASSUME QueriesInv, InsertedConform, [QueriesNext]_queryVars
               PROVE  QueriesInv' /\ InsertedConform'
    OBVIOUS
  <2>1. CASE Write
    BY <2>1, WritesKeepRows
  <2>2. CASE Chain
    BY <2>2, ChainsKeepRows
  <2>3. CASE UNCHANGED queryVars
    BY <2>3, IdleKeepsRows DEF queryVars
  <2> QED
    BY <2>1, <2>2, <2>3 DEF QueriesNext
<1> QED
  BY <1>1, <1>2, PTL DEF QueriesSpec

-----------------------------------------------------------------------------
(* The builder keeps a list of fields to sort by, and numbers for its page. *)
BuilderShaped ==
    /\ qb = [filter |-> qb.filter, proj |-> qb.proj, sorts |-> qb.sorts,
             limit |-> qb.limit, offset |-> qb.offset]
    /\ IsList(qb.sorts) /\ \A i \in DOMAIN qb.sorts :
                              qb.sorts[i] \in [field : SortFields, desc : BOOLEAN]
    /\ qb.limit \in Nat /\ qb.offset \in Nat

LEMMA NewShaped ==
    ASSUME NEW filter, qb' = NewQb(filter)
    PROVE  BuilderShaped'
  BY NoList DEF NewQb, BuilderShaped

LEMMA PagedShaped ==
    ASSUME BuilderShaped, NEW n \in Nat, NEW size \in Nat
    PROVE  /\ Paged(qb, n, size) = [filter |-> qb.filter, proj |-> qb.proj, sorts |-> qb.sorts,
                                    limit |-> size,
                                    offset |-> ((IF n < 1 THEN 1 ELSE n) - 1) * size]
           /\ Paged(qb, n, size).offset \in Nat
<1> DEFINE m == (IF n < 1 THEN 1 ELSE n) - 1
<1>1. m \in Nat
  OBVIOUS
<1>2. m * size \in Nat
  BY <1>1
<1>3. Paged(qb, n, size) = [qb EXCEPT !.offset = m * size, !.limit = size]
  BY DEF Paged
<1> HIDE DEF m
<1>4. Paged(qb, n, size) = [filter |-> qb.filter, proj |-> qb.proj, sorts |-> qb.sorts,
                            limit |-> size, offset |-> m * size]
  BY <1>3 DEF BuilderShaped
<1> QED
  BY <1>2, <1>4 DEF m

LEMMA ChainKeepsBuilder ==
    ASSUME BuilderShaped, Chain
    PROVE  BuilderShaped'
<1>1. CASE UNCHANGED qb
  BY <1>1 DEF BuilderShaped
<1>2. CASE (\E filter \in Probes : TableWhere(filter)) \/ TableSelect
  BY <1>2, NewShaped DEF TableWhere, TableSelect, Becomes
<1>3. CASE \E filter : qb' = [qb EXCEPT !.filter = filter]
  BY <1>3 DEF BuilderShaped
<1>4. CASE \E fields \in SUBSET SortFields : Select(fields)
  BY <1>4 DEF Select, Becomes, BuilderShaped
<1>5. CASE \E field \in SortFields, desc \in BOOLEAN : OrderBy(field, desc)
  <2>1. PICK field \in SortFields, desc \in BOOLEAN : OrderBy(field, desc)
    BY <1>5
  <2> DEFINE s == [field |-> field, desc |-> desc]
  <2>2. qb' = [filter |-> qb.filter, proj |-> qb.proj, sorts |-> Append(qb.sorts, s),
               limit |-> qb.limit, offset |-> qb.offset]
    BY <2>1 DEF OrderBy, Becomes, BuilderShaped
  <2>3. IsList(qb.sorts) /\ Len(qb.sorts) \in Nat /\ DOMAIN qb.sorts = 1..Len(qb.sorts)
    BY ListFacts DEF BuilderShaped
  <2>4. /\ IsList(Append(qb.sorts, s))
        /\ DOMAIN Append(qb.sorts, s) = 1..(Len(qb.sorts) + 1)
        /\ Append(qb.sorts, s)[Len(qb.sorts) + 1] = s
        /\ \A i \in 1..Len(qb.sorts) : Append(qb.sorts, s)[i] = qb.sorts[i]
    BY <2>3, ListAppend
  <2>5. ASSUME NEW i \in DOMAIN Append(qb.sorts, s)
        PROVE  Append(qb.sorts, s)[i] \in [field : SortFields, desc : BOOLEAN]
    <3>1. CASE i \in 1..Len(qb.sorts)
      BY <2>3, <2>4, <3>1 DEF BuilderShaped
    <3>2. CASE i = Len(qb.sorts) + 1
      BY <2>4, <3>2
    <3> QED
      BY <2>3, <2>4, <3>1, <3>2
  <2> HIDE DEF s
  <2> QED
    BY <2>2, <2>4, <2>5 DEF BuilderShaped
<1>6. CASE \E n \in 0 .. 2 : LimitTo(n) \/ Offset(n)
  BY <1>6 DEF LimitTo, Offset, Becomes, BuilderShaped
<1>7. CASE \E n \in 0 .. 2 : Becomes(Paged(qb, n, 1))
  <2>1. PICK n \in 0 .. 2 : qb' = Paged(qb, n, 1)
    BY <1>7 DEF Becomes
  <2>2. /\ Paged(qb, n, 1) = [filter |-> qb.filter, proj |-> qb.proj, sorts |-> qb.sorts,
                              limit |-> 1, offset |-> ((IF n < 1 THEN 1 ELSE n) - 1) * 1]
        /\ Paged(qb, n, 1).offset \in Nat
    BY PagedShaped
  <2> QED
    BY <2>1, <2>2 DEF BuilderShaped
<1>8. /\ \A filter : (Where(filter) \/ And(filter) \/ Or(filter)) =>
                       \E f : qb' = [qb EXCEPT !.filter = f]
      /\ \A patch : UpdateMatches(qb.filter, patch, FALSE) => UNCHANGED qb
      /\ DeleteMatches(qb.filter, FALSE) => UNCHANGED qb
  BY DEF Where, And, Or, Becomes, UpdateMatches, DeleteMatches
<1> QED
  BY <1>1, <1>2, <1>3, <1>4, <1>5, <1>6, <1>7, <1>8 DEF Chain

LEMMA BuilderNext == BuilderShaped /\ [QueriesNext]_queryVars => BuilderShaped'
<1> SUFFICES ASSUME BuilderShaped, [QueriesNext]_queryVars PROVE BuilderShaped'
  OBVIOUS
<1>1. CASE Chain
  BY <1>1, ChainKeepsBuilder
<1>2. CASE RunAgain
  BY <1>2, NewShaped DEF RunAgain
<1>3. CASE UNCHANGED qb
  BY <1>3 DEF BuilderShaped
<1>4. CASE Write /\ ~RunAgain
  BY <1>3, <1>4 DEF Write, Insert, UpdateMatches, DeleteMatches, Upsert, AddSchema, Drop
<1> QED
  BY <1>1, <1>2, <1>3, <1>4 DEF QueriesNext, queryVars

(* The documents after each stage of a pipeline.                            *)
LEMMA AggregateFacts ==
    ASSUME NEW found, NEW stages, Len(stages) \in Nat
    PROVE  \E docs : /\ docs[0] = RowValues(found)
                     /\ \A n \in 1..Len(stages) : docs[n] = Stage(docs[n - 1], stages[n])
                     /\ Aggregate(found, stages) = docs[Len(stages)]
<1> DEFINE Nth(f, n) == IF n = 0 THEN RowValues(found) ELSE Stage(f[n - 1], stages[n])
           Runs == {n \in Nat : \E f : f = [k \in 0..n |-> Nth(f, k)]}
<1>1. 0 \in Runs
  <2> DEFINE f == [k \in 0..0 |-> RowValues(found)]
  <2>1. f = [k \in 0..0 |-> Nth(f, k)]
    OBVIOUS
  <2> HIDE DEF f
  <2> QED
    BY <2>1
<1>2. ASSUME NEW n \in Runs PROVE n + 1 \in Runs
  <2>1. PICK f : f = [k \in 0..n |-> Nth(f, k)]
    OBVIOUS
  <2> DEFINE g == [k \in 0..(n + 1) |-> IF k \in 0..n THEN f[k] ELSE Stage(f[n], stages[n + 1])]
  <2>2. ASSUME NEW k \in 0..(n + 1) PROVE g[k] = Nth(g, k)
    <3>1. CASE k = 0
      BY <2>1, <3>1
    <3>2. CASE k \in 1..n
      <4>1. k \in 0..n /\ k - 1 \in 0..n /\ k # 0
        BY <3>2
      <4>2. f[k] = Nth(f, k)
        BY <2>1, <4>1
      <4> QED
        BY <4>1, <4>2
    <3>3. CASE k = n + 1
      BY <3>3
    <3> QED
      BY <3>1, <3>2, <3>3
  <2>3. g = [k \in 0..(n + 1) |-> Nth(g, k)]
    BY <2>2
  <2> HIDE DEF g, Nth
  <2>4. n \in Nat /\ n + 1 \in Nat
    OBVIOUS
  <2> QED
    BY <2>3, <2>4
<1>3. Len(stages) \in Runs
  <2> HIDE DEF Runs
  <2>1. Runs \in SUBSET Nat
    BY DEF Runs
  <2> QED
    BY <1>1, <1>2, <2>1, Induct
<1> DEFINE docs == CHOOSE f : f = [k \in 0..Len(stages) |-> Nth(f, k)]
<1>4. docs = [k \in 0..Len(stages) |-> Nth(docs, k)]
  BY <1>3
<1>5. Aggregate(found, stages) = docs[Len(stages)]
  BY DEF Aggregate
<1> HIDE DEF docs
<1>6. docs[0] = RowValues(found) /\ \A n \in 1..Len(stages) : docs[n] = Stage(docs[n - 1], stages[n])
  BY <1>4
<1> QED
  BY <1>5, <1>6

LEMMA StageFacts ==
    ASSUME NEW docs, NEW x
    PROVE  /\ Stage(docs, [op |-> "$match", filter |-> x]) = Passing(docs, x)
           /\ Stage(docs, [op |-> "$sort", sort |-> x]) = SliceStable(<<x>>, docs)
           /\ Stage(docs, [op |-> "$skip", n |-> x]) = Skip(docs, x)
           /\ Stage(docs, [op |-> "$limit", n |-> x]) = Limit(docs, x)
           /\ Stage(docs, [op |-> "$project", fields |-> x]) = ProjectAll(docs, x)
<1>1. Stage(docs, [op |-> "$match", filter |-> x]) = Passing(docs, x)
  BY DEF Stage
<1>2. Stage(docs, [op |-> "$sort", sort |-> x]) = SliceStable(<<x>>, docs)
  BY DEF Stage
<1>3. Stage(docs, [op |-> "$skip", n |-> x]) = Skip(docs, x)
  BY DEF Stage
<1>4. Stage(docs, [op |-> "$limit", n |-> x]) = Limit(docs, x)
  BY DEF Stage
<1>5. Stage(docs, [op |-> "$project", fields |-> x]) = ProjectAll(docs, x)
  BY DEF Stage
<1> QED
  BY <1>1, <1>2, <1>3, <1>4, <1>5

LEMMA PipelineSame == BuilderShaped => PipelineAgrees
<1> DEFINE match == [op |-> "$match", filter |-> qb.filter]
           sort == [op |-> "$sort", sort |-> qb.sorts[1]]
           skip == [op |-> "$skip", n |-> qb.offset]
           limit == [op |-> "$limit", n |-> qb.limit]
           project == [op |-> "$project", fields |-> qb.proj]
           hits == Passing(RowValues(tableRows), qb.filter)
           number == Len(qb.sorts)
           stages == Pipeline(qb)
<1> SUFFICES ASSUME BuilderShaped, number <= 1
             PROVE  Aggregate(tableRows, stages) = Exec(qb)
  BY DEF PipelineAgrees
<1>1. number \in Nat /\ qb.sorts = [i \in 1..number |-> qb.sorts[i]]
  BY ListFacts DEF BuilderShaped
<1>2. Exec(qb) = ProjectAll(Limit(Skip(SliceStable(qb.sorts, hits), qb.offset), qb.limit), qb.proj)
  BY DEF Exec, ExecQuery, Matched
<1>3. stages = IF qb.sorts = <<>> THEN <<match, skip, limit, project>>
               ELSE <<match, sort, skip, limit, project>>
  BY Zenon DEF Pipeline
<1>4. /\ \A docs : Stage(docs, match) = Passing(docs, qb.filter)
      /\ \A docs : Stage(docs, sort) = SliceStable(<<qb.sorts[1]>>, docs)
      /\ \A docs : Stage(docs, skip) = Skip(docs, qb.offset)
      /\ \A docs : Stage(docs, limit) = Limit(docs, qb.limit)
      /\ \A docs : Stage(docs, project) = ProjectAll(docs, qb.proj)
  BY StageFacts
<1> HIDE DEF match, sort, skip, limit, project, hits, number, stages
<1>5. ASSUME Len(stages) \in Nat
      PROVE  \E docs : /\ docs[0] = RowValues(tableRows)
                       /\ \A n \in 1..Len(stages) : docs[n] = Stage(docs[n - 1], stages[n])
                       /\ Aggregate(tableRows, stages) = docs[Len(stages)]
  BY <1>5, AggregateFacts
<1>6. CASE number = 0
  <2>1. qb.sorts = <<>>
    BY <1>1, <1>6
  <2>2. /\ Len(stages) = 4
        /\ stages[1] = match /\ stages[2] = skip /\ stages[3] = limit /\ stages[4] = project
    BY <1>3, <2>1
  <2>3. PICK docs : /\ docs[0] = RowValues(tableRows)
                    /\ \A n \in 1..4 : docs[n] = Stage(docs[n - 1], stages[n])
                    /\ Aggregate(tableRows, stages) = docs[4]
    BY <1>5, <2>2
  <2>4. /\ docs[1] = Stage(docs[0], match) /\ docs[2] = Stage(docs[1], skip)
        /\ docs[3] = Stage(docs[2], limit) /\ docs[4] = Stage(docs[3], project)
    BY <2>2, <2>3
  <2>5. docs[1] = hits
    BY <1>4, <2>3, <2>4 DEF hits
  <2>6. docs[4] = ProjectAll(Limit(Skip(docs[1], qb.offset), qb.limit), qb.proj)
    BY <1>4, <2>4
  <2>7. SliceStable(qb.sorts, hits) = hits
    BY <2>1 DEF SliceStable
  <2> QED
    BY <1>2, <2>3, <2>5, <2>6, <2>7
<1>7. CASE number = 1
  <2>1. qb.sorts = <<qb.sorts[1]>> /\ qb.sorts # <<>>
    BY <1>1, <1>7
  <2>2. /\ Len(stages) = 5
        /\ stages[1] = match /\ stages[2] = sort /\ stages[3] = skip
        /\ stages[4] = limit /\ stages[5] = project
    BY <1>3, <2>1
  <2>3. PICK docs : /\ docs[0] = RowValues(tableRows)
                    /\ \A n \in 1..5 : docs[n] = Stage(docs[n - 1], stages[n])
                    /\ Aggregate(tableRows, stages) = docs[5]
    BY <1>5, <2>2
  <2>4. /\ docs[1] = Stage(docs[0], match) /\ docs[2] = Stage(docs[1], sort)
        /\ docs[3] = Stage(docs[2], skip) /\ docs[4] = Stage(docs[3], limit)
        /\ docs[5] = Stage(docs[4], project)
    BY <2>2, <2>3
  <2>5. docs[1] = hits
    BY <1>4, <2>3, <2>4 DEF hits
  <2>6. docs[2] = SliceStable(qb.sorts, hits)
    BY <1>4, <2>1, <2>4, <2>5
  <2>7. docs[5] = ProjectAll(Limit(Skip(docs[2], qb.offset), qb.limit), qb.proj)
    BY <1>4, <2>4
  <2> QED
    BY <1>2, <2>3, <2>6, <2>7
<1>8. number = 0 \/ number = 1
  BY <1>1
<1> QED
  BY <1>6, <1>7, <1>8

(* The pipeline and find are written twice in the code. Whatever is in the  *)
(* table and however the builder was chained, the pipeline of its stages    *)
(* returns what the builder does, if it sorts by one field at most.         *)
THEOREM PipelineAsFind == QueriesSpec => []PipelineAgrees
<1>1. QueriesInit => BuilderShaped
  BY NoList DEF QueriesInit, NewQb, BuilderShaped
<1>2. BuilderShaped /\ [QueriesNext]_queryVars => BuilderShaped'
  BY BuilderNext
<1> QED
  BY <1>1, <1>2, PipelineSame, PTL DEF QueriesSpec

-----------------------------------------------------------------------------
(* Sorting. A value has a place in the order if it is a number other than   *)
(* NaN, or a text of the collation.                                         *)
Placed(v) ==
    /\ v = [tag |-> v.tag, text |-> v.text, nums |-> v.nums, items |-> v.items]
    /\ IF v.tag = "number" THEN \E n \in Int : v.nums = {n}
       ELSE \E i \in DOMAIN Collation : Collation[i] = v.text
KeyOf(v) == IF v.tag = "number" THEN CHOOSE n \in Int : v.nums = {n} ELSE Rank(v.text)

LEMMA KeyFacts ==
    ASSUME NEW v, Placed(v)
    PROVE  KeyOf(v) \in Int /\ (v.tag = "number" => v.nums = {KeyOf(v)})
<1>1. CASE v.tag = "number"
  BY <1>1 DEF Placed, KeyOf
<1>2. CASE v.tag # "number"
  <2>1. \E i \in DOMAIN Collation : Collation[i] = v.text
    BY <1>2 DEF Placed
  <2>2. Rank(v.text) \in DOMAIN Collation
    BY <2>1 DEF Rank
  <2>3. DOMAIN Collation \subseteq Int
    BY CollationAssumption, ListFacts
  <2> QED
    BY <1>2, <2>2, <2>3 DEF KeyOf
<1> QED
  BY <1>1, <1>2

LEMMA PrecedesKeys ==
    ASSUME NEW v, NEW w, Placed(v), Placed(w), v.tag = w.tag
    PROVE  Precedes(v, w) <=> KeyOf(v) < KeyOf(w)
<1>1. KeyOf(v) \in Int /\ KeyOf(w) \in Int
  BY KeyFacts
<1>2. CASE v.tag = "number"
  <2>1. v.nums = {KeyOf(v)} /\ w.nums = {KeyOf(w)}
    BY <1>2, KeyFacts
  <2>2. Less({KeyOf(v)}, {KeyOf(w)}) <=> KeyOf(v) < KeyOf(w)
    BY DEF Less
  <2> QED
    BY <1>2, <2>1, <2>2 DEF Precedes
<1>3. CASE v.tag # "number"
  BY <1>3 DEF Precedes, KeyOf
<1> QED
  BY <1>2, <1>3

(* The documents of D compare in the fields of sorts.                       *)
Compare(sorts, D) ==
    \A i \in DOMAIN sorts :
        /\ \A d \in D : Placed(FieldOf(d, sorts[i].field))
        /\ \A d, e \in D : FieldOf(d, sorts[i].field).tag = FieldOf(e, sorts[i].field).tag

(* Before is then the order of lists of numbers, the first difference       *)
(* deciding: a strict order in which ties are an equivalence.               *)
Spot(s, d) == IF s.desc THEN -KeyOf(FieldOf(d, s.field)) ELSE KeyOf(FieldOf(d, s.field))
Tied(sorts, i, d, e) == \A j \in 1..(i - 1) : Spot(sorts[j], d) = Spot(sorts[j], e)

LEMMA BeforeKeys ==
    ASSUME NEW sorts, IsList(sorts), NEW D, Compare(sorts, D), NEW d \in D, NEW e \in D
    PROVE  /\ \A i \in DOMAIN sorts : Spot(sorts[i], d) \in Int /\ Spot(sorts[i], e) \in Int
           /\ Before(sorts, d, e) <=>
                \E i \in DOMAIN sorts :
                    Spot(sorts[i], d) < Spot(sorts[i], e) /\ Tied(sorts, i, d, e)
<1> DEFINE n == Len(sorts)
<1>1. n \in Nat /\ DOMAIN sorts = 1..n
  BY ListFacts
<1> HIDE DEF n
<1> DEFINE v(i) == FieldOf(d, sorts[i].field)
           w(i) == FieldOf(e, sorts[i].field)
<1>2. ASSUME NEW i \in 1..n
      PROVE  /\ KeyOf(v(i)) \in Int /\ KeyOf(w(i)) \in Int
             /\ Precedes(v(i), w(i)) <=> KeyOf(v(i)) < KeyOf(w(i))
             /\ Precedes(w(i), v(i)) <=> KeyOf(w(i)) < KeyOf(v(i))
  <2>1. Placed(v(i)) /\ Placed(w(i)) /\ v(i).tag = w(i).tag
    BY <1>1 DEF Compare
  <2> HIDE DEF v, w
  <2> QED
    BY <2>1, KeyFacts, PrecedesKeys
<1> DEFINE a(i) == Spot(sorts[i], d)
           b(i) == Spot(sorts[i], e)
<1>3. ASSUME NEW i \in 1..n
      PROVE  /\ a(i) \in Int /\ b(i) \in Int
             /\ (IF sorts[i].desc THEN Precedes(w(i), v(i)) ELSE Precedes(v(i), w(i))) <=> a(i) < b(i)
             /\ (~Precedes(v(i), w(i)) /\ ~Precedes(w(i), v(i))) <=> a(i) = b(i)
  <2>1. /\ KeyOf(v(i)) \in Int /\ KeyOf(w(i)) \in Int
        /\ Precedes(v(i), w(i)) <=> KeyOf(v(i)) < KeyOf(w(i))
        /\ Precedes(w(i), v(i)) <=> KeyOf(w(i)) < KeyOf(v(i))
    BY <1>2
  <2>2. /\ a(i) = (IF sorts[i].desc THEN -KeyOf(v(i)) ELSE KeyOf(v(i)))
        /\ b(i) = (IF sorts[i].desc THEN -KeyOf(w(i)) ELSE KeyOf(w(i)))
    BY DEF Spot
  <2> HIDE DEF a, b, v, w
  <2> DEFINE x == KeyOf(v(i))
             y == KeyOf(w(i))
  <2> HIDE DEF x, y
  <2> QED
    BY <2>1, <2>2 DEF x, y
<1>4. Before(sorts, d, e) <=>
        \E i \in 1..n :
            /\ IF sorts[i].desc THEN Precedes(w(i), v(i)) ELSE Precedes(v(i), w(i))
            /\ \A j \in 1..(i - 1) : ~Precedes(v(j), w(j)) /\ ~Precedes(w(j), v(j))
  BY <1>1 DEF Before
<1>5. \A i \in 1..n : \A j \in 1..(i - 1) : j \in 1..n
  BY <1>1
<1> HIDE DEF v, w
<1>6. Before(sorts, d, e) <=>
        \E i \in 1..n : a(i) < b(i) /\ \A j \in 1..(i - 1) : a(j) = b(j)
  BY <1>3, <1>4, <1>5
<1> QED
  BY <1>1, <1>3, <1>6 DEF Tied

Strict(sorts, D) ==
    /\ \A d, e \in D : Before(sorts, d, e) => ~Before(sorts, e, d)
    /\ \A c, d, e \in D : ~Before(sorts, d, c) /\ ~Before(sorts, e, d) => ~Before(sorts, e, c)

LEMMA CompareStrict ==
    ASSUME NEW sorts, IsList(sorts), NEW D, Compare(sorts, D)
    PROVE  Strict(sorts, D)
<1> DEFINE n == Len(sorts)
           a(i, d) == Spot(sorts[i], d)
<1>1. n \in Nat /\ DOMAIN sorts = 1..n
  BY ListFacts
<1> HIDE DEF n
<1>2. \A d \in D : \A i \in 1..n : a(i, d) \in Int
  BY <1>1, BeforeKeys
<1>3. \A d, e \in D : Before(sorts, d, e) <=>
        \E i \in 1..n : a(i, d) < a(i, e) /\ \A j \in 1..(i - 1) : a(j, d) = a(j, e)
  BY <1>1, BeforeKeys DEF Tied
<1> HIDE DEF a
<1>4. ASSUME NEW d \in D, NEW e \in D, Before(sorts, d, e), Before(sorts, e, d)
      PROVE  FALSE
  <2>1. PICK i \in 1..n : a(i, d) < a(i, e) /\ \A j \in 1..(i - 1) : a(j, d) = a(j, e)
    BY <1>3, <1>4
  <2>2. PICK k \in 1..n : a(k, e) < a(k, d) /\ \A j \in 1..(k - 1) : a(j, e) = a(j, d)
    BY <1>3, <1>4
  <2>3. i \in Int /\ k \in Int
    BY <1>1
  <2>4. CASE i < k
    BY <1>2, <2>1, <2>2, <2>3, <2>4
  <2>5. CASE k < i
    BY <1>2, <2>1, <2>2, <2>3, <2>5
  <2>6. CASE i = k
    BY <1>2, <2>1, <2>2, <2>6
  <2> QED
    BY <2>3, <2>4, <2>5, <2>6
<1>5. ASSUME NEW c \in D, NEW d \in D, NEW e \in D,
             ~Before(sorts, d, c), ~Before(sorts, e, d), Before(sorts, e, c)
      PROVE  FALSE
  <2>1. PICK i \in 1..n : a(i, e) < a(i, c) /\ \A j \in 1..(i - 1) : a(j, e) = a(j, c)
    BY <1>3, <1>5
  <2> DEFINE M == {k \in 1..n : a(k, c) # a(k, d) \/ a(k, d) # a(k, e)}
  <2>2. i \in M /\ M \in SUBSET Int /\ IsFiniteSet(M)
    <3>1. IsFiniteSet(1..n) /\ M \in SUBSET (1..n)
      BY <1>1, FS_Interval
    <3>2. IsFiniteSet(M)
      BY <3>1, FS_Subset
    <3>3. i \in M
      BY <1>2, <2>1
    <3> QED
      BY <1>1, <3>1, <3>2, <3>3
  <2> HIDE DEF M
  <2>3. PICK m \in M : \A k \in M : m <= k
    BY <2>2, LeastOf
  <2>4. /\ m \in 1..n /\ m <= i
        /\ \A j \in 1..(m - 1) : a(j, c) = a(j, d) /\ a(j, d) = a(j, e)
    <3>1. m \in 1..n /\ m <= i
      BY <2>2, <2>3 DEF M
    <3>2. ASSUME NEW j \in 1..(m - 1)
          PROVE  a(j, c) = a(j, d) /\ a(j, d) = a(j, e)
      <4>1. j \in 1..n /\ ~(m <= j)
        BY <1>1, <3>1
      <4> QED
        BY <2>3, <4>1 DEF M
    <3> QED
      BY <3>1, <3>2
  <2>5. ~(a(m, d) < a(m, c)) /\ ~(a(m, e) < a(m, d))
    BY <1>3, <1>5, <2>4
  <2>6. a(m, c) \in Int /\ a(m, d) \in Int /\ a(m, e) \in Int
    BY <1>2, <2>4
  <2>7. a(m, c) # a(m, d) \/ a(m, d) # a(m, e)
    BY <2>3 DEF M
  <2>8. a(m, c) < a(m, e)
    BY <2>5, <2>6, <2>7
  <2>9. CASE m = i
    BY <1>2, <2>1, <2>6, <2>8, <2>9
  <2>10. CASE m < i
    <3>1. m \in 1..(i - 1)
      BY <1>1, <2>4, <2>10
    <3> QED
      BY <2>1, <2>6, <2>8, <3>1
  <2> QED
    BY <1>1, <2>4, <2>9, <2>10
<1> QED
  BY <1>4, <1>5 DEF Strict

-----------------------------------------------------------------------------
-----------------------------------------------------------------------------
(* sort.SliceStable. SortedBy says that s has what docs has at the places   *)
(* p, and is in order, what ties being in the order of docs.                *)
SortedBy(sorts, D, docs, s, p) ==
    /\ IsList(s) /\ p \in [1..Len(s) -> 1..Len(s)]
    /\ \A i \in 1..Len(s) : s[i] = docs[p[i]]
    /\ Strict(sorts, D) =>
         \A i, j \in 1..Len(s) : i < j =>
             ~Before(sorts, s[j], s[i]) /\ (~Before(sorts, s[i], s[j]) => p[i] < p[j])

LEMMA InsertionSorts ==
    ASSUME NEW sorts, NEW D, NEW docs \in Seq(D), NEW s, NEW p, SortedBy(sorts, D, docs, s, p),
           Len(s) + 1 \in 1..Len(docs)
    PROVE  LET t == Insertion(sorts, s, docs[Len(s) + 1])
           IN  Len(t) = Len(s) + 1 /\ \E q : SortedBy(sorts, D, docs, t, q)
<1> DEFINE n == Len(s)
           x == docs[n + 1]
           K == {k \in DOMAIN s : ~Before(sorts, x, s[k])}
           m == IF K = {} THEN 0 ELSE Max(K)
           t == Insertion(sorts, s, x)
           q == [i \in 1..(n + 1) |-> IF i <= m THEN p[i] ELSE IF i = m + 1 THEN n + 1 ELSE p[i - 1]]
<1>1. n \in Nat /\ IsList(s) /\ DOMAIN s = 1..n
  BY ListFacts DEF SortedBy
<1>2. x \in D /\ n + 1 \in 1..Len(docs)
  BY ElementOfSeq
<1>3. p \in [1..n -> 1..n] /\ \A i \in 1..n : s[i] = docs[p[i]] /\ s[i] \in D
  <2>1. \A i \in 1..n : p[i] \in 1..n
    BY DEF SortedBy
  <2>2. \A i \in 1..n : p[i] \in 1..Len(docs)
    BY <1>1, <1>2, <2>1
  <2> QED
    BY <2>2, ElementOfSeq DEF SortedBy
<1>4. m \in 0..n /\ (m = 0 \/ m \in K) /\ \A k \in K : k <= m
  <2>1. K \in SUBSET (1..n)
    BY <1>1
  <2> HIDE DEF K
  <2> QED
    BY <1>1, <2>1, LastPlace, Zenon
<1>5. t = InsertAt(s, m + 1, x)
  BY DEF Insertion
<1> HIDE DEF m, t, x
<1>6. /\ IsList(t) /\ Len(t) = n + 1
      /\ \A i \in 1..m : t[i] = s[i]
      /\ t[m + 1] = x
      /\ \A i \in (m + 2)..(n + 1) : t[i] = s[i - 1]
  BY <1>1, <1>4, <1>5, InsertAtFacts
<1>7. q \in [1..(n + 1) -> 1..(n + 1)]
  <2> SUFFICES ASSUME NEW i \in 1..(n + 1)
               PROVE  (IF i <= m THEN p[i] ELSE IF i = m + 1 THEN n + 1 ELSE p[i - 1]) \in 1..(n + 1)
    OBVIOUS
  <2>1. CASE i <= m
    <3>1. i \in 1..n
      BY <1>1, <1>4, <2>1
    <3> QED
      BY <1>1, <1>3, <2>1, <3>1
  <2>2. CASE i = m + 1
    BY <1>1, <1>4, <2>2
  <2>3. CASE i > m + 1
    <3>1. i - 1 \in 1..n /\ ~(i <= m) /\ i # m + 1
      BY <1>1, <1>4, <2>3
    <3>2. p[i - 1] \in 1..n
      BY <1>3, <3>1
    <3>3. \A k \in 1..n : k \in 1..(n + 1)
      BY <1>1
    <3> QED
      BY <3>1, <3>2, <3>3
  <2> QED
    BY <1>1, <1>4, <2>1, <2>2, <2>3
<1>8. /\ \A i \in 1..m : i \in 1..n /\ i \in 1..(n + 1) /\ q[i] = p[i]
      /\ m + 1 \in 1..(n + 1) /\ q[m + 1] = n + 1
      /\ \A i \in (m + 2)..(n + 1) : i - 1 \in 1..n /\ i \in 1..(n + 1) /\ q[i] = p[i - 1]
      /\ \A i \in 1..(n + 1) : i \in 1..m \/ i = m + 1 \/ i \in (m + 2)..(n + 1)
  <2>1. \A i \in 1..(n + 1) : q[i] = IF i <= m THEN p[i] ELSE IF i = m + 1 THEN n + 1 ELSE p[i - 1]
    OBVIOUS
  <2>2. /\ m + 1 \in 1..(n + 1)
        /\ \A i \in 1..(n + 1) : i \in 1..m \/ i = m + 1 \/ i \in (m + 2)..(n + 1)
    BY <1>1, <1>4
  <2>3. \A i \in 1..m : i \in 1..n /\ i \in 1..(n + 1) /\ i <= m
    BY <1>1, <1>4
  <2>4. \A i \in (m + 2)..(n + 1) : i - 1 \in 1..n /\ i \in 1..(n + 1) /\ ~(i <= m) /\ i # m + 1
    BY <1>1, <1>4
  <2>5. ~(m + 1 <= m)
    BY <1>4
  <2> HIDE DEF q
  <2> QED
    BY <2>1, <2>2, <2>3, <2>4, <2>5
<1> HIDE DEF q
<1>9. ASSUME NEW i \in 1..(n + 1) PROVE t[i] = docs[q[i]]
  BY <1>3, <1>6, <1>8, SMTT(30) DEF x
<1>10. ASSUME Strict(sorts, D), NEW i \in 1..(n + 1), NEW j \in 1..(n + 1), i < j
       PROVE  ~Before(sorts, t[j], t[i]) /\ (~Before(sorts, t[i], t[j]) => q[i] < q[j])
  <2>1. ASSUME NEW k \in 1..n, NEW l \in 1..n, k < l
        PROVE  ~Before(sorts, s[l], s[k]) /\ (~Before(sorts, s[k], s[l]) => p[k] < p[l])
    BY <1>10, <2>1 DEF SortedBy
  <2>2. CASE i \in 1..m /\ j \in 1..m
    BY <1>6, <1>8, <1>10, <2>1, <2>2
  <2>3. CASE i \in 1..m /\ j = m + 1
    <3>1. m \in K /\ m \in 1..n
      BY <1>1, <1>4, <2>3
    <3>2. ~Before(sorts, x, s[m])
      BY <3>1
    <3>3. ~Before(sorts, x, s[i])
      <4>1. CASE i = m
        BY <3>2, <4>1
      <4>2. CASE i < m
        <5>1. ~Before(sorts, s[m], s[i])
          BY <1>8, <2>1, <2>3, <3>1, <4>2
        <5>2. s[i] \in D /\ s[m] \in D
          BY <1>3, <1>8, <2>3, <3>1
        <5> QED
          BY <1>2, <1>10, <3>2, <5>1, <5>2 DEF Strict
      <4> QED
        BY <1>4, <2>3, <4>1, <4>2
    <3>4. q[i] < q[j]
      <4>1. p[i] \in 1..n
        BY <1>3, <1>8, <2>3
      <4> QED
        BY <1>1, <1>8, <2>3, <4>1
    <3> QED
      BY <1>6, <2>3, <3>3, <3>4
  <2>4. CASE i \in 1..m /\ j \in (m + 2)..(n + 1)
    <3>1. i \in 1..n /\ j - 1 \in 1..n /\ i < j - 1
      BY <1>1, <1>4, <1>8, <2>4
    <3>2. ~Before(sorts, s[j - 1], s[i]) /\ (~Before(sorts, s[i], s[j - 1]) => p[i] < p[j - 1])
      BY <2>1, <3>1
    <3> QED
      BY <1>6, <1>8, <2>4, <3>2
  <2>5. CASE i = m + 1 /\ j \in (m + 2)..(n + 1)
    <3>1. j - 1 \in 1..n /\ ~(j - 1 <= m)
      BY <1>1, <1>4, <1>8, <2>5
    <3>2. Before(sorts, x, s[j - 1])
      BY <1>1, <1>4, <3>1
    <3>3. ~Before(sorts, s[j - 1], x)
      BY <1>2, <1>3, <1>10, <3>1, <3>2 DEF Strict
    <3> QED
      BY <1>6, <2>5, <3>2, <3>3
  <2>6. CASE i \in (m + 2)..(n + 1) /\ j \in (m + 2)..(n + 1)
    <3>1. i - 1 \in 1..n /\ j - 1 \in 1..n /\ i - 1 < j - 1
      BY <1>1, <1>4, <1>8, <1>10, <2>6
    <3>2. /\ ~Before(sorts, s[j - 1], s[i - 1])
          /\ ~Before(sorts, s[i - 1], s[j - 1]) => p[i - 1] < p[j - 1]
      BY <2>1, <3>1
    <3> QED
      BY <1>6, <1>8, <2>6, <3>2
  <2>7. \/ i \in 1..m /\ j \in 1..m
        \/ i \in 1..m /\ j = m + 1
        \/ i \in 1..m /\ j \in (m + 2)..(n + 1)
        \/ i = m + 1 /\ j \in (m + 2)..(n + 1)
        \/ i \in (m + 2)..(n + 1) /\ j \in (m + 2)..(n + 1)
    BY <1>1, <1>4, <1>10
  <2> QED
    BY <2>2, <2>3, <2>4, <2>5, <2>6, <2>7
<1>11. SortedBy(sorts, D, docs, t, q)
  BY <1>6, <1>7, <1>9, <1>10 DEF SortedBy
<1> QED
  BY <1>6, <1>11 DEF t, x

(* The list after each document.                                            *)
LEMMA SortingFacts ==
    ASSUME NEW sorts, NEW docs, Len(docs) \in Nat, sorts # <<>>
    PROVE  \E l : /\ l[0] = <<>>
                  /\ \A n \in 1..Len(docs) : l[n] = Insertion(sorts, l[n - 1], docs[n])
                  /\ SliceStable(sorts, docs) = l[Len(docs)]
<1> DEFINE Nth(f, n) == IF n = 0 THEN <<>> ELSE Insertion(sorts, f[n - 1], docs[n])
           Sorts == {n \in Nat : \E f : f = [k \in 0..n |-> Nth(f, k)]}
<1>1. 0 \in Sorts
  <2> DEFINE f == [k \in 0..0 |-> <<>>]
  <2>1. f = [k \in 0..0 |-> Nth(f, k)]
    OBVIOUS
  <2> HIDE DEF f
  <2> QED
    BY <2>1
<1>2. ASSUME NEW n \in Sorts PROVE n + 1 \in Sorts
  <2>1. PICK f : f = [k \in 0..n |-> Nth(f, k)]
    OBVIOUS
  <2> DEFINE g == [k \in 0..(n + 1) |-> IF k \in 0..n THEN f[k] ELSE Insertion(sorts, f[n], docs[n + 1])]
  <2>2. ASSUME NEW k \in 0..(n + 1) PROVE g[k] = Nth(g, k)
    <3>1. CASE k = 0
      BY <2>1, <3>1
    <3>2. CASE k \in 1..n
      <4>1. k \in 0..n /\ k - 1 \in 0..n /\ k # 0
        BY <3>2
      <4>2. f[k] = Nth(f, k)
        BY <2>1, <4>1
      <4> QED
        BY <4>1, <4>2
    <3>3. CASE k = n + 1
      BY <3>3
    <3> QED
      BY <3>1, <3>2, <3>3
  <2>3. g = [k \in 0..(n + 1) |-> Nth(g, k)]
    BY <2>2
  <2> HIDE DEF g, Nth
  <2>4. n \in Nat /\ n + 1 \in Nat
    OBVIOUS
  <2> QED
    BY <2>3, <2>4
<1>3. Len(docs) \in Sorts
  <2> HIDE DEF Sorts
  <2>1. Sorts \in SUBSET Nat
    BY DEF Sorts
  <2> QED
    BY <1>1, <1>2, <2>1, Induct
<1> DEFINE l == CHOOSE f : f = [k \in 0..Len(docs) |-> Nth(f, k)]
<1>4. l = [k \in 0..Len(docs) |-> Nth(l, k)]
  BY <1>3
<1>5. SliceStable(sorts, docs) = l[Len(docs)]
  BY DEF SliceStable
<1> HIDE DEF l
<1>6. l[0] = <<>> /\ \A n \in 1..Len(docs) : l[n] = Insertion(sorts, l[n - 1], docs[n])
  BY <1>4
<1> QED
  BY <1>5, <1>6

LEMMA SliceStableSorts ==
    ASSUME NEW sorts, NEW D, NEW docs \in Seq(D)
    PROVE  LET s == SliceStable(sorts, docs)
           IN  Len(s) = Len(docs) /\ \E p : SortedBy(sorts, D, docs, s, p)
<1> DEFINE n == Len(docs)
<1>1. n \in Nat /\ docs \in [1..n -> D]
  BY LenProperties
<1>2. CASE sorts = <<>>
  <2> DEFINE p == [i \in 1..n |-> i]
  <2>1. SliceStable(sorts, docs) = docs
    BY <1>2 DEF SliceStable
  <2>2. IsList(docs)
    BY ListSeq
  <2>3. p \in [1..n -> 1..n] /\ \A i \in 1..n : p[i] = i
    OBVIOUS
  <2>4. \A d, e : ~Before(sorts, d, e)
    BY <1>2, NoList DEF Before
  <2> HIDE DEF p
  <2>5. SortedBy(sorts, D, docs, docs, p)
    BY <2>2, <2>3, <2>4 DEF SortedBy
  <2> QED
    BY <2>1, <2>5
<1>3. CASE sorts # <<>>
  <2>1. PICK l : /\ l[0] = <<>>
                 /\ \A k \in 1..n : l[k] = Insertion(sorts, l[k - 1], docs[k])
                 /\ SliceStable(sorts, docs) = l[n]
    BY <1>1, <1>3, SortingFacts
  <2> DEFINE S == {k \in Nat : k <= n => Len(l[k]) = k /\ \E p : SortedBy(sorts, D, docs, l[k], p)}
  <2> HIDE DEF n
  <2>2. 0 \in S
    <3> DEFINE p == [i \in 1..0 |-> i]
    <3>1. p \in [1..0 -> 1..0]
      OBVIOUS
    <3>2. IsList(l[0]) /\ Len(l[0]) = 0
      BY <2>1, NoList
    <3> HIDE DEF p
    <3>3. SortedBy(sorts, D, docs, l[0], p)
      BY <3>1, <3>2 DEF SortedBy
    <3> QED
      BY <3>2, <3>3
  <2>3. ASSUME NEW k \in S PROVE k + 1 \in S
    <3>1. k \in Nat /\ k + 1 \in Nat
      OBVIOUS
    <3>2. CASE k + 1 <= n
      <4>1. Len(l[k]) = k /\ \E p : SortedBy(sorts, D, docs, l[k], p)
        BY <1>1, <3>1, <3>2
      <4>2. PICK p : SortedBy(sorts, D, docs, l[k], p)
        BY <4>1
      <4>3. k + 1 \in 1..n /\ (k + 1) - 1 = k
        BY <1>1, <3>1, <3>2
      <4>4. l[k + 1] = Insertion(sorts, l[k], docs[k + 1])
        <5>1. l[k + 1] = Insertion(sorts, l[(k + 1) - 1], docs[k + 1])
          BY <2>1, <4>3
        <5> QED
          BY <4>3, <5>1
      <4> DEFINE s == l[k]
      <4>5. Len(s) + 1 \in 1..Len(docs) /\ SortedBy(sorts, D, docs, s, p)
        BY <4>1, <4>2, <4>3 DEF n
      <4> HIDE DEF s
      <4>6. /\ Len(Insertion(sorts, s, docs[Len(s) + 1])) = Len(s) + 1
            /\ \E q : SortedBy(sorts, D, docs, Insertion(sorts, s, docs[Len(s) + 1]), q)
        BY <4>5, InsertionSorts
      <4>7. Len(l[k + 1]) = k + 1 /\ \E q : SortedBy(sorts, D, docs, l[k + 1], q)
        BY <4>1, <4>4, <4>6, Zenon DEF s
      <4> QED
        BY <3>1, <4>7
    <3> QED
      BY <3>1, <3>2
  <2>4. S \in SUBSET Nat
    OBVIOUS
  <2> HIDE DEF S
  <2>5. n \in S
    BY <1>1, <2>2, <2>3, <2>4, Induct
  <2>6. Len(l[n]) = n /\ \E p : SortedBy(sorts, D, docs, l[n], p)
    BY <1>1, <2>5 DEF S
  <2> QED
    BY <2>1, <2>6 DEF n
<1> QED
  BY <1>2, <1>3

-----------------------------------------------------------------------------
(* What offset and limit leave of a list. *)
LEMMA WindowFacts ==
    ASSUME NEW s, IsList(s), NEW off \in Nat, NEW lim \in Nat
    PROVE  LET w == Limit(Skip(s, off), lim)
           IN  /\ IsList(w) /\ Len(w) \in Nat
               /\ Len(w) = IF off >= Len(s) THEN 0
                           ELSE IF lim > 0 /\ lim < Len(s) - off THEN lim ELSE Len(s) - off
               /\ \A k \in 1..Len(w) : w[k] = s[off + k]
<1> DEFINE n == Len(s)
           u == Skip(s, off)
           w == Limit(u, lim)
<1>1. n \in Nat /\ DOMAIN s = 1..n
  BY ListFacts
<1>2. /\ IsList(u) /\ Len(u) = IF off >= n THEN 0 ELSE n - off
      /\ \A k \in 1..Len(u) : u[k] = s[off + k]
  <2>1. CASE off = 0
    <3>1. u = s
      BY <2>1 DEF Skip
    <3> HIDE DEF u
    <3>2. \A k \in 1..n : off + k = k
      BY <1>1, <2>1
    <3> QED
      BY <1>1, <2>1, <3>1, <3>2 DEF n
  <2>2. CASE off > 0
    <3>1. u = SubSeq(s, off + 1, n)
      BY <2>2 DEF Skip
    <3> HIDE DEF u
    <3>2. /\ IsList(u) /\ Len(u) = IF off < n THEN n - off ELSE 0
          /\ \A k \in 1..Len(u) : u[k] = s[off + k]
      BY <1>1, <3>1, ListPart, SMTT(30)
    <3> HIDE DEF n
    <3> QED
      BY <1>1, <3>2
  <2> QED
    BY <2>1, <2>2
<1> HIDE DEF u, n
<1> DEFINE m == Len(u)
<1>3. m \in Nat
  BY <1>1, <1>2
<1> HIDE DEF m
<1>4. /\ IsList(w) /\ Len(w) = IF lim > 0 /\ lim < m THEN lim ELSE m
      /\ \A k \in 1..Len(w) : k \in 1..m /\ w[k] = u[k]
  <2>1. CASE lim > 0 /\ lim < m
    <3> DEFINE zero == 0
               v == SubSeq(u, zero + 1, lim)
    <3>1. zero \in Nat /\ zero + 1 = 1 /\ zero < lim /\ lim - zero = lim /\ lim <= Len(u)
      BY <1>3, <2>1 DEF m
    <3>2. \A k \in Nat : zero + k = k
      OBVIOUS
    <3> HIDE DEF zero
    <3>3. w = v
      BY <2>1, <3>1 DEF Limit, m
    <3>4. /\ IsList(v) /\ Len(v) = IF zero < lim THEN lim - zero ELSE 0
          /\ \A k \in 1..Len(v) : v[k] = u[zero + k]
      <4>1. IsList(u) /\ zero \in Nat /\ lim \in Nat /\ lim <= Len(u)
        BY <1>2, <3>1
      <4> HIDE DEF zero
      <4> QED
        BY <4>1, ListPart, ZenonT(60)
    <3> HIDE DEF w, v
    <3>5. Len(w) = lim
      BY <3>1, <3>3, <3>4
    <3>6. lim \in Nat /\ lim <= m
      BY <1>3, <2>1
    <3>7. \A k \in 1..lim : k \in Nat /\ k \in 1..m
      BY <1>3, <3>6
    <3> QED
      BY <2>1, <3>2, <3>3, <3>4, <3>5, <3>7
  <2>2. CASE ~(lim > 0 /\ lim < m)
    <3>1. w = u
      BY <2>2 DEF Limit, m
    <3> QED
      BY <1>2, <1>3, <2>2, <3>1 DEF m
  <2> QED
    BY <2>1, <2>2
<1> HIDE DEF w
<1>5. Len(w) = IF off >= n THEN 0 ELSE IF lim > 0 /\ lim < n - off THEN lim ELSE n - off
  BY <1>1, <1>2, <1>3, <1>4 DEF m
<1>6. \A k \in 1..Len(w) : w[k] = s[off + k]
  BY <1>2, <1>4 DEF m
<1>7. Len(w) \in Nat
  BY <1>1, <1>5
<1> QED
  BY <1>4, <1>5, <1>6, <1>7 DEF w, u, n

LEMMA ProjectedFacts ==
    ASSUME NEW s, IsList(s), NEW fields
    PROVE  LET t == ProjectAll(s, fields)
           IN  /\ IsList(t) /\ Len(t) = Len(s)
               /\ \A i \in 1..Len(s) : t[i] = Project(s[i], fields)
               /\ fields = {} => t = s
<1> DEFINE t == ProjectAll(s, fields)
<1>1. Len(s) \in Nat /\ DOMAIN s = 1..Len(s) /\ s = [i \in 1..Len(s) |-> s[i]]
  BY ListFacts
<1>2. t = [i \in 1..Len(s) |-> Project(s[i], fields)]
  BY <1>1 DEF ProjectAll
<1> HIDE DEF t
<1>3. \A i \in 1..Len(s) : t[i] = Project(s[i], fields)
  BY <1>2
<1>4. IsList(t) /\ Len(t) = Len(s)
  <2>1. t = [i \in 1..Len(s) |-> t[i]]
    BY <1>2
  <2> QED
    BY <1>1, <2>1, ListOf
<1>5. fields = {} => t = s
  BY <1>1, <1>2 DEF Project
<1> QED
  BY <1>3, <1>4, <1>5 DEF t

(* A page of a list is the part of it between two places, and the pages one *)
(* after the other are the list, when there are as many as it has elements. *)
LEMMA PagesJoin ==
    ASSUME NEW s, IsList(s), NEW fields, NEW size \in 1..2, NEW n \in Nat, Len(s) <= n
    PROVE  FlattenSeq([i \in 1..n |-> ProjectAll(Limit(Skip(s, (i - 1) * size), size), fields)])
             = ProjectAll(s, fields)
<1> DEFINE whole == ProjectAll(s, fields)
           m == Len(s)
           Page(i) == ProjectAll(Limit(Skip(s, (i - 1) * size), size), fields)
           parts == [i \in 1..n |-> Page(i)]
           Cut(b) == IF b <= m THEN b ELSE m
           g == [i \in 1..n |-> SubSeq(whole, 1, Cut(i * size))]
<1>1. /\ m \in Nat /\ IsList(whole) /\ Len(whole) = m
      /\ \A i \in 1..m : whole[i] = Project(s[i], fields)
  BY ListFacts, ProjectedFacts
<1>2. (size = 1 \/ size = 2) /\ size \in Nat
  OBVIOUS
<1> HIDE DEF m, whole
<1>3. ASSUME NEW i \in 1..n
      PROVE  /\ (i - 1) * size \in Nat /\ i * size \in Nat
             /\ i * size = (i - 1) * size + size
  BY <1>2
<1>4. ASSUME NEW i \in 1..n PROVE Page(i) = SubSeq(whole, (i - 1) * size + 1, Cut(i * size))
  <2> DEFINE a == (i - 1) * size
             b == Cut(i * size)
             w == Limit(Skip(s, a), size)
             t == SubSeq(whole, a + 1, b)
  <2>1. a \in Nat /\ b \in Nat /\ b <= m /\ b = IF a + size <= m THEN a + size ELSE m
    BY <1>1, <1>3
  <2> HIDE DEF a, b
  <2>2. /\ IsList(w) /\ Len(w) \in Nat
        /\ Len(w) = IF a >= m THEN 0 ELSE IF size > 0 /\ size < m - a THEN size ELSE m - a
        /\ \A k \in 1..Len(w) : w[k] = s[a + k]
    <3> HIDE DEF w
    <3>1. w = Limit(Skip(s, a), size)
      BY DEF w
    <3>2. a \in Nat /\ size \in Nat /\ IsList(s)
      BY <1>2, <2>1
    <3>3. /\ IsList(w) /\ Len(w) \in Nat
          /\ Len(w) = IF a >= Len(s) THEN 0
                      ELSE IF size > 0 /\ size < Len(s) - a THEN size ELSE Len(s) - a
          /\ \A k \in 1..Len(w) : w[k] = s[a + k]
      BY <3>1, <3>2, WindowFacts, Zenon
    <3> QED
      BY <3>3, Zenon DEF m
  <2>3. /\ IsList(t) /\ Len(t) = IF a < b THEN b - a ELSE 0
        /\ \A k \in 1..Len(t) : t[k] = whole[a + k]
    <3> HIDE DEF t
    <3>1. t = SubSeq(whole, a + 1, b)
      BY DEF t
    <3>2. a \in Nat /\ b \in Nat /\ IsList(whole) /\ b <= Len(whole)
      BY <1>1, <2>1
    <3> QED
      BY <3>1, <3>2, ListPart, ZenonT(60)
  <2>4. Len(w) = Len(t) /\ \A k \in 1..Len(w) : a + k \in 1..m
    BY <1>1, <2>1, <2>2, <2>3
  <2> HIDE DEF w, t
  <2>5. /\ IsList(ProjectAll(w, fields)) /\ Len(ProjectAll(w, fields)) = Len(w)
        /\ \A k \in 1..Len(w) : ProjectAll(w, fields)[k] = Project(w[k], fields)
    BY <2>2, ProjectedFacts
  <2>6. \A k \in 1..Len(w) : ProjectAll(w, fields)[k] = t[k]
    BY <1>1, <2>2, <2>3, <2>4, <2>5
  <2>7. ProjectAll(w, fields) = t
    BY <2>3, <2>4, <2>5, <2>6, ListEqual
  <2> QED
    BY <2>7 DEF a, b, w, t
<1>5. ASSUME NEW i \in 2..n PROVE g[i] = g[i - 1] \o parts[i]
  <2> DEFINE a == (i - 1) * size
             b == Cut(i * size)
             T == {whole[k] : k \in DOMAIN whole}
  <2>1. i \in 1..n /\ i - 1 \in 1..n
    OBVIOUS
  <2>2. /\ a \in Nat /\ b \in Nat /\ b <= m
        /\ b = IF a + size <= m THEN a + size ELSE m
        /\ Cut(a) \in Nat /\ Cut(a) <= m /\ Cut(a) <= b
        /\ a <= m => Cut(a) = a
        /\ ~(a <= m) => Cut(a) = m /\ b = m
    BY <1>1, <1>3, <2>1
  <2>3. /\ g[i] = SubSeq(whole, 1, b) /\ g[i - 1] = SubSeq(whole, 1, Cut(a))
        /\ parts[i] = SubSeq(whole, a + 1, b)
    BY <1>4, <2>1
  <2> HIDE DEF a, b, Cut, parts, g
  <2>4. whole \in Seq(T) /\ Len(whole) = m
    BY <1>1 DEF IsList
  <2>5. CASE a <= m
    <3>1. SubSeq(whole, 1, a) \o SubSeq(whole, a + 1, b) = SubSeq(whole, 1, b)
      <4>1. 1 \in 1..(Len(whole) + 1) /\ a \in (1 - 1)..Len(whole) /\ b \in a..Len(whole)
        BY <1>1, <2>2, <2>4, <2>5
      <4> QED
        BY <2>4, <4>1, ConcatAdjacentSubSeq
    <3> QED
      BY <2>2, <2>3, <2>5, <3>1
  <2>6. CASE ~(a <= m)
    <3>1. SubSeq(whole, a + 1, b) = <<>>
      BY <1>1, <2>2, <2>6, SubSeqEmpty
    <3>2. SubSeq(whole, 1, m) = whole
      BY <2>4, SubSeqFull
    <3>3. whole \o <<>> = whole
      BY <2>4, ConcatEmptySeq
    <3> QED
      BY <2>2, <2>3, <2>6, <3>1, <3>2, <3>3
  <2> QED
    BY <2>5, <2>6
<1>6. CASE n = 0
  <2>1. parts = <<>> /\ Len(parts) = 0
    BY <1>6
  <2>2. FlattenSeq(parts) = <<>>
    BY <2>1 DEF FlattenSeq
  <2>3. whole = <<>>
    BY <1>1, <1>6, ListFacts DEF m
  <2> QED
    BY <2>2, <2>3 DEF whole
<1>7. CASE n # 0
  <2>1. Len(parts) = n /\ n \in Nat \ {0} /\ 1 \in 1..n /\ n \in 1..n
    BY <1>7
  <2>2. g[1] = parts[1]
    <3>1. (1 - 1) * size + 1 = 1
      BY <1>2
    <3>2. Page(1) = SubSeq(whole, 1, Cut(1 * size))
      BY <1>4, <2>1, <3>1
    <3> QED
      BY <2>1, <3>2
  <2>3. g[n] = whole
    <3>1. Cut(n * size) = m
      BY <1>1, <1>2, <1>3, <2>1 DEF m
    <3>2. SubSeq(whole, 1, m) = whole
      BY <1>1, SubSeqFull DEF IsList
    <3> QED
      BY <2>1, <3>1, <3>2
  <2> HIDE DEF parts, g
  <2>4. FlattenSeq(parts) = g[n]
    <3>1. \A i \in 2..n : g[i] = g[i - 1] \o parts[i]
      BY <1>5
    <3>2. Joins(parts, g)
      BY <2>1, <2>2, <3>1 DEF Joins
    <3> QED
      BY <2>1, <3>2, FlattenFacts
  <2> QED
    BY <2>3, <2>4 DEF parts, whole
<1> QED
  BY <1>6, <1>7

-----------------------------------------------------------------------------
(* The rows of a program whose values compare. The code keeps _id beside    *)
(* the document, and sorts by numbers and by texts; a NaN is neither less   *)
(* than another number nor equal to all of them.                            *)
PlainDoc(doc) ==
    "_id" \notin DOMAIN doc /\ \A f \in DOMAIN doc \cap SortFields : Placed(doc[f])

ValuesCompare ==
    /\ \A doc \in Docs \cup Patches : PlainDoc(doc)
    /\ \A id \in Keys : Placed(Text(id))
    /\ \A found \in Existing :
         /\ \A i \in DOMAIN found : PlainDoc(found[i].doc) /\ Placed(Text(found[i].id))
         /\ \A i, j \in DOMAIN found : found[i].id = found[j].id => i = j
    /\ \A defs \in Schemas :
         /\ "_id" \notin DOMAIN defs
         /\ \A f \in DOMAIN defs : defs[f].generated = "" => Placed(defs[f].default)
    /\ Placed(Undefined) /\ Placed(Text("uuid"))
    /\ \A v : Placed(v) => Placed(AsStored(v))

PlainRows ==
    \A i \in DOMAIN tableRows : PlainDoc(tableRows[i].doc) /\ Placed(Text(tableRows[i].id))
OneOfEach == \A i, j \in DOMAIN tableRows : tableRows[i].id = tableRows[j].id => i = j
CompareInv == QueriesInv /\ PlainRows /\ OneOfEach

LEMMA NumberPlaced == \A n \in Int : Placed(Number(n))
  BY DEF Placed, Number

LEMMA MergedPlain ==
    ASSUME NEW doc, NEW more, PlainDoc(doc), PlainDoc(more)
    PROVE  PlainDoc(Merged(doc, more))
  BY DEF PlainDoc, Merged

LEMMA StampPlain ==
    ASSUME NEW doc, PlainDoc(doc)
    PROVE  PlainDoc(Stamp(doc))
<1> DEFINE at == [updatedAt |-> Number(Now)]
<1>1. DOMAIN at = {"updatedAt"} /\ at["updatedAt"] = Number(Now)
  OBVIOUS
<1>2. Placed(Number(Now))
  BY NumberPlaced DEF Now
<1>3. "_id" # "updatedAt"
  OBVIOUS
<1> HIDE DEF at
<1>4. PlainDoc(at)
  BY <1>1, <1>2, <1>3 DEF PlainDoc
<1>5. PlainDoc(Merged(at, doc))
  BY <1>4, MergedPlain
<1> QED
  BY <1>5 DEF Stamp, at

LEMMA WrittenPlain ==
    ASSUME ValuesCompare, SchemaDeclared, seqs \in Nat, NEW doc, PlainDoc(doc)
    PROVE  PlainDoc(Written(doc))
<1> DEFINE given == {f \in DOMAIN schema : Absent(doc, f) /\ Defaulted(schema[f], NextSeq, Now) # Undefined}
           some == [f \in given |-> Defaulted(schema[f], NextSeq, Now)]
<1>1. ASSUME NEW f \in DOMAIN schema
      PROVE  f # "_id" /\ Placed(Defaulted(schema[f], NextSeq, Now))
  <2>1. PICK defs \in Schemas : f \in DOMAIN defs /\ schema[f] = defs[f]
    BY DEF SchemaDeclared
  <2>2. "_id" \notin DOMAIN defs /\ (defs[f].generated = "" => Placed(defs[f].default))
    BY <2>1 DEF ValuesCompare
  <2>3. defs[f].generated \in {"", "$uuid", "$now", "$seq"}
    BY <2>1, SchemasAssumption
  <2>4. Placed(Number(NextSeq)) /\ Placed(Number(Now))
    BY NumberPlaced DEF NextSeq, Now
  <2>5. Placed(Text("uuid"))
    BY DEF ValuesCompare
  <2>6. Placed(Defaulted(defs[f], NextSeq, Now))
    BY <2>2, <2>3, <2>4, <2>5 DEF Defaulted
  <2> QED
    BY <2>1, <2>2, <2>6
<1>2. DOMAIN some = given /\ \A f \in given : f \in DOMAIN schema /\ some[f] = Defaulted(schema[f], NextSeq, Now)
  OBVIOUS
<1>3. Written(doc) = Merged(some, doc)
  BY DEF Written, ApplySchema
<1> HIDE DEF some, given
<1>4. PlainDoc(some)
  BY <1>1, <1>2 DEF PlainDoc
<1> QED
  BY <1>3, <1>4, MergedPlain

LEMMA StoredPlain ==
    ASSUME ValuesCompare, NEW doc, PlainDoc(doc)
    PROVE  PlainDoc(DocNative(doc))
  BY DEF PlainDoc, DocNative, ValuesCompare

(* Rows that come from rows, each from another, with plain documents.       *)
LEMMA FewerCompare ==
    ASSUME CompareInv, SchemaDeclared', seqs' \in Nat, IsList(tableRows'),
           NEW from, \A i \in DOMAIN tableRows' : from[i] \in DOMAIN tableRows,
           \A i, j \in DOMAIN tableRows' : i # j => from[i] # from[j],
           \A i \in DOMAIN tableRows' :
               /\ tableRows'[i] = [id |-> tableRows'[i].id, doc |-> tableRows'[i].doc]
               /\ tableRows'[i].id = tableRows[from[i]].id
               /\ PlainDoc(tableRows'[i].doc)
    PROVE  CompareInv'
<1>1. QueriesInv'
  BY DEF QueriesInv, RowsShaped
<1>2. PlainRows'
  BY DEF CompareInv, PlainRows
<1>3. OneOfEach'
  <2> SUFFICES ASSUME NEW i \in DOMAIN tableRows', NEW j \in DOMAIN tableRows',
                      tableRows'[i].id = tableRows'[j].id, i # j
               PROVE  FALSE
    BY DEF OneOfEach
  <2>1. tableRows[from[i]].id = tableRows[from[j]].id
    OBVIOUS
  <2>2. from[i] = from[j]
    BY <2>1 DEF CompareInv, OneOfEach
  <2> QED
    BY <2>2
<1> QED
  BY <1>1, <1>2, <1>3 DEF CompareInv

LEMMA InsertKeepsCompare ==
    ASSUME CompareInv, ValuesCompare, NEW id \in Keys, NEW doc \in Docs \cup Patches, Insert(id, doc)
    PROVE  CompareInv'
<1> DEFINE row == [id |-> id, doc |-> Written(doc)]
           n == Len(tableRows)
<1>1. IsList(tableRows) /\ n \in Nat /\ DOMAIN tableRows = 1..n
  BY ListFacts DEF CompareInv, QueriesInv, RowsShaped
<1>2. schema' = schema /\ seqs' \in Nat /\ SchemaDeclared'
  <2>1. seqs' \in {seqs, NextSeq}
    BY DEF Insert
  <2> QED
    BY <2>1 DEF Insert, NextSeq, CompareInv, QueriesInv, SchemaDeclared
<1>3. CASE ~CanInsert(id, doc)
  <2>1. UNCHANGED tableRows
    BY <1>3 DEF Insert
  <2> QED
    BY <1>2, <2>1 DEF CompareInv, QueriesInv, RowsShaped, PlainRows, OneOfEach
<1>4. CASE CanInsert(id, doc)
  <2>1. tableRows' = Append(tableRows, row) /\ \A i \in 1..n : tableRows[i].id # id
    BY <1>1, <1>4 DEF Insert, CanInsert
  <2>2. /\ IsList(tableRows')
        /\ DOMAIN tableRows' = 1..(n + 1)
        /\ tableRows'[n + 1] = row
        /\ \A i \in 1..n : tableRows'[i] = tableRows[i]
    BY <1>1, <2>1, ListAppend
  <2>3. PlainDoc(row.doc) /\ Placed(Text(row.id)) /\ row.id = id
    <3>1. PlainDoc(doc) /\ Placed(Text(id))
      BY DEF ValuesCompare
    <3> QED
      BY <3>1, WrittenPlain DEF CompareInv, QueriesInv
  <2>4. row = [id |-> row.id, doc |-> row.doc]
    OBVIOUS
  <2> HIDE DEF row, n
  <2>5. \A i \in 1..(n + 1) : i \in 1..n \/ i = n + 1
    BY <1>1
  <2>6. /\ \A i \in 1..n : /\ tableRows[i] = [id |-> tableRows[i].id, doc |-> tableRows[i].doc]
                           /\ PlainDoc(tableRows[i].doc) /\ Placed(Text(tableRows[i].id))
        /\ \A i, j \in 1..n : tableRows[i].id = tableRows[j].id => i = j
    BY <1>1 DEF CompareInv, QueriesInv, RowsShaped, PlainRows, OneOfEach
  <2>7. RowsShaped'
    BY <2>2, <2>4, <2>5, <2>6 DEF RowsShaped
  <2>8. PlainRows'
    BY <2>2, <2>3, <2>5, <2>6 DEF PlainRows
  <2>9. OneOfEach'
    <3> SUFFICES ASSUME NEW i \in 1..(n + 1), NEW j \in 1..(n + 1), tableRows'[i].id = tableRows'[j].id
                 PROVE  i = j
      BY <2>2 DEF OneOfEach
    <3>1. CASE i = n + 1 /\ j \in 1..n
      BY <3>1, <2>1, <2>2, <2>3
    <3>2. CASE j = n + 1 /\ i \in 1..n
      BY <3>2, <2>1, <2>2, <2>3
    <3>3. CASE i \in 1..n /\ j \in 1..n
      BY <3>3, <2>2, <2>6
    <3> QED
      BY <3>1, <3>2, <3>3, <2>5
  <2> QED
    BY <1>2, <2>7, <2>8, <2>9 DEF CompareInv, QueriesInv
<1> QED
  BY <1>3, <1>4

LEMMA UpdateKeepsCompare ==
    ASSUME CompareInv, ValuesCompare, NEW filter, NEW changes \in Patches, NEW onlyFirst,
           UpdateMatches(filter, changes, onlyFirst)
    PROVE  CompareInv'
<1> DEFINE chosen == Chosen(filter, onlyFirst)
           from == [i \in DOMAIN tableRows |-> i]
<1>1. IsList(tableRows) /\ Len(tableRows) \in Nat /\ DOMAIN tableRows = 1..Len(tableRows)
  BY ListFacts DEF CompareInv, QueriesInv, RowsShaped
<1>2. /\ tableRows' = [i \in DOMAIN tableRows |->
                         IF i \in chosen
                         THEN [tableRows[i] EXCEPT !.doc = Stamp(Merged(changes, @))]
                         ELSE tableRows[i]]
      /\ UNCHANGED <<schema, seqs>>
  BY DEF UpdateMatches
<1>3. DOMAIN tableRows' = DOMAIN tableRows /\ IsList(tableRows')
  <2>1. tableRows' = [i \in 1..Len(tableRows) |-> tableRows'[i]]
    BY <1>1, <1>2
  <2> QED
    BY <1>1, <2>1, ListOf
<1>4. \A i \in DOMAIN tableRows :
        /\ tableRows[i] = [id |-> tableRows[i].id, doc |-> tableRows[i].doc]
        /\ PlainDoc(tableRows[i].doc)
  BY DEF CompareInv, QueriesInv, RowsShaped, PlainRows
<1>5. ASSUME NEW i \in DOMAIN tableRows
      PROVE  /\ tableRows'[i] = [id |-> tableRows'[i].id, doc |-> tableRows'[i].doc]
             /\ tableRows'[i].id = tableRows[i].id
             /\ PlainDoc(tableRows'[i].doc)
  <2>1. CASE i \in chosen
    <3> DEFINE d == Stamp(Merged(changes, tableRows[i].doc))
    <3>1. tableRows'[i] = [tableRows[i] EXCEPT !.doc = d]
      BY <1>2, <2>1
    <3>2. PlainDoc(d)
      <4>1. PlainDoc(changes)
        BY DEF ValuesCompare
      <4>2. PlainDoc(Merged(changes, tableRows[i].doc))
        BY <1>4, <4>1, MergedPlain
      <4> QED
        BY <4>2, StampPlain
    <3> HIDE DEF d
    <3>3. tableRows'[i] = [id |-> tableRows[i].id, doc |-> d]
      BY <1>4, <3>1
    <3> QED
      BY <3>2, <3>3
  <2>2. CASE i \notin chosen
    BY <1>2, <1>4, <2>2
  <2> QED
    BY <2>1, <2>2
<1>6. SchemaDeclared' /\ seqs' \in Nat
  BY <1>2 DEF CompareInv, QueriesInv, SchemaDeclared
<1>7. \A i \in DOMAIN tableRows' : from[i] = i
  BY <1>3
<1> HIDE DEF from, chosen
<1> QED
  BY <1>3, <1>5, <1>6, <1>7, FewerCompare

LEMMA DeleteKeepsCompare ==
    ASSUME CompareInv, NEW filter, NEW onlyFirst, DeleteMatches(filter, onlyFirst)
    PROVE  CompareInv'
<1> DEFINE K == DOMAIN tableRows \ Chosen(filter, onlyFirst)
           from == Ascending(K)
           n == Cardinality(K)
<1>1. IsList(tableRows)
  BY DEF CompareInv, QueriesInv, RowsShaped
<1>2. tableRows' = Picked(tableRows, K) /\ UNCHANGED <<schema, seqs>>
  BY DEF DeleteMatches
<1>3. K \in SUBSET DOMAIN tableRows
  OBVIOUS
<1> HIDE DEF K
<1>4. /\ IsList(tableRows') /\ Len(tableRows') = n /\ n \in Nat
      /\ \A k \in 1..n : from[k] \in K /\ tableRows'[k] = tableRows[from[k]]
      /\ \A i, j \in 1..n : i < j => from[i] < from[j]
  BY <1>1, <1>2, <1>3, ListPicked
<1>5. DOMAIN tableRows' = 1..n
  BY <1>4, ListFacts
<1>6. DOMAIN tableRows \subseteq Nat
  BY <1>1, ListFacts
<1> HIDE DEF from
<1>7. \A i, j \in 1..n : i # j => from[i] # from[j]
  BY <1>3, <1>4, <1>6
<1>8. \A i \in DOMAIN tableRows :
        /\ tableRows[i] = [id |-> tableRows[i].id, doc |-> tableRows[i].doc]
        /\ PlainDoc(tableRows[i].doc)
  BY DEF CompareInv, QueriesInv, RowsShaped, PlainRows
<1>9. ASSUME NEW i \in DOMAIN tableRows'
      PROVE  /\ from[i] \in DOMAIN tableRows
             /\ tableRows'[i] = [id |-> tableRows'[i].id, doc |-> tableRows'[i].doc]
             /\ tableRows'[i].id = tableRows[from[i]].id
             /\ PlainDoc(tableRows'[i].doc)
  BY <1>3, <1>4, <1>5, <1>8
<1>10. SchemaDeclared' /\ seqs' \in Nat
  BY <1>2 DEF CompareInv, QueriesInv, SchemaDeclared
<1> QED
  BY <1>4, <1>5, <1>7, <1>9, <1>10, FewerCompare, SMTT(30)

LEMMA RunKeepsCompare ==
    ASSUME CompareInv, ValuesCompare, RunAgain
    PROVE  CompareInv'
<1> DEFINE from == [i \in DOMAIN tableRows |-> i]
<1>1. /\ tableRows' = [i \in DOMAIN tableRows |-> [tableRows[i] EXCEPT !.doc = DocNative(@)]]
      /\ schema' = <<>> /\ seqs' = seqs
  BY DEF RunAgain
<1>2. IsList(tableRows) /\ Len(tableRows) \in Nat /\ DOMAIN tableRows = 1..Len(tableRows)
  BY ListFacts DEF CompareInv, QueriesInv, RowsShaped
<1>3. IsList(tableRows') /\ DOMAIN tableRows' = DOMAIN tableRows
  <2>1. tableRows' = [i \in 1..Len(tableRows) |-> tableRows'[i]]
    BY <1>1, <1>2
  <2> QED
    BY <1>1, <1>2, <2>1, ListOf
<1>4. ASSUME NEW i \in DOMAIN tableRows
      PROVE  /\ tableRows'[i] = [id |-> tableRows'[i].id, doc |-> tableRows'[i].doc]
             /\ tableRows'[i].id = tableRows[i].id
             /\ PlainDoc(tableRows'[i].doc)
  <2>1. tableRows[i] = [id |-> tableRows[i].id, doc |-> tableRows[i].doc] /\ PlainDoc(tableRows[i].doc)
    BY DEF CompareInv, QueriesInv, RowsShaped, PlainRows
  <2> DEFINE d == DocNative(tableRows[i].doc)
  <2>2. tableRows'[i] = [tableRows[i] EXCEPT !.doc = d]
    BY <1>1
  <2>3. PlainDoc(d)
    BY <2>1, StoredPlain
  <2> HIDE DEF d
  <2>4. tableRows'[i] = [id |-> tableRows[i].id, doc |-> d]
    BY <2>1, <2>2
  <2> QED
    BY <2>3, <2>4
<1>5. SchemaDeclared' /\ seqs' \in Nat
  BY <1>1, NoList DEF CompareInv, QueriesInv, SchemaDeclared
<1>6. \A i \in DOMAIN tableRows' : from[i] = i
  BY <1>3
<1> HIDE DEF from
<1> QED
  BY <1>3, <1>4, <1>5, <1>6, FewerCompare

LEMMA CompareStart == ValuesCompare /\ QueriesInit => CompareInv
<1> SUFFICES ASSUME ValuesCompare, QueriesInit PROVE CompareInv
  OBVIOUS
<1>1. QueriesInv
  BY QueriesStart
<1>2. tableRows \in Existing
  BY DEF QueriesInit
<1>3. PlainRows /\ OneOfEach
  BY <1>2 DEF ValuesCompare, PlainRows, OneOfEach
<1> QED
  BY <1>1, <1>3 DEF CompareInv

LEMMA CompareNext ==
    ASSUME CompareInv, ValuesCompare, [QueriesNext]_queryVars
    PROVE  CompareInv'
<1> USE DEF CompareInv
<1>1. CASE UNCHANGED <<tableRows, schema, seqs>>
  BY <1>1 DEF QueriesInv, RowsShaped, SchemaDeclared, PlainRows, OneOfEach
<1> HIDE DEF CompareInv
<1>2. ASSUME NEW id \in Offered, NEW doc \in Docs \cup Patches, Insert(id, doc)
      PROVE  CompareInv'
  <2>1. id \in Keys
    BY DEF Offered
  <2> QED
    BY <1>2, <2>1, InsertKeepsCompare
<1>3. ASSUME NEW filter, NEW patch \in Patches, NEW onlyFirst, UpdateMatches(filter, patch, onlyFirst)
      PROVE  CompareInv'
  BY <1>3, UpdateKeepsCompare
<1>4. ASSUME NEW filter, NEW onlyFirst, DeleteMatches(filter, onlyFirst)
      PROVE  CompareInv'
  BY <1>4, DeleteKeepsCompare
<1>5. ASSUME NEW defs \in Schemas, AddSchema(defs)
      PROVE  CompareInv'
  <2>1. schema' = Merged(defs, schema) /\ UNCHANGED <<tableRows, seqs>>
    BY <1>5 DEF AddSchema
  <2>2. ASSUME NEW f \in DOMAIN schema'
        PROVE  \/ f \in DOMAIN defs /\ schema'[f] = defs[f]
               \/ f \in DOMAIN schema /\ schema'[f] = schema[f]
    BY <2>1 DEF Merged
  <2>3. SchemaDeclared'
    BY <2>2 DEF CompareInv, QueriesInv, SchemaDeclared
  <2> QED
    BY <2>1, <2>3 DEF CompareInv, QueriesInv, RowsShaped, PlainRows, OneOfEach
<1>6. CASE Drop
  <2>1. tableRows' = <<>> /\ schema' = <<>> /\ seqs' = seqs
    BY <1>6 DEF Drop
  <2> QED
    BY <2>1, NoList DEF CompareInv, QueriesInv, RowsShaped, SchemaDeclared, PlainRows, OneOfEach
<1>7. CASE RunAgain
  BY <1>7, RunKeepsCompare
<1>8. CASE Write
  <2>1. ASSUME NEW id \in Offered, NEW filter, NEW patch \in Patches, Upsert(id, filter, patch)
        PROVE  UpdateMatches(filter, patch, TRUE) \/ Insert(id, patch)
    BY <2>1 DEF Upsert
  <2> QED
    BY <1>2, <1>3, <1>4, <1>5, <1>6, <1>7, <1>8, <2>1 DEF Write
<1>9. CASE Chain
  <2>1. (\E q : Becomes(q)) => UNCHANGED <<tableRows, schema, seqs>>
    BY DEF Becomes
  <2>2. \/ \E q : Becomes(q)
        \/ \E patch \in Patches : UpdateMatches(qb.filter, patch, FALSE)
        \/ DeleteMatches(qb.filter, FALSE)
    BY <1>9
       DEF Chain, TableWhere, TableSelect, Where, And, Or, Select, OrderBy, LimitTo, Offset
  <2> QED
    BY <1>1, <1>3, <1>4, <2>1, <2>2
<1> QED
  BY <1>1, <1>8, <1>9 DEF QueriesNext, queryVars

-----------------------------------------------------------------------------
(* What a query answers. The rows that a filter lets through, in the order  *)
(* of the table, each seen as a document.                                   *)
LEMMA MatchedFacts ==
    ASSUME RowsShaped, NEW filter
    PROVE  LET hits == Matched(tableRows, filter)
           IN  /\ IsList(hits) /\ Len(hits) \in Nat /\ Len(tableRows) \in Nat
               /\ Len(hits) <= Len(tableRows)
               /\ \E at : /\ \A k \in 1..Len(hits) : /\ at[k] \in DOMAIN tableRows
                                                     /\ hits[k] = RowToValue(tableRows[at[k]])
                          /\ \A i, j \in 1..Len(hits) : i < j => at[i] < at[j]
<1> DEFINE n == Len(tableRows)
           docs == RowValues(tableRows)
           K == {i \in DOMAIN docs : Passes(docs[i], filter)}
           hits == Matched(tableRows, filter)
<1>1. n \in Nat /\ DOMAIN tableRows = 1..n
  BY ListFacts DEF RowsShaped
<1>2. docs = [i \in 1..n |-> RowToValue(tableRows[i])]
  BY <1>1 DEF RowValues
<1> HIDE DEF n
<1>3. docs = [i \in 1..n |-> docs[i]] /\ \A i \in 1..n : docs[i] = RowToValue(tableRows[i])
  BY <1>2
<1>4. IsList(docs) /\ Len(docs) = n /\ DOMAIN docs = 1..n
  <2> HIDE DEF docs
  <2> QED
    BY <1>1, <1>3, ListOf
<1>5. K \in SUBSET DOMAIN docs
  OBVIOUS
<1>6. hits = Picked(docs, K)
  BY DEF Matched, Passing
<1> HIDE DEF docs, K
<1>7. /\ IsList(Picked(docs, K))
      /\ Len(Picked(docs, K)) = Cardinality(K) /\ Cardinality(K) \in Nat
      /\ \A k \in 1..Cardinality(K) :
            Ascending(K)[k] \in K /\ Picked(docs, K)[k] = docs[Ascending(K)[k]]
      /\ \A i, j \in 1..Cardinality(K) : i < j => Ascending(K)[i] < Ascending(K)[j]
  BY <1>4, <1>5, ListPicked
<1>8. Cardinality(K) <= n
  <2>1. K \in SUBSET (1..n)
    BY <1>4, <1>5
  <2>2. IsFiniteSet(1..n) /\ Cardinality(1..n) = n
    BY <1>1, FS_Interval
  <2> QED
    BY <2>1, <2>2, FS_Subset
<1> DEFINE at == Ascending(K)
<1> HIDE DEF at
<1>9. \A k \in 1..Cardinality(K) : at[k] \in 1..n /\ hits[k] = RowToValue(tableRows[at[k]])
  BY <1>3, <1>4, <1>5, <1>6, <1>7 DEF at
<1>10. \A i, j \in 1..Cardinality(K) : i < j => at[i] < at[j]
  BY <1>7 DEF at
<1> HIDE DEF hits
<1>11. Len(hits) = Cardinality(K) /\ IsList(hits)
  BY <1>6, <1>7
<1>12. \E a : /\ \A k \in 1..Len(hits) : /\ a[k] \in DOMAIN tableRows
                                         /\ hits[k] = RowToValue(tableRows[a[k]])
              /\ \A i, j \in 1..Len(hits) : i < j => a[i] < a[j]
  <2> WITNESS at
  <2> QED
    BY <1>1, <1>9, <1>10, <1>11
<1> QED
  BY <1>1, <1>7, <1>8, <1>11, <1>12 DEF hits, n

(* All of them, sorted; what the builder returns is a window of this list.  *)
Answer == SliceStable(qb.sorts, Matched(tableRows, qb.filter))

LEMMA AnswerFacts ==
    ASSUME RowsShaped
    PROVE  /\ IsList(Answer) /\ Len(Answer) \in Nat /\ Len(tableRows) \in Nat
           /\ Len(Answer) = Len(Matched(tableRows, qb.filter))
           /\ Len(Answer) <= Len(tableRows)
<1> DEFINE hits == Matched(tableRows, qb.filter)
           D == {hits[i] : i \in DOMAIN hits}
<1>1. IsList(hits) /\ Len(hits) \in Nat /\ Len(tableRows) \in Nat /\ Len(hits) <= Len(tableRows)
  BY MatchedFacts
<1> HIDE DEF hits
<1>2. hits \in Seq(D)
  BY <1>1 DEF IsList
<1> HIDE DEF D
<1>3. LET s == SliceStable(qb.sorts, hits)
      IN  Len(s) = Len(hits) /\ \E p : SortedBy(qb.sorts, D, hits, s, p)
  BY <1>2, SliceStableSorts
<1>4. Answer = SliceStable(qb.sorts, hits)
  BY DEF Answer, hits
<1>5. Len(Answer) = Len(hits) /\ IsList(Answer)
  BY <1>3, <1>4 DEF SortedBy
<1> QED
  BY <1>1, <1>5 DEF hits

LEMMA SameBuilder ==
    ASSUME BuilderShaped
    PROVE  /\ [qb EXCEPT !.limit = 0, !.offset = 0]
                = [filter |-> qb.filter, proj |-> qb.proj, sorts |-> qb.sorts,
                   limit |-> 0, offset |-> 0]
           /\ [qb EXCEPT !.proj = {}]
                = [filter |-> qb.filter, proj |-> {}, sorts |-> qb.sorts,
                   limit |-> qb.limit, offset |-> qb.offset]
<1> DEFINE a == qb.filter
           b == qb.proj
           c == qb.sorts
           d == qb.limit
           e == qb.offset
<1>1. qb = [filter |-> a, proj |-> b, sorts |-> c, limit |-> d, offset |-> e]
  BY DEF BuilderShaped
<1> HIDE DEF a, b, c, d, e
<1>2. ASSUME NEW p, p = [qb EXCEPT !.limit = 0, !.offset = 0]
      PROVE  p = [filter |-> a, proj |-> b, sorts |-> c, limit |-> 0, offset |-> 0]
  BY <1>1, <1>2
<1>3. ASSUME NEW p, p = [qb EXCEPT !.proj = {}]
      PROVE  p = [filter |-> a, proj |-> {}, sorts |-> c, limit |-> d, offset |-> e]
  BY <1>1, <1>3
<1> QED
  BY <1>2, <1>3 DEF a, b, c, d, e

LEMMA ExecFacts ==
    ASSUME BuilderShaped
    PROVE  /\ Exec(qb) = ProjectAll(Limit(Skip(Answer, qb.offset), qb.limit), qb.proj)
           /\ Exec([qb EXCEPT !.limit = 0, !.offset = 0]) = ProjectAll(Answer, qb.proj)
           /\ Exec([qb EXCEPT !.proj = {}])
                = ProjectAll(Limit(Skip(Answer, qb.offset), qb.limit), {})
           /\ LastOf(qb) = LET found == ProjectAll(Answer, qb.proj)
                           IN  IF found = <<>> THEN Null ELSE found[Len(found)]
           /\ FirstOf(qb) = LET found == ProjectAll(Limit(Skip(Answer, qb.offset), 1), qb.proj)
                            IN  IF found = <<>> THEN Null ELSE found[1]
           /\ CountOf(qb) = Len(ProjectAll(Matched(tableRows, qb.filter), {}))
<1>1. \A s : Limit(Skip(s, 0), 0) = s
  BY DEF Limit, Skip
<1>2. \A docs : SliceStable(<<>>, docs) = docs
  BY DEF SliceStable
<1>3. /\ [qb EXCEPT !.limit = 0, !.offset = 0]
           = [filter |-> qb.filter, proj |-> qb.proj, sorts |-> qb.sorts, limit |-> 0, offset |-> 0]
      /\ [qb EXCEPT !.proj = {}]
           = [filter |-> qb.filter, proj |-> {}, sorts |-> qb.sorts,
              limit |-> qb.limit, offset |-> qb.offset]
  BY SameBuilder
<1>4. Exec(qb) = ProjectAll(Limit(Skip(Answer, qb.offset), qb.limit), qb.proj)
  BY DEF Exec, ExecQuery, Answer
<1>5. Exec([qb EXCEPT !.limit = 0, !.offset = 0]) = ProjectAll(Answer, qb.proj)
  BY <1>1, <1>3 DEF Exec, ExecQuery, Answer
<1>6. Exec([qb EXCEPT !.proj = {}]) = ProjectAll(Limit(Skip(Answer, qb.offset), qb.limit), {})
  BY <1>3 DEF Exec, ExecQuery, Answer
<1>7. LastOf(qb) = LET found == ProjectAll(Answer, qb.proj)
                   IN  IF found = <<>> THEN Null ELSE found[Len(found)]
  BY <1>1 DEF LastOf, ExecQuery, Answer
<1>8. FirstOf(qb) = LET found == ProjectAll(Limit(Skip(Answer, qb.offset), 1), qb.proj)
                    IN  IF found = <<>> THEN Null ELSE found[1]
  BY DEF FirstOf, ExecQuery, Answer
<1>9. CountOf(qb) = Len(ProjectAll(Matched(tableRows, qb.filter), {}))
  BY <1>1, <1>2 DEF CountOf, ExecQuery
<1> QED
  BY <1>4, <1>5, <1>6, <1>7, <1>8, <1>9

LEMMA PagesCover ==
    ASSUME RowsShaped, BuilderShaped, NEW size \in 1..2
    PROVE  FlattenSeq([n \in 1 .. Len(tableRows) |-> Exec(Paged(qb, n, size))])
             = Exec([qb EXCEPT !.limit = 0, !.offset = 0])
<1> DEFINE m == Len(tableRows)
           Page(n) == ProjectAll(Limit(Skip(Answer, (n - 1) * size), size), qb.proj)
<1>1. IsList(Answer) /\ m \in Nat /\ Len(Answer) <= m
  BY AnswerFacts
<1> HIDE DEF m
<1>2. ASSUME NEW n \in 1..m
      PROVE  Exec(Paged(qb, n, size)) = Page(n)
  <2>1. n \in Nat /\ size \in Nat /\ (IF n < 1 THEN 1 ELSE n) = n
    BY <1>1
  <2>2. Paged(qb, n, size) = [filter |-> qb.filter, proj |-> qb.proj, sorts |-> qb.sorts,
                              limit |-> size, offset |-> ((IF n < 1 THEN 1 ELSE n) - 1) * size]
    BY <2>1, PagedShaped
  <2>3. Paged(qb, n, size) = [filter |-> qb.filter, proj |-> qb.proj, sorts |-> qb.sorts,
                              limit |-> size, offset |-> (n - 1) * size]
    BY <2>1, <2>2
  <2> QED
    BY <2>3 DEF Exec, ExecQuery, Answer
<1>3. [n \in 1..m |-> Exec(Paged(qb, n, size))] = [n \in 1..m |-> Page(n)]
  <2> HIDE DEF Page
  <2> QED
    BY <1>2
<1>4. FlattenSeq([n \in 1..m |-> Page(n)]) = ProjectAll(Answer, qb.proj)
  BY <1>1, PagesJoin
<1> HIDE DEF Page
<1> QED
  BY <1>3, <1>4, ExecFacts DEF m

LEMMA CountsAndEnds ==
    ASSUME RowsShaped, BuilderShaped
    PROVE  LET whole == Exec([qb EXCEPT !.limit = 0, !.offset = 0])
           IN  /\ CountOf(qb) = Len(whole)
               /\ whole # <<>> => LastOf(qb) = whole[Len(whole)]
               /\ Exec(qb) # <<>> => FirstOf(qb) = Exec(qb)[1]
<1> DEFINE whole == Exec([qb EXCEPT !.limit = 0, !.offset = 0])
           hits == Matched(tableRows, qb.filter)
           n == Len(Answer)
           w == Limit(Skip(Answer, qb.offset), qb.limit)
           v == Limit(Skip(Answer, qb.offset), 1)
           first == ProjectAll(v, qb.proj)
<1>1. whole = ProjectAll(Answer, qb.proj)
  BY ExecFacts
<1>2. IsList(Answer) /\ n \in Nat /\ n = Len(hits) /\ IsList(hits)
  BY AnswerFacts, MatchedFacts
<1>3. Len(whole) = n
  BY <1>1, <1>2, ProjectedFacts
<1>4. Len(ProjectAll(hits, {})) = n
  <2> HIDE DEF hits, n
  <2> QED
    BY <1>2, ProjectedFacts
<1>5. CountOf(qb) = Len(whole)
  BY <1>3, <1>4, ExecFacts
<1>6. whole # <<>> => LastOf(qb) = whole[Len(whole)]
  <2>1. LastOf(qb) = IF whole = <<>> THEN Null ELSE whole[Len(whole)]
    BY <1>1, ExecFacts
  <2> QED
    BY <2>1
<1>7. ASSUME Exec(qb) # <<>>
      PROVE  FirstOf(qb) = Exec(qb)[1]
  <2>1. qb.offset \in Nat /\ qb.limit \in Nat
    BY DEF BuilderShaped
  <2>2. /\ IsList(w) /\ Len(w) \in Nat
        /\ Len(w) = (IF qb.offset >= n THEN 0
                     ELSE IF qb.limit > 0 /\ qb.limit < n - qb.offset THEN qb.limit
                     ELSE n - qb.offset)
        /\ \A k \in 1..Len(w) : w[k] = Answer[qb.offset + k]
    BY <1>2, <2>1, WindowFacts
  <2>3. /\ IsList(v) /\ Len(v) \in Nat
        /\ Len(v) = (IF qb.offset >= n THEN 0
                     ELSE IF 1 < n - qb.offset THEN 1 ELSE n - qb.offset)
        /\ \A k \in 1..Len(v) : v[k] = Answer[qb.offset + k]
    <3> DEFINE one == 1
               u == Limit(Skip(Answer, qb.offset), one)
    <3>1. one \in Nat /\ one > 0 /\ v = u
      OBVIOUS
    <3> HIDE DEF one
    <3>2. /\ IsList(u) /\ Len(u) \in Nat
          /\ Len(u) = (IF qb.offset >= n THEN 0
                       ELSE IF one > 0 /\ one < n - qb.offset THEN one ELSE n - qb.offset)
          /\ \A k \in 1..Len(u) : u[k] = Answer[qb.offset + k]
      <4>1. IsList(Answer) /\ qb.offset \in Nat /\ one \in Nat
        BY <1>2, <2>1, <3>1
      <4>2. /\ IsList(u) /\ Len(u) \in Nat
            /\ Len(u) = (IF qb.offset >= Len(Answer) THEN 0
                         ELSE IF one > 0 /\ one < Len(Answer) - qb.offset THEN one
                         ELSE Len(Answer) - qb.offset)
            /\ \A k \in 1..Len(u) : u[k] = Answer[qb.offset + k]
        BY <4>1, WindowFacts, ZenonT(60)
      <4> QED
        BY <4>2
    <3> HIDE DEF u, v
    <3> QED
      BY <3>1, <3>2 DEF one
  <2> HIDE DEF w, v, n
  <2>4. /\ Exec(qb) = ProjectAll(w, qb.proj)
        /\ FirstOf(qb) = IF first = <<>> THEN Null ELSE first[1]
    BY ExecFacts DEF w, v
  <2>5. /\ IsList(ProjectAll(w, qb.proj)) /\ Len(ProjectAll(w, qb.proj)) = Len(w)
        /\ \A i \in 1..Len(w) : ProjectAll(w, qb.proj)[i] = Project(w[i], qb.proj)
    BY <2>2, ProjectedFacts
  <2>6. Len(first) = Len(v) /\ \A i \in 1..Len(v) : first[i] = Project(v[i], qb.proj)
    BY <2>3, ProjectedFacts
  <2> HIDE DEF first
  <2>7. Len(w) # 0
    <3>1. Len(w) = 0 => ProjectAll(w, qb.proj) = <<>>
      BY <2>5, NoList, ListEqual
    <3> QED
      BY <3>1, <2>4, <1>7
  <2>8. Len(v) = 1 /\ 1 \in 1..Len(w) /\ 1 \in 1..Len(v)
    BY <2>7, <2>1, <2>2, <2>3, <1>2
  <2>9. first # <<>>
    BY <2>6, <2>8, NoList
  <2>10. v[1] = w[1]
    BY <2>2, <2>3, <2>8
  <2> QED
    BY <2>4, <2>5, <2>6, <2>8, <2>9, <2>10
<1> QED
  BY <1>5, <1>6, <1>7

LEMMA AnswerInOrder ==
    ASSUME CompareInv, ValuesCompare, BuilderShaped,
           \A i \in DOMAIN qb.sorts : Uniform(qb.sorts[i].field)
    PROVE  Ordered(Exec([qb EXCEPT !.proj = {}]))
<1> DEFINE sorts == qb.sorts
           hits == Matched(tableRows, qb.filter)
           n == Len(hits)
           D == {hits[i] : i \in DOMAIN hits}
           off == qb.offset
           found == Exec([qb EXCEPT !.proj = {}])
           Place(d) == CHOOSE i \in DOMAIN tableRows : tableRows[i].id = d["_id"].text
<1>1. IsList(hits) /\ n \in Nat
  BY MatchedFacts DEF CompareInv, QueriesInv
<1>2. PICK at : /\ \A k \in 1..n : at[k] \in DOMAIN tableRows
                                   /\ hits[k] = RowToValue(tableRows[at[k]])
                /\ \A i, j \in 1..n : i < j => at[i] < at[j]
  BY MatchedFacts DEF CompareInv, QueriesInv
<1>3. ASSUME NEW i \in DOMAIN tableRows, NEW f
      PROVE  /\ FieldOf(RowToValue(tableRows[i]), "_id") = Text(tableRows[i].id)
             /\ RowToValue(tableRows[i])["_id"].text = tableRows[i].id
             /\ f # "_id" => FieldOf(RowToValue(tableRows[i]), f) = FieldOf(tableRows[i].doc, f)
             /\ FieldOf(tableRows[i].doc, "_id") = Undefined
  <2> DEFINE key == [g \in {"_id"} |-> Text(tableRows[i].id)]
             doc == tableRows[i].doc
             d == RowToValue(tableRows[i])
  <2>1. DOMAIN key = {"_id"} /\ key["_id"] = Text(tableRows[i].id)
    OBVIOUS
  <2>2. "_id" \notin DOMAIN doc
    BY DEF CompareInv, PlainRows, PlainDoc
  <2>3. d = Merged(doc, key)
    BY DEF RowToValue
  <2> HIDE DEF key, doc, d
  <2>4. /\ DOMAIN d = DOMAIN doc \cup {"_id"}
        /\ \A g \in DOMAIN d : d[g] = IF g \in DOMAIN doc THEN doc[g] ELSE key[g]
    BY <2>1, <2>3 DEF Merged
  <2>5. d["_id"] = Text(tableRows[i].id)
    BY <2>1, <2>2, <2>4
  <2>6. d["_id"].text = tableRows[i].id
    BY <2>5 DEF Text
  <2>7. f # "_id" => FieldOf(d, f) = FieldOf(doc, f)
    BY <2>4 DEF FieldOf
  <2>8. FieldOf(d, "_id") = Text(tableRows[i].id) /\ FieldOf(doc, "_id") = Undefined
    BY <2>2, <2>4, <2>5 DEF FieldOf
  <2> QED
    BY <2>6, <2>7, <2>8 DEF d, doc
<1> HIDE DEF hits, n
<1>4. DOMAIN hits = 1..n /\ \A d \in D : \E i \in DOMAIN tableRows : d = RowToValue(tableRows[i])
  BY <1>1, <1>2, ListFacts DEF n
<1>5. Compare(sorts, D)
  <2> SUFFICES ASSUME NEW s \in DOMAIN sorts
               PROVE  /\ \A d \in D : Placed(FieldOf(d, sorts[s].field))
                      /\ \A d, e \in D :
                           FieldOf(d, sorts[s].field).tag = FieldOf(e, sorts[s].field).tag
    BY DEF Compare
  <2> DEFINE f == sorts[s].field
  <2>1. f \in SortFields /\ Uniform(f)
    BY DEF BuilderShaped
  <2> HIDE DEF f, D
  <2>2. ASSUME NEW i \in DOMAIN tableRows
        PROVE  Placed(FieldOf(RowToValue(tableRows[i]), f))
    <3>1. PlainDoc(tableRows[i].doc) /\ Placed(Text(tableRows[i].id)) /\ Placed(Undefined)
      BY DEF CompareInv, PlainRows, ValuesCompare
    <3>2. Placed(FieldOf(tableRows[i].doc, f))
      BY <2>1, <3>1 DEF PlainDoc, FieldOf
    <3> QED
      BY <1>3, <3>1, <3>2
  <2>3. ASSUME NEW i \in DOMAIN tableRows, NEW j \in DOMAIN tableRows
        PROVE  FieldOf(RowToValue(tableRows[i]), f).tag = FieldOf(RowToValue(tableRows[j]), f).tag
    <3>1. CASE f = "_id"
      BY <1>3, <3>1 DEF Text
    <3>2. CASE f # "_id"
      BY <1>3, <2>1, <3>2 DEF Uniform
    <3> QED
      BY <3>1, <3>2
  <2> QED
    BY <1>4, <2>2, <2>3 DEF f
<1>6. Strict(sorts, D)
  BY <1>5, CompareStrict DEF BuilderShaped
<1>7. hits \in Seq(D)
  BY <1>1 DEF IsList
<1> HIDE DEF D
<1>8. LET s == SliceStable(sorts, hits)
      IN  Len(s) = Len(hits) /\ \E p : SortedBy(sorts, D, hits, s, p)
  BY <1>7, SliceStableSorts
<1>9. Answer = SliceStable(sorts, hits)
  BY DEF Answer, hits
<1>10. Len(Answer) = n /\ \E p : SortedBy(sorts, D, hits, Answer, p)
  BY <1>8, <1>9 DEF n
<1>11. PICK p : SortedBy(sorts, D, hits, Answer, p)
  BY <1>10
<1>12. /\ IsList(Answer) /\ p \in [1..n -> 1..n]
       /\ \A i \in 1..n : Answer[i] = hits[p[i]]
       /\ \A i, j \in 1..n : i < j =>
             ~Before(sorts, Answer[j], Answer[i])
             /\ (~Before(sorts, Answer[i], Answer[j]) => p[i] < p[j])
  BY <1>6, <1>10, <1>11 DEF SortedBy
<1> DEFINE w == Limit(Skip(Answer, off), qb.limit)
<1>13. off \in Nat /\ qb.limit \in Nat
  BY DEF BuilderShaped
<1>14. /\ IsList(w) /\ Len(w) \in Nat
       /\ Len(w) = (IF off >= n THEN 0
                    ELSE IF qb.limit > 0 /\ qb.limit < n - off THEN qb.limit ELSE n - off)
       /\ \A k \in 1..Len(w) : w[k] = Answer[off + k]
  <2>1. /\ IsList(w) /\ Len(w) \in Nat
        /\ Len(w) = (IF off >= Len(Answer) THEN 0
                     ELSE IF qb.limit > 0 /\ qb.limit < Len(Answer) - off THEN qb.limit
                     ELSE Len(Answer) - off)
        /\ \A k \in 1..Len(w) : w[k] = Answer[off + k]
    <3>1. IsList(Answer)
      BY <1>12
    <3> QED
      BY <3>1, <1>13, WindowFacts
  <2> HIDE DEF w, off
  <2> QED
    BY <1>10, <2>1
<1>15. found = w
  BY <1>14, ExecFacts, ProjectedFacts
<1> HIDE DEF w, off, found
<1>16. \A k \in 1..Len(w) : off + k \in 1..n
  BY <1>1, <1>13, <1>14
<1>17. DOMAIN w = 1..Len(w)
  BY <1>14, ListFacts
<1>18. ASSUME NEW k \in 1..Len(w)
       PROVE  Place(w[k]) = at[p[off + k]]
  <2> DEFINE i == at[p[off + k]]
  <2>1. off + k \in 1..n /\ p[off + k] \in 1..n
    BY <1>12, <1>16
  <2>2. w[k] = hits[p[off + k]]
    BY <1>12, <1>14, <2>1
  <2>3. i \in DOMAIN tableRows /\ w[k] = RowToValue(tableRows[i])
    BY <1>2, <2>1, <2>2
  <2> HIDE DEF i
  <2>4. w[k]["_id"].text = tableRows[i].id
    BY <1>3, <2>3
  <2>5. \A j \in DOMAIN tableRows : tableRows[j].id = w[k]["_id"].text => j = i
    BY <2>3, <2>4 DEF CompareInv, OneOfEach
  <2>6. Place(w[k]) = i
    BY <2>3, <2>4, <2>5
  <2> QED
    BY <2>6 DEF i
<1> HIDE DEF Place
<1>19. ASSUME NEW i \in 1..Len(w), NEW j \in 1..Len(w), i < j
       PROVE  /\ ~Before(sorts, w[j], w[i])
              /\ ~Before(sorts, w[i], w[j]) => Place(w[i]) < Place(w[j])
  <2>1. off + i \in 1..n /\ off + j \in 1..n /\ off + i < off + j
    BY <1>13, <1>16, <1>19
  <2>2. w[i] = Answer[off + i] /\ w[j] = Answer[off + j]
    BY <1>14
  <2>3. /\ ~Before(sorts, w[j], w[i])
        /\ ~Before(sorts, w[i], w[j]) => p[off + i] < p[off + j]
    BY <1>12, <2>1, <2>2
  <2>4. p[off + i] \in 1..n /\ p[off + j] \in 1..n
    BY <1>12, <2>1
  <2>5. p[off + i] < p[off + j] => at[p[off + i]] < at[p[off + j]]
    BY <1>2, <2>4
  <2> QED
    BY <1>18, <2>3, <2>5
<1>20. \A i, j \in DOMAIN found : i < j =>
          /\ ~Before(qb.sorts, found[j], found[i])
          /\ ~Before(qb.sorts, found[i], found[j]) => Place(found[i]) < Place(found[j])
  BY <1>15, <1>17, <1>19
<1> QED
  BY <1>20 DEF Ordered, Place, found

LEMMA AnswersOrdered ==
    ASSUME CompareInv, ValuesCompare, BuilderShaped
    PROVE  PagesInOrder
<1>1. RowsShaped
  BY DEF CompareInv, QueriesInv
<1>2. (\A i \in DOMAIN qb.sorts : Uniform(qb.sorts[i].field)) =>
         Ordered(Exec([qb EXCEPT !.proj = {}]))
  BY AnswerInOrder
<1>3. \A size \in 1..2 :
        FlattenSeq([n \in 1 .. Len(tableRows) |-> Exec(Paged(qb, n, size))])
          = Exec([qb EXCEPT !.limit = 0, !.offset = 0])
  BY <1>1, PagesCover
<1>4. LET whole == Exec([qb EXCEPT !.limit = 0, !.offset = 0])
      IN  /\ CountOf(qb) = Len(whole)
          /\ whole # <<>> => LastOf(qb) = whole[Len(whole)]
          /\ Exec(qb) # <<>> => FirstOf(qb) = Exec(qb)[1]
  BY <1>1, CountsAndEnds
<1> QED
  BY <1>2, <1>3, <1>4, Zenon DEF PagesInOrder

(* Whatever builder a program has made, and whatever filters mean: its      *)
(* answer is in the order of its sort entries, rows that tie in the order   *)
(* of their insertion; its pages, of one or two, put together are its whole *)
(* answer; and count, first and last agree with it. This asks that the      *)
(* values compare, for where a NaN is among the numbers the answer of the   *)
(* code is in no order.                                                     *)
THEOREM AnswersInOrder ==
    ASSUME ValuesCompare
    PROVE  QueriesSpec => []PagesInOrder
<1>1. QueriesInit => CompareInv /\ BuilderShaped
  BY CompareStart, NoList DEF QueriesInit, NewQb, BuilderShaped
<1>2. CompareInv /\ BuilderShaped /\ [QueriesNext]_queryVars => (CompareInv /\ BuilderShaped)'
  BY CompareNext, BuilderNext
<1>3. CompareInv /\ BuilderShaped => PagesInOrder
  BY AnswersOrdered
<1> QED
  BY <1>1, <1>2, <1>3, PTL DEF QueriesSpec

-----------------------------------------------------------------------------
(* The readers of a table, which compute the same in different ways.       *)

(* The first of each text, in their order.                                  *)
LEMMA FirstFacts ==
    ASSUME NEW vals, IsList(vals)
    PROVE  LET u == FirstOfEach(vals)
           IN  /\ IsList(u) /\ Len(u) \in Nat
               /\ \A k \in 1..Len(u) : \E i \in DOMAIN vals : u[k] = vals[i]
               /\ \A i \in DOMAIN vals : \E k \in 1..Len(u) : u[k].text = vals[i].text
               /\ \A k, l \in 1..Len(u) : u[k].text = u[l].text => k = l
<1> DEFINE n == Len(vals)
           K == {i \in DOMAIN vals : \A j \in 1 .. i - 1 : vals[j].text # vals[i].text}
           u == FirstOfEach(vals)
           a == Ascending(K)
<1>1. n \in Nat /\ DOMAIN vals = 1..n
  BY ListFacts
<1>2. K \in SUBSET DOMAIN vals /\ u = Picked(vals, K)
  BY DEF FirstOfEach
<1>3. \A i \in K : \A j \in 1 .. i - 1 : vals[j].text # vals[i].text
  OBVIOUS
<1>4. ASSUME NEW i \in DOMAIN vals PROVE \E j \in K : vals[j].text = vals[i].text
  <2> DEFINE T == {j \in 1..n : vals[j].text = vals[i].text}
  <2>1. T \in SUBSET Int /\ T # {} /\ IsFiniteSet(T)
    <3>1. IsFiniteSet(1..n) /\ T \in SUBSET (1..n)
      BY FS_Interval
    <3>2. i \in T
      BY <1>1
    <3> QED
      BY <3>1, <3>2, FS_Subset
  <2>2. PICK m \in T : \A x \in T : m <= x
    BY <2>1, LeastOf
  <2>3. m \in K
    <3>1. m \in 1..n /\ vals[m].text = vals[i].text
      BY <2>2
    <3>2. \A j \in 1 .. m - 1 : j \in 1..n /\ ~(m <= j)
      BY <1>1, <3>1
    <3>3. \A j \in 1 .. m - 1 : vals[j].text # vals[m].text
      BY <2>2, <3>1, <3>2
    <3> QED
      BY <1>1, <3>1, <3>3
  <2> QED
    BY <2>2, <2>3
<1> HIDE DEF K, n, u
<1>5. /\ IsList(u) /\ Len(u) = Cardinality(K) /\ Cardinality(K) \in Nat
      /\ \A k \in 1..Cardinality(K) : a[k] \in K /\ u[k] = vals[a[k]]
      /\ \A i, j \in 1..Cardinality(K) : i < j => a[i] < a[j]
      /\ \A x \in K : \E k \in 1..Cardinality(K) : a[k] = x
  BY <1>2, ListPicked
<1> HIDE DEF a
<1>6. \A k \in 1..Len(u) : \E i \in DOMAIN vals : u[k] = vals[i]
  BY <1>2, <1>5
<1>7. \A i \in DOMAIN vals : \E k \in 1..Len(u) : u[k].text = vals[i].text
  <2> SUFFICES ASSUME NEW i \in DOMAIN vals PROVE \E k \in 1..Len(u) : u[k].text = vals[i].text
    OBVIOUS
  <2>1. PICK j \in K : vals[j].text = vals[i].text
    BY <1>4
  <2>2. PICK k \in 1..Cardinality(K) : a[k] = j
    BY <1>5
  <2> QED
    BY <1>5, <2>1, <2>2
<1>8. ASSUME NEW k \in 1..Len(u), NEW l \in 1..Len(u), k < l PROVE u[k].text # u[l].text
  <2>1. a[k] \in K /\ a[l] \in K /\ a[k] < a[l] /\ u[k] = vals[a[k]] /\ u[l] = vals[a[l]]
    BY <1>5, <1>8
  <2>2. a[k] \in 1 .. a[l] - 1
    BY <1>1, <1>2, <2>1
  <2> QED
    BY <1>3, <2>1, <2>2
<1>9. \A k, l \in 1..Len(u) : u[k].text = u[l].text => k = l
  <2> SUFFICES ASSUME NEW k \in 1..Len(u), NEW l \in 1..Len(u), u[k].text = u[l].text, k # l PROVE FALSE
    OBVIOUS
  <2>1. k < l \/ l < k
    BY <1>5
  <2> QED
    BY <1>8, <2>1
<1> QED
  BY <1>5, <1>6, <1>7, <1>9 DEF u

(* Each document is in the group of one key, and each key is of some.       *)
GroupOf(docs, by, class) ==
    LET keys == GroupKeys(docs, by)
    IN  \A i \in DOMAIN docs :
           /\ class[i] \in 1..Len(keys)
           /\ \A k \in 1..Len(keys) : class[i] = k <=> GroupKey(docs[i], by) = keys[k].text

LEMMA KeysFacts ==
    ASSUME NEW docs, IsList(docs), NEW by
    PROVE  LET keys == GroupKeys(docs, by)
           IN  /\ IsList(keys) /\ Len(keys) \in Nat /\ DOMAIN keys = 1..Len(keys)
               /\ \A k \in 1..Len(keys) : \E i \in DOMAIN docs : keys[k].text = GroupKey(docs[i], by)
               /\ \A i \in DOMAIN docs : \E k \in 1..Len(keys) : keys[k].text = GroupKey(docs[i], by)
               /\ \E class : GroupOf(docs, by, class)
               /\ docs # <<>> /\ by = "" => Len(keys) = 1
<1> DEFINE n == Len(docs)
           vals == [i \in DOMAIN docs |-> Text(GroupKey(docs[i], by))]
           keys == GroupKeys(docs, by)
           class == [i \in DOMAIN docs |->
                        CHOOSE k \in 1..Len(keys) : keys[k].text = GroupKey(docs[i], by)]
<1>1. n \in Nat /\ DOMAIN docs = 1..n /\ docs = [i \in 1..n |-> docs[i]]
  BY ListFacts
<1>2. \A i \in DOMAIN docs : vals[i].text = GroupKey(docs[i], by)
  BY DEF Text
<1>3. DOMAIN vals = DOMAIN docs /\ vals = [i \in 1..n |-> vals[i]]
  BY <1>1
<1>4. keys = FirstOfEach(vals)
  BY DEF GroupKeys
<1> HIDE DEF vals, keys, n
<1>5. IsList(vals)
  BY <1>1, <1>3, ListOf
<1>6. /\ IsList(keys) /\ Len(keys) \in Nat
      /\ \A k \in 1..Len(keys) : \E i \in DOMAIN vals : keys[k] = vals[i]
      /\ \A i \in DOMAIN vals : \E k \in 1..Len(keys) : keys[k].text = vals[i].text
      /\ \A k, l \in 1..Len(keys) : keys[k].text = keys[l].text => k = l
  <2> DEFINE u == FirstOfEach(vals)
  <2>1. /\ IsList(u) /\ Len(u) \in Nat
        /\ \A k \in 1..Len(u) : \E i \in DOMAIN vals : u[k] = vals[i]
        /\ \A i \in DOMAIN vals : \E k \in 1..Len(u) : u[k].text = vals[i].text
        /\ \A k, l \in 1..Len(u) : u[k].text = u[l].text => k = l
    BY <1>5, FirstFacts
  <2>2. u = keys
    BY <1>4
  <2> HIDE DEF u
  <2> QED
    BY <2>1, <2>2
<1>7. DOMAIN keys = 1..Len(keys)
  BY <1>6, ListFacts
<1>8. /\ \A k \in 1..Len(keys) : \E i \in DOMAIN docs : keys[k].text = GroupKey(docs[i], by)
      /\ \A i \in DOMAIN docs : \E k \in 1..Len(keys) : keys[k].text = GroupKey(docs[i], by)
  BY <1>2, <1>3, <1>6
<1>9. \A i \in DOMAIN docs : class[i] \in 1..Len(keys) /\ keys[class[i]].text = GroupKey(docs[i], by)
  BY <1>8
<1> HIDE DEF class
<1>10. \A i \in DOMAIN docs : /\ class[i] \in 1..Len(keys)
                              /\ \A k \in 1..Len(keys) : class[i] = k <=> GroupKey(docs[i], by) = keys[k].text
  BY <1>6, <1>9
<1>11. GroupOf(docs, by, class)
  BY <1>10 DEF GroupOf, keys
<1>12. ASSUME docs # <<>>, by = "" PROVE Len(keys) = 1
  <2>1. \A i \in DOMAIN docs : GroupKey(docs[i], by) = ""
    BY <1>12 DEF GroupKey
  <2>2. n # 0
    <3>1. CASE n = 0
      <4>1. docs = <<>>
        BY <1>1, <3>1
      <4> QED
        BY <1>12, <4>1
    <3> QED
      BY <3>1
  <2>3. 1 \in DOMAIN docs
    BY <1>1, <2>2
  <2>4. Len(keys) >= 1
    BY <1>6, <1>8, <2>3
  <2>5. \A k \in 1..Len(keys) : keys[k].text = ""
    BY <1>8, <2>1
  <2>6. ~(Len(keys) >= 2)
    <3>1. CASE Len(keys) >= 2
      <4>1. 1 \in 1..Len(keys) /\ 2 \in 1..Len(keys) /\ 1 # 2
        BY <1>6, <3>1
      <4> QED
        BY <1>6, <2>5, <4>1
    <3> QED
      BY <3>1
  <2>7. Len(keys) \in Nat
    BY <1>6
  <2>8. \A x \in Nat : x >= 1 /\ ~(x >= 2) => x = 1
    OBVIOUS
  <2> QED
    BY <2>4, <2>6, <2>7, <2>8
<1> QED
  BY <1>6, <1>7, <1>8, <1>11, <1>12 DEF keys

LEMMA NumberFacts ==
    /\ \A n : Number(n).nums = {n} /\ ~IsNullish(Number(n)) /\ Number(n).text = ToString(n)
    /\ \A nums \in Sums : NumberOf(nums).nums = nums
    /\ \A text : Text(text).text = text
<1>1. \A n : Number(n).nums = {n} /\ ~IsNullish(Number(n)) /\ Number(n).text = ToString(n)
  BY DEF Number, IsNullish
<1>2. ASSUME NEW nums \in Sums PROVE NumberOf(nums).nums = nums
  <2>1. CASE nums = {}
    BY <2>1 DEF NumberOf, NaN
  <2>2. CASE \E n \in Int : nums = {n}
    <3>1. PICK n \in Int : nums = {n}
      BY <2>2
    <3>2. nums # {} /\ (CHOOSE m \in nums : TRUE) = n
      BY <3>1
    <3> QED
      BY <1>1, <3>1, <3>2 DEF NumberOf
  <2> QED
    BY <2>1, <2>2 DEF Sums
<1> QED
  BY <1>1, <1>2 DEF Text

(* What $group makes of its members.                                        *)
(* The fields of a document that no question uses for something else.       *)
Nameable(f) == f \notin {"", "_id", "size", "sum"}

LEMMA GroupedSizes ==
    ASSUME NEW members, NEW key, NEW f, Nameable(f),
           NEW group, group = Grouped(members, f, Sizes(f).accs, key)
    PROVE  /\ group["size"] = Number(Len(members))
           /\ group["sum"] = NumberOf(SumOf(members, f))
           /\ group[f] = key
<1> DEFINE size == [name |-> "size", op |-> "$count", field |-> ""]
           sum == [name |-> "sum", op |-> "$sum", field |-> f]
           accs == {size, sum}
           given == {acc \in accs : Given(members, acc)}
           names == {acc.name : acc \in given}
           g == [name \in names \cup ({f} \ {""}) |->
                    IF name \notin names THEN key
                    ELSE LET acc == CHOOSE acc \in given : acc.name = name
                         IN  Accumulate(members, acc.op, acc.field)]
<1>1. size.name = "size" /\ size.op = "$count" /\ sum.name = "sum" /\ sum.op = "$sum" /\ sum.field = f
  OBVIOUS
<1>2. Sizes(f).accs = accs
  BY DEF Sizes
<1> HIDE DEF size, sum
<1>3. given = accs
  BY <1>1 DEF Given
<1>4. names = {"size", "sum"}
  BY <1>1, <1>3
<1>5. Grouped(members, f, accs, key) = g
  BY DEF Grouped
<1>6. /\ (CHOOSE acc \in given : acc.name = "size") = size
      /\ (CHOOSE acc \in given : acc.name = "sum") = sum
  BY <1>1, <1>3
<1> HIDE DEF given, names
<1>7. g["size"] = Accumulate(members, size.op, size.field)
  BY <1>4, <1>6
<1>8. g["sum"] = Accumulate(members, sum.op, sum.field)
  BY <1>4, <1>6
<1>9. g[f] = key
  BY <1>4 DEF Nameable
<1> HIDE DEF g, accs
<1>10. Accumulate(members, size.op, size.field) = Number(Len(members))
  BY <1>1 DEF Accumulate
<1>11. Accumulate(members, sum.op, sum.field) = NumberOf(SumOf(members, f))
  BY <1>1 DEF Accumulate
<1> QED
  BY <1>2, <1>5, <1>7, <1>8, <1>9, <1>10, <1>11

NoName(by) == by = ""
Collects(how) == how \notin {"$first", "$last"}

IsTotal(group, val) == group = [name \in {"total"} |-> val]

LEMMA GroupedTotals ==
    ASSUME NEW members, NEW key, NEW f, NEW how, Collects(how),
           NEW none, NoName(none), NEW group, group = Grouped(members, none, Totals(how, f).accs, key)
    PROVE  IsTotal(group, Accumulate(members, how, f))
<1> DEFINE total == [name |-> "total", op |-> how, field |-> f]
           accs == {total}
           given == {acc \in accs : Given(members, acc)}
           names == {acc.name : acc \in given}
           Val(name) == IF name \notin names THEN key
                       ELSE LET acc == CHOOSE acc \in given : acc.name = name
                            IN  Accumulate(members, acc.op, acc.field)
           g == [name \in names \cup ({""} \ {""}) |-> Val(name)]
<1>0. group = Grouped(members, "", Totals(how, f).accs, key)
  BY Zenon DEF NoName
<1>1. total.name = "total" /\ total.op = how /\ total.field = f
  OBVIOUS
<1>2. Totals(how, f).accs = accs
  BY DEF Totals
<1> HIDE DEF total
<1>3. given = accs
  BY <1>1 DEF Given, Collects
<1>4. names = {"total"} /\ names \cup ({""} \ {""}) = {"total"}
  <2>1. names = {"total"}
    BY <1>1, <1>3
  <2> HIDE DEF names
  <2> QED
    BY <2>1, Zenon
<1>5. Grouped(members, "", accs, key) = g
  BY DEF Grouped
<1>6. (CHOOSE acc \in given : acc.name = "total") = total
  BY <1>1, <1>3
<1> HIDE DEF given, names
<1>7. g["total"] = Accumulate(members, total.op, total.field)
  BY <1>4, <1>6
<1> HIDE DEF Val
<1>8. g = [name \in {"total"} |-> g["total"]]
  BY <1>4
<1> HIDE DEF g, accs
<1> QED
  BY <1>0, <1>1, <1>2, <1>5, <1>7, <1>8 DEF IsTotal

(* Documents that have a field alike.                                       *)
Alike(a, b, f) ==
    /\ IsList(a) /\ IsList(b) /\ Len(a) = Len(b)
    /\ \A i \in 1..Len(a) :
         /\ f \in DOMAIN a[i] <=> f \in DOMAIN b[i]
         /\ f \in DOMAIN a[i] => a[i][f] = b[i][f]

LEMMA AlikeFacts ==
    ASSUME NEW a, NEW b, NEW f, Alike(a, b, f)
    PROVE  /\ SumOf(a, f) = SumOf(b, f) /\ NumbersOf(a, f) = NumbersOf(b, f)
           /\ ValuesOf(a, f) = ValuesOf(b, f)
<1>1. /\ IsList(a) /\ IsList(b) /\ Len(a) = Len(b) /\ Len(a) \in Nat
      /\ DOMAIN a = 1..Len(a) /\ DOMAIN b = 1..Len(a)
  BY ListFacts DEF Alike
<1>2. \A i \in 1..Len(a) : /\ f \in DOMAIN a[i] <=> f \in DOMAIN b[i]
                           /\ f \in DOMAIN a[i] => a[i][f] = b[i][f]
  BY DEF Alike
<1>3. WithField(a, f) = WithField(b, f) /\ WithField(a, f) \in SUBSET (1..Len(a))
  BY <1>1, <1>2 DEF WithField
<1>4. \A i \in WithField(a, f) : a[i][f] = b[i][f]
  BY <1>1, <1>2 DEF WithField
<1>5. SumOf(a, f) = SumOf(b, f)
  <2>1. \A i \in 1..Len(a) : Summand(a[i], f) = Summand(b[i], f)
    BY <1>2 DEF Summand
  <2>2. [i \in DOMAIN a |-> Summand(a[i], f)] = [i \in DOMAIN b |-> Summand(b[i], f)]
    BY <1>1, <2>1
  <2> QED
    BY <2>2 DEF SumOf
<1>6. NumbersOf(a, f) = NumbersOf(b, f)
  <2>1. {a[i][f].nums : i \in WithField(a, f)} = {b[i][f].nums : i \in WithField(b, f)}
    BY <1>3, <1>4
  <2> QED
    BY <2>1 DEF NumbersOf
<1>7. ValuesOf(a, f) = ValuesOf(b, f)
  <2> DEFINE K == WithField(a, f)
             p == Having(a, f)
             q == Having(b, f)
  <2>1. p = Picked(a, K) /\ q = Picked(b, K)
    BY <1>3 DEF Having
  <2> HIDE DEF K, p, q
  <2>2. K \in SUBSET DOMAIN a /\ K \in SUBSET DOMAIN b
    BY <1>1, <1>3 DEF K
  <2>3. /\ IsList(p) /\ Len(p) = Cardinality(K)
        /\ \A k \in 1..Cardinality(K) : Ascending(K)[k] \in K /\ p[k] = a[Ascending(K)[k]]
    BY <1>1, <2>1, <2>2, ListPicked
  <2>4. /\ IsList(q) /\ Len(q) = Cardinality(K)
        /\ \A k \in 1..Cardinality(K) : Ascending(K)[k] \in K /\ q[k] = b[Ascending(K)[k]]
    BY <1>1, <2>1, <2>2, ListPicked
  <2>5. DOMAIN p = 1..Cardinality(K) /\ DOMAIN q = 1..Cardinality(K)
    BY <2>3, <2>4, ListFacts
  <2>6. \A k \in 1..Cardinality(K) : p[k][f] = q[k][f]
    BY <1>4, <2>3, <2>4 DEF K
  <2>7. [i \in DOMAIN p |-> p[i][f]] = [i \in DOMAIN q |-> q[i][f]]
    BY <2>5, <2>6
  <2> QED
    BY <2>7 DEF ValuesOf, p, q
<1> QED
  BY <1>5, <1>6, <1>7

(* What a filter selects, as documents and with their _id.                  *)
LEMMA SelectedFacts ==
    ASSUME RowsShaped, NEW filter
    PROVE  LET matched == Matched(tableRows, filter)
               docs == Selected(tableRows, filter)
           IN  /\ IsList(matched) /\ IsList(docs) /\ Len(matched) = Len(docs)
               /\ \A i \in 1..Len(docs) : \E row \in {tableRows[j] : j \in DOMAIN tableRows} :
                     matched[i] = RowToValue(row) /\ docs[i] = row.doc
               /\ \A row \in {tableRows[j] : j \in DOMAIN tableRows} :
                     MatchRow(row, filter) => \E i \in 1..Len(docs) : matched[i] = RowToValue(row)
<1> DEFINE n == Len(tableRows)
           values == RowValues(tableRows)
           K == {i \in DOMAIN values : Passes(values[i], filter)}
           L == {i \in DOMAIN tableRows : MatchRow(tableRows[i], filter)}
           hit == Picked(tableRows, L)
           matched == Matched(tableRows, filter)
           docs == Selected(tableRows, filter)
           c == Cardinality(L)
           a == Ascending(L)
<1>1. n \in Nat /\ DOMAIN tableRows = 1..n /\ IsList(tableRows)
  BY ListFacts DEF RowsShaped
<1>2. DOMAIN values = 1..n /\ values = [i \in 1..n |-> values[i]]
      /\ \A i \in 1..n : values[i] = RowToValue(tableRows[i])
  BY <1>1 DEF RowValues
<1>3. K = L /\ L \in SUBSET DOMAIN tableRows
  BY <1>1, <1>2 DEF MatchRow
<1>4. matched = Picked(values, K) /\ docs = [i \in DOMAIN hit |-> hit[i].doc]
  BY DEF Matched, Passing, Selected
<1>5. \A i \in DOMAIN tableRows : MatchRow(tableRows[i], filter) => i \in L
  OBVIOUS
<1> HIDE DEF values, K, L, n, matched, docs
<1>6. IsList(values) /\ L \in SUBSET DOMAIN values
  BY <1>1, <1>2, <1>3, ListOf
<1>7. /\ IsList(matched) /\ Len(matched) = c /\ c \in Nat
      /\ \A k \in 1..c : a[k] \in L /\ matched[k] = values[a[k]]
      /\ \A x \in L : \E k \in 1..c : a[k] = x
  BY <1>3, <1>4, <1>6, ListPicked
<1>8. /\ IsList(hit) /\ Len(hit) = c
      /\ \A k \in 1..c : hit[k] = tableRows[a[k]]
  BY <1>1, <1>3, ListPicked
<1> HIDE DEF hit, a, c
<1>9. DOMAIN hit = 1..c
  BY <1>8, ListFacts
<1>10. docs = [i \in 1..c |-> docs[i]] /\ \A i \in 1..c : docs[i] = tableRows[a[i]].doc
  BY <1>4, <1>8, <1>9
<1>11. IsList(docs) /\ Len(docs) = c
  BY <1>7, <1>10, ListOf
<1>12. ASSUME NEW i \in 1..c
       PROVE  \E row \in {tableRows[j] : j \in DOMAIN tableRows} :
                  matched[i] = RowToValue(row) /\ docs[i] = row.doc
  <2>1. a[i] \in DOMAIN tableRows
    BY <1>3, <1>7
  <2>2. matched[i] = RowToValue(tableRows[a[i]]) /\ docs[i] = tableRows[a[i]].doc
    BY <1>1, <1>2, <1>7, <1>10, <2>1
  <2> QED
    BY <2>1, <2>2
<1>13. ASSUME NEW j \in DOMAIN tableRows, MatchRow(tableRows[j], filter)
       PROVE  \E i \in 1..c : matched[i] = RowToValue(tableRows[j])
  <2>1. j \in L
    BY <1>5, <1>13
  <2>2. PICK i \in 1..c : a[i] = j
    BY <1>7, <2>1
  <2> QED
    BY <1>1, <1>2, <1>7, <2>2
<1>14. \A row \in {tableRows[j] : j \in DOMAIN tableRows} :
          MatchRow(row, filter) => \E i \in 1..c : matched[i] = RowToValue(row)
  BY <1>13
<1> QED
  BY <1>7, <1>11, <1>12, <1>14 DEF matched, docs

LEMMA SelectedAlike ==
    ASSUME RowsShaped, NEW filter, NEW f, f # "_id"
    PROVE  Alike(Matched(tableRows, filter), Selected(tableRows, filter), f)
<1> DEFINE matched == Matched(tableRows, filter)
           docs == Selected(tableRows, filter)
<1>1. /\ IsList(matched) /\ IsList(docs) /\ Len(matched) = Len(docs)
      /\ \A i \in 1..Len(docs) : \E row \in {tableRows[j] : j \in DOMAIN tableRows} :
            matched[i] = RowToValue(row) /\ docs[i] = row.doc
  BY SelectedFacts
<1>2. ASSUME NEW row
      PROVE  /\ f \in DOMAIN RowToValue(row) <=> f \in DOMAIN row.doc
             /\ f \in DOMAIN row.doc => RowToValue(row)[f] = row.doc[f]
  BY DEF RowToValue, Merged
<1> HIDE DEF matched, docs
<1>3. ASSUME NEW i \in 1..Len(matched)
      PROVE  /\ f \in DOMAIN matched[i] <=> f \in DOMAIN docs[i]
             /\ f \in DOMAIN matched[i] => matched[i][f] = docs[i][f]
  <2>1. PICK row : matched[i] = RowToValue(row) /\ docs[i] = row.doc
    BY <1>1
  <2> QED
    BY <1>2, <2>1
<1> QED
  BY <1>1, <1>3 DEF Alike, matched, docs

(* The groups of a field.                                                   *)
Summands(docs, f) == [i \in DOMAIN docs |-> Summand(docs[i], f)]

LEMMA SumOfPicked ==
    ASSUME NEW docs, IsList(docs), NEW K \in SUBSET DOMAIN docs, NEW f
    PROVE  SumOf(Picked(docs, K), f) = Total(Picked(Summands(docs, f), K))
<1> DEFINE p == Picked(docs, K)
           s == Summands(docs, f)
           t == Summands(p, f)
           q == Picked(s, K)
           c == Cardinality(K)
<1>1. Len(docs) \in Nat /\ DOMAIN docs = 1..Len(docs)
  BY ListFacts
<1>2. /\ IsList(p) /\ Len(p) = c /\ c \in Nat
      /\ \A k \in 1..c : Ascending(K)[k] \in K /\ p[k] = docs[Ascending(K)[k]]
  BY ListPicked
<1>3. s = [i \in 1..Len(docs) |-> s[i]] /\ \A i \in DOMAIN docs : s[i] = Summand(docs[i], f)
  BY <1>1 DEF Summands
<1> HIDE DEF p, s, c
<1>4. DOMAIN p = 1..c
  BY <1>2, ListFacts
<1>5. t = [i \in 1..c |-> t[i]] /\ \A i \in 1..c : t[i] = Summand(p[i], f)
  BY <1>4 DEF Summands
<1>6. IsList(s) /\ DOMAIN s = DOMAIN docs
  BY <1>1, <1>3, ListOf
<1>7. /\ IsList(q) /\ Len(q) = c
      /\ \A k \in 1..c : q[k] = s[Ascending(K)[k]]
  BY <1>6, ListPicked DEF c
<1> HIDE DEF t, q
<1>8. IsList(t) /\ Len(t) = c
  BY <1>2, <1>5, ListOf
<1>9. ASSUME NEW k \in 1..c PROVE t[k] = q[k]
  <2>1. Ascending(K)[k] \in DOMAIN docs
    BY <1>2
  <2>2. t[k] = Summand(docs[Ascending(K)[k]], f)
    BY <1>2, <1>5
  <2>3. q[k] = Summand(docs[Ascending(K)[k]], f)
    BY <1>3, <1>7, <2>1
  <2> QED
    BY <2>2, <2>3
<1>10. t = q
  BY <1>7, <1>8, <1>9, ListEqual
<1>11. SumOf(p, f) = Total(t)
  BY DEF SumOf, t, Summands
<1> QED
  BY <1>10, <1>11 DEF p, q, s

(* Each document is in one group, so the groups add up to all of them.      *)
LEMMA MembersOf ==
    ASSUME NEW docs, IsList(docs), NEW f, NEW class, GroupOf(docs, f, class),
           NEW k \in 1..Len(GroupKeys(docs, f))
    PROVE  Members(docs, f, GroupKeys(docs, f)[k]) = Class(docs, class, k)
<1> DEFINE keys == GroupKeys(docs, f)
           A == {i \in DOMAIN docs : GroupKey(docs[i], f) = keys[k].text}
           B == {i \in DOMAIN docs : class[i] = k}
<1>1. A = B
  BY DEF GroupOf
<1>2. Members(docs, f, keys[k]) = Picked(docs, A) /\ Class(docs, class, k) = Picked(docs, B)
  BY DEF Members, Class
<1> QED
  BY <1>1, <1>2

LEMMA GroupAt ==
    ASSUME NEW docs, IsList(docs), NEW f, NEW accs, NEW class, GroupOf(docs, f, class)
    PROVE  LET groups == Group(docs, f, accs)
               keys == GroupKeys(docs, f)
           IN  /\ IsList(groups) /\ Len(groups) = Len(keys) /\ DOMAIN groups = 1..Len(keys)
               /\ \A k \in 1..Len(keys) :
                    groups[k] = Grouped(Class(docs, class, k), f, accs, keys[k])
<1> DEFINE groups == Group(docs, f, accs)
           keys == GroupKeys(docs, f)
           m == Len(keys)
           GroupOfKey(k) == Grouped(Members(docs, f, keys[k]), f, accs, keys[k])
<1>1. IsList(keys) /\ m \in Nat /\ DOMAIN keys = 1..m
  BY KeysFacts
<1>2. groups = [k \in 1..m |-> GroupOfKey(k)]
  BY <1>1 DEF Group
<1>3. \A k \in 1..m : GroupOfKey(k) = Grouped(Class(docs, class, k), f, accs, keys[k])
  BY MembersOf
<1> HIDE DEF groups, GroupOfKey
<1>4. groups = [k \in 1..m |-> groups[k]] /\ \A k \in 1..m : groups[k] = GroupOfKey(k)
  BY <1>2
<1>5. IsList(groups) /\ Len(groups) = m /\ DOMAIN groups = 1..m
  <2> HIDE DEF m
  <2> QED
    BY <1>1, <1>4, ListOf
<1> QED
  BY <1>3, <1>4, <1>5 DEF groups

LEMMA OnesAddUp ==
    ASSUME NEW docs, IsList(docs), NEW class, NEW k
    PROVE  {Len(Class(docs, class, k))} = Total(Class([i \in DOMAIN docs |-> {1}], class, k))
<1> DEFINE ones == [i \in DOMAIN docs |-> {1}]
           K == {i \in DOMAIN docs : class[i] = k}
           c == Cardinality(K)
<1>1. Len(docs) \in Nat /\ DOMAIN docs = 1..Len(docs)
  BY ListFacts
<1>2. ones = [i \in 1..Len(docs) |-> ones[i]] /\ DOMAIN ones = DOMAIN docs
      /\ \A i \in DOMAIN docs : ones[i] = {1}
  BY <1>1
<1> HIDE DEF ones
<1>3. IsList(ones)
  BY <1>1, <1>2, ListOf
<1>4. Class(docs, class, k) = Picked(docs, K) /\ Class(ones, class, k) = Picked(ones, K)
  BY <1>2 DEF Class
<1>5. K \in SUBSET DOMAIN docs
  OBVIOUS
<1> HIDE DEF K
<1>6. Len(Picked(docs, K)) = c
  BY <1>5, ListPicked
<1>7. Len(Picked(ones, K)) = c /\ c \in Nat
      /\ \A i \in 1..c : Ascending(K)[i] \in K /\ Picked(ones, K)[i] = ones[Ascending(K)[i]]
  BY <1>2, <1>3, <1>5, ListPicked
<1>8. \A i \in 1..c : Picked(ones, K)[i] = {1}
  BY <1>2, <1>5, <1>7
<1>9. Total(Picked(ones, K)) = {c}
  BY <1>7, <1>8, TotalOnes
<1> QED
  BY <1>4, <1>6, <1>9 DEF ones

LEMMA PickedSums ==
    ASSUME NEW parts, IsList(parts), NEW K \in SUBSET DOMAIN parts,
           \A i \in DOMAIN parts : parts[i] \in Sums
    PROVE  Total(Picked(parts, K)) \in Sums
<1> DEFINE c == Cardinality(K)
           q == Picked(parts, K)
<1>1. /\ IsList(q) /\ Len(q) = c /\ c \in Nat
      /\ \A i \in 1..c : Ascending(K)[i] \in K /\ q[i] = parts[Ascending(K)[i]]
  BY ListPicked
<1> HIDE DEF c, q
<1>2. \A i \in 1..c : q[i] \in Sums
  BY <1>1
<1> QED
  BY <1>1, <1>2, TotalIsSum DEF q

KeyTexts(groups, f) == {g[f].text : g \in ToSet(groups)}
AddUp(groups, docs, f) ==
    /\ SumOver(groups, "size") = {Len(docs)}
    /\ SumOver(groups, "sum") = SumOf(docs, f)
    /\ KeyTexts(groups, f) = {GroupKey(docs[i], f) : i \in DOMAIN docs}

LEMMA GroupsAddUp ==
    ASSUME NEW docs, IsList(docs), NEW f, Nameable(f),
           \A i \in DOMAIN docs : Summand(docs[i], f) \in Sums
    PROVE  AddUp(Group(docs, f, Sizes(f).accs), docs, f)
<1>0. PICK accs : accs = Sizes(f).accs
  OBVIOUS
<1> DEFINE groups == Group(docs, f, accs)
           keys == GroupKeys(docs, f)
           m == Len(keys)
           ones == [i \in DOMAIN docs |-> {1}]
           sums == Summands(docs, f)
<1>1. Len(docs) \in Nat /\ DOMAIN docs = 1..Len(docs)
  BY ListFacts
<1>2. /\ IsList(keys) /\ m \in Nat
      /\ \A k \in 1..m : \E i \in DOMAIN docs : keys[k].text = GroupKey(docs[i], f)
      /\ \A i \in DOMAIN docs : \E k \in 1..m : keys[k].text = GroupKey(docs[i], f)
      /\ \E class : GroupOf(docs, f, class)
  BY KeysFacts
<1>3. PICK class : GroupOf(docs, f, class)
  BY <1>2
<1>4. \A i \in DOMAIN docs : class[i] \in 1..m
  BY <1>3 DEF GroupOf
<1>5. /\ DOMAIN groups = 1..m
      /\ \A k \in 1..m : groups[k] = Grouped(Class(docs, class, k), f, accs, keys[k])
  BY <1>3, GroupAt
<1>6. ASSUME NEW k \in 1..m
      PROVE  /\ groups[k]["size"] = Number(Len(Class(docs, class, k)))
             /\ groups[k]["sum"] = NumberOf(SumOf(Class(docs, class, k), f))
             /\ groups[k][f] = keys[k]
  <2> HIDE DEF groups, keys, m, ones, sums
  <2>0. PICK members, key : members = Class(docs, class, k) /\ key = keys[k]
    OBVIOUS
  <2>9. PICK g : g = Grouped(members, f, Sizes(f).accs, key)
    OBVIOUS
  <2>1. /\ g["size"] = Number(Len(members))
        /\ g["sum"] = NumberOf(SumOf(members, f))
        /\ g[f] = key
    BY <2>9, GroupedSizes
  <2>2. groups[k] = g
    BY <1>0, <1>5, <2>0, <2>9
  <2> QED
    BY <2>0, <2>1, <2>2
<1>7. /\ ones = [i \in 1..Len(docs) |-> ones[i]] /\ DOMAIN ones = DOMAIN docs
      /\ sums = [i \in 1..Len(docs) |-> sums[i]] /\ DOMAIN sums = DOMAIN docs
      /\ \A i \in DOMAIN docs : ones[i] = {1} /\ sums[i] = Summand(docs[i], f)
  BY <1>1 DEF Summands
<1> HIDE DEF groups, keys, m, ones, sums
<1>8. IsList(ones) /\ Len(ones) = Len(docs) /\ IsList(sums) /\ Len(sums) = Len(docs)
  BY <1>1, <1>7, ListOf
<1>9. (\A i \in DOMAIN docs : ones[i] \in Sums /\ sums[i] \in Sums) /\ Total(ones) = {Len(docs)}
  <2>0. 1 \in Int
    OBVIOUS
  <2>1. {1} \in Sums
    BY <2>0, PlusFacts
  <2>2. Total(ones) = {Len(docs)}
    BY <1>1, <1>7, <1>8, TotalOnes
  <2> QED
    BY <1>7, <2>1, <2>2
<1>a. /\ \A i \in DOMAIN ones : ones[i] \in Sums /\ class[i] \in 1..m
      /\ \A i \in DOMAIN sums : sums[i] \in Sums /\ class[i] \in 1..m
  BY <1>4, <1>7, <1>9
<1>10. Total([k \in 1..m |-> Total(Class(ones, class, k))]) = Total(ones)
  BY <1>2, <1>8, <1>a, ClassesAddUp
<1>11. Total([k \in 1..m |-> Total(Class(sums, class, k))]) = Total(sums)
  BY <1>2, <1>8, <1>a, ClassesAddUp
<1>12. SumOver(groups, "size") = {Len(docs)}
  <2>1. ASSUME NEW k \in 1..m PROVE groups[k]["size"].nums = Total(Class(ones, class, k))
    <3>1. groups[k]["size"].nums = {Len(Class(docs, class, k))}
      BY <1>6, NumberFacts
    <3>2. {Len(Class(docs, class, k))} = Total(Class(ones, class, k))
      BY OnesAddUp DEF ones
    <3> QED
      BY <3>1, <3>2
  <2>2. [i \in DOMAIN groups |-> groups[i]["size"].nums]
          = [k \in 1..m |-> Total(Class(ones, class, k))]
    BY <1>5, <2>1
  <2> QED
    BY <1>9, <1>10, <2>2 DEF SumOver
<1>13. SumOver(groups, "sum") = SumOf(docs, f)
  <2>1. ASSUME NEW k \in 1..m PROVE groups[k]["sum"].nums = Total(Class(sums, class, k))
    <3> DEFINE K == {i \in DOMAIN docs : class[i] = k}
    <3>1. Class(docs, class, k) = Picked(docs, K) /\ Class(sums, class, k) = Picked(sums, K)
      BY <1>7 DEF Class
    <3>2. K \in SUBSET DOMAIN docs
      OBVIOUS
    <3> HIDE DEF K
    <3>a. K \in SUBSET DOMAIN sums
      BY <1>7, <3>2
    <3>3. SumOf(Picked(docs, K), f) = Total(Picked(sums, K))
      BY <3>2, SumOfPicked DEF sums
    <3>6. Total(Picked(sums, K)) \in Sums
      BY <1>8, <1>a, <3>a, PickedSums
    <3>7. NumberOf(Total(Picked(sums, K))).nums = Total(Picked(sums, K))
      BY <3>6, NumberFacts
    <3>8. groups[k]["sum"] = NumberOf(SumOf(Class(docs, class, k), f))
      BY <1>6
    <3> QED
      BY <3>1, <3>3, <3>7, <3>8
  <2>2. [i \in DOMAIN groups |-> groups[i]["sum"].nums]
          = [k \in 1..m |-> Total(Class(sums, class, k))]
    BY <1>5, <2>1
  <2>3. SumOf(docs, f) = Total(sums)
    BY DEF SumOf, sums, Summands
  <2> QED
    BY <1>11, <2>2, <2>3 DEF SumOver
<1>14. {g[f].text : g \in ToSet(groups)} = {GroupKey(docs[i], f) : i \in DOMAIN docs}
  <2>1. \A x : x \in ToSet(groups) <=> \E k \in 1..m : x = groups[k]
    BY <1>5 DEF ToSet
  <2>2. ASSUME NEW g \in ToSet(groups) PROVE \E i \in DOMAIN docs : g[f].text = GroupKey(docs[i], f)
    <3>1. PICK k \in 1..m : g = groups[k]
      BY <2>1
    <3> QED
      BY <1>2, <1>6, <3>1
  <2>3. ASSUME NEW i \in DOMAIN docs PROVE \E g \in ToSet(groups) : g[f].text = GroupKey(docs[i], f)
    <3>1. PICK k \in 1..m : keys[k].text = GroupKey(docs[i], f)
      BY <1>2
    <3>2. groups[k] \in ToSet(groups) /\ groups[k][f] = keys[k]
      BY <1>6, <2>1
    <3> QED
      BY <3>1, <3>2
  <2> QED
    BY <2>2, <2>3
<1> QED
  BY <1>0, <1>12, <1>13, <1>14 DEF groups, KeyTexts, AddUp

IsSingle(groups, val) == \E g : groups = <<g>> /\ IsTotal(g, val)

LEMMA OneGroup ==
    ASSUME NEW docs, IsList(docs), docs # <<>>, NEW how, Collects(how), NEW f,
           NEW none, NoName(none)
    PROVE  IsSingle(Group(docs, none, Totals(how, f).accs), Accumulate(docs, how, f))
<1> DEFINE keys == GroupKeys(docs, none)
<1>0. PICK accs : accs = Totals(how, f).accs
  OBVIOUS
<1>1. IsList(keys) /\ Len(keys) = 1 /\ \E class : GroupOf(docs, none, class)
  BY KeysFacts, Zenon DEF NoName
<1>2. PICK class : GroupOf(docs, none, class)
  BY <1>1
<1>3. \A i \in DOMAIN docs : class[i] = 1
  BY <1>1, <1>2 DEF GroupOf
<1>4. {i \in DOMAIN docs : class[i] = 1} = DOMAIN docs
  BY <1>3
<1>5. Class(docs, class, 1) = docs
  <2>1. Class(docs, class, 1) = Picked(docs, DOMAIN docs)
    BY <1>4 DEF Class
  <2> QED
    BY <2>1, PickedAll
<1> DEFINE groups == Group(docs, none, accs)
<1>6. /\ IsList(groups) /\ Len(groups) = 1
      /\ groups[1] = Grouped(Class(docs, class, 1), none, accs, keys[1])
  <2>1. /\ IsList(groups) /\ Len(groups) = Len(keys)
        /\ \A k \in 1..Len(keys) : groups[k] = Grouped(Class(docs, class, k), none, accs, keys[k])
    BY <1>2, GroupAt
  <2>2. 1 \in 1..Len(keys)
    BY <1>1
  <2> QED
    BY <1>1, <2>1, <2>2
<1>7. PICK key, g : key = keys[1] /\ g = Grouped(docs, none, Totals(how, f).accs, key)
  OBVIOUS
<1> HIDE DEF groups, keys
<1>7a. g = Grouped(docs, none, Totals(how, f).accs, key)
  BY <1>7
<1>8. IsTotal(g, Accumulate(docs, how, f))
  BY <1>7a, GroupedTotals
<1>9. groups[1] = g
  BY <1>0, <1>5, <1>6, <1>7
<1>10. groups = <<g>>
  <2>0. <<g>> \in Seq({g}) /\ Len(<<g>>) = 1 /\ <<g>>[1] = g
    OBVIOUS
  <2>1. IsList(<<g>>) /\ Len(<<g>>) = 1 /\ <<g>>[1] = g
    BY <2>0, ListSeq
  <2> QED
    <3>1. \A i \in 1..1 : groups[i] = <<g>>[i]
      BY <1>9, <2>1
    <3> QED
      BY <1>6, <2>1, <3>1, ListEqual
<1> QED
  BY <1>0, <1>8, <1>10 DEF groups, IsSingle

LEMMA MoreStages ==
    ASSUME NEW docs, NEW x, NEW y
    PROVE  /\ Stage(docs, [op |-> "$group", by |-> x, accs |-> y]) = Group(docs, x, y)
           /\ Stage(docs, [op |-> "$unwind", field |-> x]) = Unwind(docs, x)
           /\ Stage(docs, [op |-> "$count", name |-> x]) = << [f \in {x} |-> Number(Len(docs))] >>
<1>1. Stage(docs, [op |-> "$group", by |-> x, accs |-> y]) = Group(docs, x, y)
  BY DEF Stage
<1>2. Stage(docs, [op |-> "$unwind", field |-> x]) = Unwind(docs, x)
  BY DEF Stage
<1>3. Stage(docs, [op |-> "$count", name |-> x]) = << [f \in {x} |-> Number(Len(docs))] >>
  BY DEF Stage
<1> QED
  BY <1>1, <1>2, <1>3

LEMMA StagesJoin ==
    ASSUME NEW a, NEW b, NEW c
    PROVE  <<a>> \o <<b>> = <<a, b>> /\ <<a>> \o <<b, c>> = <<a, b, c>>
<1> DEFINE T == {a, b, c}
<1>0. PICK p, q, r, t, u : p = <<a>> /\ q = <<b>> /\ r = <<b, c>> /\ t = <<a, b>> /\ u = <<a, b, c>>
  OBVIOUS
<1>1. /\ p \in Seq(T) /\ q \in Seq(T) /\ r \in Seq(T) /\ t \in Seq(T) /\ u \in Seq(T)
      /\ Len(p) = 1 /\ Len(q) = 1 /\ Len(r) = 2 /\ Len(t) = 2 /\ Len(u) = 3
      /\ p[1] = a /\ q[1] = b /\ r[1] = b /\ r[2] = c /\ t[1] = a /\ t[2] = b
      /\ u[1] = a /\ u[2] = b /\ u[3] = c
  BY <1>0
<1> HIDE DEF T
<1>2. p \o q = t
  <2>1. /\ p \o q \in Seq(T) /\ Len(p \o q) = Len(p) + Len(q)
        /\ \A i \in 1..(Len(p) + Len(q)) : (p \o q)[i] = IF i <= Len(p) THEN p[i] ELSE q[i - Len(p)]
    BY <1>1, ConcatProperties, Zenon
  <2>2. IsList(p \o q) /\ IsList(t)
    BY <1>1, <2>1, ListSeq
  <2>3. Len(p \o q) = 2 /\ \A i \in 1..2 : (p \o q)[i] = t[i]
    <3>1. Len(p) + Len(q) = 2
      BY <1>1
    <3>2. (p \o q)[1] = p[1] /\ (p \o q)[2] = q[1]
      BY <1>1, <2>1, <3>1
    <3> QED
      BY <1>1, <2>1, <3>1, <3>2
  <2> QED
    BY <1>1, <2>2, <2>3, ListEqual
<1>3. p \o r = u
  <2>1. /\ p \o r \in Seq(T) /\ Len(p \o r) = Len(p) + Len(r)
        /\ \A i \in 1..(Len(p) + Len(r)) : (p \o r)[i] = IF i <= Len(p) THEN p[i] ELSE r[i - Len(p)]
    BY <1>1, ConcatProperties, Zenon
  <2>2. IsList(p \o r) /\ IsList(u)
    BY <1>1, <2>1, ListSeq
  <2>3. Len(p \o r) = 3 /\ \A i \in 1..3 : (p \o r)[i] = u[i]
    <3>1. Len(p) + Len(r) = 3
      BY <1>1
    <3>2. (p \o r)[1] = p[1] /\ (p \o r)[2] = r[1] /\ (p \o r)[3] = r[2]
      BY <1>1, <2>1, <3>1
    <3> QED
      BY <1>1, <2>1, <3>1, <3>2
  <2> QED
    BY <1>1, <2>2, <2>3, ListEqual
<1> QED
  BY <1>0, <1>2, <1>3

(* What a match and one more stage, or two, make of the rows.               *)
LEMMA AskedOne ==
    ASSUME NEW tab, NEW filter, NEW s
    PROVE  Aggregate(tab, << [op |-> "$match", filter |-> filter] >> \o <<s>>)
             = Stage(Matched(tab, filter), s)
<1>0. PICK m : m = [op |-> "$match", filter |-> filter]
  OBVIOUS
<1>1. \A docs : Stage(docs, m) = Passing(docs, filter)
  BY <1>0, StageFacts
<1>2. <<m>> \o <<s>> = <<m, s>>
  BY StagesJoin
<1>3. Aggregate(tab, <<m, s>>) = Stage(Matched(tab, filter), s)
  <2>0. PICK p : p = <<m, s>>
    OBVIOUS
  <2>1. Len(p) = 2 /\ Len(p) \in Nat /\ p[1] = m /\ p[2] = s
    BY <2>0
  <2>2. PICK docs : /\ docs[0] = RowValues(tab)
                    /\ \A n \in 1..Len(p) : docs[n] = Stage(docs[n - 1], p[n])
                    /\ Aggregate(tab, p) = docs[Len(p)]
    BY <2>1, AggregateFacts
  <2>3. docs[1] = Stage(docs[0], p[1]) /\ docs[2] = Stage(docs[1], p[2])
    BY <2>1, <2>2
  <2> QED
    BY <1>1, <2>0, <2>1, <2>2, <2>3 DEF Matched
<1> QED
  BY <1>0, <1>2, <1>3

LEMMA AskedTwo ==
    ASSUME NEW tab, NEW filter, NEW s, NEW t
    PROVE  Aggregate(tab, << [op |-> "$match", filter |-> filter] >> \o <<s, t>>)
             = Stage(Stage(Matched(tab, filter), s), t)
<1>0. PICK m : m = [op |-> "$match", filter |-> filter]
  OBVIOUS
<1>1. \A docs : Stage(docs, m) = Passing(docs, filter)
  BY <1>0, StageFacts
<1>2. <<m>> \o <<s, t>> = <<m, s, t>>
  BY StagesJoin
<1>3. Aggregate(tab, <<m, s, t>>) = Stage(Stage(Matched(tab, filter), s), t)
  <2>0. PICK p : p = <<m, s, t>>
    OBVIOUS
  <2>1. Len(p) = 3 /\ Len(p) \in Nat /\ p[1] = m /\ p[2] = s /\ p[3] = t
    BY <2>0
  <2>2. PICK docs : /\ docs[0] = RowValues(tab)
                    /\ \A n \in 1..Len(p) : docs[n] = Stage(docs[n - 1], p[n])
                    /\ Aggregate(tab, p) = docs[Len(p)]
    BY <2>1, AggregateFacts
  <2>3. docs[1] = Stage(docs[0], p[1]) /\ docs[2] = Stage(docs[1], p[2]) /\ docs[3] = Stage(docs[2], p[3])
    BY <2>1, <2>2
  <2> QED
    BY <1>1, <2>0, <2>1, <2>2, <2>3 DEF Matched
<1> QED
  BY <1>0, <1>2, <1>3

LEMMA UnwoundTotals ==
    ASSUME NEW vals, IsList(vals), NEW g, IsTotal(g, Array(vals))
    PROVE  Unwind(<<g>>, "total") = [i \in DOMAIN vals |-> [total |-> vals[i]]]
<1> DEFINE parts == [i \in DOMAIN <<g>> |-> Unwound(<<g>>[i], "total")]
           u == Unwound(g, "total")
<1>1. DOMAIN <<g>> = 1..1 /\ <<g>>[1] = g
  OBVIOUS
<1>2. parts = [i \in 1..1 |-> u] /\ Len(parts) = 1 /\ parts[1] = u
  BY <1>1
<1>3. FlattenSeq(parts) = u
  <2> DEFINE h == [i \in 1..1 |-> u]
  <2>1. h[1] = u
    OBVIOUS
  <2> HIDE DEF h, parts, u
  <2>2. Joins(parts, h)
    BY <1>2, <2>1 DEF Joins
  <2>3. 1 \in Nat \ {0}
    OBVIOUS
  <2> QED
    BY <1>2, <2>1, <2>2, <2>3, FlattenFacts
<1>4. Unwind(<<g>>, "total") = u
  BY <1>3 DEF Unwind
<1>5. g["total"] = Array(vals) /\ DOMAIN g = {"total"}
  BY DEF IsTotal
<1>6. Array(vals).tag = "array" /\ Array(vals).items = vals
  BY DEF Array
<1>7. u = [i \in DOMAIN vals |-> [g EXCEPT !["total"] = vals[i]]]
  BY <1>5, <1>6 DEF Unwound, FieldOf
<1>8. \A v : [g EXCEPT !["total"] = v] = [total |-> v]
  BY DEF IsTotal
<1> HIDE DEF u
<1> QED
  BY <1>4, <1>7, <1>8

(* A value that can be grouped by and added up: no array, for $unwind would *)
(* take it apart; with a text, for the key of what lacks the field is "";   *)
(* and with one number, or none for NaN.                                    *)
Summed(v) == v.tag # "array" /\ v.text # "" /\ v.nums \in Sums
SummedDoc(doc) == \A f \in DOMAIN doc \cap SortFields : Summed(doc[f])

FieldsSummed ==
    /\ \A f \in SortFields : Nameable(f)
    /\ \A doc \in Docs \cup Patches : SummedDoc(doc)
    /\ \A found \in Existing : \A i \in DOMAIN found : SummedDoc(found[i].doc)
    /\ \A defs \in Schemas : \A f \in DOMAIN defs : defs[f].generated = "" => Summed(defs[f].default)
    /\ Summed(Text("uuid")) /\ \A n \in Int : ToString(n) # ""
    /\ \A v : Summed(v) => Summed(AsStored(v))

SummedRows == \A i \in DOMAIN tableRows : SummedDoc(tableRows[i].doc)
SummedInv == QueriesInv /\ SummedRows

LEMMA NumberSummed ==
    ASSUME FieldsSummed
    PROVE  \A n \in Int : Summed(Number(n))
<1> SUFFICES ASSUME NEW n \in Int PROVE Summed(Number(n))
  OBVIOUS
<1>1. Number(n).tag = "number" /\ Number(n).nums = {n} /\ Number(n).text = ToString(n)
  BY DEF Number
<1>2. {n} \in Sums
  BY DEF Sums
<1>3. Number(n).text # ""
  BY <1>1 DEF FieldsSummed
<1>4. Number(n).tag # "array"
  BY <1>1
<1> QED
  BY <1>1, <1>2, <1>3, <1>4 DEF Summed

LEMMA MergedSummed ==
    ASSUME NEW doc, NEW more, SummedDoc(doc), SummedDoc(more)
    PROVE  SummedDoc(Merged(doc, more))
  BY DEF SummedDoc, Merged

LEMMA StampSummed ==
    ASSUME FieldsSummed, NEW doc, SummedDoc(doc)
    PROVE  SummedDoc(Stamp(doc))
<1> DEFINE at == [updatedAt |-> Number(Now)]
<1>1. DOMAIN at = {"updatedAt"} /\ at["updatedAt"] = Number(Now)
  OBVIOUS
<1>2. Now \in Int
  BY DEF Now
<1>3. Summed(Number(Now))
  BY <1>2, NumberSummed
<1> HIDE DEF at
<1>4. SummedDoc(at)
  BY <1>1, <1>3 DEF SummedDoc
<1>5. SummedDoc(Merged(at, doc))
  BY <1>4, MergedSummed
<1> QED
  BY <1>5 DEF Stamp, at

LEMMA WrittenSummed ==
    ASSUME FieldsSummed, SchemaDeclared, seqs \in Nat, NEW doc, SummedDoc(doc)
    PROVE  SummedDoc(Written(doc))
<1> DEFINE given == {f \in DOMAIN schema : Absent(doc, f) /\ Defaulted(schema[f], NextSeq, Now) # Undefined}
           some == [f \in given |-> Defaulted(schema[f], NextSeq, Now)]
<1>1. ASSUME NEW f \in DOMAIN schema
      PROVE  Summed(Defaulted(schema[f], NextSeq, Now))
  <2>1. PICK defs \in Schemas : f \in DOMAIN defs /\ schema[f] = defs[f]
    BY DEF SchemaDeclared
  <2>2. defs[f].generated = "" => Summed(defs[f].default)
    BY <2>1 DEF FieldsSummed
  <2>3. defs[f].generated \in {"", "$uuid", "$now", "$seq"}
    BY <2>1, SchemasAssumption
  <2>4. Summed(Number(NextSeq)) /\ Summed(Number(Now))
    <3>1. NextSeq \in Int /\ Now \in Int
      BY DEF NextSeq, Now
    <3> QED
      BY <3>1, NumberSummed
  <2>5. Summed(Text("uuid"))
    BY DEF FieldsSummed
  <2>6. Summed(Defaulted(defs[f], NextSeq, Now))
    BY <2>2, <2>3, <2>4, <2>5 DEF Defaulted
  <2> QED
    BY <2>1, <2>6
<1>2. DOMAIN some = given /\ \A f \in given : f \in DOMAIN schema /\ some[f] = Defaulted(schema[f], NextSeq, Now)
  OBVIOUS
<1>3. Written(doc) = Merged(some, doc)
  BY DEF Written, ApplySchema
<1> HIDE DEF some, given
<1>4. SummedDoc(some)
  BY <1>1, <1>2 DEF SummedDoc
<1> QED
  BY <1>3, <1>4, MergedSummed

LEMMA StoredSummed ==
    ASSUME FieldsSummed, NEW doc, SummedDoc(doc)
    PROVE  SummedDoc(DocNative(doc))
  BY DEF SummedDoc, DocNative, FieldsSummed

LEMMA InsertKeepsSummed ==
    ASSUME SummedInv, FieldsSummed, NEW id, NEW doc \in Docs \cup Patches, Insert(id, doc)
    PROVE  SummedInv'
<1> DEFINE row == [id |-> id, doc |-> Written(doc)]
           n == Len(tableRows)
<1>1. IsList(tableRows) /\ n \in Nat /\ DOMAIN tableRows = 1..n
  BY ListFacts DEF SummedInv, QueriesInv, RowsShaped
<1>2. schema' = schema /\ seqs' \in Nat /\ SchemaDeclared'
  <2>1. seqs' \in {seqs, NextSeq}
    BY DEF Insert
  <2> QED
    BY <2>1 DEF Insert, NextSeq, SummedInv, QueriesInv, SchemaDeclared
<1>3. CASE ~CanInsert(id, doc)
  <2>1. UNCHANGED tableRows
    BY <1>3 DEF Insert
  <2> QED
    BY <1>2, <2>1 DEF SummedInv, QueriesInv, RowsShaped, SummedRows
<1>4. CASE CanInsert(id, doc)
  <2>1. tableRows' = Append(tableRows, row)
    BY <1>4 DEF Insert
  <2>2. /\ IsList(tableRows')
        /\ DOMAIN tableRows' = 1..(n + 1)
        /\ tableRows'[n + 1] = row
        /\ \A i \in 1..n : tableRows'[i] = tableRows[i]
    BY <1>1, <2>1, ListAppend
  <2>3. SummedDoc(row.doc)
    <3>1. SummedDoc(doc)
      BY DEF FieldsSummed
    <3> QED
      BY <3>1, WrittenSummed DEF SummedInv, QueriesInv
  <2>4. row = [id |-> row.id, doc |-> row.doc]
    OBVIOUS
  <2> HIDE DEF row, n
  <2>5. \A i \in 1..(n + 1) : i \in 1..n \/ i = n + 1
    BY <1>1
  <2>6. \A i \in 1..n : /\ tableRows[i] = [id |-> tableRows[i].id, doc |-> tableRows[i].doc]
                        /\ SummedDoc(tableRows[i].doc)
    BY <1>1 DEF SummedInv, QueriesInv, RowsShaped, SummedRows
  <2>7. RowsShaped'
    BY <2>2, <2>4, <2>5, <2>6 DEF RowsShaped
  <2>8. SummedRows'
    BY <2>2, <2>3, <2>5, <2>6 DEF SummedRows
  <2> QED
    BY <1>2, <2>7, <2>8 DEF SummedInv, QueriesInv
<1> QED
  BY <1>3, <1>4

(* Rows of which each is as it was, with another summed document.           *)
LEMMA ChangedSummed ==
    ASSUME SummedInv, SchemaDeclared', seqs' = seqs,
           DOMAIN tableRows' = DOMAIN tableRows,
           tableRows' = [i \in DOMAIN tableRows |-> tableRows'[i]],
           \A i \in DOMAIN tableRows :
               \E d : SummedDoc(d) /\ tableRows'[i] = [tableRows[i] EXCEPT !.doc = d]
    PROVE  SummedInv'
<1>1. IsList(tableRows) /\ Len(tableRows) \in Nat /\ DOMAIN tableRows = 1..Len(tableRows)
  BY ListFacts DEF SummedInv, QueriesInv, RowsShaped
<1>2. IsList(tableRows')
  BY <1>1, ListOf
<1>3. ASSUME NEW i \in DOMAIN tableRows
      PROVE  /\ tableRows'[i] = [id |-> tableRows'[i].id, doc |-> tableRows'[i].doc]
             /\ SummedDoc(tableRows'[i].doc)
  <2>1. tableRows[i] = [id |-> tableRows[i].id, doc |-> tableRows[i].doc]
    BY DEF SummedInv, QueriesInv, RowsShaped
  <2>2. PICK d : SummedDoc(d) /\ tableRows'[i] = [tableRows[i] EXCEPT !.doc = d]
    OBVIOUS
  <2>3. tableRows'[i] = [id |-> tableRows[i].id, doc |-> d]
    BY <2>1, <2>2
  <2> QED
    BY <2>2, <2>3
<1>4. RowsShaped' /\ SummedRows'
  BY <1>2, <1>3 DEF RowsShaped, SummedRows
<1> QED
  BY <1>4 DEF SummedInv, QueriesInv

LEMMA UpdateKeepsSummed ==
    ASSUME SummedInv, FieldsSummed, NEW filter, NEW changes \in Patches, NEW onlyFirst,
           UpdateMatches(filter, changes, onlyFirst)
    PROVE  SummedInv'
<1> DEFINE chosen == Chosen(filter, onlyFirst)
<1>1. /\ tableRows' = [i \in DOMAIN tableRows |->
                         IF i \in chosen
                         THEN [tableRows[i] EXCEPT !.doc = Stamp(Merged(changes, @))]
                         ELSE tableRows[i]]
      /\ UNCHANGED <<schema, seqs>>
  BY DEF UpdateMatches
<1> HIDE DEF chosen
<1>2. ASSUME NEW i \in DOMAIN tableRows
      PROVE  \E d : SummedDoc(d) /\ tableRows'[i] = [tableRows[i] EXCEPT !.doc = d]
  <2>1. SummedDoc(tableRows[i].doc) /\ tableRows[i] = [id |-> tableRows[i].id, doc |-> tableRows[i].doc]
    BY DEF SummedInv, QueriesInv, RowsShaped, SummedRows
  <2>2. CASE i \in chosen
    <3> DEFINE d == Stamp(Merged(changes, tableRows[i].doc))
    <3>1. tableRows'[i] = [tableRows[i] EXCEPT !.doc = d]
      BY <1>1, <2>2
    <3>2. SummedDoc(changes)
      BY DEF FieldsSummed
    <3>3. SummedDoc(Merged(changes, tableRows[i].doc))
      BY <2>1, <3>2, MergedSummed
    <3>4. SummedDoc(d)
      BY <3>3, StampSummed
    <3> HIDE DEF d
    <3> QED
      BY <3>1, <3>4
  <2>3. CASE i \notin chosen
    <3>1. tableRows'[i] = tableRows[i]
      BY <1>1, <2>3
    <3>2. tableRows'[i] = [tableRows[i] EXCEPT !.doc = tableRows[i].doc]
      BY <2>1, <3>1
    <3> QED
      BY <2>1, <3>2
  <2> QED
    BY <2>2, <2>3
<1>3. DOMAIN tableRows' = DOMAIN tableRows /\ tableRows' = [i \in DOMAIN tableRows |-> tableRows'[i]]
  BY <1>1
<1>4. SchemaDeclared' /\ seqs' = seqs
  BY <1>1 DEF SummedInv, QueriesInv, SchemaDeclared
<1> QED
  BY <1>2, <1>3, <1>4, ChangedSummed

LEMMA DeleteKeepsSummed ==
    ASSUME SummedInv, NEW filter, NEW onlyFirst, DeleteMatches(filter, onlyFirst)
    PROVE  SummedInv'
<1> DEFINE K == DOMAIN tableRows \ Chosen(filter, onlyFirst)
           from == Ascending(K)
           n == Cardinality(K)
<1>1. IsList(tableRows)
  BY DEF SummedInv, QueriesInv, RowsShaped
<1>2. tableRows' = Picked(tableRows, K) /\ UNCHANGED <<schema, seqs>>
  BY DEF DeleteMatches
<1>3. K \in SUBSET DOMAIN tableRows
  OBVIOUS
<1> HIDE DEF K
<1>4. /\ IsList(tableRows') /\ Len(tableRows') = n /\ n \in Nat
      /\ \A k \in 1..n : from[k] \in K /\ tableRows'[k] = tableRows[from[k]]
  BY <1>1, <1>2, <1>3, ListPicked
<1>5. DOMAIN tableRows' = 1..n
  BY <1>4, ListFacts
<1> HIDE DEF from, n
<1>6. \A i \in DOMAIN tableRows :
        /\ tableRows[i] = [id |-> tableRows[i].id, doc |-> tableRows[i].doc]
        /\ SummedDoc(tableRows[i].doc)
  BY DEF SummedInv, QueriesInv, RowsShaped, SummedRows
<1>7. ASSUME NEW i \in DOMAIN tableRows'
      PROVE  /\ tableRows'[i] = [id |-> tableRows'[i].id, doc |-> tableRows'[i].doc]
             /\ SummedDoc(tableRows'[i].doc)
  BY <1>3, <1>4, <1>5, <1>6
<1>8. RowsShaped' /\ SummedRows'
  BY <1>4, <1>7 DEF RowsShaped, SummedRows
<1>9. SchemaDeclared' /\ seqs' \in Nat
  BY <1>2 DEF SummedInv, QueriesInv, SchemaDeclared
<1> QED
  BY <1>8, <1>9 DEF SummedInv, QueriesInv

LEMMA RunKeepsSummed ==
    ASSUME SummedInv, FieldsSummed, RunAgain
    PROVE  SummedInv'
<1>1. /\ tableRows' = [i \in DOMAIN tableRows |-> [tableRows[i] EXCEPT !.doc = DocNative(@)]]
      /\ schema' = <<>> /\ seqs' = seqs
  BY DEF RunAgain
<1>2. ASSUME NEW i \in DOMAIN tableRows
      PROVE  \E d : SummedDoc(d) /\ tableRows'[i] = [tableRows[i] EXCEPT !.doc = d]
  <2>1. SummedDoc(tableRows[i].doc)
    BY DEF SummedInv, SummedRows
  <2> DEFINE d == DocNative(tableRows[i].doc)
  <2>2. tableRows'[i] = [tableRows[i] EXCEPT !.doc = d]
    BY <1>1
  <2>3. SummedDoc(d)
    BY <2>1, StoredSummed
  <2> HIDE DEF d
  <2> QED
    BY <2>2, <2>3
<1>3. DOMAIN tableRows' = DOMAIN tableRows /\ tableRows' = [i \in DOMAIN tableRows |-> tableRows'[i]]
  BY <1>1
<1>4. SchemaDeclared'
  BY <1>1, NoList DEF SchemaDeclared
<1> QED
  BY <1>1, <1>2, <1>3, <1>4, ChangedSummed

LEMMA SummedStart == FieldsSummed /\ QueriesInit => SummedInv
<1> SUFFICES ASSUME FieldsSummed, QueriesInit PROVE SummedInv
  OBVIOUS
<1>1. tableRows \in Existing /\ schema = <<>> /\ seqs = 0
  BY DEF QueriesInit
<1>2. RowsShaped
  BY <1>1, ExistingAssumption DEF RowsShaped
<1>3. SchemaDeclared /\ seqs \in Nat
  BY <1>1, NoList DEF SchemaDeclared
<1>4. SummedRows
  BY <1>1 DEF FieldsSummed, SummedRows
<1> QED
  BY <1>2, <1>3, <1>4 DEF SummedInv, QueriesInv

LEMMA SummedNext ==
    ASSUME SummedInv, FieldsSummed, [QueriesNext]_queryVars
    PROVE  SummedInv'
<1>1. CASE UNCHANGED <<tableRows, schema, seqs>>
  BY <1>1 DEF SummedInv, QueriesInv, RowsShaped, SchemaDeclared, SummedRows
<1>2. ASSUME NEW id, NEW doc \in Docs \cup Patches, Insert(id, doc)
      PROVE  SummedInv'
  BY <1>2, InsertKeepsSummed
<1>3. ASSUME NEW filter, NEW patch \in Patches, NEW onlyFirst, UpdateMatches(filter, patch, onlyFirst)
      PROVE  SummedInv'
  BY <1>3, UpdateKeepsSummed
<1>4. ASSUME NEW filter, NEW onlyFirst, DeleteMatches(filter, onlyFirst)
      PROVE  SummedInv'
  BY <1>4, DeleteKeepsSummed
<1>5. ASSUME NEW defs \in Schemas, AddSchema(defs)
      PROVE  SummedInv'
  <2>1. schema' = Merged(defs, schema) /\ UNCHANGED <<tableRows, seqs>>
    BY <1>5 DEF AddSchema
  <2>2. ASSUME NEW f \in DOMAIN schema'
        PROVE  \/ f \in DOMAIN defs /\ schema'[f] = defs[f]
               \/ f \in DOMAIN schema /\ schema'[f] = schema[f]
    BY <2>1 DEF Merged
  <2>3. SchemaDeclared'
    BY <2>2 DEF SummedInv, QueriesInv, SchemaDeclared
  <2> QED
    BY <2>1, <2>3 DEF SummedInv, QueriesInv, RowsShaped, SummedRows
<1>6. CASE Drop
  <2>1. tableRows' = <<>> /\ schema' = <<>> /\ seqs' = seqs
    BY <1>6 DEF Drop
  <2> QED
    BY <2>1, NoList DEF SummedInv, QueriesInv, RowsShaped, SchemaDeclared, SummedRows
<1>7. CASE RunAgain
  BY <1>7, RunKeepsSummed
<1>8. CASE Write
  <2>1. ASSUME NEW id, NEW filter, NEW patch \in Patches, Upsert(id, filter, patch)
        PROVE  UpdateMatches(filter, patch, TRUE) \/ Insert(id, patch)
    BY <2>1 DEF Upsert
  <2> QED
    BY <1>2, <1>3, <1>4, <1>5, <1>6, <1>7, <1>8, <2>1 DEF Write
<1>9. CASE Chain
  <2>1. (\E q : Becomes(q)) => UNCHANGED <<tableRows, schema, seqs>>
    BY DEF Becomes
  <2>2. \/ \E q : Becomes(q)
        \/ \E patch \in Patches : UpdateMatches(qb.filter, patch, FALSE)
        \/ DeleteMatches(qb.filter, FALSE)
    BY <1>9
       DEF Chain, TableWhere, TableSelect, Where, And, Or, Select, OrderBy, LimitTo, Offset
  <2> QED
    BY <1>1, <1>3, <1>4, <2>1, <2>2
<1> QED
  BY <1>1, <1>8, <1>9 DEF QueriesNext, queryVars

(* What the filters of a table find for a text in one field.                *)
TextsFound ==
    \A doc : \A f \in SortFields, text \in {test[3] : test \in TextTests} :
        Passes(doc, Tested(f, "$contains", Text(text)))
          <=> MatchOp(FieldOf(doc, f), "$contains", Text(text))

LEMMA SummandSums ==
    ASSUME SummedInv, FieldsSummed, NEW filter, NEW f \in SortFields
    PROVE  LET matched == Matched(tableRows, filter)
           IN  /\ \A i \in DOMAIN matched : Summand(matched[i], f) \in Sums
               /\ \A i \in DOMAIN matched : f \in DOMAIN matched[i] => Summed(matched[i][f])
<1> DEFINE matched == Matched(tableRows, filter)
           docs == Selected(tableRows, filter)
<1>1. /\ IsList(matched) /\ Len(matched) = Len(docs)
      /\ \A i \in 1..Len(docs) : \E row \in {tableRows[j] : j \in DOMAIN tableRows} :
            matched[i] = RowToValue(row) /\ docs[i] = row.doc
  BY SelectedFacts DEF SummedInv, QueriesInv
<1> HIDE DEF matched, docs
<1>2. DOMAIN matched = 1..Len(docs)
  BY <1>1, ListFacts
<1>3. f # "_id"
  BY DEF FieldsSummed, Nameable
<1>4. ASSUME NEW i \in DOMAIN matched
      PROVE  f \in DOMAIN matched[i] => Summed(matched[i][f])
  <2>1. PICK row \in {tableRows[j] : j \in DOMAIN tableRows} : matched[i] = RowToValue(row)
    BY <1>1, <1>2
  <2>2. SummedDoc(row.doc)
    BY DEF SummedInv, SummedRows
  <2>3. f \in DOMAIN RowToValue(row) => f \in DOMAIN row.doc /\ RowToValue(row)[f] = row.doc[f]
    BY <1>3 DEF RowToValue, Merged
  <2> QED
    BY <2>1, <2>2, <2>3 DEF SummedDoc
<1>5. {0} \in Sums
  BY DEF Sums
<1>6. ASSUME NEW i \in DOMAIN matched
      PROVE  Summand(matched[i], f) \in Sums
  <2>1. CASE f \in DOMAIN matched[i]
    <3>1. matched[i][f].nums \in Sums
      BY <1>4, <2>1 DEF Summed
    <3> QED
      BY <2>1, <3>1 DEF Summand
  <2>2. CASE f \notin DOMAIN matched[i]
    BY <1>5, <2>2 DEF Summand
  <2> QED
    BY <2>1, <2>2
<1> QED
  BY <1>4, <1>6 DEF matched

LEMMA ValuesFacts ==
    ASSUME NEW docs, IsList(docs), NEW f
    PROVE  LET vals == ValuesOf(docs, f)
           IN  /\ IsList(vals)
               /\ \A k \in DOMAIN vals : \E i \in DOMAIN docs : f \in DOMAIN docs[i] /\ vals[k] = docs[i][f]
               /\ \A i \in DOMAIN docs : f \in DOMAIN docs[i] =>
                    \E k \in DOMAIN vals : vals[k] = docs[i][f]
<1> DEFINE vals == ValuesOf(docs, f)
           K == WithField(docs, f)
           h == Having(docs, f)
           c == Cardinality(K)
<1>1. K \in SUBSET DOMAIN docs /\ \A i \in DOMAIN docs : i \in K <=> f \in DOMAIN docs[i]
  BY DEF WithField
<1>2. h = Picked(docs, K)
  BY DEF Having
<1> HIDE DEF K, h
<1>3. /\ IsList(h) /\ Len(h) = c /\ c \in Nat
      /\ \A k \in 1..c : Ascending(K)[k] \in K /\ h[k] = docs[Ascending(K)[k]]
      /\ \A x \in K : \E k \in 1..c : Ascending(K)[k] = x
  BY <1>1, <1>2, ListPicked
<1>4. DOMAIN h = 1..c
  BY <1>3, ListFacts
<1>5. vals = [i \in 1..c |-> vals[i]] /\ DOMAIN vals = 1..c /\ \A i \in 1..c : vals[i] = h[i][f]
  BY <1>4 DEF ValuesOf, h
<1> HIDE DEF vals, c
<1>6. IsList(vals)
  BY <1>3, <1>5, ListOf
<1>7. \A k \in DOMAIN vals : \E i \in DOMAIN docs : f \in DOMAIN docs[i] /\ vals[k] = docs[i][f]
  BY <1>1, <1>3, <1>5
<1>8. ASSUME NEW i \in DOMAIN docs, f \in DOMAIN docs[i]
      PROVE  \E k \in DOMAIN vals : vals[k] = docs[i][f]
  <2>1. PICK k \in 1..c : Ascending(K)[k] = i
    BY <1>1, <1>3, <1>8
  <2> QED
    BY <1>3, <1>5, <2>1
<1> QED
  BY <1>6, <1>7, <1>8 DEF vals

(* The texts of the distinct values of a field, and the keys of its groups. *)
LEMMA DistinctKeys ==
    ASSUME NEW docs, IsList(docs), NEW f, NEW none, NoName(none), ~NoName(f),
           \A i \in DOMAIN docs : f \in DOMAIN docs[i] => ~NoName(docs[i][f].text)
    PROVE  {v.text : v \in ToSet(FirstOfEach(ValuesOf(docs, f)))}
             = {GroupKey(docs[i], f) : i \in DOMAIN docs} \ {none}
<1> DEFINE vals == ValuesOf(docs, f)
           u == FirstOfEach(vals)
<1>1. /\ IsList(vals)
      /\ \A k \in DOMAIN vals : \E i \in DOMAIN docs : f \in DOMAIN docs[i] /\ vals[k] = docs[i][f]
      /\ \A i \in DOMAIN docs : f \in DOMAIN docs[i] => \E k \in DOMAIN vals : vals[k] = docs[i][f]
  BY ValuesFacts
<1> HIDE DEF vals
<1>2. /\ IsList(u) /\ Len(u) \in Nat
      /\ \A k \in 1..Len(u) : \E i \in DOMAIN vals : u[k] = vals[i]
      /\ \A i \in DOMAIN vals : \E k \in 1..Len(u) : u[k].text = vals[i].text
  BY <1>1, FirstFacts
<1>3. DOMAIN u = 1..Len(u)
  BY <1>2, ListFacts
<1> HIDE DEF u
<1>4. \A x : x \in ToSet(u) <=> \E k \in 1..Len(u) : x = u[k]
  BY <1>3 DEF ToSet
<1>5. \A i \in DOMAIN docs : /\ f \in DOMAIN docs[i] => GroupKey(docs[i], f) = docs[i][f].text
                             /\ f \notin DOMAIN docs[i] => GroupKey(docs[i], f) = none
  BY Zenon DEF GroupKey, NoName
<1>6. \A i \in DOMAIN docs : f \in DOMAIN docs[i] => docs[i][f].text # none
  BY Zenon DEF NoName
<1>7. ASSUME NEW v \in ToSet(u)
      PROVE  \E i \in DOMAIN docs : v.text = GroupKey(docs[i], f) /\ v.text # none
  <2>1. PICK k \in 1..Len(u) : v = u[k]
    BY <1>4
  <2>2. PICK j \in DOMAIN vals : u[k] = vals[j]
    BY <1>2
  <2>3. PICK i \in DOMAIN docs : f \in DOMAIN docs[i] /\ vals[j] = docs[i][f]
    BY <1>1
  <2> QED
    BY <1>5, <1>6, <2>1, <2>2, <2>3
<1>8. ASSUME NEW i \in DOMAIN docs, GroupKey(docs[i], f) # none
      PROVE  \E v \in ToSet(u) : v.text = GroupKey(docs[i], f)
  <2>1. f \in DOMAIN docs[i] /\ GroupKey(docs[i], f) = docs[i][f].text
    BY <1>5, <1>8
  <2>2. PICK j \in DOMAIN vals : vals[j] = docs[i][f]
    BY <1>1, <2>1
  <2>3. PICK k \in 1..Len(u) : u[k].text = vals[j].text
    BY <1>2
  <2> QED
    BY <1>4, <2>1, <2>2, <2>3
<1> QED
  BY <1>7, <1>8 DEF u, vals

(* Everything in one group.                                                 *)
LEMMA SingleTotal ==
    ASSUME NEW filter, NEW f, NEW how, Collects(how),
           IsList(Matched(tableRows, filter)), Matched(tableRows, filter) # <<>>
    PROVE  LET match == [op |-> "$match", filter |-> filter]
               matched == Matched(tableRows, filter)
           IN  /\ Aggregate(tableRows, <<match>> \o <<Totals(how, f)>>)[1]["total"]
                    = Accumulate(matched, how, f)
               /\ \E g : /\ IsTotal(g, Accumulate(matched, how, f))
                         /\ Stage(matched, Totals(how, f)) = <<g>>
<1> DEFINE matched == Matched(tableRows, filter)
           match == [op |-> "$match", filter |-> filter]
<1>0. PICK none : NoName(none)
  BY DEF NoName
<1> HIDE DEF matched
<1>1. Stage(matched, Totals(how, f)) = Group(matched, none, Totals(how, f).accs)
  <2>1. PICK accs : accs = {[name |-> "total", op |-> how, field |-> f]}
    OBVIOUS
  <2>2. Totals(how, f) = [op |-> "$group", by |-> none, accs |-> accs] /\ Totals(how, f).accs = accs
    BY <1>0, <2>1, Zenon DEF Totals, NoName
  <2>3. Stage(matched, [op |-> "$group", by |-> none, accs |-> accs]) = Group(matched, none, accs)
    BY MoreStages
  <2> QED
    BY <2>2, <2>3, Zenon
<1>a. IsList(matched) /\ matched # <<>>
  BY DEF matched
<1>b. \E g : /\ Group(matched, none, Totals(how, f).accs) = <<g>>
             /\ IsTotal(g, Accumulate(matched, how, f))
  <2>1. IsSingle(Group(matched, none, Totals(how, f).accs), Accumulate(matched, how, f))
    BY <1>0, <1>a, OneGroup
  <2> QED
    BY <2>1 DEF IsSingle
<1>2. PICK g : /\ Group(matched, none, Totals(how, f).accs) = <<g>>
               /\ IsTotal(g, Accumulate(matched, how, f))
  BY <1>b
<1>3. Aggregate(tableRows, <<match>> \o <<Totals(how, f)>>) = Stage(matched, Totals(how, f))
  <2>1. PICK s : s = Totals(how, f)
    OBVIOUS
  <2>2. Aggregate(tableRows, <<match>> \o <<s>>) = Stage(Matched(tableRows, filter), s)
    BY AskedOne
  <2> QED
    BY <2>1, <2>2 DEF matched
<1>4. <<g>>[1] = g
  OBVIOUS
<1>5. g["total"] = Accumulate(matched, how, f)
  BY <1>2 DEF IsTotal
<1> QED
  BY <1>1, <1>2, <1>3, <1>4, <1>5 DEF matched

(* The accumulators, by what they compute.                                  *)
LEMMA Accumulated ==
    ASSUME NEW docs, NEW f
    PROVE  /\ Accumulate(docs, "$sum", f) = NumberOf(SumOf(docs, f))
           /\ Accumulate(docs, "$avg", f) = Quotient(SumOf(docs, f), Len(docs))
           /\ NumbersOf(docs, f) # {} =>
                /\ Accumulate(docs, "$min", f) = Number(Min(NumbersOf(docs, f)))
                /\ Accumulate(docs, "$max", f) = Number(Max(NumbersOf(docs, f)))
           /\ Accumulate(docs, "$push", f) = Array(ValuesOf(docs, f))
           /\ Accumulate(docs, "$addToSet", f) = Array(FirstOfEach(ValuesOf(docs, f)))
<1>1. Accumulate(docs, "$sum", f) = NumberOf(SumOf(docs, f))
  BY DEF Accumulate
<1>2. Accumulate(docs, "$avg", f) = Quotient(SumOf(docs, f), Len(docs))
  BY DEF Accumulate
<1>3. NumbersOf(docs, f) # {} => Accumulate(docs, "$min", f) = Number(Min(NumbersOf(docs, f)))
  BY DEF Accumulate
<1>4. NumbersOf(docs, f) # {} => Accumulate(docs, "$max", f) = Number(Max(NumbersOf(docs, f)))
  BY DEF Accumulate
<1>5. Accumulate(docs, "$push", f) = Array(ValuesOf(docs, f))
  BY DEF Accumulate
<1>6. Accumulate(docs, "$addToSet", f) = Array(FirstOfEach(ValuesOf(docs, f)))
  BY DEF Accumulate
<1> QED
  BY <1>1, <1>2, <1>3, <1>4, <1>5, <1>6

LEMMA Collectors ==
    /\ Collects("$sum") /\ Collects("$avg") /\ Collects("$min") /\ Collects("$max")
    /\ Collects("$push") /\ Collects("$addToSet")
  BY DEF Collects

CountsAgree ==
    LET match == [op |-> "$match", filter |-> qb.filter]
        docs == Selected(tableRows, qb.filter)
    IN  Aggregate(tableRows, <<match>> \o << [op |-> "$count", name |-> "n"] >>)
          = << [n |-> Number(Len(docs))] >>

GroupsAgree(f) ==
    LET match == [op |-> "$match", filter |-> qb.filter]
        docs == Selected(tableRows, qb.filter)
        groups == Aggregate(tableRows, <<match>> \o <<Sizes(f)>>)
    IN  /\ SumOver(groups, "size") = {Len(docs)}
        /\ SumOver(groups, "sum") = Sum(tableRows, f, qb.filter).nums
        /\ {v.text : v \in ToSet(DistinctValues(tableRows, f, qb.filter))}
             = {g[f].text : g \in ToSet(groups)} \ {""}

SinglesAgree(f) ==
    LET match == [op |-> "$match", filter |-> qb.filter]
        docs == Selected(tableRows, qb.filter)
        Single(how) == Aggregate(tableRows, <<match>> \o <<Totals(how, f)>>)[1]["total"]
    IN  docs # <<>> =>
          /\ Single("$sum") = Sum(tableRows, f, qb.filter)
          /\ ~IsNullish(Least(tableRows, f, qb.filter)) =>
               /\ Single("$min") = Least(tableRows, f, qb.filter)
               /\ Single("$max") = Greatest(tableRows, f, qb.filter)
          /\ Having(docs, f) = docs => Single("$avg") = Average(tableRows, f, qb.filter)
          /\ Single("$addToSet").items = DistinctValues(tableRows, f, qb.filter)
          /\ [i \in DOMAIN ValuesOf(docs, f) |-> [total |-> ValuesOf(docs, f)[i]]]
               = Aggregate(tableRows,
                           <<match>> \o <<Totals("$push", f), [op |-> "$unwind", field |-> "total"]>>)

SearchAgrees(f) == \A text \in {test[3] : test \in TextTests} : SearchesAlike(f, text)

LEMMA ReadersParts ==
    ASSUME CountsAgree,
           \A f \in SortFields : GroupsAgree(f) /\ SinglesAgree(f) /\ SearchAgrees(f)
    PROVE  ReadersAgree
  BY Zenon DEF ReadersAgree, CountsAgree, GroupsAgree, SinglesAgree, SearchAgrees

LEMMA CountsHold ==
    ASSUME SummedInv
    PROVE  CountsAgree
<1> DEFINE matched == Matched(tableRows, qb.filter)
           docs == Selected(tableRows, qb.filter)
           match == [op |-> "$match", filter |-> qb.filter]
<1>1. Len(matched) = Len(docs)
  BY SelectedFacts DEF SummedInv, QueriesInv
<1>2. PICK s, name : name = "n" /\ s = [op |-> "$count", name |-> name]
  OBVIOUS
<1>3. Aggregate(tableRows, <<match>> \o <<s>>) = Stage(matched, s)
  BY AskedOne
<1> HIDE DEF matched, docs
<1>4. Stage(matched, s) = << [f \in {name} |-> Number(Len(matched))] >>
  BY <1>2, MoreStages
<1>5. [f \in {name} |-> Number(Len(matched))] = [n |-> Number(Len(docs))]
  BY <1>1, <1>2
<1>6. Aggregate(tableRows, <<match>> \o << [op |-> "$count", name |-> "n"] >>)
        = << [n |-> Number(Len(docs))] >>
  BY <1>2, <1>3, <1>4, <1>5
<1> QED
  BY <1>6 DEF CountsAgree, docs

LEMMA GroupsHold ==
    ASSUME SummedInv, FieldsSummed, NEW f \in SortFields
    PROVE  GroupsAgree(f)
<1> DEFINE matched == Matched(tableRows, qb.filter)
           docs == Selected(tableRows, qb.filter)
           match == [op |-> "$match", filter |-> qb.filter]
           groups == Aggregate(tableRows, <<match>> \o <<Sizes(f)>>)
<1>0. PICK none : NoName(none)
  BY DEF NoName
<1>1. IsList(matched) /\ Len(matched) = Len(docs) /\ Len(docs) \in Nat
  <2>1. IsList(matched) /\ IsList(docs) /\ Len(matched) = Len(docs)
    BY SelectedFacts DEF SummedInv, QueriesInv
  <2> QED
    BY <2>1, ListFacts
<1>2. /\ \A i \in DOMAIN matched : Summand(matched[i], f) \in Sums
      /\ \A i \in DOMAIN matched : f \in DOMAIN matched[i] => Summed(matched[i][f])
  BY SummandSums
<1>3. Nameable(f)
  BY DEF FieldsSummed
<1>4. ~NoName(f) /\ f # "_id"
  BY <1>3, Zenon DEF Nameable, NoName
<1>5. Alike(matched, docs, f)
  BY <1>4, SelectedAlike DEF SummedInv, QueriesInv
<1>6. SumOf(matched, f) = SumOf(docs, f)
  <2> HIDE DEF matched, docs
  <2> QED
    BY <1>5, AlikeFacts
<1>7. groups = Group(matched, f, Sizes(f).accs)
  <2>1. PICK s, accs : s = Sizes(f) /\ accs = s.accs
    OBVIOUS
  <2>2. s = [op |-> "$group", by |-> f, accs |-> accs]
    BY <2>1 DEF Sizes
  <2>3. Aggregate(tableRows, <<match>> \o <<s>>) = Stage(matched, s)
    BY AskedOne
  <2> HIDE DEF matched
  <2>4. Stage(matched, s) = Group(matched, f, accs)
    BY <2>2, MoreStages
  <2> QED
    BY <2>1, <2>3, <2>4
<1> HIDE DEF matched, docs, groups
<1>7a. PICK direct : direct = Group(matched, f, Sizes(f).accs)
  OBVIOUS
<1>8. /\ SumOver(direct, "size") = {Len(matched)}
      /\ SumOver(direct, "sum") = SumOf(matched, f)
      /\ KeyTexts(direct, f) = {GroupKey(matched[i], f) : i \in DOMAIN matched}
  <2>1. AddUp(Group(matched, f, Sizes(f).accs), matched, f)
    BY <1>1, <1>2, <1>3, GroupsAddUp
  <2> QED
    BY <1>7a, <2>1 DEF AddUp
<1>9. groups = direct
  BY <1>7, <1>7a DEF groups
<1>10. NumberOf(SumOf(docs, f)).nums = SumOf(docs, f)
  <2>1. SumOf(matched, f) = Total(Summands(matched, f))
    BY DEF SumOf, Summands
  <2>2. IsList(matched) /\ DOMAIN matched = 1..Len(matched) /\ Len(matched) \in Nat
    BY <1>1, ListFacts
  <2> DEFINE parts == Summands(matched, f)
  <2>3. parts = [i \in 1..Len(matched) |-> parts[i]] /\ \A i \in 1..Len(matched) : parts[i] \in Sums
    BY <1>2, <2>2 DEF Summands
  <2> HIDE DEF parts
  <2>4. IsList(parts) /\ Len(parts) = Len(matched)
    BY <2>2, <2>3, ListOf
  <2>5. Total(parts) \in Sums
    BY <2>2, <2>3, <2>4, TotalIsSum
  <2>6. SumOf(docs, f) \in Sums
    BY <1>6, <2>1, <2>5 DEF parts
  <2> QED
    BY <2>6, NumberFacts
<1>11. \A i \in DOMAIN matched : f \in DOMAIN matched[i] => ~NoName(matched[i][f].text)
  BY <1>2, Zenon DEF Summed, NoName
<1>12. {v.text : v \in ToSet(FirstOfEach(ValuesOf(matched, f)))}
         = {GroupKey(matched[i], f) : i \in DOMAIN matched} \ {none}
  BY <1>0, <1>1, <1>4, <1>11, DistinctKeys
<1>13. SumOver(groups, "size") = {Len(docs)} /\ SumOver(groups, "sum") = NumberOf(SumOf(docs, f)).nums
  BY <1>1, <1>6, <1>8, <1>9, <1>10
<1>14. {v.text : v \in ToSet(FirstOfEach(ValuesOf(matched, f)))}
         = {g[f].text : g \in ToSet(groups)} \ {""}
  BY <1>0, <1>8, <1>9, <1>12, Zenon DEF NoName, KeyTexts
<1>15. /\ Sum(tableRows, f, qb.filter) = NumberOf(SumOf(docs, f))
       /\ DistinctValues(tableRows, f, qb.filter) = FirstOfEach(ValuesOf(matched, f))
  BY Zenon DEF Sum, DistinctValues, docs, matched
<1> QED
  BY <1>13, <1>14, <1>15, Zenon DEF GroupsAgree, docs, groups

SingleIs(f, how) ==
    Aggregate(tableRows, << [op |-> "$match", filter |-> qb.filter] >> \o <<Totals(how, f)>>)[1]["total"]
        = Accumulate(Matched(tableRows, qb.filter), how, f)

LEMMA SingleHolds ==
    ASSUME IsList(Matched(tableRows, qb.filter)), Matched(tableRows, qb.filter) # <<>>,
           NEW f, NEW how, Collects(how)
    PROVE  SingleIs(f, how)
<1>1. PICK filter : filter = qb.filter
  OBVIOUS
<1>2. IsList(Matched(tableRows, filter)) /\ Matched(tableRows, filter) # <<>>
  BY <1>1
<1> QED
  BY <1>1, <1>2, SingleTotal DEF SingleIs

LEMMA SinglesHold ==
    ASSUME SummedInv, FieldsSummed, NEW f \in SortFields
    PROVE  SinglesAgree(f)
<1> DEFINE matched == Matched(tableRows, qb.filter)
           docs == Selected(tableRows, qb.filter)
           match == [op |-> "$match", filter |-> qb.filter]
           Single(how) == Aggregate(tableRows, <<match>> \o <<Totals(how, f)>>)[1]["total"]
           vals == ValuesOf(docs, f)
<1>0. SUFFICES ASSUME docs # <<>>
      PROVE  /\ Single("$sum") = Sum(tableRows, f, qb.filter)
             /\ ~IsNullish(Least(tableRows, f, qb.filter)) =>
                  /\ Single("$min") = Least(tableRows, f, qb.filter)
                  /\ Single("$max") = Greatest(tableRows, f, qb.filter)
             /\ Having(docs, f) = docs => Single("$avg") = Average(tableRows, f, qb.filter)
             /\ Single("$addToSet").items = DistinctValues(tableRows, f, qb.filter)
             /\ [i \in DOMAIN vals |-> [total |-> vals[i]]]
                  = Aggregate(tableRows,
                      <<match>> \o <<Totals("$push", f), [op |-> "$unwind", field |-> "total"]>>)
  BY Zenon DEF SinglesAgree
<1>1. IsList(matched) /\ IsList(docs) /\ Len(matched) = Len(docs)
  BY SelectedFacts DEF SummedInv, QueriesInv
<1>2. Nameable(f)
  BY DEF FieldsSummed
<1>3. f # "_id"
  BY <1>2, Zenon DEF Nameable
<1>4. Alike(matched, docs, f)
  BY <1>3, SelectedAlike DEF SummedInv, QueriesInv
<1> HIDE DEF docs, matched
<1>5. /\ SumOf(matched, f) = SumOf(docs, f) /\ NumbersOf(matched, f) = NumbersOf(docs, f)
      /\ ValuesOf(matched, f) = ValuesOf(docs, f)
  BY <1>4, AlikeFacts
<1>6. matched # <<>>
  <2>1. Len(docs) # 0
    <3>1. docs = [i \in 1..Len(docs) |-> docs[i]]
      BY <1>1, ListFacts
    <3>2. SUFFICES ASSUME Len(docs) = 0 PROVE FALSE
      OBVIOUS
    <3>3. \A i \in 1..Len(docs) : docs[i] = <<>>[i]
      BY <3>2
    <3>4. docs = <<>>
      BY <1>1, <3>2, <3>3, NoList, ListEqual
    <3> QED
      BY <1>0, <3>4
  <2> QED
    BY <1>1, <2>1, NoList
<1>7. ASSUME NEW how, Collects(how) PROVE Single(how) = Accumulate(matched, how, f)
  <2>1. SingleIs(f, how)
    BY <1>1, <1>6, <1>7, SingleHolds DEF matched
  <2> QED
    BY <2>1 DEF SingleIs, matched
<1> HIDE DEF Single
<1>8. /\ Accumulate(matched, "$sum", f) = NumberOf(SumOf(matched, f))
      /\ Accumulate(matched, "$avg", f) = Quotient(SumOf(matched, f), Len(matched))
      /\ NumbersOf(matched, f) # {} =>
           /\ Accumulate(matched, "$min", f) = Number(Min(NumbersOf(matched, f)))
           /\ Accumulate(matched, "$max", f) = Number(Max(NumbersOf(matched, f)))
      /\ Accumulate(matched, "$push", f) = Array(ValuesOf(matched, f))
      /\ Accumulate(matched, "$addToSet", f) = Array(FirstOfEach(ValuesOf(matched, f)))
  BY Accumulated
<1>9. Single("$sum") = Sum(tableRows, f, qb.filter)
  <2>1. Single("$sum") = NumberOf(SumOf(docs, f))
    BY <1>5, <1>7, <1>8, Collectors
  <2> QED
    BY <2>1 DEF Sum, docs
<1>10. ~IsNullish(Least(tableRows, f, qb.filter)) =>
          /\ Single("$min") = Least(tableRows, f, qb.filter)
          /\ Single("$max") = Greatest(tableRows, f, qb.filter)
  <2>1. CASE NumbersOf(docs, f) = {}
    <3>1. Least(tableRows, f, qb.filter) = Null
      BY <2>1 DEF Least, docs
    <3>2. IsNullish(Null)
      BY DEF IsNullish, Null
    <3> QED
      BY <3>1, <3>2
  <2>2. CASE NumbersOf(docs, f) # {}
    <3>1. /\ Least(tableRows, f, qb.filter) = Number(Min(NumbersOf(docs, f)))
          /\ Greatest(tableRows, f, qb.filter) = Number(Max(NumbersOf(docs, f)))
      BY <2>2 DEF Least, Greatest, docs
    <3>2. Single("$min") = Number(Min(NumbersOf(docs, f))) /\ Single("$max") = Number(Max(NumbersOf(docs, f)))
      BY <1>5, <1>7, <1>8, <2>2, Collectors
    <3> QED
      BY <3>1, <3>2
  <2> QED
    BY <2>1, <2>2
<1>11. Having(docs, f) = docs => Single("$avg") = Average(tableRows, f, qb.filter)
  <2> SUFFICES ASSUME Having(docs, f) = docs PROVE Single("$avg") = Average(tableRows, f, qb.filter)
    OBVIOUS
  <2>1. Single("$avg") = Quotient(SumOf(docs, f), Len(docs))
    BY <1>1, <1>5, <1>7, <1>8, Collectors
  <2>2. Average(tableRows, f, qb.filter)
          = IF Having(docs, f) = <<>> THEN Number(0) ELSE Quotient(SumOf(docs, f), Len(Having(docs, f)))
    BY Zenon DEF Average, docs
  <2> QED
    BY <1>0, <2>1, <2>2
<1>12. Single("$addToSet").items = DistinctValues(tableRows, f, qb.filter)
  <2>1. Single("$addToSet") = Array(FirstOfEach(ValuesOf(matched, f)))
    BY <1>7, <1>8, Collectors
  <2>2. \A items : Array(items).items = items
    BY DEF Array
  <2>3. DistinctValues(tableRows, f, qb.filter) = FirstOfEach(ValuesOf(matched, f))
    BY Zenon DEF DistinctValues, matched
  <2> QED
    BY <2>1, <2>2, <2>3
<1>13. IsList(vals)
  BY <1>1, ValuesFacts
<1> HIDE DEF vals
<1>14. [i \in DOMAIN vals |-> [total |-> vals[i]]]
         = Aggregate(tableRows,
             <<match>> \o <<Totals("$push", f), [op |-> "$unwind", field |-> "total"]>>)
  <2>0. PICK s, name, t : /\ s = Totals("$push", f) /\ name = "total"
                          /\ t = [op |-> "$unwind", field |-> name]
    OBVIOUS
  <2>1. PICK filter : filter = qb.filter
    OBVIOUS
  <2>2. PICK g : IsTotal(g, Accumulate(matched, "$push", f)) /\ Stage(matched, Totals("$push", f)) = <<g>>
    <3>1. IsList(Matched(tableRows, filter)) /\ Matched(tableRows, filter) # <<>>
      BY <1>1, <1>6, <2>1 DEF matched
    <3>2. \E g : /\ IsTotal(g, Accumulate(Matched(tableRows, filter), "$push", f))
                 /\ Stage(Matched(tableRows, filter), Totals("$push", f)) = <<g>>
      BY <3>1, SingleTotal, Collectors
    <3> QED
      BY <2>1, <3>2 DEF matched
  <2>3. IsTotal(g, Array(vals))
    BY <1>5, <1>8, <2>2 DEF vals
  <2>4. Unwind(<<g>>, "total") = [i \in DOMAIN vals |-> [total |-> vals[i]]]
    BY <1>13, <2>3, UnwoundTotals
  <2>5. Aggregate(tableRows, <<match>> \o <<s, t>>) = Stage(Stage(Matched(tableRows, qb.filter), s), t)
    BY AskedTwo
  <2>6. Stage(<<g>>, t) = Unwind(<<g>>, name)
    BY <2>0, MoreStages
  <2>7. Stage(matched, s) = <<g>>
    BY <2>0, <2>2
  <2> HIDE DEF match
  <2>8. Aggregate(tableRows, <<match>> \o <<s, t>>) = Unwind(<<g>>, "total")
    BY <2>0, <2>5, <2>6, <2>7 DEF matched
  <2> QED
    BY <2>0, <2>4, <2>8
<1> QED
  BY <1>9, <1>10, <1>11, <1>12, <1>14

(* What search finds: the rows whose text contains the other in lower case.  *)
LEMMA SearchFinds ==
    ASSUME IsList(tableRows), NEW f, f # "_id", NEW text, NEW x
    PROVE  x \in ToSet(Search(tableRows, text, {f})) <=>
              \E i \in DOMAIN tableRows :
                 /\ x = RowToValue(tableRows[i]) /\ f \in DOMAIN tableRows[i].doc
                 /\ FieldOf(x, f) = tableRows[i].doc[f] /\ f \in DOMAIN x
                 /\ <<"$contains", Lower(tableRows[i].doc[f].text), Lower(text)>> \in TextTests
<1> DEFINE Has(i) == /\ f \in DOMAIN tableRows[i].doc
                     /\ <<"$contains", Lower(tableRows[i].doc[f].text), Lower(text)>> \in TextTests
           K == {i \in DOMAIN tableRows : Found(tableRows[i].doc, text, {f})}
<1>1. \A i : Found(tableRows[i].doc, text, {f}) <=> Has(i)
  BY DEF Found
<1>2. Search(tableRows, text, {f}) = RowValues(Picked(tableRows, K))
  BY DEF Search
<1>3. K \in SUBSET DOMAIN tableRows /\ \A i \in DOMAIN tableRows : i \in K <=> Has(i)
  BY <1>1
<1> HIDE DEF K, Has
<1>4. \A y : y \in ToSet(Picked(tableRows, K)) <=> \E i \in K : y = tableRows[i]
  BY <1>3, PickedMembers
<1>5. x \in ToSet(RowValues(Picked(tableRows, K))) <=> \E y \in ToSet(Picked(tableRows, K)) : x = RowToValue(y)
  BY DEF ToSet, RowValues
<1>7. x \in ToSet(Search(tableRows, text, {f})) <=> \E i \in K : x = RowToValue(tableRows[i])
  BY <1>2, <1>4, <1>5
<1>8. ASSUME NEW i \in DOMAIN tableRows, Has(i), x = RowToValue(tableRows[i])
      PROVE  FieldOf(x, f) = tableRows[i].doc[f] /\ f \in DOMAIN x
  BY <1>8 DEF FieldOf, RowToValue, Merged, Has
<1> QED
  BY <1>3, <1>7, <1>8 DEF Has

(* What a test by $contains finds in a field that is no array. *)
LEMMA ContainsFinds ==
    ASSUME SummedInv, FieldsSummed, TextsFound, NEW f \in SortFields,
           NEW text \in {test[3] : test \in TextTests}, NEW x
    PROVE  x \in ToSet(Matched(tableRows, Tested(f, "$contains", Text(text)))) <=>
              \E i \in DOMAIN tableRows :
                 /\ x = RowToValue(tableRows[i])
                 /\ <<"$contains", FieldOf(x, f).text, text>> \in TextTests
<1> DEFINE filter == Tested(f, "$contains", Text(text))
           matched == Matched(tableRows, filter)
<1>1. IsList(tableRows)
  BY DEF SummedInv, QueriesInv, RowsShaped
<1>2. ASSUME NEW i \in DOMAIN tableRows
      PROVE  MatchRow(tableRows[i], filter) <=>
                <<"$contains", FieldOf(RowToValue(tableRows[i]), f).text, text>> \in TextTests
  <2> DEFINE v == FieldOf(RowToValue(tableRows[i]), f)
  <2>1. v.tag # "array"
    <3>1. SummedDoc(tableRows[i].doc) /\ f # "_id"
      BY DEF SummedInv, SummedRows, FieldsSummed, Nameable
    <3>2. f \in DOMAIN tableRows[i].doc => v = tableRows[i].doc[f] /\ v.tag # "array"
      BY <3>1 DEF FieldOf, RowToValue, Merged, SummedDoc, Summed
    <3>3. f \notin DOMAIN tableRows[i].doc => v = Undefined
      BY <3>1 DEF FieldOf, RowToValue, Merged
    <3> HIDE DEF v
    <3> QED
      BY <3>2, <3>3 DEF Undefined
  <2>2. PICK d : d = RowToValue(tableRows[i])
    OBVIOUS
  <2>3. Passes(d, Tested(f, "$contains", Text(text))) <=> MatchOp(FieldOf(d, f), "$contains", Text(text))
    BY DEF TextsFound
  <2>4. Text(text).text = text
    BY NumberFacts
  <2> HIDE DEF v
  <2>5. MatchOp(v, "$contains", Text(text)) <=> <<"$contains", v.text, text>> \in TextTests
    BY <2>1, <2>4 DEF MatchOp, TextOperators, PassesText
  <2> QED
    BY <2>2, <2>3, <2>5 DEF MatchRow, v
<1> HIDE DEF filter
<1>3. x \in ToSet(matched) <=> \E i \in DOMAIN tableRows : x = RowToValue(tableRows[i]) /\ MatchRow(tableRows[i], filter)
  <2> DEFINE values == RowValues(tableRows)
             L == {i \in DOMAIN values : Passes(values[i], filter)}
  <2>1. matched = Picked(values, L) /\ L \in SUBSET DOMAIN values
    BY DEF Matched, Passing
  <2>2. IsList(values)
    BY <1>1, ListFacts DEF RowValues, IsList
  <2>3. x \in ToSet(Picked(values, L)) <=> \E i \in L : x = values[i]
    BY <2>1, <2>2, PickedMembers
  <2>4. DOMAIN values = DOMAIN tableRows /\ \A i \in DOMAIN tableRows : values[i] = RowToValue(tableRows[i])
    BY DEF RowValues
  <2>5. \A i \in DOMAIN tableRows : i \in L <=> MatchRow(tableRows[i], filter)
    BY <2>4 DEF MatchRow
  <2> HIDE DEF values, L, matched
  <2> QED
    BY <2>1, <2>3, <2>4, <2>5
<1> QED
  BY <1>2, <1>3 DEF filter, matched

LEMMA SearchHolds ==
    ASSUME SummedInv, FieldsSummed, TextsFound, NEW f \in SortFields
    PROVE  SearchAgrees(f)
<1> SUFFICES ASSUME NEW text \in {test[3] : test \in TextTests} PROVE SearchesAlike(f, text)
  BY DEF SearchAgrees
<1> DEFINE found == ToSet(Search(tableRows, text, {f}))
           exact == ToSet(Matched(tableRows, Tested(f, "$contains", Text(text))))
<1>1. IsList(tableRows) /\ f # "_id"
  BY DEF SummedInv, QueriesInv, RowsShaped, FieldsSummed, Nameable
<1>2. ASSUME NEW d \in exact, f \in DOMAIN d PROVE d \in found
  <2>1. PICK i \in DOMAIN tableRows : /\ d = RowToValue(tableRows[i])
                                      /\ <<"$contains", FieldOf(d, f).text, text>> \in TextTests
    BY ContainsFinds
  <2>2. f \in DOMAIN tableRows[i].doc /\ FieldOf(d, f) = tableRows[i].doc[f]
    BY <1>1, <1>2, <2>1 DEF FieldOf, RowToValue, Merged
  <2>3. <<"$contains", Lower(tableRows[i].doc[f].text), Lower(text)>> \in TextTests
    BY <2>1, <2>2, LowerAssumption
  <2> QED
    BY <1>1, <1>2, <2>1, <2>2, <2>3, SearchFinds
<1>3. ASSUME NEW d \in found, Lower(d[f].text) = d[f].text, Lower(text) = text PROVE d \in exact
  <2>1. PICK i \in DOMAIN tableRows :
           /\ d = RowToValue(tableRows[i]) /\ FieldOf(d, f) = tableRows[i].doc[f] /\ f \in DOMAIN d
           /\ <<"$contains", Lower(tableRows[i].doc[f].text), Lower(text)>> \in TextTests
    BY <1>1, SearchFinds
  <2>2. <<"$contains", FieldOf(d, f).text, text>> \in TextTests
    BY <1>3, <2>1 DEF FieldOf
  <2> QED
    BY <2>1, <2>2, ContainsFinds
<1> QED
  BY <1>2, <1>3 DEF SearchesAlike

(* ReadersAgree: whatever a program writes, over any table and with any     *)
(* filter, count, sum, avg, min, max, distinct and search agree with the    *)
(* stages $group, $unwind and $count and the accumulators of the pipeline   *)
(* (lunexTable.aggregate and search, tableObject count to distinct).        *)
THEOREM ReadersTheSame ==
    ASSUME FieldsSummed, TextsFound
    PROVE  QueriesSpec => []ReadersAgree
<1>1. QueriesInit => SummedInv
  BY SummedStart
<1>2. SummedInv /\ [QueriesNext]_queryVars => SummedInv'
  BY SummedNext
<1>3. SummedInv => ReadersAgree
  BY CountsHold, GroupsHold, SinglesHold, SearchHolds, ReadersParts
<1> QED
  BY <1>1, <1>2, <1>3, PTL DEF QueriesSpec
=============================================================================
