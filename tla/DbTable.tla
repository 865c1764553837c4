------------------------------ MODULE DbTable ------------------------------
(***************************************************************************)
(* One table of std.db: the SQLite table that survives the process, and    *)
(* the lunexTable objects that keep a copy of its rows in memory           *)
(* (std/db.go, std/dbstore.go).  Every statement is read from and written  *)
(* to the copy; each change is sent to SQLite row by row, with no lock     *)
(* held in between.  One action is one critical section of t.mu, or one    *)
(* SQL statement: dbstore.go runs them one at a time.                      *)
(*                                                                         *)
(* A document is the value of a field u, which a schema may declare        *)
(* unique, and of a field n that it does not.                              *)
(***************************************************************************)
EXTENDS Integers, FiniteSets, Sequences, SequencesExt, FiniteSetsExt, Ordered

CONSTANTS
    Goroutines,     \* the goroutines of the process
    Handles,        \* the lunexTable objects of the process
    NoHandle,       \* no lunexTable in db.tables
    Ids,            \* values of _id
    Us,             \* values of the field u
    Ns,             \* values of the field n
    Refs,           \* the maps that hold a document in memory
    Programs        \* the programs that may run

(* A program: its goroutines that use the table, the operations they use,   *)
(* the documents they insert and the fields they update.  It may start with *)
(* a file that has the table and its unique index.  "clearwatched": it      *)
(* clears tables it watches too; "keepdropped": it keeps the objects of     *)
(* tables it has dropped.                                                   *)
OperationNames ==
    {"insert", "update", "delete", "clear", "drop", "dbdrop", "schema", "watch", "restart",
     "clearwatched", "keepdropped"}

ASSUME HandlesAssumption == NoHandle \notin Handles /\ Handles # {}
ASSUME RefsAssumption == Refs \subseteq Nat /\ IsFiniteSet(Refs)
ASSUME DocsAssumption == Us # {} /\ Ns # {}
ASSUME GoroutinesAssumption == IsFiniteSet(Goroutines)

Doc == [u : Us, n : Ns]

Program == [goroutines : SUBSET Goroutines, operations : SUBSET OperationNames,
            docs : SUBSET Doc, fields : SUBSET {"u", "n"}, existing : BOOLEAN]

ASSUME ProgramsAssumption == \A p \in Programs : p \in Program

NoDoc == [u |-> "none", n |-> "none"]

VARIABLES
    program,    \* the program that runs
    disk,       \* the SQLite table: does it exist, has it the index, its rows
    heap,       \* the documents in memory; dbRow.doc is a reference
    rows,       \* lunexTable.rows
    loaded,     \* lunexTable.loaded
    unique,     \* the handles whose schema declares u unique
    current,    \* db.tables[name]
    handed,     \* the table objects the program has got
    watching,   \* the handles with a watch of all rows
    view,       \* what the watcher knows: a ghost
    op          \* what each goroutine is doing

vars == <<program, disk, heap, rows, loaded, unique, current, handed, watching, view, op>>
memory == <<heap, rows, loaded>>
registry == <<unique, current, handed>>
watcher == <<watching, view>>

DiskRow == [id : Ids, doc : Doc]
Row == [id : Ids, ref : Refs]

Stages == {"idle", "ready", "insert", "append", "inserted", "marshal", "write", "updated",
           "delete", "deleted", "clear", "drop", "dbdrop", "index"}

(* stage is the next step of the operation on table object h; todo are the  *)
(* rows it still has to persist, and payload the JSON of the first of them. *)
Op == [stage : Stages, h : Handles \cup {NoHandle}, todo : Seq(Row),
       payload : Doc \cup {NoDoc}]
Idle == [stage |-> "idle", h |-> NoHandle, todo |-> <<>>, payload |-> NoDoc]

-----------------------------------------------------------------------------
Init ==
    /\ program \in Programs
    /\ disk = [table |-> program.existing, index |-> program.existing, rows |-> <<>>]
    /\ heap = [r \in Refs |-> CHOOSE d \in Doc : TRUE]
    /\ rows = [h \in Handles |-> <<>>]
    /\ loaded = [h \in Handles |-> FALSE]
    /\ unique = {}
    /\ current = NoHandle
    /\ handed = {}
    /\ watching = {}
    /\ view = [i \in Ids |-> NoDoc]
    /\ op = [g \in Goroutines |-> Idle]

-----------------------------------------------------------------------------
IdsOf(s) == {s[k].id : k \in DOMAIN s}

(* The rows a query on h returns. *)
Read(h) == [k \in DOMAIN rows[h] |-> [id |-> rows[h][k].id, doc |-> heap[rows[h][k].ref]]]

AsMap(s) ==
    [i \in Ids |-> IF i \in IdsOf(s)
                   THEN s[CHOOSE k \in DOMAIN s : s[k].id = i].doc ELSE NoDoc]

(* The documents nothing refers to: room for new ones. *)
Free ==
    Refs \ ((UNION {{rows[h][k].ref : k \in DOMAIN rows[h]} : h \in Handles})
            \cup (UNION {{op[g].todo[k].ref : k \in DOMAIN op[g].todo} : g \in Goroutines}))
FreeSeq == Ascending(Free)

Does(operation) == operation \in program.operations

At(g, stage) == op[g].stage = stage
Become(g, o) == op' = [op EXCEPT ![g] = o]
Go(g, stage) == Become(g, [op[g] EXCEPT !.stage = stage])
Done(g) == Become(g, Idle)

(* The row of g's operation is settled: on to the next one, or done. *)
NextRow(g, stage) ==
    IF Len(op[g].todo) = 1 THEN Done(g)
    ELSE Become(g, [op[g] EXCEPT !.stage = stage, !.todo = Tail(op[g].todo)])

(* notifyWatches copies t.watches and calls back: a step of its own.        *)
Notify(g, event, next) ==
    IF op[g].h \in watching THEN Go(g, event) ELSE NextRow(g, next)

(* A filter: every row, the row of an _id, or the rows with a value of u.   *)
Filters == {Ids \X Us} \cup {{i} \X Us : i \in Ids} \cup {Ids \X {u} : u \in Us}

Matching(h, filter, onlyFirst) ==
    LET all == {k \in DOMAIN rows[h] : <<rows[h][k].id, heap[rows[h][k].ref].u>> \in filter}
    IN  IF onlyFirst /\ all # {} THEN {Min(all)} ELSE all

-----------------------------------------------------------------------------
(* db.table(name): the registered object, or a new one. *)
Table(g) ==
    /\ At(g, "idle")
    /\ current = NoHandle
    /\ \E h \in Handles \ handed :
         /\ current' = h
         /\ handed' = handed \cup {h}
         /\ rows' = [rows EXCEPT ![h] = <<>>]
         /\ loaded' = [loaded EXCEPT ![h] = FALSE]
         /\ unique' = unique \ {h}
         /\ watching' = watching \ {h}
    /\ UNCHANGED <<disk, heap, view, op>>

(* ensureLoaded: CREATE TABLE IF NOT EXISTS, and the first time all rows.   *)
EnsureLoaded(g, h) ==
    /\ At(g, "idle")
    /\ h \in handed
    /\ disk' = [disk EXCEPT !.table = TRUE]
    /\ IF loaded[h]
       THEN UNCHANGED memory
       ELSE /\ Len(disk.rows) <= Len(FreeSeq)
            /\ rows' = [rows EXCEPT ![h] = [k \in DOMAIN disk.rows |->
                          [id |-> disk.rows[k].id, ref |-> FreeSeq[k]]]]
            /\ heap' = [r \in Refs |->
                          IF \E k \in DOMAIN disk.rows : FreeSeq[k] = r
                          THEN disk.rows[CHOOSE k \in DOMAIN disk.rows : FreeSeq[k] = r].doc
                          ELSE heap[r]]
            /\ loaded' = [loaded EXCEPT ![h] = TRUE]
    /\ Become(g, [Idle EXCEPT !.stage = "ready", !.h = h])
    /\ UNCHANGED <<registry, watcher>>

(* find, count, distinct, aggregate, search: they read the copy only. *)
Query(g) ==
    /\ At(g, "ready")
    /\ Done(g)
    /\ UNCHANGED <<disk, memory, registry, watcher>>

-----------------------------------------------------------------------------
Taken(h, id, u) ==
    h \in unique /\ \E k \in DOMAIN rows[h] : rows[h][k].id # id /\ heap[rows[h][k].ref].u = u

(* insertDoc up to rowJSON: applySchema copies the document, checkUnique    *)
(* looks for the value among the rows in memory.                            *)
CheckInsert(g, id, doc) ==
    /\ Does("insert")
    /\ At(g, "ready")
    /\ \/ /\ Taken(op[g].h, id, doc.u)
          /\ Done(g)
          /\ UNCHANGED heap
       \/ /\ ~Taken(op[g].h, id, doc.u)
          /\ Free # {}
          /\ heap' = [heap EXCEPT ![FreeSeq[1]] = doc]
          /\ Become(g, [op[g] EXCEPT !.stage = "insert",
                                     !.todo = <<[id |-> id, ref |-> FreeSeq[1]]>>])
    /\ UNCHANGED <<disk, rows, loaded, registry, watcher>>

(* INSERT INTO fails on the primary key, on the unique index, or on a table *)
(* that has been dropped.                                                   *)
Insertable(row) ==
    /\ disk.table
    /\ row.id \notin IdsOf(disk.rows)
    /\ disk.index => \A k \in DOMAIN disk.rows : disk.rows[k].doc.u # row.doc.u

(* Variant with a bug: the error of INSERT is dropped, as update does. *)
StoreInsertIgnoringErrors(g) ==
    LET row == [id |-> op[g].todo[1].id, doc |-> heap[op[g].todo[1].ref]]
    IN  /\ At(g, "insert")
        /\ Go(g, "append")
        /\ disk' = IF Insertable(row) THEN [disk EXCEPT !.rows = Append(@, row)] ELSE disk
        /\ UNCHANGED <<memory, registry, watcher>>

StoreInsert(g) ==
    LET row == [id |-> op[g].todo[1].id, doc |-> heap[op[g].todo[1].ref]]
    IN  /\ At(g, "insert")
        /\ \/ /\ Insertable(row)
              /\ disk' = [disk EXCEPT !.rows = Append(@, row)]
              /\ Go(g, "append")
           \/ ~Insertable(row) /\ Done(g) /\ UNCHANGED disk
        /\ UNCHANGED <<memory, registry, watcher>>

AppendRow(g) ==
    /\ At(g, "append")
    /\ rows' = [rows EXCEPT ![op[g].h] = Append(@, op[g].todo[1])]
    /\ Notify(g, "inserted", "idle")
    /\ UNCHANGED <<disk, heap, loaded, registry, watcher>>

-----------------------------------------------------------------------------
(* updateRows: the rows that match are changed in memory, under the lock;   *)
(* nothing is checked.                                                      *)
UpdateRows(g, filter, field, val, onlyFirst) ==
    LET h == op[g].h
        hit == Matching(h, filter, onlyFirst)
    IN  /\ Does("update")
        /\ At(g, "ready")
        /\ heap' = [r \in Refs |-> IF \E k \in hit : rows[h][k].ref = r
                                   THEN [heap[r] EXCEPT ![field] = val] ELSE heap[r]]
        /\ IF hit = {} THEN Done(g)
           ELSE Become(g, [op[g] EXCEPT !.stage = "marshal",
                                        !.todo = Picked(rows[h], hit)])
        /\ UNCHANGED <<disk, rows, loaded, registry, watcher>>

(* rowJSON reads the document, which other updates may have changed since.  *)
Marshal(g) ==
    /\ At(g, "marshal")
    /\ Become(g, [op[g] EXCEPT !.stage = "write", !.payload = heap[op[g].todo[1].ref]])
    /\ UNCHANGED <<disk, memory, registry, watcher>>

(* UPDATE ... WHERE id: its error, such as a duplicate in the index, is     *)
(* dropped.                                                                 *)
Updatable(id, doc) ==
    /\ disk.table
    /\ disk.index => \A k \in DOMAIN disk.rows :
                        disk.rows[k].id # id => disk.rows[k].doc.u # doc.u

(* Variant with a bug: an update is left to the next one to be written. *)
WriteNoUpdate(g) ==
    /\ At(g, "write")
    /\ UNCHANGED disk
    /\ Notify(g, "updated", "marshal")
    /\ UNCHANGED <<memory, registry, watcher>>

WriteUpdate(g) ==
    LET id == op[g].todo[1].id
        doc == op[g].payload
    IN  /\ At(g, "write")
        /\ disk' = IF ~Updatable(id, doc) THEN disk
                   ELSE [disk EXCEPT !.rows = [k \in DOMAIN @ |->
                           IF @[k].id = id THEN [id |-> id, doc |-> doc] ELSE @[k]]]
        /\ Notify(g, "updated", "marshal")
        /\ UNCHANGED <<memory, registry, watcher>>

-----------------------------------------------------------------------------
(* Variant with a bug: onlyFirst keeps the rows after the first as well as  *)
(* before it out of the copy.                                               *)
DeleteRowsFromFirst(g, filter, onlyFirst) ==
    LET h == op[g].h
        hit == Matching(h, filter, onlyFirst)
        kept == {k \in DOMAIN rows[h] : \A j \in hit : k < j}
    IN  /\ Does("delete")
        /\ At(g, "ready")
        /\ rows' = [rows EXCEPT ![h] = Picked(rows[h], kept)]
        /\ IF hit = {} THEN Done(g)
           ELSE Become(g, [op[g] EXCEPT !.stage = "delete",
                                        !.todo = Picked(rows[h], hit)])
        /\ UNCHANGED <<disk, heap, loaded, registry, watcher>>

(* deleteRows: out of the copy first, then out of SQLite, row by row.       *)
DeleteRows(g, filter, onlyFirst) ==
    LET h == op[g].h
        hit == Matching(h, filter, onlyFirst)
    IN  /\ Does("delete")
        /\ At(g, "ready")
        /\ rows' = [rows EXCEPT ![h] = Picked(rows[h], DOMAIN rows[h] \ hit)]
        /\ IF hit = {} THEN Done(g)
           ELSE Become(g, [op[g] EXCEPT !.stage = "delete",
                                        !.todo = Picked(rows[h], hit)])
        /\ UNCHANGED <<disk, heap, loaded, registry, watcher>>

Without(id) == [disk EXCEPT !.rows = Picked(@, {k \in DOMAIN @ : @[k].id # id})]

DeleteRow(g) ==
    /\ At(g, "delete")
    /\ disk' = Without(op[g].todo[1].id)
    /\ Notify(g, "deleted", "delete")
    /\ UNCHANGED <<memory, registry, watcher>>

-----------------------------------------------------------------------------
(* clear: DELETE FROM first, then the copy. *)
ClearDisk(g, h) ==
    /\ Does("clear")
    /\ At(g, "idle")
    /\ h \in handed
    /\ h \in watching => Does("clearwatched")
    /\ disk' = [disk EXCEPT !.table = TRUE, !.rows = <<>>]
    /\ Become(g, [Idle EXCEPT !.stage = "clear", !.h = h])
    /\ UNCHANGED <<memory, registry, watcher>>

ClearRows(g) ==
    /\ At(g, "clear")
    /\ rows' = [rows EXCEPT ![op[g].h] = <<>>]
    /\ loaded' = [loaded EXCEPT ![op[g].h] = TRUE]
    /\ Done(g)
    /\ UNCHANGED <<disk, heap, registry, watcher>>

Dropped == [table |-> FALSE, index |-> FALSE, rows |-> <<>>]

(* table.drop(): DROP TABLE, then the copy, the schema and the watches.     *)
DropDisk(g, h) ==
    /\ Does("drop")
    /\ At(g, "idle")
    /\ h \in handed
    /\ disk' = Dropped
    /\ Become(g, [Idle EXCEPT !.stage = "drop", !.h = h])
    /\ UNCHANGED <<memory, registry, watcher>>

DropRows(g) ==
    /\ At(g, "drop")
    /\ rows' = [rows EXCEPT ![op[g].h] = <<>>]
    /\ loaded' = [loaded EXCEPT ![op[g].h] = FALSE]
    /\ unique' = unique \ {op[g].h}
    /\ watching' = watching \ {op[g].h}
    /\ Done(g)
    /\ UNCHANGED <<disk, heap, current, handed, view>>

(* database.drop(name): DROP TABLE, then the object leaves db.tables.       *)
DbDropDisk(g) ==
    /\ Does("dbdrop")
    /\ At(g, "idle")
    /\ handed # {}
    /\ disk' = Dropped
    /\ Go(g, "dbdrop")
    /\ UNCHANGED <<memory, registry, watcher>>

DbForget(g) ==
    /\ At(g, "dbdrop")
    /\ current' = NoHandle
    /\ handed' = IF Does("keepdropped") THEN handed ELSE handed \ {current}
    /\ Done(g)
    /\ UNCHANGED <<disk, memory, unique, watcher>>

-----------------------------------------------------------------------------
(* table.schema: the field definitions, then the index of each of them.     *)
SetSchema(g, h) ==
    /\ Does("schema")
    /\ At(g, "idle")
    /\ h \in handed
    /\ unique' = unique \cup {h}
    /\ Become(g, [Idle EXCEPT !.stage = "index", !.h = h])
    /\ UNCHANGED <<disk, memory, current, handed, watcher>>

(* CREATE UNIQUE INDEX IF NOT EXISTS fails without the table, or with       *)
(* duplicates in it; schema drops the error.                                *)
Distinct(s) == \A j, k \in DOMAIN s : s[j].doc.u = s[k].doc.u => j = k

CreateIndex(g) ==
    /\ At(g, "index")
    /\ disk' = [disk EXCEPT !.index = @ \/ (disk.table /\ Distinct(disk.rows))]
    /\ Done(g)
    /\ UNCHANGED <<memory, registry, watcher>>

(* watch(fn): from here on fn hears of every change; the program starts     *)
(* from the rows as they are.                                               *)
Watch(g) ==
    /\ Does("watch")
    /\ At(g, "ready")
    /\ watching = {}
    /\ watching' = {op[g].h}
    /\ view' = AsMap(Read(op[g].h))
    /\ Done(g)
    /\ UNCHANGED <<disk, memory, registry>>

Unwatch(g, h) ==
    /\ At(g, "idle")
    /\ h \in watching
    /\ watching' = watching \ {h}
    /\ UNCHANGED <<disk, memory, registry, view, op>>

(* fn({type, doc}) has run. *)
Notified(g) ==
    LET row == op[g].todo[1]
    IN  \/ /\ At(g, "inserted")
           /\ view' = [view EXCEPT ![row.id] = heap[row.ref]]
           /\ Done(g)
           /\ UNCHANGED <<disk, memory, registry, watching>>
        \/ /\ At(g, "updated")
           /\ view' = [view EXCEPT ![row.id] = heap[row.ref]]
           /\ NextRow(g, "marshal")
           /\ UNCHANGED <<disk, memory, registry, watching>>
        \/ /\ At(g, "deleted")
           /\ view' = [view EXCEPT ![row.id] = NoDoc]
           /\ NextRow(g, "delete")
           /\ UNCHANGED <<disk, memory, registry, watching>>

(* The process ends, at any point, and runs again on the same file. *)
Restart ==
    /\ Does("restart")
    /\ handed # {}
    /\ rows' = [h \in Handles |-> <<>>]
    /\ loaded' = [h \in Handles |-> FALSE]
    /\ unique' = {}
    /\ current' = NoHandle
    /\ handed' = {}
    /\ watching' = {}
    /\ op' = [g \in Goroutines |-> Idle]
    /\ UNCHANGED <<disk, heap, view>>

-----------------------------------------------------------------------------
Step(g) ==
    \/ Table(g)
    \/ \E h \in Handles : EnsureLoaded(g, h)
    \/ Query(g)
    \/ \E id \in Ids, doc \in program.docs : CheckInsert(g, id, doc)
    \/ StoreInsert(g)
    \/ AppendRow(g)
    \/ \E filter \in Filters, field \in program.fields, onlyFirst \in BOOLEAN :
         \E val \in IF field = "u" THEN Us ELSE Ns :
           UpdateRows(g, filter, field, val, onlyFirst)
    \/ Marshal(g)
    \/ WriteUpdate(g)
    \/ \E filter \in Filters, onlyFirst \in BOOLEAN : DeleteRows(g, filter, onlyFirst)
    \/ DeleteRow(g)
    \/ \E h \in Handles : ClearDisk(g, h)
    \/ ClearRows(g)
    \/ \E h \in Handles : DropDisk(g, h)
    \/ DropRows(g)
    \/ DbDropDisk(g)
    \/ DbForget(g)
    \/ \E h \in Handles : SetSchema(g, h)
    \/ CreateIndex(g)
    \/ Watch(g)
    \/ \E h \in Handles : Unwatch(g, h)
    \/ Notified(g)

Next == ((\E g \in program.goroutines : Step(g)) \/ Restart) /\ UNCHANGED program

Spec == Init /\ [][Next]_vars

-----------------------------------------------------------------------------
TypeOK ==
    /\ program \in Programs
    /\ disk \in [table : BOOLEAN, index : BOOLEAN, rows : Seq(DiskRow)]
    /\ heap \in [Refs -> Doc]
    /\ rows \in [Handles -> Seq(Row)]
    /\ loaded \in [Handles -> BOOLEAN]
    /\ unique \subseteq Handles /\ handed \subseteq Handles /\ watching \subseteq Handles
    /\ current \in Handles \cup {NoHandle}
    /\ view \in [Ids -> Doc \cup {NoDoc}]
    /\ op \in [Goroutines -> Op]

AtRest == \A g \in Goroutines : op[g].stage \in {"idle", "ready"}
Sequential == Cardinality(program.goroutines) = 1

(* Once every operation of a program with one goroutine is over, a loaded   *)
(* table object shows the rows that SQLite holds, in the same order, so     *)
(* that they survive the process.                                           *)
CacheCoherent ==
    Sequential /\ AtRest => \A h \in handed : loaded[h] => Read(h) = disk.rows

(* With any operations of any goroutine still under way, but while the      *)
(* whole table is cleared or dropped, every row a query returns is in       *)
(* SQLite, and once; when they are over, no row is missing.                 *)
RowsOnDisk ==
    (\A g \in Goroutines : op[g].stage \notin {"clear", "drop", "dbdrop"}) =>
    \A h \in handed :
        /\ IdsOf(rows[h]) \subseteq IdsOf(disk.rows)
        /\ Cardinality(IdsOf(rows[h])) = Len(rows[h])
        /\ AtRest /\ h \in handed /\ loaded[h] => IdsOf(rows[h]) = IdsOf(disk.rows)

(* No two rows of a table have one value of a field its schema declares     *)
(* unique, neither in what a query returns nor in SQLite, once the table    *)
(* has the index. docs/stdlib.md:937 promises it at once: but schema of a   *)
(* table that does not exist yet makes no index, and two inserts that meet  *)
(* may then both pass checkUnique.                                          *)
UniqueKept ==
    disk.index => \A h \in unique : Distinct(Read(h)) /\ (loaded[h] => Distinct(disk.rows))

(* A watcher that keeps a copy by what it is told of has the table's rows.  *)
WatcherFollows ==
    AtRest => \A h \in watching : loaded[h] => view = AsMap(Read(h))
=============================================================================
