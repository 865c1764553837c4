------------------------------ MODULE Queries ------------------------------
(***************************************************************************)
(* A program that fills a table of std.db and asks it questions            *)
(* (std/db.go).  It declares a schema, writes documents, chains the        *)
(* methods of a query builder, and may run again on the same file.  What   *)
(* one goroutine sees is modelled here; DbTable has the concurrency, the   *)
(* file and the watches of the same operations.                            *)
(***************************************************************************)
EXTENDS Documents

CONSTANTS
    Keys,           \* values of _id
    Docs,           \* the documents the program writes
    Existing,       \* the rows of the table when the program starts
    Schemas,        \* the schemas it declares
    Probes,         \* the filters it uses
    Patches,        \* the changes of its updates, none to _id
    SortFields,     \* the fields it sorts by
    MaxSteps        \* the calls it makes

ASSUME ExistingAssumption ==
    \A found \in Existing :
        /\ IsList(found)
        /\ \A i \in DOMAIN found : found[i] = [id |-> found[i].id, doc |-> found[i].doc]
ASSUME SchemasAssumption ==
    \A defs \in Schemas : \A f \in DOMAIN defs :
        defs[f].generated \in {"", "$uuid", "$now", "$seq"}

VARIABLES
    tableRows,      \* lunexTable.rows
    schema,         \* lunexTable.schema
    seqs,           \* __lunex_seqs__: the last number of the table's sequence
    qb,             \* the qbState of the builder in use
    fresh,          \* ghost: the rows written under the schema as it is
    steps

queryVars == <<tableRows, schema, seqs, qb, fresh, steps>>

Now == 7        \* the clock, when a document is stamped

NewQb(filter) == [filter |-> filter, proj |-> {}, sorts |-> <<>>, limit |-> 0, offset |-> 0]

QueriesInit ==
    /\ tableRows \in Existing
    /\ schema = <<>>
    /\ seqs = 0
    /\ qb = NewQb(NoFilter)
    /\ fresh = {}
    /\ steps = 0

Call == steps < MaxSteps /\ steps' = steps + 1

-----------------------------------------------------------------------------
(* insertDoc of a list of documents, one after the other, until one fails.  *)
(* Whether a sequence has moved on when another field fails depends on the  *)
(* order in which the map of the schema is walked.                          *)
Sequenced(doc, defs) == \E f \in DOMAIN defs : defs[f].generated = "$seq" /\ Absent(doc, f)

NextSeq == seqs + 1

Written(doc) == ApplySchema(doc, schema, NextSeq, Now)

CanInsert(id, doc) ==
    /\ Failing(doc, schema) = {}
    /\ ~Clashes(tableRows, id, Written(doc), schema)
    /\ \A i \in DOMAIN tableRows : tableRows[i].id # id

Insert(id, doc) ==
    /\ IF CanInsert(id, doc)
       THEN /\ tableRows' = Append(tableRows, [id |-> id, doc |-> Written(doc)])
            /\ fresh' = fresh \cup {id}
       ELSE UNCHANGED <<tableRows, fresh>>
    /\ seqs' \in IF ~Sequenced(doc, schema) THEN {seqs}
                 ELSE IF Failing(doc, schema) = {} THEN {NextSeq} ELSE {seqs, NextSeq}
    /\ UNCHANGED <<schema, qb>>

Hits(filter) == {i \in DOMAIN tableRows : MatchRow(tableRows[i], filter)}
Chosen(filter, onlyFirst) ==
    LET hits == Hits(filter) IN IF onlyFirst /\ hits # {} THEN {Min(hits)} ELSE hits

(* updateRows: nothing is checked; only a field called updatedAt is stamped. *)
Stamp(doc) ==
    IF "updatedAt" \in DOMAIN schema /\ schema["updatedAt"].onUpdate
    THEN Merged([updatedAt |-> Number(Now)], doc) ELSE doc

UpdateMatches(filter, changes, onlyFirst) ==
    LET chosen == Chosen(filter, onlyFirst)
    IN  /\ tableRows' = [i \in DOMAIN tableRows |->
                      IF i \in chosen THEN [tableRows[i] EXCEPT !.doc = Stamp(Merged(changes, @))]
                      ELSE tableRows[i]]
        /\ fresh' = fresh \ {tableRows[i].id : i \in chosen}
        /\ UNCHANGED <<schema, seqs, qb>>

DeleteMatches(filter, onlyFirst) ==
    LET chosen == Chosen(filter, onlyFirst)
    IN  /\ tableRows' = Picked(tableRows, DOMAIN tableRows \ chosen)
        /\ fresh' = fresh \ {tableRows[i].id : i \in chosen}
        /\ UNCHANGED <<schema, seqs, qb>>

(* upsert: the first match is updated, or the patch is inserted. *)
Upsert(id, filter, changes) ==
    IF Hits(filter) # {} THEN UpdateMatches(filter, changes, TRUE) ELSE Insert(id, changes)

(* schema(): the definitions given replace those of their fields. *)
AddSchema(defs) ==
    /\ schema' = Merged(defs, schema)
    /\ fresh' = {}
    /\ UNCHANGED <<tableRows, seqs, qb>>

Drop ==
    /\ tableRows' = <<>>
    /\ schema' = <<>>
    /\ fresh' = {}
    /\ UNCHANGED <<seqs, qb>>

(* The program runs again: schema and builders are gone, the documents come *)
(* back as they were written.                                               *)
RunAgain ==
    /\ tableRows' = [i \in DOMAIN tableRows |-> [tableRows[i] EXCEPT !.doc = DocNative(@)]]
    /\ schema' = <<>>
    /\ qb' = NewQb(NoFilter)
    /\ fresh' = {}
    /\ UNCHANGED seqs

(* An _id is a new one, or one that the program gives and that is taken.    *)
Used == {tableRows[i].id : i \in DOMAIN tableRows}
Offered == {id \in Keys : id \in Used \/ \A other \in Keys \ Used : Rank(id) <= Rank(other)}

Write ==
    /\ Call
    /\ \/ \E id \in Offered, doc \in Docs : Insert(id, doc)
       \/ \E filter \in Probes, patch \in Patches, onlyFirst \in BOOLEAN :
            UpdateMatches(filter, patch, onlyFirst)
       \/ \E filter \in Probes, onlyFirst \in BOOLEAN : DeleteMatches(filter, onlyFirst)
       \/ \E id \in Offered, filter \in Probes, patch \in Patches : Upsert(id, filter, patch)
       \/ \E defs \in Schemas : AddSchema(defs)
       \/ Drop
       \/ RunAgain

-----------------------------------------------------------------------------
(* The builder: its methods change the one qbState behind all its objects.  *)
Becomes(q) == qb' = q /\ UNCHANGED <<tableRows, schema, seqs, fresh>>

(* table.where starts one with a filter; table.select, orderBy and limit    *)
(* start one with nothing, whatever they are given.                         *)
TableWhere(filter) == Becomes(NewQb(filter))
TableSelect == Becomes(NewQb(NoFilter))

Where(filter) == Becomes([qb EXCEPT !.filter = filter])
And(filter) ==
    Becomes([qb EXCEPT !.filter = IF @.given THEN Combined("$and", <<@, filter>>) ELSE filter])
Or(filter) ==
    Becomes([qb EXCEPT !.filter = IF @.given THEN Combined("$or", <<@, filter>>) ELSE filter])
Select(fields) == Becomes([qb EXCEPT !.proj = fields])
OrderBy(field, desc) ==
    Becomes([qb EXCEPT !.sorts = Append(@, [field |-> field, desc |-> desc])])
LimitTo(n) == Becomes([qb EXCEPT !.limit = n])
Offset(n) == Becomes([qb EXCEPT !.offset = n])

\* mutant: pages are counted from 0
PagedFromZero(q, n, size) == [q EXCEPT !.offset = n * size, !.limit = size]

Paged(q, n, size) ==
    [q EXCEPT !.offset = ((IF n < 1 THEN 1 ELSE n) - 1) * size, !.limit = size]

Exec(q) == ExecQuery(tableRows, q.filter, q.proj, q.sorts, q.limit, q.offset)
FirstOf(q) ==
    LET found == ExecQuery(tableRows, q.filter, q.proj, q.sorts, 1, q.offset)
    IN  IF found = <<>> THEN Null ELSE found[1]
LastOf(q) ==
    LET found == ExecQuery(tableRows, q.filter, q.proj, q.sorts, 0, 0)
    IN  IF found = <<>> THEN Null ELSE found[Len(found)]
CountOf(q) == Len(ExecQuery(tableRows, q.filter, {}, <<>>, 0, 0))

Chain ==
    /\ Call
    /\ \/ \E filter \in Probes : TableWhere(filter)
       \/ TableSelect
       \/ \E filter \in Probes : Where(filter) \/ And(filter) \/ Or(filter)
       \/ \E fields \in SUBSET SortFields : Select(fields)
       \/ \E field \in SortFields, desc \in BOOLEAN : OrderBy(field, desc)
       \/ \E n \in 0 .. 2 : LimitTo(n) \/ Offset(n) \/ Becomes(Paged(qb, n, 1))
       \/ \E patch \in Patches : UpdateMatches(qb.filter, patch, FALSE)
       \/ DeleteMatches(qb.filter, FALSE)

QueriesNext == Write \/ Chain
QueriesSpec == QueriesInit /\ [][QueriesNext]_queryVars

-----------------------------------------------------------------------------
(* find with options, and a pipeline of the same stages, are written twice  *)
(* in the code: for every query that a builder can stand for, they return   *)
(* the same documents in the same order.                                    *)
Pipeline(q) ==
    LET match == [op |-> "$match", filter |-> q.filter]
        sort == [op |-> "$sort", sort |-> q.sorts[1]]
        skip == [op |-> "$skip", n |-> q.offset]
        limit == [op |-> "$limit", n |-> q.limit]
        project == [op |-> "$project", fields |-> q.proj]
    IN  IF q.sorts = <<>> THEN <<match, skip, limit, project>>
        ELSE <<match, sort, skip, limit, project>>

PipelineAgrees == Len(qb.sorts) <= 1 => Aggregate(tableRows, Pipeline(qb)) = Exec(qb)

(* An answer is in the order asked for, where the values of each field      *)
(* compare alike, and documents that are equal in it are in the order of    *)
(* their insertion.  The pages of a query, one after the other, are its     *)
(* whole answer: no document is on two pages and none is between two.  Its  *)
(* first, last and number of results agree too.                             *)
Uniform(field) ==
    \A i, j \in DOMAIN tableRows :
        FieldOf(tableRows[i].doc, field).tag = FieldOf(tableRows[j].doc, field).tag

Ordered(found) ==
    LET Place(d) == CHOOSE i \in DOMAIN tableRows : tableRows[i].id = d["_id"].text
    IN  \A i, j \in DOMAIN found : i < j =>
            /\ ~Before(qb.sorts, found[j], found[i])
            /\ ~Before(qb.sorts, found[i], found[j]) => Place(found[i]) < Place(found[j])

PagesInOrder ==
    LET whole == Exec([qb EXCEPT !.limit = 0, !.offset = 0])
    IN  /\ (\A i \in DOMAIN qb.sorts : Uniform(qb.sorts[i].field)) =>
               Ordered(Exec([qb EXCEPT !.proj = {}]))
        /\ \A size \in 1 .. 2 :
             FlattenSeq([n \in 1 .. Len(tableRows) |-> Exec(Paged(qb, n, size))]) = whole
        /\ CountOf(qb) = Len(whole)
        /\ whole # <<>> => LastOf(qb) = whole[Len(whole)]
        /\ Exec(qb) # <<>> => FirstOf(qb) = Exec(qb)[1]

Totals(op, field) ==
    [op |-> "$group", by |-> "", accs |-> {[name |-> "total", op |-> op, field |-> field]}]
Sizes(field) ==
    [op |-> "$group", by |-> field,
     accs |-> {[name |-> "size", op |-> "$count", field |-> ""],
               [name |-> "sum", op |-> "$sum", field |-> field]}]
SumOver(groups, name) == Total([i \in DOMAIN groups |-> groups[i][name].nums])

(* search takes no notice of case and $contains does: what $contains finds  *)
(* in a field search finds too, and where there are no capitals conversely. *)
SearchesAlike(f, text) ==
    LET found == ToSet(Search(tableRows, text, {f}))
        exact == ToSet(Matched(tableRows, Tested(f, "$contains", Text(text))))
    IN  /\ \A d \in exact : f \in DOMAIN d => d \in found
        /\ \A d \in found : Lower(d[f].text) = d[f].text /\ Lower(text) = text => d \in exact

(* What a filter selects is the same whichever way it is asked for: in one  *)
(* group, over the groups of any field, by the methods of the table, by     *)
(* collecting the values and taking them apart again, and by search.        *)
ReadersAgree ==
    LET match == [op |-> "$match", filter |-> qb.filter]
        docs == Selected(tableRows, qb.filter)
        Ask(stages) == Aggregate(tableRows, <<match>> \o stages)
    IN  /\ Ask(<< [op |-> "$count", name |-> "n"] >>) = << [n |-> Number(Len(docs))] >>
        /\ \A f \in SortFields :
             LET groups == Ask(<<Sizes(f)>>)
                 Single(op) == Ask(<<Totals(op, f)>>)[1]["total"]
             IN  /\ SumOver(groups, "size") = {Len(docs)}
                 /\ SumOver(groups, "sum") = Sum(tableRows, f, qb.filter).nums
                 /\ {v.text : v \in ToSet(DistinctValues(tableRows, f, qb.filter))}
                      = {g[f].text : g \in ToSet(groups)} \ {""}
                 /\ docs # <<>> =>
                      /\ Single("$sum") = Sum(tableRows, f, qb.filter)
                      /\ ~IsNullish(Least(tableRows, f, qb.filter)) =>
                           /\ Single("$min") = Least(tableRows, f, qb.filter)
                           /\ Single("$max") = Greatest(tableRows, f, qb.filter)
                      /\ Having(docs, f) = docs => Single("$avg") = Average(tableRows, f, qb.filter)
                      /\ Single("$addToSet").items = DistinctValues(tableRows, f, qb.filter)
                      /\ [i \in DOMAIN ValuesOf(docs, f) |-> [total |-> ValuesOf(docs, f)[i]]]
                           = Ask(<<Totals("$push", f), [op |-> "$unwind", field |-> "total"]>>)
                 /\ \A text \in {test[3] : test \in TextTests} : SearchesAlike(f, text)

(* A row written under a schema, and not updated since, is as the schema    *)
(* asks: required fields and fields with a default are there, types and     *)
(* bounds are kept, and no two such rows share a value of a unique field.   *)
InsertedConform ==
    \A i \in DOMAIN tableRows : tableRows[i].id \in fresh =>
        \A f \in DOMAIN schema :
            LET val == FieldOf(tableRows[i].doc, f)
            IN  IF IsNullish(val)
                THEN ~schema[f].required /\ Defaulted(schema[f], 0, 0) = Undefined
                ELSE /\ Valid(val, schema[f])
                     /\ schema[f].unique =>
                          \A j \in DOMAIN tableRows : (j # i /\ tableRows[j].id \in fresh) =>
                             ~StrictEquals(FieldOf(tableRows[j].doc, f), val)
=============================================================================
