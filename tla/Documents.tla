----------------------------- MODULE Documents -----------------------------
(***************************************************************************)
(* What std.db computes from the rows of one table (std/db.go): filters,   *)
(* sorting, find, the aggregation pipeline, the simple aggregates, and the *)
(* checks of a schema.  The operators are pure; Queries is the program     *)
(* that uses them.                                                         *)
(*                                                                         *)
(* A value is what its conversions give: its type, the text of ToString,   *)
(* and the numbers of ToNumber, where {} is NaN and {n} is n.  Comparisons *)
(* and sums over these sets are false and NaN of themselves when one is.   *)
(* The text of an array is left out: nothing sorts or groups by arrays.    *)
(***************************************************************************)
EXTENDS Integers, Sequences, SequencesExt, FiniteSets, FiniteSetsExt, Functions, TLC, Ordered, Addition

CONSTANTS
    Collation,      \* the texts of the values, in the order of strings.Compare
    TextTests,      \* <<operator, text, pattern>>: the text passes the test
    Lower(_),       \* strings.ToLower
    MaxNumeral,     \* the largest number written in a text
    Passes(_, _),   \* whether a document passes a filter (Nested!MatchFilter)
    AsStored(_)     \* a value as it comes back from the file (Nested!Native)

ASSUME CollationAssumption == IsList(Collation)

(* A text that contains another contains it in lower case too. *)
ASSUME LowerAssumption ==
    \A test \in TextTests : test[1] = "$contains"
        => <<"$contains", Lower(test[2]), Lower(test[3])>> \in TextTests

TextOperators == {"$like", "$ilike", "$regex", "$startsWith", "$endsWith", "$contains"}

NumberIn(text) == IF text = "" THEN {0} ELSE {n \in 0 .. MaxNumeral : ToString(n) = text}

Undefined == [tag |-> "undefined", text |-> "undefined", nums |-> {}, items |-> <<>>]
Null == [tag |-> "null", text |-> "null", nums |-> {0}, items |-> <<>>]
Number(n) == [tag |-> "number", text |-> ToString(n), nums |-> {n}, items |-> <<>>]
NaN == [tag |-> "number", text |-> "NaN", nums |-> {}, items |-> <<>>]
NumberOf(nums) == IF nums = {} THEN NaN ELSE Number(CHOOSE n \in nums : TRUE)
Text(text) == [tag |-> "string", text |-> text, nums |-> NumberIn(text), items |-> <<>>]
Bool(b) == [tag |-> "boolean", text |-> IF b THEN "true" ELSE "false",
            nums |-> IF b THEN {1} ELSE {0}, items |-> <<>>]
Array(items) == [tag |-> "array", text |-> "", nums |-> {}, items |-> items]

IsNullish(v) == v.tag \in {"null", "undefined"}

(* Two arrays are equal only when they are one object, which values that    *)
(* have come from the program and from the file never are.                  *)
StrictEquals(v, w) ==
    /\ v.tag = w.tag
    /\ \/ IsNullish(v)
       \/ v.tag = "string" /\ v.text = w.text
       \/ v.tag \in {"number", "boolean"} /\ v.nums # {} /\ v.nums = w.nums

Less(a, b) == \E x \in a, y \in b : x < y
AtMost(a, b) == \E x \in a, y \in b : x <= y

-----------------------------------------------------------------------------
(* A document is a function from its fields to values.  A row is the _id    *)
(* and the document, and a query sees both in one.                          *)
FieldOf(doc, field) == IF field \in DOMAIN doc THEN doc[field] ELSE Undefined
(* Where both have a field it is that of doc. *)
Merged(doc, more) ==
    [f \in DOMAIN doc \cup DOMAIN more |-> IF f \in DOMAIN doc THEN doc[f] ELSE more[f]]
RowToValue(row) == Merged(row.doc, [f \in {"_id"} |-> Text(row.id)])

(* A filter is nil or the entries of an object: the combinators with their  *)
(* arguments, a field with its tests.  A plain value is a test by "$eq".    *)
NoFilter == [given |-> FALSE, entries |-> {}]
Filter(entries) == [given |-> TRUE, entries |-> entries]
Combined(key, args) == Filter({[key |-> key, args |-> args, tests |-> {}]})
Tested(field, op, val) ==
    Filter({[key |-> field, args |-> <<>>, tests |-> {[op |-> op, val |-> val]}]})

(* What like and the other tests of a text find, by a table.                *)
PassesText(op, field, val) == <<op, field.text, val.text>> \in TextTests

MatchOp(field, op, val) ==
    CASE op = "$eq" -> StrictEquals(field, val)
      [] op = "$ne" -> ~StrictEquals(field, val)
      [] op = "$gt" -> Less(val.nums, field.nums)
      [] op = "$gte" -> AtMost(val.nums, field.nums)
      [] op = "$lt" -> Less(field.nums, val.nums)
      [] op = "$lte" -> AtMost(field.nums, val.nums)
      [] op = "$in" -> \E i \in DOMAIN val.items : StrictEquals(field, val.items[i])
      [] op = "$nin" -> ~\E i \in DOMAIN val.items : StrictEquals(field, val.items[i])
      [] op = "$exists" ->
            IF val.tag = "boolean" THEN ~IsNullish(field) <=> val.text = "true"
            ELSE ~IsNullish(field)
      [] op = "$between" ->
            /\ val.tag = "array" /\ Len(val.items) >= 2
            /\ AtMost(val.items[1].nums, field.nums) /\ AtMost(field.nums, val.items[2].nums)
      [] op = "$contains" /\ field.tag = "array" ->
            \E i \in DOMAIN field.items : StrictEquals(field.items[i], val)
      [] op \in TextOperators /\ ~(op = "$contains" /\ field.tag = "array") ->
            PassesText(op, field, val)
      [] op = "$size" ->
            \/ field.tag = "array" /\ val.nums = {Len(field.items)}
            \/ field.tag = "string" /\ val.nums = {Len(field.text)}
      [] op = "$type" -> field.tag = val.text
      [] OTHER -> TRUE      \* an unknown operator passes

MatchRow(row, filter) == Passes(RowToValue(row), filter)

-----------------------------------------------------------------------------
Rank(text) == CHOOSE i \in DOMAIN Collation : Collation[i] = text

(* Numbers compare as numbers, everything else by its text. *)
Precedes(a, b) ==
    IF a.tag = "number" /\ b.tag = "number" THEN Less(a.nums, b.nums)
    ELSE Rank(a.text) < Rank(b.text)

(* A sort entry is a field and a direction; a later one decides only where  *)
(* the earlier ones find no difference.                                     *)
Before(sorts, d, e) ==
    \E i \in DOMAIN sorts :
        LET s == sorts[i]
        IN  /\ IF s.desc THEN Precedes(FieldOf(e, s.field), FieldOf(d, s.field))
               ELSE Precedes(FieldOf(d, s.field), FieldOf(e, s.field))
            /\ \A j \in 1 .. i - 1 :
                 LET a == FieldOf(d, sorts[j].field)
                     b == FieldOf(e, sorts[j].field)
                 IN  ~Precedes(a, b) /\ ~Precedes(b, a)

(* sort.SliceStable: up to 20 elements are sorted by insertion, each moved  *)
(* to the left past those it comes before.                                  *)
Insertion(sorts, sorted, d) ==
    LET kept == {k \in DOMAIN sorted : ~Before(sorts, d, sorted[k])}
    IN  InsertAt(sorted, (IF kept = {} THEN 0 ELSE Max(kept)) + 1, d)

SliceStable(sorts, docs) ==
    IF sorts = <<>> THEN docs
    ELSE LET sorted[n \in 0 .. Len(docs)] ==
                 IF n = 0 THEN <<>> ELSE Insertion(sorts, sorted[n - 1], docs[n])
         IN  sorted[Len(docs)]

Skip(s, n) == IF n > 0 THEN SubSeq(s, n + 1, Len(s)) ELSE s
Limit(s, n) == IF n > 0 /\ n < Len(s) THEN SubSeq(s, 1, n) ELSE s

(* No field named is the whole document. *)
Project(doc, fields) ==
    IF fields = {} THEN doc ELSE [f \in fields \cap DOMAIN doc |-> doc[f]]
ProjectAll(docs, fields) == [i \in DOMAIN docs |-> Project(docs[i], fields)]

RowValues(rows) == [i \in DOMAIN rows |-> RowToValue(rows[i])]
Passing(docs, filter) == Picked(docs, {i \in DOMAIN docs : Passes(docs[i], filter)})
Matched(rows, filter) == Passing(RowValues(rows), filter)

\* mutant: the limit counts from the start and not from the offset
ExecQueryLimitFirst(rows, filter, proj, sorts, limit, offset) ==
    ProjectAll(Skip(Limit(SliceStable(sorts, Matched(rows, filter)), limit), offset), proj)

ExecQuery(rows, filter, proj, sorts, limit, offset) ==
    ProjectAll(Limit(Skip(SliceStable(sorts, Matched(rows, filter)), offset), limit), proj)

-----------------------------------------------------------------------------
(* The accumulators of $group, over the documents of one group. $avg keeps  *)
(* its quotient as the sum and what divides it.                             *)
WithField(docs, field) == {i \in DOMAIN docs : field \in DOMAIN docs[i]}
Having(docs, field) == Picked(docs, WithField(docs, field))
NumbersOf(docs, field) == UNION {docs[i][field].nums : i \in WithField(docs, field)}
Summand(doc, field) == IF field \in DOMAIN doc THEN doc[field].nums ELSE {0}
SumOf(docs, field) == Total([i \in DOMAIN docs |-> Summand(docs[i], field)])
Quotient(sum, n) == [tag |-> "number", text |-> "", nums |-> sum, items |-> <<n>>]
ValuesOf(docs, field) == [i \in DOMAIN Having(docs, field) |-> Having(docs, field)[i][field]]
FirstOfEach(vals) ==
    Picked(vals, {i \in DOMAIN vals : \A j \in 1 .. i - 1 : vals[j].text # vals[i].text})

Accumulate(docs, op, field) ==
    CASE op = "$count" -> Number(Len(docs))
      [] op = "$sum" -> NumberOf(SumOf(docs, field))
      [] op = "$avg" -> Quotient(SumOf(docs, field), Len(docs))
      [] op = "$min" -> Number(IF NumbersOf(docs, field) = {} THEN 0 ELSE Min(NumbersOf(docs, field)))
      [] op = "$max" -> Number(IF NumbersOf(docs, field) = {} THEN 0 ELSE Max(NumbersOf(docs, field)))
      [] op = "$first" -> FieldOf(docs[1], field)
      [] op = "$last" -> FieldOf(docs[Len(docs)], field)
      [] op = "$push" -> Array(ValuesOf(docs, field))
      [] op = "$addToSet" -> Array(FirstOfEach(ValuesOf(docs, field)))

(* $first and $last of a field that the document has not give no field.     *)
Given(docs, acc) ==
    /\ acc.op = "$first" => acc.field \in DOMAIN docs[1]
    /\ acc.op = "$last" => acc.field \in DOMAIN docs[Len(docs)]

GroupKey(doc, by) == IF by # "" /\ by \in DOMAIN doc THEN doc[by].text ELSE ""

\* mutant: documents without the field are left out
GroupKeysOfHaving(docs, by) ==
    FirstOfEach(ValuesOf(docs, by))

(* The keys in the order in which they first occur. *)
GroupKeys(docs, by) ==
    FirstOfEach([i \in DOMAIN docs |-> Text(GroupKey(docs[i], by))])

Members(docs, by, key) == Picked(docs, {i \in DOMAIN docs : GroupKey(docs[i], by) = key.text})

Grouped(members, by, accs, key) ==
    LET given == {acc \in accs : Given(members, acc)}
        names == {acc.name : acc \in given}
    IN  [name \in names \cup ({by} \ {""}) |->
            IF name \notin names THEN key
            ELSE LET acc == CHOOSE acc \in given : acc.name = name
                 IN  Accumulate(members, acc.op, acc.field)]

Group(docs, by, accs) ==
    LET keys == GroupKeys(docs, by)
    IN  [i \in DOMAIN keys |-> Grouped(Members(docs, by, keys[i]), by, accs, keys[i])]

Unwound(doc, field) ==
    IF FieldOf(doc, field).tag # "array" THEN <<doc>>
    ELSE [i \in DOMAIN doc[field].items |-> [doc EXCEPT ![field] = doc[field].items[i]]]
Unwind(docs, field) == FlattenSeq([i \in DOMAIN docs |-> Unwound(docs[i], field)])

(* A stage of the pipeline; $sort has one field, for several would be taken *)
(* in the random order of a map.                                            *)
Stage(docs, stage) ==
    CASE stage.op = "$match" -> Passing(docs, stage.filter)
      [] stage.op = "$sort" -> SliceStable(<<stage.sort>>, docs)
      [] stage.op = "$limit" -> Limit(docs, stage.n)
      [] stage.op = "$skip" -> Skip(docs, stage.n)
      [] stage.op = "$project" -> ProjectAll(docs, stage.fields)
      [] stage.op = "$group" -> Group(docs, stage.by, stage.accs)
      [] stage.op = "$unwind" -> Unwind(docs, stage.field)
      [] stage.op = "$count" -> << [f \in {stage.name} |-> Number(Len(docs))] >>

Aggregate(rows, pipeline) ==
    LET after[n \in 0 .. Len(pipeline)] ==
            IF n = 0 THEN RowValues(rows) ELSE Stage(after[n - 1], pipeline[n])
    IN  after[Len(pipeline)]

-----------------------------------------------------------------------------
(* The simple aggregates look in the document itself, where _id is not.     *)
Selected(rows, filter) ==
    LET hit == Picked(rows, {i \in DOMAIN rows : MatchRow(rows[i], filter)})
    IN  [i \in DOMAIN hit |-> hit[i].doc]

CountRows(rows, filter) == Len(Selected(rows, filter))
Sum(rows, field, filter) == NumberOf(SumOf(Selected(rows, filter), field))
Average(rows, field, filter) ==
    LET docs == Selected(rows, filter)
    IN  IF Having(docs, field) = <<>> THEN Number(0)
        ELSE Quotient(SumOf(docs, field), Len(Having(docs, field)))
Least(rows, field, filter) ==
    LET nums == NumbersOf(Selected(rows, filter), field)
    IN  IF nums = {} THEN Null ELSE Number(Min(nums))
Greatest(rows, field, filter) ==
    LET nums == NumbersOf(Selected(rows, filter), field)
    IN  IF nums = {} THEN Null ELSE Number(Max(nums))
DistinctValues(rows, field, filter) == FirstOfEach(ValuesOf(Matched(rows, filter), field))

(* search(text): some field's text, or one of those named, contains it, all *)
(* of it in lower case.                                                     *)
Found(doc, text, fields) ==
    \E f \in DOMAIN doc :
        /\ fields # {} => f \in fields
        /\ <<"$contains", Lower(doc[f].text), Lower(text)>> \in TextTests
Search(rows, text, fields) ==
    RowValues(Picked(rows, {i \in DOMAIN rows : Found(rows[i].doc, text, fields)}))

-----------------------------------------------------------------------------
(* Schemas.  A bound of 0 is none, and so is an empty enum.                  *)
FieldDef == [type |-> "any", required |-> FALSE, unique |-> FALSE, default |-> Undefined,
             generated |-> "", min |-> 0, max |-> 0, minLength |-> 0, maxLength |-> -1, enum |-> {},
             onUpdate |-> FALSE]

Valid(val, def) ==
    /\ \/ def.type \in {"any", val.tag}
       \/ def.type = "date" /\ val.tag \in {"number", "string"}
    /\ val.tag = "number" =>
          /\ def.min # 0 => ~Less(val.nums, {def.min})
          /\ def.max # 0 => ~Less({def.max}, val.nums)
    /\ val.tag = "string" =>
          /\ def.minLength > 0 => Len(val.text) >= def.minLength
          /\ def.maxLength >= 0 => Len(val.text) <= def.maxLength
    /\ def.enum # {} => val.text \in def.enum

Absent(doc, field) == IsNullish(FieldOf(doc, field))

Failing(doc, schema) ==
    {f \in DOMAIN schema :
        IF Absent(doc, f)
        THEN /\ schema[f].generated = "" /\ schema[f].default = Undefined
             /\ schema[f].required
        ELSE ~Valid(doc[f], schema[f])}

(* The default of a field that is absent; what a default is, nobody checks. *)
Defaulted(def, seq, now) ==
    CASE def.generated = "$uuid" -> Text("uuid")
      [] def.generated = "$now" -> Number(now)
      [] def.generated = "$seq" -> Number(seq)
      [] OTHER -> def.default

\* mutant: only fields that are missing altogether get their default
ApplySchemaToMissing(doc, schema, seq, now) ==
    Merged(doc, [f \in {g \in DOMAIN schema : Defaulted(schema[g], seq, now) # Undefined} |->
                    Defaulted(schema[f], seq, now)])

ApplySchema(doc, schema, seq, now) ==
    LET given == {f \in DOMAIN schema : Absent(doc, f) /\ Defaulted(schema[f], seq, now) # Undefined}
    IN  Merged([f \in given |-> Defaulted(schema[f], seq, now)], doc)

(* A value that another row has in a unique field. *)
Clashes(rows, id, doc, schema) ==
    \E f \in DOMAIN schema, i \in DOMAIN rows :
        /\ schema[f].unique /\ ~Absent(doc, f)
        /\ rows[i].id # id
        /\ StrictEquals(FieldOf(rows[i].doc, f), doc[f])

-----------------------------------------------------------------------------
(* A document on its way to the file and back: undefined becomes null.      *)
DocNative(doc) == [f \in DOMAIN doc |-> AsStored(doc[f])]
=============================================================================
