----------------------------- MODULE QueriesMC -----------------------------
(* Small documents: numbers, texts that look like numbers, null, undefined, *)
(* fields that are missing; a schema of each kind of definition.            *)
EXTENDS Queries, Nested

MCCollation == <<"", "1", "10", "2", "7", "B", "b", "i1", "i2", "i3", "null", "true", "undefined", "uuid">>
MCTextTests == {<<"$contains", "10", "1">>, <<"$contains", "b", "b">>,
                <<"$contains", "B", "B">>, <<"$contains", "undefined", "d">>}
MCLower(text) == IF text = "B" THEN "b" ELSE text

MCDocs == {
    [n |-> Number(10), s |-> Text("10")],
    [n |-> Number(2), s |-> Text("b")],
    [n |-> Null, s |-> Number(2)],
    [s |-> Text("B")],
    [n |-> Undefined] }

MCRows(docs) == [i \in DOMAIN docs |-> [id |-> <<"i1", "i2", "i3">>[i], doc |-> docs[i]]]
MCExisting == {
    <<>>,
    MCRows(<< [n |-> Number(2), s |-> Text("b")], [n |-> Number(10), s |-> Text("10")],
              [n |-> Number(2), s |-> Number(2)] >>),
    MCRows(<< [n |-> Number(10), s |-> Text("b")], [s |-> Text("B")], [n |-> Null] >>) }

MCPatches == { [n |-> Number(2)], [s |-> Bool(TRUE)] }

MCProbes == {
    Filter({}),
    Tested("n", "$gt", Number(1)),
    Tested("s", "$ne", Text("b")),
    Combined("$not", <<Tested("n", "$exists", Bool(TRUE))>>),
    Tested("_id", "$in", Array(<<Text("i1"), Text("i3")>>)) }

MCSchemas == {
    [n |-> [FieldDef EXCEPT !.type = "number", !.required = TRUE, !.max = 5],
     updatedAt |-> [FieldDef EXCEPT !.generated = "$now", !.onUpdate = TRUE]],
    [n |-> [FieldDef EXCEPT !.generated = "$seq"],
     s |-> [FieldDef EXCEPT !.type = "string", !.unique = TRUE, !.default = Text("b")]] }
=============================================================================
