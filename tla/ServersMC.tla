------------------------------ MODULE ServersMC ------------------------------
(* Instances of Servers for TLC. *)
EXTENDS Servers

Entry(isUse, method, pattern, calls) ==
    [use |-> isUse, method |-> method, pattern |-> pattern, calls |-> calls]

MCEntries == {
    Entry(TRUE, AnyMethod, <<>>, "function"),
    Entry(TRUE, AnyMethod, <<"a">>, "files"),
    Entry(FALSE, "GET", <<"a", ":id">>, "function"),
    Entry(FALSE, "POST", <<"*">>, "nothing")}
MCPaths == {<<"a", "b">>}
=============================================================================
