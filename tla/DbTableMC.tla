----------------------------- MODULE DbTableMC -----------------------------
(* DbTable on small instances.  Documents that nothing refers to are left   *)
(* out of the fingerprint: no action reads them before it writes them.      *)
EXTENDS DbTable, TLC

CONSTANTS g1, g2, x

(* One goroutine that does all but declare the schema, with a watcher.      *)
Alone ==
    [goroutines |-> {g1}, docs |-> Doc, fields |-> {"u", "n"}, existing |-> FALSE,
     operations |-> {"insert", "update", "delete", "clear", "drop", "dbdrop", "watch",
                     "restart"}]

(* Two goroutines that insert and delete under a schema: on a first run, and *)
(* on a later one, when there is a table with the index of the schema.       *)
Together(existing) ==
    [goroutines |-> {g1, g2}, docs |-> [u : Us, n : {x}], fields |-> {}, existing |-> existing,
     operations |-> {"insert", "delete", "schema", "restart"}]

AllPrograms == {Alone, Together(TRUE), Together(FALSE)}

View ==
    <<program, disk, [r \in Refs \ Free |-> heap[r]], rows, loaded, unique, current, handed,
      watching, IF watching = {} THEN {} ELSE view, op>>

Spares == Permutations(Ids) \cup Permutations(Us)
=============================================================================
