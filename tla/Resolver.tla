------------------------------ MODULE Resolver ------------------------------
(***************************************************************************)
(* The static pass of internal/resolver. A syntax tree is a record with    *)
(* its kind in "k"; its fields hold subtrees, names and what the pass      *)
(* writes: "addr" on an identifier, "scope" on a node that has a frame of  *)
(* its own, "slot" on a parameter. The pass does to a list of scopes what  *)
(* resolver.go does to its chain, innermost last; the empty list is the    *)
(* nil scope of the top level.                                             *)
(***************************************************************************)
EXTENDS Integers, Sequences

NoAddr == [hops |-> -1, slot |-> -1]

(* What a tree holds before the pass. *)
Id(n) == [k |-> "id", n |-> n, addr |-> NoAddr]
Param(n) == [n |-> n, slot |-> 0]
Unresolved == <<>>

(* A Block gets an Environment of its own if it declares something. *)
DeclarationKinds == {"val", "destr", "using", "fn", "component", "namespace"}
DeclaresBindings(b) == \E i \in 1..Len(b.body) : b.body[i].k \in DeclarationKinds

Names(s) == {s[i] : i \in 1..Len(s)}
SlotOf(names, n) == IF n \in Names(names)
                    THEN CHOOSE i \in 1..Len(names) : names[i] = n
                    ELSE 0

Push(sc, dynamic) == Append(sc, [names |-> <<>>, dynamic |-> dynamic])

(* A name declared again keeps its slot. *)
Declare(sc, n) ==
    IF sc = <<>> \/ n = "" \/ n \in Names(sc[Len(sc)].names) THEN sc
    ELSE [sc EXCEPT ![Len(sc)].names = Append(@, n)]

RECURSIVE DeclareAll(_, _)
DeclareAll(sc, ns) ==
    IF ns = <<>> THEN sc ELSE DeclareAll(Declare(sc, Head(ns)), Tail(ns))

TopNames(sc) == sc[Len(sc)].names

(* The innermost scope with the name, unless a dynamic one is met before. *)
AddressPastDynamic(sc, n) ==    \* mutant: a dynamic scope hides nothing
    LET stops == {i \in 1..Len(sc) : n \in Names(sc[i].names)}
        stop  == CHOOSE i \in stops : \A j \in stops : j <= i
    IN  IF stops = {} THEN NoAddr ELSE [hops |-> Len(sc) - stop, slot |-> SlotOf(sc[stop].names, n)]
Address(sc, n) ==
    LET stops == {i \in 1..Len(sc) : sc[i].dynamic \/ n \in Names(sc[i].names)}
        stop  == CHOOSE i \in stops : \A j \in stops : j <= i
    IN  IF stops = {} THEN NoAddr
        ELSE IF sc[stop].dynamic THEN NoAddr
        ELSE [hops |-> Len(sc) - stop, slot |-> SlotOf(sc[stop].names, n)]

(* ResolveStmt gives the tree and the scopes after it; an expression       *)
(* declares nothing.                                                       *)
RECURSIVE ResolveStmt(_, _), ResolveStmts(_, _), ResolveExpr(_, _), ResolveBody(_, _, _),
          ResolveCases(_, _), ResolveLiteral(_, _)

ResolveStmts(ss, sc) ==
    IF ss = <<>> THEN [t |-> <<>>, sc |-> sc]
    ELSE LET first == ResolveStmt(Head(ss), sc)
             rest  == ResolveStmts(Tail(ss), first.sc)
         IN  [t |-> <<first.t>> \o rest.t, sc |-> rest.sc]

(* A subtree in a frame of its own: the tree and the names of the frame. *)
Framed(s, sc, names) ==
    LET r == ResolveStmt(s, DeclareAll(Push(sc, FALSE), names))
    IN  [t |-> r.t, names |-> TopNames(r.sc)]

(* this, __super_class__, the parameters, the nested functions, the body. *)
ResolveBody(body, params, sc) ==
    LET pseudo  == DeclareAll(Push(sc, FALSE), <<"this", "__super_class__">>)
        bound   == DeclareAll(pseudo, [i \in 1..Len(params) |-> params[i].n])
        hoisted == DeclareAll(bound, [i \in 1..Len(body.body) |->
                       IF body.body[i].k = "fn" THEN body.body[i].n ELSE ""])
        r       == ResolveStmts(body.body, hoisted)
    IN  [params |-> [i \in 1..Len(params) |->
                        [params[i] EXCEPT !.slot = SlotOf(TopNames(bound), params[i].n)]],
         body   |-> [body EXCEPT !.body = r.t, !.scope = TopNames(r.sc)]]

WithBody(f, sc) ==
    LET r == ResolveBody(f.body, f.params, sc)
    IN  [f EXCEPT !.body = r.body, !.params = r.params]

(* A case has a scope that no node carries, with the names of its pattern. *)
ResolveCases(cs, sc) ==
    IF cs = <<>> THEN <<>>
    ELSE LET c      == Head(cs)
             inside == DeclareAll(Push(sc, FALSE), <<c.bind>>)
         IN  <<IF c.default
               THEN [c EXCEPT !.body = ResolveStmt(c.body, sc).t]
               ELSE [c EXCEPT !.guard = ResolveExpr(c.guard, inside),
                              !.body  = ResolveStmt(c.body, inside).t]>>
             \o ResolveCases(Tail(cs), sc)

(* A struct literal: an assignment to a plain name declares a field. *)
ResolveLiteral(ss, sc) ==
    IF ss = <<>> THEN [t |-> <<>>, sc |-> sc]
    ELSE LET s     == Head(ss)
             field == s.k = "expr" /\ s.e.k = "assign"
             first == IF field
                      THEN [t  |-> [s EXCEPT !.e.e = ResolveExpr(@, sc)],
                            sc |-> Declare(sc, s.e.left.n)]
                      ELSE ResolveStmt(s, sc)
             rest  == ResolveLiteral(Tail(ss), first.sc)
         IN  [t |-> <<first.t>> \o rest.t, sc |-> rest.sc]

ResolveExpr(e, sc) ==
    CASE e.k = "id" -> [e EXCEPT !.addr = Address(sc, e.n)]
      [] e.k = "assign" -> [e EXCEPT !.e = ResolveExpr(@, sc), !.left = ResolveExpr(@, sc)]
      [] e.k \in {"inc", "trysafe", "get", "prop"} -> [e EXCEPT !.e = ResolveExpr(@, sc)]
      [] e.k \in {"and", "or", "nullish", "pipe", "sequence", "add"} ->
             [e EXCEPT !.l = ResolveExpr(@, sc), !.r = ResolveExpr(@, sc)]
      [] e.k = "ternary" -> [e EXCEPT !.test = ResolveExpr(@, sc), !.l = ResolveExpr(@, sc),
                                      !.r = ResolveExpr(@, sc)]
      [] e.k \in {"call", "new"} ->
             [e EXCEPT !.e = ResolveExpr(@, sc),
                       !.args = [i \in 1..Len(@) |-> ResolveExpr(@[i], sc)]]
      [] e.k = "lambda" -> WithBody(e, sc)
      [] e.k = "struct" -> LET r == ResolveLiteral(e.body, Push(sc, FALSE))
                           IN  [e EXCEPT !.body = r.t]
      [] e.k = "match" -> [e EXCEPT !.e = ResolveExpr(@, sc), !.cases = ResolveCases(@, sc)]
      [] e.k = "if" -> ResolveStmt(e, sc).t
      [] OTHER -> e    \* literals, templates, shorthand properties

(* One frame of one shape for each element of the array. *)
ResolveEach(s, sc) ==
    LET r == Framed(s.body, sc, <<s.n, s.alias>>)
    IN  [s EXCEPT !.e = ResolveExpr(@, sc), !.body = r.t, !.scope = r.names]
ResolveTry(s, sc) ==
    LET c == Framed(s.catch, sc, <<s.n>>)
    IN  [s EXCEPT !.body = ResolveStmt(@, sc).t, !.finally = ResolveStmt(@, sc).t,
                  !.catch = IF @.k = "none" THEN @ ELSE [c.t EXCEPT !.scope = c.names]]
ResolveHave(s, sc) ==
    LET r == Framed(s.then, sc, <<s.n>>)
    IN  [s EXCEPT !.e = ResolveExpr(@, sc), !.then = r.t, !.else = ResolveStmt(@, sc).t, !.scope = r.names]
ResolveWith(s, sc) ==
    [s EXCEPT !.e = ResolveExpr(@, sc), !.body = ResolveStmt(@, Push(sc, TRUE)).t]

(* Statements that declare nothing in the scope they stand in. *)
ResolveWithin(s, sc) ==
    LET In(x) == ResolveStmt(x, sc).t
        Ex(x) == ResolveExpr(x, sc)
    IN  CASE s.k \in {"expr", "log", "throw"} -> [s EXCEPT !.e = Ex(@)]
          [] s.k \in {"if", "unless"} -> [s EXCEPT !.test = Ex(@), !.then = In(@), !.else = In(@)]
          [] s.k = "while" -> [s EXCEPT !.test = Ex(@), !.body = In(@)]
          [] s.k \in {"repeat", "loop", "defer"} -> [s EXCEPT !.body = In(@)]
          [] s.k \in {"guard", "assert"} -> [s EXCEPT !.test = Ex(@), !.else = In(@)]
          [] s.k = "each" -> ResolveEach(s, sc)
          [] s.k = "match" -> Ex(s)
          [] s.k = "try" -> ResolveTry(s, sc)
          [] s.k = "with" -> ResolveWith(s, sc)
          [] s.k \in {"have", "ifhave", "ifset"} -> ResolveHave(s, sc)
          [] OTHER -> s    \* break, continue, none

(* A Block with a declaration has a scope of its own. *)
ResolveBlock(s, sc) ==
    LET r == ResolveStmts(s.body, IF DeclaresBindings(s) THEN Push(sc, FALSE) ELSE sc)
    IN  IF DeclaresBindings(s)
        THEN [t |-> [s EXCEPT !.body = r.t, !.scope = TopNames(r.sc)], sc |-> sc]
        ELSE [t |-> [s EXCEPT !.body = r.t], sc |-> r.sc]

(* Statements that declare in the scope they stand in. *)
ResolveStmt(s, sc) ==
    CASE s.k \in {"val", "using", "destr"} ->
             LET after == Declare(sc, s.n)
                 init  == ResolveExpr(s.e, sc)
             IN  [t  |-> [s EXCEPT !.e = init,
                                   !.addr = IF sc = <<>> \/ s.k = "destr" THEN NoAddr
                                            ELSE [hops |-> 0, slot |-> SlotOf(TopNames(after), s.n)]],
                  sc |-> after]
      [] s.k \in {"fn", "component"} ->
             LET after == Declare(sc, s.n) IN [t |-> WithBody(s, after), sc |-> after]
      [] s.k = "namespace" ->
             LET after == Declare(sc, s.n)
             IN  [t |-> [s EXCEPT !.body = ResolveStmts(@, Push(after, TRUE)).t], sc |-> after]
      [] s.k = "block" -> ResolveBlock(s, sc)
      [] OTHER -> [t |-> ResolveWithin(s, sc), sc |-> sc]

(* A whole program: main is a function of the top level. *)
ResolveMain(body) == ResolveBody(body, <<>>, <<>>).body
=============================================================================
