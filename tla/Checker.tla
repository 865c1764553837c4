------------------------------ MODULE Checker ------------------------------
(***************************************************************************)
(* The analysis of internal/checker, the command "lunex check", of the     *)
(* body of main. Its diagnostics are pairs of a code and a name. sc is its *)
(* chain of scopes, innermost last: functions from names to symbols. blind *)
(* says that the analysis left a subtree with expressions out.             *)
(***************************************************************************)
EXTENDS Resolver, TLC

NotAFunction == -1
Variable(mutable) == [mutable |-> mutable, arity |-> NotAFunction]
Scope(names, symbol) == [n \in names \ {""} |-> symbol]

Report(c, code, n) == [c EXCEPT !.codes = @ \cup {<<code, n>>}]
Blind(c) == [c EXCEPT !.blind = TRUE]
Bind(c, n, symbol) == [c EXCEPT !.sc[Len(c.sc)] = (n :> symbol) @@ @]

Holds(c, n) == {i \in 1..Len(c.sc) : n \in DOMAIN c.sc[i]}
Known(c, n) == Holds(c, n) # {}
Lookup(c, n) ==
    LET i == CHOOSE i \in Holds(c, n) : \A j \in Holds(c, n) : j <= i IN c.sc[i][n]

(* Only the scope of the module may hold a name twice. *)
ReportTwice(c, n) ==
    IF Len(c.sc) > 1 /\ n \in DOMAIN c.sc[Len(c.sc)] THEN Report(c, "E0428", n) ELSE c

(* What F does with a scope of its own and a count of enclosing loops.     *)
Within(c, scope, loops, F(_)) ==
    [F([c EXCEPT !.sc = Append(@, scope), !.loops = loops]) EXCEPT !.sc = c.sc, !.loops = c.loops]

CheckName(c, n) == IF Known(c, n) THEN c ELSE Report(c, "E0425", n)

(* Fewer arguments are reported for a function of the module only.         *)
CheckArity(c, n, args) ==
    LET arity == Lookup(c, n).arity
    IN  IF arity # NotAFunction /\ Len(args) > arity THEN Report(c, "E0061", n) ELSE c

CheckTargetHere(c, n) ==    \* mutant: only the innermost scope's constants are constant
    CASE ~Known(c, n) -> Report(c, "E0425", n)
      [] n \in DOMAIN c.sc[Len(c.sc)] /\ ~Lookup(c, n).mutable -> Report(c, "E0594", n)
      [] OTHER -> c
CheckTarget(c, n) ==
    CASE ~Known(c, n) -> Report(c, "E0425", n)
      [] Known(c, n) /\ ~Lookup(c, n).mutable -> Report(c, "E0594", n)
      [] OTHER -> c

RECURSIVE Check(_, _), CheckAll(_, _), CheckCases(_, _)

CheckAll(ns, c) == IF ns = <<>> THEN c ELSE CheckAll(Tail(ns), Check(Head(ns), c))

CheckBlock(ns, c) == Within(c, Scope({}, 0), c.loops, LAMBDA d : CheckAll(ns, d))

(* A local value or function is known after its initial value, a name of a *)
(* pattern is mutable.                                                     *)
CheckVar(s, c) == Bind(ReportTwice(Check(s.e, c), s.n), s.n, Variable(~s.const))
CheckDestructure(s, c) == Bind(Check(s.e, c), s.n, Variable(TRUE))

(* The loops around a function are loops for its body.                     *)
CheckBody(f, c) ==
    Within(c, Scope(Names([i \in 1..Len(f.params) |-> f.params[i].n]), Variable(TRUE)), c.loops,
           LAMBDA d : Check(f.body, d))
Twice(f) == {f.params[i].n : i \in {i \in 1..Len(f.params) :
                \E j \in 1..(i - 1) : f.params[j].n = f.params[i].n}}
CheckFn(s, c) ==
    LET bound == Bind(ReportTwice(c, s.n), s.n, [mutable |-> FALSE, arity |-> Len(s.params)])
    IN  CheckBody(s, [bound EXCEPT !.codes = @ \cup {<<"E0415", n>> : n \in Twice(s)}])

CheckCall(x, c) ==
    CheckAll(x.args, IF x.e.k = "id" /\ Known(c, x.e.n) THEN CheckArity(c, x.e.n, x.args)
                     ELSE Check(x.e, c))

CheckAssignment(x, c) == Check(x.e, CheckTarget(c, x.left.n))

CheckLoop(s, heads, names, c) ==
    Within(CheckAll(heads, c), names, c.loops + 1, LAMBDA d : Check(s.body, d))

CheckCases(cs, c) ==
    IF cs = <<>> THEN c
    ELSE LET k     == Head(cs)
             names == IF k.default THEN {} ELSE {k.bind}
             inner == IF k.default THEN <<k.body>> ELSE <<k.guard, k.body>>
         IN  CheckCases(Tail(cs), Within(c, Scope(names, Variable(TRUE)), c.loops,
                                         LAMBDA d : CheckAll(inner, d)))

(* The variable of the catch is bound after the statement, where it stands. *)
CheckTry(s, c) ==
    LET after == CheckAll(<<s.body, s.catch, s.finally>>, c)
    IN  IF s.n = "" \/ Known(after, s.n) THEN after ELSE Bind(after, s.n, Variable(TRUE))

CheckJump(s, c) == IF c.loops = 0 THEN Report(c, "E0268", s.k) ELSE c

(* Statements of which the analysis sees some fields only: not the test of *)
(* guard and assert, the branches of have, the value and the names of      *)
(* ifhave and ifset.                                                       *)
CheckSome(s, c) ==
    CASE s.k \in {"throw", "with", "defer"} ->
             CheckAll((IF s.k = "defer" THEN <<>> ELSE <<s.e>>)
                          \o (IF s.k = "throw" THEN <<>> ELSE <<s.body>>), c)
      [] s.k \in {"guard", "assert"} -> Blind(c)
      [] s.k = "have" -> Blind(Check(s.e, c))
      [] s.k \in {"ifhave", "ifset"} -> Blind(CheckAll(<<s.then, s.else>>, c))

(* The subtrees of an expression; the names in a template, of a shorthand  *)
(* property and in the body of a struct or a namespace are not visited.    *)
Operands(x) ==
    CASE x.k \in {"expr", "log", "inc", "trysafe", "get", "using"} -> <<x.e>>
      [] x.k \in {"and", "or", "nullish", "pipe", "sequence", "add"} -> <<x.l, x.r>>
      [] x.k = "ternary" -> <<x.test, x.r, x.l>>
      [] x.k = "arr" -> x.args
      [] x.k = "new" -> <<x.e>> \o x.args
      [] OTHER -> <<>>
Unvisited == {"template", "shorthand", "struct", "namespace"}
CheckExprChildren(x, c) == CheckAll(Operands(x), IF x.k \in Unvisited THEN Blind(c) ELSE c)

CheckLoopOf(s, c) ==
    CASE s.k = "while" -> CheckLoop(s, <<s.test>>, Scope({}, 0), c)
      [] s.k = "each" -> CheckLoop(s, <<s.e>>, Scope({s.alias}, Variable(TRUE))
                                                   @@ Scope({s.n}, Variable(~s.const)), c)
      [] s.k \in {"repeat", "loop"} -> CheckLoop(s, <<>>, Scope({}, 0), c)

Check(n, c) ==
    CASE n.k = "block" -> CheckBlock(n.body, c)
      [] n.k = "val" -> CheckVar(n, c)
      [] n.k = "destr" -> CheckDestructure(n, c)
      [] n.k \in {"fn", "component"} -> CheckFn(n, c)
      [] n.k = "id" -> CheckName(c, n.n)
      [] n.k = "call" -> CheckCall(n, c)
      [] n.k = "assign" -> CheckAssignment(n, c)
      [] n.k \in {"break", "continue"} -> CheckJump(n, c)
      [] n.k \in {"if", "unless"} -> CheckAll(<<n.test, n.then, n.else>>, c)
      [] n.k \in {"while", "each", "repeat", "loop"} -> CheckLoopOf(n, c)
      [] n.k = "match" -> CheckCases(n.cases, Check(n.e, c))
      [] n.k = "try" -> CheckTry(n, c)
      [] n.k \in {"throw", "with", "defer", "guard", "assert", "have", "ifhave", "ifset"} -> CheckSome(n, c)
      [] n.k = "lambda" -> CheckBody(n, c)
      [] OTHER -> CheckExprChildren(n, c)

(* The module declares main and nothing else. *)
CheckMain(body) ==
    LET main == [k |-> "fn", n |-> "main", params |-> <<>>, body |-> body]
        root == [sc |-> <<Scope({"main"}, [mutable |-> TRUE, arity |-> 0])>>,
                 codes |-> {}, loops |-> 0, blind |-> FALSE]
        r    == CheckBody(main, root)
    IN  [codes |-> r.codes, blind |-> r.blind]
=============================================================================
