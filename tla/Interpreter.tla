---------------------------- MODULE Interpreter ----------------------------
(***************************************************************************)
(* The tree walker of internal/runtime as a function: what a tree (the     *)
(* records of Resolver) does to an interpreter state st. A result has a    *)
(* completion c ("ok", or the error it stands for: "throw", "break",       *)
(* "continue", and "host" for an error of the interpreter), a value and    *)
(* the state after. No tree of the parser holds a return, a class or a for *)
(* with three clauses: what the code does with them is left out.           *)
(* Environments are never released here: the pool is the subject of        *)
(* CallFrames.                                                             *)
(***************************************************************************)
EXTENDS Resolver, FiniteSets, TLC

CONSTANTS
    MaxExecSteps,   \* LUNEX_MAX_STEPS, scaled down
    MaxCallDepth    \* maxCallDepth, scaled down

ASSUME LimitsAssumption == MaxExecSteps \in Nat \ {0} /\ MaxCallDepth \in Nat \ {0}

(* Values. An object is [t, fields], a function [t, f, env, arrow, this].  *)
Undefined == [t |-> "undefined"]
Null == [t |-> "null"]
Num(n) == [t |-> "num", n |-> n]
Obj(f) == [t |-> "obj", fields |-> f]
Arr(s) == [t |-> "arr", items |-> s]
Fn(f, e, arrow, this) == [t |-> "fn", f |-> f, env |-> e, arrow |-> arrow, this |-> this]
ErrorObject == Obj("name" :> [t |-> "str", of |-> [t |-> "error"]])

IsNullish(v) == v.t \in {"undefined", "null"}
IsTruthy(v) == ~IsNullish(v) /\ v # Num(0)
Get(v, n) == IF v.t = "obj" /\ n \in DOMAIN v.fields THEN v.fields[n] ELSE Undefined

(* What a program shows of a value. *)
Show(v) == CASE v.t \in {"num", "str", "undefined", "null"} -> v
             [] OTHER -> [t |-> v.t]

(***************************************************************************)
(* Environments. A slot that was never written is Nil; slots of a frame    *)
(* the pass did not annotate are the empty sequence.                       *)
(***************************************************************************)
Nil == [t |-> "nil"]
NoVars == [n \in {} |-> Undefined]

NewEnv(st, parent, size) ==
    [st EXCEPT !.envs = Append(@, [vars |-> NoVars, consts |-> {}, parent |-> parent,
                                   slots |-> [i \in 1..size |-> Nil]])]
Top(st) == Len(st.envs)

Bound(st, e, n, v, const) ==
    [st EXCEPT !.envs[e].vars = (n :> v) @@ @,
               !.envs[e].consts = IF const THEN @ \cup {n} ELSE @]

(* st.bare: the variables given a value by name alone, whatever slot the   *)
(* pass has for them.                                                      *)
Define(st, e, n, v, const) == [Bound(st, e, n, v, const) EXCEPT !.bare = @ \cup {<<e, n>>}]

RECURSIVE DefineAll(_, _, _, _)
DefineAll(st, e, names, f) ==
    IF names = {} THEN st
    ELSE LET n == CHOOSE n \in names : TRUE
         IN  DefineAll(Define(st, e, n, f[n], FALSE), e, names \ {n}, f)

RECURSIVE Find(_, _, _), Up(_, _, _)
Find(st, e, n) == CASE e = 0 -> 0
                    [] e # 0 /\ n \in DOMAIN st.envs[e].vars -> e
                    [] OTHER -> Find(st, st.envs[e].parent, n)
Up(st, e, hops) == IF hops = 0 THEN e ELSE Up(st, st.envs[e].parent, hops - 1)

HasName(st, e, n) == Find(st, e, n) # 0
ByName(st, e, n) == st.envs[Find(st, e, n)].vars[n]

GetSlotAddr(st, e, a) ==
    LET slots == st.envs[Up(st, e, a.hops)].slots
    IN  IF a.slot \in 1..Len(slots) /\ slots[a.slot] # Nil THEN slots[a.slot] ELSE Undefined

WriteSlot(st, e, slot, v) ==
    IF slot \in 1..Len(st.envs[e].slots) THEN [st EXCEPT !.envs[e].slots[slot] = v] ELSE st

DefineSlot(st, e, slot, n, v, const) == Bound(WriteSlot(st, e, slot, v), e, n, v, const)

(* st.held: the frames a closure or a deferred block keeps. st.late: the   *)
(* variables declared in such a frame, which the code kept there was       *)
(* resolved and checked without.                                           *)
RECURSIVE Chain(_, _)
Chain(st, e) == IF e = 0 THEN {} ELSE {e} \cup Chain(st, st.envs[e].parent)
Hold(st, e) == [st EXCEPT !.held = @ \cup Chain(st, e)]
Late(st, e, n) == [st EXCEPT !.late = IF e \in st.held THEN @ \cup {<<e, n>>} ELSE @]

Ok(v, st) == [c |-> "ok", v |-> v, st |-> st]
Fail(c, v, st) == [c |-> c, v |-> v, st |-> st]
HostError(st) == Fail("host", Undefined, st)
Then(r, F(_, _)) == IF r.c = "ok" THEN F(r.v, r.st) ELSE r

(* Environment.Set and SetSlot: neither writes a constant; SetSlot does    *)
(* not ask whether the name is defined.                                    *)
SetByName(st, e, n, v) ==
    LET f == Find(st, e, n)
    IN  IF f = 0 \/ (f # 0 /\ n \in st.envs[f].consts) THEN HostError(st)
        ELSE Ok(v, Define(st, f, n, v, FALSE))
SetSlotByName(st, e, a, n, v) ==    \* mutant: the slot keeps its old value
    LET f == Up(st, e, a.hops)
    IN  IF n \in st.envs[f].consts THEN HostError(st) ELSE Ok(v, Bound(st, f, n, v, FALSE))
SetSlot(st, e, a, n, v) ==
    LET f == Up(st, e, a.hops)
    IN  IF n \in st.envs[f].consts THEN HostError(st)
        ELSE Ok(v, DefineSlot(st, f, a.slot, n, v, FALSE))

(* Notes in st.agree whether the frame of the address is the frame a walk  *)
(* by name stops at (if it stops), in st.overtaken that a late declaration *)
(* is why it is not, and in st.slotless a variable with no value there.    *)
Compare(st, e, id) ==
    LET f == Up(st, e, id.addr.hops)
        g == Find(st, e, id.n)
    IN  CASE g \in {0, f} -> st
          [] g # f /\ <<g, id.n>> \in st.late -> [st EXCEPT !.overtaken = @ \cup {id.n}]
          [] OTHER -> [st EXCEPT !.agree = FALSE]
Read(st, e, id) ==
    IF <<Up(st, e, id.addr.hops), id.n>> \in st.bare THEN [st EXCEPT !.slotless = @ \cup {id.n}] ELSE st

(* Every statement executed and every expression evaluated is one step.    *)
Consume(st) == [st EXCEPT !.steps = @ + 1]
Exhausted(st) == st.steps > MaxExecSteps

RECURSIVE Exec(_, _, _), ExecBlock(_, _, _), Eval(_, _, _), EvalArgs(_, _, _), BindParams(_, _, _, _),
          CallFunction(_, _, _, _), RunDefers(_, _), ExecWhile(_, _, _), ExecForOf(_, _, _, _, _),
          ExecRepeat(_, _, _, _), ExecCases(_, _, _, _), ExecFields(_, _, _)

ExecBlock(ss, e, st) ==
    CASE ss = <<>> -> Ok(Undefined, st)
      [] Len(ss) = 1 -> Exec(ss[1], e, st)
      [] OTHER -> Then(Exec(Head(ss), e, st), LAMBDA v, st1 : ExecBlock(Tail(ss), e, st1))

(***************************************************************************)
(* Loops.                                                                  *)
(***************************************************************************)
(* What a loop does after its body: stop, go on, or leave with the error.  *)
AfterBody(r, GoOn(_)) ==
    CASE r.c = "break" -> Ok(Undefined, r.st)
      [] r.c \in {"ok", "continue"} -> GoOn(r.st)
      [] OTHER -> r

ExecWhile(s, e, st) ==
    Then(Eval(s.test, e, st), LAMBDA test, st1 :
        IF ~IsTruthy(test) THEN Ok(Undefined, st1)
        ELSE AfterBody(Exec(s.body, e, st1), LAMBDA st2 : ExecWhile(s, e, st2)))

(* left is negative for "loop", which counts nothing. *)
ExecRepeat(s, e, st, left) ==
    IF left = 0 THEN Ok(Undefined, st)
    ELSE AfterBody(Exec(s.body, e, st), LAMBDA st1 : ExecRepeat(s, e, st1, left - 1))

(* A frame for each element, with the element and its index.               *)
ExecForOf(s, e, st, items, i) ==
    IF i > Len(items) THEN Ok(Undefined, st)
    ELSE LET st1  == NewEnv(st, e, Len(s.scope))
             f    == Top(st1)
             st2  == DefineSlot(st1, f, SlotOf(s.scope, s.n), s.n, items[i], s.const)
             st3  == IF s.alias = "" THEN st2
                     ELSE DefineSlot(st2, f, SlotOf(s.scope, s.alias), s.alias, Num(i - 1), s.const)
         IN  AfterBody(Exec(s.body, f, st3), LAMBDA st4 : ExecForOf(s, e, st4, items, i + 1))

(***************************************************************************)
(* try. A throw runs the catch block and what that block completes with    *)
(* is kept; any other error runs it too, and then what it completes with   *)
(* is lost; without a catch block the error is lost. What finally          *)
(* completes with is lost always.                                          *)
(***************************************************************************)
ExecCatch(s, e, r, caught) ==
    LET st1 == NewEnv(r.st, e, Len(s.catch.scope))
        f   == Top(st1)
        st2 == IF s.n = "" THEN st1
               ELSE DefineSlot(st1, f, SlotOf(s.catch.scope, s.n), s.n, caught, FALSE)
    IN  Exec(s.catch, f, st2)

(* tries and ran count the try statements with a finally and the finallys. *)
ExecFinallyUnlessLeft(s, e, r) ==    \* mutant: leaving a loop skips it
    IF s.finally.k = "none" \/ r.c \in {"break", "continue"} THEN r
    ELSE [r EXCEPT !.st = Exec(s.finally, e, [r.st EXCEPT !.ran = @ + 1]).st]
ExecFinally(s, e, r) ==
    IF s.finally.k = "none" THEN r
    ELSE [r EXCEPT !.st = Exec(s.finally, e, [r.st EXCEPT !.ran = @ + 1]).st]

Lost(r) == Ok(IF r.c = "ok" THEN r.v ELSE Undefined, r.st)
Caught(s, e, r) ==
    CASE r.c = "ok" -> r
      [] r.c # "ok" /\ s.catch.k = "none" -> Lost(r)
      [] s.catch.k # "none" /\ r.c = "throw" -> ExecCatch(s, e, r, r.v)
      [] r.c \notin {"ok", "throw"} /\ s.catch.k # "none" -> Lost(ExecCatch(s, e, r, ErrorObject))
(* st.gone: the names of the catches that are over.                        *)
Leave(s, r) == [r EXCEPT !.st.gone = @ \cup ({s.n} \ {""})]
ExecTry(s, e, st) ==
    ExecFinally(s, e, Leave(s,
        Caught(s, e, Exec(s.body, e, [st EXCEPT !.tries = IF s.finally.k = "none" THEN @ ELSE @ + 1]))))

(***************************************************************************)
(* have, ifset, with, match: frames for what they bind.                    *)
(***************************************************************************)
(* A frame that only ifset, match and with make has no slots.              *)
Branch(s, cond, e, f, st) ==
    CASE cond -> Exec(s.then, f, st)
      [] ~cond /\ s.else.k # "none" -> Exec(s.else, e, st)
      [] OTHER -> Ok(Undefined, st)

ExecHave(s, e, st) ==
    Then(Eval(s.e, e, st), LAMBDA v, st1 :
        LET st2 == NewEnv(st1, e, Len(s.scope))
        IN  Branch(s, IsTruthy(v), e, Top(st2),
                   DefineSlot(st2, Top(st2), SlotOf(s.scope, s.n), s.n, v, FALSE)))

ExecIfSet(s, e, st) ==
    Then(Eval(s.e, e, st), LAMBDA v, st1 :
        LET st2 == NewEnv(st1, e, 0)
        IN  Branch(s, ~IsNullish(v), e, Top(st2), Define(st2, Top(st2), s.n, v, FALSE)))

ExecWith(s, e, st) ==
    Then(Eval(s.e, e, st), LAMBDA v, st1 :
        LET st2 == NewEnv(st1, e, 0)
        IN  Exec(s.body, Top(st2),
                 IF v.t = "obj" THEN DefineAll(st2, Top(st2), DOMAIN v.fields, v.fields) ELSE st2))

(* A case matches every value (bind) or the number lit. *)
ExecCases(cs, v, e, st) ==
    IF cs = <<>> THEN Ok(Undefined, st)
    ELSE LET c     == Head(cs)
             Arm(s) == LET s1 == NewEnv(s, e, 0)
                       IN  IF c.bind = "" THEN s1 ELSE Define(s1, Top(s1), c.bind, v, FALSE)
             Run(s) == Exec(c.body, Top(Arm(s)), Arm(s))
         IN  CASE c.default -> Exec(c.body, e, st)
               [] ~c.default /\ c.bind = "" /\ v # Num(c.lit) -> ExecCases(Tail(cs), v, e, st)
               [] OTHER -> IF c.guard.k = "none" THEN Run(st)
                           ELSE Then(Eval(c.guard, Top(Arm(st)), Arm(st)), LAMBDA g, st1 :
                                    IF IsTruthy(g) THEN Run(st1) ELSE ExecCases(Tail(cs), v, e, st1))

(***************************************************************************)
(* Calls.                                                                  *)
(***************************************************************************)
EvalArgs(args, e, st) ==
    IF args = <<>> THEN Ok(<<>>, st)
    ELSE Then(Eval(Head(args), e, st), LAMBDA v, st1 :
            Then(EvalArgs(Tail(args), e, st1), LAMBDA vs, st2 : Ok(<<v>> \o vs, st2)))

BindParams(params, args, e, st) ==
    IF params = <<>> THEN st
    ELSE BindParams(Tail(params), IF args = <<>> THEN <<>> ELSE Tail(args), e,
                    DefineSlot(st, e, Head(params).slot, Head(params).n,
                               IF args = <<>> THEN Undefined ELSE Head(args), FALSE))

(* Functions declared in the body are defined first, by name.              *)
Hoist(ss, e, st) ==
    LET fns == {i \in 1..Len(ss) : ss[i].k = "fn" /\ ss[i].n \notin DOMAIN st.envs[e].vars}
        of  == [n \in {ss[i].n : i \in fns} |->
                   LET i == CHOOSE i \in fns : ss[i].n = n /\ \A j \in fns : ss[j].n = n => i <= j
                   IN  Fn(ss[i], e, FALSE, Undefined)]
    IN  DefineAll(IF fns = {} THEN st ELSE Hold(st, e), e, DOMAIN of, of)

RunDefers(ds, st) ==
    IF ds = <<>> THEN st
    ELSE RunDefers(SubSeq(ds, 1, Len(ds) - 1),
                   Exec(ds[Len(ds)].body, ds[Len(ds)].env, st).st)

(* The last statement of these kinds is the value of the call.             *)
ImplicitKinds == {"expr", "match", "if", "unless", "try", "block", "fn"}

(* The body ss, called in st, has completed with r.                        *)
Returns(ss, st, r) ==
    LET end == [RunDefers(r.st.defers, [r.st EXCEPT !.defers = st.defers]) EXCEPT !.depth = st.depth]
        implicit == ss # <<>> /\ ss[Len(ss)].k \in ImplicitKinds
    IN  [r EXCEPT !.st = end, !.v = IF r.c = "ok" /\ ~implicit THEN Undefined ELSE @]

CallUserFunction(fn, args, this, st) ==
    LET body == fn.f.body
        st1  == NewEnv([st EXCEPT !.depth = @ + 1, !.defers = <<>>], fn.env, Len(body.scope))
        f    == Top(st1)
        st2  == DefineSlot(st1, f, SlotOf(body.scope, "this"), "this",
                           IF fn.arrow THEN fn.this ELSE this, FALSE)
        st3  == Hoist(body.body, f, BindParams(fn.f.params, args, f, st2))
    IN  Returns(body.body, st, ExecBlock(body.body, f, st3))

CallFunction(v, args, this, st) ==
    IF v.t = "fn" /\ st.depth < MaxCallDepth THEN CallUserFunction(v, args, this, st)
    ELSE HostError(st)    \* not callable, or the depth limit

(***************************************************************************)
(* Expressions.                                                            *)
(***************************************************************************)
(* st.missed: the names a lookup did not find, or that were constants to   *)
(* assign to and not late ones.                                            *)
Note(r, e, n) ==
    CASE r.c # "host" -> r
      [] r.c = "host" /\ <<Find(r.st, e, n), n>> \in r.st.late -> [r EXCEPT !.st.overtaken = @ \cup {n}]
      [] OTHER -> [r EXCEPT !.st.missed = @ \cup {n}]

EvalIdentifier(x, e, st) ==
    IF x.addr # NoAddr THEN Ok(GetSlotAddr(st, e, x.addr), Read(Compare(st, e, x), e, x))
    ELSE Note(IF HasName(st, e, x.n) THEN Ok(ByName(st, e, x.n), st) ELSE HostError(st), e, x.n)

AssignToNode(x, v, e, st) ==
    Note(IF x.addr # NoAddr THEN SetSlot(Compare(st, e, x), e, x.addr, x.n, v)
         ELSE SetByName(st, e, x.n, v), e, x.n)

(* A struct literal keeps what its statements define. *)
ExecFields(ss, e, st) ==
    IF ss = <<>> THEN Ok(Undefined, st)
    ELSE LET s == Head(ss)
         IN  Then(IF s.k = "expr" /\ s.e.k = "assign"
                  THEN Then(Eval(s.e.e, e, st), LAMBDA v, st1 :
                           Ok(v, Define(st1, e, s.e.left.n, v, FALSE)))
                  ELSE Exec(s, e, st),
                  LAMBDA v, st1 : ExecFields(Tail(ss), e, st1))

EvalStructLit(x, e, st) ==
    LET st1 == NewEnv(st, e, 0)
        f   == Top(st1)
    IN  Then(ExecFields(x.body, f, st1), LAMBDA v, st2 :
            LET o == Obj([n \in DOMAIN st2.envs[f].vars \ {"self", "this"} |-> st2.envs[f].vars[n]])
            IN  Ok(o, DefineAll(st2, f, {"self", "this"}, [n \in {"self", "this"} |-> o])))

EvalCall(x, e, st) ==
    Then(IF x.e.k = "get" THEN Eval(x.e.e, e, st) ELSE Eval(x.e, e, st), LAMBDA v, st1 :
        LET callee == IF x.e.k = "get" THEN Get(v, x.e.n) ELSE v
            this   == IF x.e.k = "get" THEN v ELSE Undefined
        IN  IF x.e.k = "get" /\ callee = Undefined THEN HostError(st1)
            ELSE Then(EvalArgs(x.args, e, st1), LAMBDA args, st2 :
                     CallFunction(callee, args, this, st2)))

EvalNew(x, e, st) ==
    Then(Eval(x.e, e, st), LAMBDA v, st1 :
        Then(EvalArgs(x.args, e, st1), LAMBDA args, st2 :
            CASE v.t = "fn" -> Then(CallFunction(v, args, [t |-> "inst"], st2),
                                    LAMBDA r, st3 : Ok([t |-> "inst"], st3))
              [] v.t # "fn" -> Ok(Null, st2)))

(* Only numbers are added here: anything else prints a diagnostic.         *)
Add(a, b) == IF a.t = "num" /\ b.t = "num" THEN Num(a.n + b.n) ELSE Undefined

(* The right operand is evaluated only if the left does not decide.        *)
Decides(op, v) == CASE op = "and" -> ~IsTruthy(v)
                    [] op = "or" -> IsTruthy(v)
                    [] op = "nullish" -> ~IsNullish(v)

EvalBinary(x, e, st) ==
    Then(Eval(x.l, e, st), LAMBDA a, st1 :
        IF x.k \in {"and", "or", "nullish"} /\ Decides(x.k, a) THEN Ok(a, st1)
        ELSE Then(Eval(x.r, e, st1), LAMBDA b, st2 :
                 CASE x.k = "add"  -> Ok(Add(a, b), st2)
                   [] x.k = "pipe" -> CallFunction(b, <<a>>, Undefined, st2)
                   [] OTHER -> Ok(b, st2)))

EvalThis(e, st) == IF HasName(st, e, "this") THEN ByName(st, e, "this") ELSE Undefined

(* Templates and shorthand properties look their names up; an error in a   *)
(* template is text.                                                       *)
EvalTemplate(x, e, st) ==
    Ok([t |-> "str", of |-> IF HasName(st, e, x.n) THEN Show(ByName(st, e, x.n)) ELSE Nil], st)
EvalShorthand(x, e, st) ==
    Ok(Obj(x.n :> IF HasName(st, e, x.n) THEN ByName(st, e, x.n) ELSE Undefined), st)

EvalAssign(x, e, st) == Then(Eval(x.e, e, st), LAMBDA v, st1 : AssignToNode(x.left, v, e, st1))

(* An increment that cannot assign says nothing. *)
EvalUnary(x, e, st) ==
    Then(Eval(x.e, e, st), LAMBDA v, st1 : Ok(v, AssignToNode(x.e, Add(v, Num(1)), e, st1).st))

OrNull(r) == IF r.c = "ok" THEN r ELSE Ok(Null, r.st)
EvalTrySafe(x, e, st) == OrNull(Eval(x.e, e, st))

EvalMember(x, e, st) ==
    Then(Eval(x.e, e, st), LAMBDA v, st1 :
        IF IsNullish(v) THEN HostError(st1) ELSE Ok(Get(v, x.n), st1))

EvalTernary(x, e, st) ==
    Then(Eval(x.test, e, st), LAMBDA v, st1 : Eval(IF IsTruthy(v) THEN x.l ELSE x.r, e, st1))

EvalArray(x, e, st) == Then(EvalArgs(x.args, e, st), LAMBDA vs, st1 : Ok(Arr(vs), st1))

EvalFn(x, e, st) == Ok(Fn(x, e, x.arrow, EvalThis(e, st)), Hold(st, e))

EvalMatch(x, e, st) == Then(Eval(x.e, e, st), LAMBDA v, st1 : ExecCases(x.cases, v, e, st1))

EvalWalk(x, e, st) ==
    CASE x.k = "lit" -> Ok(x.v, st)
      [] x.k = "arr" -> EvalArray(x, e, st)
      [] x.k = "id" -> EvalIdentifier(x, e, st)
      [] x.k = "this" -> Ok(EvalThis(e, st), st)
      [] x.k = "template" -> EvalTemplate(x, e, st)
      [] x.k = "shorthand" -> EvalShorthand(x, e, st)
      [] x.k = "assign" -> EvalAssign(x, e, st)
      [] x.k = "inc" -> EvalUnary(x, e, st)
      [] x.k = "trysafe" -> EvalTrySafe(x, e, st)
      [] x.k = "get" -> EvalMember(x, e, st)
      [] x.k \in {"and", "or", "nullish", "pipe", "sequence", "add"} -> EvalBinary(x, e, st)
      [] x.k = "ternary" -> EvalTernary(x, e, st)
      [] x.k = "call" -> EvalCall(x, e, st)
      [] x.k = "new" -> EvalNew(x, e, st)
      [] x.k = "lambda" -> EvalFn(x, e, st)
      [] x.k = "struct" -> EvalStructLit(x, e, st)
      [] x.k = "match" -> EvalMatch(x, e, st)

Eval(x, e, st) ==
    LET st1 == Consume(st) IN IF Exhausted(st1) THEN HostError(st1) ELSE EvalWalk(x, e, st1)

(***************************************************************************)
(* Statements.                                                             *)
(***************************************************************************)
ExecNamespace(s, e, st) ==
    LET st1 == NewEnv(st, e, 0)
        f   == Top(st1)
    IN  Then(ExecBlock(s.body, f, st1), LAMBDA v, st2 :
            LET o == Obj(st2.envs[f].vars) IN Ok(o, Define(Late(st2, e, s.n), e, s.n, o, FALSE)))

(* A pattern {n} takes the field n; execUsing and the declarations define  *)
(* by name only.                                                           *)
ExecDeclaration(s, e, st) ==
    Then(Eval(s.e, e, st), LAMBDA v, st0 :
        LET st1 == Late(st0, e, s.n)
        IN  Ok(Undefined,
               CASE s.k = "destr" -> Define(st1, e, s.n, Get(v, s.n), FALSE)
                 [] s.k = "val" /\ s.addr # NoAddr -> DefineSlot(st1, e, s.addr.slot, s.n, v, s.const)
                 [] OTHER -> Define(st1, e, s.n, v, s.k = "val" /\ s.const)))

(* An error while printing is printed. *)
Logged(r) == Ok(Undefined, [r.st EXCEPT !.log = Append(@, IF r.c = "ok" THEN Show(r.v) ELSE Nil)])
ExecLog(s, e, st) == Logged(Eval(s.e, e, st))

ExecFnDecl(s, e, st) ==
    LET f == Fn(s, e, FALSE, Undefined)
    IN  Ok(f, Define(Hold(Late(st, e, s.n), e), e, s.n, f, FALSE))

ExecIf(s, e, st) == Then(Eval(s.test, e, st), LAMBDA v, st1 : Branch(s, IsTruthy(v), e, e, st1))
ExecUnless(s, e, st) == Then(Eval(s.test, e, st), LAMBDA v, st1 : Branch(s, ~IsTruthy(v), e, e, st1))
ExecGuard(s, e, st) ==
    Then(Eval(s.test, e, st), LAMBDA v, st1 :
        IF IsTruthy(v) THEN Ok(Undefined, st1) ELSE Exec(s.else, e, st1))
ExecAssert(s, e, st) ==
    Then(Eval(s.test, e, st), LAMBDA v, st1 :
        IF IsTruthy(v) THEN Ok(Undefined, st1) ELSE Fail("throw", ErrorObject, st1))

ExecThrow(s, e, st) == Then(Eval(s.e, e, st), LAMBDA v, st1 : Fail("throw", v, st1))

(* Block, the one frame a declaration is resolved for that has no slots:   *)
(* its variables are all bare.                                             *)
ExecOwnScope(s, e, st) ==
    IF ~DeclaresBindings(s) THEN ExecBlock(s.body, e, st)
    ELSE LET st1 == NewEnv(st, e, 0)
             f   == Top(st1)
             ns  == {s.body[i].n : i \in {i \in 1..Len(s.body) : s.body[i].k \in DeclarationKinds}}
         IN  ExecBlock(s.body, f, [st1 EXCEPT !.bare = @ \cup ({f} \X ns)])

ExecWalk(s, e, st) ==
    CASE s.k = "none" -> Ok(Undefined, st)
      [] s.k = "block" -> ExecOwnScope(s, e, st)
      [] s.k \in {"val", "using", "destr"} -> ExecDeclaration(s, e, st)
      [] s.k \in {"fn", "component"} -> ExecFnDecl(s, e, st)
      [] s.k = "namespace" -> ExecNamespace(s, e, st)
      [] s.k = "expr" -> Eval(s.e, e, st)
      [] s.k = "match" -> EvalMatch(s, e, st)
      [] s.k = "log" -> ExecLog(s, e, st)
      [] s.k = "throw" -> ExecThrow(s, e, st)
      [] s.k \in {"break", "continue"} -> Fail(s.k, Undefined, st)
      [] s.k = "if" -> ExecIf(s, e, st)
      [] s.k = "unless" -> ExecUnless(s, e, st)
      [] s.k = "guard" -> ExecGuard(s, e, st)
      [] s.k = "assert" -> ExecAssert(s, e, st)
      [] s.k = "while" -> ExecWhile(s, e, st)
      [] s.k = "repeat" -> ExecRepeat(s, e, st, s.count)
      [] s.k = "loop" -> ExecRepeat(s, e, st, -1)
      [] s.k = "each" -> Then(Eval(s.e, e, st), LAMBDA v, st1 :
                             IF v.t = "arr" THEN ExecForOf(s, e, st1, v.items, 1) ELSE Ok(Undefined, st1))
      [] s.k = "try" -> ExecTry(s, e, st)
      [] s.k = "defer" -> Ok(Undefined, [Hold(st, e) EXCEPT !.defers = Append(@, [body |-> s.body, env |-> e])])
      [] s.k \in {"have", "ifhave"} -> ExecHave(s, e, st)
      [] s.k = "ifset" -> ExecIfSet(s, e, st)
      [] s.k = "with" -> ExecWith(s, e, st)

Exec(s, e, st) ==
    LET st1 == Consume(st) IN IF Exhausted(st1) THEN HostError(st1) ELSE ExecWalk(s, e, st1)

(***************************************************************************)
(* CallMain: the top level has no slots and its functions no enclosing     *)
(* frame the pass knows.                                                   *)
(***************************************************************************)
Start == [envs |-> <<[vars |-> NoVars, consts |-> {}, parent |-> 0, slots |-> <<>>]>>,
          log |-> <<>>, defers |-> <<>>, steps |-> 0, depth |-> 0,
          tries |-> 0, ran |-> 0, agree |-> TRUE, bare |-> {}, slotless |-> {},
          held |-> {}, late |-> {}, overtaken |-> {}, gone |-> {}, missed |-> {}]

Seen(r) == [c |-> r.c, v |-> Show(r.v), log |-> r.st.log, tries |-> r.st.tries, ran |-> r.st.ran,
            steps |-> r.st.steps, agree |-> r.st.agree, slotless |-> r.st.slotless,
            overtaken |-> r.st.overtaken, gone |-> r.st.gone, missed |-> r.st.missed]
RunMain(body) ==
    Seen(CallFunction(Fn([params |-> <<>>, body |-> body], 1, FALSE, Undefined), <<>>, Undefined, Start))
=============================================================================
