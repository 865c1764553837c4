----------------------------- MODULE ScriptsMC -----------------------------
(***************************************************************************)
(* The constructs programs are built from. main declares x first and       *)
(* prints it last.                                                         *)
(***************************************************************************)
EXTENDS Scripts

None == [k |-> "none"]
Lit(n) == [k |-> "lit", v |-> Num(n)]
Log(x) == [k |-> "log", e |-> x]
Expr(x) == [k |-> "expr", e |-> x]
Assign(n, x) == [k |-> "assign", left |-> Id(n), e |-> x]
Val(n, x, const) == [k |-> "val", n |-> n, e |-> x, addr |-> NoAddr, const |-> const]
Call(f, args) == [k |-> "call", e |-> f, args |-> args]
Lambda(params, ss, arrow) ==
    [k |-> "lambda", n |-> "", params |-> params, body |-> Block(ss), arrow |-> arrow]
Struct(ss) == [k |-> "struct", body |-> ss]
Pair == [k |-> "arr", args |-> <<Lit(1), Lit(2)>>]
Try(ss, n, catch, finally) ==
    [k |-> "try", body |-> Block(ss), n |-> n, catch |-> catch, finally |-> finally]
Decl(kind, n, params, ss) ==
    [k |-> kind, n |-> n, params |-> params, body |-> Block(ss)]
If(test, ss) == [k |-> "if", test |-> test, then |-> Block(ss), else |-> None]
CaseOf(bind, guard, ss) ==
    [default |-> FALSE, bind |-> bind, lit |-> 1, guard |-> guard, body |-> Block(ss)]
Default(ss) == [default |-> TRUE, body |-> Block(ss)]
Match(x, cs) == [k |-> "match", e |-> x, cases |-> cs]

MCFraming(ss) == <<Val("x", Lit(1), FALSE)>> \o ss \o <<Log(Id("x"))>>

MCStatement(s) ==
    CASE s = "throw" -> [k |-> "throw", e |-> Lit(11)]
      [] s = "break" -> [k |-> "break"]
      [] s = "continue" -> [k |-> "continue"]
      [] s = "fail" -> Expr(Call(Lit(0), <<>>))
      [] s = "log x" -> Log(Id("x"))
      [] s = "log y" -> Log(Id("y"))
      [] s = "log e" -> Log(Id("e"))
      [] s = "template" -> Log([k |-> "template", n |-> "x"])
      [] s = "shorthand" -> Log([k |-> "get", e |-> [k |-> "shorthand", n |-> "x"], n |-> "x"])
      [] s = "x = 0" -> Expr(Assign("x", Lit(0)))
      [] s = "x++" -> Expr([k |-> "inc", e |-> Id("x")])
      [] s = "val x" -> Val("x", Lit(3), FALSE)
      [] s = "const y" -> Val("y", Lit(4), TRUE)
      [] s = "try? y" -> Log([k |-> "trysafe", e |-> Assign("y", Lit(5))])
      [] s = "val f" -> Val("f", Lambda(<<Param("p")>>, <<Log(Id("p")), Expr(Assign("x", Id("p")))>>, FALSE), FALSE)
      [] s = "x |> f" -> Expr([k |-> "pipe", l |-> Id("x"), r |-> Id("f")])
      [] s = "recursion" -> Val("f", Lambda(<<>>, <<Log(Id("x")), Expr(Call(Id("f"), <<>>))>>, TRUE), FALSE)
      [] s = "call f" -> Expr(Call(Id("f"), <<Lit(6)>>))
      [] s = "new f" -> Log([k |-> "new", e |-> Id("f"), args |-> <<Lit(6)>>])
      [] s = "assert" -> [k |-> "assert", test |-> Id("x"), else |-> None]
      [] s = "using y" -> [k |-> "using", n |-> "y", e |-> Lit(7), addr |-> NoAddr]
      [] s = "destructure" -> [k |-> "destr", n |-> "y", e |-> Struct(<<Expr(Assign("y", Lit(8)))>>),
                               addr |-> NoAddr]
      [] s = "nullish" -> Log([k |-> "ternary", test |-> [k |-> "or", l |-> Id("x"), r |-> Lit(0)],
                               l |-> [k |-> "and", l |-> Id("x"), r |-> Lit(9)],
                               r |-> [k |-> "sequence", l |-> Lit(0),
                                      r |-> [k |-> "nullish", l |-> Id("x"), r |-> Lit(2)]]])

MCWrapped(w, ss) ==
    CASE w = "if" -> <<If(Id("x"), ss)>>
      [] w = "unless" -> <<[k |-> "unless", test |-> Id("x"), then |-> Block(<<Log(Lit(20))>>),
                            else |-> Block(ss)]>>
      [] w = "guard" -> <<[k |-> "guard", test |-> Lit(0), else |-> Block(ss)]>>
      [] w = "while" -> <<[k |-> "while", test |-> Id("x"), body |-> Block(ss)]>>
      [] w = "repeat" -> <<[k |-> "repeat", count |-> 2, body |-> Block(ss)]>>
      [] w = "loop" -> <<[k |-> "loop", body |-> Block(ss \o <<[k |-> "break"]>>)]>>
      [] w = "each" -> <<[k |-> "each", n |-> "y", alias |-> "i", const |-> FALSE, e |-> Pair, scope |-> Unresolved,
                          body |-> Block(<<Log(Id("y"))>> \o ss \o <<Log(Id("i"))>>)]>>
      [] w = "try" -> <<Try(ss, "e", Block(<<Log(Id("e"))>>), Block(<<Log(Lit(21))>>))>>
      [] w = "try finally" -> <<Try(ss, "", None, Block(<<Log(Id("x"))>>))>>
      [] w = "catch" -> <<Try(<<[k |-> "throw", e |-> Id("x")]>>, "e", Block(ss), Block(<<Log(Lit(22))>>))>>
      [] w = "finally" -> <<Try(<<Log(Lit(23))>>, "", None, Block(ss))>>
      [] w = "under const y" -> <<Val("y", Lit(4), TRUE)>> \o ss
      [] w = "defer" -> <<[k |-> "defer", body |-> Block(ss)]>>
      [] w = "lambda" -> <<Log(Call(Lambda(<<Param("y")>>, ss, FALSE), <<Lit(24)>>))>>
      [] w = "value of" -> <<Log(Call(Lambda(<<>>, <<Expr(Lit(25))>> \o ss, TRUE), <<>>))>>
      [] w = "have" -> <<[k |-> "have", e |-> Id("x"), n |-> "y", then |-> Block(ss),
                          else |-> Block(<<Log(Lit(26))>>), scope |-> Unresolved]>>
      [] w = "with" -> <<[k |-> "with", body |-> Block(ss),
                          e |-> Struct(<<Expr(Assign("x", Lit(27))), Expr(Assign("y", Lit(0)))>>)]>>
      [] w = "with x" -> <<[k |-> "with", body |-> Block(ss), e |-> Struct(<<Expr(Assign("x", Lit(27)))>>)]>>
      [] w = "default" -> <<Match(Id("x"), <<Default(ss)>>)>>
      [] w = "case" -> <<Match(Id("x"), <<CaseOf("", None, ss), Default(<<Log(Lit(28))>>)>>)>>
      [] w = "bind" -> <<Expr(Match(Id("x"), <<CaseOf("y", Id("y"), <<Log(Id("y"))>> \o ss)>>))>>
      [] w = "block" -> <<Block(<<Val("y", Lit(29), FALSE)>> \o ss \o <<Log(Id("y"))>>)>>
      [] w = "fn" -> <<Decl("fn", "f", <<Param("y")>>, ss), Log(Call(Id("f"), <<Id("x")>>))>>
      [] w = "struct" -> <<Log(Struct(<<Expr(Assign("y", Lit(31)))>> \o ss))>>
      [] w = "namespace" -> <<[k |-> "namespace", n |-> "f", body |-> ss], Log(Id("f"))>>
      [] w = "ifset" -> <<[k |-> "ifset", e |-> Id("x"), n |-> "y", scope |-> Unresolved,
                           then |-> Block(<<Log(Id("y"))>> \o ss), else |-> None]>>

Anywhere(w, ss) == TRUE

(* The third edit offers fewer, and the fourth fewer still.                *)
MCSimples(n) ==
    {"throw", "log y", "call f", "log e"}
    \cup (IF n > 3 THEN {} ELSE {"try? y", "x = 0", "val x"})
    \cup IF n > 2 THEN {} ELSE
         {"const y", "break", "continue", "new f", "fail", "log x", "template", "shorthand", "x++", "val f", "recursion",
          "x |> f", "assert", "nullish", "using y", "destructure"}
MCWrappers(n) ==
    {"each", "try", "catch", "defer", "lambda", "block"}
    \cup (IF n > 3 THEN {} ELSE {"while", "try finally", "with", "with x", "under const y"})
    \cup IF n > 2 THEN {} ELSE
         {"value of", "default", "case", "bind", "if", "ifset", "unless", "guard", "repeat", "loop", "finally", "have",
          "fn", "struct", "namespace"}
=============================================================================
