------------------------------- MODULE Writer -------------------------------
(***************************************************************************)
(* A reference for the parser: how a syntax tree is written.  Parentheses  *)
(* stand only where an operator would bind otherwise, and a ';' only where *)
(* the next statement would continue this one.  The binding powers are     *)
(* those a reader of the language expects of each operator; nothing here   *)
(* comes from the parser.  A word is the value of a token; WordToken gives *)
(* it the type the lexer would.                                            *)
(***************************************************************************)
EXTENDS Sequences, Integers, SequencesExt

\* Operators by how tightly they bind; those of one set associate.
BinaryPower(op) ==
    CASE op = "??" -> 4 [] op = "||" -> 5 [] op = "&&" -> 6 [] op = "|" -> 7
      [] op = "^" -> 8 [] op = "&" -> 9 [] op \in {"===", "!==", "==", "!="} -> 10
      [] op \in {"<", ">", "<=", ">=", "in", "instanceof"} -> 11
      [] op \in {"<<", ">>", ">>>"} -> 12 [] op \in {"+", "-"} -> 13
      [] op \in {"*", "/", "%"} -> 14 [] op = "**" -> 15

PrefixWord == [SpreadExpr |-> "...", TypeofExpr |-> "typeof", VoidExpr |-> "void",
               DeleteExpr |-> "delete", NotExpr |-> "not"]
Chained == {"CallExpr", "OptionalCall", "IndexExpr", "OptionalIndex", "MemberExpr", "OptionalMember", "PostfixExpr"}

\* An arrow function and a try? reach as far to the right as they can.
Power(t) ==
    CASE t[1] \in {"AssignExpr", "ArrowFn", "TrySafeExpr"} -> 1
      [] t[1] = "TernaryExpr" -> 2
      [] t[1] = "PipelineExpr" -> 3
      [] t[1] = "BinaryExpr" -> BinaryPower(t[3][1])
      [] t[1] = "UnaryExpr" \/ t[1] \in DOMAIN PrefixWord -> 16
      [] t[1] = "NewExpr" /\ Len(t) = 2 -> 16
      [] t[1] \in Chained -> 17
      [] OTHER -> 18

\* The children from the k-th on, as the operator F writes them.
Each(t, k, F(_)) == FoldLeft(LAMBDA ws, c : ws \o F(c), <<>>, SubSeq(t, k, Len(t)))
With(sep, ws) == ws \o <<sep>>
Is(t, k, type) == k \in DOMAIN t /\ t[k][1] = type

\* Words that go on with an expression that could end before them.
Continues == {"(", "[", "+", "-", "++", "--", "or", "and"}
\* Words that begin a statement of their own.
Begins == {"fn", "if", "match", "delete", "spawn", "log", "select", "{"}
Enclosed(in, ws) == IF in THEN <<"(">> \o ws \o <<")">> ELSE ws
Guarded(words, ws) == Enclosed(ws[1] \in words, ws)

\* Two operators have words for them, which an expression may be written with as well.
WordFor(op) == CASE op = "||" -> "or" [] op = "&&" -> "and" [] OTHER -> op
InWords(ws) == [k \in DOMAIN ws |-> WordFor(ws[k])]

RECURSIVE Expr(_, _), Statement(_), Body(_, _)
Expr(t, min) ==
    LET Arg(e)   == With(",", Expr(e, 1))
        Args(a)  == <<"(">> \o Each(a, 2, Arg) \o <<")">>
        Item(e)  == IF e[1] = "hole" THEN <<",">> ELSE Arg(e)
        \* A parameter <<"Param", name>>, <<"Param", "rest", name>> or one with a default value.
        Param(p) == With(",", IF p[2] = <<"rest">> THEN <<"...", p[3][1]>>
                              ELSE p[2] \o (IF Len(p) = 3 THEN <<"=">> \o Expr(p[3], 1) ELSE <<>>))
        Params(ps) == <<"(">> \o Each(ps, 2, Param) \o <<")">>
        Prop(p)  == With(",", CASE p[1] = "spread" -> <<"...">> \o Expr(p[2], 1)
                                [] p[1] = "accessor" -> p[2] \o p[3] \o Params(p[4]) \o Body(p[5], 2)
                                [] Len(p) = 2 -> p[2]
                                [] Is(p, 3, "Params") -> p[2] \o Params(p[3]) \o Body(p[4], 2)
                                [] Len(p[2]) > 1 -> <<"[">> \o Expr(p[2], 1) \o <<"]", ":">> \o Expr(p[3], 1)
                                [] OTHER -> p[2] \o <<":">> \o Expr(p[3], 1))
        Binary(l, r) == Expr(t[2], l) \o t[3] \o Expr(t[4], r)
        n        == Power(t)
    IN  Enclosed(n < min,
            CASE t[1] \in {"Identifier", "NumberLit", "StringLit", "BoolLit", "NullLit", "ThisExpr"} -> t[2]
              [] t[1] = "AssignExpr" -> Binary(3, 1)
              [] t[1] = "TernaryExpr" -> Expr(t[2], 3) \o <<"?">> \o Expr(t[3], 1) \o <<":">> \o Expr(t[4], 1)
              [] t[1] = "BinaryExpr" \/ t[1] = "PipelineExpr" -> IF n = 15 THEN Binary(16, 15) ELSE Binary(n, n + 1)
              [] t[1] = "UnaryExpr" -> t[2] \o Expr(t[3], 16)
              [] t[1] \in DOMAIN PrefixWord -> <<PrefixWord[t[1]]>> \o Expr(t[2], 16)
              [] t[1] = "CallExpr" -> Expr(t[2], 17) \o Args(t[3])
              [] t[1] = "OptionalCall" -> Expr(t[2], 17) \o <<"?.">> \o Args(t[3])
              [] t[1] = "IndexExpr" -> Expr(t[2], 17) \o <<"[">> \o Expr(t[3], 1) \o <<"]">>
              [] t[1] = "OptionalIndex" -> Expr(t[2], 17) \o <<"?.", "[">> \o Expr(t[3], 1) \o <<"]">>
              [] t[1] = "MemberExpr" -> Expr(t[2], 17) \o <<".">> \o t[3]
              [] t[1] = "OptionalMember" -> Expr(t[2], 17) \o <<"?.">> \o t[3]
              [] t[1] = "PostfixExpr" -> Expr(t[2], 17) \o t[3]
              [] t[1] = "SequenceExpr" -> <<"(">> \o Expr(t[2], 1) \o Each(t, 3, LAMBDA e : <<",">> \o Expr(e, 1)) \o <<")">>
              [] t[1] = "ArrayLit" -> <<"[">> \o Each(t, 2, Item) \o <<"]">>
              [] t[1] = "ObjectLit" -> <<"{">> \o Each(t, 2, Prop) \o <<"}">>
              [] t[1] = "NewExpr" -> <<"new">> \o Expr(t[2], 18) \o (IF Len(t) = 3 THEN Args(t[3]) ELSE <<>>)
              [] t[1] = "RangeExpr" -> <<"range">> \o Args(t[2])
              [] t[1] = "TrySafeExpr" -> <<"try", "?">> \o Expr(t[2], 1)
              [] t[1] = "AtImportExpr" -> <<"@">> \o t[2] \o <<"(">> \o t[3] \o <<")">>
              [] t[1] = "StructLit" -> <<"struct">> \o Body(t, 2)
              [] t[1] = "FnExpr" -> <<"fn">> \o Params(t[2]) \o Body(t[3], 2)
              [] t[1] = "ArrowFn" -> Params(t[2]) \o <<"=>">> \o
                     (IF t[3][1] = "Block" THEN Body(t[3], 2) ELSE Guarded({"{"}, Expr(t[3], 1)))
              [] OTHER -> Statement(t))      \* if and match

Statement(t) ==
    LET Else(e) == CASE e[1] = "Else" -> <<"else">> \o Body(e[2], 2)
                     [] e[1] = "Elif" -> <<"elif">> \o Expr(e[2], 1) \o Body(e[3], 2)
                     [] e[1] = "Catch" -> <<"catch">> \o (IF Len(e) = 3 THEN <<"(">> \o e[2] \o <<")">> ELSE <<>>)
                                          \o Body(e[Len(e)], 2)
                     [] e[1] = "Finally" -> <<"finally">> \o Body(e[2], 2)
                     [] e[1] = "Guard" -> <<"when">> \o Expr(e[2], 1)
                     [] e[1] = "Block" -> Body(e, 2)
        RECURSIVE Pattern(_)
        Pattern(p) == CASE p[1] \in {"literal", "binding"} -> p[2]
                        [] p[1] = "rest" -> <<"...">> \o p[2]
                        [] p[1] = "array" -> <<"[">> \o Each(p, 2, LAMBDA q : With(",", Pattern(q))) \o <<"]">>
                        [] p[1] = "object" -> <<"{">> \o Each(p, 2, LAMBDA q : With(",",
                               q[2] \o (IF Len(q) = 3 THEN <<":">> \o q[3] ELSE <<>>))) \o <<"}">>
                        [] p[1] = "variant" -> p[2] \o <<"(">> \o Each(p, 3, LAMBDA q : With(",", Pattern(q))) \o <<")">>
        Patterns(c) == SelectSeq(Tail(c), LAMBDA p : p[1] \notin {"Guard", "Block"})
        \* A name or a parenthesis before => would begin an arrow function, so a guarded case goes without =>.
        Case(c) == (IF c[2] = <<"default">> THEN <<"else">>
                    ELSE <<"case">> \o Pattern(c[2]) \o Each(Patterns(c), 2, LAMBDA p : <<"|">> \o Pattern(p)))
                   \o (IF Is(c, Len(c) - 1, "Guard") THEN Else(c[Len(c) - 1]) ELSE <<"=>">>) \o Else(c[Len(c)])
        Cond(c) == IF c[1] = "not in" THEN <<"not", "in">> \o Expr(c[2], 17)
                   ELSE IF c[1] = "is not" THEN <<"is", "not">> \o Expr(c[2], 17)
                   ELSE <<c[1]>> \o Each(c, 2, LAMBDA e : Expr(e, 17))
        Field(p) == With(",", CASE p[1] = "Rest" -> <<"...">> \o p[2]
                                [] p[1] = "hole" -> <<>>
                                [] OTHER -> p[2] \o (IF Is(p, 3, "NumberLit") THEN <<"=">> \o Expr(p[3], 1)
                                                     ELSE IF Len(p) = 3 THEN <<":">> \o p[3] ELSE <<>>))
        Rest(k) == IF k \in DOMAIN t THEN <<"=">> \o Expr(t[k], 1) ELSE <<>>
    IN
    CASE t[1] = "ExprStmt" -> Guarded(Begins, Expr(t[2], 1))
      [] t[1] = "VarDecl" /\ t[3][1] = "ArrayPattern" -> t[2] \o <<"[">> \o Each(t[3], 2, Field) \o <<"]">> \o Rest(4)
      [] t[1] = "VarDecl" /\ t[3][1] = "ObjectPattern" -> t[2] \o <<"{">> \o Each(t[3], 2, Field) \o <<"}">> \o Rest(4)
      [] t[1] = "VarDecl" -> t[2] \o t[3] \o Rest(4)
      [] t[1] = "ImmutableDecl" -> <<"immutable">> \o Statement(t[2])
      [] t[1] = "FnDecl" -> <<"fn">> \o t[2] \o <<"(">> \o
             Each(t[3], 2, LAMBDA p : With(",", p[2])) \o <<")">> \o Body(t[4], 2)
      [] t[1] = "EnumDecl" -> <<"enum">> \o t[2] \o <<"{">> \o Each(t, 3, LAMBDA p : With(",", p[2])) \o <<"}">>
      [] t[1] = "NamespaceDecl" -> <<"namespace">> \o t[2] \o Body(t, 3)
      [] t[1] = "ImportDecl" -> <<"import", "{">> \o
             Each(SubSeq(t, 2, Len(t) - 1), 1, LAMBDA p : With(",", p[2] \o (IF Len(p) = 3 THEN <<"as">> \o p[3] ELSE <<>>)))
             \o <<"}", "from">> \o t[Len(t)]
      [] t[1] = "ExportDecl" -> <<"export">> \o Statement(t[2])
      [] t[1] \in {"IfStmt", "UnlessStmt"} ->
             <<IF t[1] = "IfStmt" THEN "if" ELSE "unless">> \o Expr(t[2], 1) \o Body(t[3], 2) \o Each(t, 4, Else)
      [] t[1] = "WhileStmt" -> <<"while">> \o Expr(t[2], 1) \o Body(t[3], 2)
      [] t[1] = "ForOfStmt" -> <<"for">> \o t[2] \o (IF Len(t) = 5 THEN <<",">> \o t[3] ELSE <<>>) \o
             <<"of">> \o Expr(t[Len(t) - 1], 1) \o Body(t[Len(t)], 2)
      [] t[1] = "EachInStmt" -> <<"each">> \o t[2] \o <<"in">> \o Expr(t[3], 1) \o Body(t[4], 2)
      [] t[1] = "RepeatStmt" -> <<"repeat">> \o (IF Len(t) = 3 THEN Guarded({"{"}, Expr(t[2], 1)) ELSE <<>>) \o Body(t[Len(t)], 2)
      [] t[1] = "LoopStmt" -> <<"loop">> \o Body(t[2], 2)
      [] t[1] = "MatchStmt" -> <<"match">> \o Expr(t[2], 1) \o <<"{">> \o Each(t, 3, Case) \o <<"}">>
      [] t[1] = "TryStmt" -> <<"try">> \o Body(t[2], 2) \o Each(t, 3, Else)
      [] t[1] = "Jump" -> t[2]
      [] t[1] = "LogStmt" -> <<"log">> \o (IF Len(t) = 1 THEN <<>>
             ELSE Expr(t[2], 1) \o Each(t, 3, LAMBDA e : <<",">> \o Expr(e, 1)))
      [] t[1] = "ThrowStmt" -> <<"throw">> \o Expr(t[2], 1)
      [] t[1] = "SpawnStmt" -> <<"spawn">> \o Expr(t[2], 1)
      [] t[1] = "DeleteStmt" -> <<"delete">> \o Expr(t[2], 1)
      [] t[1] = "AssertStmt" -> <<"assert">> \o Expr(t[2], 1) \o Each(t, 3, LAMBDA e : <<",">> \o Expr(e, 1))
      [] t[1] = "UsingDecl" -> <<"using">> \o t[2] \o <<"=">> \o Expr(t[3], 1)
      [] t[1] = "GuardStmt" -> <<"guard">> \o Expr(t[2], 1) \o <<"else">> \o Body(t[3], 2)
      [] t[1] = "DeferStmt" -> <<"defer">> \o Body(t[2], 2)
      [] t[1] = "WithStmt" -> <<"with">> \o Expr(t[2], 1) \o Body(t[3], 2)
      [] t[1] = "SelectStmt" -> <<"select", "{">> \o Each(t, 2, LAMBDA c : <<"case">> \o c[2] \o <<"=">> \o Expr(c[3], 1) \o
             <<"=>">> \o Statement(c[4][2]) \o <<";">>) \o <<"}">>
      [] t[1] \in {"HaveStmt", "IfHaveStmt", "IfSetStmt"} ->
             <<CASE t[1] = "HaveStmt" -> "have" [] t[1] = "IfHaveStmt" -> "ifhave" [] OTHER -> "ifset">> \o Expr(t[2], 17) \o
             Each(t, 3, LAMBDA c : CASE c[1] \in {"Block"} -> Body(c, 2) [] c[1] = "Else" -> Else(c)
                                     [] Len(c) = 1 -> <<"as">> \o c [] OTHER -> Cond(c))

\* The statements ts from the k-th on, written; ';' where two would be read as one.
Joined(ts, k, written) ==
    LET apart(n) == \/ ts[n][1] = "LogStmt" /\ Len(ts[n]) = 1
                    \/ n < Len(ts) /\ written[n + 1][1] \in Continues
    IN  FoldLeft(LAMBDA ws, n : ws \o written[n] \o (IF apart(n) THEN <<";">> ELSE <<>>), <<>>,
                 [n \in 1..(Len(ts) - k + 1) |-> n + k - 1])
Program(t, k) == Joined(t, k, [n \in DOMAIN t |-> IF n < k THEN <<>> ELSE Statement(t[n])])
Body(t, k) == <<"{">> \o Program(t, k) \o <<"}">>
=============================================================================
