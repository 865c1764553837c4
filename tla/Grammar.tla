------------------------------ MODULE Grammar ------------------------------
(***************************************************************************)
(* The grammar of Lunex, one rule per parse function of                    *)
(* internal/parser/parser.go, written as data that Parser.tla runs.        *)
(*                                                                         *)
(* A token is <<type, value>>, its type one of the lexer's.  A test looks  *)
(* at the current token or at one further on.  A grammar is one of the     *)
(* steps below: what the function consumes, what it keeps for the node it  *)
(* builds, which loops it runs and which results of p.eat it throws away.  *)
(* Error texts, codes and the line and column of a node are left out.      *)
(***************************************************************************)
EXTENDS Sequences

(***************************************************************************)
(* Tests.  `types' or `values' empty: any.                                 *)
(***************************************************************************)
Test(n, types, values) == [is |-> "token", ahead |-> n, types |-> types, values |-> values]
Kind(t)   == Test(0, {t}, {})            \* p.checkTok(t)
Kw(w)     == Test(0, {"KEYWORD"}, {w})     \* p.checkKw(w)
Op(w)     == Test(0, {"OPERATOR"}, {w})    \* p.check(lexer."OPERATOR", w)
Punct(w)  == Test(0, {"PUNCTUATION"}, {w}) \* p.check(lexer."PUNCTUATION", w)
Value(ws) == Test(0, {}, ws)             \* p.current().StrVal(), of any type
Next1(ws) == Test(1, {}, ws)             \* p.peek(1).StrVal(), of any type
NextIs(t) == Test(1, {t}, {})            \* p.peek(1).Type
Always    == [is |-> "always"]
Arrow     == [is |-> "arrow"]            \* p.lookAheadArrow()
Not(a)    == [is |-> "not", a |-> a]
Both(a, b)   == [is |-> "and", a |-> a, b |-> b]
Either(a, b) == [is |-> "or", a |-> a, b |-> b]
AtEOF     == Kind("EOF")
Ident     == Kind("IDENTIFIER")
Name      == Either(Ident, Kind("KEYWORD"))
LineEnd   == Either(AtEOF, Value({";"})) \* p.isLineEnd()

(***************************************************************************)
(* Steps.                                                                  *)
(***************************************************************************)
Eat(a)      == [do |-> "eat", test |-> a, keep |-> FALSE]  \* p.eat, its error returned
Keep(a)     == [do |-> "eat", test |-> a, keep |-> TRUE]   \* and the token stored
Opt(a)      == [do |-> "opt", test |-> a]                  \* p.eatIf, or p.eat with its error dropped
OptKeep(a)  == [do |-> "opt keep", test |-> a]             \* tok, _ := p.eat: the token is stored, eaten or not
Advance     == [do |-> "advance", keep |-> FALSE]          \* p.advance()
Save        == [do |-> "advance", keep |-> TRUE]           \* and the token stored
Fail        == [do |-> "fail"]                             \* return nil, p.errorf(...)
Break       == [do |-> "break"]                            \* leaves the loop around it
Mark(w)     == [do |-> "mark", mark |-> w]                 \* a field set without a token
SkipTypeExpr == [do |-> "skip type", depth |-> 0]                     \* p.skipTypeExpr()
Rule(f)     == [do |-> "rule", rule |-> f]                 \* calls the parse function f
InOrder(gs) == [do |-> "in order", steps |-> gs]
IfElse(a, g, h) == [do |-> "if", test |-> a, then |-> InOrder(g), else |-> InOrder(h)]
If(a, g)    == IfElse(a, g, <<>>)
After(a, g) == If(a, <<Advance>> \o g)                     \* if p.eatIf(a) { g }
While(a, g) == [do |-> "loop", test |-> a, body |-> InOrder(g)]
Until(a, g) == While(Both(Not(a), Not(AtEOF)), g)          \* for !p.check(a) && !p.check("EOF")
Node(t, gs) == [do |-> "node", type |-> t, body |-> InOrder(gs)]   \* a new node over what gs keeps
Wrap(t, gs) == [do |-> "wrap", type |-> t, body |-> InOrder(gs)]   \* a new node over what is kept so far and gs
\* The first arm whose test holds; an arm is <<test, steps>>.
Cases(arms, other) == [do |-> "cases", arms |-> [k \in DOMAIN arms |-> [test |-> arms[k][1], body |-> InOrder(arms[k][2])]],
                       other |-> InOrder(other)]
Forget      == [do |-> "forget"]                           \* return nil, nil
DropError(g) == [do |-> "drop error", body |-> g]          \* x, _ := p.parse...()

Semi  == Opt(Punct(";"))    \* p.eatSemi()
Comma == Opt(Punct(","))

(***************************************************************************)
(* Keyword tables.                                                         *)
(***************************************************************************)
\* The lexer's keywords.
builtinKeywords == {
    "var", "val", "fn", "if", "else", "elif", "unless", "while", "for", "loop",
    "in", "of", "break", "continue", "do", "repeat", "each", "guard", "defer",
    "match", "case", "default", "when", "try", "catch", "finally", "raise",
    "throw", "extends", "new", "this", "super", "abstract", "override",
    "static", "get", "set", "private", "public", "protected", "readonly",
    "interface", "implements", "trait", "typeof", "instanceof", "keyof",
    "infer", "alias", "enum", "satisfies", "import", "export", "from", "as",
    "require", "module", "namespace", "true", "false", "null", "void",
    "undefined", "range", "sleep", "have", "ifhave", "ifset", "between",
    "matches", "startsWith", "endsWith", "is", "not", "nax", "lunex", "spawn",
    "select", "channel", "component", "macro", "immutable", "freeze", "with",
    "using", "assert", "delete", "use", "struct", "Not"}

\* Keywords a function may be named by.
isAllowedKeywordAsName == {
    "get", "set", "from", "as", "of", "in", "static", "module", "namespace",
    "is", "not", "have", "override", "abstract", "readonly", "private",
    "public", "protected", "implements", "trait", "interface", "satisfies",
    "infer", "keyof", "alias", "enum", "component", "default"}

\* Keywords no parameter may be named by.
isHardReservedKeyword == {
    "val", "var", "fn", "if", "else", "elif", "while", "for", "break",
    "continue", "do", "each", "match", "case", "try", "catch", "finally",
    "raise", "throw", "true", "false", "null", "void", "undefined", "new",
    "this", "super", "extends", "typeof", "instanceof", "import", "export",
    "require", "spawn", "select", "channel", "macro", "immutable", "freeze",
    "with", "using", "assert", "delete", "use", "struct", "guard", "loop",
    "repeat", "when", "nax", "lunex", "sleep", "range", "ifhave", "ifset",
    "between", "matches", "startsWith", "endsWith", "unless", "defer"}

\* Keywords that parsePrimary takes for identifiers.
KeywordIdentifiers == {
    "assert", "repeat", "val", "from", "have", "freeze", "immutable", "module",
    "namespace", "component", "macro", "not", "is", "in", "of", "as", "get",
    "set", "static", "abstract", "override", "readonly", "interface",
    "implements", "trait", "satisfies", "alias", "enum", "require", "export",
    "import", "spawn", "select", "do", "using", "with", "delete", "guard",
    "defer"}

(***************************************************************************)
(* Programs, blocks and statements.                                        *)
(***************************************************************************)
\* The statements up to a closing brace, a stray ';' eaten before each.
Statements == Until(Punct("}"), <<Semi, If(Punct("}"), <<Break>>), Rule("Stmt")>>)

Program == Node("Program", <<While(Not(AtEOF), <<Semi, If(AtEOF, <<Break>>), Rule("Stmt")>>)>>)

Block == Node("Block", <<Eat(Punct("{")), Statements, Eat(Punct("}"))>>)

\* The statements that a keyword begins.
StatementRules == [
    var |-> "VarDecl", val |-> "VarDecl", fn |-> "FnDecl", enum |-> "EnumDecl",
    namespace |-> "Namespace", component |-> "Component", import |-> "Import",
    export |-> "Export", if |-> "If", unless |-> "Unless", while |-> "While",
    for |-> "For", each |-> "EachIn", repeat |-> "Repeat", loop |-> "Loop",
    match |-> "Match", try |-> "Try", throw |-> "Throw", raise |-> "Throw",
    break |-> "Jump", continue |-> "Jump", guard |-> "Guard", defer |-> "Defer",
    spawn |-> "Spawn", select |-> "Select", immutable |-> "Immutable",
    assert |-> "Assert", have |-> "HaveStmt", ifhave |-> "IfHave",
    ifset |-> "IfSet", delete |-> "Delete", with |-> "With",
    using |-> "Using", alias |-> "TypeAlias", interface |-> "TypeAlias",
    abstract |-> "TypeAlias", trait |-> "TypeAlias"]

ExprStmt == Node("ExprStmt", <<Rule("Assignment"), Semi>>)

\* Any p.check is one of the arms; 'let', 'const' and 'type' are no keywords of the lexer.
Stmt == Cases(<<
    << Both(Ident, Value({"return", "class"})), <<Advance, Fail>> >>,
    << Kw("use"), <<Advance, Fail>> >>,
    << Both(Kind("KEYWORD"), Value(DOMAIN StatementRules)), <<[do |-> "dispatch", rules |-> StatementRules]>> >>,
    << Both(Kw("require"), Next1({"("})), <<Rule("LunexRequire")>> >>,
    << Both(Op("@"), Not(Next1({"import"}))), <<Rule("Decorated")>> >>,
    << Both(Ident, Value({"log"})), <<Rule("Log")>> >> >>,
    <<ExprStmt>>)

Jump == Node("Jump", <<Save, Semi>>)    \* break, continue

(***************************************************************************)
(* Declarations.                                                           *)
(***************************************************************************)
TypeAnn == After(Op(":"), <<SkipTypeExpr>>)
Initialiser    == After(Op("="), <<Rule("Assignment")>>)
\* The word before the name is taken whatever it is: immutable does not look at it.
VarDecl == Node("VarDecl", <<Save,
    IfElse(Both(Kind("PUNCTUATION"), Value({"{", "["})), <<Rule("DestructurePattern")>>,
           <<Keep(Ident), Opt(Op("?"))>>),
    TypeAnn, Initialiser, Semi>>)

ArrayItem  == Cases(<< << Punct(","), <<Advance, Mark("hole")>> >>,
                       << Op("..."), <<Node("Rest", <<Advance, OptKeep(Ident), Comma>>)>> >> >>,
                    <<Node("Item", <<OptKeep(Ident), Initialiser, Comma>>)>>)
ObjectItem == IfElse(Op("..."), <<Node("Rest", <<Advance, OptKeep(Ident), Comma>>)>>,
                     <<Node("Item", <<Save, After(Op(":"), <<OptKeep(Ident)>>), Initialiser, Comma>>)>>)
\* mutant: goes on at the end of the file.
ObjectItemsPastEOF == While(Not(Punct("}")), <<ObjectItem>>)
ObjectItems == Until(Punct("}"), <<ObjectItem>>)
ArrayItems  == Until(Punct("]"), <<ArrayItem>>)
DestructurePattern ==
    IfElse(Value({"{"}), <<Node("ObjectPattern", <<Advance, ObjectItems, Opt(Punct("}"))>>)>>,
                         <<Node("ArrayPattern", <<Advance, ArrayItems, Opt(Punct("]"))>>)>>)

ReturnType == If(Either(Op("->"), Op(":")), <<Advance, SkipTypeExpr>>)

FnDecl == Node("FnDecl", <<Eat(Kw("fn")),
    If(Name, <<If(Both(Kind("KEYWORD"), Not(Value(isAllowedKeywordAsName))), <<Advance, Fail>>), Save>>),
    TypeAnn, Rule("FnParams"), ReturnType,
    IfElse(Op("=>"), <<Advance, Rule("ExprAsBlock")>>, <<Rule("Block")>>)>>)

TypedName(name) == <<name, Opt(Op("?")), TypeAnn>>
\* A rest parameter takes no default value.
Param(name) == Node("Param",
    <<IfElse(Op("..."), <<Advance, Mark("rest")>> \o TypedName(name), TypedName(name) \o <<Initialiser>>)>>)
FnParamName == Cases(<<
    << Value({"{", "["}), <<Rule("DestructurePattern")>> >>,
    << Both(Kind("KEYWORD"), Value(isHardReservedKeyword)), <<Advance, Fail>> >>,
    << Kind("KEYWORD"), <<Save>> >> >>, <<Keep(Ident)>>)
ParamList(name) == Until(Punct(")"), <<Param(name), If(Not(Punct(")")), <<Comma>>)>>)
FnParams == Node("Params", <<Eat(Punct("(")), ParamList(FnParamName), Eat(Punct(")"))>>)

EnumMember == Node("Member", <<Keep(Ident), Initialiser, Comma>>)
EnumDecl == Node("EnumDecl", <<Advance, Keep(Ident), Eat(Punct("{")),
    Until(Punct("}"), <<Semi, If(Punct("}"), <<Break>>), EnumMember>>), Opt(Punct("}"))>>)

\* No ';' is eaten between the statements of a namespace.
NamespaceDecl == Node("NamespaceDecl", <<Advance, Keep(Ident), Eat(Punct("{")),
    Until(Punct("}"), <<Rule("Stmt")>>), Opt(Punct("}"))>>)

ComponentDecl == Node("ComponentDecl", <<Advance, Keep(Ident), Rule("FnParams"), Rule("Block")>>)

\* The names between the braces of an import or an export; `local' takes the name after 'as'.
Specifiers(local) == <<
    Until(Punct("}"), <<If(Not(Name), <<Break>>),
                        Node("Specifier", <<Save, After(Kw("as"), <<local>>), Comma>>)>>),
    Opt(Punct("}"))>>
ImportSpecifiers == InOrder(<<Eat(Punct("{"))>> \o Specifiers(Keep(Ident)))
DefaultImport == <<Save, After(Punct(","), <<ImportSpecifiers>>)>>
ImportDecl == Node("ImportDecl", <<Advance,
    After(Kw("type"), <<Mark("type")>>),
    Cases(<< << Op("*"), <<Advance, Opt(Kw("as")), OptKeep(Ident)>> >>,
             << Both(Ident, Not(Next1({",", "{"}))), DefaultImport >>,
             << Punct("{"), <<ImportSpecifiers>> >>,
             << Either(Ident, Kw("default")), DefaultImport >> >>, <<>>),
    Opt(Kw("from")), Keep(Kind("STRING")), Semi>>)

ExportDecl == Node("ExportDecl", <<Advance, Cases(<<
    << Kw("default"), <<Advance, Rule("Assignment"), Semi>> >>,
    << Punct("{"), <<Advance>> \o Specifiers(Save) \o <<Semi>> >> >>,
    <<Rule("Stmt")>>)>>)

LunexRequire == Node("LunexRequire", <<Advance, Opt(Punct("(")), Opt(Kw("lunex")), Comma,
    Until(Punct(")"), <<Save, Comma>>), Opt(Punct(")")), Semi>>)

(***************************************************************************)
(* Control flow.                                                           *)
(***************************************************************************)
ElseIf == Either(Kw("elif"), Both(Kw("else"), Test(1, {"KEYWORD"}, {"if"})))
Elif   == Node("Elif", <<IfElse(Kw("elif"), <<Advance>>, <<Advance, Advance>>), Rule("Assignment"), Rule("Block")>>)
Else   == After(Kw("else"), <<Node("Else", <<Rule("Block")>>)>>)
IfStmt == Node("IfStmt", <<Advance, Rule("Assignment"), Rule("Block"), While(ElseIf, <<Elif>>), Else>>)
IfExpr == Node("IfStmt", <<Advance, Rule("Assignment"), Rule("Block"), While(ElseIf, <<Elif>>), Else>>)

UnlessStmt == Node("UnlessStmt", <<Advance, Rule("Assignment"), Rule("Block"), Else>>)
WhileStmt  == Node("WhileStmt", <<Advance, Rule("Assignment"), Rule("Block")>>)

\* Without in or of the statement ends after the name.
ForStmt == InOrder(<<Advance, IfElse(Kw("each"), <<Advance, Rule("ForEachIn")>>, <<
    Cases(<< << Kw("val"), <<Advance, Mark("const")>> >>, << Kw("var"), <<Advance>> >> >>, <<>>),
    Keep(Ident), After(Punct(","), <<Keep(Ident)>>),
    IfElse(Either(Kw("in"), Kw("of")), <<Wrap("ForOfStmt", <<Advance, Rule("Assignment"), Rule("Block")>>)>>,
           <<Wrap("ForStmt", <<>>)>>)>>)>>)
ForEachIn  == Node("EachInStmt", <<Keep(Ident), Opt(Kw("in")), Rule("Assignment"), Rule("Block")>>)
EachInStmt == Node("EachInStmt", <<Advance, Keep(Ident), Opt(Kw("in")), Rule("Assignment"), Rule("Block")>>)
RepeatStmt == Node("RepeatStmt", <<Advance, If(Not(Punct("{")), <<Rule("Assignment")>>), Rule("Block")>>)
LoopStmt   == Node("LoopStmt", <<Advance, Rule("Block")>>)

MatchCase == Node("Case", <<
    IfElse(Either(Kw("default"), Kw("else")), <<Advance, Mark("default")>>,
           <<Opt(Kw("case")), Rule("MatchPattern"), While(Op("|"), <<Advance, Rule("MatchPattern")>>),
             After(Kw("when"), <<Node("Guard", <<Rule("Assignment")>>)>>)>>),
    Opt(Op("=>")),
    IfElse(Punct("{"), <<Rule("Block")>>, <<Rule("ExprAsBlock")>>)>>)
MatchStmt == Node("MatchStmt", <<Advance, Rule("Assignment"), Eat(Punct("{")),
    Until(Punct("}"), <<Semi, If(Punct("}"), <<Break>>), MatchCase>>), Opt(Punct("}"))>>)

PatternItems(close) == Until(Punct(close), <<Rule("MatchPattern"), Comma>>)
Patterns(close) == <<Advance, PatternItems(close), Opt(Punct(close))>>
\* Whatever begins no pattern is a wildcard, and stays to be read.
MatchPattern == Cases(<<
    << Both(Kind("KEYWORD"), Value({"null", "true", "false", "undefined"})), <<Node("literal", <<Save>>)>> >>,
    << Either(Kind("NUMBER"), Kind("STRING")), <<Node("literal", <<Save>>)>> >>,
    << Op("..."), <<Node("rest", <<Advance, OptKeep(Ident)>>)>> >>,
    << Punct("["), <<Node("array", Patterns("]"))>> >>,
    << Punct("{"), <<Node("object", <<Advance,
           Until(Punct("}"), <<If(Not(Name), <<Break>>),
               Node("Prop", <<Save, After(Op(":"), <<If(Ident, <<Save>>)>>), Comma>>)>>),
           Opt(Punct("}"))>>)>> >>,
    << Both(Ident, Test(1, {"PUNCTUATION"}, {"("})), <<Node("variant", <<Save>> \o Patterns(")"))>> >>,
    << Ident, <<Node("binding", <<Save>>)>> >> >>,
    <<Mark("wildcard")>>)

Safe == Node("TrySafeExpr", <<Advance, Rule("Assignment")>>)
TryStmt == InOrder(<<Advance, IfElse(Op("?"), <<Node("ExprStmt", <<Safe, Semi>>)>>,
    <<Node("TryStmt", <<Rule("Block"),
        After(Kw("catch"), <<Node("Catch", <<
            Cases(<< << Punct("("), <<Advance, OptKeep(Ident), Opt(Punct(")"))>> >>,
                     << Ident, <<Save>> >> >>, <<>>), Rule("Block")>>)>>),
        After(Kw("finally"), <<Node("Finally", <<Rule("Block")>>)>>)>>)>>)>>)

ThrowStmt == Node("ThrowStmt", <<Advance, Rule("Assignment"), Semi>>)
LogStmt == Node("LogStmt", <<Advance,
    While(Both(Not(LineEnd), Not(Punct("}"))), <<Rule("Assignment"), IfElse(Punct(","), <<Advance>>, <<Break>>)>>),
    Semi>>)
GuardStmt == Node("GuardStmt", <<Advance, Rule("Assignment"), Opt(Kw("else")), Rule("Block")>>)
DeferStmt == Node("DeferStmt", <<Advance, Rule("Block")>>)
SpawnStmt == Node("SpawnStmt", <<Advance, Rule("Assignment"), Semi>>)
SelectCase == Node("Case", <<Opt(Kw("case")), If(Both(Ident, Next1({"="})), <<Save, Advance>>),
    Rule("Assignment"), Opt(Op("=>")), Rule("ExprAsBlock")>>)
SelectStmt == Node("SelectStmt", <<Advance, Opt(Punct("{")),
    Until(Punct("}"), <<Semi, If(Punct("}"), <<Break>>), SelectCase>>), Opt(Punct("}"))>>)
ImmutableDecl == Node("ImmutableDecl", <<Advance, Rule("VarDecl")>>)
AssertStmt == Node("AssertStmt", <<Advance, Rule("Assignment"), After(Punct(","), <<Rule("Assignment")>>), Semi>>)

\* A condition whose operand is no expression stays without one.
Mode(w, words) == << Kw(w), <<Node(w, words \o <<DropError(Rule("Postfix"))>>)>> >>
HaveCondition == Cases(<<
    Mode("in", <<Advance>>),
    << Both(Kw("not"), Next1({"in"})), <<Node("not in", <<Advance, Advance, DropError(Rule("Postfix"))>>)>> >>,
    Mode("matches", <<Advance>>),
    << Kw("is"), <<Advance, IfElse(Kw("not"), <<Node("is not", <<Advance, DropError(Rule("Postfix"))>>)>>,
                                   <<Node("is", <<DropError(Rule("Postfix"))>>)>>)>> >>,
    Mode("between", <<Advance, DropError(Rule("Postfix"))>>),
    Mode("startsWith", <<Advance>>),
    Mode("endsWith", <<Advance>>) >>, <<>>)
As == After(Kw("as"), <<OptKeep(Ident)>>)
HaveStmt == Node("HaveStmt", <<Advance, Rule("Postfix"), HaveCondition, As,
    IfElse(Kw("else"), <<Else>>, <<Rule("Block"), Else>>)>>)
IfHaveStmt == Node("IfHaveStmt", <<Advance, Rule("Postfix"), HaveCondition, As, Rule("Block"), Else>>)
IfSetStmt  == Node("IfSetStmt", <<Advance, Rule("Postfix"), As, Rule("Block"), Else>>)

DeleteStmt == Node("DeleteStmt", <<Advance, Rule("Assignment"), Semi>>)
WithStmt   == Node("WithStmt", <<Advance, Rule("Assignment"), Rule("Block")>>)
UsingDecl  == Node("UsingDecl", <<Advance, OptKeep(Ident), Opt(Op("=")), Rule("Assignment"), Semi>>)

\* Leaves no node; what follows up to a ';' or a '{' is skipped, the '{' is not.
TypeAlias == InOrder(<<Advance, While(Both(Not(LineEnd), Not(Punct("{"))), <<Advance>>), Semi>>)

Decorated == InOrder(<<While(Op("@"), <<Advance, Rule("Postfix")>>),
    IfElse(Both(Kind("KEYWORD"), Value({"alias", "interface", "abstract", "trait"})),
           <<Rule("TypeAlias"), Forget>>, <<Wrap("DecoratedExpr", <<Rule("Stmt")>>)>>)>>)

\* The body of a match or select case: one of five statements, or an expression.
ExprAsBlock == Node("Block", <<IfElse(
    Either(Both(Kind("KEYWORD"), Value({"assert", "throw", "raise", "break", "continue"})),
           Both(Ident, Value({"log"}))), <<Rule("Stmt")>>, <<ExprStmt>>)>>)

(***************************************************************************)
(* Expressions, from the operators that bind least to those that bind most.*)
(***************************************************************************)
\* left := next(); for p.check(ops) { left = a node of left, the operator and next() }
LeftAssoc(next, ops, type) ==
    [do |-> "left", next |-> next, test |-> ops, body |-> Wrap(type, <<Save, Rule(next)>>)]
Ops(ws) == Both(Kind("OPERATOR"), Value(ws))

assignOps == {"=", "+=", "-=", "*=", "/=", "%=", "**=", "&&=", "||=", "??=", "<<=", ">>="}
Assignment == InOrder(<<Rule("Ternary"), If(Ops(assignOps), <<Wrap("AssignExpr", <<Save, Rule("Assignment")>>)>>)>>)

Ternary == InOrder(<<Rule("Pipeline"), If(Both(Op("?"), Not(Next1({".", "?"}))),
    <<Wrap("TernaryExpr", <<Advance, Rule("Assignment"), Opt(Op(":")), Rule("Assignment")>>)>>)>>)

Pipeline     == LeftAssoc("NullCoalesce", Op("|>"), "PipelineExpr")
NullCoalesce == LeftAssoc("LogicalOr", Op("??"), "BinaryExpr")
\* An operator that a name may stand for; the node has the operator, whichever was written.
OrWord(next, op, word) ==
    [do |-> "left", next |-> next, test |-> Either(Op(op), Both(Ident, Value({word}))),
     body |-> Wrap("BinaryExpr", <<Advance, Mark(op), Rule(next)>>)]
LogicalOr    == OrWord("LogicalAnd", "||", "or")
LogicalAnd   == OrWord("BitOr", "&&", "and")
BitOr        == LeftAssoc("BitXor", Op("|"), "BinaryExpr")
BitXor       == LeftAssoc("BitAnd", Op("^"), "BinaryExpr")
BitAnd       == LeftAssoc("Equality", Op("&"), "BinaryExpr")
Equality     == LeftAssoc("Relational", Ops({"===", "!==", "==", "!="}), "BinaryExpr")
Relational   == LeftAssoc("Shift", Both(Either(Kind("OPERATOR"), Kind("KEYWORD")),
                                        Value({"<", ">", "<=", ">=", "instanceof", "in"})), "BinaryExpr")
Shift        == LeftAssoc("Additive", Ops({"<<", ">>", ">>>"}), "BinaryExpr")
Additive     == LeftAssoc("Multiplicative", Ops({"+", "-"}), "BinaryExpr")
Multiplicative == LeftAssoc("Exponentiation", Ops({"*", "/", "%"}), "BinaryExpr")

\* mutant: ** groups to the left.
LeftExponentiation == LeftAssoc("Unary", Op("**"), "BinaryExpr")
Exponentiation == InOrder(<<Rule("Unary"), If(Op("**"), <<Wrap("BinaryExpr", <<Save, Rule("Exponentiation")>>)>>)>>)

Prefix(type, keep) == <<Node(type, <<keep, Rule("Unary")>>)>>
Unary == Cases(<<
    << Ops({"!", "-", "+", "~", "++", "--"}), Prefix("UnaryExpr", Save) >>,
    << Op("..."), Prefix("SpreadExpr", Advance) >>,
    << Kw("typeof"), Prefix("TypeofExpr", Advance) >>,
    << Kw("void"), Prefix("VoidExpr", Advance) >>,
    << Kw("delete"), Prefix("DeleteExpr", Advance) >>,
    << Kw("not"), Prefix("NotExpr", Advance) >> >>, <<Rule("Postfix")>>)

\* A '.' that no name follows is dropped.
Member(type) == <<Advance, If(Not(Name), <<Break>>), Wrap(type, <<Save>>)>>
PostfixChain == While(Always, <<Cases(<<
    << Punct("("), <<Wrap("CallExpr", <<Advance, Rule("ArgList")>>)>> >>,
    << Both(Op("?."), Next1({"("})), <<Wrap("OptionalCall", <<Advance, Advance, Rule("ArgList")>>)>> >>,
    << Punct("["), <<Wrap("IndexExpr", <<Advance, Rule("Assignment"), Opt(Punct("]"))>>)>> >>,
    << Both(Op("?."), Next1({"["})), <<Wrap("OptionalIndex", <<Advance, Advance, Rule("Assignment"), Opt(Punct("]"))>>)>> >>,
    << Both(Punct("."), Not(Next1({"."}))), Member("MemberExpr") >>,
    << Op("?."), Member("OptionalMember") >>,
    << Ops({"++", "--"}), <<Wrap("PostfixExpr", <<Save>>)>> >> >>,
    <<Break>>)>>)
Postfix == InOrder(<<Rule("Primary"), PostfixChain>>)

ArgList == Node("Args", <<Until(Punct(")"), <<Rule("Assignment"), If(Not(Punct(")")), <<Comma>>)>>), Opt(Punct(")"))>>)

Literal(type) == <<Node(type, <<Save>>)>>
ArrowBodyOrBlock == IfElse(Punct("{"), <<Rule("Block")>>, <<Rule("ArrowBody")>>)
\* An empty pair of parentheses is an empty array.
Parenthesised == <<Advance, Cases(<<
    << Punct(")"), <<Advance, IfElse(Op("=>"), <<Node("ArrowFn", <<Advance, ArrowBodyOrBlock>>)>>,
                                     <<Node("ArrayLit", <<>>)>>)>> >>,
    << Arrow, <<Node("ArrowFn", <<Rule("ArrowParams"), Opt(Op("=>")), ArrowBodyOrBlock>>)>> >> >>,
    <<Rule("Assignment"),
      If(Punct(","), <<Wrap("SequenceExpr", <<While(Punct(","), <<Advance, Rule("Assignment")>>)>>)>>),
      Opt(Punct(")"))>>)>>
Primary == Cases(<<
    << Kw("fn"), <<Rule("FnExpr")>> >>,
    << Kw("if"), <<Rule("IfExpr")>> >>,
    << Kw("new"), <<Rule("New")>> >>,
    << Kw("this"), Literal("ThisExpr") >>,
    << Kw("super"), Literal("SuperExpr") >>,
    << Both(Kind("KEYWORD"), Value({"true", "false"})), Literal("BoolLit") >>,
    << Kw("null"), Literal("NullLit") >>,
    << Kw("undefined"), Literal("UndefinedLit") >>,
    << Kw("void"), Prefix("VoidExpr", Advance) >>,
    << Kw("Not"), <<Node("NotExpr", <<Advance, Rule("Primary")>>)>> >>,
    << Kw("range"), <<Node("RangeExpr", <<Advance, Opt(Punct("(")), Rule("ArgList")>>)>> >>,
    << Kw("sleep"), <<Node("SleepExpr", <<Advance, Opt(Punct("(")), Rule("Assignment"), Opt(Punct(")"))>>)>> >>,
    << Kw("try"), <<Advance, IfElse(Op("?"), <<Safe>>, <<Fail>>)>> >>,
    << Kw("typeof"), Prefix("TypeofExpr", Advance) >>,
    << Kw("channel"), <<Node("ChannelExpr", <<Advance, Opt(Punct("(")), Opt(Punct(")"))>>)>> >>,
    << Kw("match"), <<Rule("Match")>> >>,
    << Kw("nax"), <<Node("NaxImportExpr", <<Advance, Opt(Punct("(")), Keep(Kind("STRING")), Opt(Punct(")"))>>)>> >>,
    << Both(Kind("KEYWORD"), Value(KeywordIdentifiers)), Literal("Identifier") >>,
    << Kind("REGEX"), Literal("RegexLit") >>,
    << Both(Ident, Test(1, {"OPERATOR"}, {"=>"})), <<Node("ArrowFn",
           <<Node("Params", <<Node("Param", <<Save>>)>>), Advance, ArrowBodyOrBlock>>)>> >>,
    << Ident, Literal("Identifier") >>,
    << Kind("NUMBER"), Literal("NumberLit") >>,
    << Kind("STRING"), Literal("StringLit") >>,
    << Kind("TEMPLATE"), Literal("TemplateLit") >>,
    << Punct("("), Parenthesised >>,
    << Punct("["), <<Rule("ArrayLit")>> >>,
    << Punct("{"), <<Rule("ObjectLit")>> >>,
    << Both(Op("@"), Next1({"import", "fimport"})), <<Rule("AtImport")>> >>,
    << Op("@"), <<Rule("Decorated")>> >>,
    << Kw("struct"), <<Rule("StructLit")>> >> >>,
    <<Fail>>)

AtImport == Node("AtImportExpr", <<Advance,
    IfElse(Either(Kind("KEYWORD"), Ident), <<Save>>, <<Fail>>),
    Eat(Punct("(")), Keep(Kind("STRING")), Eat(Punct(")"))>>)
StructLit == Node("StructLit", <<Advance, Eat(Punct("{")), Statements, Eat(Punct("}"))>>)
FnExpr == Node("FnExpr", <<Advance, If(Ident, <<Save>>), Rule("FnParams"), ReturnType, Rule("Block")>>)
NewExpr == Node("NewExpr", <<Advance, Rule("Primary"),
    While(Both(Punct("."), Not(Next1({"."}))), <<Advance, Wrap("MemberExpr", <<Save>>)>>),
    After(Punct("("), <<Rule("ArgList")>>)>>)

ArrayLit == Node("ArrayLit", <<Advance, Until(Punct("]"),
    <<IfElse(Punct(","), <<Advance, Mark("hole")>>,
             <<Rule("Assignment"), If(Not(Punct("]")), <<Comma>>)>>)>>), Opt(Punct("]"))>>)

Key == IfElse(Punct("["), <<Advance, Rule("Assignment"), Opt(Punct("]"))>>, <<Save>>)
Method == <<Rule("FnParams"), Rule("Block")>>
IsKey == Either(Punct("["), Either(Name, Either(Kind("STRING"), Kind("NUMBER"))))
ObjectProp == <<IfElse(Op("..."), <<Node("spread", <<Advance, Rule("Assignment"), Comma>>)>>,
    <<If(Not(IsKey), <<Break>>),
      IfElse(Both(Value({"get", "set"}), NextIs("IDENTIFIER")), <<Node("accessor", <<Save, Save>> \o Method \o <<Comma>>)>>,
      <<Node("Prop", <<Key, Cases(<< << Punct("("), Method >>, << Op(":"), <<Advance, Rule("Assignment")>> >> >>, <<>>),
                       Comma>>)>>)>>)>>
ObjectLit == Node("ObjectLit", <<Advance, Until(Punct("}"), ObjectProp), Eat(Punct("}"))>>)

ArrowBody == IfElse(
    Either(Both(Kind("KEYWORD"), Value({"if", "unless", "throw", "raise", "var", "val"})), Both(Ident, Value({"log"}))),
    <<Rule("Stmt")>>, <<Rule("Assignment")>>)
\* Whatever is no name is a parameter "_", and stays to be read.
ArrowParamItems == ParamList(IfElse(Ident, <<Save>>, <<Mark("_")>>))
ArrowParams == Node("Params", <<ArrowParamItems, Opt(Punct(")"))>>)

(***************************************************************************)
(* The parse functions by the names the rules call them.                   *)
(***************************************************************************)
Rules == [
    Program |-> Program, Block |-> Block, Stmt |-> Stmt, VarDecl |-> VarDecl,
    DestructurePattern |-> DestructurePattern, FnDecl |-> FnDecl, FnParams |-> FnParams,
    EnumDecl |-> EnumDecl, Namespace |-> NamespaceDecl, Component |-> ComponentDecl,
    Import |-> ImportDecl, Export |-> ExportDecl, LunexRequire |-> LunexRequire,
    If |-> IfStmt, IfExpr |-> IfExpr, Unless |-> UnlessStmt, While |-> WhileStmt,
    For |-> ForStmt, ForEachIn |-> ForEachIn, EachIn |-> EachInStmt, Repeat |-> RepeatStmt,
    Loop |-> LoopStmt, Match |-> MatchStmt, MatchPattern |-> MatchPattern, Try |-> TryStmt,
    Throw |-> ThrowStmt, Jump |-> Jump, Log |-> LogStmt, Guard |-> GuardStmt,
    Defer |-> DeferStmt, Spawn |-> SpawnStmt, Select |-> SelectStmt,
    Immutable |-> ImmutableDecl, Assert |-> AssertStmt, HaveStmt |-> HaveStmt,
    IfHave |-> IfHaveStmt, IfSet |-> IfSetStmt, Delete |-> DeleteStmt, With |-> WithStmt,
    Using |-> UsingDecl, TypeAlias |-> TypeAlias, Decorated |-> Decorated,
    ExprAsBlock |-> ExprAsBlock, Assignment |-> Assignment, Ternary |-> Ternary,
    Pipeline |-> Pipeline, NullCoalesce |-> NullCoalesce, LogicalOr |-> LogicalOr,
    LogicalAnd |-> LogicalAnd, BitOr |-> BitOr, BitXor |-> BitXor, BitAnd |-> BitAnd,
    Equality |-> Equality, Relational |-> Relational, Shift |-> Shift, Additive |-> Additive,
    Multiplicative |-> Multiplicative, Exponentiation |-> Exponentiation, Unary |-> Unary,
    Postfix |-> Postfix, ArgList |-> ArgList, Primary |-> Primary, AtImport |-> AtImport,
    StructLit |-> StructLit, FnExpr |-> FnExpr, New |-> NewExpr, ArrayLit |-> ArrayLit,
    ObjectLit |-> ObjectLit, ArrowBody |-> ArrowBody, ArrowParams |-> ArrowParams]
=============================================================================
