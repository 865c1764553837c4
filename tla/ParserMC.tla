------------------------------ MODULE ParserMC ------------------------------
(***************************************************************************)
(* The parser on small inputs of two kinds: programs written from syntax   *)
(* trees, one more statement at a time, and sequences of tokens that need  *)
(* not be programs, one more token at a time.                              *)
(***************************************************************************)
EXTENDS Parser, FiniteSets

CONSTANTS
    MaxStatements,  \* statements of a written program
    MaxTokens       \* tokens after a family's opening ones

VARIABLES
    program,   \* the statements written, as trees
    family,    \* the kind of token sequence tried, or "trees"
    words      \* the tokens tried after the opening ones of the family
vars == <<program, family, words>>

W == INSTANCE Writer

Operators == {"=", "+=", "+", "-", "*", "**", "==", "<", "<<", "?", ":", "??", "||", "&&", "&", "^", "|", "|>", "=>",
              "!", "?.", "@", "...", "++", "->"}
Punctuation == {"(", ")", "[", "]", "{", "}", ",", ";", "."}
\* The token of a word: words in quotes are strings.
WordToken(w) ==
    << CASE w \in builtinKeywords -> "KEYWORD" [] w \in Operators -> "OPERATOR" [] w \in Punctuation -> "PUNCTUATION"
         [] w \in {"1", "2"} -> "NUMBER" [] w = "'s'" -> "STRING" [] OTHER -> "IDENTIFIER", w>>
Tokens(ws) == [k \in DOMAIN ws |-> WordToken(ws[k])]

(***************************************************************************)
(* Trees.                                                                  *)
(***************************************************************************)
Id(x) == <<"Identifier", <<x>>>>
a == Id("a")
b == Id("b")
One == <<"NumberLit", <<"1">>>>
Do(e) == <<"Block", <<"ExprStmt", e>>>>
Call(x) == <<"CallExpr", Id("recv"), <<"Args", x>>>>
P(x) == <<"Params", <<"Param", <<x>>>>>>

BinaryOps == {"??", "||", "&&", "|", "^", "&", "==", "<", "in", "<<", "+", "-", "*", "**"}
\* The expressions with x and y for operands.
Forms(x, y) ==
    {<<"BinaryExpr", x, <<op>>, y>> : op \in BinaryOps} \cup
    {<<type, x>> : type \in {"SpreadExpr", "TypeofExpr", "NotExpr", "TrySafeExpr", "NewExpr"}} \cup
    {<<type, x, y>> : type \in {"IndexExpr", "OptionalIndex", "SequenceExpr"}} \cup
    {<<type, x, <<"p">>>> : type \in {"MemberExpr", "OptionalMember"}} \cup
    {<<type, x, <<"Args", y, One>>>> : type \in {"CallExpr", "OptionalCall", "NewExpr"}} \cup
    {<<"PipelineExpr", x, <<"|>">>, y>>, <<"AssignExpr", x, <<"=">>, y>>, <<"TernaryExpr", x, y, x>>,
     <<"UnaryExpr", <<"-">>, x>>, <<"UnaryExpr", <<"++">>, x>>, <<"PostfixExpr", x, <<"++">>>>,
     <<"RangeExpr", <<"Args", x, y>>>>, <<"ArrayLit", x, <<"hole">>, y>>,
     <<"ObjectLit", <<"Prop", <<"p">>, x>>, <<"spread", y>>, <<"Prop", <<"q">>>>, <<"Prop", <<"m">>, P("c"), Do(x)>>,
                    <<"accessor", <<"get">>, <<"g">>, <<"Params">>, Do(y)>>>>,
     <<"ArrowFn", P("c"), x>>, <<"ArrowFn", P("c"), Do(x)>>,
     <<"ArrowFn", <<"Params", <<"Param", <<"c">>, x>>, <<"Param", <<"rest">>, <<"d">>>>>>, y>>,
     <<"FnExpr", P("c"), Do(x)>>, <<"IfStmt", x, Do(y), <<"Else", Do(x)>>>>,
     <<"MatchStmt", x, <<"Case", <<"literal", <<"1">>>>, <<"binding", <<"c">>>>, Do(y)>>>>,
     <<"StructLit", <<"VarDecl", <<"val">>, <<"p">>, x>>>>}
SmallExprs == {a} \cup Forms(a, b)
Exprs == Forms(a, b) \cup UNION {Forms(x, b) \cup Forms(a, x) : x \in Forms(a, b)}

\* The statements about the expression x.
StatementForms(x) ==
    LET body == Do(x)
        else == <<"Else", Do(b)>>
        guarded == <<"Case", <<"array", <<"binding", <<"c">>>>, <<"rest", <<"d">>>>>>,
                     <<"variant", <<"V">>, <<"literal", <<"null">>>>>>, <<"Guard", x>>, body>>
        object == <<"Case", <<"object", <<"Prop", <<"p">>>>, <<"Prop", <<"q">>, <<"c">>>>>>, Do(b)>>
        otherwise == <<"Case", <<"default">>, body>>
    IN
    {<<"ExprStmt", x>>, <<"VarDecl", <<"val">>, <<"c">>, x>>, <<"VarDecl", <<"var">>, <<"c">>>>,
     <<"VarDecl", <<"val">>, <<"ArrayPattern", <<"Item", <<"c">>>>, <<"hole">>, <<"Item", <<"d">>, One>>,
                                               <<"Rest", <<"e">>>>>>, x>>,
     <<"VarDecl", <<"var">>, <<"ObjectPattern", <<"Item", <<"c">>>>, <<"Item", <<"d">>, <<"e">>>>, <<"Rest", <<"f">>>>>>, x>>,
     <<"ImmutableDecl", <<"VarDecl", <<"val">>, <<"c">>, x>>>>,
     <<"FnDecl", <<"f">>, P("c"), body>>, <<"EnumDecl", <<"E">>, <<"Member", <<"A">>>>, <<"Member", <<"B">>>>>>,
     <<"NamespaceDecl", <<"n">>, <<"ExprStmt", x>>, <<"ExprStmt", <<"SequenceExpr", a, b>>>>>>,
     <<"ImportDecl", <<"Specifier", <<"c">>>>, <<"Specifier", <<"d">>, <<"e">>>>, <<"'s'">>>>,
     <<"ExportDecl", <<"VarDecl", <<"val">>, <<"c">>, x>>>>,
     <<"IfStmt", x, body>>, <<"IfStmt", x, body, <<"Elif", x, Do(b)>>, else>>, <<"UnlessStmt", x, body, else>>,
     <<"WhileStmt", x, body>>, <<"ForOfStmt", <<"c">>, x, body>>, <<"ForOfStmt", <<"c">>, <<"d">>, x, body>>,
     <<"EachInStmt", <<"c">>, x, body>>, <<"RepeatStmt", x, body>>, <<"LoopStmt", <<"Block", <<"Jump", <<"break">>>>>>>>,
     <<"MatchStmt", x, guarded, object, otherwise>>,
     <<"TryStmt", body, <<"Catch", <<"c">>, Do(b)>>, <<"Finally", body>>>>, <<"TryStmt", body, <<"Catch", body>>>>,
     <<"LogStmt">>, <<"LogStmt", x, b>>, <<"ThrowStmt", x>>, <<"SpawnStmt", x>>, <<"DeleteStmt", x>>,
     <<"AssertStmt", x, b>>, <<"UsingDecl", <<"c">>, x>>, <<"GuardStmt", x, body>>, <<"DeferStmt", body>>, <<"WithStmt", x, body>>,
     <<"SelectStmt", <<"Case", <<"c">>, Call(x), <<"Block", <<"ThrowStmt", b>>>>>>, <<"Case", <<"d">>, Call(b), Do(x)>>>>,
     <<"HaveStmt", x, <<"in", b>>, <<"c">>, body, else>>, <<"HaveStmt", x, <<"is not", b>>, else>>,
     <<"IfHaveStmt", x, <<"between", a, b>>, body>>, <<"IfHaveStmt", x, <<"not in", b>>, <<"c">>, body>>,
     <<"IfSetStmt", x, <<"c">>, body, else>>}
\* Statements that may end in a name or in an arrow function, and others that may begin with a parenthesis.
Firsts == UNION {StatementForms(x) : x \in {a, <<"ArrowFn", P("c"), b>>}}
\* or with one of the words for an operator.
Seconds == StatementForms(a) \cup {<<"ExprStmt", <<"SequenceExpr", a, b>>>>, <<"ExprStmt", Id("or")>>,
                                  <<"ExprStmt", <<"AssignExpr", Id("and"), <<"=">>, a>>>>}

(***************************************************************************)
(* Token sequences: what they open with, and what follows.                 *)
(***************************************************************************)
Families == [
    arrow   |-> [opening |-> <<"a", "=", "(">>, then |-> {"(", ")", ",", "a", "=>", "...", "=", "1"}],
    pattern |-> [opening |-> <<"val", "[">>, then |-> {"]", ",", "a", "...", "=", "1", "{", "}"}],
    object  |-> [opening |-> <<"val", "{">>, then |-> {"}", ",", "a", "...", "=", ":", "1", "["}],
    case    |-> [opening |-> <<"match", "a", "{", "case">>, then |-> {"[", "]", "a", "(", ")", "-", "=>", "}"}],
    fn      |-> [opening |-> <<"fn", "f", "(">>, then |-> {")", "a", ":", ",", "{", "}", "=", "..."}],
    names   |-> [opening |-> <<"import">>, then |-> {"{", "}", "a", ",", "as", "from", "'s'", "*"}],
    members |-> [opening |-> <<"{">>, then |-> {"}", "a", ":", "[", "]", "get", "(", ","}],
    chain   |-> [opening |-> <<"new", "a">>, then |-> {".", "?.", "(", ")", "[", "]", "b", "++"}],
    blocks  |-> [opening |-> <<>>, then |-> {"struct", "enum", "namespace", "a", "{", "}", ";", "alias"}],
    decor   |-> [opening |-> <<"@">>, then |-> {"a", "val", "(", ")", "alias", "{", "}", "import"}],
    require |-> [opening |-> <<"require", "(">>, then |-> {"lunex", ",", ")", "a", "'s'", ";", "require", "("}],
    types   |-> [opening |-> <<"val", "a", ":">>, then |-> {"<", ">", "(", ")", "=", "{", "a", ";"}],
    values  |-> [opening |-> <<>>, then |-> {"sleep", "channel", "try", "?", "(", ")", "nax", "'s'"}],
    jumps   |-> [opening |-> <<"select">>, then |-> {"{", "}", "case", "a", "=", "=>", ";", "log"}]]

Init == program = <<>> /\ family = "trees" /\ words = <<>>

\* One more statement of a written program.
AddStatement ==
    /\ family = "trees" /\ Len(program) < MaxStatements
    /\ \/ program = <<>> /\ program' \in {<<s>> : s \in Firsts \cup {<<"ExprStmt", x>> : x \in Exprs}}
       \/ program # <<>> /\ program[1] \in Firsts /\ \E s \in Seconds : program' = Append(program, s)
    /\ UNCHANGED <<family, words>>

\* A token sequence of one of the families.
ChooseFamily == /\ family = "trees" /\ program = <<>>
                /\ family' \in DOMAIN Families
                /\ UNCHANGED <<program, words>>
AddToken == /\ family # "trees" /\ Len(words) < MaxTokens
            /\ \E w \in Families[family].then : words' = Append(words, w)
            /\ UNCHANGED <<program, family>>
Next == AddStatement \/ ChooseFamily \/ AddToken
Spec == Init /\ [][Next]_vars

(***************************************************************************)
(* Properties.                                                             *)
(***************************************************************************)
\* A program that is written from its statements is parsed to these: each operator takes the operands it binds, and
\* each statement ends where the next begins, with || and && written so or in words.
ParsesAsWritten ==
    family = "trees" =>
        LET tree == <<"Program">> \o program
            written == W!Program(tree, 2)
        IN  \A ws \in {written, W!InWords(written)} : Parse(Tokens(ws)) = [outcome |-> "ok", tree |-> tree]

Input == Tokens(Families[family].opening \o words)

\* Array patterns, the patterns of a case and the parameters of an arrow function: what begins no item of theirs is
\* left where it is, and the loop goes on for ever.  No other loop of the parser may: every other sequence of tokens
\* is a program or a syntax error.
LoopsThatStay == {ArrayItems, PatternItems("]"), PatternItems(")"), ArrowParamItems}
OtherLoopsEnd == family # "trees" =>
    LET m == Run(Input) IN m.outcome = "endless" => Head(m.todo).loop \in LoopsThatStay

\* In what the parser accepts every brace is closed (docs/errors.md, E0052). It does not hold of the braces that
\* parseDestructurePattern and others eat and do not ask for (parser.go:508).
BracesClosed == family # "trees" =>
    LET Of(w) == {k \in DOMAIN Input : Input[k] = <<"PUNCTUATION", w>>}
    IN  Parse(Input).outcome = "ok" => Cardinality(Of("{")) = Cardinality(Of("}"))
=============================================================================
