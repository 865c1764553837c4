------------------------------- MODULE Parser -------------------------------
(***************************************************************************)
(* The recursive-descent parser of internal/parser/parser.go: Step applies *)
(* the rules of Grammar.tla to a sequence of tokens, with the call stack   *)
(* of the parse functions written out.                                     *)
(*                                                                         *)
(* A state of the parser has the position of the next token (pos), the     *)
(* nodes and tokens that the running function has kept (kept) and what     *)
(* remains to be done, by it and by its callers (todo).  The outcome is    *)
(* "running" until it is "ok", "fail" (a syntax error) or "endless": an    *)
(* iteration of a loop consumed no token; whether such a loop goes on      *)
(* depends on the position only, so that it never ends.                    *)
(***************************************************************************)
EXTENDS Grammar, Integers

\* p.peek: beyond the last token there is the end of file.
peek(tokens, i) == IF i \in DOMAIN tokens THEN tokens[i] ELSE <<"EOF", "">>

\* p.advance: at the end of the file the position stays.
advance(tokens, i) == IF i \in DOMAIN tokens THEN i + 1 ELSE i

\* Is the parenthesis opened before token i closed right before a =>?
lookAheadArrow(tokens, i) ==
    LET val(k) == tokens[k][2]
        depth[k \in (i - 1)..Len(tokens)] ==
            IF k < i THEN 0
            ELSE depth[k - 1] + CASE val(k) \in {"(", "["} -> 1 [] val(k) \in {")", "]"} -> -1 [] OTHER -> 0
        closing == {k \in i..Len(tokens) : depth[k] < 0}
        first == CHOOSE k \in closing : \A n \in closing : k <= n
    IN  closing # {} /\ peek(tokens, first + 1) = <<"OPERATOR", "=>">>

RECURSIVE Holds(_, _, _)
Holds(a, tokens, i) ==
    CASE a.is = "token" -> LET t == peek(tokens, i + a.ahead)
                           IN  (a.types = {} \/ t[1] \in a.types) /\ (a.values = {} \/ t[2] \in a.values)
      [] a.is = "not" -> ~Holds(a.a, tokens, i)
      [] a.is = "and" -> Holds(a.a, tokens, i) /\ Holds(a.b, tokens, i)
      [] a.is = "or" -> Holds(a.a, tokens, i) \/ Holds(a.b, tokens, i)
      [] a.is = "arrow" -> lookAheadArrow(tokens, i)
      [] a.is = "always" -> TRUE

\* The first number that is in the non-empty set S.
Least(S) == CHOOSE k \in S : \A n \in S : k <= n

(***************************************************************************)
(* One step of the parser.  The steps a function calls are put before what *)
(* remains, and after them the step that takes up what they return.        *)
(***************************************************************************)
Stopped(m, outcome) == [m EXCEPT !.outcome = outcome]

\* An error is returned by every function, up to one that drops it.
Fails(m) ==
    LET catchers == {k \in DOMAIN m.todo : m.todo[k].do = "dropped"}
    IN  IF catchers = {} THEN Stopped(m, "fail")
        ELSE [m EXCEPT !.kept = m.todo[Least(catchers)].saved,
                       !.todo = SubSeq(m.todo, Least(catchers) + 1, Len(m.todo))]

\* skipTypeExpr: the brackets opened before the token are depth deep.
SkipType(g, tokens, m, rest) ==
    LET v == peek(tokens, m.pos)[2]
        depth == g.depth + CASE v \in {"<", "[", "("} -> 1 [] v \in {">", "]", ")"} -> -1 [] OTHER -> 0
    IN  IF \/ Holds(AtEOF, tokens, m.pos) \/ depth < 0
           \/ depth = 0 /\ v \in {"=", ",", "{", "}", ";", ")", "=>"}
        THEN [m EXCEPT !.todo = rest]
        ELSE [m EXCEPT !.pos = advance(tokens, m.pos), !.todo = <<[g EXCEPT !.depth = depth]>> \o rest]

Step(tokens, m) ==
    LET g     == Head(m.todo)
        rest  == Tail(m.todo)
        met   == Holds(g.test, tokens, m.pos)
        after == advance(tokens, m.pos)
        token == <<peek(tokens, m.pos)[2]>>
        \* On to position i, with the nodes ns kept.
        On(i, ns) == [m EXCEPT !.pos = i, !.kept = ns, !.todo = rest]
        With(x)   == Append(m.kept, x)
        \* The steps gs come next.
        First(gs) == [m EXCEPT !.todo = gs \o rest]
        \* So do the steps gs, on nodes of their own.
        Call(gs)  == [m EXCEPT !.todo = gs \o rest, !.kept = <<>>]
    IN
    CASE g.do = "rule" -> Call(<<Rules[g.rule], [do |-> "returned", saved |-> m.kept]>>)
      [] g.do = "returned" -> On(m.pos, g.saved \o m.kept)
      [] g.do = "left" -> First(<<Rule(g.next), While(g.test, <<g.body>>)>>)
      [] g.do = "in order" -> First(g.steps)
      [] g.do = "cases" -> LET holds == {k \in DOMAIN g.arms : Holds(g.arms[k].test, tokens, m.pos)}
                           IN  First(<<IF holds = {} THEN g.other ELSE g.arms[Least(holds)].body>>)
      [] g.do = "if" -> First(<<IF met THEN g.then ELSE g.else>>)
      [] g.do = "dispatch" -> First(<<Rule(g.rules[token[1]])>>)
      [] g.do = "loop" -> IF ~met THEN First(<<>>)
                          ELSE First(<<g.body, [do |-> "again", loop |-> g, from |-> m.pos]>>)
      [] g.do = "again" -> IF m.pos = g.from THEN Stopped(m, "endless") ELSE First(<<g.loop>>)
      [] g.do = "break" -> LET loop == Least({k \in DOMAIN rest : rest[k].do = "again"})
                           IN  [m EXCEPT !.todo = SubSeq(rest, loop + 1, Len(rest))]
      [] g.do = "node" -> Call(<<g.body, [do |-> "made", type |-> g.type, saved |-> m.kept]>>)
      [] g.do = "made" -> On(m.pos, Append(g.saved, <<g.type>> \o m.kept))
      [] g.do = "wrap" -> First(<<g.body, [do |-> "made", type |-> g.type, saved |-> <<>>]>>)
      [] g.do = "eat" -> IF ~met THEN Fails(m) ELSE On(after, IF g.keep THEN With(token) ELSE m.kept)
      [] g.do = "opt" -> On(IF met THEN after ELSE m.pos, m.kept)
      [] g.do = "opt keep" -> On(IF met THEN after ELSE m.pos, With(token))
      [] g.do = "advance" -> On(after, IF g.keep THEN With(token) ELSE m.kept)
      [] g.do = "mark" -> On(m.pos, With(<<g.mark>>))
      [] g.do = "forget" -> On(m.pos, <<>>)
      [] g.do = "fail" -> Fails(m)
      [] g.do = "drop error" -> Call(<<g.body, [do |-> "dropped", saved |-> m.kept]>>)
      [] g.do = "dropped" -> On(m.pos, g.saved \o m.kept)
      [] g.do = "skip type" -> SkipType(g, tokens, m, rest)

\* 2^n steps, or fewer when the parser stops before.
RECURSIVE Steps(_, _, _)
Steps(n, tokens, m) ==
    IF m.outcome # "running" THEN m
    ELSE IF m.todo = <<>> THEN Stopped(m, "ok")
    ELSE IF n = 0 THEN Step(tokens, m)
    ELSE LET half == Steps(n - 1, tokens, m) IN Steps(n - 1, tokens, half)

\* Any program of the sizes that are run parses in 2^Fuel steps.
Fuel == 13

\* Where the parser stops, and what it returns.
Run(tokens) == Steps(Fuel, tokens, [outcome |-> "running", pos |-> 1, kept |-> <<>>, todo |-> <<Rule("Program")>>])
Parse(tokens) == LET m == Run(tokens)
                 IN  [outcome |-> m.outcome, tree |-> IF m.outcome = "ok" THEN m.kept[1] ELSE <<>>]
=============================================================================
