----------------------------- MODULE Operators -----------------------------
(***************************************************************************)
(* The operators of expressions (runtime/eval.go).  They are written twice:*)
(* evalBinary is `x op y', evalBinaryValues is the `x op= y' that assigns, *)
(* and `x++' is a third way to add.                                        *)
(*                                                                         *)
(* A value is its type, its text and its number.  What Go's floating-point *)
(* and 64-bit operations give for two numbers is a term, <<op, x, y>>: the *)
(* operators differ in which of them they apply, and to what.              *)
(***************************************************************************)
EXTENDS Integers, Sequences, FiniteSets, TLC

CONSTANTS
    Integral,       \* the numbers of the values
    Collation       \* their texts, in Go's order of strings

NotANumber == <<>>
Zero == <<0>>
One == <<1>>

Value(tag, text, num) == [tag |-> tag, text |-> text, num |-> num]
UndefinedValue == Value("undefined", "undefined", NotANumber)
NullValue == Value("null", "null", Zero)
Boolean(b) == IF b THEN Value("boolean", "true", One) ELSE Value("boolean", "false", Zero)
NumberVal(num) == Value("number", "", num)
ObjectValue == Value("object", "[object Object]", NotANumber)

(* A text is a number, or blank, or neither; of what a concatenation makes,  *)
(* only the text is used.                                                    *)
StringVal(text) ==
    Value("string", text, IF text = "" THEN Zero ELSE IF text = "1" THEN One ELSE NotANumber)

AllValues ==
    {UndefinedValue, NullValue, Boolean(TRUE), Boolean(FALSE), ObjectValue, NumberVal(NotANumber)}
    \cup {NumberVal(<<n>>) : n \in Integral} \cup {StringVal(Collation[i]) : i \in DOMAIN Collation}

IsTruthy(v) ==
    CASE v.tag \in {"null", "undefined"} -> FALSE
      [] v.tag = "boolean" -> v.text = "true"
      [] v.tag = "number" -> v.num \notin {Zero, NotANumber}
      [] v.tag = "string" -> v.text # ""
      [] OTHER -> TRUE

IsNullish(v) == v.tag \in {"null", "undefined"}
Same(x, y) == x = y /\ x # NotANumber

Equals(v, w) ==
    IF v.tag # w.tag
    THEN \/ IsNullish(v) /\ IsNullish(w)
         \/ {v.tag, w.tag} = {"number", "string"} /\ Same(v.num, w.num)
    ELSE \/ IsNullish(v)
         \/ v.tag = "number" /\ Same(v.num, w.num)
         \/ v.tag \notin {"null", "undefined", "number"} /\ v.text = w.text

StrictEquals(v, w) == v.tag = w.tag /\ Equals(v, w)

-----------------------------------------------------------------------------
Gives(v) == [error |-> "", value |-> v]
Fails(kind) == [error |-> kind, value |-> UndefinedValue]

(* What math gives for two numbers; it is NaN for NaN, but for 1 ** NaN and *)
(* NaN ** 0.  int64 and uint of a NaN are some numbers.                     *)
Float(op, x, y) ==
    IF NotANumber \in {x, y} /\ ~(op = "**" /\ (x = One \/ y = Zero))
    THEN NotANumber ELSE <<op, x, y>>
Bits(op, x, y) == <<op, x, y>>

Texts(l, r) == {l.tag, r.tag} = {"string"}
Numbers(l, r) == {l.tag, r.tag} = {"number"}
ATextIn(l, r) == "string" \in {l.tag, r.tag}

TextBefore(s, t) ==
    \E i, j \in DOMAIN Collation : i < j /\ Collation[i] = s /\ Collation[j] = t
Below(x, y) == x # NotANumber /\ y # NotANumber /\ x[1] < y[1]

Less(l, r) == IF Texts(l, r) THEN TextBefore(l.text, r.text) ELSE Below(l.num, r.num)
Greater(l, r) == IF Texts(l, r) THEN TextBefore(r.text, l.text) ELSE Below(r.num, l.num)
AtLeast(l, r) ==
    IF Texts(l, r) THEN l.text = r.text \/ TextBefore(r.text, l.text)
    ELSE Same(l.num, r.num) \/ Below(r.num, l.num)

(* Variant with a bug: two texts are compared by the numbers in them. *)
AtMostByNumber(l, r) == Same(l.num, r.num) \/ Below(l.num, r.num)
AtMost(l, r) ==
    IF Texts(l, r) THEN l.text = r.text \/ TextBefore(l.text, r.text)
    ELSE Same(l.num, r.num) \/ Below(l.num, r.num)

-----------------------------------------------------------------------------
Arithmetic == {"+", "-", "*", "/", "%", "**"}
Bitwise == {"&", "|", "^", "<<", ">>", ">>>"}

(* NaN is reported, and undefined, unless - for some operators - both       *)
(* operands are numbers (CheckNaNResult).                                   *)
Checked(op, l, r) ==
    LET n == Float(op, l.num, r.num)
        silent == Numbers(l, r) /\ op \in {"+", "-", "*", "/"}
    IN  Gives(IF n = NotANumber /\ ~silent THEN UndefinedValue ELSE NumberVal(n))

evalArithmetic(op, l, r) ==
    IF op = "+" /\ Texts(l, r) THEN Gives(StringVal(l.text \o r.text))
    ELSE IF op = "%" /\ r = NumberVal(Zero) THEN Fails("arithmetic")
    ELSE IF op # "**" /\ ATextIn(l, r) THEN Fails("type")
    ELSE IF op \in {"/", "%"} /\ r.num = Zero THEN Fails("arithmetic")
    ELSE Checked(op, l, r)

(* `x op y' of both values; `===' is true of what StrictEquals tells apart, *)
(* and there is no `!=='.                                                   *)
evalBinary(op, l, r) ==
    CASE op \in Arithmetic -> evalArithmetic(op, l, r)
      [] op \in Bitwise -> Gives(NumberVal(Bits(op, l.num, r.num)))
      [] op = "===" -> Gives(Boolean(~StrictEquals(l, r)))
      [] op = "==" -> Gives(Boolean(Equals(l, r)))
      [] op = "!=" -> Gives(Boolean(~Equals(l, r)))
      [] op = "<" -> Gives(Boolean(Less(l, r)))
      [] op = ">" -> Gives(Boolean(Greater(l, r)))
      [] op = "<=" -> Gives(Boolean(AtMost(l, r)))
      [] op = ">=" -> Gives(Boolean(AtLeast(l, r)))
      [] OTHER -> Gives(UndefinedValue)

ShortCircuit == {"&&", "||", "??"}
Compounds == Arithmetic \cup ShortCircuit \cup {"<<", ">>"}

Decides(op, l) ==
    \/ op = "&&" /\ ~IsTruthy(l)
    \/ op = "||" /\ IsTruthy(l)
    \/ op = "??" /\ ~IsNullish(l)

(* Variant with a bug: only a number is checked before it divides. *)
evalBinaryValuesMod(op, l, r) ==
    IF op = "%" /\ r.tag # "number" /\ ~ATextIn(l, r)
    THEN Gives(NumberVal(IF r.num = Zero THEN NotANumber ELSE Float(op, l.num, r.num)))
    ELSE IF Decides(op, l) THEN Gives(l)
    ELSE IF op \in ShortCircuit THEN Gives(r) ELSE evalBinary(op, l, r)

(* `x op= y', once y and x have been evaluated.  An operator that is not in *)
(* the list gives y.                                                        *)
evalBinaryValues(op, l, r) ==
    CASE op = "+" /\ Texts(l, r) -> Gives(StringVal(l.text \o r.text))
      [] op \in {"+", "-", "*"} /\ ~(op = "+" /\ Texts(l, r)) ->
            IF ATextIn(l, r) THEN Fails("type") ELSE Gives(NumberVal(Float(op, l.num, r.num)))
      [] op = "/" ->
            IF ATextIn(l, r) THEN Fails("type")
            ELSE IF r.num = Zero THEN Fails("arithmetic")
            ELSE Gives(NumberVal(Float(op, l.num, r.num)))
      [] op = "%" ->
            IF r = NumberVal(Zero) THEN Fails("arithmetic")
            ELSE IF ATextIn(l, r) THEN Fails("type")
            ELSE IF r.num = Zero THEN Fails("arithmetic")
            ELSE Gives(NumberVal(Float(op, l.num, r.num)))
      [] op = "**" -> Gives(NumberVal(Float(op, l.num, r.num)))
      [] op = "&&" -> Gives(IF IsTruthy(l) THEN r ELSE l)
      [] op = "||" -> Gives(IF IsTruthy(l) THEN l ELSE r)
      [] op = "??" -> Gives(IF IsNullish(l) THEN r ELSE l)
      [] op \in {"<<", ">>"} -> Gives(NumberVal(Bits(op, l.num, r.num)))
      [] OTHER -> Gives(r)

-----------------------------------------------------------------------------
(* Statements on a variable x and an expression e, which may set x before   *)
(* it has its value.                                                        *)
After(x, e) == IF e.sets = {} THEN x ELSE CHOOSE v \in e.sets : TRUE
Stored(x, result) == [x |-> IF result.error = "" THEN result.value ELSE x, error |-> result.error]

(* x = x op e *)
evalAssign(x, op, e) ==
    IF Decides(op, x) THEN Stored(x, Gives(x))
    ELSE IF op \in ShortCircuit THEN Stored(After(x, e), Gives(e.value))
    ELSE Stored(After(x, e), evalBinary(op, x, e.value))

(* x op= e: e is evaluated first, whatever x decides. *)
evalAssignOp(x, op, e) == Stored(After(x, e), evalBinaryValues(op, After(x, e), e.value))

(* x++ *)
evalIncrement(x) == Stored(x, Gives(NumberVal(Float("+", x.num, One))))

-----------------------------------------------------------------------------
(* Conditions of have: a value, a mode and what stands on the right, which   *)
(* is Absent when evaluating it fails.                                       *)
Absent == Value("absent", "", NotANumber)
ArrayVal(items) == [tag |-> "array", items |-> items]
ObjectVal(keys) == [tag |-> "object", keys |-> keys]

TextOf(v) ==
    IF v.tag # "number" THEN v.text ELSE IF v.num = NotANumber THEN "NaN" ELSE ToString(v.num[1])

HasPrefix(text, part) == Len(part) <= Len(text) /\ SubSeq(text, 1, Len(part)) = part
HasSuffix(text, part) ==
    Len(part) <= Len(text) /\ SubSeq(text, Len(text) - Len(part) + 1, Len(text)) = part
HasPart(text, part) == \E n \in 0 .. Len(text) : HasSuffix(SubSeq(text, 1, n), part)

Holds(array, v) == \E i \in DOMAIN array.items : StrictEquals(array.items[i], v)

TestIn(v, given) ==
    CASE given.tag = "array" -> Holds(given, v)
      [] given.tag = "object" -> TextOf(v) \in given.keys
      [] given.tag = "string" -> HasPart(given.text, TextOf(v))
      [] OTHER -> FALSE

(* Only an array can hold v. *)
TestNotIn(v, given) == given.tag = "array" => ~Holds(given, v)

TypeNames == {"string", "number", "boolean", "null", "undefined", "object"}
TestIs(v, given) == given # Absent /\ TextOf(given) \in TypeNames /\ v.tag = TextOf(given)

(* Numbers are compared, whatever the operands are. *)
Within(v, lo, hi) ==
    /\ Below(lo.num, v.num) \/ Same(lo.num, v.num)
    /\ Below(v.num, hi.num) \/ Same(v.num, hi.num)

testHaveCondition(mode, v, given) ==
    CASE mode = "" -> ~IsNullish(v) /\ IsTruthy(v)
      [] mode = "in" -> TestIn(v, given)
      [] mode = "not_in" -> TestNotIn(v, given)
      [] mode = "is" -> TestIs(v, given)
      [] mode = "is_not" -> given = Absent \/ ~TestIs(v, given)
      [] mode = "startsWith" -> given # Absent /\ HasPrefix(TextOf(v), TextOf(given))
      [] mode = "endsWith" -> given # Absent /\ HasSuffix(TextOf(v), TextOf(given))

(* `x in y' as an operator: the key of an object, the index of an array.     *)
evalIn(l, r) ==
    CASE r.tag = "object" -> TextOf(l) \in r.keys
      [] r.tag = "array" -> l.tag = "number" /\ l.num # NotANumber /\ l.num[1] + 1 \in DOMAIN r.items
      [] OTHER -> FALSE

-----------------------------------------------------------------------------
Silent(outcome) ==
    IF outcome.x = NumberVal(NotANumber) THEN [outcome EXCEPT !.x = UndefinedValue] ELSE outcome

(* The two ways to write an operation leave x alike and fail alike, but for *)
(* a NaN, which only the first makes undefined; and `x++' is x += 1 of what *)
(* is not a text.                                                           *)
CompoundAgrees(op, x, y) ==
    LET e == [value |-> y, sets |-> {}] IN
    /\ op \in Compounds => Silent(evalAssign(x, op, e)) = Silent(evalAssignOp(x, op, e))
    /\ op = "++" /\ x.tag # "string" => evalIncrement(x) = evalAssignOp(x, "+", [e EXCEPT !.value = NumberVal(One)])

(* Comparisons agree with each other: mirrored operands give the mirrored   *)
(* result, at most one of <, > holds, a < b is a <= b, and of two texts or  *)
(* two numbers but NaN <= says < or ==; == and != are symmetric opposites.  *)
ComparisonsAgree(l, r) ==
    LET Is(op, a, b) == evalBinary(op, a, b) = Gives(Boolean(TRUE)) IN
    /\ Is("<", l, r) <=> Is(">", r, l)
    /\ Is("<=", l, r) <=> Is(">=", r, l)
    /\ ~(Is("<", l, r) /\ Is(">", l, r))
    /\ Is("<", l, r) => Is("<=", l, r) /\ ~Is("<=", r, l)
    /\ Texts(l, r) \/ Numbers(l, r) => (Is("<=", l, r) <=> (Is("<", l, r) \/ Is("==", l, r)))
    /\ Is("==", l, r) <=> Is("==", r, l)
    /\ Is("!=", l, r) <=> ~Is("==", l, r)

(* The conditions of have agree with each other and with the operators:     *)
(* no mode and `!' are opposites, `is' and `is not' too, and `in' and `not  *)
(* in' of an array, whose elements == v; a key of an object is one for the  *)
(* operator `in'; a prefix or a suffix of a text is in it; and between is   *)
(* >= and <= unless texts are compared.                                     *)
ConditionsAgree(v, x, y) ==
    LET Is(op, a, b) == evalBinary(op, a, b) = Gives(Boolean(TRUE))
        Have(mode, given) == testHaveCondition(mode, v, given)
        array == ArrayVal(<<x, y>>)
        object == ObjectVal({TextOf(x)})
    IN
    /\ Have("", Absent) <=> IsTruthy(v)
    /\ Have("is", x) <=> ~Have("is_not", x)
    /\ Have("in", array) <=> ~Have("not_in", array)
    /\ Have("in", array) => Is("==", v, x) \/ Is("==", v, y)
    /\ Have("in", object) <=> evalIn(v, object)
    /\ x.tag = "string" /\ testHaveCondition("startsWith", x, v) => Have("in", x)
    /\ x.tag = "string" /\ testHaveCondition("endsWith", x, v) => Have("in", x)
    /\ ~Texts(v, x) /\ ~Texts(v, y) => (Within(v, x, y) <=> Is(">=", v, x) /\ Is("<=", v, y))
=============================================================================
