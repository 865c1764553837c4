-------------------------------- MODULE Semver --------------------------------
(* Versions and version constraints (internal/semver/semver.go).             *)
(*                                                                           *)
(* A constraint is read from a text.  What the code tells apart in it is the *)
(* form of the text:                                                         *)
(*   "latest"   the empty text or the word                                   *)
(*   "x"        numbers up to an x or a *: 1.2.x                             *)
(*   "caret"    ^1.2.3                                                       *)
(*   "fields"   words between blanks, each a comparator or a plain version   *)
(*   "word"     anything else; a branch, say.  Whether it has one of the     *)
(*              characters <>^*x in it matters to the caller.                *)
EXTENDS Integers, Sequences, FiniteSets

Version(a, b, c) == [major |-> a, minor |-> b, patch |-> c]

\* The sign of the result is what the code returns.
Compare(a, b) ==
    IF a.major # b.major THEN a.major - b.major
    ELSE IF a.minor # b.minor THEN a.minor - b.minor
    ELSE a.patch - b.patch

Clause(op, ver) == [op |-> op, ver |-> ver]

\* xRangeBounds: from the numbers up to the version after them.
Lower(nums) == [major |-> nums[1],
                minor |-> IF Len(nums) >= 2 THEN nums[2] ELSE 0,
                patch |-> IF Len(nums) >= 3 THEN nums[3] ELSE 0]

Upper(nums) ==
    CASE Len(nums) = 1 -> Version(nums[1] + 1, 0, 0)
      [] Len(nums) = 2 -> Version(nums[1], nums[2] + 1, 0)
      [] Len(nums) = 3 -> Version(nums[1], nums[2], nums[3] + 1)

Between(lo, hi) == <<Clause(">=", lo), Clause("<", hi)>>

\* A constraint: the newest version, one version, or clauses, all of which
\* must hold.  Without any clause every version matches.
Constraint(latest, exact, clauses) ==
    [latest |-> latest, exact |-> exact, clauses |-> clauses]

IsComparator(f) == f.op # ""

ParseConstraint(t) ==
    CASE t.form = "latest" -> Constraint(TRUE, {}, <<>>)
      [] t.form = "x" /\ t.nums # <<>> ->
            Constraint(FALSE, {}, Between(Lower(t.nums), Upper(t.nums)))
      [] t.form = "caret" ->
            Constraint(FALSE, {}, Between(t.ver, Version(t.ver.major + 1, 0, 0)))
      [] t.form = "fields" /\ Len(t.fields) = 1 /\ ~IsComparator(t.fields[1]) ->
            Constraint(FALSE, {t.fields[1].ver}, <<>>)
      [] t.form = "fields" /\ \E i \in DOMAIN t.fields : IsComparator(t.fields[i]) ->
            Constraint(FALSE, {}, SelectSeq(t.fields, IsComparator))
      [] OTHER -> Constraint(FALSE, {}, <<>>)

Holds(cl, v) ==
    LET cmp == Compare(v, cl.ver) IN
    CASE cl.op = ">=" -> cmp >= 0
      [] cl.op = ">"  -> cmp > 0
      [] cl.op = "<=" -> cmp <= 0
      [] cl.op = "<"  -> cmp < 0
      [] cl.op = "="  -> cmp = 0

Matches(c, v) ==
    CASE c.latest -> TRUE
      [] ~c.latest /\ c.exact # {} -> \A e \in c.exact : Compare(v, e) = 0
      [] OTHER -> \A i \in DOMAIN c.clauses : Holds(c.clauses[i], v)

\* The greatest matching candidate; the code keeps the first of equals.
Bests(c, candidates) ==
    {v \in candidates : Matches(c, v) /\
        \A w \in candidates : Matches(c, w) => Compare(v, w) >= 0}
===============================================================================
