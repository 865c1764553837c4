------------------------------ MODULE PackagesMC ------------------------------
(* Instances of Packages for TLC: the version texts that users write.         *)
EXTENDS Packages, TLC

Latest == [form |-> "latest"]
Exactly(i) == [form |-> "fields", fields |-> <<Clause("", Version(i, 0, 0))>>]
Below(i) == [form |-> "fields",
             fields |-> <<Clause(">=", Version(1, 0, 0)), Clause("<", Version(i, 0, 0))>>]
Branch == [form |-> "word", marked |-> FALSE]

TwoFiles == <<"index.lx", "lunex.toml">>

Symmetric == Permutations(Procs) \cup Permutations(Names)

Entry(s) == [source |-> s, text |-> Latest]
SomeManifests == {[n \in Names |-> Entry(s)] : s \in {"release", "local"}}

FewTexts == {Latest, Exactly(1)}
AllTexts == {Latest, Exactly(1), Below(2), Branch,
             [form |-> "word", marked |-> TRUE],
             [form |-> "x", nums |-> <<1>>], [form |-> "caret", ver |-> Version(1, 0, 0)]}
===============================================================================
