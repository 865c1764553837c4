------------------------------ MODULE ValuesMC ------------------------------
(* Values on small instances: a program of arrays (Arrays), or one operator *)
(* applied to every pair of values (Operators).  Which blocks are used is   *)
(* left out of the fingerprint, and what they hold if nothing refers to     *)
(* them: only who shares one matters.                                       *)
EXTENDS Arrays, TLC

CONSTANTS MaxSteps, Integral, Collation

VARIABLES
    steps,
    applied     \* the operator and its operands, or none

Ops == INSTANCE Operators

NothingApplied == <<>>
Applications ==
    [op : Ops!Compounds \cup {"++"}, left : Ops!AllValues, right : Ops!AllValues]

MCInit == Init /\ steps = 0 /\ applied \in Applications \cup {NothingApplied}
MCNext ==
    /\ applied = NothingApplied /\ steps < MaxSteps
    /\ Next
    /\ steps' = steps + 1
    /\ UNCHANGED applied
MCSpec == MCInit /\ [][MCNext]_<<vars, steps, applied>>

(* Writing an operation in one way or the other, comparing in one direction *)
(* or the other, and testing with have or with an operator comes to the     *)
(* same.                                                                    *)
OperatorsAgree ==
    applied # NothingApplied =>
        /\ Ops!CompoundAgrees(applied.op, applied.left, applied.right)
        /\ Ops!ComparisonsAgree(applied.left, applied.right)
        /\ \A other \in Ops!AllValues : Ops!ConditionsAgree(applied.left, applied.right, other)

MCRank == [e \in Elems |-> 9 - e]
MCStarts == {-1, 0, 1}
MCIntegral == {-1, 0, 1, 2}
MCCollation == <<"", "1", "a">>

Sharing(b) == {a \in held : base[a] = b}
View ==
    <<steps, applied, [a \in held |-> <<mem[base[a]], off[a], len[a], Sharing(base[a])>>], kin,
      [loop EXCEPT !.base = Unused], IF loop.on = NoArray THEN <<>> ELSE mem[loop.base],
      Sharing(loop.base)>>

Spares == Permutations(Arrays)
=============================================================================
