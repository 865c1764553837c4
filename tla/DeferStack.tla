----------------------------- MODULE DeferStack -----------------------------
(***************************************************************************)
(* What defer promises to the program of one goroutine: every activation   *)
(* of a function has a list of deferred bodies of its own; when it exits   *)
(* it runs them all, last registered first, before its caller goes on.     *)
(***************************************************************************)
EXTENDS Sequences, SequencesExt

CONSTANT Sites      \* the defer statements of the program

VARIABLE stack      \* the activations, innermost last

Activation == [exiting : BOOLEAN, pending : Seq(Sites)]

Init == stack = <<>>

Enter == stack' = Append(stack, [exiting |-> FALSE, pending |-> <<>>])

Inside(exiting) == stack # <<>> /\ Last(stack).exiting = exiting

Register(site) ==
    /\ Inside(FALSE)
    /\ stack' = [stack EXCEPT ![Len(stack)].pending = Append(@, site)]

(* The body of the function is over. *)
Exit ==
    /\ Inside(FALSE)
    /\ stack' = [stack EXCEPT ![Len(stack)].exiting = TRUE]

RunLast ==
    /\ Inside(TRUE)
    /\ Last(stack).pending # <<>>
    /\ stack' = [stack EXCEPT ![Len(stack)].pending = Front(@)]

(* The call is over; one that failed on its parameters never had a body. *)
Leave ==
    /\ stack # <<>>
    /\ Last(stack).pending = <<>>
    /\ stack' = Front(stack)

Next ==
    \/ Enter
    \/ \E site \in Sites : Register(site)
    \/ Exit
    \/ RunLast
    \/ Leave

Spec == Init /\ [][Next]_stack
=============================================================================
