------------------------------ MODULE Scripts ------------------------------
(***************************************************************************)
(* The programs an author can write, one construct at a time, what the     *)
(* checker says of each and what the interpreter does with it: compiler.go *)
(* resolves every tree before it runs, and the resolver promises that a    *)
(* program behaves as its tree without the annotations would, by names     *)
(* alone.                                                                  *)
(***************************************************************************)
EXTENDS Interpreter, Checker

CONSTANTS
    Simples(_),     \* names of the statements offered for the n-th edit
    Wrappers(_),    \* names of the constructs offered to put around the body
    Statement(_),   \* the statement of a name
    Wrapped(_, _),  \* the statements of a construct around a list of statements
    Framing(_),     \* what main does before and after them
    Allowed(_, _),  \* whether a construct may be put around these statements
    MaxEdits

ASSUME ScriptsAssumption == MaxEdits \in Nat \ {0}

VARIABLES
    body,       \* the statements written so far
    edits,
    outcome     \* what the program was checked as, and did by names and by slots

vars == <<body, edits, outcome>>

NotRun == [checked |-> <<>>, byName |-> <<>>, bySlot |-> <<>>]

Block(ss) == [k |-> "block", body |-> ss, scope |-> Unresolved]

Init == body = <<>> /\ edits = 0 /\ outcome = NotRun

Write(s) ==
    /\ outcome = NotRun /\ edits < MaxEdits
    /\ body' = Append(body, Statement(s))
    /\ edits' = edits + 1
    /\ UNCHANGED outcome

Surround(w) ==
    /\ outcome = NotRun /\ edits < MaxEdits /\ body # <<>> /\ Allowed(w, body)
    /\ body' = Wrapped(w, body)
    /\ edits' = edits + 1
    /\ UNCHANGED outcome

Run ==
    /\ outcome = NotRun /\ body # <<>>
    /\ LET main == Block(Framing(body))
       IN  outcome' = [checked |-> CheckMain(main), byName |-> RunMain(main), bySlot |-> RunMain(ResolveMain(main))]
    /\ UNCHANGED <<body, edits>>

Next ==
    \/ \E s \in Simples(edits + 1) : Write(s)
    \/ \E w \in Wrappers(edits + 1) : Surround(w)
    \/ Run

Spec == Init /\ [][Next]_vars

Ran == outcome # NotRun
Runs == {outcome.byName, outcome.bySlot}

(***************************************************************************)
(* Properties.                                                             *)
(***************************************************************************)

(* Resolving a program changes nothing a user can see: what it completes   *)
(* with, its value, what it prints, and the steps it takes.  The frame a   *)
(* resolved address names is the one where a walk by name finds the        *)
(* variable: the scopes of the pass are the frames of the run.  Two things *)
(* must not have happened, each against the promise of resolver.go:5-14    *)
(* and env.go:283 that nothing changes: a read by address of a variable    *)
(* that only its name was given a value (every variable of a Block, which  *)
(* has no slots; using, a pattern, a nested function, a binding of ifset   *)
(* or of a case, an assignment within with), which gives undefined or an   *)
(* old value; and a use, by a closure or a deferred block, of a name that  *)
(* was declared in an enclosing frame after it was made.                   *)
SlotsTransparent ==
    Ran /\ outcome.bySlot.slotless = {} /\ outcome.bySlot.overtaken = {} =>
        /\ \A f \in {"c", "v", "log", "steps"} : outcome.byName[f] = outcome.bySlot[f]
        /\ outcome.bySlot.agree

(* Each time a try with a finally is entered, its finally runs exactly     *)
(* once, whatever the body and the catch complete with, unless the step    *)
(* budget ended the program.                                               *)
FinallyRuns == Ran => \A r \in Runs : r.steps <= MaxExecSteps => r.tries = r.ran

(* A program the checker accepts, and sees all of, looks no name up in     *)
(* vain, assigns to no constant and leaves main by no break or continue,   *)
(* in any nesting of blocks, closures, loops, defers and exceptions.       *)
(* Except for the name of a catch: the checker binds it in the scope the   *)
(* try stands in (checker.go:505), where no variable is when the catch is  *)
(* over; and for a constant declared after the closure that assigns it.    *)
AcceptedRuns ==
    Ran /\ outcome.checked = [codes |-> {}, blind |-> FALSE] =>
        /\ outcome.byName.missed \subseteq outcome.byName.gone
        /\ outcome.byName.c \notin {"break", "continue"}
=============================================================================
