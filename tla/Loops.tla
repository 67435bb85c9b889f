-------------------------------- MODULE Loops --------------------------------
(***************************************************************************)
(* Loops.  Loop(Step, init, list)[i] is what the variables of a loop over  *)
(* a slice hold after i rounds: FoldLeft with its intermediate values,     *)
(* which the loop invariants of the proofs are about.  While is a loop     *)
(* with a condition, whose body does nothing once it is false.             *)
(***************************************************************************)
EXTENDS Integers, Sequences

Loop(Step(_, _), init, list) ==
    LET acc[i \in 0..Len(list)] == IF i = 0 THEN init ELSE Step(acc[i - 1], list[i])
    IN  acc

\* What they hold when the loop ends.
After(Step(_, _), init, list) == Loop(Step, init, list)[Len(list)]

\* The variables after each of n rounds; n is at least what the loop may need.
While(Step(_), init, n) ==
    LET acc[i \in 0..n] == IF i = 0 THEN init ELSE Step(acc[i - 1])
    IN  acc
=============================================================================
