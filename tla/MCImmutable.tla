----------------------------- MODULE MCImmutable -----------------------------
(* Instances of Immutable for TLC. *)
EXTENDS Immutable, TLC

\* Policies for the second day and for the second and third, with and without
\* renewal, one given by a time within the day, and one for no day at all.
MCInputs ==
    {[start |-> 3, days |-> 1, renew |-> FALSE], [start |-> 2, days |-> 2, renew |-> TRUE],
     [start |-> 4, days |-> 1, renew |-> FALSE], [start |-> 2, days |-> 0, renew |-> FALSE]}

MCSymmetry == Permutations(Files)
=============================================================================
