----------------------------- MODULE MCInterrupt -----------------------------
(* Instances of Interrupt for TLC: processors that may be exchanged, and what    *)
(* the NIC may find.                                                             *)
EXTENDS Interrupt, TLC

CpuSymmetry == Permutations(Cpus)

LinkChanges == {[extra |-> {"link"}, shared |-> TRUE]}

\* A shared line; or one of its own, with system errors and overflows.
SharedOrErrors ==
    {[extra |-> {}, shared |-> TRUE], [extra |-> {"sys", "oflow"}, shared |-> FALSE]}
=============================================================================
