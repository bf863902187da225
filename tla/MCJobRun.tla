------------------------------ MODULE MCJobRun ------------------------------
(* Small instances of JobRun. *)
EXTENDS JobRun

\* A condition node that leads on or to the end, and a last node.
Branching == [n1 |-> {"n2", End}, n2 |-> {End}]
=============================================================================
