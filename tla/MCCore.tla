------------------------------- MODULE MCCore -------------------------------
(* Core for TLC: names, and the ids of files, are interchangeable. *)
EXTENDS Core, TLC

Symmetry ==
    Permutations(Id \ (Symlink \cup {Root})) \cup Permutations(Name) \cup Permutations(Proc)
=============================================================================
