----------------------------- MODULE MCDrivers -----------------------------
(* Small instances of Drivers for TLC. *)
EXTENDS Drivers, TLC

CONSTANTS h1, h2, operator, main

Symmetry == Permutations({h1, h2}) \union Permutations({operator, main})
=============================================================================
