------------------------------- MODULE MCSync -------------------------------
(* Sync on small instances.  The bounds are the constants Max... of Sync.      *)
EXTENDS Sync, TLC

CONSTANTS c1, c2

\* Sessions are interchangeable.
ClientSymmetry == Permutations(Clients)
=============================================================================
