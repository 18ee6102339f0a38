------------------------------ MODULE MCSheath ------------------------------
(* Sheath on small instances.  The bounds are the constants Max... of Sheath. *)
EXTENDS Sheath, TLC

CONSTANTS t1, t2, w1, w2

\* The io threads are interchangeable.
WorkerSymmetry == Permutations(Workers)
=============================================================================
