----------------------------- MODULE MCJsonDiff -----------------------------
(* JsonDiff on small instances.                                              *)
EXTENDS JsonDiff

\* A member is a number or, to change its kind, a string.
TwoScalars == {<<"int64", 0>>, <<"string", 0>>}
=============================================================================
