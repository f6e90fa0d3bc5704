-------------------------- MODULE MCDataPointStore --------------------------
(* DataPointStore for TLC: the requests are interchangeable.               *)
EXTENDS DataPointStore, TLC

WriteSymmetry == Permutations(Writes)

=============================================================================
