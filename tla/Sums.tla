-------------------------------- MODULE Sums --------------------------------
(* Python's sum(), over the values of a finite function. *)
EXTENDS Integers, FiniteSetsExt

SumOver(w) == MapThenSumSet(LAMBDA k : w[k], DOMAIN w)
=============================================================================
