------------------------------- MODULE MCFills -------------------------------
(* Fills for TLC: the sets of consumers; the other bounds are in the cfg.   *)
EXTENDS Fills

OneConsumer == {{"orders"}, {"query"}, {"observer"}}
Symmetry == Permutations(Execs)
==============================================================================
