----------------------------- MODULE MCAdmission -----------------------------
(* Admission for TLC: the mixes of calls; the other bounds are in the cfg.  *)
EXTENDS Admission

CONSTANTS c1, c2

Pairs == {[c \in Calls |-> IF c = c1 THEN "stream" ELSE "command"],
          [c \in Calls |-> IF c = c1 THEN "snapshot" ELSE "query"]}
==============================================================================
