------------------------------- MODULE MCOrders -------------------------------
(* Orders for TLC: the loads; the other bounds are in the cfg file.         *)
EXTENDS Orders

Load(calls, codes, replies) == [calls |-> calls, codes |-> codes, replies |-> replies]

Loads == {
    Load(<<"order">>, 1, 2),
    Load(<<"order", "preview">>, 1, 1),
    Load(<<"exercise">>, 1, 2),
    Load(<<"bracket">>, 0, 0)}
==============================================================================
