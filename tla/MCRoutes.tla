------------------------------- MODULE MCRoutes -------------------------------
(* Routes for TLC; the bounds are in the cfg files.                         *)
EXTENDS Routes
==============================================================================
