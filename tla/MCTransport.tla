---------------------------- MODULE MCTransport ----------------------------
(* Transport for TLC; the bounds are in the cfg files.                      *)
EXTENDS Transport
==============================================================================
