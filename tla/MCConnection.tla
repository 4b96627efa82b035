---------------------------- MODULE MCConnection ----------------------------
(* The connection lifecycle with a few faults and gateway notices.          *)
EXTENDS ConnectionLink
==============================================================================
