---------------------------- MODULE OrderContract ----------------------------
(***************************************************************************)
(* What an order handle promises its caller, whatever happens to the        *)
(* connection.  Each order has a handle as the caller sees it and a place   *)
(* frame as the broker may see it:                                          *)
(*   - a handle that ends with a retryable cause never had its frame, or    *)
(*     any part of it, at the broker, and never will;                       *)
(*   - continuity, once lost, stays lost, and losing it is announced: no    *)
(*     handle passes from one data epoch to the next in silence;            *)
(*   - an ended handle stays ended, with the cause it ended with.           *)
(* Orders.tla implements this specification.                                *)
(***************************************************************************)
CONSTANT IDs

VARIABLES
    handle,   \* "unbound", "open", "ended", or "retry" (ended, safe to resubmit)
    intact,   \* the caller may still rely on an unbroken history
    frame     \* "none", "queued", "reached" (whole or torn), or "discarded"

contractVars == <<handle, intact, frame>>

ContractInit ==
    /\ handle = [o \in IDs |-> "unbound"]
    /\ intact = [o \in IDs |-> TRUE]
    /\ frame = [o \in IDs |-> "none"]

HandleStep(o) ==
    \/ handle'[o] = handle[o]
    \/ handle[o] = "unbound" /\ handle'[o] \in {"open", "ended", "retry"}
    \/ handle[o] = "open" /\ handle'[o] \in {"ended", "retry"}

FrameStep(o) ==
    \/ frame'[o] = frame[o]
    \/ frame[o] = "none" /\ handle[o] = "unbound" /\ frame'[o] \in {"queued", "reached"}
    \/ frame[o] = "queued" /\ frame'[o] \in {"reached", "discarded"}

ContractStep(o) ==
    /\ HandleStep(o) /\ FrameStep(o)
    /\ intact'[o] => intact[o]
    /\ handle'[o] = "retry" => frame'[o] \in {"none", "discarded"}

ContractNext ==
    /\ handle' = [o \in IDs |-> handle'[o]]
    /\ intact' = [o \in IDs |-> intact'[o]]
    /\ frame' = [o \in IDs |-> frame'[o]]
    /\ \A o \in IDs : ContractStep(o)

ContractSpec == ContractInit /\ [][ContractNext]_contractVars
==============================================================================
