-------------------------------- MODULE Link --------------------------------
(***************************************************************************)
(* What the connection layer promises the rest of the engine: one physical  *)
(* connection at a time, each with a new generation; readiness published    *)
(* at most once per connection; a connection that begins to stop is never   *)
(* usable again and is lost before the next one is attached; closed is      *)
(* final.  Connection.tla implements this specification and Routes.tla      *)
(* builds on it.                                                           *)
(***************************************************************************)
EXTENDS Naturals

VARIABLES
    phase,   \* the session state published in the snapshot
    gen,     \* physical connections attached so far
    seq,     \* connections that completed their bootstrap
    up,      \* the attached connection completed its bootstrap
    wire     \* "none", "live", or "dying" once it stops or retires

linkVars == <<phase, gen, seq, up, wire>>

LinkInit ==
    /\ phase = "Disconnected" /\ gen = 0 /\ seq = 0
    /\ up = FALSE /\ wire = "none"

\* What a turn of the actor may do to the wire besides its own business: a
\* handler that cannot release something safely retires the connection.
MayStop == wire' = wire \/ (wire = "live" /\ wire' = "dying")

\* A connection attempt starts, or one fails and another is scheduled.
Dialing ==
    /\ wire = "none"
    /\ \/ phase = "Disconnected" /\ phase' = "Connecting"
       \/ phase = "Reconnecting" /\ phase' = "Reconnecting"
    /\ UNCHANGED <<gen, seq, up, wire>>

Attach ==
    /\ wire = "none" /\ phase \in {"Connecting", "Reconnecting"}
    /\ phase' = "Handshaking" /\ gen' = gen + 1 /\ wire' = "live"
    /\ UNCHANGED <<seq, up>>

BecomeReady ==
    /\ wire # "none" /\ phase \in {"Handshaking", "Ready", "Degraded"}
    /\ ~up /\ seq < gen
    /\ phase' = "Ready" /\ seq' = seq + 1 /\ up' = TRUE
    /\ MayStop
    /\ UNCHANGED gen

\* A connectivity code of the gateway, also before the bootstrap completed.
Code(next) ==
    /\ wire # "none" /\ phase \in {"Handshaking", "Ready", "Degraded"}
    /\ phase' = next
    /\ MayStop
    /\ UNCHANGED <<gen, seq, up>>

Stop ==
    /\ wire = "live" /\ wire' = "dying"
    /\ UNCHANGED <<phase, gen, seq, up>>

Lose(next) ==
    /\ wire = "dying" /\ phase \in {"Handshaking", "Ready", "Degraded"}
    /\ wire' = "none" /\ phase' = next /\ up' = FALSE
    /\ UNCHANGED <<gen, seq>>

Close ==
    /\ phase # "Closed" /\ phase' = "Closed" /\ up' = FALSE
    /\ wire' = IF wire = "live" THEN "dying" ELSE wire
    /\ UNCHANGED <<gen, seq>>

LinkNext ==
    \/ Dialing \/ Attach \/ BecomeReady \/ Stop \/ Close
    \/ \E next \in {"Ready", "Degraded"} : Code(next)
    \/ \E next \in {"Reconnecting", "Closed"} : Lose(next)

LinkSpec == LinkInit /\ [][LinkNext]_linkVars
==============================================================================
