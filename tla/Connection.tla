----------------------------- MODULE Connection -----------------------------
(***************************************************************************)
(* The connection lifecycle of the session engine: dialling, bootstrap,     *)
(* connectivity codes, retirement, transport loss, reconnect backoff and    *)
(* close (engine_connect.go, engine_reconnect.go, engine_run.go and the     *)
(* connectivity part of engine_route.go).                                  *)
(*                                                                         *)
(* Everything the actor goroutine does in one turn is one action.  The      *)
(* other processes are the dial goroutines, the decode pump and the loss    *)
(* goroutine of every physical transport, the time.AfterFunc timers, the    *)
(* Dial caller and the gateway.  A physical transport is named by its       *)
(* generation; 0 is the nil transport.                                     *)
(***************************************************************************)
EXTENDS Naturals, Sequences

CONSTANTS
    MaxFaults,    \* failed dials, lost sockets, retirements, timeouts
    MaxNotices,   \* messages the gateway sends besides the two greetings
    InboxCap,     \* capacity of e.incoming (256 in the code)
    MaxBackoff    \* reconnectDelay no longer grows from this attempt on

ASSUME BoundsAssumption ==
    /\ MaxFaults \in Nat
    /\ MaxNotices \in Nat
    /\ InboxCap \in Nat \ {0}
    /\ MaxBackoff \in Nat

States == {"Disconnected", "Connecting", "Handshaking", "Ready", "Degraded",
           "Reconnecting", "Closed"}
Greetings == {"managed", "nextValidID"}
Codes == {"1100", "1101", "1102", "1300"}
Notices == Codes \cup {"nextValidID", "badNextValidID", "malformed"}
Outcomes == {"dialing", "ok", "failed", "unsupported"}

VARIABLES
    state,            \* e.snapshot.State; "Closed" iff e.closed
    connectionSeq,    \* e.snapshot.ConnectionSeq
    bootstrap,        \* e.bootstrap: the set of its true fields
    autoReconnect,    \* e.cfg.reconnect = ReconnectAuto
    connectAttemptID, \* e.connectAttemptID
    dials,            \* dial goroutines that have not handed over a result
    generation,       \* e.transportGeneration
    transport,        \* e.transport
    retiring,         \* e.retiringTransport
    poisoned,         \* e.poisonedGeneration
    stopping,         \* transports whose Stopping channel is closed
    pumping,          \* transports whose decode pump has not returned
    incoming,         \* e.incoming, decoded inputs only
    transportErr,     \* e.transportErr
    reconnectTimers,  \* pending reconnect AfterFuncs
    bootTimers,       \* transports with a pending bootstrap timeout
    stabilityEpoch,   \* e.stabilityEpoch
    stabilityTimers,  \* pending stability AfterFuncs
    reconnectAttempt, \* e.reconnectAttempt, up to MaxBackoff
    readyResult,      \* content of the e.ready channel
    dialer,           \* the caller of Dial
    greeted,          \* gateway: greetings sent on the newest transport
    notices,          \* gateway: notices sent so far
    faults            \* faults so far

actorVars == <<state, connectionSeq, bootstrap, connectAttemptID, generation,
               transport, retiring, poisoned, reconnectAttempt, stabilityEpoch>>
pumpVars == <<stopping, pumping, incoming, transportErr>>
timerVars == <<reconnectTimers, bootTimers, stabilityTimers>>
gatewayVars == <<greeted, notices, faults>>
vars == <<actorVars, pumpVars, timerVars, gatewayVars, dials, autoReconnect,
          readyResult, dialer>>

closed == state = "Closed"
NoTransport == 0

Init ==
    /\ state = "Disconnected"
    /\ connectionSeq = 0
    /\ bootstrap = {}
    /\ autoReconnect \in BOOLEAN
    /\ connectAttemptID = 0
    /\ dials = {}
    /\ generation = 0 /\ transport = NoTransport
    /\ retiring = NoTransport /\ poisoned = NoTransport
    /\ stopping = {} /\ pumping = {} /\ incoming = <<>> /\ transportErr = {}
    /\ reconnectTimers = 0 /\ bootTimers = {}
    /\ stabilityEpoch = 0 /\ stabilityTimers = {}
    /\ reconnectAttempt = 0
    /\ readyResult = "none" /\ dialer = "waiting"
    /\ greeted = {} /\ notices = 0 /\ faults = 0

Fault == faults < MaxFaults /\ faults' = faults + 1

------------------------------------------------------------------------------
(* Helpers of the actor's handlers.                                        *)

\* Mutant: only success is reported.
reportReadySuccess(result) ==
    readyResult' = IF result = "ok" /\ readyResult = "none" THEN result ELSE readyResult

reportReady(result) ==
    IF "readyReported" \in bootstrap \/ readyResult # "none"
    THEN readyResult' = readyResult
    ELSE readyResult' = result

\* Mutant: the socket is left open.
StopTransportNever == UNCHANGED stopping

\* tr.Close() on the current transport.
StopTransport ==
    stopping' = IF transport = NoTransport THEN stopping ELSE stopping \cup {transport}

\* retireTransport: stop now, leave the loss to the pumps.
retireTransport ==
    /\ retiring' = transport
    /\ StopTransport

\* invalidateReconnectStability.  disturbed is a history flag.
Disturb(timers) == {[t EXCEPT !.disturbed = TRUE] : t \in timers}

invalidateReconnectStability ==
    /\ stabilityEpoch' = stabilityEpoch + 1
    /\ stabilityTimers' = Disturb(stabilityTimers)

scheduleReconnectStability ==
    /\ stabilityEpoch' = stabilityEpoch + 1
    /\ stabilityTimers' = stabilityTimers \cup
         {[transport |-> transport, epoch |-> stabilityEpoch + 1, disturbed |-> FALSE]}

\* Mutant: the loop gives up once the delay stops growing.
scheduleReconnectGivesUp ==
    IF reconnectAttempt < MaxBackoff
    THEN /\ reconnectTimers' = reconnectTimers + 1
         /\ reconnectAttempt' = reconnectAttempt + 1
    ELSE UNCHANGED <<reconnectTimers, reconnectAttempt>>

scheduleReconnect ==
    /\ reconnectTimers' = reconnectTimers + 1
    /\ reconnectAttempt' = IF reconnectAttempt < MaxBackoff
                           THEN reconnectAttempt + 1 ELSE reconnectAttempt

\* startConnect: a new attempt supersedes whatever dial is still running.
startConnect(reconnect) ==
    /\ bootstrap' = {}
    /\ state' = IF reconnect THEN "Reconnecting" ELSE "Connecting"
    /\ connectAttemptID' = connectAttemptID + 1
    /\ dials' = dials \cup {[attempt |-> connectAttemptID + 1,
                             reconnect |-> reconnect, outcome |-> "dialing"]}

\* closeEngine: terminal.  The actor goroutine returns after this turn.
closeEngine ==
    /\ state' = "Closed"
    /\ stabilityEpoch' = stabilityEpoch + 1
    /\ stabilityTimers' = Disturb(stabilityTimers)
    /\ StopTransport
    /\ reportReady("error")
    /\ bootstrap' = bootstrap \cup {"readyReported"}

------------------------------------------------------------------------------
(* The actor: commands and dial results.                                   *)

\* The first command dialEngine enqueues.
InitialConnect ==
    /\ state = "Disconnected"
    /\ startConnect(FALSE)
    /\ UNCHANGED <<connectionSeq, generation, transport, retiring, poisoned,
                   reconnectAttempt, stabilityEpoch, pumpVars, timerVars,
                   gatewayVars, autoReconnect, readyResult, dialer>>

\* The generation the pumps and routes of a new transport are bound to.
NewGeneration == generation + 1

\* handleConnectResult with a live socket: a new generation is attached.
AttachTransport(d) ==
    /\ ~closed
    /\ d \in dials /\ d.outcome = "ok" /\ d.attempt = connectAttemptID
    /\ dials' = dials \ {d}
    /\ generation' = NewGeneration
    /\ transport' = NewGeneration
    /\ bootstrap' = bootstrap \cup {"serverInfo"}
    /\ pumping' = pumping \cup {NewGeneration}
    /\ bootTimers' = bootTimers \cup {NewGeneration}
    /\ state' = "Handshaking"
    /\ greeted' = {}
    /\ UNCHANGED <<connectionSeq, connectAttemptID, retiring, poisoned,
                   reconnectAttempt, stabilityEpoch, stopping, incoming, transportErr,
                   reconnectTimers, stabilityTimers, notices, faults,
                   autoReconnect, readyResult, dialer>>

\* handleConnectResult and connectFailed: the reconnect loop tries again.
ReconnectFailed(d) ==
    /\ ~closed
    /\ d \in dials /\ d.outcome = "failed" /\ d.attempt = connectAttemptID
    /\ d.reconnect
    /\ dials' = dials \ {d}
    /\ state' = "Reconnecting"
    /\ scheduleReconnect
    /\ UNCHANGED <<connectionSeq, bootstrap, connectAttemptID, generation, transport,
                   retiring, poisoned, stabilityEpoch, pumpVars, bootTimers,
                   stabilityTimers, gatewayVars, autoReconnect, readyResult, dialer>>

\* An unsupported server, or a failed first dial, ends the client.
ConnectRefused(d) ==
    /\ ~closed
    /\ d \in dials /\ d.attempt = connectAttemptID
    /\ d.outcome = "unsupported" \/ (d.outcome = "failed" /\ ~d.reconnect)
    /\ dials' = dials \ {d}
    /\ closeEngine
    /\ UNCHANGED <<connectionSeq, connectAttemptID, generation, transport, retiring,
                   poisoned, reconnectAttempt, pumping, incoming, transportErr,
                   reconnectTimers, bootTimers, gatewayVars, autoReconnect, dialer>>

\* Client.Close, or Dial giving up.
Close ==
    /\ ~closed
    /\ closeEngine
    /\ UNCHANGED <<connectionSeq, connectAttemptID, generation, transport, retiring,
                   poisoned, reconnectAttempt, pumping, incoming, transportErr,
                   reconnectTimers, bootTimers, gatewayVars, dials, autoReconnect>>

UserClose ==
    /\ dialer = "connected"
    /\ Close
    /\ UNCHANGED dialer

\* Operations that cannot release their slot safely retire the generation
\* (a refused cancellation, an abandoned singleton request).
RetireGeneration ==
    /\ ~closed
    /\ transport # NoTransport /\ retiring # transport
    /\ state \in {"Ready", "Degraded"}
    /\ Fault
    /\ retireTransport
    /\ UNCHANGED <<state, connectionSeq, bootstrap, connectAttemptID, generation,
                   transport, poisoned, reconnectAttempt, stabilityEpoch, pumping,
                   incoming, transportErr, timerVars, greeted, notices, dials,
                   autoReconnect, readyResult, dialer>>

------------------------------------------------------------------------------
(* The actor: timers.  A closure enqueued after close never runs.           *)

ReconnectTimer ==
    /\ ~closed
    /\ reconnectTimers > 0
    /\ reconnectTimers' = reconnectTimers - 1
    /\ IF transport # NoTransport \/ ~autoReconnect
       THEN UNCHANGED <<bootstrap, state, connectAttemptID, dials>>
       ELSE startConnect(TRUE)
    /\ UNCHANGED <<connectionSeq, generation, transport, retiring, poisoned,
                   reconnectAttempt, stabilityEpoch, pumpVars, bootTimers,
                   stabilityTimers, gatewayVars, autoReconnect, readyResult, dialer>>

\* scheduleBootstrapTimeout: only a connection still handshaking is dropped.
BootstrapTimeout(g) ==
    /\ ~closed
    /\ g \in bootTimers
    /\ bootTimers' = bootTimers \ {g}
    /\ IF transport = g /\ state = "Handshaking"
       THEN Fault /\ StopTransport
       ELSE UNCHANGED <<faults, stopping>>
    /\ UNCHANGED <<actorVars, pumping, incoming, transportErr, reconnectTimers,
                   stabilityTimers, greeted, notices, dials, autoReconnect,
                   readyResult, dialer>>

\* Mutant: the epoch is not compared.
StableSinceAnyEpoch(t) == transport = t.transport /\ state = "Ready"

StableSince(t) ==
    transport = t.transport /\ stabilityEpoch = t.epoch /\ state = "Ready"

\* Sixteen quiet seconds after the barrier: the backoff starts over.
StabilityTimer(t) ==
    /\ ~closed
    /\ t \in stabilityTimers
    /\ stabilityTimers' = stabilityTimers \ {t}
    /\ reconnectAttempt' = IF StableSince(t) THEN 0 ELSE reconnectAttempt
    /\ UNCHANGED <<state, connectionSeq, bootstrap, connectAttemptID, generation,
                   transport, retiring, poisoned, stabilityEpoch, pumpVars,
                   reconnectTimers, bootTimers, gatewayVars, dials, autoReconnect,
                   readyResult, dialer>>

------------------------------------------------------------------------------
(* The actor: inputs of the decode pump.                                   *)

Input == Head(incoming)

\* handleActorInput: another generation's input, or a poisoned one's, is
\* dropped.
Accepted == Input.gen = generation /\ Input.gen # poisoned

TakeInput ==
    /\ ~closed
    /\ incoming # <<>>
    /\ incoming' = Tail(incoming)
    /\ UNCHANGED <<connectAttemptID, generation, transport, reconnectAttempt, pumping,
                   transportErr, reconnectTimers, bootTimers, gatewayVars, dials,
                   autoReconnect, dialer>>

DropInput ==
    /\ TakeInput
    /\ ~Accepted
    /\ UNCHANGED <<state, connectionSeq, bootstrap, retiring, poisoned, stopping,
                   stabilityEpoch, stabilityTimers, readyResult>>

CompletesBootstrap(facts) ==
    "readyReported" \notin facts /\ {"serverInfo"} \cup Greetings \subseteq facts

\* maybeReady: the third bootstrap fact makes the connection ready, once.  The
\* resume barrier is empty here (Routes.tla models it), so the stability timer
\* starts in the same turn.
maybeReady(facts) ==
    IF CompletesBootstrap(facts)
    THEN /\ bootstrap' = facts \cup {"readyReported"}
         /\ state' = "Ready"
         /\ connectionSeq' = connectionSeq + 1
         /\ reportReady("ok")
         /\ scheduleReconnectStability
    ELSE /\ bootstrap' = facts
         /\ UNCHANGED <<state, connectionSeq, readyResult, stabilityEpoch, stabilityTimers>>

HandleGreeting ==
    /\ TakeInput
    /\ Accepted /\ Input.msg \in Greetings
    /\ maybeReady(bootstrap \cup {Input.msg})
    /\ UNCHANGED <<retiring, poisoned, stopping>>

\* An out-of-range seed and a malformed frame both retire the transport; the
\* malformed frame also poisons the rest of its generation.
HandleCorruptInput ==
    /\ TakeInput
    /\ Accepted /\ Input.msg \in {"badNextValidID", "malformed"}
    /\ poisoned' = IF Input.msg = "malformed" THEN generation ELSE poisoned
    /\ IF transport = NoTransport THEN UNCHANGED <<retiring, stopping>> ELSE retireTransport
    /\ UNCHANGED <<state, connectionSeq, bootstrap, stabilityEpoch, stabilityTimers, readyResult>>

\* handleAPIError, connectivity codes.
HandleConnectivityLost ==
    /\ TakeInput
    /\ Accepted /\ Input.msg = "1100"
    /\ state' = "Degraded"
    /\ invalidateReconnectStability
    /\ UNCHANGED <<connectionSeq, bootstrap, retiring, poisoned, stopping, readyResult>>

HandleConnectivityRestored ==
    /\ TakeInput
    /\ Accepted /\ Input.msg \in {"1101", "1102"}
    /\ state' = "Ready"
    /\ scheduleReconnectStability
    /\ UNCHANGED <<connectionSeq, bootstrap, retiring, poisoned, stopping, readyResult>>

HandleSocketReset ==
    /\ TakeInput
    /\ Accepted /\ Input.msg = "1300"
    /\ StopTransport
    /\ UNCHANGED <<state, connectionSeq, bootstrap, retiring, poisoned,
                   stabilityEpoch, stabilityTimers, readyResult>>

------------------------------------------------------------------------------
(* The actor: transport loss.                                              *)

\* The loss arm of run drains e.incoming before it handles the loss.
Drained == incoming = <<>>

HandleTransportLoss(g) ==
    /\ ~closed
    /\ g \in transportErr
    /\ Drained
    /\ transportErr' = transportErr \ {g}
    /\ IF transport # g
       THEN UNCHANGED <<actorVars, timerVars, stopping, readyResult>>
       ELSE /\ retiring' = NoTransport
            /\ transport' = NoTransport
            /\ IF autoReconnect
               THEN /\ invalidateReconnectStability
                    /\ state' = "Reconnecting"
                    /\ scheduleReconnect
                    /\ UNCHANGED <<bootstrap, stopping, readyResult>>
               ELSE /\ closeEngine
                    /\ UNCHANGED <<reconnectTimers, reconnectAttempt>>
            /\ UNCHANGED <<connectionSeq, connectAttemptID, generation, poisoned, bootTimers>>
    /\ UNCHANGED <<pumping, incoming, gatewayVars, dials, autoReconnect, dialer>>

------------------------------------------------------------------------------
(* Dial goroutines.                                                        *)

\* dialConnection returns: TCP connect, version handshake and start_api done,
\* failed (also by cancellation or timeout), or an unsupported server.
DialReturns(d, outcome) ==
    /\ d \in dials /\ d.outcome = "dialing"
    /\ outcome \in Outcomes \ {"dialing"}
    /\ IF outcome = "ok" \/ closed THEN faults' = faults ELSE Fault
    /\ dials' = (dials \ {d}) \cup {[d EXCEPT !.outcome = outcome]}
    /\ UNCHANGED <<actorVars, pumpVars, timerVars, greeted, notices, autoReconnect,
                   readyResult, dialer>>

\* The result is stale or the actor is gone: whoever holds it closes the socket.
DiscardResult(d) ==
    /\ d \in dials /\ d.outcome # "dialing"
    /\ closed \/ d.attempt # connectAttemptID
    /\ dials' = dials \ {d}
    /\ UNCHANGED <<actorVars, pumpVars, timerVars, gatewayVars, autoReconnect,
                   readyResult, dialer>>

------------------------------------------------------------------------------
(* The decode pump and the loss goroutine of a transport.                   *)

\* The read side fails: peer close, read error, oversized or undecodable frame.
SocketFails(g) ==
    /\ g \in pumping /\ g \notin stopping
    /\ Fault
    /\ stopping' = stopping \cup {g}
    /\ UNCHANGED <<actorVars, pumping, incoming, transportErr, timerVars, greeted,
                   notices, dials, autoReconnect, readyResult, dialer>>

\* The decode pump forwards one message; frames already read are forwarded
\* after the transport began to stop.  A full channel blocks the pump.
Forward(g, msg) ==
    /\ g \in pumping
    /\ ~closed
    /\ Len(incoming) < InboxCap
    /\ incoming' = Append(incoming, [gen |-> g, msg |-> msg])
    /\ UNCHANGED <<actorVars, stopping, pumping, transportErr, timerVars, faults,
                   dials, autoReconnect, readyResult, dialer>>

\* start_api makes the gateway send both greetings.
GatewayGreets(g, msg) ==
    /\ g = generation
    /\ msg \in Greetings \ greeted
    /\ Forward(g, msg)
    /\ greeted' = greeted \cup {msg}
    /\ UNCHANGED notices

GatewayNotifies(g, msg) ==
    /\ msg \in Notices
    /\ notices < MaxNotices
    /\ msg \in {"1300", "malformed", "badNextValidID"} => faults < MaxFaults
    /\ Forward(g, msg)
    /\ notices' = notices + 1
    /\ UNCHANGED greeted

\* Mutant: the loss goroutine does not wait for the decode pump.
AfterPumpEarly(g) == pumping

\* The decode pump of g has returned.
AfterPump(g) == pumping \ {g}

\* The pump has forwarded its last message and both pumps are done: the loss
\* goroutine posts the loss, unless the engine is done.
PumpsReturn(g) ==
    /\ g \in pumping /\ g \in stopping
    /\ pumping' = AfterPump(g)
    /\ transportErr' = IF closed THEN transportErr ELSE transportErr \cup {g}
    /\ UNCHANGED <<actorVars, stopping, incoming, timerVars, gatewayVars, dials,
                   autoReconnect, readyResult, dialer>>

------------------------------------------------------------------------------
(* The caller of Dial.                                                     *)

DialTakesResult ==
    /\ dialer = "waiting" /\ readyResult # "none"
    /\ dialer' = IF readyResult = "ok" THEN "connected" ELSE "failed"
    /\ readyResult' = "none"
    /\ UNCHANGED <<actorVars, pumpVars, timerVars, gatewayVars, dials, autoReconnect>>

\* ctx ended and no result is buffered: Dial asks the actor to close and waits
\* for it.  A result buffered in between is ignored.
DialGivesUp ==
    /\ dialer = "waiting" /\ readyResult = "none"
    /\ dialer' = "closing"
    /\ UNCHANGED <<actorVars, pumpVars, timerVars, gatewayVars, dials, autoReconnect, readyResult>>

DialCloses ==
    /\ dialer = "closing"
    /\ \/ Close
       \/ closed /\ UNCHANGED <<actorVars, pumpVars, timerVars, gatewayVars, dials,
                                autoReconnect, readyResult>>
    /\ dialer' = "failed"

------------------------------------------------------------------------------

ActorStep ==
    \/ InitialConnect
    \/ \E d \in dials : AttachTransport(d) \/ ReconnectFailed(d) \/ ConnectRefused(d)
    \/ ReconnectTimer
    \/ \E g \in bootTimers : BootstrapTimeout(g)
    \/ \E t \in stabilityTimers : StabilityTimer(t)
    \/ DropInput \/ HandleGreeting \/ HandleCorruptInput
    \/ HandleConnectivityLost \/ HandleConnectivityRestored \/ HandleSocketReset
    \/ \E g \in transportErr : HandleTransportLoss(g)

DialStep ==
    \/ \E d \in dials, outcome \in Outcomes : DialReturns(d, outcome)
    \/ \E d \in dials : DiscardResult(d)

PumpStep == \E g \in pumping : PumpsReturn(g)

GreetStep == \E g \in pumping, msg \in Greetings : GatewayGreets(g, msg)

DialerStep == DialTakesResult \/ DialGivesUp \/ DialCloses

Next ==
    \/ ActorStep \/ DialStep \/ PumpStep \/ GreetStep \/ DialerStep
    \/ UserClose \/ RetireGeneration
    \/ \E g \in pumping : SocketFails(g)
    \/ \E g \in pumping, msg \in Notices : GatewayNotifies(g, msg)

\* The actor's select is fair and goroutines and timers run; the gateway
\* answers start_api.  Nobody is obliged to fail, to notify or to close.
Fairness ==
    /\ WF_vars(ActorStep)
    /\ WF_vars(DialStep)
    /\ WF_vars(PumpStep)
    /\ WF_vars(GreetStep)

Spec == Init /\ [][Next]_vars /\ Fairness

------------------------------------------------------------------------------
(* Properties.                                                             *)

Transports == 1 .. generation

SessionTypeOK ==
    /\ state \in States
    /\ connectionSeq \in Nat
    /\ bootstrap \subseteq {"serverInfo", "readyReported"} \cup Greetings
    /\ autoReconnect \in BOOLEAN
    /\ generation \in Nat
    /\ transport \in Transports \cup {NoTransport}
    /\ retiring \in Transports \cup {NoTransport}
    /\ poisoned \in Transports \cup {NoTransport}
    /\ reconnectAttempt \in 0 .. MaxBackoff
    /\ readyResult \in {"none", "ok", "error"}
    /\ dialer \in {"waiting", "closing", "connected", "failed"}

DialTypeOK ==
    /\ connectAttemptID \in Nat
    /\ dials \subseteq [attempt : Nat, reconnect : BOOLEAN, outcome : Outcomes]

PumpTypeOK ==
    /\ stopping \subseteq Transports
    /\ pumping \subseteq Transports
    /\ transportErr \subseteq Transports
    /\ incoming \in Seq([gen : Transports, msg : Notices \cup Greetings])

TimerTypeOK ==
    /\ reconnectTimers \in Nat
    /\ bootTimers \subseteq Transports
    /\ stabilityEpoch \in Nat
    /\ stabilityTimers \subseteq [transport : Transports, epoch : Nat, disturbed : BOOLEAN]

GatewayTypeOK ==
    /\ greeted \subseteq Greetings
    /\ notices \in 0 .. MaxNotices
    /\ faults \in 0 .. MaxFaults

\* Every handle names a transport that was attached; the counters stay in
\* their ranges.
TypeOK ==
    /\ SessionTypeOK
    /\ DialTypeOK
    /\ PumpTypeOK
    /\ TimerTypeOK
    /\ GatewayTypeOK

Bit(b) == IF b THEN 1 ELSE 0

\* After the first command and until close, exactly one thing can move the
\* session forward: a reconnect timer, the current dial, or a transport.  None
\* means a client that hangs in Reconnecting; two mean a transport that is
\* overwritten while its socket is open.
OneRecoveryPath ==
    state \notin {"Disconnected", "Closed"} =>
      /\ \A d1, d2 \in dials : d1 = d2
      /\ reconnectTimers + Bit(dials # {}) + Bit(transport # NoTransport) = 1

\* The pump ordering of attachTransport: everything a connection decoded is in
\* front of its loss, so no input and no loss of a replaced connection exists.
NoStaleInput ==
    ~closed =>
      /\ \A i \in 1 .. Len(incoming) : incoming[i].gen = transport
      /\ transportErr \cup pumping \subseteq {transport}

\* A physical connection publishes at most one ConnectionSeq, however often
\* managed accounts and next-valid-ID arrive again on it.
OneSeqPerConnection == connectionSeq <= generation

\* Dial returns: once the engine is closed a result is buffered for it, and an
\* error from Dial leaves no running engine behind.
DialNotStranded ==
    /\ closed /\ dialer = "waiting" => readyResult # "none"
    /\ dialer = "failed" => closed

\* The bootstrap is published once for each connection, and to the Dial caller.
BootstrapHonest == OneSeqPerConnection /\ DialNotStranded

\* reconnectDelay starts over only after a quiet period: no connectivity loss
\* and no transport loss since that stability timer was armed.
BackoffResetsOnlyWhenStable ==
    [][reconnectAttempt' < reconnectAttempt =>
         \E t \in stabilityTimers \ stabilityTimers' : ~t.disturbed /\ t.transport = transport]_vars

\* A lost session is published as Ready again, with the bootstrap of the new
\* connection complete, or the client ends.  A loss leaves the old bootstrap
\* facts in place; only the next startConnect clears them.
Recovers ==
    state = "Reconnecting" ~>
      (closed \/ (state = "Ready" /\ "readyReported" \in bootstrap))

\* Close releases every socket: attached ones and the one a racing dial won.
CloseReleasesSockets == closed ~> (dials = {} /\ pumping = {})

\* docs/session-contract.md: "Ready marks bootstrap completion".
ReadyMeansBootstrapped ==
    state \in {"Ready", "Degraded"} => "readyReported" \in bootstrap
==============================================================================
