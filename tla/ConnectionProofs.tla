-------------------------- MODULE ConnectionProofs --------------------------
(***************************************************************************)
(* The connection lifecycle for every number of faults, notices and every   *)
(* channel capacity: the inductive invariant of ConnectionLink.tla, the     *)
(* safety properties it implies, and the refinement of Link.               *)
(***************************************************************************)
EXTENDS ConnectionLink, SequenceTheorems, TLAPS

\* What a handled input knows: it belongs to the attached transport, and the
\* rest of the channel still does.
LEMMA InputFacts ==
    ASSUME TypeOK, PumpInv, TakeInput
    PROVE  /\ state # "Closed"
           /\ transport # NoTransport
           /\ transport = generation
           /\ transport \in Transports
           /\ Input.gen = generation
           /\ Input.msg \in Notices \cup Greetings
           /\ \A i \in 1 .. Len(incoming') : incoming'[i].gen = transport
           /\ incoming' \in Seq([gen : Transports, msg : Notices \cup Greetings])
  <1> DEFINE E == [gen : Transports, msg : Notices \cup Greetings]
  <1>1. /\ incoming \in Seq(E) /\ incoming # <<>> /\ incoming' = Tail(incoming)
        /\ state # "Closed"
        /\ generation \in Nat
    BY DEF TypeOK, PumpTypeOK, SessionTypeOK, TakeInput, closed
  <1>2. \A i \in 1 .. Len(incoming) : incoming[i].gen = transport
    BY <1>1 DEF PumpInv, closed
  <1>3. /\ Head(incoming) \in E
        /\ Head(incoming) = incoming[1]
        /\ 1 \in 1 .. Len(incoming)
        /\ Tail(incoming) \in Seq(E)
        /\ \A i \in 1 .. Len(Tail(incoming)) :
             i + 1 \in 1 .. Len(incoming) /\ Tail(incoming)[i] = incoming[i + 1]
    <2> HIDE DEF E
    <2>1. Len(incoming) \in Nat /\ Len(incoming) # 0
      BY <1>1, EmptySeq
    <2> QED
      BY <1>1, <2>1, HeadTailProperties
  <1>4. Input.gen = transport /\ Input.gen \in Transports
    BY <1>2, <1>3 DEF Input
  <1>5. transport \in {NoTransport, generation}
    BY <1>1 DEF PumpInv, closed
  <1>6. transport # NoTransport
    BY <1>4, <1>1 DEF Transports, NoTransport
  <1>7. \A i \in 1 .. Len(incoming') : incoming'[i].gen = transport
    BY <1>1, <1>2, <1>3
  <1> QED
    BY <1>1, <1>3, <1>4, <1>5, <1>6, <1>7 DEF Input

\* Stopping the current transport keeps the set of stopped ones well typed.
LEMMA StopFacts ==
    ASSUME TypeOK, StopTransport
    PROVE  /\ stopping \subseteq stopping'
           /\ stopping' \subseteq Transports
           /\ stopping' \subseteq stopping \cup {transport}
           /\ transport # NoTransport => transport \in stopping'
  BY DEF TypeOK, SessionTypeOK, PumpTypeOK, StopTransport

\* The history flag of pending stability timers changes nothing else.
LEMMA DisturbFacts ==
    ASSUME TimerTypeOK
    PROVE  Disturb(stabilityTimers)
             \subseteq [transport : Transports, epoch : Nat, disturbed : BOOLEAN]
  BY DEF TimerTypeOK, Disturb

\* What closing the engine leaves behind.
LEMMA CloseFacts ==
    ASSUME TypeOK, closeEngine
    PROVE  /\ state' = "Closed"
           /\ bootstrap' \subseteq {"serverInfo", "readyReported"} \cup Greetings
           /\ stabilityEpoch' \in Nat
           /\ stabilityTimers' \subseteq [transport : Transports, epoch : Nat, disturbed : BOOLEAN]
           /\ stopping \subseteq stopping'
           /\ stopping' \subseteq Transports
           /\ transport # NoTransport => transport \in stopping'
           /\ readyResult' \in {"none", "ok", "error"}
  <1>1. StopTransport
    BY DEF closeEngine
  <1>2. /\ stopping \subseteq stopping'
        /\ stopping' \subseteq Transports
        /\ transport # NoTransport => transport \in stopping'
    BY <1>1, StopFacts
  <1>3. stabilityTimers' \subseteq [transport : Transports, epoch : Nat, disturbed : BOOLEAN]
    BY DisturbFacts DEF closeEngine, TypeOK
  <1> QED
    BY <1>2, <1>3 DEF closeEngine, reportReady, TypeOK, SessionTypeOK, TimerTypeOK

------------------------------------------------------------------------------
(* Type correctness.                                                       *)

\* Which operations touch which part of the state.
LEMMA Frames ==
    ASSUME [Next]_vars
    PROVE  /\ \/ dials' \subseteq dials /\ connectAttemptID' = connectAttemptID
              \/ \E r \in BOOLEAN : startConnect(r)
              \/ \E d \in dials, o \in Outcomes : DialReturns(d, o)
           /\ generation' = generation \/ \E d \in dials : AttachTransport(d)
           /\ pumping' \subseteq pumping \/ \E d \in dials : AttachTransport(d)
           /\ bootTimers' \subseteq bootTimers \/ \E d \in dials : AttachTransport(d)
           /\ \/ stopping' = stopping
              \/ StopTransport
              \/ \E g \in pumping : stopping' = stopping \cup {g}
           /\ \/ transportErr' \subseteq transportErr
              \/ \E g \in pumping : transportErr' = transportErr \cup {g}
           /\ \/ incoming' = incoming
              \/ TakeInput
              \/ \E g \in pumping, msg \in Notices \cup Greetings : Forward(g, msg)
           /\ stabilityEpoch' \in {stabilityEpoch, stabilityEpoch + 1}
           /\ \/ stabilityTimers' \subseteq stabilityTimers
              \/ stabilityTimers' = Disturb(stabilityTimers)
              \/ TakeInput /\ scheduleReconnectStability
           /\ \/ reconnectTimers' = reconnectTimers
              \/ scheduleReconnect
              \/ reconnectTimers > 0 /\ reconnectTimers' = reconnectTimers - 1
           /\ reconnectAttempt' \in {reconnectAttempt, 0} \/ scheduleReconnect
           /\ autoReconnect' = autoReconnect
           /\ UNCHANGED faults \/ Fault
           /\ greeted' \subseteq greeted \cup Greetings
           /\ notices' = notices \/ (notices < MaxNotices /\ notices' = notices + 1)
           /\ state' = state \/ state' \in States
           /\ connectionSeq' \in {connectionSeq, connectionSeq + 1}
           /\ bootstrap' \subseteq bootstrap \cup {"serverInfo", "readyReported"} \cup Greetings
           /\ transport' \in {transport, NoTransport} \/ \E d \in dials : AttachTransport(d)
           /\ retiring' \in {retiring, transport, NoTransport}
           /\ poisoned' = poisoned \/ (TakeInput /\ poisoned' = generation)
           /\ readyResult' \in {readyResult, "none", "ok", "error"}
           /\ dialer' = dialer \/ dialer' \in {"closing", "connected", "failed"}
  <1> USE DEF Next, vars, actorVars, pumpVars, timerVars, gatewayVars, ActorStep, DialStep,
           PumpStep, GreetStep, DialerStep, InitialConnect, AttachTransport,
           ReconnectFailed, ConnectRefused, ReconnectTimer, BootstrapTimeout,
           StabilityTimer, DropInput, HandleGreeting, HandleCorruptInput,
           HandleConnectivityLost, HandleConnectivityRestored, HandleSocketReset,
           HandleTransportLoss, DialReturns, DiscardResult, PumpsReturn, GatewayGreets,
           GatewayNotifies, DialTakesResult, DialGivesUp, DialCloses, Close,
           UserClose, RetireGeneration, SocketFails
  <1>1. \/ dials' \subseteq dials /\ connectAttemptID' = connectAttemptID
        \/ \E r \in BOOLEAN : startConnect(r)
        \/ \E d \in dials, o \in Outcomes : DialReturns(d, o)
    BY DEF TakeInput, Forward
  <1>2. generation' = generation \/ \E d \in dials : AttachTransport(d)
    BY DEF TakeInput, Forward
  <1>3. pumping' \subseteq pumping \/ \E d \in dials : AttachTransport(d)
    BY DEF TakeInput, Forward, AfterPump
  <1>4. bootTimers' \subseteq bootTimers \/ \E d \in dials : AttachTransport(d)
    BY DEF TakeInput, Forward
  <1>5. \/ stopping' = stopping
        \/ StopTransport
        \/ \E g \in pumping : stopping' = stopping \cup {g}
    BY DEF TakeInput, Forward, closeEngine, retireTransport
  <1>6. \/ transportErr' \subseteq transportErr
        \/ \E g \in pumping : transportErr' = transportErr \cup {g}
    BY DEF TakeInput, Forward
  <1>7. \/ incoming' = incoming
        \/ TakeInput
        \/ \E g \in pumping, msg \in Notices \cup Greetings : Forward(g, msg)
    OBVIOUS
  <1>8. stabilityEpoch' \in {stabilityEpoch, stabilityEpoch + 1}
    BY DEF closeEngine, maybeReady, invalidateReconnectStability,
           scheduleReconnectStability, Forward
  <1>9. \/ stabilityTimers' \subseteq stabilityTimers
        \/ stabilityTimers' = Disturb(stabilityTimers)
        \/ TakeInput /\ scheduleReconnectStability
    BY DEF closeEngine, maybeReady, invalidateReconnectStability, Forward
  <1>10. \/ reconnectTimers' = reconnectTimers
         \/ scheduleReconnect
         \/ reconnectTimers > 0 /\ reconnectTimers' = reconnectTimers - 1
    BY DEF TakeInput, Forward
  <1>11. reconnectAttempt' \in {reconnectAttempt, 0} \/ scheduleReconnect
    BY DEF TakeInput, Forward
  <1>12. autoReconnect' = autoReconnect
    BY DEF TakeInput, Forward
  <1>13. UNCHANGED faults \/ Fault
    BY DEF TakeInput, Forward
  <1>14. /\ greeted' \subseteq greeted \cup Greetings
         /\ notices' = notices \/ (notices < MaxNotices /\ notices' = notices + 1)
    BY DEF TakeInput, Forward
  <1>15. state' = state \/ state' \in States
    BY DEF TakeInput, Forward, startConnect, closeEngine, maybeReady, States
  <1>16. connectionSeq' \in {connectionSeq, connectionSeq + 1}
    BY DEF TakeInput, Forward, maybeReady
  <1>17. bootstrap' \subseteq bootstrap \cup {"serverInfo", "readyReported"} \cup Greetings
    BY DEF TakeInput, Forward, startConnect, closeEngine, maybeReady
  <1>18. transport' \in {transport, NoTransport} \/ \E d \in dials : AttachTransport(d)
    BY DEF TakeInput, Forward
  <1>19. retiring' \in {retiring, transport, NoTransport}
    BY DEF TakeInput, Forward, retireTransport
  <1>20. poisoned' = poisoned \/ (TakeInput /\ poisoned' = generation)
    BY DEF Forward
  <1>21. readyResult' \in {readyResult, "none", "ok", "error"}
    BY DEF TakeInput, Forward, closeEngine, reportReady, maybeReady
  <1>22. dialer' = dialer \/ dialer' \in {"closing", "connected", "failed"}
    BY DEF TakeInput, Forward
  <1> QED
    BY <1>1, <1>2, <1>3, <1>4, <1>5, <1>6, <1>7, <1>8, <1>9, <1>10, <1>11, <1>12, <1>13,
       <1>14, <1>15, <1>16, <1>17, <1>18, <1>19, <1>20, <1>21, <1>22

\* Generations only grow, so a typed transport stays typed.
LEMMA GenerationStep ==
    ASSUME TypeOK, [Next]_vars
    PROVE  /\ generation' \in {generation, generation + 1}
           /\ Transports \subseteq Transports'
           /\ \A d \in dials : AttachTransport(d) => generation + 1 \in Transports'
  <1>1. generation \in Nat
    BY DEF TypeOK, SessionTypeOK
  <1>2. generation' \in {generation, generation + 1}
    BY Frames DEF AttachTransport, NewGeneration
  <1> QED
    BY <1>1, <1>2 DEF Transports, AttachTransport, NewGeneration

\* Dial goroutines.
LEMMA DialTypeStep == TypeOK /\ [Next]_vars => DialTypeOK'
  <1> SUFFICES ASSUME TypeOK, [Next]_vars PROVE DialTypeOK'
    OBVIOUS
  <1>1. CASE dials' \subseteq dials /\ connectAttemptID' = connectAttemptID
    BY <1>1 DEF TypeOK, DialTypeOK
  <1>2. ASSUME NEW r \in BOOLEAN, startConnect(r) PROVE DialTypeOK'
    BY <1>2 DEF TypeOK, DialTypeOK, startConnect, Outcomes
  <1>3. ASSUME NEW d \in dials, NEW o \in Outcomes, DialReturns(d, o) PROVE DialTypeOK'
    <2>1. d \in [attempt : Nat, reconnect : BOOLEAN, outcome : Outcomes]
      BY DEF TypeOK, DialTypeOK
    <2>2. [d EXCEPT !.outcome = o] \in [attempt : Nat, reconnect : BOOLEAN, outcome : Outcomes]
      BY <2>1
    <2> QED
      BY <1>3, <2>2 DEF TypeOK, DialTypeOK, DialReturns, actorVars
  <1> QED
    BY <1>1, <1>2, <1>3, Frames

\* Pumps, the input channel and the loss channel.
LEMMA PumpTypeStep == TypeOK /\ PumpInv /\ [Next]_vars => PumpTypeOK'
  <1> SUFFICES ASSUME TypeOK, PumpInv, [Next]_vars PROVE PumpTypeOK'
    OBVIOUS
  <1>1. /\ Transports \subseteq Transports'
        /\ stopping \subseteq Transports /\ pumping \subseteq Transports
        /\ transportErr \subseteq Transports
        /\ \A d \in dials : AttachTransport(d) => pumping' \subseteq Transports'
    BY GenerationStep DEF TypeOK, PumpTypeOK, AttachTransport, NewGeneration
  <1>2. stopping' \subseteq Transports'
    BY <1>1, Frames, StopFacts
  <1>3. pumping' \subseteq Transports' /\ transportErr' \subseteq Transports'
    BY <1>1, Frames
  <1>4. incoming' \in Seq([gen : Transports', msg : Notices \cup Greetings])
    <2> DEFINE Old == [gen : Transports, msg : Notices \cup Greetings]
               New == [gen : Transports', msg : Notices \cup Greetings]
    <2>1. Old \subseteq New
      BY <1>1
    <2>2. incoming \in Seq(Old)
      BY DEF TypeOK, PumpTypeOK
    <2>3. ASSUME NEW s \in Seq(Old) PROVE s \in Seq(New)
      <3> HIDE DEF Old, New
      <3> QED
        BY <2>1
    <2>4. CASE incoming' = incoming
      BY <2>2, <2>3, <2>4
    <2>5. CASE TakeInput
      BY <2>3, <2>5, InputFacts
    <2>6. ASSUME NEW g \in pumping, NEW msg \in Notices \cup Greetings, Forward(g, msg)
          PROVE  incoming' \in Seq(New)
      <3>1. [gen |-> g, msg |-> msg] \in Old
        BY <1>1
      <3>2. incoming' = Append(incoming, [gen |-> g, msg |-> msg])
        BY <2>6 DEF Forward
      <3> HIDE DEF Old, New
      <3>3. incoming' \in Seq(Old)
        BY <2>2, <3>1, <3>2
      <3> QED
        BY <2>3, <3>3
    <2> QED
      BY <2>4, <2>5, <2>6, Frames
  <1> QED
    BY <1>2, <1>3, <1>4 DEF PumpTypeOK

\* Timers.
LEMMA TimerTypeStep == TypeOK /\ PumpInv /\ [Next]_vars => TimerTypeOK'
  <1> SUFFICES ASSUME TypeOK, PumpInv, [Next]_vars PROVE TimerTypeOK'
    OBVIOUS
  <1>1. /\ Transports \subseteq Transports'
        /\ bootTimers \subseteq Transports
        /\ reconnectTimers \in Nat /\ stabilityEpoch \in Nat
        /\ \A d \in dials : AttachTransport(d) => bootTimers' \subseteq Transports'
    BY GenerationStep DEF TypeOK, TimerTypeOK, AttachTransport, NewGeneration
  <1>2. bootTimers' \subseteq Transports' /\ stabilityEpoch' \in Nat
    BY <1>1, Frames
  <1>3. reconnectTimers' \in Nat
    BY <1>1, Frames DEF scheduleReconnect
  <1>4. stabilityTimers' \subseteq [transport : Transports', epoch : Nat, disturbed : BOOLEAN]
    <2> DEFINE Old == [transport : Transports, epoch : Nat, disturbed : BOOLEAN]
    <2>1. Old \subseteq [transport : Transports', epoch : Nat, disturbed : BOOLEAN]
      BY <1>1
    <2>2. stabilityTimers \subseteq Old /\ Disturb(stabilityTimers) \subseteq Old
      BY DisturbFacts DEF TypeOK, TimerTypeOK
    <2>3. ASSUME TakeInput, scheduleReconnectStability PROVE stabilityTimers' \subseteq Old
      <3>1. transport \in Transports
        BY <2>3, InputFacts
      <3>2. stabilityEpoch + 1 \in Nat
        BY <1>1
      <3> DEFINE timer == [transport |-> transport, epoch |-> stabilityEpoch + 1,
                           disturbed |-> FALSE]
      <3>3. timer \in Old
        BY <3>1, <3>2
      <3>4. stabilityTimers' = stabilityTimers \cup {timer}
        BY <2>3 DEF scheduleReconnectStability
      <3> HIDE DEF timer, Old
      <3> QED
        BY <2>2, <3>3, <3>4
    <2> HIDE DEF Old
    <2> QED
      BY <2>1, <2>2, <2>3, Frames
  <1> QED
    BY <1>2, <1>3, <1>4 DEF TimerTypeOK

\* The published session, its handles and the gateway counters.
LEMMA SessionTypeStep == TypeOK /\ PumpInv /\ [Next]_vars => SessionTypeOK' /\ GatewayTypeOK'
  <1> SUFFICES ASSUME TypeOK, PumpInv, [Next]_vars PROVE SessionTypeOK' /\ GatewayTypeOK'
    OBVIOUS
  <1>1. /\ generation \in Nat /\ generation' \in {generation, generation + 1}
        /\ Transports \subseteq Transports'
        /\ TakeInput => generation \in Transports
        /\ \A d \in dials : AttachTransport(d) => transport' \in Transports'
    BY GenerationStep, InputFacts DEF TypeOK, SessionTypeOK, AttachTransport, NewGeneration
  <1>2. /\ transport' \in Transports' \cup {NoTransport}
        /\ retiring' \in Transports' \cup {NoTransport}
        /\ poisoned' \in Transports' \cup {NoTransport}
    BY <1>1, Frames DEF TypeOK, SessionTypeOK
  <1>3. reconnectAttempt' \in 0 .. MaxBackoff
    BY Frames, BoundsAssumption DEF TypeOK, SessionTypeOK, scheduleReconnect
  <1>4. /\ state' \in States
        /\ bootstrap' \subseteq {"serverInfo", "readyReported"} \cup Greetings
        /\ readyResult' \in {"none", "ok", "error"}
        /\ dialer' \in {"waiting", "closing", "connected", "failed"}
        /\ autoReconnect' \in BOOLEAN
    BY Frames DEF TypeOK, SessionTypeOK
  <1>5. generation' \in Nat /\ connectionSeq' \in Nat
    BY <1>1, Frames DEF TypeOK, SessionTypeOK
  <1>6. GatewayTypeOK'
    BY Frames, BoundsAssumption DEF TypeOK, GatewayTypeOK, Fault
  <1> QED
    BY <1>2, <1>3, <1>4, <1>5, <1>6 DEF SessionTypeOK

------------------------------------------------------------------------------
(* The inductive invariant.                                                *)

\* One means of progress at a time.
LEMMA PathStep == TypeOK /\ PathInv /\ PumpInv /\ [Next]_vars => PathInv'
  <1> SUFFICES ASSUME TypeOK, PathInv, PumpInv, [Next]_vars PROVE PathInv'
    OBVIOUS
  <1> DEFINE Same == UNCHANGED <<state, transport, dials, reconnectTimers, connectAttemptID>>
  <1> USE DEF closed, NoTransport
  <1>0. autoReconnect' = autoReconnect
    BY Frames
  <1>1. CASE state' = "Closed"
    BY <1>1 DEF PathInv
  <1>2. CASE Same
    BY <1>0, <1>2 DEF PathInv
  <1>3. ASSUME InitialConnect PROVE PathInv'
    <2>1. dials = {} /\ transport = 0 /\ reconnectTimers = 0
      BY <1>3 DEF PathInv, InitialConnect
    <2>2. /\ dials' = {[attempt |-> connectAttemptID + 1, reconnect |-> FALSE, outcome |-> "dialing"]}
          /\ connectAttemptID' = connectAttemptID + 1
          /\ state' = "Connecting" /\ transport' = 0 /\ reconnectTimers' = 0
      BY <1>3, <2>1 DEF InitialConnect, startConnect, timerVars
    <2> QED
      BY <2>2 DEF PathInv
  <1>4. ASSUME NEW d \in dials, AttachTransport(d) PROVE PathInv'
    <2>1. dials' = {} /\ reconnectTimers' = 0 /\ state' = "Handshaking"
      BY <1>4 DEF AttachTransport, PathInv
    <2>2. transport' # 0
      BY <1>4 DEF AttachTransport, NewGeneration, TypeOK, SessionTypeOK
    <2> QED
      BY <2>1, <2>2 DEF PathInv
  <1>5. ASSUME NEW d \in dials, ReconnectFailed(d) PROVE PathInv'
    BY <1>0, <1>5 DEF ReconnectFailed, scheduleReconnect, PathInv
  <1>6. ASSUME ReconnectTimer PROVE PathInv'
    <2>1. /\ reconnectTimers = 1 /\ state = "Reconnecting" /\ dials = {} /\ transport = 0
          /\ reconnectTimers' = 0 /\ transport' = 0
      BY <1>6 DEF ReconnectTimer, PathInv, TypeOK, TimerTypeOK
    <2>2. autoReconnect
      BY <1>6, <2>1 DEF PathInv, ReconnectTimer
    <2>3. startConnect(TRUE)
      BY <1>6, <2>1, <2>2 DEF ReconnectTimer
    <2>4. /\ dials' = {[attempt |-> connectAttemptID + 1, reconnect |-> TRUE, outcome |-> "dialing"]}
          /\ connectAttemptID' = connectAttemptID + 1
          /\ state' = "Reconnecting"
      BY <2>1, <2>3 DEF startConnect
    <2> QED
      BY <1>0, <2>1, <2>2, <2>4 DEF PathInv
  <1>7. ASSUME TakeInput, state' \in {"Ready", "Degraded"} PROVE PathInv'
    <2>1. transport # 0 /\ state # "Closed"
      BY <1>7, InputFacts
    <2>2. UNCHANGED <<transport, dials, reconnectTimers, connectAttemptID>>
      BY <1>7 DEF TakeInput
    <2> QED
      BY <1>7, <2>1, <2>2 DEF PathInv
  <1>8. ASSUME NEW g \in transportErr, HandleTransportLoss(g), ~Same, state' # "Closed"
        PROVE  PathInv'
    <2>1. transport = g /\ state # "Closed" /\ g # 0
      BY <1>8 DEF HandleTransportLoss, PumpInv, TypeOK, PumpTypeOK, Transports
    <2>2. dials = {} /\ reconnectTimers = 0
      BY <2>1 DEF PathInv
    <2>3. autoReconnect /\ state' = "Reconnecting" /\ transport' = 0 /\ dials' = dials
          /\ reconnectTimers' = 1
      BY <1>8, <2>1, <2>2 DEF HandleTransportLoss, scheduleReconnect, closeEngine
    <2> QED
      BY <1>0, <2>2, <2>3 DEF PathInv
  <1>9. ASSUME NEW d \in dials, NEW o \in Outcomes, DialReturns(d, o) PROVE PathInv'
    <2>1. CASE state = "Closed"
      BY <1>9, <2>1 DEF DialReturns, PathInv, actorVars
    <2>2. CASE state # "Closed"
      <3>1. dials = {d} /\ d \in [attempt : Nat, reconnect : BOOLEAN, outcome : Outcomes]
        BY <2>2 DEF PathInv, TypeOK, DialTypeOK
      <3>2. /\ dials' = {[d EXCEPT !.outcome = o]}
            /\ UNCHANGED <<state, transport, reconnectTimers, connectAttemptID>>
        BY <1>9, <3>1 DEF DialReturns, actorVars, timerVars
      <3>3. /\ [d EXCEPT !.outcome = o].attempt = d.attempt
            /\ [d EXCEPT !.outcome = o].reconnect = d.reconnect
        BY <3>1
      <3> QED
        BY <1>0, <2>2, <3>1, <3>2, <3>3 DEF PathInv
    <2> QED
      BY <2>1, <2>2
  <1>10. ASSUME NEW d \in dials, DiscardResult(d) PROVE PathInv'
    BY <1>10 DEF DiscardResult, PathInv, actorVars
  <1> HIDE DEF Same
  <1>11. \/ state' = "Closed" \/ Same \/ InitialConnect \/ ReconnectTimer
         \/ \E d \in dials : AttachTransport(d) \/ ReconnectFailed(d) \/ DiscardResult(d)
         \/ TakeInput /\ state' \in {"Ready", "Degraded"}
         \/ \E g \in transportErr : HandleTransportLoss(g)
         \/ \E d \in dials, o \in Outcomes : DialReturns(d, o)
    BY DEF Same, Next, vars, actorVars, pumpVars, timerVars, gatewayVars, ActorStep, DialStep,
           PumpStep, GreetStep, DialerStep, ConnectRefused, BootstrapTimeout,
           StabilityTimer, DropInput, HandleGreeting, HandleCorruptInput, TakeInput,
           HandleConnectivityLost, HandleConnectivityRestored, HandleSocketReset,
           PumpsReturn, GatewayGreets, GatewayNotifies, Forward, DialTakesResult,
           DialGivesUp, DialCloses, Close, UserClose, RetireGeneration, SocketFails,
           closeEngine, maybeReady
  <1> QED
    BY <1>1, <1>2, <1>3, <1>4, <1>5, <1>6, <1>7, <1>8, <1>9, <1>10, <1>11

\* The loss of a transport comes after everything it decoded.
LEMMA PumpOrderStep == TypeOK /\ PathInv /\ PumpInv /\ [Next]_vars => PumpInv'
  <1> SUFFICES ASSUME TypeOK, PathInv, PumpInv, [Next]_vars PROVE PumpInv'
    OBVIOUS
  <1> DEFINE Same == /\ UNCHANGED <<generation, transport, pumping, transportErr>>
                     /\ incoming' = incoming \/ TakeInput
                     /\ stopping \subseteq stopping'
                     /\ state = "Closed" => state' = "Closed"
  <1> USE DEF closed, NoTransport
  <1>1. CASE Same
    BY <1>1, InputFacts DEF PumpInv
  <1>2. ASSUME NEW d \in dials, AttachTransport(d) PROVE PumpInv'
    <2>1. transport = 0 /\ state # "Closed"
      BY <1>2 DEF AttachTransport, PathInv
    <2>2. pumping = {} /\ transportErr = {} /\ Len(incoming) = 0
      <3>1. pumping = {} /\ transportErr = {}
        BY <2>1 DEF PumpInv, TypeOK, PumpTypeOK, Transports
      <3>2. \A i \in 1 .. Len(incoming) : incoming[i].gen = 0 /\ incoming[i].gen \in Transports
        <4> DEFINE E == [gen : Transports, msg : Notices \cup Greetings]
        <4>1. incoming \in Seq(E)
          BY DEF TypeOK, PumpTypeOK
        <4>2. \A i \in 1 .. Len(incoming) : incoming[i] \in E
          <5> HIDE DEF E
          <5> QED
            BY <4>1, ElementOfSeq
        <4>3. \A i \in 1 .. Len(incoming) : incoming[i].gen = 0
          BY <2>1 DEF PumpInv
        <4> QED
          BY <4>2, <4>3
      <3>3. Len(incoming) \in Nat
        BY DEF TypeOK, PumpTypeOK
      <3> QED
        BY <3>1, <3>2, <3>3 DEF Transports
    <2>3. /\ generation' = generation + 1 /\ transport' = generation + 1
          /\ pumping' = {generation + 1} /\ transportErr' = {} /\ incoming' = incoming
      BY <1>2, <2>2 DEF AttachTransport, NewGeneration
    <2> QED
      BY <2>2, <2>3 DEF PumpInv
  <1>3. ASSUME NEW g \in transportErr, HandleTransportLoss(g) PROVE PumpInv'
    <2>1. /\ transport = g /\ state # "Closed" /\ g \notin pumping
          /\ pumping = {} /\ transportErr = {g} /\ incoming = <<>>
      BY <1>3 DEF HandleTransportLoss, PumpInv, Drained
    <2>2. /\ transport' = 0 /\ transportErr' = {} /\ pumping' = {} /\ incoming' = <<>>
          /\ generation' = generation
      BY <1>3, <2>1 DEF HandleTransportLoss
    <2> QED
      BY <2>2 DEF PumpInv
  <1>4. ASSUME NEW g \in pumping, PumpsReturn(g) PROVE PumpInv'
    BY <1>4 DEF PumpsReturn, AfterPump, PumpInv, actorVars
  <1>5. ASSUME NEW g \in pumping, NEW msg \in Notices \cup Greetings, Forward(g, msg),
               UNCHANGED <<transport, generation, pumping, transportErr, stopping, state>>
        PROVE  PumpInv'
    <2>1. /\ g = transport
          /\ incoming' = Append(incoming, [gen |-> g, msg |-> msg])
      BY <1>5 DEF Forward, PumpInv
    <2>2. \A i \in 1 .. Len(incoming') : incoming'[i].gen = transport
      <3>1. \A i \in 1 .. Len(incoming) : incoming[i].gen = transport
        BY <1>5 DEF Forward, PumpInv
      <3>2. /\ Len(incoming) \in Nat
            /\ Len(incoming') = Len(incoming) + 1
            /\ \A i \in 1 .. Len(incoming) : incoming'[i] = incoming[i]
            /\ incoming'[Len(incoming) + 1] = [gen |-> g, msg |-> msg]
        BY <2>1, AppendProperties DEF TypeOK, PumpTypeOK
      <3> QED
        BY <2>1, <3>1, <3>2
    <2> QED
      BY <1>5, <2>2 DEF PumpInv
  <1> HIDE DEF Same
  <1>6. \/ Same
        \/ \E d \in dials : AttachTransport(d)
        \/ \E g \in transportErr : HandleTransportLoss(g)
        \/ \E g \in pumping : PumpsReturn(g)
        \/ \E g \in pumping, msg \in Notices \cup Greetings :
              Forward(g, msg) /\ UNCHANGED <<transport, generation, pumping, transportErr,
                                             stopping, state>>
    BY DEF Same, Next, vars, actorVars, pumpVars, timerVars, gatewayVars, ActorStep, DialStep,
           PumpStep, GreetStep, DialerStep, InitialConnect, ReconnectFailed, ReconnectTimer,
           startConnect, ConnectRefused, BootstrapTimeout, StabilityTimer, DropInput,
           HandleGreeting, HandleCorruptInput, TakeInput, HandleConnectivityLost,
           HandleConnectivityRestored, HandleSocketReset, DialReturns, DiscardResult,
           GatewayGreets, GatewayNotifies, Forward, DialTakesResult, DialGivesUp,
           DialCloses, Close, UserClose, RetireGeneration, SocketFails, closeEngine,
           StopTransport, retireTransport
  <1> QED
    BY <1>1, <1>2, <1>3, <1>4, <1>5, <1>6

\* A bootstrap that was not reported has not been counted.
LEMMA SeqStep == TypeOK /\ PathInv /\ PumpInv /\ SeqInv /\ [Next]_vars => SeqInv'
  <1> SUFFICES ASSUME TypeOK, PathInv, PumpInv, SeqInv, [Next]_vars PROVE SeqInv'
    OBVIOUS
  <1> DEFINE Same == /\ UNCHANGED <<connectionSeq, generation>>
                     /\ \/ transport' = 0
                        \/ state' = "Closed"
                        \/ /\ transport' = transport /\ bootstrap \subseteq bootstrap'
                           /\ state # "Closed"
  <1> USE DEF closed, NoTransport
  <1> DEFINE Counted ==
               /\ connectionSeq <= generation
               /\ ~closed /\ transport # NoTransport /\ "readyReported" \notin bootstrap =>
                    connectionSeq < generation
  <1>0. connectionSeq \in Nat /\ generation \in Nat
    BY DEF TypeOK, SessionTypeOK
  <1>1. ASSUME Same PROVE Counted'
    BY <1>1 DEF SeqInv
  <1>2. ASSUME NEW d \in dials, AttachTransport(d) PROVE Counted'
    BY <1>0, <1>2 DEF AttachTransport, NewGeneration, SeqInv
  <1>3. ASSUME HandleGreeting PROVE Counted'
    <2>1. /\ transport # 0 /\ state # "Closed"
          /\ UNCHANGED <<generation, transport>>
      BY <1>3, InputFacts DEF HandleGreeting, TakeInput
    <2>2. CASE CompletesBootstrap(bootstrap \cup {Input.msg})
      <3>1. /\ "readyReported" \notin bootstrap
            /\ connectionSeq' = connectionSeq + 1
            /\ "readyReported" \in bootstrap'
        BY <1>3, <2>2 DEF HandleGreeting, maybeReady, CompletesBootstrap
      <3> QED
        BY <1>0, <2>1, <3>1 DEF SeqInv
    <2>3. CASE ~CompletesBootstrap(bootstrap \cup {Input.msg})
      <3>1. bootstrap \subseteq bootstrap' /\ connectionSeq' = connectionSeq
        BY <1>3, <2>3 DEF HandleGreeting, maybeReady
      <3> QED
        BY <2>1, <3>1 DEF SeqInv
    <2> QED
      BY <2>2, <2>3
  <1>4. transport # 0 => reconnectTimers = 0 \/ state = "Closed"
    BY DEF PathInv
  <1>5. state = "Disconnected" => transport = 0
    BY DEF PathInv
  <1> USE DEF Next, vars, actorVars, pumpVars, timerVars, gatewayVars, ActorStep, DialStep,
           PumpStep, GreetStep, DialerStep, InitialConnect, ReconnectFailed, ReconnectTimer,
           startConnect, ConnectRefused, BootstrapTimeout, StabilityTimer, DropInput,
           HandleCorruptInput, TakeInput, HandleConnectivityLost, HandleTransportLoss,
           HandleConnectivityRestored, HandleSocketReset, DialReturns, DiscardResult,
           PumpsReturn, GatewayGreets, GatewayNotifies, Forward, DialTakesResult,
           DialGivesUp, DialCloses, Close, UserClose, RetireGeneration, SocketFails, closeEngine
  <1>6. connectionSeq' = connectionSeq \/ HandleGreeting
    BY DEF AttachTransport
  <1>7. state = "Closed" => state' = "Closed"
    BY DEF AttachTransport, HandleGreeting
  <1>8. \/ bootstrap \subseteq bootstrap' \/ transport' = 0 \/ HandleGreeting
        \/ \E d \in dials : AttachTransport(d)
    BY <1>4, <1>5
  <1>9. /\ generation' = generation \/ \E d \in dials : AttachTransport(d)
        /\ transport' \in {transport, 0} \/ \E d \in dials : AttachTransport(d)
    BY Frames
  <1>10. \/ "readyReported" \in bootstrap' => "readyReported" \in bootstrap
         \/ state' = "Closed" \/ HandleGreeting
    <2> DEFINE Kept == "readyReported" \in bootstrap' => "readyReported" \in bootstrap
    <2>1. ASSUME ActorStep PROVE Kept \/ state' = "Closed" \/ HandleGreeting
      BY <2>1 DEF AttachTransport
    <2>2. ASSUME ~ActorStep PROVE Kept \/ state' = "Closed"
      <3> HIDE DEF ActorStep
      <3> QED
        BY <2>2
    <2> QED
      BY <2>1, <2>2
  <1>11. Counted'
    <2> HIDE DEF Same, AttachTransport, Counted
    <2>1. \/ Same \/ HandleGreeting \/ \E d \in dials : AttachTransport(d)
      BY ONLY <1>6, <1>7, <1>8, <1>9 DEF Same
    <2> QED
      BY ONLY <1>1, <1>2, <1>3, <2>1
  <1>12. ASSUME dials' # {}, state' # "Closed" PROVE "readyReported" \notin bootstrap'
    <2> HIDE DEF startConnect, HandleGreeting
    <2>1. CASE \E r \in BOOLEAN : startConnect(r)
      BY <2>1 DEF startConnect
    <2>2. CASE dials # {}
      <3>1. state # "Closed"
        BY <1>7, <1>12
      <3>2. ~HandleGreeting
        BY <2>2, <3>1, InputFacts DEF HandleGreeting, PathInv
      <3> QED
        BY <1>10, <1>12, <2>2, <3>1, <3>2 DEF SeqInv
    <2>3. dials # {} \/ \E r \in BOOLEAN : startConnect(r)
      <3>1. ASSUME NEW d \in dials PROVE dials # {}
        OBVIOUS
      <3> QED
        BY <1>12, <3>1, Frames
    <2> QED
      BY <2>1, <2>2, <2>3
  <1> QED
    BY <1>11, <1>12 DEF SeqInv

\* The Dial caller gets its one result, or knows that the engine closed.
LEMMA ReadyStep ==
    TypeOK /\ ReadyInv /\ DialNotStranded /\ [Next]_vars => ReadyInv' /\ DialNotStranded'
  <1> SUFFICES ASSUME TypeOK, ReadyInv, DialNotStranded, [Next]_vars
               PROVE  ReadyInv' /\ DialNotStranded'
    OBVIOUS
  <1> DEFINE Same == /\ UNCHANGED <<readyResult, dialer>>
                     /\ state' = "Closed" <=> state = "Closed"
                     /\ "readyReported" \in bootstrap' => "readyReported" \in bootstrap
  <1> USE DEF closed, ReadyInv, DialNotStranded
  <1>1. CASE Same
    BY <1>1
  <1>2. ASSUME closeEngine, ~closed, dialer' \in {dialer, "failed"}
        PROVE  ReadyInv' /\ DialNotStranded'
    BY <1>2 DEF closeEngine, reportReady
  <1>3. ASSUME HandleGreeting PROVE ReadyInv' /\ DialNotStranded'
    <2>1. state # "Closed" /\ dialer' = dialer
      BY <1>3 DEF HandleGreeting, TakeInput
    <2>2. CASE CompletesBootstrap(bootstrap \cup {Input.msg})
      <3>1. state' = "Ready" /\ reportReady("ok") /\ "readyReported" \notin bootstrap
        BY <1>3, <2>2 DEF HandleGreeting, maybeReady, CompletesBootstrap
      <3> QED
        BY <2>1, <3>1 DEF reportReady
    <2>3. CASE ~CompletesBootstrap(bootstrap \cup {Input.msg})
      <3>1. /\ UNCHANGED <<state, readyResult>>
            /\ bootstrap' = bootstrap \cup {Input.msg}
            /\ Input.msg # "readyReported"
        BY <1>3, <2>3 DEF HandleGreeting, maybeReady, Greetings
      <3> QED
        BY <2>1, <3>1
    <2> QED
      BY <2>2, <2>3
  <1>4. ASSUME DialTakesResult PROVE ReadyInv' /\ DialNotStranded'
    BY <1>4 DEF DialTakesResult, actorVars, TypeOK, SessionTypeOK
  <1>5. ASSUME DialGivesUp PROVE ReadyInv' /\ DialNotStranded'
    BY <1>5 DEF DialGivesUp, actorVars
  <1>6. ASSUME DialCloses, ~closeEngine PROVE ReadyInv' /\ DialNotStranded'
    BY <1>6 DEF DialCloses, Close, actorVars
  <1> HIDE DEF Same, ReadyInv, DialNotStranded
  <1> DEFINE Closing == closeEngine /\ ~closed /\ dialer' \in {dialer, "failed"}
  <1>7. ASSUME ActorStep PROVE Same \/ Closing \/ HandleGreeting
    <2>1. ASSUME NEW d \in dials, AttachTransport(d) \/ ReconnectFailed(d) \/ ConnectRefused(d)
          PROVE  Same \/ Closing
      BY <2>1 DEF Same, AttachTransport, ReconnectFailed, ConnectRefused
    <2>2. ASSUME InitialConnect \/ ReconnectTimer PROVE Same
      BY <2>2 DEF Same, InitialConnect, ReconnectTimer, startConnect
    <2>3. ASSUME \/ \E g \in bootTimers : BootstrapTimeout(g)
                 \/ \E t \in stabilityTimers : StabilityTimer(t)
          PROVE  Same
      BY <2>3 DEF Same, BootstrapTimeout, StabilityTimer, actorVars
    <2>4. ASSUME \/ DropInput \/ HandleCorruptInput \/ HandleConnectivityLost
                 \/ HandleConnectivityRestored \/ HandleSocketReset
          PROVE  Same
      BY <2>4 DEF Same, TakeInput, DropInput, HandleCorruptInput, HandleConnectivityLost,
                  HandleConnectivityRestored, HandleSocketReset
    <2>5. ASSUME NEW g \in transportErr, HandleTransportLoss(g) PROVE Same \/ Closing
      BY <2>5 DEF Same, HandleTransportLoss, actorVars
    <2> QED
      BY <1>7, <2>1, <2>2, <2>3, <2>4, <2>5 DEF ActorStep
  <1>8. ASSUME DialStep \/ PumpStep \/ GreetStep PROVE Same
    BY <1>8 DEF Same, DialStep, DialReturns, DiscardResult, PumpStep, PumpsReturn,
                GreetStep, GatewayGreets, Forward, actorVars
  <1>9. ASSUME UserClose \/ RetireGeneration PROVE Same \/ Closing
    BY <1>9 DEF Same, UserClose, Close, RetireGeneration
  <1>10. ASSUME \/ \E g \in pumping : SocketFails(g)
                \/ \E g \in pumping, msg \in Notices : GatewayNotifies(g, msg)
                \/ UNCHANGED vars
         PROVE  Same
    BY <1>10 DEF Same, SocketFails, GatewayNotifies, Forward, actorVars, vars
  <1>11. ASSUME DialCloses, closeEngine PROVE Closing \/ (ReadyInv' /\ DialNotStranded')
    BY <1>11 DEF DialCloses, Close, closeEngine, actorVars, ReadyInv, DialNotStranded
  <1> QED
    BY <1>1, <1>2, <1>3, <1>4, <1>5, <1>6, <1>7, <1>8, <1>9, <1>10, <1>11 DEF Next, DialerStep


------------------------------------------------------------------------------
(* The theorems.                                                           *)

(* The states dialEngine starts from satisfy the inductive invariant. *)
LEMMA InitIInv == Init => IInv
  <1> SUFFICES ASSUME Init PROVE IInv
    OBVIOUS
  <1> USE DEF Init
  <1>1. SessionTypeOK /\ DialTypeOK /\ TimerTypeOK /\ GatewayTypeOK
    BY BoundsAssumption
       DEF SessionTypeOK, DialTypeOK, TimerTypeOK, GatewayTypeOK, States, Transports, NoTransport
  <1>2. PumpTypeOK
    <2> DEFINE E == [gen : Transports, msg : Notices \cup Greetings]
    <2>1. incoming \in Seq(E)
      <3> HIDE DEF E
      <3> QED
        BY EmptySeq
    <2> QED
      BY <2>1 DEF PumpTypeOK
  <1>3. PathInv /\ PumpInv
    BY DEF PathInv, PumpInv, closed, NoTransport
  <1>4. SeqInv /\ ReadyInv /\ DialNotStranded
    BY DEF SeqInv, ReadyInv, DialNotStranded, closed, NoTransport
  <1> QED
    BY <1>1, <1>2, <1>3, <1>4 DEF IInv, TypeOK

(* No step of the actor, its helpers or the gateway leaves it. *)
LEMMA NextIInv == IInv /\ [Next]_vars => IInv'
  <1> SUFFICES ASSUME IInv, [Next]_vars PROVE IInv'
    OBVIOUS
  <1>1. TypeOK /\ PathInv /\ PumpInv /\ SeqInv /\ ReadyInv /\ DialNotStranded
    BY DEF IInv
  <1>2. TypeOK'
    BY <1>1, SessionTypeStep, DialTypeStep, PumpTypeStep, TimerTypeStep DEF TypeOK
  <1>3. PathInv' /\ PumpInv' /\ SeqInv'
    BY <1>1, PathStep, PumpOrderStep, SeqStep
  <1>4. ReadyInv' /\ DialNotStranded'
    BY <1>1, ReadyStep
  <1> QED
    BY <1>2, <1>3, <1>4 DEF IInv

\* The inductive invariant holds in every reachable state.
THEOREM IInvHolds == Spec => []IInv
  BY InitIInv, NextIInv, PTL DEF Spec

\* Every handle names an attached transport and every counter keeps its range.
THEOREM TypeCorrect == Spec => []TypeOK
  <1>1. IInv => TypeOK
    BY DEF IInv
  <1> QED
    BY <1>1, IInvHolds, PTL

\* A running session always has exactly one means of progress, whatever mix of
\* failed dials, losses and retirements led to it.
THEOREM OneRecoveryPathHolds == Spec => []OneRecoveryPath
  <1>1. IInv => OneRecoveryPath
    <2> SUFFICES ASSUME IInv, state \notin {"Disconnected", "Closed"}
                 PROVE  /\ \A d1, d2 \in dials : d1 = d2
                        /\ reconnectTimers + Bit(dials # {}) + Bit(transport # NoTransport) = 1
      BY DEF OneRecoveryPath
    <2>1. TypeOK /\ PathInv
      BY DEF IInv
    <2>2. reconnectTimers \in Nat
      BY <2>1 DEF TypeOK, TimerTypeOK
    <2>3. CASE transport # NoTransport
      <3>1. dials = {} /\ reconnectTimers = 0
        BY <2>1, <2>3 DEF PathInv, closed
      <3> QED
        BY <2>3, <3>1 DEF Bit
    <2>4. CASE dials # {}
      <3>1. /\ reconnectTimers = 0 /\ transport = NoTransport
            /\ \A d1, d2 \in dials : d1 = d2
        BY <2>1, <2>4 DEF PathInv, closed
      <3> QED
        BY <2>4, <3>1 DEF Bit
    <2>5. CASE transport = NoTransport /\ dials = {}
      <3>1. reconnectTimers = 1
        BY <2>1, <2>5 DEF PathInv, closed
      <3> QED
        BY <2>5, <3>1 DEF Bit
    <2> QED
      BY <2>3, <2>4, <2>5
  <1> QED
    BY <1>1, IInvHolds, PTL

\* No input and no loss of a replaced connection is ever pending, for every
\* capacity of the input channel.
THEOREM NoStaleInputHolds == Spec => []NoStaleInput
  <1>1. IInv => NoStaleInput
    BY DEF IInv, PumpInv, NoStaleInput
  <1> QED
    BY <1>1, IInvHolds, PTL

\* Repeated greetings never publish a second ConnectionSeq for a connection.
THEOREM OneSeqPerConnectionHolds == Spec => []OneSeqPerConnection
  <1>1. IInv => OneSeqPerConnection
    BY DEF IInv, SeqInv, OneSeqPerConnection
  <1> QED
    BY <1>1, IInvHolds, PTL

\* The caller of Dial is never left waiting on a closed engine, and never gets
\* an error from an engine that runs on.
THEOREM DialNotStrandedHolds == Spec => []DialNotStranded
  <1>1. IInv => DialNotStranded
    BY DEF IInv
  <1> QED
    BY <1>1, IInvHolds, PTL

\* The bootstrap is published once for each connection and always to Dial.
THEOREM BootstrapHonestHolds == Spec => []BootstrapHonest
  BY OneSeqPerConnectionHolds, DialNotStrandedHolds, PTL DEF BootstrapHonest

------------------------------------------------------------------------------
(* Backoff.                                                                *)

\* Epochs only grow, and every disturbance moves on to a new one.
LEMMA StableStep == TypeOK /\ StableInv /\ [Next]_vars => StableInv'
  <1> SUFFICES ASSUME TypeOK, StableInv, [Next]_vars PROVE StableInv'
    OBVIOUS
  <1>0. /\ stabilityEpoch \in Nat
        /\ stabilityTimers \subseteq [transport : Transports, epoch : Nat, disturbed : BOOLEAN]
    BY DEF TypeOK, TimerTypeOK
  <1>1. ASSUME stabilityTimers' \subseteq stabilityTimers,
               stabilityEpoch' \in {stabilityEpoch, stabilityEpoch + 1}
        PROVE  StableInv'
    BY <1>0, <1>1 DEF StableInv
  <1>2. ASSUME stabilityTimers' = Disturb(stabilityTimers), stabilityEpoch' = stabilityEpoch + 1
        PROVE  StableInv'
    <2> SUFFICES ASSUME NEW t \in Disturb(stabilityTimers) PROVE t.epoch <= stabilityEpoch
      BY <1>0, <1>2, DisturbFacts DEF StableInv, TypeOK
    <2>1. PICK u \in stabilityTimers : t = [u EXCEPT !.disturbed = TRUE]
      BY DEF Disturb
    <2>2. t.epoch = u.epoch
      BY <1>0, <2>1
    <2> QED
      BY <2>2 DEF StableInv
  <1>3. ASSUME scheduleReconnectStability PROVE StableInv'
    <2> DEFINE new == [transport |-> transport, epoch |-> stabilityEpoch + 1, disturbed |-> FALSE]
    <2>1. stabilityTimers' = stabilityTimers \cup {new} /\ stabilityEpoch' = stabilityEpoch + 1
      BY <1>3 DEF scheduleReconnectStability
    <2>2. new.epoch = stabilityEpoch + 1 /\ new.disturbed = FALSE
      OBVIOUS
    <2> HIDE DEF new
    <2> QED
      BY <1>0, <2>1, <2>2 DEF StableInv
  <1> DEFINE Frame == \/ /\ stabilityTimers' \subseteq stabilityTimers
                         /\ stabilityEpoch' \in {stabilityEpoch, stabilityEpoch + 1}
                      \/ /\ stabilityTimers' = Disturb(stabilityTimers)
                         /\ stabilityEpoch' = stabilityEpoch + 1
                      \/ scheduleReconnectStability
  <1>4. ASSUME ActorStep PROVE Frame
    BY <1>4 DEF ActorStep, actorVars, timerVars, InitialConnect, AttachTransport,
                ReconnectFailed, ConnectRefused, ReconnectTimer, BootstrapTimeout,
                StabilityTimer, DropInput, HandleGreeting, maybeReady, HandleCorruptInput,
                HandleConnectivityLost, HandleConnectivityRestored, HandleSocketReset,
                HandleTransportLoss, closeEngine, invalidateReconnectStability
  <1>5. ASSUME ~ActorStep PROVE Frame
    BY <1>5 DEF Next, DialStep, PumpStep, GreetStep, DialerStep, vars, actorVars, timerVars,
                DialReturns, DiscardResult, PumpsReturn, GatewayGreets, GatewayNotifies,
                Forward, DialTakesResult, DialGivesUp, DialCloses, Close, UserClose,
                RetireGeneration, SocketFails, closeEngine
  <1> QED
    BY <1>1, <1>2, <1>3, <1>4, <1>5

\* Only a stability timer brings the backoff down.
LEMMA OnlyTimersReset ==
    ASSUME TypeOK, [Next]_vars, reconnectAttempt' < reconnectAttempt
    PROVE  \E t \in stabilityTimers : StabilityTimer(t) /\ StableSince(t)
  <1>0. reconnectAttempt \in Nat
    BY BoundsAssumption DEF TypeOK, SessionTypeOK
  <1>1. reconnectAttempt' # reconnectAttempt /\ ~scheduleReconnect
    BY <1>0 DEF scheduleReconnect
  <1>2. \E t \in stabilityTimers : StabilityTimer(t)
    BY <1>1 DEF Next, vars, actorVars, ActorStep, DialStep, PumpStep, GreetStep, DialerStep,
                InitialConnect, AttachTransport, ReconnectFailed, ConnectRefused,
                ReconnectTimer, BootstrapTimeout, DropInput, HandleGreeting,
                HandleCorruptInput, HandleConnectivityLost, HandleConnectivityRestored,
                HandleSocketReset, TakeInput, HandleTransportLoss, DialReturns,
                DiscardResult, PumpsReturn, GatewayGreets, GatewayNotifies, Forward,
                DialTakesResult, DialGivesUp, DialCloses, Close, UserClose,
                RetireGeneration, SocketFails
  <1> QED
    BY <1>1, <1>2 DEF StabilityTimer

\* The reconnect delay starts over only after a period in which neither a
\* connectivity code nor a loss disturbed the connection the timer was armed for.
THEOREM BackoffResetsOnlyWhenStableHolds == Spec => BackoffResetsOnlyWhenStable
  <1>1. Init => StableInv
    BY DEF Init, StableInv
  <1>2. TypeOK /\ StableInv /\ [Next]_vars => StableInv'
    BY StableStep
  <1>3. ASSUME TypeOK, StableInv, [Next]_vars
        PROVE  [reconnectAttempt' < reconnectAttempt =>
                 \E t \in stabilityTimers \ stabilityTimers' :
                    ~t.disturbed /\ t.transport = transport]_vars
    <2> SUFFICES ASSUME reconnectAttempt' < reconnectAttempt
                 PROVE  \E t \in stabilityTimers \ stabilityTimers' :
                           ~t.disturbed /\ t.transport = transport
      OBVIOUS
    <2>1. PICK t \in stabilityTimers : StabilityTimer(t) /\ StableSince(t)
      BY <1>3, OnlyTimersReset
    <2>2. t \notin stabilityTimers' /\ t.epoch = stabilityEpoch /\ t.transport = transport
      BY <2>1 DEF StabilityTimer, StableSince
    <2>3. ~t.disturbed
      BY <1>3, <2>1, <2>2 DEF StableInv, TypeOK, TimerTypeOK
    <2> QED
      BY <2>1, <2>2, <2>3
  <1> QED
    BY <1>1, <1>2, <1>3, TypeCorrect, PTL DEF Spec, BackoffResetsOnlyWhenStable

------------------------------------------------------------------------------
(* The connection layer implements Link.                                   *)

\* Stopping the attached transport is Link's Stop, or nothing.
LEMMA StopIsLinkStop ==
    ASSUME UNCHANGED <<state, generation, connectionSeq, transport>>,
           LinkUp' <=> LinkUp,
           stopping' = stopping \/ StopTransport \/ \E g : stopping' = stopping \cup {g}
    PROVE  L!Stop \/ UNCHANGED L!linkVars
  <1>1. stopping \subseteq stopping'
    BY DEF StopTransport
  <1>2. LinkWire' = LinkWire \/ (LinkWire = "live" /\ LinkWire' = "dying")
    BY <1>1 DEF LinkWire
  <1> QED
    BY <1>2 DEF L!Stop, L!linkVars, LinkUp

\* Closing the engine is Link's Close.
LEMMA CloseIsLinkClose ==
    ASSUME closeEngine, state # "Closed", UNCHANGED <<generation, connectionSeq, transport>>
    PROVE  L!Close
  <1>1. LinkWire' = IF LinkWire = "live" THEN "dying" ELSE LinkWire
    BY DEF closeEngine, StopTransport, LinkWire
  <1> QED
    BY <1>1 DEF closeEngine, L!Close, LinkUp, closed

\* Every step of the connection layer is a step of Link or a stuttering step.
LEMMA LinkStep == IInv /\ [Next]_vars => [L!LinkNext]_(L!linkVars)
  <1> SUFFICES ASSUME IInv, [Next]_vars PROVE L!LinkNext \/ UNCHANGED L!linkVars
    OBVIOUS
  <1> DEFINE Goal == L!LinkNext \/ UNCHANGED L!linkVars
             Calm == UNCHANGED <<state, generation, connectionSeq, transport>>
             Still == Calm /\ bootstrap' = bootstrap
  <1>0. TypeOK /\ PathInv /\ PumpInv /\ SeqInv
    BY DEF IInv
  <1>01. ASSUME Calm, LinkUp' <=> LinkUp PROVE Goal
    BY <1>01, Frames, StopIsLinkStop DEF L!LinkNext
  <1>1. ASSUME Still PROVE Goal
    <2>1. LinkUp' <=> LinkUp
      BY <1>1 DEF LinkUp, closed
    <2> QED
      BY <1>01, <1>1, <2>1
  <1>2. ASSUME closeEngine, state # "Closed",
               UNCHANGED <<generation, connectionSeq, transport>>
        PROVE  Goal
    BY <1>2, CloseIsLinkClose DEF L!LinkNext
  <1>3. ASSUME InitialConnect PROVE Goal
    <2>1. transport = NoTransport /\ state = "Disconnected"
      BY <1>0, <1>3 DEF InitialConnect, PathInv, closed
    <2>2. /\ state' = "Connecting" /\ transport' = NoTransport
          /\ UNCHANGED <<generation, connectionSeq>>
      BY <1>3, <2>1 DEF InitialConnect, startConnect
    <2>3. LinkUp = FALSE /\ LinkUp' = FALSE
      BY <2>1, <2>2 DEF LinkUp
    <2>4. LinkWire = "none" /\ LinkWire' = "none"
      BY <2>1, <2>2 DEF LinkWire
    <2>5. L!Dialing
      BY <2>1, <2>2, <2>3, <2>4 DEF L!Dialing
    <2> QED
      BY <2>5 DEF L!LinkNext
  <1>4. ASSUME NEW d \in dials, AttachTransport(d) PROVE Goal
    <2>1. transport = NoTransport /\ state \in {"Connecting", "Reconnecting"}
      BY <1>0, <1>4 DEF AttachTransport, PathInv, closed
    <2>2. /\ state' = "Handshaking" /\ generation' = generation + 1
          /\ transport' = generation + 1
          /\ UNCHANGED <<connectionSeq, stopping>>
      BY <1>4 DEF AttachTransport, NewGeneration
    <2>3. generation + 1 \notin stopping /\ generation + 1 # NoTransport
      BY <1>0 DEF TypeOK, SessionTypeOK, PumpTypeOK, Transports, NoTransport
    <2>4. LinkWire = "none" /\ LinkWire' = "live"
      BY <2>1, <2>2, <2>3 DEF LinkWire
    <2>5. LinkUp = FALSE /\ LinkUp' = FALSE
      BY <1>0, <1>4, <2>1 DEF LinkUp, SeqInv, AttachTransport, closed
    <2>6. L!Attach
      BY <2>1, <2>2, <2>4, <2>5 DEF L!Attach
    <2> QED
      BY <2>6 DEF L!LinkNext
  <1>5. ASSUME NEW d \in dials, ReconnectFailed(d) PROVE Still
    BY <1>0, <1>5 DEF ReconnectFailed, PathInv, closed
  <1>6. ASSUME ReconnectTimer PROVE Goal
    <2>1. transport = NoTransport /\ state = "Reconnecting"
      BY <1>0, <1>6 DEF ReconnectTimer, PathInv, TypeOK, TimerTypeOK, closed
    <2>2. Calm
      BY <1>6, <2>1 DEF ReconnectTimer, startConnect
    <2>3. ~LinkUp /\ ~LinkUp'
      BY <2>1, <2>2 DEF LinkUp
    <2> QED
      BY <1>01, <2>2, <2>3
  <1>7. ASSUME TakeInput, state' \in {"Ready", "Degraded"}, stopping' = stopping,
               \/ connectionSeq' = connectionSeq /\ bootstrap' = bootstrap
               \/ /\ state' = "Ready" /\ connectionSeq' = connectionSeq + 1
                  /\ "readyReported" \notin bootstrap /\ "readyReported" \in bootstrap'
        PROVE  Goal
    <2>1. transport # NoTransport /\ state # "Closed"
      BY <1>0, <1>7, InputFacts
    <2>2. state \in {"Handshaking", "Ready", "Degraded"}
      BY <1>0, <2>1 DEF PathInv, closed
    <2>3. UNCHANGED <<transport, generation, stopping>>
      BY <1>7 DEF TakeInput
    <2>4. LinkWire # "none" /\ LinkWire' = LinkWire
      BY <2>1, <2>3 DEF LinkWire
    <2>5. "readyReported" \notin bootstrap => connectionSeq < generation
      BY <1>0, <2>1 DEF SeqInv, closed
    <2>6. CASE connectionSeq' = connectionSeq /\ bootstrap' = bootstrap
      <3>1. LinkUp' <=> LinkUp
        BY <1>7, <2>1, <2>3, <2>6 DEF LinkUp, closed
      <3> QED
        BY <1>7, <2>2, <2>3, <2>4, <2>6, <3>1 DEF L!LinkNext, L!Code, L!MayStop, LinkUp
    <2>7. CASE connectionSeq' # connectionSeq \/ bootstrap' # bootstrap
      <3>1. ~LinkUp /\ LinkUp'
        BY <1>7, <2>1, <2>3, <2>7 DEF LinkUp, closed
      <3>2. LinkUp' = TRUE
        BY <3>1 DEF LinkUp
      <3> QED
        BY <1>7, <2>2, <2>3, <2>4, <2>5, <2>7, <3>1, <3>2 DEF L!LinkNext, L!BecomeReady, L!MayStop
    <2> QED
      BY <2>6, <2>7
  <1>8. ASSUME HandleGreeting PROVE Goal
    <2>1. CASE CompletesBootstrap(bootstrap \cup {Input.msg})
      <3>1. /\ TakeInput /\ state' = "Ready" /\ connectionSeq' = connectionSeq + 1
            /\ "readyReported" \notin bootstrap /\ "readyReported" \in bootstrap'
            /\ stopping' = stopping
        BY <1>8, <2>1 DEF HandleGreeting, maybeReady, CompletesBootstrap
      <3> QED
        BY <1>7, <3>1
    <2>2. CASE ~CompletesBootstrap(bootstrap \cup {Input.msg})
      <3>1. Calm /\ bootstrap' = bootstrap \cup {Input.msg} /\ Input.msg # "readyReported"
        BY <1>8, <2>2 DEF HandleGreeting, maybeReady, TakeInput, Greetings
      <3>2. LinkUp' <=> LinkUp
        BY <3>1 DEF LinkUp, closed
      <3> QED
        BY <1>01, <3>1, <3>2
    <2> QED
      BY <2>1, <2>2
  <1>9. ASSUME NEW g \in transportErr, HandleTransportLoss(g) PROVE Goal
    <2>1. transport = g /\ state # "Closed" /\ g \in stopping /\ g # NoTransport
      BY <1>0, <1>9 DEF HandleTransportLoss, PumpInv, TypeOK, PumpTypeOK, Transports,
                        NoTransport, closed
    <2>2. state \in {"Handshaking", "Ready", "Degraded"}
      BY <1>0, <2>1 DEF PathInv, closed
    <2>3. /\ transport' = NoTransport /\ state' \in {"Reconnecting", "Closed"}
          /\ UNCHANGED <<generation, connectionSeq>>
      BY <1>9, <2>1 DEF HandleTransportLoss, closeEngine
    <2>4. LinkWire = "dying" /\ LinkWire' = "none"
      BY <2>1, <2>3 DEF LinkWire
    <2>5. LinkUp' = FALSE
      BY <2>3 DEF LinkUp
    <2> QED
      BY <2>2, <2>3, <2>4, <2>5 DEF L!LinkNext, L!Lose
  <1> HIDE DEF Goal, Still
  <1>10. ASSUME ActorStep PROVE Goal
    <2>1. ASSUME NEW d \in dials, ConnectRefused(d) PROVE Goal
      BY <1>2, <2>1 DEF ConnectRefused, closed
    <2>2. ASSUME \/ \E g \in bootTimers : BootstrapTimeout(g)
                 \/ \E t \in stabilityTimers : StabilityTimer(t)
          PROVE  Still
      BY <2>2 DEF Still, BootstrapTimeout, StabilityTimer, actorVars
    <2>3. ASSUME DropInput \/ HandleCorruptInput \/ HandleSocketReset PROVE Still
      BY <2>3 DEF Still, TakeInput, DropInput, HandleCorruptInput, HandleSocketReset
    <2>4. ASSUME HandleConnectivityLost \/ HandleConnectivityRestored PROVE Goal
      BY <1>7, <2>4 DEF HandleConnectivityLost, HandleConnectivityRestored
    <2> QED
      BY <1>1, <1>3, <1>4, <1>5, <1>6, <1>8, <1>9, <1>10, <2>1, <2>2, <2>3, <2>4 DEF ActorStep
  <1>11. ASSUME DialStep \/ PumpStep \/ GreetStep PROVE Still
    BY <1>11 DEF Still, DialStep, DialReturns, DiscardResult, PumpStep, PumpsReturn,
                 GreetStep, GatewayGreets, Forward, actorVars
  <1>12. ASSUME UserClose \/ DialCloses PROVE Goal
    <2>1. ASSUME Close PROVE Goal
      BY <1>2, <2>1 DEF Close, closed
    <2>2. CASE UserClose
      BY <2>1, <2>2 DEF UserClose
    <2>3. ASSUME DialCloses, ~Close PROVE Still
      BY <2>3 DEF DialCloses, Still, actorVars
    <2> QED
      BY <1>1, <1>12, <2>1, <2>2, <2>3
  <1>13. ASSUME DialTakesResult \/ DialGivesUp \/ RetireGeneration PROVE Still
    BY <1>13 DEF Still, DialTakesResult, DialGivesUp, RetireGeneration, actorVars
  <1>14. ASSUME \/ \E g \in pumping : SocketFails(g)
                \/ \E g \in pumping, msg \in Notices : GatewayNotifies(g, msg)
                \/ UNCHANGED vars
         PROVE  Still
    BY <1>14 DEF Still, SocketFails, GatewayNotifies, Forward, actorVars, vars
  <1>15. Goal
    BY <1>1, <1>10, <1>11, <1>12, <1>13, <1>14 DEF Next, DialerStep
  <1> QED
    BY <1>15 DEF Goal

\* The whole connection lifecycle implements the abstract link on which the
\* rest of the engine relies.
THEOREM ImplementsLinkHolds == Spec => ImplementsLink
  <1>1. Init => L!LinkInit
    BY DEF Init, L!LinkInit, LinkWire, LinkUp
  <1>2. IInv /\ [Next]_vars => [L!LinkNext]_(L!linkVars)
    BY LinkStep
  <1> QED
    BY <1>1, <1>2, IInvHolds, PTL DEF Spec, ImplementsLink, L!LinkSpec
==============================================================================
