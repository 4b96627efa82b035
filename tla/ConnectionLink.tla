--------------------------- MODULE ConnectionLink ---------------------------
(* The detailed connection lifecycle implements the abstract link, and the  *)
(* inductive invariant that ConnectionProofs.tla proves.                    *)
EXTENDS Connection

LinkWire ==
    IF transport = NoTransport THEN "none"
    ELSE IF transport \in stopping THEN "dying" ELSE "live"

LinkUp == transport # NoTransport /\ ~closed /\ "readyReported" \in bootstrap

L == INSTANCE Link WITH phase <- state, gen <- generation, seq <- connectionSeq,
                        up <- LinkUp, wire <- LinkWire

\* Every step of the connection layer is a step of Link or leaves it alone.
ImplementsLink == L!LinkSpec

------------------------------------------------------------------------------

\* Which state goes with which means of progress; at most one of the three
\* exists, and a running session has one.
PathInv ==
    ~closed =>
      /\ transport # NoTransport =>
           /\ state \in {"Handshaking", "Ready", "Degraded"}
           /\ dials = {} /\ reconnectTimers = 0
      /\ dials # {} => state \in {"Connecting", "Reconnecting"} /\ reconnectTimers = 0
      /\ reconnectTimers # 0 => /\ state = "Reconnecting" /\ reconnectTimers = 1
                                /\ autoReconnect
      /\ \A d1, d2 \in dials : d1 = d2
      /\ \A d \in dials : /\ d.attempt = connectAttemptID
                          /\ d.reconnect => state = "Reconnecting" /\ autoReconnect
      /\ state # "Disconnected" =>
           transport # NoTransport \/ dials # {} \/ reconnectTimers # 0

\* Only the current transport pumps or is about to be lost, its loss comes
\* last, and a transport is lost only after it began to stop.
PumpInv ==
    /\ ~closed => /\ transport \in {NoTransport, generation}
                  /\ \A g \in pumping \cup transportErr : g = transport
                  /\ \A i \in 1 .. Len(incoming) : incoming[i].gen = transport
    /\ transportErr \cap pumping = {}
    /\ transportErr \subseteq stopping

\* The bootstrap flag stands for "this connection's sequence was published";
\* a new attempt starts without it.
SeqInv ==
    /\ connectionSeq <= generation
    /\ ~closed /\ dials # {} => "readyReported" \notin bootstrap
    /\ ~closed /\ transport # NoTransport /\ "readyReported" \notin bootstrap =>
         connectionSeq < generation

\* The ready channel reaches the Dial caller exactly once.
ReadyInv ==
    /\ ~closed /\ "readyReported" \in bootstrap /\ dialer = "waiting" => readyResult # "none"
    /\ readyResult = "error" => closed

IInv == TypeOK /\ PathInv /\ PumpInv /\ SeqInv /\ ReadyInv /\ DialNotStranded

\* A timer whose connection was disturbed carries an older epoch.
StableInv ==
    \A t \in stabilityTimers :
      /\ t.epoch <= stabilityEpoch
      /\ t.disturbed => t.epoch < stabilityEpoch
==============================================================================
