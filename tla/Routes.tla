------------------------------- MODULE Routes -------------------------------
(***************************************************************************)
(* The routing book of the session engine on top of the abstract link:      *)
(* request-ID routes and the request-ID-less (singleton) stream, the setups *)
(* parked until the session is ready, the resume barrier that re-admits the *)
(* market-data selection and the ResumeAuto streams, and what connectivity  *)
(* codes, losses and cancellations do to all of them                        *)
(* (engine_reconnect.go, engine_subscription_*.go, await.go).               *)
(*                                                                         *)
(* A turn of the actor is one action.  The functions it calls are operators *)
(* that map the book to the book, composed in the order of the calls; a     *)
(* turn works on rt extended with what holds for that turn only: the phase  *)
(* it published, whether the wire still admits frames, how often the turn   *)
(* finds the socket alive before it dies under it (fuel), how many slots    *)
(* the writer frees meanwhile, which consumers have no room for an event    *)
(* and which routes the negotiated server version cannot resume.            *)
(***************************************************************************)
EXTENDS Link, Integers, FiniteSets, FiniteSetsExt, SequencesExt

CONSTANTS
    Offered,     \* operations callers use
    MaxReq,      \* request IDs handed out
    MaxGen,      \* physical connections attached
    MaxCodes,    \* connectivity codes received
    MaxParked,   \* setups parked at a time
    QueueCap,    \* capacity of the outbound queue (256 in the code)
    MaxDrain,    \* frames the writer takes during one turn
    EarlyCodes   \* connectivity codes may precede the end of the bootstrap

ASSUME RoutesAssumption ==
    /\ {MaxReq, MaxGen, MaxCodes, MaxParked, QueueCap, MaxDrain} \subseteq Nat
    /\ QueueCap > 0
    /\ EarlyCodes \in BOOLEAN
    /\ Offered \subseteq {"auto", "never", "oneshot", "single", "type"}

VARIABLES
    rt,     \* the routing book
    codes   \* connectivity codes so far

vars == <<linkVars, rt, codes>>

Reqs == 1 .. MaxReq
Kinds == {"auto", "never", "oneshot"}   \* ResumeAuto, ResumeNever, one reply
Calls == Kinds \cup {"single", "type"}  \* + singleton stream, SetMarketDataType
Ends == {"none", "refused", "answered", "rejected", "cancelled", "slow", "uncertain",
         "abandoned", "resumeRequired", "interrupted", "invalid", "closed"}
Events == {"none", "Started", "Gap", "Restored", "Resubscribed"}

Init ==
    /\ LinkInit
    /\ codes = 0
    /\ rt = [next |-> 0,                          \* last request ID handed out
             kind |-> [r \in Reqs |-> "none"],    \* e.keyed
             routeGen |-> [r \in Reqs |-> 0],     \* route.generation
             gapped |-> {},                       \* route.gapped
             pending |-> <<>>,                    \* e.resumePending
             waiting |-> FALSE,                   \* e.resumeWaiting
             mdType |-> FALSE, mdGen |-> 0,       \* selection and its generation
             parked |-> <<>>,                     \* e.readySetups
             single |-> "none",                   \* e.singletons[positions]
             dirty |-> 0,                         \* e.dirtySingletons[positions]
             room |-> QueueCap,                   \* free slots of the outbound queue
             writable |-> FALSE,                  \* token in tr.Writable()
             hosted |-> {},                       \* gateway: requests it serves
             lateRows |-> FALSE,                  \* gateway: rows of a closed singleton
             end |-> [r \in Reqs |-> "none"],     \* terminal cause of a handle
             last |-> [r \in Reqs |-> "none"],    \* last lifecycle event of a handle
             depth |-> [r \in Reqs |-> 0],        \* Gaps minus their ends
             misrun |-> FALSE]                    \* a setup ran without a usable wire

------------------------------------------------------------------------------
(* Turns.                                                                  *)

MaxFuel == 2 * (QueueCap + MaxDrain) + 1

\* A record with the fields of f and those of g.
With(f, g) == [x \in DOMAIN f \cup DOMAIN g |-> IF x \in DOMAIN f THEN f[x] ELSE g[x]]

Turn(published, told) ==
    {With([rt EXCEPT !.room = @ + env.drained, !.writable = @ \/ env.drained > 0],
          With([phase |-> published, live |-> wire = "live", stuck |-> FALSE], env)) :
       env \in [fuel : 0 .. (IF wire = "live" THEN MaxFuel ELSE 0),
                drained : 0 .. (IF wire = "live" THEN MaxDrain ELSE 0),
                slow : SUBSET {r \in told : rt.kind[r] = "auto"},
                bad : SUBSET {r \in told : rt.kind[r] = "auto" /\ rt.routeGen[r] # gen}]}

\* The end of a turn; the writer freed no more slots than were taken.
Store(s) ==
    /\ s.room <= QueueCap
    /\ rt' = [f \in DOMAIN rt |-> s[f]]
    /\ wire' = IF wire = "live" /\ ~s.live THEN "dying" ELSE wire

OpenIn(s) == {r \in Reqs : s.kind[r] # "none"}
AutoIn(s) == {r \in Reqs : s.kind[r] = "auto"}

hasReadyTransport(s) == s.live /\ s.phase \in {"Ready", "Degraded"}

marketDataTypePending(s) == s.mdType /\ s.mdGen # gen

\* Mutant: new work does not wait for the resume queue.
isReadyNoBarrier(s) == hasReadyTransport(s) /\ ~marketDataTypePending(s)

isReady(s) ==
    /\ hasReadyTransport(s)
    /\ ~marketDataTypePending(s)
    /\ s.pending = <<>> /\ ~s.waiting

\* tr.Send: refused by a stopped transport or a full queue.
Admits(s) == s.live /\ s.fuel > 0 /\ s.room > 0

AfterSend(s) ==
    IF Admits(s) THEN [s EXCEPT !.room = @ - 1, !.fuel = @ - 1]
    ELSE [s EXCEPT !.live = s.live /\ s.fuel > 0]

retireTransport(s) == [s EXCEPT !.live = FALSE]

------------------------------------------------------------------------------
(* Ending a route.                                                         *)

EndRoute(s, r, why) ==
    [s EXCEPT !.kind[r] = "none", !.end[r] = why, !.gapped = @ \ {r}]

routeAwaitingResume(s, r) == \E i \in DOMAIN s.pending : s.pending[i] = r

\* Mutant: a route of the current generation counts as absent whenever the
\* resume queue is not empty.
OwesCancelNotWhileResuming(s, r) ==
    s.routeGen[r] = gen /\ s.pending = <<>> /\ hasReadyTransport(s)

\* cancelRouteSubscription: only a stream this connection hosts is cancelled.
OwesCancel(s, r) ==
    /\ s.routeGen[r] = gen
    /\ ~routeAwaitingResume(s, r)
    /\ hasReadyTransport(s)

\* The actorCancel of a keyed stream.  A cancellation the active queue refuses
\* leaves the remote stream uncertain and retires the connection.
actorCancel(s, r, cause) ==
    LET t == AfterSend(s) IN
    IF s.kind[r] = "none" THEN s
    ELSE IF ~OwesCancel(s, r) THEN EndRoute(s, r, cause)
    ELSE IF Admits(s) THEN EndRoute([t EXCEPT !.hosted = @ \ {r}], r, cause)
    ELSE IF t.live THEN retireTransport(EndRoute(t, r, "uncertain"))
    ELSE EndRoute(t, r, cause)

\* emitState: an event the consumer has no room for cancels the stream.
emitState(s, r, event) ==
    IF r \in s.slow THEN actorCancel(s, r, "slow")
    ELSE [s EXCEPT !.last[r] = event,
                   !.depth[r] = CASE event = "Gap" -> @ + 1
                                  [] event \in {"Restored", "Resubscribed"} -> @ - 1
                                  [] OTHER -> @]

\* Mutant: a stream gapped by 1100 is gapped again by what follows.
GapTwice(s) ==
    FoldSet(LAMBDA r, t : emitState([t EXCEPT !.gapped = @ \cup {r}], r, "Gap"),
            s, AutoIn(s))

emitGap(s) ==
    FoldSet(LAMBDA r, t : emitState([t EXCEPT !.gapped = @ \cup {r}], r, "Gap"),
            s, AutoIn(s) \ s.gapped)

emitResumed(s) ==
    FoldSet(LAMBDA r, t : emitState([t EXCEPT !.gapped = @ \ {r}], r, "Restored"),
            s, AutoIn(s) \cap s.gapped)

\* The onDisconnect of a route that is not retained.
Interrupt(s, r) ==
    EndRoute(s, r, IF s.kind[r] = "oneshot" THEN "interrupted" ELSE "resumeRequired")

InterruptAll(s, set) == FoldSet(LAMBDA r, t : Interrupt(t, r), s, set)

disconnectRoutes(s) ==
    [InterruptAll(emitGap(s), OpenIn(s) \ AutoIn(s)) EXCEPT !.single = "none"]

dropLostRoutes(s) ==
    [InterruptAll(s, OpenIn(s) \ AutoIn(s)) EXCEPT !.single = "none"]

------------------------------------------------------------------------------
(* Setups.                                                                 *)

\* A keyed operation takes a request ID, installs its route and sends.
InstallKeyed(s, k) ==
    LET r == s.next + 1 IN
    IF s.next = MaxReq THEN s
    ELSE IF Admits(s)
         THEN [AfterSend(s) EXCEPT !.next = r, !.kind[r] = k, !.routeGen[r] = gen,
                                   !.hosted = @ \cup {r}, !.last[r] = "Started"]
         ELSE [AfterSend(s) EXCEPT !.next = r, !.end[r] = "refused"]

SetMarketDataType(s) ==
    IF Admits(s) THEN [AfterSend(s) EXCEPT !.mdType = TRUE, !.mdGen = gen]
    ELSE AfterSend(s)

\* enqueueSingletonSubscriptionSetup's attempt: a used routing key waits for
\* another generation.
AttemptSingleton(s) ==
    IF s.dirty = gen THEN retireTransport([s EXCEPT !.parked = Append(@, "single")])
    ELSE IF s.single # "none" THEN s
    ELSE IF Admits(s) THEN [AfterSend(s) EXCEPT !.single = "incomplete"]
    ELSE AfterSend(s)

RunSetup(s, k) ==
    LET t == [s EXCEPT !.misrun = @ \/ ~hasReadyTransport(s)] IN
    CASE k \in Kinds   -> InstallKeyed(t, k)
      [] k = "type"    -> SetMarketDataType(t)
      [] k = "single"  -> AttemptSingleton(t)

flushReadySetups(s) == FoldLeft(RunSetup, [s EXCEPT !.parked = <<>>], s.parked)

------------------------------------------------------------------------------
(* The resume barrier.                                                     *)

\* A refused send ends the turn; only a full queue has a waiter.
waitForResumeCapacity(s) == [s EXCEPT !.stuck = TRUE, !.waiting = @ \/ s.live]

PopPending(s) == [s EXCEPT !.pending = Tail(@)]

\* Mutant: the request is taken as sent although the queue refused it.
ResumeOneUnchecked(s, r) ==
    IF s.stuck \/ s.kind[r] = "none" THEN PopPending(s)
    ELSE [PopPending(s) EXCEPT !.routeGen[r] = gen, !.gapped = @ \ {r}]

\* One round of the loop in continueResumeRoutes.  A socket that died right
\* after it took the request leaves the route in the queue.
ResumeOne(s, r) ==
    LET sent == [AfterSend(s) EXCEPT !.hosted = @ \cup {r}]
        back == [PopPending(sent) EXCEPT !.routeGen[r] = gen, !.fuel = @ - 1]
    IN  IF s.stuck THEN s
        ELSE IF s.kind[r] = "none" THEN PopPending(s)
        ELSE IF r \in s.bad THEN PopPending(EndRoute(s, r, "invalid"))
        ELSE IF ~Admits(s) THEN waitForResumeCapacity(AfterSend(s))
        ELSE IF sent.fuel = 0 THEN [sent EXCEPT !.stuck = TRUE, !.live = FALSE]
        ELSE [(IF r \in s.gapped THEN emitState(back, r, "Resubscribed") ELSE back) EXCEPT !.gapped = @ \ {r}]

ResumeSelection(s) ==
    IF ~marketDataTypePending(s) THEN s
    ELSE IF Admits(s) THEN [AfterSend(s) EXCEPT !.mdGen = gen]
    ELSE waitForResumeCapacity(AfterSend(s))

continueResumeRoutes(s) ==
    LET t == FoldLeft(ResumeOne, ResumeSelection(s), s.pending)
    IN  IF t.stuck THEN t ELSE flushReadySetups(t)

\* The requests of a set in the order of their IDs.
InOrder(set) == CHOOSE q \in SetToSeqs(set) : \A i, j \in DOMAIN q : i < j => q[i] < q[j]

resumeRoutes(s) ==
    continueResumeRoutes([s EXCEPT !.pending = InOrder(AutoIn(s))])

------------------------------------------------------------------------------
(* The link's events.                                                      *)

Connect ==
    /\ Dialing
    /\ UNCHANGED <<rt, codes>>

\* handleConnectResult: a fresh transport has an empty queue.
AttachTransport ==
    /\ gen < MaxGen
    /\ Attach
    /\ rt' = [rt EXCEPT !.room = QueueCap, !.writable = FALSE, !.lateRows = FALSE]
    /\ UNCHANGED codes

\* maybeReady.
BootstrapCompletes ==
    /\ BecomeReady
    /\ \E s \in Turn("Ready", Reqs) : Store(resumeRoutes(s))
    /\ UNCHANGED codes

Coded(next) ==
    /\ codes < MaxCodes /\ codes' = codes + 1
    /\ phase = "Handshaking" => EarlyCodes
    /\ Code(next)

ConnectivityLost ==
    /\ Coded("Degraded")
    /\ \E s \in Turn("Degraded", Reqs) : Store(emitGap(s))

\* Code 1101: the gateway lost every request of this connection.
ConnectivityRestoredDataLost ==
    /\ Coded("Ready")
    /\ \E s \in Turn("Ready", Reqs) :
         Store(resumeRoutes(dropLostRoutes(emitGap([s EXCEPT !.hosted = {}]))))

ConnectivityRestoredDataMaintained ==
    /\ Coded("Ready")
    /\ \E s \in Turn("Ready", Reqs) : Store(emitResumed(s))

WireStops ==
    /\ Stop
    /\ UNCHANGED <<rt, codes>>

\* Mutant: the capacity waiter of the lost transport still counts.
ForgetWaiterNever(s) == [s EXCEPT !.hosted = {}]

\* handleTransportLoss owns the reset: the waiter of a lost transport is gone.
ForgetWaiter(s) == [s EXCEPT !.waiting = FALSE, !.hosted = {}]

TransportLost ==
    /\ Lose("Reconnecting")
    /\ \E s \in Turn("Reconnecting", Reqs) :
         LET t == disconnectRoutes(ForgetWaiter([s EXCEPT !.live = FALSE]))
         IN  rt' = [f \in DOMAIN rt |-> t[f]]
    /\ UNCHANGED codes

\* Every handle ends and nothing stays parked.
closeEngine(s) ==
    [s EXCEPT !.kind = [r \in Reqs |-> "none"], !.gapped = {}, !.parked = <<>>, !.single = "none",
              !.end = [r \in Reqs |-> IF s.kind[r] = "none" THEN s.end[r] ELSE "closed"]]

\* Client.Close, or the first dial refused.
EngineCloses ==
    /\ Close
    /\ rt' = closeEngine(rt)
    /\ UNCHANGED codes

\* A loss with ReconnectOff: no stream is retained.
LossCloses ==
    /\ Lose("Closed")
    /\ rt' = closeEngine(InterruptAll(ForgetWaiter([rt EXCEPT !.single = "none"]), OpenIn(rt)))
    /\ UNCHANGED codes

------------------------------------------------------------------------------
(* Callers, consumers, the writer and the gateway.                         *)

Quiet == UNCHANGED <<phase, gen, seq, up, codes>>

\* enqueueReadySetup reaches the actor.
Submit(k) ==
    /\ phase # "Closed"
    /\ k \in Kinds => rt.next < MaxReq
    /\ \E s \in Turn(phase, {}) :
         IF isReady(s) THEN Store(RunSetup(s, k))
         ELSE /\ Len(rt.parked) < MaxParked
              /\ Store([s EXCEPT !.parked = Append(@, k)])
    /\ Quiet

\* cancelReadySetup: the context of a parked call ended.
CancelParked(i) ==
    /\ rt' = [rt EXCEPT !.parked = RemoveAt(@, i)]
    /\ UNCHANGED wire
    /\ Quiet

\* Subscription.Close or the end of its context; or a row its consumer had no
\* room for.
CloseStream(r, cause) ==
    /\ rt.kind[r] \in {"auto", "never"}
    /\ cause = "slow" => r \in rt.hosted /\ wire # "none"
    /\ \E s \in Turn(phase, {}) : Store(actorCancel(s, r, cause))
    /\ Quiet

\* The caller of a one-shot gives up; for some operations a best-effort
\* cancellation follows (HistoricalBars).
AbandonOneShot(r) ==
    /\ rt.kind[r] = "oneshot"
    /\ \E s \in Turn(phase, {}) :
         LET t == EndRoute(s, r, "abandoned")
         IN  \/ Store(t)
             \/ Store(IF Admits(t) THEN [AfterSend(t) EXCEPT !.hosted = @ \ {r}] ELSE AfterSend(t))
    /\ Quiet

\* Mutant: the routing key can be taken again at once.
MarkDirtyNever(s) == s

markSingletonGenerationDirty(s) == [s EXCEPT !.dirty = gen]

\* The actorCancel of the singleton stream: before its snapshot is complete
\* nothing tells its rows from a successor's.
CloseSingleton ==
    /\ rt.single # "none"
    /\ \E s \in Turn(phase, {}) :
         LET t == [markSingletonGenerationDirty(s) EXCEPT !.single = "none", !.lateRows = TRUE]
             u == AfterSend(t)
         IN  IF rt.single = "incomplete" THEN Store(retireTransport(t))
             ELSE IF ~hasReadyTransport(t) THEN Store(t)
             ELSE IF Admits(t) THEN Store(u) ELSE Store(retireTransport(u))
    /\ Quiet

\* The writer takes a frame off the queue and signals Writable.
WriterDrains ==
    /\ wire = "live" /\ rt.room < QueueCap
    /\ rt' = [rt EXCEPT !.room = @ + 1, !.writable = TRUE]
    /\ UNCHANGED wire
    /\ Quiet

\* The waiter's closure runs on the transport it was started for.
WaiterWakes ==
    /\ rt.waiting /\ rt.writable /\ wire # "none" /\ phase # "Closed"
    /\ \E s \in Turn(phase, Reqs) :
         Store(continueResumeRoutes([s EXCEPT !.waiting = FALSE, !.writable = s.drained > 0]))
    /\ Quiet

\* The gateway answers a one-shot, refuses a request, or ends the snapshot.
GatewayAnswers(r) ==
    /\ wire # "none" /\ phase # "Closed"
    /\ r \in rt.hosted /\ rt.kind[r] # "none"
    /\ LET ended == EndRoute(rt, r, IF rt.kind[r] = "oneshot" THEN "answered" ELSE "rejected")
       IN  rt' = [ended EXCEPT !.hosted = @ \ {r}]
    /\ UNCHANGED wire
    /\ Quiet

SnapshotEnds ==
    /\ wire # "none" /\ phase # "Closed"
    /\ rt.single = "incomplete"
    /\ rt' = [rt EXCEPT !.single = "complete"]
    /\ UNCHANGED wire
    /\ Quiet

Next ==
    \/ Connect \/ AttachTransport \/ BootstrapCompletes
    \/ ConnectivityLost \/ ConnectivityRestoredDataLost \/ ConnectivityRestoredDataMaintained
    \/ WireStops \/ TransportLost \/ LossCloses \/ EngineCloses
    \/ \E k \in Offered : Submit(k)
    \/ \E i \in DOMAIN rt.parked : CancelParked(i)
    \/ \E r \in Reqs : AbandonOneShot(r) \/ GatewayAnswers(r)
    \/ \E r \in Reqs, cause \in {"cancelled", "slow"} : CloseStream(r, cause)
    \/ CloseSingleton \/ SnapshotEnds
    \/ WriterDrains \/ WaiterWakes

\* The writer and the capacity waiter run; nobody is obliged to call, to fail
\* or to notify.
Spec ==
    /\ Init /\ [][Next]_vars
    /\ WF_vars(WriterDrains) /\ WF_vars(WaiterWakes)

------------------------------------------------------------------------------
(* Properties.                                                             *)

\* The book is well formed, and every route it holds was handed out.
TypeOK ==
    /\ rt.next \in 0 .. MaxReq
    /\ rt.kind \in [Reqs -> Kinds \cup {"none"}]
    /\ rt.routeGen \in [Reqs -> 0 .. MaxGen]
    /\ rt.gapped \subseteq AutoIn(rt)
    /\ rt.pending \in SeqOf(1 .. rt.next, MaxReq)
    /\ rt.parked \in Seq(Calls)
    /\ rt.single \in {"none", "incomplete", "complete"}
    /\ rt.dirty \in 0 .. gen /\ rt.mdGen \in 0 .. gen
    /\ rt.room \in 0 .. QueueCap
    /\ OpenIn(rt) \cup rt.hosted \subseteq 1 .. rt.next
    /\ rt.end \in [Reqs -> Ends] /\ rt.last \in [Reqs -> Events]

\* Nobody waits on an answer that is never coming: an open handle is served by
\* the current connection, or it is a ResumeAuto stream that was told of the
\* gap or is still queued for the barrier.
OpenMeansServed ==
    \A r \in OpenIn(rt) :
      \/ r \in rt.hosted /\ wire # "none"
      \/ rt.kind[r] = "auto" /\ (r \in rt.gapped \/ routeAwaitingResume(rt, r))

\* Once the session takes new work again, every surviving stream is back.
ReadyMeansResumed ==
    isReady(With(rt, [phase |-> phase, live |-> wire = "live"])) /\ phase = "Ready" =>
      AutoIn(rt) \subseteq rt.hosted /\ rt.gapped = {}

\* Closing a stream leaves nothing behind: unless its cancellation is reported
\* as uncertain, the live connection no longer hosts the request.
NoOrphanStream ==
    wire = "live" =>
      \A r \in rt.hosted : rt.end[r] \notin {"cancelled", "slow"}

\* Gap and its end alternate on every open stream, whatever codes and losses
\* overlap.
GapsAlternate == \A r \in OpenIn(rt) : rt.depth[r] = IF r \in rt.gapped THEN 1 ELSE 0

\* New requests enter a connection behind the barrier: the selection and every
\* stream to be resumed were admitted before.
NewWorkAfterBarrier ==
    [][\A r \in Reqs :
         r \in OpenIn(rt)' /\ r \notin OpenIn(rt) =>
           /\ rt'.pending = <<>>
           /\ rt'.mdType => rt'.mdGen = gen
           /\ AutoIn(rt)' \subseteq rt'.hosted]_vars

\* A request-ID-less stream never shares its connection with rows of one that
\* was closed before.
NoLateRows == rt.single # "none" => ~rt.lateRows

\* A connection that stays up and ready finishes its barrier and runs what was
\* parked: no wakeup is lost.
BarrierCompletes ==
    <>[](up /\ wire = "live" /\ phase = "Ready") => []<>(rt.pending = <<>> /\ rt.parked = <<>>)

\* docs/session-contract.md: "`Restored` means the Gateway retained it".
RestoredMeansRetained ==
    \A r \in OpenIn(rt) : rt.last[r] = "Restored" => r \in rt.hosted

\* await.go: a parked setup "runs synchronously on the actor only after session
\* readiness is established".
SetupsRunReady == ~rt.misrun

\* The routing book is served: nobody waits on a dead connection, and a session
\* that takes new work has brought back every surviving stream.
BookServed == TypeOK /\ OpenMeansServed /\ ReadyMeansResumed
==============================================================================
