------------------------------- MODULE Orders -------------------------------
(***************************************************************************)
(* Order handles on top of the abstract link: tracked placement and its     *)
(* write result, brackets and their rollback, what-if previews, option      *)
(* exercises, attribution of callbacks to a handle, and what losses and     *)
(* connectivity codes tell the handle (engine_orders.go, engine_route.go,   *)
(* order_handle.go, exercise_handle.go).                                    *)
(*                                                                         *)
(* A turn of the actor is one action; the functions it calls are operators  *)
(* from one order's entry to its next value.  An order ID is used once      *)
(* (IdSpace), so a tracked write is named by its order.  The transport and  *)
(* the gateway keep their own view: which place frames are queued, written, *)
(* torn or discarded, and what the broker therefore may hold.  A send may   *)
(* be refused at any time: the outbound queue is shared with other work.    *)
(***************************************************************************)
EXTENDS Link, Integers, FiniteSets, Sequences

CONSTANTS
    N,           \* order IDs handed out
    Plans,       \* the loads tried: calls made, connectivity codes and order replies received
    MaxGen,      \* physical connections attached
    EventCap     \* capacity of a handle's event queue (orderEventBuffer)

ASSUME OrdersAssumption ==
    /\ {N, MaxGen, EventCap} \subseteq Nat
    /\ EventCap > 0
    /\ Plans \subseteq [calls : Seq({"order", "bracket", "preview", "exercise"}),
                       codes : Nat, replies : Nat]

VARIABLES
    todo,    \* what is left of the plan
    next,    \* last order ID handed out
    book,    \* order ID -> its entry in e.orders, e.previews or e.keyed, and its handle
    io,      \* place frames in the transport and what the broker may hold
    failed   \* the error of a PlaceBracket that was rolled back

orderVars == <<todo, next, book, io, failed>>
vars == <<linkVars, orderVars>>

IDs == 1 .. N

Absent == [
    kind |-> "none",     \* none, order, exercise, preview
    open |-> FALSE,      \* routed: in e.orders, or in e.previews
    write |-> FALSE,     \* its key is in e.pendingOrderWrites
    gapped |-> FALSE, recovery |-> FALSE, working |-> FALSE,
    perm |-> FALSE,      \* a permanent ID is bound
    queued |-> 0,        \* events the consumer has not read
    err |-> "none",      \* handle.err, or what PreviewOrder returned
    starts |-> 0,        \* Started events delivered
    placed |-> 0,        \* data epoch of the placement
    known |-> 0,         \* data epoch the consumer was told of
    heard |-> 0,         \* data epoch of the last callback delivered
    replaced |-> 0,      \* data epoch of the last Replace
    misled |-> FALSE]    \* took evidence of another client's order

Init ==
    /\ LinkInit
    /\ todo \in Plans
    /\ next = 0
    /\ book = [o \in IDs |-> Absent]
    /\ failed = [legs |-> {}, named |-> {}, uncancelled |-> {}]
    /\ io = [queue |-> <<>>,                      \* place frames not yet written
             torn |-> FALSE,                      \* the writer failed
             frame |-> [o \in IDs |-> "none"],    \* none, queued, written, partial, unwritten
             result |-> [o \in IDs |-> "none"],   \* write results not yet seen by the actor
             asked |-> {},                        \* previews this connection will answer
             epoch |-> 0]                         \* continuity of data at the broker

------------------------------------------------------------------------------
(* One entry.                                                              *)

\* closeOrderRoute with the handle's closeWithErr: the first cause stays, and
\* nothing the route kept is used again.
closeOrderRoute(h, why) ==
    [Absent EXCEPT !.kind = h.kind, !.starts = h.starts, !.recovery = h.recovery,
                   !.misled = h.misled, !.replaced = h.replaced, !.placed = h.placed,
                   !.err = IF h.err = "none" THEN why ELSE h.err]

\* emitEvent: a full queue ends the observation.
Emit(h) ==
    IF ~h.open THEN h
    ELSE IF h.queued = EventCap THEN closeOrderRoute(h, "slow")
    ELSE [h EXCEPT !.queued = @ + 1]

\* emitLifecycle(OrderStarted).
EmitStarted(h) == IF Emit(h).open THEN [Emit(h) EXCEPT !.starts = @ + 1] ELSE Emit(h)

\* A callback proves the write: its result no longer matters.
ensureOrderStarted(h) == IF h.write THEN EmitStarted([h EXCEPT !.write = FALSE]) ELSE h

\* An event that carries news of the order.
EmitNews(h) == IF Emit(h).open THEN [Emit(h) EXCEPT !.heard = io.epoch] ELSE Emit(h)

IsOrder(h) == h.open /\ h.kind \in {"order", "exercise"}

\* The order loop of emitGap and of disconnectRoutes.
EmitGap(h) == IF IsOrder(h) /\ ~h.gapped THEN Emit([h EXCEPT !.gapped = TRUE]) ELSE h

\* The order loop of emitResumed.
EmitRestored(h) == IF IsOrder(h) /\ h.gapped THEN Emit([h EXCEPT !.gapped = FALSE]) ELSE h

\* Mutant: a handle that already lost continuity is not told again.
requireOrderRecoveryOnce(h, epoch) ==
    IF IsOrder(h) /\ h.gapped /\ ~h.recovery
    THEN Emit([h EXCEPT !.gapped = FALSE, !.recovery = TRUE, !.known = epoch])
    ELSE h

requireOrderRecovery(h, epoch) ==
    IF IsOrder(h) /\ h.gapped
    THEN Emit([h EXCEPT !.gapped = FALSE, !.recovery = TRUE, !.known = epoch])
    ELSE h

\* The keyed route of an exercise and the preview route end with a connection.
Interrupt(h) ==
    IF h.kind \in {"exercise", "preview"} /\ h.open THEN closeOrderRoute(h, "interrupted") ELSE h

\* disconnectRoutes: order handles survive.
disconnectRoutes(h) == EmitGap(Interrupt(h))

dropLostRoutes(h) == Interrupt(h)

\* What the Wait of the public handle returns: any end of an admitted exercise
\* without an answer is uncertain.
WaitResult(o) ==
    IF /\ book[o].kind = "exercise" /\ io.frame[o] # "none"
       /\ book[o].err \notin {"none", "detached", "rejected"}
    THEN "uncertain" ELSE book[o].err

\* IsRetryable, for the causes an order can end with.
IsRetryable(cause) == cause = "interrupted"

------------------------------------------------------------------------------
(* Placement.                                                              *)

Ready == wire = "live" /\ phase \in {"Ready", "Degraded"}

Quiet == UNCHANGED <<phase, gen, seq, up>> /\ MayStop

\* The caller's next call.
Call(kind) ==
    /\ Ready /\ todo.calls # <<>> /\ Head(todo.calls) = kind
    /\ todo' = [todo EXCEPT !.calls = Tail(@)]

bindOrderHandle(kind) ==
    [Absent EXCEPT !.kind = kind, !.open = TRUE, !.placed = io.epoch, !.known = io.epoch]

\* trackOrderWrite.
Tracked(h) == [h EXCEPT !.write = TRUE]

Transmit(legs) ==
    [io EXCEPT !.queue = @ \o legs,
               !.frame = [o \in IDs |-> IF \E i \in DOMAIN legs : legs[i] = o THEN "queued" ELSE @[o]]]

\* allocOrderID, bind, send; a refused order leaves an error and no handle.
PlaceOrder ==
    /\ Call("order") /\ next < N
    /\ next' = next + 1
    /\ \/ /\ book' = [book EXCEPT ![next'] = Tracked(bindOrderHandle("order"))]
          /\ io' = Transmit(<<next'>>)
       \/ /\ book' = [book EXCEPT ![next'] = closeOrderRoute(bindOrderHandle("order"), "interrupted")]
          /\ UNCHANGED io
    /\ UNCHANGED failed /\ Quiet

\* Mutant: the error names only the legs whose cancellation was refused.
OrderRecoveryErrorUncancelled(legs, sent, cancelled) ==
    [legs |-> legs, named |-> sent \ cancelled, uncancelled |-> sent \ cancelled]

\* newOrderRecoveryError names every admitted leg.
OrderRecoveryError(legs, sent, cancelled) ==
    [legs |-> legs, named |-> sent, uncancelled |-> sent \ cancelled]

\* cancelAndCloseOrderRoutes: without an admitted leg the placement error is
\* returned as it is.
cancelAndCloseOrderRoutes(legs, sent, cancelled) ==
    /\ failed' = OrderRecoveryError(legs, sent, cancelled)
    /\ book' = [o \in IDs |-> IF o \notin legs THEN book[o]
                              ELSE closeOrderRoute(bindOrderHandle("order"),
                                     IF sent = {} THEN "interrupted" ELSE "recovery")]

\* Three consecutive IDs, three routes, three sends in one turn.  The queue
\* may refuse any of them and then take some of the cancellations.
PlaceBracket ==
    /\ Call("bracket") /\ next + 3 <= N
    /\ next' = next + 3
    /\ LET legs == next + 1 .. next + 3
       IN  \E k \in 0 .. 3 :
             LET sent == next + 1 .. next + k
             IN  /\ io' = Transmit([i \in 1 .. k |-> next + i])
                 /\ IF k = 3
                    THEN /\ book' = [o \in IDs |-> IF o \in legs THEN Tracked(bindOrderHandle("order"))
                                                   ELSE book[o]]
                         /\ UNCHANGED failed
                    ELSE \E cancelled \in SUBSET sent :
                           cancelAndCloseOrderRoutes(legs, sent, cancelled)
    /\ Quiet

\* No handle: the preview route waits for one echo.
PreviewOrder ==
    /\ Call("preview") /\ next < N
    /\ next' = next + 1
    /\ \/ /\ book' = [book EXCEPT ![next'] = bindOrderHandle("preview")]
          /\ io' = [io EXCEPT !.asked = @ \cup {next'}]
       \/ /\ book' = [book EXCEPT ![next'] = closeOrderRoute(bindOrderHandle("preview"), "interrupted")]
          /\ UNCHANGED io
    /\ UNCHANGED failed /\ Quiet

\* installExerciseRoute and an untracked send: once admitted, the frame counts
\* as possibly written.
ExerciseOptions ==
    /\ Call("exercise") /\ next < N
    /\ next' = next + 1
    /\ \/ /\ book' = [book EXCEPT ![next'] = bindOrderHandle("exercise")]
          /\ io' = [io EXCEPT !.frame[next'] = "written"]
       \/ /\ book' = [book EXCEPT ![next'] = closeOrderRoute(bindOrderHandle("exercise"), "interrupted")]
          /\ UNCHANGED io
    /\ UNCHANGED failed /\ Quiet

Touch(o, h) ==
    /\ book' = [book EXCEPT ![o] = h]
    /\ UNCHANGED <<next, io, failed>>

MayReplace(h) == h.open /\ ~h.recovery

\* handle.replaceFn, admitted.
Replace(o) ==
    /\ Ready /\ book[o].kind = "order" /\ MayReplace(book[o])
    /\ Touch(o, [book[o] EXCEPT !.replaced = io.epoch])
    /\ UNCHANGED todo /\ Quiet

\* OrderHandle.Close through the actor, or the caller of a preview gives up.
Detach(o) ==
    /\ book[o].open
    /\ Touch(o, closeOrderRoute(book[o], "detached"))
    /\ UNCHANGED todo /\ Quiet

\* The consumer takes an event.
Consume(o) ==
    /\ book[o].open /\ book[o].queued > 0
    /\ Touch(o, [book[o] EXCEPT !.queued = @ - 1])
    /\ UNCHANGED <<linkVars, todo>>

------------------------------------------------------------------------------
(* The transport: frames leave in order; after it stops one may be torn and *)
(* the rest is discarded (Transport.tla, OutcomeTruth).                     *)

WriteFrame(outcome) ==
    /\ io.queue # <<>>
    /\ outcome = "written" \/ wire = "dying"
    /\ io.torn => outcome = "unwritten"
    /\ LET o == Head(io.queue)
       IN  io' = [io EXCEPT !.queue = Tail(@), !.torn = outcome # "written",
                            !.frame[o] = outcome, !.result[o] = outcome]
    /\ UNCHANGED <<linkVars, todo, next, book, failed>>

\* Mutant: a torn frame counts as not sent.
AfterWriteTornIsUnsent(h, outcome) ==
    IF outcome = "written" THEN EmitStarted(h) ELSE closeOrderRoute(h, "interrupted")

\* Mutant: a torn frame stays pending.
AfterWriteTornPends(h, outcome) ==
    CASE outcome = "written"   -> EmitStarted(h)
      [] outcome = "unwritten" -> closeOrderRoute(h, "interrupted")
      [] outcome = "partial"   -> [h EXCEPT !.write = TRUE]

\* A torn frame may have reached the gateway; the loss that follows tells.
AfterWrite(h, outcome) ==
    CASE outcome = "written"   -> EmitStarted(h)
      [] outcome = "unwritten" -> closeOrderRoute(h, "interrupted")
      [] outcome = "partial"   -> h

\* A result nobody waits for any more is ignored.
handleTransportWrite(o) ==
    /\ io.result[o] # "none" /\ phase # "Closed"
    /\ io' = [io EXCEPT !.result[o] = "none"]
    /\ book' = IF book[o].write
               THEN [book EXCEPT ![o] = AfterWrite([@ EXCEPT !.write = FALSE], io.result[o])]
               ELSE book
    /\ UNCHANGED <<linkVars, todo, next, failed>>

------------------------------------------------------------------------------
(* The gateway.                                                            *)

\* Identity fields of a callback for this order number: of this client's order,
\* or of an order another client numbered alike.
Identity(client, perm) == [client |-> client, perm |-> perm]
OwnIdentities == {Identity("own", "none"), Identity("own", "own"),
                  Identity("unset", "own"), Identity("unset", "none")}
ForeignIdentities == {Identity("other", "none"), Identity("other", "other"),
                      Identity("unset", "other"), Identity("unset", "none")}

\* Mutant: with a bound permanent ID a missing client ID is trusted.
ClaimsByClient(h, id) ==
    IF id.perm # "none" /\ h.perm THEN id.client # "other" ELSE id.client = "own"

\* claimOrderCallbackStrings, claimOrderCallback: a bound permanent ID decides;
\* otherwise only the explicit ID of this client claims.
Claims(h, id) ==
    IF id.perm # "none" /\ h.perm THEN id.perm = "own" ELSE id.client = "own"

Claim(h, id, mine) ==
    [h EXCEPT !.perm = @ \/ id.perm # "none", !.misled = @ \/ ~mine]

\* What an attributed echo, status, execution or binding does to the handle.
Observe(h, works) ==
    LET t == ensureOrderStarted(h)
    IN  EmitNews([t EXCEPT !.working = @ \/ works])

Reply ==
    /\ wire # "none" /\ phase \in {"Handshaking", "Ready", "Degraded"}
    /\ todo.replies > 0 /\ todo' = [todo EXCEPT !.replies = @ - 1]
    /\ UNCHANGED linkVars

\* The broker speaks of this client's order only when it has the whole frame.
Source(o, id, mine) ==
    /\ IsOrder(book[o])
    /\ IF mine THEN io.frame[o] = "written" /\ id \in OwnIdentities ELSE id \in ForeignIdentities

\* dispatchObservedOpenOrder, dispatchObservedOrderStatus and
\* dispatchExecutionToOrder; a row that does not decode ends the observation.
OrderCallback(o, id, mine) ==
    /\ Source(o, id, mine)
    /\ Reply
    /\ LET h == Claim(book[o], id, mine)
       IN  IF ~Claims(book[o], id) THEN Touch(o, book[o])
           ELSE \/ \E works \in BOOLEAN : Touch(o, Observe(h, works))
                \/ Touch(o, closeOrderRoute(h, "malformed"))

\* codec.OrderBound, whose client ID is always explicit.
OrderBound(o, id, mine) ==
    /\ Source(o, id, mine) /\ id.client # "unset"
    /\ Reply
    /\ Touch(o, IF Claims(book[o], id) THEN Observe(Claim(book[o], id, mine), TRUE)
                ELSE book[o])

\* A callback whose identity does not parse is let through, so that the
\* projection reports it.
MalformedIdentity(o) ==
    /\ IsOrder(book[o])
    /\ Reply
    /\ Touch(o, closeOrderRoute(book[o], "malformed"))

\* An order error reaches a working handle as a warning: the order lives on.
ErrorToOrder(h, rejection) ==
    LET t == ensureOrderStarted(h)
    IN  IF t.open /\ rejection /\ ~t.working THEN closeOrderRoute(t, "rejected") ELSE EmitNews(t)

\* handleAPIError for an order ID, cancellation replies aside: the keyed route
\* of an exercise, the preview, the order, or only a session event.
OrderError(o, rejection) ==
    /\ io.frame[o] = "written" \/ o \in io.asked
    /\ Reply
    /\ io' = IF rejection THEN [io EXCEPT !.asked = @ \ {o}] ELSE io
    /\ LET h == book[o]
       IN  book' = [book EXCEPT ![o] =
             IF ~h.open THEN h
             ELSE IF h.kind = "order" THEN ErrorToOrder(h, rejection)
             ELSE IF rejection THEN closeOrderRoute(h, "rejected")
             ELSE IF h.kind = "exercise" THEN EmitNews(h) ELSE h]
    /\ UNCHANGED <<next, failed>>

\* The single open_order echo of a what-if request.
PreviewEcho(o) ==
    /\ o \in io.asked
    /\ Reply
    /\ book' = [book EXCEPT ![o] = IF @.open THEN closeOrderRoute(@, "answered") ELSE @]
    /\ io' = [io EXCEPT !.asked = @ \ {o}]
    /\ UNCHANGED <<next, failed>>

------------------------------------------------------------------------------
(* The link's events.                                                      *)

Each(Step(_)) == book' = [o \in IDs |-> Step(book[o])]

Connect ==
    /\ Dialing
    /\ UNCHANGED orderVars

\* handleConnectResult: the marker precedes the first message of the new
\* connection.
AttachTransport ==
    /\ gen < MaxGen
    /\ Attach
    /\ Each(LAMBDA h : IF phase = "Reconnecting"
                       THEN requireOrderRecovery(h, io.epoch + 1) ELSE h)
    /\ io' = [io EXCEPT !.epoch = @ + 1, !.torn = FALSE]
    /\ UNCHANGED <<todo, next, failed>>

BootstrapCompletes ==
    /\ BecomeReady
    /\ UNCHANGED orderVars

Coded(published) ==
    /\ todo.codes > 0 /\ todo' = [todo EXCEPT !.codes = @ - 1]
    /\ Code(published)
    /\ UNCHANGED <<next, failed>>

ConnectivityLost ==
    /\ Coded("Degraded")
    /\ Each(EmitGap)
    /\ UNCHANGED io

\* Code 1101: continuity is lost although the connection stays.
LoseContinuity(h) == dropLostRoutes(requireOrderRecovery(EmitGap(h), io.epoch + 1))

ConnectivityRestoredDataLost ==
    /\ Coded("Ready")
    /\ Each(LoseContinuity)
    /\ io' = [io EXCEPT !.epoch = @ + 1, !.asked = {}]

ConnectivityRestoredDataMaintained ==
    /\ Coded("Ready")
    /\ Each(EmitRestored)
    /\ UNCHANGED io

WireStops ==
    /\ Stop
    /\ UNCHANGED orderVars

\* attachTransport's third pump: every write result reaches the actor before
\* the loss.
Drained == io.queue = <<>> /\ \A o \in IDs : io.result[o] = "none"

TransportLost ==
    /\ Drained
    /\ Lose("Reconnecting")
    /\ Each(disconnectRoutes)
    /\ io' = [io EXCEPT !.asked = {}]
    /\ UNCHANGED <<todo, next, failed>>

\* Mutant: with ReconnectOff the handles end like interrupted requests.
EndWithLossInterrupted(h) == IF h.open THEN closeOrderRoute(h, "interrupted") ELSE h

\* With ReconnectOff the handles end with ErrOrderRecoveryRequired.
EndWithLoss(h) == IF IsOrder(Interrupt(h)) THEN closeOrderRoute(h, "recovery") ELSE Interrupt(h)

LossCloses ==
    /\ Drained
    /\ Lose("Closed")
    /\ Each(EndWithLoss)
    /\ io' = [io EXCEPT !.asked = {}]
    /\ UNCHANGED <<todo, next, failed>>

\* closeEngine.
EndWithEngine(h) ==
    IF h.open THEN closeOrderRoute(h, IF h.kind = "exercise" THEN "interrupted" ELSE "closed") ELSE h

EngineCloses ==
    /\ Close
    /\ Each(EndWithEngine)
    /\ UNCHANGED <<todo, next, io, failed>>

Next ==
    \/ Connect \/ AttachTransport \/ BootstrapCompletes
    \/ ConnectivityLost \/ ConnectivityRestoredDataLost \/ ConnectivityRestoredDataMaintained
    \/ WireStops \/ TransportLost \/ LossCloses \/ EngineCloses
    \/ PlaceOrder \/ PlaceBracket \/ PreviewOrder \/ ExerciseOptions
    \/ \E o \in IDs :
         \/ Replace(o) \/ Detach(o) \/ Consume(o)
         \/ handleTransportWrite(o)
         \/ MalformedIdentity(o) \/ PreviewEcho(o)
         \/ \E rejection \in BOOLEAN : OrderError(o, rejection)
         \/ \E id \in OwnIdentities : OrderCallback(o, id, TRUE) \/ OrderBound(o, id, TRUE)
         \/ \E id \in ForeignIdentities : OrderCallback(o, id, FALSE) \/ OrderBound(o, id, FALSE)
    \/ \E outcome \in {"written", "partial", "unwritten"} : WriteFrame(outcome)

\* A transport that stops closes the socket: the write in progress returns and
\* the rest of the queue is discarded (Transport.tla, StopFinishes).
StoppedWriter ==
    /\ wire = "dying"
    /\ \E outcome \in {"written", "partial", "unwritten"} : WriteFrame(outcome)

\* The writer of a stopped transport and the pumps run; nobody is obliged to
\* call, to answer or, on a live connection, to read.
Spec ==
    /\ Init /\ [][Next]_vars
    /\ WF_vars(StoppedWriter)
    /\ \A o \in IDs : WF_vars(handleTransportWrite(o))

------------------------------------------------------------------------------
(* Properties.                                                             *)

Kinds == {"none", "order", "exercise", "preview"}
Causes == {"none", "detached", "interrupted", "slow", "rejected", "malformed", "recovery", "closed",
           "answered"}
Results == {"none", "written", "partial", "unwritten"}
FrameStates == Results \cup {"queued"}

Entries == [kind : Kinds, open : BOOLEAN, write : BOOLEAN, gapped : BOOLEAN, recovery : BOOLEAN,
            working : BOOLEAN, perm : BOOLEAN, queued : 0 .. EventCap, err : Causes, starts : Nat,
            placed : Nat, known : Nat, heard : Nat, replaced : Nat, misled : BOOLEAN]

Views == [queue : Seq(IDs), torn : BOOLEAN, frame : [IDs -> FrameStates], result : [IDs -> Results],
          asked : SUBSET IDs, epoch : Nat]

\* Entries, frames and results are well formed, and only tracked orders have
\* frames in the transport.
TypeOK ==
    /\ next \in 0 .. N
    /\ book \in [IDs -> Entries]
    /\ io \in Views
    /\ \A o \in IDs :
         /\ (book[o].kind = "none") = (o > next)
         /\ book[o].open => book[o].err = "none"
         /\ book[o].known <= io.epoch
         /\ io.result[o] \in {"none", io.frame[o]}
    /\ \A i \in 1 .. Len(io.queue) : io.frame[io.queue[i]] = "queued"

\* A cause the library calls retryable is never a lie: of an order that ended
\* with one the broker has nothing and gets nothing, whatever the write result,
\* the loss and the callbacks did meanwhile (IsRetryable, handleTransportWrite).
RetryIsSafe ==
    \A o \in IDs :
      IsRetryable(WaitResult(o)) => io.frame[o] \in {"none", "unwritten"}

\* A rolled-back bracket accounts for every leg the broker may see: each leg
\* with a frame is named, and its handle does not claim an ordinary failure
\* (cancelAndCloseOrderRoutes, OrderRecoveryError).
BracketAccounted ==
    \A o \in failed.legs :
      /\ ~book[o].open
      /\ io.frame[o] # "none" => o \in failed.named
      /\ failed.named # {} => ~IsRetryable(book[o].err)

\* No callback of a new data epoch reaches a handle before the marker that ends
\* the old one, also when the callback comes before the bootstrap is complete
\* (requireOrderRecovery).
RecoveryAnnouncedFirst ==
    \A o \in IDs : book[o].heard <= book[o].known

\* Every surviving handle learns of every broken continuity.
NoSilentBreak ==
    \A o \in IDs : IsOrder(book[o]) /\ wire # "none" => book[o].known = io.epoch

\* A handle starts once, and before its first callback, whether the write
\* result or the callback comes first (ensureOrderStarted).
StartsOnce ==
    \A o \in IDs :
      /\ book[o].starts <= 1
      /\ book[o].kind = "order" /\ book[o].heard > 0 => book[o].starts = 1

\* A pending write has an owner that will be told, and a connection to tell it:
\* nothing of a lost connection stays in pendingOrderWrites.
PendingWriteOwned ==
    \A o \in IDs :
      book[o].write =>
        /\ book[o].open /\ wire # "none"
        /\ io.frame[o] = "queued" \/ io.result[o] # "none"

\* An order of another client with the same number never acknowledges, starts
\* or feeds a handle (claimOrderCallback).
NoForeignEvidence == \A o \in IDs : ~book[o].misled

\* A replacement is only admitted on the history its order was placed in.
ReplaceNeedsContinuity ==
    \A o \in IDs : book[o].replaced # 0 => book[o].replaced = book[o].placed

\* A preview still waiting is one this connection will answer.
PreviewAnswerable ==
    \A o \in IDs : book[o].kind = "preview" /\ book[o].open => o \in io.asked

Contract == INSTANCE OrderContract WITH
    handle <- [o \in IDs |->
                 IF book[o].kind \in {"none", "preview"} THEN "unbound"
                 ELSE IF book[o].open THEN "open"
                 ELSE IF IsRetryable(WaitResult(o)) THEN "retry" ELSE "ended"],
    intact <- [o \in IDs |-> ~book[o].recovery],
    frame <- [o \in IDs |-> CASE io.frame[o] \in {"written", "partial"} -> "reached"
                              [] io.frame[o] = "unwritten"              -> "discarded"
                              [] OTHER                                  -> io.frame[o]]

\* The handles keep the contract.
ImplementsContract == Contract!ContractSpec

\* A peer that neither reads nor goes away holds the writer: a write has no
\* deadline.
HeldByPeer == wire = "live" /\ io.queue # <<>>

\* The question whether a placement left this host is settled, whatever becomes
\* of the connection, unless a peer that stops reading holds the writer for
\* good.
WriteSettles == []<>~HeldByPeer => \A o \in IDs : book[o].write ~> ~book[o].write

\* What an order handle says of its continuity is true after any reconnect.
ContinuityHonest == RecoveryAnnouncedFirst /\ NoSilentBreak /\ ReplaceNeedsContinuity

\* A handle is started once, owns its write until the result, hears only of its
\* own order, and a preview does not wait on a connection that forgot it.
HandleSound == TypeOK /\ StartsOnce /\ PendingWriteOwned /\ NoForeignEvidence /\ PreviewAnswerable
==============================================================================
