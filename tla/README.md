# A TLA+ model of the ibkr-go session engine

ibkr-go is a client library for the Interactive Brokers TWS/Gateway socket API. One TCP
connection carries every request and every answer of a client. This directory models what
happens between the public API and the socket: identifiers, the connection and its recovery,
the physical transport, the book of open requests that survives (or does not survive) a lost
connection, the calls that wait for it, order handles and their fills, and every operation with
the messages it sends and reads. Formatting, values and argument checks are left out.

- [1 The system](#1-the-system)
- [2 Modules](#2-modules)
- [3 Runs](#3-runs)
- [4 Fairness](#4-fairness)
- [5 Proofs](#5-proofs)
- [6 What the runs disagree about with the documentation](#6-findings)
- [7 Abstractions and limits](#7-abstractions-and-limits)
- [8 Plan](#8-plan)

To check: `tlc -config MCRoutes.cfg MCRoutes` (any `.cfg` with the module named in
`PROJECT.json`), `tlapm ConnectionProofs.tla` (any module of section 5).

## 1 The system

### Inventory

| Component | State | Operations | Interacts with |
|---|---|---|---|
| Actor (`engine_run.go`, `engine.go`) | everything below that starts with `e.` | one goroutine; a fair `select` over commands, decoded input, transport losses and dial results | every other part enqueues closures or sends on a channel |
| Identifier allocation (`engine.go` 503-596) | `nextReqID`, `requestIDHighWater`, `orderIDLowWater`, `snapshot.NextValidID` | `allocReqID`, `allocOrderID`, three `observe*` | every operation; routes and orders decide which IDs are live |
| Connection lifecycle (`engine_connect.go`, `engine_reconnect.go`) | snapshot state and `ConnectionSeq`, bootstrap facts, attempt and generation counters, the current, retiring and poisoned transport, backoff, epochs | dial, attach, bootstrap, codes 1100/1101/1102/1300, retire, loss, backoff, timeouts, close | dial goroutines, `time.AfterFunc`, the pumps of a transport, the caller of `Dial` |
| Physical transport (`internal/transport`) | bounded queue, `outgoingClosed`, `waitErr`, `stopOnce`, channels `completed`, `writable`, `incoming`, `stopping`, `done` | `Send`, `SendTracked`, `Close`, read loop, write loop | the actor sends and closes; the pumps of `attachTransport` drain it |
| Routing book (`engine_route.go`, `engine_reconnect.go`, `engine_subscription_*.go`) | `keyed`, `singletons`, `dirtySingletons`, `resumePending`, `resumeWaiting`, market-data selection | install, dispatch, gap, restore, drop, resume, cancel | reads the connection's generation and readiness; sends through the transport |
| Setup admission (`await.go`) | `readySetups` | park until ready, flush, cancel; response races | the routing book's barrier flushes it |
| Historical and clock pacing (`await.go`) | gate times and keys | delay, cancel, re-park | setup admission |
| Subscription handle (`subscription.go`, `snapshot_flow.go`) | two `Once`s, event buffers, snapshot collector | `Close`, `emit`, `emitState`, slow consumer | consumers on one side, the actor on the other |
| Order lifecycle (`engine_orders.go`, `order_handle.go`) | `orders`, `previews`, `pendingOrderWrites` | place, bracket, preview, exercise, modify, cancel, write result, recovery | tracked results of the transport; callbacks of the gateway |
| Execution correlation (`engine_execution_events.go`, `engine_route.go`) | bounded tables joining executions with commissions | record, join, expire, observer events | order handles, the passive observer |
| Operations (`engine_account.go` ... `engine_news.go`) | one route per call | one function per API request | routing book and admission |
| Codec (`internal/codec`, `internal/protocol`) | none: two tables of decoders, one of encoders, the version of each encoding | `Encode`, `DecodeBatch`, `fieldReader`, `consumeProto*` | operations above, transport below |
| Conversions (`parse.go`, `*_convert.go`, row handlers) | none | codec text to public values; refuse a row | operations |
| Session observer, logger, facades, options, validation, wire | none that outlives a call, apart from the drop-oldest observer | delegate, check | |

### What is hard here

- **Interleaving.** The actor is single-threaded but its inputs are not: a dial result, a timer,
  a decoded message, a loss and a command may arrive in any order, each computed from a state
  the actor has left since. The code defends itself with attempt IDs, transport identity,
  generations and epochs; each is one comparison that a test reaches only by luck.
- **Failure in the middle.** The socket may die between any two sends of one actor turn, and the
  outbound queue may be full at any of them. The resume barrier stops halfway and continues
  later, possibly on another connection.
- **Ordering.** Everything a connection decoded must reach the actor before its loss, and all
  write results before `Done`.
- **Identity.** Requests and orders share one number space on the wire, the request-ID-less
  streams have no number at all, and both wrap, are seeded by the server and are observed from
  other sessions.
- **Doubt.** A frame may have left or not when its connection dies, a callback may be another
  client's, a fill may be replayed, and a report may come before what it reports on. The handle
  has to say what is known, and never less than what may have happened.
- **Breadth.** Sixty operations, some hundred and thirty decoders and eighteen server versions:
  each is a table somewhere, and one wrong entry is one dropped field or one stream that cannot be
  cancelled at one version.
- **Progress.** A lost session has to recover, `Dial` has to return, a barrier that waits for
  queue space has to be woken, and `Close` has to release what a racing dial just opened.

### What makes each part correct

| Part | Must hold |
|---|---|
| Identifiers | No two live routes share a number; no order ever takes a number this client issued or saw; a late answer to a request cannot be read as an order's, also after the counter wrapped. |
| Connection | Exactly one way forward at any time; no input of a replaced connection; one sequence number per connection; `Dial` returns; the backoff restarts only after real quiet; sockets are released. |
| Transport | Whole frames in order; one truthful result per tracked frame; `Done` means all results are out; stopping always finishes; a refused sender is woken. |
| Admission and handles | A live remote stream has an owner; one outcome per call, and never a clean end after a loss; nobody blocks for ever on the command queue. |
| Pacing | Identical and consecutive requests keep their distance; every parked setup is settled once, and a wakeup is always ahead of it. |
| Orders | A retry that the error allows cannot double an order; every leg of a failed bracket is cancelled or named; continuity lost is announced before any callback; no evidence of another client's order is taken. |
| Fills | Tables, counters and the ring agree; a report reaches every consumer that is entitled to it or the consumer is closed; no fill twice. |
| Operations and codec | What the caller said is in the request or the call is refused; what the server sent reaches the handler; complete means whole; nothing runs on unowned. |
| Routing book | No handle waits for an answer that cannot come; no remote stream is orphaned; gaps alternate with their ends; new work stays behind the barrier; no rows of a predecessor. |

## 2 Modules

| Module | Models | Builds on |
|---|---|---|
| `IdSpace` | identifier allocation and everything that takes or releases an ID | |
| `IdLoop` | the two allocation loops as written, with `RECURSIVE` operators | `IdSpace` |
| `Link` | abstract: what the connection layer promises | |
| `Connection` | the connection lifecycle with its helper goroutines | |
| `ConnectionLink` | the refinement mapping to `Link` and the inductive invariant | `Connection`, instance of `Link` |
| `ConnectionProofs` | theorems about `Connection` and the refinement | `ConnectionLink`, `TLAPS` |
| `Routes` | routing book, setup admission and the resume barrier | `Link` |
| `Transport` | one `transport.Conn` | |
| `TransportProofs` | theorems about `Transport` | `Transport`, `TLAPS` |
| `OrderContract` | abstract: what an order handle promises | |
| `Orders` | placement, brackets, previews, exercises, write results, recovery | `Link`, instance of `OrderContract` |
| `OrdersProofs` | theorems about `Orders` and the refinement | `Orders`, `TLAPS` |
| `Fills` | execution and commission correlation, the execution observer | |
| `Admission` | command queue, parked setups, response races, subscription handles | |
| `Pacing` | the historical gates and the clock gate | |
| `QueueTheorems` | what a loop over a queue or a set computes and keeps, and the removal of one element; the loop body is a parameter | `SequencesExt`, `FiniteSetsExt`, `TLAPS` |
| `PartsProofs` | theorems about `IdSpace` and about `Pacing` | `IdSpace`, `Pacing`, an instance of `QueueTheorems`, `TLAPS` |
| `AdmissionProofs`, `RoutesProofs`, `FillsProofs` | theorems about `Admission`, `Routes` and `Fills` | each its module, instances of `QueueTheorems`, `TLAPS` |
| `Codec` | message numbers, versions, envelopes, which request carries which attribute | `ProtoRequests`, `ClassicMessages` |
| `ProtoMessages`, `ProtoRequests` | every protobuf decoder and every protobuf request as a table | |
| `ProtoBody` | the loop that reads a protobuf body | `ProtoRequests` |
| `ClassicMessages` | every classic decoder and request layout | |
| `ClassicBody` | `fieldReader` | `ClassicMessages` |
| `Conversions` | which attribute of a row must parse | |
| `Operations` | one record per public operation | `Codec`, `Conversions` |
| `Exchange` | one operation against a server of some version | `Operations` |
| `MC*` | instances for TLC | |

The composition is by promise: `Routes` does not repeat the dial and pump machinery. Each of its
connection steps conjoins an action of `Link` (`Attach`, `BecomeReady`, `Code`, `Stop`, `Lose`,
`Close`) with what the handler does to the book, and `Connection` is proved to implement `Link`.
`Transport` stands below both: `Connection` uses its `Close` and its end, `Routes` its refusals
and its writable edge. Those two interfaces are small and are restated in the upper modules.
`Orders` builds on `Link` the same way and takes from `Transport` that a result is truthful and
comes before the end of the connection. `Exchange` is the vertical composition: operation, codec
and conversion in one behaviour.

Definitions keep the names of the Go code. A definition whose name ends in a variant of another
one and whose comment starts with "Mutant:" is the same code with one plausible mistake, used to
show that a property can fail; no specification uses it.

### IdSpace and IdLoop

State: the four marks of `engine.go`; the three maps that make an ID live (`keyed`, `orders`,
`previews`) and which of the first two belong to one option exercise; whether the server seeded
the space; and two history sets, the order IDs ever seen and the request IDs ever issued. The
histories are what the properties speak of; the code keeps only the marks.

Actions: a seed from the gateway, an observed order (own or foreign, also 0 and out of range),
each kind of operation that allocates (with the frame admitted or refused), a bracket that runs
out of IDs in the middle, and the three ways a route ends. `allocReqID` and `allocOrderID` are
given declaratively ("first candidate in cyclic order", "least candidate"); `IdLoop` states the
loops as written, with the two-round `normalize`, and shows in every reachable state that they
compute exactly those definitions.

The skip over live IDs in `allocOrderID` never happens: the scan starts above everything seen.
That is why a bracket's three IDs are consecutive, and why exhaustion without a candidate leaves
the marks alone.

### Connection and Link

State: the engine's own fields (see the comments on the variables), the dial goroutines with the
attempt each works for, and per physical transport whether it is stopping, whether its decode
pump still runs, whether its loss is posted, plus the pending timers. A transport is named by its
generation; `NoTransport` is nil.

Every turn of the actor is one action: a handler with everything it calls. The other processes
are the dial goroutines (`DialReturns`, `DiscardResult`), the pumps (`GatewayGreets`,
`GatewayNotifies`, `PumpsReturn`), the socket, the timers and the caller of `Dial`. A frame read
before the socket failed is still forwarded after it (`Forward` only asks that the pump has not
returned), which is the case `NoStaleInput` and the findings are about.

`Link` has five variables: published phase, generation, sequence, `up` (this connection finished
its bootstrap) and the wire (`none`, `live`, `dying`). It says that a wire that began to stop
never lives again, that it is lost before the next one is attached, and that closed is final.

### Routes

State: one record `rt`, the routing book, field by field named after the engine's fields, plus
what the gateway hosts on this connection and what each handle was told last. A turn of the actor
is a composition of operators from book to book, in the order of the calls. The set `Turn` holds
every environment of a turn: how many checks the socket survives before it dies underneath
(`fuel`), how many slots the writer frees meanwhile, which consumers have no room for an event,
and which streams the negotiated server version can no longer encode. So one action covers a
whole handler such as `continueResumeRoutes`, including the socket dying after the second of three
re-sent streams.

Operations are represented by class: a ResumeAuto stream, a ResumeNever stream, a keyed one-shot,
a request-ID-less stream and `SetMarketDataType`.

### Transport

State: the fields of `Conn`, how far the winner of `stopOnce` has come, where each loop stands,
bytes of each frame accepted by the socket, and all results ever published. What runs under
`queueMu` is one step; the pacing select, the socket write, the result and each step of `stop`
are steps of their own, so every interleaving of a close, a peer reset and an oversized inbound
frame with a half-written frame is covered. A write that takes the whole frame and still returns an
error ends the loop, with the result "complete".

### Orders and OrderContract

State: one entry per order number (what `e.orders`, `e.previews` and `e.pendingOrderWrites` hold
of it, and its handle), the place frames in the transport, and what the broker may hold. A counter
of data epochs stands for the continuity of callbacks: it grows with a loss and with code 1101.
Each entry remembers the epoch of its placement, of the last thing its consumer was told and of
the last callback, which is what the continuity properties compare.

Actions: the four calls, with every leg of a bracket admitted or refused; write, tear or discard
of a place frame; its result at the actor; callbacks with their own, another client's, no or a
malformed identity; errors; replace, detach and consume; connection steps conjoined with `Link`.
`OrderContract` knows only events told to the owner: started once, one terminal cause, nothing
after it, and an interruption never reported as something that was not sent.

### Fills

One table for order handles, one per query, both bounded by the same small limit, and the ring of
excluded executions. A message is dispatched to observer, query and handles in one action, as in
`handleIncoming`. What each execution's order and query should have been given is kept beside the
tables and compared with what they got.

### Admission

Callers, the goroutine of `bindContext`, context callbacks and the actor are processes. A send on
`e.cmds` blocks, and is a step. The handle has its `cancelOnce`, cause, event queue and snapshot
latch. Kinds of calls: stream, snapshot, query, command.

### Pacing

A clock of a few ticks, requests with a key, wakeups from a timer and from a context that race in
the actor's inbox, and a session that may lose readiness while requests wait. The clock gate has
both kinds of callers, because they share one time and keep one route each.

### The codec

A decoder is the set of its fields: number, wire type, attribute, nested decoder, and what it does
when something needed is missing. `ProtoBody` runs the loop all decoders share, over the needed
fields in any order with one missing and one more anywhere: a good one, one cut short, one of each
wrong wire type, or one that only a newer server knows; at every depth. It also reads back what
`encodeOrderProto` and the messages in it write. `ClassicBody` runs `fieldReader` over every
classic layout: whole, cut at every field, unterminated, with text or a wild number in every
place. The verdict is compared with one that looks at the whole body at once.

### Operations, Conversions, Exchange

Each engine method is a record: request, rows, end, cancel and first version that has it, contract
fields it can carry, what abandoning it does. `Exchange` runs one at a time at one of seven versions:
setup with a contract or order attribute set, rows, an end, errors and warnings, reroutes, rows
that do not convert, a caller that leaves, a refresh, a lost connection and a resume at any other
version. A request reaches the server only if `Encode` has an encoding at that version, and an
answer only if `DecodeBatch` and `handleIncoming` know its number. The server is external; the
version at which it changes to protobuf is taken from the names of the gates in `version.go`.

## 3 Runs

Bounds are named constants of the modules. Every property of a passing run has a mutant of a
mapped definition that violates it under the same cfg (`PROJECT.json`).

| Run | Checks | Bounds and why they suffice |
|---|---|---|
| `parts`, identifiers | `LoopsFindCandidates`, `NoLiveCollision`, `OrderIDsFresh`, `RequestIDNeverAnOrder` | Four wire IDs, foreign orders 0, 1, 3 and one past the end: one bracket plus one more ID wrap the counter, exhaust the space in the middle of a bracket and leave holes on both sides of the order range. Safety is proved for every size. |
| `parts`, pacing | `PaceHonoured`, `SetupsSettle` | Three requests with two keys and spacings 1 and 3: one waits for each gate and one for both; two clock callers of either kind; time ends at 4, when the longest wait is over; one loss of readiness. |
| `parts`, bodies | `ProtoFaithful`, `ClassicFaithful` | Every decoder at every depth; lists of 0 to 2 entries; one fault in a body, since the first error decides. |
| `parts`, operations | `RequestFaithful`, `AnswersComplete`, `NoStrayTraffic` | Every operation; the versions on both sides of every gate an operation tests; two rows and two messages under way, so that an end overtakes nothing and a late row meets a closed route; two connections. |
| `connection` | `OneRecoveryPath`, `NoStaleInput`, `BootstrapHonest`, `BackoffResetsOnlyWhenStable`, `ImplementsLink` | One fault, two notices, two buffered inputs: enough for a loss with input in front of it, a second connection, and a code racing it. Proved without bounds. |
| `connection_recovers` | `Recovers`, `CloseReleasesSockets` | Two faults and one notice: the replacement connection fails as well. |
| `connection_ready_early` | `ReadyMeansBootstrapped`, violated | see findings |
| `routes` | `BookServed`, `NoOrphanStream`, `GapsAlternate`, `NewWorkAfterBarrier` | Two keyed requests of any class, two connections, two codes, one parked setup, a queue of one slot that the writer frees at most once within a turn. Two streams on one slot make the barrier stop halfway; two codes and a loss cover every overlap of two outages. |
| `routes_streams` | `NoLateRows`, `BarrierCompletes` | Three connections: close on the first, wait for the second, close again, and a successor on the third; no writer inside a turn, so the barrier depends on the waiter alone. |
| `routes_restored`, `routes_flush` | violated | see findings |
| `transport` | `WriterSound`, `StopOrdered`, `StopFinishes`, `WakeupNotLost` | Four frames of two bytes, a queue of two, one inbound slot and two arrivals: a frame torn in the middle with others queued behind it and one refused, a result channel that can fill up, a reader that blocks on a full channel nobody drains, and a sender that takes the slot another was woken for. |
| `orders` | `RetryIsSafe`, `BracketAccounted`, `ContinuityHonest`, `HandleSound`, `ImplementsContract`, `WriteSettles` | Two connections and, per load, one order with one code and two callbacks, an order with a preview, an exercise, or a bracket of three. Orders meet only in the queue and in a loss, which the second call of a load covers. Event queues of two fill up. |
| `fills` | `TablesSound`, `ReportsReachOwner`, `ConsumersHonest` | Three executions of two orders or of nobody, limits 1 and 2, four messages: a table overflows with a report outstanding and a third execution behind it. The three consumers keep separate tables and are run one at a time. |
| `admission` | `RemoteHasOwner`, `OutcomesHonest`, `NobodyStuck` | Two calls on a command queue of one slot, so that one blocks the other; two rows for an event queue of two, full once a lifecycle event is in it. |

`parts` puts models without common state into one run: the variable `part` picks one and the
others keep an idle value. Several properties are conjunctions of named parts, each with its own
comment in the module; in them `TypeOK` is checked too.

Deadlock is not checked: a closed client, a finished transport and a finished call have nothing
left to do. Waiting for ever is what the liveness properties are about.

What the properties say, in the terms of the code:

- `OneRecoveryPath`: between the first command and close there is exactly one of a pending
  reconnect timer, a dial and a transport. None would be a session that stays in Reconnecting; two
  would be a transport overwritten while its socket is open.
- `NoStaleInput`: the wait of the loss goroutine for `decodedDone` and the drain in `run` mean that
  buffered input and a posted loss always belong to the current transport; the generation test in
  `handleActorInput` is a second line of defence.
- `BackoffResetsOnlyWhenStable`: a stability timer whose connection saw a 1100 or a loss since it
  was armed does not reset the attempt counter, although the transport may be ready again.
- `BookServed`: an open handle is served by this connection, or it is a ResumeAuto stream that
  was told of a gap or is queued for the barrier.
- `NoOrphanStream`: a stream closed by its owner or for a slow consumer is not left running on a
  live connection, also when it is closed while the barrier is halfway; if the cancellation could
  not be sent, the handle says so and the connection is retired.
- `NewWorkAfterBarrier`: a new request is installed only when the selection and every stream to be
  resumed were admitted before it.
- `WriterSound`: whole frames in order, one result each, and "unwritten" is only reported for frames of which no byte ever reaches the socket,
  before or after the report. Order placement relies on it: an unwritten order may be given up.
- `RetryIsSafe`: if `IsRetryable` accepts the error of a handle, the broker does not hold the order
  and never will.
- `BracketAccounted`: after a bracket fails, every leg the broker may hold was cancelled or is named
  in the recovery error.
- `ContinuityHonest`: a consumer is told of recovery before it gets a callback of a later epoch, an
  epoch never passes unannounced, and `Replace` is refused in between.
- `ReportsReachOwner`: every commission report received for an execution of an open order or query
  is delivered, pending for its execution, or the owner was closed for overflow.
- `RemoteHasOwner`: whatever the caller's context does, a stream that the gateway serves has a
  caller, a handle, or a cancellation on its way.
- `NobodyStuck`: every caller returns and every `Close` finishes, with a full command queue and an
  actor that cancels the same stream.
- `RequestFaithful`: at every version an attribute the caller set is carried or the call is refused,
  and both encodings of one request carry the same attributes.
- `AnswersComplete`: a call that reports success had every row the server sent before the end, each
  of them converted.
- `NoStrayTraffic`: when an operation is over, the server does not go on streaming to nobody on a
  live connection, no later call can take the late answer of a request without an ID, and a quote
  is never made of ticks of two connections.

## 4 Fairness

- `Connection`: weak fairness of the actor, the dial goroutines, the pumps and the greetings. Go's
  `select` is fair, goroutines and `AfterFunc`s run, a dial is bounded by a context timeout, and
  the bootstrap timeout ends a gateway that does not greet. No fairness for faults, notices,
  retirement, `Close` or the caller's context. Faults are bounded by `MaxFaults`: `Recovers` says
  that the client recovers once the network does, that is, it publishes Ready on the bootstrap of a
  new connection. A loss leaves the old bootstrap facts in place, so they alone would prove nothing.
- `Routes`: weak fairness of the writer and the capacity waiter only. `BarrierCompletes` assumes a
  connection that stays up and ready; then the writer drains its queue. Nobody is obliged to call,
  to fail or to answer.
- `Transport`: weak fairness of the two loops, of the winner of `stopOnce`, of the completion
  drain of `attachTransport`, which by construction keeps draining after the engine is done, and
  of a refused sender's retry, which the engine's waiter is. Nothing of the peer or of the decode
  pump: `WakeupNotLost` has "the writer does not stay in one write for ever" as its hypothesis.
- `Orders`: weak fairness of the writer of a stopped transport, whose socket is closed so that the
  write in progress returns and the queue is discarded (`StoppedWriter`), and of the actor's handling
  of a result. Nothing of the gateway: the dial clears the socket's deadline and `writeAll` sets none,
  so a peer that stays connected and does not read holds the write, and with it the order's pending
  write, for ever. `WriteSettles` has "this does not go on for good" (`HeldByPeer`) as its hypothesis,
  as `WakeupNotLost` has.
- `Admission`: weak fairness of the actor's next command, and of callers and helper goroutines where
  they do not wait for something. Nothing of contexts, rows or the link.
- `Fills`, `Pacing`, the codec and `Exchange` have safety properties only; that no wakeup is lost is
  the invariant `SetupsSettle`.

## 5 Proofs

Eight modules are checked by TLAPS. They assume of the constants only what the named `ASSUME` of
the specification says (naturals, nonzero where a size, the kinds of calls); TLC evaluates the same
assumptions in the runs. Every theorem below holds for all values of the constants: any number of
requests, orders, calls and connections, any capacity, any spacing. The runs check the same
properties on the instances of section 3.

| Module | Theorems about run properties | The rest |
|---|---|---|
| `PartsProofs` | `NoLiveCollision`, `OrderIDsFresh`, `RequestIDNeverAnOrder`; `PaceHonoured`, `SetupsSettle` | the inductive invariants, `TypeOK` of `IdSpace` and the three parts of `OrderIDsFresh` |
| `ConnectionProofs` | `OneRecoveryPath`, `NoStaleInput`, `BootstrapHonest`, `BackoffResetsOnlyWhenStable`, `ImplementsLink` | `TypeOK` and the two parts of `BootstrapHonest` |
| `TransportProofs` | `WriterSound`, `StopOrdered` | the inductive invariant |
| `OrdersProofs` | `RetryIsSafe`, `BracketAccounted`, `ContinuityHonest`, `HandleSound`, `ImplementsContract` | the inductive invariant |
| `AdmissionProofs` | `RemoteHasOwner`, `OutcomesHonest` | the inductive invariant |
| `RoutesProofs` | `BookServed`, `NoOrphanStream`, `GapsAlternate`, `NoLateRows`, `NewWorkAfterBarrier` | `TypeOK`, the inductive invariant |
| `FillsProofs` | `TablesSound`, `ReportsReachOwner`, `ConsumersHonest` | the inductive invariant |
| `QueueTheorems` | | none of its own: the loop lemmas that the last three and `PartsProofs` instantiate |

All invariance proofs have one shape: `Init => IInv`, one lemma per action (or per group of actions
that touch the same state) for `IInv /\ [Next]_vars => IInv'`, and `IInv => property`. Each `IInv` was
an invariant of a TLC run before it was proved. A handler is a composition of operators on records,
so below the action lemmas there is one lemma per operator that says which fields it changes
(`CloseIs`, `SettleIs`, `RespondIs`...); the action lemmas cite those and never unfold a record.

**IdSpace.** The inductive invariant adds to `TypeOK` and `NoLiveCollision`:

- `Marks`: every order ID ever seen lies between the low water mark and the next valid ID, and
  every request ID ever issued is at most the high water mark. This is why three numbers can stand
  for two unbounded histories.
- `LiveSeen`: a live route's ID is in the history of its family.

An order candidate lies above both histories, a request candidate outside the order range; the
action properties follow from lemma `NewIDsAreFresh`.

**Connection.** The inductive invariant `IInv` (module `ConnectionLink`) has five parts besides
`TypeOK`:

- `PathInv`: which published state goes with which means of progress, and that a running dial is
  the current attempt. `OneRecoveryPath` counts the means; induction needs to know, for example,
  that a pending timer implies auto-reconnect, or the timer's own guard could end the last path.
- `PumpInv`: only the current transport pumps or is posted as lost, never both, and only after it
  began to stop. The last part is what makes a lost wire a dying one in `Link`.
- `SeqInv`: until its bootstrap is reported a connection has not used up its sequence number.
- `ReadyInv` and `DialNotStranded`: while `Dial` waits on a bootstrapped engine a result is
  buffered; an error is buffered only by close.

`StableInv` (a disturbed timer carries an older epoch than the engine) is the separate invariant
behind the backoff theorem. There is one step lemma per part and in it one case per action.

**Transport.** The properties speak of the bytes of each frame and of the results; the code keeps
neither. `LineInv` connects them with what it keeps: frames are numbered as they are admitted, both
queues hold consecutive numbers, and `Passed` (admitted minus queued) is the frame in hand.
`ByteInv` then says that the socket has every frame below `Passed` whole, nothing above it, and a
part of at most that one; `ResultInv` that the published results are those of the tracked frames up
to it. `StopInv` says how far `stop` has come when the writer may leave its loop. A result
"unwritten" is truthful because by then the queue is closed and what was left in it lies above
`Passed`.

**Orders.** `BookInv` is one predicate per order on its entry, its place frame, the writer's result and
the connection: an open handle with a write outstanding is on a live connection and its frame is
queued or its result is on the way; a handle whose error is retryable has a frame of which no byte
left; the epoch a handle has announced is the connection's unless it is in a gap. `QueueInv` says that
the queue holds exactly the queued frames, each once, so that a loss settles all of them; `FailedInv`
carries `BracketAccounted` with the range of the legs. `ImplementsContract` follows step by step:
each action changes the entry of one order by a step of `OrderContract`, or all of them
by the gap or the close that the contract allows.

**Pacing.** `PaceHonoured` compares any two requests ever sent, the gates remember one time for all
and one per key, and `pruneHistoricalRequests` forgets. `GateOK` is what they remember: the common gate
is past every request by its spacing, and a key's time covers every request of that key that is not
older than its spacing. `SetupOK` ties the stage of a request to its answers and its wakeup, `HeldOK`
says that a held setup is parked once.

**Admission.** `CallOK` is one predicate per call over everything any process knows about it: where the caller
is, whether its context ended, the response channel, whether its setup is still waiting somewhere,
its route, its subscription, the two cancelling threads and which commands are queued for it.
`SetupsOnce` says that the setup of a call is in one place: queued once, parked once or in the actor's
hand. That is why it cannot be answered twice, and without it `AnsweredOnce` is not inductive.
`CauseOK` is the argument for `SnapshotHonest`: until the caller closes, a subscription is cancelled only
with a recorded cause, so a clean end before `Close` is impossible and `collectSnapshot` may take rows
for success. A turn of the actor is proved operator by operator: `TurnOK` holds between two
operators, with the setups taken out of a queue and not yet run in the actor's hand.

**Queues.** `flushReadySetups` folds a handler over the parked setups, and what a fold computes is an
induction over the queue. The induction theorems of the library take an operator as parameter and no
backend here instantiates them, so `QueueTheorems` does it with sets: the set of lengths for which the
fold is the expected state contains 0 and all successors, hence is `Nat` by well-foundedness
(`InductiveSet`). Handler and loop invariant are CONSTANT operators of the module, so that
an INSTANCE yields first-order facts. `FoldLeftInvariant` is the loop rule; `PartsProofs` and
`AdmissionProofs` instantiate it with `runHistoricalSetup` and `RunSetup`. `WithoutKeeps` is the same for
`RemoveFirst` in `cancelReadySetup`.

**Routes.** `Inv` has two layers. `Base` holds in every behaviour: the book is well formed, the queue within
its capacity, a market-data selection belongs to a past or the present connection, a singleton shares no
connection with late rows, and gap and end alternate on every route (`RouteOK`). `Served` says who hosts
what, by the phase of the session: on a live wire that is ready, an open route is hosted or waits in the
barrier (`UpOK`); while the session is down nothing is hosted or pending and every open stream is in its gap
(`DownOK`); after the end nothing is left. `Served` holds only without connectivity codes before the
greetings (`EarlyCodes` off): the code breaks it otherwise, which is finding 1, so `BookIsServed`,
`NothingOrphaned` and `WorkBehindBarrier` have `~EarlyCodes` as hypothesis and the two other theorems have
not. A turn is a composition: take the turn, publish, tell the routes, run the barrier, run the parked
setups. Each part has a relation that says what it may change (`Ended`, `Told`, `Ran`, `Resumes`), the
relations compose through the loops with `FoldLeftInvariant` for the two queues and `FoldSetInvariant` for
the walks over the route map, and an action lemma concludes from the relations alone. `NewWorkAfterBarrier`
follows because a route can only become open in `Ran` or in an installation that `isReady` guards, and both
start from an empty barrier.

**Fills.** `Inv` has one part per consumer. For the handles, `SideOK` says of the tables: the limits hold and
`fees` is the sum of the pending lengths (`CountOK`); ring and index name each other (`RingOK`); an execution
with an owner belongs to an open handle that has it, has nothing pending, and remembers the last report given
(`OwnedOK`); an execution that is not claimed has been given to nobody (`ToldOK`); of an order that was not placed
nothing is known (`FreshOK`). `ReportsReachOwner` compares the tables with a history, all reports the gateway sent.
`SentOK` is the link: without repetitions the history is what the handle was given followed by what
waits. It is inductive because `OwnedOK` keeps the queue of a claimed execution empty, so a later report
cannot overtake, and `delivered` is the last element of what was given, so dropping an equal report is
dropping a repetition. `QueryOK` says the same of a query, where an unseen execution has everything pending
until the snapshot is complete.

An operator of the tables is proved on a record and says what the others keep (`Kept`): the step on one
execution preserves `SentOK` of all others by that relation alone. `forgetOrderExecutions` walks over a map, so the
theorem is about every order of its exclusions; while the walk lasts `OwnedOK` is false, and the loop
invariant `SideBut` allows the handle being closed to own entries still. The two counters are sums over a
domain; `SumOver` is shown by induction on the size of the set not to depend on the order in which CHOOSE picks,
and `PendingPut` and `PendingDrop` are what the handlers need of it. `Distinct` is a fold, and so are the
deliveries and a query's collections: `DeliverAll` and `CollectAll` run the two loops side by side.

**What the proofs changed in the models.** `CASE` expressions whose guards overlapped became IF chains in
`Orders`, `Routes` and `Fills` (TLC takes the first true guard, the semantics of TLA+ any).
`cancelReadySetup` removes the first match, as the loop in `await.go` does, where it removed all; since a
setup is parked once (`HeldOK`, `SetupsOnce`) the two agree in every reachable state. `Routes` sorts the streams
to resume with `InOrder` and puts a turn together with `With`: the community operators for the two are
recursive or leave the prover without the domain of the result. `FillsAssumption` says that the empty execution
ID, which the ring uses for a freed slot, is no execution: `excludeOrderExecution` returns on it at once. The
instances always had that, the theorems need it.

**Only model-checked.**

- The liveness properties (`Recovers`, `CloseReleasesSockets`, `BarrierCompletes`, `StopFinishes`,
  `WakeupNotLost`, `WriteSettles`, `NobodyStuck`): TLAPS has no rules here for fairness and ENABLED.
- `LoopsFindCandidates`: `IdLoop` states the loops with RECURSIVE operators, which cost tlapm its SMT
  backend.
- `ProtoFaithful`, `ClassicFaithful`, `RequestFaithful`, `AnswersComplete`, `NoStrayTraffic`: statements about
  fixed tables of messages, versions and operations. TLC enumerates all of them; there is no constant to
  generalise over but the length of a body.

## 6 Findings

Three documented statements do not hold of the code; each has a run that ends in a
counterexample.

1. `connection_ready_early`. `docs/session-contract.md:49`: "`Ready` marks bootstrap completion".
   Codes 1100, 1101 and 1102 publish Degraded or Ready whatever the bootstrap is. Between the
   handshake and the last greeting the snapshot then says Ready with the previous `ConnectionSeq`.
   `isReady` tests the published state, so the book also takes new work ahead of the barrier, and
   a 1101 resumes streams that the bootstrap then resumes again. `Routes` has the switch
   `EarlyCodes` for this: with it, `BookServed`, `NoOrphanStream` and `NewWorkAfterBarrier` fail. The passing runs of `Routes` leave it off, that is, they assume a
   gateway that sends no connectivity code before its greetings.
2. `routes_restored`. `docs/session-contract.md:107`: "`Restored` means the Gateway retained it".
   Code 1102 sends Restored to every gapped stream, also to one that still waits in the resume
   queue of a replacement connection and that this connection has never carried.
3. `routes_flush`. `await.go:34`: a setup runs "only after session readiness is established".
   `continueResumeRoutes` flushes the parked setups without asking `isReady`. If the transport
   already stops when the last buffered greeting or a 1101 is handled and nothing is to be
   resumed, the setups run on the dying wire; their callers get an error instead of the
   replacement session.

## 7 Abstractions and limits

- In the session models messages are classes: greetings, connectivity codes, malformed input,
  answers, rows. Which messages those are is the business of `Codec` and `Exchange`.
- `reconnectDelay` is the attempt number up to `MaxBackoff`; only `Pacing` has a clock, elsewhere any
  timer may fire at any time after it was armed.
- `Connection` starts the stability timer in the turn that publishes Ready: its resume barrier is
  empty. `Routes` has the barrier and not the timer.
- `DialReturns` stands for TCP connect, version handshake and `start_api`; their outcome is chosen.
- The token in `tr.Writable()` and the closure the waiter enqueues are one step in `Routes`; a
  loss in between is covered by the closure's own test of the transport.
- The writer frees at most `MaxDrain` slots within one turn of the actor.
- `Routes` bounds the parked setups at submission; a re-parked singleton may exceed it by one.
- IDs are not reused in `Routes`; `IdSpace` is where reuse is decided.
- `Orders` does not repeat the dial; an early 1101 (finding 1) would label the recovery marker of an
  order with the previous sequence number, and `Orders` has no codes before the greetings.
- `Orders` hands out each number once; that numbers are not reused is proved in `IdSpace`.
- In `Fills` a correction of an execution is a report of another version; amounts are not modelled.
- A body has one fault, and a nested message is read inside an otherwise whole one. Varint bytes,
  UTF-8 and number formats are not modelled: a value is good or cut short, a number parses or not.
- `ConfigRequest` is in `Operations`, the values of the configuration are not.
- In `Exchange` the server stops serving a request when it answers it with an error (not a warning),
  and an operation is alone on the connection; what two of them do to each other is in
  `Routes`, `Admission` and `IdSpace`.
- The quote is modelled as the set of connections its ticks came from, not as prices.

### Not modelled

- `client.go`, options and argument checks: no state, nothing interleaves, tested directly.
- The drop-oldest session observer and the logger: neither acts on the session.
- Type declarations, clones, `config_convert.go`: structure without control.
- The classification table of `errcodes.go` beyond what `IsRetryable` and the handlers test.
- `internal/wire`: four length bytes and NUL splitting; a frame is one unit of `Transport`.
- `cmd/`, capture and replay tools, the replay host: around the library, not in it.

## 8 Status

All modules of section 2 are written, and every invariant and action property of the session's state
machines is proved, the two refinements included. Left to TLC are the liveness properties, and the codec
and `Exchange`, whose statements are about tables (section 5). What could come next is a composition of `Orders` with `Fills`
over one route table (they share the order handles and nothing else), and a model of the local fold of
ticks into a quote.
