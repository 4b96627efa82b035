------------------------------ MODULE Admission ------------------------------
(***************************************************************************)
(* The boundary between callers and the actor: the bounded command queue,   *)
(* setups parked until the session is ready, the four ways a caller waits    *)
(* for its answer (await.go), and the handle it gets: bounded events, one    *)
(* terminal cause, public Close, cancellation by the caller's context and    *)
(* by the actor itself (subscription.go, snapshot_flow.go).                  *)
(*                                                                         *)
(* Callers, the goroutine bindContext starts, the callbacks of contexts and  *)
(* the actor are separate processes; a blocking send on the command queue is *)
(* a step of its own.  The kinds of calls:                                  *)
(*   "stream"    a subscription (awaitSubscriptionResponse, bindContext)     *)
(*   "snapshot"  a subscription collected to its end and closed              *)
(*   "query"     a one-shot request (awaitOneShotResponse)                   *)
(*   "command"   fire and forget (awaitFireAndForget)                        *)
(***************************************************************************)
EXTENDS Integers, Sequences, FiniteSets, SequencesExt

CONSTANTS
    Calls,      \* calls made
    Mixes,      \* the assignments of kinds to calls tried
    QueueCap,   \* capacity of e.cmds
    EventCap,   \* capacity of a subscription's event queue
    MaxRows,    \* rows the gateway sends to a call
    MaxLinks    \* times the link comes up

ASSUME AdmissionAssumption ==
    /\ {QueueCap, EventCap, MaxRows, MaxLinks} \subseteq Nat /\ QueueCap > 0 /\ EventCap > 0
    /\ Mixes \subseteq [Calls -> {"stream", "snapshot", "query", "command"}]

VARIABLES
    kind,     \* call -> its kind
    pc,       \* call -> where its caller is
    ctx,      \* call -> its context ended
    resp,     \* call -> the response channel, of capacity one
    replies,  \* call -> responses sent so far
    result,   \* call -> what the caller returned with
    parked,   \* e.readySetups
    aborts,   \* contexts of parked setups whose AfterFunc is about to enqueue
    route,    \* call -> its route is installed and the request admitted
    sub,      \* call -> its Subscription
    helper,   \* call, canceller -> where that thread is in Subscription.cancel
    cmds,     \* e.cmds
    actor,    \* the actor's own blocking send, if it ever makes one
    link,     \* "down", "ready", "retiring"
    links,
    done      \* e.done is closed

vars == <<kind, pc, ctx, resp, replies, result, parked, aborts, route, sub, helper,
          cmds, actor, link, links, done>>

Cancellers == {"watch", "user"}
NoSub == [once |-> "free",   \* cancelOnce: free, held, spent
          cause |-> "none", err |-> "none", done |-> FALSE,
          queued |-> 0, lost |-> FALSE,                        \* an event was dropped
          rows |-> 0, kept |-> 0, complete |-> FALSE]          \* rows sent and collected before the boundary

Init ==
    /\ kind \in Mixes
    /\ pc = [c \in Calls |-> "idle"] /\ ctx = [c \in Calls |-> FALSE]
    /\ resp = [c \in Calls |-> "empty"] /\ replies = [c \in Calls |-> 0]
    /\ result = [c \in Calls |-> "none"]
    /\ parked = <<>> /\ aborts = {} /\ route = [c \in Calls |-> FALSE]
    /\ sub = [c \in Calls |-> NoSub]
    /\ helper = [c \in Calls |-> [w \in Cancellers |-> "off"]]
    /\ cmds = <<>> /\ actor = "free" /\ link = "down" /\ links = 0 /\ done = FALSE

IsStream(c) == kind[c] \in {"stream", "snapshot"}
Room == Len(cmds) < QueueCap
Parked(c) == \E i \in DOMAIN parked : parked[i] = c

------------------------------------------------------------------------------
(* Callers.                                                                *)

callerFrame == <<kind, ctx, replies, parked, aborts, route, actor, link, links, done>>

Call(c) ==
    /\ pc[c] = "idle"
    /\ pc' = [pc EXCEPT ![c] = "enqueue"]
    /\ UNCHANGED <<resp, result, sub, helper, cmds, callerFrame>>

\* e.enqueue blocks for room and gives up when the engine is closed.
Enqueue(c) ==
    /\ pc[c] = "enqueue"
    /\ \/ Room /\ cmds' = Append(cmds, [do |-> "setup", c |-> c])
       \/ done /\ UNCHANGED cmds
    /\ pc' = [pc EXCEPT ![c] = "await"]
    /\ UNCHANGED <<resp, result, sub, helper, callerFrame>>

\* What the caller does with the response it received.
Received(c, r) ==
    /\ resp' = [resp EXCEPT ![c] = "empty"]
    /\ IF r = "handle"
       THEN /\ pc' = [pc EXCEPT ![c] = IF kind[c] = "snapshot" THEN "collect" ELSE "held"]
            /\ helper' = [helper EXCEPT ![c]["watch"] = "armed"]   \* bindContext
            /\ UNCHANGED result
       ELSE /\ pc' = [pc EXCEPT ![c] = "returned"]
            /\ result' = [result EXCEPT ![c] = IF r = "zero" THEN "context" ELSE r]
            /\ UNCHANGED helper
    /\ UNCHANGED <<sub, cmds, callerFrame>>

Return(c, r) ==
    /\ pc' = [pc EXCEPT ![c] = "returned"] /\ result' = [result EXCEPT ![c] = r]
    /\ UNCHANGED <<resp, sub, helper, cmds, callerFrame>>

\* Mutant: the caller's context ends the wait although admission is undecided.
GivesUpEarly(c) == ctx[c]

\* awaitAdmittedResponse: cancellation is no return path, closing is one only
\* without a response.
GivesUp(c) == FALSE

AwaitAdmitted(c) ==
    /\ pc[c] = "await" /\ kind[c] # "query"
    /\ \/ resp[c] # "empty" /\ Received(c, resp[c])
       \/ resp[c] = "empty" /\ done /\ Return(c, "closed")
       \/ GivesUp(c) /\ Return(c, "context")

\* awaitOneShotResponse: the select takes any branch that is ready; a caller
\* that leaves enqueues the release of its route.
AwaitOneShot(c) ==
    /\ pc[c] = "await" /\ kind[c] = "query"
    /\ \/ resp[c] # "empty" /\ Received(c, resp[c])
       \/ done /\ Return(c, "closed")
       \/ /\ ctx[c] /\ pc' = [pc EXCEPT ![c] = "abandon"]
          /\ UNCHANGED <<resp, result, sub, helper, cmds, callerFrame>>

Abandon(c) ==
    /\ pc[c] = "abandon"
    /\ \/ Room /\ cmds' = Append(cmds, [do |-> "abandon", c |-> c])
       \/ done /\ UNCHANGED cmds
    /\ pc' = [pc EXCEPT ![c] = "returned"] /\ result' = [result EXCEPT ![c] = "context"]
    /\ UNCHANGED <<resp, sub, helper, callerFrame>>

\* The consumer reads events of its stream, and may close it.
Consume(c) ==
    /\ pc[c] = "held" /\ sub[c].queued > 0
    /\ sub' = [sub EXCEPT ![c].queued = @ - 1]
    /\ UNCHANGED <<pc, resp, result, helper, cmds, callerFrame>>

CloseStream(c) ==
    /\ pc[c] = "held" /\ helper[c]["user"] = "off"
    /\ helper' = [helper EXCEPT ![c]["user"] = "once"]
    /\ UNCHANGED <<pc, resp, result, sub, cmds, callerFrame>>

\* collectSnapshot: any ready branch of the select.
Collected(c) ==
    (IF sub[c].complete THEN {"rows"} ELSE {})
    \cup (IF ~sub[c].done THEN {} ELSE IF sub[c].complete \/ sub[c].err = "clean" THEN {"rows"}
          ELSE {sub[c].err})
    \cup (IF ctx[c] THEN {"context"} ELSE {})

\* collectSnapshotAndClose: collect, Close, Wait; only an uncertain
\* cancellation turns rows into an error.
CollectSnapshot(c) ==
    /\ pc[c] = "collect"
    /\ \E r \in Collected(c) :
         /\ pc' = [pc EXCEPT ![c] = "wait"] /\ result' = [result EXCEPT ![c] = r]
    /\ helper' = [helper EXCEPT ![c]["user"] = "once"]
    /\ UNCHANGED <<resp, sub, cmds, callerFrame>>

WaitSnapshot(c) ==
    /\ pc[c] = "wait" /\ helper[c]["user"] = "end" /\ sub[c].done
    /\ pc' = [pc EXCEPT ![c] = "returned"]
    /\ result' = [result EXCEPT ![c] = IF @ = "rows" /\ sub[c].err = "uncertain" THEN "uncertain" ELSE @]
    /\ UNCHANGED <<resp, sub, helper, cmds, callerFrame>>

------------------------------------------------------------------------------
(* Contexts and cancelling threads.                                        *)

\* context.AfterFunc of parkReadySetup.
AfterFunc(c) == Parked(c)

ContextEnds(c) ==
    /\ pc[c] # "idle" /\ ~ctx[c]
    /\ ctx' = [ctx EXCEPT ![c] = TRUE]
    /\ aborts' = IF AfterFunc(c) THEN aborts \cup {c} ELSE aborts
    /\ UNCHANGED <<kind, pc, resp, replies, result, parked, route, sub, helper, cmds, actor,
                   link, links, done>>

EnqueueAbort(c) ==
    /\ c \in aborts
    /\ aborts' = aborts \ {c}
    /\ \/ Room /\ cmds' = Append(cmds, [do |-> "unpark", c |-> c])
       \/ done /\ UNCHANGED cmds
    /\ UNCHANGED <<kind, pc, ctx, resp, replies, result, parked, route, sub, helper, actor,
                   link, links, done>>

\* recordCancelCause: the first cause stays.
recordCancelCause(s, cause) ==
    IF cause # "none" /\ s.cause = "none" THEN [s EXCEPT !.cause = cause] ELSE s

helperFrame == <<kind, pc, ctx, resp, replies, result, parked, aborts, route, actor, link, links, done>>

\* bindContext's goroutine.
WatchContext(c) ==
    /\ helper[c]["watch"] = "armed"
    /\ \/ /\ ctx[c] /\ helper' = [helper EXCEPT ![c]["watch"] = "once"]
          /\ sub' = [sub EXCEPT ![c] = recordCancelCause(@, "context")]
       \/ /\ sub[c].done /\ helper' = [helper EXCEPT ![c]["watch"] = "end"]
          /\ UNCHANGED sub
    /\ UNCHANGED <<cmds, helperFrame>>

\* Subscription.cancel: cancelOnce lets one thread through and the others wait
\* for it.
CancelOnce(c, w) ==
    /\ helper[c][w] = "once" /\ sub[c].once # "held"
    /\ IF sub[c].once = "free"
       THEN helper' = [helper EXCEPT ![c][w] = "enqueue"] /\ sub' = [sub EXCEPT ![c].once = "held"]
       ELSE helper' = [helper EXCEPT ![c][w] = "end"] /\ UNCHANGED sub
    /\ UNCHANGED <<cmds, helperFrame>>

EnqueueCancel(c, w) ==
    /\ helper[c][w] = "enqueue"
    /\ \/ Room /\ cmds' = Append(cmds, [do |-> "cancel", c |-> c])
       \/ done /\ UNCHANGED cmds
    /\ helper' = [helper EXCEPT ![c][w] = "end"] /\ sub' = [sub EXCEPT ![c].once = "spent"]
    /\ UNCHANGED helperFrame

------------------------------------------------------------------------------
(* Turns of the actor, as operators on the state it owns.                   *)

World == [resp |-> resp, replies |-> replies, parked |-> parked, route |-> route,
          sub |-> sub, link |-> link, actor |-> actor]

WorldIs(w) ==
    /\ resp' = w.resp /\ replies' = w.replies /\ parked' = w.parked /\ route' = w.route
    /\ sub' = w.sub /\ link' = w.link /\ actor' = w.actor

\* A send on the response channel.
Respond(w, c, r) == [w EXCEPT !.resp[c] = r, !.replies[c] = @ + 1]

\* Mutant: the terminal error ignores the recorded cause.
closeWithErrPlain(s, err) ==
    IF s.done THEN s ELSE [s EXCEPT !.done = TRUE, !.err = err]

\* closeWithErr: a recorded cause replaces the error; an uncertain
\* cancellation is joined to it.
closeWithErr(s, err) ==
    IF s.done THEN s
    ELSE [s EXCEPT !.done = TRUE,
                   !.err = IF s.cause # "none" /\ err # "uncertain" THEN s.cause ELSE err]

\* onCanceled of the three waits; a query's caller has left by itself.
Canceled(w, c) == IF kind[c] = "query" THEN w ELSE Respond(w, c, "zero")

\* The setup itself: the request is admitted by the transport, or refused.
Setup(w, c, admitted) ==
    IF ~admitted THEN Respond(w, c, "error")
    ELSE CASE kind[c] = "command" -> Respond(w, c, "ok")
           [] kind[c] = "query"   -> [w EXCEPT !.route[c] = TRUE]
           [] IsStream(c)         -> Respond([w EXCEPT !.route[c] = TRUE,
                                                       !.sub[c].queued = IF kind[c] = "stream" THEN 1 ELSE 0],
                                             c, "handle")

\* enqueueContextSetup and enqueueReadySetup.
RunSetup(w, c, admitted) ==
    IF ctx[c] THEN Canceled(w, c)
    ELSE IF w.link = "ready" THEN Setup(w, c, admitted)
    ELSE [w EXCEPT !.parked = Append(@, c)]

\* cancelReadySetup: only a setup still parked is answered here.
cancelReadySetup(w, c) ==
    IF ~\E i \in DOMAIN w.parked : w.parked[i] = c THEN w
    ELSE Canceled([w EXCEPT !.parked = RemoveFirst(@, c)], c)

\* The route's cancel callback: a refused cancellation on a live connection is
\* uncertain and retires the connection.
ActorCancel(w, c, refused) ==
    IF ~w.route[c] THEN w
    ELSE IF refused /\ w.link = "ready"
    THEN [w EXCEPT !.route[c] = FALSE, !.sub[c] = closeWithErr(@, "uncertain"), !.link = "retiring"]
    ELSE [w EXCEPT !.route[c] = FALSE, !.sub[c] = closeWithErr(@, "clean")]

\* Mutant: the actor cancels through its own command queue, holding cancelOnce.
cancelFromActorEnqueues(w, c, refused) == [w EXCEPT !.actor = "enqueue"]

\* cancelFromActor never waits, neither for the queue nor for cancelOnce.
cancelFromActor(w, c, refused) == ActorCancel(w, c, refused)

HasRoom(s) == s.queued < EventCap

\* emit: a collector keeps every row, a stream without room loses this one and
\* ends.
EmitRow(w, c, refused) ==
    LET s == w.sub[c]
    IN  IF s.done THEN w
        ELSE IF kind[c] = "snapshot"
        THEN [w EXCEPT !.sub[c].kept = IF s.complete THEN @ ELSE @ + 1,
                       !.sub[c].rows = IF s.complete THEN @ ELSE @ + 1]
        ELSE IF HasRoom(s)
        THEN [w EXCEPT !.sub[c].queued = @ + 1, !.sub[c].rows = @ + 1]
        ELSE cancelFromActor([w EXCEPT !.sub[c] = recordCancelCause([s EXCEPT !.lost = TRUE], "slow")],
                             c, refused)

\* Routes end with the connection, the engine or an error: streams with the
\* cause, a query with a response.
EndRoutes(w, cs, why) ==
    LET hit == {c \in cs : w.route[c]}
        ask == {c \in hit : kind[c] = "query"}
    IN  [w EXCEPT !.route = [c \in Calls |-> @[c] /\ c \notin hit],
                  !.sub = [c \in Calls |-> IF c \in hit \ ask THEN closeWithErr(@[c], why) ELSE @[c]],
                  !.resp = [c \in Calls |-> IF c \in ask THEN why ELSE @[c]],
                  !.replies = [c \in Calls |-> IF c \in ask THEN @[c] + 1 ELSE @[c]]]

\* flushReadySetups, in the order of parking.
flushReadySetups(w, setups, admitted) ==
    FoldLeft(LAMBDA v, c : RunSetup(v, c, c \in admitted), [w EXCEPT !.parked = <<>>], setups)

actorFrame == <<kind, pc, ctx, result, aborts, helper>>
Actor == ~done /\ actor = "free"

\* One command.
RunCommand ==
    /\ Actor /\ cmds # <<>>
    /\ cmds' = Tail(cmds)
    /\ \E ok \in BOOLEAN :
         LET q == Head(cmds)
         IN  WorldIs(CASE q.do = "setup"   -> RunSetup(World, q.c, ok)
                       [] q.do = "unpark"  -> cancelReadySetup(World, q.c)
                       [] q.do = "cancel"  -> ActorCancel(World, q.c, ~ok)
                       [] q.do = "abandon" -> [World EXCEPT !.route[q.c] = FALSE])
    /\ UNCHANGED <<links, done, actorFrame>>

\* A row of the call's request.
Row(c) ==
    /\ Actor /\ route[c] /\ link # "down" /\ sub[c].rows < MaxRows
    /\ \E refused \in BOOLEAN :
         WorldIs(IF kind[c] = "query" THEN Respond([World EXCEPT !.route[c] = FALSE], c, "ok")
                 ELSE EmitRow(World, c, refused))
    /\ UNCHANGED <<cmds, links, done, actorFrame>>

\* emitState(StreamSnapshotComplete).
SnapshotEnds(c) ==
    /\ Actor /\ route[c] /\ kind[c] = "snapshot" /\ link # "down" /\ ~sub[c].complete
    /\ WorldIs([World EXCEPT !.sub[c].complete = TRUE])
    /\ UNCHANGED <<cmds, links, done, actorFrame>>

\* handleAPIErr of the route.
RequestError(c) ==
    /\ Actor /\ route[c] /\ link # "down"
    /\ WorldIs(EndRoutes(World, {c}, "rejected"))
    /\ UNCHANGED <<cmds, links, done, actorFrame>>

\* flushReadySetups; the contexts' callbacks are stopped, or find nothing.
LinkReady ==
    /\ Actor /\ link = "down" /\ links < MaxLinks
    /\ links' = links + 1
    /\ \E admitted \in SUBSET Calls :
         WorldIs(flushReadySetups([World EXCEPT !.link = "ready"], parked, admitted))
    /\ aborts' \in {aborts, aborts \ {parked[i] : i \in DOMAIN parked}}
    /\ UNCHANGED <<cmds, done, kind, pc, ctx, result, helper>>

LinkLost ==
    /\ Actor /\ link # "down"
    /\ WorldIs([EndRoutes(World, Calls, "interrupted") EXCEPT !.link = "down"])
    /\ UNCHANGED <<cmds, links, done, actorFrame>>

\* closeEngine: parked setups get no answer, their callers see done.
CloseEngine ==
    /\ Actor
    /\ done' = TRUE
    /\ WorldIs([EndRoutes(World, Calls, "closed") EXCEPT !.parked = <<>>, !.link = "down"])
    /\ UNCHANGED <<cmds, links, actorFrame>>

------------------------------------------------------------------------------
Caller(c) ==
    \/ Enqueue(c) \/ AwaitAdmitted(c) \/ AwaitOneShot(c) \/ Abandon(c)
    \/ CollectSnapshot(c) \/ WaitSnapshot(c)

Helper(c) ==
    \/ EnqueueAbort(c) \/ WatchContext(c)
    \/ \E w \in Cancellers : CancelOnce(c, w) \/ EnqueueCancel(c, w)

Next ==
    \/ \E c \in Calls :
         \/ Call(c) \/ Caller(c) \/ Helper(c) \/ ContextEnds(c)
         \/ Consume(c) \/ CloseStream(c)
         \/ Row(c) \/ SnapshotEnds(c) \/ RequestError(c)
    \/ RunCommand \/ LinkReady \/ LinkLost \/ CloseEngine

\* Every thread runs; contexts, consumers, the gateway and the network owe
\* nothing.
Spec ==
    /\ Init /\ [][Next]_vars
    /\ WF_vars(RunCommand)
    /\ \A c \in Calls : WF_vars(Caller(c)) /\ WF_vars(Helper(c))

------------------------------------------------------------------------------
(* Properties.                                                             *)

\* Values are well formed and the queues within their capacity.
TypeOK ==
    /\ \A c \in Calls :
         /\ pc[c] \in {"idle", "enqueue", "await", "abandon", "collect", "wait", "held", "returned"}
         /\ resp[c] \in {"empty", "zero", "error", "ok", "handle", "interrupted", "rejected", "closed"}
         /\ sub[c].err \in {"none", "clean", "uncertain", "context", "slow", "interrupted", "rejected", "closed"}
         /\ sub[c].queued \in 0 .. EventCap
         /\ sub[c].done = (sub[c].err # "none")
         /\ helper[c] \in [Cancellers -> {"off", "armed", "once", "enqueue", "end"}]
    /\ Len(cmds) <= QueueCap /\ link \in {"down", "ready", "retiring"}

\* Every remote operation has somebody who can end it: a caller that will get or
\* has the handle, or for a query a caller still waiting or its release on the
\* way, however contexts, admission and readiness race.
RemoteHasOwner ==
    \A c \in Calls :
      route[c] =>
        IF kind[c] = "query"
        THEN pc[c] \in {"await", "abandon"} \/ \E i \in DOMAIN cmds : cmds[i] = [do |-> "abandon", c |-> c]
        ELSE (pc[c] = "await" /\ resp[c] = "handle") \/ pc[c] \in {"held", "collect", "wait"}

\* A setup is answered at most once, so the actor never blocks on a response
\* channel: parking, flushing and cancelling exclude each other.
AnsweredOnce == \A c \in Calls : replies[c] <= 1

\* A stream that lost an event says so: its terminal error is never clean, also
\* when a public Close had already begun.
LossReported == \A c \in Calls : sub[c].lost => sub[c].err \notin {"none", "clean"}

\* A snapshot that returns without an error is the whole snapshot.
SnapshotHonest ==
    \A c \in Calls :
      kind[c] = "snapshot" /\ result[c] = "rows" => sub[c].complete /\ sub[c].kept = sub[c].rows

\* A caller whose context ended, or whose engine closed, gets an answer.
CallerReturns ==
    \A c \in Calls :
      (pc[c] \in {"enqueue", "await"} /\ (ctx[c] \/ done)) ~> pc[c] \notin {"enqueue", "await"}

\* A Close ends the stream, whatever the actor is doing to it and however full
\* the queue is.
CloseFinishes == \A c \in Calls : helper[c]["user"] = "once" ~> sub[c].done

\* A call is answered once, and a stream or snapshot that lost rows says so.
OutcomesHonest == TypeOK /\ AnsweredOnce /\ LossReported /\ SnapshotHonest

\* Neither a caller whose context ended nor a public Close waits for ever.
NobodyStuck == CallerReturns /\ CloseFinishes
==============================================================================
