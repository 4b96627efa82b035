----------------------------- MODULE Transport -----------------------------
(***************************************************************************)
(* One physical connection (internal/transport): the bounded outbound queue *)
(* behind queueMu, the write loop with its pacing, the read loop, stop and  *)
(* its sync.Once, and the completion, writable and done channels.           *)
(*                                                                         *)
(* Processes: senders and Close callers (the actor), the writer, the reader,*)
(* whoever won stopOnce, the completion drain of attachTransport, and the   *)
(* peer.  What runs under queueMu is one step.  Frames are numbered in the  *)
(* order of their admission.                                                *)
(***************************************************************************)
EXTENDS Naturals, Sequences

CONSTANTS
    MaxFrames,    \* frames admitted
    FrameLen,     \* bytes of a frame
    QueueCap,     \* outgoingQueueCap (256 in the code)
    IncomingCap,  \* capacity of c.incoming (64 in the code)
    MaxArrivals,  \* frames the peer sends
    Paced         \* sendRate > 0

ASSUME TransportAssumption ==
    /\ {MaxFrames, MaxArrivals} \subseteq Nat
    /\ {FrameLen, QueueCap, IncomingCap} \subseteq Nat \ {0}
    /\ Paced \in BOOLEAN

VARIABLES
    outgoing,        \* c.outgoing
    outgoingClosed,  \* c.outgoingClosed; c.stopping is closed in the same step
    admitted,        \* frames admitted so far
    tracked,         \* the ones admitted by SendTracked
    refused,         \* a sender got ErrSendQueueFull and waits to retry
    writable,        \* token in c.writable
    stopper,         \* who won stopOnce
    stopAt,          \* how far stop has come
    waitErr,         \* c.waitErr is set
    socket,          \* the net.Conn
    sent,            \* bytes of each frame the socket accepted
    writer,          \* where writeLoop is
    item,            \* the frame it took off the queue
    unwritten,       \* frames it still has to report as unwritten
    published,       \* every WriteResult ever sent to c.completed
    taken,           \* how many of them the drain received
    completedClosed, \* c.completed is closed
    done,            \* c.done is closed
    reader,          \* where readLoop is
    inbox,           \* frames in c.incoming
    arrivals         \* frames read so far

queueVars == <<outgoing, outgoingClosed, admitted, tracked>>
stopVars == <<stopper, stopAt, waitErr, socket>>
writeVars == <<writer, item, unwritten, sent>>
resultVars == <<published, taken, completedClosed, done>>
readVars == <<reader, inbox, arrivals>>
vars == <<queueVars, stopVars, writeVars, resultVars, readVars, refused, writable>>

Frames == 1 .. MaxFrames
NoFrame == 0

\* New.
Init ==
    /\ outgoing = <<>> /\ outgoingClosed = FALSE /\ admitted = 0 /\ tracked = {}
    /\ refused = FALSE /\ writable = FALSE
    /\ stopper = "none" /\ stopAt = "free" /\ waitErr = FALSE /\ socket = "open"
    /\ sent = [f \in Frames |-> 0]
    /\ writer = "wait" /\ item = NoFrame /\ unwritten = <<>>
    /\ published = <<>> /\ taken = 0 /\ completedClosed = FALSE /\ done = FALSE
    /\ reader = "read" /\ inbox = 0 /\ arrivals = 0

------------------------------------------------------------------------------
(* Senders.                                                                *)

QueueFull == Len(outgoing) >= QueueCap

Enqueue(isTracked) ==
    /\ admitted' = admitted + 1
    /\ outgoing' = Append(outgoing, admitted + 1)
    /\ tracked' = IF isTracked THEN tracked \cup {admitted + 1} ELSE tracked

\* admit, from the lock to the unlock.  Wire limits and the caller's context
\* are checked before and change nothing.
admit(isTracked) ==
    \/ /\ outgoingClosed
       /\ refused' = FALSE
       /\ UNCHANGED <<outgoing, admitted, tracked>>
    \/ /\ ~outgoingClosed /\ QueueFull
       /\ refused' = TRUE
       /\ UNCHANGED <<outgoing, admitted, tracked>>
    \/ /\ ~outgoingClosed /\ ~QueueFull
       /\ refused' = FALSE
       /\ Enqueue(isTracked)

Send(isTracked) ==
    /\ ~refused
    /\ admitted < MaxFrames
    /\ admit(isTracked)
    /\ UNCHANGED <<outgoingClosed, stopVars, writeVars, resultVars, readVars, writable>>

\* Another caller is faster than the one that waits for room.
SendMeanwhile(isTracked) ==
    /\ refused
    /\ admitted + 1 < MaxFrames
    /\ ~outgoingClosed /\ ~QueueFull
    /\ Enqueue(isTracked)
    /\ UNCHANGED <<outgoingClosed, refused, stopVars, writeVars, resultVars, readVars, writable>>

\* The refused caller waits for the Writable edge, or for Done, and retries.
Retry ==
    /\ refused
    /\ writable \/ done
    /\ writable' = FALSE
    /\ admit(FALSE)
    /\ UNCHANGED <<outgoingClosed, stopVars, writeVars, resultVars, readVars>>

------------------------------------------------------------------------------
(* stop, in the goroutine that won stopOnce.                               *)

\* Close() brings no error; a read or a write failure does.
StopBegins(caller) ==
    /\ stopAt = "free"
    /\ stopper' = caller
    /\ stopAt' = IF caller = "user" THEN "queue" ELSE "error"
    /\ UNCHANGED <<waitErr, socket>>

CloseBegins ==
    /\ StopBegins("user")
    /\ UNCHANGED <<queueVars, writeVars, resultVars, readVars, refused, writable>>

RecordError ==
    /\ stopAt = "error"
    /\ waitErr' = TRUE
    /\ stopAt' = "queue"
    /\ UNCHANGED <<stopper, socket, queueVars, writeVars, resultVars, readVars, refused, writable>>

CloseQueue ==
    /\ stopAt = "queue"
    /\ outgoingClosed' = TRUE
    /\ stopAt' = "socket"
    /\ UNCHANGED <<stopper, waitErr, socket, outgoing, admitted, tracked, writeVars, resultVars,
                   readVars, refused, writable>>

CloseSocket ==
    /\ stopAt = "socket"
    /\ socket' = "closed"
    /\ stopAt' = "done"
    /\ UNCHANGED <<stopper, waitErr, queueVars, writeVars, resultVars, readVars, refused, writable>>

StopStep == RecordError \/ CloseQueue \/ CloseSocket

------------------------------------------------------------------------------
(* The writer.                                                             *)

\* c.stop(err) returns once the goroutine that won has finished.
CallStop(caller) ==
    \/ StopBegins(caller)
    \/ stopAt = "done" /\ UNCHANGED stopVars

Queued == outgoing

\* takeQueuedLocked, and where the loop goes with the result.
TakeQueued ==
    /\ unwritten' = Queued
    /\ outgoing' = <<>>
    /\ writer' = "report"

\* The condition of the inner loop around queueCond.Wait.
MayLeaveWait == outgoing # <<>> \/ outgoingClosed

WriterWakes ==
    /\ writer = "wait"
    /\ MayLeaveWait
    /\ \/ outgoingClosed /\ TakeQueued
       \/ /\ ~outgoingClosed
          /\ writer' = IF Paced THEN "pace" ELSE "take"
          /\ UNCHANGED <<outgoing, unwritten>>
    /\ UNCHANGED <<item, sent, outgoingClosed, admitted, tracked, stopVars, resultVars, readVars,
                   refused, writable>>

\* The ticker, or the stopping channel, whichever the select picks.
WriterPaces ==
    /\ writer = "pace"
    /\ \/ writer' = "take"
       \/ outgoingClosed /\ writer' = "wait"
    /\ UNCHANGED <<item, unwritten, sent, queueVars, stopVars, resultVars, readVars, refused, writable>>

\* Mutant: the edge is not signalled.
SignalWritableNever == UNCHANGED writable

SignalWritable == writable' = TRUE

WriterTakes ==
    /\ writer = "take"
    /\ \/ outgoingClosed /\ TakeQueued /\ UNCHANGED <<item, writable>>
       \/ /\ ~outgoingClosed /\ outgoing # <<>>
          /\ item' = Head(outgoing)
          /\ outgoing' = Tail(outgoing)
          /\ SignalWritable
          /\ writer' = "write"
          /\ UNCHANGED unwritten
    /\ UNCHANGED <<sent, outgoingClosed, admitted, tracked, stopVars, resultVars, readVars, refused>>

\* writeAll's loop ends without error.
WrittenBy(n) == sent[item] + n = FrameLen

\* writeAll: one Write of the socket that accepts n bytes.  A Write that takes
\* the last byte may return an error all the same.
WriteBytes(n) ==
    /\ writer = "write" /\ socket = "open"
    /\ n \in 1 .. FrameLen - sent[item]
    /\ sent' = [sent EXCEPT ![item] = @ + n]
    /\ \/ WrittenBy(n) /\ writer' = "publish"
       \/ writer' = "write"
    /\ UNCHANGED <<item, unwritten, queueVars, stopVars, resultVars, readVars, refused, writable>>

\* writeAll returns an error: the peer is gone, stop closed the socket, or the
\* last Write took the rest of the frame and failed.
WriteFails ==
    /\ writer = "write"
    /\ socket # "open" \/ sent[item] = FrameLen
    /\ CallStop("writer")
    /\ writer' = IF stopAt = "done" THEN "fail" ELSE "write"
    /\ UNCHANGED <<item, unwritten, sent, queueVars, resultVars, readVars, refused, writable>>

\* Mutant: a torn frame passes for one that never reached the socket.
OutcomeOfTorn(n) == IF n = FrameLen THEN "CompleteLocal" ELSE "Unwritten"

OutcomeOf(n) ==
    CASE n = FrameLen -> "CompleteLocal"
      [] n = 0        -> "Unwritten"
      [] OTHER        -> "Incomplete"

Publish(f, outcome) ==
    published' = IF f \in tracked
                 THEN Append(published, [frame |-> f, outcome |-> outcome])
                 ELSE published

\* c.completed has room for one more than the queue.
RoomFor(f) == f \in tracked => Len(published) - taken < QueueCap + 1

\* The result of the frame it wrote; a failed write ends the loop.
WriterPublishes ==
    /\ writer \in {"publish", "fail"}
    /\ RoomFor(item)
    /\ Publish(item, OutcomeOf(sent[item]))
    /\ item' = NoFrame
    /\ IF writer = "publish"
       THEN writer' = "wait" /\ UNCHANGED <<outgoing, unwritten>>
       ELSE TakeQueued
    /\ UNCHANGED <<sent, outgoingClosed, admitted, tracked, taken, completedClosed, done, stopVars,
                   readVars, refused, writable>>

\* reportUnwritten, one frame at a time.
ReportUnwritten ==
    /\ writer = "report" /\ unwritten # <<>>
    /\ RoomFor(Head(unwritten))
    /\ Publish(Head(unwritten), "Unwritten")
    /\ unwritten' = Tail(unwritten)
    /\ UNCHANGED <<writer, item, sent, taken, completedClosed, done, queueVars, stopVars, readVars,
                   refused, writable>>

\* Mutant: Done is closed before the results are out.
MayFinishEarly == TRUE

\* finishWriter follows reportUnwritten.
MayFinish == unwritten = <<>>

CloseCompletions ==
    /\ writer = "report" /\ MayFinish
    /\ completedClosed' = TRUE
    /\ writer' = "finish"
    /\ UNCHANGED <<item, unwritten, sent, published, taken, done, queueVars, stopVars, readVars,
                   refused, writable>>

CloseDone ==
    /\ writer = "finish"
    /\ done' = TRUE
    /\ writer' = "end"
    /\ UNCHANGED <<item, unwritten, sent, published, taken, completedClosed, queueVars, stopVars,
                   readVars, refused, writable>>

WriterStep ==
    \/ WriterWakes \/ WriterPaces \/ WriterTakes \/ WriteFails
    \/ WriterPublishes \/ ReportUnwritten \/ CloseCompletions \/ CloseDone

------------------------------------------------------------------------------
(* The reader, the drain and the peer.                                     *)

ReadFrame ==
    /\ reader = "read" /\ socket = "open"
    /\ arrivals < MaxArrivals
    /\ arrivals' = arrivals + 1
    /\ reader' = "deliver"
    /\ UNCHANGED <<inbox, queueVars, stopVars, writeVars, resultVars, refused, writable>>

\* Mutant: only room in the channel releases the reader.
MayAbandonNever == FALSE

\* The stopping arm of the reader's select.
MayAbandon == outgoingClosed

\* The select of readLoop; both arms may be ready.
Deliver ==
    /\ reader = "deliver"
    /\ \/ inbox < IncomingCap /\ inbox' = inbox + 1 /\ reader' = "read"
       \/ MayAbandon /\ reader' = "end" /\ UNCHANGED inbox
    /\ UNCHANGED <<arrivals, queueVars, stopVars, writeVars, resultVars, refused, writable>>

\* A header over the limit fails the read on a healthy socket.
ReadOversized ==
    /\ reader = "read" /\ socket = "open"
    /\ reader' = "stop"
    /\ UNCHANGED <<inbox, arrivals, queueVars, stopVars, writeVars, resultVars, refused, writable>>

\* So does a socket that is gone, or that stop closed.
ReadFails ==
    /\ reader = "stop" \/ (reader = "read" /\ socket # "open")
    /\ CallStop("reader")
    /\ reader' = IF stopAt = "done" THEN "end" ELSE "stop"
    /\ UNCHANGED <<inbox, arrivals, queueVars, writeVars, resultVars, refused, writable>>

\* The decode pump takes a frame.
TakeIncoming ==
    /\ inbox > 0
    /\ inbox' = inbox - 1
    /\ UNCHANGED <<reader, arrivals, queueVars, stopVars, writeVars, resultVars, refused, writable>>

\* attachTransport keeps draining the results, also after the engine is done.
DrainResult ==
    /\ taken < Len(published)
    /\ taken' = taken + 1
    /\ UNCHANGED <<published, completedClosed, done, queueVars, stopVars, writeVars, readVars,
                   refused, writable>>

PeerResets ==
    /\ socket = "open"
    /\ socket' = "broken"
    /\ UNCHANGED <<stopper, stopAt, waitErr, queueVars, writeVars, resultVars, readVars, refused,
                   writable>>

ReaderStep == Deliver \/ ReadFails

PeerAccepts == \E n \in 1 .. FrameLen : WriteBytes(n)

Next ==
    \/ \E isTracked \in BOOLEAN : Send(isTracked) \/ SendMeanwhile(isTracked)
    \/ Retry \/ CloseBegins
    \/ StopStep \/ WriterStep \/ PeerAccepts \/ ReaderStep
    \/ ReadFrame \/ ReadOversized \/ TakeIncoming \/ DrainResult \/ PeerResets

\* Goroutines run, the drain never leaves and a refused sender tries again when
\* it is told to.  Nothing is assumed of the peer, of the decode pump or of
\* other callers.
Spec ==
    /\ Init /\ [][Next]_vars
    /\ WF_vars(StopStep) /\ WF_vars(WriterStep) /\ WF_vars(ReaderStep) /\ WF_vars(DrainResult)
    /\ WF_vars(Retry)

------------------------------------------------------------------------------
(* Properties.                                                             *)

Outcomes == {"Unwritten", "Incomplete", "CompleteLocal"}

QueueTypeOK ==
    /\ admitted \in 0 .. MaxFrames
    /\ tracked \subseteq 1 .. admitted
    /\ outgoing \in Seq(1 .. admitted) /\ Len(outgoing) <= QueueCap
    /\ outgoingClosed \in BOOLEAN /\ refused \in BOOLEAN /\ writable \in BOOLEAN

StopTypeOK ==
    /\ stopper \in {"none", "user", "reader", "writer"}
    /\ stopAt \in {"free", "error", "queue", "socket", "done"}
    /\ waitErr \in BOOLEAN
    /\ socket \in {"open", "broken", "closed"}

WriterTypeOK ==
    /\ writer \in {"wait", "pace", "take", "write", "publish", "fail", "report", "finish", "end"}
    /\ item \in 0 .. admitted /\ (writer \in {"write", "publish", "fail"} <=> item # NoFrame)
    /\ unwritten \in Seq(1 .. admitted)
    /\ sent \in [Frames -> 0 .. FrameLen]

ResultTypeOK ==
    /\ published \in Seq([frame : tracked, outcome : Outcomes])
    /\ taken \in 0 .. Len(published) /\ Len(published) - taken <= QueueCap + 1
    /\ completedClosed \in BOOLEAN /\ done \in BOOLEAN

ReaderTypeOK ==
    /\ reader \in {"read", "deliver", "stop", "end"}
    /\ inbox \in 0 .. IncomingCap /\ arrivals \in 0 .. MaxArrivals

\* The channels respect their capacities and every frame in hand was admitted.
TypeOK == QueueTypeOK /\ StopTypeOK /\ WriterTypeOK /\ ResultTypeOK /\ ReaderTypeOK

\* The peer sees whole frames in admission order; only the last one may be
\* torn, and nothing follows a torn frame.
FrameIntegrity ==
    \A f \in Frames : sent[f] > 0 => \A g \in 1 .. f - 1 : sent[g] = FrameLen

\* "Every admitted tracked frame yields exactly one result": never two, and in
\* admission order.
OneResultEach ==
    \A i, j \in 1 .. Len(published) : i < j => published[i].frame < published[j].frame

\* A result is the truth for good: what was reported unwritten never reaches
\* the socket later, what was reported complete is there.
OutcomeTruth ==
    \A i \in 1 .. Len(published) :
      LET bytes == sent[published[i].frame] IN
      /\ published[i].outcome = "Unwritten" <=> bytes = 0
      /\ published[i].outcome = "CompleteLocal" <=> bytes = FrameLen

\* Done is the publication barrier handleTransportLoss relies on: every
\* tracked admission has its result by then.
DoneIsBarrier ==
    done => completedClosed /\ tracked = {published[i].frame : i \in 1 .. Len(published)}

\* writeLoop never indexes an empty queue.
NoEmptyTake == writer = "take" /\ ~outgoingClosed => outgoing # <<>>

\* A refusal after a failure can name the failure: the cause is recorded
\* before the queue is closed.
CauseBeforeClosed == outgoingClosed /\ stopper # "user" => waitErr

\* stop ends both loops, whatever the peer, the decode pump and callers do.
StopFinishes == outgoingClosed ~> (done /\ reader = "end")

\* A sender refused by a full queue gets its edge, or learns of the end,
\* unless a peer that stops reading holds the writer for good.
WakeupNotLost == []<>(writer # "write") => (refused ~> ~refused)

\* What the write loop puts on the socket and what it reports agree, frame by
\* frame: whole frames in order, one true result for each tracked admission.
WriterSound == TypeOK /\ NoEmptyTake /\ FrameIntegrity /\ OneResultEach /\ OutcomeTruth

\* stop publishes in order: the cause before the refusals, the results before Done.
StopOrdered == CauseBeforeClosed /\ DoneIsBarrier
==============================================================================
