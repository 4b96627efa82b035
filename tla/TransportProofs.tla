--------------------------- MODULE TransportProofs ---------------------------
(***************************************************************************)
(* One physical connection for every number and length of frames and every  *)
(* queue capacity: the inductive invariant of the write loop and of stop,    *)
(* and the two safety properties it implies.                                *)
(***************************************************************************)
EXTENDS Transport, Integers, SequenceTheorems, TLAPS

------------------------------------------------------------------------------
(* The inductive invariant.                                                *)

\* Frames that left both queues of the writer: they are numbered 1 .. Passed.
Passed == admitted - Len(outgoing) - Len(unwritten)

Looping == {"wait", "pace", "take"}
Busy == {"write", "publish", "fail"}
Leaving == {"report", "finish", "end"}

\* How far stop has come decides what is closed, and the writer leaves its loop
\* only behind it.
StopInv ==
    /\ outgoingClosed <=> stopAt \in {"socket", "done"}
    /\ stopAt = "error" => stopper # "user"
    /\ stopAt \in {"queue", "socket", "done"} /\ stopper # "user" => waitErr
    /\ writer = "fail" => stopAt = "done"
    /\ writer \in Leaving => outgoingClosed /\ outgoing = <<>>
    /\ writer \notin Leaving => unwritten = <<>>
    /\ writer \in {"finish", "end"} => completedClosed /\ unwritten = <<>>
    /\ done => writer = "end"
    /\ writer \in {"pace", "take"} /\ ~outgoingClosed => outgoing # <<>>

\* Both queues hold consecutive frames, the newest last, and the frame in hand
\* is the one before them.
LineInv ==
    /\ \A i \in 1 .. Len(outgoing) : outgoing[i] = admitted - Len(outgoing) + i
    /\ \A i \in 1 .. Len(unwritten) : unwritten[i] = admitted - Len(unwritten) + i
    /\ item # NoFrame => item = Passed
    /\ Passed >= 0
    /\ refused => admitted < MaxFrames

\* The socket has every frame that passed the loop, and nothing of a queued one.
ByteInv ==
    /\ FrameIntegrity
    /\ \A f \in Frames : f > Passed => sent[f] = 0
    /\ writer \in Looping => \A f \in 1 .. Passed : sent[f] = FrameLen
    /\ writer \in Busy => \A f \in 1 .. Passed - 1 : sent[f] = FrameLen
    /\ writer = "publish" => sent[item] = FrameLen

\* The results so far are those of the tracked frames that passed.
ResultInv ==
    /\ OneResultEach /\ OutcomeTruth
    /\ \A i \in 1 .. Len(published) : published[i].frame <= Passed /\ published[i].frame # item
    /\ \A f \in tracked : f <= Passed /\ f # item =>
         \E i \in 1 .. Len(published) : published[i].frame = f

IInv == TypeOK /\ StopInv /\ LineInv /\ ByteInv /\ ResultInv

------------------------------------------------------------------------------
(* Facts the steps share.                                                  *)

\* Numbers and lengths.
LEMMA Bounds ==
    /\ MaxFrames \in Nat /\ FrameLen \in Nat \ {0} /\ QueueCap \in Nat \ {0}
    /\ IncomingCap \in Nat \ {0} /\ MaxArrivals \in Nat /\ Paced \in BOOLEAN
  BY TransportAssumption

\* The counters and lengths are numbers.
LEMMA Sizes ==
    ASSUME TypeOK
    PROVE  /\ admitted \in Nat /\ admitted <= MaxFrames
           /\ Len(outgoing) \in Nat /\ Len(unwritten) \in Nat /\ Len(published) \in Nat
           /\ Passed \in Int
           /\ taken \in Nat /\ item \in Nat
           /\ Frames \subseteq Nat
  <1>1. Len(outgoing) \in Nat /\ Len(unwritten) \in Nat
    BY LenProperties DEF TypeOK, QueueTypeOK, WriterTypeOK
  <1>2. Len(published) \in Nat
    BY LenProperties DEF TypeOK, ResultTypeOK
  <1>3. admitted \in Nat /\ admitted <= MaxFrames /\ MaxFrames \in Nat
    BY Bounds DEF TypeOK, QueueTypeOK
  <1>4. taken \in Nat /\ item \in Nat
    BY <1>2, <1>3 DEF TypeOK, ResultTypeOK, WriterTypeOK
  <1> QED
    BY <1>1, <1>2, <1>3, <1>4, Bounds DEF Passed, Frames

\* The first frame of a queue that is not empty, and what is left.
LEMMA HeadOfQueue ==
    ASSUME NEW n \in Nat, NEW q \in Seq(1 .. n), q # <<>>
    PROVE  /\ Len(q) \in Nat \ {0} /\ Len(Tail(q)) = Len(q) - 1
           /\ Head(q) = q[1] /\ Head(q) \in 1 .. n
           /\ Tail(q) \in Seq(1 .. n)
           /\ \A i \in 1 .. Len(q) - 1 : Tail(q)[i] = q[i + 1]
  BY HeadTailProperties, EmptySeq

\* Every result is of a tracked frame.
LEMMA ResultFrames ==
    ASSUME TypeOK
    PROVE  \A i \in 1 .. Len(published) :
             published[i].frame \in tracked /\ published[i].frame \in Frames /\ published[i].outcome \in Outcomes
  <1>1. tracked \subseteq Frames
    BY Sizes, Bounds DEF TypeOK, QueueTypeOK, Frames
  <1>2. TAKE i \in 1 .. Len(published)
  <1>3. published[i] \in [frame : tracked, outcome : Outcomes]
    BY ElementOfSeq DEF TypeOK, ResultTypeOK
  <1> QED
    BY <1>1, <1>3

\* What readers, the peer, the drain and stop leave alone.
LEMMA Steady ==
    ASSUME LineInv, ByteInv, ResultInv,
           UNCHANGED <<outgoing, admitted, tracked, writeVars, published>>,
           refused' => refused
    PROVE  LineInv' /\ ByteInv' /\ ResultInv'
  BY DEF LineInv, ByteInv, ResultInv, Passed, FrameIntegrity, OneResultEach, OutcomeTruth, writeVars

\* Init.
LEMMA InitInv == Init => IInv
  <1> SUFFICES ASSUME Init PROVE IInv
    OBVIOUS
  <1>1. outgoing = <<>> /\ unwritten = <<>> /\ published = <<>> /\ admitted = 0
        /\ Len(outgoing) = 0 /\ Len(unwritten) = 0 /\ Len(published) = 0
    BY DEF Init
  <1>2. \A S : <<>> \in Seq(S)
    OBVIOUS
  <1>3. TypeOK
    <2>1. QueueTypeOK
      <3>1. admitted \in 0 .. MaxFrames /\ Len(outgoing) <= QueueCap
        BY <1>1, Bounds
      <3>2. outgoing \in Seq(1 .. admitted)
        BY <1>1, <1>2
      <3>3. tracked \subseteq 1 .. admitted
        BY DEF Init
      <3>4. outgoingClosed \in BOOLEAN /\ refused \in BOOLEAN /\ writable \in BOOLEAN
        BY DEF Init
      <3> QED
        BY <3>1, <3>2, <3>3, <3>4 DEF QueueTypeOK
    <2>2. StopTypeOK
      BY DEF Init, StopTypeOK
    <2>3. WriterTypeOK
      BY <1>1, <1>2, Bounds DEF Init, WriterTypeOK, NoFrame
    <2>4. ResultTypeOK
      <3>1. taken \in 0 .. Len(published) /\ Len(published) - taken <= QueueCap + 1
        BY <1>1, Bounds DEF Init
      <3>2. published \in Seq([frame : tracked, outcome : Outcomes])
        BY <1>1, <1>2
      <3>3. completedClosed \in BOOLEAN /\ done \in BOOLEAN
        BY DEF Init
      <3> QED
        BY <3>1, <3>2, <3>3 DEF ResultTypeOK
    <2>5. ReaderTypeOK
      BY Bounds DEF Init, ReaderTypeOK
    <2> QED
      BY <2>1, <2>2, <2>3, <2>4, <2>5 DEF TypeOK
  <1>4. StopInv
    BY DEF Init, StopInv, Leaving
  <1>5. LineInv /\ ByteInv /\ ResultInv
    BY <1>1, Bounds
       DEF Init, LineInv, ByteInv, ResultInv, Passed, FrameIntegrity, OneResultEach, OutcomeTruth, Frames,
           NoFrame, Looping, Busy
  <1> QED
    BY <1>3, <1>4, <1>5 DEF IInv

\* stop, the reader, the drain and the peer.
LEMMA OthersKeepInv ==
    ASSUME IInv,
           \/ CloseBegins \/ StopStep \/ ReaderStep
           \/ ReadFrame \/ ReadOversized \/ TakeIncoming \/ DrainResult \/ PeerResets
    PROVE  IInv'
  <1> USE DEF IInv
  <1>1. UNCHANGED <<outgoing, admitted, tracked, writeVars, published>>
    BY DEF CloseBegins, StopStep, RecordError, CloseQueue, CloseSocket, ReaderStep, Deliver, ReadFails, ReadFrame,
           ReadOversized, TakeIncoming, DrainResult, PeerResets, queueVars, resultVars
  <1>2. LineInv' /\ ByteInv' /\ ResultInv'
    <2>1. refused' = refused
      BY DEF CloseBegins, StopStep, RecordError, CloseQueue, CloseSocket, ReaderStep, Deliver, ReadFails, ReadFrame,
             ReadOversized, TakeIncoming, DrainResult, PeerResets
    <2> QED
      BY <1>1, <2>1, Steady
  <1>3. WriterTypeOK'
    BY <1>1 DEF TypeOK, WriterTypeOK, writeVars
  <1>4. QueueTypeOK'
    <2>1. UNCHANGED <<refused, writable>> /\ outgoingClosed' \in {outgoingClosed, TRUE}
      BY DEF CloseBegins, StopStep, RecordError, CloseQueue, CloseSocket, ReaderStep, Deliver, ReadFails,
             ReadFrame, ReadOversized, TakeIncoming, DrainResult, PeerResets, queueVars
    <2> QED
      BY <1>1, <2>1 DEF TypeOK, QueueTypeOK
  <1>5. StopTypeOK'
    BY DEF TypeOK, StopTypeOK, CloseBegins, StopStep, RecordError, CloseQueue, CloseSocket, ReaderStep, Deliver,
           ReadFails, ReadFrame, ReadOversized, TakeIncoming, DrainResult, PeerResets, StopBegins, CallStop,
           stopVars
  <1>6. ResultTypeOK'
    <2>1. CASE DrainResult
      <3>1. taken' \in 0 .. Len(published) /\ Len(published) - taken' <= QueueCap + 1
        BY <2>1, Sizes, Bounds DEF DrainResult, TypeOK, ResultTypeOK
      <3> QED
        BY <1>1, <2>1, <3>1 DEF DrainResult, TypeOK, ResultTypeOK
    <2>2. CASE ~DrainResult
      <3>1. UNCHANGED <<taken, completedClosed, done>>
        BY <2>2 DEF CloseBegins, StopStep, RecordError, CloseQueue, CloseSocket, ReaderStep, Deliver, ReadFails,
               ReadFrame, ReadOversized, TakeIncoming, PeerResets, resultVars
      <3> QED
        BY <1>1, <3>1 DEF TypeOK, ResultTypeOK
    <2> QED
      BY <2>1, <2>2
  <1>7. ReaderTypeOK'
    <2>1. CASE ReaderStep \/ ReadFrame \/ ReadOversized \/ TakeIncoming
      <3> USE Bounds DEF TypeOK, ReaderTypeOK
      <3>1. CASE Deliver
        BY <3>1 DEF Deliver
      <3>2. CASE ReadFails
        BY <3>2 DEF ReadFails
      <3>3. CASE ReadFrame \/ ReadOversized \/ TakeIncoming
        BY <3>3 DEF ReadFrame, ReadOversized, TakeIncoming
      <3> QED
        BY <2>1, <3>1, <3>2, <3>3 DEF ReaderStep
    <2>2. CASE CloseBegins \/ StopStep \/ DrainResult \/ PeerResets
      BY <2>2 DEF CloseBegins, StopStep, RecordError, CloseQueue, CloseSocket, DrainResult, PeerResets, TypeOK,
                  ReaderTypeOK, readVars
    <2> QED
      BY <2>1, <2>2
  <1>8. StopInv'
    <2> USE DEF StopInv, writeVars, Leaving
    <2>1. CASE CloseBegins
      BY <1>1, <2>1 DEF CloseBegins, StopBegins, queueVars, resultVars
    <2>2. CASE StopStep
      BY <1>1, <2>2 DEF StopStep, RecordError, CloseQueue, CloseSocket, queueVars, resultVars
    <2>3. CASE ReadFails
      BY <1>1, <2>3 DEF ReadFails, CallStop, StopBegins, queueVars, stopVars, resultVars
    <2>4. CASE Deliver \/ ReadFrame \/ ReadOversized \/ TakeIncoming \/ DrainResult \/ PeerResets
      BY <1>1, <2>4 DEF Deliver, ReadFrame, ReadOversized, TakeIncoming, DrainResult, PeerResets, queueVars,
                        stopVars, resultVars
    <2> QED
      BY <2>1, <2>2, <2>3, <2>4 DEF ReaderStep
  <1> QED
    BY <1>2, <1>3, <1>4, <1>5, <1>6, <1>7, <1>8 DEF TypeOK

\* A frame enters the queue: nothing passed, the newest is last.
LEMMA EnqueueKeepsInv ==
    ASSUME IInv, NEW isTracked, Enqueue(isTracked),
           ~outgoingClosed, ~QueueFull, admitted < MaxFrames,
           UNCHANGED <<outgoingClosed, stopVars, writeVars, resultVars, readVars>>,
           refused' \in BOOLEAN, writable' \in BOOLEAN, refused' => admitted + 1 < MaxFrames
    PROVE  IInv'
  <1> USE DEF IInv
  <1>0. /\ admitted' = admitted + 1 /\ outgoing' = Append(outgoing, admitted + 1)
        /\ tracked \subseteq tracked' /\ tracked' \subseteq tracked \cup {admitted + 1}
        /\ admitted \in Nat /\ Len(outgoing) \in Nat
        /\ unwritten = <<>> /\ writer \notin Leaving
        /\ UNCHANGED <<writer, item, unwritten, sent, published, taken>>
    BY Sizes DEF Enqueue, StopInv, writeVars, resultVars
  <1>1. /\ outgoing' \in Seq(1 .. admitted') /\ Len(outgoing') = Len(outgoing) + 1
        /\ outgoing' # <<>>
        /\ \A i \in 1 .. Len(outgoing) : outgoing'[i] = outgoing[i]
        /\ outgoing'[Len(outgoing) + 1] = admitted'
    <2>1. outgoing \in Seq(1 .. admitted')
      BY <1>0, SeqMonotonic DEF TypeOK, QueueTypeOK
    <2> QED
      BY <1>0, <2>1, AppendProperties
  <1>2. Passed' = Passed
    BY <1>0, <1>1 DEF Passed
  <1>3. QueueTypeOK'
    <2>1. tracked' \subseteq 1 .. admitted'
      BY <1>0 DEF TypeOK, QueueTypeOK
    <2>2. Len(outgoing') <= QueueCap
      BY <1>0, <1>1, Bounds DEF QueueFull
    <2> QED
      BY <1>0, <1>1, <2>1, <2>2, Bounds DEF TypeOK, QueueTypeOK
  <1>4. WriterTypeOK'
    BY <1>0 DEF TypeOK, WriterTypeOK
  <1>5. ResultTypeOK'
    <2>1. published \in Seq([frame : tracked', outcome : Outcomes])
      BY <1>0, SeqMonotonic DEF TypeOK, ResultTypeOK
    <2> QED
      BY <1>0, <2>1 DEF TypeOK, ResultTypeOK, resultVars
  <1>6. StopTypeOK' /\ ReaderTypeOK'
    BY DEF TypeOK, StopTypeOK, ReaderTypeOK, stopVars, readVars
  <1>7. StopInv'
    BY <1>0, <1>1 DEF StopInv, stopVars, resultVars, Leaving
  <1>8. LineInv'
    BY <1>0, <1>1, <1>2 DEF LineInv
  <1>9. ByteInv'
    BY <1>0, <1>2 DEF ByteInv, FrameIntegrity
  <1>10. ResultInv'
    <2>1. admitted + 1 > Passed
      BY <1>0 DEF Passed
    <2>2. \A f \in tracked' : f <= Passed => f \in tracked
      BY <1>0, <2>1, Sizes
    <2> QED
      BY <1>0, <1>2, <2>2 DEF ResultInv, OneResultEach, OutcomeTruth
  <1> QED
    BY <1>3, <1>4, <1>5, <1>6, <1>7, <1>8, <1>9, <1>10 DEF TypeOK

\* A sender that is refused, or that finds the queue closed.
LEMMA RefusalKeepsInv ==
    ASSUME IInv, UNCHANGED <<queueVars, stopVars, writeVars, resultVars, readVars>>,
           refused' \in BOOLEAN, writable' \in BOOLEAN, refused' => admitted < MaxFrames
    PROVE  IInv'
  <1> USE DEF IInv
  <1>1. TypeOK'
    BY DEF TypeOK, QueueTypeOK, StopTypeOK, WriterTypeOK, ResultTypeOK, ReaderTypeOK, queueVars, stopVars,
           writeVars, resultVars, readVars
  <1>2. StopInv'
    BY DEF StopInv, queueVars, stopVars, writeVars, resultVars
  <1>3. LineInv' /\ ByteInv' /\ ResultInv'
    BY DEF LineInv, ByteInv, ResultInv, Passed, FrameIntegrity, OneResultEach, OutcomeTruth, queueVars, writeVars,
           resultVars
  <1> QED
    BY <1>1, <1>2, <1>3

\* Send, Send while the connection stops and the retry of a refused frame.
LEMMA SendersKeepInv ==
    ASSUME IInv, NEW isTracked \in BOOLEAN, Send(isTracked) \/ SendMeanwhile(isTracked) \/ Retry
    PROVE  IInv'
  <1>1. admitted \in Nat /\ MaxFrames \in Nat /\ refused \in BOOLEAN /\ writable \in BOOLEAN
    BY Sizes, Bounds DEF IInv, TypeOK, QueueTypeOK
  <1>2. ASSUME NEW t, admit(t), admitted < MaxFrames, writable' \in BOOLEAN,
               UNCHANGED <<outgoingClosed, stopVars, writeVars, resultVars, readVars>>
        PROVE  IInv'
    <2>1. CASE Enqueue(t) /\ ~outgoingClosed /\ ~QueueFull /\ refused' = FALSE
      BY <1>2, <2>1, EnqueueKeepsInv
    <2>2. CASE UNCHANGED <<outgoing, admitted, tracked>> /\ refused' \in BOOLEAN
      BY <1>2, <2>2, RefusalKeepsInv DEF queueVars
    <2> QED
      BY <1>2, <2>1, <2>2 DEF admit
  <1>3. CASE Send(isTracked)
    BY <1>1, <1>2, <1>3 DEF Send
  <1>4. CASE SendMeanwhile(isTracked)
    BY <1>1, <1>4, EnqueueKeepsInv DEF SendMeanwhile
  <1>5. CASE Retry
    <2>1. admitted < MaxFrames
      BY <1>5 DEF Retry, IInv, LineInv
    <2> QED
      BY <1>2, <1>5, <2>1 DEF Retry
  <1> QED
    BY <1>3, <1>4, <1>5

\* A step of the writer leaves the reader alone and touches stop only by calling it.
LEMMA WriterTypes ==
    ASSUME IInv,
           \/ UNCHANGED stopVars
           \/ CallStop("writer"),
           UNCHANGED <<outgoingClosed, admitted, tracked, readVars, refused>>
    PROVE  StopTypeOK' /\ ReaderTypeOK'
  <1>1. ReaderTypeOK'
    BY DEF IInv, TypeOK, ReaderTypeOK, readVars
  <1>2. StopTypeOK'
    BY DEF IInv, TypeOK, StopTypeOK, stopVars, CallStop, StopBegins
  <1> QED
    BY <1>1, <1>2

\* takeQueuedLocked moves the whole queue into the report: nothing passes.
LEMMA TakeQueuedKeepsLine ==
    ASSUME IInv, TakeQueued, unwritten = <<>>, UNCHANGED admitted
    PROVE  /\ outgoing' = <<>> /\ unwritten' = outgoing /\ writer' = "report"
           /\ Len(outgoing') = 0 /\ Len(unwritten') = Len(outgoing)
           /\ Passed' = Passed
           /\ unwritten' \in Seq(1 .. admitted)
           /\ outgoing' \in Seq(1 .. admitted)
           /\ \A i \in 1 .. Len(outgoing') : outgoing'[i] = admitted - Len(outgoing') + i
           /\ \A i \in 1 .. Len(unwritten') : unwritten'[i] = admitted - Len(unwritten') + i
  <1>1. outgoing' = <<>> /\ unwritten' = outgoing /\ writer' = "report" /\ Len(outgoing') = 0
        /\ Len(unwritten) = 0
    BY DEF TakeQueued, Queued
  <1>2. Passed' = Passed
    BY <1>1, Sizes DEF Passed, IInv
  <1> QED
    BY <1>1, <1>2 DEF IInv, TypeOK, QueueTypeOK, LineInv

\* The writer leaves its wait, or the ticker lets it go on.
LEMMA WakesKeepsInv ==
    ASSUME IInv, WriterWakes \/ WriterPaces
    PROVE  IInv'
  <1> USE DEF IInv
  <1>1. UNCHANGED <<item, sent, outgoingClosed, admitted, tracked, stopVars, resultVars, readVars, refused, writable>>
    BY DEF WriterWakes, WriterPaces, queueVars
  <1>2. writer \in Looping /\ unwritten = <<>> /\ item = NoFrame
    BY DEF WriterWakes, WriterPaces, Looping, StopInv, Leaving, TypeOK, WriterTypeOK
  <1>3. StopTypeOK' /\ ReaderTypeOK'
    BY <1>1, WriterTypes
  <1>4. CASE TakeQueued /\ outgoingClosed
    <2>1. /\ outgoing' = <<>> /\ writer' = "report" /\ Len(outgoing') = 0
          /\ Passed' = Passed
          /\ unwritten' \in Seq(1 .. admitted) /\ outgoing' \in Seq(1 .. admitted)
          /\ \A i \in 1 .. Len(outgoing') : outgoing'[i] = admitted - Len(outgoing') + i
          /\ \A i \in 1 .. Len(unwritten') : unwritten'[i] = admitted - Len(unwritten') + i
      BY <1>1, <1>2, <1>4, TakeQueuedKeepsLine
    <2>2. QueueTypeOK'
      BY <1>1, <2>1, Bounds DEF TypeOK, QueueTypeOK
    <2>3. WriterTypeOK' /\ ResultTypeOK'
      BY <1>1, <1>2, <2>1 DEF TypeOK, WriterTypeOK, ResultTypeOK, resultVars
    <2>4. StopInv'
      BY <1>1, <1>2, <1>4, <2>1 DEF StopInv, Looping, Leaving, stopVars, resultVars
    <2>5. LineInv' /\ ByteInv' /\ ResultInv'
      BY <1>1, <2>1 DEF LineInv, ByteInv, ResultInv, FrameIntegrity, OneResultEach, OutcomeTruth, resultVars,
                        Looping, Busy
    <2> QED
      BY <1>3, <2>2, <2>3, <2>4, <2>5 DEF TypeOK
  <1>5. CASE UNCHANGED <<outgoing, unwritten>> /\ ~(TakeQueued /\ outgoingClosed)
    <2>1. writer' \in Looping /\ (writer' \in {"pace", "take"} => outgoingClosed \/ outgoing # <<>>)
      BY <1>5 DEF WriterWakes, WriterPaces, Looping, MayLeaveWait, StopInv
    <2>2. TypeOK'
      BY <1>1, <1>2, <1>3, <1>5, <2>1
         DEF TypeOK, QueueTypeOK, WriterTypeOK, ResultTypeOK, resultVars, Looping
    <2>3. StopInv'
      BY <1>1, <1>2, <1>5, <2>1 DEF StopInv, Looping, Leaving, stopVars, resultVars
    <2>4. LineInv' /\ ByteInv' /\ ResultInv'
      BY <1>1, <1>2, <1>5, <2>1
         DEF LineInv, ByteInv, ResultInv, Passed, FrameIntegrity, OneResultEach, OutcomeTruth, resultVars,
             Looping, Busy
    <2> QED
      BY <2>2, <2>3, <2>4
  <1> QED
    BY <1>4, <1>5 DEF WriterWakes, WriterPaces, queueVars

\* The first frame of the queue comes into the writer's hand: it has passed the
\* queue, and nothing of it is on the socket or reported yet.
LEMMA TakesKeepsInv ==
    ASSUME IInv, WriterTakes
    PROVE  IInv'
  <1> USE DEF IInv
  <1>1. UNCHANGED <<sent, outgoingClosed, admitted, tracked, stopVars, resultVars, readVars, refused>>
        /\ writable' \in BOOLEAN
    BY DEF WriterTakes, SignalWritable, TypeOK, QueueTypeOK
  <1>2. writer = "take" /\ writer \in Looping /\ unwritten = <<>> /\ item = NoFrame
    BY DEF WriterTakes, Looping, StopInv, Leaving, TypeOK, WriterTypeOK
  <1>3. StopTypeOK' /\ ReaderTypeOK'
    BY <1>1, WriterTypes
  <1>4. CASE TakeQueued /\ outgoingClosed /\ UNCHANGED item
    <2>1. /\ outgoing' = <<>> /\ writer' = "report" /\ Len(outgoing') = 0
          /\ Passed' = Passed
          /\ unwritten' \in Seq(1 .. admitted) /\ outgoing' \in Seq(1 .. admitted)
          /\ \A i \in 1 .. Len(outgoing') : outgoing'[i] = admitted - Len(outgoing') + i
          /\ \A i \in 1 .. Len(unwritten') : unwritten'[i] = admitted - Len(unwritten') + i
      BY <1>1, <1>2, <1>4, TakeQueuedKeepsLine
    <2>2. QueueTypeOK'
      BY <1>1, <2>1, Bounds DEF TypeOK, QueueTypeOK
    <2>3. WriterTypeOK' /\ ResultTypeOK'
      BY <1>1, <1>2, <1>4, <2>1 DEF TypeOK, WriterTypeOK, ResultTypeOK, resultVars
    <2>4. StopInv'
      BY <1>1, <1>2, <1>4, <2>1 DEF StopInv, Looping, Leaving, stopVars, resultVars
    <2>5. LineInv' /\ ByteInv' /\ ResultInv'
      BY <1>1, <1>4, <2>1 DEF LineInv, ByteInv, ResultInv, FrameIntegrity, OneResultEach, OutcomeTruth, resultVars,
                        Looping, Busy
    <2> QED
      BY <1>3, <2>2, <2>3, <2>4, <2>5 DEF TypeOK
  <1>5. CASE /\ ~outgoingClosed /\ outgoing # <<>> /\ item' = Head(outgoing) /\ outgoing' = Tail(outgoing)
             /\ writer' = "write" /\ UNCHANGED unwritten
    <2>1. admitted \in Nat /\ Len(outgoing) \in Nat /\ Len(unwritten) = 0 /\ Passed \in Int /\ Passed >= 0
      BY <1>2, Sizes DEF LineInv
    <2>2. /\ Len(outgoing) \in Nat \ {0} /\ Len(outgoing') = Len(outgoing) - 1
          /\ item' = outgoing[1] /\ item' \in 1 .. admitted
          /\ outgoing' \in Seq(1 .. admitted)
          /\ \A i \in 1 .. Len(outgoing) - 1 : outgoing'[i] = outgoing[i + 1]
      BY <1>5, <2>1, HeadOfQueue DEF TypeOK, QueueTypeOK
    <2>3. Passed' = Passed + 1 /\ item' = Passed'
      BY <1>1, <1>5, <2>1, <2>2 DEF Passed, LineInv
    <2>4. QueueTypeOK'
      BY <1>1, <2>2, Bounds DEF TypeOK, QueueTypeOK
    <2>5. WriterTypeOK' /\ ResultTypeOK'
      BY <1>1, <1>2, <1>5, <2>2, <2>1 DEF TypeOK, WriterTypeOK, ResultTypeOK, resultVars, NoFrame
    <2>6. StopInv'
      BY <1>1, <1>2, <1>5 DEF StopInv, Looping, Leaving, stopVars, resultVars
    <2>7. LineInv'
      <3>1. \A i \in 1 .. Len(outgoing') : outgoing'[i] = admitted - Len(outgoing') + i
        <4>1. TAKE i \in 1 .. Len(outgoing')
        <4>2. outgoing'[i] = outgoing[i + 1] /\ i + 1 \in 1 .. Len(outgoing)
          BY <2>1, <2>2
        <4>3. outgoing[i + 1] = admitted - Len(outgoing) + (i + 1)
          BY <4>2 DEF LineInv
        <4> QED
          BY <2>1, <2>2, <4>2, <4>3
      <3> QED
        BY <1>1, <1>2, <1>5, <2>1, <2>2, <2>3, <3>1 DEF LineInv
    <2>8. ByteInv'
      BY <1>1, <1>2, <1>5, <2>1, <2>3 DEF ByteInv, FrameIntegrity, Looping, Busy, Frames
    <2>9. ResultInv'
      <3>1. \A i \in 1 .. Len(published) : published[i].frame <= Passed' /\ published[i].frame # item'
        <4>1. \A i \in 1 .. Len(published) : published[i].frame \in Nat
          BY ResultFrames DEF Frames
        <4> QED
          BY <2>1, <2>3, <4>1 DEF ResultInv
      <3>2. \A f \in tracked : f <= Passed' /\ f # item' => f <= Passed /\ f # item
        BY <1>2, <2>1, <2>3 DEF TypeOK, QueueTypeOK, NoFrame
      <3> QED
        BY <1>1, <3>1, <3>2 DEF ResultInv, OneResultEach, OutcomeTruth, resultVars
    <2> QED
      BY <1>3, <2>4, <2>5, <2>6, <2>7, <2>8, <2>9 DEF TypeOK
  <1> QED
    BY <1>4, <1>5 DEF WriterTakes

\* The socket takes bytes of the frame in hand, the first one that is not whole.
LEMMA BytesKeepInv ==
    ASSUME IInv, NEW n \in 1 .. FrameLen, WriteBytes(n)
    PROVE  IInv'
  <1> USE DEF IInv
  <1>1. UNCHANGED <<item, unwritten, queueVars, stopVars, resultVars, readVars, refused, writable>>
    BY DEF WriteBytes
  <1>2. writer = "write" /\ item # NoFrame /\ item \in 1 .. admitted /\ item = Passed /\ item \in Frames
        /\ item \in Nat
    <2>1. writer = "write" /\ item # NoFrame
      BY DEF WriteBytes, TypeOK, WriterTypeOK
    <2>2. item \in 1 .. admitted
      BY <2>1, Sizes DEF TypeOK, WriterTypeOK, NoFrame
    <2> QED
      BY <2>1, <2>2, Sizes, Bounds DEF LineInv, Frames
  <1>3. /\ sent[item] \in 0 .. FrameLen /\ n \in 1 .. FrameLen - sent[item]
        /\ FrameLen \in Nat \ {0} /\ n \in Nat
    BY <1>2, Bounds DEF TypeOK, WriterTypeOK, WriteBytes
  <1>4. /\ sent' = [sent EXCEPT ![item] = sent[item] + n]
        /\ sent[item] + n \in 1 .. FrameLen
        /\ sent'[item] = sent[item] + n
        /\ sent' \in [Frames -> 0 .. FrameLen]
        /\ \A f \in Frames : f # item => sent'[f] = sent[f]
    BY <1>2, <1>3 DEF TypeOK, WriterTypeOK, WriteBytes
  <1>5. writer' = "write" \/ (writer' = "publish" /\ sent[item] + n = FrameLen)
    BY DEF WriteBytes, WrittenBy
  <1>6. StopTypeOK' /\ ReaderTypeOK'
    BY <1>1, WriterTypes DEF queueVars
  <1>7. QueueTypeOK' /\ ResultTypeOK'
    BY <1>1 DEF TypeOK, QueueTypeOK, ResultTypeOK, queueVars, resultVars
  <1>8. WriterTypeOK'
    BY <1>1, <1>2, <1>4, <1>5 DEF TypeOK, WriterTypeOK, queueVars
  <1>9. StopInv'
    BY <1>1, <1>2, <1>5 DEF StopInv, Leaving, queueVars, stopVars, resultVars
  <1>10. LineInv' /\ Passed' = Passed
    BY <1>1 DEF LineInv, Passed, queueVars
  <1>11. ByteInv'
    <2>1. \A g \in 1 .. item - 1 : g \in Frames /\ g # item /\ sent[g] = FrameLen
      BY <1>2, Sizes, Bounds DEF ByteInv, Busy, Frames
    <2>2. FrameIntegrity'
      <3>1. SUFFICES ASSUME NEW f \in Frames, sent'[f] > 0, NEW g \in 1 .. f - 1
                     PROVE  sent'[g] = FrameLen
        BY DEF FrameIntegrity
      <3>2. f \in Nat /\ g \in Nat /\ g < f /\ g \in Frames
        BY Bounds DEF Frames
      <3>3. CASE f <= item
        BY <1>2, <1>4, <2>1, <3>2, <3>3
      <3>4. CASE f > item
        <4>1. sent[f] = 0
          BY <1>2, <3>4 DEF ByteInv
        <4> QED
          BY <1>2, <1>4, <3>1, <3>2, <3>4, <4>1
      <3> QED
        BY <1>2, <3>2, <3>3, <3>4
    <2>3. \A f \in Frames : f > Passed => sent'[f] = 0
      BY <1>2, <1>4, Sizes DEF ByteInv
    <2>4. \A f \in 1 .. Passed - 1 : sent'[f] = FrameLen
      BY <1>2, <1>4, <2>1
    <2>5. writer' = "publish" => sent'[item] = FrameLen
      BY <1>4, <1>5
    <2>6. writer' \notin Looping
      BY <1>5 DEF Looping
    <2> QED
      BY <1>1, <1>10, <2>2, <2>3, <2>4, <2>5, <2>6 DEF ByteInv
  <1>12. ResultInv'
    <2>1. \A i \in 1 .. Len(published) : published[i].frame \in Frames
      BY ResultFrames
    <2>2. OutcomeTruth'
      BY <1>1, <1>4, <2>1 DEF ResultInv, OutcomeTruth, resultVars
    <2> QED
      BY <1>1, <1>10, <2>2 DEF ResultInv, OneResultEach, queueVars, resultVars
  <1> QED
    BY <1>6, <1>7, <1>8, <1>9, <1>10, <1>11, <1>12 DEF TypeOK

\* A write fails: the frame in hand stays as torn as it is.
LEMMA FailureKeepsInv ==
    ASSUME IInv, WriteFails
    PROVE  IInv'
  <1> USE DEF IInv
  <1>1. UNCHANGED <<item, unwritten, sent, queueVars, resultVars, readVars, refused, writable>>
        /\ writer = "write" /\ writer' \in {"fail", "write"} /\ CallStop("writer")
        /\ (writer' = "fail" => stopAt = "done")
    BY DEF WriteFails
  <1>2. TypeOK'
    <2>1. StopTypeOK' /\ ReaderTypeOK'
      BY <1>1, WriterTypes DEF queueVars
    <2>2. QueueTypeOK' /\ ResultTypeOK' /\ WriterTypeOK'
      BY <1>1 DEF TypeOK, QueueTypeOK, ResultTypeOK, WriterTypeOK, queueVars, resultVars
    <2> QED
      BY <2>1, <2>2 DEF TypeOK
  <1>3. StopInv'
    BY <1>1 DEF StopInv, Leaving, queueVars, stopVars, resultVars, CallStop, StopBegins
  <1>4. LineInv' /\ ByteInv' /\ ResultInv'
    BY <1>1 DEF LineInv, ByteInv, ResultInv, Passed, FrameIntegrity, OneResultEach, OutcomeTruth, queueVars, resultVars,
                Looping, Busy
  <1> QED
    BY <1>2, <1>3, <1>4

\* finishWriter.
LEMMA FinishKeepsInv ==
    ASSUME IInv, CloseCompletions \/ CloseDone
    PROVE  IInv'
  <1> USE DEF IInv
  <1>1. UNCHANGED <<item, unwritten, sent, published, taken, queueVars, stopVars, readVars, refused, writable>>
        /\ writer \in {"report", "finish"} /\ writer' \in {"finish", "end"}
        /\ unwritten = <<>> /\ completedClosed' = TRUE
        /\ (done' => writer' = "end") /\ done' \in BOOLEAN
    <2>1. CASE CloseCompletions
      BY <2>1 DEF CloseCompletions, MayFinish, StopInv, TypeOK, ResultTypeOK
    <2>2. CASE CloseDone
      BY <2>2 DEF CloseDone, StopInv, TypeOK, ResultTypeOK
    <2> QED
      BY <2>1, <2>2
  <1>2. TypeOK'
    <2>1. StopTypeOK' /\ ReaderTypeOK'
      BY <1>1, WriterTypes DEF queueVars
    <2>2. QueueTypeOK' /\ ResultTypeOK' /\ WriterTypeOK'
      BY <1>1 DEF TypeOK, QueueTypeOK, ResultTypeOK, WriterTypeOK, queueVars
    <2> QED
      BY <2>1, <2>2 DEF TypeOK
  <1>3. StopInv'
    BY <1>1 DEF StopInv, Leaving, queueVars, stopVars
  <1>4. LineInv' /\ ByteInv' /\ ResultInv'
    BY <1>1 DEF LineInv, ByteInv, ResultInv, Passed, FrameIntegrity, OneResultEach, OutcomeTruth, queueVars,
                Looping, Busy
  <1> QED
    BY <1>2, <1>3, <1>4

\* A result is published for a frame that is newer than every reported one.
LEMMA PublishKeepsResults ==
    ASSUME IInv, NEW f \in 1 .. admitted, NEW outcome, outcome = OutcomeOf(sent[f]),
           Publish(f, outcome), RoomFor(f),
           \A i \in 1 .. Len(published) : published[i].frame < f,
           UNCHANGED <<tracked, sent, taken, completedClosed, done>>
    PROVE  /\ ResultTypeOK' /\ OneResultEach' /\ OutcomeTruth'
           /\ \A i \in 1 .. Len(published') : published'[i].frame <= f
           /\ \A g \in tracked :
                g = f \/ (\E i \in 1 .. Len(published) : published[i].frame = g) =>
                  \E i \in 1 .. Len(published') : published'[i].frame = g
  <1> USE DEF IInv
  <1>1. CASE f \notin tracked
    <2>1. published' = published
      BY <1>1 DEF Publish
    <2>2. \A i \in 1 .. Len(published) : published[i].frame <= f
      BY ResultFrames, Sizes
    <2> QED
      BY <1>1, <2>1, <2>2 DEF TypeOK, ResultTypeOK, ResultInv, OneResultEach, OutcomeTruth
  <1>2. CASE f \in tracked
    <2> DEFINE r == [frame |-> f, outcome |-> outcome]
    <2>1. f \in Frames /\ f \in Nat /\ sent[f] \in 0 .. FrameLen /\ FrameLen \in Nat \ {0}
      BY Sizes, Bounds DEF TypeOK, WriterTypeOK, Frames
    <2>2. /\ outcome \in Outcomes
          /\ outcome = "Unwritten" <=> sent[f] = 0
          /\ outcome = "CompleteLocal" <=> sent[f] = FrameLen
      BY <2>1 DEF OutcomeOf, Outcomes
    <2>3. r \in [frame : tracked, outcome : Outcomes] /\ r.frame = f /\ r.outcome = outcome
      BY <1>2, <2>2
    <2>4. /\ Len(published) \in Nat
          /\ published' \in Seq([frame : tracked, outcome : Outcomes])
          /\ Len(published') = Len(published) + 1
          /\ \A i \in 1 .. Len(published) : published'[i] = published[i]
          /\ published'[Len(published) + 1] = r
      <3>1. published' = Append(published, r)
        BY <1>2 DEF Publish
      <3> HIDE DEF r
      <3> QED
        BY <2>3, <3>1, AppendProperties, LenProperties DEF TypeOK, ResultTypeOK
    <2>5. \A i \in 1 .. Len(published') :
            \/ i \in 1 .. Len(published) /\ published'[i] = published[i]
            \/ i = Len(published) + 1 /\ published'[i] = r
      BY <2>4
    <2> HIDE DEF r
    <2>6. ResultTypeOK'
      <3>1. taken \in 0 .. Len(published') /\ Len(published') - taken <= QueueCap + 1
        BY <1>2, <2>4, Bounds, Sizes DEF TypeOK, ResultTypeOK, RoomFor
      <3> QED
        BY <2>4, <3>1 DEF TypeOK, ResultTypeOK
    <2>7. OneResultEach'
      BY <2>3, <2>4, <2>5 DEF ResultInv, OneResultEach
    <2>8. OutcomeTruth'
      BY <2>2, <2>3, <2>5 DEF ResultInv, OutcomeTruth
    <2>9. \A i \in 1 .. Len(published') : published'[i].frame <= f
      <3>1. \A i \in 1 .. Len(published) : published[i].frame \in Nat /\ published[i].frame <= f
        <4>1. \A i \in 1 .. Len(published) : published[i].frame \in Nat
          BY ResultFrames, Sizes
        <4> QED
          BY <2>1, <4>1
      <3> QED
        BY <2>1, <2>3, <2>5, <3>1
    <2>10. \A g \in tracked :
              g = f \/ (\E i \in 1 .. Len(published) : published[i].frame = g) =>
                \E i \in 1 .. Len(published') : published'[i].frame = g
      <3>1. Len(published) + 1 \in 1 .. Len(published') /\ published'[Len(published) + 1].frame = f
        BY <2>3, <2>4
      <3>2. \A i \in 1 .. Len(published) : i \in 1 .. Len(published') /\ published'[i].frame = published[i].frame
        BY <2>4
      <3> QED
        BY <3>1, <3>2
    <2> QED
      BY <2>6, <2>7, <2>8, <2>9, <2>10
  <1> QED
    BY <1>1, <1>2

\* The result of the frame in hand.
LEMMA PublishesKeepsInv ==
    ASSUME IInv, WriterPublishes
    PROVE  IInv'
  <1> USE DEF IInv
  <1>1. /\ UNCHANGED <<sent, outgoingClosed, admitted, tracked, taken, completedClosed, done, stopVars,
                       readVars, refused, writable>>
        /\ writer \in {"publish", "fail"} /\ item' = NoFrame
        /\ RoomFor(item) /\ Publish(item, OutcomeOf(sent[item]))
    BY DEF WriterPublishes
  <1>2. item # NoFrame /\ item \in 1 .. admitted /\ item = Passed /\ unwritten = <<>> /\ Passed \in Nat
    <2>1. item # NoFrame /\ unwritten = <<>>
      BY <1>1 DEF TypeOK, WriterTypeOK, StopInv, Leaving
    <2> QED
      BY <2>1, Sizes DEF LineInv, TypeOK, WriterTypeOK, NoFrame
  <1>3. \A i \in 1 .. Len(published) : published[i].frame < item
    BY <1>2, ResultFrames, Sizes DEF ResultInv
  <1>4. /\ ResultTypeOK' /\ OneResultEach' /\ OutcomeTruth'
        /\ \A i \in 1 .. Len(published') : published'[i].frame <= item
        /\ \A g \in tracked :
             g = item \/ (\E i \in 1 .. Len(published) : published[i].frame = g) =>
               \E i \in 1 .. Len(published') : published'[i].frame = g
    BY <1>1, <1>2, <1>3, PublishKeepsResults
  <1>5. StopTypeOK' /\ ReaderTypeOK'
    BY <1>1, WriterTypes
  <1>6. /\ Passed' = Passed /\ Len(outgoing') <= QueueCap
        /\ unwritten' \in Seq(1 .. admitted) /\ outgoing' \in Seq(1 .. admitted)
        /\ \A i \in 1 .. Len(outgoing') : outgoing'[i] = admitted - Len(outgoing') + i
        /\ \A i \in 1 .. Len(unwritten') : unwritten'[i] = admitted - Len(unwritten') + i
        /\ \/ writer = "publish" /\ writer' = "wait" /\ unwritten' = <<>>
           \/ writer = "fail" /\ writer' = "report" /\ outgoing' = <<>>
    <2>1. CASE writer = "publish"
      BY <1>1, <1>2, <2>1 DEF WriterPublishes, Passed, LineInv, TypeOK, QueueTypeOK, WriterTypeOK
    <2>2. CASE writer = "fail"
      <3>1. TakeQueued
        BY <2>2 DEF WriterPublishes
      <3> QED
        BY <1>1, <1>2, <2>2, <3>1, TakeQueuedKeepsLine, Bounds
    <2> QED
      BY <1>1, <2>1, <2>2
  <1>7. QueueTypeOK' /\ WriterTypeOK'
    BY <1>1, <1>2, <1>6, Sizes DEF TypeOK, QueueTypeOK, WriterTypeOK, NoFrame
  <1>8. StopInv'
    BY <1>1, <1>2, <1>6 DEF StopInv, Leaving, stopVars
  <1>9. LineInv'
    BY <1>1, <1>6 DEF LineInv
  <1>10. ByteInv'
    <2>1. writer = "publish" => \A f \in 1 .. Passed : sent[f] = FrameLen
      BY <1>1, <1>2 DEF ByteInv, Busy
    <2> QED
      BY <1>1, <1>6, <2>1 DEF ByteInv, FrameIntegrity, Looping, Busy
  <1>11. ResultInv'
    <2>1. /\ tracked' = tracked /\ tracked \subseteq Nat \ {0} /\ item' = 0
      BY <1>1, Sizes DEF TypeOK, QueueTypeOK, NoFrame
    <2>2. \A i \in 1 .. Len(published') : published'[i].frame \in tracked
      <3>1. TAKE i \in 1 .. Len(published')
      <3>2. published'[i] \in [frame : tracked, outcome : Outcomes]
        BY <1>4, <2>1, ElementOfSeq DEF ResultTypeOK
      <3> QED
        BY <3>2
    <2>3. \A i \in 1 .. Len(published') : published'[i].frame <= Passed' /\ published'[i].frame # item'
      BY <1>2, <1>4, <1>6, <2>1, <2>2
    <2>4. \A f \in tracked : f <= Passed' =>
            \E i \in 1 .. Len(published') : published'[i].frame = f
      BY <1>2, <1>4, <1>6 DEF ResultInv
    <2> QED
      BY <1>4, <2>1, <2>3, <2>4 DEF ResultInv
  <1> QED
    BY <1>4, <1>5, <1>7, <1>8, <1>9, <1>10, <1>11 DEF TypeOK

\* The oldest frame that was never tried passes into the results.
LEMMA ReportKeepsInv ==
    ASSUME IInv, ReportUnwritten
    PROVE  IInv'
  <1> USE DEF IInv
  <1>1. /\ UNCHANGED <<writer, item, sent, taken, completedClosed, done, queueVars, stopVars, readVars,
                       refused, writable>>
        /\ writer = "report" /\ unwritten # <<>> /\ unwritten' = Tail(unwritten)
        /\ RoomFor(Head(unwritten)) /\ Publish(Head(unwritten), "Unwritten")
        /\ UNCHANGED <<outgoing, outgoingClosed, admitted, tracked>>
    BY DEF ReportUnwritten, queueVars
  <1>2. item = NoFrame /\ outgoing = <<>> /\ Len(outgoing) = 0 /\ Passed \in Int /\ Passed >= 0
        /\ admitted \in Nat /\ Len(unwritten) \in Nat
    BY <1>1, Sizes DEF TypeOK, WriterTypeOK, StopInv, Leaving, LineInv
  <1>3. /\ Len(unwritten) \in Nat \ {0} /\ Len(unwritten') = Len(unwritten) - 1
        /\ Head(unwritten) = unwritten[1] /\ Head(unwritten) \in 1 .. admitted
        /\ unwritten' \in Seq(1 .. admitted)
        /\ \A i \in 1 .. Len(unwritten) - 1 : unwritten'[i] = unwritten[i + 1]
    BY <1>1, <1>2, HeadOfQueue DEF TypeOK, WriterTypeOK
  <1>4. Head(unwritten) = Passed + 1 /\ Passed' = Passed + 1 /\ Head(unwritten) \in Frames
    BY <1>1, <1>2, <1>3, Sizes, Bounds DEF Passed, LineInv, Frames
  <1>5. sent[Head(unwritten)] = 0 /\ OutcomeOf(sent[Head(unwritten)]) = "Unwritten"
    BY <1>2, <1>4, Bounds DEF ByteInv, OutcomeOf
  <1>6. \A i \in 1 .. Len(published) : published[i].frame < Head(unwritten)
    BY <1>2, <1>4, ResultFrames, Sizes DEF ResultInv
  <1>7. /\ ResultTypeOK' /\ OneResultEach' /\ OutcomeTruth'
        /\ \A i \in 1 .. Len(published') : published'[i].frame <= Head(unwritten)
        /\ \A g \in tracked :
             g = Head(unwritten) \/ (\E i \in 1 .. Len(published) : published[i].frame = g) =>
               \E i \in 1 .. Len(published') : published'[i].frame = g
    BY <1>1, <1>3, <1>5, <1>6, PublishKeepsResults
  <1>8. StopTypeOK' /\ ReaderTypeOK'
    BY <1>1, WriterTypes
  <1>9. QueueTypeOK' /\ WriterTypeOK'
    BY <1>1, <1>3 DEF TypeOK, QueueTypeOK, WriterTypeOK
  <1>10. StopInv'
    BY <1>1 DEF StopInv, Leaving, stopVars
  <1>11. LineInv'
    <2>1. \A i \in 1 .. Len(unwritten') : unwritten'[i] = admitted - Len(unwritten') + i
      <3>1. TAKE i \in 1 .. Len(unwritten')
      <3>2. unwritten'[i] = unwritten[i + 1] /\ i + 1 \in 1 .. Len(unwritten)
        BY <1>3
      <3>3. unwritten[i + 1] = admitted - Len(unwritten) + (i + 1)
        BY <3>2 DEF LineInv
      <3> QED
        BY <1>2, <1>3, <3>2, <3>3
    <2> QED
      BY <1>1, <1>2, <1>4, <2>1 DEF LineInv
  <1>12. ByteInv'
    BY <1>1, <1>2, <1>4 DEF ByteInv, FrameIntegrity, Looping, Busy, Frames
  <1>13. ResultInv'
    <2>1. tracked' = tracked /\ tracked \subseteq Nat \ {0} /\ item' = 0 /\ item = 0
      BY <1>1, <1>2, Sizes DEF TypeOK, QueueTypeOK, NoFrame
    <2>2. \A i \in 1 .. Len(published') : published'[i].frame \in tracked
      <3>1. TAKE i \in 1 .. Len(published')
      <3>2. published'[i] \in [frame : tracked, outcome : Outcomes]
        BY <1>7, <2>1, ElementOfSeq DEF ResultTypeOK
      <3> QED
        BY <3>2
    <2>3. \A i \in 1 .. Len(published') : published'[i].frame <= Passed' /\ published'[i].frame # item'
      BY <1>4, <1>7, <2>1, <2>2
    <2>4. \A f \in tracked : f <= Passed' =>
            \E i \in 1 .. Len(published') : published'[i].frame = f
      <3>1. TAKE f \in tracked
      <3>2. CASE f = Head(unwritten)
        BY <1>7, <3>2
      <3>3. CASE f # Head(unwritten) /\ f <= Passed'
        <4>1. f <= Passed /\ f # item
          BY <1>2, <1>4, <2>1, <3>3
        <4> QED
          BY <1>7, <4>1 DEF ResultInv
      <3> QED
        BY <3>2, <3>3
    <2> QED
      BY <1>7, <2>1, <2>3, <2>4 DEF ResultInv
  <1> QED
    BY <1>7, <1>8, <1>9, <1>10, <1>11, <1>12, <1>13 DEF TypeOK

------------------------------------------------------------------------------
(* The theorems.                                                           *)

\* Every step of every process keeps the invariant.
LEMMA StepKeepsInv == IInv /\ [Next]_vars => IInv'
  <1> SUFFICES ASSUME IInv, [Next]_vars PROVE IInv'
    OBVIOUS
  <1>1. CASE UNCHANGED vars
    BY <1>1, RefusalKeepsInv DEF vars, IInv, TypeOK, QueueTypeOK, LineInv
  <1>2. CASE \E isTracked \in BOOLEAN : Send(isTracked) \/ SendMeanwhile(isTracked)
    BY <1>2, SendersKeepInv
  <1>3. CASE Retry
    BY <1>3, SendersKeepInv
  <1>4. CASE WriterStep
    BY <1>4, WakesKeepsInv, TakesKeepsInv, FailureKeepsInv, PublishesKeepsInv, ReportKeepsInv, FinishKeepsInv
       DEF WriterStep
  <1>5. CASE PeerAccepts
    BY <1>5, BytesKeepInv DEF PeerAccepts
  <1>6. CASE \/ CloseBegins \/ StopStep \/ ReaderStep
             \/ ReadFrame \/ ReadOversized \/ TakeIncoming \/ DrainResult \/ PeerResets
    BY <1>6, OthersKeepInv
  <1> QED
    BY <1>1, <1>2, <1>3, <1>4, <1>5, <1>6 DEF Next

\* The invariant holds in every reachable state.
THEOREM InvHolds == Spec => []IInv
  BY InitInv, StepKeepsInv, PTL DEF Spec

\* What writeLoop puts on the socket and what it publishes agree for every
\* number and length of frames: whole frames in admission order, nothing after
\* a torn one, one true result for each tracked admission.
THEOREM WriterSoundHolds == Spec => []WriterSound
  <1>1. IInv => WriterSound
    BY DEF IInv, StopInv, ByteInv, ResultInv, WriterSound, NoEmptyTake
  <1> QED
    BY <1>1, InvHolds, PTL

\* stop records its cause before a sender can be refused, and by the time Done
\* is closed every tracked admission has its result: the barrier that
\* handleTransportLoss relies on.
THEOREM StopOrderedHolds == Spec => []StopOrdered
  <1>1. ASSUME IInv PROVE CauseBeforeClosed
    BY <1>1 DEF IInv, StopInv, CauseBeforeClosed
  <1>2. ASSUME IInv PROVE DoneIsBarrier
    <2>1. SUFFICES ASSUME done
                   PROVE  completedClosed /\ tracked = {published[i].frame : i \in 1 .. Len(published)}
      BY DEF DoneIsBarrier
    <2>2. writer = "end" /\ completedClosed /\ outgoing = <<>> /\ unwritten = <<>>
      BY <1>2, <2>1 DEF IInv, StopInv, Leaving
    <2>3. Passed = admitted /\ item = NoFrame
      BY <1>2, <2>2, Sizes DEF Passed, IInv, TypeOK, WriterTypeOK
    <2>4. \A f \in tracked : \E i \in 1 .. Len(published) : published[i].frame = f
      BY <1>2, <2>3, Sizes DEF IInv, ResultInv, TypeOK, QueueTypeOK, NoFrame
    <2>5. \A i \in 1 .. Len(published) : published[i].frame \in tracked
      BY <1>2, ResultFrames DEF IInv
    <2> QED
      BY <2>2, <2>4, <2>5
  <1>3. IInv => StopOrdered
    BY <1>1, <1>2 DEF StopOrdered
  <1> QED
    BY <1>3, InvHolds, PTL
==============================================================================
