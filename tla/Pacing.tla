-------------------------------- MODULE Pacing --------------------------------
(***************************************************************************)
(* Pacing of historical and clock requests (await.go): a request that comes  *)
(* too soon is parked with a timer and a context callback, either of which   *)
(* queues a wakeup; the actor owns both and retries the whole setup, so a    *)
(* request parked over a reconnect starts over.  Time is a counter; timers   *)
(* fire any time after they are due, and their wakeups are run in any order. *)
(***************************************************************************)
EXTENDS Integers, Sequences, FiniteSets, SequencesExt

CONSTANTS
    Requests,          \* historical requests
    Keys,              \* what makes two requests identical
    ClockCalls,        \* callers of CurrentTime and CurrentTimeMillis
    Spacing,           \* historicalRequestSpacing
    IdenticalSpacing,  \* historicalIdenticalSpacing
    ClockSpacing,      \* clockRequestSpacing
    MaxTime,           \* the clock stops here
    MaxFlaps           \* times the session loses readiness

ASSUME PacingAssumption ==
    /\ {Spacing, IdenticalSpacing, ClockSpacing, MaxTime, MaxFlaps} \subseteq Nat \ {0}

VARIABLES
    now,
    pace,    \* request -> key, stage, context ended, current wait, timer, answers
    gate,    \* next request time and the recent requests by key
    clock,   \* next clock time, the callers with a route, what each asked, stages, timers
    inbox,   \* commands queued on the actor
    held,    \* readySetups
    open,    \* the session is ready
    flaps,
    sends    \* the historical requests sent, in order

paceVars == <<now, pace, gate, clock, inbox, held, open, flaps, sends>>

\* stage: none, new, queued, held, waiting, sent, canceled; timer 0 is not armed.
Fresh(k, stage) == [key |-> k, stage |-> stage, ended |-> FALSE, wait |-> 0, timer |-> 0, answers |-> 0]

PaceInit ==
    /\ now = 1 /\ open = TRUE /\ flaps = 0
    \* The two gates share nothing: a behaviour is about one of them.
    /\ \E stage \in {"new", "none"}, k \in [Requests -> Keys], kinds \in [ClockCalls -> {"seconds", "millis"}] :
         /\ pace = [r \in Requests |-> Fresh(k[r], stage)]
         /\ clock = [next |-> 0, active |-> {}, last |-> 0, gap |-> ClockSpacing, kind |-> kinds,
                     due |-> [q \in ClockCalls |-> 0],
                     stage |-> [q \in ClockCalls |-> IF stage = "new" THEN "none" ELSE "new"]]
    /\ gate = [next |-> 0, recent |-> [k \in Keys |-> 0]]
    /\ inbox = {} /\ held = <<>> /\ sends = <<>>

------------------------------------------------------------------------------
(* The actor, on the part of the state it owns.                            *)

Mine == [pace |-> pace, gate |-> gate, held |-> held, sends |-> sends, open |-> open]
MineIs(m) == pace' = m.pace /\ gate' = m.gate /\ held' = m.held /\ sends' = m.sends

Settle(m, r, stage) == [m EXCEPT !.pace[r].stage = stage, !.pace[r].answers = @ + 1]

\* pruneHistoricalRequests; 0 is an absent key.
pruneHistoricalRequests(recent) ==
    [k \in Keys |-> IF recent[k] < now - IdenticalSpacing THEN 0 ELSE recent[k]]

\* A new wait: its timer and its context callback are armed.
parkHistoricalSetup(m, r, at) ==
    [m EXCEPT !.pace[r].stage = "waiting", !.pace[r].wait = @ + 1, !.pace[r].timer = at]

runHistoricalSetup(m, r) ==
    LET k == m.pace[r].key
        recent == pruneHistoricalRequests(m.gate.recent)
        readyAt == IF recent[k] # 0 /\ recent[k] + IdenticalSpacing > m.gate.next
                   THEN recent[k] + IdenticalSpacing ELSE m.gate.next
    IN  IF m.pace[r].ended THEN Settle(m, r, "canceled")
        ELSE IF ~m.open THEN [m EXCEPT !.held = Append(@, r), !.pace[r].stage = "held"]
        ELSE IF readyAt > now
        THEN parkHistoricalSetup([m EXCEPT !.gate.recent = recent], r, readyAt)
        ELSE Settle([m EXCEPT !.gate = [next |-> now + Spacing, recent |-> [recent EXCEPT ![k] = now]],
                              !.sends = Append(@, [key |-> k, at |-> now])], r, "sent")

\* Mutant: a wakeup acts although its sibling already did.
StaleNever(m, r, wait) == FALSE

\* The wait was removed, or replaced by a later one.
Stale(m, r, wait) == m.pace[r].stage # "waiting" \/ m.pace[r].wait # wait

\* The wakeup: stop the sibling, then cancel or retry.
Wake(m, r, wait) ==
    IF Stale(m, r, wait) THEN m
    ELSE runHistoricalSetup([m EXCEPT !.pace[r].timer = 0], r)

Command(by, r, wait) == [by |-> by, r |-> r, wait |-> wait]

OneCommand == UNCHANGED <<now, clock, open, flaps>>

Ask(r) ==
    /\ pace[r].stage = "new"
    /\ pace' = [pace EXCEPT ![r].stage = "queued"]
    /\ inbox' = inbox \cup {Command("setup", r, 0)}
    /\ UNCHANGED <<gate, held, sends>> /\ OneCommand

\* The context's callback wakes a waiting request and takes a held one out
\* (cancelReadySetup; Admission.tla has its races).
PaceContextEnds(r) ==
    /\ pace[r].stage \notin {"none", "new"} /\ ~pace[r].ended
    /\ IF pace[r].stage = "held"
       THEN /\ MineIs(Settle([Mine EXCEPT !.pace[r].ended = TRUE, !.held = RemoveFirst(@, r)],
                             r, "canceled"))
            /\ UNCHANGED inbox
       ELSE /\ pace' = [pace EXCEPT ![r].ended = TRUE]
            /\ inbox' = IF pace[r].stage # "waiting" THEN inbox
                        ELSE inbox \cup {Command("context", r, pace[r].wait)}
            /\ UNCHANGED <<gate, held, sends>>
    /\ OneCommand

TimerFires(r) ==
    /\ pace[r].stage = "waiting" /\ pace[r].timer # 0 /\ now >= pace[r].timer
    /\ pace' = [pace EXCEPT ![r].timer = 0]
    /\ inbox' = inbox \cup {Command("timer", r, pace[r].wait)}
    /\ UNCHANGED <<gate, held, sends>> /\ OneCommand

RunPaced ==
    \E c \in inbox :
      /\ inbox' = inbox \ {c}
      /\ MineIs(IF c.by = "setup" THEN runHistoricalSetup(Mine, c.r) ELSE Wake(Mine, c.r, c.wait))
      /\ OneCommand

Tick ==
    /\ now < MaxTime /\ now' = now + 1
    /\ UNCHANGED <<pace, gate, clock, inbox, held, open, flaps, sends>>

\* The connection is lost or retired (also by a clock caller that leaves its
\* request unanswered): clock routes end, the gates stay.
Unready ==
    /\ open /\ flaps < MaxFlaps
    /\ open' = FALSE /\ flaps' = flaps + 1
    /\ clock' = [clock EXCEPT !.active = {}]
    /\ UNCHANGED <<now, pace, gate, inbox, held, sends>>

\* Each held setup runs, in the order of parking.
flushReadySetups(m, setups) == FoldLeft(runHistoricalSetup, m, setups)

PaceReady ==
    /\ ~open /\ open' = TRUE
    /\ MineIs(flushReadySetups([Mine EXCEPT !.held = <<>>, !.open = TRUE], held))
    /\ UNCHANGED <<now, clock, inbox, flaps>>

------------------------------------------------------------------------------
(* CurrentTime and CurrentTimeMillis: one route each, one spaced gate for     *)
(* both, a timer that queues the setup anew.                                  *)

ClockFrame == UNCHANGED <<now, pace, gate, inbox, held, open, flaps, sends>>

\* Mutant: the gate moves only when a request had to wait.
NextClockSame(next) == next

NextClock(next) == now + ClockSpacing

ClockActive(q) == \E p \in clock.active : clock.kind[p] = clock.kind[q]

\* enqueueClockSetup: refused while a route of its kind is active, delayed by
\* the gate, which may have moved on when the timer fires.
ClockSetup(q) ==
    /\ clock.stage[q] \in {"new", "timer"} /\ now >= clock.due[q]
    /\ open
    /\ clock' = IF ClockActive(q) THEN [clock EXCEPT !.stage[q] = "refused"]
                ELSE IF clock.next > now
                THEN [clock EXCEPT !.stage[q] = "timer", !.due[q] = clock.next]
                ELSE [clock EXCEPT !.stage[q] = "sent", !.active = @ \cup {q}, !.next = NextClock(@),
                                   !.gap = IF @ <= now - clock.last \/ clock.last = 0 THEN @ ELSE now - clock.last,
                                   !.last = now]
    /\ ClockFrame

\* The setup of a caller who left is dropped when its command or timer runs.
ClockContextEnds(q) ==
    /\ clock.stage[q] \in {"new", "timer"}
    /\ clock' = [clock EXCEPT !.stage[q] = "canceled"]
    /\ ClockFrame

ClockAnswered(q) ==
    /\ q \in clock.active
    /\ clock' = [clock EXCEPT !.active = @ \ {q}]
    /\ ClockFrame

PaceNext ==
    \/ \E r \in Requests : Ask(r) \/ PaceContextEnds(r) \/ TimerFires(r)
    \/ RunPaced \/ Tick \/ Unready \/ PaceReady
    \/ \E q \in ClockCalls : ClockSetup(q) \/ ClockContextEnds(q) \/ ClockAnswered(q)

PaceSpec == PaceInit /\ [][PaceNext]_paceVars

------------------------------------------------------------------------------
(* Properties.                                                             *)

\* Any two requests are spaced, and two identical ones further, also over
\* wakeups, retries and reconnects (historicalRequestSpacing and
\* historicalIdenticalSpacing are the gateway's pacing limits).
RequestsSpaced ==
    \A i, j \in DOMAIN sends :
      i < j => /\ sends[j].at - sends[i].at >= Spacing
               /\ sends[i].key = sends[j].key => sends[j].at - sends[i].at >= IdenticalSpacing

\* Clock requests are spaced too, of one kind or of two and over a reconnect
\* (clockRequestSpacing: the gateway drops a request that comes sooner).
ClockSpaced == clock.gap >= ClockSpacing

\* A request is sent or canceled, once, when its timer and its context fire
\* together, in either order.
SettledOnce == \A r \in Requests : pace[r].answers <= 1

\* A parked request always has a wakeup ahead: its timer or a queued command.
WakeupAhead ==
    \A r \in Requests :
      pace[r].stage = "waiting" =>
        \/ pace[r].timer # 0
        \/ \E by \in {"timer", "context"} : Command(by, r, pace[r].wait) \in inbox

\* Both gates keep their distances, whatever contexts, timers and flaps do.
PaceHonoured == RequestsSpaced /\ ClockSpaced

\* A parked historical setup is settled once and always has a wakeup ahead.
SetupsSettle == SettledOnce /\ WakeupAhead
==============================================================================
