----------------------------- MODULE RoutesProofs -----------------------------
(***************************************************************************)
(* The routing book for every number of request IDs, connections, codes,     *)
(* parked setups and every queue capacity: the inductive invariant that ties  *)
(* an open route to the connection that hosts it, to the resume queue or to   *)
(* the gap its consumer was told of, and the safety properties it implies.    *)
(*                                                                         *)
(* A turn is a composition of operators on the book, so its proof is one too: *)
(* a lemma says what a primitive operation writes, relations (Ended, Told,    *)
(* Ran, Resumes) say what a part of a turn may do and are closed under        *)
(* composition, the theorems on loops carry them through the folds, and a     *)
(* lemma per action ties the turn to the invariant.                          *)
(***************************************************************************)
EXTENDS Routes, SequenceTheorems, FiniteSetTheorems, TLAPS

------------------------------------------------------------------------------
(* The inductive invariant.                                                *)

\* The session states.
Phases == {"Disconnected", "Connecting", "Handshaking", "Ready", "Degraded", "Reconnecting", "Closed"}
\* The states of a session that is usable.
Up == {"Ready", "Degraded"}

\* The routing book, and the book in the middle of a turn.
Books == [next : 0 .. MaxReq, kind : [Reqs -> Kinds \cup {"none"}], routeGen : [Reqs -> 0 .. MaxGen],
          gapped : SUBSET Reqs, pending : Seq(Reqs), waiting : BOOLEAN,
          mdType : BOOLEAN, mdGen : Nat, parked : Seq(Calls),
          single : {"none", "incomplete", "complete"}, dirty : Nat, room : Nat, writable : BOOLEAN,
          hosted : SUBSET Reqs, lateRows : BOOLEAN, end : [Reqs -> Ends], last : [Reqs -> Events],
          depth : [Reqs -> Int], misrun : BOOLEAN]

\* A route of the book: its handle has no cause yet while it is open, its Gaps
\* and their ends alternate, only a retained stream is gapped, and an ID that was not handed out is unused.
RouteOK(s, r) ==
    /\ s.kind[r] # "none" => s.end[r] = "none" /\ s.depth[r] = IF r \in s.gapped THEN 1 ELSE 0
    /\ r \in s.gapped => s.kind[r] = "auto"
    /\ r > s.next => s.kind[r] = "none" /\ s.end[r] = "none" /\ r \notin s.hosted /\ s.depth[r] = 0

\* The resume queue holds requests that were handed out, each once.
PendingOK(s) ==
    /\ Len(s.pending) <= MaxReq
    /\ \A i \in DOMAIN s.pending : s.pending[i] <= s.next
    /\ \A i, j \in DOMAIN s.pending : s.pending[i] = s.pending[j] => i = j

\* The book, whatever the gateway sends.
BookOK(s, g) ==
    /\ \A r \in Reqs : RouteOK(s, r)
    /\ PendingOK(s)
    /\ s.dirty <= g /\ s.mdGen <= g
    /\ s.lateRows => s.dirty = g /\ s.single = "none"

\* What a live connection hosts was not closed by its caller, and an open route
\* it hosts was installed or resumed on it.
HostedOK(s, live, g) ==
    live => \A r \in s.hosted :
              /\ s.end[r] \notin {"cancelled", "slow"}
              /\ s.kind[r] # "none" => s.routeGen[r] = g /\ ~routeAwaitingResume(s, r)

\* An open route is hosted, or it is a retained stream in the resume queue.
ServedOK(s) ==
    \A r \in Reqs : s.kind[r] # "none" => r \in s.hosted \/ (s.kind[r] = "auto" /\ routeAwaitingResume(s, r))

\* A session that is ready owes only queued streams the end of their gap.
GapOK(s, p) == p = "Ready" => \A r \in s.gapped : routeAwaitingResume(s, r)

\* What holds of the book while the session is up.
UpOK(s, live, p, g) == HostedOK(s, live, g) /\ ServedOK(s) /\ GapOK(s, p)

\* Without a usable connection only gapped streams survive.
DownOK(s) ==
    /\ s.hosted = {} /\ ~s.waiting
    /\ \A r \in Reqs : s.kind[r] # "none" => r \in s.gapped

\* The link: when there is a wire.
LinkOK ==
    /\ phase \in Phases /\ wire \in {"none", "live", "dying"} /\ gen \in 0 .. MaxGen
    /\ phase \in {"Handshaking"} \cup Up => wire # "none"
    /\ phase = "Closed" => wire # "live"
    /\ phase \in {"Disconnected", "Connecting", "Reconnecting"} => wire = "none"

\* The book of any gateway.
Base == LinkOK /\ rt \in Books /\ BookOK(rt, gen) /\ rt.room <= QueueCap

\* The book of a gateway that sends no code before its greetings.
Served ==
    /\ phase \in Up => up /\ UpOK(rt, wire = "live", phase, gen)
    /\ phase = "Closed" => \A r \in Reqs : rt.kind[r] = "none"
    /\ phase \notin Up \cup {"Closed"} => DownOK(rt)
\* The book during a turn, with what holds for that turn only.
Turns == [next : 0 .. MaxReq, kind : [Reqs -> Kinds \cup {"none"}], routeGen : [Reqs -> 0 .. MaxGen],
          gapped : SUBSET Reqs, pending : Seq(Reqs), waiting : BOOLEAN,
          mdType : BOOLEAN, mdGen : Nat, parked : Seq(Calls),
          single : {"none", "incomplete", "complete"}, dirty : Nat, room : Nat, writable : BOOLEAN,
          hosted : SUBSET Reqs, lateRows : BOOLEAN, end : [Reqs -> Ends], last : [Reqs -> Events],
          depth : [Reqs -> Int], misrun : BOOLEAN,
          phase : Phases, live : BOOLEAN, stuck : BOOLEAN, fuel : Nat, drained : Nat,
          slow : SUBSET Reqs, bad : SUBSET Reqs]

\* What the parts of a turn leave alone.
SameTurn(s, t) == t.phase = s.phase /\ t.slow = s.slow /\ t.bad = s.bad /\ t.drained = s.drained
SameSingle(s, t) == t.single = s.single /\ t.dirty = s.dirty /\ t.lateRows = s.lateRows
SameType(s, t) == t.mdType = s.mdType /\ t.mdGen = s.mdGen
SameSetups(s, t) == t.next = s.next /\ t.parked = s.parked /\ t.misrun = s.misrun
SameBarrier(s, t) == t.pending = s.pending /\ t.waiting = s.waiting /\ t.writable = s.writable /\ t.stuck = s.stuck
SameWire(s, t) == t.room = s.room /\ t.fuel = s.fuel /\ t.live = s.live
SameRoutes(s, t) ==
    /\ t.kind = s.kind /\ t.routeGen = s.routeGen /\ t.gapped = s.gapped /\ t.hosted = s.hosted
    /\ t.end = s.end /\ t.last = s.last /\ t.depth = s.depth

------------------------------------------------------------------------------
(* What the primitive operations write.                                    *)

\* tr.Send takes a slot or finds the transport stopped.
LEMMA SendIs ==
  ASSUME NEW s \in Turns
  PROVE  LET t == AfterSend(s)
         IN  /\ t \in Turns
             /\ SameTurn(s, t) /\ SameSingle(s, t) /\ SameType(s, t) /\ SameSetups(s, t)
             /\ SameBarrier(s, t) /\ SameRoutes(s, t)
             /\ t.live => s.live
             /\ Admits(s) => t.live /\ t.fuel = s.fuel - 1
             /\ ~s.live => t.room = s.room
  <1> DEFINE a == [s EXCEPT !.room = @ - 1, !.fuel = @ - 1]
             b == [s EXCEPT !.live = s.live /\ s.fuel > 0]
  <1>1. ASSUME Admits(s)
        PROVE  /\ a \in Turns
             /\ SameTurn(s, a) /\ SameSingle(s, a) /\ SameType(s, a) /\ SameSetups(s, a)
             /\ SameBarrier(s, a) /\ SameRoutes(s, a)
             /\ a.live = s.live /\ a.fuel = s.fuel - 1
    <2>1. s.room - 1 \in Nat /\ s.fuel - 1 \in Nat
      BY <1>1 DEF Admits, Turns
    <2> QED BY <2>1 DEF Turns, SameTurn, SameSingle, SameType, SameSetups, SameBarrier, SameRoutes
  <1>2. /\ b \in Turns
        /\ SameTurn(s, b) /\ SameSingle(s, b) /\ SameType(s, b) /\ SameSetups(s, b)
        /\ SameBarrier(s, b) /\ SameRoutes(s, b)
        /\ b.live = (s.live /\ s.fuel > 0) /\ b.room = s.room
    <2>1. (s.live /\ s.fuel > 0) \in BOOLEAN
      OBVIOUS
    <2> QED BY <2>1 DEF Turns, SameTurn, SameSingle, SameType, SameSetups, SameBarrier, SameRoutes
  <1>3. AfterSend(s) = IF Admits(s) THEN a ELSE b
    BY DEF AfterSend
  <1> HIDE DEF a, b
  <1> QED BY <1>1, <1>2, <1>3 DEF Admits

\* EndRoute ends one route.
LEMMA EndIs ==
  ASSUME NEW s \in Turns, NEW r \in Reqs, NEW why \in Ends
  PROVE  LET t == EndRoute(s, r, why)
         IN  /\ t \in Turns
             /\ SameTurn(s, t) /\ SameSingle(s, t) /\ SameType(s, t) /\ SameSetups(s, t)
             /\ SameBarrier(s, t) /\ SameWire(s, t)
             /\ t.kind = [s.kind EXCEPT ![r] = "none"] /\ t.end = [s.end EXCEPT ![r] = why]
             /\ t.gapped = s.gapped \ {r} /\ t.hosted = s.hosted /\ t.routeGen = s.routeGen
             /\ t.last = s.last /\ t.depth = s.depth
  <1> DEFINE k == [s.kind EXCEPT ![r] = "none"]
             e == [s.end EXCEPT ![r] = why]
  <1>1. k \in [Reqs -> Kinds \cup {"none"}]
    BY DEF Turns
  <1>2. e \in [Reqs -> Ends]
    BY DEF Turns
  <1>3. EndRoute(s, r, why) = [s EXCEPT !.kind = k, !.end = e, !.gapped = s.gapped \ {r}]
    BY DEF EndRoute
  <1> HIDE DEF k, e
  <1>4. LET t == [s EXCEPT !.kind = k, !.end = e, !.gapped = s.gapped \ {r}]
        IN  /\ t \in Turns
            /\ SameTurn(s, t) /\ SameSingle(s, t) /\ SameType(s, t) /\ SameSetups(s, t)
            /\ SameBarrier(s, t) /\ SameWire(s, t)
            /\ t.kind = k /\ t.end = e
            /\ t.gapped = s.gapped \ {r} /\ t.hosted = s.hosted /\ t.routeGen = s.routeGen
            /\ t.last = s.last /\ t.depth = s.depth
    BY <1>1, <1>2 DEF Turns, SameTurn, SameSingle, SameType, SameSetups, SameBarrier, SameWire
  <1> QED BY <1>3, <1>4 DEF k, e

\* What operations on routes leave alone.
Aside(s, t) == SameTurn(s, t) /\ SameSingle(s, t) /\ SameType(s, t) /\ SameSetups(s, t)

\* t is s after its open route r ended.
Ended(s, t, r) ==
    /\ t \in Turns /\ Aside(s, t) /\ SameBarrier(s, t)
    /\ t.kind = [s.kind EXCEPT ![r] = "none"] /\ t.gapped = s.gapped \ {r}
    /\ t.hosted \subseteq s.hosted /\ s.hosted \ {r} \subseteq t.hosted
    /\ t.routeGen = s.routeGen /\ t.last = s.last /\ t.depth = s.depth
    /\ \A q \in Reqs : q # r => t.end[q] = s.end[q]
    /\ t.live => s.live
    /\ ~s.live => t.room = s.room

\* The connection no longer hosts a route that its caller closed.
Released(t, r) == t.live /\ r \in t.hosted => t.end[r] \notin {"cancelled", "slow"}

\* Taking a route out of the gateway's hands.
LEMMA UnhostIs ==
  ASSUME NEW s \in Turns, NEW h \in SUBSET Reqs
  PROVE  LET t == [s EXCEPT !.hosted = h]
         IN  /\ t \in Turns /\ Aside(s, t) /\ SameBarrier(s, t) /\ SameWire(s, t) /\ t.hosted = h
             /\ t.kind = s.kind /\ t.routeGen = s.routeGen /\ t.gapped = s.gapped
             /\ t.end = s.end /\ t.last = s.last /\ t.depth = s.depth
  BY DEF Turns, Aside, SameTurn, SameSingle, SameType, SameSetups, SameBarrier, SameWire

\* retireTransport only closes the wire.
LEMMA RetireIs ==
  ASSUME NEW s \in Turns
  PROVE  LET t == retireTransport(s)
         IN  /\ t \in Turns /\ Aside(s, t) /\ SameBarrier(s, t) /\ SameRoutes(s, t)
             /\ t.live = FALSE /\ t.room = s.room /\ t.fuel = s.fuel
  BY DEF retireTransport, Turns, Aside, SameTurn, SameSingle, SameType, SameSetups, SameBarrier, SameRoutes

\* EndRoute as a relation.
LEMMA EndEnds ==
  ASSUME NEW s \in Turns, NEW r \in Reqs, NEW why \in Ends
  PROVE  /\ Ended(s, EndRoute(s, r, why), r)
         /\ EndRoute(s, r, why).end[r] = why
         /\ EndRoute(s, r, why).hosted = s.hosted /\ SameWire(s, EndRoute(s, r, why))
  <1> DEFINE t == EndRoute(s, r, why)
  <1>1. /\ t \in Turns
        /\ SameTurn(s, t) /\ SameSingle(s, t) /\ SameType(s, t) /\ SameSetups(s, t)
        /\ SameBarrier(s, t) /\ SameWire(s, t)
        /\ t.kind = [s.kind EXCEPT ![r] = "none"] /\ t.end = [s.end EXCEPT ![r] = why]
        /\ t.gapped = s.gapped \ {r} /\ t.hosted = s.hosted /\ t.routeGen = s.routeGen
        /\ t.last = s.last /\ t.depth = s.depth
    BY EndIs
  <1> HIDE DEF t
  <1>2. s.end \in [Reqs -> Ends]
    BY DEF Turns
  <1>3. t.end[r] = why /\ \A q \in Reqs : q # r => t.end[q] = s.end[q]
    BY <1>1, <1>2
  <1>4. t.live = s.live /\ t.room = s.room
    BY <1>1 DEF SameWire
  <1> QED BY <1>1, <1>3, <1>4 DEF Ended, Aside, t

\* Sending first changes nothing about the routes.
LEMMA EndedAfterSend ==
  ASSUME NEW s \in Turns, NEW u \in Turns, NEW t, NEW r \in Reqs,
         Aside(s, u), SameBarrier(s, u), u.kind = s.kind, u.routeGen = s.routeGen, u.gapped \ {r} = s.gapped \ {r},
         u.end = s.end, u.last = s.last, u.depth = s.depth, u.live => s.live, ~s.live => u.room = s.room,
         u.hosted \subseteq s.hosted, s.hosted \ {r} \subseteq u.hosted, Ended(u, t, r)
  PROVE  Ended(s, t, r)
  BY DEF Ended, Aside, SameTurn, SameSingle, SameType, SameSetups, SameBarrier

\* cancelRouteSubscription: the route ends, and while the connection lives the
\* gateway no longer hosts it or the handle reports an uncertain cancellation.
LEMMA CancelEnds ==
  ASSUME NEW s \in Turns, NEW r \in Reqs, NEW cause \in {"cancelled", "slow"}, s.kind[r] # "none"
  PROVE  /\ Ended(s, actorCancel(s, r, cause), r)
         /\ HostedOK(s, s.live, gen) /\ s.phase \in Up => Released(actorCancel(s, r, cause), r)
  <1> DEFINE u == AfterSend(s)
             h == [u EXCEPT !.hosted = @ \ {r}]
  <1>1. cause \in Ends /\ "uncertain" \in Ends
    BY DEF Ends
  <1>2. /\ u \in Turns /\ Aside(s, u) /\ SameBarrier(s, u) /\ SameRoutes(s, u) /\ (u.live => s.live)
        /\ (Admits(s) => u.live) /\ (~s.live => u.room = s.room)
    BY SendIs DEF Aside
  <1> HIDE DEF u
  <1>3. CASE ~OwesCancel(s, r)
    <2>1. actorCancel(s, r, cause) = EndRoute(s, r, cause)
      BY <1>3 DEF actorCancel
    <2>2. Ended(s, EndRoute(s, r, cause), r) /\ EndRoute(s, r, cause).hosted = s.hosted /\ SameWire(s, EndRoute(s, r, cause))
      BY <1>1, EndEnds
    <2>3. ASSUME HostedOK(s, s.live, gen), s.phase \in Up, s.live, r \in s.hosted PROVE FALSE
      BY <1>3, <2>3 DEF HostedOK, OwesCancel, hasReadyTransport, Up
    <2> QED BY <2>1, <2>2, <2>3 DEF Released, SameWire
  <1>4. CASE OwesCancel(s, r) /\ Admits(s)
    <2>1. actorCancel(s, r, cause) = EndRoute(h, r, cause)
      BY <1>4 DEF actorCancel, h, u
    <2>2. h = [u EXCEPT !.hosted = u.hosted \ {r}] /\ u.hosted \ {r} \in SUBSET Reqs
      BY <1>2 DEF Turns
    <2>3. /\ h \in Turns /\ Aside(u, h) /\ SameBarrier(u, h) /\ SameWire(u, h) /\ h.hosted = u.hosted \ {r}
          /\ h.kind = u.kind /\ h.routeGen = u.routeGen /\ h.gapped = u.gapped
          /\ h.end = u.end /\ h.last = u.last /\ h.depth = u.depth
      BY <1>2, <2>2, UnhostIs
    <2> HIDE DEF h
    <2>4. Ended(h, EndRoute(h, r, cause), r) /\ EndRoute(h, r, cause).hosted = h.hosted
      BY <1>1, <2>3, EndEnds
    <2>5. /\ Aside(s, h) /\ SameBarrier(s, h)
      BY <1>2, <2>3 DEF Aside, SameTurn, SameSingle, SameType, SameSetups, SameBarrier
    <2>6. /\ h.kind = s.kind /\ h.routeGen = s.routeGen /\ h.gapped = s.gapped /\ h.end = s.end /\ h.last = s.last
          /\ h.depth = s.depth /\ (h.live => s.live) /\ h.hosted = s.hosted \ {r}
          /\ (~s.live => h.room = s.room)
      BY <1>2, <2>3 DEF SameRoutes, SameWire
    <2>7. Ended(s, EndRoute(h, r, cause), r)
      BY <2>3, <2>4, <2>5, <2>6, EndedAfterSend
    <2>8. r \notin EndRoute(h, r, cause).hosted
      BY <2>4, <2>6
    <2> QED BY <2>1, <2>7, <2>8 DEF Released
  <1>5. CASE OwesCancel(s, r) /\ ~Admits(s)
    <2> DEFINE e == EndRoute(u, r, "uncertain")
               f == EndRoute(u, r, cause)
    <2>1. actorCancel(s, r, cause) = IF u.live THEN retireTransport(e) ELSE f
      BY <1>5 DEF actorCancel, u
    <2>2. Ended(u, e, r) /\ Ended(u, f, r) /\ SameWire(u, f) /\ e \in Turns
      BY <1>1, <1>2, EndEnds DEF Ended
    <2> HIDE DEF e, f
    <2>3. Ended(s, e, r) /\ Ended(s, f, r)
      <3>1. /\ u.kind = s.kind /\ u.routeGen = s.routeGen /\ u.gapped = s.gapped /\ u.end = s.end /\ u.last = s.last
            /\ u.depth = s.depth /\ u.hosted = s.hosted
        BY <1>2 DEF SameRoutes
      <3> QED BY <1>2, <2>2, <3>1, EndedAfterSend
    <2>4. CASE u.live
      <3> DEFINE t == retireTransport(e)
      <3>1. t \in Turns /\ Aside(e, t) /\ SameBarrier(e, t) /\ SameRoutes(e, t) /\ ~t.live /\ t.room = e.room
        BY <2>2, RetireIs
      <3> HIDE DEF t
      <3>2. Ended(s, t, r)
        BY <2>3, <3>1 DEF Ended, Aside, SameTurn, SameSingle, SameType, SameSetups, SameBarrier, SameRoutes
      <3> QED BY <2>1, <2>4, <3>1, <3>2 DEF Released, t
    <2>5. CASE ~u.live
      BY <2>1, <2>2, <2>3, <2>5 DEF Released, SameWire
    <2> QED BY <2>4, <2>5
  <1> QED BY <1>3, <1>4, <1>5

------------------------------------------------------------------------------
(* Telling streams of gaps and ending the routes that are not retained.     *)

\* Some routes of s ended in t, or heard of something; no route was added.
Told(s, t, g) ==
    /\ t \in Turns /\ Aside(s, t) /\ SameBarrier(s, t) /\ t.routeGen = s.routeGen
    /\ \A q \in Reqs : t.kind[q] = s.kind[q] \/ t.kind[q] = "none"
    /\ t.hosted \subseteq s.hosted
    /\ \A q \in Reqs : t.kind[q] # "none" /\ q \in s.hosted => q \in t.hosted
    /\ t.live => s.live
    /\ ~s.live => t.room = s.room
    /\ BookOK(t, g)
    /\ HostedOK(s, s.live, g) /\ s.phase \in Up => HostedOK(t, t.live, g)

\* Only r is affected.
Only(s, t, r) == \A q \in Reqs : q # r => t.kind[q] = s.kind[q] /\ (q \in t.gapped <=> q \in s.gapped)

\* A turn that told nobody anything.
LEMMA ToldSelf ==
  ASSUME NEW s \in Turns, NEW g, BookOK(s, g)
  PROVE  Told(s, s, g)
  BY DEF Told, Aside, SameTurn, SameSingle, SameType, SameSetups, SameBarrier

\* Telling some routes, then others.
LEMMA ToldTrans ==
  ASSUME NEW s, NEW t, NEW u, NEW g, Told(s, t, g), Told(t, u, g)
  PROVE  Told(s, u, g)
  <1>1. /\ u \in Turns /\ Aside(s, u) /\ SameBarrier(s, u) /\ u.routeGen = s.routeGen /\ t.phase = s.phase
    BY DEF Told, Aside, SameTurn, SameSingle, SameType, SameSetups, SameBarrier
  <1>2. ASSUME NEW q \in Reqs PROVE u.kind[q] = s.kind[q] \/ u.kind[q] = "none"
    BY DEF Told
  <1>3. ASSUME NEW q \in Reqs, u.kind[q] # "none", q \in s.hosted PROVE q \in u.hosted
    <2>1. t.kind[q] # "none" 
      BY <1>3 DEF Told
    <2>2. q \in t.hosted
      BY <1>3, <2>1 DEF Told
    <2> QED BY <1>3, <2>2 DEF Told
  <1>4. u.hosted \subseteq s.hosted /\ (u.live => s.live) /\ (~s.live => u.room = s.room) /\ BookOK(u, g)
    BY DEF Told
  <1>5. HostedOK(s, s.live, g) /\ s.phase \in Up => HostedOK(u, u.live, g)
    BY <1>1 DEF Told
  <1> QED BY <1>1, <1>2, <1>3, <1>4, <1>5 DEF Told

\* A route that ends keeps the book sound.
LEMMA EndedTold ==
  ASSUME NEW s \in Turns, NEW t, NEW g, NEW r \in Reqs, BookOK(s, g), s.kind[r] # "none", Ended(s, t, r),
         HostedOK(s, s.live, g) /\ s.phase \in Up => Released(t, r)
  PROVE  Told(s, t, g) /\ Only(s, t, r) /\ t.kind[r] = "none"
  <1>0. t \in Turns
    BY DEF Ended
  <1>a. s.kind \in [Reqs -> Kinds \cup {"none"}]
    BY DEF Turns
  <1>b. s.next \in Nat
    BY DEF Turns
  <1>1. s.kind \in [Reqs -> Kinds \cup {"none"}] /\ s.next \in Nat /\ t \in Turns
    BY <1>0, <1>a, <1>b
  <1>2. t.kind[r] = "none" /\ \A q \in Reqs : q # r => t.kind[q] = s.kind[q] /\ t.end[q] = s.end[q]
    BY <1>1 DEF Ended
  <1>3. /\ t.next = s.next /\ t.pending = s.pending /\ t.dirty = s.dirty /\ t.mdGen = s.mdGen /\ t.phase = s.phase
        /\ t.lateRows = s.lateRows /\ t.single = s.single /\ t.routeGen = s.routeGen /\ t.depth = s.depth
        /\ t.gapped = s.gapped \ {r} /\ t.hosted \subseteq s.hosted /\ s.hosted \ {r} \subseteq t.hosted /\ (t.live => s.live)
        /\ (~s.live => t.room = s.room)
    BY DEF Ended, Aside, SameTurn, SameSingle, SameType, SameSetups, SameBarrier
  <1>4. ~(r > s.next)
    BY DEF BookOK, RouteOK
  <1>5. ASSUME NEW q \in Reqs PROVE RouteOK(t, q)
    <2>1. RouteOK(s, q)
      BY DEF BookOK
    <2>2. CASE q = r
      BY <1>2, <1>3, <1>4, <2>2 DEF RouteOK
    <2>3. CASE q # r
      BY <1>2, <1>3, <2>1, <2>3 DEF RouteOK
    <2> QED BY <2>2, <2>3
  <1>6. BookOK(t, g)
    BY <1>3, <1>5 DEF BookOK, PendingOK
  <1>7. ASSUME HostedOK(s, s.live, g), s.phase \in Up PROVE HostedOK(t, t.live, g)
    <2> SUFFICES ASSUME t.live, NEW q \in t.hosted
                 PROVE  /\ t.end[q] \notin {"cancelled", "slow"}
                        /\ t.kind[q] # "none" => t.routeGen[q] = g /\ ~routeAwaitingResume(t, q)
      BY DEF HostedOK
    <2>1. q \in Reqs /\ q \in s.hosted /\ s.live
      BY <1>1, <1>3 DEF Turns
    <2>2. CASE q = r
      BY <1>2, <1>7, <2>2 DEF Released
    <2>3. CASE q # r
      BY <1>2, <1>3, <1>7, <2>1, <2>3 DEF HostedOK, routeAwaitingResume
    <2> QED BY <2>2, <2>3
  <1>8. \A q \in Reqs : t.kind[q] # "none" /\ q \in s.hosted => q \in t.hosted
    BY <1>2, <1>3
  <1>9. Only(s, t, r)
    BY <1>2, <1>3 DEF Only
  <1> QED BY <1>1, <1>2, <1>3, <1>6, <1>7, <1>8, <1>9 DEF Told, Ended

\* emitState to a consumer that has room.
LEMMA EmitIs ==
  ASSUME NEW s \in Turns, NEW r \in Reqs, NEW event \in {"Gap", "Restored", "Resubscribed"}, r \notin s.slow
  PROVE  LET t == emitState(s, r, event)
         IN  /\ t \in Turns /\ Aside(s, t) /\ SameBarrier(s, t) /\ SameWire(s, t)
             /\ t.kind = s.kind /\ t.routeGen = s.routeGen /\ t.gapped = s.gapped /\ t.hosted = s.hosted
             /\ t.end = s.end
             /\ t.depth[r] = IF event = "Gap" THEN s.depth[r] + 1 ELSE s.depth[r] - 1
             /\ \A q \in Reqs : q # r => t.depth[q] = s.depth[q]
  <1> DEFINE d == [s.depth EXCEPT ![r] = IF event = "Gap" THEN s.depth[r] + 1 ELSE s.depth[r] - 1]
             l == [s.last EXCEPT ![r] = event]
  <1>1. s.depth \in [Reqs -> Int] /\ s.last \in [Reqs -> Events]
    BY DEF Turns
  <1>2. s.depth[r] \in Int /\ event \in Events
    BY <1>1 DEF Events
  <1>3. (IF event = "Gap" THEN s.depth[r] + 1 ELSE s.depth[r] - 1) \in Int
    BY <1>2
  <1>4. d \in [Reqs -> Int]
    BY <1>1, <1>3
  <1>5. l \in [Reqs -> Events]
    BY <1>1, <1>2
  <1>a. /\ d[r] = IF event = "Gap" THEN s.depth[r] + 1 ELSE s.depth[r] - 1
        /\ \A q \in Reqs : q # r => d[q] = s.depth[q]
    BY <1>1
  <1>6. emitState(s, r, event) = [s EXCEPT !.last = l, !.depth = d]
    BY DEF emitState
  <1> HIDE DEF l, d
  <1>7. LET t == [s EXCEPT !.last = l, !.depth = d]
        IN  /\ t \in Turns /\ Aside(s, t) /\ SameBarrier(s, t) /\ SameWire(s, t)
            /\ t.kind = s.kind /\ t.routeGen = s.routeGen /\ t.gapped = s.gapped /\ t.hosted = s.hosted
            /\ t.end = s.end /\ t.depth = d
    BY <1>4, <1>5 DEF Turns, Aside, SameTurn, SameSingle, SameType, SameSetups, SameBarrier, SameWire
  <1> QED BY <1>6, <1>7, <1>a

\* One round of emitGap and of emitResumed.
GapOne(s, r) == emitState([s EXCEPT !.gapped = @ \cup {r}], r, "Gap")
RestoreOne(s, r) == emitState([s EXCEPT !.gapped = @ \ {r}], r, "Restored")

\* Marking a stream gapped, or not.
LEMMA MarkIs ==
  ASSUME NEW s \in Turns, NEW G \in SUBSET Reqs
  PROVE  LET t == [s EXCEPT !.gapped = G]
         IN  /\ t \in Turns /\ Aside(s, t) /\ SameBarrier(s, t) /\ SameWire(s, t) /\ t.gapped = G
             /\ t.kind = s.kind /\ t.routeGen = s.routeGen /\ t.hosted = s.hosted
             /\ t.end = s.end /\ t.last = s.last /\ t.depth = s.depth
  BY DEF Turns, Aside, SameTurn, SameSingle, SameType, SameSetups, SameBarrier, SameWire

\* Telling an open stream of the change of its mark: a Gap when it is set, the end of
\* one when it is cleared; a consumer with no room loses the stream.
LEMMA TellStream ==
  ASSUME NEW s \in Turns, NEW r \in Reqs, NEW G \in SUBSET Reqs, NEW event \in {"Gap", "Restored", "Resubscribed"},
         BookOK(s, gen), s.kind[r] = "auto", G \ {r} = s.gapped \ {r},
         event = "Gap" => r \notin s.gapped /\ r \in G,
         event # "Gap" => r \in s.gapped /\ r \notin G
  PROVE  LET t == emitState([s EXCEPT !.gapped = G], r, event)
         IN  Told(s, t, gen) /\ Only(s, t, r) /\ (t.kind[r] # "none" => (r \in t.gapped <=> r \in G))
  <1> DEFINE m == [s EXCEPT !.gapped = G]
             t == emitState(m, r, event)
  <1>1. /\ m \in Turns /\ Aside(s, m) /\ SameBarrier(s, m) /\ SameWire(s, m) /\ m.gapped = G
        /\ m.kind = s.kind /\ m.routeGen = s.routeGen /\ m.hosted = s.hosted
        /\ m.end = s.end /\ m.last = s.last /\ m.depth = s.depth
    BY MarkIs
  <1> HIDE DEF m
  <1>2. CASE r \in m.slow
    <2>1. t = actorCancel(m, r, "slow")
      BY <1>2 DEF emitState
    <2>2. m.kind[r] # "none" /\ m.live = s.live /\ m.phase = s.phase /\ m.room = s.room
      BY <1>1 DEF SameWire, Aside, SameTurn
    <2>3. HostedOK(s, s.live, gen) => HostedOK(m, m.live, gen)
      BY <1>1, <2>2 DEF HostedOK, routeAwaitingResume, SameBarrier
    <2>4. Ended(m, t, r) /\ (HostedOK(m, m.live, gen) /\ m.phase \in Up => Released(t, r))
      BY <1>1, <2>1, <2>2, CancelEnds
    <2> HIDE DEF t
    <2>5. Ended(s, t, r)
      BY <1>1, <2>2, <2>4, EndedAfterSend
    <2>6. Told(s, t, gen) /\ Only(s, t, r) /\ t.kind[r] = "none"
      BY <2>2, <2>3, <2>4, <2>5, EndedTold
    <2> QED BY <2>6 DEF t, m
  <1>3. CASE r \notin m.slow
    <2>1. /\ t \in Turns /\ Aside(m, t) /\ SameBarrier(m, t) /\ SameWire(m, t)
          /\ t.kind = m.kind /\ t.routeGen = m.routeGen /\ t.gapped = m.gapped /\ t.hosted = m.hosted
          /\ t.end = m.end
          /\ t.depth[r] = IF event = "Gap" THEN m.depth[r] + 1 ELSE m.depth[r] - 1
          /\ \A q \in Reqs : q # r => t.depth[q] = m.depth[q]
      BY <1>1, <1>3, EmitIs
    <2> HIDE DEF t
    <2>2. /\ Aside(s, t) /\ SameBarrier(s, t) /\ SameWire(s, t)
      BY <1>1, <2>1 DEF Aside, SameTurn, SameSingle, SameType, SameSetups, SameBarrier, SameWire
    <2>3. /\ t.next = s.next /\ t.pending = s.pending /\ t.dirty = s.dirty /\ t.mdGen = s.mdGen /\ t.phase = s.phase
          /\ t.lateRows = s.lateRows /\ t.single = s.single /\ t.live = s.live /\ t.room = s.room
      BY <2>2 DEF Aside, SameTurn, SameSingle, SameType, SameSetups, SameBarrier, SameWire
    <2>4. s.depth \in [Reqs -> Int] /\ s.next \in Nat
      BY DEF Turns
    <2>5. RouteOK(s, r) /\ s.depth[r] \in Int
      BY <2>4 DEF BookOK
    <2>6. /\ t.depth[r] = IF event = "Gap" THEN s.depth[r] + 1 ELSE s.depth[r] - 1
          /\ \A q \in Reqs : q # r => t.depth[q] = s.depth[q]
      BY <1>1, <2>1, <2>4
    <2>7. ASSUME NEW q \in Reqs PROVE RouteOK(t, q)
      <3>1. RouteOK(s, q)
        BY DEF BookOK
      <3>2. CASE q = r
        BY <1>1, <2>1, <2>3, <2>5, <2>6, <3>1, <3>2 DEF RouteOK
      <3>3. CASE q # r
        BY <1>1, <2>1, <2>3, <2>6, <3>1, <3>3 DEF RouteOK
      <3> QED BY <3>2, <3>3
    <2>8. BookOK(t, gen)
      BY <2>3, <2>7 DEF BookOK, PendingOK
    <2>9. HostedOK(s, s.live, gen) => HostedOK(t, t.live, gen)
      BY <1>1, <2>1, <2>3 DEF HostedOK, routeAwaitingResume
    <2>10. Told(s, t, gen)
      BY <1>1, <2>1, <2>2, <2>3, <2>8, <2>9 DEF Told
    <2>11. Only(s, t, r)
      BY <1>1, <2>1 DEF Only
    <2> QED BY <1>1, <2>1, <2>10, <2>11 DEF t, m
  <1> QED BY <1>2, <1>3

------------------------------------------------------------------------------
(* The loops over the routes.                                              *)

\* The sets the loops range over are finite.
LEMMA ReqsFinite ==
  ASSUME NEW S \in SUBSET Reqs
  PROVE  IsFiniteSet(S)
  <1>1. 1 \in Int /\ MaxReq \in Int
    BY RoutesAssumption
  <1>2. IsFiniteSet(Reqs)
    BY <1>1, FS_Interval DEF Reqs
  <1> QED BY <1>2, FS_Subset

\* The routes not handled yet are as in s.
Rest(s, v, done) ==
    \A q \in Reqs : q \notin done => v.kind[q] = s.kind[q] /\ (q \in v.gapped <=> q \in s.gapped)

\* One route more is handled.
LEMMA RestStep ==
  ASSUME NEW s, NEW v, NEW t, NEW done, NEW r \in Reqs, Rest(s, v, done), Only(v, t, r)
  PROVE  Rest(s, t, done \cup {r})
  BY DEF Rest, Only

\* The loop of emitGap and its invariant.
GapNext(v, r, s) == GapOne(v, r)
GapHolds(v, done, S, s) ==
    /\ Told(s, v, gen) /\ Rest(s, v, done)
    /\ \A q \in done : v.kind[q] # "none" => q \in v.gapped

Gaps == INSTANCE QueueTheorems WITH Op <- GapNext, Holds <- GapHolds

\* emitGap: every retained stream that is not gapped is told, the others are left
\* alone.
LEMMA GapTold ==
  ASSUME NEW s \in Turns, BookOK(s, gen)
  PROVE  LET t == emitGap(s)
         IN  /\ Told(s, t, gen)
             /\ \A q \in Reqs : s.kind[q] # "auto" => t.kind[q] = s.kind[q]
             /\ \A q \in Reqs : t.kind[q] = "auto" => q \in t.gapped
  <1> DEFINE S == AutoIn(s) \ s.gapped
             t == emitGap(s)
  <1>1. t = Gaps!FoldedSet(s, S, s)
    BY Zenon DEF emitGap, GapNext, GapOne, Gaps!FoldedSet, FoldSet, Gaps!FoldSet, MapThenFoldSet, Gaps!MapThenFoldSet
  <1>2. S \in SUBSET Reqs
    BY DEF AutoIn
  <1>3. IsFiniteSet(S)
    BY <1>2, ReqsFinite
  <1>a. Gaps!IsFiniteSet(S)
    BY <1>3 DEF IsFiniteSet, Gaps!IsFiniteSet
  <1>4. GapHolds(s, {}, S, s)
    BY ToldSelf DEF GapHolds, Rest
  <1>5. ASSUME NEW done \in SUBSET S, NEW r \in S \ done, NEW v, GapHolds(v, done, S, s)
        PROVE  GapHolds(GapOne(v, r), done \cup {r}, S, s)
    <2> DEFINE G == v.gapped \cup {r}
               u == GapOne(v, r)
    <2>1. r \in Reqs /\ s.kind[r] = "auto" /\ r \notin s.gapped
      BY <1>2 DEF AutoIn
    <2>2. v \in Turns /\ BookOK(v, gen) /\ v.kind[r] = "auto" /\ r \notin v.gapped
      BY <1>5, <2>1 DEF GapHolds, Told, Rest
    <2>3. G \in SUBSET Reqs /\ G \ {r} = v.gapped \ {r} /\ r \in G
      BY <2>1, <2>2 DEF Turns
    <2>4. u = emitState([v EXCEPT !.gapped = G], r, "Gap")
      BY DEF GapOne
    <2> HIDE DEF G
    <2>5. Told(v, u, gen) /\ Only(v, u, r) /\ (u.kind[r] # "none" => r \in u.gapped)
      BY <2>1, <2>2, <2>3, <2>4, TellStream
    <2> HIDE DEF u
    <2>6. Told(s, u, gen)
      BY <1>5, <2>5, ToldTrans DEF GapHolds
    <2>7. Rest(s, u, done \cup {r})
      BY <1>5, <2>1, <2>5, RestStep DEF GapHolds
    <2>8. ASSUME NEW q \in done \cup {r}, u.kind[q] # "none" PROVE q \in u.gapped
      <3>1. CASE q = r
        BY <2>5, <2>8, <3>1
      <3>2. CASE q # r
        <4>1. q \in done /\ q \in Reqs
          BY <1>2, <3>2
        <4>2. u.kind[q] = v.kind[q] /\ (q \in u.gapped <=> q \in v.gapped)
          BY <2>5, <3>2, <4>1 DEF Only
        <4> QED BY <1>5, <2>8, <4>1, <4>2 DEF GapHolds
      <3> QED BY <3>1, <3>2
    <2> QED BY <2>6, <2>7, <2>8 DEF GapHolds, u
  <1>6. Gaps!SetPreserved(S, s)
    BY <1>5 DEF Gaps!SetPreserved, GapNext
  <1> HIDE DEF S, t
  <1>7. GapHolds(t, S, S, s)
    BY <1>1, <1>a, <1>4, <1>6, Gaps!FoldSetInvariant
  <1>8. ASSUME NEW q \in Reqs, s.kind[q] # "auto" PROVE t.kind[q] = s.kind[q]
    BY <1>7, <1>8 DEF GapHolds, Rest, S, AutoIn
  <1>9. ASSUME NEW q \in Reqs, t.kind[q] = "auto" PROVE q \in t.gapped
    <2>1. CASE q \in S
      BY <1>7, <1>9, <2>1 DEF GapHolds
    <2>2. CASE q \notin S
      BY <1>7, <1>9, <2>2 DEF GapHolds, Rest, S, AutoIn
    <2> QED BY <2>1, <2>2
  <1> QED BY <1>7, <1>8, <1>9 DEF GapHolds, t

\* The loop of emitResumed and its invariant.
RestoreNext(v, r, s) == RestoreOne(v, r)
RestoreHolds(v, done, S, s) ==
    /\ Told(s, v, gen) /\ Rest(s, v, done)
    /\ \A q \in done : q \notin v.gapped

Restores == INSTANCE QueueTheorems WITH Op <- RestoreNext, Holds <- RestoreHolds

\* emitResumed: no stream stays gapped.
LEMMA ResumedTold ==
  ASSUME NEW s \in Turns, BookOK(s, gen)
  PROVE  Told(s, emitResumed(s), gen) /\ emitResumed(s).gapped = {}
  <1> DEFINE S == AutoIn(s) \cap s.gapped
             t == emitResumed(s)
  <1>1. t = Restores!FoldedSet(s, S, s)
    BY Zenon DEF emitResumed, RestoreNext, RestoreOne, Restores!FoldedSet, FoldSet, Restores!FoldSet,
                 MapThenFoldSet, Restores!MapThenFoldSet
  <1>2. S \in SUBSET Reqs
    BY DEF AutoIn
  <1>3. IsFiniteSet(S)
    BY <1>2, ReqsFinite
  <1>a. Restores!IsFiniteSet(S)
    BY <1>3 DEF IsFiniteSet, Restores!IsFiniteSet
  <1>4. RestoreHolds(s, {}, S, s)
    BY ToldSelf DEF RestoreHolds, Rest
  <1>5. ASSUME NEW done \in SUBSET S, NEW r \in S \ done, NEW v, RestoreHolds(v, done, S, s)
        PROVE  RestoreHolds(RestoreOne(v, r), done \cup {r}, S, s)
    <2> DEFINE G == v.gapped \ {r}
               u == RestoreOne(v, r)
    <2>1. r \in Reqs /\ s.kind[r] = "auto" /\ r \in s.gapped
      BY <1>2 DEF AutoIn
    <2>2. v \in Turns /\ BookOK(v, gen) /\ v.kind[r] = "auto" /\ r \in v.gapped
      BY <1>5, <2>1 DEF RestoreHolds, Told, Rest
    <2>3. G \in SUBSET Reqs /\ G \ {r} = v.gapped \ {r} /\ r \notin G
      BY <2>1, <2>2 DEF Turns
    <2>4. u = emitState([v EXCEPT !.gapped = G], r, "Restored")
      BY DEF RestoreOne
    <2> HIDE DEF G
    <2>5. Told(v, u, gen) /\ Only(v, u, r) /\ (u.kind[r] # "none" => r \notin u.gapped)
      BY <2>1, <2>2, <2>3, <2>4, TellStream
    <2> HIDE DEF u
    <2>6. Told(s, u, gen)
      BY <1>5, <2>5, ToldTrans DEF RestoreHolds
    <2>7. Rest(s, u, done \cup {r})
      BY <1>5, <2>1, <2>5, RestStep DEF RestoreHolds
    <2>8. ASSUME NEW q \in done \cup {r} PROVE q \notin u.gapped
      <3>1. CASE q = r
        BY <2>1, <2>5, <3>1 DEF Told, BookOK, RouteOK
      <3>2. CASE q # r
        BY <1>2, <1>5, <2>5, <3>2 DEF Only, RestoreHolds
      <3> QED BY <3>1, <3>2
    <2> QED BY <2>6, <2>7, <2>8 DEF RestoreHolds, u
  <1>6. Restores!SetPreserved(S, s)
    BY <1>5 DEF Restores!SetPreserved, RestoreNext
  <1> HIDE DEF S, t
  <1>7. RestoreHolds(t, S, S, s)
    BY <1>1, <1>a, <1>4, <1>6, Restores!FoldSetInvariant
  <1>8. ASSUME NEW q \in t.gapped PROVE FALSE
    <2>1. q \in Reqs
      BY <1>7 DEF RestoreHolds, Told, Turns
    <2>2. q \notin S
      BY <1>7 DEF RestoreHolds
    <2>3. q \in s.gapped
      BY <1>7, <2>1, <2>2 DEF RestoreHolds, Rest
    <2> QED BY <2>1, <2>2, <2>3 DEF S, AutoIn, BookOK, RouteOK
  <1> QED BY <1>7, <1>8 DEF RestoreHolds, t

\* The loop of onDisconnect and its invariant.
InterruptNext(v, r, s) == Interrupt(v, r)
InterruptHolds(v, done, S, s) ==
    /\ Told(s, v, gen) /\ Rest(s, v, done)
    /\ \A q \in done : v.kind[q] = "none"

Interrupts == INSTANCE QueueTheorems WITH Op <- InterruptNext, Holds <- InterruptHolds

\* The onDisconnect of every route in S.
LEMMA InterruptTold ==
  ASSUME NEW s \in Turns, BookOK(s, gen), NEW S \in SUBSET OpenIn(s)
  PROVE  LET t == InterruptAll(s, S)
         IN  Told(s, t, gen) /\ Rest(s, t, S) /\ \A q \in S : t.kind[q] = "none"
  <1> DEFINE t == InterruptAll(s, S)
  <1>1. t = Interrupts!FoldedSet(s, S, s)
    BY Zenon DEF InterruptAll, InterruptNext, Interrupts!FoldedSet, FoldSet, Interrupts!FoldSet,
                 MapThenFoldSet, Interrupts!MapThenFoldSet
  <1>2. S \in SUBSET Reqs
    BY DEF OpenIn
  <1>3. IsFiniteSet(S)
    BY <1>2, ReqsFinite
  <1>a. Interrupts!IsFiniteSet(S)
    BY <1>3 DEF IsFiniteSet, Interrupts!IsFiniteSet
  <1>4. InterruptHolds(s, {}, S, s)
    BY ToldSelf DEF InterruptHolds, Rest
  <1>5. ASSUME NEW done \in SUBSET S, NEW r \in S \ done, NEW v, InterruptHolds(v, done, S, s)
        PROVE  InterruptHolds(Interrupt(v, r), done \cup {r}, S, s)
    <2> DEFINE why == IF v.kind[r] = "oneshot" THEN "interrupted" ELSE "resumeRequired"
               u == EndRoute(v, r, why)
    <2>1. r \in Reqs /\ s.kind[r] # "none"
      BY <1>2 DEF OpenIn
    <2>2. v \in Turns /\ BookOK(v, gen) /\ v.kind[r] # "none"
      BY <1>5, <2>1 DEF InterruptHolds, Told, Rest
    <2>3. why \in Ends /\ why \notin {"cancelled", "slow"}
      BY DEF Ends
    <2>4. Interrupt(v, r) = u
      BY DEF Interrupt
    <2> HIDE DEF why
    <2>5. Ended(v, u, r) /\ u.end[r] = why
      BY <2>1, <2>2, <2>3, EndEnds
    <2> HIDE DEF u
    <2>6. Released(u, r)
      BY <2>3, <2>5 DEF Released
    <2>7. Told(v, u, gen) /\ Only(v, u, r) /\ u.kind[r] = "none"
      BY <2>1, <2>2, <2>5, <2>6, EndedTold
    <2>8. Told(s, u, gen)
      BY <1>5, <2>7, ToldTrans DEF InterruptHolds
    <2>9. Rest(s, u, done \cup {r})
      BY <1>5, <2>1, <2>7, RestStep DEF InterruptHolds
    <2>10. ASSUME NEW q \in done \cup {r} PROVE u.kind[q] = "none"
      BY <1>2, <1>5, <2>7 DEF Only, InterruptHolds
    <2> QED BY <2>4, <2>8, <2>9, <2>10 DEF InterruptHolds
  <1>6. Interrupts!SetPreserved(S, s)
    BY <1>5 DEF Interrupts!SetPreserved, InterruptNext
  <1> HIDE DEF t
  <1>7. InterruptHolds(t, S, S, s)
    BY <1>1, <1>a, <1>4, <1>6, Interrupts!FoldSetInvariant
  <1> QED BY <1>7 DEF InterruptHolds, t

------------------------------------------------------------------------------
(* Setups.                                                                 *)

\* The selection, once made, was sent on this connection.
TypeSent(s, g) == s.mdType => s.mdGen = g

\* Setups ran between s and t.
Ran(s, t, g) ==
    /\ t \in Turns /\ SameTurn(s, t) /\ SameBarrier(s, t)
    /\ \A q \in Reqs : s.kind[q] # "none" => t.kind[q] = s.kind[q]
    /\ t.live => s.live
    /\ TypeSent(s, g) => TypeSent(t, g)
    /\ BookOK(t, g)
    /\ UpOK(s, s.live, s.phase, g) => UpOK(t, t.live, t.phase, g)

\* The routes and the queue of t are those of s.
SameBook(s, t) ==
    /\ t.next = s.next /\ t.pending = s.pending
    /\ t.kind = s.kind /\ t.routeGen = s.routeGen /\ t.gapped = s.gapped /\ t.hosted = s.hosted
    /\ t.end = s.end /\ t.depth = s.depth

\* The route part of the invariant depends on nothing else.
LEMMA SameBookUp ==
  ASSUME NEW s, NEW t, NEW ls, NEW lt, NEW p, NEW g, SameBook(s, t), lt => ls, UpOK(s, ls, p, g)
  PROVE  UpOK(t, lt, p, g)
  BY DEF SameBook, UpOK, HostedOK, ServedOK, GapOK, routeAwaitingResume

\* The rest of a book is sound when its routes are those of a sound one.
LEMMA SameBookOK ==
  ASSUME NEW s, NEW t, NEW g, SameBook(s, t), BookOK(s, g),
         t.dirty <= g, t.mdGen <= g, t.lateRows => t.dirty = g /\ t.single = "none"
  PROVE  BookOK(t, g)
  BY DEF SameBook, BookOK, RouteOK, PendingOK

\* Setups that run after setups.
LEMMA RanTrans ==
  ASSUME NEW s, NEW t, NEW u, NEW g, s \in Turns, Ran(s, t, g), Ran(t, u, g)
  PROVE  Ran(s, u, g)
  <1>1. u \in Turns /\ SameTurn(s, u) /\ SameBarrier(s, u) /\ (u.live => s.live) /\ BookOK(u, g)
    BY DEF Ran, SameTurn, SameBarrier
  <1>2. \A q \in Reqs : s.kind[q] # "none" => u.kind[q] = s.kind[q]
    BY DEF Ran
  <1>3. (TypeSent(s, g) => TypeSent(u, g)) /\ (UpOK(s, s.live, s.phase, g) => UpOK(u, u.live, u.phase, g))
    BY DEF Ran
  <1> QED BY <1>1, <1>2, <1>3 DEF Ran

\* A setup that leaves the routes alone.
LEMMA RanAside ==
  ASSUME NEW s, NEW t, NEW g, BookOK(s, g), t \in Turns, SameTurn(s, t), SameBarrier(s, t), SameBook(s, t),
         t.live => s.live, TypeSent(s, g) => TypeSent(t, g),
         t.dirty <= g, t.mdGen <= g, t.lateRows => t.dirty = g /\ t.single = "none"
  PROVE  Ran(s, t, g)
  <1>1. BookOK(t, g)
    BY SameBookOK
  <1>2. ASSUME UpOK(s, s.live, s.phase, g) PROVE UpOK(t, t.live, t.phase, g)
    <2>1. t.phase = s.phase
      BY DEF SameTurn
    <2> QED BY <1>2, <2>1, SameBookUp
  <1>3. t.kind = s.kind
    BY DEF SameBook
  <1> QED BY <1>1, <1>2, <1>3 DEF Ran

\* SetMarketDataType records the selection with the connection it was sent on.
LEMMA TypeRan ==
  ASSUME NEW s \in Turns, BookOK(s, gen), gen \in 0 .. MaxGen
  PROVE  Ran(s, SetMarketDataType(s), gen)
  <1> DEFINE u == AfterSend(s)
             t == [u EXCEPT !.mdType = TRUE, !.mdGen = gen]
  <1>1. /\ u \in Turns /\ SameTurn(s, u) /\ SameSingle(s, u) /\ SameType(s, u) /\ SameSetups(s, u)
        /\ SameBarrier(s, u) /\ SameRoutes(s, u) /\ (u.live => s.live)
    BY SendIs
  <1> HIDE DEF u
  <1>2. gen \in Nat
    BY RoutesAssumption
  <1>3. /\ t \in Turns /\ SameTurn(u, t) /\ SameSingle(u, t) /\ SameSetups(u, t)
        /\ SameBarrier(u, t) /\ SameRoutes(u, t) /\ SameWire(u, t) /\ t.mdGen = gen
    BY <1>1, <1>2 DEF Turns, SameTurn, SameSingle, SameSetups, SameBarrier, SameRoutes, SameWire
  <1> HIDE DEF t
  <1>4. /\ SameTurn(s, t) /\ SameBarrier(s, t) /\ SameBook(s, t) /\ (t.live => s.live)
        /\ t.dirty = s.dirty /\ t.lateRows = s.lateRows /\ t.single = s.single
    BY <1>1, <1>3 DEF SameTurn, SameSingle, SameSetups, SameBarrier, SameRoutes, SameWire, SameBook
  <1>5. /\ SameTurn(s, u) /\ SameBarrier(s, u) /\ SameBook(s, u) /\ u.mdGen = s.mdGen /\ u.mdType = s.mdType
        /\ u.dirty = s.dirty /\ u.lateRows = s.lateRows /\ u.single = s.single
    BY <1>1 DEF SameTurn, SameSingle, SameType, SameSetups, SameBarrier, SameRoutes, SameBook
  <1>6. s.dirty <= gen /\ s.mdGen <= gen /\ (s.lateRows => s.dirty = gen /\ s.single = "none")
    BY DEF BookOK
  <1>7. Ran(s, t, gen)
    BY <1>2, <1>3, <1>4, <1>6, RanAside DEF TypeSent
  <1>8. Ran(s, u, gen)
    BY <1>1, <1>5, <1>6, RanAside DEF TypeSent
  <1>9. SetMarketDataType(s) = IF Admits(s) THEN t ELSE u
    BY DEF SetMarketDataType, t, u
  <1> QED BY <1>7, <1>8, <1>9

\* A request-ID-less stream takes its routing key only on a connection where none
\* was closed.
LEMMA SingletonRan ==
  ASSUME NEW s \in Turns, BookOK(s, gen), gen \in 0 .. MaxGen
  PROVE  Ran(s, AttemptSingleton(s), gen)
  <1> DEFINE u == AfterSend(s)
             p == [s EXCEPT !.parked = Append(@, "single")]
             w == [u EXCEPT !.single = "incomplete"]
  <1>1. /\ u \in Turns /\ SameTurn(s, u) /\ SameSingle(s, u) /\ SameType(s, u) /\ SameSetups(s, u)
        /\ SameBarrier(s, u) /\ SameRoutes(s, u) /\ (u.live => s.live)
    BY SendIs
  <1> HIDE DEF u
  <1>2. Append(s.parked, "single") \in Seq(Calls)
    BY DEF Turns, Calls
  <1>3. /\ p \in Turns /\ SameTurn(s, p) /\ SameSingle(s, p) /\ SameType(s, p) /\ SameBarrier(s, p)
        /\ SameRoutes(s, p) /\ SameWire(s, p) /\ p.next = s.next
    BY <1>2 DEF Turns, SameTurn, SameSingle, SameType, SameBarrier, SameRoutes, SameWire
  <1>4. /\ w \in Turns /\ SameTurn(u, w) /\ SameType(u, w) /\ SameSetups(u, w) /\ SameBarrier(u, w)
        /\ SameRoutes(u, w) /\ SameWire(u, w) /\ w.dirty = u.dirty /\ w.lateRows = u.lateRows
    BY <1>1 DEF Turns, SameTurn, SameType, SameSetups, SameBarrier, SameRoutes, SameWire
  <1>5. s.dirty <= gen /\ s.mdGen <= gen /\ (s.lateRows => s.dirty = gen /\ s.single = "none")
    BY DEF BookOK
  <1> HIDE DEF p, w
  <1>6. CASE s.dirty = gen
    <2> DEFINE t == retireTransport(p)
    <2>1. t \in Turns /\ Aside(p, t) /\ SameBarrier(p, t) /\ SameRoutes(p, t) /\ t.live = FALSE
      BY <1>3, RetireIs
    <2> HIDE DEF t
    <2>2. /\ SameTurn(s, t) /\ SameBarrier(s, t) /\ SameBook(s, t) /\ SameType(s, t)
          /\ t.dirty = s.dirty /\ t.lateRows = s.lateRows /\ t.single = s.single
      BY <1>3, <2>1 DEF Aside, SameTurn, SameSingle, SameType, SameSetups, SameBarrier, SameRoutes, SameBook
    <2>3. Ran(s, t, gen)
      BY <1>5, <2>1, <2>2, RanAside DEF TypeSent, SameType
    <2> QED BY <1>6, <2>3 DEF AttemptSingleton, t, p
  <1>7. CASE s.dirty # gen /\ s.single # "none"
    <2>1. Ran(s, s, gen)
      BY DEF Ran, SameTurn, SameBarrier
    <2> QED BY <1>7, <2>1 DEF AttemptSingleton
  <1>8. CASE s.dirty # gen /\ s.single = "none"
    <2>1. /\ SameTurn(s, w) /\ SameBarrier(s, w) /\ SameBook(s, w) /\ SameType(s, w) /\ (w.live => s.live)
          /\ w.dirty = s.dirty /\ w.lateRows = s.lateRows
      BY <1>1, <1>4 DEF SameTurn, SameSingle, SameType, SameSetups, SameBarrier, SameRoutes, SameWire, SameBook
    <2>2. /\ SameTurn(s, u) /\ SameBarrier(s, u) /\ SameBook(s, u) /\ SameType(s, u)
          /\ u.dirty = s.dirty /\ u.lateRows = s.lateRows
      BY <1>1 DEF SameTurn, SameSingle, SameType, SameSetups, SameBarrier, SameRoutes, SameBook
    <2>3. ~s.lateRows
      BY <1>5, <1>8
    <2>4. Ran(s, w, gen)
      BY <1>4, <1>5, <2>1, <2>3, RanAside DEF TypeSent, SameType
    <2>5. Ran(s, u, gen)
      BY <1>1, <1>5, <2>2, <2>3, RanAside DEF TypeSent, SameType
    <2>6. AttemptSingleton(s) = IF Admits(s) THEN w ELSE u
      BY <1>8 DEF AttemptSingleton, w, u
    <2> QED BY <2>4, <2>5, <2>6
  <1> QED BY <1>6, <1>7, <1>8

\* The book with a new request ID, and the route it installs.
Installed(u, r, k) ==
    [u EXCEPT !.next = r, !.kind[r] = k, !.routeGen[r] = gen, !.hosted = @ \cup {r}, !.last[r] = "Started"]
Refused(u, r) == [u EXCEPT !.next = r, !.end[r] = "refused"]

\* What installing a route writes.
LEMMA InstalledIs ==
  ASSUME NEW u \in Turns, NEW r \in Reqs, NEW k \in Kinds, gen \in 0 .. MaxGen
  PROVE  LET t == Installed(u, r, k)
         IN  /\ t \in Turns /\ SameTurn(u, t) /\ SameSingle(u, t) /\ SameType(u, t) /\ SameBarrier(u, t)
             /\ SameWire(u, t) /\ t.next = r /\ t.gapped = u.gapped /\ t.hosted = u.hosted \cup {r}
             /\ t.end = u.end /\ t.depth = u.depth
             /\ t.kind = [u.kind EXCEPT ![r] = k] /\ t.routeGen = [u.routeGen EXCEPT ![r] = gen]
  <1> DEFINE K == [u.kind EXCEPT ![r] = k]
             G == [u.routeGen EXCEPT ![r] = gen]
             L == [u.last EXCEPT ![r] = "Started"]
             H == u.hosted \cup {r}
  <1>1. K \in [Reqs -> Kinds \cup {"none"}]
    BY DEF Turns
  <1>2. G \in [Reqs -> 0 .. MaxGen]
    BY DEF Turns
  <1>3. L \in [Reqs -> Events]
    BY DEF Turns, Events
  <1>4. H \in SUBSET Reqs
    BY DEF Turns
  <1>5. r \in 0 .. MaxReq
    BY RoutesAssumption DEF Reqs
  <1>6. Installed(u, r, k) = [u EXCEPT !.next = r, !.kind = K, !.routeGen = G, !.hosted = H, !.last = L]
    BY DEF Installed
  <1> HIDE DEF K, G, L, H
  <1>7. LET t == [u EXCEPT !.next = r, !.kind = K, !.routeGen = G, !.hosted = H, !.last = L]
        IN  /\ t \in Turns /\ SameTurn(u, t) /\ SameSingle(u, t) /\ SameType(u, t) /\ SameBarrier(u, t)
            /\ SameWire(u, t) /\ t.next = r /\ t.gapped = u.gapped /\ t.hosted = H
            /\ t.end = u.end /\ t.depth = u.depth /\ t.kind = K /\ t.routeGen = G
    BY <1>1, <1>2, <1>3, <1>4, <1>5 DEF Turns, SameTurn, SameSingle, SameType, SameBarrier, SameWire
  <1> QED BY <1>6, <1>7 DEF K, G, H

\* What a refused setup writes.
LEMMA RefusedIs ==
  ASSUME NEW u \in Turns, NEW r \in Reqs
  PROVE  LET t == Refused(u, r)
         IN  /\ t \in Turns /\ SameTurn(u, t) /\ SameSingle(u, t) /\ SameType(u, t) /\ SameBarrier(u, t)
             /\ SameWire(u, t) /\ t.next = r /\ t.gapped = u.gapped /\ t.hosted = u.hosted
             /\ t.end = [u.end EXCEPT ![r] = "refused"] /\ t.depth = u.depth
             /\ t.kind = u.kind /\ t.routeGen = u.routeGen
  <1> DEFINE E == [u.end EXCEPT ![r] = "refused"]
  <1>1. E \in [Reqs -> Ends]
    BY DEF Turns, Ends
  <1>2. r \in 0 .. MaxReq
    BY RoutesAssumption DEF Reqs
  <1>3. Refused(u, r) = [u EXCEPT !.next = r, !.end = E]
    BY DEF Refused
  <1> HIDE DEF E
  <1>4. LET t == [u EXCEPT !.next = r, !.end = E]
        IN  /\ t \in Turns /\ SameTurn(u, t) /\ SameSingle(u, t) /\ SameType(u, t) /\ SameBarrier(u, t)
            /\ SameWire(u, t) /\ t.next = r /\ t.gapped = u.gapped /\ t.hosted = u.hosted
            /\ t.end = E /\ t.depth = u.depth /\ t.kind = u.kind /\ t.routeGen = u.routeGen
    BY <1>1, <1>2 DEF Turns, SameTurn, SameSingle, SameType, SameBarrier, SameWire
  <1> QED BY <1>3, <1>4 DEF E

\* A keyed operation: its new route is hosted by this connection, or the handle
\* was refused.
LEMMA KeyedRan ==
  ASSUME NEW s \in Turns, BookOK(s, gen), gen \in 0 .. MaxGen, NEW k \in Kinds
  PROVE  Ran(s, InstallKeyed(s, k), gen)
  <1> DEFINE u == AfterSend(s)
             r == s.next + 1
  <1>1. /\ u \in Turns /\ SameTurn(s, u) /\ SameSingle(s, u) /\ SameType(s, u) /\ SameSetups(s, u)
        /\ SameBarrier(s, u) /\ SameRoutes(s, u) /\ (u.live => s.live)
    BY SendIs
  <1>2. CASE s.next = MaxReq
    <2>1. Ran(s, s, gen)
      BY DEF Ran, SameTurn, SameBarrier
    <2> QED BY <1>2, <2>1 DEF InstallKeyed
  <1>3. CASE s.next # MaxReq
    <2>1. s.next \in 0 .. MaxReq /\ MaxReq \in Nat
      BY RoutesAssumption DEF Turns
    <2>2. r \in Reqs /\ r > s.next /\ s.next \in Nat /\ r \in Nat
      BY <1>3, <2>1 DEF Reqs
    <2> DEFINE n == Installed(u, r, k)
               f == Refused(u, r)
               t == IF Admits(s) THEN n ELSE f
    <2>3. InstallKeyed(s, k) = t
      BY <1>3 DEF InstallKeyed, Installed, Refused
    <2> HIDE DEF u, r
    <2>a. /\ n \in Turns /\ SameTurn(u, n) /\ SameSingle(u, n) /\ SameType(u, n) /\ SameBarrier(u, n)
          /\ SameWire(u, n) /\ n.next = r /\ n.gapped = u.gapped /\ n.hosted = u.hosted \cup {r}
          /\ n.end = u.end /\ n.depth = u.depth
          /\ n.kind = [u.kind EXCEPT ![r] = k] /\ n.routeGen = [u.routeGen EXCEPT ![r] = gen]
      BY <1>1, <2>2, InstalledIs
    <2>b. /\ f \in Turns /\ SameTurn(u, f) /\ SameSingle(u, f) /\ SameType(u, f) /\ SameBarrier(u, f)
          /\ SameWire(u, f) /\ f.next = r /\ f.gapped = u.gapped /\ f.hosted = u.hosted
          /\ f.end = [u.end EXCEPT ![r] = "refused"] /\ f.depth = u.depth
          /\ f.kind = u.kind /\ f.routeGen = u.routeGen
      BY <1>1, <2>2, RefusedIs
    <2> HIDE DEF n, f
    <2>4. /\ t \in Turns /\ SameTurn(u, t) /\ SameSingle(u, t) /\ SameType(u, t) /\ SameBarrier(u, t)
          /\ SameWire(u, t) /\ t.next = r /\ t.gapped = u.gapped /\ t.depth = u.depth
      BY <2>a, <2>b
    <2>5. /\ s.kind \in [Reqs -> Kinds \cup {"none"}] /\ s.end \in [Reqs -> Ends]
          /\ s.routeGen \in [Reqs -> 0 .. MaxGen]
      BY DEF Turns
    <2>6. u.kind = s.kind /\ u.end = s.end /\ u.routeGen = s.routeGen /\ u.gapped = s.gapped /\ u.hosted = s.hosted
          /\ u.depth = s.depth
      BY <1>1 DEF SameRoutes
    <2>7. ASSUME NEW q \in Reqs, q # r
          PROVE  t.kind[q] = s.kind[q] /\ t.end[q] = s.end[q] /\ t.routeGen[q] = s.routeGen[q]
      BY <2>2, <2>5, <2>6, <2>7, <2>a, <2>b
    <2>8. \/ Admits(s) /\ t.kind[r] = k /\ t.end[r] = s.end[r] /\ t.routeGen[r] = gen /\ t.hosted = s.hosted \cup {r}
          \/ ~Admits(s) /\ t.kind[r] = s.kind[r] /\ t.end[r] = "refused" /\ t.hosted = s.hosted
      BY <2>2, <2>5, <2>6, <2>a, <2>b
    <2> HIDE DEF t
    <2>9. /\ SameTurn(s, t) /\ SameBarrier(s, t) /\ SameType(s, t) /\ (t.live => s.live)
          /\ t.dirty = s.dirty /\ t.lateRows = s.lateRows /\ t.single = s.single
          /\ t.gapped = s.gapped /\ t.depth = s.depth /\ t.pending = s.pending /\ t.phase = s.phase
      BY <1>1, <2>4, <2>6 DEF SameTurn, SameSingle, SameType, SameBarrier, SameWire
    <2>10. s.kind[r] = "none" /\ s.end[r] = "none" /\ r \notin s.hosted /\ s.depth[r] = 0 /\ r \notin s.gapped
      BY <2>2 DEF BookOK, RouteOK
    <2>11. k # "none"
      BY DEF Kinds
    <2>12. ASSUME NEW q \in Reqs PROVE RouteOK(t, q)
      <3>1. CASE q = r
        BY <2>2, <2>4, <2>8, <2>9, <2>10, <2>11, <3>1 DEF RouteOK
      <3>2. CASE q # r
        <4>1. RouteOK(s, q) /\ q \in Nat
          BY RoutesAssumption DEF BookOK, Reqs
        <4>2. q \in t.hosted <=> q \in s.hosted
          BY <2>8, <3>2
        <4>3. q > t.next => q > s.next
          BY <2>2, <2>4, <4>1
        <4> QED BY <2>7, <2>9, <3>2, <4>1, <4>2, <4>3 DEF RouteOK
      <3> QED BY <3>1, <3>2
    <2>13. ASSUME NEW i \in DOMAIN s.pending PROVE s.pending[i] <= t.next /\ s.pending[i] # r
      <3>1. s.pending \in Seq(Reqs)
        BY DEF Turns
      <3>2. s.pending[i] \in Reqs
        BY <3>1
      <3>3. s.pending[i] \in Nat /\ s.pending[i] <= s.next
        BY <3>2, RoutesAssumption DEF BookOK, PendingOK, Reqs
      <3> QED BY <2>2, <2>4, <3>3
    <2>14. BookOK(t, gen)
      <3>1. PendingOK(t)
        BY <2>9, <2>13 DEF BookOK, PendingOK
      <3> QED BY <2>9, <2>12, <3>1 DEF BookOK, SameType
    <2>15. ASSUME UpOK(s, s.live, s.phase, gen) PROVE UpOK(t, t.live, t.phase, gen)
      <3>1. ~routeAwaitingResume(t, r) /\ \A q \in Reqs : routeAwaitingResume(t, q) <=> routeAwaitingResume(s, q)
        BY <2>9, <2>13 DEF routeAwaitingResume
      <3>2. HostedOK(t, t.live, gen)
        <4> SUFFICES ASSUME t.live, NEW q \in t.hosted
                     PROVE  /\ t.end[q] \notin {"cancelled", "slow"}
                            /\ t.kind[q] # "none" => t.routeGen[q] = gen /\ ~routeAwaitingResume(t, q)
          BY DEF HostedOK
        <4>1. q \in Reqs
          BY <2>4 DEF Turns
        <4>2. CASE q = r
          BY <2>8, <2>10, <3>1, <4>2
        <4>3. CASE q # r
          <5>1. q \in s.hosted /\ s.live
            BY <2>8, <2>9, <4>3
          <5>2. /\ s.end[q] \notin {"cancelled", "slow"}
                /\ s.kind[q] # "none" => s.routeGen[q] = gen /\ ~routeAwaitingResume(s, q)
            BY <2>15, <5>1 DEF UpOK, HostedOK
          <5> QED BY <2>7, <3>1, <4>1, <4>3, <5>2
        <4> QED BY <4>2, <4>3
      <3>3. ServedOK(t)
        <4> SUFFICES ASSUME NEW q \in Reqs, t.kind[q] # "none"
                     PROVE  q \in t.hosted \/ (t.kind[q] = "auto" /\ routeAwaitingResume(t, q))
          BY DEF ServedOK
        <4>1. CASE q = r
          BY <2>8, <2>10, <4>1
        <4>2. CASE q # r
          BY <2>7, <2>8, <2>15, <3>1, <4>2 DEF UpOK, ServedOK
        <4> QED BY <4>1, <4>2
      <3>4. GapOK(t, t.phase)
        BY <2>9, <2>15, <3>1 DEF UpOK, GapOK, routeAwaitingResume
      <3> QED BY <3>2, <3>3, <3>4 DEF UpOK
    <2>16. \A q \in Reqs : s.kind[q] # "none" => t.kind[q] = s.kind[q]
      BY <2>7, <2>10
    <2>17. TypeSent(s, gen) => TypeSent(t, gen)
      BY <2>9 DEF TypeSent, SameType
    <2>18. Ran(s, t, gen)
      BY <2>4, <2>9, <2>14, <2>15, <2>16, <2>17 DEF Ran
    <2> QED BY <2>3, <2>18
  <1> QED BY <1>2, <1>3

\* One setup.
LEMMA SetupRan ==
  ASSUME NEW s \in Turns, BookOK(s, gen), gen \in 0 .. MaxGen, NEW k \in Calls
  PROVE  Ran(s, RunSetup(s, k), gen)
  <1> DEFINE b == s.misrun \/ ~hasReadyTransport(s)
             t == [s EXCEPT !.misrun = b]
  <1>1. b \in BOOLEAN
    BY DEF Turns
  <1> HIDE DEF b
  <1>2. /\ t \in Turns /\ SameTurn(s, t) /\ SameSingle(s, t) /\ SameType(s, t) /\ SameBarrier(s, t)
        /\ SameRoutes(s, t) /\ SameWire(s, t) /\ t.next = s.next
    BY <1>1 DEF Turns, SameTurn, SameSingle, SameType, SameBarrier, SameRoutes, SameWire
  <1>3. RunSetup(s, k) = CASE k \in Kinds -> InstallKeyed(t, k)
                           [] k = "type" -> SetMarketDataType(t)
                           [] k = "single" -> AttemptSingleton(t)
    BY DEF RunSetup, b
  <1> HIDE DEF t
  <1>4. SameBook(s, t) /\ (t.live => s.live)
    BY <1>2 DEF SameBook, SameRoutes, SameBarrier, SameWire
  <1>5. t.dirty <= gen /\ t.mdGen <= gen /\ (t.lateRows => t.dirty = gen /\ t.single = "none")
    BY <1>2 DEF BookOK, SameSingle, SameType
  <1>6. Ran(s, t, gen)
    BY <1>2, <1>4, <1>5, RanAside DEF TypeSent, SameType
  <1>7. BookOK(t, gen)
    BY <1>6 DEF Ran
  <1>8. "type" \notin Kinds /\ "single" \notin Kinds
    BY DEF Kinds
  <1>9. CASE k \in Kinds
    <2>1. RunSetup(s, k) = InstallKeyed(t, k)
      BY <1>3, <1>8, <1>9
    <2>2. Ran(t, InstallKeyed(t, k), gen)
      BY <1>2, <1>7, <1>9, KeyedRan
    <2> QED BY <1>6, <2>1, <2>2, RanTrans
  <1>10. CASE k = "type"
    <2>1. RunSetup(s, k) = SetMarketDataType(t)
      BY <1>3, <1>8, <1>10
    <2>2. Ran(t, SetMarketDataType(t), gen)
      BY <1>2, <1>7, TypeRan
    <2> QED BY <1>6, <2>1, <2>2, RanTrans
  <1>11. CASE k = "single"
    <2>1. RunSetup(s, k) = AttemptSingleton(t)
      BY <1>3, <1>8, <1>11
    <2>2. Ran(t, AttemptSingleton(t), gen)
      BY <1>2, <1>7, SingletonRan
    <2> QED BY <1>6, <2>1, <2>2, RanTrans
  <1> QED BY <1>9, <1>10, <1>11 DEF Calls

\* The loop of flushReadySetups and its invariant.
SetupNext(v, k, s) == RunSetup(v, k)
SetupHolds(v, i, q, s) == Ran(s, v, gen)

Setups == INSTANCE QueueTheorems WITH Op <- SetupNext, Holds <- SetupHolds

\* flushReadySetups.
LEMMA FlushRan ==
  ASSUME NEW s \in Turns, BookOK(s, gen), gen \in 0 .. MaxGen
  PROVE  Ran(s, flushReadySetups(s), gen)
  <1> DEFINE b == [s EXCEPT !.parked = <<>>]
             q == s.parked
  <1>1. <<>> \in Seq(Calls) /\ q \in Seq(Calls)
    BY DEF Turns
  <1>2. /\ b \in Turns /\ SameTurn(s, b) /\ SameSingle(s, b) /\ SameType(s, b) /\ SameBarrier(s, b)
        /\ SameRoutes(s, b) /\ SameWire(s, b) /\ b.next = s.next
    BY <1>1 DEF Turns, SameTurn, SameSingle, SameType, SameBarrier, SameRoutes, SameWire
  <1>3. flushReadySetups(s) = Setups!Folded(b, q, s)
    BY Zenon DEF flushReadySetups, SetupNext, Setups!Folded, FoldLeft, Setups!FoldLeft,
                 MapThenFoldSet, Setups!MapThenFoldSet, Max, Setups!Max
  <1> HIDE DEF b, q
  <1>4. SameBook(s, b) /\ (b.live => s.live)
    BY <1>2 DEF SameBook, SameRoutes, SameBarrier, SameWire
  <1>5. b.dirty <= gen /\ b.mdGen <= gen /\ (b.lateRows => b.dirty = gen /\ b.single = "none")
    BY <1>2 DEF BookOK, SameSingle, SameType
  <1>6. Ran(s, b, gen)
    BY <1>2, <1>4, <1>5, RanAside DEF TypeSent, SameType
  <1>7. SetupHolds(b, 0, q, s)
    BY <1>6 DEF SetupHolds
  <1>8. Setups!Preserved(q, s)
    <2> SUFFICES ASSUME NEW i \in 1 .. Len(q), NEW v, Ran(s, v, gen)
                 PROVE  Ran(s, RunSetup(v, q[i]), gen)
      BY DEF Setups!Preserved, SetupNext, SetupHolds
    <2>1. q[i] \in Calls /\ v \in Turns /\ BookOK(v, gen)
      BY <1>1, ElementOfSeq DEF Ran
    <2>2. Ran(v, RunSetup(v, q[i]), gen)
      BY <2>1, SetupRan
    <2> QED BY <2>2, RanTrans
  <1>9. SetupHolds(Setups!Folded(b, q, s), Len(q), q, s)
    BY <1>1, <1>7, <1>8, Setups!FoldLeftInvariant
  <1> QED BY <1>3, <1>9 DEF SetupHolds

------------------------------------------------------------------------------
(* The resume barrier.                                                     *)

\* Streams came back between s and t.
Resumes(s, t, g) ==
    /\ t \in Turns /\ SameTurn(s, t) /\ SameSingle(s, t) /\ SameType(s, t) /\ SameSetups(s, t)
    /\ \A q \in Reqs : t.kind[q] = s.kind[q] \/ t.kind[q] = "none"
    /\ t.live => s.live
    /\ BookOK(t, g)
    /\ UpOK(s, s.live, s.phase, g) /\ s.phase \in Up => UpOK(t, t.live, t.phase, g)

\* Rounds of the barrier after rounds of the barrier.
LEMMA ResumesTrans ==
  ASSUME NEW s, NEW t, NEW u, NEW g, Resumes(s, t, g), Resumes(t, u, g)
  PROVE  Resumes(s, u, g)
  <1>1. /\ u \in Turns /\ SameTurn(s, u) /\ SameSingle(s, u) /\ SameType(s, u) /\ SameSetups(s, u)
        /\ (u.live => s.live) /\ BookOK(u, g) /\ t.phase = s.phase
    BY DEF Resumes, SameTurn, SameSingle, SameType, SameSetups
  <1>2. ASSUME NEW q \in Reqs PROVE u.kind[q] = s.kind[q] \/ u.kind[q] = "none"
    BY DEF Resumes
  <1>3. UpOK(s, s.live, s.phase, g) /\ s.phase \in Up => UpOK(u, u.live, u.phase, g)
    BY <1>1 DEF Resumes
  <1> QED BY <1>1, <1>2, <1>3 DEF Resumes

\* The first request of the queue leaves it.
Popped(s, t, r) ==
    /\ PendingOK(t)
    /\ \A q \in Reqs : routeAwaitingResume(t, q) <=> routeAwaitingResume(s, q) /\ q # r

\* The request at the head of the queue was handed out.
LEMMA FirstIs ==
  ASSUME NEW s \in Turns, s.pending # <<>>, PendingOK(s)
  PROVE  /\ Tail(s.pending) \in Seq(Reqs) /\ s.pending[1] \in Reqs /\ s.pending[1] <= s.next
         /\ routeAwaitingResume(s, s.pending[1])
  <1>1. s.pending \in Seq(Reqs) /\ Len(s.pending) \in Nat /\ Len(s.pending) # 0
    BY DEF Turns
  <1>2. Tail(s.pending) \in Seq(Reqs) /\ 1 \in DOMAIN s.pending
    BY <1>1
  <1>3. s.pending[1] \in Reqs
    BY <1>1, <1>2, ElementOfSeq
  <1> QED BY <1>2, <1>3 DEF PendingOK, routeAwaitingResume

\* What is left of the queue.
LEMMA PopIs ==
  ASSUME NEW s \in Turns, NEW t, s.pending # <<>>, t.pending = Tail(s.pending), t.next = s.next, PendingOK(s)
  PROVE  Popped(s, t, s.pending[1])
  <1> DEFINE p == s.pending
             p2 == Tail(s.pending)
  <1>1. p \in Seq(Reqs) /\ Len(p) \in Nat /\ Len(p) # 0 /\ DOMAIN p = 1 .. Len(p)
    BY DEF Turns
  <1>2. p2 \in Seq(Reqs) /\ Len(p2) = Len(p) - 1 /\ DOMAIN p2 = 1 .. Len(p) - 1
        /\ \A j \in 1 .. Len(p) - 1 : p2[j] = p[j + 1]
    BY <1>1
  <1>3. 1 \in DOMAIN p /\ p[1] \in Reqs /\ MaxReq \in Nat
    BY <1>1, ElementOfSeq, RoutesAssumption
  <1> HIDE DEF p, p2
  <1>5. \A j \in DOMAIN p2 : j + 1 \in DOMAIN p /\ j + 1 # 1 /\ p2[j] = p[j + 1]
    BY <1>1, <1>2
  <1>6. \A j \in DOMAIN p : j # 1 => j - 1 \in DOMAIN p2 /\ p2[j - 1] = p[j]
    <2> SUFFICES ASSUME NEW j \in DOMAIN p, j # 1 PROVE j - 1 \in DOMAIN p2 /\ p2[j - 1] = p[j]
      OBVIOUS
    <2>1. j - 1 \in 1 .. Len(p) - 1 /\ (j - 1) + 1 = j
      BY <1>1
    <2> QED BY <1>2, <2>1
  <1>7. p = s.pending /\ p2 = t.pending
    BY DEF p, p2
  <1>8. PendingOK(s) /\ \A i, j \in DOMAIN p : p[i] = p[j] => i = j
    BY <1>7 DEF PendingOK
  <1>9. PendingOK(t)
    <2>1. Len(t.pending) <= MaxReq
      BY <1>1, <1>2, <1>3, <1>7 DEF PendingOK
    <2>2. \A i \in DOMAIN p2 : p2[i] <= t.next
      BY <1>5, <1>7 DEF PendingOK
    <2>3. ASSUME NEW i \in DOMAIN p2, NEW j \in DOMAIN p2, p2[i] = p2[j] PROVE i = j
      <3>1. i + 1 = j + 1
        BY <1>5, <1>8, <2>3
      <3>2. i \in Nat /\ j \in Nat
        BY <1>2
      <3> QED BY <3>1, <3>2
    <2> QED BY <1>7, <2>1, <2>2, <2>3 DEF PendingOK
  <1>10. ASSUME NEW q \in Reqs
         PROVE  routeAwaitingResume(t, q) <=> routeAwaitingResume(s, q) /\ q # p[1]
    <2>1. ASSUME NEW j \in DOMAIN p2, p2[j] = q PROVE (\E i \in DOMAIN p : p[i] = q) /\ q # p[1]
      <3>1. j + 1 \in DOMAIN p /\ j + 1 # 1 /\ p[j + 1] = q
        BY <1>5, <2>1
      <3> QED BY <1>3, <1>8, <3>1
    <2>2. ASSUME NEW i \in DOMAIN p, p[i] = q, q # p[1] PROVE \E j \in DOMAIN p2 : p2[j] = q
      <3>1. i # 1
        BY <2>2
      <3> QED BY <1>6, <2>2, <3>1
    <2> QED BY <1>7, <2>1, <2>2 DEF routeAwaitingResume
  <1> QED BY <1>9, <1>10 DEF Popped, p, p2

\* PopPending writes the queue only.
LEMMA PopWrites ==
  ASSUME NEW s \in Turns, Tail(s.pending) \in Seq(Reqs)
  PROVE  LET t == PopPending(s)
         IN  /\ t \in Turns /\ Aside(s, t) /\ SameWire(s, t) /\ SameRoutes(s, t)
             /\ t.pending = Tail(s.pending) /\ t.stuck = s.stuck
  BY DEF PopPending, Turns, Aside, SameTurn, SameSingle, SameType, SameSetups, SameWire, SameRoutes

\* An ended route leaves the queue.
LEMMA PopEnded ==
  ASSUME NEW s \in Turns, BookOK(s, gen), s.pending # <<>>, s.kind[s.pending[1]] = "none", ~s.stuck
  PROVE  Resumes(s, PopPending(s), gen) /\ PopPending(s).pending = Tail(s.pending) /\ ~PopPending(s).stuck
  <1> DEFINE t == PopPending(s)
             r == s.pending[1]
  <1>1. PendingOK(s)
    BY DEF BookOK
  <1>2. Tail(s.pending) \in Seq(Reqs) /\ r \in Reqs
    BY <1>1, FirstIs
  <1>3. t \in Turns /\ Aside(s, t) /\ SameWire(s, t) /\ SameRoutes(s, t) /\ t.pending = Tail(s.pending) /\ t.stuck = s.stuck
    BY <1>2, PopWrites
  <1> HIDE DEF t
  <1>4. t.next = s.next /\ t.phase = s.phase /\ t.live = s.live
    BY <1>3 DEF Aside, SameSetups, SameTurn, SameWire
  <1>5. Popped(s, t, r)
    BY <1>1, <1>3, <1>4, PopIs
  <1> HIDE DEF r
  <1>6. s.kind[r] = "none"
    BY DEF r
  <1>7. BookOK(t, gen)
    BY <1>3, <1>4, <1>5 DEF Popped, BookOK, RouteOK, SameRoutes, Aside, SameSingle, SameType
  <1>8. ASSUME UpOK(s, s.live, s.phase, gen) PROVE UpOK(t, t.live, t.phase, gen)
    <2>1. HostedOK(t, t.live, gen)
      <3>1. \A q \in t.hosted : q \in Reqs /\ q \in s.hosted
        BY <1>3 DEF Turns, SameRoutes
      <3> QED BY <1>3, <1>4, <1>5, <1>8, <3>1 DEF UpOK, HostedOK, Popped, SameRoutes
    <2>2. ServedOK(t)
      BY <1>3, <1>5, <1>6, <1>8 DEF UpOK, ServedOK, Popped, SameRoutes
    <2>3. GapOK(t, t.phase)
      <3>1. \A q \in t.gapped : q \in Reqs /\ q \in s.gapped /\ s.kind[q] = "auto"
        BY <1>3 DEF Turns, SameRoutes, BookOK, RouteOK
      <3> QED BY <1>4, <1>5, <1>6, <1>8, <3>1 DEF UpOK, GapOK, Popped
    <2> QED BY <2>1, <2>2, <2>3 DEF UpOK
  <1>9. \A q \in Reqs : t.kind[q] = s.kind[q]
    BY <1>3 DEF SameRoutes
  <1> QED BY <1>3, <1>4, <1>7, <1>8, <1>9 DEF Resumes, Aside, t

\* A refused send leaves the queue as it is.
LEMMA WaitIs ==
  ASSUME NEW s \in Turns, BookOK(s, gen)
  PROVE  LET t == waitForResumeCapacity(AfterSend(s)) IN Resumes(s, t, gen) /\ t.stuck
  <1> DEFINE u == AfterSend(s)
             w == u.waiting \/ u.live
             t == [u EXCEPT !.stuck = TRUE, !.waiting = w]
  <1>1. /\ u \in Turns /\ SameTurn(s, u) /\ SameSingle(s, u) /\ SameType(s, u) /\ SameSetups(s, u)
        /\ SameBarrier(s, u) /\ SameRoutes(s, u) /\ (u.live => s.live)
    BY SendIs
  <1> HIDE DEF u
  <1>2. w \in BOOLEAN
    BY <1>1 DEF Turns
  <1>3. waitForResumeCapacity(u) = t
    BY DEF waitForResumeCapacity
  <1> HIDE DEF w
  <1>4. /\ t \in Turns /\ Aside(u, t) /\ SameWire(u, t) /\ SameRoutes(u, t) /\ t.stuck = TRUE /\ t.pending = u.pending
    BY <1>1, <1>2 DEF Turns, Aside, SameTurn, SameSingle, SameType, SameSetups, SameWire, SameRoutes
  <1> HIDE DEF t
  <1>5. /\ SameTurn(s, t) /\ SameSingle(s, t) /\ SameType(s, t) /\ SameSetups(s, t) /\ SameBook(s, t) /\ (t.live => s.live)
    BY <1>1, <1>4 DEF Aside, SameTurn, SameSingle, SameType, SameSetups, SameWire, SameRoutes, SameBarrier, SameBook
  <1>6. t.dirty <= gen /\ t.mdGen <= gen /\ (t.lateRows => t.dirty = gen /\ t.single = "none")
    BY <1>5 DEF BookOK, SameSingle, SameType
  <1>7. BookOK(t, gen)
    BY <1>5, <1>6, SameBookOK
  <1>8. ASSUME UpOK(s, s.live, s.phase, gen) PROVE UpOK(t, t.live, t.phase, gen)
    <2>1. t.phase = s.phase
      BY <1>5 DEF SameTurn
    <2> QED BY <1>5, <1>8, <2>1, SameBookUp
  <1>9. t.kind = s.kind
    BY <1>5 DEF SameBook
  <1>10. Resumes(s, t, gen)
    BY <1>4, <1>5, <1>7, <1>8, <1>9 DEF Resumes
  <1> QED BY <1>3, <1>4, <1>10 DEF u

\* The request of r was admitted and the route is back on this connection.
Back(s, r) ==
    LET sent == [AfterSend(s) EXCEPT !.hosted = @ \cup {r}]
    IN  [PopPending(sent) EXCEPT !.routeGen[r] = gen, !.fuel = @ - 1]

\* What bringing a route back writes.
LEMMA BackIs ==
  ASSUME NEW s \in Turns, BookOK(s, gen), gen \in 0 .. MaxGen, s.pending # <<>>, Admits(s), s.fuel - 1 # 0
  PROVE  LET t == Back(s, s.pending[1])
         IN  /\ t \in Turns /\ Aside(s, t) /\ t.stuck = s.stuck /\ t.pending = Tail(s.pending)
             /\ (t.live => s.live)
             /\ t.kind = s.kind /\ t.routeGen = [s.routeGen EXCEPT ![s.pending[1]] = gen]
             /\ t.gapped = s.gapped /\ t.hosted = s.hosted \cup {s.pending[1]}
             /\ t.end = s.end /\ t.depth = s.depth
  <1> DEFINE r == s.pending[1]
             u == AfterSend(s)
             h == u.hosted \cup {r}
             b == [u EXCEPT !.hosted = h]
             p == PopPending(b)
             G == [p.routeGen EXCEPT ![r] = gen]
             f == p.fuel - 1
             t == [p EXCEPT !.routeGen = G, !.fuel = f]
  <1>1. /\ u \in Turns /\ Aside(s, u) /\ SameBarrier(s, u) /\ SameRoutes(s, u) /\ (u.live => s.live)
        /\ u.fuel = s.fuel - 1
    BY SendIs DEF Aside
  <1> HIDE DEF u
  <1>2. Tail(s.pending) \in Seq(Reqs) /\ r \in Reqs
    BY FirstIs DEF BookOK
  <1>3. h \in SUBSET Reqs /\ h = s.hosted \cup {r}
    BY <1>1, <1>2 DEF Turns, SameRoutes
  <1>4. h \in SUBSET Reqs
    BY <1>3
  <1> HIDE DEF r, h
  <1>5. /\ b \in Turns /\ Aside(u, b) /\ SameBarrier(u, b) /\ SameWire(u, b) /\ b.hosted = h
        /\ b.kind = u.kind /\ b.routeGen = u.routeGen /\ b.gapped = u.gapped
        /\ b.end = u.end /\ b.last = u.last /\ b.depth = u.depth
    BY <1>1, <1>4, UnhostIs
  <1> HIDE DEF b
  <1>6. b.pending = s.pending
    BY <1>1, <1>5 DEF SameBarrier
  <1>7. /\ p \in Turns /\ Aside(b, p) /\ SameWire(b, p) /\ SameRoutes(b, p)
        /\ p.pending = Tail(b.pending) /\ p.stuck = b.stuck
    BY <1>2, <1>5, <1>6, PopWrites
  <1> HIDE DEF p
  <1>8. p.fuel = s.fuel - 1
    BY <1>1, <1>5, <1>7 DEF SameWire
  <1>a. s.fuel \in Nat /\ s.fuel > 0
    BY DEF Turns, Admits
  <1>9. f \in Nat
    BY <1>8, <1>a
  <1>10. G \in [Reqs -> 0 .. MaxGen]
    BY <1>7 DEF Turns
  <1>11. p.routeGen = s.routeGen
    BY <1>1, <1>5, <1>7 DEF SameRoutes
  <1>12. G = [s.routeGen EXCEPT ![r] = gen]
    BY <1>11
  <1> HIDE DEF G, f
  <1>13. /\ t \in Turns /\ Aside(p, t) /\ SameBarrier(p, t) /\ t.live = p.live /\ t.routeGen = G
         /\ t.kind = p.kind /\ t.gapped = p.gapped /\ t.hosted = p.hosted /\ t.end = p.end /\ t.depth = p.depth
    BY <1>7, <1>9, <1>10 DEF Turns, Aside, SameTurn, SameSingle, SameType, SameSetups, SameBarrier
  <1>14. Back(s, r) = t
    BY DEF Back, t, G, f, p, b, h, u
  <1> HIDE DEF t
  <1>15. Aside(s, t)
    BY <1>1, <1>5, <1>7, <1>13 DEF Aside, SameTurn, SameSingle, SameType, SameSetups
  <1>16. /\ t.stuck = s.stuck /\ t.pending = Tail(s.pending) /\ (t.live => s.live)
         /\ t.kind = s.kind /\ t.gapped = s.gapped /\ t.hosted = h /\ t.end = s.end /\ t.depth = s.depth
    BY <1>1, <1>5, <1>6, <1>7, <1>13 DEF SameBarrier, SameWire, SameRoutes
  <1>17. LET t2 == Back(s, r)
         IN  /\ t2 \in Turns /\ Aside(s, t2) /\ t2.stuck = s.stuck /\ t2.pending = Tail(s.pending)
             /\ (t2.live => s.live)
             /\ t2.kind = s.kind /\ t2.routeGen = [s.routeGen EXCEPT ![r] = gen]
             /\ t2.gapped = s.gapped /\ t2.hosted = s.hosted \cup {r}
             /\ t2.end = s.end /\ t2.depth = s.depth
    BY <1>3, <1>12, <1>13, <1>14, <1>15, <1>16
  <1> QED BY <1>17 DEF r

\* Clearing the mark of a stream that is back, with Resubscribed when it was gapped.
Resubscribed(s, r) ==
    [(IF r \in s.gapped THEN emitState(s, r, "Resubscribed") ELSE s) EXCEPT !.gapped = @ \ {r}]

\* A stream that is back is told of the end of its gap, or ends if its consumer has no
\* room.
LEMMA ResubscribedTold ==
  ASSUME NEW s \in Turns, NEW r \in Reqs, BookOK(s, gen), s.kind[r] # "none"
  PROVE  LET t == Resubscribed(s, r)
         IN  Told(s, t, gen) /\ Only(s, t, r) /\ r \notin t.gapped /\ t.stuck = s.stuck
  <1> DEFINE e == emitState(s, r, "Resubscribed")
             d == IF r \in s.gapped THEN e ELSE s
             G == d.gapped \ {r}
             t == [d EXCEPT !.gapped = G]
  <1>1. CASE r \in s.gapped /\ r \in s.slow
    <2>1. e = actorCancel(s, r, "slow") /\ d = e
      BY <1>1 DEF emitState
    <2>2. "slow" \in {"cancelled", "slow"}
      OBVIOUS
    <2>3. Ended(s, e, r) /\ (HostedOK(s, s.live, gen) /\ s.phase \in Up => Released(e, r))
      BY <2>1, <2>2, CancelEnds
    <2> HIDE DEF e
    <2>4. Told(s, e, gen) /\ Only(s, e, r)
      BY <2>3, EndedTold
    <2>5. e \in Turns /\ e.gapped = s.gapped \ {r} /\ G = e.gapped /\ r \notin G /\ e.stuck = s.stuck
      BY <2>1, <2>3 DEF Ended, SameBarrier
    <2>6. t = e
      <3>1. e = [e EXCEPT !.gapped = e.gapped]
        BY <2>5 DEF Turns
      <3> QED BY <2>1, <2>5, <3>1
    <2>7. Resubscribed(s, r) = e
      BY <2>6 DEF Resubscribed, e
    <2> HIDE DEF G
    <2> QED BY <2>4, <2>5, <2>7
  <1>2. CASE ~(r \in s.gapped /\ r \in s.slow)
    <2>1. /\ d \in Turns /\ Aside(s, d) /\ SameBarrier(s, d) /\ SameWire(s, d)
          /\ d.kind = s.kind /\ d.routeGen = s.routeGen /\ d.gapped = s.gapped /\ d.hosted = s.hosted
          /\ d.end = s.end
          /\ d.depth[r] = IF r \in s.gapped THEN s.depth[r] - 1 ELSE s.depth[r]
          /\ \A q \in Reqs : q # r => d.depth[q] = s.depth[q]
      <3>1. CASE r \in s.gapped
        <4>1. r \notin s.slow /\ d = e
          BY <1>2, <3>1
        <4>2. "Resubscribed" \in {"Gap", "Restored", "Resubscribed"}
          OBVIOUS
        <4>3. /\ e \in Turns /\ Aside(s, e) /\ SameBarrier(s, e) /\ SameWire(s, e)
              /\ e.kind = s.kind /\ e.routeGen = s.routeGen /\ e.gapped = s.gapped /\ e.hosted = s.hosted
              /\ e.end = s.end
              /\ e.depth[r] = s.depth[r] - 1
              /\ \A q \in Reqs : q # r => e.depth[q] = s.depth[q]
          BY <4>1, <4>2, EmitIs
        <4> HIDE DEF e
        <4> QED BY <3>1, <4>1, <4>3
      <3>2. CASE r \notin s.gapped
        BY <3>2 DEF Aside, SameTurn, SameSingle, SameType, SameSetups, SameBarrier, SameWire
      <3> QED BY <3>1, <3>2
    <2>2. G \in SUBSET Reqs /\ G = s.gapped \ {r}
      BY <2>1 DEF Turns
    <2>3. Resubscribed(s, r) = t
      BY DEF Resubscribed
    <2> HIDE DEF d, G
    <2>4. /\ t \in Turns /\ Aside(d, t) /\ SameBarrier(d, t) /\ SameWire(d, t) /\ t.gapped = G
          /\ t.kind = d.kind /\ t.routeGen = d.routeGen /\ t.hosted = d.hosted
          /\ t.end = d.end /\ t.last = d.last /\ t.depth = d.depth
      BY <2>1, <2>2, MarkIs
    <2> HIDE DEF t
    <2>5. Aside(s, t) /\ SameBarrier(s, t) /\ SameWire(s, t)
      BY <2>1, <2>4 DEF Aside, SameTurn, SameSingle, SameType, SameSetups, SameBarrier, SameWire
    <2>6. /\ t.next = s.next /\ t.pending = s.pending /\ t.dirty = s.dirty /\ t.mdGen = s.mdGen
          /\ t.lateRows = s.lateRows /\ t.single = s.single /\ t.live = s.live /\ t.stuck = s.stuck /\ t.room = s.room
      BY <2>5 DEF Aside, SameTurn, SameSingle, SameType, SameSetups, SameBarrier, SameWire
    <2>7. s.depth[r] \in Int
      BY DEF Turns
    <2>8. ASSUME NEW q \in Reqs PROVE RouteOK(t, q)
      <3>1. RouteOK(s, q)
        BY DEF BookOK
      <3>2. CASE q = r
        BY <2>1, <2>2, <2>4, <2>6, <2>7, <3>1, <3>2 DEF RouteOK
      <3>3. CASE q # r
        BY <2>1, <2>2, <2>4, <2>6, <3>1, <3>3 DEF RouteOK
      <3> QED BY <3>2, <3>3
    <2>9. BookOK(t, gen)
      BY <2>6, <2>8 DEF BookOK, PendingOK
    <2>10. HostedOK(s, s.live, gen) => HostedOK(t, t.live, gen)
      BY <2>1, <2>4, <2>6 DEF HostedOK, routeAwaitingResume
    <2>11. Told(s, t, gen)
      BY <2>1, <2>4, <2>5, <2>6, <2>9, <2>10 DEF Told
    <2>12. Only(s, t, r) /\ r \notin t.gapped
      BY <2>1, <2>2, <2>4 DEF Only
    <2> QED BY <2>3, <2>6, <2>11, <2>12
  <1> QED BY <1>1, <1>2

\* A stream that is back is served by this connection and told of the end of its gap.
LEMMA BackResumes ==
  ASSUME NEW s \in Turns, BookOK(s, gen), gen \in 0 .. MaxGen, s.pending # <<>>, Admits(s), s.fuel - 1 # 0,
         s.kind[s.pending[1]] # "none"
  PROVE  LET t == Resubscribed(Back(s, s.pending[1]), s.pending[1])
         IN  Resumes(s, t, gen) /\ t.pending = Tail(s.pending) /\ t.stuck = s.stuck
  <1> DEFINE r == s.pending[1]
             b == Back(s, r)
             t == Resubscribed(b, r)
  <1>1. /\ b \in Turns /\ Aside(s, b) /\ b.stuck = s.stuck /\ b.pending = Tail(s.pending)
        /\ (b.live => s.live)
        /\ b.kind = s.kind /\ b.routeGen = [s.routeGen EXCEPT ![r] = gen]
        /\ b.gapped = s.gapped /\ b.hosted = s.hosted \cup {r}
        /\ b.end = s.end /\ b.depth = s.depth
    BY BackIs
  <1> HIDE DEF b
  <1>2. PendingOK(s) /\ r \in Reqs /\ r <= s.next
    BY FirstIs DEF BookOK
  <1>3. b.next = s.next /\ b.phase = s.phase
    BY <1>1 DEF Aside, SameSetups, SameTurn
  <1>4. Popped(s, b, r)
    BY <1>1, <1>2, <1>3, PopIs
  <1>5. s.kind[r] # "none"
    OBVIOUS
  <1> HIDE DEF r
  <1>6. b.routeGen[r] = gen /\ \A q \in Reqs : q # r => b.routeGen[q] = s.routeGen[q]
    BY <1>1, <1>2 DEF Turns
  <1>7. BookOK(b, gen)
    <2>1. ASSUME NEW q \in Reqs PROVE RouteOK(b, q)
      <3>1. RouteOK(s, q)
        BY DEF BookOK
      <3>2. q > s.next => q # r
        BY <1>2 DEF Turns, Reqs
      <3> QED BY <1>1, <1>3, <3>1, <3>2 DEF RouteOK
    <2>2. b.dirty = s.dirty /\ b.mdGen = s.mdGen /\ b.lateRows = s.lateRows /\ b.single = s.single
      BY <1>1 DEF Aside, SameSingle, SameType
    <2> QED BY <1>4, <2>1, <2>2 DEF BookOK, Popped
  <1>8. Told(b, t, gen) /\ Only(b, t, r) /\ r \notin t.gapped /\ t.stuck = b.stuck
    BY <1>1, <1>2, <1>5, <1>7, ResubscribedTold
  <1> HIDE DEF t
  <1>9. /\ t \in Turns /\ SameTurn(s, t) /\ SameSingle(s, t) /\ SameType(s, t) /\ SameSetups(s, t) /\ (t.live => s.live)
        /\ t.pending = Tail(s.pending) /\ BookOK(t, gen) /\ t.phase = s.phase /\ t.pending = b.pending
    BY <1>1, <1>8 DEF Told, Aside, SameTurn, SameSingle, SameType, SameSetups, SameBarrier
  <1>10. \A q \in Reqs : t.kind[q] = s.kind[q] \/ t.kind[q] = "none"
    BY <1>1, <1>8 DEF Told
  <1>11. ASSUME UpOK(s, s.live, s.phase, gen), s.phase \in Up PROVE UpOK(t, t.live, t.phase, gen)
    <2>1. HostedOK(b, b.live, gen)
      <3> SUFFICES ASSUME b.live, NEW q \in b.hosted
                   PROVE  /\ b.end[q] \notin {"cancelled", "slow"}
                          /\ b.kind[q] # "none" => b.routeGen[q] = gen /\ ~routeAwaitingResume(b, q)
        BY DEF HostedOK
      <3>1. CASE q = r
        <4>1. s.end[r] = "none"
          BY <1>2, <1>5 DEF BookOK, RouteOK
        <4> QED BY <1>1, <1>2, <1>4, <1>6, <3>1, <4>1 DEF Popped
      <3>2. CASE q # r
        <4>1. q \in s.hosted /\ q \in Reqs /\ s.live
          BY <1>1, <3>2 DEF Turns
        <4> QED BY <1>1, <1>4, <1>6, <1>11, <3>2, <4>1 DEF Popped, UpOK, HostedOK
      <3> QED BY <3>1, <3>2
    <2>2. HostedOK(t, t.live, gen)
      BY <1>3, <1>8, <1>11, <2>1 DEF Told
    <2>3. ServedOK(t)
      <3> SUFFICES ASSUME NEW q \in Reqs, t.kind[q] # "none"
                   PROVE  q \in t.hosted \/ (t.kind[q] = "auto" /\ routeAwaitingResume(t, q))
        BY DEF ServedOK
      <3>1. t.kind[q] = b.kind[q] /\ (q \in b.hosted => q \in t.hosted)
        BY <1>8 DEF Told
      <3>2. q \in b.hosted \/ (b.kind[q] = "auto" /\ routeAwaitingResume(b, q))
        BY <1>1, <1>4, <1>11, <3>1 DEF UpOK, ServedOK, Popped
      <3> QED BY <1>9, <3>1, <3>2 DEF routeAwaitingResume
    <2>4. GapOK(t, t.phase)
      <3> SUFFICES ASSUME t.phase = "Ready", NEW q \in t.gapped PROVE routeAwaitingResume(t, q)
        BY DEF GapOK
      <3>1. q \in Reqs /\ q # r
        BY <1>8, <1>9 DEF Turns
      <3>2. q \in s.gapped
        BY <1>1, <1>8, <3>1 DEF Only
      <3>3. routeAwaitingResume(b, q)
        BY <1>4, <1>9, <1>11, <3>1, <3>2 DEF UpOK, GapOK, Popped
      <3> QED BY <1>9, <3>3 DEF routeAwaitingResume
    <2> QED BY <2>2, <2>3, <2>4 DEF UpOK
  <1>12. Resumes(s, t, gen) /\ t.pending = Tail(s.pending) /\ t.stuck = s.stuck
    BY <1>1, <1>8, <1>9, <1>10, <1>11 DEF Resumes
  <1> QED BY <1>12 DEF t, b, r

\* The socket died under the turn: the request stays in the queue.
Died(s, r) ==
    LET sent == [AfterSend(s) EXCEPT !.hosted = @ \cup {r}]
    IN  [sent EXCEPT !.stuck = TRUE, !.live = FALSE]

\* A socket that dies under the turn leaves the book sound.
LEMMA DiedResumes ==
  ASSUME NEW s \in Turns, BookOK(s, gen), NEW r \in Reqs, r <= s.next
  PROVE  Resumes(s, Died(s, r), gen) /\ Died(s, r).stuck
  <1> DEFINE u == AfterSend(s)
             h == u.hosted \cup {r}
             b == [u EXCEPT !.hosted = h]
             t == [b EXCEPT !.stuck = TRUE, !.live = FALSE]
  <1>1. /\ u \in Turns /\ Aside(s, u) /\ SameBarrier(s, u) /\ SameRoutes(s, u)
    BY SendIs DEF Aside
  <1> HIDE DEF u
  <1>2. h \in SUBSET Reqs /\ h = s.hosted \cup {r}
    BY <1>1 DEF Turns, SameRoutes
  <1>3. h \in SUBSET Reqs
    BY <1>2
  <1> HIDE DEF h
  <1>4. /\ b \in Turns /\ Aside(u, b) /\ SameBarrier(u, b) /\ SameWire(u, b) /\ b.hosted = h
        /\ b.kind = u.kind /\ b.routeGen = u.routeGen /\ b.gapped = u.gapped
        /\ b.end = u.end /\ b.last = u.last /\ b.depth = u.depth
    BY <1>1, <1>3, UnhostIs
  <1> HIDE DEF b
  <1>5. /\ t \in Turns /\ Aside(b, t) /\ SameRoutes(b, t) /\ t.pending = b.pending /\ t.stuck = TRUE /\ t.live = FALSE
    BY <1>4 DEF Turns, Aside, SameTurn, SameSingle, SameType, SameSetups, SameRoutes
  <1>6. Died(s, r) = t
    BY DEF Died, t, b, h, u
  <1> HIDE DEF t
  <1>7. Aside(s, t)
    BY <1>1, <1>4, <1>5 DEF Aside, SameTurn, SameSingle, SameType, SameSetups
  <1>8. /\ t.pending = s.pending /\ t.kind = s.kind /\ t.gapped = s.gapped
        /\ t.hosted = s.hosted \cup {r} /\ t.end = s.end /\ t.depth = s.depth
    BY <1>1, <1>2, <1>4, <1>5 DEF SameBarrier, SameRoutes
  <1>9. /\ t.next = s.next /\ t.phase = s.phase /\ t.dirty = s.dirty /\ t.mdGen = s.mdGen
        /\ t.lateRows = s.lateRows /\ t.single = s.single
    BY <1>7 DEF Aside, SameTurn, SameSingle, SameType, SameSetups
  <1>10. ASSUME NEW q \in Reqs PROVE RouteOK(t, q)
    <2>1. RouteOK(s, q)
      BY DEF BookOK
    <2>2. q > s.next => q # r
      BY DEF Turns, Reqs
    <2> QED BY <1>8, <1>9, <2>1, <2>2 DEF RouteOK
  <1>11. BookOK(t, gen)
    BY <1>8, <1>9, <1>10 DEF BookOK, PendingOK
  <1>12. UpOK(s, s.live, s.phase, gen) => UpOK(t, t.live, t.phase, gen)
    BY <1>5, <1>8, <1>9 DEF UpOK, HostedOK, ServedOK, GapOK, routeAwaitingResume
  <1> QED BY <1>5, <1>6, <1>7, <1>8, <1>11, <1>12 DEF Resumes, Aside

\* One round of the loop: the first request of the queue leaves it, or the turn ends.
LEMMA ResumeOneIs ==
  ASSUME NEW s \in Turns, BookOK(s, gen), gen \in 0 .. MaxGen, s.pending # <<>>, ~s.stuck
  PROVE  LET t == ResumeOne(s, s.pending[1])
         IN  Resumes(s, t, gen) /\ (~t.stuck => t.pending = Tail(s.pending))
  <1> DEFINE r == s.pending[1]
             t == ResumeOne(s, r)
             sent == [AfterSend(s) EXCEPT !.hosted = @ \cup {r}]
  <1>1. PendingOK(s) /\ r \in Reqs /\ r <= s.next
    BY FirstIs DEF BookOK
  <1>2. CASE s.kind[r] = "none"
    <2>1. t = PopPending(s)
      BY <1>2 DEF ResumeOne
    <2>2. Resumes(s, PopPending(s), gen) /\ PopPending(s).pending = Tail(s.pending)
      BY <1>2, PopEnded
    <2> HIDE DEF t
    <2>3. Resumes(s, t, gen) /\ (~t.stuck => t.pending = Tail(s.pending))
      BY <2>1, <2>2
    <2> QED BY <2>3 DEF t
  <1>3. CASE s.kind[r] # "none" /\ r \in s.bad
    <2> DEFINE e == EndRoute(s, r, "invalid")
    <2>1. t = PopPending(e)
      BY <1>3 DEF ResumeOne
    <2>2. "invalid" \in Ends /\ "invalid" \notin {"cancelled", "slow"}
      BY DEF Ends
    <2>3. Ended(s, e, r) /\ e.end[r] = "invalid" /\ e.hosted = s.hosted
      BY <1>1, <2>2, EndEnds
    <2> HIDE DEF e, t
    <2>4. Released(e, r)
      BY <2>2, <2>3 DEF Released
    <2>5. Told(s, e, gen) /\ Only(s, e, r) /\ e.kind[r] = "none"
      BY <1>1, <1>3, <2>3, <2>4, EndedTold
    <2>6. /\ e \in Turns /\ Aside(s, e) /\ BookOK(e, gen) /\ e.pending = s.pending /\ ~e.stuck /\ e.phase = s.phase
          /\ (e.live => s.live)
      BY <2>5 DEF Told, SameBarrier, Aside, SameTurn
    <2>7. UpOK(s, s.live, s.phase, gen) /\ s.phase \in Up => UpOK(e, e.live, e.phase, gen)
      <3>1. HostedOK(s, s.live, gen) /\ s.phase \in Up => HostedOK(e, e.live, gen)
        BY <2>5 DEF Told
      <3>2. ServedOK(s) => ServedOK(e)
        BY <2>3, <2>5, <2>6 DEF ServedOK, Told, routeAwaitingResume
      <3>3. e.gapped \subseteq s.gapped
        BY <2>3 DEF Ended
      <3>4. GapOK(s, s.phase) => GapOK(e, e.phase)
        BY <2>6, <3>3 DEF GapOK, routeAwaitingResume
      <3> QED BY <3>1, <3>2, <3>4 DEF UpOK
    <2>8. Resumes(s, e, gen)
      BY <2>5, <2>6, <2>7 DEF Resumes, Told, Aside
    <2>9. e.kind[e.pending[1]] = "none" /\ e.pending # <<>>
      BY <2>5, <2>6
    <2>10. Resumes(e, t, gen) /\ t.pending = Tail(s.pending)
      BY <2>1, <2>6, <2>9, PopEnded
    <2>11. Resumes(s, t, gen) /\ (~t.stuck => t.pending = Tail(s.pending))
      BY <2>8, <2>10, ResumesTrans
    <2> QED BY <2>11 DEF t
  <1>4. CASE s.kind[r] # "none" /\ r \notin s.bad /\ ~Admits(s)
    <2>1. t = waitForResumeCapacity(AfterSend(s))
      BY <1>4 DEF ResumeOne
    <2> HIDE DEF t
    <2>2. Resumes(s, t, gen) /\ t.stuck
      BY <2>1, WaitIs
    <2> QED BY <2>2 DEF t
  <1>5. ASSUME Admits(s) PROVE sent.fuel = s.fuel - 1
    <2>1. AfterSend(s) \in Turns /\ AfterSend(s).fuel = s.fuel - 1
      BY <1>5, SendIs
    <2> QED BY <2>1 DEF Turns
  <1>6. CASE s.kind[r] # "none" /\ r \notin s.bad /\ Admits(s) /\ s.fuel - 1 = 0
    <2>1. t = Died(s, r)
      BY <1>5, <1>6 DEF ResumeOne, Died
    <2> HIDE DEF t
    <2>2. Resumes(s, t, gen) /\ t.stuck
      BY <1>1, <2>1, DiedResumes
    <2> QED BY <2>2 DEF t
  <1>7. CASE s.kind[r] # "none" /\ r \notin s.bad /\ Admits(s) /\ s.fuel - 1 # 0
    <2> DEFINE b == Back(s, r)
    <2>1. b.gapped = s.gapped
      BY <1>7, BackIs
    <2>2. t = [(IF r \in s.gapped THEN emitState(b, r, "Resubscribed") ELSE b) EXCEPT !.gapped = @ \ {r}]
      BY <1>5, <1>7 DEF ResumeOne, Back
    <2> HIDE DEF b, t
    <2>3. t = Resubscribed(b, r)
      BY <2>1, <2>2 DEF Resubscribed
    <2>4. Resumes(s, t, gen) /\ t.pending = Tail(s.pending)
      BY <1>7, <2>3, BackResumes DEF b
    <2> QED BY <2>4 DEF t
  <1> QED BY <1>2, <1>3, <1>4, <1>6, <1>7

\* What a run of the resume barrier does to the book: unless the barrier is complete,
\* no route is opened.
Continued(s, t, g) ==
    /\ t \in Turns /\ SameTurn(s, t) /\ (t.live => s.live) /\ BookOK(t, g)
    /\ UpOK(s, s.live, s.phase, g) /\ s.phase \in Up => UpOK(t, t.live, t.phase, g)
    /\ \/ \A q \in Reqs : t.kind[q] # "none" => s.kind[q] # "none"
       \/ t.pending = <<>> /\ TypeSent(t, g)

\* The market-data selection is sent first.
LEMMA SelectionIs ==
  ASSUME NEW s \in Turns, BookOK(s, gen), gen \in 0 .. MaxGen, ~s.stuck
  PROVE  LET t == ResumeSelection(s)
         IN  /\ t \in Turns /\ SameTurn(s, t) /\ SameBook(s, t) /\ (t.live => s.live) /\ BookOK(t, gen)
             /\ ~t.stuck => TypeSent(t, gen)
  <1> DEFINE u == AfterSend(s)
             w == waitForResumeCapacity(u)
             v == [u EXCEPT !.mdGen = gen]
  <1>1. /\ u \in Turns /\ SameTurn(s, u) /\ SameSingle(s, u) /\ SameType(s, u) /\ SameSetups(s, u)
        /\ SameBarrier(s, u) /\ SameRoutes(s, u) /\ (u.live => s.live)
    BY SendIs
  <1>2. ResumeSelection(s) = IF ~marketDataTypePending(s) THEN s ELSE IF Admits(s) THEN v ELSE w
    BY DEF ResumeSelection
  <1>3. CASE ~marketDataTypePending(s)
    BY <1>2, <1>3 DEF marketDataTypePending, SameTurn, SameBook, TypeSent
  <1>4. CASE marketDataTypePending(s) /\ Admits(s)
    <2>1. gen \in Nat
      BY RoutesAssumption
    <2> HIDE DEF u
    <2>2. /\ v \in Turns /\ SameTurn(u, v) /\ SameSingle(u, v) /\ SameSetups(u, v)
          /\ SameBarrier(u, v) /\ SameRoutes(u, v) /\ SameWire(u, v) /\ v.mdGen = gen
      BY <1>1, <2>1 DEF Turns, SameTurn, SameSingle, SameSetups, SameBarrier, SameRoutes, SameWire
    <2> HIDE DEF v
    <2>3. SameTurn(s, v) /\ SameBook(s, v) /\ (v.live => s.live)
          /\ v.dirty = s.dirty /\ v.lateRows = s.lateRows /\ v.single = s.single
      BY <1>1, <2>2 DEF SameTurn, SameSingle, SameSetups, SameBarrier, SameRoutes, SameWire, SameBook
    <2>4. s.dirty <= gen /\ (s.lateRows => s.dirty = gen /\ s.single = "none")
      BY DEF BookOK
    <2>5. BookOK(v, gen)
      BY <2>1, <2>2, <2>3, <2>4, SameBookOK
    <2> QED BY <1>2, <1>4, <2>2, <2>3, <2>5 DEF TypeSent
  <1>5. CASE marketDataTypePending(s) /\ ~Admits(s)
    <2>1. Resumes(s, w, gen) /\ w.stuck
      BY WaitIs
    <2>2. w = [u EXCEPT !.stuck = TRUE, !.waiting = u.waiting \/ u.live]
      BY DEF waitForResumeCapacity
    <2> HIDE DEF u
    <2>3. SameRoutes(u, w) /\ w.pending = u.pending
      BY <1>1, <2>2 DEF Turns, SameRoutes
    <2> HIDE DEF w
    <2>4. SameBook(s, w)
      BY <1>1, <2>1, <2>3 DEF SameBook, SameRoutes, SameBarrier, Resumes, SameSetups
    <2> QED BY <1>2, <1>5, <2>1, <2>4 DEF Resumes
  <1> QED BY <1>3, <1>4, <1>5

\* The loop of continueResumeRoutes: the queue is what was not handled yet.
ResumeNext(v, r, s) == ResumeOne(v, r)
ResumeHolds(v, i, q, s) ==
    /\ s.stuck => v.stuck
    /\ Resumes(s, v, gen)
    /\ ~v.stuck => /\ Len(v.pending) = Len(q) - i
                   /\ \A j \in 1 .. Len(q) - i : v.pending[j] = q[i + j]

ResumeLoop == INSTANCE QueueTheorems WITH Op <- ResumeNext, Holds <- ResumeHolds

\* A round of the loop keeps its invariant.
LEMMA ResumeRound ==
  ASSUME NEW s, NEW v, NEW q \in Seq(Reqs), NEW i \in 1 .. Len(q), gen \in 0 .. MaxGen,
         ResumeHolds(v, i - 1, q, s)
  PROVE  ResumeHolds(ResumeOne(v, q[i]), i, q, s)
  <1>1. v \in Turns /\ BookOK(v, gen) /\ Resumes(s, v, gen)
    BY DEF ResumeHolds, Resumes
  <1>2. CASE v.stuck
    <2>1. ResumeOne(v, q[i]) = v
      BY <1>2 DEF ResumeOne
    <2> QED BY <1>1, <1>2, <2>1 DEF ResumeHolds
  <1>3. CASE ~v.stuck
    <2> DEFINE p == v.pending
               t == ResumeOne(v, p[1])
    <2>0. i \in Nat /\ Len(q) \in Nat /\ i >= 1 /\ i <= Len(q)
      OBVIOUS
    <2>1. p \in Seq(Reqs) /\ Len(p) = Len(q) - (i - 1) /\ \A j \in 1 .. Len(q) - (i - 1) : p[j] = q[(i - 1) + j]
      BY <1>1, <1>3 DEF ResumeHolds, Turns
    <2>2. 1 \in 1 .. Len(q) - (i - 1) /\ (i - 1) + 1 = i
      BY <2>0
    <2>3. p[1] = q[i]
      BY <2>1, <2>2
    <2>4. p # <<>>
      BY <2>0, <2>1
    <2>5. Resumes(v, t, gen) /\ (~t.stuck => t.pending = Tail(p))
      BY <1>1, <1>3, <2>4, ResumeOneIs
    <2>6. Len(Tail(p)) = Len(q) - i /\ \A j \in 1 .. Len(q) - i : Tail(p)[j] = p[j + 1]
      BY <2>0, <2>1, <2>4
    <2>7. ASSUME NEW j \in 1 .. Len(q) - i PROVE Tail(p)[j] = q[i + j]
      <3>1. j + 1 \in 1 .. Len(q) - (i - 1) /\ (i - 1) + (j + 1) = i + j
        BY <2>0
      <3>2. p[j + 1] = q[(i - 1) + (j + 1)]
        BY <2>1, <3>1
      <3> QED BY <2>6, <3>1, <3>2
    <2> HIDE DEF t, p
    <2>8. Resumes(s, t, gen)
      BY <1>1, <2>5, ResumesTrans
    <2>9. ResumeHolds(t, i, q, s)
      BY <1>3, <2>5, <2>6, <2>7, <2>8 DEF ResumeHolds
    <2> QED BY <2>3, <2>9 DEF t
  <1> QED BY <1>2, <1>3

\* continueResumeRoutes.
LEMMA ContinueIs ==
  ASSUME NEW s \in Turns, BookOK(s, gen), gen \in 0 .. MaxGen, ~s.stuck
  PROVE  Continued(s, continueResumeRoutes(s), gen)
  <1> DEFINE c == ResumeSelection(s)
             q == s.pending
             t == FoldLeft(ResumeOne, c, q)
             f == flushReadySetups(t)
  <1>1. /\ c \in Turns /\ SameTurn(s, c) /\ SameBook(s, c) /\ (c.live => s.live) /\ BookOK(c, gen)
        /\ ~c.stuck => TypeSent(c, gen)
    BY SelectionIs
  <1>2. continueResumeRoutes(s) = IF t.stuck THEN t ELSE f
    BY DEF continueResumeRoutes
  <1>3. t = ResumeLoop!Folded(c, q, c)
    BY Zenon DEF ResumeNext, ResumeLoop!Folded, FoldLeft, ResumeLoop!FoldLeft,
                 MapThenFoldSet, ResumeLoop!MapThenFoldSet, Max, ResumeLoop!Max
  <1>4. q \in Seq(Reqs) /\ q = c.pending /\ Len(q) \in Nat
    BY <1>1 DEF Turns, SameBook
  <1> HIDE DEF c, q, t, f
  <1>5. Resumes(c, c, gen)
    BY <1>1 DEF Resumes, SameTurn, SameSingle, SameType, SameSetups
  <1>6. ResumeHolds(c, 0, q, c)
    BY <1>4, <1>5 DEF ResumeHolds
  <1>7. ResumeLoop!Preserved(q, c)
    BY <1>4, ResumeRound DEF ResumeLoop!Preserved, ResumeNext
  <1>8. ResumeHolds(t, Len(q), q, c)
    BY <1>3, <1>4, <1>6, <1>7, ResumeLoop!FoldLeftInvariant
  <1>9. /\ Resumes(c, t, gen) /\ t \in Turns /\ BookOK(t, gen) /\ SameTurn(s, t) /\ (t.live => s.live)
        /\ c.phase = s.phase /\ t.phase = s.phase
    BY <1>1, <1>8 DEF ResumeHolds, Resumes, SameTurn
  <1>10. ASSUME UpOK(s, s.live, s.phase, gen), s.phase \in Up PROVE UpOK(t, t.live, t.phase, gen)
    <2>1. UpOK(c, c.live, c.phase, gen)
      BY <1>1, <1>9, <1>10, SameBookUp
    <2> QED BY <1>9, <1>10, <2>1 DEF Resumes
  <1>11. \A r \in Reqs : t.kind[r] # "none" => s.kind[r] # "none"
    BY <1>1, <1>9 DEF Resumes, SameBook
  <1>12. CASE t.stuck
    BY <1>2, <1>9, <1>10, <1>11, <1>12 DEF Continued
  <1>13. CASE ~t.stuck
    <2>1. t.pending = <<>>
      <3>1. Len(t.pending) = 0 /\ t.pending \in Seq(Reqs)
        BY <1>4, <1>8, <1>9, <1>13 DEF ResumeHolds, Turns
      <3> QED BY <3>1
    <2>2. TypeSent(t, gen)
      <3>1. ~c.stuck
        BY <1>8, <1>13 DEF ResumeHolds
      <3> QED BY <1>1, <1>9, <3>1 DEF Resumes, SameType, TypeSent
    <2>3. Ran(t, f, gen)
      BY <1>9, FlushRan DEF f
    <2>4. /\ f \in Turns /\ SameTurn(s, f) /\ (f.live => s.live) /\ BookOK(f, gen) /\ f.pending = <<>>
          /\ TypeSent(f, gen) /\ (UpOK(t, t.live, t.phase, gen) => UpOK(f, f.live, f.phase, gen))
      BY <1>9, <2>1, <2>2, <2>3 DEF Ran, SameBarrier, SameTurn
    <2> QED BY <1>2, <1>10, <1>13, <2>4 DEF Continued
  <1> QED BY <1>12, <1>13

------------------------------------------------------------------------------
(* The order of the resume queue.                                          *)

\* A sequence of request IDs in ascending order.
Increasing(q) == \A i, j \in DOMAIN q : i < j => q[i] < q[j]

\* A finite set of request IDs has an increasing enumeration.
LEMMA OrderExists ==
  \A n \in Nat : \A S \in SUBSET (1 .. n) : \E q \in SetToSeqs(S) : Increasing(q)
  <1> DEFINE T == {n \in Nat : \A S \in SUBSET (1 .. n) : \E q \in SetToSeqs(S) : Increasing(q)}
  <1>1. 0 \in T
    <2> SUFFICES ASSUME NEW S \in SUBSET (1 .. 0) PROVE \E q \in SetToSeqs(S) : Increasing(q)
      OBVIOUS
    <2>a. S = {}
      OBVIOUS
    <2>b. Cardinality({}) = 0
      BY FS_EmptySet
    <2>1. S = {} /\ Cardinality(S) = 0
      BY <2>a, <2>b
    <2> DEFINE q == [i \in 1 .. 0 |-> i]
    <2>2. q \in SetToSeqs(S) /\ Increasing(q)
      BY <2>1 DEF SetToSeqs, Increasing
    <2> QED BY <2>2
  <1>2. ASSUME NEW n \in T PROVE n + 1 \in T
    <2> SUFFICES ASSUME NEW S \in SUBSET (1 .. n + 1) PROVE \E q \in SetToSeqs(S) : Increasing(q)
      OBVIOUS
    <2>0. n \in Nat
      OBVIOUS
    <2>1. CASE n + 1 \notin S
      <3>1. S \in SUBSET (1 .. n)
        BY <2>0, <2>1
      <3> QED BY <3>1
    <2>2. CASE n + 1 \in S
      <3> DEFINE R == S \ {n + 1}
                 c == Cardinality(R)
      <3>1. R \in SUBSET (1 .. n)
        BY <2>0
      <3>2. IsFiniteSet(S)
        <4>1. 1 \in Int /\ n + 1 \in Int
          BY <2>0
        <4>2. IsFiniteSet(1 .. n + 1)
          BY <4>1, FS_Interval
        <4> QED BY <4>2, FS_Subset
      <3>3. IsFiniteSet(R) /\ c \in Nat /\ Cardinality(R) = Cardinality(S) - 1 /\ Cardinality(S) \in Nat
        BY <2>2, <3>2, FS_RemoveElement, FS_CardinalityType
      <3>4. Cardinality(S) = c + 1
        BY <3>3
      <3>5. PICK q \in SetToSeqs(R) : Increasing(q)
        BY <3>1
      <3>6. c \in Nat
        BY <3>3
      <3> HIDE DEF c
      <3>7. q \in [1 .. c -> R] /\ \A i, j \in 1 .. c : i # j => q[i] # q[j]
        BY DEF SetToSeqs, c
      <3> DEFINE p == [i \in 1 .. c + 1 |-> IF i = c + 1 THEN n + 1 ELSE q[i]]
      <3>8. \A i \in 1 .. c + 1 : i # c + 1 => i \in 1 .. c
        BY <3>6
      <3>9. \A i \in 1 .. c : q[i] \in S /\ q[i] # n + 1 /\ q[i] < n + 1
        <4> SUFFICES ASSUME NEW i \in 1 .. c PROVE q[i] \in S /\ q[i] # n + 1 /\ q[i] < n + 1
          OBVIOUS
        <4>1. q[i] \in R
          BY <3>7
        <4>2. q[i] \in 1 .. n
          BY <3>1, <4>1
        <4> QED BY <2>0, <4>1, <4>2
      <3>10. p \in [1 .. c + 1 -> S]
        BY <2>2, <3>8, <3>9
      <3>11. \A i, j \in 1 .. c + 1 : i # j => p[i] # p[j]
        BY <3>7, <3>8, <3>9
      <3>12. ASSUME NEW i \in 1 .. c + 1, NEW j \in 1 .. c + 1, i < j PROVE p[i] < p[j]
        <4>1. i # c + 1 /\ i \in 1 .. c
          BY <3>6, <3>12
        <4>2. CASE j = c + 1
          BY <3>9, <4>1, <4>2
        <4>3. CASE j # c + 1
          BY <3>5, <3>7, <3>8, <3>12, <4>1, <4>3 DEF Increasing
        <4> QED BY <4>2, <4>3
      <3>13. p \in SetToSeqs(S) /\ Increasing(p)
        BY <3>4, <3>10, <3>11, <3>12 DEF SetToSeqs, Increasing
      <3> QED BY <3>13
    <2> QED BY <2>1, <2>2
  <1>3. T \subseteq Nat /\ \A n \in T : n + 1 \in T
    BY <1>2
  <1> HIDE DEF T
  <1>4. \A n \in Nat : n \in T
    BY <1>1, <1>3, Setups!InductiveSet
  <1> QED BY <1>4 DEF T

\* InOrder enumerates the set, each request once.
LEMMA InOrderIs ==
  ASSUME NEW S \in SUBSET Reqs
  PROVE  /\ InOrder(S) \in Seq(Reqs) /\ Len(InOrder(S)) <= MaxReq
         /\ \A i, j \in DOMAIN InOrder(S) : InOrder(S)[i] = InOrder(S)[j] => i = j
         /\ \A i \in DOMAIN InOrder(S) : InOrder(S)[i] \in S
         /\ \A r \in S : \E i \in DOMAIN InOrder(S) : InOrder(S)[i] = r
  <1> DEFINE q == InOrder(S)
             c == Cardinality(S)
  <1>1. MaxReq \in Nat /\ Reqs = 1 .. MaxReq
    BY RoutesAssumption DEF Reqs
  <1>2. \E p \in SetToSeqs(S) : Increasing(p)
    BY <1>1, OrderExists
  <1>3. q \in SetToSeqs(S)
    BY <1>2 DEF InOrder, Increasing
  <1>4. IsFiniteSet(S) /\ c \in Nat
    BY ReqsFinite, FS_CardinalityType
  <1>5. 1 \in Int /\ MaxReq \in Int /\ c \in Int
    BY <1>1, <1>4
  <1>6. IsFiniteSet(Reqs) /\ Cardinality(Reqs) <= MaxReq
    <2>1. IsFiniteSet(1 .. MaxReq) /\ Cardinality(1 .. MaxReq) = IF 1 > MaxReq THEN 0 ELSE MaxReq - 1 + 1
      BY <1>5, FS_Interval
    <2> QED BY <1>1, <2>1
  <1>7. c <= Cardinality(Reqs) /\ Cardinality(Reqs) \in Nat
    BY <1>6, FS_Subset, FS_CardinalityType
  <1>8. IsFiniteSet(1 .. c) /\ Cardinality(1 .. c) = c
    BY <1>4, <1>5, FS_Interval
  <1>9. q \in [1 .. c -> S] /\ \A i, j \in 1 .. c : i # j => q[i] # q[j]
    BY <1>3 DEF SetToSeqs
  <1> HIDE DEF q, c
  <1>10. q \in Seq(Reqs) /\ Len(q) = c /\ DOMAIN q = 1 .. c
    BY <1>4, <1>9
  <1>11. q \in Injection(1 .. c, S)
    BY <1>9 DEF Injection, IsInjective
  <1>12. q \in Surjection(1 .. c, S)
    BY <1>4, <1>8, <1>11, FS_Injection DEF c
  <1>13. \A r \in S : \E i \in 1 .. c : q[i] = r
    BY <1>12 DEF Surjection
  <1>14. /\ q \in Seq(Reqs) /\ Len(q) <= MaxReq
         /\ \A i, j \in DOMAIN q : q[i] = q[j] => i = j
         /\ \A i \in DOMAIN q : q[i] \in S
         /\ \A r \in S : \E i \in DOMAIN q : q[i] = r
    BY <1>1, <1>4, <1>6, <1>7, <1>9, <1>10, <1>13
  <1> QED BY <1>14 DEF q

\* resumeRoutes: every retained stream waits for its turn, and where the gateway hosts
\* nothing and nothing else survived the book is then served.
LEMMA ResumeIs ==
  ASSUME NEW s \in Turns, BookOK(s, gen), gen \in 0 .. MaxGen, ~s.stuck
  PROVE  LET t == resumeRoutes(s)
         IN  /\ t \in Turns /\ SameTurn(s, t) /\ (t.live => s.live) /\ BookOK(t, gen)
             /\ s.hosted = {} /\ OpenIn(s) = AutoIn(s) /\ s.phase \in Up => UpOK(t, t.live, t.phase, gen)
             /\ \/ \A q \in Reqs : t.kind[q] # "none" => s.kind[q] # "none"
                \/ t.pending = <<>> /\ TypeSent(t, gen)
  <1> DEFINE p == InOrder(AutoIn(s))
             b == [s EXCEPT !.pending = p]
             t == continueResumeRoutes(b)
  <1>1. AutoIn(s) \in SUBSET Reqs
    BY DEF AutoIn
  <1>2. /\ p \in Seq(Reqs) /\ Len(p) <= MaxReq
        /\ \A i, j \in DOMAIN p : p[i] = p[j] => i = j
        /\ \A i \in DOMAIN p : p[i] \in AutoIn(s)
        /\ \A r \in AutoIn(s) : \E i \in DOMAIN p : p[i] = r
    BY <1>1, InOrderIs
  <1> HIDE DEF p
  <1>3. /\ b \in Turns /\ Aside(s, b) /\ SameWire(s, b) /\ SameRoutes(s, b) /\ b.pending = p /\ b.stuck = s.stuck
    BY <1>2 DEF Turns, Aside, SameTurn, SameSingle, SameType, SameSetups, SameWire, SameRoutes
  <1>4. resumeRoutes(s) = t
    BY DEF resumeRoutes, p
  <1> HIDE DEF b
  <1>5. /\ b.next = s.next /\ b.dirty = s.dirty /\ b.mdGen = s.mdGen /\ b.lateRows = s.lateRows
        /\ b.single = s.single /\ b.phase = s.phase /\ b.live = s.live
    BY <1>3 DEF Aside, SameTurn, SameSingle, SameType, SameSetups, SameWire
  <1>6. \A r \in Reqs : s.kind[r] = "auto" <=> \E i \in DOMAIN p : p[i] = r
    BY <1>2 DEF AutoIn
  <1>7. \A i \in DOMAIN p : p[i] <= s.next
    <2> SUFFICES ASSUME NEW i \in DOMAIN p PROVE p[i] <= s.next
      OBVIOUS
    <2>1. p[i] \in Reqs /\ s.kind[p[i]] = "auto"
      BY <1>2 DEF AutoIn
    <2>2. ~(p[i] > s.next)
      BY <2>1 DEF BookOK, RouteOK
    <2> QED BY <2>1, <2>2 DEF Turns, Reqs
  <1>8. BookOK(b, gen)
    BY <1>2, <1>3, <1>5, <1>7 DEF BookOK, RouteOK, PendingOK, SameRoutes
  <1>9. s.hosted = {} /\ OpenIn(s) = AutoIn(s) => UpOK(b, b.live, b.phase, gen)
    <2> SUFFICES ASSUME s.hosted = {}, OpenIn(s) = AutoIn(s) PROVE UpOK(b, b.live, b.phase, gen)
      OBVIOUS
    <2>1. \A r \in Reqs : b.kind[r] # "none" => b.kind[r] = "auto" /\ routeAwaitingResume(b, r)
      BY <1>3, <1>6 DEF OpenIn, AutoIn, routeAwaitingResume, SameRoutes
    <2>2. \A r \in b.gapped : r \in Reqs /\ b.kind[r] = "auto"
      BY <1>3, <1>8 DEF Turns, BookOK, RouteOK
    <2>3. b.hosted = {}
      BY <1>3 DEF SameRoutes
    <2> QED BY <2>1, <2>2, <2>3 DEF UpOK, HostedOK, ServedOK, GapOK
  <1>10. Continued(b, t, gen)
    BY <1>3, <1>8, ContinueIs
  <1> HIDE DEF t
  <1>11. SameTurn(s, t) /\ t \in Turns /\ (t.live => s.live) /\ BookOK(t, gen)
    BY <1>3, <1>5, <1>10 DEF Continued, Aside, SameTurn
  <1>12. s.hosted = {} /\ OpenIn(s) = AutoIn(s) /\ s.phase \in Up => UpOK(t, t.live, t.phase, gen)
    BY <1>5, <1>9, <1>10 DEF Continued
  <1>13. \/ \A q \in Reqs : t.kind[q] # "none" => s.kind[q] # "none"
         \/ t.pending = <<>> /\ TypeSent(t, gen)
    BY <1>3, <1>10 DEF Continued, SameRoutes
  <1> QED BY <1>4, <1>11, <1>12, <1>13

------------------------------------------------------------------------------
(* The beginning and the end of a turn.                                    *)

\* The fields of the book have the same values in s and t; the free slots and the
\* signal of the writer are apart.
Carried(s, t) ==
    /\ SameSingle(s, t) /\ SameType(s, t) /\ SameSetups(s, t) /\ SameRoutes(s, t)
    /\ t.pending = s.pending /\ t.waiting = s.waiting

\* What carries over keeps the parts of the invariant.
LEMMA CarriedBook ==
  ASSUME NEW s, NEW t, NEW g, Carried(s, t)
  PROVE  /\ SameBook(s, t)
         /\ BookOK(s, g) => BookOK(t, g)
         /\ TypeSent(s, g) => TypeSent(t, g)
         /\ DownOK(s) => DownOK(t)
  <1>1. SameBook(s, t)
    BY DEF Carried, SameBook, SameSetups, SameRoutes
  <1>2. t.dirty = s.dirty /\ t.mdGen = s.mdGen /\ t.mdType = s.mdType /\ t.lateRows = s.lateRows /\ t.single = s.single
        /\ t.waiting = s.waiting
    BY DEF Carried, SameSingle, SameType
  <1>3. BookOK(s, g) => BookOK(t, g)
    BY <1>1, <1>2, SameBookOK DEF BookOK
  <1>4. DownOK(s) => DownOK(t)
    BY <1>1, <1>2 DEF DownOK, SameBook
  <1> QED BY <1>1, <1>2, <1>3, <1>4 DEF TypeSent

\* A turn begins with the book.
LEMMA TurnIs ==
  ASSUME rt \in Books, NEW p \in Phases, NEW told \in SUBSET Reqs, NEW s \in Turn(p, told)
  PROVE  /\ s \in Turns /\ Carried(rt, s)
         /\ s.phase = p /\ s.live = (wire = "live") /\ ~s.stuck
         /\ ~s.live => s.room = rt.room
  <1> DEFINE F == IF wire = "live" THEN MaxFuel ELSE 0
             D == IF wire = "live" THEN MaxDrain ELSE 0
             W == SUBSET {r \in told : rt.kind[r] = "auto"}
             B == SUBSET {r \in told : rt.kind[r] = "auto" /\ rt.routeGen[r] # gen}
  <1>1. PICK env \in [fuel : 0 .. F, drained : 0 .. D, slow : W, bad : B] :
          s = With([rt EXCEPT !.room = @ + env.drained, !.writable = @ \/ env.drained > 0],
                   With([phase |-> p, live |-> wire = "live", stuck |-> FALSE], env))
    BY DEF Turn
  <1>2. 0 .. F \subseteq Nat /\ 0 .. D \subseteq Nat /\ W \subseteq SUBSET Reqs /\ B \subseteq SUBSET Reqs
    OBVIOUS
  <1>3. env \in [fuel : Nat, drained : Nat, slow : SUBSET Reqs, bad : SUBSET Reqs]
    BY <1>2
  <1> DEFINE h == [phase |-> p, live |-> wire = "live", stuck |-> FALSE]
             l == wire = "live"
             e == With(h, env)
             m == rt.room + env.drained
             w == rt.writable \/ env.drained > 0
             b == [rt EXCEPT !.room = m, !.writable = w]
  <1>4. l \in BOOLEAN /\ m \in Nat /\ w \in BOOLEAN
    BY <1>3 DEF Books
  <1>a. wire # "live" => m = rt.room
    <2> SUFFICES ASSUME wire # "live" PROVE m = rt.room
      OBVIOUS
    <2>1. env.drained \in 0 .. 0 /\ rt.room \in Nat
      BY <1>1 DEF Books
    <2> QED BY <2>1
  <1>5. s = With(b, e)
    BY <1>1
  <1>6. h = [phase |-> p, live |-> l, stuck |-> FALSE]
    OBVIOUS
  <1> HIDE DEF h, l, m, w
  <1>7. h \in [phase : Phases, live : BOOLEAN, stuck : BOOLEAN] /\ h.phase = p /\ h.live = l /\ h.stuck = FALSE
    BY <1>4, <1>6
  <1>8. /\ e \in [phase : Phases, live : BOOLEAN, stuck : BOOLEAN, fuel : Nat, drained : Nat,
                  slow : SUBSET Reqs, bad : SUBSET Reqs]
        /\ e.phase = h.phase /\ e.live = h.live /\ e.stuck = h.stuck
    BY <1>3, <1>7 DEF With
  <1> HIDE DEF e
  <1>9. b \in Books /\ Carried(rt, b) /\ b.room = m
    BY <1>4 DEF Books, Carried, SameSingle, SameType, SameSetups, SameRoutes
  <1> HIDE DEF b
  <1>10. s \in Turns
    BY <1>5, <1>8, <1>9 DEF With, Books, Turns
  <1>11. Carried(b, s)
    BY <1>5, <1>8, <1>9 DEF With, Books, Carried, SameSingle, SameType, SameSetups, SameRoutes
  <1>12. s.phase = e.phase /\ s.live = e.live /\ s.stuck = e.stuck /\ s.room = b.room
    BY <1>5, <1>8, <1>9 DEF With, Books
  <1>13. Carried(rt, s)
    BY <1>9, <1>11 DEF Carried, SameSingle, SameType, SameSetups, SameRoutes
  <1> QED BY <1>a, <1>7, <1>8, <1>9, <1>10, <1>12, <1>13 DEF l

\* What a turn leaves behind.
Left(s) == [f \in DOMAIN rt |-> s[f]]

\* The book a turn leaves behind carries its values.
LEMMA LeftIs ==
  ASSUME rt \in Books, NEW s \in Turns
  PROVE  Left(s) \in Books /\ Carried(s, Left(s)) /\ Left(s).room = s.room
  <1>1. Left(s) \in Books
    BY DEF Left, Books, Turns
  <1>2. Carried(s, Left(s)) /\ Left(s).room = s.room
    BY DEF Left, Books, Turns, Carried, SameSingle, SameType, SameSetups, SameRoutes
  <1> QED BY <1>1, <1>2

------------------------------------------------------------------------------
(* The invariant and its steps.                                            *)

\* The inductive invariant.
Inv == Base /\ (~EarlyCodes => Served)

\* What is opened in a step is opened behind the barrier.
BarrierFirst ==
    \A r \in Reqs : rt'.kind[r] # "none" /\ rt.kind[r] = "none" =>
      /\ rt'.pending = <<>> /\ TypeSent(rt', gen)
      /\ \A q \in Reqs : rt'.kind[q] = "auto" => q \in rt'.hosted

\* What every step establishes.
Kept == Inv' /\ (~EarlyCodes => BarrierFirst)

\* The link during a turn.
LEMMA LinkKept ==
  ASSUME LinkOK, gen' = gen, wire' = wire \/ (wire = "live" /\ wire' = "dying"),
         phase' = phase \/ (phase \in {"Handshaking"} \cup Up /\ phase' \in Up)
  PROVE  LinkOK'
  BY DEF LinkOK, Up, Phases

\* The end of a turn carries its book over.
LEMMA StoreIs ==
  ASSUME Base, NEW s \in Turns, BookOK(s, gen), Store(s), s.live => wire = "live"
  PROVE  /\ rt' \in Books /\ BookOK(rt', gen) /\ rt'.room <= QueueCap /\ Carried(s, rt')
         /\ wire' = wire \/ (wire = "live" /\ wire' = "dying")
         /\ \A p : UpOK(s, s.live, p, gen) => UpOK(rt', wire' = "live", p, gen)
  <1>1. rt \in Books
    BY DEF Base
  <1>2. rt' = Left(s) /\ s.room <= QueueCap /\ wire' = IF wire = "live" /\ ~s.live THEN "dying" ELSE wire
    BY DEF Store, Left
  <1>3. Left(s) \in Books /\ Carried(s, Left(s)) /\ Left(s).room = s.room
    BY <1>1, LeftIs
  <1>4. SameBook(s, Left(s)) /\ BookOK(Left(s), gen)
    BY <1>3, CarriedBook
  <1>5. wire' = "live" => s.live
    BY <1>2
  <1>6. ASSUME NEW p, UpOK(s, s.live, p, gen) PROVE UpOK(Left(s), wire' = "live", p, gen)
    BY <1>4, <1>5, <1>6, SameBookUp
  <1> QED BY <1>2, <1>3, <1>4, <1>6

\* The book of a turn before anything happens in it.
LEMMA BeginIs ==
  ASSUME Base, NEW p \in Phases, NEW told \in SUBSET Reqs, NEW s \in Turn(p, told)
  PROVE  /\ s \in Turns /\ Carried(rt, s) /\ SameBook(rt, s) /\ BookOK(s, gen)
         /\ s.phase = p /\ s.live = (wire = "live") /\ ~s.stuck
         /\ (~s.live => s.room = rt.room) /\ (DownOK(rt) => DownOK(s))
         /\ \A ph : UpOK(rt, wire = "live", ph, gen) => UpOK(s, s.live, ph, gen)
  <1>1. rt \in Books /\ BookOK(rt, gen)
    BY DEF Base
  <1>2. /\ s \in Turns /\ Carried(rt, s)
        /\ s.phase = p /\ s.live = (wire = "live") /\ ~s.stuck
        /\ ~s.live => s.room = rt.room
    BY <1>1, TurnIs
  <1>3. SameBook(rt, s) /\ BookOK(s, gen) /\ (DownOK(rt) => DownOK(s))
    BY <1>1, <1>2, CarriedBook
  <1>4. ASSUME NEW ph, UpOK(rt, wire = "live", ph, gen) PROVE UpOK(s, s.live, ph, gen)
    BY <1>2, <1>3, <1>4, SameBookUp
  <1> QED BY <1>2, <1>3, <1>4

\* A turn that keeps the phase and the parts of the invariant.
Sound(s, t, g) ==
    /\ t \in Turns /\ BookOK(t, g) /\ (t.live => s.live)
    /\ s.phase \in Up /\ UpOK(s, s.live, s.phase, g) => UpOK(t, t.live, s.phase, g)
    /\ s.phase \notin Up /\ DownOK(s) => DownOK(t)
    /\ s.phase = "Closed" /\ (\A r \in Reqs : s.kind[r] = "none") => \A r \in Reqs : t.kind[r] = "none"

\* A turn that keeps the parts of the invariant keeps the invariant.
LEMMA SoundTurn ==
  ASSUME Inv, NEW told \in SUBSET Reqs, NEW s \in Turn(phase, told), NEW t, Sound(s, t, gen), Store(t), Quiet
  PROVE  Inv'
  <1>1. Base /\ phase \in Phases /\ LinkOK
    BY DEF Inv, Base, LinkOK
  <1>2. /\ s \in Turns /\ SameBook(rt, s) /\ s.phase = phase /\ s.live = (wire = "live")
        /\ (DownOK(rt) => DownOK(s))
        /\ \A ph : UpOK(rt, wire = "live", ph, gen) => UpOK(s, s.live, ph, gen)
    BY <1>1, BeginIs
  <1>3. t \in Turns /\ BookOK(t, gen) /\ (t.live => wire = "live")
    BY <1>2 DEF Sound
  <1>4. /\ rt' \in Books /\ BookOK(rt', gen) /\ rt'.room <= QueueCap /\ Carried(t, rt')
        /\ wire' = wire \/ (wire = "live" /\ wire' = "dying")
        /\ \A p : UpOK(t, t.live, p, gen) => UpOK(rt', wire' = "live", p, gen)
    BY <1>1, <1>3, StoreIs
  <1>5. phase' = phase /\ gen' = gen /\ up' = up
    BY DEF Quiet
  <1>6. LinkOK'
    BY <1>1, <1>4, <1>5, LinkKept
  <1>7. Base'
    BY <1>4, <1>5, <1>6 DEF Base
  <1>8. ASSUME Served PROVE Served'
    <2>1. CASE phase \in Up
      <3>1. UpOK(rt', wire' = "live", phase, gen) /\ up
        BY <1>2, <1>4, <1>8, <2>1 DEF Served, Sound
      <3> QED BY <1>5, <2>1, <3>1 DEF Served, Up
    <2>2. CASE phase = "Closed"
      <3>1. \A r \in Reqs : s.kind[r] = "none"
        BY <1>2, <1>8, <2>2 DEF Served, SameBook
      <3>2. \A r \in Reqs : t.kind[r] = "none"
        BY <1>2, <2>2, <3>1 DEF Sound
      <3>3. \A r \in Reqs : rt'.kind[r] = "none"
        BY <1>4, <3>2 DEF Carried, SameRoutes
      <3> QED BY <1>5, <2>2, <3>3 DEF Served, Up
    <2>3. CASE phase \notin Up \cup {"Closed"}
      <3>1. DownOK(t)
        BY <1>2, <1>8, <2>3 DEF Served, Sound
      <3>2. DownOK(rt')
        BY <1>4, <3>1, CarriedBook
      <3> QED BY <1>5, <2>3, <3>2 DEF Served
    <2> QED BY <2>1, <2>2, <2>3
  <1> QED BY <1>7, <1>8 DEF Inv

\* A step that opens no route.
LEMMA NothingOpened ==
  ASSUME \A r \in Reqs : rt'.kind[r] # "none" => rt.kind[r] # "none"
  PROVE  BarrierFirst
  BY DEF BarrierFirst

\* What a turn opened behind the barrier.
LEMMA OpenedServed ==
  ASSUME NEW s, Carried(s, rt'), ServedOK(s),
         \/ \A r \in Reqs : s.kind[r] # "none" => rt.kind[r] # "none"
         \/ s.pending = <<>> /\ TypeSent(s, gen)
  PROVE  BarrierFirst
  <1>1. rt'.kind = s.kind /\ rt'.pending = s.pending /\ rt'.hosted = s.hosted /\ (TypeSent(s, gen) => TypeSent(rt', gen))
    BY DEF Carried, SameRoutes, SameType, TypeSent
  <1>2. CASE \A r \in Reqs : s.kind[r] # "none" => rt.kind[r] # "none"
    BY <1>1, <1>2 DEF BarrierFirst
  <1>3. CASE s.pending = <<>> /\ TypeSent(s, gen)
    <2>1. \A q \in Reqs : ~routeAwaitingResume(s, q)
      BY <1>3 DEF routeAwaitingResume
    <2>2. \A q \in Reqs : s.kind[q] = "auto" => q \in s.hosted
      BY <2>1 DEF ServedOK
    <2> QED BY <1>1, <1>3, <2>2 DEF BarrierFirst
  <1> QED BY <1>2, <1>3

\* Connect and WireStops leave the book alone.
LEMMA ConnectKept ==
  ASSUME Inv, Connect
  PROVE  Kept
  <1>1. rt' = rt /\ gen' = gen /\ wire' = wire /\ wire = "none" /\ phase \in {"Disconnected", "Reconnecting"}
        /\ phase' \in {"Connecting", "Reconnecting"}
    BY DEF Connect, Dialing
  <1>2. Base'
    BY <1>1 DEF Inv, Base, LinkOK, Phases, Up
  <1>3. Served => Served'
    BY <1>1 DEF Served, Up
  <1>4. BarrierFirst
    BY <1>1 DEF BarrierFirst
  <1> QED BY <1>2, <1>3, <1>4 DEF Kept, Inv

\* A wire that begins to stop leaves the book alone.
LEMMA WireStopsKept ==
  ASSUME Inv, WireStops
  PROVE  Kept
  <1>1. rt' = rt /\ gen' = gen /\ wire = "live" /\ wire' = "dying" /\ phase' = phase /\ up' = up
    BY DEF WireStops, Stop
  <1>2. LinkOK'
    BY <1>1, LinkKept DEF Inv, Base
  <1>3. Base'
    BY <1>1, <1>2 DEF Inv, Base
  <1>4. ASSUME NEW p, UpOK(rt, wire = "live", p, gen) PROVE UpOK(rt, wire' = "live", p, gen)
    BY <1>1, <1>4 DEF UpOK, HostedOK
  <1>5. Served => Served'
    BY <1>1, <1>4 DEF Served
  <1>6. BarrierFirst
    BY <1>1 DEF BarrierFirst
  <1> QED BY <1>3, <1>5, <1>6 DEF Kept, Inv

\* A fresh connection hosts nothing, and rows of a closed singleton stayed behind.
LEMMA AttachKept ==
  ASSUME Inv, AttachTransport
  PROVE  Kept
  <1> DEFINE b == [rt EXCEPT !.room = QueueCap, !.writable = FALSE, !.lateRows = FALSE]
  <1>1. /\ rt' = b /\ gen' = gen + 1 /\ gen < MaxGen /\ wire = "none" /\ phase \in {"Connecting", "Reconnecting"}
        /\ phase' = "Handshaking" /\ wire' = "live"
    BY DEF AttachTransport, Attach
  <1>2. rt \in Books /\ BookOK(rt, gen) /\ LinkOK /\ gen \in 0 .. MaxGen
    BY DEF Inv, Base, LinkOK
  <1>3. MaxGen \in Nat /\ QueueCap \in Nat
    BY RoutesAssumption
  <1>4. /\ b \in Books /\ SameBook(rt, b) /\ b.room = QueueCap /\ ~b.lateRows /\ b.dirty = rt.dirty /\ b.mdGen = rt.mdGen
        /\ b.waiting = rt.waiting
    BY <1>2, <1>3 DEF Books, SameBook
  <1> HIDE DEF b
  <1>5. gen + 1 \in 0 .. MaxGen
    BY <1>1, <1>2, <1>3
  <1>6. rt.dirty \in Nat /\ rt.mdGen \in Nat /\ rt.dirty <= gen /\ rt.mdGen <= gen
    BY <1>2 DEF Books, BookOK
  <1>7. rt.dirty <= gen + 1 /\ rt.mdGen <= gen + 1
    BY <1>2, <1>6
  <1>8. \A r \in Reqs : RouteOK(b, r)
    BY <1>2, <1>4 DEF BookOK, RouteOK, SameBook
  <1>9. PendingOK(b)
    BY <1>2, <1>4 DEF BookOK, PendingOK, SameBook
  <1>10. BookOK(b, gen + 1)
    BY <1>4, <1>7, <1>8, <1>9 DEF BookOK
  <1>11. LinkOK'
    BY <1>1, <1>5 DEF LinkOK, Phases, Up
  <1>12. Base'
    BY <1>1, <1>3, <1>4, <1>10, <1>11 DEF Base
  <1>13. ASSUME Served PROVE Served'
    <2>1. DownOK(rt)
      BY <1>1, <1>13 DEF Served, Up
    <2>2. DownOK(b)
      BY <1>4, <2>1 DEF DownOK, SameBook
    <2> QED BY <1>1, <2>2 DEF Served, Up
  <1>14. BarrierFirst
    BY <1>1, <1>4 DEF BarrierFirst, SameBook
  <1> QED BY <1>12, <1>13, <1>14 DEF Kept, Inv

\* The end of a turn that published an up phase.
LEMMA UpKept ==
  ASSUME Inv, NEW t \in Turns, BookOK(t, gen), Store(t), t.live => wire = "live",
         phase' \in Up, phase \in {"Handshaking"} \cup Up, gen' = gen,
         ~EarlyCodes => up' /\ UpOK(t, t.live, phase', gen),
         \/ \A r \in Reqs : t.kind[r] # "none" => rt.kind[r] # "none"
         \/ t.pending = <<>> /\ TypeSent(t, gen)
  PROVE  Kept
  <1>1. Base /\ LinkOK
    BY DEF Inv, Base
  <1>2. /\ rt' \in Books /\ BookOK(rt', gen) /\ rt'.room <= QueueCap /\ Carried(t, rt')
        /\ wire' = wire \/ (wire = "live" /\ wire' = "dying")
        /\ \A p : UpOK(t, t.live, p, gen) => UpOK(rt', wire' = "live", p, gen)
    BY <1>1, StoreIs
  <1>3. LinkOK'
    BY <1>1, <1>2, LinkKept
  <1>4. Base'
    BY <1>2, <1>3 DEF Base
  <1>5. ASSUME ~EarlyCodes PROVE Served' /\ BarrierFirst
    <2>1. Served'
      <3>1. UpOK(rt', wire' = "live", phase', gen') /\ up'
        BY <1>2, <1>5
      <3> QED BY <3>1 DEF Served, Up
    <2>2. ServedOK(t)
      BY <1>5 DEF UpOK
    <2>3. BarrierFirst
      BY <1>2, <2>2, OpenedServed
    <2> QED BY <2>1, <2>3
  <1> QED BY <1>4, <1>5 DEF Kept, Inv

\* maybeReady: the streams that survived the loss come back behind the barrier.
LEMMA BootstrapKept ==
  ASSUME Inv, BootstrapCompletes
  PROVE  Kept
  <1>1. Base /\ gen \in 0 .. MaxGen /\ rt \in Books
    BY DEF Inv, Base, LinkOK
  <1>2. PICK s \in Turn("Ready", Reqs) : Store(resumeRoutes(s))
    BY DEF BootstrapCompletes
  <1>3. /\ phase \in {"Handshaking"} \cup Up /\ ~up /\ phase' = "Ready" /\ up' = TRUE /\ gen' = gen
    BY DEF BootstrapCompletes, BecomeReady, Up
  <1>4. "Ready" \in Phases /\ Reqs \in SUBSET Reqs /\ "Ready" \in Up
    BY DEF Phases, Up
  <1>5. /\ s \in Turns /\ SameBook(rt, s) /\ BookOK(s, gen) /\ s.phase = "Ready" /\ s.live = (wire = "live") /\ ~s.stuck
        /\ (DownOK(rt) => DownOK(s))
    BY <1>1, <1>4, BeginIs
  <1> DEFINE t == resumeRoutes(s)
  <1>6. /\ t \in Turns /\ SameTurn(s, t) /\ (t.live => s.live) /\ BookOK(t, gen)
        /\ s.hosted = {} /\ OpenIn(s) = AutoIn(s) /\ s.phase \in Up => UpOK(t, t.live, t.phase, gen)
        /\ \/ \A q \in Reqs : t.kind[q] # "none" => s.kind[q] # "none"
           \/ t.pending = <<>> /\ TypeSent(t, gen)
    BY <1>1, <1>5, ResumeIs
  <1> HIDE DEF t
  <1>7. ASSUME ~EarlyCodes PROVE UpOK(t, t.live, phase', gen)
    <2>1. phase \notin Up
      BY <1>3, <1>7 DEF Inv, Served
    <2>2. phase = "Handshaking"
      BY <1>3, <2>1
    <2>3. DownOK(rt)
      BY <1>7, <2>1, <2>2 DEF Inv, Served
    <2>4. s.hosted = {} /\ \A r \in Reqs : s.kind[r] # "none" => s.kind[r] = "auto"
      BY <1>5, <2>3 DEF DownOK, BookOK, RouteOK
    <2>5. OpenIn(s) = AutoIn(s)
      BY <2>4 DEF OpenIn, AutoIn
    <2>6. t.phase = "Ready"
      BY <1>5, <1>6 DEF SameTurn
    <2> QED BY <1>3, <1>4, <1>5, <1>6, <2>4, <2>5, <2>6
  <1>8. \/ \A r \in Reqs : t.kind[r] # "none" => rt.kind[r] # "none"
        \/ t.pending = <<>> /\ TypeSent(t, gen)
    BY <1>5, <1>6 DEF SameBook
  <1>9. Store(t) /\ (t.live => wire = "live") /\ phase' \in Up /\ up'
    BY <1>2, <1>3, <1>4, <1>5, <1>6 DEF t
  <1> QED BY <1>3, <1>6, <1>7, <1>8, <1>9, UpKept

\* Codes find a book that is up, unless the gateway sends them early.
LEMMA CodedIs ==
  ASSUME Inv, NEW p, Coded(p)
  PROVE  /\ phase \in {"Handshaking"} \cup Up /\ gen' = gen /\ phase' = p
         /\ ~EarlyCodes => phase \in Up /\ up' /\ UpOK(rt, wire = "live", phase, gen)
  <1>1. phase \in {"Handshaking"} \cup Up /\ gen' = gen /\ phase' = p /\ up' = up
    BY DEF Coded, Code, Up
  <1>2. ASSUME ~EarlyCodes PROVE phase \in Up
    BY <1>1, <1>2 DEF Coded
  <1> QED BY <1>1, <1>2 DEF Inv, Served

\* 1100: every retained stream is told of the gap.
LEMMA LostKept ==
  ASSUME Inv, ConnectivityLost
  PROVE  Kept
  <1>1. Base
    BY DEF Inv
  <1>2. PICK s \in Turn("Degraded", Reqs) : Store(emitGap(s))
    BY DEF ConnectivityLost
  <1>3. /\ phase \in {"Handshaking"} \cup Up /\ gen' = gen /\ phase' = "Degraded"
        /\ ~EarlyCodes => phase \in Up /\ up' /\ UpOK(rt, wire = "live", phase, gen)
    BY CodedIs DEF ConnectivityLost
  <1>4. "Degraded" \in Phases /\ Reqs \in SUBSET Reqs /\ "Degraded" \in Up
    BY DEF Phases, Up
  <1>5. /\ s \in Turns /\ SameBook(rt, s) /\ BookOK(s, gen) /\ s.phase = "Degraded" /\ s.live = (wire = "live")
        /\ \A ph : UpOK(rt, wire = "live", ph, gen) => UpOK(s, s.live, ph, gen)
    BY <1>1, <1>4, BeginIs
  <1> DEFINE t == emitGap(s)
  <1>6. Told(s, t, gen)
    BY <1>5, GapTold
  <1> HIDE DEF t
  <1>7. t \in Turns /\ BookOK(t, gen) /\ (t.live => wire = "live") /\ t.pending = s.pending
        /\ \A r \in Reqs : t.kind[r] # "none" => s.kind[r] # "none" /\ t.kind[r] = s.kind[r]
    BY <1>5, <1>6 DEF Told, SameBarrier
  <1>8. ASSUME ~EarlyCodes PROVE UpOK(t, t.live, phase', gen)
    <2>1. UpOK(s, s.live, phase, gen)
      BY <1>3, <1>5, <1>8
    <2>2. HostedOK(t, t.live, gen)
      BY <1>4, <1>5, <1>6, <2>1 DEF Told, UpOK
    <2>3. ServedOK(t)
      BY <1>6, <1>7, <2>1 DEF UpOK, ServedOK, Told, routeAwaitingResume
    <2>4. GapOK(t, "Degraded")
      BY DEF GapOK
    <2> QED BY <1>3, <2>2, <2>3, <2>4 DEF UpOK
  <1>9. \A r \in Reqs : t.kind[r] # "none" => rt.kind[r] # "none"
    BY <1>5, <1>7 DEF SameBook
  <1>10. Store(t) /\ phase' \in Up
    BY <1>2, <1>3, <1>4 DEF t
  <1> QED BY <1>3, <1>7, <1>8, <1>9, <1>10, UpKept

\* 1102: the streams the gateway retained go on, none stays gapped.
LEMMA MaintainedKept ==
  ASSUME Inv, ConnectivityRestoredDataMaintained
  PROVE  Kept
  <1>1. Base
    BY DEF Inv
  <1>2. PICK s \in Turn("Ready", Reqs) : Store(emitResumed(s))
    BY DEF ConnectivityRestoredDataMaintained
  <1>3. /\ phase \in {"Handshaking"} \cup Up /\ gen' = gen /\ phase' = "Ready"
        /\ ~EarlyCodes => phase \in Up /\ up' /\ UpOK(rt, wire = "live", phase, gen)
    BY CodedIs DEF ConnectivityRestoredDataMaintained
  <1>4. "Ready" \in Phases /\ Reqs \in SUBSET Reqs /\ "Ready" \in Up
    BY DEF Phases, Up
  <1>5. /\ s \in Turns /\ SameBook(rt, s) /\ BookOK(s, gen) /\ s.phase = "Ready" /\ s.live = (wire = "live")
        /\ \A ph : UpOK(rt, wire = "live", ph, gen) => UpOK(s, s.live, ph, gen)
    BY <1>1, <1>4, BeginIs
  <1> DEFINE t == emitResumed(s)
  <1>6. Told(s, t, gen) /\ t.gapped = {}
    BY <1>5, ResumedTold
  <1> HIDE DEF t
  <1>7. t \in Turns /\ BookOK(t, gen) /\ (t.live => wire = "live") /\ t.pending = s.pending
        /\ \A r \in Reqs : t.kind[r] # "none" => s.kind[r] # "none" /\ t.kind[r] = s.kind[r]
    BY <1>5, <1>6 DEF Told, SameBarrier
  <1>8. ASSUME ~EarlyCodes PROVE UpOK(t, t.live, phase', gen)
    <2>1. UpOK(s, s.live, phase, gen)
      BY <1>3, <1>5, <1>8
    <2>2. HostedOK(t, t.live, gen)
      BY <1>4, <1>5, <1>6, <2>1 DEF Told, UpOK
    <2>3. ServedOK(t)
      BY <1>6, <1>7, <2>1 DEF UpOK, ServedOK, Told, routeAwaitingResume
    <2>4. GapOK(t, phase')
      BY <1>6 DEF GapOK
    <2> QED BY <2>2, <2>3, <2>4 DEF UpOK
  <1>9. \A r \in Reqs : t.kind[r] # "none" => rt.kind[r] # "none"
    BY <1>5, <1>7 DEF SameBook
  <1>10. Store(t) /\ phase' \in Up
    BY <1>2, <1>3, <1>4 DEF t
  <1> QED BY <1>3, <1>7, <1>8, <1>9, <1>10, UpKept

\* The singleton stream ends.
LEMMA SingleGone ==
  ASSUME NEW s \in Turns, BookOK(s, gen)
  PROVE  LET t == [s EXCEPT !.single = "none"]
         IN  /\ t \in Turns /\ SameTurn(s, t) /\ SameBook(s, t) /\ SameType(s, t) /\ SameWire(s, t) /\ BookOK(t, gen)
             /\ t.waiting = s.waiting /\ t.stuck = s.stuck
  <1> DEFINE t == [s EXCEPT !.single = "none"]
  <1>1. /\ t \in Turns /\ SameTurn(s, t) /\ SameBook(s, t) /\ SameType(s, t) /\ SameWire(s, t)
        /\ t.dirty = s.dirty /\ t.lateRows = s.lateRows /\ t.single = "none" /\ t.waiting = s.waiting /\ t.stuck = s.stuck
    BY DEF Turns, SameTurn, SameBook, SameType, SameWire
  <1> HIDE DEF t
  <1>2. BookOK(t, gen)
    BY <1>1, SameBookOK DEF BookOK, SameType
  <1> QED BY <1>1, <1>2 DEF t

\* The connection hosts nothing any more.
LEMMA AllGone ==
  ASSUME NEW s \in Turns, BookOK(s, gen)
  PROVE  LET t == [s EXCEPT !.hosted = {}]
         IN  /\ t \in Turns /\ Aside(s, t) /\ SameBarrier(s, t) /\ SameWire(s, t) /\ t.hosted = {}
             /\ t.kind = s.kind /\ t.gapped = s.gapped /\ BookOK(t, gen)
  <1> DEFINE t == [s EXCEPT !.hosted = {}]
  <1>1. /\ t \in Turns /\ Aside(s, t) /\ SameBarrier(s, t) /\ SameWire(s, t) /\ t.hosted = {}
        /\ t.kind = s.kind /\ t.routeGen = s.routeGen /\ t.gapped = s.gapped
        /\ t.end = s.end /\ t.last = s.last /\ t.depth = s.depth
    BY UnhostIs
  <1> HIDE DEF t
  <1>2. /\ t.next = s.next /\ t.pending = s.pending /\ t.dirty = s.dirty /\ t.mdGen = s.mdGen
        /\ t.lateRows = s.lateRows /\ t.single = s.single
    BY <1>1 DEF Aside, SameSingle, SameType, SameSetups, SameBarrier
  <1>3. \A r \in Reqs : RouteOK(t, r)
    BY <1>1, <1>2 DEF BookOK, RouteOK
  <1>4. BookOK(t, gen)
    BY <1>2, <1>3 DEF BookOK, PendingOK
  <1> QED BY <1>1, <1>4 DEF t

\* Every retained stream is gapped and nothing else stays open.
LEMMA OnlyGapped ==
  ASSUME NEW s \in Turns, BookOK(s, gen), NEW S, S = OpenIn(s) \ AutoIn(s)
  PROVE  LET t == InterruptAll(emitGap(s), S)
         IN  /\ Told(s, t, gen) /\ \A r \in Reqs : t.kind[r] # "none" => t.kind[r] = "auto" /\ r \in t.gapped
  <1> DEFINE g == emitGap(s)
             t == InterruptAll(g, S)
  <1>1. /\ Told(s, g, gen)
        /\ \A q \in Reqs : s.kind[q] # "auto" => g.kind[q] = s.kind[q]
        /\ \A q \in Reqs : g.kind[q] = "auto" => q \in g.gapped
    BY GapTold
  <1> HIDE DEF g
  <1>2. g \in Turns /\ BookOK(g, gen) /\ S \in SUBSET OpenIn(g)
    BY <1>1 DEF Told, OpenIn, AutoIn
  <1>3. Told(g, t, gen) /\ Rest(g, t, S) /\ \A q \in S : t.kind[q] = "none"
    BY <1>2, InterruptTold
  <1> HIDE DEF t
  <1>4. Told(s, t, gen)
    BY <1>1, <1>3, ToldTrans
  <1>5. ASSUME NEW r \in Reqs, t.kind[r] # "none" PROVE t.kind[r] = "auto" /\ r \in t.gapped
    <2>1. r \notin S
      BY <1>3, <1>5
    <2>2. t.kind[r] = g.kind[r] /\ (r \in t.gapped <=> r \in g.gapped)
      BY <1>3, <2>1 DEF Rest
    <2>3. t.kind[r] = s.kind[r]
      BY <1>4, <1>5 DEF Told
    <2>4. s.kind[r] = "auto"
      BY <1>5, <2>1, <2>3 DEF OpenIn, AutoIn
    <2> QED BY <1>1, <2>2, <2>3, <2>4
  <1> QED BY <1>4, <1>5 DEF t, g

\* 1101: the gateway lost every request; the retained streams come back behind the
\* barrier and the others end.
LEMMA DataLostKept ==
  ASSUME Inv, ConnectivityRestoredDataLost
  PROVE  Kept
  <1>1. Base /\ gen \in 0 .. MaxGen
    BY DEF Inv, Base, LinkOK
  <1>2. PICK s \in Turn("Ready", Reqs) :
          Store(resumeRoutes(dropLostRoutes(emitGap([s EXCEPT !.hosted = {}]))))
    BY DEF ConnectivityRestoredDataLost
  <1>3. /\ phase \in {"Handshaking"} \cup Up /\ gen' = gen /\ phase' = "Ready" /\ (~EarlyCodes => up')
    BY CodedIs DEF ConnectivityRestoredDataLost
  <1>4. "Ready" \in Phases /\ Reqs \in SUBSET Reqs /\ "Ready" \in Up
    BY DEF Phases, Up
  <1>5. /\ s \in Turns /\ SameBook(rt, s) /\ BookOK(s, gen) /\ s.phase = "Ready" /\ s.live = (wire = "live") /\ ~s.stuck
    BY <1>1, <1>4, BeginIs
  <1> DEFINE h == [s EXCEPT !.hosted = {}]
             g == emitGap(h)
             S == OpenIn(g) \ AutoIn(g)
             d == InterruptAll(g, S)
             e == [d EXCEPT !.single = "none"]
             t == resumeRoutes(e)
  <1>6. t = resumeRoutes(dropLostRoutes(emitGap([s EXCEPT !.hosted = {}])))
    BY DEF dropLostRoutes
  <1>7. /\ h \in Turns /\ Aside(s, h) /\ SameBarrier(s, h) /\ SameWire(s, h) /\ h.hosted = {}
        /\ h.kind = s.kind /\ BookOK(h, gen)
    BY <1>5, AllGone
  <1> HIDE DEF h
  <1>8. Told(h, g, gen)
    BY <1>7, GapTold
  <1> HIDE DEF g
  <1>9. g \in Turns /\ BookOK(g, gen) /\ S \in SUBSET OpenIn(g)
    BY <1>8 DEF Told, OpenIn
  <1>10. Told(g, d, gen) /\ Rest(g, d, S) /\ \A q \in S : d.kind[q] = "none"
    BY <1>9, InterruptTold
  <1> HIDE DEF d
  <1>11. Told(h, d, gen)
    BY <1>8, <1>10, ToldTrans
  <1>12. d \in Turns /\ BookOK(d, gen) /\ d.hosted = {} /\ SameTurn(h, d) /\ d.stuck = h.stuck /\ (d.live => h.live)
    BY <1>7, <1>11 DEF Told, Aside, SameBarrier
  <1>13. ASSUME NEW q \in Reqs, d.kind[q] # "none" PROVE d.kind[q] = "auto" /\ h.kind[q] # "none"
    <2>1. q \notin S /\ d.kind[q] = g.kind[q]
      BY <1>10, <1>13 DEF Rest
    <2>2. d.kind[q] = "auto"
      BY <1>13, <2>1 DEF S, OpenIn, AutoIn
    <2> QED BY <1>11, <1>13, <2>2 DEF Told
  <1> HIDE DEF S
  <1>14. /\ e \in Turns /\ SameTurn(d, e) /\ SameBook(d, e) /\ SameWire(d, e) /\ BookOK(e, gen) /\ e.stuck = d.stuck
    BY <1>12, SingleGone
  <1> HIDE DEF e
  <1>15. e.hosted = {} /\ OpenIn(e) = AutoIn(e) /\ e.phase = "Ready" /\ ~e.stuck /\ (e.live => wire = "live")
    <2>1. e.hosted = {} /\ e.kind = d.kind
      BY <1>12, <1>14 DEF SameBook
    <2>2. OpenIn(e) = AutoIn(e)
      BY <1>13, <2>1 DEF OpenIn, AutoIn
    <2>3. e.phase = "Ready" /\ ~e.stuck /\ (e.live => wire = "live")
      BY <1>5, <1>7, <1>12, <1>14 DEF SameTurn, Aside, SameBarrier, SameWire
    <2> QED BY <2>1, <2>2, <2>3
  <1>16. /\ t \in Turns /\ SameTurn(e, t) /\ (t.live => e.live) /\ BookOK(t, gen)
         /\ e.hosted = {} /\ OpenIn(e) = AutoIn(e) /\ e.phase \in Up => UpOK(t, t.live, t.phase, gen)
         /\ \/ \A q \in Reqs : t.kind[q] # "none" => e.kind[q] # "none"
            \/ t.pending = <<>> /\ TypeSent(t, gen)
    BY <1>1, <1>14, <1>15, ResumeIs
  <1>17. Store(t)
    BY <1>2, <1>6
  <1> HIDE DEF t
  <1>18. UpOK(t, t.live, phase', gen)
    <2>1. t.phase = "Ready"
      BY <1>15, <1>16 DEF SameTurn
    <2> QED BY <1>3, <1>4, <1>15, <1>16, <2>1
  <1>19. \/ \A r \in Reqs : t.kind[r] # "none" => rt.kind[r] # "none"
         \/ t.pending = <<>> /\ TypeSent(t, gen)
    BY <1>5, <1>7, <1>13, <1>14, <1>16 DEF SameBook
  <1>20. (t.live => wire = "live") /\ phase' \in Up
    BY <1>3, <1>4, <1>15, <1>16
  <1> QED BY <1>3, <1>16, <1>17, <1>18, <1>19, <1>20, UpKept

\* handleTransportLoss: only gapped streams survive.
LEMMA TransportLostKept ==
  ASSUME Inv, TransportLost
  PROVE  Kept
  <1>1. Base /\ gen \in 0 .. MaxGen /\ rt \in Books
    BY DEF Inv, Base, LinkOK
  <1>2. PICK s \in Turn("Reconnecting", Reqs) :
          rt' = Left(disconnectRoutes(ForgetWaiter([s EXCEPT !.live = FALSE])))
    BY DEF TransportLost, Left
  <1>3. wire = "dying" /\ wire' = "none" /\ gen' = gen /\ phase' = "Reconnecting"
    BY DEF TransportLost, Lose
  <1>4. "Reconnecting" \in Phases /\ Reqs \in SUBSET Reqs
    BY DEF Phases
  <1>5. /\ s \in Turns /\ SameBook(rt, s) /\ BookOK(s, gen) /\ s.live = (wire = "live") /\ (~s.live => s.room = rt.room)
    BY <1>1, <1>4, BeginIs
  <1>6. s.room = rt.room
    BY <1>3, <1>5
  <1> DEFINE l == [s EXCEPT !.live = FALSE]
             f == [l EXCEPT !.waiting = FALSE, !.hosted = {}]
             S == OpenIn(f) \ AutoIn(f)
             d == InterruptAll(emitGap(f), S)
             t == [d EXCEPT !.single = "none"]
  <1>7. disconnectRoutes(ForgetWaiter([s EXCEPT !.live = FALSE])) = t
    BY DEF disconnectRoutes, ForgetWaiter
  <1>8. l \in Turns /\ SameBook(s, l) /\ SameSingle(s, l) /\ SameType(s, l) /\ ~l.live /\ l.room = s.room
    BY <1>5 DEF Turns, SameBook, SameSingle, SameType
  <1> HIDE DEF l
  <1>9. /\ f \in Turns /\ f.hosted = {} /\ f.waiting = FALSE /\ SameSingle(l, f) /\ SameType(l, f) /\ ~f.live /\ f.room = l.room
        /\ f.next = l.next /\ f.pending = l.pending /\ f.kind = l.kind /\ f.gapped = l.gapped
        /\ f.end = l.end /\ f.depth = l.depth
    BY <1>8 DEF Turns, SameSingle, SameType
  <1> HIDE DEF f
  <1>10. BookOK(f, gen)
    <2>1. \A r \in Reqs : RouteOK(f, r)
      BY <1>5, <1>8, <1>9 DEF BookOK, RouteOK, SameBook
    <2>2. PendingOK(f)
      BY <1>5, <1>8, <1>9 DEF BookOK, PendingOK, SameBook
    <2>3. f.dirty = s.dirty /\ f.mdGen = s.mdGen /\ f.lateRows = s.lateRows /\ f.single = s.single
      BY <1>8, <1>9 DEF SameSingle, SameType
    <2> QED BY <1>5, <2>1, <2>2, <2>3 DEF BookOK
  <1>11. Told(f, d, gen) /\ \A r \in Reqs : d.kind[r] # "none" => d.kind[r] = "auto" /\ r \in d.gapped
    BY <1>9, <1>10, OnlyGapped
  <1> HIDE DEF d, S
  <1>12. d \in Turns /\ BookOK(d, gen) /\ d.hosted = {} /\ d.waiting = FALSE /\ d.room = f.room
         /\ \A r \in Reqs : d.kind[r] # "none" => f.kind[r] # "none"
    BY <1>9, <1>11 DEF Told, SameBarrier
  <1>13. /\ t \in Turns /\ SameBook(d, t) /\ SameWire(d, t) /\ BookOK(t, gen) /\ t.waiting = d.waiting
    BY <1>12, SingleGone
  <1> HIDE DEF t
  <1>14. Left(t) \in Books /\ Carried(t, Left(t)) /\ Left(t).room = t.room
    BY <1>1, <1>13, LeftIs
  <1>15. rt' = Left(t)
    BY <1>2, <1>7
  <1>16. DownOK(t)
    BY <1>11, <1>12, <1>13 DEF DownOK, SameBook
  <1>17. DownOK(rt') /\ BookOK(rt', gen)
    BY <1>13, <1>14, <1>15, <1>16, CarriedBook
  <1>18. rt'.room = rt.room
    BY <1>6, <1>8, <1>9, <1>12, <1>13, <1>14, <1>15 DEF SameWire
  <1>19. LinkOK'
    BY <1>1, <1>3 DEF LinkOK, Phases, Up
  <1>20. Base'
    BY <1>1, <1>3, <1>14, <1>15, <1>17, <1>18, <1>19 DEF Base
  <1>21. Served'
    BY <1>3, <1>17 DEF Served, Up
  <1>22. \A r \in Reqs : rt'.kind[r] # "none" => rt.kind[r] # "none"
    <2>1. rt'.kind = d.kind /\ f.kind = rt.kind
      BY <1>5, <1>8, <1>9, <1>13, <1>14, <1>15 DEF SameBook, Carried, SameRoutes
    <2> QED BY <1>12, <2>1
  <1> QED BY <1>20, <1>21, <1>22, NothingOpened DEF Kept, Inv

\* closeEngine ends every handle.
LEMMA CloseEngineIs ==
  ASSUME NEW s \in Books, BookOK(s, gen)
  PROVE  LET t == closeEngine(s)
         IN  t \in Books /\ BookOK(t, gen) /\ t.room = s.room /\ \A r \in Reqs : t.kind[r] = "none"
  <1> DEFINE k == [r \in Reqs |-> "none"]
             e == [r \in Reqs |-> IF s.kind[r] = "none" THEN s.end[r] ELSE "closed"]
             t == [s EXCEPT !.kind = k, !.gapped = {}, !.parked = <<>>, !.single = "none", !.end = e]
  <1>1. k \in [Reqs -> Kinds \cup {"none"}] /\ \A r \in Reqs : k[r] = "none"
    OBVIOUS
  <1>2. e \in [Reqs -> Ends]
    BY DEF Books, Ends
  <1>3. \A r \in Reqs : e[r] = IF s.kind[r] = "none" THEN s.end[r] ELSE "closed"
    OBVIOUS
  <1>4. closeEngine(s) = t
    BY DEF closeEngine
  <1>a. <<>> \in Seq(Calls)
    OBVIOUS
  <1> HIDE DEF k, e
  <1>5. /\ t \in Books /\ t.kind = k /\ t.gapped = {} /\ t.single = "none" /\ t.end = e /\ t.room = s.room
        /\ t.next = s.next /\ t.pending = s.pending /\ t.hosted = s.hosted /\ t.depth = s.depth
        /\ t.dirty = s.dirty /\ t.mdGen = s.mdGen /\ t.lateRows = s.lateRows
    BY <1>1, <1>2, <1>a DEF Books
  <1> HIDE DEF t
  <1>6. \A r \in Reqs : RouteOK(t, r)
    BY <1>1, <1>3, <1>5 DEF BookOK, RouteOK
  <1>7. BookOK(t, gen)
    BY <1>5, <1>6 DEF BookOK, PendingOK
  <1> QED BY <1>1, <1>4, <1>5, <1>7

\* A step to the closed phase.
LEMMA ClosedKept ==
  ASSUME Inv, phase' = "Closed", wire' \in {"none", "dying"}, gen' = gen,
         rt' \in Books, BookOK(rt', gen), rt'.room = rt.room, \A r \in Reqs : rt'.kind[r] = "none"
  PROVE  Kept
  <1>1. LinkOK'
    BY DEF Inv, Base, LinkOK, Phases, Up
  <1>2. Base'
    BY <1>1 DEF Inv, Base
  <1>3. Served'
    BY DEF Served, Up
  <1>4. BarrierFirst
    BY DEF BarrierFirst
  <1> QED BY <1>2, <1>3, <1>4 DEF Kept, Inv

\* Client.Close ends every handle.
LEMMA EngineClosesKept ==
  ASSUME Inv, EngineCloses
  PROVE  Kept
  <1>1. rt \in Books /\ BookOK(rt, gen) /\ wire \in {"none", "live", "dying"}
    BY DEF Inv, Base, LinkOK
  <1>2. /\ closeEngine(rt) \in Books /\ BookOK(closeEngine(rt), gen) /\ closeEngine(rt).room = rt.room
        /\ \A r \in Reqs : closeEngine(rt).kind[r] = "none"
    BY <1>1, CloseEngineIs
  <1>3. rt' = closeEngine(rt) /\ phase' = "Closed" /\ gen' = gen /\ wire' \in {"none", "dying"}
    BY <1>1 DEF EngineCloses, Close
  <1> QED BY <1>2, <1>3, ClosedKept

\* The onDisconnect of the routes in a book.
Unbroken(s, v) == v \in Books /\ BookOK(v, gen) /\ v.next = s.next /\ v.room = s.room
\* The loop over a book that no turn works on.
BreakNext(v, r, s) == Interrupt(v, r)
BreakHolds(v, done, S, s) == Unbroken(s, v)

Breaks == INSTANCE QueueTheorems WITH Op <- BreakNext, Holds <- BreakHolds

\* A route that ends leaves a sound book.
LEMMA BreakOne ==
  ASSUME NEW s \in Books, BookOK(s, gen), NEW r \in Reqs, r <= s.next
  PROVE  Unbroken(s, Interrupt(s, r))
  <1> DEFINE why == IF s.kind[r] = "oneshot" THEN "interrupted" ELSE "resumeRequired"
             k == [s.kind EXCEPT ![r] = "none"]
             e == [s.end EXCEPT ![r] = why]
             G == s.gapped \ {r}
             t == [s EXCEPT !.kind = k, !.end = e, !.gapped = G]
  <1>1. why \in Ends
    BY DEF Ends
  <1>2. Interrupt(s, r) = t
    BY DEF Interrupt, EndRoute
  <1> HIDE DEF why
  <1>3. k \in [Reqs -> Kinds \cup {"none"}] /\ k[r] = "none" /\ \A q \in Reqs : q # r => k[q] = s.kind[q]
    BY DEF Books
  <1>4. e \in [Reqs -> Ends] /\ \A q \in Reqs : q # r => e[q] = s.end[q]
    BY <1>1 DEF Books
  <1>5. G \in SUBSET Reqs
    BY DEF Books
  <1>6. G = s.gapped \ {r}
    OBVIOUS
  <1> HIDE DEF k, e, G
  <1>7. /\ t \in Books /\ t.kind = k /\ t.end = e /\ t.gapped = G /\ t.room = s.room
        /\ t.next = s.next /\ t.pending = s.pending /\ t.hosted = s.hosted /\ t.depth = s.depth
        /\ t.dirty = s.dirty /\ t.mdGen = s.mdGen /\ t.lateRows = s.lateRows /\ t.single = s.single
    BY <1>3, <1>4, <1>5 DEF Books
  <1> HIDE DEF t
  <1>8. s.next \in Nat /\ MaxReq \in Nat
    BY RoutesAssumption DEF Books
  <1>9. ASSUME NEW q \in Reqs PROVE RouteOK(t, q)
    <2>1. RouteOK(s, q)
      BY DEF BookOK
    <2>2. CASE q = r
      <3>1. ~(r > s.next)
        BY <1>8 DEF Reqs
      <3> QED BY <1>3, <1>6, <1>7, <2>2, <3>1 DEF RouteOK
    <2>3. CASE q # r
      BY <1>3, <1>4, <1>6, <1>7, <2>1, <2>3 DEF RouteOK
    <2> QED BY <2>2, <2>3
  <1>10. BookOK(t, gen)
    BY <1>7, <1>9 DEF BookOK, PendingOK
  <1> QED BY <1>2, <1>7, <1>10 DEF Unbroken

\* The loop of onDisconnect leaves a sound book.
LEMMA BreakAll ==
  ASSUME NEW s \in Books, BookOK(s, gen), NEW S \in SUBSET Reqs, \A r \in S : r <= s.next
  PROVE  Unbroken(s, InterruptAll(s, S))
  <1>1. InterruptAll(s, S) = Breaks!FoldedSet(s, S, s)
    BY Zenon DEF InterruptAll, BreakNext, Breaks!FoldedSet, FoldSet, Breaks!FoldSet,
                 MapThenFoldSet, Breaks!MapThenFoldSet
  <1>2. IsFiniteSet(S)
    BY ReqsFinite
  <1>3. Breaks!IsFiniteSet(S)
    BY <1>2 DEF IsFiniteSet, Breaks!IsFiniteSet
  <1>4. BreakHolds(s, {}, S, s)
    BY DEF BreakHolds, Unbroken
  <1>5. ASSUME NEW done \in SUBSET S, NEW r \in S \ done, NEW v, BreakHolds(v, done, S, s)
        PROVE  BreakHolds(Interrupt(v, r), done \cup {r}, S, s)
    <2>1. v \in Books /\ BookOK(v, gen) /\ v.next = s.next /\ v.room = s.room
      BY <1>5 DEF BreakHolds, Unbroken
    <2>2. r \in Reqs /\ r <= v.next
      BY <2>1
    <2>3. Unbroken(v, Interrupt(v, r))
      BY <2>1, <2>2, BreakOne
    <2> QED BY <2>1, <2>3 DEF BreakHolds, Unbroken
  <1>6. Breaks!SetPreserved(S, s)
    BY <1>5 DEF Breaks!SetPreserved, BreakNext
  <1>7. BreakHolds(Breaks!FoldedSet(s, S, s), S, S, s)
    BY <1>3, <1>4, <1>6, Breaks!FoldSetInvariant
  <1> QED BY <1>1, <1>7 DEF BreakHolds

\* A loss with ReconnectOff.
LEMMA LossClosesKept ==
  ASSUME Inv, LossCloses
  PROVE  Kept
  <1> DEFINE a == [rt EXCEPT !.single = "none"]
             b == [a EXCEPT !.waiting = FALSE, !.hosted = {}]
             S == OpenIn(rt)
             i == InterruptAll(b, S)
  <1>1. rt \in Books /\ BookOK(rt, gen)
    BY DEF Inv, Base
  <1>2. rt' = closeEngine(i) /\ phase' = "Closed" /\ gen' = gen /\ wire' = "none"
    BY DEF LossCloses, Lose, ForgetWaiter
  <1>3. /\ a \in Books /\ SameBook(rt, a) /\ SameType(rt, a) /\ a.single = "none" /\ a.dirty = rt.dirty
        /\ a.lateRows = rt.lateRows /\ a.room = rt.room
    BY <1>1 DEF Books, SameBook, SameType
  <1> HIDE DEF a
  <1>4. /\ b \in Books /\ b.hosted = {} /\ SameSingle(a, b) /\ SameType(a, b) /\ b.room = a.room
        /\ b.next = a.next /\ b.pending = a.pending /\ b.kind = a.kind /\ b.gapped = a.gapped
        /\ b.end = a.end /\ b.depth = a.depth
    BY <1>3 DEF Books, SameSingle, SameType
  <1> HIDE DEF b
  <1>5. BookOK(b, gen)
    <2>1. \A r \in Reqs : RouteOK(b, r)
      BY <1>1, <1>3, <1>4 DEF BookOK, RouteOK, SameBook
    <2>2. PendingOK(b)
      BY <1>1, <1>3, <1>4 DEF BookOK, PendingOK, SameBook
    <2>3. b.dirty = rt.dirty /\ b.mdGen = rt.mdGen /\ b.single = "none" /\ b.lateRows = rt.lateRows
      BY <1>3, <1>4 DEF SameSingle, SameType
    <2> QED BY <1>1, <2>1, <2>2, <2>3 DEF BookOK
  <1>6. S \in SUBSET Reqs /\ \A r \in S : r <= b.next
    <2>1. S \in SUBSET Reqs
      BY DEF OpenIn
    <2>2. ASSUME NEW r \in S PROVE r <= b.next
      <3>1. r \in Reqs /\ ~(r > rt.next)
        BY <1>1 DEF OpenIn, BookOK, RouteOK
      <3>2. b.next = rt.next /\ rt.next \in Nat
        BY <1>1, <1>3, <1>4 DEF SameBook, Books
      <3> QED BY <3>1, <3>2 DEF Reqs
    <2> QED BY <2>1, <2>2
  <1> HIDE DEF S
  <1>7. Unbroken(b, i)
    BY <1>4, <1>5, <1>6, BreakAll
  <1> HIDE DEF i
  <1>8. /\ closeEngine(i) \in Books /\ BookOK(closeEngine(i), gen) /\ closeEngine(i).room = i.room
        /\ \A r \in Reqs : closeEngine(i).kind[r] = "none"
    BY <1>7, CloseEngineIs DEF Unbroken
  <1>9. i.room = rt.room
    BY <1>3, <1>4, <1>7 DEF Unbroken
  <1>10. /\ rt' \in Books /\ BookOK(rt', gen) /\ rt'.room = rt.room /\ \A r \in Reqs : rt'.kind[r] = "none"
    BY <1>2, <1>8, <1>9
  <1> QED BY <1>2, <1>10, ClosedKept

------------------------------------------------------------------------------
(* Callers, consumers, the writer and the gateway.                         *)

\* A setup runs behind the barrier, or it is parked.
LEMMA SubmitKept ==
  ASSUME Inv, NEW k \in Offered, Submit(k)
  PROVE  Kept
  <1>1. Base /\ gen \in 0 .. MaxGen /\ phase \in Phases
    BY DEF Inv, Base, LinkOK
  <1>2. k \in Calls
    BY RoutesAssumption DEF Calls, Kinds
  <1>3. PICK s \in Turn(phase, {}) :
          IF isReady(s) THEN Store(RunSetup(s, k))
          ELSE Len(rt.parked) < MaxParked /\ Store([s EXCEPT !.parked = Append(@, k)])
    BY DEF Submit
  <1>4. Quiet /\ {} \in SUBSET Reqs
    BY DEF Submit
  <1>5. /\ s \in Turns /\ SameBook(rt, s) /\ BookOK(s, gen) /\ s.phase = phase /\ s.live = (wire = "live")
        /\ \A ph : UpOK(rt, wire = "live", ph, gen) => UpOK(s, s.live, ph, gen)
    BY <1>1, <1>4, BeginIs
  <1>6. CASE isReady(s)
    <2> DEFINE t == RunSetup(s, k)
    <2>1. Store(t)
      BY <1>3, <1>6
    <2>2. Ran(s, t, gen)
      BY <1>1, <1>2, <1>5, SetupRan
    <2> HIDE DEF t
    <2>3. s.phase \in Up /\ s.pending = <<>> /\ TypeSent(s, gen)
      BY <1>6 DEF isReady, hasReadyTransport, marketDataTypePending, TypeSent, Up
    <2>4. t \in Turns /\ BookOK(t, gen) /\ (t.live => wire = "live") /\ t.pending = <<>> /\ TypeSent(t, gen) /\ t.phase = phase
      BY <1>5, <2>2, <2>3 DEF Ran, SameBarrier, SameTurn
    <2>5. ~EarlyCodes => up' /\ UpOK(t, t.live, phase', gen)
      <3> SUFFICES ASSUME ~EarlyCodes PROVE up' /\ UpOK(t, t.live, phase', gen)
        OBVIOUS
      <3>1. phase' = phase /\ up' = up
        BY <1>4 DEF Quiet
      <3>2. up /\ UpOK(s, s.live, s.phase, gen)
        BY <1>5, <2>3 DEF Inv, Served
      <3> QED BY <2>2, <2>4, <3>1, <3>2 DEF Ran
    <2>6. phase' \in Up /\ phase \in {"Handshaking"} \cup Up /\ gen' = gen
      BY <1>4, <1>5, <2>3 DEF Quiet
    <2> QED BY <2>1, <2>4, <2>5, <2>6, UpKept
  <1>7. CASE ~isReady(s)
    <2> DEFINE a == Append(s.parked, k)
               t == [s EXCEPT !.parked = a]
    <2>1. Store(t)
      BY <1>3, <1>7
    <2>2. a \in Seq(Calls)
      BY <1>2, <1>5 DEF Turns
    <2> HIDE DEF a
    <2>3. /\ t \in Turns /\ SameBook(s, t) /\ SameSingle(s, t) /\ SameType(s, t) /\ SameWire(s, t)
          /\ t.waiting = s.waiting
      BY <1>5, <2>2 DEF Turns, SameBook, SameSingle, SameType, SameWire
    <2> HIDE DEF t
    <2>4. Sound(s, t, gen)
      <3>1. BookOK(t, gen)
        BY <1>5, <2>3, SameBookOK DEF BookOK, SameSingle, SameType
      <3>2. ASSUME NEW p, UpOK(s, s.live, p, gen) PROVE UpOK(t, t.live, p, gen)
        BY <2>3, <3>2, SameBookUp DEF SameWire
      <3>3. DownOK(s) => DownOK(t)
        BY <2>3 DEF DownOK, SameBook
      <3> QED BY <2>3, <3>1, <3>2, <3>3 DEF Sound, SameWire, SameBook
    <2>5. Inv'
      BY <1>4, <2>1, <2>4, SoundTurn
    <2>6. t \in Turns /\ BookOK(t, gen) /\ (t.live => wire = "live")
      BY <1>5, <2>4 DEF Sound
    <2>7. Carried(t, rt')
      BY <1>1, <2>1, <2>6, StoreIs
    <2>8. \A r \in Reqs : rt'.kind[r] # "none" => rt.kind[r] # "none"
      BY <1>5, <2>3, <2>7 DEF Carried, SameRoutes, SameBook
    <2> QED BY <2>5, <2>8, NothingOpened DEF Kept
  <1> QED BY <1>6, <1>7

\* A turn of a caller that opens nothing.
LEMMA SoundKept ==
  ASSUME Inv, NEW s \in Turn(phase, {}), NEW t, Sound(s, t, gen), Store(t), Quiet,
         \A r \in Reqs : t.kind[r] # "none" => s.kind[r] # "none"
  PROVE  Kept
  <1>1. Base /\ phase \in Phases /\ {} \in SUBSET Reqs
    BY DEF Inv, Base, LinkOK
  <1>2. Inv'
    BY <1>1, SoundTurn
  <1>3. s \in Turns /\ SameBook(rt, s) /\ s.live = (wire = "live")
    BY <1>1, BeginIs
  <1>4. t \in Turns /\ BookOK(t, gen) /\ (t.live => wire = "live")
    BY <1>3 DEF Sound
  <1>5. Carried(t, rt')
    BY <1>1, <1>4, StoreIs
  <1>6. \A r \in Reqs : rt'.kind[r] # "none" => rt.kind[r] # "none"
    BY <1>3, <1>5 DEF Carried, SameRoutes, SameBook
  <1> QED BY <1>2, <1>6, NothingOpened DEF Kept

\* A route that ends in a turn of its caller.
LEMMA EndedSound ==
  ASSUME NEW s \in Turns, BookOK(s, gen), NEW r \in Reqs, s.kind[r] # "none", NEW t, Ended(s, t, r),
         HostedOK(s, s.live, gen) /\ s.phase \in Up => Released(t, r)
  PROVE  Sound(s, t, gen) /\ \A q \in Reqs : t.kind[q] # "none" => s.kind[q] # "none"
  <1>1. Told(s, t, gen) /\ Only(s, t, r) /\ t.kind[r] = "none"
    BY EndedTold
  <1>2. t \in Turns /\ BookOK(t, gen) /\ (t.live => s.live) /\ t.pending = s.pending /\ t.waiting = s.waiting
        /\ t.gapped = s.gapped \ {r} /\ t.hosted \subseteq s.hosted
    BY <1>1 DEF Told, SameBarrier, Ended
  <1>3. \A q \in Reqs : t.kind[q] # "none" => q # r /\ t.kind[q] = s.kind[q]
    BY <1>1 DEF Told
  <1>4. ASSUME s.phase \in Up, UpOK(s, s.live, s.phase, gen) PROVE UpOK(t, t.live, s.phase, gen)
    <2>1. HostedOK(t, t.live, gen)
      BY <1>1, <1>4 DEF Told, UpOK
    <2>2. ServedOK(t)
      BY <1>1, <1>2, <1>3, <1>4 DEF Told, UpOK, ServedOK, routeAwaitingResume
    <2>3. GapOK(t, s.phase)
      BY <1>2, <1>4 DEF UpOK, GapOK, routeAwaitingResume
    <2> QED BY <2>1, <2>2, <2>3 DEF UpOK
  <1>5. DownOK(s) => DownOK(t)
    BY <1>2, <1>3 DEF DownOK
  <1> QED BY <1>2, <1>3, <1>4, <1>5 DEF Sound

\* Subscription.Close, the end of its context, or a row its consumer had no room for.
LEMMA CloseStreamKept ==
  ASSUME Inv, NEW r \in Reqs, NEW cause \in {"cancelled", "slow"}, CloseStream(r, cause)
  PROVE  Kept
  <1>1. Base /\ phase \in Phases /\ {} \in SUBSET Reqs
    BY DEF Inv, Base, LinkOK
  <1>2. PICK s \in Turn(phase, {}) : Store(actorCancel(s, r, cause))
    BY DEF CloseStream
  <1>3. Quiet /\ rt.kind[r] # "none"
    BY DEF CloseStream
  <1>4. s \in Turns /\ SameBook(rt, s) /\ BookOK(s, gen)
    BY <1>1, BeginIs
  <1>5. s.kind[r] # "none"
    BY <1>3, <1>4 DEF SameBook
  <1> DEFINE t == actorCancel(s, r, cause)
  <1>6. Ended(s, t, r) /\ (HostedOK(s, s.live, gen) /\ s.phase \in Up => Released(t, r))
    BY <1>4, <1>5, CancelEnds
  <1>7. Store(t)
    BY <1>2
  <1> HIDE DEF t
  <1>8. Sound(s, t, gen) /\ \A q \in Reqs : t.kind[q] # "none" => s.kind[q] # "none"
    BY <1>4, <1>5, <1>6, EndedSound
  <1> QED BY <1>3, <1>7, <1>8, SoundKept

\* The caller of a one-shot gives up.
LEMMA AbandonKept ==
  ASSUME Inv, NEW r \in Reqs, AbandonOneShot(r)
  PROVE  Kept
  <1>1. Base /\ phase \in Phases /\ {} \in SUBSET Reqs
    BY DEF Inv, Base, LinkOK
  <1>2. PICK s \in Turn(phase, {}) :
          LET t == EndRoute(s, r, "abandoned")
          IN  \/ Store(t)
              \/ Store(IF Admits(t) THEN [AfterSend(t) EXCEPT !.hosted = @ \ {r}] ELSE AfterSend(t))
    BY DEF AbandonOneShot
  <1>3. Quiet /\ rt.kind[r] # "none"
    BY DEF AbandonOneShot
  <1>4. s \in Turns /\ SameBook(rt, s) /\ BookOK(s, gen)
    BY <1>1, BeginIs
  <1>5. s.kind[r] # "none" /\ "abandoned" \in Ends /\ "abandoned" \notin {"cancelled", "slow"}
    BY <1>3, <1>4 DEF SameBook, Ends
  <1> DEFINE t == EndRoute(s, r, "abandoned")
             u == AfterSend(t)
             x == u.hosted \ {r}
             h == [u EXCEPT !.hosted = x]
  <1>6. Store(t) \/ Store(u) \/ Store(h)
    BY <1>2
  <1>7. Ended(s, t, r) /\ t.end[r] = "abandoned" /\ t \in Turns
    BY <1>4, <1>5, EndEnds DEF Ended
  <1> HIDE DEF t
  <1>8. /\ u \in Turns /\ Aside(t, u) /\ SameBarrier(t, u) /\ SameRoutes(t, u) /\ (u.live => t.live)
        /\ (~t.live => u.room = t.room)
    BY <1>7, SendIs DEF Aside
  <1> HIDE DEF u
  <1>9. x \in SUBSET Reqs /\ x = u.hosted \ {r}
    BY <1>8 DEF Turns
  <1>a. x \in SUBSET Reqs
    BY <1>9
  <1> HIDE DEF x
  <1>10. /\ h \in Turns /\ Aside(u, h) /\ SameBarrier(u, h) /\ SameWire(u, h) /\ h.hosted = x
         /\ h.kind = u.kind /\ h.routeGen = u.routeGen /\ h.gapped = u.gapped
         /\ h.end = u.end /\ h.last = u.last /\ h.depth = u.depth
    BY <1>8, <1>a, UnhostIs
  <1> HIDE DEF h
  <1>11. Ended(s, u, r) /\ u.end[r] = "abandoned"
    BY <1>7, <1>8 DEF Ended, Aside, SameTurn, SameSingle, SameType, SameSetups, SameBarrier, SameRoutes
  <1>12. Ended(s, h, r) /\ h.end[r] = "abandoned"
    BY <1>9, <1>10, <1>11 DEF Ended, Aside, SameTurn, SameSingle, SameType, SameSetups, SameBarrier, SameWire
  <1>13. Released(t, r) /\ Released(u, r) /\ Released(h, r)
    BY <1>5, <1>7, <1>11, <1>12 DEF Released
  <1>14. /\ Sound(s, t, gen) /\ \A q \in Reqs : t.kind[q] # "none" => s.kind[q] # "none"
    BY <1>4, <1>5, <1>7, <1>13, EndedSound
  <1>15. /\ Sound(s, u, gen) /\ \A q \in Reqs : u.kind[q] # "none" => s.kind[q] # "none"
    BY <1>4, <1>5, <1>11, <1>13, EndedSound
  <1>16. /\ Sound(s, h, gen) /\ \A q \in Reqs : h.kind[q] # "none" => s.kind[q] # "none"
    BY <1>4, <1>5, <1>12, <1>13, EndedSound
  <1>17. CASE Store(t)
    BY <1>3, <1>14, <1>17, SoundKept
  <1>18. CASE Store(u)
    BY <1>3, <1>15, <1>18, SoundKept
  <1>19. CASE Store(h)
    BY <1>3, <1>16, <1>19, SoundKept
  <1> QED BY <1>6, <1>17, <1>18, <1>19

\* A turn that leaves the routes alone.
LEMMA AsideSound ==
  ASSUME NEW s \in Turns, BookOK(s, gen), NEW t \in Turns, SameBook(s, t), t.waiting = s.waiting, t.live => s.live,
         t.dirty <= gen, t.mdGen <= gen, t.lateRows => t.dirty = gen /\ t.single = "none"
  PROVE  Sound(s, t, gen) /\ \A q \in Reqs : t.kind[q] # "none" => s.kind[q] # "none"
  <1>1. BookOK(t, gen)
    BY SameBookOK
  <1>2. ASSUME NEW p, UpOK(s, s.live, p, gen) PROVE UpOK(t, t.live, p, gen)
    BY <1>2, SameBookUp
  <1>3. DownOK(s) => DownOK(t)
    BY DEF DownOK, SameBook
  <1> QED BY <1>1, <1>2, <1>3 DEF Sound, SameBook

\* Closing the singleton stream marks its routing key used on this connection.
LEMMA CloseSingletonKept ==
  ASSUME Inv, CloseSingleton
  PROVE  Kept
  <1>1. Base /\ phase \in Phases /\ {} \in SUBSET Reqs /\ gen \in Nat
    BY RoutesAssumption DEF Inv, Base, LinkOK
  <1>2. PICK s \in Turn(phase, {}) :
          LET t == [markSingletonGenerationDirty(s) EXCEPT !.single = "none", !.lateRows = TRUE]
              u == AfterSend(t)
          IN  IF rt.single = "incomplete" THEN Store(retireTransport(t))
              ELSE IF ~hasReadyTransport(t) THEN Store(t)
              ELSE IF Admits(t) THEN Store(u) ELSE Store(retireTransport(u))
    BY DEF CloseSingleton
  <1>3. Quiet
    BY DEF CloseSingleton
  <1>4. s \in Turns /\ BookOK(s, gen)
    BY <1>1, BeginIs
  <1> DEFINE d == [s EXCEPT !.dirty = gen]
             t == [d EXCEPT !.single = "none", !.lateRows = TRUE]
             u == AfterSend(t)
             v == retireTransport(t)
             w == retireTransport(u)
  <1>5. Store(v) \/ Store(t) \/ Store(u) \/ Store(w)
    BY <1>2 DEF markSingletonGenerationDirty
  <1>6. d \in Turns /\ SameBook(s, d) /\ SameWire(s, d) /\ d.waiting = s.waiting /\ d.dirty = gen /\ d.mdGen = s.mdGen
    BY <1>1, <1>4 DEF Turns, SameBook, SameWire
  <1> HIDE DEF d
  <1>7. /\ t \in Turns /\ SameBook(d, t) /\ SameWire(d, t) /\ t.waiting = d.waiting /\ t.dirty = gen /\ t.mdGen = d.mdGen
        /\ t.single = "none"
    BY <1>6 DEF Turns, SameBook, SameWire
  <1> HIDE DEF t
  <1>8. /\ u \in Turns /\ SameTurn(t, u) /\ SameSingle(t, u) /\ SameType(t, u) /\ SameSetups(t, u)
        /\ SameBarrier(t, u) /\ SameRoutes(t, u) /\ (u.live => t.live)
    BY <1>7, SendIs
  <1> HIDE DEF u
  <1>9. v \in Turns /\ Aside(t, v) /\ SameBarrier(t, v) /\ SameRoutes(t, v) /\ v.live = FALSE
    BY <1>7, RetireIs
  <1>10. w \in Turns /\ Aside(u, w) /\ SameBarrier(u, w) /\ SameRoutes(u, w) /\ w.live = FALSE
    BY <1>8, RetireIs
  <1> HIDE DEF v, w
  <1>11. gen <= gen /\ s.mdGen <= gen
    BY <1>1, <1>4 DEF BookOK
  <1>12. /\ SameBook(s, t) /\ t.waiting = s.waiting /\ (t.live => s.live) /\ t.dirty = gen /\ t.mdGen = s.mdGen /\ t.single = "none"
    BY <1>6, <1>7 DEF SameBook, SameWire
  <1>13. /\ SameBook(s, u) /\ u.waiting = s.waiting /\ (u.live => s.live) /\ u.dirty = gen /\ u.mdGen = s.mdGen /\ u.single = "none"
    BY <1>8, <1>12 DEF SameBook, SameSingle, SameType, SameSetups, SameBarrier, SameRoutes
  <1>14. /\ SameBook(s, v) /\ v.waiting = s.waiting /\ (v.live => s.live) /\ v.dirty = gen /\ v.mdGen = s.mdGen /\ v.single = "none"
    BY <1>9, <1>12 DEF SameBook, Aside, SameSingle, SameType, SameSetups, SameBarrier, SameRoutes
  <1>15. /\ SameBook(s, w) /\ w.waiting = s.waiting /\ (w.live => s.live) /\ w.dirty = gen /\ w.mdGen = s.mdGen /\ w.single = "none"
    BY <1>10, <1>13 DEF SameBook, Aside, SameSingle, SameType, SameSetups, SameBarrier, SameRoutes
  <1>16. /\ Sound(s, t, gen) /\ \A q \in Reqs : t.kind[q] # "none" => s.kind[q] # "none"
    BY <1>4, <1>7, <1>11, <1>12, AsideSound
  <1>17. /\ Sound(s, u, gen) /\ \A q \in Reqs : u.kind[q] # "none" => s.kind[q] # "none"
    BY <1>4, <1>8, <1>11, <1>13, AsideSound
  <1>18. /\ Sound(s, v, gen) /\ \A q \in Reqs : v.kind[q] # "none" => s.kind[q] # "none"
    BY <1>4, <1>9, <1>11, <1>14, AsideSound
  <1>19. /\ Sound(s, w, gen) /\ \A q \in Reqs : w.kind[q] # "none" => s.kind[q] # "none"
    BY <1>4, <1>10, <1>11, <1>15, AsideSound
  <1>20. CASE Store(t)
    BY <1>3, <1>16, <1>20, SoundKept
  <1>21. CASE Store(u)
    BY <1>3, <1>17, <1>21, SoundKept
  <1>22. CASE Store(v)
    BY <1>3, <1>18, <1>22, SoundKept
  <1>23. CASE Store(w)
    BY <1>3, <1>19, <1>23, SoundKept
  <1> QED BY <1>5, <1>20, <1>21, <1>22, <1>23

\* A step outside the turns that leaves the routes alone.
LEMMA AsideKept ==
  ASSUME Inv, Quiet, wire' = wire, rt' \in Books, SameBook(rt, rt'), rt'.waiting = rt.waiting, rt'.room <= QueueCap,
         rt'.dirty = rt.dirty, rt'.mdGen = rt.mdGen, rt'.lateRows => rt.lateRows /\ rt'.single = "none"
  PROVE  Kept
  <1>1. Base /\ LinkOK /\ BookOK(rt, gen) /\ phase' = phase /\ gen' = gen /\ up' = up
    BY DEF Inv, Base, Quiet
  <1>2. BookOK(rt', gen)
    BY <1>1, SameBookOK DEF BookOK
  <1>3. LinkOK'
    BY <1>1, LinkKept
  <1>4. Base'
    BY <1>1, <1>2, <1>3 DEF Base
  <1>5. ASSUME NEW p, UpOK(rt, wire = "live", p, gen) PROVE UpOK(rt', wire = "live", p, gen)
    BY <1>5, SameBookUp
  <1>6. (DownOK(rt) => DownOK(rt')) /\ rt'.kind = rt.kind
    BY DEF DownOK, SameBook
  <1>7. Served => Served'
    BY <1>1, <1>5, <1>6 DEF Served
  <1>8. BarrierFirst
    BY <1>6 DEF BarrierFirst
  <1> QED BY <1>4, <1>7, <1>8 DEF Kept, Inv

\* cancelReadySetup takes the call out of the queue.
LEMMA CancelParkedKept ==
  ASSUME Inv, NEW i \in DOMAIN rt.parked, CancelParked(i)
  PROVE  Kept
  <1> DEFINE q == RemoveAt(rt.parked, i)
             b == [rt EXCEPT !.parked = q]
  <1>1. rt' = b /\ wire' = wire /\ Quiet
    BY DEF CancelParked
  <1>2. rt \in Books /\ BookOK(rt, gen) /\ rt.room <= QueueCap
    BY DEF Inv, Base
  <1>3. rt.parked \in Seq(Calls) /\ i \in 1 .. Len(rt.parked)
    BY <1>2 DEF Books
  <1>4. Setups!RemoveAt(rt.parked, i) \in Seq(Calls)
    BY <1>3, Setups!RemoveAtIs
  <1>5. q \in Seq(Calls)
    BY <1>4 DEF RemoveAt, Setups!RemoveAt
  <1> HIDE DEF q
  <1>6. /\ b \in Books /\ SameBook(rt, b) /\ b.waiting = rt.waiting /\ b.room = rt.room
        /\ b.dirty = rt.dirty /\ b.mdGen = rt.mdGen /\ b.lateRows = rt.lateRows /\ b.single = rt.single
    BY <1>2, <1>5 DEF Books, SameBook
  <1> HIDE DEF b
  <1>7. rt.lateRows => rt.single = "none"
    BY <1>2 DEF BookOK
  <1> QED BY <1>1, <1>2, <1>6, <1>7, AsideKept

\* The snapshot of the singleton stream is complete.
LEMMA SnapshotKept ==
  ASSUME Inv, SnapshotEnds
  PROVE  Kept
  <1> DEFINE b == [rt EXCEPT !.single = "complete"]
  <1>1. rt' = b /\ wire' = wire /\ Quiet /\ rt.single = "incomplete"
    BY DEF SnapshotEnds
  <1>2. rt \in Books /\ BookOK(rt, gen) /\ rt.room <= QueueCap
    BY DEF Inv, Base
  <1>3. /\ b \in Books /\ SameBook(rt, b) /\ b.waiting = rt.waiting /\ b.room = rt.room
        /\ b.dirty = rt.dirty /\ b.mdGen = rt.mdGen /\ b.lateRows = rt.lateRows
    BY <1>2 DEF Books, SameBook
  <1> HIDE DEF b
  <1>4. ~rt.lateRows
    BY <1>1, <1>2 DEF BookOK
  <1> QED BY <1>1, <1>2, <1>3, <1>4, AsideKept

\* The writer takes a frame off the queue.
LEMMA WriterKept ==
  ASSUME Inv, WriterDrains
  PROVE  Kept
  <1> DEFINE m == rt.room + 1
             b == [rt EXCEPT !.room = m, !.writable = TRUE]
  <1>1. rt' = b /\ wire' = wire /\ Quiet /\ rt.room < QueueCap
    BY DEF WriterDrains
  <1>2. rt \in Books /\ BookOK(rt, gen)
    BY DEF Inv, Base
  <1>3. rt.room \in Nat /\ QueueCap \in Nat
    BY <1>2, RoutesAssumption DEF Books
  <1>4. m \in Nat /\ m <= QueueCap
    BY <1>1, <1>3
  <1> HIDE DEF m
  <1>5. /\ b \in Books /\ SameBook(rt, b) /\ b.waiting = rt.waiting /\ b.room = m
        /\ b.dirty = rt.dirty /\ b.mdGen = rt.mdGen /\ b.lateRows = rt.lateRows /\ b.single = rt.single
    BY <1>2, <1>4 DEF Books, SameBook
  <1> HIDE DEF b
  <1>6. rt.lateRows => rt.single = "none"
    BY <1>2 DEF BookOK
  <1> QED BY <1>1, <1>4, <1>5, <1>6, AsideKept

\* The capacity waiter resumes the barrier.
LEMMA WaiterKept ==
  ASSUME Inv, WaiterWakes
  PROVE  Kept
  <1>1. Base /\ gen \in 0 .. MaxGen /\ phase \in Phases /\ Reqs \in SUBSET Reqs
    BY DEF Inv, Base, LinkOK
  <1>2. PICK s \in Turn(phase, Reqs) :
          Store(continueResumeRoutes([s EXCEPT !.waiting = FALSE, !.writable = s.drained > 0]))
    BY DEF WaiterWakes
  <1>3. Quiet /\ rt.waiting /\ phase # "Closed" /\ wire # "none"
    BY DEF WaiterWakes
  <1>4. /\ s \in Turns /\ SameBook(rt, s) /\ BookOK(s, gen) /\ s.phase = phase /\ s.live = (wire = "live") /\ ~s.stuck
        /\ \A ph : UpOK(rt, wire = "live", ph, gen) => UpOK(s, s.live, ph, gen)
    BY <1>1, BeginIs
  <1> DEFINE w == s.drained > 0
             b == [s EXCEPT !.waiting = FALSE, !.writable = w]
             t == continueResumeRoutes(b)
  <1>5. w \in BOOLEAN /\ Store(t)
    BY <1>2
  <1> HIDE DEF w
  <1>6. /\ b \in Turns /\ SameBook(s, b) /\ SameTurn(s, b) /\ SameSingle(s, b) /\ SameType(s, b) /\ SameWire(s, b)
        /\ b.stuck = s.stuck
    BY <1>4, <1>5 DEF Turns, SameBook, SameTurn, SameSingle, SameType, SameWire
  <1> HIDE DEF b
  <1>7. BookOK(b, gen)
    BY <1>4, <1>6, SameBookOK DEF BookOK, SameSingle, SameType
  <1>8. Continued(b, t, gen)
    BY <1>1, <1>4, <1>6, <1>7, ContinueIs
  <1> HIDE DEF t
  <1>9. t \in Turns /\ BookOK(t, gen) /\ (t.live => wire = "live") /\ b.phase = phase /\ t.phase = phase
    BY <1>4, <1>6, <1>8 DEF Continued, SameTurn, SameWire
  <1>10. \/ \A r \in Reqs : t.kind[r] # "none" => rt.kind[r] # "none"
         \/ t.pending = <<>> /\ TypeSent(t, gen)
    BY <1>4, <1>6, <1>8 DEF Continued, SameBook
  <1>11. phase' = phase /\ gen' = gen /\ up' = up
    BY <1>3 DEF Quiet
  <1>12. CASE ~EarlyCodes
    <2>1. phase \in Up
      BY <1>3, <1>12 DEF Inv, Served, DownOK
    <2>2. up /\ UpOK(s, s.live, phase, gen)
      BY <1>4, <1>12, <2>1 DEF Inv, Served
    <2>3. UpOK(b, b.live, b.phase, gen)
      BY <1>6, <1>9, <2>2, SameBookUp DEF SameWire
    <2>4. UpOK(t, t.live, phase', gen)
      BY <1>8, <1>9, <1>11, <2>1, <2>3 DEF Continued
    <2> QED BY <1>5, <1>9, <1>10, <1>11, <2>1, <2>2, <2>4, UpKept
  <1>13. CASE EarlyCodes
    <2>1. /\ rt' \in Books /\ BookOK(rt', gen) /\ rt'.room <= QueueCap
          /\ wire' = wire \/ (wire = "live" /\ wire' = "dying")
      BY <1>1, <1>5, <1>9, StoreIs
    <2>2. LinkOK'
      BY <1>1, <1>11, <2>1, LinkKept DEF Base
    <2>3. Base'
      BY <1>11, <2>1, <2>2 DEF Base
    <2> QED BY <1>13, <2>3 DEF Kept, Inv
  <1> QED BY <1>12, <1>13

\* The gateway answers a one-shot or refuses a request.
LEMMA AnswersKept ==
  ASSUME Inv, NEW r \in Reqs, GatewayAnswers(r)
  PROVE  Kept
  <1> DEFINE why == IF rt.kind[r] = "oneshot" THEN "answered" ELSE "rejected"
             k == [rt.kind EXCEPT ![r] = "none"]
             e == [rt.end EXCEPT ![r] = why]
             G == rt.gapped \ {r}
             H == rt.hosted \ {r}
             b == [rt EXCEPT !.kind = k, !.end = e, !.gapped = G, !.hosted = H]
  <1>1. /\ wire # "none" /\ phase # "Closed" /\ r \in rt.hosted /\ rt.kind[r] # "none" /\ wire' = wire /\ Quiet
    BY DEF GatewayAnswers
  <1>2. why \in Ends
    BY DEF Ends
  <1>3. rt' = b
    <2>1. rt' = [EndRoute(rt, r, why) EXCEPT !.hosted = @ \ {r}]
      BY DEF GatewayAnswers
    <2>2. EndRoute(rt, r, why) = [rt EXCEPT !.kind = k, !.end = e, !.gapped = G]
      BY DEF EndRoute
    <2>3. rt \in Books
      BY DEF Inv, Base
    <2> HIDE DEF why, k, e, G
    <2>4. [rt EXCEPT !.kind = k, !.end = e, !.gapped = G].hosted = rt.hosted
      BY <2>3 DEF Books
    <2>5. rt' = [[rt EXCEPT !.kind = k, !.end = e, !.gapped = G] EXCEPT !.hosted = H]
      BY <2>1, <2>2, <2>4
    <2>6. [[rt EXCEPT !.kind = k, !.end = e, !.gapped = G] EXCEPT !.hosted = H] = b
      OBVIOUS
    <2> QED BY <2>5, <2>6
  <1>4. rt \in Books /\ BookOK(rt, gen) /\ rt.room <= QueueCap /\ LinkOK
    BY DEF Inv, Base
  <1>5. k \in [Reqs -> Kinds \cup {"none"}] /\ k[r] = "none" /\ \A q \in Reqs : q # r => k[q] = rt.kind[q]
    BY <1>4 DEF Books
  <1> HIDE DEF why
  <1>6. e \in [Reqs -> Ends] /\ \A q \in Reqs : q # r => e[q] = rt.end[q]
    BY <1>2, <1>4 DEF Books
  <1>7. G \in SUBSET Reqs /\ H \in SUBSET Reqs /\ G = rt.gapped \ {r} /\ H = rt.hosted \ {r}
    BY <1>4 DEF Books
  <1>a. G \in SUBSET Reqs /\ H \in SUBSET Reqs
    BY <1>7
  <1> HIDE DEF k, e, G, H
  <1>8. /\ b \in Books /\ b.kind = k /\ b.end = e /\ b.gapped = G /\ b.hosted = H /\ b.room = rt.room
        /\ b.next = rt.next /\ b.pending = rt.pending /\ b.depth = rt.depth /\ b.routeGen = rt.routeGen
        /\ b.dirty = rt.dirty /\ b.mdGen = rt.mdGen /\ b.lateRows = rt.lateRows /\ b.single = rt.single
    BY <1>4, <1>5, <1>6, <1>a DEF Books
  <1> HIDE DEF b
  <1>9. ASSUME NEW q \in Reqs PROVE RouteOK(b, q)
    <2>1. RouteOK(rt, q) /\ RouteOK(rt, r)
      BY <1>4 DEF BookOK
    <2>2. CASE q = r
      BY <1>1, <1>5, <1>7, <1>8, <2>1, <2>2 DEF RouteOK
    <2>3. CASE q # r
      BY <1>5, <1>6, <1>7, <1>8, <2>1, <2>3 DEF RouteOK
    <2> QED BY <2>2, <2>3
  <1>10. BookOK(b, gen)
    BY <1>4, <1>8, <1>9 DEF BookOK, PendingOK
  <1>11. phase' = phase /\ gen' = gen /\ up' = up
    BY <1>1 DEF Quiet
  <1>12. LinkOK'
    BY <1>1, <1>4, <1>11, LinkKept
  <1>13. Base'
    BY <1>3, <1>4, <1>8, <1>10, <1>11, <1>12 DEF Base
  <1>14. \A q \in Reqs : b.kind[q] # "none" => q # r /\ b.kind[q] = rt.kind[q]
    BY <1>5, <1>8
  <1>15. ASSUME Served PROVE Served'
    <2>1. phase \in Up
      BY <1>1, <1>15 DEF Served, DownOK
    <2>2. up /\ UpOK(rt, wire = "live", phase, gen)
      BY <1>15, <2>1 DEF Served
    <2>3. HostedOK(b, wire = "live", gen)
      <3> SUFFICES ASSUME wire = "live", NEW q \in b.hosted
                   PROVE  /\ b.end[q] \notin {"cancelled", "slow"}
                          /\ b.kind[q] # "none" => b.routeGen[q] = gen /\ ~routeAwaitingResume(b, q)
        BY DEF HostedOK
      <3>1. q \in rt.hosted /\ q # r /\ q \in Reqs
        BY <1>7, <1>8
      <3> QED BY <1>5, <1>6, <1>8, <2>2, <3>1 DEF UpOK, HostedOK, routeAwaitingResume
    <2>4. ServedOK(b)
      BY <1>7, <1>8, <1>14, <2>2 DEF UpOK, ServedOK, routeAwaitingResume
    <2>5. GapOK(b, phase)
      BY <1>7, <1>8, <2>2 DEF UpOK, GapOK, routeAwaitingResume
    <2> QED BY <1>1, <1>3, <1>11, <2>1, <2>2, <2>3, <2>4, <2>5 DEF Served, UpOK, Up
  <1>16. BarrierFirst
    BY <1>3, <1>14, NothingOpened
  <1> QED BY <1>13, <1>15, <1>16 DEF Kept, Inv

------------------------------------------------------------------------------
(* The theorems.                                                           *)

\* The empty book is sound.
LEMMA InitInv ==
  ASSUME Init
  PROVE  Inv
  <1>1. /\ phase = "Disconnected" /\ gen = 0 /\ wire = "none"
        /\ rt = [next |-> 0, kind |-> [r \in Reqs |-> "none"], routeGen |-> [r \in Reqs |-> 0],
                 gapped |-> {}, pending |-> <<>>, waiting |-> FALSE, mdType |-> FALSE, mdGen |-> 0,
                 parked |-> <<>>, single |-> "none", dirty |-> 0, room |-> QueueCap, writable |-> FALSE,
                 hosted |-> {}, lateRows |-> FALSE, end |-> [r \in Reqs |-> "none"],
                 last |-> [r \in Reqs |-> "none"], depth |-> [r \in Reqs |-> 0], misrun |-> FALSE]
    BY DEF Init, LinkInit
  <1>2. MaxReq \in Nat /\ MaxGen \in Nat /\ QueueCap \in Nat
    BY RoutesAssumption
  <1>3. 0 \in 0 .. MaxReq /\ 0 \in 0 .. MaxGen /\ <<>> \in Seq(Reqs) /\ <<>> \in Seq(Calls)
    BY <1>2
  <1>4. rt \in Books
    BY <1>1, <1>2, <1>3 DEF Books, Kinds, Ends, Events
  <1>5. \A r \in Reqs : rt.kind[r] = "none" /\ rt.end[r] = "none" /\ rt.depth[r] = 0
    BY <1>1
  <1>6. rt.pending = <<>> /\ rt.hosted = {} /\ rt.gapped = {} /\ rt.room = QueueCap
        /\ rt.dirty = 0 /\ rt.mdGen = 0 /\ ~rt.lateRows /\ ~rt.waiting
    BY <1>1
  <1>7. \A r \in Reqs : RouteOK(rt, r)
    BY <1>5, <1>6 DEF RouteOK
  <1>8. PendingOK(rt)
    BY <1>2, <1>6 DEF PendingOK
  <1>a. gen = 0 /\ rt.dirty <= gen /\ rt.mdGen <= gen /\ ~rt.lateRows
    BY <1>1, <1>6
  <1>9. BookOK(rt, gen)
    BY <1>7, <1>8, <1>a DEF BookOK
  <1>10. LinkOK
    BY <1>1, <1>3 DEF LinkOK, Phases, Up
  <1>11. Base
    BY <1>2, <1>4, <1>6, <1>9, <1>10 DEF Base
  <1>12. Served
    BY <1>1, <1>5, <1>6 DEF Served, DownOK, Up
  <1> QED BY <1>11, <1>12 DEF Inv

\* Every step keeps the invariant and opens routes behind the barrier only.
LEMMA NextKept ==
  ASSUME Inv, Next
  PROVE  Kept
  <1>1. ASSUME NEW r \in Reqs, AbandonOneShot(r) \/ GatewayAnswers(r) PROVE Kept
    BY <1>1, AbandonKept, AnswersKept
  <1>2. ASSUME NEW r \in Reqs, NEW cause \in {"cancelled", "slow"}, CloseStream(r, cause) PROVE Kept
    BY <1>2, CloseStreamKept
  <1>3. ASSUME NEW k \in Offered, Submit(k) PROVE Kept
    BY <1>3, SubmitKept
  <1>4. ASSUME NEW i \in DOMAIN rt.parked, CancelParked(i) PROVE Kept
    BY <1>4, CancelParkedKept
  <1>5. CASE Connect \/ AttachTransport \/ BootstrapCompletes
    BY <1>5, ConnectKept, AttachKept, BootstrapKept
  <1>6. CASE ConnectivityLost \/ ConnectivityRestoredDataLost \/ ConnectivityRestoredDataMaintained
    BY <1>6, LostKept, DataLostKept, MaintainedKept
  <1>7. CASE WireStops \/ TransportLost \/ LossCloses \/ EngineCloses
    BY <1>7, WireStopsKept, TransportLostKept, LossClosesKept, EngineClosesKept
  <1>8. CASE CloseSingleton \/ SnapshotEnds \/ WriterDrains \/ WaiterWakes
    BY <1>8, CloseSingletonKept, SnapshotKept, WriterKept, WaiterKept
  <1> QED BY <1>1, <1>2, <1>3, <1>4, <1>5, <1>6, <1>7, <1>8 DEF Next

\* The invariant is inductive.
LEMMA StepInv ==
  ASSUME Inv, [Next]_vars
  PROVE  Inv' /\ [~EarlyCodes => BarrierFirst]_vars
  <1>1. CASE Next
    BY <1>1, NextKept DEF Kept
  <1>2. CASE UNCHANGED vars
    BY <1>2 DEF vars, linkVars, Inv, Base, LinkOK, Served
  <1> QED BY <1>1, <1>2

\* The routing book is sound in every reachable state.
THEOREM BookSound == Spec => []Inv
  <1>1. Init => Inv
    BY InitInv
  <1>2. Inv /\ [Next]_vars => Inv'
    BY StepInv
  <1> QED BY <1>1, <1>2, PTL DEF Spec

\* The book is well formed: every route it holds was handed out.
LEMMA TypeFollows ==
  ASSUME Inv
  PROVE  TypeOK
  <1>1. Base /\ rt \in Books /\ BookOK(rt, gen) /\ gen \in 0 .. MaxGen /\ MaxGen \in Nat
    BY RoutesAssumption DEF Inv, Base, LinkOK
  <1>2. /\ rt.next \in 0 .. MaxReq
        /\ rt.kind \in [Reqs -> Kinds \cup {"none"}]
        /\ rt.routeGen \in [Reqs -> 0 .. MaxGen]
        /\ rt.parked \in Seq(Calls)
        /\ rt.single \in {"none", "incomplete", "complete"}
        /\ rt.end \in [Reqs -> Ends] /\ rt.last \in [Reqs -> Events]
    BY <1>1 DEF Books
  <1>3. rt.gapped \subseteq AutoIn(rt)
    BY <1>1 DEF Books, BookOK, RouteOK, AutoIn
  <1>4. rt.dirty \in 0 .. gen /\ rt.mdGen \in 0 .. gen
    <2>1. rt.dirty \in Nat /\ rt.mdGen \in Nat /\ rt.dirty <= gen /\ rt.mdGen <= gen
      BY <1>1 DEF Books, BookOK
    <2> QED BY <1>1, <2>1
  <1>5. rt.room \in 0 .. QueueCap
    <2>1. rt.room \in Nat /\ rt.room <= QueueCap /\ QueueCap \in Nat
      BY <1>1, RoutesAssumption DEF Books, Base
    <2> QED BY <2>1
  <1>6. OpenIn(rt) \cup rt.hosted \subseteq 1 .. rt.next
    <2> SUFFICES ASSUME NEW r \in OpenIn(rt) \cup rt.hosted PROVE r \in 1 .. rt.next
      OBVIOUS
    <2>1. r \in Reqs
      BY <1>1 DEF OpenIn, Books
    <2>2. ~(r > rt.next)
      BY <1>1, <2>1 DEF OpenIn, BookOK, RouteOK
    <2> QED BY <1>2, <2>1, <2>2 DEF Reqs
  <1>7. rt.pending \in SeqOf(1 .. rt.next, MaxReq)
    <2>1. rt.pending \in Seq(Reqs) /\ Len(rt.pending) <= MaxReq /\ \A i \in DOMAIN rt.pending : rt.pending[i] <= rt.next
      BY <1>1 DEF Books, BookOK, PendingOK
    <2>2. \A i \in 1 .. Len(rt.pending) : rt.pending[i] \in 1 .. rt.next
      <3> SUFFICES ASSUME NEW i \in 1 .. Len(rt.pending) PROVE rt.pending[i] \in 1 .. rt.next
        OBVIOUS
      <3>1. rt.pending[i] \in Reqs /\ rt.pending[i] <= rt.next
        BY <2>1, ElementOfSeq
      <3> QED BY <1>2, <3>1 DEF Reqs
    <2>3. rt.pending \in [1 .. Len(rt.pending) -> 1 .. rt.next]
      BY <2>1, <2>2
    <2>4. Len(rt.pending) \in 0 .. MaxReq
      BY <2>1, RoutesAssumption
    <2> QED BY <2>3, <2>4 DEF SeqOf
  <1> QED BY <1>2, <1>3, <1>4, <1>5, <1>6, <1>7 DEF TypeOK

\* Every reachable book is well formed, whatever codes the gateway sends.
THEOREM TypeCorrect == Spec => []TypeOK
  <1>1. Inv => TypeOK
    BY TypeFollows
  <1> QED BY <1>1, BookSound, PTL

\* The book of a session that is up is served.
LEMMA ServedFollows ==
  ASSUME Inv, ~EarlyCodes
  PROVE  OpenMeansServed /\ ReadyMeansResumed /\ NoOrphanStream
  <1>1. Base /\ Served /\ rt \in Books /\ BookOK(rt, gen) /\ LinkOK
    BY DEF Inv, Base
  <1>2. OpenMeansServed
    <2> SUFFICES ASSUME NEW r \in Reqs, rt.kind[r] # "none"
                 PROVE  \/ r \in rt.hosted /\ wire # "none"
                        \/ rt.kind[r] = "auto" /\ (r \in rt.gapped \/ routeAwaitingResume(rt, r))
      BY DEF OpenMeansServed, OpenIn
    <2>1. CASE phase \in Up
      <3>1. wire # "none" /\ ServedOK(rt)
        BY <1>1, <2>1 DEF LinkOK, Served, UpOK
      <3> QED BY <3>1 DEF ServedOK
    <2>2. CASE phase \notin Up
      <3>1. phase # "Closed"
        BY <1>1, <2>2 DEF Served
      <3>2. r \in rt.gapped
        BY <1>1, <2>2, <3>1 DEF Served, DownOK
      <3> QED BY <1>1, <3>2 DEF BookOK, RouteOK
    <2> QED BY <2>1, <2>2
  <1>3. ReadyMeansResumed
    <2> DEFINE w == With(rt, [phase |-> phase, live |-> wire = "live"])
    <2> SUFFICES ASSUME isReady(w), phase = "Ready" PROVE AutoIn(rt) \subseteq rt.hosted /\ rt.gapped = {}
      BY DEF ReadyMeansResumed
    <2>1. w.pending = rt.pending
      BY <1>1 DEF With, Books
    <2> HIDE DEF w
    <2>2. rt.pending = <<>>
      BY <2>1 DEF isReady
    <2>3. \A r \in Reqs : ~routeAwaitingResume(rt, r)
      BY <2>2 DEF routeAwaitingResume
    <2>4. ServedOK(rt) /\ GapOK(rt, "Ready")
      BY <1>1 DEF Served, UpOK, Up
    <2>5. AutoIn(rt) \subseteq rt.hosted
      BY <2>3, <2>4 DEF ServedOK, AutoIn
    <2>6. rt.gapped = {}
      BY <1>1, <2>3, <2>4 DEF GapOK, Books
    <2> QED BY <2>5, <2>6
  <1>4. NoOrphanStream
    <2> SUFFICES ASSUME wire = "live", NEW r \in rt.hosted PROVE rt.end[r] \notin {"cancelled", "slow"}
      BY DEF NoOrphanStream
    <2>1. CASE phase \in Up
      BY <1>1, <2>1 DEF Served, UpOK, HostedOK
    <2>2. CASE phase \notin Up
      <3>1. phase # "Closed"
        BY <1>1 DEF LinkOK
      <3> QED BY <1>1, <2>2, <3>1 DEF Served, DownOK
    <2> QED BY <2>1, <2>2
  <1> QED BY <1>2, <1>3, <1>4

\* Nobody waits on a dead connection, and a session that takes new work has brought
\* back every surviving stream: with a gateway that sends no code before the greetings
\* (early codes do break this, see the README).
THEOREM BookIsServed == ~EarlyCodes => (Spec => []BookServed)
  <1> SUFFICES ASSUME ~EarlyCodes PROVE Spec => []BookServed
    OBVIOUS
  <1>1. Inv => BookServed
    BY TypeFollows, ServedFollows DEF BookServed
  <1> QED BY <1>1, BookSound, PTL

\* Closing a stream leaves nothing behind on the live connection.
THEOREM NothingOrphaned == ~EarlyCodes => (Spec => []NoOrphanStream)
  <1> SUFFICES ASSUME ~EarlyCodes PROVE Spec => []NoOrphanStream
    OBVIOUS
  <1>1. Inv => NoOrphanStream
    BY ServedFollows
  <1> QED BY <1>1, BookSound, PTL

\* Gap and its end alternate on every open stream, whatever codes and losses overlap.
THEOREM GapsDoAlternate == Spec => []GapsAlternate
  <1>1. Inv => GapsAlternate
    BY DEF Inv, Base, BookOK, RouteOK, GapsAlternate, OpenIn
  <1> QED BY <1>1, BookSound, PTL

\* A request-ID-less stream never shares its connection with rows of a closed one.
THEOREM RowsStayApart == Spec => []NoLateRows
  <1>1. Inv => NoLateRows
    BY DEF Inv, Base, BookOK, NoLateRows
  <1> QED BY <1>1, BookSound, PTL

\* New requests enter a connection behind the barrier.
THEOREM WorkBehindBarrier == ~EarlyCodes => (Spec => NewWorkAfterBarrier)
  <1> SUFFICES ASSUME ~EarlyCodes PROVE Spec => NewWorkAfterBarrier
    OBVIOUS
  <1> DEFINE A == \A r \in Reqs :
                    r \in OpenIn(rt)' /\ r \notin OpenIn(rt) =>
                      /\ rt'.pending = <<>>
                      /\ rt'.mdType => rt'.mdGen = gen
                      /\ AutoIn(rt)' \subseteq rt'.hosted
  <1>1. ASSUME BarrierFirst PROVE A
    <2>1. OpenIn(rt)' = {r \in Reqs : rt'.kind[r] # "none"} /\ AutoIn(rt)' = {r \in Reqs : rt'.kind[r] = "auto"}
      BY DEF OpenIn, AutoIn
    <2>2. OpenIn(rt) = {r \in Reqs : rt.kind[r] # "none"}
      BY DEF OpenIn
    <2> QED BY <1>1, <2>1, <2>2 DEF BarrierFirst, TypeSent
  <1>2. Inv /\ [Next]_vars => [A]_vars
    BY <1>1, StepInv
  <1> HIDE DEF A
  <1>3. Spec => [][A]_vars
    BY <1>2, BookSound, PTL DEF Spec
  <1> QED BY <1>3 DEF A, NewWorkAfterBarrier
====
