---------------------------- MODULE OrdersProofs ----------------------------
(***************************************************************************)
(* Order handles for every number of orders, every load and every queue     *)
(* capacity: the inductive invariant that ties a handle to its place frame   *)
(* and to its connection, the safety properties it implies, and the proof   *)
(* that Orders implements OrderContract.                                     *)
(***************************************************************************)
EXTENDS Orders, SequenceTheorems, TLAPS

------------------------------------------------------------------------------
(* The inductive invariant.                                                *)

\* What holds of an entry, its frame and its result whether the handle is open
\* or not.
Base(o, h, f, r, ask, nx) ==
    /\ h.kind = "none" <=> o > nx
    /\ h.kind = "none" => ~h.open /\ ~h.recovery /\ f = "none" /\ ~ask
    /\ h.kind = "preview" => f = "none"
    /\ h.kind = "exercise" => f \in {"none", "written"}
    /\ ask => h.kind = "preview"
    /\ r \in {"none", f}
    /\ ~h.misled /\ h.starts <= 1
    /\ h.replaced # 0 => h.replaced = h.placed
    /\ h.open => h.err = "none"
    /\ h.err = "interrupted" /\ h.kind # "exercise" => f \in {"none", "unwritten"}
    /\ ~h.open => ~h.write /\ h.heard = 0 /\ h.known = 0

\* What an open handle relies on: its connection, or the gap it was told of.
Live(h, f, r, ask, ep, w, ph) ==
    h.open =>
      /\ ph # "Closed"
      /\ h.heard <= h.known /\ h.known <= ep
      /\ h.kind = "preview" => ask
      /\ h.kind # "preview" => IF w = "none" THEN h.gapped /\ ph = "Reconnecting" ELSE h.known = ep
      /\ h.kind # "preview" /\ ~h.recovery => h.known = h.placed
      /\ h.kind = "order" =>
           /\ \/ h.write /\ h.starts = 0
              \/ ~h.write /\ (h.starts = 1 \/ (h.starts = 0 /\ f = "partial"))
           /\ h.starts = 0 => h.heard = 0
      /\ h.write => h.kind = "order" /\ w # "none" /\ (f = "queued" \/ r # "none")

EntryOK(o, h, f, r, ask, nx, ep, w, ph) ==
    Base(o, h, f, r, ask, nx) /\ Live(h, f, r, ask, ep, w, ph)

BookInv ==
    \A o \in IDs : EntryOK(o, book[o], io.frame[o], io.result[o], o \in io.asked, next, io.epoch, wire, phase)

\* The queue holds the queued frames, each once.
QueueInv ==
    /\ \A i \in 1 .. Len(io.queue) : io.frame[io.queue[i]] = "queued"
    /\ \A i, j \in 1 .. Len(io.queue) : io.queue[i] = io.queue[j] => i = j
    /\ \A o \in IDs : io.frame[o] = "queued" => \E i \in 1 .. Len(io.queue) : io.queue[i] = o

\* The legs of the bracket that failed.
FailedInv ==
    /\ failed.legs \subseteq IDs
    /\ \A o \in failed.legs : book[o].kind # "none"
    /\ BracketAccounted

StateOK == next \in 0 .. N /\ book \in [IDs -> Entries] /\ io \in Views

IInv == StateOK /\ BookInv /\ QueueInv /\ FailedInv

------------------------------------------------------------------------------
(* What the functions of the actor do to one entry.                        *)

\* The bounds as the proofs use them.
LEMMA Capacity == EventCap \in Nat /\ EventCap > 0 /\ N \in Nat
  BY OrdersAssumption

\* An entry stays what it is, an ended one for good, and lost continuity is
\* never regained.
Evolves(h, g) ==
    /\ g \in Entries
    /\ g.kind = h.kind
    /\ ~h.open => g = h
    /\ h.recovery => g.recovery

\* Two changes of an entry in a row are one.
LEMMA EvolvesTwice ==
    ASSUME NEW h, NEW g, NEW k, Evolves(h, g), Evolves(g, k)
    PROVE  Evolves(h, k)
  BY DEF Evolves

\* closeOrderRoute keeps what the caller may still ask of an ended handle.
LEMMA ClosedEntry ==
    ASSUME NEW h \in Entries, NEW why \in Causes
    PROVE  LET c == closeOrderRoute(h, why) IN
           /\ c \in Entries
           /\ c.kind = h.kind /\ c.starts = h.starts /\ c.recovery = h.recovery /\ c.misled = h.misled
           /\ c.replaced = h.replaced /\ c.placed = h.placed
           /\ c.err = IF h.err = "none" THEN why ELSE h.err
           /\ c.open = FALSE /\ c.write = FALSE /\ c.heard = 0 /\ c.known = 0
  <1>1. Absent \in Entries
    BY Capacity DEF Absent, Entries, Kinds, Causes
  <1>2. Absent.open = FALSE /\ Absent.write = FALSE /\ Absent.heard = 0 /\ Absent.known = 0
    BY DEF Absent
  <1>3. (IF h.err = "none" THEN why ELSE h.err) \in Causes
    BY DEF Entries
  <1>4. /\ h.kind \in Kinds /\ h.starts \in Nat /\ h.recovery \in BOOLEAN /\ h.misled \in BOOLEAN
        /\ h.replaced \in Nat /\ h.placed \in Nat
    BY DEF Entries
  <1>5. closeOrderRoute(h, why) \in Entries
    BY <1>1, <1>3, <1>4 DEF closeOrderRoute, Entries
  <1> QED
    BY <1>1, <1>2, <1>5 DEF closeOrderRoute, Entries

\* An open handle may end anywhere, with a retryable cause only where the
\* broker has nothing.
LEMMA CloseOK ==
    ASSUME NEW o, NEW h \in Entries, NEW f, NEW r, NEW ask, NEW nx, NEW ep, NEW w, NEW ph,
           Base(o, h, f, r, ask, nx), h.open, NEW why \in Causes,
           why = "interrupted" /\ h.kind # "exercise" => f \in {"none", "unwritten"}
    PROVE  /\ EntryOK(o, closeOrderRoute(h, why), f, r, ask, nx, ep, w, ph)
           /\ Evolves(h, closeOrderRoute(h, why))
           /\ ~closeOrderRoute(h, why).open
  <1> DEFINE c == closeOrderRoute(h, why)
  <1>1. /\ c \in Entries
        /\ c.kind = h.kind /\ c.starts = h.starts /\ c.recovery = h.recovery /\ c.misled = h.misled
        /\ c.replaced = h.replaced /\ c.placed = h.placed
        /\ c.err = IF h.err = "none" THEN why ELSE h.err
        /\ c.open = FALSE /\ c.write = FALSE /\ c.heard = 0 /\ c.known = 0
    BY ClosedEntry
  <1> HIDE DEF c
  <1>2. Base(o, c, f, r, ask, nx)
    BY <1>1 DEF Base
  <1>3. Live(c, f, r, ask, ep, w, ph)
    BY <1>1 DEF Live
  <1>4. Evolves(h, c)
    BY <1>1 DEF Evolves
  <1> QED
    BY <1>1, <1>2, <1>3, <1>4 DEF EntryOK, c

\* The fields the invariant does not mention may change.
Alike(h, g) ==
    /\ g \in Entries
    /\ g.kind = h.kind /\ g.open = h.open /\ g.write = h.write /\ g.gapped = h.gapped
    /\ g.recovery = h.recovery /\ g.err = h.err /\ g.starts = h.starts /\ g.placed = h.placed
    /\ g.known = h.known /\ g.heard = h.heard /\ g.replaced = h.replaced /\ g.misled = h.misled

\* A change of the event buffer alone disturbs nothing.
LEMMA AlikeOK ==
    ASSUME NEW o, NEW h \in Entries, NEW g, NEW f, NEW r, NEW ask, NEW nx, NEW ep, NEW w, NEW ph,
           EntryOK(o, h, f, r, ask, nx, ep, w, ph), Alike(h, g)
    PROVE  EntryOK(o, g, f, r, ask, nx, ep, w, ph) /\ (h.open => Evolves(h, g))
  <1>1. Base(o, g, f, r, ask, nx)
    BY DEF Base, EntryOK, Alike
  <1>2. Live(g, f, r, ask, ep, w, ph)
    BY DEF Live, EntryOK, Alike
  <1> QED
    BY <1>1, <1>2 DEF EntryOK, Evolves, Alike

\* emitEvent: the event is queued, or the observation ends.
LEMMA EmitCases ==
    ASSUME NEW h \in Entries
    PROVE  \/ ~h.open /\ Emit(h) = h
           \/ h.open /\ Emit(h) = closeOrderRoute(h, "slow") /\ ~Emit(h).open
           \/ /\ h.open /\ Emit(h) = [h EXCEPT !.queued = @ + 1] /\ Emit(h).open
              /\ h.queued + 1 \in 0 .. EventCap
  <1>1. closeOrderRoute(h, "slow").open = FALSE
    BY ClosedEntry DEF Causes
  <1>2. CASE ~h.open
    BY <1>2 DEF Emit
  <1>3. CASE h.open /\ h.queued = EventCap
    BY <1>1, <1>3 DEF Emit
  <1>4. CASE h.open /\ h.queued # EventCap
    <2>1. h.queued \in 0 .. EventCap
      BY DEF Entries
    <2>2. Emit(h) = [h EXCEPT !.queued = @ + 1]
      BY <1>4 DEF Emit
    <2>3. Emit(h).open
      BY <1>4, <2>2 DEF Entries
    <2> QED
      BY <1>4, <2>1, <2>2, <2>3, Capacity
  <1> QED
    BY <1>2, <1>3, <1>4

\* An event reaches the handle, or the full handle ends with the reason.
LEMMA EmitOK ==
    ASSUME NEW o, NEW h \in Entries, NEW f, NEW r, NEW ask, NEW nx, NEW ep, NEW w, NEW ph,
           EntryOK(o, h, f, r, ask, nx, ep, w, ph)
    PROVE  /\ EntryOK(o, Emit(h), f, r, ask, nx, ep, w, ph)
           /\ Evolves(h, Emit(h))
  <1>1. CASE ~h.open /\ Emit(h) = h
    BY <1>1 DEF Evolves
  <1>2. CASE h.open /\ Emit(h) = closeOrderRoute(h, "slow")
    BY <1>2, CloseOK DEF EntryOK, Causes
  <1>3. CASE h.open /\ Emit(h) = [h EXCEPT !.queued = @ + 1] /\ h.queued + 1 \in 0 .. EventCap
    <2>1. Alike(h, Emit(h))
      BY <1>3 DEF Entries, Alike
    <2> QED
      BY <1>3, <2>1, AlikeOK
  <1> QED
    BY <1>1, <1>2, <1>3, EmitCases

\* What the link does around a handle.
LEMMA LinkOK ==
    ASSUME NEW o, NEW h, NEW f, NEW r, NEW ask, NEW nx, NEW ep, NEW w, NEW ph, NEW w2, NEW ph2,
           EntryOK(o, h, f, r, ask, nx, ep, w, ph), ph2 = "Closed" => ph = "Closed",
           \/ w # "none" /\ w2 # "none"
           \/ w = "none" /\ w2 = "none" /\ (ph = "Reconnecting" => ph2 = "Reconnecting")
    PROVE  EntryOK(o, h, f, r, ask, nx, ep, w2, ph2)
  BY DEF EntryOK, Live

\* Ended, an entry fits any connection.
LEMMA EndedOK ==
    ASSUME NEW o, NEW h, NEW f, NEW r, NEW ask, NEW nx, NEW ep, NEW w, NEW ph,
           NEW ask2, NEW ep2, NEW w2, NEW ph2,
           EntryOK(o, h, f, r, ask, nx, ep, w, ph), ~h.open, ask2 => ask
    PROVE  EntryOK(o, h, f, r, ask2, nx, ep2, w2, ph2)
  BY DEF EntryOK, Base, Live

\* emitGap leaves no order handle that was not told.
LEMMA GapOK ==
    ASSUME NEW o, NEW h \in Entries, NEW f, NEW r, NEW ask, NEW nx, NEW ep, NEW w, NEW ph,
           EntryOK(o, h, f, r, ask, nx, ep, w, ph)
    PROVE  /\ EntryOK(o, EmitGap(h), f, r, ask, nx, ep, w, ph)
           /\ Evolves(h, EmitGap(h))
           /\ IsOrder(EmitGap(h)) => EmitGap(h).gapped
  <1>1. CASE ~(IsOrder(h) /\ ~h.gapped)
    BY <1>1 DEF EmitGap, Evolves
  <1>2. CASE IsOrder(h) /\ ~h.gapped
    <2> DEFINE g == [h EXCEPT !.gapped = TRUE]
    <2>1. /\ g \in Entries /\ g.gapped
          /\ g.kind = h.kind /\ g.open = h.open /\ g.write = h.write
          /\ g.recovery = h.recovery /\ g.err = h.err /\ g.starts = h.starts /\ g.placed = h.placed
          /\ g.known = h.known /\ g.heard = h.heard /\ g.replaced = h.replaced /\ g.misled = h.misled
      BY DEF Entries
    <2>2. EmitGap(h) = Emit(g)
      BY <1>2 DEF EmitGap
    <2> HIDE DEF g
    <2>3. EntryOK(o, g, f, r, ask, nx, ep, w, ph) /\ Evolves(h, g)
      BY <1>2, <2>1 DEF EntryOK, Base, Live, Evolves, IsOrder
    <2>4. EntryOK(o, Emit(g), f, r, ask, nx, ep, w, ph) /\ Evolves(g, Emit(g))
      BY <2>1, <2>3, EmitOK
    <2>5. Emit(g).open => Emit(g).gapped
      BY <2>1, EmitCases DEF Entries
    <2> QED
      BY <2>2, <2>3, <2>4, <2>5, EvolvesTwice DEF IsOrder
  <1> QED
    BY <1>1, <1>2

\* Code 1102 ends the gap on a connection that is still there.
LEMMA RestoredOK ==
    ASSUME NEW o, NEW h \in Entries, NEW f, NEW r, NEW ask, NEW nx, NEW ep, NEW w, NEW ph,
           EntryOK(o, h, f, r, ask, nx, ep, w, ph), w # "none"
    PROVE  /\ EntryOK(o, EmitRestored(h), f, r, ask, nx, ep, w, ph)
           /\ Evolves(h, EmitRestored(h))
  <1>1. CASE ~(IsOrder(h) /\ h.gapped)
    BY <1>1 DEF EmitRestored, Evolves
  <1>2. CASE IsOrder(h) /\ h.gapped
    <2> DEFINE g == [h EXCEPT !.gapped = FALSE]
    <2>1. /\ g \in Entries
          /\ g.kind = h.kind /\ g.open = h.open /\ g.write = h.write
          /\ g.recovery = h.recovery /\ g.err = h.err /\ g.starts = h.starts /\ g.placed = h.placed
          /\ g.known = h.known /\ g.heard = h.heard /\ g.replaced = h.replaced /\ g.misled = h.misled
      BY DEF Entries
    <2>2. EmitRestored(h) = Emit(g)
      BY <1>2 DEF EmitRestored
    <2> HIDE DEF g
    <2>3. EntryOK(o, g, f, r, ask, nx, ep, w, ph) /\ Evolves(h, g)
      BY <1>2, <2>1 DEF EntryOK, Base, Live, Evolves, IsOrder
    <2>4. EntryOK(o, Emit(g), f, r, ask, nx, ep, w, ph) /\ Evolves(g, Emit(g))
      BY <2>1, <2>3, EmitOK
    <2> QED
      BY <2>2, <2>3, <2>4, EvolvesTwice
  <1> QED
    BY <1>1, <1>2

\* requireOrderRecovery carries every handle that knows of the gap into the next
\* data epoch, marked.
LEMMA RecoveryOK ==
    ASSUME NEW o, NEW h \in Entries, NEW f, NEW r, NEW ask, NEW nx, NEW ep \in Nat, NEW w, NEW ph,
           NEW w2, NEW ph2,
           EntryOK(o, h, f, r, ask, nx, ep, w, ph), IsOrder(h) => h.gapped,
           h.kind = "none" => ~h.open,
           w2 # "none", ph2 # "Closed"
    PROVE  /\ EntryOK(o, requireOrderRecovery(h, ep + 1), f, r, ask, nx, ep + 1, w2, ph2)
           /\ Evolves(h, requireOrderRecovery(h, ep + 1))
  <1>0. h.kind \in Kinds /\ h.known \in Nat /\ h.heard \in Nat
    BY DEF Entries
  <1>1. CASE ~IsOrder(h)
    <2>1. requireOrderRecovery(h, ep + 1) = h /\ (h.open => h.kind = "preview")
      BY <1>0, <1>1 DEF requireOrderRecovery, IsOrder, Kinds
    <2> QED
      BY <1>0, <2>1 DEF EntryOK, Live, Evolves
  <1>2. CASE IsOrder(h)
    <2> DEFINE g == [h EXCEPT !.gapped = FALSE, !.recovery = TRUE, !.known = ep + 1]
    <2>1. /\ g \in Entries /\ g.recovery /\ g.known = ep + 1
          /\ g.kind = h.kind /\ g.open = h.open /\ g.write = h.write
          /\ g.err = h.err /\ g.starts = h.starts /\ g.placed = h.placed
          /\ g.heard = h.heard /\ g.replaced = h.replaced /\ g.misled = h.misled
      <3>1. ep + 1 \in Nat
        OBVIOUS
      <3>2. g \in Entries
        BY <3>1 DEF Entries
      <3> QED
        BY <3>2 DEF Entries
    <2>2. requireOrderRecovery(h, ep + 1) = Emit(g)
      BY <1>2 DEF requireOrderRecovery
    <2> HIDE DEF g
    <2>3. Base(o, g, f, r, ask, nx) /\ Evolves(h, g)
      BY <1>2, <2>1 DEF EntryOK, Base, Evolves, IsOrder
    <2>4. Live(g, f, r, ask, ep + 1, w2, ph2)
      BY <1>0, <1>2, <2>1 DEF EntryOK, Live, IsOrder
    <2>5. EntryOK(o, Emit(g), f, r, ask, nx, ep + 1, w2, ph2) /\ Evolves(g, Emit(g))
      BY <2>1, <2>3, <2>4, EmitOK DEF EntryOK
    <2> QED
      BY <2>2, <2>3, <2>5, EvolvesTwice
  <1> QED
    BY <1>1, <1>2

\* No exercise and no preview outlives its connection.
LEMMA InterruptOK ==
    ASSUME NEW o, NEW h \in Entries, NEW f, NEW r, NEW ask, NEW nx, NEW ep, NEW w, NEW ph,
           EntryOK(o, h, f, r, ask, nx, ep, w, ph)
    PROVE  /\ EntryOK(o, Interrupt(h), f, r, FALSE, nx, ep, w, ph)
           /\ Evolves(h, Interrupt(h))
           /\ Interrupt(h).open => Interrupt(h) = h /\ h.kind = "order"
  <1>1. CASE h.kind \in {"exercise", "preview"} /\ h.open
    <2>1. Interrupt(h) = closeOrderRoute(h, "interrupted")
      BY <1>1 DEF Interrupt
    <2>2. h.kind = "preview" => f = "none"
      BY DEF EntryOK, Base
    <2>3. /\ EntryOK(o, Interrupt(h), f, r, ask, nx, ep, w, ph)
          /\ Evolves(h, Interrupt(h)) /\ ~Interrupt(h).open
      BY <1>1, <2>1, <2>2, CloseOK DEF EntryOK, Causes
    <2> QED
      BY <2>3, EndedOK
  <1>2. CASE ~(h.kind \in {"exercise", "preview"} /\ h.open)
    <2>1. Interrupt(h) = h
      BY <1>2 DEF Interrupt
    <2>2. h.kind \in Kinds /\ (h.kind = "none" => ~h.open)
      BY DEF Entries, EntryOK, Base
    <2> QED
      BY <1>2, <2>1, <2>2 DEF EntryOK, Base, Live, Evolves, Kinds
  <1> QED
    BY <1>1, <1>2

\* disconnectRoutes, once every write result is in.
LEMMA LossOK ==
    ASSUME NEW o, NEW h \in Entries, NEW f, NEW r, NEW ask, NEW nx, NEW ep, NEW w, NEW ph,
           EntryOK(o, h, f, r, ask, nx, ep, w, ph), f # "queued", r = "none"
    PROVE  /\ EntryOK(o, disconnectRoutes(h), f, r, FALSE, nx, ep, "none", "Reconnecting")
           /\ Evolves(h, disconnectRoutes(h))
  <1> DEFINE k == Interrupt(h)
  <1>1. /\ EntryOK(o, k, f, r, FALSE, nx, ep, w, ph)
        /\ Evolves(h, k) /\ k \in Entries
        /\ k.open => k.kind = "order"
    BY InterruptOK DEF Evolves
  <1>2. disconnectRoutes(h) = EmitGap(k)
    BY DEF disconnectRoutes
  <1> HIDE DEF k
  <1>3. CASE ~k.open
    <2>1. EmitGap(k) = k
      BY <1>3 DEF EmitGap, IsOrder
    <2>2. EntryOK(o, k, f, r, FALSE, nx, ep, "none", "Reconnecting")
      BY <1>1, <1>3, EndedOK
    <2> QED
      BY <1>1, <1>2, <2>1, <2>2
  <1>4. CASE k.open
    <2> DEFINE g == IF k.gapped THEN k ELSE [k EXCEPT !.gapped = TRUE]
    <2>1. /\ g \in Entries /\ g.gapped
          /\ g.kind = k.kind /\ g.open = k.open /\ g.write = k.write
          /\ g.recovery = k.recovery /\ g.err = k.err /\ g.starts = k.starts /\ g.placed = k.placed
          /\ g.known = k.known /\ g.heard = k.heard /\ g.replaced = k.replaced /\ g.misled = k.misled
      BY <1>1 DEF Entries
    <2>2. EmitGap(k) = IF k.gapped THEN g ELSE Emit(g)
      BY <1>1, <1>4 DEF EmitGap, IsOrder
    <2> HIDE DEF g
    <2>3. k.known \in Nat /\ k.heard \in Nat /\ k.known <= ep
      BY <1>1, <1>4 DEF Entries, EntryOK, Live
    <2>4. Base(o, g, f, r, FALSE, nx) /\ Evolves(k, g)
      BY <1>1, <1>4, <2>1 DEF EntryOK, Base, Evolves
    <2>5. Live(g, f, r, FALSE, ep, "none", "Reconnecting")
      BY <1>1, <1>4, <2>1, <2>3 DEF EntryOK, Live
    <2>6. EntryOK(o, Emit(g), f, r, FALSE, nx, ep, "none", "Reconnecting") /\ Evolves(g, Emit(g))
      BY <2>1, <2>4, <2>5, EmitOK DEF EntryOK
    <2>7. EntryOK(o, EmitGap(k), f, r, FALSE, nx, ep, "none", "Reconnecting")
      BY <2>2, <2>4, <2>5, <2>6 DEF EntryOK
    <2>8. Evolves(k, EmitGap(k))
      BY <2>2, <2>4, <2>6, EvolvesTwice
    <2> QED
      BY <1>1, <1>2, <2>7, <2>8, EvolvesTwice
  <1> QED
    BY <1>3, <1>4

\* The handles that end with the connection, or with the engine.
LEMMA EndWithLossOK ==
    ASSUME NEW o, NEW h \in Entries, NEW f, NEW r, NEW ask, NEW nx, NEW ep, NEW w, NEW ph, NEW w2, NEW ph2,
           EntryOK(o, h, f, r, ask, nx, ep, w, ph)
    PROVE  /\ EntryOK(o, EndWithLoss(h), f, r, FALSE, nx, ep, w2, ph2)
           /\ Evolves(h, EndWithLoss(h))
  <1>1. /\ EntryOK(o, Interrupt(h), f, r, FALSE, nx, ep, w, ph)
        /\ Evolves(h, Interrupt(h))
        /\ Interrupt(h).open => Interrupt(h) = h /\ h.kind = "order"
    BY InterruptOK
  <1>2. CASE IsOrder(Interrupt(h))
    <2>1. h.open /\ Base(o, h, f, r, FALSE, nx)
      BY <1>1, <1>2 DEF IsOrder, EntryOK
    <2>2. EndWithLoss(h) = closeOrderRoute(h, "recovery")
      BY <1>2 DEF EndWithLoss
    <2> QED
      BY <2>1, <2>2, CloseOK DEF Causes
  <1>3. CASE ~IsOrder(Interrupt(h))
    <2>1. EndWithLoss(h) = Interrupt(h) /\ ~Interrupt(h).open
      BY <1>1, <1>3 DEF EndWithLoss, IsOrder
    <2>2. EntryOK(o, Interrupt(h), f, r, FALSE, nx, ep, w2, ph2)
      BY <1>1, <2>1, EndedOK
    <2> QED
      BY <1>1, <2>1, <2>2
  <1> QED
    BY <1>2, <1>3

\* closeEngine ends an open handle, a pending exercise as interrupted.
LEMMA EndWithEngineOK ==
    ASSUME NEW o, NEW h \in Entries, NEW f, NEW r, NEW ask, NEW nx, NEW ep, NEW w, NEW ph, NEW w2, NEW ph2,
           EntryOK(o, h, f, r, ask, nx, ep, w, ph)
    PROVE  /\ EntryOK(o, EndWithEngine(h), f, r, ask, nx, ep, w2, ph2)
           /\ Evolves(h, EndWithEngine(h))
  <1>1. CASE h.open
    <2> DEFINE why == IF h.kind = "exercise" THEN "interrupted" ELSE "closed"
    <2>1. EndWithEngine(h) = closeOrderRoute(h, why)
      BY <1>1 DEF EndWithEngine
    <2>2. why \in Causes /\ (why = "interrupted" => h.kind = "exercise")
      BY DEF Causes
    <2> HIDE DEF why
    <2> QED
      BY <1>1, <2>1, <2>2, CloseOK DEF EntryOK
  <1>2. CASE ~h.open
    <2>1. EndWithEngine(h) = h
      BY <1>2 DEF EndWithEngine
    <2> QED
      BY <1>2, <2>1, EndedOK DEF Evolves
  <1> QED
    BY <1>1, <1>2

\* The write is settled and Started is delivered, by its result or by a callback.
LEMMA StartedOK ==
    ASSUME NEW o, NEW h \in Entries, NEW f, NEW r, NEW ask, NEW nx, NEW ep, NEW w, NEW ph, NEW r2,
           EntryOK(o, h, f, r, ask, nx, ep, w, ph), h.write, r2 \in {"none", r}
    PROVE  LET g == EmitStarted([h EXCEPT !.write = FALSE]) IN
           /\ EntryOK(o, g, f, r2, ask, nx, ep, w, ph)
           /\ Evolves(h, g)
           /\ g.open => g.starts = 1
  <1> DEFINE m == [h EXCEPT !.write = FALSE]
  <1>1. /\ m \in Entries /\ m.write = FALSE
        /\ m.kind = h.kind /\ m.open = h.open /\ m.gapped = h.gapped
        /\ m.recovery = h.recovery /\ m.err = h.err /\ m.starts = h.starts /\ m.placed = h.placed
        /\ m.known = h.known /\ m.heard = h.heard /\ m.replaced = h.replaced /\ m.misled = h.misled
    BY DEF Entries
  <1>2. EmitStarted(m) = IF Emit(m).open THEN [Emit(m) EXCEPT !.starts = @ + 1] ELSE Emit(m)
    BY DEF EmitStarted
  <1> HIDE DEF m
  <1>3. h.open /\ h.kind = "order" /\ h.starts = 0 /\ h.heard = 0
    BY DEF EntryOK, Base, Live
  <1>4. Base(o, m, f, r2, ask, nx) /\ Evolves(h, m)
    BY <1>1, <1>3 DEF EntryOK, Base, Evolves
  <1>5. CASE Emit(m) = closeOrderRoute(m, "slow") /\ ~Emit(m).open
    <2>1. EmitStarted(m) = closeOrderRoute(m, "slow")
      BY <1>2, <1>5
    <2>2. /\ EntryOK(o, closeOrderRoute(m, "slow"), f, r2, ask, nx, ep, w, ph)
          /\ Evolves(m, closeOrderRoute(m, "slow")) /\ ~closeOrderRoute(m, "slow").open
      BY <1>1, <1>3, <1>4, CloseOK DEF Causes
    <2> QED
      BY <1>4, <2>1, <2>2, EvolvesTwice DEF m
  <1>6. CASE Emit(m) = [m EXCEPT !.queued = @ + 1] /\ Emit(m).open /\ m.queued + 1 \in 0 .. EventCap
    <2> DEFINE g == [Emit(m) EXCEPT !.starts = @ + 1]
    <2>1. Alike(m, Emit(m))
      BY <1>1, <1>6 DEF Alike, Entries
    <2>2. /\ g \in Entries /\ g.write = FALSE /\ g.starts = 1
          /\ g.kind = h.kind /\ g.open = h.open /\ g.gapped = h.gapped
          /\ g.recovery = h.recovery /\ g.err = h.err /\ g.placed = h.placed
          /\ g.known = h.known /\ g.heard = h.heard /\ g.replaced = h.replaced /\ g.misled = h.misled
      <3>1. Emit(m) \in Entries /\ Emit(m).starts = 0
        BY <1>1, <1>3, <2>1 DEF Alike
      <3>2. g \in Entries
        BY <3>1 DEF Entries
      <3> QED
        BY <1>1, <2>1, <3>1, <3>2 DEF Alike, Entries
    <2>3. EmitStarted(m) = g
      BY <1>2, <1>6
    <2> HIDE DEF g
    <2>4. Base(o, g, f, r2, ask, nx) /\ Evolves(h, g)
      BY <1>3, <2>2 DEF EntryOK, Base, Evolves
    <2>5. Live(g, f, r2, ask, ep, w, ph)
      BY <1>3, <2>2 DEF EntryOK, Live
    <2> QED
      BY <2>2, <2>3, <2>4, <2>5 DEF EntryOK, m
  <1> QED
    BY <1>1, <1>3, <1>5, <1>6, EmitCases

\* ensureOrderStarted: whatever comes first, no callback precedes Started.
LEMMA EnsureOK ==
    ASSUME NEW o, NEW h \in Entries, NEW f, NEW r, NEW ask, NEW nx, NEW ep, NEW w, NEW ph,
           EntryOK(o, h, f, r, ask, nx, ep, w, ph), f # "partial"
    PROVE  LET g == ensureOrderStarted(h) IN
           /\ EntryOK(o, g, f, r, ask, nx, ep, w, ph)
           /\ Evolves(h, g)
           /\ g.open /\ g.kind = "order" => g.starts = 1
  <1>1. CASE h.write
    BY <1>1, StartedOK DEF ensureOrderStarted
  <1>2. CASE ~h.write
    BY <1>2 DEF ensureOrderStarted, EntryOK, Live, Evolves
  <1> QED
    BY <1>1, <1>2

\* News reaches a started handle that knows of the current data epoch.
LEMMA NewsOK ==
    ASSUME NEW o, NEW h \in Entries, NEW f, NEW r, NEW ask, NEW nx, NEW w, NEW ph,
           EntryOK(o, h, f, r, ask, nx, io.epoch, w, ph), io.epoch \in Nat, w # "none",
           h.kind # "preview", h.open /\ h.kind = "order" => h.starts = 1
    PROVE  /\ EntryOK(o, EmitNews(h), f, r, ask, nx, io.epoch, w, ph)
           /\ Evolves(h, EmitNews(h))
  <1> DEFINE m == Emit(h)
  <1>1. EntryOK(o, m, f, r, ask, nx, io.epoch, w, ph) /\ Evolves(h, m) /\ m \in Entries
    BY EmitOK DEF Evolves
  <1>2. EmitNews(h) = IF m.open THEN [m EXCEPT !.heard = io.epoch] ELSE m
    BY DEF EmitNews
  <1>3. m.open => h.open /\ m.starts = h.starts /\ m.kind = h.kind
    BY EmitCases DEF Entries
  <1> HIDE DEF m
  <1>4. CASE ~m.open
    BY <1>1, <1>2, <1>4
  <1>5. CASE m.open
    <2> DEFINE g == [m EXCEPT !.heard = io.epoch]
    <2>1. /\ g \in Entries /\ g.heard = io.epoch
          /\ g.kind = m.kind /\ g.open = m.open /\ g.write = m.write /\ g.gapped = m.gapped
          /\ g.recovery = m.recovery /\ g.err = m.err /\ g.starts = m.starts /\ g.placed = m.placed
          /\ g.known = m.known /\ g.replaced = m.replaced /\ g.misled = m.misled
      BY <1>1 DEF Entries
    <2>2. EmitNews(h) = g
      BY <1>2, <1>5
    <2> HIDE DEF g
    <2>3. Base(o, g, f, r, ask, nx) /\ Evolves(m, g)
      BY <1>1, <1>5, <2>1 DEF EntryOK, Base, Evolves
    <2>4. Live(g, f, r, ask, io.epoch, w, ph)
      BY <1>1, <1>3, <1>5, <2>1 DEF EntryOK, Live
    <2>5. Evolves(h, g)
      BY <1>1, <2>3, EvolvesTwice
    <2> QED
      BY <2>2, <2>3, <2>4, <2>5 DEF EntryOK
  <1> QED
    BY <1>4, <1>5

\* An attributed callback of an order the broker has.
LEMMA ObserveOK ==
    ASSUME NEW o, NEW h \in Entries, NEW f, NEW r, NEW ask, NEW nx, NEW w, NEW ph, NEW works \in BOOLEAN,
           EntryOK(o, h, f, r, ask, nx, io.epoch, w, ph), io.epoch \in Nat, w # "none",
           h.open, h.kind # "preview", f # "partial"
    PROVE  /\ EntryOK(o, Observe(h, works), f, r, ask, nx, io.epoch, w, ph)
           /\ Evolves(h, Observe(h, works))
  <1> DEFINE t == ensureOrderStarted(h)
             u == [t EXCEPT !.working = @ \/ works]
  <1>1. /\ EntryOK(o, t, f, r, ask, nx, io.epoch, w, ph) /\ Evolves(h, t) /\ t \in Entries
        /\ t.kind = h.kind
        /\ t.open /\ t.kind = "order" => t.starts = 1
    BY EnsureOK DEF Evolves
  <1>2. Alike(t, u) /\ u \in Entries
    <2> HIDE DEF t
    <2>1. (t.working \/ works) \in BOOLEAN
      OBVIOUS
    <2> QED
      BY <1>1, <2>1 DEF Alike, Entries
  <1>3. Observe(h, works) = EmitNews(u)
    BY DEF Observe
  <1> HIDE DEF t, u
  <1>4. /\ EntryOK(o, u, f, r, ask, nx, io.epoch, w, ph) /\ (t.open => Evolves(t, u))
        /\ u.kind = h.kind /\ u.open = t.open
        /\ (u.open /\ u.kind = "order" => u.starts = 1)
    BY <1>1, <1>2, AlikeOK DEF Alike
  <1>5. EntryOK(o, EmitNews(u), f, r, ask, nx, io.epoch, w, ph) /\ Evolves(u, EmitNews(u))
    BY <1>2, <1>4, NewsOK
  <1>6. CASE t.open
    <2>1. Evolves(h, EmitNews(u))
      BY <1>1, <1>4, <1>5, <1>6, EvolvesTwice
    <2> QED
      BY <1>3, <1>5, <2>1
  <1>7. CASE ~t.open
    <2>1. EmitNews(u) = u /\ u.kind = h.kind /\ u.recovery = t.recovery /\ ~u.open
      BY <1>2, <1>4, <1>5, <1>7 DEF Evolves, Alike
    <2>2. Evolves(h, u)
      BY <1>1, <1>2, <2>1 DEF Evolves
    <2> QED
      BY <1>3, <1>5, <2>1, <2>2
  <1> QED
    BY <1>6, <1>7

\* An order error: a rejection, or a warning to a working order.
LEMMA ErrorOK ==
    ASSUME NEW o, NEW h \in Entries, NEW f, NEW r, NEW ask, NEW nx, NEW w, NEW ph, NEW rejection \in BOOLEAN,
           EntryOK(o, h, f, r, ask, nx, io.epoch, w, ph), io.epoch \in Nat, w # "none",
           h.kind # "preview", f # "partial"
    PROVE  /\ EntryOK(o, ErrorToOrder(h, rejection), f, r, ask, nx, io.epoch, w, ph)
           /\ Evolves(h, ErrorToOrder(h, rejection))
  <1> DEFINE t == ensureOrderStarted(h)
  <1>1. /\ EntryOK(o, t, f, r, ask, nx, io.epoch, w, ph) /\ Evolves(h, t) /\ t \in Entries
        /\ t.kind = h.kind
        /\ t.open /\ t.kind = "order" => t.starts = 1
    BY EnsureOK DEF Evolves
  <1>2. ErrorToOrder(h, rejection) = IF t.open /\ rejection /\ ~t.working THEN closeOrderRoute(t, "rejected")
                                     ELSE EmitNews(t)
    BY DEF ErrorToOrder
  <1> HIDE DEF t
  <1>3. /\ EntryOK(o, EmitNews(t), f, r, ask, nx, io.epoch, w, ph)
        /\ Evolves(t, EmitNews(t))
    BY <1>1, NewsOK
  <1>4. t.open => /\ EntryOK(o, closeOrderRoute(t, "rejected"), f, r, ask, nx, io.epoch, w, ph)
                  /\ Evolves(t, closeOrderRoute(t, "rejected"))
    BY <1>1, CloseOK DEF EntryOK, Causes
  <1>5. Evolves(t, ErrorToOrder(h, rejection))
    BY <1>2, <1>3, <1>4
  <1>6. Evolves(h, ErrorToOrder(h, rejection))
    BY <1>1, <1>5, EvolvesTwice
  <1> QED
    BY <1>2, <1>3, <1>4, <1>6

\* The result of the place frame: it is true of the frame, so an order that
\* ends with a retryable cause has nothing at the broker.
LEMMA AfterWriteOK ==
    ASSUME NEW o, NEW h \in Entries, NEW f, NEW r \in Results \ {"none"}, NEW ask, NEW nx, NEW ep, NEW w, NEW ph,
           EntryOK(o, h, f, r, ask, nx, ep, w, ph), h.write
    PROVE  LET g == AfterWrite([h EXCEPT !.write = FALSE], r) IN
           /\ EntryOK(o, g, f, "none", ask, nx, ep, w, ph)
           /\ Evolves(h, g)
  <1> DEFINE m == [h EXCEPT !.write = FALSE]
  <1>0. r = f /\ h.open /\ h.kind = "order" /\ h.starts = 0
    BY DEF EntryOK, Base, Live
  <1>1. CASE r = "written"
    BY <1>1, StartedOK DEF AfterWrite
  <1>2. /\ m \in Entries /\ m.write = FALSE
        /\ m.kind = h.kind /\ m.open = h.open /\ m.gapped = h.gapped
        /\ m.recovery = h.recovery /\ m.err = h.err /\ m.starts = h.starts /\ m.placed = h.placed
        /\ m.known = h.known /\ m.heard = h.heard /\ m.replaced = h.replaced /\ m.misled = h.misled
    BY DEF Entries
  <1>3. AfterWrite(m, r) = CASE r = "written"   -> EmitStarted(m)
                             [] r = "unwritten" -> closeOrderRoute(m, "interrupted")
                             [] r = "partial"   -> m
    BY DEF AfterWrite
  <1> HIDE DEF m
  <1>4. Base(o, m, f, "none", ask, nx) /\ Evolves(h, m)
    BY <1>0, <1>2 DEF EntryOK, Base, Evolves
  <1>5. CASE r = "unwritten"
    <2>1. /\ EntryOK(o, closeOrderRoute(m, "interrupted"), f, "none", ask, nx, ep, w, ph)
          /\ Evolves(m, closeOrderRoute(m, "interrupted"))
      BY <1>0, <1>2, <1>4, <1>5, CloseOK DEF Causes
    <2>2. AfterWrite(m, r) = closeOrderRoute(m, "interrupted")
      BY <1>3, <1>5
    <2> QED
      BY <1>4, <2>1, <2>2, EvolvesTwice DEF m
  <1>6. CASE r = "partial"
    <2>1. Live(m, f, "none", ask, ep, w, ph)
      BY <1>0, <1>2, <1>6 DEF EntryOK, Live
    <2>2. AfterWrite(m, r) = m
      BY <1>3, <1>6
    <2> QED
      BY <1>4, <2>1, <2>2 DEF EntryOK, m
  <1> QED
    BY <1>1, <1>5, <1>6 DEF Results

------------------------------------------------------------------------------
(* The steps of the actor, of the transport and of the gateway.            *)

\* What one step may do to an order: its entry evolves once it is there, and
\* its frame only moves on.
Moves(o) ==
    /\ book[o].kind # "none" => Evolves(book[o], book'[o])
    /\ \/ io'.frame[o] = io.frame[o]
       \/ io.frame[o] = "queued" /\ io'.frame[o] \in {"written", "partial", "unwritten"}
       \/ book[o].kind = "none" /\ io.frame[o] = "none" /\ io'.frame[o] \in {"queued", "written"}

StepOK == IInv' /\ \A o \in IDs : Moves(o)

\* The entry of each order, read off the invariant.
LEMMA EntryHere ==
    ASSUME IInv, NEW o \in IDs
    PROVE  /\ book[o] \in Entries /\ io.frame[o] \in FrameStates /\ io.result[o] \in Results
           /\ io.epoch \in Nat /\ o \in Nat /\ next \in Nat
           /\ EntryOK(o, book[o], io.frame[o], io.result[o], o \in io.asked, next, io.epoch, wire, phase)
  <1>1. book[o] \in Entries /\ io.frame[o] \in FrameStates /\ io.result[o] \in Results /\ io.epoch \in Nat
    BY DEF IInv, StateOK, Views
  <1>2. o \in Nat /\ next \in Nat
    BY Capacity DEF IInv, StateOK, IDs
  <1> QED
    BY <1>1, <1>2 DEF IInv, BookInv

\* The account of a failed bracket outlives every step that makes no other.
LEMMA FailedKept ==
    ASSUME IInv, \A o \in IDs : Moves(o), UNCHANGED failed
    PROVE  FailedInv'
  <1>1. SUFFICES ASSUME NEW o \in failed.legs
                 PROVE  /\ o \in IDs /\ book'[o].kind # "none" /\ ~book'[o].open
                        /\ io'.frame[o] # "none" => o \in failed.named
                        /\ failed.named # {} => ~IsRetryable(book'[o].err)
    BY DEF FailedInv, BracketAccounted, IsRetryable
  <1>2. /\ o \in IDs /\ book[o].kind # "none" /\ ~book[o].open
        /\ io.frame[o] # "none" => o \in failed.named
        /\ failed.named # {} => ~IsRetryable(book[o].err)
    BY DEF IInv, FailedInv, BracketAccounted
  <1>3. book'[o] = book[o]
    BY <1>2 DEF Moves, Evolves
  <1>4. io'.frame[o] # "none" => io.frame[o] # "none"
    BY <1>2 DEF Moves
  <1> QED
    BY <1>2, <1>3, <1>4

\* A step that leaves the frames alone.
LEMMA EntriesKept ==
    ASSUME IInv, UNCHANGED <<next, failed>>, io' \in Views,
           io'.queue = io.queue, io'.frame = io.frame,
           book' = [o \in IDs |-> book'[o]],
           \A o \in IDs :
             /\ Evolves(book[o], book'[o])
             /\ EntryOK(o, book'[o], io.frame[o], io'.result[o], o \in io'.asked, next, io'.epoch, wire', phase')
    PROVE  StepOK
  <1>1. \A o \in IDs : Moves(o)
    BY DEF Moves
  <1>2. FailedInv'
    BY <1>1, FailedKept
  <1>3. book' \in [IDs -> Entries]
    <2>1. \A o \in IDs : book'[o] \in Entries
      BY DEF Evolves
    <2> QED
      BY <2>1
  <1>4. StateOK'
    BY <1>3 DEF IInv, StateOK
  <1>5. BookInv'
    BY DEF BookInv
  <1>6. QueueInv'
    BY DEF IInv, QueueInv
  <1> QED
    BY <1>1, <1>2, <1>4, <1>5, <1>6 DEF StepOK, IInv

\* A step of the link that leaves the entries alone.
LEMMA LinkKept ==
    ASSUME IInv, UNCHANGED <<next, book, io, failed>>,
           phase' = "Closed" => phase = "Closed",
           \/ wire # "none" /\ wire' # "none"
           \/ wire = "none" /\ wire' = "none" /\ (phase = "Reconnecting" => phase' = "Reconnecting")
    PROVE  StepOK
  <1>1. \A o \in IDs :
          /\ Evolves(book[o], book[o])
          /\ EntryOK(o, book[o], io.frame[o], io.result[o], o \in io.asked, next, io.epoch, wire', phase')
    <2>1. TAKE o \in IDs
    <2>2. EntryOK(o, book[o], io.frame[o], io.result[o], o \in io.asked, next, io.epoch, wire, phase)
          /\ book[o] \in Entries
      BY EntryHere
    <2> QED
      BY <2>2, LinkOK DEF Evolves
  <1>2. io \in Views /\ book = [o \in IDs |-> book[o]]
    BY DEF IInv, StateOK
  <1> QED
    BY <1>1, <1>2, EntriesKept

\* Dialing, the bootstrap and a wire that stops.
LEMMA LinkStepOK ==
    ASSUME IInv, Connect \/ BootstrapCompletes \/ WireStops
    PROVE  StepOK
  BY LinkKept DEF Connect, BootstrapCompletes, WireStops, Dialing, BecomeReady, Stop, MayStop, orderVars

\* A new connection begins a new data epoch; the handles that waited for it
\* are marked before its first message.
LEMMA AttachOK ==
    ASSUME IInv, AttachTransport
    PROVE  StepOK
  <1>1. /\ wire = "none" /\ wire' = "live" /\ phase' = "Handshaking" /\ phase \in {"Connecting", "Reconnecting"}
        /\ UNCHANGED <<next, failed>>
        /\ book' = [o \in IDs |-> IF phase = "Reconnecting" THEN requireOrderRecovery(book[o], io.epoch + 1)
                                  ELSE book[o]]
        /\ io' = [io EXCEPT !.epoch = @ + 1, !.torn = FALSE]
    BY DEF AttachTransport, Attach, Each
  <1>2. /\ io' \in Views /\ io'.queue = io.queue /\ io'.frame = io.frame /\ io'.result = io.result
        /\ io'.asked = io.asked /\ io'.epoch = io.epoch + 1
    <2>1. io \in Views
      BY DEF IInv, StateOK
    <2>2. io.epoch + 1 \in Nat
      BY <2>1 DEF Views
    <2>3. io' \in Views
      BY <1>1, <2>1, <2>2 DEF Views
    <2> QED
      BY <1>1, <2>1, <2>3 DEF Views
  <1>3. \A o \in IDs :
          /\ Evolves(book[o], book'[o])
          /\ EntryOK(o, book'[o], io.frame[o], io.result[o], o \in io.asked, next, io.epoch + 1, wire', phase')
    <2>1. TAKE o \in IDs
    <2>2. /\ EntryOK(o, book[o], io.frame[o], io.result[o], o \in io.asked, next, io.epoch, wire, phase)
          /\ book[o] \in Entries /\ io.epoch \in Nat
      BY EntryHere
    <2>3. /\ IsOrder(book[o]) => book[o].gapped /\ phase = "Reconnecting"
          /\ book[o].kind = "none" => ~book[o].open
      BY <1>1, <2>2 DEF EntryOK, Base, Live, IsOrder
    <2>4. /\ EntryOK(o, requireOrderRecovery(book[o], io.epoch + 1), io.frame[o], io.result[o], o \in io.asked,
                     next, io.epoch + 1, wire', phase')
          /\ Evolves(book[o], requireOrderRecovery(book[o], io.epoch + 1))
      BY <1>1, <2>2, <2>3, RecoveryOK
    <2>5. phase # "Reconnecting" => requireOrderRecovery(book[o], io.epoch + 1) = book[o]
      BY <2>3 DEF requireOrderRecovery
    <2>6. book'[o] = requireOrderRecovery(book[o], io.epoch + 1)
      BY <1>1, <2>5
    <2> QED
      BY <2>4, <2>6
  <1> QED
    BY <1>1, <1>2, <1>3, EntriesKept

\* Codes 1100, 1101 and 1102.
LEMMA CodesOK ==
    ASSUME IInv, ConnectivityLost \/ ConnectivityRestoredDataLost \/ ConnectivityRestoredDataMaintained
    PROVE  StepOK
  <1>1. wire # "none" /\ wire' # "none" /\ phase' \in {"Ready", "Degraded"} /\ UNCHANGED <<next, failed>>
        /\ io \in Views
    BY DEF ConnectivityLost, ConnectivityRestoredDataLost, ConnectivityRestoredDataMaintained, Coded, Code, MayStop,
           IInv, StateOK
  <1>2. \A o \in IDs :
          /\ EntryOK(o, book[o], io.frame[o], io.result[o], o \in io.asked, next, io.epoch, wire, phase)
          /\ EntryOK(o, book[o], io.frame[o], io.result[o], o \in io.asked, next, io.epoch, wire', phase')
          /\ book[o] \in Entries /\ io.epoch \in Nat
    BY <1>1, EntryHere, LinkOK
  <1>3. CASE ConnectivityLost
    <2>1. book' = [o \in IDs |-> EmitGap(book[o])] /\ io' = io
      BY <1>3 DEF ConnectivityLost, Each
    <2>2. \A o \in IDs :
            /\ Evolves(book[o], book'[o])
            /\ EntryOK(o, book'[o], io.frame[o], io.result[o], o \in io.asked, next, io.epoch, wire', phase')
      BY <1>2, <2>1, GapOK
    <2> QED
      BY <1>1, <2>1, <2>2, EntriesKept
  <1>4. CASE ConnectivityRestoredDataMaintained
    <2>1. book' = [o \in IDs |-> EmitRestored(book[o])] /\ io' = io
      BY <1>4 DEF ConnectivityRestoredDataMaintained, Each
    <2>2. \A o \in IDs :
            /\ Evolves(book[o], book'[o])
            /\ EntryOK(o, book'[o], io.frame[o], io.result[o], o \in io.asked, next, io.epoch, wire', phase')
      BY <1>1, <1>2, <2>1, RestoredOK
    <2> QED
      BY <1>1, <2>1, <2>2, EntriesKept
  <1>5. CASE ConnectivityRestoredDataLost
    <2>1. book' = [o \in IDs |-> LoseContinuity(book[o])] /\ io' = [io EXCEPT !.epoch = @ + 1, !.asked = {}]
      BY <1>5 DEF ConnectivityRestoredDataLost, Each
    <2>2. /\ io' \in Views /\ io'.queue = io.queue /\ io'.frame = io.frame /\ io'.result = io.result
          /\ io'.asked = {} /\ io'.epoch = io.epoch + 1
      <3>1. io.epoch + 1 \in Nat /\ {} \in SUBSET IDs
        BY <1>1 DEF Views
      <3>2. io' \in Views
        BY <1>1, <2>1, <3>1 DEF Views
      <3> QED
        BY <1>1, <2>1, <3>2 DEF Views
    <2>3. \A o \in IDs :
            /\ Evolves(book[o], book'[o])
            /\ EntryOK(o, book'[o], io.frame[o], io.result[o], FALSE, next, io.epoch + 1, wire', phase')
      <3>1. TAKE o \in IDs
      <3> DEFINE g == EmitGap(book[o])
                 k == requireOrderRecovery(g, io.epoch + 1)
      <3>2. /\ EntryOK(o, g, io.frame[o], io.result[o], o \in io.asked, next, io.epoch, wire, phase)
            /\ Evolves(book[o], g) /\ g \in Entries
            /\ IsOrder(g) => g.gapped
            /\ io.epoch \in Nat
        BY <1>2, GapOK DEF Evolves
      <3>3. g.kind = "none" => ~g.open
        BY <3>2 DEF EntryOK, Base
      <3> HIDE DEF g
      <3>4. /\ EntryOK(o, k, io.frame[o], io.result[o], o \in io.asked, next, io.epoch + 1, wire', phase')
            /\ Evolves(g, k) /\ k \in Entries
        BY <1>1, <3>2, <3>3, RecoveryOK DEF Evolves
      <3>5. book'[o] = Interrupt(k)
        BY <2>1 DEF LoseContinuity, dropLostRoutes, g
      <3> HIDE DEF k
      <3>6. /\ EntryOK(o, Interrupt(k), io.frame[o], io.result[o], FALSE, next, io.epoch + 1, wire', phase')
            /\ Evolves(k, Interrupt(k))
        BY <3>4, InterruptOK
      <3>7. Evolves(book[o], Interrupt(k))
        BY <3>2, <3>4, <3>6, EvolvesTwice
      <3> QED
        BY <3>5, <3>6, <3>7
    <2>4. \A o \in IDs : (o \in io'.asked) = FALSE
      BY <2>2
    <2> QED
      BY <1>1, <2>1, <2>2, <2>3, <2>4, EntriesKept
  <1> QED
    BY <1>3, <1>4, <1>5

\* The loss comes after every write result, and the engine may close at any time.
LEMMA LossesOK ==
    ASSUME IInv, TransportLost \/ LossCloses \/ EngineCloses
    PROVE  StepOK
  <1>1. UNCHANGED <<next, failed>> /\ io \in Views
    BY DEF TransportLost, LossCloses, EngineCloses, IInv, StateOK
  <1>2. \A o \in IDs :
          /\ EntryOK(o, book[o], io.frame[o], io.result[o], o \in io.asked, next, io.epoch, wire, phase)
          /\ book[o] \in Entries
    BY EntryHere
  <1>3. ASSUME Drained, NEW o \in IDs
        PROVE  io.frame[o] # "queued" /\ io.result[o] = "none"
    BY <1>3 DEF Drained, IInv, QueueInv
  <1>4. CASE TransportLost
    <2>1. /\ book' = [o \in IDs |-> disconnectRoutes(book[o])] /\ io' = [io EXCEPT !.asked = {}]
          /\ Drained /\ wire' = "none" /\ phase' = "Reconnecting"
      BY <1>4 DEF TransportLost, Each, Lose
    <2>2. /\ io' \in Views /\ io'.queue = io.queue /\ io'.frame = io.frame /\ io'.result = io.result
          /\ io'.asked = {} /\ io'.epoch = io.epoch
      <3>1. io' \in Views
        BY <1>1, <2>1 DEF Views
      <3> QED
        BY <1>1, <2>1, <3>1 DEF Views
    <2>3. \A o \in IDs :
            /\ Evolves(book[o], book'[o])
            /\ EntryOK(o, book'[o], io.frame[o], io.result[o], FALSE, next, io.epoch, wire', phase')
      BY <1>2, <1>3, <2>1, LossOK
    <2>4. \A o \in IDs : (o \in io'.asked) = FALSE
      BY <2>2
    <2> QED
      BY <1>1, <2>1, <2>2, <2>3, <2>4, EntriesKept
  <1>5. CASE LossCloses
    <2>1. book' = [o \in IDs |-> EndWithLoss(book[o])] /\ io' = [io EXCEPT !.asked = {}]
      BY <1>5 DEF LossCloses, Each
    <2>2. /\ io' \in Views /\ io'.queue = io.queue /\ io'.frame = io.frame /\ io'.result = io.result
          /\ io'.asked = {} /\ io'.epoch = io.epoch
      <3>1. io' \in Views
        BY <1>1, <2>1 DEF Views
      <3> QED
        BY <1>1, <2>1, <3>1 DEF Views
    <2>3. \A o \in IDs :
            /\ Evolves(book[o], book'[o])
            /\ EntryOK(o, book'[o], io.frame[o], io.result[o], FALSE, next, io.epoch, wire', phase')
      BY <1>2, <2>1, EndWithLossOK
    <2>4. \A o \in IDs : (o \in io'.asked) = FALSE
      BY <2>2
    <2> QED
      BY <1>1, <2>1, <2>2, <2>3, <2>4, EntriesKept
  <1>6. CASE EngineCloses
    <2>1. book' = [o \in IDs |-> EndWithEngine(book[o])] /\ io' = io
      BY <1>6 DEF EngineCloses, Each
    <2>2. \A o \in IDs :
            /\ Evolves(book[o], book'[o])
            /\ EntryOK(o, book'[o], io.frame[o], io.result[o], o \in io.asked, next, io.epoch, wire', phase')
      BY <1>2, <2>1, EndWithEngineOK
    <2> QED
      BY <1>1, <2>1, <2>2, EntriesKept
  <1> QED
    BY <1>4, <1>5, <1>6

\* A step about one order.
LEMMA OneKept ==
    ASSUME IInv, NEW o \in IDs, NEW g, book' = [book EXCEPT ![o] = g],
           UNCHANGED <<next, failed, phase>>, MayStop \/ UNCHANGED wire,
           io' \in Views, io'.queue = io.queue, io'.frame = io.frame, io'.epoch = io.epoch,
           \A p \in IDs : p # o => io'.result[p] = io.result[p] /\ (p \in io'.asked <=> p \in io.asked),
           Evolves(book[o], g),
           EntryOK(o, g, io.frame[o], io'.result[o], o \in io'.asked, next, io.epoch, wire, phase)
    PROVE  StepOK
  <1>1. \/ wire # "none" /\ wire' # "none"
        \/ wire = "none" /\ wire' = "none"
    BY DEF MayStop
  <1>2. book \in [IDs -> Entries]
    BY DEF IInv, StateOK
  <1>3. ASSUME NEW p \in IDs
        PROVE  /\ Evolves(book[p], book'[p])
               /\ EntryOK(p, book'[p], io.frame[p], io'.result[p], p \in io'.asked, next, io'.epoch, wire', phase')
    <2>1. CASE p = o
      <3>1. book'[o] = g
        BY <1>2
      <3> QED
        BY <1>1, <2>1, <3>1, LinkOK
    <2>2. CASE p # o
      <3>1. book'[p] = book[p] /\ book[p] \in Entries
        BY <1>2, <2>2
      <3>2. EntryOK(p, book[p], io.frame[p], io.result[p], p \in io.asked, next, io.epoch, wire, phase)
        BY EntryHere
      <3>3. io'.result[p] = io.result[p] /\ (p \in io'.asked) = (p \in io.asked)
        BY <2>2
      <3>4. EntryOK(p, book[p], io.frame[p], io.result[p], p \in io.asked, next, io.epoch, wire', phase')
        BY <1>1, <3>2, LinkOK
      <3> QED
        BY <3>1, <3>3, <3>4 DEF Evolves
    <2> QED
      BY <2>1, <2>2
  <1>4. book' = [p \in IDs |-> book'[p]]
    BY <1>2
  <1> QED
    BY <1>3, <1>4, EntriesKept

\* The common case: nothing in the transport changes.
LEMMA TouchKept ==
    ASSUME IInv, NEW o \in IDs, NEW g, Touch(o, g), UNCHANGED phase, MayStop \/ UNCHANGED wire,
           Evolves(book[o], g),
           EntryOK(o, g, io.frame[o], io.result[o], o \in io.asked, next, io.epoch, wire, phase)
    PROVE  StepOK
  <1>1. io' = io /\ io \in Views /\ book' = [book EXCEPT ![o] = g] /\ UNCHANGED <<next, failed>>
    BY DEF Touch, IInv, StateOK
  <1> QED
    BY <1>1, OneKept

\* The caller's handle: replace, detach, read an event.
LEMMA CallerOK ==
    ASSUME IInv, NEW o \in IDs, Replace(o) \/ Detach(o) \/ Consume(o)
    PROVE  StepOK
  <1>1. /\ EntryOK(o, book[o], io.frame[o], io.result[o], o \in io.asked, next, io.epoch, wire, phase)
        /\ book[o] \in Entries /\ io.epoch \in Nat
    BY EntryHere
  <1>2. UNCHANGED phase /\ (MayStop \/ UNCHANGED wire)
    BY DEF Replace, Detach, Consume, Quiet, linkVars
  <1>3. CASE Replace(o)
    <2> DEFINE h == book[o]
               g == [h EXCEPT !.replaced = io.epoch]
    <2>1. Touch(o, g) /\ h.kind = "order" /\ h.open /\ ~h.recovery /\ wire # "none"
      BY <1>3 DEF Replace, MayReplace, Ready
    <2>2. /\ g \in Entries /\ g.replaced = io.epoch
          /\ g.kind = h.kind /\ g.open = h.open /\ g.write = h.write /\ g.gapped = h.gapped
          /\ g.recovery = h.recovery /\ g.err = h.err /\ g.starts = h.starts /\ g.placed = h.placed
          /\ g.known = h.known /\ g.heard = h.heard /\ g.misled = h.misled
      <3> HIDE DEF h
      <3> QED
        BY <1>1 DEF Entries, h
    <2> HIDE DEF g
    <2>3. h.known = io.epoch /\ h.known = h.placed
      BY <1>1, <2>1 DEF EntryOK, Live
    <2> HIDE DEF h
    <2>4. EntryOK(o, g, io.frame[o], io.result[o], o \in io.asked, next, io.epoch, wire, phase)
      BY <1>1, <2>1, <2>2, <2>3 DEF EntryOK, Base, Live, h
    <2>5. Evolves(h, g)
      BY <2>1, <2>2 DEF Evolves
    <2> QED
      BY <1>2, <2>1, <2>4, <2>5, TouchKept DEF h
  <1>4. CASE Detach(o)
    <2>1. Touch(o, closeOrderRoute(book[o], "detached")) /\ book[o].open
      BY <1>4 DEF Detach
    <2>2. /\ EntryOK(o, closeOrderRoute(book[o], "detached"), io.frame[o], io.result[o], o \in io.asked, next,
                     io.epoch, wire, phase)
          /\ Evolves(book[o], closeOrderRoute(book[o], "detached"))
      BY <1>1, <2>1, CloseOK DEF EntryOK, Causes
    <2> QED
      BY <1>2, <2>1, <2>2, TouchKept
  <1>5. CASE Consume(o)
    <2> DEFINE h == book[o]
               g == [h EXCEPT !.queued = @ - 1]
    <2>1. Touch(o, g) /\ h.open /\ h.queued > 0
      BY <1>5 DEF Consume
    <2>2. Alike(h, g)
      <3>1. h.queued - 1 \in 0 .. EventCap
        BY <1>1, <2>1, Capacity DEF Entries
      <3> HIDE DEF h
      <3> QED
        BY <1>1, <3>1 DEF Entries, Alike, h
    <2> HIDE DEF g
    <2>3. /\ EntryOK(o, g, io.frame[o], io.result[o], o \in io.asked, next, io.epoch, wire, phase)
          /\ Evolves(h, g)
      BY <1>1, <2>1, <2>2, AlikeOK
    <2> QED
      BY <1>2, <2>1, <2>3, TouchKept
  <1> QED
    BY <1>3, <1>4, <1>5

\* handleTransportWrite.
LEMMA WriteResultOK ==
    ASSUME IInv, NEW o \in IDs, handleTransportWrite(o)
    PROVE  StepOK
  <1>1. /\ EntryOK(o, book[o], io.frame[o], io.result[o], o \in io.asked, next, io.epoch, wire, phase)
        /\ book[o] \in Entries /\ io.result[o] \in Results \ {"none"}
    BY EntryHere DEF handleTransportWrite
  <1>2. /\ UNCHANGED <<next, failed, phase, wire>> /\ io \in Views /\ book \in [IDs -> Entries]
        /\ io' = [io EXCEPT !.result[o] = "none"]
    BY DEF handleTransportWrite, linkVars, IInv, StateOK
  <1>3. /\ io' \in Views /\ io'.queue = io.queue /\ io'.frame = io.frame /\ io'.epoch = io.epoch
        /\ io'.asked = io.asked /\ io'.result[o] = "none"
        /\ \A p \in IDs : p # o => io'.result[p] = io.result[p]
    <2>1. io.result \in [IDs -> Results] /\ "none" \in Results
      BY <1>2 DEF Views, Results
    <2>2. [io.result EXCEPT ![o] = "none"] \in [IDs -> Results]
      BY <2>1
    <2>3. io' = [io EXCEPT !.result = [io.result EXCEPT ![o] = "none"]]
      BY <1>2
    <2>4. io' \in Views
      BY <1>2, <2>2, <2>3 DEF Views
    <2>5. /\ io'.queue = io.queue /\ io'.frame = io.frame /\ io'.epoch = io.epoch
          /\ io'.asked = io.asked /\ io'.result = [io.result EXCEPT ![o] = "none"]
      BY <1>2, <2>3 DEF Views
    <2> QED
      BY <2>1, <2>4, <2>5
  <1>4. CASE book[o].write
    <2> DEFINE g == AfterWrite([book[o] EXCEPT !.write = FALSE], io.result[o])
    <2>1. book' = [book EXCEPT ![o] = g]
      BY <1>4 DEF handleTransportWrite
    <2>2. /\ EntryOK(o, g, io.frame[o], "none", o \in io.asked, next, io.epoch, wire, phase)
          /\ Evolves(book[o], g)
      BY <1>1, <1>4, AfterWriteOK
    <2> HIDE DEF g
    <2> QED
      BY <1>2, <1>3, <2>1, <2>2, OneKept
  <1>5. CASE ~book[o].write
    <2>1. book' = [book EXCEPT ![o] = book[o]]
      BY <1>2, <1>5 DEF handleTransportWrite
    <2>2. /\ EntryOK(o, book[o], io.frame[o], "none", o \in io.asked, next, io.epoch, wire, phase)
          /\ Evolves(book[o], book[o])
      BY <1>1, <1>5 DEF EntryOK, Base, Live, Evolves
    <2> QED
      BY <1>2, <1>3, <2>1, <2>2, OneKept
  <1> QED
    BY <1>4, <1>5

\* claimOrderCallback: the evidence of another client's order is never claimed.
LEMMA ForeignNotClaimed ==
    ASSUME NEW h \in Entries, NEW id \in ForeignIdentities
    PROVE  ~Claims(h, id)
  BY DEF ForeignIdentities, Identity, Claims

\* Callbacks of the gateway about an order.
LEMMA CallbackOK ==
    ASSUME IInv, NEW o \in IDs,
           \/ \E id \in OwnIdentities : OrderCallback(o, id, TRUE) \/ OrderBound(o, id, TRUE)
           \/ \E id \in ForeignIdentities : OrderCallback(o, id, FALSE) \/ OrderBound(o, id, FALSE)
           \/ MalformedIdentity(o)
    PROVE  StepOK
  <1> DEFINE h == book[o]
  <1>1. /\ EntryOK(o, h, io.frame[o], io.result[o], o \in io.asked, next, io.epoch, wire, phase)
        /\ h \in Entries /\ io.epoch \in Nat
    BY EntryHere
  <1>2. UNCHANGED <<phase, wire>> /\ wire # "none" /\ h.open /\ h.kind # "preview"
    BY DEF OrderCallback, OrderBound, MalformedIdentity, Reply, linkVars, Source, IsOrder
  <1>3. /\ EntryOK(o, closeOrderRoute(h, "malformed"), io.frame[o], io.result[o], o \in io.asked, next,
                   io.epoch, wire, phase)
        /\ Evolves(h, closeOrderRoute(h, "malformed"))
    BY <1>1, <1>2, CloseOK DEF EntryOK, Causes
  <1>4. CASE MalformedIdentity(o)
    BY <1>2, <1>3, <1>4, TouchKept DEF MalformedIdentity
  <1>5. CASE Touch(o, h)
    BY <1>1, <1>2, <1>5, TouchKept DEF Evolves
  <1>6. ASSUME NEW id \in OwnIdentities, io.frame[o] = "written"
        PROVE  LET c == Claim(h, id, TRUE) IN
               /\ EntryOK(o, closeOrderRoute(c, "malformed"), io.frame[o], io.result[o], o \in io.asked, next,
                          io.epoch, wire, phase)
               /\ Evolves(h, closeOrderRoute(c, "malformed"))
               /\ \A works \in BOOLEAN :
                    /\ EntryOK(o, Observe(c, works), io.frame[o], io.result[o], o \in io.asked, next,
                               io.epoch, wire, phase)
                    /\ Evolves(h, Observe(c, works))
    <2> DEFINE c == Claim(h, id, TRUE)
    <2>1. Alike(h, c)
      <3>1. (h.perm \/ id.perm # "none") \in BOOLEAN /\ (h.misled \/ ~TRUE) = h.misled
        BY <1>1 DEF Entries
      <3> HIDE DEF h
      <3> QED
        BY <1>1, <3>1 DEF Alike, Entries, Claim
    <2> HIDE DEF c
    <2>2. /\ EntryOK(o, c, io.frame[o], io.result[o], o \in io.asked, next, io.epoch, wire, phase)
          /\ Evolves(h, c) /\ c \in Entries /\ c.open /\ c.kind # "preview"
      <3>1. c \in Entries /\ c.open = h.open /\ c.kind = h.kind
        BY <2>1 DEF Alike
      <3>2. /\ EntryOK(o, c, io.frame[o], io.result[o], o \in io.asked, next, io.epoch, wire, phase)
            /\ h.open => Evolves(h, c)
        BY <1>1, <2>1, AlikeOK
      <3> QED
        BY <1>2, <3>1, <3>2
    <2>3. /\ EntryOK(o, closeOrderRoute(c, "malformed"), io.frame[o], io.result[o], o \in io.asked, next,
                     io.epoch, wire, phase)
          /\ Evolves(c, closeOrderRoute(c, "malformed"))
      BY <2>2, CloseOK DEF EntryOK, Causes
    <2>4. ASSUME NEW works \in BOOLEAN
          PROVE  /\ EntryOK(o, Observe(c, works), io.frame[o], io.result[o], o \in io.asked, next,
                            io.epoch, wire, phase)
                 /\ Evolves(c, Observe(c, works))
      BY <1>1, <1>2, <1>6, <2>2, ObserveOK
    <2>5. Evolves(h, closeOrderRoute(c, "malformed"))
      BY <2>2, <2>3, EvolvesTwice
    <2>6. \A works \in BOOLEAN : Evolves(h, Observe(c, works))
      BY <2>2, <2>4, EvolvesTwice
    <2> QED
      BY <2>3, <2>4, <2>5, <2>6 DEF c
  <1>7. ASSUME NEW id \in OwnIdentities, OrderCallback(o, id, TRUE) \/ OrderBound(o, id, TRUE)
        PROVE  StepOK
    <2>1. io.frame[o] = "written"
      BY <1>7 DEF OrderCallback, OrderBound, Source
    <2>2. \/ Touch(o, h)
          \/ Touch(o, closeOrderRoute(Claim(h, id, TRUE), "malformed"))
          \/ \E works \in BOOLEAN : Touch(o, Observe(Claim(h, id, TRUE), works))
      <3>1. CASE OrderCallback(o, id, TRUE)
        BY <3>1 DEF OrderCallback
      <3>2. CASE OrderBound(o, id, TRUE)
        BY <3>2 DEF OrderBound
      <3> QED
        BY <1>7, <3>1, <3>2
    <2>3. CASE Touch(o, closeOrderRoute(Claim(h, id, TRUE), "malformed"))
      BY <1>2, <1>6, <2>1, <2>3, TouchKept
    <2>4. CASE \E works \in BOOLEAN : Touch(o, Observe(Claim(h, id, TRUE), works))
      BY <1>2, <1>6, <2>1, <2>4, TouchKept
    <2> QED
      BY <1>5, <2>2, <2>3, <2>4
  <1>8. ASSUME NEW id \in ForeignIdentities, OrderCallback(o, id, FALSE) \/ OrderBound(o, id, FALSE)
        PROVE  StepOK
    <2>1. ~Claims(h, id)
      BY <1>1, ForeignNotClaimed
    <2>2. Touch(o, h)
      BY <1>8, <2>1 DEF OrderCallback, OrderBound
    <2> QED
      BY <1>5, <2>2
  <1> QED
    BY <1>4, <1>7, <1>8

\* Errors about an order, and the echo of a preview.
LEMMA ReplyOK ==
    ASSUME IInv, NEW o \in IDs, PreviewEcho(o) \/ \E rejection \in BOOLEAN : OrderError(o, rejection)
    PROVE  StepOK
  <1> DEFINE h == book[o]
  <1>1. /\ EntryOK(o, h, io.frame[o], io.result[o], o \in io.asked, next, io.epoch, wire, phase)
        /\ h \in Entries /\ io.epoch \in Nat /\ io \in Views /\ h.kind \in Kinds
    BY EntryHere DEF Entries, IInv, StateOK
  <1>2. UNCHANGED <<phase, wire, next, failed>> /\ wire # "none" 
    BY DEF PreviewEcho, OrderError, Reply, linkVars
  <1>3. /\ io.frame[o] = "written" => h.kind \in {"order", "exercise"}
        /\ o \in io.asked => h.kind = "preview"
        /\ h.kind = "preview" => io.frame[o] = "none"
        /\ h.kind = "none" => ~h.open
    BY <1>1 DEF EntryOK, Base, Kinds
  <1> DEFINE less == [io EXCEPT !.asked = @ \ {o}]
  <1>4. /\ less \in Views /\ less.queue = io.queue /\ less.frame = io.frame /\ less.epoch = io.epoch
        /\ less.result = io.result /\ less.asked = io.asked \ {o}
    <2>1. io.asked \ {o} \in SUBSET IDs
      BY <1>1 DEF Views
    <2>2. less \in Views
      BY <1>1, <2>1 DEF Views
    <2> QED
      BY <1>1, <2>2 DEF Views
  <1> HIDE DEF less, h
  \* Once the gateway forgets a preview its route is closed.
  <1>5. ASSUME NEW g, EntryOK(o, g, io.frame[o], io.result[o], o \in io.asked, next, io.epoch, wire, phase),
               Evolves(h, g), book' = [book EXCEPT ![o] = g],
               \/ io' = io
               \/ io' = less /\ (g.kind = "preview" => ~g.open)
        PROVE  StepOK
    <2>1. EntryOK(o, g, io.frame[o], io.result[o], o \in io'.asked, next, io.epoch, wire, phase)
      <3>1. CASE io' = io
        BY <1>5, <3>1
      <3>2. CASE io' = less /\ (g.kind = "preview" => ~g.open)
        <4>1. ~(o \in io'.asked)
          BY <1>4, <3>2
        <4> QED
          BY <1>5, <3>2, <4>1 DEF EntryOK, Base, Live
      <3> QED
        BY <1>5, <3>1, <3>2
    <2>2. /\ io' \in Views /\ io'.queue = io.queue /\ io'.frame = io.frame /\ io'.epoch = io.epoch
          /\ io'.result = io.result
          /\ \A p \in IDs : p # o => (p \in io'.asked <=> p \in io.asked)
      BY <1>1, <1>4, <1>5
    <2> QED
      BY <1>2, <1>5, <2>1, <2>2, OneKept DEF h
  <1>6. ASSUME NEW why \in {"rejected", "answered"}, h.open
        PROVE  /\ EntryOK(o, closeOrderRoute(h, why), io.frame[o], io.result[o], o \in io.asked, next,
                          io.epoch, wire, phase)
               /\ Evolves(h, closeOrderRoute(h, why)) /\ ~closeOrderRoute(h, why).open
    BY <1>1, <1>6, CloseOK DEF EntryOK, Causes
  <1>7. Evolves(h, h)
    BY <1>1 DEF Evolves
  <1>8. CASE PreviewEcho(o)
    <2>1. io' = less /\ book' = [book EXCEPT ![o] = IF h.open THEN closeOrderRoute(h, "answered") ELSE h]
      BY <1>8 DEF PreviewEcho, less, h
    <2>2. CASE h.open
      BY <1>5, <1>6, <2>1, <2>2
    <2>3. CASE ~h.open
      BY <1>1, <1>5, <1>7, <2>1, <2>3
    <2> QED
      BY <2>2, <2>3
  <1>9. ASSUME NEW rejection \in BOOLEAN, OrderError(o, rejection)
        PROVE  StepOK
    <2>1. /\ io' = IF rejection THEN less ELSE io
          /\ io.frame[o] = "written" \/ o \in io.asked
          /\ book' = [book EXCEPT ![o] =
               IF ~h.open THEN h
               ELSE IF h.kind = "order" THEN ErrorToOrder(h, rejection)
               ELSE IF rejection THEN closeOrderRoute(h, "rejected")
               ELSE IF h.kind = "exercise" THEN EmitNews(h) ELSE h]
      BY <1>9 DEF OrderError, less, h
    <2>2. io' \in {io, less}
      BY <2>1
    <2>3. CASE ~h.open
      <3>1. book' = [book EXCEPT ![o] = h]
        BY <2>1, <2>3
      <3> QED
        BY <1>1, <1>5, <1>7, <2>2, <2>3, <3>1
    <2>4. CASE h.open /\ h.kind \in {"exercise", "preview"} /\ rejection
      <3>1. book' = [book EXCEPT ![o] = closeOrderRoute(h, "rejected")]
        BY <2>1, <2>4
      <3> QED
        BY <1>5, <1>6, <2>2, <2>4, <3>1
    <2>5. CASE h.open /\ h.kind = "exercise" /\ ~rejection
      <3>1. book' = [book EXCEPT ![o] = EmitNews(h)]
        BY <2>1, <2>5
      <3>2. /\ EntryOK(o, EmitNews(h), io.frame[o], io.result[o], o \in io.asked, next, io.epoch, wire, phase)
            /\ Evolves(h, EmitNews(h))
        BY <1>1, <1>2, <2>5, NewsOK
      <3>3. io' = io
        BY <2>1, <2>5
      <3> QED
        BY <1>5, <3>1, <3>2, <3>3
    <2>6. CASE h.open /\ h.kind = "preview" /\ ~rejection
      <3>1. book' = [book EXCEPT ![o] = h] /\ io' = io
        BY <2>1, <2>6
      <3> QED
        BY <1>1, <1>5, <1>7, <3>1
    <2>7. CASE h.open /\ h.kind = "order"
      <3>1. book' = [book EXCEPT ![o] = ErrorToOrder(h, rejection)]
        BY <2>1, <2>7
      <3>2. io.frame[o] # "partial"
        BY <1>3, <2>1, <2>7
      <3>3. /\ EntryOK(o, ErrorToOrder(h, rejection), io.frame[o], io.result[o], o \in io.asked, next, io.epoch,
                       wire, phase)
            /\ Evolves(h, ErrorToOrder(h, rejection))
        BY <1>1, <1>2, <2>7, <3>2, ErrorOK
      <3>4. ErrorToOrder(h, rejection).kind # "preview"
        BY <2>7, <3>3 DEF Evolves
      <3> QED
        BY <1>5, <2>2, <3>1, <3>3, <3>4
    <2> QED
      BY <1>1, <1>3, <2>3, <2>4, <2>5, <2>6, <2>7 DEF Kinds
  <1> QED
    BY <1>8, <1>9

\* An order ID that was not handed out has left no trace.
LEMMA Fresh ==
    ASSUME IInv, NEW o \in IDs, o > next
    PROVE  /\ book[o].kind = "none" /\ io.frame[o] = "none" /\ io.result[o] = "none" /\ o \notin io.asked
  BY EntryHere DEF EntryOK, Base

\* bindOrderHandle and trackOrderWrite.
LEMMA BoundEntry ==
    ASSUME NEW kind \in Kinds, io.epoch \in Nat
    PROVE  \A h \in {bindOrderHandle(kind), Tracked(bindOrderHandle(kind))} :
             /\ h \in Entries /\ h.kind = kind /\ h.open /\ h.err = "none" /\ ~h.gapped /\ ~h.recovery
             /\ h.starts = 0 /\ h.placed = io.epoch /\ h.known = io.epoch /\ h.heard = 0 /\ h.replaced = 0
             /\ ~h.misled
             /\ h.write = (h = Tracked(bindOrderHandle(kind)))
  <1> DEFINE b == bindOrderHandle(kind)
  <1>1. b = [Absent EXCEPT !.kind = kind, !.open = TRUE, !.placed = io.epoch, !.known = io.epoch]
    BY DEF bindOrderHandle
  <1>2. Absent \in Entries
    BY Capacity DEF Absent, Entries, Kinds, Causes
  <1>3. /\ Absent.err = "none" /\ Absent.gapped = FALSE /\ Absent.recovery = FALSE /\ Absent.starts = 0
        /\ Absent.heard = 0 /\ Absent.replaced = 0 /\ Absent.misled = FALSE /\ Absent.write = FALSE
    BY DEF Absent
  <1> HIDE DEF b
  <1>4. b \in Entries
    BY <1>1, <1>2 DEF Entries
  <1>5. /\ b.kind = kind /\ b.open = TRUE /\ b.placed = io.epoch /\ b.known = io.epoch
        /\ b.err = "none" /\ b.gapped = FALSE /\ b.recovery = FALSE /\ b.starts = 0
        /\ b.heard = 0 /\ b.replaced = 0 /\ b.misled = FALSE /\ b.write = FALSE
    BY <1>1, <1>2, <1>3 DEF Entries
  <1> DEFINE t == Tracked(b)
  <1>6. t \in Entries /\ t.write = TRUE
        /\ t.kind = b.kind /\ t.open = b.open /\ t.placed = b.placed /\ t.known = b.known
        /\ t.err = b.err /\ t.gapped = b.gapped /\ t.recovery = b.recovery /\ t.starts = b.starts
        /\ t.heard = b.heard /\ t.replaced = b.replaced /\ t.misled = b.misled
    BY <1>4 DEF Tracked, Entries
  <1> HIDE DEF t
  <1>7. t # b
    BY <1>5, <1>6
  <1> QED
    BY <1>4, <1>5, <1>6, <1>7 DEF b, t

\* The entry of a new order, by what became of its frame.
LEMMA NewOK ==
    ASSUME NEW o \in Nat, NEW nx \in Nat, o <= nx, io.epoch \in Nat, NEW w, w # "none", NEW ph, ph # "Closed"
    PROVE  /\ EntryOK(o, Tracked(bindOrderHandle("order")), "queued", "none", FALSE, nx, io.epoch, w, ph)
           /\ EntryOK(o, bindOrderHandle("exercise"), "written", "none", FALSE, nx, io.epoch, w, ph)
           /\ EntryOK(o, bindOrderHandle("preview"), "none", "none", TRUE, nx, io.epoch, w, ph)
           /\ \A kind \in Kinds \ {"none"} :
                /\ bindOrderHandle(kind) \in Entries
                /\ closeOrderRoute(bindOrderHandle(kind), "interrupted") \in Entries
                /\ EntryOK(o, closeOrderRoute(bindOrderHandle(kind), "interrupted"), "none", "none", FALSE, nx,
                           io.epoch, w, ph)
           /\ \A f \in {"none", "queued"} :
                EntryOK(o, closeOrderRoute(bindOrderHandle("order"), "recovery"), f, "none", FALSE, nx,
                        io.epoch, w, ph)
           /\ Tracked(bindOrderHandle("order")) \in Entries
           /\ closeOrderRoute(bindOrderHandle("order"), "recovery") \in Entries
           /\ closeOrderRoute(bindOrderHandle("order"), "recovery").err = "recovery"
           /\ \A why \in Causes : /\ ~closeOrderRoute(bindOrderHandle("order"), why).open
                                  /\ closeOrderRoute(bindOrderHandle("order"), why).kind = "order"
  <1>1. Tracked(bindOrderHandle("order")) \in Entries
        /\ EntryOK(o, Tracked(bindOrderHandle("order")), "queued", "none", FALSE, nx, io.epoch, w, ph)
    <2> DEFINE t == Tracked(bindOrderHandle("order"))
    <2>1. /\ t \in Entries /\ t.kind = "order" /\ t.open /\ t.err = "none" /\ ~t.recovery
          /\ t.starts = 0 /\ t.placed = io.epoch /\ t.known = io.epoch /\ t.heard = 0 /\ t.replaced = 0
          /\ ~t.misled /\ t.write
      BY BoundEntry DEF Kinds
    <2> HIDE DEF t
    <2>2. EntryOK(o, t, "queued", "none", FALSE, nx, io.epoch, w, ph)
      BY <2>1 DEF EntryOK, Base, Live
    <2> QED
      BY <2>1, <2>2 DEF t
  <1>2. ASSUME NEW kind \in Kinds \ {"none"}, NEW f, f = "queued" => kind = "order", NEW ask \in BOOLEAN,
               \/ kind = "order" /\ ~ask /\ f \in {"none", "queued"}
               \/ kind = "exercise" /\ ~ask /\ f \in {"none", "written"}
               \/ kind = "preview" /\ f = "none"
        PROVE  /\ bindOrderHandle(kind) \in Entries
               /\ bindOrderHandle(kind).open /\ bindOrderHandle(kind).kind = kind
               /\ bindOrderHandle(kind).err = "none"
               /\ Base(o, bindOrderHandle(kind), f, "none", ask, nx)
               /\ kind = "exercise" => Live(bindOrderHandle(kind), f, "none", ask, io.epoch, w, ph)
               /\ kind = "preview" /\ ask => Live(bindOrderHandle(kind), f, "none", ask, io.epoch, w, ph)
    <2> DEFINE b == bindOrderHandle(kind)
               t == Tracked(b)
    <2>1. /\ b \in Entries /\ b.kind = kind /\ b.open /\ b.err = "none" /\ ~b.recovery
          /\ b.starts = 0 /\ b.placed = io.epoch /\ b.known = io.epoch /\ b.heard = 0 /\ b.replaced = 0
          /\ ~b.misled /\ t.write /\ b.write = (b = t)
      BY BoundEntry
    <2>2. b.write = FALSE
      BY DEF bindOrderHandle, Absent
    <2> HIDE DEF b
    <2>3. Base(o, b, f, "none", ask, nx)
      BY <1>2, <2>1, <2>2 DEF Base
    <2>4. kind = "exercise" \/ (kind = "preview" /\ ask) => Live(b, f, "none", ask, io.epoch, w, ph)
      BY <2>1, <2>2 DEF Live
    <2> QED
      BY <2>1, <2>3, <2>4 DEF b
  <1>3. EntryOK(o, bindOrderHandle("exercise"), "written", "none", FALSE, nx, io.epoch, w, ph)
    BY <1>2 DEF Kinds, EntryOK
  <1>4. EntryOK(o, bindOrderHandle("preview"), "none", "none", TRUE, nx, io.epoch, w, ph)
    BY <1>2 DEF Kinds, EntryOK
  <1>5. ASSUME NEW kind \in Kinds \ {"none"}
        PROVE  /\ bindOrderHandle(kind) \in Entries
               /\ closeOrderRoute(bindOrderHandle(kind), "interrupted") \in Entries
               /\ EntryOK(o, closeOrderRoute(bindOrderHandle(kind), "interrupted"), "none", "none", FALSE, nx,
                          io.epoch, w, ph)
    <2>1. /\ bindOrderHandle(kind) \in Entries /\ bindOrderHandle(kind).open
          /\ Base(o, bindOrderHandle(kind), "none", "none", FALSE, nx)
      BY <1>2 DEF Kinds
    <2> QED
      BY <2>1, CloseOK, ClosedEntry DEF Causes
  <1>6. ASSUME NEW f \in {"none", "queued"}
        PROVE  EntryOK(o, closeOrderRoute(bindOrderHandle("order"), "recovery"), f, "none", FALSE, nx,
                       io.epoch, w, ph)
    <2>1. /\ bindOrderHandle("order") \in Entries /\ bindOrderHandle("order").open
          /\ Base(o, bindOrderHandle("order"), f, "none", FALSE, nx)
      BY <1>2 DEF Kinds
    <2> QED
      BY <2>1, CloseOK DEF Causes
  <1>7. bindOrderHandle("order") \in Entries /\ bindOrderHandle("order").kind = "order"
        /\ bindOrderHandle("order").err = "none"
    BY <1>2 DEF Kinds
  <1>8. /\ closeOrderRoute(bindOrderHandle("order"), "recovery") \in Entries
        /\ closeOrderRoute(bindOrderHandle("order"), "recovery").err = "recovery"
    BY <1>7, ClosedEntry DEF Causes
  <1>9. \A why \in Causes : /\ ~closeOrderRoute(bindOrderHandle("order"), why).open
                            /\ closeOrderRoute(bindOrderHandle("order"), why).kind = "order"
    BY <1>7, ClosedEntry
  <1> QED
    BY <1>1, <1>3, <1>4, <1>5, <1>6, <1>8, <1>9

\* The frames of k consecutive new orders join the queue.
LEMMA TransmitOK ==
    ASSUME IInv, NEW k \in Nat, next + k <= N
    PROVE  LET t == Transmit([i \in 1 .. k |-> next + i]) IN
           /\ t \in Views /\ t.result = io.result /\ t.asked = io.asked /\ t.epoch = io.epoch
           /\ \A o \in IDs : t.frame[o] = IF o \in next + 1 .. next + k THEN "queued" ELSE io.frame[o]
           /\ \A i \in 1 .. Len(t.queue) : t.frame[t.queue[i]] = "queued"
           /\ \A i, j \in 1 .. Len(t.queue) : t.queue[i] = t.queue[j] => i = j
           /\ \A o \in IDs : t.frame[o] = "queued" => \E i \in 1 .. Len(t.queue) : t.queue[i] = o
  <1> DEFINE legs == [i \in 1 .. k |-> next + i]
             q == io.queue \o legs
             f == [o \in IDs |-> IF \E i \in DOMAIN legs : legs[i] = o THEN "queued" ELSE io.frame[o]]
             t == Transmit(legs)
  <1>1. io \in Views /\ next \in Nat /\ N \in Nat /\ IDs = 1 .. N
    BY Capacity DEF IInv, StateOK, IDs
  <1>2. legs \in Seq(IDs) /\ Len(legs) = k /\ DOMAIN legs = 1 .. k
    <2>1. legs \in [1 .. k -> IDs]
      BY <1>1
    <2> QED
      BY <2>1
  <1>3. io.queue \in Seq(IDs) /\ Len(io.queue) \in Nat
    BY <1>1, LenProperties DEF Views
  <1>4. /\ q \in Seq(IDs) /\ Len(q) = Len(io.queue) + k
        /\ \A i \in 1 .. Len(io.queue) : q[i] = io.queue[i]
        /\ \A i \in 1 .. k : q[Len(io.queue) + i] = next + i
    <2>1. \A i \in 1 .. k : legs[i] = next + i
      OBVIOUS
    <2> HIDE DEF legs
    <2>2. q \in Seq(IDs) /\ Len(q) = Len(io.queue) + k
      BY <1>2, <1>3, ConcatProperties
    <2>3. \A i \in 1 .. Len(io.queue) : q[i] = io.queue[i]
      BY <1>2, <1>3, ConcatProperties
    <2>4. \A i \in 1 .. k : q[Len(io.queue) + i] = legs[i]
      BY <1>2, <1>3, ConcatProperties
    <2> QED
      BY <2>1, <2>2, <2>3, <2>4
  <1>5. \A o \in IDs : (\E i \in DOMAIN legs : legs[i] = o) <=> o \in next + 1 .. next + k
    <2>1. TAKE o \in IDs
    <2>2. ASSUME o \in next + 1 .. next + k PROVE \E i \in DOMAIN legs : legs[i] = o
      <3>1. o - next \in 1 .. k /\ legs[o - next] = o
        BY <1>1, <2>2
      <3> QED
        BY <1>2, <3>1
    <2>3. ASSUME \E i \in DOMAIN legs : legs[i] = o PROVE o \in next + 1 .. next + k
      BY <1>1, <2>3
    <2> QED
      BY <2>2, <2>3
  <1>6. f \in [IDs -> FrameStates] /\ \A o \in IDs : f[o] = IF o \in next + 1 .. next + k THEN "queued" ELSE io.frame[o]
    <2> HIDE DEF legs
    <2> QED
      BY <1>1, <1>5 DEF Views, FrameStates
  <1>7. t = [io EXCEPT !.queue = q, !.frame = f]
    BY <1>1 DEF Transmit, Views
  <1> HIDE DEF q, f, legs
  <1>8. t \in Views /\ t.queue = q /\ t.frame = f /\ t.result = io.result /\ t.asked = io.asked /\ t.epoch = io.epoch
    <2>1. t \in Views
      BY <1>1, <1>4, <1>6, <1>7 DEF Views
    <2> QED
      BY <1>1, <1>7, <2>1 DEF Views
  <1> HIDE DEF t
  <1>9. /\ \A i \in 1 .. Len(io.queue) : io.queue[i] \in IDs /\ io.frame[io.queue[i]] = "queued"
        /\ \A i \in 1 .. Len(io.queue) : io.queue[i] \in Nat /\ io.queue[i] <= next
    <2>1. \A i \in 1 .. Len(io.queue) : io.queue[i] \in IDs /\ io.frame[io.queue[i]] = "queued"
      BY <1>3, ElementOfSeq DEF IInv, QueueInv
    <2>2. \A o \in IDs : io.frame[o] = "queued" => o <= next
      BY <1>1, Fresh
    <2> QED
      BY <1>1, <2>1, <2>2
  <1>14. Len(io.queue) \in Nat /\ Len(q) = Len(io.queue) + k /\ next \in Nat /\ N \in Nat
    BY <1>1, <1>3, <1>4
  <1>10. \A i \in 1 .. Len(q) :
           \/ i \in 1 .. Len(io.queue) /\ q[i] = io.queue[i]
           \/ \E d \in 1 .. k : i = Len(io.queue) + d /\ q[i] = next + d
    <2>1. TAKE i \in 1 .. Len(q)
    <2>2. CASE i <= Len(io.queue)
      BY <1>14, <1>4, <2>2
    <2>3. CASE i > Len(io.queue)
      <3>1. i - Len(io.queue) \in 1 .. k /\ i = Len(io.queue) + (i - Len(io.queue))
        BY <1>14, <2>3
      <3> QED
        BY <1>4, <3>1
    <2> QED
      BY <1>14, <2>2, <2>3
  <1>11. \A i \in 1 .. Len(q) : f[q[i]] = "queued"
    <2>1. TAKE i \in 1 .. Len(q)
    <2>2. CASE i \in 1 .. Len(io.queue) /\ q[i] = io.queue[i]
      BY <1>6, <1>9, <2>2
    <2>3. ASSUME NEW d \in 1 .. k, q[i] = next + d
          PROVE  f[q[i]] = "queued"
      <3>1. q[i] \in IDs /\ q[i] \in next + 1 .. next + k
        BY <1>14, <2>3 DEF IDs
      <3> QED
        BY <1>6, <3>1
    <2> QED
      BY <1>10, <2>2, <2>3
  <1>12. \A i, j \in 1 .. Len(q) : q[i] = q[j] => i = j
    <2>1. SUFFICES ASSUME NEW i \in 1 .. Len(q), NEW j \in 1 .. Len(q), q[i] = q[j] PROVE i = j
      OBVIOUS
    <2>2. CASE i \in 1 .. Len(io.queue) /\ j \in 1 .. Len(io.queue)
      BY <1>4, <2>1, <2>2 DEF IInv, QueueInv
    <2>3. ASSUME NEW a \in 1 .. Len(q), NEW b \in 1 .. Len(io.queue), NEW d \in 1 .. k, q[a] = next + d
          PROVE  q[b] # q[a]
      <3>1. q[b] = io.queue[b] /\ io.queue[b] \in Nat /\ io.queue[b] <= next
        BY <1>4, <1>9
      <3> QED
        BY <1>14, <2>3, <3>1
    <2>4. ASSUME NEW c \in 1 .. k, NEW d \in 1 .. k, i = Len(io.queue) + c, j = Len(io.queue) + d,
                 q[i] = next + c, q[j] = next + d
          PROVE  i = j
      <3>1. c = d
        BY <1>14, <2>1, <2>4
      <3> QED
        BY <2>4, <3>1
    <2> QED
      BY <1>10, <2>1, <2>2, <2>3, <2>4
  <1>13. \A o \in IDs : f[o] = "queued" => \E i \in 1 .. Len(q) : q[i] = o
    <2>1. SUFFICES ASSUME NEW o \in IDs, f[o] = "queued" PROVE \E i \in 1 .. Len(q) : q[i] = o
      OBVIOUS
    <2>2. CASE o \in next + 1 .. next + k
      <3>1. o - next \in 1 .. k /\ Len(io.queue) + (o - next) \in 1 .. Len(q) /\ next + (o - next) = o
        BY <1>1, <1>3, <1>4, <2>2
      <3>2. q[Len(io.queue) + (o - next)] = o
        BY <1>4, <3>1
      <3> QED
        BY <3>1, <3>2
    <2>3. CASE o \notin next + 1 .. next + k
      <3>1. PICK i \in 1 .. Len(io.queue) : io.queue[i] = o
        BY <1>6, <2>1, <2>3 DEF IInv, QueueInv
      <3>2. i \in 1 .. Len(q)
        BY <1>14
      <3>3. q[i] = o
        BY <1>4, <3>1
      <3> QED
        BY <3>2, <3>3
    <2> QED
      BY <2>2, <2>3
  <1> QED
    BY <1>6, <1>8, <1>11, <1>12, <1>13 DEF t, legs

\* A placement: only the orders it numbers change.
LEMMA PlaceKept ==
    ASSUME IInv, NEW nx \in Nat, next <= nx, nx <= N, next' = nx, UNCHANGED phase,
           wire # "none", wire' # "none",
           io' \in Views, QueueInv', io'.epoch = io.epoch,
           book' = [o \in IDs |-> book'[o]],
           \A o \in IDs : o \notin next + 1 .. nx =>
             /\ book'[o] = book[o] /\ io'.frame[o] = io.frame[o] /\ io'.result[o] = io.result[o]
             /\ o \in io'.asked <=> o \in io.asked,
           \A o \in IDs : o \in next + 1 .. nx =>
             /\ book'[o] \in Entries
             /\ io'.frame[o] \in {"none", "queued", "written"}
             /\ EntryOK(o, book'[o], io'.frame[o], io'.result[o], o \in io'.asked, nx, io.epoch, wire', phase)
    PROVE  /\ StateOK' /\ BookInv' /\ QueueInv'
           /\ \A o \in IDs : Moves(o)
  <1>1. next \in Nat /\ N \in Nat
    BY Capacity DEF IInv, StateOK
  <1>2. \A o \in IDs : book'[o] \in Entries
    BY EntryHere
  <1>3. StateOK'
    <2>1. book' \in [IDs -> Entries]
      BY <1>2
    <2> QED
      BY <1>1, <2>1 DEF StateOK
  <1>4. \A o \in IDs : o \in next + 1 .. nx => book[o].kind = "none" /\ io.frame[o] = "none"
    BY <1>1, Fresh
  <1>5. BookInv'
    <2>1. SUFFICES ASSUME NEW o \in IDs, o \notin next + 1 .. nx
                   PROVE  EntryOK(o, book[o], io.frame[o], io.result[o], o \in io.asked, nx, io.epoch, wire', phase)
      <3>1. \A o \in IDs : (o \in io'.asked) \in BOOLEAN /\ (o \in io.asked) \in BOOLEAN
        OBVIOUS
      <3>2. \A o \in IDs : o \notin next + 1 .. nx => (o \in io'.asked) = (o \in io.asked)
        BY <3>1
      <3> QED
        BY <2>1, <3>2 DEF BookInv
    <2>2. /\ EntryOK(o, book[o], io.frame[o], io.result[o], o \in io.asked, next, io.epoch, wire, phase)
          /\ o \in Nat
      BY EntryHere
    <2>3. EntryOK(o, book[o], io.frame[o], io.result[o], o \in io.asked, next, io.epoch, wire', phase)
      BY <2>2, LinkOK
    <2>4. o > next <=> o > nx
      BY <1>1, <2>1, <2>2
    <2> QED
      BY <2>3, <2>4 DEF EntryOK, Base
  <1>6. ASSUME NEW o \in IDs PROVE Moves(o)
    <2>1. CASE o \in next + 1 .. nx
      BY <1>4, <2>1 DEF Moves
    <2>2. CASE o \notin next + 1 .. nx
      BY <2>2, EntryHere DEF Moves, Evolves
    <2> QED
      BY <2>1, <2>2
  <1> QED
    BY <1>3, <1>5, <1>6

\* A single placement that numbers one order.
LEMMA PlaceOneKept ==
    ASSUME IInv, next < N, next' = next + 1, UNCHANGED <<phase, failed>>, wire # "none", wire' # "none",
           phase # "Closed", NEW g \in Entries, book' = [book EXCEPT ![next + 1] = g],
           io' \in Views, QueueInv', io'.epoch = io.epoch, io'.result = io.result,
           \A o \in IDs : o # next + 1 => io'.frame[o] = io.frame[o] /\ (o \in io'.asked <=> o \in io.asked),
           io'.frame[next + 1] \in {"none", "queued", "written"},
           EntryOK(next + 1, g, io'.frame[next + 1], "none", next + 1 \in io'.asked, next + 1, io.epoch, wire', phase)
    PROVE  StepOK
  <1>1. next \in Nat /\ N \in Nat /\ next + 1 \in IDs /\ next + 1 .. next + 1 = {next + 1} /\ next + 1 > next
    BY Capacity DEF IInv, StateOK, IDs
  <1>2. book \in [IDs -> Entries] /\ book'[next + 1] = g /\ (\A o \in IDs : o # next + 1 => book'[o] = book[o])
        /\ book' = [o \in IDs |-> book'[o]]
    BY <1>1 DEF IInv, StateOK
  <1>3. io'.result[next + 1] = "none"
    BY <1>1, Fresh
  <1>4. /\ StateOK' /\ BookInv' /\ QueueInv'
        /\ \A o \in IDs : Moves(o)
    <2>1. \A o \in IDs : o \notin next + 1 .. next + 1 => o # next + 1
      BY <1>1
    <2>2. \A o \in IDs : o \in next + 1 .. next + 1 => o = next + 1
      BY <1>1
    <2>3. next + 1 \in Nat /\ next <= next + 1 /\ next + 1 <= N
      BY <1>1
    <2>4. \A o \in IDs : o \notin next + 1 .. next + 1 =>
             /\ book'[o] = book[o] /\ io'.frame[o] = io.frame[o] /\ io'.result[o] = io.result[o]
             /\ o \in io'.asked <=> o \in io.asked
      BY <1>2, <2>1
    <2>5. \A o \in IDs : o \in next + 1 .. next + 1 =>
             /\ book'[o] \in Entries
             /\ io'.frame[o] \in {"none", "queued", "written"}
             /\ EntryOK(o, book'[o], io'.frame[o], io'.result[o], o \in io'.asked, next + 1, io.epoch, wire', phase)
      BY <1>2, <1>3, <2>2
    <2> QED
      BY <1>2, <2>3, <2>4, <2>5, PlaceKept
  <1> QED
    BY <1>4, FailedKept DEF StepOK, IInv

\* PlaceOrder, PreviewOrder and ExerciseOptions.
LEMMA PlaceOneOK ==
    ASSUME IInv, PlaceOrder \/ PreviewOrder \/ ExerciseOptions
    PROVE  StepOK
  <1> DEFINE o == next + 1
  <1>1. /\ next < N /\ next' = o /\ UNCHANGED <<phase, failed>> /\ wire # "none" /\ wire' # "none"
        /\ phase # "Closed"
    BY DEF PlaceOrder, PreviewOrder, ExerciseOptions, Call, Ready, Quiet, MayStop
  <1>2. o \in IDs /\ o \in Nat /\ o > next /\ next \in Nat /\ next + 1 <= N
    BY <1>1, Capacity DEF IInv, StateOK, IDs
  <1>3. /\ io \in Views /\ QueueInv /\ io.epoch \in Nat
        /\ io.frame[o] = "none" /\ io.result[o] = "none" /\ o \notin io.asked
    BY <1>2, Fresh DEF IInv, StateOK, Views
  <1>4. /\ EntryOK(o, Tracked(bindOrderHandle("order")), "queued", "none", FALSE, o, io.epoch, wire', phase)
        /\ EntryOK(o, bindOrderHandle("exercise"), "written", "none", FALSE, o, io.epoch, wire', phase)
        /\ EntryOK(o, bindOrderHandle("preview"), "none", "none", TRUE, o, io.epoch, wire', phase)
        /\ \A kind \in Kinds \ {"none"} :
             /\ bindOrderHandle(kind) \in Entries
             /\ closeOrderRoute(bindOrderHandle(kind), "interrupted") \in Entries
             /\ EntryOK(o, closeOrderRoute(bindOrderHandle(kind), "interrupted"), "none", "none", FALSE, o,
                        io.epoch, wire', phase)
        /\ Tracked(bindOrderHandle("order")) \in Entries
    <2>1. o <= o
      BY <1>2
    <2> QED
      BY <1>1, <1>2, <1>3, <2>1, NewOK
  <1>5. ASSUME NEW kind \in Kinds \ {"none"}, io' = io,
               book' = [book EXCEPT ![o] = closeOrderRoute(bindOrderHandle(kind), "interrupted")]
        PROVE  StepOK
    <2>1. QueueInv'
      BY <1>3, <1>5 DEF QueueInv
    <2>2. EntryOK(o, closeOrderRoute(bindOrderHandle(kind), "interrupted"), io'.frame[o], "none", o \in io'.asked, o,
                  io.epoch, wire', phase)
      <3>1. (o \in io'.asked) = FALSE /\ io'.frame[o] = "none"
        BY <1>3, <1>5
      <3> QED
        BY <1>4, <3>1
    <2> QED
      BY <1>1, <1>3, <1>4, <1>5, <2>1, <2>2, PlaceOneKept
  <1>6. CASE book' = [book EXCEPT ![o] = Tracked(bindOrderHandle("order"))] /\ io' = Transmit(<<o>>)
    <2>1. <<o>> = [i \in 1 .. 1 |-> next + i]
      BY <1>2
    <2> DEFINE t == Transmit([i \in 1 .. 1 |-> next + i])
    <2>2. /\ t \in Views /\ t.result = io.result /\ t.asked = io.asked /\ t.epoch = io.epoch
          /\ \A p \in IDs : t.frame[p] = IF p \in next + 1 .. next + 1 THEN "queued" ELSE io.frame[p]
          /\ \A i \in 1 .. Len(t.queue) : t.frame[t.queue[i]] = "queued"
          /\ \A i, j \in 1 .. Len(t.queue) : t.queue[i] = t.queue[j] => i = j
          /\ \A p \in IDs : t.frame[p] = "queued" => \E i \in 1 .. Len(t.queue) : t.queue[i] = p
      BY <1>2, TransmitOK
    <2>3. io' = t
      BY <1>6, <2>1
    <2> HIDE DEF t
    <2>4. QueueInv'
      BY <2>2, <2>3 DEF QueueInv
    <2>5. io'.frame[o] = "queued" /\ (o \in io'.asked) = FALSE
          /\ \A p \in IDs : p # o => io'.frame[p] = io.frame[p]
      BY <1>2, <1>3, <2>2, <2>3
    <2>6. io' \in Views /\ io'.result = io.result /\ io'.asked = io.asked /\ io'.epoch = io.epoch
      BY <2>2, <2>3
    <2>7. EntryOK(o, Tracked(bindOrderHandle("order")), io'.frame[o], "none", o \in io'.asked, o, io.epoch, wire',
                  phase)
      BY <1>4, <2>5
    <2> QED
      BY <1>1, <1>4, <1>6, <2>4, <2>5, <2>6, <2>7, PlaceOneKept
  <1>7. CASE book' = [book EXCEPT ![o] = bindOrderHandle("preview")] /\ io' = [io EXCEPT !.asked = @ \cup {o}]
    <2>1. io.asked \cup {o} \in SUBSET IDs
      BY <1>2, <1>3 DEF Views
    <2>2. io' \in Views
      BY <1>3, <1>7, <2>1 DEF Views
    <2>3. io'.queue = io.queue /\ io'.frame = io.frame /\ io'.result = io.result /\ io'.epoch = io.epoch
          /\ io'.asked = io.asked \cup {o}
      BY <1>3, <1>7, <2>2 DEF Views
    <2>4. QueueInv'
      BY <1>3, <2>3 DEF QueueInv
    <2>5. (o \in io'.asked) = TRUE /\ io'.frame[o] = "none"
          /\ \A p \in IDs : p # o => (p \in io'.asked <=> p \in io.asked)
      BY <1>3, <2>3
    <2>6. bindOrderHandle("preview") \in Entries
      BY <1>4 DEF Kinds
    <2> QED
      BY <1>1, <1>4, <1>7, <2>2, <2>3, <2>4, <2>5, <2>6, PlaceOneKept
  <1>8. CASE book' = [book EXCEPT ![o] = bindOrderHandle("exercise")] /\ io' = [io EXCEPT !.frame[o] = "written"]
    <2> DEFINE f == [io.frame EXCEPT ![o] = "written"]
    <2>1. io.frame \in [IDs -> FrameStates] /\ "written" \in FrameStates
      BY <1>3 DEF Views, FrameStates, Results
    <2>2. /\ f \in [IDs -> FrameStates] /\ f[o] = "written"
          /\ \A p \in IDs : p # o => f[p] = io.frame[p]
      BY <1>2, <2>1
    <2>3. io' = [io EXCEPT !.frame = f]
      BY <1>8
    <2> HIDE DEF f
    <2>4. io' \in Views
      BY <1>3, <2>2, <2>3 DEF Views
    <2>5. io'.queue = io.queue /\ io'.frame = f /\ io'.result = io.result /\ io'.epoch = io.epoch
          /\ io'.asked = io.asked
      BY <1>3, <2>3, <2>4 DEF Views
    <2>6. QueueInv'
      <3>1. \A i \in 1 .. Len(io.queue) : io.queue[i] \in IDs
        BY <1>3, ElementOfSeq DEF Views
      <3>2. \A i \in 1 .. Len(io.queue) : f[io.queue[i]] = "queued"
        BY <1>3, <2>2, <3>1 DEF QueueInv
      <3> QED
        BY <1>3, <2>2, <2>5, <3>2 DEF QueueInv
    <2>7. (o \in io'.asked) = FALSE /\ io'.frame[o] = "written"
      BY <1>3, <2>2, <2>5
    <2>8. bindOrderHandle("exercise") \in Entries
      BY <1>4 DEF Kinds
    <2> QED
      BY <1>1, <1>4, <1>8, <2>2, <2>4, <2>5, <2>6, <2>7, <2>8, PlaceOneKept
  <1> QED
    BY <1>1, <1>5, <1>6, <1>7, <1>8 DEF PlaceOrder, PreviewOrder, ExerciseOptions, Kinds

\* Three legs in one turn: all of them tracked, or all of them closed with an
\* account of the frames that are already queued.
LEMMA PlaceBracketOK ==
    ASSUME IInv, PlaceBracket
    PROVE  StepOK
  <1> DEFINE nx == next + 3
             legs == next + 1 .. next + 3
  <1>1. nx <= N /\ next' = nx /\ UNCHANGED phase /\ wire # "none" /\ wire' # "none" /\ phase # "Closed"
    BY DEF PlaceBracket, Call, Ready, Quiet, MayStop
  <1>2. next \in Nat /\ N \in Nat /\ nx \in Nat /\ next <= nx /\ io.epoch \in Nat /\ io \in Views
    BY Capacity DEF IInv, StateOK, Views
  <1>3. PICK k \in 0 .. 3 :
          /\ io' = Transmit([i \in 1 .. k |-> next + i])
          /\ IF k = 3
             THEN /\ book' = [o \in IDs |-> IF o \in legs THEN Tracked(bindOrderHandle("order")) ELSE book[o]]
                  /\ UNCHANGED failed
             ELSE \E cancelled \in SUBSET (next + 1 .. next + k) :
                    cancelAndCloseOrderRoutes(legs, next + 1 .. next + k, cancelled)
    BY DEF PlaceBracket
  <1> DEFINE sent == next + 1 .. next + k
             why == IF sent = {} THEN "interrupted" ELSE "recovery"
             gone == closeOrderRoute(bindOrderHandle("order"), why)
  <1>4. /\ io' \in Views /\ io'.result = io.result /\ io'.asked = io.asked /\ io'.epoch = io.epoch
        /\ \A o \in IDs : io'.frame[o] = IF o \in sent THEN "queued" ELSE io.frame[o]
        /\ QueueInv'
    <2> DEFINE t == Transmit([i \in 1 .. k |-> next + i])
    <2>1. /\ t \in Views /\ t.result = io.result /\ t.asked = io.asked /\ t.epoch = io.epoch
          /\ \A o \in IDs : t.frame[o] = IF o \in sent THEN "queued" ELSE io.frame[o]
          /\ \A i \in 1 .. Len(t.queue) : t.frame[t.queue[i]] = "queued"
          /\ \A i, j \in 1 .. Len(t.queue) : t.queue[i] = t.queue[j] => i = j
          /\ \A o \in IDs : t.frame[o] = "queued" => \E i \in 1 .. Len(t.queue) : t.queue[i] = o
      <3>1. k \in Nat /\ next + k <= N
        BY <1>1, <1>2
      <3> QED
        BY <3>1, TransmitOK
    <2>2. io' = t
      BY <1>3
    <2> HIDE DEF t
    <2> QED
      BY <2>1, <2>2 DEF QueueInv
  <1>5. /\ legs \subseteq IDs /\ sent \subseteq legs
        /\ k = 3 => sent = legs
        /\ k = 0 <=> sent = {}
        /\ \A o \in legs : o \in Nat /\ o > next /\ o <= nx
    BY <1>1, <1>2 DEF IDs
  <1>6. \A o \in legs : io.frame[o] = "none" /\ io'.result[o] = "none" /\ (o \in io'.asked) = FALSE
    BY <1>4, <1>5, Fresh
  <1>7. \A o \in legs : io'.frame[o] = IF o \in sent THEN "queued" ELSE "none"
    BY <1>4, <1>5, <1>6
  <1>8. ASSUME NEW o \in legs
        PROVE  /\ Tracked(bindOrderHandle("order")) \in Entries
               /\ EntryOK(o, Tracked(bindOrderHandle("order")), "queued", "none", FALSE, nx, io.epoch, wire', phase)
               /\ gone \in Entries /\ ~gone.open /\ gone.kind = "order"
               /\ sent # {} => gone.err = "recovery"
               /\ EntryOK(o, gone, IF o \in sent THEN "queued" ELSE "none", "none", FALSE, nx, io.epoch, wire', phase)
    <2>1. /\ EntryOK(o, Tracked(bindOrderHandle("order")), "queued", "none", FALSE, nx, io.epoch, wire', phase)
          /\ Tracked(bindOrderHandle("order")) \in Entries
          /\ closeOrderRoute(bindOrderHandle("order"), "interrupted") \in Entries
          /\ EntryOK(o, closeOrderRoute(bindOrderHandle("order"), "interrupted"), "none", "none", FALSE, nx,
                     io.epoch, wire', phase)
          /\ \A f \in {"none", "queued"} :
               EntryOK(o, closeOrderRoute(bindOrderHandle("order"), "recovery"), f, "none", FALSE, nx,
                       io.epoch, wire', phase)
          /\ closeOrderRoute(bindOrderHandle("order"), "recovery") \in Entries
          /\ closeOrderRoute(bindOrderHandle("order"), "recovery").err = "recovery"
          /\ \A c \in Causes : /\ ~closeOrderRoute(bindOrderHandle("order"), c).open
                               /\ closeOrderRoute(bindOrderHandle("order"), c).kind = "order"
      BY <1>1, <1>2, <1>5, <1>8, NewOK DEF Kinds
    <2>2. why \in Causes
      BY DEF Causes
    <2>3. CASE sent = {}
      BY <2>1, <2>2, <2>3
    <2>4. CASE sent # {}
      BY <2>1, <2>2, <2>4
    <2> QED
      BY <2>3, <2>4
  <1> HIDE DEF gone, why
  <1>9. \E g \in Entries :
          /\ book' = [o \in IDs |-> IF o \in legs THEN g ELSE book[o]]
          /\ \A o \in legs : EntryOK(o, g, io'.frame[o], "none", FALSE, nx, io.epoch, wire', phase)
          /\ \/ UNCHANGED failed
             \/ /\ failed'.legs = legs /\ failed'.named = sent
                /\ ~g.open /\ g.kind = "order" /\ (sent # {} => g.err = "recovery")
    <2>0. next + 1 \in legs
      BY <1>2
    <2>1. CASE k = 3
      <3>1. \A o \in legs : io'.frame[o] = "queued"
        BY <1>5, <1>7, <2>1
      <3>2. book' = [o \in IDs |-> IF o \in legs THEN Tracked(bindOrderHandle("order")) ELSE book[o]]
            /\ UNCHANGED failed
        BY <1>3, <2>1
      <3> QED
        BY <1>8, <2>0, <3>1, <3>2
    <2>2. CASE k # 3
      <3>1. PICK cancelled \in SUBSET sent : cancelAndCloseOrderRoutes(legs, sent, cancelled)
        BY <1>3, <2>2
      <3>2. /\ book' = [o \in IDs |-> IF o \in legs THEN gone ELSE book[o]]
            /\ failed'.legs = legs /\ failed'.named = sent
        <4>1. \A o \in IDs : (IF o \notin legs THEN book[o] ELSE gone) = (IF o \in legs THEN gone ELSE book[o])
          OBVIOUS
        <4> QED
          BY <3>1, <4>1 DEF cancelAndCloseOrderRoutes, OrderRecoveryError, gone, why
      <3>3. gone \in Entries /\ ~gone.open /\ gone.kind = "order" /\ (sent # {} => gone.err = "recovery")
        BY <1>8, <2>0
      <3>4. \A o \in legs : EntryOK(o, gone, io'.frame[o], "none", FALSE, nx, io.epoch, wire', phase)
        BY <1>7, <1>8
      <3> QED
        BY <3>2, <3>3, <3>4
    <2> QED
      BY <2>1, <2>2
  <1>10. PICK g \in Entries :
          /\ book' = [o \in IDs |-> IF o \in legs THEN g ELSE book[o]]
          /\ \A o \in legs : EntryOK(o, g, io'.frame[o], "none", FALSE, nx, io.epoch, wire', phase)
          /\ \/ UNCHANGED failed
             \/ /\ failed'.legs = legs /\ failed'.named = sent
                /\ ~g.open /\ g.kind = "order" /\ (sent # {} => g.err = "recovery")
    BY <1>9
  <1>11. /\ StateOK' /\ BookInv' /\ QueueInv'
         /\ \A o \in IDs : Moves(o)
    <2>1. \A o \in IDs : o \notin next + 1 .. nx =>
             /\ book'[o] = book[o] /\ io'.frame[o] = io.frame[o] /\ io'.result[o] = io.result[o]
             /\ o \in io'.asked <=> o \in io.asked
      BY <1>4, <1>5, <1>10
    <2>2. \A o \in IDs : o \in next + 1 .. nx =>
             /\ book'[o] \in Entries
             /\ io'.frame[o] \in {"none", "queued", "written"}
             /\ EntryOK(o, book'[o], io'.frame[o], io'.result[o], o \in io'.asked, nx, io.epoch, wire', phase)
      <3>1. SUFFICES ASSUME NEW o \in legs, o \in IDs
                     PROVE /\ book'[o] \in Entries
                           /\ io'.frame[o] \in {"none", "queued", "written"}
                           /\ EntryOK(o, book'[o], io'.frame[o], io'.result[o], o \in io'.asked, nx, io.epoch,
                                      wire', phase)
        OBVIOUS
      <3>2. book'[o] = g
        BY <1>10, <3>1
      <3>3. io'.result[o] = "none" /\ (o \in io'.asked) = FALSE /\ io'.frame[o] \in {"none", "queued"}
        BY <1>6, <1>7
      <3>4. EntryOK(o, g, io'.frame[o], "none", FALSE, nx, io.epoch, wire', phase)
        BY <1>10
      <3> QED
        BY <3>2, <3>3, <3>4
    <2>3. book' = [o \in IDs |-> book'[o]]
      BY <1>10
    <2> QED
      BY <1>1, <1>2, <1>4, <2>1, <2>2, <2>3, PlaceKept
  <1>12. FailedInv'
    <2>1. CASE UNCHANGED failed
      BY <1>11, <2>1, FailedKept
    <2>2. CASE /\ failed'.legs = legs /\ failed'.named = sent
               /\ ~g.open /\ g.kind = "order" /\ (sent # {} => g.err = "recovery")
      <3>1. \A o \in legs : book'[o] = g /\ (io'.frame[o] # "none" => o \in sent)
        BY <1>5, <1>7, <1>10
      <3> QED
        BY <1>5, <2>2, <3>1 DEF FailedInv, BracketAccounted, IsRetryable
    <2> QED
      BY <1>10, <2>1, <2>2
  <1> QED
    BY <1>11, <1>12 DEF StepOK, IInv

\* The transport takes the oldest place frame: its result is what became of it.
LEMMA WriteFrameOK ==
    ASSUME IInv, NEW outcome \in {"written", "partial", "unwritten"}, WriteFrame(outcome)
    PROVE  StepOK
  <1> DEFINE q == io.queue
             o == Head(io.queue)
             f == [io.frame EXCEPT ![o] = outcome]
             r == [io.result EXCEPT ![o] = outcome]
  <1>1. /\ q # <<>> /\ UNCHANGED <<next, book, failed, phase, wire>>
        /\ io' = [io EXCEPT !.queue = Tail(q), !.torn = outcome # "written", !.frame = f, !.result = r]
    BY DEF WriteFrame, linkVars
  <1>2. io \in Views /\ q \in Seq(IDs) /\ io.frame \in [IDs -> FrameStates] /\ io.result \in [IDs -> Results]
    BY DEF IInv, StateOK, Views
  <1>3. /\ Len(q) \in Nat \ {0} /\ o = q[1] /\ o \in IDs /\ Tail(q) \in Seq(IDs) /\ Len(Tail(q)) = Len(q) - 1
        /\ \A i \in 1 .. Len(q) - 1 : Tail(q)[i] = q[i + 1]
    BY <1>1, <1>2, HeadTailProperties, EmptySeq, LenProperties
  <1>4. /\ f \in [IDs -> FrameStates] /\ f[o] = outcome /\ \A p \in IDs : p # o => f[p] = io.frame[p]
        /\ r \in [IDs -> Results] /\ r[o] = outcome /\ \A p \in IDs : p # o => r[p] = io.result[p]
    BY <1>2, <1>3 DEF FrameStates, Results
  <1> HIDE DEF q, o, f, r
  <1>5. io' \in Views
    <2>1. (outcome # "written") \in BOOLEAN
      OBVIOUS
    <2> QED
      BY <1>1, <1>2, <1>3, <1>4, <2>1 DEF Views
  <1>6. io'.queue = Tail(q) /\ io'.frame = f /\ io'.result = r /\ io'.asked = io.asked /\ io'.epoch = io.epoch
    BY <1>1, <1>2 DEF Views
  <1>7. io.frame[o] = "queued"
    <2>1. 1 \in 1 .. Len(q)
      BY <1>3
    <2> QED
      BY <1>3, <2>1 DEF IInv, QueueInv, q
  <1>8. \A p \in IDs : Moves(p)
    <2>1. TAKE p \in IDs
    <2>2. Evolves(book[p], book'[p])
      BY <1>1, EntryHere DEF Evolves
    <2>3. CASE p = o
      BY <1>4, <1>6, <1>7, <2>2, <2>3 DEF Moves
    <2>4. CASE p # o
      BY <1>4, <1>6, <2>2, <2>4 DEF Moves
    <2> QED
      BY <2>3, <2>4
  <1>9. BookInv'
    <2>1. SUFFICES ASSUME NEW p \in IDs
                   PROVE  EntryOK(p, book[p], f[p], r[p], p \in io.asked, next, io.epoch, wire, phase)
      BY <1>1, <1>6 DEF BookInv
    <2>2. /\ EntryOK(p, book[p], io.frame[p], io.result[p], p \in io.asked, next, io.epoch, wire, phase)
          /\ book[p].kind \in Kinds
      BY EntryHere DEF Entries
    <2>3. CASE p # o
      BY <1>4, <2>2, <2>3
    <2>4. CASE p = o
      <3>1. EntryOK(p, book[p], "queued", io.result[p], p \in io.asked, next, io.epoch, wire, phase)
        BY <1>7, <2>2, <2>4
      <3>2. Base(p, book[p], outcome, outcome, p \in io.asked, next)
        BY <2>2, <3>1 DEF EntryOK, Base, Kinds
      <3>3. Live(book[p], outcome, outcome, p \in io.asked, io.epoch, wire, phase)
        BY <3>1 DEF EntryOK, Live
      <3> QED
        BY <1>4, <2>4, <3>2, <3>3 DEF EntryOK
    <2> QED
      BY <2>3, <2>4
  <1>10. QueueInv'
    <2>1. \A i \in 1 .. Len(q) - 1 : Tail(q)[i] = q[i + 1] /\ i + 1 \in 1 .. Len(q) /\ i + 1 # 1
      BY <1>3
    <2>2. \A i \in 1 .. Len(q) : q[i] \in IDs /\ io.frame[q[i]] = "queued" /\ (i # 1 => q[i] # o)
      <3>1. 1 \in 1 .. Len(q)
        BY <1>3
      <3>2. \A i \in 1 .. Len(q) : q[i] \in IDs
        BY <1>2, ElementOfSeq
      <3> QED
        BY <1>3, <3>1, <3>2 DEF IInv, QueueInv, q
    <2>3. \A i \in 1 .. Len(q) - 1 : f[Tail(q)[i]] = "queued"
      BY <1>4, <2>1, <2>2
    <2>4. \A i, j \in 1 .. Len(q) - 1 : Tail(q)[i] = Tail(q)[j] => i = j
      <3>1. SUFFICES ASSUME NEW i \in 1 .. Len(q) - 1, NEW j \in 1 .. Len(q) - 1, Tail(q)[i] = Tail(q)[j]
                     PROVE  i = j
        OBVIOUS
      <3>2. i + 1 = j + 1
        BY <2>1, <3>1 DEF IInv, QueueInv, q
      <3> QED
        BY <1>3, <3>2
    <2>5. \A p \in IDs : f[p] = "queued" => \E i \in 1 .. Len(q) - 1 : Tail(q)[i] = p
      <3>1. SUFFICES ASSUME NEW p \in IDs, f[p] = "queued" PROVE \E i \in 1 .. Len(q) - 1 : Tail(q)[i] = p
        OBVIOUS
      <3>2. p # o /\ io.frame[p] = "queued"
        BY <1>4, <3>1
      <3>3. PICK j \in 1 .. Len(q) : q[j] = p
        BY <3>2 DEF IInv, QueueInv, q
      <3>4. j # 1 /\ j - 1 \in 1 .. Len(q) - 1 /\ (j - 1) + 1 = j
        BY <1>3, <3>2, <3>3
      <3>5. Tail(q)[j - 1] = p
        BY <1>3, <3>3, <3>4
      <3> QED
        BY <3>4, <3>5
    <2> QED
      BY <1>3, <1>6, <2>3, <2>4, <2>5 DEF QueueInv
  <1>11. StateOK'
    BY <1>1, <1>5 DEF IInv, StateOK
  <1> QED
    BY <1>1, <1>8, <1>9, <1>10, <1>11, FailedKept DEF StepOK, IInv

------------------------------------------------------------------------------
(* The theorems.                                                           *)

\* No order was placed yet.
LEMMA InitInv == Init => IInv
  <1> SUFFICES ASSUME Init PROVE IInv
    OBVIOUS
  <1>1. /\ next = 0 /\ book = [o \in IDs |-> Absent] /\ failed = [legs |-> {}, named |-> {}, uncancelled |-> {}]
        /\ io = [queue |-> <<>>, torn |-> FALSE, frame |-> [o \in IDs |-> "none"],
                 result |-> [o \in IDs |-> "none"], asked |-> {}, epoch |-> 0]
    BY DEF Init
  <1>2. Absent \in Entries
    BY Capacity DEF Absent, Entries, Kinds, Causes
  <1>3. io \in Views
    <2>1. <<>> \in Seq(IDs) /\ {} \in SUBSET IDs
      OBVIOUS
    <2>2. [o \in IDs |-> "none"] \in [IDs -> FrameStates] /\ [o \in IDs |-> "none"] \in [IDs -> Results]
      BY DEF FrameStates, Results
    <2> QED
      BY <1>1, <2>1, <2>2 DEF Views
  <1>4. StateOK
    BY <1>1, <1>2, <1>3, Capacity DEF StateOK
  <1>5. io.queue = <<>> /\ Len(io.queue) = 0 /\ io.asked = {}
        /\ \A o \in IDs : io.frame[o] = "none" /\ io.result[o] = "none" /\ book[o] = Absent
    BY <1>1
  <1>6. BookInv
    <2>1. SUFFICES ASSUME NEW o \in IDs
                   PROVE EntryOK(o, Absent, "none", "none", FALSE, 0, io.epoch, wire, phase)
      <3>1. \A o \in IDs : (o \in io.asked) = FALSE
        BY <1>5
      <3> QED
        BY <1>1, <1>5, <2>1, <3>1 DEF BookInv
    <2>2. o > 0
      BY Capacity DEF IDs
    <2>3. Base(o, Absent, "none", "none", FALSE, 0)
      BY <2>2 DEF Base, Absent
    <2>4. Live(Absent, "none", "none", FALSE, io.epoch, wire, phase)
      BY DEF Live, Absent
    <2> QED
      BY <2>3, <2>4 DEF EntryOK
  <1>7. QueueInv
    BY <1>5 DEF QueueInv
  <1>8. FailedInv
    BY <1>1 DEF FailedInv, BracketAccounted
  <1> QED
    BY <1>4, <1>6, <1>7, <1>8 DEF IInv

\* Every step keeps the invariant and moves each order on.
LEMMA StepKeepsInv == IInv /\ [Next]_vars => IInv' /\ \A o \in IDs : Moves(o)
  <1> SUFFICES ASSUME IInv, [Next]_vars PROVE StepOK
    BY DEF StepOK
  <1>1. CASE UNCHANGED vars
    BY <1>1, LinkKept DEF vars, linkVars, orderVars
  <1>2. CASE \/ Connect \/ AttachTransport \/ BootstrapCompletes
             \/ ConnectivityLost \/ ConnectivityRestoredDataLost \/ ConnectivityRestoredDataMaintained
             \/ WireStops \/ TransportLost \/ LossCloses \/ EngineCloses
    BY <1>2, LinkStepOK, AttachOK, CodesOK, LossesOK
  <1>3. CASE PlaceOrder \/ PlaceBracket \/ PreviewOrder \/ ExerciseOptions
    BY <1>3, PlaceOneOK, PlaceBracketOK
  <1>4. ASSUME NEW o \in IDs, Replace(o) \/ Detach(o) \/ Consume(o) \/ handleTransportWrite(o)
        PROVE  StepOK
    BY <1>4, CallerOK, WriteResultOK
  <1>5. ASSUME NEW o \in IDs,
               \/ MalformedIdentity(o)
               \/ \E id \in OwnIdentities : OrderCallback(o, id, TRUE) \/ OrderBound(o, id, TRUE)
               \/ \E id \in ForeignIdentities : OrderCallback(o, id, FALSE) \/ OrderBound(o, id, FALSE)
        PROVE  StepOK
    BY <1>5, CallbackOK
  <1>6. ASSUME NEW o \in IDs, PreviewEcho(o) \/ \E rejection \in BOOLEAN : OrderError(o, rejection)
        PROVE  StepOK
    BY <1>6, ReplyOK
  <1>7. CASE \E outcome \in {"written", "partial", "unwritten"} : WriteFrame(outcome)
    BY <1>7, WriteFrameOK
  <1> QED
    BY <1>1, <1>2, <1>3, <1>4, <1>5, <1>6, <1>7 DEF Next

\* The invariant holds in every reachable state.
THEOREM InvHolds == Spec => []IInv
  <1>1. IInv /\ [Next]_vars => IInv'
    BY StepKeepsInv
  <1> QED
    BY <1>1, InitInv, PTL DEF Spec

\* What the invariant says of one order.
LEMMA EntryFacts ==
    ASSUME IInv, NEW o \in IDs
    PROVE  /\ Base(o, book[o], io.frame[o], io.result[o], o \in io.asked, next)
           /\ Live(book[o], io.frame[o], io.result[o], o \in io.asked, io.epoch, wire, phase)
           /\ book[o] \in Entries /\ io.epoch \in Nat
  BY EntryHere DEF EntryOK

\* A retryable end, as the public handle reports it.
LEMMA RetryableEnd ==
    ASSUME IInv, NEW o \in IDs, IsRetryable(WaitResult(o))
    PROVE  io.frame[o] \in {"none", "unwritten"}
  BY EntryFacts DEF IsRetryable, WaitResult, Base

\* IsRetryable never lies: whatever losses, torn frames, callbacks and write
\* results came in whatever order, of an order that ended with a retryable
\* cause the broker has nothing.
THEOREM RetryIsSafeHolds == Spec => []RetryIsSafe
  <1>1. IInv => RetryIsSafe
    BY RetryableEnd DEF RetryIsSafe
  <1> QED
    BY <1>1, InvHolds, PTL

\* cancelAndCloseOrderRoutes accounts for every leg of a bracket that reached
\* the queue, and the account stays true.
THEOREM BracketAccountedHolds == Spec => []BracketAccounted
  <1>1. IInv => BracketAccounted
    BY DEF IInv, FailedInv
  <1> QED
    BY <1>1, InvHolds, PTL

\* No handle crosses into another data epoch in silence, none hears of it
\* before its marker, and no replacement relies on a broken history
\* (requireOrderRecovery).
THEOREM ContinuityHonestHolds == Spec => []ContinuityHonest
  <1>1. ASSUME IInv, NEW o \in IDs
        PROVE  /\ book[o].heard <= book[o].known
               /\ IsOrder(book[o]) /\ wire # "none" => book[o].known = io.epoch
               /\ book[o].replaced # 0 => book[o].replaced = book[o].placed
    <2>1. book[o].heard \in Nat /\ book[o].known \in Nat
      BY <1>1, EntryFacts DEF Entries
    <2> QED
      BY <1>1, <2>1, EntryFacts DEF Base, Live, IsOrder
  <1>2. IInv => ContinuityHonest
    BY <1>1 DEF ContinuityHonest, RecoveryAnnouncedFirst, NoSilentBreak, ReplaceNeedsContinuity
  <1> QED
    BY <1>2, InvHolds, PTL

\* A handle starts once and before its first callback, owns its write until
\* the result is in, and hears only of its own order; a preview waits only on a
\* connection that knows of it (ensureOrderStarted, handleTransportWrite,
\* claimOrderCallback, disconnectRoutes).
THEOREM HandleSoundHolds == Spec => []HandleSound
  <1>1. ASSUME IInv PROVE TypeOK
    <2>1. \A o \in IDs :
            /\ (book[o].kind = "none") = (o > next)
            /\ book[o].open => book[o].err = "none"
            /\ book[o].known <= io.epoch
            /\ io.result[o] \in {"none", io.frame[o]}
      <3>1. TAKE o \in IDs
      <3>2. (book[o].kind = "none") = (o > next)
        BY <1>1, EntryFacts DEF Base
      <3>3. book[o].known <= io.epoch
        BY <1>1, EntryFacts DEF Base, Live
      <3> QED
        BY <1>1, <3>2, <3>3, EntryFacts DEF Base
    <2> QED
      BY <1>1, <2>1 DEF IInv, StateOK, QueueInv, TypeOK
  <1>2. ASSUME IInv, NEW o \in IDs
        PROVE  /\ book[o].starts <= 1
               /\ book[o].kind = "order" /\ book[o].heard > 0 => book[o].starts = 1
    <2>1. book[o].starts \in Nat /\ book[o].heard \in Nat
      BY <1>2, EntryFacts DEF Entries
    <2> QED
      BY <1>2, <2>1, EntryFacts DEF Base, Live
  <1>3. ASSUME IInv, NEW o \in IDs
        PROVE  /\ book[o].write => /\ book[o].open /\ wire # "none"
                                   /\ io.frame[o] = "queued" \/ io.result[o] # "none"
               /\ ~book[o].misled
               /\ book[o].kind = "preview" /\ book[o].open => o \in io.asked
    BY <1>3, EntryFacts DEF Base, Live
  <1>4. IInv => HandleSound
    BY <1>1, <1>2, <1>3 DEF HandleSound, StartsOnce, PendingWriteOwned, NoForeignEvidence, PreviewAnswerable
  <1> QED
    BY <1>4, InvHolds, PTL

------------------------------------------------------------------------------
(* Orders implements OrderContract.                                        *)

\* The order as the contract sees it.
HandleOf(o) ==
    IF book[o].kind \in {"none", "preview"} THEN "unbound"
    ELSE IF book[o].open THEN "open"
    ELSE IF IsRetryable(WaitResult(o)) THEN "retry" ELSE "ended"

FrameOf(o) ==
    CASE io.frame[o] \in {"written", "partial"} -> "reached"
      [] io.frame[o] = "unwritten"              -> "discarded"
      [] OTHER                                  -> io.frame[o]

\* One order takes a step of the contract.
LEMMA OrderStep ==
    ASSUME IInv, IInv', NEW o \in IDs, Moves(o)
    PROVE  /\ \/ HandleOf(o)' = HandleOf(o)
              \/ HandleOf(o) = "unbound" /\ HandleOf(o)' \in {"open", "ended", "retry"}
              \/ HandleOf(o) = "open" /\ HandleOf(o)' \in {"ended", "retry"}
           /\ \/ FrameOf(o)' = FrameOf(o)
              \/ FrameOf(o) = "none" /\ HandleOf(o) = "unbound" /\ FrameOf(o)' \in {"queued", "reached"}
              \/ FrameOf(o) = "queued" /\ FrameOf(o)' \in {"reached", "discarded"}
           /\ ~book'[o].recovery => ~book[o].recovery
           /\ HandleOf(o)' = "retry" => FrameOf(o)' \in {"none", "discarded"}
  <1>1. /\ Base(o, book[o], io.frame[o], io.result[o], o \in io.asked, next)
        /\ book[o].kind \in Kinds /\ io.frame[o] \in FrameStates
    BY EntryHere DEF EntryOK, Entries
  <1>2. io'.frame[o] \in FrameStates /\ book'[o].kind \in Kinds
    BY DEF IInv, StateOK, Views, Entries
  <1>3. \/ FrameOf(o)' = FrameOf(o)
        \/ FrameOf(o) = "none" /\ HandleOf(o) = "unbound" /\ FrameOf(o)' \in {"queued", "reached"}
        \/ FrameOf(o) = "queued" /\ FrameOf(o)' \in {"reached", "discarded"}
    BY <1>1 DEF Moves, FrameOf, HandleOf
  <1>4. ~book'[o].recovery => ~book[o].recovery
    BY <1>1 DEF Base, Moves, Evolves
  <1>5. ASSUME HandleOf(o)' = "retry" PROVE FrameOf(o)' \in {"none", "discarded"}
    <2>1. IsRetryable(WaitResult(o))'
      BY <1>5 DEF HandleOf
    <2>2. (book'[o].kind = "exercise" /\ io'.frame[o] # "none" => book'[o].err # "interrupted")
          /\ book'[o].err = "interrupted"
      BY <2>1 DEF IsRetryable, WaitResult
    <2>3. book'[o].err = "interrupted" /\ book'[o].kind # "exercise" => io'.frame[o] \in {"none", "unwritten"}
      BY DEF IInv, BookInv, EntryOK, Base
    <2>4. io'.frame[o] \in {"none", "unwritten"}
      BY <2>2, <2>3
    <2> QED
      BY <2>4 DEF FrameOf
  <1>6. \/ HandleOf(o)' = HandleOf(o)
        \/ HandleOf(o) = "unbound" /\ HandleOf(o)' \in {"open", "ended", "retry"}
        \/ HandleOf(o) = "open" /\ HandleOf(o)' \in {"ended", "retry"}
    <2>1. CASE book[o].kind = "none"
      BY <2>1 DEF HandleOf
    <2>2. CASE book[o].kind # "none" /\ book[o].open
      BY <2>2 DEF HandleOf, Moves, Evolves
    <2>3. CASE book[o].kind # "none" /\ ~book[o].open
      <3>1. book'[o] = book[o]
        BY <2>3 DEF Moves, Evolves
      <3>2. book[o].kind = "exercise" => io'.frame[o] = io.frame[o]
        BY <1>1, <2>3 DEF Base, Moves
      <3>3. WaitResult(o)' = WaitResult(o)
        BY <3>1, <3>2 DEF WaitResult
      <3> QED
        BY <3>1, <3>3 DEF HandleOf, IsRetryable
    <2> QED
      BY <2>1, <2>2, <2>3
  <1> QED
    BY <1>3, <1>4, <1>5, <1>6

\* The handles keep the contract OrderContract states to the caller: a
\* retryable end means that no frame is or will be at the broker, lost
\* continuity is never regained, and an end is final.
THEOREM ImplementsContractHolds == Spec => ImplementsContract
  <1>1. Init => Contract!ContractInit
    <2> SUFFICES ASSUME Init PROVE Contract!ContractInit
      OBVIOUS
    <2>1. \A o \in IDs : book[o].kind = "none" /\ ~book[o].recovery /\ io.frame[o] = "none"
      BY DEF Init, Absent
    <2> QED
      BY <2>1 DEF Contract!ContractInit
  <1>2. IInv /\ IInv' /\ [Next]_vars => [Contract!ContractNext]_(Contract!contractVars)
    <2> SUFFICES ASSUME IInv, IInv', [Next]_vars PROVE Contract!ContractNext
      OBVIOUS
    <2>1. ASSUME NEW o \in IDs PROVE Contract!ContractStep(o)
      <3>1. Moves(o)
        BY StepKeepsInv
      <3> QED
        BY <3>1, OrderStep
           DEF Contract!ContractStep, Contract!HandleStep, Contract!FrameStep, HandleOf, FrameOf
    <2> QED
      BY <2>1 DEF Contract!ContractNext
  <1> QED
    BY <1>1, <1>2, InvHolds, PTL DEF Spec, ImplementsContract, Contract!ContractSpec
==============================================================================
