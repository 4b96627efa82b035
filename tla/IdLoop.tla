------------------------------- MODULE IdLoop -------------------------------
(***************************************************************************)
(* The two allocation loops of engine.go as they are written, against the  *)
(* declarative definitions of IdSpace.  Model-checked only: the loops are   *)
(* recursive operators.                                                    *)
(***************************************************************************)
EXTENDS IdSpace

Exhausted == 0

Reserved(id) == orderIDLowWater > 0 /\ id >= orderIDLowWater /\ id < nextValidID

Wrap(id) == IF id < 1 \/ id > MaxWireOrderID THEN 1 ELSE id

\* Mutant: one round only, so a jump past the end of the space is not wrapped.
normalizeOnce(id) == IF Reserved(Wrap(id)) THEN nextValidID ELSE Wrap(id)

\* normalize: two rounds of "wrap, then jump over the order range".
normalize(id) ==
    LET first  == Wrap(id)
        second == Wrap(nextValidID)
    IN  IF ~Reserved(first) THEN first
        ELSE IF ~Reserved(second) THEN second
        ELSE Exhausted

\* The body of the request loop, from id, having started at start.
RECURSIVE RequestScan(_, _)
RequestScan(id, start) ==
    IF id \notin Active THEN id
    ELSE LET next == normalize(id + 1)
         IN  IF next \in {Exhausted, start} THEN Exhausted
             ELSE RequestScan(next, start)

allocReqIDLoop ==
    LET start == normalize(nextReqID)
    IN  IF start = Exhausted THEN Exhausted ELSE RequestScan(start, start)

\* allocOrderID: the IDs the loop visits are consumed even when it fails.
RECURSIVE OrderScan(_)
OrderScan(validID) ==
    LET id == HigherOf(validID, requestIDHighWater + 1)
    IN  IF id > MaxWireOrderID THEN [id |-> Exhausted, validID |-> validID]
        ELSE IF id \in Active THEN OrderScan(id + 1)
        ELSE [id |-> id, validID |-> id + 1]

\* The request loop terminates on every reachable state and returns the first
\* candidate in cyclic order, and reports exhaustion exactly when none exists.
RequestLoopFindsFirst ==
    IF RequestCandidates = {}
    THEN allocReqIDLoop = Exhausted
    ELSE FirstRequestCandidate(allocReqIDLoop)

\* The order loop returns the least candidate; a failing loop has nothing to
\* skip, so it leaves the next valid ID where it was.
OrderLoopFindsLeast ==
    LET result == OrderScan(nextValidID)
    IN  seeded =>
          IF OrderCandidates = {}
          THEN result = [id |-> Exhausted, validID |-> nextValidID]
          ELSE IsLeast(result.id, OrderCandidates) /\ result.validID = result.id + 1

\* Both loops of engine.go compute what IdSpace says of them.
LoopsFindCandidates == RequestLoopFindsFirst /\ OrderLoopFindsLeast
==============================================================================
