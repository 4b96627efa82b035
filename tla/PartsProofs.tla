------------------------------ MODULE PartsProofs ------------------------------
(***************************************************************************)
(* Proofs about the two parts of the engine that share no state with the     *)
(* routing book: the identifier space (IdSpace) and the pacing gates         *)
(* (Pacing).  MCParts checks them side by side.                             *)
(***************************************************************************)
EXTENDS IdSpace, Pacing, SequenceTheorems, TLAPS

------------------------------------------------------------------------------
(* The identifier space, for every wire range and every set of observable    *)
(* order IDs.  The water marks are what the code keeps instead of the        *)
(* histories; Marks says why they suffice.                                  *)

\* Every order ID ever seen lies in [low water, next valid) and every request
\* ID ever issued is at most the high water mark.
Marks ==
    /\ \A id \in seenOrderIDs :
          /\ orderIDLowWater > 0
          /\ orderIDLowWater <= id
          /\ id < nextValidID
    /\ \A id \in seenRequestIDs : id <= requestIDHighWater

\* Live routes use IDs of their own family.
LiveSeen ==
    /\ keyed \subseteq seenRequestIDs
    /\ orders \subseteq seenOrderIDs
    /\ previews \subseteq seenOrderIDs

IdInv == TypeOK /\ Marks /\ LiveSeen /\ NoLiveCollision

\* The initial state satisfies the inductive invariant.
LEMMA IdInitInv == Init => IdInv
  <1> SUFFICES ASSUME Init PROVE IdInv
    OBVIOUS
  <1>1. 1 \in WireIDs /\ 0 \in 0 .. MaxWireOrderID
    BY MaxAssumption DEF WireIDs
  <1>2. TypeOK
    BY <1>1 DEF Init, TypeOK
  <1>3. Marks /\ LiveSeen /\ NoLiveCollision
    BY DEF Init, Marks, LiveSeen, NoLiveCollision
  <1> QED
    BY <1>2, <1>3 DEF IdInv

\* Consuming a nonempty set of fresh order IDs, first the least and last an
\* upper bound, keeps the marks around everything seen.
LEMMA ConsumeKeepsMarks ==
    ASSUME TypeOK, Marks, NEW ids \in SUBSET WireIDs, NEW first \in ids, NEW last \in WireIDs,
           \A id \in ids : first <= id /\ id <= last,
           nextValidID <= last,
           consumeOrderIDs(ids, first, last)
    PROVE  /\ Marks'
           /\ nextReqID' = nextReqID
           /\ requestIDHighWater' = requestIDHighWater
           /\ orderIDLowWater' \in Nat
           /\ nextValidID' \in Nat
           /\ seeded' \in BOOLEAN
           /\ seenOrderIDs' = seenOrderIDs \cup ids
           /\ seenOrderIDs' \subseteq Nat \ {0}
           /\ seenRequestIDs' = seenRequestIDs
  <1>1. \A id \in ids : id \in Nat \ {0}
    BY MaxAssumption DEF WireIDs
  <1>2. /\ last \in Nat /\ nextValidID \in Nat /\ orderIDLowWater \in Nat
        /\ first \in Nat \ {0}
    BY <1>1, MaxAssumption DEF WireIDs, TypeOK
  <1>3. /\ orderIDLowWater' = LowWaterAfter(first)
        /\ nextValidID' = last + 1
        /\ seenOrderIDs' = seenOrderIDs \cup ids
        /\ UNCHANGED <<nextReqID, requestIDHighWater, seeded, seenRequestIDs>>
    BY DEF consumeOrderIDs
  <1>4. /\ orderIDLowWater' \in Nat \ {0}
        /\ orderIDLowWater' <= first
        /\ orderIDLowWater > 0 => orderIDLowWater' <= orderIDLowWater
    BY <1>2, <1>3 DEF LowWaterAfter, LowerOf
  <1>5. \A id \in seenOrderIDs : id \in Nat /\ orderIDLowWater > 0
                                 /\ orderIDLowWater <= id /\ id < nextValidID
    BY DEF TypeOK, Marks
  <1>6. \A id \in seenOrderIDs' : orderIDLowWater' > 0 /\ orderIDLowWater' <= id
                                  /\ id < nextValidID'
    <2> SUFFICES ASSUME NEW id \in seenOrderIDs'
                 PROVE  orderIDLowWater' > 0 /\ orderIDLowWater' <= id /\ id < nextValidID'
      OBVIOUS
    <2>1. CASE id \in seenOrderIDs
      BY <2>1, <1>2, <1>3, <1>4, <1>5
    <2>2. CASE id \in ids
      BY <2>2, <1>1, <1>2, <1>3, <1>4
    <2> QED
      BY <2>1, <2>2, <1>3
  <1> QED
    BY <1>1, <1>2, <1>3, <1>4, <1>6 DEF TypeOK, Marks

\* Observing one order ID keeps the marks around everything seen.
LEMMA ObserveKeepsMarks ==
    ASSUME TypeOK, Marks, NEW id \in Int, observeOrderID(id)
    PROVE  /\ \A o \in seenOrderIDs' : /\ orderIDLowWater' > 0
                                       /\ orderIDLowWater' <= o
                                       /\ o < nextValidID'
           /\ orderIDLowWater' \in Nat
           /\ nextValidID' \in Nat
           /\ seenOrderIDs \subseteq seenOrderIDs'
           /\ seenOrderIDs' \subseteq Nat \ {0}
           /\ id > 0 => id \in seenOrderIDs'
  <1>1. CASE id <= 0
    <2>1. /\ orderIDLowWater' = orderIDLowWater
          /\ nextValidID' = nextValidID
          /\ seenOrderIDs' = seenOrderIDs
      BY <1>1 DEF observeOrderID
    <2> QED
      BY <1>1, <2>1 DEF TypeOK, Marks
  <1>2. CASE id > 0
    <2>1. /\ orderIDLowWater' = LowWaterAfter(id)
          /\ nextValidID' = HigherOf(nextValidID, id + 1)
          /\ seenOrderIDs' = seenOrderIDs \cup {id}
      BY <1>2 DEF observeOrderID
    <2>2. /\ orderIDLowWater' \in Nat \ {0}
          /\ orderIDLowWater' <= id
          /\ orderIDLowWater > 0 => orderIDLowWater' <= orderIDLowWater
          /\ nextValidID' \in Nat /\ nextValidID' >= nextValidID /\ nextValidID' > id
      BY <1>2, <2>1 DEF TypeOK, LowWaterAfter, LowerOf, HigherOf
    <2>3. \A o \in seenOrderIDs : o \in Nat \ {0} /\ orderIDLowWater > 0
                                  /\ orderIDLowWater <= o /\ o < nextValidID
      BY DEF TypeOK, Marks
    <2> QED
      BY <1>2, <2>1, <2>2, <2>3 DEF TypeOK
  <1> QED
    BY <1>1, <1>2

\* The facts about allocReqID its callers use.
LEMMA AllocReqIDFacts ==
    ASSUME TypeOK, Marks, NEW id \in WireIDs, allocReqID(id)
    PROVE  /\ id \notin Active
           /\ id \notin seenOrderIDs
           /\ nextReqID' \in WireIDs
           /\ requestIDHighWater' \in 0 .. MaxWireOrderID
           /\ seenRequestIDs' = seenRequestIDs \cup {id}
           /\ \A r \in seenRequestIDs' : r <= requestIDHighWater'
  <1>1. /\ id \notin OrderRange /\ id \notin Active
    BY DEF allocReqID, FirstRequestCandidate, RequestCandidates
  <1>2. id \notin seenOrderIDs
    BY <1>1, MaxAssumption DEF OrderRange, Marks, TypeOK, WireIDs
  <1>3. nextReqID' \in WireIDs
    BY MaxAssumption DEF allocReqID, SuccessorOf, WireIDs
  <1>4. /\ requestIDHighWater' = HigherOf(requestIDHighWater, id)
        /\ seenRequestIDs' = seenRequestIDs \cup {id}
    BY DEF allocReqID, observeRequestID
  <1>5. \A r \in seenRequestIDs : r \in Nat /\ r <= requestIDHighWater
    BY MaxAssumption DEF TypeOK, Marks, WireIDs
  <1> QED
    BY <1>1, <1>2, <1>3, <1>4, <1>5, MaxAssumption DEF TypeOK, WireIDs, HigherOf

\* A candidate for a new order is above every ID seen so far.
LEMMA OrderCandidatesFresh ==
    ASSUME TypeOK, Marks, NEW id \in OrderCandidates
    PROVE  /\ id \in WireIDs
           /\ id >= nextValidID
           /\ id \notin seenOrderIDs
           /\ id \notin seenRequestIDs
           /\ id \notin Active
  <1>1. /\ id \in Int /\ id >= OrderScanStart /\ id <= MaxWireOrderID /\ id \notin Active
        /\ OrderScanStart \in Nat \ {0}
        /\ OrderScanStart >= nextValidID
        /\ OrderScanStart > requestIDHighWater
    BY MaxAssumption DEF OrderCandidates, OrderScanStart, HigherOf, TypeOK
  <1>2. id \in WireIDs /\ id >= nextValidID /\ id > requestIDHighWater
    BY <1>1, MaxAssumption DEF TypeOK, WireIDs
  <1> QED
    BY <1>1, <1>2, MaxAssumption DEF Marks, TypeOK, WireIDs

\* Every operation preserves the inductive invariant.
LEMMA IdNextInv == IdInv /\ [Next]_vars => IdInv'
  <1> SUFFICES ASSUME IdInv, [Next]_vars PROVE IdInv'
    OBVIOUS
  <1> USE DEF IdInv
  <1>1. ASSUME NEW id \in WireIDs, observeNextValidID(id) PROVE IdInv'
    <2>1. /\ nextValidID' \in Nat /\ nextValidID' >= nextValidID
      BY <1>1, MaxAssumption DEF observeNextValidID, HigherOf, TypeOK, WireIDs
    <2>2. /\ UNCHANGED <<nextReqID, requestIDHighWater, orderIDLowWater, routes, history>>
          /\ seeded' = TRUE
      BY <1>1 DEF observeNextValidID
    <2>3. TypeOK'
      BY <2>1, <2>2 DEF TypeOK, routes, history
    <2>4. Marks'
      BY <2>1, <2>2 DEF Marks, TypeOK, history
    <2> QED
      BY <2>2, <2>3, <2>4 DEF LiveSeen, NoLiveCollision, routes, history
  <1>2. ASSUME NEW id \in ObservableIDs, ObserveOrder(id) PROVE IdInv'
    <2>1. id \in Int
      BY ObservableAssumption
    <2>2. /\ observeOrderID(id)
          /\ UNCHANGED <<nextReqID, requestIDHighWater, seenRequestIDs, seeded, routes>>
      BY <1>2 DEF ObserveOrder
    <2>3. /\ \A o \in seenOrderIDs' : /\ orderIDLowWater' > 0
                                      /\ orderIDLowWater' <= o
                                      /\ o < nextValidID'
          /\ orderIDLowWater' \in Nat
          /\ nextValidID' \in Nat
          /\ seenOrderIDs \subseteq seenOrderIDs'
          /\ seenOrderIDs' \subseteq Nat \ {0}
      BY <2>1, <2>2, ObserveKeepsMarks
    <2>4. TypeOK'
      BY <2>2, <2>3 DEF TypeOK, routes
    <2> QED
      BY <2>2, <2>3, <2>4 DEF Marks, LiveSeen, NoLiveCollision, routes
  <1>3. ASSUME NEW id \in WireIDs, NEW admitted \in BOOLEAN, StartRequest(id, admitted)
        PROVE  IdInv'
    <2>1. /\ id \notin Active
          /\ nextReqID' \in WireIDs
          /\ requestIDHighWater' \in 0 .. MaxWireOrderID
          /\ seenRequestIDs' = seenRequestIDs \cup {id}
          /\ \A r \in seenRequestIDs' : r <= requestIDHighWater'
      BY <1>3, AllocReqIDFacts DEF StartRequest
    <2>2. /\ keyed' \in {keyed, keyed \cup {id}}
          /\ UNCHANGED <<orders, previews, exercises, seeded,
                         orderIDLowWater, nextValidID, seenOrderIDs>>
      BY <1>3 DEF StartRequest, Install
    <2>3. TypeOK'
      BY <2>1, <2>2 DEF TypeOK
    <2> QED
      BY <2>1, <2>2, <2>3 DEF Marks, LiveSeen, NoLiveCollision, Active
  <1>4. ASSUME NEW id \in WireIDs, NEW admitted \in BOOLEAN, ExerciseOptions(id, admitted)
        PROVE  IdInv'
    <2>1. /\ id \notin Active
          /\ nextReqID' \in WireIDs
          /\ requestIDHighWater' \in 0 .. MaxWireOrderID
          /\ seenRequestIDs' = seenRequestIDs \cup {id}
          /\ \A r \in seenRequestIDs' : r <= requestIDHighWater'
      BY <1>4, AllocReqIDFacts DEF ExerciseOptions
    <2>2. id \in Int /\ id > 0
      BY MaxAssumption DEF WireIDs
    <2>3. /\ \A o \in seenOrderIDs' : /\ orderIDLowWater' > 0
                                      /\ orderIDLowWater' <= o
                                      /\ o < nextValidID'
          /\ orderIDLowWater' \in Nat
          /\ nextValidID' \in Nat
          /\ seenOrderIDs \subseteq seenOrderIDs'
          /\ seenOrderIDs' \subseteq Nat \ {0}
          /\ id \in seenOrderIDs'
      BY <1>4, <2>2, ObserveKeepsMarks DEF ExerciseOptions
    <2>4. /\ \/ UNCHANGED <<keyed, orders, exercises>>
             \/ /\ keyed' = keyed \cup {id}
                /\ orders' = orders \cup {id}
                /\ exercises' = exercises \cup {id}
          /\ UNCHANGED <<previews, seeded>>
      BY <1>4 DEF ExerciseOptions, Install
    <2>5. TypeOK'
      BY <2>1, <2>3, <2>4 DEF TypeOK
    <2>6. LiveSeen'
      BY <2>1, <2>3, <2>4 DEF LiveSeen
    <2>7. NoLiveCollision'
      BY <2>1, <2>4 DEF NoLiveCollision, Active
    <2> QED
      BY <2>1, <2>3, <2>5, <2>6, <2>7 DEF Marks
  <1>5. ASSUME NEW id \in WireIDs, NEW admitted \in BOOLEAN,
               PlaceOrder(id, admitted) \/ PreviewOrder(id, admitted)
        PROVE  IdInv'
    <2>1. id \in OrderCandidates /\ consumeOrderIDs({id}, id, id)
      BY <1>5 DEF PlaceOrder, PreviewOrder, IsLeast
    <2>2. id \in Nat /\ id >= nextValidID /\ id \notin Active /\ nextValidID \in Nat
      BY <2>1, OrderCandidatesFresh, MaxAssumption DEF WireIDs, TypeOK
    <2>3. /\ Marks'
          /\ nextReqID' = nextReqID /\ requestIDHighWater' = requestIDHighWater
          /\ orderIDLowWater' \in Nat /\ nextValidID' \in Nat /\ seeded' \in BOOLEAN
          /\ seenOrderIDs' = seenOrderIDs \cup {id}
          /\ seenOrderIDs' \subseteq Nat \ {0}
          /\ seenRequestIDs' = seenRequestIDs
      BY <2>1, <2>2, ConsumeKeepsMarks
    <2>4. /\ orders' \in {orders, orders \cup {id}}
          /\ previews' \in {previews, previews \cup {id}}
          /\ orders' = orders \/ previews' = previews
          /\ UNCHANGED <<keyed, exercises>>
      BY <1>5 DEF PlaceOrder, PreviewOrder, Install
    <2>5. TypeOK'
      BY <2>3, <2>4 DEF TypeOK
    <2>6. LiveSeen'
      BY <2>3, <2>4 DEF LiveSeen
    <2>7. NoLiveCollision'
      BY <2>2, <2>4 DEF NoLiveCollision, Active
    <2> QED
      BY <2>3, <2>5, <2>6, <2>7
  <1>6. ASSUME NEW p \in WireIDs, NEW t \in WireIDs, NEW s \in WireIDs,
               NEW admitted \in BOOLEAN, PlaceBracket(p, t, s, admitted)
        PROVE  IdInv'
    <2> DEFINE ids == {p, t, s}
    <2>1. /\ p \in OrderCandidates /\ t \in OrderCandidates /\ s \in OrderCandidates
          /\ p <= t /\ t <= s /\ p <= s
          /\ consumeOrderIDs(ids, p, s)
      BY <1>6 DEF PlaceBracket, IsLeast
    <2>2. /\ p \in Nat /\ t \in Nat /\ s \in Nat
          /\ ids \cap Active = {}
          /\ nextValidID <= s
      BY <2>1, OrderCandidatesFresh, MaxAssumption DEF WireIDs, TypeOK
    <2>3. \A id \in ids : p <= id /\ id <= s
      BY <2>1, <2>2
    <2>4. ids \in SUBSET WireIDs /\ p \in ids
      OBVIOUS
    <2> HIDE DEF ids
    <2>5. /\ Marks'
          /\ nextReqID' = nextReqID /\ requestIDHighWater' = requestIDHighWater
          /\ orderIDLowWater' \in Nat /\ nextValidID' \in Nat /\ seeded' \in BOOLEAN
          /\ seenOrderIDs' = seenOrderIDs \cup ids
          /\ seenOrderIDs' \subseteq Nat \ {0}
          /\ seenRequestIDs' = seenRequestIDs
      BY <2>1, <2>2, <2>3, <2>4, ConsumeKeepsMarks
    <2>6. /\ orders' \in {orders, orders \cup ids}
          /\ UNCHANGED <<keyed, previews, exercises>>
      BY <1>6 DEF PlaceBracket, Install, ids
    <2>7. TypeOK'
      BY <2>4, <2>5, <2>6 DEF TypeOK
    <2>8. LiveSeen'
      BY <2>5, <2>6 DEF LiveSeen
    <2>9. NoLiveCollision'
      BY <2>2, <2>6 DEF NoLiveCollision, Active
    <2> QED
      BY <2>5, <2>7, <2>8, <2>9
  <1>7. ASSUME PlaceBracketExhausted PROVE IdInv'
    <2>1. PICK first \in OrderCandidates :
             /\ IsLeast(first, OrderCandidates)
             /\ consumeOrderIDs(OrderCandidates, first, MaxWireOrderID)
      BY <1>7 DEF PlaceBracketExhausted
    <2>2. \A id \in OrderCandidates : id \in WireIDs /\ id >= nextValidID
      BY OrderCandidatesFresh
    <2>3. /\ OrderCandidates \in SUBSET WireIDs
          /\ MaxWireOrderID \in WireIDs
          /\ \A id \in OrderCandidates : first <= id /\ id <= MaxWireOrderID
          /\ nextValidID <= MaxWireOrderID
      BY <2>1, <2>2, MaxAssumption DEF IsLeast, WireIDs, TypeOK
    <2>4. /\ Marks'
          /\ nextReqID' = nextReqID /\ requestIDHighWater' = requestIDHighWater
          /\ orderIDLowWater' \in Nat /\ nextValidID' \in Nat /\ seeded' \in BOOLEAN
          /\ seenOrderIDs' = seenOrderIDs \cup OrderCandidates
          /\ seenOrderIDs' \subseteq Nat \ {0}
          /\ seenRequestIDs' = seenRequestIDs
      BY <2>1, <2>3, ConsumeKeepsMarks
    <2>5. UNCHANGED routes
      BY <1>7 DEF PlaceBracketExhausted
    <2>6. TypeOK'
      BY <2>4, <2>5 DEF TypeOK, routes
    <2> QED
      BY <2>4, <2>5, <2>6 DEF LiveSeen, NoLiveCollision, routes
  <1>8. ASSUME NEW id \in WireIDs, EndRequest(id) \/ EndOrder(id) \/ EndPreview(id)
        PROVE  IdInv'
    <2>1. /\ keyed' \subseteq keyed /\ orders' \subseteq orders
          /\ previews' \subseteq previews
          /\ exercises' \subseteq exercises
          /\ UNCHANGED <<marks, seeded, history>>
      BY <1>8 DEF EndRequest, EndOrder, EndPreview
    <2>2. keyed' \cap orders' = exercises'
      BY <1>8 DEF EndRequest, EndOrder, EndPreview, NoLiveCollision
    <2>3. TypeOK'
      BY <2>1 DEF TypeOK, marks, history
    <2> QED
      BY <2>1, <2>2, <2>3 DEF Marks, LiveSeen, NoLiveCollision, marks, history
  <1>9. CASE UNCHANGED vars
    BY <1>9 DEF vars, marks, routes, history, TypeOK, Marks, LiveSeen, NoLiveCollision
  <1> QED
    BY <1>1, <1>2, <1>3, <1>4, <1>5, <1>6, <1>7, <1>8, <1>9 DEF Next

\* The water marks bound everything seen, in every behaviour.
THEOREM IdInvHolds == Spec => []IdInv
  BY IdInitInv, IdNextInv, PTL DEF Spec

\* The engine's identifier state stays in range (allocReqID, allocOrderID).
THEOREM TypeCorrect == Spec => []TypeOK
  <1>1. IdInv => TypeOK
    BY DEF IdInv
  <1> QED
    BY <1>1, IdInvHolds, PTL

\* No two live routes answer to the same wire number, whatever the wire range
\* and whatever orders the gateway reports.
THEOREM NoLiveCollisionHolds == Spec => []NoLiveCollision
  <1>1. IdInv => NoLiveCollision
    BY DEF IdInv
  <1> QED
    BY <1>1, IdInvHolds, PTL

\* What one operation may take: the IDs it binds are new in both families.
LEMMA NewIDsAreFresh ==
    IdInv /\ [Next]_vars =>
      /\ NewOrderIDs \cap seenOrderIDs = {}
      /\ (NewOrderIDs \ keyed') \cap seenRequestIDs = {}
      /\ (keyed' \ keyed) \cap seenOrderIDs = {}
  <1> DEFINE FreshID == /\ NewOrderIDs \cap seenOrderIDs = {}
                        /\ (NewOrderIDs \ keyed') \cap seenRequestIDs = {}
                        /\ (keyed' \ keyed) \cap seenOrderIDs = {}
  <1> SUFFICES ASSUME IdInv, [Next]_vars PROVE FreshID
    OBVIOUS
  <1>0. TypeOK /\ Marks
    BY DEF IdInv
  <1>1. ASSUME NEW id \in WireIDs, NEW admitted \in BOOLEAN,
               StartRequest(id, admitted) \/ ExerciseOptions(id, admitted)
        PROVE  FreshID
    <2>1. allocReqID(id)
      BY <1>1 DEF StartRequest, ExerciseOptions
    <2>2. id \notin seenOrderIDs
      BY <1>0, <2>1, AllocReqIDFacts
    <2>3. /\ keyed' \subseteq keyed \cup {id}
          /\ previews' = previews
          /\ orders' \subseteq orders \cup {id}
          /\ orders' \ orders \subseteq keyed'
      BY <1>1 DEF StartRequest, ExerciseOptions, Install
    <2> QED
      BY <2>2, <2>3 DEF NewOrderIDs
  <1>2. ASSUME NEW id \in WireIDs, NEW admitted \in BOOLEAN,
               PlaceOrder(id, admitted) \/ PreviewOrder(id, admitted)
        PROVE  FreshID
    <2>1. id \in OrderCandidates
      BY <1>2 DEF PlaceOrder, PreviewOrder, IsLeast
    <2>2. id \notin seenOrderIDs /\ id \notin seenRequestIDs
      BY <1>0, <2>1, OrderCandidatesFresh
    <2>3. keyed' = keyed /\ NewOrderIDs \subseteq {id}
      BY <1>2 DEF PlaceOrder, PreviewOrder, Install, NewOrderIDs
    <2> QED
      BY <2>2, <2>3
  <1>3. ASSUME NEW p \in WireIDs, NEW t \in WireIDs, NEW s \in WireIDs,
               NEW admitted \in BOOLEAN, PlaceBracket(p, t, s, admitted)
        PROVE  FreshID
    <2>1. p \in OrderCandidates /\ t \in OrderCandidates /\ s \in OrderCandidates
      BY <1>3 DEF PlaceBracket, IsLeast
    <2>2. \A id \in {p, t, s} : id \notin seenOrderIDs /\ id \notin seenRequestIDs
      BY <1>0, <2>1, OrderCandidatesFresh
    <2>3. keyed' = keyed /\ NewOrderIDs \subseteq {p, t, s}
      BY <1>3 DEF PlaceBracket, Install, NewOrderIDs
    <2> QED
      BY <2>2, <2>3
  <1>4. ASSUME keyed' \subseteq keyed, orders' \subseteq orders, previews' \subseteq previews
        PROVE  FreshID
    BY <1>4 DEF NewOrderIDs
  <1>5. ASSUME NEW id \in WireIDs, observeNextValidID(id) PROVE FreshID
    BY <1>4, <1>5 DEF observeNextValidID, routes
  <1>6. ASSUME NEW id \in ObservableIDs, ObserveOrder(id) PROVE FreshID
    BY <1>4, <1>6 DEF ObserveOrder, routes
  <1>7. ASSUME PlaceBracketExhausted PROVE FreshID
    BY <1>4, <1>7 DEF PlaceBracketExhausted, routes
  <1>8. ASSUME NEW id \in WireIDs, EndRequest(id) \/ EndOrder(id) \/ EndPreview(id)
        PROVE  FreshID
    BY <1>4, <1>8 DEF EndRequest, EndOrder, EndPreview
  <1>9. CASE UNCHANGED vars
    BY <1>4, <1>9 DEF vars, routes
  <1> HIDE DEF FreshID
  <1> QED
    BY <1>1, <1>2, <1>3, <1>5, <1>6, <1>7, <1>8, <1>9 DEF Next

\* PlaceOrder, PlaceBracket, PreviewOrder and ExerciseOptions never reuse an
\* order ID that was issued or observed at any earlier time.
THEOREM OrderIDNeverReusedHolds == Spec => OrderIDNeverReused
  <1>1. IdInv /\ [Next]_vars => [NeverReused]_vars
    BY NewIDsAreFresh DEF NeverReused
  <1> QED
    BY <1>1, IdInvHolds, PTL DEF Spec, OrderIDNeverReused

\* allocOrderID never hands out an ID some request was ever sent under.
THEOREM OrderIDNeverARequestHolds == Spec => OrderIDNeverARequest
  <1>1. IdInv /\ [Next]_vars => [NeverARequest]_vars
    BY NewIDsAreFresh DEF NeverARequest
  <1> QED
    BY <1>1, IdInvHolds, PTL DEF Spec, OrderIDNeverARequest

\* allocReqID never hands out an order ID, also after its counter wrapped.
THEOREM RequestIDNeverAnOrderHolds == Spec => RequestIDNeverAnOrder
  <1>1. IdInv /\ [Next]_vars => [(keyed' \ keyed) \cap seenOrderIDs = {}]_vars
    BY NewIDsAreFresh
  <1> QED
    BY <1>1, IdInvHolds, PTL DEF Spec, RequestIDNeverAnOrder

\* The IDs allocOrderID may hand out are everything from the scan's start on:
\* the water marks already exclude whatever is live.
LEMMA CandidatesContiguous ==
    ASSUME IdInv
    PROVE  /\ OrderScanStart \in Nat
           /\ OrderCandidates = OrderScanStart .. MaxWireOrderID
  <1>1. /\ OrderScanStart \in Nat
        /\ OrderScanStart >= nextValidID
        /\ OrderScanStart > requestIDHighWater
    BY MaxAssumption DEF OrderScanStart, HigherOf, IdInv, TypeOK
  <1>2. ASSUME NEW id \in Active PROVE id \notin OrderScanStart .. MaxWireOrderID
    <2>1. id \in WireIDs
      BY <1>2 DEF Active, IdInv, TypeOK
    <2>2. id \in seenRequestIDs \/ id \in seenOrderIDs
      BY <1>2 DEF Active, IdInv, LiveSeen
    <2>3. id <= requestIDHighWater \/ id < nextValidID
      BY <2>2 DEF IdInv, Marks
    <2> QED
      BY <1>1, <2>1, <2>3, MaxAssumption DEF IdInv, TypeOK, WireIDs
  <1> QED
    BY <1>1, <1>2 DEF OrderCandidates

\* Three least candidates in a row are neighbours.
LEMMA BracketIsRun ==
    ASSUME IdInv, NEW p, NEW t, NEW s, NEW admitted, PlaceBracket(p, t, s, admitted)
    PROVE  p \in Nat /\ t = p + 1 /\ s = p + 2
  <1> DEFINE first == OrderScanStart
  <1>1. first \in Nat /\ OrderCandidates = first .. MaxWireOrderID
    BY CandidatesContiguous
  <1>2. /\ p \in OrderCandidates /\ \A o \in OrderCandidates : p <= o
        /\ t \in OrderCandidates /\ t # p /\ \A o \in OrderCandidates : o # p => t <= o
        /\ s \in OrderCandidates /\ s # p /\ s # t
        /\ \A o \in OrderCandidates : o # p /\ o # t => s <= o
    BY DEF PlaceBracket, IsLeast
  <1> HIDE DEF first
  <1>3. p \in Nat /\ t \in Nat /\ s \in Nat /\ p = first /\ t > p /\ s > p
    BY <1>1, <1>2, MaxAssumption
  <1>4. t <= p + 1
    BY <1>1, <1>2, <1>3, MaxAssumption
  <1>5. t = p + 1
    BY <1>3, <1>4
  <1>6. s > p + 1
    BY <1>2, <1>3, <1>5
  <1>7. s <= p + 2
    BY <1>1, <1>2, <1>3, <1>5, <1>6, MaxAssumption
  <1> QED
    BY <1>3, <1>5, <1>6, <1>7

\* Every step installs at most one order, or the three of a bracket.
LEMMA NewOrdersAreRun ==
    IdInv /\ [Next]_vars => \A a, b \in orders' \ orders : a - b \in {-2, -1, 0, 1, 2}
  <1> DEFINE Run == \A a, b \in orders' \ orders : a - b \in {-2, -1, 0, 1, 2}
  <1> SUFFICES ASSUME IdInv, [Next]_vars PROVE Run
    OBVIOUS
  <1>1. ASSUME NEW id \in WireIDs, orders' \ orders \subseteq {id} PROVE Run
    BY <1>1, MaxAssumption DEF WireIDs
  <1>2. ASSUME NEW id \in WireIDs, NEW admitted \in BOOLEAN,
               \/ StartRequest(id, admitted) \/ ExerciseOptions(id, admitted)
               \/ PlaceOrder(id, admitted) \/ PreviewOrder(id, admitted)
        PROVE  Run
    <2>1. orders' \ orders \subseteq {id}
      BY <1>2 DEF StartRequest, ExerciseOptions, PlaceOrder, PreviewOrder, Install
    <2> QED
      BY <1>1, <2>1
  <1>3. ASSUME NEW p \in WireIDs, NEW t \in WireIDs, NEW s \in WireIDs,
               NEW admitted \in BOOLEAN, PlaceBracket(p, t, s, admitted)
        PROVE  Run
    <2>1. p \in Nat /\ t = p + 1 /\ s = p + 2
      BY <1>3, BracketIsRun
    <2>2. orders' \ orders \subseteq {p, t, s}
      BY <1>3 DEF PlaceBracket, Install
    <2> QED
      BY <2>1, <2>2
  <1>4. ASSUME orders' \subseteq orders PROVE Run
    BY <1>4
  <1>5. ASSUME NEW id \in WireIDs, observeNextValidID(id) PROVE Run
    BY <1>4, <1>5 DEF observeNextValidID, routes
  <1>6. ASSUME NEW id \in ObservableIDs, ObserveOrder(id) PROVE Run
    BY <1>4, <1>6 DEF ObserveOrder, routes
  <1>7. ASSUME PlaceBracketExhausted PROVE Run
    BY <1>4, <1>7 DEF PlaceBracketExhausted, routes
  <1>8. ASSUME NEW id \in WireIDs, EndRequest(id) \/ EndOrder(id) \/ EndPreview(id)
        PROVE  Run
    BY <1>4, <1>8 DEF EndRequest, EndOrder, EndPreview
  <1>9. CASE UNCHANGED vars
    BY <1>4, <1>9 DEF vars, routes
  <1> HIDE DEF Run
  <1> QED
    BY <1>2, <1>3, <1>5, <1>6, <1>7, <1>8, <1>9 DEF Next

\* PlaceBracket gives parent, take-profit and stop-loss consecutive IDs.
THEOREM BracketIDsConsecutiveHolds == Spec => BracketIDsConsecutive
  <1>1. IdInv /\ [Next]_vars => [InOneRun]_vars
    BY NewOrdersAreRun DEF InOneRun
  <1> QED
    BY <1>1, IdInvHolds, PTL DEF Spec, BracketIDsConsecutive

\* Everything allocOrderID promises its callers.
THEOREM OrderIDsFreshHolds == Spec => OrderIDsFresh
  <1>1. IdInv /\ [Next]_vars => [NeverReused /\ NeverARequest /\ InOneRun]_vars
    BY NewIDsAreFresh, NewOrdersAreRun DEF NeverReused, NeverARequest, InOneRun
  <1> QED
    BY <1>1, IdInvHolds, PTL DEF Spec, OrderIDsFresh

------------------------------------------------------------------------------
(* The historical and the clock gate keep their distances, and a parked setup *)
(* is settled once and never forgotten, for any number of requests, keys and  *)
(* callers and any spacings.                                                 *)
(*                                                                         *)
(* The properties speak of requests sent and of answers; inductive is what    *)
(* the gates remember of the requests (GateOK), how a request's stage, its    *)
(* answers and the queued commands agree (SetupOK), and that the held queue   *)
(* has each held request once (HeldOK).  The flush of the held setups is a    *)
(* loop over that queue, whose invariant is FlushOK.                          *)

(* The inductive invariant.                                                *)

Stages == {"none", "new", "queued", "held", "waiting", "sent", "canceled"}
Setups == [key : Keys, stage : Stages, ended : BOOLEAN, wait : Nat, timer : Nat, answers : Nat]
Gates == [next : Nat, recent : [Keys -> Nat]]
Sent == [key : Keys, at : Nat \ {0}]
Clocks == [next : Nat, active : SUBSET ClockCalls, last : Nat, gap : Nat,
           kind : [ClockCalls -> {"seconds", "millis"}], due : [ClockCalls -> Nat],
           stage : [ClockCalls -> {"none", "new", "timer", "sent", "refused", "canceled"}]]
SetupCommands == {Command("setup", r, 0) : r \in Requests}
Wakeups == {Command(by, r, wait) : by \in {"timer", "context"}, r \in Requests, wait \in Nat}

Mines == [pace : [Requests -> Setups], gate : Gates, held : Seq(Requests), sends : Seq(Sent),
          open : BOOLEAN]

\* The actor's state and its queue are well formed.
StateOK ==
    /\ now \in Nat \ {0}
    /\ Mine \in Mines
    /\ inbox \subseteq SetupCommands \cup Wakeups
    /\ clock \in Clocks

\* Both gates remember every request that could still be too close: the common
\* one the last, the one by key each that is not older than its spacing.
GateOK(m, t) ==
    \A i \in DOMAIN m.sends :
      /\ m.sends[i].at <= t
      /\ m.sends[i].at + Spacing <= m.gate.next
      /\ \/ m.sends[i].at <= m.gate.recent[m.sends[i].key]
         \/ m.sends[i].at + IdenticalSpacing < t

\* The requests sent so far are spaced.
SendsOK(m) ==
    \A i, j \in DOMAIN m.sends :
      i < j => /\ m.sends[j].at - m.sends[i].at >= Spacing
               /\ m.sends[i].key = m.sends[j].key => m.sends[j].at - m.sends[i].at >= IdenticalSpacing

Settled(p) == p.stage \in {"sent", "canceled"}

\* One request: answered when settled, and with its wakeup ahead.
SetupOK(p, r, box) ==
    /\ p.answers = IF Settled(p) THEN 1 ELSE 0
    /\ Command("setup", r, 0) \in box => p.stage = "queued"
    /\ p.stage = "waiting" =>
         \/ p.timer # 0
         \/ \E by \in {"timer", "context"} : Command(by, r, p.wait) \in box

\* The held requests are in the queue once.
HeldOK(m) ==
    /\ \A i \in DOMAIN m.held : m.pace[m.held[i]].stage = "held"
    /\ \A i, j \in DOMAIN m.held : m.held[i] = m.held[j] => i = j

\* The clock gate is past the last clock request by its spacing.
ClockOK ==
    /\ clock.gap >= ClockSpacing
    /\ clock.last = 0 \/ clock.last + ClockSpacing <= clock.next

\* What every step keeps.
PaceInv ==
    /\ StateOK
    /\ GateOK(Mine, now) /\ SendsOK(Mine) /\ HeldOK(Mine)
    /\ \A r \in Requests : SetupOK(pace[r], r, inbox)
    /\ ClockOK

------------------------------------------------------------------------------
(* One run of a setup.                                                     *)

\* The answer of a request changes its stage and its answers only.
LEMMA SettleIs ==
  ASSUME NEW m \in Mines, NEW r \in Requests, NEW st \in Stages
  PROVE  LET n == Settle(m, r, st)
         IN  /\ n \in Mines
             /\ n.gate = m.gate /\ n.held = m.held /\ n.sends = m.sends /\ n.open = m.open
             /\ n.pace[r].stage = st /\ n.pace[r].answers = m.pace[r].answers + 1
             /\ \A q \in Requests \ {r} : n.pace[q] = m.pace[q]
  <1> DEFINE p == [m.pace[r] EXCEPT !.stage = st, !.answers = @ + 1]
  <1>1. m.pace \in [Requests -> Setups] /\ m.pace[r] \in Setups
    BY DEF Mines
  <1>2. m.pace[r].answers + 1 \in Nat
    BY <1>1 DEF Setups
  <1>3. p \in Setups /\ p.stage = st /\ p.answers = m.pace[r].answers + 1
    BY <1>1, <1>2 DEF Setups
  <1>4. Settle(m, r, st) = [m EXCEPT !.pace = [m.pace EXCEPT ![r] = p]]
    BY <1>1 DEF Settle, Mines, Setups
  <1> HIDE DEF p
  <1>5. [m.pace EXCEPT ![r] = p] \in [Requests -> Setups]
    BY <1>1, <1>3
  <1>6. Settle(m, r, st) \in Mines
    BY <1>4, <1>5 DEF Mines
  <1> QED BY <1>1, <1>3, <1>4, <1>6 DEF Mines

\* parkHistoricalSetup arms a new wait and leaves the answers alone.
LEMMA ParkIs ==
  ASSUME NEW m \in Mines, NEW r \in Requests, NEW at \in Nat
  PROVE  LET n == parkHistoricalSetup(m, r, at)
         IN  /\ n \in Mines
             /\ n.gate = m.gate /\ n.held = m.held /\ n.sends = m.sends /\ n.open = m.open
             /\ n.pace[r].stage = "waiting" /\ n.pace[r].timer = at
             /\ n.pace[r].answers = m.pace[r].answers
             /\ \A q \in Requests \ {r} : n.pace[q] = m.pace[q]
  <1> DEFINE p == [m.pace[r] EXCEPT !.stage = "waiting", !.wait = @ + 1, !.timer = at]
  <1>1. m.pace \in [Requests -> Setups] /\ m.pace[r] \in Setups
    BY DEF Mines
  <1>2. m.pace[r].wait + 1 \in Nat
    BY <1>1 DEF Setups
  <1>3. p \in Setups /\ p.stage = "waiting" /\ p.timer = at /\ p.answers = m.pace[r].answers
    BY <1>1, <1>2 DEF Setups, Stages
  <1>4. parkHistoricalSetup(m, r, at) = [m EXCEPT !.pace = [m.pace EXCEPT ![r] = p]]
    BY <1>1 DEF parkHistoricalSetup, Mines, Setups
  <1> HIDE DEF p
  <1>5. [m.pace EXCEPT ![r] = p] \in [Requests -> Setups]
    BY <1>1, <1>3
  <1>6. parkHistoricalSetup(m, r, at) \in Mines
    BY <1>4, <1>5 DEF Mines
  <1> QED BY <1>1, <1>3, <1>4, <1>6 DEF Mines

\* A setup that finds the session not ready joins the held queue.
LEMMA HoldIs ==
  ASSUME NEW m \in Mines, NEW r \in Requests
  PROVE  LET n == [m EXCEPT !.held = Append(@, r), !.pace[r].stage = "held"]
         IN  /\ n \in Mines
             /\ n.gate = m.gate /\ n.held = Append(m.held, r) /\ n.sends = m.sends /\ n.open = m.open
             /\ n.pace[r].stage = "held" /\ n.pace[r].answers = m.pace[r].answers
             /\ \A q \in Requests \ {r} : n.pace[q] = m.pace[q]
  <1> DEFINE p == [m.pace[r] EXCEPT !.stage = "held"]
             n == [m EXCEPT !.held = Append(@, r), !.pace[r].stage = "held"]
             h == Append(m.held, r)
  <1>1. m.pace \in [Requests -> Setups] /\ m.pace[r] \in Setups /\ m.held \in Seq(Requests)
    BY DEF Mines
  <1>2. h \in Seq(Requests)
    BY <1>1, AppendProperties
  <1>3. p \in Setups /\ p.stage = "held" /\ p.answers = m.pace[r].answers
    BY <1>1 DEF Setups, Stages
  <1>4. n = [m EXCEPT !.held = h, !.pace = [m.pace EXCEPT ![r] = p]]
    BY <1>1 DEF Mines, Setups
  <1> HIDE DEF p, n, h
  <1>5. [m.pace EXCEPT ![r] = p] \in [Requests -> Setups]
    BY <1>1, <1>3
  <1>6. n \in Mines
    BY <1>2, <1>4, <1>5 DEF Mines
  <1>7. n.gate = m.gate /\ n.held = h /\ n.sends = m.sends /\ n.open = m.open
        /\ n.pace = [m.pace EXCEPT ![r] = p]
    BY <1>4 DEF Mines
  <1>8. n.pace[r] = p /\ \A q \in Requests \ {r} : n.pace[q] = m.pace[q]
    BY <1>1, <1>7
  <1> QED BY <1>3, <1>6, <1>7, <1>8 DEF h, n

\* The spacings are positive.
LEMMA Bounds ==
  /\ Spacing \in Nat /\ Spacing > 0
  /\ IdenticalSpacing \in Nat /\ IdenticalSpacing > 0
  /\ ClockSpacing \in Nat /\ ClockSpacing > 0
  BY PacingAssumption

\* pruneHistoricalRequests keeps every entry younger than the identical spacing.
LEMMA PruneIs ==
  ASSUME now \in Nat, NEW recent \in [Keys -> Nat]
  PROVE  /\ pruneHistoricalRequests(recent) \in [Keys -> Nat]
         /\ \A k \in Keys : \/ pruneHistoricalRequests(recent)[k] = recent[k]
                            \/ recent[k] + IdenticalSpacing < now
  BY Bounds DEF pruneHistoricalRequests

\* Pruning forgets only what no request can be too close to any more.
LEMMA PruneKeepsGate ==
  ASSUME now \in Nat \ {0}, NEW m \in Mines, GateOK(m, now), SendsOK(m)
  PROVE  LET n == [m EXCEPT !.gate.recent = pruneHistoricalRequests(m.gate.recent)]
         IN  /\ n \in Mines /\ GateOK(n, now) /\ SendsOK(n)
             /\ n.pace = m.pace /\ n.held = m.held /\ n.open = m.open /\ n.sends = m.sends
  <1> DEFINE rc == pruneHistoricalRequests(m.gate.recent)
             g == [m.gate EXCEPT !.recent = rc]
             n == [m EXCEPT !.gate.recent = rc]
  <1>1. m.gate \in Gates /\ m.gate.recent \in [Keys -> Nat] /\ m.sends \in Seq(Sent)
    BY DEF Mines, Gates
  <1>2. rc \in [Keys -> Nat] /\ \A k \in Keys : rc[k] = m.gate.recent[k] \/ m.gate.recent[k] + IdenticalSpacing < now
    BY <1>1, PruneIs
  <1> HIDE DEF rc
  <1>3. g \in Gates /\ g.recent = rc /\ g.next = m.gate.next
    BY <1>1, <1>2 DEF Gates
  <1>4. n = [m EXCEPT !.gate = g]
    BY <1>1 DEF Mines, Gates
  <1> HIDE DEF g, n
  <1>5. n \in Mines
    BY <1>3, <1>4 DEF Mines
  <1>6. n.gate = g /\ n.pace = m.pace /\ n.held = m.held /\ n.open = m.open /\ n.sends = m.sends
    BY <1>4 DEF Mines
  <1>7. ASSUME NEW i \in DOMAIN m.sends
        PROVE  \/ m.sends[i].at <= rc[m.sends[i].key]
               \/ m.sends[i].at + IdenticalSpacing < now
    <2>a. m.sends[i] \in Sent
      BY <1>1, ElementOfSeq
    <2>1. m.sends[i].key \in Keys /\ m.sends[i].at \in Nat
      BY <2>a DEF Sent
    <2>b. m.gate.recent[m.sends[i].key] \in Nat
      BY <1>1, <2>1
    <2>2. \/ m.sends[i].at <= m.gate.recent[m.sends[i].key]
          \/ m.sends[i].at + IdenticalSpacing < now
      BY DEF GateOK
    <2> QED BY <1>2, <2>1, <2>b, <2>2, Bounds
  <1>8. GateOK(n, now)
    BY <1>3, <1>6, <1>7 DEF GateOK
  <1>9. SendsOK(n)
    BY <1>6 DEF SendsOK
  <1> QED BY <1>5, <1>6, <1>8, <1>9 DEF n, rc

\* The request sent when neither gate is ahead of the clock is far enough from
\* all the others.
SendNow(m, k, recent) ==
    [m EXCEPT !.gate = [next |-> now + Spacing, recent |-> [recent EXCEPT ![k] = now]],
              !.sends = Append(@, [key |-> k, at |-> now])]

\* A send when neither gate is ahead of the clock keeps all distances.
LEMMA SendKeepsGate ==
  ASSUME now \in Nat \ {0}, NEW m \in Mines, NEW k \in Keys, NEW recent \in [Keys -> Nat],
         GateOK([m EXCEPT !.gate.recent = recent], now), SendsOK(m),
         m.gate.next <= now, recent[k] = 0 \/ recent[k] + IdenticalSpacing <= now
  PROVE  LET n == SendNow(m, k, recent)
         IN  /\ n \in Mines /\ GateOK(n, now) /\ SendsOK(n)
             /\ n.pace = m.pace /\ n.held = m.held /\ n.open = m.open
  <1> DEFINE g == [next |-> now + Spacing, recent |-> [recent EXCEPT ![k] = now]]
             e == [key |-> k, at |-> now]
             s == Append(m.sends, e)
             n == SendNow(m, k, recent)
  <1>1. m.gate \in Gates /\ m.gate.next \in Nat /\ m.sends \in Seq(Sent)
    BY DEF Mines, Gates
  <1>2. e \in Sent /\ e.key = k /\ e.at = now
    BY DEF Sent
  <1>3. now + Spacing \in Nat /\ [recent EXCEPT ![k] = now] \in [Keys -> Nat]
    BY Bounds
  <1>4. g \in Gates /\ g.next = now + Spacing /\ g.recent = [recent EXCEPT ![k] = now]
    BY <1>3 DEF Gates
  <1>5. n = [m EXCEPT !.gate = g, !.sends = s]
    BY DEF SendNow, Mines
  <1> HIDE DEF g, e, n
  <1>6. /\ s \in Seq(Sent) /\ Len(s) = Len(m.sends) + 1 /\ Len(m.sends) \in Nat
        /\ DOMAIN m.sends = 1 .. Len(m.sends) /\ DOMAIN s = 1 .. Len(m.sends) + 1
        /\ s[Len(m.sends) + 1] = e
        /\ \A i \in 1 .. Len(m.sends) : s[i] = m.sends[i]
    BY <1>1, <1>2, AppendProperties
  <1> DEFINE l == Len(m.sends)
  <1> HIDE DEF s, l
  <1>7. n \in Mines
    BY <1>4, <1>5, <1>6 DEF Mines
  <1>8. n.gate = g /\ n.sends = s /\ n.pace = m.pace /\ n.held = m.held /\ n.open = m.open
    BY <1>5 DEF Mines
  <1>9. ASSUME NEW i \in 1 .. l
        PROVE  /\ s[i] = m.sends[i] /\ s[i].at \in Nat /\ s[i].key \in Keys
               /\ s[i].at + Spacing <= now
               /\ s[i].key = k => s[i].at + IdenticalSpacing <= now
               /\ s[i].at <= recent[s[i].key] \/ s[i].at + IdenticalSpacing < now
    <2> DEFINE mr == [m EXCEPT !.gate.recent = recent]
    <2>1. mr.sends = m.sends /\ mr.gate.recent = recent /\ mr.gate.next = m.gate.next
      BY <1>1 DEF Mines, Gates
    <2> HIDE DEF mr
    <2>2. i \in DOMAIN m.sends /\ s[i] = m.sends[i]
      BY <1>6 DEF l
    <2>3. m.sends[i] \in Sent
      BY <1>1, <2>2, ElementOfSeq
    <2>4. m.sends[i].at \in Nat /\ m.sends[i].at > 0 /\ m.sends[i].key \in Keys
      BY <2>3 DEF Sent
    <2>5. /\ m.sends[i].at + Spacing <= m.gate.next
          /\ \/ m.sends[i].at <= recent[m.sends[i].key]
             \/ m.sends[i].at + IdenticalSpacing < now
      BY <2>1, <2>2 DEF GateOK, mr
    <2>6. recent[k] \in Nat
      OBVIOUS
    <2>7. m.sends[i].at + Spacing <= now
      <3> DEFINE a == m.sends[i].at
                 b == m.gate.next
      <3>1. a \in Nat /\ b \in Nat /\ a + Spacing <= b /\ b <= now
        BY <1>1, <2>4, <2>5
      <3> HIDE DEF a, b
      <3>2. a + Spacing <= now
        BY <3>1, Bounds
      <3> QED BY <3>2 DEF a
    <2>8. m.sends[i].key = k => m.sends[i].at + IdenticalSpacing <= now
      BY <2>4, <2>5, <2>6, Bounds
    <2> QED BY <2>2, <2>4, <2>5, <2>7, <2>8
  <1>10. GateOK(n, now)
    <2> SUFFICES ASSUME NEW i \in DOMAIN s
                 PROVE  /\ s[i].at <= now /\ s[i].at + Spacing <= now + Spacing
                        /\ \/ s[i].at <= [recent EXCEPT ![k] = now][s[i].key]
                           \/ s[i].at + IdenticalSpacing < now
      BY <1>4, <1>8 DEF GateOK
    <2>1. CASE i = l + 1
      BY <1>2, <1>6, <2>1, Bounds DEF l
    <2>2. CASE i \in 1 .. l
      BY <1>9, <2>2, Bounds
    <2> QED BY <1>6, <2>1, <2>2 DEF l
  <1>11. SendsOK(n)
    <2> SUFFICES ASSUME NEW i \in DOMAIN s, NEW j \in DOMAIN s, i < j
                 PROVE  /\ s[j].at - s[i].at >= Spacing
                        /\ s[i].key = s[j].key => s[j].at - s[i].at >= IdenticalSpacing
      BY <1>8 DEF SendsOK
    <2>1. i \in 1 .. l
      BY <1>6 DEF l
    <2>2. CASE j = l + 1
      <3>1. s[j] = e
        BY <1>6, <2>2 DEF l
      <3>2. s[i].at \in Nat /\ s[i].at + Spacing <= now /\ (s[i].key = k => s[i].at + IdenticalSpacing <= now)
        BY <1>9, <2>1
      <3> QED BY <1>2, <3>1, <3>2, Bounds
    <2>3. CASE j \in 1 .. l
      BY <1>6, <1>9, <2>1, <2>3 DEF l, SendsOK
    <2> QED BY <1>6, <2>2, <2>3 DEF l
  <1> QED BY <1>7, <1>8, <1>10, <1>11 DEF n

\* What one run leaves: its request canceled, held again, parked with a timer, or
\* sent in keeping with both gates; all others as they were.
RanOnce(m, r, n) ==
    /\ n \in Mines /\ GateOK(n, now) /\ SendsOK(n) /\ n.open = m.open
    /\ n.pace[r].stage \in {"canceled", "held", "waiting", "sent"}
    /\ n.pace[r].answers = IF Settled(n.pace[r]) THEN 1 ELSE 0
    /\ n.pace[r].stage = "waiting" => n.pace[r].timer # 0
    /\ n.held = IF n.pace[r].stage = "held" THEN Append(m.held, r) ELSE m.held
    /\ n.pace[r].stage = "held" => ~m.open
    /\ \A q \in Requests \ {r} : n.pace[q] = m.pace[q]

\* runHistoricalSetup has one of the four outcomes and keeps the gates.
LEMMA RunOne ==
  ASSUME now \in Nat \ {0}, NEW m \in Mines, NEW r \in Requests,
         GateOK(m, now), SendsOK(m), m.pace[r].answers = 0
  PROVE  RanOnce(m, r, runHistoricalSetup(m, r))
  <1> DEFINE k == m.pace[r].key
             recent == pruneHistoricalRequests(m.gate.recent)
             readyAt == IF recent[k] # 0 /\ recent[k] + IdenticalSpacing > m.gate.next
                        THEN recent[k] + IdenticalSpacing ELSE m.gate.next
             mp == [m EXCEPT !.gate.recent = recent]
             ms == SendNow(m, k, recent)
             n == runHistoricalSetup(m, r)
  <1>1. m.pace[r] \in Setups /\ m.gate \in Gates /\ m.open \in BOOLEAN
    BY DEF Mines
  <1>2. k \in Keys /\ m.pace[r].ended \in BOOLEAN /\ m.gate.next \in Nat /\ m.gate.recent \in [Keys -> Nat]
    BY <1>1 DEF Setups, Gates
  <1>3. recent \in [Keys -> Nat]
    BY <1>2, PruneIs
  <1>4. /\ mp \in Mines /\ GateOK(mp, now) /\ SendsOK(mp)
        /\ mp.pace = m.pace /\ mp.held = m.held /\ mp.open = m.open /\ mp.sends = m.sends
    BY PruneKeepsGate
  <1>5. n = IF m.pace[r].ended THEN Settle(m, r, "canceled")
            ELSE IF ~m.open THEN [m EXCEPT !.held = Append(@, r), !.pace[r].stage = "held"]
            ELSE IF readyAt > now THEN parkHistoricalSetup(mp, r, readyAt)
            ELSE Settle(ms, r, "sent")
    BY DEF runHistoricalSetup, SendNow
  <1>6. readyAt \in Nat
    BY <1>2, <1>3, Bounds
  <1> HIDE DEF k, recent, n, mp, ms
  <1>7. CASE m.pace[r].ended
    <2>1. n = Settle(m, r, "canceled")
      BY <1>5, <1>7
    <2>2. /\ n \in Mines
          /\ n.gate = m.gate /\ n.held = m.held /\ n.sends = m.sends /\ n.open = m.open
          /\ n.pace[r].stage = "canceled" /\ n.pace[r].answers = m.pace[r].answers + 1
          /\ \A q \in Requests \ {r} : n.pace[q] = m.pace[q]
      <3>1. "canceled" \in Stages
        BY DEF Stages
      <3> QED BY <2>1, <3>1, SettleIs
    <2>3. GateOK(n, now) /\ SendsOK(n)
      BY <2>2 DEF GateOK, SendsOK
    <2> QED BY <2>2, <2>3 DEF RanOnce, Settled, n
  <1>8. CASE ~m.pace[r].ended /\ ~m.open
    <2>1. n = [m EXCEPT !.held = Append(@, r), !.pace[r].stage = "held"]
      BY <1>5, <1>8
    <2>2. /\ n \in Mines
          /\ n.gate = m.gate /\ n.held = Append(m.held, r) /\ n.sends = m.sends /\ n.open = m.open
          /\ n.pace[r].stage = "held" /\ n.pace[r].answers = m.pace[r].answers
          /\ \A q \in Requests \ {r} : n.pace[q] = m.pace[q]
      BY <2>1, HoldIs
    <2>3. GateOK(n, now) /\ SendsOK(n)
      BY <2>2 DEF GateOK, SendsOK
    <2> QED BY <1>8, <2>2, <2>3 DEF RanOnce, Settled, n
  <1>9. CASE ~m.pace[r].ended /\ m.open /\ readyAt > now
    <2>1. n = parkHistoricalSetup(mp, r, readyAt)
      BY <1>5, <1>9
    <2>2. readyAt # 0
      BY <1>6, <1>9
    <2> HIDE DEF readyAt
    <2>3. /\ n \in Mines
          /\ n.gate = mp.gate /\ n.held = mp.held /\ n.sends = mp.sends /\ n.open = mp.open
          /\ n.pace[r].stage = "waiting" /\ n.pace[r].timer = readyAt
          /\ n.pace[r].answers = mp.pace[r].answers
          /\ \A q \in Requests \ {r} : n.pace[q] = mp.pace[q]
      BY <1>4, <1>6, <2>1, ParkIs
    <2>4. GateOK(n, now) /\ SendsOK(n)
      BY <1>4, <2>3 DEF GateOK, SendsOK
    <2> QED BY <1>4, <2>2, <2>3, <2>4 DEF RanOnce, Settled, n
  <1>10. CASE ~m.pace[r].ended /\ m.open /\ ~(readyAt > now)
    <2>1. n = Settle(ms, r, "sent")
      BY <1>5, <1>10
    <2>2. m.gate.next <= now /\ (recent[k] = 0 \/ recent[k] + IdenticalSpacing <= now)
      BY <1>2, <1>3, <1>10, Bounds
    <2> HIDE DEF readyAt
    <2>3. /\ ms \in Mines /\ GateOK(ms, now) /\ SendsOK(ms)
          /\ ms.pace = m.pace /\ ms.held = m.held /\ ms.open = m.open
      BY <1>2, <1>3, <1>4, <2>2, SendKeepsGate DEF ms, mp
    <2>4. /\ n \in Mines
          /\ n.gate = ms.gate /\ n.held = ms.held /\ n.sends = ms.sends /\ n.open = ms.open
          /\ n.pace[r].stage = "sent" /\ n.pace[r].answers = ms.pace[r].answers + 1
          /\ \A q \in Requests \ {r} : n.pace[q] = ms.pace[q]
      <3>1. "sent" \in Stages
        BY DEF Stages
      <3> QED BY <2>1, <2>3, <3>1, SettleIs
    <2>5. GateOK(n, now) /\ SendsOK(n)
      BY <2>3, <2>4 DEF GateOK, SendsOK
    <2> QED BY <2>3, <2>4, <2>5 DEF RanOnce, Settled, n
  <1> QED BY <1>1, <1>2, <1>7, <1>8, <1>9, <1>10 DEF n

\* A request that is run anew enters the held queue at most once.
LEMMA RunKeepsHeld ==
  ASSUME NEW m \in Mines, NEW r \in Requests, NEW n, RanOnce(m, r, n),
         HeldOK(m), m.pace[r].stage # "held"
  PROVE  HeldOK(n)
  <1> DEFINE h == m.held
  <1>1. h \in Seq(Requests) /\ Len(h) \in Nat /\ DOMAIN h = 1 .. Len(h)
    BY DEF Mines
  <1>2. ASSUME NEW i \in 1 .. Len(h) PROVE h[i] \in Requests /\ h[i] # r /\ n.pace[h[i]].stage = "held"
    <2>1. h[i] \in Requests
      BY <1>1, ElementOfSeq
    <2>2. m.pace[h[i]].stage = "held"
      BY <1>1 DEF HeldOK
    <2>3. h[i] # r
      BY <2>2
    <2>4. n.pace[h[i]] = m.pace[h[i]]
      BY <2>1, <2>3 DEF RanOnce
    <2> QED BY <2>1, <2>2, <2>3, <2>4
  <1>3. CASE n.pace[r].stage # "held"
    <2>1. n.held = h
      BY <1>3 DEF RanOnce
    <2> QED BY <1>1, <1>2, <2>1 DEF HeldOK
  <1>4. CASE n.pace[r].stage = "held"
    <2> DEFINE a == Append(h, r)
    <2>1. n.held = a
      BY <1>4 DEF RanOnce
    <2>2. /\ Len(a) = Len(h) + 1 /\ DOMAIN a = 1 .. Len(h) + 1 /\ a[Len(h) + 1] = r
          /\ \A i \in 1 .. Len(h) : a[i] = h[i]
      BY <1>1, AppendProperties
    <2> HIDE DEF a
    <2>3. ASSUME NEW i \in DOMAIN a PROVE n.pace[a[i]].stage = "held"
      <3>1. i = Len(h) + 1 \/ i \in 1 .. Len(h)
        BY <1>1, <2>2
      <3> QED BY <1>2, <1>4, <2>2, <3>1
    <2>4. ASSUME NEW i \in DOMAIN a, NEW j \in DOMAIN a, a[i] = a[j] PROVE i = j
      <3>1. (i = Len(h) + 1 \/ i \in 1 .. Len(h)) /\ (j = Len(h) + 1 \/ j \in 1 .. Len(h))
        BY <1>1, <2>2
      <3>2. \A k \in 1 .. Len(h) : a[k] # r
        BY <1>2, <2>2
      <3>3. CASE i \in 1 .. Len(h) /\ j \in 1 .. Len(h)
        BY <1>1, <2>2, <2>4, <3>3 DEF HeldOK
      <3> QED BY <2>2, <2>4, <3>1, <3>2, <3>3
    <2> QED BY <2>1, <2>3, <2>4 DEF HeldOK
  <1> QED BY <1>3, <1>4

------------------------------------------------------------------------------
(* The flush of the held setups.                                           *)

\* After i setups of the queue: the gates kept, those done settled or parked with
\* a timer, those to come still held.
FlushOK(v, i, seq, par) ==
    /\ v \in Mines /\ GateOK(v, now) /\ SendsOK(v) /\ v.open = TRUE /\ v.held = <<>>
    /\ \A j \in i + 1 .. Len(seq) : v.pace[seq[j]].stage = "held"
    /\ \A a, b \in 1 .. Len(seq) : seq[a] = seq[b] => a = b
    /\ \A q \in Requests : SetupOK(v.pace[q], q, inbox)

RunNext(v, r, none) == runHistoricalSetup(v, r)

Flush == INSTANCE QueueTheorems WITH Op <- RunNext, Holds <- FlushOK

\* The model's fold is the one of QueueTheorems.
LEMMA FlushIsFold ==
  ASSUME NEW m, NEW s
  PROVE  flushReadySetups(m, s) = Flush!Folded(m, s, {})
  BY Zenon DEF flushReadySetups, RunNext, Flush!Folded, FoldLeft, Flush!FoldLeft,
               MapThenFoldSet, Flush!MapThenFoldSet, Max, Flush!Max

\* So is the removal of one element.
LEMMA RemoveIsWithout ==
  ASSUME NEW s, NEW e
  PROVE  RemoveFirst(s, e) = Flush!Without(s, e)
  BY Zenon DEF RemoveFirst, Flush!Without, Flush!RemoveFirst, RemoveAt, Flush!RemoveAt,
               SelectInSeq, Flush!SelectInSeq, Min, Flush!Min

\* What cancelReadySetup leaves in the queue was there, each request once.
LEMMA RemoveKeeps ==
  ASSUME NEW S, NEW s \in Seq(S), NEW e, \A i, j \in DOMAIN s : s[i] = s[j] => i = j
  PROVE  /\ RemoveFirst(s, e) \in Seq(S)
         /\ \A i \in DOMAIN RemoveFirst(s, e) : \E j \in DOMAIN s : RemoveFirst(s, e)[i] = s[j]
         /\ \A i \in DOMAIN RemoveFirst(s, e) : RemoveFirst(s, e)[i] # e
         /\ \A i, j \in DOMAIN RemoveFirst(s, e) : RemoveFirst(s, e)[i] = RemoveFirst(s, e)[j] => i = j
  <1>1. RemoveFirst(s, e) = Flush!Without(s, e)
    BY RemoveIsWithout
  <1>2. /\ Flush!Without(s, e) \in Seq(S)
        /\ \A i \in DOMAIN Flush!Without(s, e) : \E j \in DOMAIN s : Flush!Without(s, e)[i] = s[j]
        /\ \A i \in DOMAIN Flush!Without(s, e) : Flush!Without(s, e)[i] # e
        /\ \A i, j \in DOMAIN Flush!Without(s, e) : Flush!Without(s, e)[i] = Flush!Without(s, e)[j] => i = j
    BY Flush!WithoutKeeps
  <1> QED BY <1>1, <1>2

\* A request that had no setup command queued agrees with the queue after its run.
LEMMA SetupRuns ==
  ASSUME NEW p, NEW n, NEW r, NEW box, SetupOK(p, r, box), p.stage # "queued",
         n.answers = IF Settled(n) THEN 1 ELSE 0, n.stage = "waiting" => n.timer # 0
  PROVE  SetupOK(n, r, box)
  BY DEF SetupOK

\* Each run of the loop keeps the loop invariant.
LEMMA FlushStep ==
  ASSUME now \in Nat \ {0}, NEW seq \in Seq(Requests)
  PROVE  Flush!Preserved(seq, {})
  <1> SUFFICES ASSUME NEW i \in 1 .. Len(seq), NEW v, FlushOK(v, i - 1, seq, {})
               PROVE  FlushOK(runHistoricalSetup(v, seq[i]), i, seq, {})
    BY DEF Flush!Preserved, RunNext
  <1> DEFINE r == seq[i]
             n == runHistoricalSetup(v, r)
  <1>1. r \in Requests /\ i \in Nat /\ Len(seq) \in Nat
    BY ElementOfSeq
  <1>2. i \in (i - 1) + 1 .. Len(seq)
    BY <1>1
  <1>3. v \in Mines /\ GateOK(v, now) /\ SendsOK(v) /\ v.open = TRUE /\ v.held = <<>>
        /\ v.pace[r].stage = "held" /\ SetupOK(v.pace[r], r, inbox)
    BY <1>1, <1>2 DEF FlushOK
  <1>4. v.pace[r].answers = 0
    BY <1>3 DEF SetupOK, Settled
  <1>5. RanOnce(v, r, n)
    BY <1>1, <1>3, <1>4, RunOne
  <1> HIDE DEF n
  <1>6. n \in Mines /\ GateOK(n, now) /\ SendsOK(n) /\ n.open = TRUE /\ n.held = <<>>
    BY <1>3, <1>5 DEF RanOnce
  <1>7. ASSUME NEW q \in Requests PROVE SetupOK(n.pace[q], q, inbox)
    <2>1. SetupOK(v.pace[q], q, inbox)
      BY DEF FlushOK
    <2>2. CASE q # r
      <3>1. n.pace[q] = v.pace[q]
        BY <1>5, <2>2 DEF RanOnce
      <3> QED BY <2>1, <3>1
    <2>3. CASE q = r
      <3>1. /\ n.pace[r].answers = IF Settled(n.pace[r]) THEN 1 ELSE 0
            /\ n.pace[r].stage = "waiting" => n.pace[r].timer # 0
        BY <1>5 DEF RanOnce
      <3> QED BY <1>3, <2>3, <3>1, SetupRuns
    <2> QED BY <2>2, <2>3
  <1>8. ASSUME NEW j \in i + 1 .. Len(seq) PROVE n.pace[seq[j]].stage = "held"
    <2>1. j \in 1 .. Len(seq) /\ j # i /\ j \in (i - 1) + 1 .. Len(seq)
      BY <1>1
    <2>2. seq[j] # r /\ seq[j] \in Requests
      BY <2>1, ElementOfSeq DEF FlushOK
    <2>3. v.pace[seq[j]].stage = "held"
      BY <2>1 DEF FlushOK
    <2> QED BY <1>5, <2>2, <2>3 DEF RanOnce
  <1>9. \A a, b \in 1 .. Len(seq) : seq[a] = seq[b] => a = b
    BY DEF FlushOK
  <1>10. FlushOK(n, i, seq, {})
    BY <1>6, <1>7, <1>8, <1>9 DEF FlushOK
  <1> QED BY <1>10 DEF n

------------------------------------------------------------------------------
(* The invariant holds initially, and every step keeps it.                 *)

\* The fields of the actor's state are the variables.
LEMMA MineFields ==
  ASSUME Mine \in Mines
  PROVE  /\ pace \in [Requests -> Setups] /\ gate \in Gates /\ held \in Seq(Requests)
         /\ sends \in Seq(Sent) /\ open \in BOOLEAN
         /\ Mine.pace = pace /\ Mine.gate = gate /\ Mine.held = held /\ Mine.sends = sends /\ Mine.open = open
  BY DEF Mine, Mines

\* A turn of the actor leaves the state its operator computed.
LEMMA MineNext ==
  ASSUME NEW n \in Mines, MineIs(n), open' = n.open
  PROVE  Mine' = n
  BY DEF MineIs, Mine, Mines

\* Nothing owned by the actor changes.
LEMMA MineSame ==
  ASSUME UNCHANGED <<pace, gate, held, sends, open>>
  PROVE  Mine' = Mine
  BY DEF Mine

\* The invariant holds before the first call.
LEMMA PaceInitInv == PaceInit => PaceInv
  <1> SUFFICES ASSUME PaceInit PROVE PaceInv
    OBVIOUS
  <1>1. PICK stage \in {"new", "none"}, k \in [Requests -> Keys], kinds \in [ClockCalls -> {"seconds", "millis"}] :
          /\ pace = [r \in Requests |-> Fresh(k[r], stage)]
          /\ clock = [next |-> 0, active |-> {}, last |-> 0, gap |-> ClockSpacing, kind |-> kinds,
                      due |-> [q \in ClockCalls |-> 0],
                      stage |-> [q \in ClockCalls |-> IF stage = "new" THEN "none" ELSE "new"]]
    BY DEF PaceInit
  <1>2. \A r \in Requests : Fresh(k[r], stage) \in Setups
    BY DEF Fresh, Setups, Stages
  <1>3. pace \in [Requests -> Setups]
    BY <1>1, <1>2
  <1>4. gate \in Gates /\ held = <<>> /\ sends = <<>> /\ open \in BOOLEAN /\ now = 1 /\ inbox = {}
    BY DEF PaceInit, Gates
  <1>5. held \in Seq(Requests) /\ sends \in Seq(Sent) /\ DOMAIN held = {} /\ DOMAIN sends = {}
    BY <1>4
  <1>6. Mine \in Mines
    BY <1>3, <1>4, <1>5 DEF Mine, Mines
  <1>7. clock \in Clocks
    BY <1>1, Bounds DEF Clocks
  <1>8. StateOK
    BY <1>4, <1>6, <1>7 DEF StateOK
  <1>9. GateOK(Mine, now) /\ SendsOK(Mine) /\ HeldOK(Mine)
    BY <1>5 DEF Mine, GateOK, SendsOK, HeldOK
  <1>10. ASSUME NEW r \in Requests PROVE SetupOK(pace[r], r, inbox)
    BY <1>1, <1>4 DEF Fresh, SetupOK, Settled
  <1>11. ClockOK
    BY <1>1, Bounds DEF ClockOK
  <1> QED BY <1>8, <1>9, <1>10, <1>11 DEF PaceInv

\* A caller queues the setup of its request.
LEMMA AskStep ==
  ASSUME PaceInv, NEW r \in Requests, Ask(r)
  PROVE  PaceInv'
  <1> DEFINE p == [pace[r] EXCEPT !.stage = "queued"]
             c == Command("setup", r, 0)
  <1>1. Mine \in Mines /\ clock \in Clocks /\ inbox \subseteq SetupCommands \cup Wakeups /\ now \in Nat \ {0}
    BY DEF PaceInv, StateOK
  <1>2. pace \in [Requests -> Setups] /\ pace[r] \in Setups
    BY <1>1, MineFields
  <1>3. p \in Setups /\ p.stage = "queued" /\ p.answers = pace[r].answers
    BY <1>2 DEF Setups, Stages
  <1>4. pace' = [pace EXCEPT ![r] = p] /\ pace[r].stage = "new"
    BY <1>2 DEF Ask
  <1> HIDE DEF p
  <1>5. UNCHANGED <<gate, held, sends, now, clock, open>> /\ inbox' = inbox \cup {c}
    BY DEF Ask, OneCommand
  <1>6. pace' \in [Requests -> Setups]
    BY <1>2, <1>3, <1>4
  <1>7. Mine' \in Mines
    BY <1>1, <1>5, <1>6, MineFields DEF Mine, Mines
  <1>8. StateOK'
    BY <1>1, <1>5, <1>7 DEF StateOK, SetupCommands
  <1>9. GateOK(Mine, now)' /\ SendsOK(Mine)'
    BY <1>5 DEF PaceInv, GateOK, SendsOK, Mine
  <1>10. HeldOK(Mine)'
    <2>1. \A i \in DOMAIN held : held[i] \in Requests /\ pace[held[i]].stage = "held"
      BY <1>1, MineFields, ElementOfSeq DEF PaceInv, HeldOK, Mine
    <2>2. \A i \in DOMAIN held : pace'[held[i]].stage = "held"
      BY <1>2, <1>4, <2>1
    <2> QED BY <1>5, <2>2 DEF PaceInv, HeldOK, Mine
  <1>11. ASSUME NEW q \in Requests PROVE SetupOK(pace[q], q, inbox)'
    <2>1. SetupOK(pace[q], q, inbox)
      BY DEF PaceInv
    <2>2. CASE q = r
      BY <1>2, <1>3, <1>4, <1>5, <2>1, <2>2 DEF SetupOK, Settled
    <2>3. CASE q # r
      <3>1. pace'[q] = pace[q]
        BY <1>2, <1>4, <2>3
      <3>2. Command("setup", q, 0) # c
        BY <2>3 DEF Command
      <3> HIDE DEF c
      <3> QED BY <1>5, <2>1, <3>1, <3>2 DEF SetupOK
    <2> QED BY <2>2, <2>3
  <1>12. ClockOK'
    BY <1>5 DEF PaceInv, ClockOK
  <1> QED BY <1>8, <1>9, <1>10, <1>11, <1>12 DEF PaceInv

\* A callback changes one request in place and may queue a wakeup.
LEMMA CallbackStep ==
  ASSUME PaceInv, NEW r \in Requests, NEW p \in Setups,
         pace' = [pace EXCEPT ![r] = p], p.stage = pace[r].stage,
         UNCHANGED <<gate, held, sends, now, clock, open>>,
         inbox \subseteq inbox', inbox' \subseteq inbox \cup Wakeups,
         SetupOK(p, r, inbox')
  PROVE  PaceInv'
  <1>1. Mine \in Mines /\ clock \in Clocks /\ inbox \subseteq SetupCommands \cup Wakeups /\ now \in Nat \ {0}
    BY DEF PaceInv, StateOK
  <1>2. pace \in [Requests -> Setups] /\ pace[r] \in Setups
    BY <1>1, MineFields
  <1>3. pace' \in [Requests -> Setups]
    BY <1>2
  <1>4. Mine' \in Mines
    BY <1>1, <1>3, MineFields DEF Mine, Mines
  <1>5. StateOK'
    BY <1>1, <1>4 DEF StateOK
  <1>6. GateOK(Mine, now)' /\ SendsOK(Mine)'
    BY DEF PaceInv, GateOK, SendsOK, Mine
  <1>7. HeldOK(Mine)'
    <2>1. \A i \in DOMAIN held : held[i] \in Requests /\ pace[held[i]].stage = "held"
      BY <1>1, MineFields, ElementOfSeq DEF PaceInv, HeldOK, Mine
    <2>2. \A i \in DOMAIN held : pace'[held[i]].stage = "held"
      BY <1>2, <2>1
    <2> QED BY <2>2 DEF PaceInv, HeldOK, Mine
  <1>8. ASSUME NEW q \in Requests PROVE SetupOK(pace[q], q, inbox)'
    <2>1. SetupOK(pace[q], q, inbox)
      BY DEF PaceInv
    <2>2. CASE q = r
      BY <1>2, <2>2
    <2>3. CASE q # r
      <3>1. pace'[q] = pace[q]
        BY <1>2, <2>3
      <3>2. \A w \in Wakeups : w # Command("setup", q, 0)
        BY DEF Wakeups, Command
      <3>3. Command("setup", q, 0) \in inbox' => Command("setup", q, 0) \in inbox
        BY <3>2
      <3> QED BY <2>1, <3>1, <3>3 DEF SetupOK
    <2> QED BY <2>2, <2>3
  <1>9. ClockOK'
    BY DEF PaceInv, ClockOK
  <1> QED BY <1>5, <1>6, <1>7, <1>8, <1>9 DEF PaceInv

\* The timer of a wait queues the wakeup of that wait.
LEMMA TimerStep ==
  ASSUME PaceInv, NEW r \in Requests, TimerFires(r)
  PROVE  PaceInv'
  <1> DEFINE p == [pace[r] EXCEPT !.timer = 0]
             c == Command("timer", r, pace[r].wait)
  <1>1. Mine \in Mines
    BY DEF PaceInv, StateOK
  <1>2. pace \in [Requests -> Setups] /\ pace[r] \in Setups
    BY <1>1, MineFields
  <1>3. p \in Setups /\ p.stage = pace[r].stage /\ p.answers = pace[r].answers /\ p.wait = pace[r].wait
    BY <1>2 DEF Setups
  <1>4. pace' = [pace EXCEPT ![r] = p] /\ pace[r].stage = "waiting"
    BY <1>2 DEF TimerFires
  <1>5. UNCHANGED <<gate, held, sends, now, clock, open>> /\ inbox' = inbox \cup {c}
    BY DEF TimerFires, OneCommand
  <1>6. pace[r].wait \in Nat
    BY <1>2 DEF Setups
  <1>7. c \in Wakeups /\ c # Command("setup", r, 0)
    BY <1>6 DEF Wakeups, Command
  <1>8. SetupOK(pace[r], r, inbox)
    BY DEF PaceInv
  <1>9. Command("timer", r, p.wait) \in inbox'
    BY <1>3, <1>5
  <1> HIDE DEF p, c
  <1>10. SetupOK(p, r, inbox')
    BY <1>3, <1>4, <1>5, <1>7, <1>8, <1>9 DEF SetupOK, Settled
  <1> QED BY <1>3, <1>4, <1>5, <1>7, <1>10, CallbackStep

\* The end of a context queues a wakeup, or is seen by the setup itself.
LEMMA ContextStep ==
  ASSUME PaceInv, NEW r \in Requests, PaceContextEnds(r), pace[r].stage # "held"
  PROVE  PaceInv'
  <1> DEFINE p == [pace[r] EXCEPT !.ended = TRUE]
             c == Command("context", r, pace[r].wait)
  <1>1. Mine \in Mines
    BY DEF PaceInv, StateOK
  <1>2. pace \in [Requests -> Setups] /\ pace[r] \in Setups
    BY <1>1, MineFields
  <1>3. p \in Setups /\ p.stage = pace[r].stage /\ p.answers = pace[r].answers /\ p.wait = pace[r].wait
        /\ p.timer = pace[r].timer
    BY <1>2 DEF Setups
  <1>4. pace' = [pace EXCEPT ![r] = p]
    BY <1>2 DEF PaceContextEnds
  <1>5. UNCHANGED <<gate, held, sends, now, clock, open>> /\ (inbox' = inbox \/ inbox' = inbox \cup {c})
    BY DEF PaceContextEnds, OneCommand
  <1>6. pace[r].wait \in Nat
    BY <1>2 DEF Setups
  <1>7. c \in Wakeups /\ c # Command("setup", r, 0)
    BY <1>6 DEF Wakeups, Command
  <1>8. SetupOK(pace[r], r, inbox)
    BY DEF PaceInv
  <1> HIDE DEF p, c
  <1>9. inbox \subseteq inbox' /\ inbox' \subseteq inbox \cup Wakeups
        /\ (Command("setup", r, 0) \in inbox' => Command("setup", r, 0) \in inbox)
    BY <1>5, <1>7
  <1>10. SetupOK(p, r, inbox')
    BY <1>3, <1>8, <1>9 DEF SetupOK, Settled
  <1> QED BY <1>3, <1>4, <1>5, <1>9, <1>10, CallbackStep

\* The end of the context of a held setup takes it out of the queue.
LEMMA HeldContextStep ==
  ASSUME PaceInv, NEW r \in Requests, PaceContextEnds(r), pace[r].stage = "held"
  PROVE  PaceInv'
  <1> DEFINE p == [pace[r] EXCEPT !.ended = TRUE]
             h == RemoveFirst(held, r)
             m == [Mine EXCEPT !.pace[r].ended = TRUE, !.held = RemoveFirst(@, r)]
             n == Settle(m, r, "canceled")
  <1>1. Mine \in Mines /\ clock \in Clocks /\ inbox \subseteq SetupCommands \cup Wakeups /\ now \in Nat \ {0}
    BY DEF PaceInv, StateOK
  <1>2. pace \in [Requests -> Setups] /\ pace[r] \in Setups /\ held \in Seq(Requests) /\ open \in BOOLEAN
    BY <1>1, MineFields
  <1>3. MineIs(n) /\ UNCHANGED <<inbox, now, clock, open>>
    BY DEF PaceContextEnds, OneCommand
  <1>4. p \in Setups /\ p.answers = pace[r].answers
    BY <1>2 DEF Setups
  <1>5. /\ h \in Seq(Requests)
        /\ \A i \in DOMAIN h : \E j \in DOMAIN held : h[i] = held[j]
        /\ \A i \in DOMAIN h : h[i] # r
        /\ \A i, j \in DOMAIN h : h[i] = h[j] => i = j
    <2>1. \A i, j \in DOMAIN held : held[i] = held[j] => i = j
      BY DEF PaceInv, HeldOK, Mine
    <2> QED BY <1>2, <2>1, RemoveKeeps
  <1>6. m = [Mine EXCEPT !.pace = [pace EXCEPT ![r] = p], !.held = h]
    BY <1>1, <1>2, MineFields DEF Mine
  <1> HIDE DEF p, h, m, n
  <1>7. [pace EXCEPT ![r] = p] \in [Requests -> Setups]
    BY <1>2, <1>4
  <1>8. m \in Mines
    BY <1>1, <1>5, <1>6, <1>7 DEF Mines
  <1>9. /\ m.pace = [pace EXCEPT ![r] = p] /\ m.held = h /\ m.gate = gate /\ m.sends = sends /\ m.open = open
    BY <1>1, <1>6, MineFields DEF Mines
  <1>10. "canceled" \in Stages
    BY DEF Stages
  <1>11. /\ n \in Mines
         /\ n.gate = m.gate /\ n.held = m.held /\ n.sends = m.sends /\ n.open = m.open
         /\ n.pace[r].stage = "canceled" /\ n.pace[r].answers = m.pace[r].answers + 1
         /\ \A q \in Requests \ {r} : n.pace[q] = m.pace[q]
    BY <1>8, <1>10, SettleIs DEF n
  <1>12. Mine' = n
    BY <1>3, <1>9, <1>11, MineNext
  <1>13. StateOK'
    BY <1>1, <1>3, <1>11, <1>12 DEF StateOK
  <1>14. GateOK(n, now) /\ SendsOK(n)
    BY <1>1, <1>9, <1>11, MineFields DEF PaceInv, GateOK, SendsOK
  <1>15. HeldOK(n)
    <2>1. ASSUME NEW i \in DOMAIN h PROVE n.pace[h[i]].stage = "held"
      <3>1. PICK j \in DOMAIN held : h[i] = held[j]
        BY <1>5
      <3>2. pace[h[i]].stage = "held" /\ h[i] \in Requests
        BY <1>2, <3>1, ElementOfSeq DEF PaceInv, HeldOK, Mine
      <3>3. h[i] # r
        BY <1>5
      <3> QED BY <1>2, <1>9, <1>11, <3>2, <3>3
    <2> QED BY <1>5, <1>9, <1>11, <2>1 DEF HeldOK
  <1>16. ASSUME NEW q \in Requests PROVE SetupOK(n.pace[q], q, inbox)
    <2>1. SetupOK(pace[q], q, inbox)
      BY DEF PaceInv
    <2>2. CASE q = r
      BY <1>2, <1>4, <1>9, <1>11, <2>1, <2>2 DEF SetupOK, Settled
    <2>3. CASE q # r
      <3>1. n.pace[q] = pace[q]
        BY <1>2, <1>9, <1>11, <2>3
      <3> QED BY <2>1, <3>1
    <2> QED BY <2>2, <2>3
  <1>17. pace' = n.pace
    BY <1>3 DEF MineIs
  <1>18. \A q \in Requests : SetupOK(pace[q], q, inbox)'
    BY <1>3, <1>16, <1>17
  <1>19. GateOK(Mine, now)' /\ SendsOK(Mine)' /\ HeldOK(Mine)'
    BY <1>3, <1>12, <1>14, <1>15 DEF GateOK, SendsOK, HeldOK
  <1>20. ClockOK'
    BY <1>3 DEF PaceInv, ClockOK
  <1> QED BY <1>13, <1>18, <1>19, <1>20 DEF PaceInv

\* A command that runs its request's setup.
LEMMA RunStep ==
  ASSUME PaceInv, NEW r \in Requests, NEW m \in Mines,
         m.gate = gate, m.held = held, m.sends = sends, m.open = open,
         \A q \in Requests \ {r} : m.pace[q] = pace[q],
         m.pace[r].stage = pace[r].stage, m.pace[r].answers = pace[r].answers,
         pace[r].stage \in {"queued", "waiting"},
         NEW c \in inbox, c.r = r, inbox' = inbox \ {c}, Command("setup", r, 0) \notin inbox',
         MineIs(runHistoricalSetup(m, r)), UNCHANGED <<now, clock, open>>
  PROVE  PaceInv'
  <1> DEFINE n == runHistoricalSetup(m, r)
  <1>1. Mine \in Mines /\ clock \in Clocks /\ inbox \subseteq SetupCommands \cup Wakeups /\ now \in Nat \ {0}
    BY DEF PaceInv, StateOK
  <1>2. SetupOK(pace[r], r, inbox)
    BY DEF PaceInv
  <1>3. pace[r].answers = 0 /\ pace[r].stage # "held"
    BY <1>2 DEF SetupOK, Settled
  <1>4. GateOK(m, now) /\ SendsOK(m)
    BY <1>1, MineFields DEF PaceInv, GateOK, SendsOK
  <1>5. RanOnce(m, r, n)
    BY <1>1, <1>3, <1>4, RunOne
  <1>6. HeldOK(m)
    <2>1. ASSUME NEW i \in DOMAIN held PROVE m.pace[held[i]].stage = "held"
      <3>1. pace[held[i]].stage = "held" /\ held[i] \in Requests
        BY <1>1, MineFields, ElementOfSeq DEF PaceInv, HeldOK, Mine
      <3> QED BY <3>1
    <2> QED BY <2>1 DEF PaceInv, HeldOK, Mine
  <1>7. HeldOK(n)
    BY <1>3, <1>5, <1>6, RunKeepsHeld
  <1> HIDE DEF n
  <1>8. n \in Mines /\ GateOK(n, now) /\ SendsOK(n) /\ n.open = open
    BY <1>5 DEF RanOnce
  <1>9. Mine' = n /\ pace' = n.pace
    BY <1>8, MineNext DEF n, MineIs
  <1>10. StateOK'
    BY <1>1, <1>8, <1>9 DEF StateOK
  <1>11. ASSUME NEW q \in Requests PROVE SetupOK(n.pace[q], q, inbox')
    <2>1. SetupOK(pace[q], q, inbox)
      BY DEF PaceInv
    <2>2. CASE q = r
      BY <1>5, <2>2 DEF RanOnce, SetupOK
    <2>3. CASE q # r
      <3>1. n.pace[q] = pace[q]
        BY <1>5, <2>3 DEF RanOnce
      <3>2. \A by, w : Command(by, q, w) # c
        BY <2>3 DEF Command
      <3>3. \A by, w : Command(by, q, w) \in inbox' <=> Command(by, q, w) \in inbox
        BY <3>2
      <3> QED BY <2>1, <3>1, <3>3 DEF SetupOK
    <2> QED BY <2>2, <2>3
  <1>12. GateOK(Mine, now)' /\ SendsOK(Mine)' /\ HeldOK(Mine)'
    BY <1>7, <1>8, <1>9 DEF GateOK, SendsOK, HeldOK
  <1>13. ClockOK'
    BY DEF PaceInv, ClockOK
  <1>14. \A q \in Requests : SetupOK(pace[q], q, inbox)'
    BY <1>9, <1>11
  <1> QED BY <1>10, <1>12, <1>13, <1>14 DEF PaceInv

\* Stopping the timer touches nothing else.
LEMMA TimerOffIs ==
  ASSUME NEW m \in Mines, NEW r \in Requests
  PROVE  LET n == [m EXCEPT !.pace[r].timer = 0]
         IN  /\ n \in Mines
             /\ n.gate = m.gate /\ n.held = m.held /\ n.sends = m.sends /\ n.open = m.open
             /\ n.pace[r].stage = m.pace[r].stage /\ n.pace[r].answers = m.pace[r].answers
             /\ \A q \in Requests \ {r} : n.pace[q] = m.pace[q]
  <1> DEFINE p == [m.pace[r] EXCEPT !.timer = 0]
             n == [m EXCEPT !.pace[r].timer = 0]
  <1>1. m.pace \in [Requests -> Setups] /\ m.pace[r] \in Setups
    BY DEF Mines
  <1>2. p \in Setups /\ p.stage = m.pace[r].stage /\ p.answers = m.pace[r].answers
    BY <1>1 DEF Setups
  <1>3. n = [m EXCEPT !.pace = [m.pace EXCEPT ![r] = p]]
    BY <1>1 DEF Mines, Setups
  <1> HIDE DEF p, n
  <1>4. [m.pace EXCEPT ![r] = p] \in [Requests -> Setups]
    BY <1>1, <1>2
  <1>5. n \in Mines
    BY <1>3, <1>4 DEF Mines
  <1>6. n.gate = m.gate /\ n.held = m.held /\ n.sends = m.sends /\ n.open = m.open
        /\ n.pace = [m.pace EXCEPT ![r] = p]
    BY <1>3 DEF Mines
  <1> QED BY <1>1, <1>2, <1>5, <1>6 DEF n

\* A command of the actor: a setup, a wakeup of a wait that is over, or one that
\* retries the whole setup.
LEMMA RunPacedStep ==
  ASSUME PaceInv, RunPaced
  PROVE  PaceInv'
  <1>1. Mine \in Mines /\ clock \in Clocks /\ inbox \subseteq SetupCommands \cup Wakeups /\ now \in Nat \ {0}
    BY DEF PaceInv, StateOK
  <1>2. PICK c \in inbox :
          /\ inbox' = inbox \ {c}
          /\ MineIs(IF c.by = "setup" THEN runHistoricalSetup(Mine, c.r) ELSE Wake(Mine, c.r, c.wait))
          /\ UNCHANGED <<now, clock, open>>
    BY DEF RunPaced, OneCommand
  <1>3. CASE c \in SetupCommands
    <2>1. PICK r \in Requests : c = Command("setup", r, 0)
      BY <1>3 DEF SetupCommands
    <2>2. c.by = "setup" /\ c.r = r
      BY <2>1 DEF Command
    <2>3. MineIs(runHistoricalSetup(Mine, r))
      BY <1>2, <2>2
    <2>4. pace[r].stage = "queued"
      BY <2>1 DEF PaceInv, SetupOK
    <2>5. Command("setup", r, 0) \notin inbox'
      BY <1>2, <2>1
    <2> QED BY <1>1, <1>2, <2>2, <2>3, <2>4, <2>5, MineFields, RunStep
  <1>4. CASE c \in Wakeups
    <2>1. PICK by \in {"timer", "context"}, r \in Requests, wait \in Nat : c = Command(by, r, wait)
      BY <1>4 DEF Wakeups
    <2>2. c.by # "setup" /\ c.r = r /\ c.wait = wait
      BY <2>1 DEF Command
    <2>3. MineIs(Wake(Mine, r, wait))
      BY <1>2, <2>2
    <2>4. CASE Stale(Mine, r, wait)
      <3>1. Wake(Mine, r, wait) = Mine
        BY <2>4 DEF Wake
      <3>2. UNCHANGED <<pace, gate, held, sends, open>>
        BY <1>1, <1>2, <2>3, <3>1, MineFields DEF MineIs
      <3>3. Mine' = Mine
        BY <3>2, MineSame
      <3>4. StateOK'
        BY <1>1, <1>2, <3>3 DEF StateOK
      <3>5. ASSUME NEW q \in Requests PROVE SetupOK(pace[q], q, inbox')
        <4>1. SetupOK(pace[q], q, inbox)
          BY DEF PaceInv
        <4>2. pace[q].stage = "waiting" => \A b : Command(b, q, pace[q].wait) # c
          BY <1>1, <2>1, <2>4, MineFields DEF Stale, Command
        <4> QED BY <1>2, <4>1, <4>2 DEF SetupOK
      <3>6. GateOK(Mine, now)' /\ SendsOK(Mine)' /\ HeldOK(Mine)'
        BY <1>2, <3>3 DEF PaceInv, GateOK, SendsOK, HeldOK
      <3>7. ClockOK'
        BY <1>2 DEF PaceInv, ClockOK
      <3>8. \A q \in Requests : SetupOK(pace[q], q, inbox)'
        BY <3>2, <3>5
      <3> QED BY <3>4, <3>6, <3>7, <3>8 DEF PaceInv
    <2>5. CASE ~Stale(Mine, r, wait)
      <3> DEFINE m == [Mine EXCEPT !.pace[r].timer = 0]
      <3>1. MineIs(runHistoricalSetup(m, r))
        BY <2>3, <2>5 DEF Wake
      <3>2. pace[r].stage = "waiting"
        BY <1>1, <2>5, MineFields DEF Stale
      <3>3. /\ m \in Mines
            /\ m.gate = gate /\ m.held = held /\ m.sends = sends /\ m.open = open
            /\ m.pace[r].stage = pace[r].stage /\ m.pace[r].answers = pace[r].answers
            /\ \A q \in Requests \ {r} : m.pace[q] = pace[q]
        <4>1. /\ m \in Mines
              /\ m.gate = Mine.gate /\ m.held = Mine.held /\ m.sends = Mine.sends /\ m.open = Mine.open
              /\ m.pace[r].stage = Mine.pace[r].stage /\ m.pace[r].answers = Mine.pace[r].answers
              /\ \A q \in Requests \ {r} : m.pace[q] = Mine.pace[q]
          BY <1>1, TimerOffIs
        <4> HIDE DEF m
        <4> QED BY <1>1, <4>1, MineFields
      <3>4. Command("setup", r, 0) \notin inbox'
        BY <1>2, <3>2 DEF PaceInv, SetupOK
      <3> HIDE DEF m
      <3> QED BY <1>2, <2>2, <3>1, <3>2, <3>3, <3>4, RunStep
    <2> QED BY <2>4, <2>5
  <1> QED BY <1>1, <1>3, <1>4

\* Time passes: requests only get further away.
LEMMA TickStep ==
  ASSUME PaceInv, Tick
  PROVE  PaceInv'
  <1>1. Mine \in Mines /\ clock \in Clocks /\ inbox \subseteq SetupCommands \cup Wakeups /\ now \in Nat \ {0}
    BY DEF PaceInv, StateOK
  <1>2. now' = now + 1 /\ UNCHANGED <<pace, gate, clock, inbox, held, open, sends>>
    BY DEF Tick
  <1>3. Mine' = Mine
    BY <1>2, MineSame
  <1>4. StateOK'
    BY <1>1, <1>2, <1>3 DEF StateOK
  <1>5. GateOK(Mine, now')
    <2> SUFFICES ASSUME NEW i \in DOMAIN sends
                 PROVE  /\ sends[i].at <= now'
                        /\ sends[i].at + Spacing <= gate.next
                        /\ \/ sends[i].at <= gate.recent[sends[i].key]
                           \/ sends[i].at + IdenticalSpacing < now'
      BY DEF GateOK, Mine
    <2>1. sends[i] \in Sent
      BY <1>1, MineFields, ElementOfSeq
    <2>2. sends[i].at \in Nat
      BY <2>1 DEF Sent
    <2>3. /\ sends[i].at <= now
          /\ sends[i].at + Spacing <= gate.next
          /\ \/ sends[i].at <= gate.recent[sends[i].key]
             \/ sends[i].at + IdenticalSpacing < now
      BY DEF PaceInv, GateOK, Mine
    <2> QED BY <1>1, <1>2, <2>2, <2>3, Bounds
  <1>6. GateOK(Mine, now)' /\ SendsOK(Mine)' /\ HeldOK(Mine)'
    BY <1>3, <1>5 DEF PaceInv, GateOK, SendsOK, HeldOK
  <1> QED BY <1>2, <1>4, <1>6 DEF PaceInv, ClockOK

\* The session gets ready and flushes the held setups.
LEMMA ReadyStep ==
  ASSUME PaceInv, PaceReady
  PROVE  PaceInv'
  <1> DEFINE m == [Mine EXCEPT !.held = <<>>, !.open = TRUE]
             n == flushReadySetups(m, held)
  <1>1. Mine \in Mines /\ clock \in Clocks /\ inbox \subseteq SetupCommands \cup Wakeups /\ now \in Nat \ {0}
    BY DEF PaceInv, StateOK
  <1>2. MineIs(n) /\ open' = TRUE /\ UNCHANGED <<now, clock, inbox>>
    BY DEF PaceReady
  <1>3. m \in Mines /\ m.held = <<>> /\ m.open = TRUE /\ m.pace = pace /\ m.gate = gate /\ m.sends = sends
    <2>1. <<>> \in Seq(Requests)
      OBVIOUS
    <2>2. m \in Mines
      BY <1>1, <2>1 DEF Mines
    <2>3. m.held = <<>> /\ m.open = TRUE /\ m.pace = Mine.pace /\ m.gate = Mine.gate /\ m.sends = Mine.sends
      BY <1>1 DEF Mines
    <2> HIDE DEF m
    <2> QED BY <1>1, <2>2, <2>3, MineFields
  <1>4. held \in Seq(Requests) /\ Len(held) \in Nat /\ DOMAIN held = 1 .. Len(held)
    BY <1>1, MineFields
  <1>5. FlushOK(m, 0, held, {})
    <2>1. GateOK(m, now) /\ SendsOK(m)
      BY <1>1, <1>3, MineFields DEF PaceInv, GateOK, SendsOK
    <2>2. \A j \in 0 + 1 .. Len(held) : pace[held[j]].stage = "held"
      BY <1>4 DEF PaceInv, HeldOK, Mine
    <2>3. \A a, b \in 1 .. Len(held) : held[a] = held[b] => a = b
      BY <1>4 DEF PaceInv, HeldOK, Mine
    <2>4. \A q \in Requests : SetupOK(pace[q], q, inbox)
      BY DEF PaceInv
    <2> HIDE DEF m
    <2> QED BY <1>3, <2>1, <2>2, <2>3, <2>4 DEF FlushOK
  <1> HIDE DEF m, n
  <1>6. Flush!Preserved(held, {})
    BY <1>1, <1>4, FlushStep
  <1>7. FlushOK(Flush!Folded(m, held, {}), Len(held), held, {})
    BY <1>4, <1>5, <1>6, Flush!FoldLeftInvariant
  <1>8. FlushOK(n, Len(held), held, {})
    BY <1>7, FlushIsFold DEF n
  <1>9. n \in Mines /\ GateOK(n, now) /\ SendsOK(n) /\ n.open = TRUE /\ n.held = <<>>
        /\ \A q \in Requests : SetupOK(n.pace[q], q, inbox)
    BY <1>8 DEF FlushOK
  <1>10. Mine' = n /\ pace' = n.pace
    BY <1>2, <1>9, MineNext DEF MineIs
  <1>11. StateOK'
    BY <1>1, <1>2, <1>9, <1>10 DEF StateOK
  <1>12. HeldOK(n)
    BY <1>9 DEF HeldOK
  <1>13. GateOK(Mine, now)' /\ SendsOK(Mine)' /\ HeldOK(Mine)'
    BY <1>2, <1>9, <1>10, <1>12 DEF GateOK, SendsOK, HeldOK
  <1>14. \A q \in Requests : SetupOK(pace[q], q, inbox)'
    BY <1>2, <1>9, <1>10
  <1> QED BY <1>2, <1>11, <1>13, <1>14 DEF PaceInv, ClockOK

\* Everything but the clock calls stays as it is.
LEMMA ClockOnly ==
  ASSUME PaceInv, UNCHANGED <<now, pace, gate, inbox, held, sends>>, open' \in BOOLEAN,
         clock' \in Clocks, ClockOK'
  PROVE  PaceInv'
  <1>1. Mine \in Mines /\ inbox \subseteq SetupCommands \cup Wakeups /\ now \in Nat \ {0}
    BY DEF PaceInv, StateOK
  <1>2. Mine' \in Mines
    BY <1>1, MineFields DEF Mine, Mines
  <1>3. StateOK'
    BY <1>1, <1>2 DEF StateOK
  <1>4. GateOK(Mine, now)' /\ SendsOK(Mine)' /\ HeldOK(Mine)'
    BY DEF PaceInv, GateOK, SendsOK, HeldOK, Mine
  <1>5. \A q \in Requests : SetupOK(pace[q], q, inbox)'
    BY DEF PaceInv
  <1> QED BY <1>3, <1>4, <1>5 DEF PaceInv

\* The clock gate, and the loss of readiness.
LEMMA ClockSteps ==
  ASSUME PaceInv,
         Unready \/ \E q \in ClockCalls : ClockSetup(q) \/ ClockContextEnds(q) \/ ClockAnswered(q)
  PROVE  PaceInv'
  <1>1. clock \in Clocks /\ ClockOK /\ now \in Nat \ {0} /\ open \in BOOLEAN
    BY MineFields DEF PaceInv, StateOK
  <1>2. /\ clock.next \in Nat /\ clock.active \subseteq ClockCalls /\ clock.last \in Nat /\ clock.gap \in Nat
        /\ clock.kind \in [ClockCalls -> {"seconds", "millis"}] /\ clock.due \in [ClockCalls -> Nat]
        /\ clock.stage \in [ClockCalls -> {"none", "new", "timer", "sent", "refused", "canceled"}]
    BY <1>1 DEF Clocks
  <1>3. CASE Unready
    <2>1. clock' = [clock EXCEPT !.active = {}] /\ open' = FALSE /\ UNCHANGED <<now, pace, gate, inbox, held, sends>>
      BY <1>3 DEF Unready
    <2>2. clock' \in Clocks
      BY <1>1, <2>1 DEF Clocks
    <2>3. clock'.gap = clock.gap /\ clock'.last = clock.last /\ clock'.next = clock.next
      BY <1>1, <2>1 DEF Clocks
    <2>4. ClockOK'
      BY <1>1, <2>3 DEF ClockOK
    <2> QED BY <2>1, <2>2, <2>4, ClockOnly
  <1>4. ASSUME NEW q \in ClockCalls, ClockContextEnds(q) PROVE PaceInv'
    <2>1. clock' = [clock EXCEPT !.stage[q] = "canceled"] /\ UNCHANGED <<now, pace, gate, inbox, held, sends, open>>
      BY <1>4 DEF ClockContextEnds, ClockFrame
    <2>2. [clock.stage EXCEPT ![q] = "canceled"] \in [ClockCalls -> {"none", "new", "timer", "sent", "refused", "canceled"}]
      BY <1>2
    <2>3. clock' \in Clocks
      BY <1>1, <2>1, <2>2 DEF Clocks
    <2>4. clock'.gap = clock.gap /\ clock'.last = clock.last /\ clock'.next = clock.next
      BY <1>1, <2>1 DEF Clocks
    <2>5. ClockOK'
      BY <1>1, <2>4 DEF ClockOK
    <2> QED BY <1>1, <2>1, <2>3, <2>5, ClockOnly
  <1>5. ASSUME NEW q \in ClockCalls, ClockAnswered(q) PROVE PaceInv'
    <2>1. clock' = [clock EXCEPT !.active = clock.active \ {q}] /\ UNCHANGED <<now, pace, gate, inbox, held, sends, open>>
      BY <1>5 DEF ClockAnswered, ClockFrame
    <2>2. clock' \in Clocks
      BY <1>1, <1>2, <2>1 DEF Clocks
    <2>3. clock'.gap = clock.gap /\ clock'.last = clock.last /\ clock'.next = clock.next
      BY <1>1, <2>1 DEF Clocks
    <2>4. ClockOK'
      BY <1>1, <2>3 DEF ClockOK
    <2> QED BY <1>1, <2>1, <2>2, <2>4, ClockOnly
  <1>6. ASSUME NEW q \in ClockCalls, ClockSetup(q) PROVE PaceInv'
    <2> DEFINE gap == IF clock.gap <= now - clock.last \/ clock.last = 0 THEN clock.gap ELSE now - clock.last
    <2>0. UNCHANGED <<now, pace, gate, inbox, held, sends, open>>
      BY <1>6 DEF ClockSetup, ClockFrame
    <2>1. CASE ClockActive(q)
      <3>1. clock' = [clock EXCEPT !.stage[q] = "refused"]
        BY <1>6, <2>1 DEF ClockSetup
      <3>2. [clock.stage EXCEPT ![q] = "refused"] \in [ClockCalls -> {"none", "new", "timer", "sent", "refused", "canceled"}]
        BY <1>2
      <3>3. clock' \in Clocks
        BY <1>1, <3>1, <3>2 DEF Clocks
      <3>4. clock'.gap = clock.gap /\ clock'.last = clock.last /\ clock'.next = clock.next
        BY <1>1, <3>1 DEF Clocks
      <3>5. ClockOK'
        BY <1>1, <3>4 DEF ClockOK
      <3> QED BY <1>1, <2>0, <3>3, <3>5, ClockOnly
    <2>2. CASE ~ClockActive(q) /\ clock.next > now
      <3>1. clock' = [clock EXCEPT !.stage[q] = "timer", !.due[q] = clock.next]
        BY <1>6, <2>2 DEF ClockSetup
      <3>2. [clock.stage EXCEPT ![q] = "timer"] \in [ClockCalls -> {"none", "new", "timer", "sent", "refused", "canceled"}]
            /\ [clock.due EXCEPT ![q] = clock.next] \in [ClockCalls -> Nat]
        BY <1>2
      <3>3. clock' \in Clocks
        BY <1>1, <3>1, <3>2 DEF Clocks
      <3>4. clock'.gap = clock.gap /\ clock'.last = clock.last /\ clock'.next = clock.next
        BY <1>1, <3>1 DEF Clocks
      <3>5. ClockOK'
        BY <1>1, <3>4 DEF ClockOK
      <3> QED BY <1>1, <2>0, <3>3, <3>5, ClockOnly
    <2>3. CASE ~ClockActive(q) /\ ~(clock.next > now)
      <3>1. clock' = [clock EXCEPT !.stage[q] = "sent", !.active = clock.active \cup {q},
                                   !.next = now + ClockSpacing, !.gap = gap, !.last = now]
        BY <1>6, <2>3 DEF ClockSetup, NextClock
      <3>2. [clock.stage EXCEPT ![q] = "sent"] \in [ClockCalls -> {"none", "new", "timer", "sent", "refused", "canceled"}]
            /\ clock.active \cup {q} \subseteq ClockCalls
        BY <1>2
      <3>3. now + ClockSpacing \in Nat /\ gap >= ClockSpacing /\ gap \in Nat
        BY <1>1, <1>2, <2>3, Bounds DEF ClockOK
      <3> HIDE DEF gap
      <3>4. clock' \in Clocks
        BY <1>1, <3>1, <3>2, <3>3 DEF Clocks
      <3>5. clock'.gap = gap /\ clock'.last = now /\ clock'.next = now + ClockSpacing
        BY <1>1, <3>1 DEF Clocks
      <3>6. ClockOK'
        BY <1>1, <3>3, <3>5, Bounds DEF ClockOK
      <3> QED BY <1>1, <2>0, <3>4, <3>6, ClockOnly
    <2> QED BY <2>1, <2>2, <2>3
  <1> QED BY <1>3, <1>4, <1>5, <1>6

\* Every step keeps the invariant.
LEMMA PaceNextInv == PaceInv /\ [PaceNext]_paceVars => PaceInv'
  <1> SUFFICES ASSUME PaceInv, [PaceNext]_paceVars PROVE PaceInv'
    OBVIOUS
  <1>1. CASE UNCHANGED paceVars
    <2>1. clock \in Clocks /\ ClockOK /\ open \in BOOLEAN
      BY MineFields DEF PaceInv, StateOK
    <2>2. UNCHANGED <<now, pace, gate, inbox, held, sends, clock, open>>
      BY <1>1 DEF paceVars
    <2>3. clock' \in Clocks /\ open' \in BOOLEAN /\ ClockOK'
      BY <2>1, <2>2 DEF ClockOK
    <2> QED BY <2>2, <2>3, ClockOnly
  <1>2. ASSUME NEW r \in Requests, PaceContextEnds(r) PROVE PaceInv'
    BY <1>2, ContextStep, HeldContextStep
  <1> QED BY <1>1, <1>2, AskStep, TimerStep, RunPacedStep, TickStep, ReadyStep, ClockSteps DEF PaceNext

\* The gates, the parked requests and the queues agree in every reachable state.
THEOREM PaceInvHolds == PaceSpec => []PaceInv
  BY PaceInitInv, PaceNextInv, PTL DEF PaceSpec

\* runHistoricalSetup never sends two requests closer than historicalRequestSpacing,
\* nor two identical ones closer than historicalIdenticalSpacing, and clock requests
\* keep clockRequestSpacing: over wakeups, retries, flushes and reconnects.
THEOREM PaceHonouredHolds == PaceSpec => []PaceHonoured
  <1>1. PaceInv => PaceHonoured
    BY DEF PaceInv, PaceHonoured, RequestsSpaced, ClockSpaced, SendsOK, ClockOK, Mine
  <1> QED BY <1>1, PaceInvHolds, PTL

\* A historical setup is answered at most once although timer, context and flush
\* compete for it, and a parked one has a timer armed or a wakeup queued.
THEOREM SetupsSettleHolds == PaceSpec => []SetupsSettle
  <1>1. PaceInv => SettledOnce
    <2> SUFFICES ASSUME PaceInv, NEW r \in Requests PROVE pace[r].answers <= 1
      BY DEF SettledOnce
    <2>1. SetupOK(pace[r], r, inbox)
      BY DEF PaceInv
    <2>2. pace[r].answers = 0 \/ pace[r].answers = 1
      BY <2>1 DEF SetupOK
    <2> QED BY <2>2
  <1>2. PaceInv => WakeupAhead
    BY DEF PaceInv, SetupOK, WakeupAhead
  <1> QED BY <1>1, <1>2, PaceInvHolds, PTL DEF SetupsSettle
================================================================================
