------------------------------- MODULE IdSpace -------------------------------
(***************************************************************************)
(* The shared wire identifier space of the session engine (engine.go,      *)
(* allocReqID .. observeNextValidID).  Request IDs and order IDs travel in *)
(* the same signed 32-bit field and inbound errors carry only that number, *)
(* so the engine keeps three water marks that must hold the two families   *)
(* apart for the whole life of the client, across reconnects, server       *)
(* seeds, orders of other sessions and the wrap of the request counter.    *)
(*                                                                         *)
(* The actor runs each operation below in one turn.                        *)
(***************************************************************************)
EXTENDS Integers, FiniteSets

CONSTANTS
    MaxWireOrderID,   \* math.MaxInt32 in the code (order_validation.go)
    ObservableIDs     \* order IDs a callback may carry, non-positive included

ASSUME MaxAssumption == MaxWireOrderID \in Nat \ {0}

ASSUME ObservableAssumption == ObservableIDs \subseteq Int

WireIDs == 1 .. MaxWireOrderID

VARIABLES
    nextReqID,            \* e.nextReqID: where the request scan starts
    requestIDHighWater,   \* e.requestIDHighWater
    orderIDLowWater,      \* e.orderIDLowWater, 0 while no order was seen
    nextValidID,          \* e.snapshot.NextValidID, 0 before the first seed
    keyed,                \* IDs with a route in e.keyed
    orders,               \* IDs with a route in e.orders
    previews,             \* IDs with a route in e.previews
    exercises,            \* IDs whose keyed and order routes share a cleanup
    seeded,               \* bootstrap.nextValidID: gates every allocation
    seenOrderIDs,         \* history: every order ID issued or observed
    seenRequestIDs        \* history: every request ID issued

marks == <<nextReqID, requestIDHighWater, orderIDLowWater, nextValidID>>
routes == <<keyed, orders, previews, exercises>>
history == <<seenOrderIDs, seenRequestIDs>>
vars == <<marks, routes, seeded, history>>

Active == keyed \cup orders \cup previews

Init ==
    /\ nextReqID = 1
    /\ requestIDHighWater = 0
    /\ orderIDLowWater = 0
    /\ nextValidID = 0
    /\ keyed = {} /\ orders = {} /\ previews = {} /\ exercises = {}
    /\ seeded = FALSE
    /\ seenOrderIDs = {} /\ seenRequestIDs = {}

------------------------------------------------------------------------------
(* The water marks.                                                        *)

LowerOf(a, b) == IF a < b THEN a ELSE b
HigherOf(a, b) == IF a > b THEN a ELSE b

\* Mutant: the mark tracks the latest order only.
LowWaterLatest(id) == id

\* orderIDLowWater after an order ID has been observed.
LowWaterAfter(id) ==
    IF orderIDLowWater = 0 THEN id ELSE LowerOf(orderIDLowWater, id)

observeOrderID(id) ==
    IF id <= 0
    THEN UNCHANGED <<orderIDLowWater, nextValidID, seenOrderIDs>>
    ELSE /\ orderIDLowWater' = LowWaterAfter(id)
         /\ nextValidID' = HigherOf(nextValidID, id + 1)
         /\ seenOrderIDs' = seenOrderIDs \cup {id}

observeRequestID(id) ==
    /\ requestIDHighWater' = HigherOf(requestIDHighWater, id)
    /\ seenRequestIDs' = seenRequestIDs \cup {id}

\* Mutant: a lower seed moves the mark back.
observeNextValidIDReplaces(id) ==
    /\ nextValidID' = id
    /\ seeded' = TRUE
    /\ UNCHANGED <<nextReqID, requestIDHighWater, orderIDLowWater, routes, history>>

\* handleIncoming, NextValidID: an out-of-range seed retires the transport
\* before this point; a lower seed never moves the mark back.
observeNextValidID(id) ==
    /\ nextValidID' = HigherOf(nextValidID, id)
    /\ seeded' = TRUE
    /\ UNCHANGED <<nextReqID, requestIDHighWater, orderIDLowWater, routes, history>>

------------------------------------------------------------------------------
(* Request IDs: the first ID, scanning cyclically from nextReqID, that is   *)
(* outside the order range and has no live route.  IdLoop.tla relates this  *)
(* definition to the loop in the source.                                   *)

OrderRange ==
    IF orderIDLowWater > 0 THEN orderIDLowWater .. (nextValidID - 1) ELSE {}

RequestCandidates == WireIDs \ (OrderRange \cup Active)

ScanDistance(id) == (id - nextReqID) % MaxWireOrderID

FirstRequestCandidate(id) ==
    /\ id \in RequestCandidates
    /\ \A other \in RequestCandidates : ScanDistance(id) <= ScanDistance(other)

SuccessorOf(id) == IF id + 1 > MaxWireOrderID THEN 1 ELSE id + 1

\* allocReqID followed by the operation's own use of the ID.
allocReqID(id) ==
    /\ seeded
    /\ FirstRequestCandidate(id)
    /\ nextReqID' = SuccessorOf(id)
    /\ observeRequestID(id)

------------------------------------------------------------------------------
(* Order IDs: ascending from max(nextValidID, high water + 1), skipping     *)
(* live IDs.                                                               *)

OrderScanStart == HigherOf(nextValidID, requestIDHighWater + 1)

\* Mutant: live IDs are not skipped and requests are not considered.
OrderCandidatesAll == HigherOf(nextValidID, 1) .. MaxWireOrderID

OrderCandidates == (OrderScanStart .. MaxWireOrderID) \ Active

IsLeast(id, S) == id \in S /\ \A other \in S : id <= other

\* The marks after the scan consumed ids, the last of them being last.
consumeOrderIDs(ids, first, last) ==
    /\ seeded
    /\ orderIDLowWater' = LowWaterAfter(first)
    /\ nextValidID' = last + 1
    /\ seenOrderIDs' = seenOrderIDs \cup ids
    /\ UNCHANGED <<nextReqID, requestIDHighWater, seeded, seenRequestIDs>>

------------------------------------------------------------------------------
(* Operations.  "admitted" is whether the frame entered the send queue: an  *)
(* operation whose send is refused removes its routes, the ID stays used.   *)

Install(set, ids, admitted) == IF admitted THEN set \cup ids ELSE set

\* Every keyed one-shot and subscription setup.
StartRequest(id, admitted) ==
    /\ allocReqID(id)
    /\ keyed' = Install(keyed, {id}, admitted)
    /\ UNCHANGED <<orders, previews, exercises, seeded,
                   orderIDLowWater, nextValidID, seenOrderIDs>>

\* ExerciseOptions: a request ID that is an order ID as well.
ExerciseOptions(id, admitted) ==
    /\ allocReqID(id)
    /\ observeOrderID(id)
    /\ keyed' = Install(keyed, {id}, admitted)
    /\ orders' = Install(orders, {id}, admitted)
    /\ exercises' = Install(exercises, {id}, admitted)
    /\ UNCHANGED <<previews, seeded>>

PlaceOrder(id, admitted) ==
    /\ IsLeast(id, OrderCandidates)
    /\ consumeOrderIDs({id}, id, id)
    /\ orders' = Install(orders, {id}, admitted)
    /\ UNCHANGED <<keyed, previews, exercises>>

PreviewOrder(id, admitted) ==
    /\ IsLeast(id, OrderCandidates)
    /\ consumeOrderIDs({id}, id, id)
    /\ previews' = Install(previews, {id}, admitted)
    /\ UNCHANGED <<keyed, orders, exercises>>

\* PlaceBracket: three allocations in one turn; a refused frame rolls all
\* three routes back.
PlaceBracket(parent, takeProfit, stopLoss, admitted) ==
    /\ IsLeast(parent, OrderCandidates)
    /\ IsLeast(takeProfit, OrderCandidates \ {parent})
    /\ IsLeast(stopLoss, OrderCandidates \ {parent, takeProfit})
    /\ consumeOrderIDs({parent, takeProfit, stopLoss}, parent, stopLoss)
    /\ orders' = Install(orders, {parent, takeProfit, stopLoss}, admitted)
    /\ UNCHANGED <<keyed, previews, exercises>>

\* PlaceBracket near the top of the space: the allocations that succeed are
\* consumed, then the operation fails.
PlaceBracketExhausted ==
    /\ Cardinality(OrderCandidates) \in {1, 2}
    /\ \E first \in OrderCandidates :
          /\ IsLeast(first, OrderCandidates)
          /\ consumeOrderIDs(OrderCandidates, first, MaxWireOrderID)
    /\ UNCHANGED routes

\* open_order and order_status callbacks, also of other sessions' orders.
ObserveOrder(id) ==
    /\ observeOrderID(id)
    /\ UNCHANGED <<nextReqID, requestIDHighWater, seenRequestIDs, seeded, routes>>

EndRequest(id) ==
    /\ id \in keyed \ exercises
    /\ keyed' = keyed \ {id}
    /\ UNCHANGED <<marks, orders, previews, exercises, seeded, history>>

\* closeOrderRoute; an exercise closes both of its routes.
EndOrder(id) ==
    /\ id \in orders
    /\ orders' = orders \ {id}
    /\ keyed' = IF id \in exercises THEN keyed \ {id} ELSE keyed
    /\ exercises' = exercises \ {id}
    /\ UNCHANGED <<marks, previews, seeded, history>>

EndPreview(id) ==
    /\ id \in previews
    /\ previews' = previews \ {id}
    /\ UNCHANGED <<marks, keyed, orders, exercises, seeded, history>>

Next ==
    \/ \E id \in WireIDs : observeNextValidID(id)
    \/ \E id \in ObservableIDs : ObserveOrder(id)
    \/ \E id \in WireIDs, admitted \in BOOLEAN :
          \/ StartRequest(id, admitted)
          \/ ExerciseOptions(id, admitted)
          \/ PlaceOrder(id, admitted)
          \/ PreviewOrder(id, admitted)
    \/ \E p, t, s \in WireIDs, admitted \in BOOLEAN : PlaceBracket(p, t, s, admitted)
    \/ PlaceBracketExhausted
    \/ \E id \in WireIDs : EndRequest(id) \/ EndOrder(id) \/ EndPreview(id)

Spec == Init /\ [][Next]_vars

------------------------------------------------------------------------------
(* Properties.                                                             *)

\* Every mark and every live ID stays inside the wire range; the marks may
\* pass its end, which is how exhaustion is represented.
TypeOK ==
    /\ nextReqID \in WireIDs
    /\ requestIDHighWater \in 0 .. MaxWireOrderID
    /\ orderIDLowWater \in Nat
    /\ nextValidID \in Nat
    /\ keyed \subseteq WireIDs
    /\ orders \subseteq WireIDs
    /\ previews \subseteq WireIDs
    /\ exercises \subseteq WireIDs
    /\ seeded \in BOOLEAN
    /\ seenOrderIDs \subseteq Nat \ {0}
    /\ seenRequestIDs \subseteq WireIDs

\* Inbound errors and acknowledgements carry one number: no two live routes
\* may answer to it, except the two routes of one option exercise.
NoLiveCollision ==
    /\ previews \cap (orders \cup keyed) = {}
    /\ keyed \cap orders = exercises

NewOrderIDs == (orders' \ orders) \cup (previews' \ previews)

NeverReused == NewOrderIDs \cap seenOrderIDs = {}
NeverARequest == (NewOrderIDs \ keyed') \cap seenRequestIDs = {}
InOneRun == \A a, b \in orders' \ orders : a - b \in {-2, -1, 0, 1, 2}

\* A new order, bracket leg, preview or exercise never takes an order ID this
\* client ever issued or saw: reusing one would replace or address that order.
OrderIDNeverReused == [][NeverReused]_vars

\* A new order or preview never takes an ID a request was ever sent under, so
\* a late answer to the request cannot be read as the order's.
OrderIDNeverARequest == [][NeverARequest]_vars

\* A new request never takes an order ID issued or seen before, also after
\* the request counter wrapped: its errors would be read as the order's.
RequestIDNeverAnOrder == [][(keyed' \ keyed) \cap seenOrderIDs = {}]_vars

\* PlaceBracket's comment promises three consecutive IDs although the scan
\* skips live ones.
BracketIDsConsecutive == [][InOneRun]_vars

\* An order ID is new: to the orders, to the requests, and in one run for a bracket.
OrderIDsFresh == [][NeverReused /\ NeverARequest /\ InOneRun]_vars
==============================================================================
