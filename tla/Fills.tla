-------------------------------- MODULE Fills --------------------------------
(***************************************************************************)
(* Correlation of executions with their commission reports.  A report names *)
(* only an execution ID, may come before the execution, may be replayed, and *)
(* may belong to an order of another client.  The engine keeps one table    *)
(* for the order handles (engine_route.go) and one for each Executions      *)
(* query (engine_orders.go), both bounded, and a passive observer that owns *)
(* nothing (engine_execution_events.go).                                    *)
(*                                                                         *)
(* One turn of the actor is one action: an inbound message is dispatched to *)
(* the observer, the query and the order handles in it.  The content of a   *)
(* report is its version; the version Malformed does not project.           *)
(***************************************************************************)
EXTENDS Integers, Sequences, FiniteSets, SequencesExt, FiniteSetsExt

CONSTANTS
    Execs,       \* execution IDs
    Orders,      \* order numbers of this client
    Versions,    \* contents of commission reports
    Malformed,   \* the content that does not decode
    Limits,      \* the correlation limits tried
    Loads,       \* the sets of consumers tried: "orders", "query", "observer"
    MaxMessages, \* inbound messages
    MaxLinks     \* losses and codes seen by the observer

ASSUME FillsAssumption ==
    /\ IsFiniteSet(Execs) /\ Orders \subseteq Nat \ {0}
    /\ "none" \notin Execs \* an empty execution ID is never excluded
    /\ Limits \subseteq Nat \ {0}
    /\ Loads \subseteq SUBSET {"orders", "query", "observer"}
    /\ 0 \notin Versions /\ Malformed \in Versions
    /\ {MaxMessages, MaxLinks} \subseteq Nat

VARIABLES
    load,     \* the consumers of this behaviour
    limit,    \* orderExecutionCorrelationLimit and executionCorrelationLimit
    owner,    \* execution -> the order of this client it belongs to, or 0 (external)
    handles,  \* order -> "none", "open", or why observation ended
    table,    \* execDeliveries: known executions -> owner, pending, delivered
    fees,     \* pendingOrderFees
    ring,     \* excludedOrderExecutions with its FIFO
    query,    \* one Executions query with its executionCorrelation
    watch,    \* the execution event observer
    told,     \* execution -> what its order handle was given
    sent,     \* execution -> reports received for its open order, while not excluded
    messages, links

orderSide == <<handles, table, fees, ring, told>>
vars == <<load, limit, owner, orderSide, query, watch, sent, messages, links>>

None == "none"
Open == {o \in Orders : handles[o] = "open"}

Entry(o, pending, delivered) == [owner |-> o, pending |-> pending, delivered |-> delivered]
Drop(f, xs) == [x \in DOMAIN f \ xs |-> f[x]]
Put(f, x, v) == [y \in DOMAIN f \cup {x} |-> IF y = x THEN v ELSE f[y]]

EmptyRing == [slot |-> <<>>, at |-> <<>>, next |-> 1]
ClosedQuery == [open |-> FALSE, collect |-> FALSE, complete |-> FALSE, seen |-> {}, entries |-> <<>>,
                pending |-> 0, executions |-> 0, reports |-> 0,
                heard |-> [x \in Execs |-> <<>>], given |-> [x \in Execs |-> <<>>]]

Init ==
    /\ load \in Loads /\ limit \in Limits
    /\ owner \in [Execs -> Orders \cup {0}]
    /\ handles = [o \in Orders |-> None]
    /\ table = <<>> /\ fees = 0 /\ ring = EmptyRing
    /\ query = ClosedQuery
    /\ watch = [open |-> FALSE, gapped |-> FALSE, run |-> 0]
    /\ told = [x \in Execs |-> [executions |-> 0, reports |-> <<>>]]
    /\ sent = [x \in Execs |-> <<>>]
    /\ messages = 0 /\ links = 0

------------------------------------------------------------------------------
(* The table of the order handles, as one value: what closing, excluding,   *)
(* claiming and delivering do to it.                                        *)

AtLimit(n) == n >= limit

Side == [handles |-> handles, table |-> table, fees |-> fees, ring |-> ring, told |-> told]

SideIs(s) ==
    /\ handles' = s.handles /\ table' = s.table /\ fees' = s.fees
    /\ ring' = s.ring /\ told' = s.told

OpenIn(s) == {o \in Orders : s.handles[o] = "open"}

claimExcludedOrderExecution(s, x) ==
    IF x \notin DOMAIN s.ring.slot THEN s
    ELSE [s EXCEPT !.ring.slot = Drop(@, {x}), !.ring.at[s.ring.slot[x]] = None]

\* The slot x takes: the next free one, or that of the oldest exclusion.
Exclude(r, x) ==
    IF Len(r.at) < limit
    THEN [slot |-> Put(r.slot, x, Len(r.at) + 1), at |-> Append(r.at, x), next |-> r.next]
    ELSE [slot |-> Put(Drop(r.slot, {r.at[r.next]}), x, r.next),
          at |-> [r.at EXCEPT ![r.next] = x],
          next |-> (r.next % limit) + 1]

\* Mutant: the pending reports of an excluded execution stay counted.
excludeOrderExecutionKeepsCount(s, x) ==
    IF OpenIn(s) = {} \/ (x \in DOMAIN s.table /\ s.table[x].owner \in OpenIn(s)) THEN s
    ELSE [s EXCEPT !.table = Drop(@, {x}),
                   !.ring = IF x \in DOMAIN @.slot THEN @ ELSE Exclude(@, x)]

excludeOrderExecution(s, x) ==
    IF OpenIn(s) = {} \/ (x \in DOMAIN s.table /\ s.table[x].owner \in OpenIn(s)) THEN s
    ELSE LET known == x \in DOMAIN s.table
         IN  [s EXCEPT !.table = Drop(@, {x}),
                       !.fees = IF known THEN @ - Len(s.table[x].pending) ELSE @,
                       !.ring = IF x \in DOMAIN @.slot THEN @ ELSE Exclude(@, x)]

clearOrderCorrelations(s) == [s EXCEPT !.table = <<>>, !.fees = 0, !.ring = EmptyRing]

\* closeOrderRoute and forgetOrderExecutions: Go ranges over the map in any
\* order, so the exclusions may enter the ring in any order.
forgetOrderExecutions(s, o) ==
    LET mine == {x \in DOMAIN s.table : s.table[x].owner = o}
    IN  IF OpenIn(s) = {} THEN {clearOrderCorrelations(s)}
        ELSE {FoldLeft(excludeOrderExecution, s, xs) : xs \in SetToSeqs(mine)}

closeOrderRoute(s, o, why) == forgetOrderExecutions([s EXCEPT !.handles[o] = why], o)

\* closeOrdersForCorrelationOverflow: the last one clears the tables.
closeOrdersForCorrelationOverflow(s) ==
    clearOrderCorrelations(
        [s EXCEPT !.handles = [o \in Orders |-> IF @[o] = "open" THEN "overflow" ELSE @[o]]])

\* deliverCommissionToOrder for a handle with room: an identical replay is
\* dropped, changed content replaces it.
Deliver(s, x, v) ==
    IF s.table[x].delivered = v THEN s
    ELSE [s EXCEPT !.table[x].delivered = v, !.told[x].reports = Append(@, v)]

\* The outcomes of delivering reports to the handle that owns x: the first that
\* does not project, or finds no room, ends the observation.
deliverCommissions(s, x, reports) ==
    LET o == s.table[x].owner
        upto(k) == FoldLeft(LAMBDA t, v : Deliver(t, x, v), s, SubSeq(reports, 1, k))
        bad == {k \in 1 .. Len(reports) : reports[k] = Malformed}
        slow == {k \in 1 .. Len(reports) : upto(k) # upto(k - 1)}
        first == IF bad = {} THEN Len(reports) + 1 ELSE CHOOSE k \in bad : \A j \in bad : k <= j
    IN  (IF bad = {} THEN {upto(Len(reports))} ELSE closeOrderRoute(upto(first - 1), o, "malformed"))
        \cup UNION {closeOrderRoute(upto(k - 1), o, "slow") : k \in {k \in slow : k < first}}

\* routeCommissionReport.
routeCommissionReport(s, x, v) ==
    LET known == x \in DOMAIN s.table
        t == IF known THEN s ELSE [s EXCEPT !.table = Put(@, x, Entry(0, <<>>, 0))]
        p == t.table[x].pending
    IN  CASE OpenIn(s) = {} -> {s}
          [] OpenIn(s) # {} /\ ~known /\ x \in DOMAIN s.ring.slot -> {s}
          [] OpenIn(s) # {} /\ ~known /\ x \notin DOMAIN s.ring.slot
               /\ AtLimit(Cardinality(DOMAIN s.table)) -> {closeOrdersForCorrelationOverflow(s)}
          [] OpenIn(s) # {} /\ known /\ s.table[x].owner # 0 -> deliverCommissions(s, x, <<v>>)
          [] OTHER ->
               IF p # <<>> /\ Last(p) = v THEN {t}
               ELSE IF AtLimit(t.fees) THEN {closeOrdersForCorrelationOverflow(t)}
               ELSE {[t EXCEPT !.table[x].pending = Append(@, v), !.fees = @ + 1]}

\* Mutant: the buffered reports are dropped when the execution arrives.
ClaimDropsPending(s, x, o) ==
    LET p == IF x \in DOMAIN s.table THEN s.table[x].pending ELSE <<>>
    IN  {[s EXCEPT !.table = Put(@, x, Entry(o, <<>>, 0)), !.fees = @ - Len(p),
                   !.told[x].executions = @ + 1]}

\* The execution is delivered, claimed, and the reports that raced ahead follow.
ClaimExecution(s, x, o) ==
    LET p == IF x \in DOMAIN s.table THEN s.table[x].pending ELSE <<>>
    IN  deliverCommissions([s EXCEPT !.table = Put(@, x, Entry(o, <<>>, 0)), !.fees = @ - Len(p),
                                     !.told[x].executions = @ + 1], x, p)

\* Mutant: a replayed execution is delivered again.
AlreadyClaimedNever(s, x) == FALSE

AlreadyClaimed(s, x) == x \in DOMAIN s.table /\ s.table[x].owner # 0

\* dispatchExecutionToOrder.  identity: "mine" claims, "other" is explicitly
\* another client's, "omitted" proves nothing.
dispatchExecutionToOrder(s, x, o, identity, decodes) ==
    LET t == claimExcludedOrderExecution(s, x)
    IN  CASE o \notin OpenIn(s) -> {excludeOrderExecution(s, x)}
          [] o \in OpenIn(s) /\ identity = "other" -> {excludeOrderExecution(s, x)}
          [] o \in OpenIn(s) /\ identity = "omitted" -> {s}
          [] OTHER ->
               IF ~decodes THEN closeOrderRoute(t, o, "malformed")
               ELSE IF AlreadyClaimed(t, x) THEN {t}
               ELSE IF x \notin DOMAIN t.table /\ AtLimit(Cardinality(DOMAIN t.table))
               THEN closeOrderRoute(t, o, "overflow")
               ELSE ClaimExecution(t, x, o) \cup closeOrderRoute(t, o, "slow")

------------------------------------------------------------------------------
(* One Executions query (executionCorrelation).                             *)

\* terminate: cancelFromActor deletes the route, whose cleanup is clear.
Terminated == [ClosedQuery EXCEPT !.open = FALSE]

\* emitFee for several reports, in order.  The collector of a snapshot counts
\* what it was given.
Collect(q, x, v) ==
    IF q.given[x] # <<>> /\ Last(q.given[x]) = v THEN q
    ELSE [q EXCEPT !.given[x] = Append(@, v), !.reports = @ + 1]

EmitFees(q, x, reports) ==
    LET r == FoldLeft(LAMBDA t, v : Collect(t, x, v), q, reports)
    IN  IF (\E k \in DOMAIN reports : reports[k] = Malformed) \/ (q.collect /\ r.reports > limit)
        THEN {Terminated} ELSE {r, Terminated}

QueryKnows(q, x) == x \in DOMAIN q.entries

\* ownedRoute.handleCommission: a report of an execution that is not in the
\* finished snapshot is somebody else's.
QueryReport(q, x, v) ==
    LET p == IF QueryKnows(q, x) THEN q.entries[x] ELSE <<>>
        r == [q EXCEPT !.heard[x] = Append(@, v)]
    IN  CASE ~q.open -> {q}
          [] q.open /\ ~QueryKnows(q, x) /\ q.complete -> {q}
          [] q.open /\ ~QueryKnows(q, x) /\ ~q.complete /\ AtLimit(Cardinality(DOMAIN q.entries)) ->
               {Terminated}
          [] q.open /\ QueryKnows(q, x) /\ x \in q.seen -> EmitFees(r, x, <<v>>)
          [] OTHER ->
               IF p # <<>> /\ Last(p) = v THEN {r}
               ELSE IF AtLimit(q.pending) THEN {Terminated}
               ELSE {[r EXCEPT !.entries = Put(@, x, Append(p, v)), !.pending = @ + 1]}

takePending(q, x) ==
    LET p == IF QueryKnows(q, x) THEN q.entries[x] ELSE <<>>
    IN  [q |-> [q EXCEPT !.entries = Put(@, x, <<>>), !.pending = @ - Len(p)], reports |-> p]

\* ownedRoute.handle for an execution of the query.
QueryExecution(q, x, decodes) ==
    LET full == ~QueryKnows(q, x) /\ AtLimit(Cardinality(DOMAIN q.entries))
        took == takePending([q EXCEPT !.seen = @ \cup {x}, !.executions = @ + 1], x)
    IN  IF full \/ ~decodes \/ (q.collect /\ AtLimit(q.executions)) THEN {Terminated}
        ELSE EmitFees(took.q, x, took.reports)

completeSnapshot(q) ==
    LET rest == DOMAIN q.entries \ q.seen
    IN  [q EXCEPT !.complete = TRUE, !.entries = Drop(@, rest),
                  !.pending = @ - MapThenSumSet(LAMBDA x : Len(q.entries[x]), rest)]

------------------------------------------------------------------------------
(* The observer.                                                           *)

\* A row that does not decode, or no room, ends the observation.
Watched(decodes) ==
    IF ~watch.open THEN {watch}
    ELSE {[watch EXCEPT !.open = FALSE, !.gapped = FALSE, !.run = 0]}
         \cup (IF decodes THEN {watch} ELSE {})

\* run counts gaps minus restorations.
gapExecutionEvents(w) ==
    IF w.open /\ ~w.gapped THEN [w EXCEPT !.gapped = TRUE, !.run = @ + 1] ELSE w

restoreExecutionEvents(w) ==
    IF w.open /\ w.gapped THEN [w EXCEPT !.gapped = FALSE, !.run = @ - 1] ELSE w

------------------------------------------------------------------------------
(* Turns of the actor.                                                     *)

PlaceOrder(o) ==
    /\ "orders" \in load /\ handles[o] = None
    /\ handles' = [handles EXCEPT ![o] = "open"]
    /\ UNCHANGED <<load, limit, owner, table, fees, ring, told, query, watch, sent, messages, links>>

\* Detached by the caller, rejected, or ended with the engine.
CloseHandle(o) ==
    /\ o \in Open
    /\ \E s \in closeOrderRoute(Side, o, "closed") : SideIs(s)
    /\ UNCHANGED <<load, limit, owner, query, watch, sent, messages, links>>

Subscribe ==
    /\ "query" \in load /\ ~query.open
    /\ \E collect \in BOOLEAN : query' = [ClosedQuery EXCEPT !.open = TRUE, !.collect = collect]
    /\ UNCHANGED <<load, limit, owner, orderSide, watch, sent, messages, links>>

Unsubscribe ==
    /\ query.open
    /\ query' = Terminated
    /\ UNCHANGED <<load, limit, owner, orderSide, watch, sent, messages, links>>

SubscribeExecutionEvents ==
    /\ "observer" \in load /\ ~watch.open
    /\ watch' = [open |-> TRUE, gapped |-> FALSE, run |-> 0]
    /\ UNCHANGED <<load, limit, owner, orderSide, query, sent, messages, links>>

Inbound == messages < MaxMessages /\ messages' = messages + 1

\* An execution reaches the gateway's clients once its order was placed.
Exists(x) == owner[x] # 0 /\ "orders" \in load => handles[owner[x]] # None

\* ExecutionDetail: the observer, then the query if it asked, then the order.
\* The number in the message is the order's, or for another client's execution
\* any number.  A message may contradict an earlier or a later one; from the
\* first contradiction on, the reports are not known to be this order's.
ExecutionDetail(x, o, identity, asked, decodes) ==
    /\ Inbound /\ Exists(x)
    /\ IF owner[x] = 0 THEN identity # "mine" ELSE o = owner[x]
    /\ asked => query.open /\ ~query.complete
    /\ watch' \in Watched(decodes)
    /\ query' \in (IF asked THEN QueryExecution(query, x, decodes) ELSE {query})
    /\ \E s \in dispatchExecutionToOrder(Side, x, o, identity, decodes) : SideIs(s)
    /\ sent' = IF x \in DOMAIN ring'.slot THEN [sent EXCEPT ![x] = <<>>] ELSE sent
    /\ UNCHANGED <<load, limit, owner, links>>

\* CommissionReport: the observer, every query, the order handles.
CommissionReport(x, v) ==
    /\ Inbound /\ Exists(x)
    /\ watch' \in Watched(v # Malformed)
    /\ query' \in QueryReport(query, x, v)
    /\ \E s \in routeCommissionReport(Side, x, v) : SideIs(s)
    /\ sent' = IF owner[x] \in Open /\ x \notin DOMAIN ring.slot THEN [sent EXCEPT ![x] = Append(@, v)] ELSE sent
    /\ UNCHANGED <<load, limit, owner, links>>

ExecutionsEnd ==
    /\ query.open /\ ~query.complete
    /\ query' = completeSnapshot(query)
    /\ UNCHANGED <<load, limit, owner, orderSide, watch, sent, messages, links>>

\* A lost connection ends the query; the handles and their table live on.
Lost ==
    /\ links < MaxLinks /\ links' = links + 1
    /\ watch' = gapExecutionEvents(watch)
    /\ \/ query' = query \/ query' = Terminated
    /\ UNCHANGED <<load, limit, owner, orderSide, sent, messages>>

Restored ==
    /\ links < MaxLinks /\ links' = links + 1
    /\ watch' = restoreExecutionEvents(watch)
    /\ UNCHANGED <<load, limit, owner, orderSide, query, sent, messages>>

Next ==
    \/ \E o \in Orders : PlaceOrder(o) \/ CloseHandle(o)
    \/ Subscribe \/ Unsubscribe \/ SubscribeExecutionEvents
    \/ \E x \in Execs, o \in Orders \cup {0}, identity \in {"mine", "other", "omitted"},
          asked, decodes \in BOOLEAN : ExecutionDetail(x, o, identity, asked, decodes)
    \/ \E x \in Execs, v \in Versions : CommissionReport(x, v)
    \/ ExecutionsEnd \/ Lost \/ Restored

Spec == Init /\ [][Next]_vars

------------------------------------------------------------------------------
(* Properties.                                                             *)

\* Consecutive duplicates removed.
Distinct(s) == FoldLeft(LAMBDA t, v : IF t # <<>> /\ Last(t) = v THEN t ELSE Append(t, v), <<>>, s)

PendingOf(f) == MapThenSumSet(LAMBDA x : Len(f[x]), DOMAIN f)

\* Tables within their limit and well-formed values.
TypeOK ==
    /\ handles \in [Orders -> {None, "open", "closed", "malformed", "slow", "overflow"}]
    /\ DOMAIN table \subseteq Execs /\ Cardinality(DOMAIN table) <= limit
    /\ \A x \in DOMAIN table : table[x].owner \in Orders \cup {0}
    /\ fees \in 0 .. limit
    /\ watch.open \in BOOLEAN /\ watch.gapped \in BOOLEAN
    /\ query.pending \in 0 .. limit

\* The counters that decide about overflow are the sizes they stand for, whatever
\* claims, exclusions, flushes and snapshots happened.
CountsAgree ==
    /\ fees = PendingOf([x \in DOMAIN table |-> table[x].pending])
    /\ query.pending = PendingOf(query.entries)

\* The exclusion ring and its index name each other: an eviction removes exactly
\* the oldest exclusion, and no execution is excluded and tracked at once.
RingConsistent ==
    /\ Len(ring.at) <= limit /\ ring.next \in 1 .. limit
    /\ \A x \in DOMAIN ring.slot : ring.slot[x] \in DOMAIN ring.at /\ ring.at[ring.slot[x]] = x
    /\ \A i \in DOMAIN ring.at :
         ring.at[i] # None => ring.at[i] \in DOMAIN ring.slot /\ ring.slot[ring.at[i]] = i
    /\ DOMAIN ring.slot \cap DOMAIN table = {}

\* What is tracked for a handle dies with it, and without handles nothing is
\* tracked.
NoOrphanCorrelation ==
    /\ \A x \in DOMAIN table : table[x].owner # 0 => table[x].owner \in Open
    /\ Open = {} => table = <<>> /\ fees = 0 /\ ring = EmptyRing

\* No commission report of an open order is lost or doubled: what the handle was
\* given followed by what still waits for its execution is what the gateway sent,
\* consecutive duplicates apart, in whatever order executions, reports, replays
\* and other orders' ends came, unless the gateway itself said the execution is
\* another client's.
NoReportLost ==
    \A x \in Execs :
      owner[x] \in Open =>
        Distinct(sent[x]) = told[x].reports \o (IF x \in DOMAIN table THEN table[x].pending ELSE <<>>)

\* An execution reaches its handle once, however often it is replayed, and none
\* of its reports comes first.
FillDeliveredOnce ==
    \A x \in Execs :
      /\ told[x].executions <= 1
      /\ told[x].reports # <<>> => told[x].executions = 1
      /\ owner[x] = 0 => told[x].executions = 0

\* The same for a query, for every execution in its snapshot; a report outside
\* the snapshot is not kept once it is complete.
QueryReportsComplete ==
    /\ \A x \in query.seen : Distinct(query.heard[x]) = query.given[x]
    /\ \A x \in Execs \ query.seen : query.given[x] = <<>>
    /\ query.complete => DOMAIN query.entries = query.seen

\* The observer's gaps and restorations alternate over losses and codes.
WatchGapsAlternate == watch.run = (IF watch.gapped THEN 1 ELSE 0)

\* The correlation tables, their counters and the ring of excluded executions
\* agree at every limit and after every eviction.
TablesSound == TypeOK /\ CountsAgree /\ RingConsistent /\ NoOrphanCorrelation

\* A commission report reaches whoever holds its execution, in either order.
ReportsReachOwner == NoReportLost /\ QueryReportsComplete

\* Handles and observers hear of a fill once and of a gap before its end.
ConsumersHonest == FillDeliveredOnce /\ WatchGapsAlternate
==============================================================================
