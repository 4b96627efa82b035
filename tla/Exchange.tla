------------------------------- MODULE Exchange -------------------------------
(***************************************************************************)
(* One operation from its setup to its end: what the client writes, what a    *)
(* server of some version makes of it, what comes back and who gets it.       *)
(*                                                                            *)
(* Only numbers cross the wire: the request and its cancel reach the server   *)
(* when Encode finds them an encoding at the negotiated version, and a row    *)
(* reaches the operation when DecodeBatch knows its number and handleIncoming *)
(* finds the route.  The row's content is chosen when it is read.             *)
(*                                                                            *)
(* exchange                                                                   *)
(*   op, sv, link, up   the operation, the version and number of the          *)
(*                      connection, and whether it is there                   *)
(*   stage              new, open, waiting (for a connection to resume on)    *)
(*                      or over; outcome says how it ended                    *)
(*   live, ended        the server serves the request; it sent the end        *)
(*   queue              what the server sent and the client has not read      *)
(*   sent, got          rows, on this connection                              *)
(*   boundary           what the last answer or end message claimed           *)
(*   pending            a singleton snapshot is outstanding                   *)
(*   held               connections whose ticks the quote is made of          *)
(***************************************************************************)
EXTENDS Operations, Sequences

CONSTANTS
    Versions,   \* server versions to negotiate
    RowCap,     \* rows the server sends on one connection
    WireCap     \* messages under way to the client

ASSUME ExchangeAssumption == Versions \subseteq SupportedVersions /\ RowCap \in Nat \ {0} /\ WireCap \in Nat \ {0}

VARIABLE exchange

exchangeVars == <<exchange>>

Op == Operations[exchange.op]
Subscribed(op) == op.shape \in {"finite", "stream"}
NoBoundary == [due |-> 0, got |-> 0, spoiled |-> FALSE]

Begun(op, sv) ==
    [op |-> op, sv |-> sv, link |-> 1, up |-> TRUE, stage |-> "new", outcome |-> "none", live |-> FALSE,
     ended |-> FALSE, queue |-> <<>>, sent |-> 0, got |-> 0, boundary |-> NoBoundary, spoiled |-> FALSE,
     pending |-> FALSE, reroutes |-> 0, rerouted |-> FALSE, held |-> {}, dropped |-> FALSE, muted |-> FALSE,
     missed |-> FALSE]

ExchangeInit == \E op \in DOMAIN Operations, sv \in Versions : exchange = Begun(op, sv)

-----------------------------------------------------------------------------
(* Setup.                                                                     *)

\* What the caller may put in the request: contract fields, or one order attribute.
Contracts(op) == IF op.contract THEN {{}, {"ComboLegs", "ComboLegDetails"}} \cup {{f} : f \in ContractFields} ELSE {{}}
OrderSays(op) == {{}} \cup IF op.request = "PlaceOrderRequest" THEN {{a} : a \in toCodecPlaceOrder} ELSE {}

\* The name an encoder has for it.
CarriedAs(said) ==
    CASE said = "ComboLegDetails" -> "OpenClose"
      [] said = "OrderComboLegPrices" -> "Price"
      [] OTHER -> said

\* encodeProto refuses an order attribute the server does not know.
Refuses(op, sv, order) ==
    /\ op.request = "PlaceOrderRequest"
    /\ \/ \E a \in order : sv < AttributeVersion(a)
       \/ encodeOrderRefuses(order)

Finished(x, outcome) == [x EXCEPT !.stage = "over", !.outcome = outcome, !.pending = FALSE]

\* The server takes the request.
Served(x, op) == [x EXCEPT !.live = op.shape # "send", !.ended = FALSE]

\* The setup: checks, route, request.  admitted: the send queue has room.
Setup(contract, order, admitted) ==
    /\ exchange.stage = "new"
    /\ LET op == Op
           x == exchange
           asked == [Served(x, op) EXCEPT !.stage = IF op.shape = "send" THEN "over" ELSE "open",
                                         !.outcome = IF op.shape = "send" THEN "sent" ELSE "none",
                                         !.pending = op.quits = "settle" /\ op.end # "none",
                                         !.dropped = \E s \in contract \cup order :
                                                        CarriedAs(s) \notin Carries(x.sv, op.request)]
       IN  exchange' = IF x.sv < op.min \/ ~validateContractFieldSupport(contract, op.supports) THEN Finished(x, "refused")
                       ELSE IF Encode(x.sv, op.request) = 0 THEN Finished(x, "unencodable")
                       ELSE IF Refuses(op, x.sv, order) \/ ~admitted THEN Finished(x, "refused")
                       ELSE asked

-----------------------------------------------------------------------------
(* The server (external).                                                     *)

\* The version at which the server writes a message as protobuf.
ServerProtobufVersion(msg) ==
    CASE msg \in {"TickEFP", "DeltaNeutralValidation"} -> SupportedMaxServerVersion + 1
      [] msg \in {"NewsBulletins", "NewsArticle", "NewsProviders", "HistoricalNews", "HistoricalNewsEnd",
                  "WSHMetaData", "WSHEventData", "TickNews"} -> 209
      [] msg \in {"ScannerParameters", "ScannerData", "PnL", "PnLSingle"} -> 210
      [] msg = "ReceiveFA" -> 211
      [] msg \in {"SecDefOptParams", "SecDefOptParamsEnd", "SoftDollarTiers", "FamilyCodes", "SymbolSamples",
                  "SmartComponents", "MarketRule", "UserInfo"} -> 212
      [] msg \in {"NextValidID", "CurrentTime", "CurrentTimeInMillis", "DisplayGroupList", "DisplayGroupUpdated",
                  "MktDepthExchanges"} -> 213
      [] OTHER -> SupportedMinServerVersion
WireID(sv, msg) ==
    IF sv >= ServerProtobufVersion(msg) THEN InboundIDs[msg] + ProtobufMessageID ELSE InboundIDs[msg]

Sends(msg, kind, x) ==
    [x EXCEPT !.queue = Append(@, [wire |-> WireID(x.sv, msg), kind |-> kind, due |-> x.sent])]

ServerMay == exchange.live /\ Len(exchange.queue) < WireCap

\* A row; the last one of a call carries the mark of the end.
ServerRow(msg, kind) ==
    /\ ServerMay
    /\ ~exchange.ended \/ Op.endless
    /\ exchange.sent < RowCap
    /\ (kind = "last") <=> (Op.shape = "answer" \/ (Op.shape = "paged" /\ exchange.sent > 0))
    /\ LET x == [exchange EXCEPT !.sent = @ + 1, !.live = kind = "row"]
       IN  exchange' = Sends(msg, kind, x)

ServerEnd ==
    /\ ServerMay /\ ~exchange.ended /\ Op.end # "none"
    /\ exchange' = Sends(Op.end, "end", [exchange EXCEPT !.ended = TRUE, !.live = Op.endless])

ServerReroute ==
    /\ ServerMay /\ Op.reroute # "none" /\ exchange.reroutes < 2
    /\ exchange' = Sends(Op.reroute, "reroute", [exchange EXCEPT !.reroutes = @ + 1, !.live = FALSE])

\* An error ends the request, a warning does not.
ServerError(kind) ==
    /\ ServerMay
    /\ kind = "warning" => Op.warns
    /\ exchange' = Sends("ErrMsg", kind, [exchange EXCEPT !.live = kind = "warning"])

-----------------------------------------------------------------------------
(* The end of a route.                                                        *)

\* retireTransport: the connection and everything on it is gone.
Retired(x) == [x EXCEPT !.up = FALSE, !.live = FALSE, !.queue = <<>>]

\* The cancel an operation has at a version.
CancelOf(op, sv) == IF sv >= op.cancelMin THEN op.cancel ELSE "none"

\* cancelRouteSubscription: nothing to undo on a connection that has not got the
\* request; otherwise the server stops once the cancel is written.
Speakable(x, cancel) == Encode(x.sv, cancel) # 0
Undo(x, cancel, admitted) ==
    IF cancel = "none" \/ ~x.up \/ x.stage = "waiting" THEN x
    ELSE IF ~Speakable(x, cancel) THEN [x EXCEPT !.muted = TRUE]
    ELSE IF admitted THEN [x EXCEPT !.live = FALSE] ELSE x
UndoFails(x, cancel, admitted) ==
    cancel # "none" /\ x.up /\ x.stage # "waiting" /\ ~(Speakable(x, cancel) /\ admitted)

\* abortUnresolvedSingletonOneShot
abortUnresolvedSingletonOneShot(x) == IF x.up THEN Retired(x) ELSE x

\* Leaving by the way the operation prescribes.
Leave(x, outcome, admitted) ==
    LET op == Op
        cancel == CancelOf(op, x.sv)
        undone == Finished(Undo(x, cancel, admitted), outcome)
        safely == IF UndoFails(x, cancel, admitted) THEN Retired(undone) ELSE undone
    IN  CASE op.quits = "forget" -> Finished(x, outcome)
          [] op.quits = "courtesy" -> undone
          [] op.quits = "cancel" -> safely
          [] op.quits = "retire" -> abortUnresolvedSingletonOneShot(Finished(x, outcome))
          [] op.quits = "settle" -> IF x.pending THEN Retired(Finished(x, outcome)) ELSE safely

\* Mutant: the stream ends without its cancel.
BadRowCloses(x, admitted) == Finished(x, "failed")

\* A row that does not convert fails a call and closes a stream.
BadRow(x, admitted) == IF Subscribed(Op) THEN Leave(x, "failed", admitted) ELSE Finished(x, "failed")

-----------------------------------------------------------------------------
(* handleIncoming.                                                            *)

\* The route is found by request ID or by singleton key.
Found(msg) ==
    IF Op.key = "req" THEN msg \in ReqIDer /\ marketDataCallbackOwner(msg, Op.kind)
    ELSE msg \in DOMAIN handleIncoming /\ handleIncoming[msg] = Op.key

\* The handler of the route has a case for it.
Handled(msg) == msg \in Op.rows \cup Op.alien \cup {Op.end, Op.reroute}

Counts(x, row) ==
    [x EXCEPT !.got = @ + 1, !.spoiled = @ \/ row.content = "text",
              !.held = IF Op.quote THEN @ \cup {x.link} ELSE @]
Claims(x, due) == [x EXCEPT !.boundary = [due |-> due, got |-> x.got, spoiled |-> x.spoiled]]

\* What one row may lead to: a subscription is closed when its consumer does not keep up.
TakeRow(x, msg, item, row, admitted) ==
    IF msg \in Op.alien \/ ~Converted(msg, row) THEN {BadRow(x, admitted)}
    ELSE LET counted == Counts(x, row)
         IN  {IF item.kind = "last" THEN Finished(Claims(counted, item.due), "answered") ELSE counted}
                \cup {y \in {Leave(x, "slow", admitted)} : Subscribed(Op)}

TakeEnd(x, item) ==
    LET marked == [Claims(x, item.due) EXCEPT !.pending = FALSE]
    IN  IF Op.shape = "stream" /\ ~Op.snapshot THEN marked ELSE Finished(marked, "complete")

\* The first reroute repeats the request with the new contract, a second one gives up.
TakeReroute(x, admitted) ==
    IF x.rerouted THEN Leave(x, "failed", admitted)
    ELSE LET moved == [x EXCEPT !.rerouted = TRUE]
         IN  IF admitted THEN Served(moved, Op) ELSE Leave(moved, "failed", admitted)

TakeError(x, kind) == IF Op.errs /\ kind = "error" THEN Finished(x, "failed") ELSE x

\* The actor reads one message.  A message for a closed route is dropped.
Receive(admitted) ==
    /\ exchange.queue # <<>>
    /\ LET item == Head(exchange.queue)
           msg == DecodeBatch(item.wire)
           x == [exchange EXCEPT !.queue = Tail(@)]
           lost == msg = "unknown" \/ ~Found(msg) \/ ~Handled(msg)
       IN  CASE x.stage # "open" -> exchange' = x
             [] x.stage = "open" /\ msg = "ErrMsg" -> exchange' = TakeError(x, item.kind)
             [] x.stage = "open" /\ msg # "ErrMsg" /\ lost -> exchange' = [x EXCEPT !.missed = TRUE]
             [] OTHER ->
                CASE item.kind = "end" -> exchange' = TakeEnd(x, item)
                  [] item.kind = "reroute" -> exchange' = TakeReroute(x, admitted)
                  [] OTHER -> exchange' \in UNION {TakeRow(x, msg, item, row, admitted) : row \in Contents(msg)}

\* The caller cancels the context or closes the stream.
Quit(admitted) ==
    /\ exchange.stage \in {"open", "waiting"}
    /\ exchange' = Leave(exchange, "abandoned", admitted)

\* OpenOrdersSubscription.Refresh: another snapshot on the same route.
Refresh ==
    /\ exchange.stage = "open" /\ Op.refresh /\ ~exchange.pending /\ ~exchange.live
    /\ exchange.sent < RowCap
    /\ exchange' = [Served(exchange, Op) EXCEPT !.pending = TRUE]

-----------------------------------------------------------------------------
(* Connections.                                                               *)

\* The gap: a resumed quote starts from nothing.
onDisconnect(x) == [x EXCEPT !.stage = "waiting", !.held = {}]

\* auto: the caller asked for ResumeAuto.
Lose(auto) ==
    /\ exchange.up /\ exchange.stage # "new"
    /\ LET x == Retired(exchange)
       IN  exchange' = IF x.stage # "open" THEN x
                       ELSE IF Op.resumes /\ auto THEN onDisconnect(x) ELSE Finished(x, "interrupted")

\* continueResumeRoutes: the route is checked and encoded anew for the server at hand.
validateResume(op, sv) == sv >= op.min
Reconnect(sv) ==
    /\ exchange.stage = "waiting" /\ ~exchange.up /\ exchange.link < 2
    /\ LET x == [exchange EXCEPT !.sv = sv, !.link = @ + 1, !.up = TRUE, !.sent = 0, !.got = 0,
                                 !.boundary = NoBoundary, !.ended = FALSE]
       IN  exchange' = IF validateResume(Op, sv) /\ Encode(sv, Op.request) # 0
                       THEN [Served(x, Op) EXCEPT !.stage = "open"] ELSE Finished(x, "failed")

Serve ==
    \/ \E msg \in Op.rows \cup Op.alien, kind \in {"row", "last"} : ServerRow(msg, kind)
    \/ ServerEnd \/ ServerReroute \/ \E kind \in {"error", "warning"} : ServerError(kind)

ExchangeNext ==
    \/ /\ exchange.stage = "new"
       /\ \E contract \in Contracts(Op), order \in OrderSays(Op), admitted \in BOOLEAN :
             Setup(contract, order, admitted)
    \/ ServerMay /\ Serve
    \/ exchange.queue # <<>> /\ \E admitted \in BOOLEAN : Receive(admitted)
    \/ \E admitted \in BOOLEAN : Quit(admitted)
    \/ Refresh
    \/ \E auto \in BOOLEAN : Lose(auto)
    \/ \E sv \in Versions : Reconnect(sv)

ExchangeSpec == ExchangeInit /\ [][ExchangeNext]_exchangeVars

-----------------------------------------------------------------------------
(* Properties.                                                                *)

\* Whatever passes the checks of its setup has an encoding at the negotiated
\* version, and so has the cancel of a request that was accepted: no gate of
\* the engine disagrees with outboundProtobufVersion and the encoder tables.
RequestSpoken == exchange.outcome # "unencodable" /\ ~exchange.muted

\* Every message the server may send for an operation, in the encoding it uses
\* at that version, is decoded, routed by handleIncoming and has a case in the
\* handler: none is dropped as unknown or foreign while the route is open.
RowsReachHandler == ~exchange.missed

\* A stream the client gave up on -- bad row, slow consumer, second reroute,
\* failed cancel, caller gone, at any moment -- is not left running at the
\* server on a connection that stays in use.
NoAbandonedStream == exchange.stage = "over" /\ exchange.up /\ Op.endless => ~exchange.live

\* An answer, a returned list and a snapshot mark claim that everything came:
\* every row the server sent before it was delivered and converted whole.
CompleteMeansWhole ==
    exchange.boundary.due = exchange.boundary.got /\ ~exchange.boundary.spoiled

\* A call without a request ID never ends with its answer still to come on a
\* connection in use, where it would answer the next call of its kind.
UnkeyedSettled ==
    exchange.stage = "over" /\ exchange.up /\ Op.key # "req" /\ Op.shape = "answer"
        => ~exchange.live /\ exchange.queue = <<>>

\* A quote that resumed on a new connection shows no tick of the old one.
FreshQuote == exchange.held \subseteq {exchange.link}

\* What needs a newer server is never served by an older one, also when a
\* stream resumes on a connection that negotiated a lower version.
GateHeld == exchange.live => exchange.sv >= Op.min

\* No contract field or order attribute the setup accepted is missing from the
\* encoding the version selects.
NothingDropped == ~exchange.dropped

\* A request has the same attributes in both of its encodings, and so has its
\* cancel, so that a server upgrade does not change what is asked.
TopLevel(m) ==
    LET fields == FieldsOf({protobufEncoders[m]})
    IN  IF m = "ScannerSubscriptionRequest"
        THEN {"ReqID"} \cup {f.attr : f \in FieldsOf(Inside(fields))} ELSE {f.attr : f \in fields}
SameRequestEitherWay ==
    exchange.stage = "new" => \A m \in {Op.request, Op.cancel} :
        m \in DOMAIN classicEncoders /\ m \in DOMAIN protobufEncoders =>
            {classicEncoders[m][i] : i \in DOMAIN classicEncoders[m]} \ Fixed = TopLevel(m)

\* A request means the same at every version: it is spoken, whole, gated and
\* equal in both encodings.
RequestFaithful == RequestSpoken /\ GateHeld /\ NothingDropped /\ SameRequestEitherWay

\* What is reported complete is complete, and nothing sent for the operation is
\* lost on the way to its handler.
AnswersComplete == RowsReachHandler /\ CompleteMeansWhole

\* Nothing of a finished operation runs on, or arrives for the next one, on a
\* connection that stays in use, and nothing of a lost one is shown as current.
NoStrayTraffic == NoAbandonedStream /\ UnkeyedSettled /\ FreshQuote
==============================================================================
