-------------------------------- MODULE Codec --------------------------------
(***************************************************************************)
(* The envelope around a body: which number a message travels under, and in   *)
(* which of its two encodings, at a negotiated server version.  An operation  *)
(* names its messages by type; only numbers cross the wire.                   *)
(***************************************************************************)
EXTENDS ProtoRequests, ClassicMessages

\* internal/protocol/registry.go
SupportedMinServerVersion == 208
SupportedMaxServerVersion == 225
SupportedVersions == SupportedMinServerVersion..SupportedMaxServerVersion

OutboundIDs ==
    [ReqMktData |-> 1, CancelMktData |-> 2, PlaceOrder |-> 3, CancelOrder |-> 4, ReqOpenOrders |-> 5,
     ReqAccountUpdates |-> 6, ReqExecutions |-> 7, ReqIds |-> 8, ReqContractData |-> 9, ReqMktDepth |-> 10,
     CancelMktDepth |-> 11, ReqNewsBulletins |-> 12, CancelNewsBulletins |-> 13, ReqAutoOpenOrders |-> 15,
     ReqAllOpenOrders |-> 16, ReqManagedAccounts |-> 17, RequestFA |-> 18, ReqHistoricalData |-> 20,
     ExerciseOptions |-> 21, ReqScannerSubscription |-> 22, CancelScannerSubscription |-> 23,
     ReqScannerParameters |-> 24, CancelHistoricalData |-> 25, ReqCurrentTime |-> 49, ReqRealTimeBars |-> 50,
     CancelRealTimeBars |-> 51, ReqCalcImpliedVolatility |-> 54, ReqCalcOptionPrice |-> 55,
     CancelCalcImpliedVolatility |-> 56, CancelCalcOptionPrice |-> 57, ReqGlobalCancel |-> 58,
     ReqMarketDataType |-> 59, ReqPositions |-> 61, ReqAccountSummary |-> 62, CancelAccountSummary |-> 63,
     CancelPositions |-> 64, QueryDisplayGroups |-> 67, SubscribeToGroupEvents |-> 68,
     UpdateDisplayGroup |-> 69, UnsubscribeFromGroupEvents |-> 70, StartAPI |-> 71, ReqPositionsMulti |-> 74,
     CancelPositionsMulti |-> 75, ReqAccountUpdatesMulti |-> 76, CancelAccountUpdatesMulti |-> 77,
     ReqSecDefOptParams |-> 78, ReqSoftDollarTiers |-> 79, ReqFamilyCodes |-> 80, ReqMatchingSymbols |-> 81,
     ReqMktDepthExchanges |-> 82, ReqSmartComponents |-> 83, ReqNewsArticle |-> 84, ReqNewsProviders |-> 85,
     ReqHistoricalNews |-> 86, ReqHeadTimestamp |-> 87, ReqHistogramData |-> 88, CancelHistogramData |-> 89,
     CancelHeadTimestamp |-> 90, ReqMarketRule |-> 91, ReqPnL |-> 92, CancelPnL |-> 93, ReqPnLSingle |-> 94,
     CancelPnLSingle |-> 95, ReqHistoricalTicks |-> 96, ReqTickByTickData |-> 97, CancelTickByTickData |-> 98,
     ReqCompletedOrders |-> 99, ReqWSHMetaData |-> 100, CancelWSHMetaData |-> 101, ReqWSHEventData |-> 102,
     CancelWSHEventData |-> 103, ReqUserInfo |-> 104, ReqCurrentTimeInMillis |-> 105,
     CancelContractData |-> 106, CancelHistoricalTicks |-> 107, ReqConfig |-> 108]

InboundIDs ==
    [TickPrice |-> 1, TickSize |-> 2, OrderStatus |-> 3, ErrMsg |-> 4, OpenOrder |-> 5,
     UpdateAccountValue |-> 6, UpdatePortfolio |-> 7, UpdateAccountTime |-> 8, NextValidID |-> 9,
     ContractData |-> 10, ExecutionData |-> 11, MarketDepth |-> 12, MarketDepthL2 |-> 13,
     NewsBulletins |-> 14, ManagedAccounts |-> 15, ReceiveFA |-> 16, HistoricalData |-> 17,
     BondContractData |-> 18, ScannerParameters |-> 19, ScannerData |-> 20, TickOptionComputation |-> 21,
     TickGeneric |-> 45, TickString |-> 46, TickEFP |-> 47, CurrentTime |-> 49, RealTimeBars |-> 50,
     ContractDataEnd |-> 52, OpenOrderEnd |-> 53, AccountDownloadEnd |-> 54, ExecutionDataEnd |-> 55,
     DeltaNeutralValidation |-> 56, TickSnapshotEnd |-> 57, MarketDataType |-> 58, CommissionReport |-> 59,
     PositionData |-> 61, PositionEnd |-> 62, AccountSummary |-> 63, AccountSummaryEnd |-> 64,
     DisplayGroupList |-> 67, DisplayGroupUpdated |-> 68, PositionMulti |-> 71, PositionMultiEnd |-> 72,
     AccountUpdateMulti |-> 73, AccountUpdateMultiEnd |-> 74, SecDefOptParams |-> 75,
     SecDefOptParamsEnd |-> 76, SoftDollarTiers |-> 77, FamilyCodes |-> 78, SymbolSamples |-> 79,
     MktDepthExchanges |-> 80, TickReqParams |-> 81, SmartComponents |-> 82, NewsArticle |-> 83,
     TickNews |-> 84, NewsProviders |-> 85, HistoricalNews |-> 86, HistoricalNewsEnd |-> 87,
     HeadTimestamp |-> 88, HistogramData |-> 89, HistoricalDataUpdate |-> 90, MarketDataReroute |-> 91,
     MarketDepthReroute |-> 92, MarketRule |-> 93, PnL |-> 94, PnLSingle |-> 95, HistoricalTicks |-> 96,
     HistoricalTicksBidAsk |-> 97, HistoricalTicksLast |-> 98, TickByTick |-> 99, OrderBound |-> 100,
     CompletedOrder |-> 101, CompletedOrderEnd |-> 102, WSHMetaData |-> 104, WSHEventData |-> 105,
     HistoricalSchedule |-> 106, UserInfo |-> 107, HistoricalDataEnd |-> 108, CurrentTimeInMillis |-> 109,
     Config |-> 110]

\* codec_outbound.go.  OpenOrdersRequest has three numbers, by scope.
messageID ==
    [CancelOpenOrders |-> "ReqAutoOpenOrders", ExecutionsRequest |-> "ReqExecutions",
     CompletedOrdersRequest |-> "ReqCompletedOrders", SoftDollarTiersRequest |-> "ReqSoftDollarTiers",
     PlaceOrderRequest |-> "PlaceOrder", CancelOrderRequest |-> "CancelOrder",
     GlobalCancelRequest |-> "ReqGlobalCancel", ExerciseOptionsRequest |-> "ExerciseOptions",
     HistoricalBarsRequest |-> "ReqHistoricalData", CancelHistoricalData |-> "CancelHistoricalData",
     HeadTimestampRequest |-> "ReqHeadTimestamp", CancelHeadTimestamp |-> "CancelHeadTimestamp",
     HistogramDataRequest |-> "ReqHistogramData", CancelHistogramData |-> "CancelHistogramData",
     HistoricalTicksRequest |-> "ReqHistoricalTicks", ContractDetailsRequest |-> "ReqContractData",
     MatchingSymbolsRequest |-> "ReqMatchingSymbols", MarketRuleRequest |-> "ReqMarketRule",
     SecDefOptParamsRequest |-> "ReqSecDefOptParams", SmartComponentsRequest |-> "ReqSmartComponents",
     ConfigRequest |-> "ReqConfig", CancelContractData |-> "CancelContractData",
     CancelHistoricalTicks |-> "CancelHistoricalTicks", StartAPI |-> "StartAPI",
     ManagedAccountsRequest |-> "ReqManagedAccounts", CurrentTimeRequest |-> "ReqCurrentTime",
     CurrentTimeMillisRequest |-> "ReqCurrentTimeInMillis", ReqIDsRequest |-> "ReqIds",
     UserInfoRequest |-> "ReqUserInfo", AccountSummaryRequest |-> "ReqAccountSummary",
     CancelAccountSummary |-> "CancelAccountSummary", PositionsRequest |-> "ReqPositions",
     CancelPositions |-> "CancelPositions", FamilyCodesRequest |-> "ReqFamilyCodes",
     AccountUpdatesRequest |-> "ReqAccountUpdates", AccountUpdatesMultiRequest |-> "ReqAccountUpdatesMulti",
     CancelAccountUpdatesMulti |-> "CancelAccountUpdatesMulti", PositionsMultiRequest |-> "ReqPositionsMulti",
     CancelPositionsMulti |-> "CancelPositionsMulti", PnLRequest |-> "ReqPnL", CancelPnL |-> "CancelPnL",
     PnLSingleRequest |-> "ReqPnLSingle", CancelPnLSingle |-> "CancelPnLSingle",
     QuoteRequest |-> "ReqMktData", CancelQuote |-> "CancelMktData",
     RealTimeBarsRequest |-> "ReqRealTimeBars", CancelRealTimeBars |-> "CancelRealTimeBars",
     ReqMarketDataType |-> "ReqMarketDataType", MktDepthExchangesRequest |-> "ReqMktDepthExchanges",
     TickByTickRequest |-> "ReqTickByTickData", CancelTickByTick |-> "CancelTickByTickData",
     CalcImpliedVolatilityRequest |-> "ReqCalcImpliedVolatility",
     CancelCalcImpliedVolatility |-> "CancelCalcImpliedVolatility",
     CalcOptionPriceRequest |-> "ReqCalcOptionPrice", CancelCalcOptionPrice |-> "CancelCalcOptionPrice",
     MarketDepthRequest |-> "ReqMktDepth", CancelMarketDepth |-> "CancelMktDepth",
     ScannerParametersRequest |-> "ReqScannerParameters",
     ScannerSubscriptionRequest |-> "ReqScannerSubscription",
     CancelScannerSubscription |-> "CancelScannerSubscription", RequestFA |-> "RequestFA",
     WSHMetaDataRequest |-> "ReqWSHMetaData", CancelWSHMetaData |-> "CancelWSHMetaData",
     WSHEventDataRequest |-> "ReqWSHEventData", CancelWSHEventData |-> "CancelWSHEventData",
     QueryDisplayGroupsRequest |-> "QueryDisplayGroups",
     SubscribeToGroupEventsRequest |-> "SubscribeToGroupEvents",
     UpdateDisplayGroupRequest |-> "UpdateDisplayGroup",
     UnsubscribeFromGroupEventsRequest |-> "UnsubscribeFromGroupEvents",
     NewsProvidersRequest |-> "ReqNewsProviders", NewsBulletinsRequest |-> "ReqNewsBulletins",
     CancelNewsBulletins |-> "CancelNewsBulletins", NewsArticleRequest |-> "ReqNewsArticle",
     HistoricalNewsRequest |-> "ReqHistoricalNews",
     OpenOrdersClient |-> "ReqOpenOrders", OpenOrdersAuto |-> "ReqAutoOpenOrders",
     OpenOrdersAll |-> "ReqAllOpenOrders"]
OpenOrdersScopes == {"OpenOrdersClient", "OpenOrdersAuto", "OpenOrdersAll"}
TypeOf(m) == IF m \in OpenOrdersScopes THEN "OpenOrdersRequest" ELSE m

\* protocol/protobuf.go: the first version that wants the protobuf body.
outboundProtobufVersion(out) ==
    CASE out \in {"ReqExecutions", "PlaceOrder", "CancelOrder", "ReqGlobalCancel", "ReqOpenOrders",
                 "ReqAutoOpenOrders", "ReqAllOpenOrders", "ReqCompletedOrders", "ReqContractData",
                 "ReqMktData", "CancelMktData", "ReqMktDepth", "CancelMktDepth", "ReqMarketDataType",
                 "ReqAccountUpdates", "ReqManagedAccounts", "ReqPositions", "CancelPositions",
                 "ReqAccountSummary", "CancelAccountSummary", "ReqPositionsMulti", "CancelPositionsMulti",
                 "ReqAccountUpdatesMulti", "CancelAccountUpdatesMulti", "ReqHistoricalData",
                 "CancelHistoricalData", "ReqRealTimeBars", "CancelRealTimeBars", "ReqHeadTimestamp",
                 "CancelHeadTimestamp", "ReqHistogramData", "CancelHistogramData", "ReqHistoricalTicks",
                 "ReqTickByTickData", "CancelTickByTickData"} -> 208
      [] out \in {"ReqNewsBulletins", "CancelNewsBulletins", "ReqNewsArticle", "ReqNewsProviders",
                 "ReqHistoricalNews", "ReqWSHMetaData", "CancelWSHMetaData", "ReqWSHEventData",
                 "CancelWSHEventData"} -> 209
      [] out \in {"ReqScannerParameters", "ReqScannerSubscription", "CancelScannerSubscription", "ReqPnL",
                 "CancelPnL", "ReqPnLSingle", "CancelPnLSingle"} -> 210
      [] out \in {"RequestFA", "ExerciseOptions", "ReqCalcImpliedVolatility", "CancelCalcImpliedVolatility",
                 "ReqCalcOptionPrice", "CancelCalcOptionPrice"} -> 211
      [] out \in {"ReqSecDefOptParams", "ReqSoftDollarTiers", "ReqFamilyCodes", "ReqMatchingSymbols",
                 "ReqSmartComponents", "ReqMarketRule", "ReqUserInfo"} -> 212
      [] out \in {"ReqIds", "ReqCurrentTime", "ReqCurrentTimeInMillis", "StartAPI", "QueryDisplayGroups",
                 "SubscribeToGroupEvents", "UpdateDisplayGroup", "UnsubscribeFromGroupEvents",
                 "ReqMktDepthExchanges"} -> 213
      [] out \in {"CancelContractData", "CancelHistoricalTicks"} -> 215
      [] out \in {"ReqConfig"} -> 219

-----------------------------------------------------------------------------
(* protocol/envelope.go: a protobuf body is announced by a larger number.     *)

ProtobufMessageID == 200
EncodeClassicEnvelope(id) == id
EncodeProtobufEnvelope(id) == id + ProtobufMessageID
DecodeEnvelope(wire) ==
    IF wire > ProtobufMessageID THEN [id |-> wire - ProtobufMessageID, encoding |-> "protobuf"]
    ELSE [id |-> wire, encoding |-> "classic"]

\* The encoding Encode chooses; "none" is its error.
BodyEncoding(sv, m) ==
    IF sv >= outboundProtobufVersion(messageID[m])
    THEN IF TypeOf(m) \in DOMAIN protobufEncoders THEN "protobuf" ELSE "none"
    ELSE IF TypeOf(m) \in DOMAIN classicEncoders THEN "classic" ELSE "none"

\* The number on the wire, 0 for an error.
Encode(sv, m) ==
    LET id == OutboundIDs[messageID[m]]
        encoding == BodyEncoding(sv, m)
    IN  IF encoding = "protobuf" THEN EncodeProtobufEnvelope(id)
        ELSE IF encoding = "classic" THEN EncodeClassicEnvelope(id) ELSE 0

\* The message a number stands for; the three tick-by-tick layouts share one.
InboundName ==
    [id \in {InboundIDs[n] : n \in DOMAIN InboundIDs} |-> CHOOSE n \in DOMAIN InboundIDs : InboundIDs[n] = id]
ClassicInbound == DOMAIN inboundDecoders
ProtobufInbound == DOMAIN inboundProtobufDecoders \cup {"TickByTick"}

\* "unknown" is UnknownInbound: no decoder for the number in that encoding.
DecodeBatch(wire) ==
    LET e == DecodeEnvelope(wire)
        decodable == IF e.encoding = "classic" THEN ClassicInbound ELSE ProtobufInbound
    IN  IF e.id \in DOMAIN InboundName /\ InboundName[e.id] \in decodable THEN InboundName[e.id] ELSE "unknown"

-----------------------------------------------------------------------------
(* What a request carries.                                                    *)

\* codec.go; the exercise request writes the same without the primary exchange.
writeWireContract ==
    {"Symbol", "SecType", "Expiry", "Strike", "Right", "Multiplier", "Exchange", "PrimaryExchange", "Currency",
     "LocalSymbol", "TradingClass"}
ClassicContract(m) ==
    {"ConID"} \cup IF m = "ExerciseOptionsRequest" THEN writeWireContract \ {"PrimaryExchange"} ELSE writeWireContract

FieldsOf(encoders) == UNION {e.always \cup e.optional : e \in encoders}
Inside(fields) == UNION {f.sub : f \in fields}
\* Attributes of a protobuf request, those of nested messages included.
ProtoCarries(m) ==
    LET one == FieldsOf({protobufEncoders[m]})
        two == FieldsOf(Inside(one))
        three == FieldsOf(Inside(two))
    IN  {f.attr : f \in one \cup two \cup three}
ClassicCarries(m) ==
    LET written == {classicEncoders[m][i] : i \in DOMAIN classicEncoders[m]} \ Fixed
    IN  written \cup IF "Contract" \in written THEN ClassicContract(m) ELSE {}
Carries(sv, m) ==
    CASE BodyEncoding(sv, m) = "protobuf" -> ProtoCarries(TypeOf(m))
      [] BodyEncoding(sv, m) = "classic" -> ClassicCarries(TypeOf(m))
      [] OTHER -> {}

-----------------------------------------------------------------------------
(* handleIncoming: who gets a message.                                        *)

\* codec/reqid.go: messages with a request ID.
ReqIDer ==
    {"AccountSummaryEnd", "AccountSummary", "AccountUpdateMultiEnd", "AccountUpdateMulti", "ContractData",
     "BondContractData", "ContractDataEnd", "Config", "DisplayGroupList", "DisplayGroupUpdated",
     "ExecutionData", "ExecutionDataEnd", "HeadTimestamp", "HistogramData", "HistoricalData",
     "HistoricalDataEnd", "HistoricalDataUpdate", "HistoricalNewsEnd", "HistoricalNews",
     "HistoricalSchedule", "HistoricalTicksBidAsk", "HistoricalTicksLast", "HistoricalTicks",
     "MarketDataType", "MarketDataReroute", "MarketDepthReroute", "MarketDepthL2", "MarketDepth",
     "SymbolSamples", "NewsArticle", "PnLSingle", "PnL", "PositionMulti", "PositionMultiEnd",
     "RealTimeBars", "ScannerData", "SecDefOptParamsEnd", "SecDefOptParams", "SmartComponents",
     "SoftDollarTiers", "TickByTick", "TickGeneric", "TickEFP", "TickNews", "TickOptionComputation",
     "TickPrice", "TickReqParams", "TickSize", "TickSnapshotEnd", "TickString", "UserInfo",
     "WSHEventData", "WSHMetaData", "DeltaNeutralValidation"}

\* The singleton route of a message without one.
handleIncoming ==
    [ManagedAccounts |-> "managed_accounts", NextValidID |-> "order_id", CurrentTime |-> "current_time",
     CurrentTimeInMillis |-> "current_time_millis", PositionData |-> "positions", PositionEnd |-> "positions",
     OpenOrder |-> "open_orders", OrderStatus |-> "open_orders", OpenOrderEnd |-> "open_orders",
     OrderBound |-> "open_orders", FamilyCodes |-> "family_codes", MktDepthExchanges |-> "mkt_depth_exchanges",
     NewsProviders |-> "news_providers", ScannerParameters |-> "scanner_parameters",
     MarketRule |-> "market_rule", CompletedOrder |-> "completed_orders",
     CompletedOrderEnd |-> "completed_orders", UpdateAccountValue |-> "account_updates",
     UpdatePortfolio |-> "account_updates", UpdateAccountTime |-> "account_updates",
     AccountDownloadEnd |-> "account_updates", NewsBulletins |-> "news_bulletins", ReceiveFA |-> "fa"]

\* marketDataCallbackOwner: the operations that may own a market data row.
marketDataCallbackOwner(msg, kind) ==
    /\ msg \in {"MarketDepth", "MarketDepthL2", "MarketDepthReroute"} => kind = "MarketDepth"
    /\ msg = "TickOptionComputation" => kind \in {"Quotes", "CalcImpliedVol", "CalcOptionPrice"}
    /\ msg \in {"TickPrice", "TickSize", "TickGeneric", "TickString", "TickEFP", "DeltaNeutralValidation",
                "TickSnapshotEnd", "MarketDataType", "TickReqParams", "TickNews", "MarketDataReroute"}
         => kind = "Quotes"
==============================================================================
