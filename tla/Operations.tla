------------------------------ MODULE Operations ------------------------------
(***************************************************************************)
(* The public operations, each as what the engine method that runs it fixes:  *)
(* the request, how the answers are found (by request ID or by a singleton    *)
(* key), what ends it, how it is undone, and what it checks first.            *)
(*                                                                            *)
(* shape   answer   one message answers the call                              *)
(*         paged    messages until one says it is the last                    *)
(*         collect  rows, returned together at the end message                *)
(*         finite   rows as a stream that the end message closes              *)
(*         stream   rows without end; an end message marks a snapshot         *)
(*         send     nothing comes back                                        *)
(* quits   forget   delete the route                                          *)
(*         courtesy delete it and send the cancel, whatever becomes of it     *)
(*         cancel   delete it and send the cancel; retire the connection when *)
(*                  that fails                                                *)
(*         retire   retire the connection                                     *)
(*         settle   as cancel, but retire while a snapshot is outstanding     *)
(***************************************************************************)
EXTENDS Codec, Conversions

\* engine_convert.go: what a contract may say beyond its plain description.
ContractFields ==
    {"IncludeExpired", "SecurityID", "ComboLegs", "ComboLegDetails", "DeltaNeutral", "IssuerID", "PrimaryExchange"}
contractFieldsAll == ContractFields
\* Mutant: fields the request cannot carry pass.
validateContractFieldSupportNone(contract, supported) == TRUE
validateContractFieldSupport(contract, supported) == contract \subseteq supported

\* endless: the server sends rows until it is told to stop.
Operation(request, rows) ==
    [kind |-> "other", key |-> "req", shape |-> "answer", request |-> request, rows |-> rows, alien |-> {},
     end |-> "none", reroute |-> "none", cancel |-> "none", cancelMin |-> 0, min |-> 0, errs |-> TRUE,
     warns |-> FALSE, quits |-> "forget", resumes |-> FALSE, quote |-> FALSE, snapshot |-> FALSE,
     refresh |-> FALSE, endless |-> FALSE, contract |-> FALSE, supports |-> {}]
Over(supported) == [contract |-> TRUE, supports |-> supported]
Undone(how, cancel) == [quits |-> how, cancel |-> cancel]
Closes(end) == [end |-> end]

newKeyedOneShotRoute(request, answer) == Operation(request, {answer})
SingletonCall(key, request, answer) ==
    [key |-> key, errs |-> FALSE, quits |-> "retire"] @@ Operation(request, {answer})
newKeyedSubscriptionRoute(request, cancel, rows) ==
    [shape |-> "stream", quits |-> "cancel", cancel |-> cancel, endless |-> TRUE] @@ Operation(request, rows)
newSingletonSubscriptionRoute(key, request, cancel, rows) ==
    [shape |-> "stream", key |-> key, quits |-> "settle", cancel |-> cancel, endless |-> TRUE, errs |-> FALSE]
    @@ Operation(request, rows)
awaitFireAndForget(request) == [shape |-> "send"] @@ Operation(request, {})

\* engine_account.go
SubscribeAccountSummary ==
    Closes("AccountSummaryEnd")
    @@ newKeyedSubscriptionRoute("AccountSummaryRequest", "CancelAccountSummary", {"AccountSummary"})
ManagedAccounts == SingletonCall("managed_accounts", "ManagedAccountsRequest", "ManagedAccounts")
SubscribePositions ==
    Closes("PositionEnd")
    @@ newSingletonSubscriptionRoute("positions", "PositionsRequest", "CancelPositions", {"PositionData"})
FamilyCodes == SingletonCall("family_codes", "FamilyCodesRequest", "FamilyCodes")
\* The same message unsubscribes.
SubscribeAccountUpdates ==
    Closes("AccountDownloadEnd")
    @@ newSingletonSubscriptionRoute("account_updates", "AccountUpdatesRequest", "AccountUpdatesRequest",
                                     {"UpdateAccountValue", "UpdatePortfolio", "UpdateAccountTime"})
SubscribeAccountUpdatesMulti ==
    Closes("AccountUpdateMultiEnd")
    @@ newKeyedSubscriptionRoute("AccountUpdatesMultiRequest", "CancelAccountUpdatesMulti", {"AccountUpdateMulti"})
SubscribePositionsMulti ==
    Closes("PositionMultiEnd")
    @@ newKeyedSubscriptionRoute("PositionsMultiRequest", "CancelPositionsMulti", {"PositionMulti"})
SubscribePnL == newKeyedSubscriptionRoute("PnLRequest", "CancelPnL", {"PnL"})
SubscribePnLSingle == newKeyedSubscriptionRoute("PnLSingleRequest", "CancelPnLSingle", {"PnLSingle"})

\* engine_contracts.go
StreamContractDetails ==
    [shape |-> "finite", endless |-> FALSE, cancelMin |-> 215, end |-> "ContractDataEnd"] @@ Over(contractFieldsAll)
    @@ newKeyedSubscriptionRoute("ContractDetailsRequest", "CancelContractData",
                                 {"ContractData", "BondContractData"})
MatchingSymbols == newKeyedOneShotRoute("MatchingSymbolsRequest", "SymbolSamples")
MarketRule == SingletonCall("market_rule", "MarketRuleRequest", "MarketRule")
StreamSecDefOptParams ==
    [shape |-> "finite", endless |-> FALSE, end |-> "SecDefOptParamsEnd"]
    @@ newKeyedSubscriptionRoute("SecDefOptParamsRequest", "none", {"SecDefOptParams"})
SmartComponents == newKeyedOneShotRoute("SmartComponentsRequest", "SmartComponents")

\* engine_historical.go
HistoricalBars ==
    [shape |-> "collect", end |-> "HistoricalDataEnd"] @@ Undone("courtesy", "CancelHistoricalData")
    @@ Over({"PrimaryExchange", "IncludeExpired", "ComboLegs"})
    @@ newKeyedOneShotRoute("HistoricalBarsRequest", "HistoricalData")
HistoricalSchedule ==
    Undone("courtesy", "CancelHistoricalData") @@ Over({"PrimaryExchange", "IncludeExpired", "ComboLegs"})
    @@ newKeyedOneShotRoute("HistoricalBarsRequest", "HistoricalSchedule")
HeadTimestamp ==
    Undone("courtesy", "CancelHeadTimestamp") @@ Over({"PrimaryExchange", "IncludeExpired"})
    @@ newKeyedOneShotRoute("HeadTimestampRequest", "HeadTimestamp")
SubscribeHistoricalBars ==
    [end |-> "HistoricalDataEnd", warns |-> TRUE] @@ Over({"PrimaryExchange", "IncludeExpired", "ComboLegs"})
    @@ newKeyedSubscriptionRoute("HistoricalBarsRequest", "CancelHistoricalData",
                                 {"HistoricalData", "HistoricalDataUpdate"})
HistogramData ==
    Undone("courtesy", "CancelHistogramData") @@ Over({"PrimaryExchange", "IncludeExpired"})
    @@ newKeyedOneShotRoute("HistogramDataRequest", "HistogramData")
\* One of three row types, by what the caller asked for (historicalTicksResponseKind).
TickResponses == {"HistoricalTicks", "HistoricalTicksBidAsk", "HistoricalTicksLast"}
HistoricalTicks(answer) ==
    [shape |-> "paged", cancelMin |-> 215, alien |-> TickResponses \ {answer}]
    @@ Undone("courtesy", "CancelHistoricalTicks") @@ Over({"PrimaryExchange", "IncludeExpired"})
    @@ newKeyedOneShotRoute("HistoricalTicksRequest", answer)

\* engine_marketdata.go
SetMarketDataType == awaitFireAndForget("ReqMarketDataType")
QuoteRows ==
    {"TickPrice", "TickSize", "MarketDataType", "TickGeneric", "TickString", "TickEFP", "DeltaNeutralValidation",
     "TickNews", "TickReqParams", "TickOptionComputation"}
subscribeQuotes ==
    [kind |-> "Quotes", end |-> "TickSnapshotEnd", reroute |-> "MarketDataReroute", warns |-> TRUE,
     resumes |-> TRUE, quote |-> TRUE] @@ Over(contractFieldsAll)
    @@ newKeyedSubscriptionRoute("QuoteRequest", "CancelQuote", QuoteRows)
\* Odd-lot quotes are a generic tick that newer servers know.
subscribeOddLotQuotes == [min |-> 225] @@ subscribeQuotes
quoteSnapshot == [resumes |-> FALSE, snapshot |-> TRUE, endless |-> FALSE] @@ subscribeQuotes
SubscribeRealTimeBars ==
    [warns |-> TRUE, resumes |-> TRUE] @@ Over({"PrimaryExchange"})
    @@ newKeyedSubscriptionRoute("RealTimeBarsRequest", "CancelRealTimeBars", {"RealTimeBars"})
SubscribeMarketDepth ==
    [kind |-> "MarketDepth", reroute |-> "MarketDepthReroute", warns |-> TRUE] @@ Over(contractFieldsAll)
    @@ newKeyedSubscriptionRoute("MarketDepthRequest", "CancelMarketDepth", {"MarketDepth", "MarketDepthL2"})
MktDepthExchanges == SingletonCall("mkt_depth_exchanges", "MktDepthExchangesRequest", "MktDepthExchanges")
SubscribeTickByTick ==
    [warns |-> TRUE] @@ Over({"PrimaryExchange"})
    @@ newKeyedSubscriptionRoute("TickByTickRequest", "CancelTickByTick", {"TickByTick"})
CalcImpliedVolatility ==
    [kind |-> "CalcImpliedVol"] @@ Undone("courtesy", "CancelCalcImpliedVolatility") @@ Over({"PrimaryExchange"})
    @@ newKeyedOneShotRoute("CalcImpliedVolatilityRequest", "TickOptionComputation")
CalcOptionPrice ==
    [kind |-> "CalcOptionPrice"] @@ Undone("courtesy", "CancelCalcOptionPrice") @@ Over({"PrimaryExchange"})
    @@ newKeyedOneShotRoute("CalcOptionPriceRequest", "TickOptionComputation")

\* engine_misc.go
CurrentTime == SingletonCall("current_time", "CurrentTimeRequest", "CurrentTime")
CurrentTimeMillis == SingletonCall("current_time_millis", "CurrentTimeMillisRequest", "CurrentTimeInMillis")
ScannerParameters == SingletonCall("scanner_parameters", "ScannerParametersRequest", "ScannerParameters")
UserInfo == newKeyedOneShotRoute("UserInfoRequest", "UserInfo")
Config == [min |-> 219] @@ newKeyedOneShotRoute("ConfigRequest", "Config")
SubscribeScannerResults ==
    [warns |-> TRUE]
    @@ newKeyedSubscriptionRoute("ScannerSubscriptionRequest", "CancelScannerSubscription", {"ScannerData"})
requestFA == [errs |-> TRUE] @@ SingletonCall("fa", "RequestFA", "ReceiveFA")
SoftDollarTiers == newKeyedOneShotRoute("SoftDollarTiersRequest", "SoftDollarTiers")
WSHMetaData ==
    Undone("cancel", "CancelWSHMetaData") @@ newKeyedOneShotRoute("WSHMetaDataRequest", "WSHMetaData")
WSHEventData ==
    Undone("cancel", "CancelWSHEventData") @@ newKeyedOneShotRoute("WSHEventDataRequest", "WSHEventData")
QueryDisplayGroups == newKeyedOneShotRoute("QueryDisplayGroupsRequest", "DisplayGroupList")
SubscribeDisplayGroup ==
    newKeyedSubscriptionRoute("SubscribeToGroupEventsRequest", "UnsubscribeFromGroupEventsRequest",
                              {"DisplayGroupUpdated"})
updateDisplayGroup == awaitFireAndForget("UpdateDisplayGroupRequest")

\* engine_news.go
NewsProviders == SingletonCall("news_providers", "NewsProvidersRequest", "NewsProviders")
SubscribeNewsBulletins ==
    newSingletonSubscriptionRoute("news_bulletins", "NewsBulletinsRequest", "CancelNewsBulletins", {"NewsBulletins"})
NewsArticle == newKeyedOneShotRoute("NewsArticleRequest", "NewsArticle")
HistoricalNews ==
    [shape |-> "collect", end |-> "HistoricalNewsEnd"] @@ newKeyedOneShotRoute("HistoricalNewsRequest", "HistoricalNews")

\* engine_orders.go
RefreshOrderID == [errs |-> TRUE] @@ SingletonCall("order_id", "ReqIDsRequest", "NextValidID")
OpenOrderRows == {"OpenOrder", "OrderStatus"}
\* Auto binds manual orders and has no snapshot; the other scopes have no cancel.
SubscribeOpenOrders(scope) ==
    IF scope = "OpenOrdersAuto"
    THEN newSingletonSubscriptionRoute("open_orders", scope, "CancelOpenOrders", OpenOrderRows \cup {"OrderBound"})
    ELSE [end |-> "OpenOrderEnd", endless |-> FALSE, refresh |-> TRUE, errs |-> scope = "OpenOrdersClient"]
         @@ newSingletonSubscriptionRoute("open_orders", scope, "none", OpenOrderRows)
subscribeExecutions ==
    [end |-> "ExecutionDataEnd", endless |-> FALSE]
    @@ newKeyedSubscriptionRoute("ExecutionsRequest", "none", {"ExecutionData"})
StreamCompletedOrders ==
    [shape |-> "finite", end |-> "CompletedOrderEnd", endless |-> FALSE, errs |-> TRUE]
    @@ newSingletonSubscriptionRoute("completed_orders", "CompletedOrdersRequest", "none", {"CompletedOrder"})
PlaceOrderCall == Over(contractFieldsAll) @@ awaitFireAndForget("PlaceOrderRequest")
CancelOrder == awaitFireAndForget("CancelOrderRequest")
GlobalCancel == awaitFireAndForget("GlobalCancelRequest")
ExerciseOptionsCall == Over({}) @@ awaitFireAndForget("ExerciseOptionsRequest")

\* order_convert.go: what an order may say.
toCodecPlaceOrder ==
    {"Action", "TotalQuantity", "OrderType", "LmtPrice", "AuxPrice", "TIF", "OcaGroup", "OcaType", "Account",
     "Origin", "OrderRef", "Transmit", "ParentID", "TriggerMethod", "OutsideRTH", "IncludeOvernight",
     "DisplaySize", "OrderComboLegPrices", "SmartComboRoutingParams", "ShortSaleSlot", "DesignatedLocation",
     "ExemptCode", "GoodAfterTime", "GoodTillDate", "AllOrNone", "MinQty", "StartingPrice", "StockRefPrice",
     "Delta", "StockRangeLower", "StockRangeUpper", "PercentOffset", "TrailStopPrice", "TrailingPercent",
     "ScaleInitLevelSize", "ScaleSubsLevelSize", "ScalePriceIncrement", "ScalePriceAdjustValue",
     "ScalePriceAdjustInterval", "ScaleProfitOffset", "ScaleAutoReset", "ScaleInitPosition", "ScaleInitFillQty",
     "ScaleRandomPercent", "ScaleTable", "ActiveStartTime", "ActiveStopTime", "HedgeType", "HedgeParam",
     "HedgeMaxSize", "AlgoStrategy", "AlgoParams", "Conditions", "ConditionsIgnoreRTH", "ConditionsCancelOrder",
     "ReferenceContractID", "PeggedChangeAmountDecrease", "PeggedChangeAmount", "ReferenceChangeAmount",
     "ReferenceExchangeID", "AdjustedOrderType", "TriggerPrice", "LmtPriceOffset", "AdjustedStopPrice",
     "AdjustedStopLimitPrice", "AdjustedTrailingAmount", "AdjustableTrailingUnit", "CashQty",
     "DontUseAutoPriceForHedge", "UsePriceMgmtAlgo", "AdvancedErrorOverride", "ManualOrderTime", "Deactivate",
     "PostOnly", "AllowPreOpen", "IgnoreOpenAuction", "RouteMarketableToBBO", "SeekPriceImprovement", "WhatIfType"}

Operations ==
    [AccountSummary |-> SubscribeAccountSummary, ManagedAccounts |-> ManagedAccounts,
     Positions |-> SubscribePositions, FamilyCodes |-> FamilyCodes, AccountUpdates |-> SubscribeAccountUpdates,
     AccountUpdatesMulti |-> SubscribeAccountUpdatesMulti, PositionsMulti |-> SubscribePositionsMulti,
     PnL |-> SubscribePnL, PnLSingle |-> SubscribePnLSingle, ContractDetails |-> StreamContractDetails,
     MatchingSymbols |-> MatchingSymbols, MarketRule |-> MarketRule, SecDefOptParams |-> StreamSecDefOptParams,
     SmartComponents |-> SmartComponents, HistoricalBars |-> HistoricalBars,
     HistoricalSchedule |-> HistoricalSchedule, HeadTimestamp |-> HeadTimestamp,
     HistoricalBarsStream |-> SubscribeHistoricalBars, HistogramData |-> HistogramData,
     HistoricalTicks |-> HistoricalTicks("HistoricalTicks"),
     HistoricalTicksBidAsk |-> HistoricalTicks("HistoricalTicksBidAsk"),
     HistoricalTicksLast |-> HistoricalTicks("HistoricalTicksLast"), MarketDataType |-> SetMarketDataType,
     Quotes |-> subscribeQuotes, OddLotQuotes |-> subscribeOddLotQuotes, QuoteSnapshot |-> quoteSnapshot,
     RealTimeBars |-> SubscribeRealTimeBars, MarketDepth |-> SubscribeMarketDepth,
     MktDepthExchanges |-> MktDepthExchanges, TickByTick |-> SubscribeTickByTick,
     CalcImpliedVolatility |-> CalcImpliedVolatility, CalcOptionPrice |-> CalcOptionPrice,
     CurrentTime |-> CurrentTime, CurrentTimeMillis |-> CurrentTimeMillis,
     ScannerParameters |-> ScannerParameters, UserInfo |-> UserInfo, Config |-> Config,
     Scanner |-> SubscribeScannerResults, RequestFA |-> requestFA, SoftDollarTiers |-> SoftDollarTiers,
     WSHMetaData |-> WSHMetaData, WSHEventData |-> WSHEventData, QueryDisplayGroups |-> QueryDisplayGroups,
     DisplayGroup |-> SubscribeDisplayGroup, UpdateDisplayGroup |-> updateDisplayGroup,
     NewsProviders |-> NewsProviders, NewsBulletins |-> SubscribeNewsBulletins, NewsArticle |-> NewsArticle,
     HistoricalNews |-> HistoricalNews, RefreshOrderID |-> RefreshOrderID,
     OpenOrdersClient |-> SubscribeOpenOrders("OpenOrdersClient"),
     OpenOrdersAuto |-> SubscribeOpenOrders("OpenOrdersAuto"), OpenOrdersAll |-> SubscribeOpenOrders("OpenOrdersAll"),
     Executions |-> subscribeExecutions, CompletedOrders |-> StreamCompletedOrders, PlaceOrder |-> PlaceOrderCall,
     CancelOrder |-> CancelOrder, GlobalCancel |-> GlobalCancel, ExerciseOptions |-> ExerciseOptionsCall]
==============================================================================
