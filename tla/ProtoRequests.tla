----------------------------- MODULE ProtoRequests -----------------------------
(***************************************************************************)
(* What the protobuf encoders of internal/codec write: the fields every       *)
(* message of a type carries and the ones it carries when the caller set the  *)
(* attribute.  An order with an attribute newer than the server, or without   *)
(* the one it belongs to, is refused (AttributeVersion, encodeOrderRefuses).  *)
(* Fields leave in the order of their numbers (canonicalProtoFields).         *)
(***************************************************************************)
EXTENDS ProtoMessages

Encoder(always, optional) == [always |-> always, optional |-> optional]

\* Messages whose body is a request ID, and messages without a body.
IDOnly ==
    {"CancelAccountSummary", "CancelPositionsMulti", "CancelAccountUpdatesMulti", "CancelContractData",
     "CancelHistoricalTicks", "ConfigRequest", "CancelHistoricalData", "CancelRealTimeBars",
     "CancelHeadTimestamp", "CancelHistogramData", "CancelTickByTick", "CancelQuote",
     "WSHMetaDataRequest", "CancelWSHMetaData", "CancelWSHEventData", "CancelCalcImpliedVolatility",
     "CancelCalcOptionPrice", "SoftDollarTiersRequest", "UserInfoRequest", "CancelScannerSubscription",
     "CancelPnL", "CancelPnLSingle", "QueryDisplayGroupsRequest", "UnsubscribeFromGroupEventsRequest"}
Bodyless ==
    {"ManagedAccountsRequest", "PositionsRequest", "CancelPositions", "CancelOpenOrders",
     "CancelNewsBulletins", "NewsProvidersRequest", "FamilyCodesRequest", "ScannerParametersRequest",
     "CurrentTimeRequest", "CurrentTimeMillisRequest", "MktDepthExchangesRequest"}

\* Contracts (codec_contracts_proto205.go, codec_orders_proto203.go).
encodeDeltaNeutralContractProto ==
    Encoder(Varint([ConID |-> 1]) \cup Double([Delta |-> 2, Price |-> 3]), {})
encodeComboLegProto ==
    Encoder(Varint([ConID |-> 1, Ratio |-> 2, OpenClose |-> 5, ShortSaleSlot |-> 6, ExemptCode |-> 8]),
            Bytes([Action |-> 3, Exchange |-> 4, DesignatedLocation |-> 7]) \cup Double([Price |-> 9]))
encodeSharedContractProto ==
    Encoder(Varint([ConID |-> 1]),
        Bytes([Symbol |-> 2, SecType |-> 3, Expiry |-> 4, Right |-> 6, Exchange |-> 8,
               PrimaryExchange |-> 9, Currency |-> 10, LocalSymbol |-> 11, TradingClass |-> 12,
               SecurityIDType |-> 13, SecurityID |-> 14, IssuerID |-> 16])
        \cup Double([Strike |-> 5, Multiplier |-> 7])
        \cup Nested([DeltaNeutral |-> 17], encodeDeltaNeutralContractProto)
        \cup Varint([IncludeExpired |-> 18])
        \cup Nested([ComboLegs |-> 20], encodeComboLegProto))
encodeOrderContractProto == encodeSharedContractProto
Contract(number) == Nested([Contract |-> number], encodeSharedContractProto)
ContractDetailsProto == Encoder(Varint([ReqID |-> 1]) \cup Contract(2), {})

\* Orders (codec_orders_proto203.go).
appendProtoMap == Encoder(Bytes([Tag |-> 1, Value |-> 2]), {})
\* What a condition of each type carries besides its type and conjunction.
ConditionFields(type) ==
    CASE type = 1 -> Varint([Operator |-> 3, ConID |-> 4, TriggerMethod |-> 11])
                     \cup Bytes([Exchange |-> 5]) \cup Double([Value |-> 10])
      [] type = 3 -> Varint([Operator |-> 3]) \cup Bytes([Value |-> 12])
      [] type = 4 -> Varint([Operator |-> 3, Value |-> 8])
      [] type = 5 -> Bytes([Exchange |-> 5, Symbol |-> 6, SecType |-> 7])
      [] type = 6 -> Varint([Operator |-> 3, ConID |-> 4, Value |-> 13]) \cup Bytes([Exchange |-> 5])
      [] type = 7 -> Varint([Operator |-> 3, ConID |-> 4]) \cup Bytes([Exchange |-> 5])
                     \cup Double([Value |-> 9])
encodeOrderConditionProto(type) ==
    LET body == ConditionFields(type)
        ifSet == {f \in body : f.wire = "bytes" /\ f.attr # "Value"}
    IN  Encoder(Varint([Type |-> 1, Conjunction |-> 2]) \cup (body \ ifSet), ifSet)
SentStrings ==
    Bytes([Action |-> 5, TotalQuantity |-> 6, OrderType |-> 8, TIF |-> 11, Account |-> 12,
           SettlingFirm |-> 13, ClearingAccount |-> 14, ClearingIntent |-> 15, GoodAfterTime |-> 25,
           GoodTillDate |-> 26, OcaGroup |-> 27, OrderRef |-> 28, Rule80A |-> 29,
           ActiveStartTime |-> 32, ActiveStopTime |-> 33, FAGroup |-> 34, FAMethod |-> 35,
           FAPercentage |-> 36, DeltaNeutralOrderType |-> 41, ScaleTable |-> 58, HedgeType |-> 59,
           HedgeParam |-> 60, AlgoStrategy |-> 61, AlgoID |-> 63, OpenClose |-> 68,
           DesignatedLocation |-> 71, ReferenceExchangeID |-> 92, AdjustedOrderType |-> 93,
           ModelCode |-> 103, ExtOperator |-> 104, Mifid2DecisionMaker |-> 107,
           Mifid2DecisionAlgo |-> 108, Mifid2ExecutionTrader |-> 109, Mifid2ExecutionAlgo |-> 110,
           AdvancedErrorOverride |-> 125, ManualOrderTime |-> 126, CustomerAccount |-> 132])
SentNumbers ==
    Varint([ParentID |-> 4, DisplaySize |-> 7, MinQty |-> 24, OcaType |-> 30, TriggerMethod |-> 31,
            VolatilityType |-> 38, ReferencePriceType |-> 40, ScaleInitLevelSize |-> 48,
            ScaleSubsLevelSize |-> 49, ScalePriceAdjustInterval |-> 52, ScaleInitPosition |-> 55,
            ScaleInitFillQty |-> 56, Origin |-> 69, ShortSaleSlot |-> 70, ExemptCode |-> 72,
            AdjustableTrailingUnit |-> 98, ReferenceContractID |-> 88, UsePriceMgmtAlgo |-> 122,
            Duration |-> 123, PostToAts |-> 124, ManualOrderIndicator |-> 136,
            RouteMarketableToBBO |-> 120, SeekPriceImprovement |-> 142, WhatIfType |-> 143,
            HedgeMaxSize |-> 144])
SentPrices ==
    Double([LmtPrice |-> 9, AuxPrice |-> 10, PercentOffset |-> 21, TrailingPercent |-> 22,
            TrailStopPrice |-> 23, Volatility |-> 37, DeltaNeutralAuxPrice |-> 42,
            ScalePriceIncrement |-> 50, ScalePriceAdjustValue |-> 51, ScaleProfitOffset |-> 53,
            DiscretionaryAmt |-> 76, StartingPrice |-> 78, StockRefPrice |-> 79, Delta |-> 80,
            StockRangeLower |-> 81, StockRangeUpper |-> 82, PeggedChangeAmount |-> 89,
            ReferenceChangeAmount |-> 91, TriggerPrice |-> 94, AdjustedStopPrice |-> 95,
            AdjustedStopLimitPrice |-> 96, AdjustedTrailingAmount |-> 97, LmtPriceOffset |-> 99,
            CashQty |-> 106])
\* Flags: written when "1", except IncludeOvernight, written when set.
SentFlags ==
    Varint([AllOrNone |-> 16, BlockOrder |-> 17, Hidden |-> 18, OutsideRTH |-> 19, SweepToFill |-> 20,
            ContinuousUpdate |-> 39, ScaleAutoReset |-> 54, ScaleRandomPercent |-> 57, WhatIf |-> 65,
            Transmit |-> 66, OverridePercentageConstraints |-> 67, OptOutSmartRouting |-> 77,
            NotHeld |-> 83, Solicited |-> 85, RandomizeSize |-> 86, RandomizePrice |-> 87,
            PeggedChangeAmountDecrease |-> 90, ConditionsCancelOrder |-> 101,
            ConditionsIgnoreRTH |-> 102, DontUseAutoPriceForHedge |-> 111, IsOmsContainer |-> 112,
            DiscretionaryUpToLimitPrice |-> 113, AutoCancelParent |-> 117, ImbalanceOnly |-> 119,
            ProfessionalCustomer |-> 133, IncludeOvernight |-> 135, Deactivate |-> 138,
            PostOnly |-> 139, AllowPreOpen |-> 140, IgnoreOpenAuction |-> 141])
SoftDollar == Encoder({}, Bytes([SoftDollarName |-> 1, SoftDollarValue |-> 2]))
encodeOrderProto ==
    Encoder(Nested([SoftDollar |-> 105], SoftDollar),
        SentStrings \cup SentNumbers \cup SentPrices \cup SentFlags
        \cup Nested([AlgoParams |-> 62, SmartComboRoutingParams |-> 64], appendProtoMap)
        \cup Nested([Conditions |-> 100], encodeOrderConditionProto(1)))
\* Algorithm parameters need a strategy; misc options have no protobuf form.
encodeOrderRefuses(set) ==
    \/ "AlgoParams" \in set /\ "AlgoStrategy" \notin set
    \/ "OrderMiscOptions" \in set
encodeAttachedOrdersProto ==
    Encoder({}, Varint([AttachedStopLossOrderID |-> 1, AttachedTakeProfitOrderID |-> 3])
        \cup Bytes([AttachedStopLossOrderType |-> 2, AttachedTakeProfitOrderType |-> 4]))
PlaceOrderProto ==
    Encoder(Varint([OrderID |-> 1]) \cup Nested([Contract |-> 2], encodeOrderContractProto)
        \cup Nested([Order |-> 3], encodeOrderProto)
        \cup Nested([Attached |-> 4], encodeAttachedOrdersProto), {})
\* The server version each newer order attribute needs.
AttributeVersion(attr) ==
    CASE attr \in {"Deactivate", "PostOnly", "AllowPreOpen", "IgnoreOpenAuction"} -> 216
      [] attr \in {"RouteMarketableToBBO", "SeekPriceImprovement", "WhatIfType"} -> 217
      [] attr \in {f.attr : f \in encodeAttachedOrdersProto.optional} -> 218
      [] attr = "HedgeMaxSize" -> 223
      [] OTHER -> 0
encodeOrderCancelProto ==
    Encoder({}, Bytes([ManualOrderCancelTime |-> 1, ExtOperator |-> 2]) \cup Varint([ManualOrderIndicator |-> 3]))
CancelOrderProto == Encoder(Varint([OrderID |-> 1]) \cup Nested([Cancel |-> 2], encodeOrderCancelProto), {})
GlobalCancelProto == Encoder(Nested([Cancel |-> 1], encodeOrderCancelProto), {})
OpenOrdersProto == Encoder({}, Varint([AutoBind |-> 1]))
CompletedOrdersProto == Encoder({}, Varint([APIOnly |-> 1]))
ExecutionFilter ==
    Encoder({}, Varint([ClientID |-> 1, LastNDays |-> 8])
        \cup Bytes([Account |-> 2, Time |-> 3, Symbol |-> 4, SecType |-> 5, Exchange |-> 6, Side |-> 7,
                    SpecificDates |-> 9]))
\* The filter is present even when it is empty.
ExecutionsProto == Encoder(Varint([ReqID |-> 1]) \cup Nested([Filter |-> 2], ExecutionFilter), {})

\* Accounts (codec_account_proto207.go, codec_scanner_proto210.go).
AccountUpdatesProto == Encoder({}, Varint([Subscribe |-> 1]) \cup Bytes([Account |-> 2]))
AccountSummaryProto == Encoder(Varint([ReqID |-> 1]), Bytes([Account |-> 2, Tags |-> 3]))
PositionsMultiProto == Encoder(Varint([ReqID |-> 1]), Bytes([Account |-> 2, ModelCode |-> 3]))
AccountUpdatesMultiProto ==
    Encoder(Varint([ReqID |-> 1]), Bytes([Account |-> 2, ModelCode |-> 3]) \cup Varint([LedgerAndNLV |-> 4]))
PnLProto == Encoder(Varint([ReqID |-> 1]), Bytes([Account |-> 2, ModelCode |-> 3]))
PnLSingleProto ==
    Encoder(Varint([ReqID |-> 1, ConID |-> 4]), Bytes([Account |-> 2, ModelCode |-> 3]))

\* Market data and history (codec_marketdata_proto206.go, codec_historical_proto208.go).
QuoteProto ==
    Encoder(Varint([ReqID |-> 1]) \cup Contract(2),
            Bytes([GenericTicks |-> 3]) \cup Varint([Snapshot |-> 4, RegulatorySnapshot |-> 5]))
MarketDepthProto ==
    Encoder(Varint([ReqID |-> 1, NumRows |-> 3]) \cup Contract(2), Varint([IsSmartDepth |-> 4]))
CancelMarketDepthProto == Encoder(Varint([ReqID |-> 1]), Varint([IsSmartDepth |-> 2]))
MarketDataTypeProto == Encoder(Varint([DataType |-> 1]), {})
historicalRequestProto == Varint([ReqID |-> 1]) \cup Contract(2)
HistoricalBarsProto ==
    Encoder(historicalRequestProto \cup Varint([FormatDate |-> 8]),
            Bytes([EndDateTime |-> 3, BarSize |-> 4, Duration |-> 5, WhatToShow |-> 7])
            \cup Varint([UseRTH |-> 6, KeepUpToDate |-> 9]))
RealTimeBarsProto ==
    Encoder(historicalRequestProto \cup Varint([BarSize |-> 3]),
            Bytes([WhatToShow |-> 4]) \cup Varint([UseRTH |-> 5]))
HeadTimestampProto ==
    Encoder(historicalRequestProto \cup Varint([FormatDate |-> 5]),
            Bytes([WhatToShow |-> 4]) \cup Varint([UseRTH |-> 3]))
HistogramDataProto == Encoder(historicalRequestProto, Varint([UseRTH |-> 3]) \cup Bytes([Period |-> 4]))
HistoricalTicksProto ==
    Encoder(historicalRequestProto \cup Varint([NumberOfTicks |-> 5]),
            Bytes([StartDateTime |-> 3, EndDateTime |-> 4, WhatToShow |-> 6])
            \cup Varint([UseRTH |-> 7, IgnoreSize |-> 8]))
TickByTickProto ==
    Encoder(historicalRequestProto \cup Varint([NumberOfTicks |-> 4]),
            Bytes([TickType |-> 3]) \cup Varint([IgnoreSize |-> 5]))

\* Options and advisors (codec_options_proto211.go).
calculationRequestProto == Varint([ReqID |-> 1]) \cup Contract(2)
CalcImpliedVolatilityProto ==
    Encoder(calculationRequestProto \cup Double([OptionPrice |-> 3, UnderPrice |-> 4]), {})
CalcOptionPriceProto ==
    Encoder(calculationRequestProto \cup Double([Volatility |-> 3, UnderPrice |-> 4]), {})
ExerciseOptionsProto ==
    Encoder(Varint([ReqID |-> 1, ExerciseAction |-> 3, ExerciseQuantity |-> 4]) \cup Contract(2),
            Bytes([Account |-> 5]) \cup Varint([Override |-> 6]))
RequestFAProto == Encoder(Varint([FADataType |-> 1]), {})

\* News, calendar and reference data (codec_news_proto209.go, codec_reference_proto212.go).
NewsBulletinsProto == Encoder({}, Varint([AllMessages |-> 1]))
NewsArticleProto == Encoder(Varint([ReqID |-> 1]), Bytes([ProviderCode |-> 2, ArticleID |-> 3]))
HistoricalNewsProto ==
    Encoder(Varint([ReqID |-> 1, ConID |-> 2, TotalResults |-> 6]),
            Bytes([ProviderCodes |-> 3, StartDate |-> 4, EndDate |-> 5]))
WSHEventDataProto ==
    Encoder(Varint([ReqID |-> 1, ConID |-> 2]),
            Bytes([Filter |-> 3, StartDate |-> 7, EndDate |-> 8])
            \cup Varint([FillWatchlist |-> 4, FillPortfolio |-> 5, FillCompetitors |-> 6, TotalLimit |-> 9]))
SecDefOptParamsProto ==
    Encoder(Varint([ReqID |-> 1, UnderlyingConID |-> 5]),
            Bytes([UnderlyingSymbol |-> 2, FutFopExchange |-> 3, UnderlyingSecType |-> 4]))
MatchingSymbolsProto == Encoder(Varint([ReqID |-> 1]), Bytes([Pattern |-> 2]))
SmartComponentsProto == Encoder(Varint([ReqID |-> 1]), Bytes([BBOExchange |-> 2]))
MarketRuleProto == Encoder(Varint([MarketRuleID |-> 1]), {})

\* Scanner and session (codec_scanner_proto210.go, codec_session_proto213.go).
encodeScannerSubscriptionProto ==
    Encoder({}, Varint([NumberOfRows |-> 1, AboveVolume |-> 7, ExcludeConvertible |-> 18,
                        AverageOptionVolumeAbove |-> 19])
        \cup Bytes([Instrument |-> 2, LocationCode |-> 3, ScanCode |-> 4, MoodyRatingAbove |-> 10,
                    MoodyRatingBelow |-> 11, SPRatingAbove |-> 12, SPRatingBelow |-> 13,
                    MaturityDateAbove |-> 14, MaturityDateBelow |-> 15, ScannerSettingPairs |-> 20,
                    StockTypeFilter |-> 21])
        \cup Double([AbovePrice |-> 5, BelowPrice |-> 6, MarketCapAbove |-> 8, MarketCapBelow |-> 9,
                     CouponRateAbove |-> 16, CouponRateBelow |-> 17])
        \cup Nested([FilterOptions |-> 22, SubscriptionOptions |-> 23], appendProtoMap))
ScannerSubscriptionProto ==
    Encoder(Varint([ReqID |-> 1]) \cup Nested([Subscription |-> 2], encodeScannerSubscriptionProto), {})
StartAPIProto == Encoder(Varint([ClientID |-> 1]), Bytes([OptionalCapabilities |-> 2]))
ReqIDsProto == Encoder(Varint([NumIDs |-> 1]), {})
SubscribeToGroupEventsProto == Encoder(Varint([ReqID |-> 1, GroupID |-> 2]), {})
UpdateDisplayGroupProto == Encoder(Varint([ReqID |-> 1]), Bytes([ContractInfo |-> 2]))

-----------------------------------------------------------------------------
\* The encoder of each message type.
protobufEncoders ==
    [m \in IDOnly |-> Encoder(Varint([ReqID |-> 1]), {})]
    @@ [m \in Bodyless |-> Encoder({}, {})]
    @@ [PlaceOrderRequest |-> PlaceOrderProto, CancelOrderRequest |-> CancelOrderProto,
        GlobalCancelRequest |-> GlobalCancelProto, OpenOrdersRequest |-> OpenOrdersProto,
        CompletedOrdersRequest |-> CompletedOrdersProto, ExecutionsRequest |-> ExecutionsProto,
        AccountUpdatesRequest |-> AccountUpdatesProto, AccountSummaryRequest |-> AccountSummaryProto,
        ContractDetailsRequest |-> ContractDetailsProto, PositionsMultiRequest |-> PositionsMultiProto,
        AccountUpdatesMultiRequest |-> AccountUpdatesMultiProto, PnLRequest |-> PnLProto,
        PnLSingleRequest |-> PnLSingleProto, QuoteRequest |-> QuoteProto,
        MarketDepthRequest |-> MarketDepthProto, CancelMarketDepth |-> CancelMarketDepthProto,
        ReqMarketDataType |-> MarketDataTypeProto, HistoricalBarsRequest |-> HistoricalBarsProto,
        RealTimeBarsRequest |-> RealTimeBarsProto, HeadTimestampRequest |-> HeadTimestampProto,
        HistogramDataRequest |-> HistogramDataProto, HistoricalTicksRequest |-> HistoricalTicksProto,
        TickByTickRequest |-> TickByTickProto,
        CalcImpliedVolatilityRequest |-> CalcImpliedVolatilityProto,
        CalcOptionPriceRequest |-> CalcOptionPriceProto, ExerciseOptionsRequest |-> ExerciseOptionsProto,
        RequestFA |-> RequestFAProto, NewsBulletinsRequest |-> NewsBulletinsProto,
        NewsArticleRequest |-> NewsArticleProto, HistoricalNewsRequest |-> HistoricalNewsProto,
        WSHEventDataRequest |-> WSHEventDataProto, SecDefOptParamsRequest |-> SecDefOptParamsProto,
        MatchingSymbolsRequest |-> MatchingSymbolsProto, SmartComponentsRequest |-> SmartComponentsProto,
        MarketRuleRequest |-> MarketRuleProto, ScannerSubscriptionRequest |-> ScannerSubscriptionProto,
        StartAPI |-> StartAPIProto, ReqIDsRequest |-> ReqIDsProto,
        SubscribeToGroupEventsRequest |-> SubscribeToGroupEventsProto,
        UpdateDisplayGroupRequest |-> UpdateDisplayGroupProto]
==============================================================================
