----------------------------- MODULE ProtoMessages -----------------------------
(***************************************************************************)
(* What the protobuf decoders of internal/codec read.  A decoder is the set   *)
(* of fields it consumes -- number, wire type, the attribute it assigns and,  *)
(* for a nested message, the decoder it calls -- and what it does when an     *)
(* attribute it needs is absent.  ProtoBody.tla runs them.                    *)
(***************************************************************************)
EXTENDS Naturals, FiniteSets, TLC

Field(numbers, wire, sub) ==
    {[num |-> numbers[a], wire |-> wire, attr |-> a, sub |-> sub] : a \in DOMAIN numbers}

Varint(numbers) == Field(numbers, "varint", {})
Double(numbers) == Field(numbers, "fixed64", {})
Bytes(numbers) == Field(numbers, "bytes", {})
\* consumeProtoRepeatedDoubles takes one double or a packed list.
Doubles(numbers) == Double(numbers) \cup Bytes(numbers)
\* A message inside the message, read by its own decoder.
Nested(numbers, decoder) == Field(numbers, "bytes", {decoder})

\* Every attribute has a default; needed ones make the decoder return nothing
\* (nil, nil) or an error when they are absent.
Decoder(fields) == [fields |-> fields, needs |-> {}, absent |-> "dropped"]
Dropped(fields, needs) == [fields |-> fields, needs |-> needs, absent |-> "dropped"]
Refused(fields, needs) == [fields |-> fields, needs |-> needs, absent |-> "malformed"]

\* Gateway configuration (codec_config_proto219.go).
decodeLockAndExitConfigProto ==
    Decoder(Bytes([AutoLogoffTime |-> 1, AutoLogoffPeriod |-> 2, AutoLogoffType |-> 3]))
decodeMessageConfigProto ==
    Decoder(Varint([ID |-> 1, Enabled |-> 5])
        \cup Bytes([Title |-> 2, Message |-> 3, DefaultAction |-> 4]))
decodeAPIPrecautionsConfigProto ==
    Decoder(Varint([BypassOrderPrecautions |-> 1, BondWarning |-> 2,
                    NegativeYieldConfirmation |-> 3, CalledBondWarning |-> 4,
                    SameActionPairTradeWarning |-> 5, FlaggedAccountsWarning |-> 6,
                    PriceBasedVolatilityWarning |-> 7, RedirectOrderWarning |-> 8,
                    NoOverfillProtection |-> 9, RouteMarketableToBBO |-> 10]))
decodeAPISettingsConfigProto ==
    Decoder(Varint([ReadOnlyAPI |-> 1, TotalQuantityForMutualFunds |-> 2,
                    DownloadOpenOrdersOnConnection |-> 3, IncludeVirtualFXPositions |-> 4,
                    PrepareDailyPnL |-> 5, SendStatusUpdatesForVolatilityOrders |-> 6,
                    UseNegativeAutoRange |-> 9, CreateAPIMessageLogFile |-> 10,
                    IncludeMarketDataInLogFile |-> 11, ExposeTradingScheduleToAPI |-> 12,
                    SplitInsuredDepositFromCashBalance |-> 13, SendZeroPositionsForTodayOnly |-> 14,
                    LetAPIAccountRequestsSwitchSubscription |-> 15,
                    UseAccountGroupsWithAllocationMethods |-> 16,
                    ShowForexDataInOneTenthPips |-> 21, AllowForexTradingInOneTenthPips |-> 22,
                    RoundAccountValuesToNearestWholeNumber |-> 23,
                    SendMarketDataInLotsForUSStocks |-> 24, ShowAdvancedOrderRejectInUI |-> 25,
                    RejectMessagesAboveMaxRate |-> 26, MaintainConnectionOnIncorrectFields |-> 27,
                    CompatibilityModeNASDAQStocks |-> 28, SendForexDataInCompatibilityMode |-> 30,
                    MaintainAndResubmitOrdersOnReconnect |-> 31,
                    AutoReportNettingEventContractTrades |-> 33, AllowLocalhostOnly |-> 35,
                    SocketPort |-> 8, MasterClientID |-> 18, BulkDataTimeout |-> 19,
                    HistoricalDataMaxSize |-> 32])
        \cup Bytes([EncodeAPIMessages |-> 7, LoggingLevel |-> 17, ComponentExchangeSeparator |-> 20,
                    SendInstrumentTimezone |-> 29, OptionExerciseRequestType |-> 34,
                    TrustedIPs |-> 36]))
decodeAPIConfigProto ==
    Decoder(Nested([Precautions |-> 1], decodeAPIPrecautionsConfigProto)
        \cup Nested([Settings |-> 2], decodeAPISettingsConfigProto))
decodeOrdersSmartRoutingConfigProto ==
    Decoder(Varint([SeekPriceImprovement |-> 1, PreOpenReroute |-> 2, DoNotRouteToDarkPools |-> 3])
        \cup Bytes([DefaultAlgorithm |-> 4]))
decodeOrdersConfigProto ==
    Decoder(Nested([SmartRouting |-> 1], decodeOrdersSmartRoutingConfigProto))
decodeConfigResponseProto ==
    Decoder(Varint([ReqID |-> 1])
        \cup Nested([LockAndExit |-> 2], decodeLockAndExitConfigProto)
        \cup Nested([Messages |-> 3], decodeMessageConfigProto)
        \cup Nested([API |-> 4], decodeAPIConfigProto)
        \cup Nested([Orders |-> 5], decodeOrdersConfigProto))

\* Open orders (codec_orders_proto203.go).
decodeOrderStatusProto ==
    Decoder(Varint([OrderID |-> 1, PermID |-> 6, ParentID |-> 7, ClientID |-> 9])
        \cup Bytes([Status |-> 2, Filled |-> 3, Remaining |-> 4, WhyHeld |-> 10])
        \cup Double([AvgFillPrice |-> 5, LastFillPrice |-> 8, MktCapPrice |-> 11]))
decodeDeltaNeutralContractProto ==
    Decoder(Varint([ConID |-> 1]) \cup Double([Delta |-> 2, Price |-> 3]))
decodeComboLegProto ==
    Decoder(Varint([ConID |-> 1, Ratio |-> 2, OpenClose |-> 5, ShortSaleSlot |-> 6,
                    ExemptCode |-> 8])
        \cup Bytes([Action |-> 3, Exchange |-> 4, DesignatedLocation |-> 7])
        \cup Double([Price |-> 9]))
decodeSharedContractProto ==
    Decoder(Varint([ConID |-> 1, IncludeExpired |-> 18])
        \cup Bytes([Symbol |-> 2, SecType |-> 3, Expiry |-> 4, Right |-> 6, Exchange |-> 8,
                    PrimaryExchange |-> 9, Currency |-> 10, LocalSymbol |-> 11, TradingClass |-> 12,
                    SecurityIDType |-> 13, SecurityID |-> 14, Description |-> 15, IssuerID |-> 16,
                    ComboLegsDescription |-> 19, LastTradeDate |-> 21])
        \cup Double([Strike |-> 5, Multiplier |-> 7])
        \cup Nested([DeltaNeutral |-> 17], decodeDeltaNeutralContractProto)
        \cup Nested([ComboLegs |-> 20], decodeComboLegProto))
decodeOpenOrderContractProto == decodeSharedContractProto
decodeProtoMapEntry == Decoder(Bytes([Tag |-> 1, Value |-> 2]))
\* Value has a number for each type of condition; a type outside 1, 3..7 is refused.
decodeOrderConditionProto ==
    Refused(Varint([Type |-> 1, Conjunction |-> 2, Operator |-> 3, ConID |-> 4, TriggerMethod |-> 11])
        \cup Bytes([Exchange |-> 5, Symbol |-> 6, SecType |-> 7, Value |-> 12])
        \cup Varint([Value |-> 8]) \cup Varint([Value |-> 13])
        \cup Double([Value |-> 9]) \cup Double([Value |-> 10]), {"Type"})
OrderNumbers ==
    Varint([ClientID |-> 1, OrderID |-> 2, PermID |-> 3, ParentID |-> 4, DisplaySize |-> 7,
            AllOrNone |-> 16, Hidden |-> 18, OutsideRTH |-> 19, SweepToFill |-> 20, MinQty |-> 24,
            OcaType |-> 30, TriggerMethod |-> 31, VolatilityType |-> 38, ContinuousUpdate |-> 39,
            ReferencePriceType |-> 40, DeltaNeutralConID |-> 43, DeltaNeutralShortSale |-> 45,
            DeltaNeutralShortSaleSlot |-> 46, ScaleInitLevelSize |-> 48, ScaleSubsLevelSize |-> 49,
            ScalePriceAdjustInterval |-> 52, ScaleAutoReset |-> 54, ScaleInitPosition |-> 55,
            ScaleInitFillQty |-> 56, ScaleRandomPercent |-> 57, WhatIf |-> 65, Transmit |-> 66,
            Origin |-> 69, ShortSaleSlot |-> 70, ExemptCode |-> 72, NotHeld |-> 83,
            Solicited |-> 85, RandomizeSize |-> 86, RandomizePrice |-> 87,
            ReferenceContractID |-> 88, PeggedChangeAmountDecrease |-> 90,
            AdjustableTrailingUnit |-> 98, ConditionsCancelOrder |-> 101,
            ConditionsIgnoreRTH |-> 102, DontUseAutoPriceForHedge |-> 111, IsOMSContainer |-> 112,
            RefFuturesConID |-> 116, AutoCancelParent |-> 117, ImbalanceOnly |-> 119,
            RouteMarketableToBBO |-> 120, ParentPermID |-> 121, UsePriceMgmtAlgo |-> 122,
            MinTradeQty |-> 127, MinCompeteSize |-> 128, ProfessionalCustomer |-> 133,
            IncludeOvernight |-> 135, Deactivate |-> 138, PostOnly |-> 139, AllowPreOpen |-> 140,
            IgnoreOpenAuction |-> 141, SeekPriceImprovement |-> 142, WhatIfType |-> 143,
            HedgeMaxSize |-> 144])
OrderStrings ==
    Bytes([Action |-> 5, Quantity |-> 6, OrderType |-> 8, TIF |-> 11, Account |-> 12,
           SettlingFirm |-> 13, ClearingAccount |-> 14, ClearingIntent |-> 15, GoodAfterTime |-> 25,
           GoodTillDate |-> 26, OcaGroup |-> 27, OrderRef |-> 28, Rule80A |-> 29,
           ActiveStartTime |-> 32, ActiveStopTime |-> 33, FAGroup |-> 34, FAMethod |-> 35,
           FAPercentage |-> 36, DeltaNeutralOrderType |-> 41, DeltaNeutralDesignatedLocation |-> 47,
           ScaleTable |-> 58, HedgeType |-> 59, HedgeParam |-> 60, AlgoStrategy |-> 61,
           OpenClose |-> 68, DesignatedLocation |-> 71, ReferenceExchangeID |-> 92,
           AdjustedOrderType |-> 93, ModelCode |-> 103, AutoCancelDate |-> 114, Filled |-> 115,
           Shareholder |-> 118, AdvancedErrorOverride |-> 125, ManualOrderTime |-> 126,
           CustomerAccount |-> 132, Submitter |-> 137])
OrderPrices ==
    Double([LmtPrice |-> 9, AuxPrice |-> 10, PercentOffset |-> 21, TrailingPercent |-> 22,
            TrailStopPrice |-> 23, Volatility |-> 37, DeltaNeutralAuxPrice |-> 42,
            ScalePriceIncrement |-> 50, ScalePriceAdjustValue |-> 51, ScaleProfitOffset |-> 53,
            DiscretionAmt |-> 76, StartingPrice |-> 78, StockRefPrice |-> 79, Delta |-> 80,
            StockRangeLower |-> 81, StockRangeUpper |-> 82, PeggedChangeAmount |-> 89,
            ReferenceChangeAmount |-> 91, TriggerPrice |-> 94, AdjustedStopPrice |-> 95,
            AdjustedStopLimitPrice |-> 96, AdjustedTrailingAmount |-> 97, LmtPriceOffset |-> 99,
            CashQty |-> 106, CompeteAgainstBestOffset |-> 129, MidOffsetAtWhole |-> 130,
            MidOffsetAtHalf |-> 131])
decodeOrderDetailsProto ==
    Decoder(OrderNumbers \cup OrderStrings \cup OrderPrices
        \cup Nested([AlgoParams |-> 62, SmartComboRouting |-> 64], decodeProtoMapEntry)
        \cup Nested([Conditions |-> 100], decodeOrderConditionProto))
decodeOpenOrderOrderProto == decodeOrderDetailsProto
decodeOrderAllocationProto ==
    Decoder(Varint([IsMonetary |-> 7])
        \cup Bytes([Account |-> 1, Position |-> 2, PositionDesired |-> 3, PositionAfter |-> 4,
                    DesiredAllocQty |-> 5, AllowedAllocQty |-> 6]))
decodeOpenOrderStateProto ==
    Decoder(Bytes([Status |-> 1, CommissionCurrency |-> 14, MarginCurrency |-> 15,
                   SuggestedSize |-> 25, RejectReason |-> 26, WarningText |-> 28])
        \cup Double([InitMarginBefore |-> 2, MaintMarginBefore |-> 3, EquityWithLoanBefore |-> 4,
                     InitMarginChange |-> 5, MaintMarginChange |-> 6, EquityWithLoanChange |-> 7,
                     InitMarginAfter |-> 8, MaintMarginAfter |-> 9, EquityWithLoanAfter |-> 10,
                     Commission |-> 11, MinCommission |-> 12, MaxCommission |-> 13,
                     InitMarginBeforeOutsideRTH |-> 16, MaintMarginBeforeOutsideRTH |-> 17,
                     EquityWithLoanBeforeOutsideRTH |-> 18, InitMarginChangeOutsideRTH |-> 19,
                     MaintMarginChangeOutsideRTH |-> 20, EquityWithLoanChangeOutsideRTH |-> 21,
                     InitMarginAfterOutsideRTH |-> 22, MaintMarginAfterOutsideRTH |-> 23,
                     EquityWithLoanAfterOutsideRTH |-> 24])
        \cup Nested([Allocations |-> 27], decodeOrderAllocationProto))
decodeOpenOrderProto ==
    Refused(Varint([OrderID |-> 1])
        \cup Nested([Contract |-> 2], decodeOpenOrderContractProto)
        \cup Nested([Order |-> 3], decodeOpenOrderOrderProto)
        \cup Nested([OrderState |-> 4], decodeOpenOrderStateProto), {"Contract", "Order", "OrderState"})
decodeOrderBoundProto == Decoder(Varint([PermID |-> 1, ClientID |-> 2, OrderID |-> 3]))

\* Contracts (codec_contracts_proto205.go).
decodeIneligibilityReasonProto == Decoder(Bytes([ID |-> 1, Description |-> 2]))
DetailsNumbers ==
    Varint([PriceMagnifier |-> 5, UnderConID |-> 6, AggGroup |-> 18, Closed |-> 34,
            ClosedForNewInvestors |-> 35, ClosedForNewMoney |-> 36, Convertible |-> 50,
            Callable |-> 51, Putable |-> 52, NextOptionPartial |-> 56])
DetailsStrings ==
    Bytes([MarketName |-> 1, MinTick |-> 2, OrderTypes |-> 3, ValidExchanges |-> 4, LongName |-> 7,
           ContractMonth |-> 8, Industry |-> 9, Category |-> 10, Subcategory |-> 11,
           TimeZoneID |-> 12, TradingHours |-> 13, LiquidHours |-> 14, EconomicValueRule |-> 15,
           UnderSymbol |-> 19, UnderSecType |-> 20, MarketRuleIDs |-> 21, RealExpirationDate |-> 22,
           StockType |-> 23, MinSize |-> 24, SizeIncrement |-> 25, SuggestedSizeIncrement |-> 26,
           Name |-> 27, Family |-> 28, Type |-> 29, FrontLoad |-> 30, BackLoad |-> 31,
           BackLoadTimeInterval |-> 32, ManagementFee |-> 33, NotifyAmount |-> 37,
           MinimumInitialPurchase |-> 38, MinimumSubsequentPurchase |-> 39, BlueSkyStates |-> 40,
           BlueSkyTerritories |-> 41, DistributionPolicy |-> 42, AssetType |-> 43, CUSIP |-> 44,
           IssueDate |-> 45, Ratings |-> 46, BondType |-> 47, CouponType |-> 49,
           DescriptionAppend |-> 53, NextOptionDate |-> 54, NextOptionType |-> 55, Notes |-> 57,
           EventContract1 |-> 59, EventContractDescription1 |-> 60,
           EventContractDescription2 |-> 61, MinAlgoSize |-> 62, LastPricePrecision |-> 63,
           LastSizePrecision |-> 64, SettlementMethod |-> 65])
DetailsPrices ==
    Double([EconomicValueMultiplier |-> 16, Coupon |-> 48])
decodeContractDetailsProto ==
    Decoder(DetailsNumbers \cup DetailsStrings \cup DetailsPrices
        \cup Nested([SecurityIDs |-> 17], decodeProtoMapEntry)
        \cup Nested([IneligibilityReasons |-> 58], decodeIneligibilityReasonProto))
decodeContractDataMessageProto ==
    Refused(Varint([ReqID |-> 1])
        \cup Nested([Contract |-> 2], decodeSharedContractProto)
        \cup Nested([Details |-> 3], decodeContractDetailsProto), {"ReqID", "Contract", "Details"})
decodeContractDataProto == decodeContractDataMessageProto
decodeBondContractDataProto == decodeContractDataMessageProto
decodeContractDataEndProto == Refused(Varint([ReqID |-> 1]), {"ReqID"})

\* Completed orders (codec_orders_proto204.go).
decodeCompletedOrderContractProto == decodeSharedContractProto
decodeCompletedOrderOrderProto == decodeOrderDetailsProto
decodeCompletedOrderStateProto ==
    Decoder(Bytes([Status |-> 1, CommissionCurrency |-> 14, CompletedTime |-> 29,
                   CompletedStatus |-> 30])
        \cup Double([CommissionAndFees |-> 11]))
decodeCompletedOrderProto ==
    Refused(Nested([Contract |-> 1], decodeCompletedOrderContractProto)
        \cup Nested([Order |-> 2], decodeCompletedOrderOrderProto)
        \cup Nested([OrderState |-> 3], decodeCompletedOrderStateProto), {"Contract", "Order", "OrderState"})
decodeCompletedOrdersEndProto == Decoder({})

\* Executions, commissions and errors (codec_orders_protobuf.go).
decodeOpenOrdersEndProto == Decoder({})
decodeContractProto == decodeSharedContractProto
decodeExecutionProto ==
    Decoder(Varint([OrderID |-> 1, PermID |-> 9, ClientID |-> 10, Liquidation |-> 11,
                    LastLiquidity |-> 18, PendingPriceRevision |-> 19,
                    OptExerciseOrLapseType |-> 21])
        \cup Bytes([ExecID |-> 2, Time |-> 3, Account |-> 4, Exchange |-> 5, Side |-> 6,
                    Shares |-> 7, CumulativeQuantity |-> 12, OrderRef |-> 14,
                    EconomicValueRule |-> 15, ModelCode |-> 17, Submitter |-> 20])
        \cup Double([Price |-> 8, AveragePrice |-> 13, EconomicValueMultiplier |-> 16]))
decodeExecutionDetailsProto ==
    Decoder(Varint([ReqID |-> 1])
        \cup Nested([Contract |-> 2], decodeContractProto)
        \cup Nested([Execution |-> 3], decodeExecutionProto))
decodeExecutionDetailsEndProto == Decoder(Varint([ReqID |-> 1]))
decodeCommissionAndFeesReportProto ==
    Decoder(Bytes([ExecID |-> 1, Currency |-> 3, YieldRedemptionDate |-> 6])
        \cup Double([Commission |-> 2, RealizedPNL |-> 4, Yield |-> 5]))
decodeErrorProto ==
    Decoder(Varint([ReqID |-> 1, ErrorTimeMs |-> 2, Code |-> 3])
        \cup Bytes([Message |-> 4, AdvancedOrderRejectJSON |-> 5]))

\* Accounts and positions (codec_account_proto207.go).
decodeManagedAccountsProto == Decoder(Bytes([Accounts |-> 1]))
decodePositionProto ==
    Dropped(Bytes([Account |-> 1, Position |-> 3])
        \cup Double([AvgCost |-> 4])
        \cup Nested([Contract |-> 2], decodeContractProto), {"Contract"})
skipAccountProtoFields == Decoder({})
decodePositionEndProto == skipAccountProtoFields
decodeAccountSummaryProto ==
    Decoder(Varint([ReqID |-> 1])
        \cup Bytes([Account |-> 2, Tag |-> 3, Value |-> 4, Currency |-> 5]))
decodeAccountSummaryEndProto == Decoder(Varint([ReqID |-> 1]))
decodeUpdateAccountValueProto ==
    Decoder(Bytes([Key |-> 1, Value |-> 2, Currency |-> 3, Account |-> 4]))
decodeUpdatePortfolioProto ==
    Dropped(Bytes([Position |-> 2, Account |-> 8])
        \cup Double([MarketPrice |-> 3, MarketValue |-> 4, AvgCost |-> 5, UnrealizedPNL |-> 6,
                     RealizedPNL |-> 7])
        \cup Nested([Contract |-> 1], decodeContractProto), {"Contract"})
decodeUpdateAccountTimeProto == Decoder(Bytes([Timestamp |-> 1]))
decodeAccountDownloadEndProto == Decoder(Bytes([Account |-> 1]))
decodePositionMultiProto ==
    Dropped(Varint([ReqID |-> 1])
        \cup Bytes([Account |-> 2, Position |-> 4, ModelCode |-> 6])
        \cup Double([AvgCost |-> 5])
        \cup Nested([Contract |-> 3], decodeContractProto), {"Contract"})
decodePositionMultiEndProto == Decoder(Varint([ReqID |-> 1]))
decodeAccountUpdateMultiProto ==
    Decoder(Varint([ReqID |-> 1])
        \cup Bytes([Account |-> 2, ModelCode |-> 3, Key |-> 4, Value |-> 5, Currency |-> 6]))
decodeAccountUpdateMultiEndProto == Decoder(Varint([ReqID |-> 1]))

\* Market data (codec_marketdata_proto206.go).
decodeTickPriceProto ==
    Decoder(Varint([ReqID |-> 1, TickType |-> 2, AttrMask |-> 5])
        \cup Bytes([Size |-> 4])
        \cup Double([Price |-> 3]))
decodeTickSizeProto == Decoder(Varint([ReqID |-> 1, TickType |-> 2]) \cup Bytes([Size |-> 3]))
decodeTickOptionComputationProto ==
    Decoder(Varint([ReqID |-> 1, TickType |-> 2, TickAttrib |-> 3])
        \cup Double([ImpliedVol |-> 4, Delta |-> 5, OptPrice |-> 6, PvDividend |-> 7, Gamma |-> 8,
                     Vega |-> 9, Theta |-> 10, UndPrice |-> 11]))
decodeTickGenericProto == Decoder(Varint([ReqID |-> 1, TickType |-> 2]) \cup Double([Value |-> 3]))
decodeTickStringProto == Decoder(Varint([ReqID |-> 1, TickType |-> 2]) \cup Bytes([Value |-> 3]))
decodeTickSnapshotEndProto == Decoder(Varint([ReqID |-> 1]))
decodeMarketDataTypeProto == Decoder(Varint([ReqID |-> 1, DataType |-> 2]))
decodeMarketDataRerouteBodyProto ==
    Refused(Varint([ReqID |-> 1, ConID |-> 2]) \cup Bytes([Exchange |-> 3]), {"ReqID"})
decodeMarketDataRerouteProto == decodeMarketDataRerouteBodyProto
decodeMarketDepthRerouteProto == decodeMarketDataRerouteBodyProto
decodeMarketDepthDataProto ==
    Decoder(Varint([Position |-> 1, Operation |-> 2, Side |-> 3, IsSmartDepth |-> 7])
        \cup Bytes([Size |-> 5, MarketMaker |-> 6])
        \cup Double([Price |-> 4]))
decodeMarketDepthMessageProto ==
    Refused(Varint([ReqID |-> 1])
        \cup Nested([Depth |-> 2], decodeMarketDepthDataProto), {"ReqID", "Depth"})
decodeMarketDepthProto == decodeMarketDepthMessageProto
decodeMarketDepthL2Proto == decodeMarketDepthMessageProto
decodeTickReqParamsProto ==
    Decoder(Varint([ReqID |-> 1, SnapshotPermissions |-> 4])
        \cup Bytes([MinTick |-> 2, BBOExchange |-> 3, LastPricePrecision |-> 5,
                    LastSizePrecision |-> 6]))

\* Historical and tick data (codec_historical_proto208.go).
decodeHistoricalDataBarProto ==
    Decoder(Varint([Count |-> 8])
        \cup Bytes([Time |-> 1, Volume |-> 6, WAP |-> 7])
        \cup Double([Open |-> 2, High |-> 3, Low |-> 4, Close |-> 5]))
decodeHistoricalDataProto ==
    Decoder(Varint([ReqID |-> 1]) \cup Nested([Bars |-> 2], decodeHistoricalDataBarProto))
decodeHistoricalDataUpdateProto ==
    Dropped(Varint([ReqID |-> 1]) \cup Nested([Bar |-> 2], decodeHistoricalDataBarProto), {"Bar"})
decodeHistoricalDataEndProto ==
    Decoder(Varint([ReqID |-> 1]) \cup Bytes([StartDate |-> 2, EndDate |-> 3]))
decodeRealTimeBarsProto ==
    Decoder(Varint([ReqID |-> 1, Time |-> 2, Count |-> 9])
        \cup Bytes([Volume |-> 7, WAP |-> 8])
        \cup Double([Open |-> 3, High |-> 4, Low |-> 5, Close |-> 6]))
decodeHeadTimestampProto == Decoder(Varint([ReqID |-> 1]) \cup Bytes([Timestamp |-> 2]))
decodeHistogramEntryProto == Decoder(Bytes([Size |-> 2]) \cup Double([Price |-> 1]))
decodeHistogramDataProto ==
    Decoder(Varint([ReqID |-> 1]) \cup Nested([Entries |-> 2], decodeHistogramEntryProto))
decodeHistoricalTickProto ==
    Decoder(Varint([Time |-> 1]) \cup Bytes([Size |-> 3]) \cup Double([Price |-> 2]))
decodeHistoricalTicksProto ==
    Decoder(Varint([ReqID |-> 1, Done |-> 3]) \cup Nested([Ticks |-> 2], decodeHistoricalTickProto))
decodeBidAskAttributesProto == Decoder(Varint([BidPastLow |-> 1, AskPastHigh |-> 2]))
decodeHistoricalBidAskTickProto ==
    Decoder(Varint([Time |-> 1])
        \cup Bytes([BidSize |-> 5, AskSize |-> 6])
        \cup Double([BidPrice |-> 3, AskPrice |-> 4])
        \cup Nested([TickAttrib |-> 2], decodeBidAskAttributesProto))
decodeHistoricalTicksBidAskProto ==
    Decoder(Varint([ReqID |-> 1, Done |-> 3])
        \cup Nested([Ticks |-> 2], decodeHistoricalBidAskTickProto))
decodeLastAttributesProto == decodeBidAskAttributesProto
decodeHistoricalLastTickProto ==
    Decoder(Varint([Time |-> 1])
        \cup Bytes([Size |-> 4, Exchange |-> 5, SpecialConditions |-> 6])
        \cup Double([Price |-> 3])
        \cup Nested([TickAttrib |-> 2], decodeLastAttributesProto))
decodeHistoricalTicksLastProto ==
    Decoder(Varint([ReqID |-> 1, Done |-> 3])
        \cup Nested([Ticks |-> 2], decodeHistoricalLastTickProto))
\* TickType names the tick a report must carry; a report of an unknown type is dropped.
decodeTickByTickProto(tick) ==
    Dropped(Varint([ReqID |-> 1, TickType |-> 2])
        \cup Nested([Last |-> 3], decodeHistoricalLastTickProto)
        \cup Nested([BidAsk |-> 4], decodeHistoricalBidAskTickProto)
        \cup Nested([Midpoint |-> 5], decodeHistoricalTickProto), {"TickType", tick})
decodeHistoricalSessionProto ==
    Decoder(Bytes([StartDateTime |-> 1, EndDateTime |-> 2, RefDate |-> 3]))
decodeHistoricalScheduleProto ==
    Decoder(Varint([ReqID |-> 1])
        \cup Bytes([StartDateTime |-> 2, EndDateTime |-> 3, TimeZone |-> 4])
        \cup Nested([Sessions |-> 5], decodeHistoricalSessionProto))

\* News and calendar documents (codec_news_proto209.go).
decodeNewsBulletinProto ==
    Decoder(Varint([MsgID |-> 1, MsgType |-> 2]) \cup Bytes([Headline |-> 3, Source |-> 4]))
decodeNewsArticleProto ==
    Decoder(Varint([ReqID |-> 1, ArticleType |-> 2]) \cup Bytes([ArticleText |-> 3]))
decodeNewsProviderProto == Decoder(Bytes([Code |-> 1, Name |-> 2]))
decodeNewsProvidersProto == Decoder(Nested([Providers |-> 1], decodeNewsProviderProto))
decodeHistoricalNewsProto ==
    Decoder(Varint([ReqID |-> 1])
        \cup Bytes([Time |-> 2, ProviderCode |-> 3, ArticleID |-> 4, Headline |-> 5]))
decodeHistoricalNewsEndProto == Decoder(Varint([ReqID |-> 1, HasMore |-> 2]))
decodeWSHDocumentProto == Decoder(Varint([ReqID |-> 1]) \cup Bytes([DataJSON |-> 2]))
decodeWSHMetaDataProto == decodeWSHDocumentProto
decodeWSHEventDataProto == decodeWSHDocumentProto
decodeTickNewsProto ==
    Decoder(Varint([ReqID |-> 1, Time |-> 2])
        \cup Bytes([ProviderCode |-> 3, ArticleID |-> 4, Headline |-> 5, ExtraData |-> 6]))

\* Advisor configuration (codec_options_proto211.go).
decodeReceiveFAProto == Decoder(Varint([FADataType |-> 1]) \cup Bytes([XML |-> 2]))

\* Reference data (codec_reference_proto212.go).
decodeSecDefOptParamsProto ==
    Decoder(Varint([ReqID |-> 1, UnderlyingConID |-> 3])
        \cup Bytes([Exchange |-> 2, TradingClass |-> 4, Multiplier |-> 5, Expirations |-> 6])
        \cup Doubles([Strikes |-> 7]))
decodeSingleProtoInt32(attr) == Decoder(Varint(attr :> 1))
decodeSecDefOptParamsEndProto == decodeSingleProtoInt32("ReqID")
decodeSoftDollarTierProto == Decoder(Bytes([Name |-> 1, Value |-> 2, DisplayName |-> 3]))
decodeSoftDollarTiersProto ==
    Decoder(Varint([ReqID |-> 1]) \cup Nested([Tiers |-> 2], decodeSoftDollarTierProto))
decodeFamilyCodeProto == Decoder(Bytes([AccountID |-> 1, FamilyCode |-> 2]))
decodeFamilyCodesProto == Decoder(Nested([Codes |-> 1], decodeFamilyCodeProto))
decodeContractDescriptionProto ==
    Decoder(Bytes([DerivativeSecTypes |-> 2])
        \cup Nested([Contract |-> 1], decodeSharedContractProto))
decodeSymbolSamplesProto ==
    Decoder(Varint([ReqID |-> 1]) \cup Nested([Symbols |-> 2], decodeContractDescriptionProto))
decodeSmartComponentProto ==
    Decoder(Varint([BitNumber |-> 1]) \cup Bytes([ExchangeName |-> 2, ExchangeLetter |-> 3]))
decodeSmartComponentsProto ==
    Decoder(Varint([ReqID |-> 1]) \cup Nested([Components |-> 2], decodeSmartComponentProto))
decodePriceIncrementProto == Decoder(Double([LowEdge |-> 1, Increment |-> 2]))
decodeMarketRuleProto ==
    Decoder(Varint([MarketRuleID |-> 1]) \cup Nested([Increments |-> 2], decodePriceIncrementProto))
decodeUserInfoProto == Decoder(Varint([ReqID |-> 1]) \cup Bytes([WhiteBrandingID |-> 2]))

\* Scanner and PnL (codec_scanner_proto210.go).
decodeScannerParametersProto == Decoder(Bytes([XML |-> 1]))
decodeScannerDataEntryProto ==
    Decoder(Varint([Rank |-> 1])
        \cup Bytes([MarketName |-> 3, Distance |-> 4, Benchmark |-> 5, Projection |-> 6,
                    LegsStr |-> 7])
        \cup Nested([Contract |-> 2], decodeSharedContractProto))
decodeScannerDataProto ==
    Decoder(Varint([ReqID |-> 1]) \cup Nested([Entries |-> 2], decodeScannerDataEntryProto))
decodePnLProto ==
    Decoder(Varint([ReqID |-> 1])
        \cup Double([DailyPnL |-> 2, UnrealizedPnL |-> 3, RealizedPnL |-> 4]))
decodePnLSingleProto ==
    Decoder(Varint([ReqID |-> 1])
        \cup Bytes([Position |-> 2])
        \cup Double([DailyPnL |-> 3, UnrealizedPnL |-> 4, RealizedPnL |-> 5, Value |-> 6]))

\* Session (codec_session_proto213.go).
decodeNextValidIDProto == decodeSingleProtoInt32("OrderID")
decodeSingleProtoInt64(attr) == Decoder(Varint(attr :> 1))
decodeCurrentTimeProto == decodeSingleProtoInt64("Time")
decodeCurrentTimeMillisProto == decodeSingleProtoInt64("TimeMs")
decodeDisplayGroupMessage(value) == Decoder(Varint([ReqID |-> 1]) \cup Bytes(value :> 2))
decodeDisplayGroupListProto == decodeDisplayGroupMessage("Groups")
decodeDisplayGroupUpdatedProto == decodeDisplayGroupMessage("ContractInfo")
decodeDepthExchangeProto ==
    Decoder(Varint([AggGroup |-> 5])
        \cup Bytes([Exchange |-> 1, SecType |-> 2, ListingExch |-> 3, ServiceDataType |-> 4]))
decodeMktDepthExchangesProto == Decoder(Nested([Exchanges |-> 1], decodeDepthExchangeProto))

-----------------------------------------------------------------------------
\* The decoder of each protobuf message ID.
inboundProtobufDecoders ==
    [TickPrice |-> decodeTickPriceProto, TickSize |-> decodeTickSizeProto,
     UpdateAccountValue |-> decodeUpdateAccountValueProto,
     UpdatePortfolio |-> decodeUpdatePortfolioProto,
     UpdateAccountTime |-> decodeUpdateAccountTimeProto, MarketDepth |-> decodeMarketDepthProto,
     MarketDepthL2 |-> decodeMarketDepthL2Proto, ManagedAccounts |-> decodeManagedAccountsProto,
     TickOptionComputation |-> decodeTickOptionComputationProto,
     TickGeneric |-> decodeTickGenericProto, TickString |-> decodeTickStringProto,
     OpenOrderEnd |-> decodeOpenOrdersEndProto,
     AccountDownloadEnd |-> decodeAccountDownloadEndProto,
     ExecutionDataEnd |-> decodeExecutionDetailsEndProto,
     TickSnapshotEnd |-> decodeTickSnapshotEndProto, MarketDataType |-> decodeMarketDataTypeProto,
     MarketDataReroute |-> decodeMarketDataRerouteProto,
     MarketDepthReroute |-> decodeMarketDepthRerouteProto,
     CommissionReport |-> decodeCommissionAndFeesReportProto, PositionData |-> decodePositionProto,
     PositionEnd |-> decodePositionEndProto, AccountSummary |-> decodeAccountSummaryProto,
     AccountSummaryEnd |-> decodeAccountSummaryEndProto, TickReqParams |-> decodeTickReqParamsProto,
     PositionMulti |-> decodePositionMultiProto, PositionMultiEnd |-> decodePositionMultiEndProto,
     AccountUpdateMulti |-> decodeAccountUpdateMultiProto,
     AccountUpdateMultiEnd |-> decodeAccountUpdateMultiEndProto,
     CompletedOrder |-> decodeCompletedOrderProto, OrderBound |-> decodeOrderBoundProto,
     CompletedOrderEnd |-> decodeCompletedOrdersEndProto, OrderStatus |-> decodeOrderStatusProto,
     OpenOrder |-> decodeOpenOrderProto, ExecutionData |-> decodeExecutionDetailsProto,
     ContractData |-> decodeContractDataProto, BondContractData |-> decodeBondContractDataProto,
     ContractDataEnd |-> decodeContractDataEndProto, ErrMsg |-> decodeErrorProto,
     HistoricalData |-> decodeHistoricalDataProto,
     HistoricalDataUpdate |-> decodeHistoricalDataUpdateProto,
     HistoricalDataEnd |-> decodeHistoricalDataEndProto, RealTimeBars |-> decodeRealTimeBarsProto,
     HeadTimestamp |-> decodeHeadTimestampProto, HistogramData |-> decodeHistogramDataProto,
     HistoricalTicks |-> decodeHistoricalTicksProto,
     HistoricalTicksBidAsk |-> decodeHistoricalTicksBidAskProto,
     HistoricalTicksLast |-> decodeHistoricalTicksLastProto,
     TickByTickLast |-> decodeTickByTickProto("Last"),
     TickByTickBidAsk |-> decodeTickByTickProto("BidAsk"),
     TickByTickMidpoint |-> decodeTickByTickProto("Midpoint"),
     HistoricalSchedule |-> decodeHistoricalScheduleProto,
     NewsBulletins |-> decodeNewsBulletinProto, NewsArticle |-> decodeNewsArticleProto,
     NewsProviders |-> decodeNewsProvidersProto, HistoricalNews |-> decodeHistoricalNewsProto,
     HistoricalNewsEnd |-> decodeHistoricalNewsEndProto, WSHMetaData |-> decodeWSHMetaDataProto,
     WSHEventData |-> decodeWSHEventDataProto, TickNews |-> decodeTickNewsProto,
     ScannerParameters |-> decodeScannerParametersProto, ScannerData |-> decodeScannerDataProto,
     PnL |-> decodePnLProto, PnLSingle |-> decodePnLSingleProto, ReceiveFA |-> decodeReceiveFAProto,
     SecDefOptParams |-> decodeSecDefOptParamsProto,
     SecDefOptParamsEnd |-> decodeSecDefOptParamsEndProto,
     SoftDollarTiers |-> decodeSoftDollarTiersProto, FamilyCodes |-> decodeFamilyCodesProto,
     SymbolSamples |-> decodeSymbolSamplesProto, SmartComponents |-> decodeSmartComponentsProto,
     MarketRule |-> decodeMarketRuleProto, UserInfo |-> decodeUserInfoProto,
     NextValidID |-> decodeNextValidIDProto, CurrentTime |-> decodeCurrentTimeProto,
     CurrentTimeInMillis |-> decodeCurrentTimeMillisProto,
     DisplayGroupList |-> decodeDisplayGroupListProto,
     DisplayGroupUpdated |-> decodeDisplayGroupUpdatedProto,
     MktDepthExchanges |-> decodeMktDepthExchangesProto, Config |-> decodeConfigResponseProto]
==============================================================================
