------------------------------ MODULE Conversions ------------------------------
(***************************************************************************)
(* From codec messages to public values: which attributes a conversion parses *)
(* and what it makes of an attribute that is empty or is not a number.  The   *)
(* codec hands numbers, times and flags over as text.  The first attribute    *)
(* that does not parse is the error of the whole row.                         *)
(***************************************************************************)
EXTENDS FiniteSets, TLC

\* required: an empty text is an error; optional: it is "not there".
Converts(required, optional) == [required |-> required, optional |-> optional]
Also(a, b) == Converts(a.required \cup b.required, a.optional \cup b.optional)
Verbatim == Converts({}, {})

\* parse.go: what parsing the content of one attribute gives.
parseRequired(content) == IF content = "number" THEN "value" ELSE "error"
\* Mutant: what does not parse counts as absent.
parseOptionalLenient(content) == IF content = "number" THEN "value" ELSE "absent"
parseOptional(content) ==
    CASE content = "number" -> "value"
      [] content = "empty" -> "absent"
      [] OTHER -> "error"

\* engine_convert.go, order_convert.go
deltaNeutralFromCodec == Converts({"DeltaNeutralDelta", "DeltaNeutralPrice"}, {})
comboLegsFromCodec == Converts({}, {"LegOpenClose", "LegShortSaleSlot", "LegExemptCode"})
fromCodecContract == Also(Converts({}, {"Strike"}), Also(comboLegsFromCodec, deltaNeutralFromCodec))

\* engine_account.go
fromCodecPosition == Also(fromCodecContract, Converts({"Position", "AvgCost"}, {}))
PortfolioRow ==
    Also(fromCodecContract,
         Converts({}, {"Position", "MarketPrice", "MarketValue", "AvgCost", "UnrealizedPNL", "RealizedPNL"}))
PositionMultiRow == Also(fromCodecContract, Converts({"Position", "AvgCost"}, {}))
PnLRow == Converts({}, {"DailyPnL", "UnrealizedPnL", "RealizedPnL"})
PnLSingleRow == Converts({}, {"Position", "DailyPnL", "UnrealizedPnL", "RealizedPnL", "Value"})

\* engine_contracts.go
fromCodecContractDetails ==
    Also(fromCodecContract,
         Converts({}, {"MinTick", "EconomicValueMultiplier", "MinSize", "SizeIncrement", "SuggestedSizeIncrement",
                       "MinAlgoSize", "LastPricePrecision", "LastSizePrecision"}))
fromCodecBondContractDetails == Also(fromCodecContractDetails, Converts({}, {"Coupon"}))
MarketRuleRow == Converts({"LowEdge", "Increment"}, {})
SecDefOptParamsRow == Converts({"Strike"}, {})

\* engine_historical.go
fromCodecBarAt == Converts({"Open", "High", "Low", "Close", "Volume"}, {"WAP", "Count"})
fromCodecBar == Also(Converts({"Time"}, {}), fromCodecBarAt)
\* The count of an update is an integer already.
fromCodecHistoricalDataUpdate == Converts(fromCodecBar.required, fromCodecBar.optional \ {"Count"})
parseHeadTimestamp == Converts({"Timestamp"}, {})
HistogramRow == Converts({"Price", "Size"}, {})
MidpointTick == Converts({"Time", "Price", "Size"}, {})
BidAskTick == Converts({"Time", "BidPrice", "AskPrice", "BidSize", "AskSize"}, {})
LastTick == Converts({"Time", "Price", "Size"}, {})

\* engine_marketdata.go
PriceTick == Converts({"Price"}, {"Size"})
SizeTick == Converts({}, {"Size"})
GenericTick == Converts({"Value"}, {})
EFPTick == Converts({"BasisPoints", "ImpliedFuturesPrice", "DividendImpact", "DividendsToLastTradeDate"}, {})
NewsTick == Converts({"Time"}, {})
ParametersTick == Converts({}, {"MinTick", "LastPricePrecision", "LastSizePrecision"})
fromCodecOptionComputation ==
    Converts({}, {"ImpliedVol", "Delta", "OptPrice", "PvDividend", "Gamma", "Vega", "Theta", "UndPrice"})
fromCodecRealtimeBar == Also(Converts({"Time"}, {}), fromCodecBarAt)
fromCodecMarketDepth == Converts({"Price"}, {"Size"})
fromCodecMarketDepthL2 == Converts({"Price"}, {"Size"})
\* By tick type: last, bid and ask, midpoint.
TickByTickRow ==
    Converts({"Time"}, {"Price", "Size", "BidPrice", "AskPrice", "BidSize", "AskSize", "MidPoint"})

\* engine_misc.go, engine_news.go
ScannerRow == fromCodecContract
parseEpochSeconds == Converts({"Time"}, {})
parseEpochMilliseconds == Converts({"TimeMs"}, {})
parseHistoricalNewsTime == Converts({"Time"}, {})

\* order_convert.go, engine_orders.go
OrderFlags ==
    {"AllowPreOpen", "Deactivate", "IgnoreOpenAuction", "IncludeOvernight", "PostOnly", "RouteMarketableToBBO",
     "ScaleAutoReset", "ScaleRandomPercent", "SeekPriceImprovement", "Transmit", "UsePriceMgmtAlgo", "AllOrNone",
     "AutoCancelParent", "ConditionsCancelOrder", "ConditionsIgnoreRTH", "ContinuousUpdate",
     "DeltaNeutralShortSale", "DontUseAutoPriceForHedge", "Hidden", "ImbalanceOnly", "IsOMSContainer", "NotHeld",
     "OutsideRTH", "PeggedChangeAmountDecrease", "ProfessionalCustomer", "RandomizePrice", "RandomizeSize",
     "Solicited", "SweepToFill"}
OrderInts ==
    {"AdjustableTrailingUnit", "DisplaySize", "HedgeMaxSize", "MinCompeteSize", "MinQty", "MinTradeQty",
     "RefFuturesConID", "ReferencePriceType", "ScaleInitFillQty", "ScaleInitLevelSize", "ScaleInitPosition",
     "ScalePriceAdjustInterval", "ScaleSubsLevelSize", "VolatilityType", "WhatIfType", "ParentPermID", "ClientID",
     "DeltaNeutralConID", "ReferenceContractID", "ExemptCode", "OrderID", "ParentID", "PermID",
     "DeltaNeutralShortSaleSlot", "OcaType", "Origin", "ShortSaleSlot", "TriggerMethod"}
OrderDecimals ==
    {"AdjustedStopLimitPrice", "AdjustedStopPrice", "AdjustedTrailingAmount", "AuxPrice", "CashQty",
     "CommissionAndFees", "CompeteAgainstBestOffset", "Delta", "DeltaNeutralAuxPrice", "DiscretionAmt",
     "LmtPrice", "LmtPriceOffset", "MidOffsetAtHalf", "MidOffsetAtWhole", "PercentOffset",
     "PeggedChangeAmount", "ReferenceChangeAmount", "ScalePriceAdjustValue", "ScalePriceIncrement",
     "ScaleProfitOffset", "StartingPrice", "StockRangeLower", "StockRangeUpper", "StockRefPrice", "StopPrice",
     "TrailStopPrice", "TrailingPercent", "TriggerPrice", "Volatility", "OrderComboLegPrices"}
fromCodecOrderDetails ==
    Also(fromCodecContract, Converts({"Quantity"}, {"Filled"} \cup OrderFlags \cup OrderInts \cup OrderDecimals))
\* Margins before, by and after the order, in and outside regular hours.
Margins ==
    {"InitMarginBefore", "MaintMarginBefore", "EquityWithLoanBefore", "InitMarginChange", "MaintMarginChange",
     "EquityWithLoanChange", "InitMarginAfter", "MaintMarginAfter", "EquityWithLoanAfter",
     "InitMarginBeforeOutsideRTH", "MaintMarginBeforeOutsideRTH", "EquityWithLoanBeforeOutsideRTH",
     "InitMarginChangeOutsideRTH", "MaintMarginChangeOutsideRTH", "EquityWithLoanChangeOutsideRTH",
     "InitMarginAfterOutsideRTH", "MaintMarginAfterOutsideRTH", "EquityWithLoanAfterOutsideRTH"}
decodeCodecOpenOrder ==
    Also(fromCodecOrderDetails,
         Converts({}, Margins \cup {"Commission", "MinCommission", "MaxCommission", "SuggestedSize",
                                    "AllocationPosition", "AllocationPositionDesired", "AllocationPositionAfter",
                                    "AllocationDesiredQty", "AllocationAllowedQty", "AllocationIsMonetary"}))
fromCodecOrderStatus ==
    Converts({}, {"Filled", "Remaining", "AvgFillPrice", "LastFillPrice", "MktCapPrice", "PermID", "ParentID",
                  "ClientID"})
fromCodecExecution ==
    Also(fromCodecContract,
         Converts({"Shares", "Price", "Time"},
                  {"PermID", "ClientID", "Liquidation", "CumulativeQuantity", "AveragePrice",
                   "EconomicValueMultiplier", "LastLiquidity", "PendingPriceRevision", "OptExerciseOrLapseType"}))

\* The conversion of each message that has one.
Conversion ==
    [PositionData |-> fromCodecPosition, UpdatePortfolio |-> PortfolioRow, PositionMulti |-> PositionMultiRow,
     PnL |-> PnLRow, PnLSingle |-> PnLSingleRow, ContractData |-> fromCodecContractDetails,
     BondContractData |-> fromCodecBondContractDetails, MarketRule |-> MarketRuleRow,
     SecDefOptParams |-> SecDefOptParamsRow, HistoricalData |-> fromCodecBar,
     HistoricalDataUpdate |-> fromCodecHistoricalDataUpdate, HeadTimestamp |-> parseHeadTimestamp,
     HistogramData |-> HistogramRow, HistoricalTicks |-> MidpointTick, HistoricalTicksBidAsk |-> BidAskTick,
     HistoricalTicksLast |-> LastTick, TickPrice |-> PriceTick, TickSize |-> SizeTick,
     TickGeneric |-> GenericTick, TickEFP |-> EFPTick, DeltaNeutralValidation |-> deltaNeutralFromCodec,
     TickNews |-> NewsTick, TickReqParams |-> ParametersTick,
     TickOptionComputation |-> fromCodecOptionComputation, RealTimeBars |-> fromCodecRealtimeBar,
     MarketDepth |-> fromCodecMarketDepth, MarketDepthL2 |-> fromCodecMarketDepthL2,
     TickByTick |-> TickByTickRow, ScannerData |-> ScannerRow, CurrentTime |-> parseEpochSeconds,
     CurrentTimeInMillis |-> parseEpochMilliseconds, HistoricalNews |-> parseHistoricalNewsTime,
     CompletedOrder |-> fromCodecOrderDetails, OpenOrder |-> decodeCodecOpenOrder,
     OrderStatus |-> fromCodecOrderStatus, ExecutionData |-> fromCodecExecution]

ConversionOf(msg) == IF msg \in DOMAIN Conversion THEN Conversion[msg] ELSE Verbatim

\* A row as the server meant it, or with one attribute in the way.
Whole == [attr |-> "none", content |-> "number"]
Contents(msg) ==
    LET c == ConversionOf(msg)
    IN  {Whole} \cup [attr : c.required \cup c.optional, content : {"empty", "text"}]

\* Whether the row converts.
Converted(msg, row) ==
    LET c == ConversionOf(msg)
    IN  /\ row.attr \in c.required => parseRequired(row.content) # "error"
        /\ row.attr \in c.optional => parseOptional(row.content) # "error"
==============================================================================
