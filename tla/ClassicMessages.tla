---------------------------- MODULE ClassicMessages ----------------------------
(***************************************************************************)
(* The classic bodies of internal/codec, which server versions up to 212      *)
(* still use: NUL-terminated fields in a fixed order.  A decoder is the       *)
(* sequence of reads it makes of the frame; an encoder the sequence of        *)
(* attributes it writes after the message ID.  ClassicBody.tla runs the       *)
(* decoders.                                                                  *)
(***************************************************************************)
EXTENDS Naturals, Sequences, TLC

Read(kind, attr) == <<[kind |-> kind, attr |-> attr, width |-> 0, entry |-> <<>>]>>
Integer(attr) == Read("int", attr)
Bool(attr) == Read("bool", attr)
Skip == Read("skip", "version")
Strings(attrs) == [i \in DOMAIN attrs |-> Head(Read("string", attrs[i]))]
\* A counted list; width is the number of fields the decoder demands for each entry.
List(attr, width, entry) == <<[kind |-> "list", attr |-> attr, width |-> width, entry |-> entry]>>
ReqID == Integer("ReqID")

\* codec_account.go
decodeFamilyCodes == List("Codes", 2, Strings(<<"AccountID", "FamilyCode">>))
decodePnL == ReqID \o Strings(<<"DailyPnL", "UnrealizedPnL", "RealizedPnL">>)
decodePnLSingle == ReqID \o Strings(<<"Position", "DailyPnL", "UnrealizedPnL", "RealizedPnL", "Value">>)

\* codec_contracts.go
decodeSecDefOptParams ==
    ReqID \o Strings(<<"Exchange">>) \o Integer("UnderlyingConID") \o Strings(<<"TradingClass", "Multiplier">>)
    \o List("Expirations", 1, Strings(<<"Expiration">>)) \o List("Strikes", 1, Strings(<<"Strike">>))
decodeSecDefOptParamsEnd == ReqID
decodeSymbolSamples ==
    ReqID
    \o List("Symbols", 6,
            Integer("ConID") \o Strings(<<"Symbol", "SecType", "PrimaryExchange", "Currency">>)
            \o List("DerivativeSecTypes", 1, Strings(<<"SecType">>)) \o Strings(<<"Description", "IssuerID">>))
decodeSmartComponents ==
    ReqID \o List("Components", 3, Integer("BitNumber") \o Strings(<<"ExchangeName", "ExchangeLetter">>))
decodeMarketRule == Integer("MarketRuleID") \o List("Increments", 2, Strings(<<"LowEdge", "Increment">>))

\* codec_marketdata.go
decodeTickEFP ==
    Skip \o ReqID \o Integer("TickType") \o Strings(<<"BasisPoints", "FormattedBasisPoints", "ImpliedFuturesPrice">>)
    \o Integer("HoldDays") \o Strings(<<"FutureLastTradeDate", "DividendImpact", "DividendsToLastTradeDate">>)
decodeDeltaNeutralValidation == Skip \o ReqID \o Integer("ConID") \o Strings(<<"Delta", "Price">>)
decodeMktDepthExchanges ==
    List("Exchanges", 5,
         Strings(<<"Exchange", "SecType", "ListingExch", "ServiceDataType">>) \o Integer("AggGroup"))

\* codec_misc.go
decodeScannerParameters == Skip \o Strings(<<"XML">>)
readScannerContract ==
    Integer("ConID")
    \o Strings(<<"Symbol", "SecType", "Expiry", "Strike", "Right", "Exchange", "Currency", "LocalSymbol">>)
decodeScannerData ==
    Skip \o ReqID
    \o List("Entries", 16,
            Integer("Rank") \o readScannerContract
            \o Strings(<<"MarketName", "TradingClass", "Distance", "Benchmark", "Projection", "LegsStr">>))
decodeReceiveFA == Skip \o Integer("FADataType") \o Strings(<<"XML">>)
decodeWSHMetaData == ReqID \o Strings(<<"DataJSON">>)
decodeWSHEventData == ReqID \o Strings(<<"DataJSON">>)
decodeDisplayGroupList == Skip \o ReqID \o Strings(<<"Groups">>)
decodeDisplayGroupUpdated == Skip \o ReqID \o Strings(<<"ContractInfo">>)

\* codec_news.go
decodeNewsArticle == ReqID \o Integer("ArticleType") \o Strings(<<"ArticleText">>)
decodeTickNews == ReqID \o Strings(<<"Time", "ProviderCode", "ArticleID", "Headline", "ExtraData">>)
decodeNewsProviders == List("Providers", 2, Strings(<<"Code", "Name">>))
decodeHistoricalNews == ReqID \o Strings(<<"Time", "ProviderCode", "ArticleID", "Headline">>)
decodeHistoricalNewsEnd == ReqID \o Bool("HasMore")
decodeNewsBulletins == Skip \o Integer("MsgID") \o Integer("MsgType") \o Strings(<<"Headline", "Source">>)

\* codec_orders.go
decodeSoftDollarTiers == ReqID \o List("Tiers", 3, Strings(<<"Name", "Value", "DisplayName">>))

\* codec_session.go
decodeCurrentTimeInMillis == Strings(<<"TimeMs">>)
decodeNextValidID == Skip \o Integer("OrderID")
decodeCurrentTime == Skip \o Strings(<<"Time">>)
decodeUserInfo == ReqID \o Strings(<<"WhiteBrandingID">>)

\* The decoder of each classic message ID.
inboundDecoders ==
    [CurrentTimeInMillis |-> decodeCurrentTimeInMillis, NextValidID |-> decodeNextValidID,
     ScannerParameters |-> decodeScannerParameters, ScannerData |-> decodeScannerData,
     TickEFP |-> decodeTickEFP, CurrentTime |-> decodeCurrentTime,
     DeltaNeutralValidation |-> decodeDeltaNeutralValidation,
     SecDefOptParams |-> decodeSecDefOptParams, SecDefOptParamsEnd |-> decodeSecDefOptParamsEnd,
     FamilyCodes |-> decodeFamilyCodes, MktDepthExchanges |-> decodeMktDepthExchanges,
     NewsArticle |-> decodeNewsArticle, TickNews |-> decodeTickNews, NewsProviders |-> decodeNewsProviders,
     SymbolSamples |-> decodeSymbolSamples, SmartComponents |-> decodeSmartComponents,
     HistoricalNews |-> decodeHistoricalNews, HistoricalNewsEnd |-> decodeHistoricalNewsEnd,
     MarketRule |-> decodeMarketRule, UserInfo |-> decodeUserInfo, NewsBulletins |-> decodeNewsBulletins,
     PnL |-> decodePnL, PnLSingle |-> decodePnLSingle, ReceiveFA |-> decodeReceiveFA,
     SoftDollarTiers |-> decodeSoftDollarTiers, WSHMetaData |-> decodeWSHMetaData,
     WSHEventData |-> decodeWSHEventData, DisplayGroupList |-> decodeDisplayGroupList,
     DisplayGroupUpdated |-> decodeDisplayGroupUpdated]

-----------------------------------------------------------------------------
(* Encoders, by source file: the attributes written after the message ID.     *)

\* Fields with a fixed content.
Fixed == {"version", "unused"}

AccountWire ==
    [PnLRequest |-> <<"ReqID", "Account", "ModelCode">>, CancelPnL |-> <<"ReqID">>,
     PnLSingleRequest |-> <<"ReqID", "Account", "ModelCode", "ConID">>, CancelPnLSingle |-> <<"ReqID">>]
FamilyCodesWire == [FamilyCodesRequest |-> <<>>]
ContractsWire ==
    [MatchingSymbolsRequest |-> <<"ReqID", "Pattern">>, MarketRuleRequest |-> <<"MarketRuleID">>,
     SecDefOptParamsRequest |->
        <<"ReqID", "UnderlyingSymbol", "FutFopExchange", "UnderlyingSecType", "UnderlyingConID">>,
     SmartComponentsRequest |-> <<"ReqID", "BBOExchange">>]
DepthExchangesWire == [MktDepthExchangesRequest |-> <<>>]
\* The contract is ConID and the fields of writeWireContract.
CalculationsWire ==
    [CalcImpliedVolatilityRequest |-> <<"version", "ReqID", "Contract", "OptionPrice", "UnderPrice", "unused">>,
     CancelCalcImpliedVolatility |-> <<"version", "ReqID">>,
     CalcOptionPriceRequest |-> <<"version", "ReqID", "Contract", "Volatility", "UnderPrice", "unused">>,
     CancelCalcOptionPrice |-> <<"version", "ReqID">>]
ScannerParametersWire == [ScannerParametersRequest |-> <<"version">>]
ScannerWire ==
    [ScannerSubscriptionRequest |->
        <<"ReqID", "NumberOfRows", "Instrument", "LocationCode", "ScanCode", "AbovePrice", "BelowPrice",
          "AboveVolume", "MarketCapAbove", "MarketCapBelow", "MoodyRatingAbove", "MoodyRatingBelow",
          "SPRatingAbove", "SPRatingBelow", "MaturityDateAbove", "MaturityDateBelow", "CouponRateAbove",
          "CouponRateBelow", "ExcludeConvertible", "AverageOptionVolumeAbove", "ScannerSettingPairs",
          "StockTypeFilter", "FilterOptions", "SubscriptionOptions">>,
     CancelScannerSubscription |-> <<"version", "ReqID">>]
AdvisorWire == [RequestFA |-> <<"version", "FADataType">>]
CalendarWire ==
    [WSHMetaDataRequest |-> <<"ReqID">>, CancelWSHMetaData |-> <<"ReqID">>,
     WSHEventDataRequest |->
        <<"ReqID", "ConID", "Filter", "FillWatchlist", "FillPortfolio", "FillCompetitors", "StartDate",
          "EndDate", "TotalLimit">>,
     CancelWSHEventData |-> <<"ReqID">>]
DisplayGroupsWire ==
    [QueryDisplayGroupsRequest |-> <<"version", "ReqID">>,
     SubscribeToGroupEventsRequest |-> <<"version", "ReqID", "GroupID">>,
     UpdateDisplayGroupRequest |-> <<"version", "ReqID", "ContractInfo">>,
     UnsubscribeFromGroupEventsRequest |-> <<"version", "ReqID">>]
NewsWire ==
    [NewsProvidersRequest |-> <<>>, NewsBulletinsRequest |-> <<"version", "AllMessages">>,
     CancelNewsBulletins |-> <<"version">>,
     NewsArticleRequest |-> <<"ReqID", "ProviderCode", "ArticleID", "unused">>,
     HistoricalNewsRequest |->
        <<"ReqID", "ConID", "ProviderCodes", "StartDate", "EndDate", "TotalResults", "unused">>]
SoftDollarWire == [SoftDollarTiersRequest |-> <<"ReqID">>]
ExerciseWire ==
    [ExerciseOptionsRequest |->
        <<"version", "ReqID", "Contract", "ExerciseAction", "ExerciseQuantity", "Account", "Override",
          "unused", "unused", "unused">>]
SessionWire ==
    [StartAPI |-> <<"version", "ClientID", "OptionalCapabilities">>, CurrentTimeRequest |-> <<"version">>,
     CurrentTimeMillisRequest |-> <<>>, ReqIDsRequest |-> <<"version", "NumIDs">>,
     UserInfoRequest |-> <<"ReqID">>]

classicEncoders ==
    AccountWire @@ FamilyCodesWire @@ ContractsWire @@ DepthExchangesWire @@ CalculationsWire
    @@ ScannerParametersWire @@ ScannerWire @@ AdvisorWire @@ CalendarWire @@ DisplayGroupsWire @@ NewsWire
    @@ SoftDollarWire @@ ExerciseWire @@ SessionWire
==============================================================================
