------------------------------- MODULE Endpoints -------------------------------
(***************************************************************************)
(* The REST methods of the SDK, one definition each. A method validates    *)
(* its parameters, sends one request, and decodes the result; what differs *)
(* between them is                                                         *)
(*                                                                         *)
(*   area     the group of paths it belongs to                             *)
(*   method   the HTTP method                                              *)
(*   signed   whether it asks for a signature                              *)
(*   writes   whether it changes something at the exchange                 *)
(*   needs    the parameters it refuses to go without                      *)
(*   implies  pairs of parameters, the first not without the second        *)
(*   one      parameters of which it wants exactly one                     *)
(*   some     parameters of which it wants at least one                    *)
(*   never    what it refuses                                              *)
(*   key      the parameter by which the exchange knows a repeated request *)
(*   cursor   who follows the cursor of a paged result: nobody, the caller *)
(*            of the SDK, or a loop of the SDK                             *)
(*   decodes  whether it decodes the result                                *)
(*   first    whether it wants a first row and refuses an empty result     *)
(*                                                                         *)
(* The parameters it only passes on, page sizes that are clamped to the    *)
(* limits of the exchange, and the conversion of rows field by field are   *)
(* left out. CancelAllOrders and the batch methods are in OrderIdMap and   *)
(* BatchOrders.                                                            *)
(***************************************************************************)
EXTENDS Integers

\* A signed query without parameters of its own.
Query(area) ==
    [area |-> area, method |-> "GET", signed |-> TRUE, writes |-> FALSE,
     needs |-> {}, implies |-> {}, one |-> {}, some |-> {}, never |-> {},
     key |-> "none", cursor |-> "none", decodes |-> TRUE, first |-> FALSE]

MarketQuery == [Query("market") EXCEPT !.signed = FALSE]

Command(area) == [Query(area) EXCEPT !.method = "POST", !.writes = TRUE]

-------------------------------------------------------------------------------
(* account                                                                 *)

GetBorrowHistory == [Query("account") EXCEPT !.cursor = "caller"]

GetCollateralInfo == Query("account")

GetFeeRate == [Query("account") EXCEPT !.needs = {"category"}]

GetCoinGreeks == Query("asset")

GetAccountInfo == Query("account")

SetMarginMode == [Command("account") EXCEPT !.needs = {"setMarginMode"}]

SetCollateralCoin ==
    [Command("account") EXCEPT !.needs = {"coin", "collateralSwitch"}, !.decodes = FALSE]

SetHedgingMode ==
    [Command("account") EXCEPT !.needs = {"setHedgingMode"}, !.decodes = FALSE]

GetTransactionLog == [Query("account") EXCEPT !.cursor = "caller"]

-------------------------------------------------------------------------------
(* affiliate                                                               *)

GetFriendReferrals == [Query("user") EXCEPT !.cursor = "caller"]

GetAffiliateUserInfo == [Query("user") EXCEPT !.needs = {"uid"}]

GetAffiliateUserList ==
    [Query("affiliate") EXCEPT
        !.implies = {<<"startDate", "endDate">>, <<"endDate", "startDate">>},
        !.cursor = "caller"]

-------------------------------------------------------------------------------
(* asset                                                                   *)

GetCoinInfo == Query("asset")

GetDepositAddress == [Query("asset") EXCEPT !.needs = {"coin"}]

GetDepositRecords == [Query("asset") EXCEPT !.cursor = "caller"]

GetAllowedDepositCoins == [Query("asset") EXCEPT !.cursor = "caller"]

SetDepositAccount ==
    [Command("asset") EXCEPT !.needs = {"accountType"}, !.decodes = FALSE]

GetAllCoinsBalance == [Query("asset") EXCEPT !.needs = {"accountType"}]

GetSingleCoinBalance == [Query("asset") EXCEPT !.needs = {"accountType", "coin"}]

GetTransferableCoins ==
    [Query("asset") EXCEPT !.needs = {"fromAccountType", "toAccountType"}]

\* Mutant of CreateInternalTransfer: the transfer id is not put into the body.
CreateInternalTransferAnew ==
    [Command("asset") EXCEPT
        !.needs = {"transferId", "coin", "amount", "fromAccountType", "toAccountType"}]

CreateInternalTransfer ==
    [Command("asset") EXCEPT
        !.needs = {"transferId", "coin", "amount", "fromAccountType", "toAccountType"},
        !.key = "transferId"]

GetInternalTransferRecords == [Query("asset") EXCEPT !.cursor = "caller"]

\* The request id is optional: without it a second try is a second withdrawal.
CreateWithdraw ==
    [Command("asset") EXCEPT
        !.needs = {"coin", "address", "amount", "accountType"}, !.key = "requestId"]

CancelWithdraw == [Command("asset") EXCEPT !.needs = {"id"}, !.decodes = FALSE]

GetWithdrawRecords == [Query("asset") EXCEPT !.cursor = "caller"]

GetWithdrawableAmount == [Query("asset") EXCEPT !.needs = {"coin"}]

-------------------------------------------------------------------------------
(* broker                                                                  *)

BrokerGetAccountInfo == Query("broker")

\* POST, and changes nothing.
GetVoucherSpec == [Query("broker") EXCEPT !.method = "POST", !.needs = {"id"}]

DistributeVoucher ==
    [Command("broker") EXCEPT
        !.needs = {"accountId", "awardId", "specCode", "amount", "brokerId"},
        !.key = "specCode", !.decodes = FALSE]

GetVoucherDistribution ==
    [Query("broker") EXCEPT !.method = "POST", !.needs = {"accountId", "awardId", "specCode"}]

GetSubMemberDepositRecords == [Query("broker") EXCEPT !.cursor = "caller"]

GetEarnings ==
    [Query("broker") EXCEPT
        !.implies = {<<"begin", "end">>, <<"end", "begin">>}, !.cursor = "caller"]

-------------------------------------------------------------------------------
(* linears and spot: account                                               *)

GetWalletBalance == Query("account")

SpotGetWalletBalance == Query("account")

GetPosition == [Query("position") EXCEPT !.needs = {"symbol"}]

GetOpenOrders == [Query("order") EXCEPT !.needs = {"symbol"}, !.cursor = "loop"]

SpotGetOpenOrders == [Query("order") EXCEPT !.needs = {"symbol"}, !.cursor = "loop"]

SetLeverage ==
    [Command("position") EXCEPT !.needs = {"symbol", "leverage"}, !.decodes = FALSE]

SetPositionMode ==
    [Command("position") EXCEPT !.needs = {"symbol", "mode"}, !.decodes = FALSE]

-------------------------------------------------------------------------------
(* linears, spot and premarket: market data                                *)

GetSymbolInfo == [MarketQuery EXCEPT !.needs = {"symbol"}, !.first = TRUE]

SpotGetSymbolInfo == [MarketQuery EXCEPT !.needs = {"symbol"}, !.first = TRUE]

GetOrderBook == [MarketQuery EXCEPT !.needs = {"symbol"}]

SpotGetOrderBook == [MarketQuery EXCEPT !.needs = {"symbol"}]

GetHistoricalCandles == [MarketQuery EXCEPT !.needs = {"symbol", "interval"}]

SpotGetHistoricalCandles == [MarketQuery EXCEPT !.needs = {"symbol", "interval"}]

GetFundingRateHistory ==
    [MarketQuery EXCEPT !.needs = {"symbol"}, !.implies = {<<"startTime", "endTime">>}]

GetOpenInterest ==
    [MarketQuery EXCEPT !.needs = {"symbol", "intervalTime"}, !.cursor = "caller"]

\* validateContractCategory: the category is that of a contract.
ContractCategory == {"contractCategory"}

GetInstruments == [MarketQuery EXCEPT !.needs = ContractCategory, !.cursor = "caller"]

GetRiskLimit == [MarketQuery EXCEPT !.needs = ContractCategory, !.cursor = "caller"]

GetTickers == [MarketQuery EXCEPT !.needs = ContractCategory]

-------------------------------------------------------------------------------
(* linears and spot: single orders                                         *)

\* A limit order needs its price; an order id of a wrong form is refused.
BuildCreateOrderBody ==
    [Command("order") EXCEPT
        !.needs = {"symbol", "side", "qty"}, !.implies = {<<"limit", "price">>},
        !.never = {"wrongOrderLinkId"}, !.key = "orderLinkId"]

SpotBuildCreateOrderBody ==
    [Command("order") EXCEPT
        !.needs = {"symbol", "side", "qty"}, !.implies = {<<"limit", "price">>},
        !.never = {"wrongOrderLinkId"}, !.key = "orderLinkId"]

\* An amendment names its order by one of the two ids, and has something to amend.
BuildModifyOrderBody ==
    [Command("order") EXCEPT
        !.needs = {"symbol"}, !.one = {"orderId", "orderLinkId"}, !.some = {"qty", "price"}]

SpotBuildModifyOrderBody ==
    [Command("order") EXCEPT
        !.needs = {"symbol"}, !.one = {"orderId", "orderLinkId"}, !.some = {"qty", "price"}]

BuildCancelOrderBody ==
    [Command("order") EXCEPT !.needs = {"symbol"}, !.one = {"orderId", "orderLinkId"}]

SpotBuildCancelOrderBody ==
    [Command("order") EXCEPT !.needs = {"symbol"}, !.one = {"orderId", "orderLinkId"}]

\* What the methods do with the answer is Told in RestFlows, and what with the id cache
\* is in OrderIdMap.
CreateOrder == BuildCreateOrderBody

SpotCreateOrder == SpotBuildCreateOrderBody

ModifyOrder == BuildModifyOrderBody

SpotModifyOrder == SpotBuildModifyOrderBody

CancelOrder == BuildCancelOrderBody

SpotCancelOrder == SpotBuildCancelOrderBody

===============================================================================
