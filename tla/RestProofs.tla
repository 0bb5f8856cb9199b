------------------------------ MODULE RestProofs ------------------------------
(***************************************************************************)
(* Theorems about RestFlows for any number of tries, orders, pages, trades *)
(* and late requests: what a caller may conclude from what it is told,     *)
(* that the jobs that read first and act later do no harm, that            *)
(* ClosePosition closes, that requests of a program with keys verify, that *)
(* one with an id of its own is executed once, and that listings miss      *)
(* nothing that was there all the time.                                    *)
(***************************************************************************)
EXTENDS RestFlows, FiniteSetTheorems, WellFoundedInduction, TLAPS

-------------------------------------------------------------------------------
(* Calls. *)

CallFields ==
    {"op", "given", "sign", "arg", "try", "phase", "answer", "rows", "next", "legs", "told",
     "done"}

\* Steps that concern neither the call nor the requests that are late.
CallKept == UNCHANGED <<job, call, late>>

\* Steps that do not send, answer or give up a request.
AsideStep ==
    \/ RefuseLocally \/ Retry
    \/ \E l \in job.legs, d \in {-1, 1} : Trade(l, d)
    \/ \E o \in open : OrderDone(o)
    \/ OrderCreated
    \/ Tick

ServeStep == ServePage \/ ServeQuery \/ ServePosition

\* Every step is one of these.
LEMMA StepCases ==
  ASSUME RestNext
  PROVE  \/ AsideStep \/ ServeStep
         \/ Send \/ Deliver \/ GiveUp \/ RefuseRequest \/ ExecuteWrite
         \/ \E c \in late : LateArrives(c)
  BY Zenon DEF RestNext, AsideStep, ServeStep

\* Such steps leave the requests of the program alone.
LEMMA AsideKeepsCall ==
  ASSUME AsideStep
  PROVE  CallKept /\ UNCHANGED executed
  BY DEF AsideStep, RefuseLocally, Retry, Trade, OrderDone, OrderCreated, Tick, flowVars, CallKept

\* What every step leaves alone, and which fields a call has.
CallInv == DOMAIN call = CallFields

\* At the start ...
LEMMA CallInit == RestInit => CallInv
  BY DEF RestInit, NoCall, CallInv, CallFields

\* ... and after every step; and the job is the same for good.
LEMMA CallStep ==
  ASSUME CallInv, [RestNext]_restVars
  PROVE  CallInv' /\ job' = job
<1>1. CASE AsideStep
  BY <1>1, AsideKeepsCall DEF CallKept, CallInv
<1>2. CASE ServeStep
  BY <1>2 DEF ServeStep, ServePage, ServeQuery, ServePosition, Answered, CallInv, CallFields
<1>3. CASE Send
  BY <1>3 DEF Send, NoCall, CallInv, CallFields
<1>4. CASE Deliver \/ GiveUp
  BY <1>4 DEF Deliver, GiveUp, Over, CallInv, CallFields
<1>5. CASE RefuseRequest \/ ExecuteWrite
  BY <1>5 DEF RefuseRequest, ExecuteWrite, Answered, CallInv, CallFields
<1>6. ASSUME NEW c \in late, LateArrives(c)
      PROVE  CallInv' /\ job' = job
  BY <1>6 DEF LateArrives, CallInv
<1>7. CASE UNCHANGED restVars
  BY <1>7 DEF restVars, flowVars, CallInv
<1>8. QED
  BY <1>1, <1>2, <1>3, <1>4, <1>5, <1>6, <1>7, StepCases

\* What creates something is no listing.
LEMMA WritesAreNotPaged == \A op \in Creating : Endpoint[op].cursor = "none"
<1>1. /\ CreateInternalTransfer.cursor = "none" /\ CreateWithdraw.cursor = "none"
      /\ DistributeVoucher.cursor = "none" /\ CreateOrder.cursor = "none"
      /\ SpotCreateOrder.cursor = "none"
  BY DEF Query, Command, BuildCreateOrderBody, SpotBuildCreateOrderBody, CreateInternalTransfer,
         CreateWithdraw, DistributeVoucher, CreateOrder, SpotCreateOrder
<1>2. QED
  BY <1>1 DEF Creating, Endpoint

\* The jobs name methods that there are, and ClosePosition.
LEMMA JobOps ==
  ASSUME RestInit
  PROVE  /\ job.flow # "close" => job.op \in Op
         /\ job.op \in Creating => job.flow = "call" /\ job.given \in Params(job.op)
<1>0. {"GetPosition", "CreateOrder", "CancelBatchOrders", "GetOpenOrders", "GetWalletBalance"}
          \subseteq Op
  BY DEF Op, Endpoint
<1>1. CASE job \in CallJobs
  <2>1. PICK op \in Op \ (PagedOp \union {"CancelBatchOrders"}) :
            \E given \in Params(op), b \in BOOLEAN : job = CallJob(op, given, b)
    BY <1>1 DEF CallJobs
  <2>2. PICK given \in Params(op), b \in BOOLEAN : job = CallJob(op, given, b)
    BY <2>1
  <2>3. job.flow = "call" /\ job.op = op /\ job.given = given
    BY <2>2 DEF CallJob, Job
  <2>4. QED
    BY <2>3
<1>2. CASE job \in PageJobs
  <2>1. PICK op \in PagedOp, b \in Born({StartTime}) : job = PageJob(op, b)
    BY <1>2 DEF PageJobs
  <2>2. job.op = op
    BY <2>1 DEF PageJob, Job
  <2>3. \A c \in Creating : Endpoint[c].cursor = "none"
    BY WritesAreNotPaged
  <2>4. QED
    BY <2>2, <2>3 DEF PagedOp
<1>3. CASE job \in CloseJobs
  <2>1. PICK legs \in {{0}, {1, 2}} : \E given \in {{}, {"symbol"}}, i \in Leg, p \in Positions(legs) :
            job = CloseJob(given, i, legs, p)
    BY <1>3 DEF CloseJobs
  <2>2. job.flow = "close" /\ job.op = "ClosePosition"
    BY <2>1 DEF CloseJob, Job
  <2>3. QED
    BY <2>2 DEF Creating
<1>4. CASE job \in ForgottenJobs
  <2>1. PICK given \in {{"symbol", "maxAge"}, {"symbol"}, {"maxAge"}},
             b \in Born(0 .. StartTime), u \in {{}, {1}} :
            job = ForgottenJob(given, b, u)
    BY <1>4 DEF ForgottenJobs
  <2>2. job.op = "GetOpenOrders"
    BY <2>1 DEF ForgottenJob, Job
  <2>3. QED
    BY <1>0, <2>2 DEF Creating
<1>5. CASE job = NoJob
  <2>1. job.op = "GetWalletBalance"
    BY <1>5 DEF NoJob, Job
  <2>2. QED
    BY <1>0, <2>1 DEF Creating
<1>6. QED
  BY <1>1, <1>2, <1>3, <1>4, <1>5 DEF RestInit

\* The next request is one of a method there is.
LEMMA NextCallHasOp ==
  ASSUME job.flow # "close" => job.op \in Op, step \in {"read", "act"}
  PROVE  NextCall.op \in Op
<1>1. {"GetPosition", "CreateOrder", "CancelBatchOrders"} \subseteq Op
  BY DEF Op, Endpoint
<1>2. QED
  BY <1>1 DEF NextCall, CloseOrder

\* The methods of jobs and calls are methods there are.
OpInv ==
    /\ CallInv
    /\ job.flow # "close" => job.op \in Op
    /\ step \in {"read", "act"}
    /\ call.op \in Op

\* At the start nothing is called ...
LEMMA OpInit == RestInit => OpInv
<1> SUFFICES ASSUME RestInit PROVE OpInv
  OBVIOUS
<1>1. call = NoCall /\ step = "read"
  BY DEF RestInit
<1>2. call.op \in Op
  BY <1>1 DEF NoCall, Op, Endpoint
<1>3. QED
  BY <1>1, <1>2, CallInit, JobOps DEF OpInv

\* ... and later what the job asks for.
LEMMA OpStep ==
  ASSUME OpInv, [RestNext]_restVars
  PROVE  OpInv'
<1> USE DEF OpInv
<1>0. CallInv' /\ job' = job
  BY CallStep
<1>1. step' \in {"read", "act"}
  <2>1. CASE Deliver \/ GiveUp
    BY <2>1 DEF Deliver, GiveUp, Conclude, Return, NextPage, ListingDone, ChooseForgotten,
                ChooseTarget, UnknownSide, ChunkDone
  <2>2. CASE AsideStep
    BY <2>2 DEF AsideStep, RefuseLocally, Retry, Trade, OrderDone, OrderCreated, Tick, flowVars
  <2>3. CASE Send \/ RefuseRequest \/ ExecuteWrite \/ ServeStep
    BY <2>3 DEF Send, RefuseRequest, ExecuteWrite, ServeStep, ServePage, ServeQuery, ServePosition
  <2>4. ASSUME NEW c \in late, LateArrives(c)
        PROVE  step' \in {"read", "act"}
    BY <2>4 DEF LateArrives
  <2>5. CASE UNCHANGED restVars
    BY <2>5 DEF restVars, flowVars
  <2>6. QED
    BY <2>1, <2>2, <2>3, <2>4, <2>5, StepCases
<1>2. call'.op \in Op
  <2>1. CASE Send
    BY <2>1, NextCallHasOp DEF Send, NoCall
  <2>2. CASE Deliver \/ GiveUp
    BY <2>2 DEF Deliver, GiveUp, Over, CallInv, CallFields
  <2>3. CASE RefuseRequest \/ ExecuteWrite \/ ServeStep
    BY <2>3 DEF RefuseRequest, ExecuteWrite, ServeStep, ServePage, ServeQuery, ServePosition,
                Answered, CallInv, CallFields
  <2>4. CASE AsideStep
    BY <2>4, AsideKeepsCall DEF CallKept
  <2>5. ASSUME NEW c \in late, LateArrives(c)
        PROVE  call'.op \in Op
    BY <2>5 DEF LateArrives
  <2>6. CASE UNCHANGED restVars
    BY <2>6 DEF restVars, flowVars
  <2>7. QED
    BY <2>1, <2>2, <2>3, <2>4, <2>5, <2>6, StepCases
<1>3. QED
  BY <1>0, <1>1, <1>2

\* No method that writes wants a row ...
LEMMA WritesWantNoRow ==
  /\ ~ SetMarginMode.first /\ ~ SetCollateralCoin.first /\ ~ SetHedgingMode.first
  /\ ~ SetDepositAccount.first /\ ~ CreateInternalTransfer.first /\ ~ CreateWithdraw.first
  /\ ~ CancelWithdraw.first /\ ~ DistributeVoucher.first /\ ~ SetLeverage.first
  /\ ~ SetPositionMode.first /\ ~ CreateOrder.first /\ ~ SpotCreateOrder.first
  /\ ~ ModifyOrder.first /\ ~ SpotModifyOrder.first /\ ~ CancelOrder.first
  /\ ~ SpotCancelOrder.first /\ ~ Command("order").first
  BY DEF Query, Command,
         BuildCancelOrderBody, BuildCreateOrderBody, BuildModifyOrderBody,
         SpotBuildCancelOrderBody, SpotBuildCreateOrderBody, SpotBuildModifyOrderBody,
         SetMarginMode, SetCollateralCoin, SetHedgingMode, SetDepositAccount,
         CreateInternalTransfer, CreateWithdraw, CancelWithdraw, DistributeVoucher, SetLeverage,
         SetPositionMode, CreateOrder, SpotCreateOrder, ModifyOrder, SpotModifyOrder,
         CancelOrder, SpotCancelOrder

\* ... the others read ...
LEMMA ReadsDoNotWrite ==
  /\ ~ GetBorrowHistory.writes /\ ~ GetCollateralInfo.writes /\ ~ GetFeeRate.writes
  /\ ~ GetCoinGreeks.writes /\ ~ GetAccountInfo.writes /\ ~ GetTransactionLog.writes
  /\ ~ GetFriendReferrals.writes /\ ~ GetAffiliateUserInfo.writes /\ ~ GetAffiliateUserList.writes
  /\ ~ GetCoinInfo.writes /\ ~ GetDepositAddress.writes /\ ~ GetDepositRecords.writes
  /\ ~ GetAllowedDepositCoins.writes /\ ~ GetAllCoinsBalance.writes
  /\ ~ GetSingleCoinBalance.writes /\ ~ GetTransferableCoins.writes
  /\ ~ GetInternalTransferRecords.writes /\ ~ GetWithdrawRecords.writes
  /\ ~ GetWithdrawableAmount.writes /\ ~ BrokerGetAccountInfo.writes /\ ~ GetVoucherSpec.writes
  /\ ~ GetVoucherDistribution.writes /\ ~ GetSubMemberDepositRecords.writes
  /\ ~ GetEarnings.writes /\ ~ GetWalletBalance.writes /\ ~ SpotGetWalletBalance.writes
  /\ ~ GetPosition.writes /\ ~ GetOpenOrders.writes /\ ~ SpotGetOpenOrders.writes
  /\ ~ GetSymbolInfo.writes /\ ~ SpotGetSymbolInfo.writes /\ ~ GetOrderBook.writes
  /\ ~ SpotGetOrderBook.writes /\ ~ GetHistoricalCandles.writes
  /\ ~ SpotGetHistoricalCandles.writes /\ ~ GetFundingRateHistory.writes
  /\ ~ GetOpenInterest.writes /\ ~ GetInstruments.writes /\ ~ GetRiskLimit.writes
  /\ ~ GetTickers.writes
  BY DEF Query, MarketQuery, ContractCategory,
         GetBorrowHistory, GetCollateralInfo, GetFeeRate, GetCoinGreeks, GetAccountInfo,
         GetTransactionLog, GetFriendReferrals, GetAffiliateUserInfo, GetAffiliateUserList,
         GetCoinInfo, GetDepositAddress, GetDepositRecords, GetAllowedDepositCoins,
         GetAllCoinsBalance, GetSingleCoinBalance, GetTransferableCoins,
         GetInternalTransferRecords, GetWithdrawRecords, GetWithdrawableAmount,
         BrokerGetAccountInfo, GetVoucherSpec, GetVoucherDistribution,
         GetSubMemberDepositRecords, GetEarnings, GetWalletBalance, SpotGetWalletBalance,
         GetPosition, GetOpenOrders, SpotGetOpenOrders, GetSymbolInfo, SpotGetSymbolInfo,
         GetOrderBook, SpotGetOrderBook, GetHistoricalCandles, SpotGetHistoricalCandles,
         GetFundingRateHistory, GetOpenInterest, GetInstruments, GetRiskLimit, GetTickers

\* ... and decode what they read ...
LEMMA ReadsAreDecoded ==
  /\ GetBorrowHistory.decodes /\ GetCollateralInfo.decodes /\ GetFeeRate.decodes
  /\ GetCoinGreeks.decodes /\ GetAccountInfo.decodes /\ GetTransactionLog.decodes
  /\ GetFriendReferrals.decodes /\ GetAffiliateUserInfo.decodes /\ GetAffiliateUserList.decodes
  /\ GetCoinInfo.decodes /\ GetDepositAddress.decodes /\ GetDepositRecords.decodes
  /\ GetAllowedDepositCoins.decodes /\ GetAllCoinsBalance.decodes /\ GetSingleCoinBalance.decodes
  /\ GetTransferableCoins.decodes /\ GetInternalTransferRecords.decodes
  /\ GetWithdrawRecords.decodes /\ GetWithdrawableAmount.decodes /\ BrokerGetAccountInfo.decodes
  /\ GetVoucherSpec.decodes /\ GetVoucherDistribution.decodes
  /\ GetSubMemberDepositRecords.decodes /\ GetEarnings.decodes /\ GetWalletBalance.decodes
  /\ SpotGetWalletBalance.decodes /\ GetPosition.decodes /\ GetOpenOrders.decodes
  /\ SpotGetOpenOrders.decodes /\ GetSymbolInfo.decodes /\ SpotGetSymbolInfo.decodes
  /\ GetOrderBook.decodes /\ SpotGetOrderBook.decodes /\ GetHistoricalCandles.decodes
  /\ SpotGetHistoricalCandles.decodes /\ GetFundingRateHistory.decodes /\ GetOpenInterest.decodes
  /\ GetInstruments.decodes /\ GetRiskLimit.decodes /\ GetTickers.decodes
  BY DEF Query, MarketQuery, ContractCategory,
         GetBorrowHistory, GetCollateralInfo, GetFeeRate, GetCoinGreeks, GetAccountInfo,
         GetTransactionLog, GetFriendReferrals, GetAffiliateUserInfo, GetAffiliateUserList,
         GetCoinInfo, GetDepositAddress, GetDepositRecords, GetAllowedDepositCoins,
         GetAllCoinsBalance, GetSingleCoinBalance, GetTransferableCoins,
         GetInternalTransferRecords, GetWithdrawRecords, GetWithdrawableAmount,
         BrokerGetAccountInfo, GetVoucherSpec, GetVoucherDistribution,
         GetSubMemberDepositRecords, GetEarnings, GetWalletBalance, SpotGetWalletBalance,
         GetPosition, GetOpenOrders, SpotGetOpenOrders, GetSymbolInfo, SpotGetSymbolInfo,
         GetOrderBook, SpotGetOrderBook, GetHistoricalCandles, SpotGetHistoricalCandles,
         GetFundingRateHistory, GetOpenInterest, GetInstruments, GetRiskLimit, GetTickers

\* ... so that an answer without a result is no error of a method that writes.
LEMMA WriterWantsNoRow ==
  ASSUME NEW op \in Op, Endpoint[op].writes
  PROVE  ~ Endpoint[op].first
  BY ReadsDoNotWrite, WritesWantNoRow, SMTT(60) DEF Op, Endpoint

-------------------------------------------------------------------------------
(* What a caller is told of a write. *)

\* An answer that will be told as a refusal belongs to a request that was not executed,
\* one that will be told as a success to a request that was; only a batch cancel has orders.
AnswerInv ==
    /\ "body" \in DOMAIN call.answer
    /\ call.op # "CancelBatchOrders" => call.arg.orders = {}
    /\ call.phase = "answered" /\ Endpoint[call.op].writes /\ call.op # "CancelBatchOrders" =>
           /\ Told(call.op, call.answer) \in Refusal => ~ call.done
           /\ Told(call.op, call.answer) = OK => call.done \/ call.op = "SpotModifyOrder"

TruthInv == OpInv /\ CallInv /\ AnswerInv /\ ToldTheTruth

\* Nothing is told before anything was sent.
LEMMA TruthInit == RestInit => TruthInv
<1> SUFFICES ASSUME RestInit PROVE TruthInv
  OBVIOUS
<1>1. call = NoCall
  BY DEF RestInit
<1>2. call.phase = "none" /\ call.arg.orders = {} /\ "body" \in DOMAIN call.answer
  BY <1>1 DEF NoCall, NoArg, NoAnswer
<1>3. QED
  BY <1>2, CallInit, OpInit DEF TruthInv, AnswerInv, ToldTheTruth

\* No refusal and no failure is taken for a success ...
LEMMA RefusedIsNotOK ==
  ASSUME NEW answer \in Refusals \union Failures \union {Envelope(BadSignature, "empty"), Plain(401)}
  PROVE  DoKind(answer) # OK
<1>1. answer.body = "envelope" => answer.code # 0
  BY DEF Refusals, Failures, Envelope, Plain, BadSignature, AuthCode, RateLimitCode,
         InvalidRequestCode, ExchangeCode, ServerErrorCode
<1>2. answer.body \in {"envelope", "other"}
  BY DEF Refusals, Failures, Envelope, Plain
<1>3. \A n : MapBybitCode(n) # OK /\ MapHTTPStatus(n) # OK
  BY DEF MapBybitCode, MapHTTPStatus, OK
<1>4. QED
  BY <1>1, <1>2, <1>3 DEF DoKind, OK

\* ... each of them has a body ...
LEMMA AnswersHaveBodies ==
  ASSUME NEW answer \in Refusals \union Failures \union {Envelope(BadSignature, "empty"), Plain(401)}
  PROVE  "body" \in DOMAIN answer
  BY DEF Refusals, Failures, Envelope, Plain

\* ... an answer in doubt is told neither as a refusal nor as a success ...
LEMMA FailuresLeaveOpen ==
  ASSUME NEW answer \in Failures, NEW op
  PROVE  Told(op, answer) \notin Refusal /\ Told(op, answer) # OK
<1>1. DoKind(answer) \in {"Network", "Unknown"}
  BY DEF Failures, Envelope, Plain, DoKind, MapBybitCode, MapHTTPStatus, ServerErrorCode,
         AuthCode, RateLimitCode, InvalidRequestCode
<1>2. answer.code # 10001
  BY DEF Failures, Envelope, Plain, ServerErrorCode
<1>3. QED
  BY <1>1, <1>2 DEF Told, OK, Refusal

\* ... a refusal is told as one, but for an amendment of spot ...
LEMMA RefusedIsNotToldOK ==
  ASSUME NEW answer \in Refusals \union Failures \union {Envelope(BadSignature, "empty"), Plain(401)},
         NEW op, op # "SpotModifyOrder"
  PROVE  Told(op, answer) # OK
  BY RefusedIsNotOK DEF Told

\* ... and the answer to what was executed is not told as a refusal.
LEMMA ExecutedIsNoRefusal ==
  ASSUME NEW content \in {"rows", "garbled", "empty", "sideless"}, NEW op,
         content = "empty" => ~ Endpoint[op].first
  PROVE  Told(op, Envelope(0, content)) \notin Refusal
<1>1. DoKind(Envelope(0, content)) = OK
  BY DEF DoKind, Envelope
<1>2. QED
  BY <1>1 DEF Told, Decoded, Envelope, OK, Refusal

\* An answer whose body breaks off is a network error.
LEMMA CutIsNetwork ==
  ASSUME NEW op, NEW answer, "body" \in DOMAIN answer
  PROVE  Told(op, [answer EXCEPT !.body = "cut"]) = "Network"
<1> DEFINE cut == [answer EXCEPT !.body = "cut"]
<1>1. cut.body = "cut"
  OBVIOUS
<1>2. DoKind(cut) = "Network"
  BY <1>1 DEF DoKind
<1> HIDE DEF cut
<1>3. Told(op, cut) = "Network"
  BY <1>1, <1>2 DEF Told, OK
<1>4. QED
  BY <1>3 DEF cut

\* What a page and the positions are answered with.
LEMMA RowsServed ==
  ASSUME CallInv, ServePage \/ ServePosition
  PROVE  /\ call'.op = call.op /\ call'.arg = call.arg /\ call'.phase = "answered"
         /\ call'.answer \in {Envelope(0, "rows"), Envelope(0, "sideless")} /\ call'.done = TRUE
<1>1. CASE ServePage
  BY <1>1 DEF ServePage, CallInv, CallFields
<1>2. CASE ServePosition
  <2>1. PICK content \in {"rows", "sideless"} :
            call' = [call EXCEPT !.phase = "answered", !.done = TRUE, !.legs = position,
                                 !.answer = Envelope(0, content)]
    BY <1>2 DEF ServePosition
  <2>2. QED
    BY <2>1 DEF CallInv, CallFields
<1>3. QED
  BY <1>1, <1>2

\* The answer to a request, whoever gives it.
LEMMA AnswerStep ==
  ASSUME OpInv, AnswerInv, RefuseRequest \/ ExecuteWrite \/ ServeStep
  PROVE  AnswerInv' /\ call'.phase = "answered"
<1> USE DEF OpInv
<1>1. CASE RefuseRequest
  <2>1. PICK answer \in Refusals \union Failures \union {Envelope(BadSignature, "empty"), Plain(401)} :
            call' = [call EXCEPT !.phase = "answered", !.answer = answer, !.done = FALSE]
    BY <1>1 DEF RefuseRequest, Answered
  <2>2. /\ call'.op = call.op /\ call'.arg = call.arg /\ call'.phase = "answered"
        /\ call'.answer = answer /\ call'.done = FALSE
    BY <2>1 DEF CallInv, CallFields
  <2>3. call.op # "SpotModifyOrder" => Told(call.op, answer) # OK
    BY RefusedIsNotToldOK
  <2>4. "body" \in DOMAIN answer
    BY AnswersHaveBodies
  <2>5. QED
    BY <2>2, <2>3, <2>4 DEF AnswerInv
<1>2. CASE ExecuteWrite
  <2>1. PICK answer \in Failures \union
                (IF call.arg.orders \subseteq open
                 THEN {Envelope(0, content) : content \in {"rows", "garbled", "empty"}}
                 ELSE {Envelope(0, content) : content \in {"partly", "garbled", "empty"}}) :
            call' = [call EXCEPT !.phase = "answered", !.answer = answer, !.done = TRUE]
    BY <1>2 DEF ExecuteWrite, Answered
  <2>2. /\ call'.op = call.op /\ call'.arg = call.arg /\ call'.phase = "answered"
        /\ call'.answer = answer /\ call'.done = TRUE
    BY <2>1 DEF CallInv, CallFields
  <2>3. call.op # "CancelBatchOrders" => Told(call.op, answer) \notin Refusal
    <3>1. ASSUME call.op # "CancelBatchOrders"
          PROVE  answer \in Failures
                     \union {Envelope(0, content) : content \in {"rows", "garbled", "empty"}}
      BY <2>1, <3>1 DEF AnswerInv
    <3>2. ~ Endpoint[call.op].first
      BY <1>2, WriterWantsNoRow DEF ExecuteWrite
    <3>3. QED
      BY <3>1, <3>2, FailuresLeaveOpen, ExecutedIsNoRefusal
  <2>4. "body" \in DOMAIN answer
    BY <2>1, AnswersHaveBodies DEF Envelope
  <2>5. QED
    BY <2>2, <2>3, <2>4 DEF AnswerInv
<1>3. CASE ServeQuery
  <2>1. /\ call'.op = call.op /\ call'.arg = call.arg /\ call'.phase = "answered"
        /\ "body" \in DOMAIN call'.answer
    BY <1>3 DEF ServeQuery, Answered, CallInv, CallFields, Envelope
  <2>2. ~ Endpoint[call.op].writes
    BY <1>3 DEF ServeQuery
  <2>3. QED
    BY <2>1, <2>2 DEF AnswerInv
<1>4. CASE ServePage \/ ServePosition
  <2>1. /\ call'.op = call.op /\ call'.arg = call.arg /\ call'.phase = "answered"
        /\ call'.answer \in {Envelope(0, "rows"), Envelope(0, "sideless")} /\ call'.done = TRUE
    BY <1>4, RowsServed
  <2>2. /\ Told(call.op, Envelope(0, "rows")) \notin Refusal
        /\ Told(call.op, Envelope(0, "sideless")) \notin Refusal
    BY ExecutedIsNoRefusal
  <2>3. QED
    BY <2>1, <2>2 DEF AnswerInv, Envelope
<1>5. QED
  BY <1>1, <1>2, <1>3, <1>4 DEF ServeStep

\* What the end of a call leaves of it.
LEMMA OverKeeps ==
  ASSUME CallInv, NEW kind, Over(kind)
  PROVE  /\ call'.op = call.op /\ call'.arg = call.arg /\ call'.done = call.done
         /\ call'.phase = "over" /\ call'.told = kind /\ call'.rows = {}
         /\ call'.answer = NoAnswer
  BY DEF Over, CallInv, CallFields

\* A request leaves with the parameters of NextCall.
LEMMA SendSets ==
  ASSUME Send
  PROVE  /\ call'.op = NextCall.op /\ call'.given = NextCall.given /\ call'.arg = NextCall.arg
         /\ call'.phase = "sent" /\ call'.rows = {} /\ call'.legs = NoPosition
         /\ call'.next = 0 /\ call'.done = FALSE /\ call'.answer = NoAnswer
  BY DEF Send, NoCall

\* Only a batch cancel has orders.
LEMMA OrdersOfNextCall == NextCall.op # "CancelBatchOrders" => NextCall.arg.orders = {}
  BY DEF NextCall, CloseOrder, NoArg

\* What is told stays true, step by step.
LEMMA TruthStep ==
  ASSUME TruthInv, [RestNext]_restVars
  PROVE  TruthInv'
<1> USE DEF TruthInv
<1>0. CallInv' /\ OpInv'
  BY CallStep, OpStep
<1>1. CASE AsideStep
  <2>1. call' = call
    BY <1>1, AsideKeepsCall DEF CallKept
  <2>2. QED
    BY <2>1, <1>0 DEF AnswerInv, ToldTheTruth
<1>2. CASE RefuseRequest \/ ExecuteWrite \/ ServeStep
  <2>1. AnswerInv' /\ call'.phase = "answered"
    BY <1>2, AnswerStep
  <2>2. QED
    BY <2>1, <1>0 DEF ToldTheTruth
<1>3. CASE Send
  BY <1>3, <1>0, SendSets, OrdersOfNextCall DEF AnswerInv, ToldTheTruth, NoAnswer
<1>4. CASE Deliver
  <2>1. PICK answer \in {call.answer, [call.answer EXCEPT !.body = "cut"]} :
            Over(Told(call.op, answer))
    BY <1>4 DEF Deliver
  <2>2. /\ call'.op = call.op /\ call'.arg = call.arg /\ call'.done = call.done
        /\ call'.phase = "over" /\ call'.told = Told(call.op, answer)
        /\ call'.answer = NoAnswer
    BY <2>1, OverKeeps
  <2>3. CASE answer = call.answer
    BY <1>4, <1>0, <2>2, <2>3 DEF Deliver, AnswerInv, ToldTheTruth, NoAnswer
  <2>4. CASE answer # call.answer
    <3>1. Told(call.op, answer) = "Network"
      BY <2>1, <2>4, CutIsNetwork DEF AnswerInv
    <3>2. QED
      BY <1>0, <2>2, <3>1 DEF AnswerInv, ToldTheTruth, OK, Refusal, NoAnswer
  <2>5. QED
    BY <2>3, <2>4
<1>5. CASE GiveUp
  <2>1. /\ call'.op = call.op /\ call'.arg = call.arg
        /\ call'.phase = "over" /\ call'.told = "Network" /\ call'.answer = NoAnswer
    BY <1>5, OverKeeps DEF GiveUp, TransportError
  <2>2. QED
    BY <1>0, <2>1 DEF AnswerInv, ToldTheTruth, OK, Refusal, NoAnswer
<1>6. ASSUME NEW c \in late, LateArrives(c)
      PROVE  TruthInv'
  BY <1>6, <1>0 DEF LateArrives, AnswerInv, ToldTheTruth
<1>7. CASE UNCHANGED restVars
  BY <1>7, <1>0 DEF restVars, flowVars, AnswerInv, ToldTheTruth
<1>8. QED
  BY <1>1, <1>2, <1>3, <1>4, <1>5, <1>6, <1>7, StepCases

\* No caller is told that a write was refused which the exchange has executed, or that it
\* succeeded when it was not executed, however answers are lost, cut off or delayed.
THEOREM TellsTheTruth == RestSpec => []ToldTheTruth
<1>1. TruthInv => ToldTheTruth
  BY DEF TruthInv
<1>2. QED
  BY TruthInit, TruthStep, <1>1, PTL DEF RestSpec

-------------------------------------------------------------------------------
(* What CancelForgottenOrders cancels. *)

\* The order is old enough, and stays so.
Old(o) == o \in Order /\ created[o] # NotYet /\ created[o] <= now + job.skew - MaxAge

Known(o) == o \in Order /\ created[o] # NotYet

ClockInv == now \in Nat /\ created \in [Order -> Int] /\ job.skew \in Int

\* What is listed exists, and what is to be cancelled, now or by a late request, is old.
ForgottenInv ==
    /\ CallInv
    /\ ClockInv
    /\ \A o \in open \union got \union call.rows : Known(o)
    /\ \A o \in todo \union call.arg.orders : Old(o)
    /\ \A c \in late : \A o \in c.arg.orders : Old(o)

\* Orders that exist have one of the times, the others none.
LEMMA BornIsTimes ==
  ASSUME NEW times, NEW b \in Born(times)
  PROVE  b \in [Order -> times \union {NotYet}]
<1>1. PICK k \in 0 .. MaxOrders :
          b \in {[o \in Order |-> IF o <= k THEN f[o] ELSE NotYet] :
                     f \in {g \in [1 .. k -> times] : \A i, j \in 1 .. k : i < j => g[i] <= g[j]}}
  BY Zenon DEF Born
<1>2. PICK f \in [1 .. k -> times] : b = [o \in Order |-> IF o <= k THEN f[o] ELSE NotYet]
  BY <1>1
<1>3. \A o \in Order : o <= k => o \in 1 .. k /\ f[o] \in times
  BY <1>2, RestAssumption DEF Order
<1>4. QED
  BY <1>2, <1>3

\* When orders may be created, and what positions there may be.
BirthTime == Time \union {NotYet}

Size == -MaxQty .. MaxQty

\* The numbers in a job.
LEMMA JobTypes ==
  ASSUME RestInit
  PROVE  /\ job.skew \in Int
         /\ job.born \in [Order -> BirthTime]
         /\ job.before \in [Leg -> Size]
         /\ job.idx \in Leg /\ job.legs \subseteq Leg
<1>0. /\ NoOrders \in [Order -> BirthTime] /\ NoPosition \in [Leg -> Size]
      /\ 0 \in Leg /\ {} \subseteq Leg
  BY RestAssumption DEF NoOrders, BirthTime, NoPosition, Size, Leg
<1>1. CASE job \in CallJobs
  <2>1. PICK op, given, b : job = CallJob(op, given, b)
    BY <1>1 DEF CallJobs
  <2>2. QED
    BY <1>0, <2>1 DEF CallJob, Job
<1>2. CASE job \in PageJobs
  <2>1. PICK op \in PagedOp, b \in Born({StartTime}) : job = PageJob(op, b)
    BY <1>2 DEF PageJobs
  <2>2. b \in [Order -> BirthTime]
    BY BornIsTimes, RestAssumption DEF BirthTime, Time
  <2>3. QED
    BY <1>0, <2>1, <2>2 DEF PageJob, Job
<1>3. CASE job \in CloseJobs
  <2>1. PICK legs \in {{0}, {1, 2}} : \E given \in {{}, {"symbol"}}, i \in Leg, p \in Positions(legs) :
            job = CloseJob(given, i, legs, p)
    BY <1>3 DEF CloseJobs
  <2>2. PICK given \in {{}, {"symbol"}}, i \in Leg, p \in Positions(legs) :
            job = CloseJob(given, i, legs, p)
    BY <2>1
  <2>3. p \in [Leg -> Size] /\ legs \subseteq Leg
    BY DEF Positions, Leg, Size
  <2>4. QED
    BY <1>0, <2>2, <2>3 DEF CloseJob, Job
<1>4. CASE job \in ForgottenJobs
  <2>1. PICK given \in {{"symbol", "maxAge"}, {"symbol"}, {"maxAge"}},
             b \in Born(0 .. StartTime), u \in {{}, {1}} :
            job = ForgottenJob(given, b, u)
    BY <1>4 DEF ForgottenJobs
  <2>2. b \in [Order -> BirthTime]
    BY BornIsTimes, RestAssumption DEF BirthTime, Time
  <2>3. QED
    BY <1>0, <2>1, <2>2, RestAssumption DEF ForgottenJob, Job
<1>5. CASE job = NoJob
  BY <1>0, <1>5 DEF NoJob, Job
<1>6. QED
  BY <1>1, <1>2, <1>3, <1>4, <1>5 DEF RestInit

\* The same numbers as integers.
LEMMA JobNumbers ==
  ASSUME RestInit
  PROVE  /\ job.skew \in Int
         /\ job.born \in [Order -> Int]
         /\ job.before \in [Leg -> Int]
         /\ job.idx \in Leg /\ job.legs \subseteq Leg
<1>1. BirthTime \subseteq Int /\ Size \subseteq Int
  BY RestAssumption DEF BirthTime, Time, NotYet, Size
<1>2. QED
  BY <1>1, JobTypes

\* At the start only orders that exist are open, and none is to be cancelled.
LEMMA ForgottenInit == RestInit => ForgottenInv
<1> SUFFICES ASSUME RestInit PROVE ForgottenInv
  OBVIOUS
<1>1. call.rows = {} /\ call.arg.orders = {}
  BY DEF RestInit, NoCall, NoArg
<1>2. ClockInv
  BY JobNumbers, RestAssumption DEF RestInit, ClockInv
<1>3. QED
  BY <1>1, <1>2, CallInit DEF RestInit, ForgottenInv, Known

\* Time and the creation of orders leave an old order old.
LEMMA OldStays ==
  ASSUME ClockInv, job' = job,
         \/ now' = now /\ created' = created
         \/ Tick
         \/ OrderCreated
  PROVE  /\ ClockInv'
         /\ \A o : Known(o) => Known(o)'
         /\ \A o : Old(o) => Old(o)'
<1>1. CASE now' = now /\ created' = created
  BY <1>1 DEF ClockInv, Known, Old
<1>2. CASE Tick
  BY <1>2, RestAssumption DEF Tick, ClockInv, Known, Old, Order
<1>3. CASE OrderCreated
  <2>1. PICK o \in {p \in Order : created[p] = NotYet} : created' = [created EXCEPT ![o] = now]
    BY <1>3 DEF OrderCreated
  <2>2. now' = now
    BY <1>3 DEF OrderCreated
  <2>3. QED
    BY <2>1, <2>2 DEF ClockInv, Known, Old, NotYet
<1>4. QED
  BY <1>1, <1>2, <1>3

\* A request cancels only what is to be cancelled.
LEMMA OrdersToBeSent == \A o \in NextCall.arg.orders : o \in todo
  BY DEF NextCall, CloseOrder, NoArg, Chunk, Lowest

\* The end of a call adds to the list what it has read, and to the orders to be cancelled
\* the old ones of them.
LEMMA ConcludeKeeps ==
  ASSUME NEW kind, Conclude(kind)
  PROVE  /\ got' \subseteq got \union call.rows
         /\ \A o \in todo' : o \in todo \/ (o \in got \union call.rows /\ IsForgotten(o))
  BY DEF Conclude, Return, NextPage, ListingDone, ChooseForgotten, ChooseTarget, UnknownSide,
         ChunkDone

\* What is to be cancelled is old, step by step.
LEMMA ForgottenStep ==
  ASSUME ForgottenInv, [RestNext]_restVars
  PROVE  ForgottenInv'
<1> USE DEF ForgottenInv
<1>0. CallInv' /\ job' = job
  BY CallStep
<1>1. CASE AsideStep
  <2>1. call' = call /\ late' = late
    BY <1>1, AsideKeepsCall DEF CallKept
  <2>2. \/ now' = now /\ created' = created
        \/ Tick
        \/ OrderCreated
    BY <1>1 DEF AsideStep, RefuseLocally, Retry, Trade, OrderDone, exchangeVars
  <2>3. todo' \subseteq todo /\ got' \subseteq got
    BY <1>1 DEF AsideStep, RefuseLocally, Retry, Trade, OrderDone, OrderCreated, Tick, flowVars
  <2>4. \A o \in open' : Known(o) \/ Known(o)'
    <3>1. CASE OrderCreated
      BY <3>1 DEF OrderCreated, ClockInv, Known, NotYet
    <3>2. CASE ~ OrderCreated
      BY <1>1, <3>2 DEF AsideStep, RefuseLocally, Retry, Trade, OrderDone, Tick, exchangeVars
    <3>3. QED
      BY <3>1, <3>2
  <2>5. QED
    BY <1>0, <2>1, <2>2, <2>3, <2>4, OldStays
<1>2. CASE Send
  <2>1. UNCHANGED <<now, created, open, got, todo, late>>
    BY <1>2 DEF Send, exchangeVars
  <2>2. QED
    BY <1>0, <1>2, <2>1, SendSets, OrdersToBeSent, OldStays
<1>3. CASE RefuseRequest \/ ExecuteWrite \/ ServeStep
  <2>1. UNCHANGED <<now, created, got, todo, late>> /\ open' \subseteq open
    BY <1>3 DEF RefuseRequest, ExecuteWrite, Execute, ServeStep, ServePage, ServeQuery,
                ServePosition, exchangeVars
  <2>2. call'.arg = call.arg /\ call'.rows \subseteq call.rows \union open
    <3>1. CASE ServePage
      BY <3>1 DEF ServePage, CallInv, CallFields, Lowest
    <3>2. CASE RefuseRequest \/ ExecuteWrite \/ ServeQuery \/ ServePosition
      BY <3>2 DEF RefuseRequest, ExecuteWrite, ServeQuery, ServePosition, Answered, CallInv,
                  CallFields
    <3>3. QED
      BY <1>3, <3>1, <3>2 DEF ServeStep
  <2>3. QED
    BY <1>0, <2>1, <2>2, OldStays
<1>4. CASE Deliver \/ GiveUp
  <2>1. PICK kind : Over(kind) /\ Conclude(kind)
    BY <1>4 DEF Deliver, GiveUp
  <2>2. UNCHANGED <<now, created, open>> /\ late' \subseteq late \union {call}
    BY <1>4 DEF Deliver, GiveUp, exchangeVars
  <2>3. call'.arg = call.arg /\ call'.rows = {}
    BY <2>1, OverKeeps
  <2>4. \A o : Known(o) /\ IsForgotten(o) => Old(o)
    BY DEF Known, IsForgotten, Old
  <2>5. got' \subseteq got \union call.rows /\ \A o \in todo' : Old(o)
    BY <2>1, <2>4, ConcludeKeeps
  <2>6. QED
    BY <1>0, <2>2, <2>3, <2>5, OldStays
<1>5. ASSUME NEW c \in late, LateArrives(c)
      PROVE  ForgottenInv'
  <2>1. /\ UNCHANGED <<call, now, created, got, todo>>
        /\ open' \subseteq open /\ late' \subseteq late
    BY <1>5 DEF LateArrives, Execute
  <2>2. QED
    BY <1>0, <2>1, OldStays
<1>6. CASE UNCHANGED restVars
  BY <1>0, <1>6, OldStays DEF restVars, flowVars, exchangeVars
<1>7. QED
  BY <1>1, <1>2, <1>3, <1>4, <1>5, <1>6, StepCases

\* A step that has to do with a request takes away orders of that request only.
LEMMA OnlyOwnOrdersGo ==
  ASSUME CallInv, [RestNext]_restVars, <<call, late>>' # <<call, late>>,
         NEW o \in open \ open'
  PROVE  o \in call.arg.orders \/ \E c \in late : o \in c.arg.orders
<1>1. ~ AsideStep /\ ~ UNCHANGED restVars
  BY AsideKeepsCall DEF CallKept, restVars, flowVars
<1>2. CASE ExecuteWrite
  BY <1>2 DEF ExecuteWrite, Execute
<1>3. ASSUME NEW c \in late, LateArrives(c)
      PROVE  o \in c.arg.orders
  BY <1>3 DEF LateArrives, Execute
<1>4. CASE Send \/ RefuseRequest \/ ServeStep \/ Deliver \/ GiveUp
  BY <1>4 DEF Send, RefuseRequest, ServeStep, ServePage, ServeQuery, ServePosition, Deliver,
              GiveUp, exchangeVars
<1>5. QED
  BY <1>1, <1>2, <1>3, <1>4, StepCases

\* CancelForgottenOrders cancels no order that is younger than it was told by its clock,
\* whatever is created or filled while it reads, and however late the cancel arrives.
THEOREM OnlyOldOrdersGo == RestSpec => OnlyForgottenCancelled
<1>1. ForgottenInv /\ [RestNext]_restVars =>
          [<<call, late>>' # <<call, late>> =>
               \A o \in open \ open' : now - created[o] >= MaxAge - job.skew]_restVars
  <2> SUFFICES ASSUME ForgottenInv, [RestNext]_restVars, <<call, late>>' # <<call, late>>,
                      NEW o \in open \ open'
               PROVE  now - created[o] >= MaxAge - job.skew
    OBVIOUS
  <2>1. Old(o)
    BY OnlyOwnOrdersGo DEF ForgottenInv
  <2>2. QED
    BY <2>1, RestAssumption DEF Old, ForgottenInv, ClockInv
<1>2. QED
  BY ForgottenInit, ForgottenStep, <1>1, PTL DEF RestSpec, OnlyForgottenCancelled

-------------------------------------------------------------------------------
(* What the orders of ClosePosition do. *)

\* An order that can only make a position smaller, or a request that is no order.
Harmless(arg) ==
    /\ arg.idx \in Leg
    /\ arg.qty \in Nat
    /\ arg.qty = 0 \/ arg.reduceOnly

LegInv ==
    /\ job.legs \subseteq Leg
    /\ position \in [Leg -> Int]
    /\ call.legs \in [Leg -> Int]
    /\ target.idx \in Leg /\ target.qty \in Int

HarmlessInv ==
    /\ CallInv
    /\ LegInv
    /\ Harmless(call.arg)
    /\ \A c \in late : Harmless(c.arg)

\* No position is a position of size zero.
LEMMA NoPositionIsInt == NoPosition \in [Leg -> Int]
  BY DEF NoPosition

\* No order is on its way at the start.
LEMMA HarmlessInit == RestInit => HarmlessInv
<1> SUFFICES ASSUME RestInit PROVE HarmlessInv
  OBVIOUS
<1>1. call = NoCall /\ target = NoRow /\ position = job.before /\ late = {}
  BY DEF RestInit
<1>2. call.legs = NoPosition /\ call.arg = NoArg
  BY <1>1 DEF NoCall
<1>3. Harmless(NoArg)
  BY DEF Harmless, NoArg, Leg
<1>4. LegInv
  BY <1>1, <1>2, JobNumbers, NoPositionIsInt DEF LegInv, NoRow, Leg
<1>5. QED
  BY <1>1, <1>2, <1>3, <1>4, CallInit DEF HarmlessInv

\* What the exchange makes of a harmless order is between the position and none.
LEMMA HarmlessOrder ==
  ASSUME position \in [Leg -> Int], NEW c, Harmless(c.arg), Executable(c), Execute(c)
  PROVE  /\ position' \in [Leg -> Int]
         /\ \A l \in Leg : Abs(position'[l]) <= Abs(position[l]) /\ position'[l] * position[l] >= 0
<1> DEFINE i == c.arg.idx
           q == c.arg.qty
           p == position[i]
           after == IF c.arg.side = "Sell" THEN p - q ELSE p + q
<1>1. i \in Leg /\ q \in Nat /\ p \in Int
  BY DEF Harmless
<1>2. Traded(c.arg) = IF c.arg.reduceOnly /\ after * p < 0 THEN 0 ELSE after
  BY <1>1 DEF Traded
<1>3. CASE q = 0
  BY <1>1, <1>3, <1>2 DEF Execute, Abs
<1>4. CASE c.arg.reduceOnly /\ c.arg.side = "Sell"
  <2>1. p > 0 /\ after = p - q
    BY <1>4 DEF Executable
  <2>2. Traded(c.arg) \in 0 .. p
    BY <1>1, <1>2, <1>4, <2>1
  <2>3. QED
    BY <1>1, <2>1, <2>2 DEF Execute, Abs
<1>5. CASE c.arg.reduceOnly /\ c.arg.side # "Sell"
  <2>1. p < 0 /\ after = p + q
    BY <1>5 DEF Executable
  <2>2. Traded(c.arg) \in p .. 0
    BY <1>1, <1>2, <1>5, <2>1
  <2>3. QED
    BY <1>1, <2>1, <2>2 DEF Execute, Abs
<1>6. QED
  BY <1>3, <1>4, <1>5 DEF Harmless

\* The next request is harmless, whatever the job is.
LEMMA NextCallIsHarmless ==
  ASSUME LegInv
  PROVE  Harmless(NextCall.arg)
  BY DEF LegInv, NextCall, CloseOrder, NoArg, Harmless, Abs, Leg

\* A row that is chosen is a row of an account.
LEMMA ConcludeTarget ==
  ASSUME LegInv, NEW kind, Conclude(kind)
  PROVE  target'.idx \in Leg /\ target'.qty \in Int
  BY DEF LegInv, Conclude, Return, NextPage, ListingDone, ChooseForgotten, ChooseTarget, ToClose,
         UnknownSide, ChunkDone

\* No step makes a request that could open a position.
LEMMA HarmlessStep ==
  ASSUME HarmlessInv, [RestNext]_restVars
  PROVE  HarmlessInv'
<1> USE DEF HarmlessInv
<1>0. CallInv' /\ job' = job
  BY CallStep
<1>1. CASE AsideStep
  <2>1. call' = call /\ late' = late
    BY <1>1, AsideKeepsCall DEF CallKept
  <2>2. target' = target \/ target' = NoRow
    BY <1>1 DEF AsideStep, RefuseLocally, Retry, Trade, OrderDone, OrderCreated, Tick, flowVars
  <2>3. position' \in [Leg -> Int]
    <3>1. ASSUME NEW l \in job.legs, NEW d \in {-1, 1}, Trade(l, d)
          PROVE  position' \in [Leg -> Int]
      BY <3>1 DEF Trade, LegInv
    <3>2. CASE UNCHANGED position
      BY <3>2 DEF LegInv
    <3>3. QED
      BY <1>1, <3>1, <3>2 DEF AsideStep, RefuseLocally, Retry, OrderDone, OrderCreated, Tick,
                              exchangeVars
  <2>4. QED
    BY <1>0, <2>1, <2>2, <2>3 DEF LegInv, NoRow, Leg
<1>2. CASE Send
  <2>1. UNCHANGED <<position, target, late>>
    BY <1>2 DEF Send, exchangeVars
  <2>2. QED
    BY <1>0, <1>2, <2>1, SendSets, NextCallIsHarmless, NoPositionIsInt DEF LegInv
<1>3. CASE ExecuteWrite
  <2>1. UNCHANGED <<target, late>> /\ call'.arg = call.arg /\ call'.legs = call.legs
    BY <1>3 DEF ExecuteWrite, Answered, CallInv, CallFields
  <2>2. position' \in [Leg -> Int]
    BY <1>3, HarmlessOrder DEF ExecuteWrite, LegInv
  <2>3. QED
    BY <1>0, <2>1, <2>2 DEF LegInv
<1>4. CASE RefuseRequest \/ ServeStep
  <2>1. UNCHANGED <<target, late, position>>
    BY <1>4 DEF RefuseRequest, ServeStep, ServePage, ServeQuery, ServePosition, exchangeVars
  <2>2. call'.arg = call.arg /\ (call'.legs = call.legs \/ call'.legs = position)
    <3>1. CASE ServePage \/ ServePosition
      BY <3>1 DEF ServePage, ServePosition, CallInv, CallFields
    <3>2. CASE RefuseRequest \/ ServeQuery
      BY <3>2 DEF RefuseRequest, ServeQuery, Answered, CallInv, CallFields
    <3>3. QED
      BY <1>4, <3>1, <3>2 DEF ServeStep
  <2>3. QED
    BY <1>0, <2>1, <2>2 DEF LegInv
<1>5. CASE Deliver \/ GiveUp
  <2>1. PICK kind : Over(kind) /\ Conclude(kind)
    BY <1>5 DEF Deliver, GiveUp
  <2>2. UNCHANGED position /\ late' \subseteq late \union {call}
    BY <1>5 DEF Deliver, GiveUp, exchangeVars
  <2>3. call'.arg = call.arg /\ call'.legs = NoPosition
    BY <2>1 DEF Over, CallInv, CallFields
  <2>4. target'.idx \in Leg /\ target'.qty \in Int
    BY <2>1, ConcludeTarget
  <2>5. QED
    BY <1>0, <2>2, <2>3, <2>4, NoPositionIsInt DEF LegInv
<1>6. ASSUME NEW c \in late, LateArrives(c)
      PROVE  HarmlessInv'
  <2>1. UNCHANGED <<call, target>> /\ late' \subseteq late
    BY <1>6 DEF LateArrives
  <2>2. position' \in [Leg -> Int]
    BY <1>6, HarmlessOrder DEF LateArrives, LegInv
  <2>3. QED
    BY <1>0, <2>1, <2>2 DEF LegInv
<1>7. CASE UNCHANGED restVars
  BY <1>0, <1>7 DEF restVars, flowVars, exchangeVars, LegInv
<1>8. QED
  BY <1>1, <1>2, <1>3, <1>4, <1>5, <1>6, <1>7, StepCases

\* A step that has to do with a request opens and turns no position.
LEMMA OwnOrdersAreHarmless ==
  ASSUME HarmlessInv, [RestNext]_restVars, <<call, late>>' # <<call, late>>, NEW l \in Leg
  PROVE  Abs(position'[l]) <= Abs(position[l]) /\ position'[l] * position[l] >= 0
<1> USE DEF HarmlessInv, LegInv
<1>1. ~ AsideStep /\ ~ UNCHANGED restVars
  BY AsideKeepsCall DEF CallKept, restVars, flowVars
<1>2. CASE ExecuteWrite
  BY <1>2, HarmlessOrder DEF ExecuteWrite
<1>3. ASSUME NEW c \in late, LateArrives(c)
      PROVE  Abs(position'[l]) <= Abs(position[l]) /\ position'[l] * position[l] >= 0
  BY <1>3, HarmlessOrder DEF LateArrives
<1>4. CASE Send \/ RefuseRequest \/ ServeStep \/ Deliver \/ GiveUp
  <2>1. position' = position
    BY <1>4 DEF Send, RefuseRequest, ServeStep, ServePage, ServeQuery, ServePosition, Deliver,
                GiveUp, exchangeVars
  <2>2. \A n \in Int : n * n >= 0
    OBVIOUS
  <2>3. QED
    BY <2>1, <2>2 DEF Abs
<1>5. QED
  BY <1>1, <1>2, <1>3, <1>4, StepCases

\* Whatever is traded between the reading of ClosePosition and its order, and however often
\* it is tried and late the order arrives, no order of it opens or turns a position.
THEOREM ClosingNeverOpens == RestSpec => CloseNeverOpens
<1>1. HarmlessInv /\ [RestNext]_restVars =>
          [<<call, late>>' # <<call, late>> =>
               \A l \in Leg : /\ Abs(position'[l]) <= Abs(position[l])
                              /\ position'[l] * position[l] >= 0]_restVars
  BY OwnOrdersAreHarmless
<1>2. QED
  BY HarmlessInit, HarmlessStep, <1>1, PTL DEF RestSpec, CloseNeverOpens

-------------------------------------------------------------------------------
(* What ClosePosition has closed when it returns without an error. *)

\* Of the same direction and not larger.
Within(n, size) == (0 <= n /\ n <= size) \/ (size <= n /\ n <= 0)

\* A leg that ClosePosition may close: any, or the one it was asked for.
Asked(l) == job.idx # 0 => l = job.idx

\* An order for such a leg, or a request that is no order.
Aimed(arg) == arg.qty = 0 \/ Asked(arg.idx)

\* The legs of the account, and where requests of ClosePosition are aimed.
AimInv ==
    /\ job.idx \in Leg
    /\ \A l \in Leg \ job.legs : position[l] = 0
    /\ job.legs = {0} \/ 0 \notin job.legs
    /\ Aimed(call.arg)
    /\ \A c \in late : Aimed(c.arg)
    /\ Acting => target.idx \in job.legs /\ Asked(target.idx)

\* What ClosePosition waits for: the positions, or the order for the row it has chosen.
WaitInv ==
    /\ step \in {"read", "act"}
    /\ at \in {"next", "waiting", "returned"}
    /\ at # "returned" => err = <<>>
    /\ at = "waiting" /\ ~ Acting => call.op = "GetPosition"
    /\ at = "waiting" /\ Acting => call.op = "CreateOrder" /\ call.arg = CloseOrder.arg

\* The positions were read, and nobody has traded since.
Steady == ~ moved /\ ~ blank

\* Somebody knows what the position is, and nobody has traded since.
ReadInv ==
    /\ at = "waiting" /\ ~ Acting /\ call.phase = "answered"
           /\ Told("GetPosition", call.answer) = OK /\ Steady =>
           \A l \in Leg : Within(position[l], call.legs[l])
    /\ at # "returned" /\ Acting /\ Steady => Within(position[target.idx], target.qty)

\* What is closed stays closed unless somebody trades.
ClosedInv ==
    /\ at = "waiting" /\ Acting /\ call.phase = "answered" /\ call.done /\ Steady =>
           position[target.idx] = 0
    /\ Succeeded /\ Steady => (job.idx # 0 \/ job.legs = {0} => position[job.idx] = 0)

\* Without trades of others, legs that nobody asked to close are as before, and on a first
\* try those other than the one that was chosen.
LedgerInv ==
    /\ tries \in Nat \ {0} /\ trades \in Nat
    /\ trades = 0 => \A l \in Leg : ~ Asked(l) => position[l] = job.before[l]
    /\ trades = 0 /\ tries = 1 /\ ~ Acting =>
           /\ position = job.before
           /\ \A c \in late \union {call} : c.arg.qty = 0
    /\ trades = 0 /\ tries = 1 /\ Acting =>
           /\ \A l \in Leg : l # target.idx => position[l] = job.before[l]
           /\ \A c \in late \union {call} : c.arg.qty = 0 \/ c.arg.idx = target.idx

ClosingInv == AimInv /\ WaitInv /\ ReadInv /\ ClosedInv /\ LedgerInv

CloseInv == TruthInv /\ HarmlessInv /\ (job.flow = "close" => ClosingInv)

\* A position that gets no larger and does not turn is within what it was ...
LEMMA Shrinks ==
  ASSUME NEW n \in Int, NEW p \in Int, Abs(n) <= Abs(p), n * p >= 0
  PROVE  Within(n, p)
<1>1. CASE p = 0
  BY <1>1 DEF Abs, Within
<1>2. CASE p > 0
  <2>1. ~ (n < 0)
    BY <1>2
  <2>2. QED
    BY <1>2, <2>1 DEF Abs, Within
<1>3. CASE p < 0
  <2>1. ~ (n > 0)
    BY <1>3
  <2>2. QED
    BY <1>3, <2>1 DEF Abs, Within
<1>4. QED
  BY <1>1, <1>2, <1>3

\* ... and within what that was within ...
LEMMA WithinWithin ==
  ASSUME NEW n \in Int, NEW p \in Int, NEW size \in Int, Within(n, p), Within(p, size)
  PROVE  Within(n, size)
  BY DEF Within

\* ... as it is within itself ...
LEMMA WithinItself == \A n \in Int : Within(n, n)
  BY DEF Within

\* ... and what is within nothing is nothing.
LEMMA WithinNone == \A n \in Int : Within(n, 0) => n = 0
  BY DEF Within

\* What the exchange makes of a harmless order, leg by leg.
LEMMA OrderShrinks ==
  ASSUME position \in [Leg -> Int], NEW c, Harmless(c.arg), Executable(c), Execute(c)
  PROVE  /\ position' \in [Leg -> Int]
         /\ \A l \in Leg : Within(position'[l], position[l])
         /\ \A l \in Leg : l # c.arg.idx => position'[l] = position[l]
         /\ c.arg.qty = 0 => position' = position
         /\ UNCHANGED <<trades, moved, blank>>
<1>1. /\ position' \in [Leg -> Int]
      /\ \A l \in Leg : Abs(position'[l]) <= Abs(position[l]) /\ position'[l] * position[l] >= 0
  BY HarmlessOrder
<1>2. \A l \in Leg : Within(position'[l], position[l])
  BY <1>1, Shrinks
<1>3. /\ position' = [position EXCEPT ![c.arg.idx] = Traded(c.arg)]
      /\ UNCHANGED <<trades, moved, blank>>
  BY DEF Execute
<1>4. ASSUME c.arg.qty = 0
      PROVE  position' = position
  <2>1. c.arg.idx \in Leg /\ position[c.arg.idx] \in Int
    BY DEF Harmless
  <2>2. ~ (position[c.arg.idx] * position[c.arg.idx] < 0)
    BY <2>1
  <2>3. Traded(c.arg) = position[c.arg.idx]
    BY <1>4, <2>1, <2>2 DEF Traded
  <2>4. QED
    BY <1>3, <2>1, <2>3
<1>5. QED
  BY <1>1, <1>2, <1>3, <1>4

\* The order of ClosePosition leaves nothing of a position that is no larger than it was
\* when it was read.
LEMMA OrderCloses ==
  ASSUME position \in [Leg -> Int], NEW c, Executable(c), Execute(c),
         target.idx \in Leg, target.qty \in Int,
         c.arg = CloseOrder.arg, Within(position[target.idx], target.qty)
  PROVE  position'[target.idx] = 0
<1> DEFINE p == position[target.idx]
           q == target.qty
<1>1. /\ c.arg.idx = target.idx /\ c.arg.side = Opposite(q)
      /\ c.arg.qty = Abs(q) /\ c.arg.reduceOnly
  BY DEF CloseOrder, NoArg
<1>2. p \in Int /\ q \in Int
  OBVIOUS
<1>3. position'[target.idx] = Traded(c.arg)
  BY <1>1 DEF Execute
<1>4. CASE q > 0
  <2>1. c.arg.side = "Sell" /\ c.arg.qty = q
    BY <1>1, <1>4 DEF Opposite, Abs
  <2>2. p > 0 /\ p <= q
    BY <1>1, <1>2, <1>4, <2>1 DEF Executable, Within
  <2>3. p - q = 0 \/ (p - q) * p < 0
    BY <1>2, <2>2
  <2>4. QED
    BY <1>1, <1>2, <1>3, <2>1, <2>3 DEF Traded
<1>5. CASE ~ (q > 0)
  <2>1. c.arg.side = "Buy" /\ c.arg.qty = -q
    BY <1>1, <1>2, <1>5 DEF Opposite, Abs
  <2>2. p < 0 /\ q <= p
    BY <1>1, <1>2, <1>5, <2>1 DEF Executable, Within
  <2>3. p + (-q) = 0 \/ (p + (-q)) * p < 0
    BY <1>2, <2>2
  <2>4. QED
    BY <1>1, <1>2, <1>3, <2>1, <2>3 DEF Traded
<1>6. QED
  BY <1>4, <1>5

\* A job that closes has an account of one leg or of two, and its positions.
LEMMA JobOfClose ==
  ASSUME RestInit, job.flow = "close"
  PROVE  /\ job.idx \in Leg
         /\ job.legs = {0} \/ 0 \notin job.legs
         /\ \A l \in Leg \ job.legs : job.before[l] = 0
<1>1. job \in CloseJobs
  <2>1. job \notin CallJobs
    <3>1. \A op, given, b : CallJob(op, given, b).flow = "call"
      BY DEF CallJob, Job
    <3>2. job \in CallJobs => \E op, given, b : job = CallJob(op, given, b)
      BY DEF CallJobs
    <3>3. QED
      BY <3>1, <3>2
  <2>2. job \notin PageJobs
    <3>1. \A op, b : PageJob(op, b).flow = "pages"
      BY DEF PageJob, Job
    <3>2. QED
      BY <3>1 DEF PageJobs
  <2>3. job \notin ForgottenJobs
    <3>1. \A given, b, u : ForgottenJob(given, b, u).flow = "forgotten"
      BY DEF ForgottenJob, Job
    <3>2. QED
      BY <3>1 DEF ForgottenJobs
  <2>4. job # NoJob
    BY DEF NoJob, Job
  <2>5. QED
    BY <2>1, <2>2, <2>3, <2>4 DEF RestInit
<1>2. PICK legs \in {{0}, {1, 2}} : \E given \in {{}, {"symbol"}}, i \in Leg, p \in Positions(legs) :
          job = CloseJob(given, i, legs, p)
  BY <1>1 DEF CloseJobs
<1>3. PICK given \in {{}, {"symbol"}}, i \in Leg, p \in Positions(legs) :
          job = CloseJob(given, i, legs, p)
  BY <1>2
<1>4. job.idx = i /\ job.legs = legs /\ job.before = p
  BY <1>3 DEF CloseJob, Job
<1>5. QED
  BY <1>2, <1>4 DEF Positions

\* At the start nothing is read, chosen or closed.
LEMMA CloseInit == RestInit => CloseInv
<1> SUFFICES ASSUME RestInit PROVE CloseInv
  OBVIOUS
<1>1. /\ at = (IF job = NoJob THEN "returned" ELSE "next") /\ step = "read" /\ tries = 1
      /\ call = NoCall /\ err = <<>> /\ late = {} /\ position = job.before /\ trades = 0
  BY DEF RestInit
<1>2. call.arg.qty = 0 /\ call.phase = "none"
  BY <1>1 DEF NoCall, NoArg
<1>3. ASSUME job.flow = "close"
      PROVE  ClosingInv
  <2>1. at = "next"
    BY <1>1, <1>3 DEF NoJob, Job
  <2>2. AimInv
    BY <1>1, <1>2, <1>3, JobOfClose DEF AimInv, Aimed, Acting
  <2>3. WaitInv /\ ReadInv /\ ClosedInv
    BY <1>1, <2>1 DEF WaitInv, ReadInv, ClosedInv, Acting, Succeeded, Returned
  <2>4. LedgerInv
    BY <1>1, <1>2 DEF LedgerInv, Acting
  <2>5. QED
    BY <2>2, <2>3, <2>4 DEF ClosingInv
<1>4. QED
  BY <1>3, TruthInit, HarmlessInit DEF CloseInv

\* The two requests of ClosePosition: one only reads, and decodes what it reads, the other
\* writes; no result of them has pages.
LEMMA CloseRequests ==
  /\ ~ Endpoint["GetPosition"].writes /\ Endpoint["CreateOrder"].writes
  /\ Endpoint["GetPosition"].decodes
  /\ {"GetPosition", "CreateOrder"} \intersect PagedOp = {}
<1>1. /\ ~ GetPosition.writes /\ GetPosition.cursor = "none" /\ GetPosition.decodes
      /\ CreateOrder.writes /\ CreateOrder.cursor = "none"
  BY DEF GetPosition, Query, CreateOrder, BuildCreateOrderBody, Command
<1>2. Endpoint["GetPosition"] = GetPosition /\ Endpoint["CreateOrder"] = CreateOrder
  BY DEF Endpoint
<1>3. QED
  BY <1>1, <1>2 DEF PagedOp

\* A request goes out: for the positions, or the order for the row that was chosen.
LEMMA CloseSend ==
  ASSUME HarmlessInv, job.flow = "close", ClosingInv, job' = job, Send
  PROVE  ClosingInv'
<1> USE DEF ClosingInv
<1>1. /\ UNCHANGED <<step, target, err, late, tries, position, trades, moved, blank>>
      /\ at = "next" /\ at' = "waiting"
  BY DEF Send, exchangeVars
<1>2. call'.op = NextCall.op /\ call'.arg = NextCall.arg /\ call'.phase = "sent"
  BY SendSets
<1>3. ~ Acting => NextCall.op = "GetPosition" /\ NextCall.arg = NoArg
  BY DEF NextCall, WaitInv, Acting
<1>4. Acting => NextCall.op = "CreateOrder" /\ NextCall.arg = CloseOrder.arg
  BY DEF NextCall, CloseOrder, Acting
<1>5. NoArg.qty = 0 /\ CloseOrder.arg.idx = target.idx
  BY DEF NoArg, CloseOrder
<1>6. AimInv'
  BY <1>1, <1>2, <1>3, <1>4, <1>5 DEF AimInv, Aimed, Asked, Acting
<1>7. CloseOrder' = CloseOrder
  BY <1>1 DEF CloseOrder
<1>8. WaitInv'
  BY <1>1, <1>2, <1>3, <1>4, <1>7 DEF WaitInv, Acting
<1>9. ReadInv' /\ ClosedInv'
  BY <1>1, <1>2 DEF Steady, ReadInv, ClosedInv, Acting, Succeeded, Returned
<1>10. LedgerInv'
  BY <1>1, <1>2, <1>3, <1>4, <1>5 DEF LedgerInv, Acting, Asked
<1>11. QED
  BY <1>6, <1>8, <1>9, <1>10

\* A symbol is missing, and the job returns with an error.
LEMMA CloseRefuseLocally ==
  ASSUME job.flow = "close", ClosingInv, job' = job, RefuseLocally
  PROVE  ClosingInv'
<1> USE DEF ClosingInv
<1>1. /\ UNCHANGED <<step, call, target, late, tries, position, trades, moved, blank>>
      /\ at = "next" /\ at' = "returned"
      /\ err' = Append(err, "InvalidRequest")
  BY DEF RefuseLocally, exchangeVars
<1>2. err' # <<>>
  BY <1>1 DEF WaitInv
<1>3. AimInv'
  BY <1>1 DEF AimInv, Aimed, Asked, Acting
<1>4. WaitInv' /\ ReadInv' /\ ClosedInv'
  BY <1>1, <1>2 DEF Steady, WaitInv, ReadInv, ClosedInv, Acting, Succeeded
<1>5. LedgerInv'
  BY <1>1 DEF LedgerInv, Acting, Asked
<1>6. QED
  BY <1>3, <1>4, <1>5

\* The program starts anew, and is no longer on its first try.
LEMMA CloseRetry ==
  ASSUME job.flow = "close", ClosingInv, job' = job, Retry
  PROVE  ClosingInv'
<1> USE DEF ClosingInv
<1>1. /\ UNCHANGED <<call, late, position, trades, moved>>
      /\ at' = "next" /\ step' = "read" /\ err' = <<>> /\ tries' = tries + 1
  BY DEF Retry, exchangeVars
<1>2. AimInv'
  BY <1>1 DEF AimInv, Aimed, Asked, Acting
<1>3. WaitInv' /\ ReadInv' /\ ClosedInv'
  BY <1>1 DEF Steady, WaitInv, ReadInv, ClosedInv, Acting, Succeeded, Returned
<1>4. tries' \in Nat \ {0} /\ tries' # 1
  BY <1>1 DEF LedgerInv
<1>5. LedgerInv'
  BY <1>1, <1>4 DEF LedgerInv, Asked
<1>6. QED
  BY <1>2, <1>3, <1>5

\* Somebody else trades: what was read no longer counts.
LEMMA CloseTrade ==
  ASSUME ClosingInv, job' = job, NEW l \in job.legs, NEW d \in {-1, 1}, Trade(l, d)
  PROVE  ClosingInv'
<1> USE DEF ClosingInv
<1>1. /\ UNCHANGED <<at, step, call, target, err, late, tries>>
      /\ position' \in Positions(job.legs) /\ trades' = trades + 1 /\ moved' = TRUE
  BY DEF Trade, flowVars
<1>2. \A m \in Leg \ job.legs : position'[m] = 0
  BY <1>1 DEF Positions
<1>3. AimInv'
  BY <1>1, <1>2 DEF AimInv, Aimed, Asked, Acting
<1>4. CloseOrder' = CloseOrder
  BY <1>1 DEF CloseOrder
<1>5. WaitInv'
  BY <1>1, <1>4 DEF WaitInv, Acting
<1>6. ReadInv' /\ ClosedInv'
  BY <1>1 DEF Steady, WaitInv, ReadInv, ClosedInv, Acting
<1>7. trades' \in Nat /\ trades' # 0
  BY <1>1 DEF LedgerInv
<1>8. LedgerInv'
  BY <1>1, <1>7 DEF LedgerInv
<1>9. QED
  BY <1>3, <1>5, <1>6, <1>8

\* The exchange refuses a request or fails, and executes nothing.
LEMMA CloseRefuseRequest ==
  ASSUME CallInv, job.flow = "close", ClosingInv, job' = job, RefuseRequest
  PROVE  ClosingInv'
<1> USE DEF ClosingInv
<1>1. /\ UNCHANGED <<at, step, target, err, late, tries, position, trades, moved, blank>>
      /\ at = "waiting"
  BY DEF RefuseRequest, exchangeVars, OnItsWay
<1>2. PICK answer \in Refusals \union Failures \union {Envelope(BadSignature, "empty"), Plain(401)} :
          call' = [call EXCEPT !.phase = "answered", !.answer = answer, !.done = FALSE]
  BY DEF RefuseRequest, Answered
<1>3. /\ call'.op = call.op /\ call'.arg = call.arg /\ call'.done = FALSE
      /\ call'.answer = answer
  BY <1>2 DEF CallInv, CallFields
<1>4. Told("GetPosition", answer) # OK
  BY RefusedIsNotToldOK
<1>5. AimInv'
  BY <1>1, <1>3 DEF AimInv, Aimed, Asked, Acting
<1>6. CloseOrder' = CloseOrder
  BY <1>1 DEF CloseOrder
<1>7. WaitInv'
  BY <1>1, <1>3, <1>6 DEF WaitInv, Acting
<1>8. ReadInv' /\ ClosedInv'
  BY <1>1, <1>3, <1>4 DEF Steady, ReadInv, ClosedInv, Acting, Succeeded, Returned
<1>9. LedgerInv'
  BY <1>1, <1>3 DEF LedgerInv, Acting, Asked
<1>10. QED
  BY <1>5, <1>7, <1>8, <1>9

\* The positions are read, and nobody has traded since.
LEMMA CloseServePosition ==
  ASSUME HarmlessInv, job.flow = "close", ClosingInv, job' = job, ServePosition
  PROVE  ClosingInv'
<1> USE DEF ClosingInv
<1>1. /\ UNCHANGED <<at, step, target, err, late, tries, position, trades>>
      /\ at = "waiting" /\ call.op = "GetPosition"
  BY DEF ServePosition, OnItsWay
<1>2. ~ Acting
  BY <1>1 DEF WaitInv
<1>3. call'.op = call.op /\ call'.arg = call.arg /\ call'.legs = position
  BY DEF ServePosition, HarmlessInv, CallInv, CallFields
<1>4. \A l \in Leg : Within(position[l], position[l])
  BY WithinItself DEF HarmlessInv, LegInv
<1>5. AimInv'
  BY <1>1, <1>3 DEF AimInv, Aimed, Asked, Acting
<1>6. WaitInv'
  BY <1>1, <1>2, <1>3 DEF WaitInv, Acting
<1>7. ReadInv' /\ ClosedInv'
  BY <1>1, <1>2, <1>3, <1>4 DEF Steady, ReadInv, ClosedInv, Acting, Succeeded, Returned
<1>8. LedgerInv'
  BY <1>1, <1>2, <1>3 DEF LedgerInv, Acting, Asked
<1>9. QED
  BY <1>5, <1>6, <1>7, <1>8

\* The positions come without rows: nothing is known, or the answer is an error.
LEMMA CloseServeBlank ==
  ASSUME CallInv, job.flow = "close", ClosingInv, job' = job, ServeQuery, call.op = "GetPosition"
  PROVE  ClosingInv'
<1> USE DEF ClosingInv
<1>1. /\ UNCHANGED <<at, step, target, err, late, tries, position, trades, moved>>
      /\ at = "waiting"
  BY DEF ServeQuery, OnItsWay
<1>2. PICK content \in {"empty", "garbled"} :
          /\ call' = [call EXCEPT !.phase = "answered", !.answer = Envelope(0, content),
                                  !.done = TRUE]
          /\ content = "empty" => blank'
  BY DEF ServeQuery, Answered, Reading
<1>3. /\ call'.op = call.op /\ call'.arg = call.arg
      /\ call'.answer = Envelope(0, content)
  BY <1>2 DEF CallInv, CallFields
<1>4. Told("GetPosition", Envelope(0, "garbled")) # OK
  <2>1. DoKind(Envelope(0, "garbled")) = OK
    BY DEF DoKind, Envelope
  <2>2. QED
    BY <2>1, CloseRequests DEF Told, Decoded, Envelope, OK
<1>5. ~ Acting
  BY <1>1, CloseRequests DEF WaitInv
<1>6. AimInv'
  BY <1>1, <1>3 DEF AimInv, Aimed, Asked, Acting
<1>7. WaitInv'
  BY <1>1, <1>3, <1>5 DEF WaitInv, Acting
<1>8. ReadInv' /\ ClosedInv'
  BY <1>1, <1>2, <1>3, <1>4, <1>5 DEF Steady, ReadInv, ClosedInv, Acting, Succeeded, Returned
<1>9. LedgerInv'
  BY <1>1, <1>3 DEF LedgerInv, Acting, Asked
<1>10. QED
  BY <1>6, <1>7, <1>8, <1>9

\* An order reaches the exchange, in time or late: positions shrink, and all that is said of
\* them stays true.
LEMMA CloseOrderArrives ==
  ASSUME HarmlessInv, job.flow = "close", ClosingInv, job' = job,
         NEW c, c = call \/ c \in late, Executable(c), Execute(c)
  PROVE  /\ \A l \in Leg \ job.legs : position'[l] = 0
         /\ \A l \in Leg : Within(position'[l], position[l])
         /\ position' \in [Leg -> Int]
         /\ UNCHANGED <<trades, moved, blank>>
         /\ trades = 0 => \A l \in Leg : ~ Asked(l) => position'[l] = job.before[l]
         /\ trades = 0 /\ tries = 1 /\ ~ Acting => position' = job.before
         /\ trades = 0 /\ tries = 1 /\ Acting =>
                \A l \in Leg : l # target.idx => position'[l] = job.before[l]
<1> USE DEF ClosingInv
<1>1. Harmless(c.arg) /\ Aimed(c.arg) /\ position \in [Leg -> Int]
  BY DEF HarmlessInv, LegInv, AimInv
<1>2. /\ position' \in [Leg -> Int]
      /\ \A l \in Leg : Within(position'[l], position[l])
      /\ \A l \in Leg : l # c.arg.idx => position'[l] = position[l]
      /\ c.arg.qty = 0 => position' = position
      /\ UNCHANGED <<trades, moved, blank>>
  BY <1>1, OrderShrinks
<1>3. \A l \in Leg \ job.legs : position'[l] = 0
  BY <1>2, WithinNone DEF AimInv
<1>4. trades = 0 => \A l \in Leg : ~ Asked(l) => position'[l] = job.before[l]
  BY <1>1, <1>2 DEF LedgerInv, Aimed
<1>5. trades = 0 /\ tries = 1 /\ ~ Acting => position' = job.before
  BY <1>2 DEF LedgerInv
<1>6. trades = 0 /\ tries = 1 /\ Acting =>
          \A l \in Leg : l # target.idx => position'[l] = job.before[l]
  BY <1>2 DEF LedgerInv
<1>7. QED
  BY <1>2, <1>3, <1>4, <1>5, <1>6

\* The order arrives in time, and closes the leg if nobody has traded.
LEMMA CloseExecuteWrite ==
  ASSUME HarmlessInv, job.flow = "close", ClosingInv, job' = job, ExecuteWrite
  PROVE  ClosingInv'
<1> USE DEF ClosingInv
<1>1. /\ UNCHANGED <<at, step, target, err, late, tries>>
      /\ at = "waiting" /\ Endpoint[call.op].writes /\ Executable(call) /\ Execute(call)
  BY DEF ExecuteWrite, OnItsWay
<1>2. call'.op = call.op /\ call'.arg = call.arg
  BY DEF ExecuteWrite, Answered, HarmlessInv, CallInv, CallFields
<1>3. Acting /\ call.arg = CloseOrder.arg
  BY <1>1, CloseRequests DEF WaitInv
<1>4. /\ \A l \in Leg \ job.legs : position'[l] = 0
      /\ \A l \in Leg : Within(position'[l], position[l])
      /\ position' \in [Leg -> Int]
      /\ UNCHANGED <<trades, moved, blank>>
      /\ trades = 0 => \A l \in Leg : ~ Asked(l) => position'[l] = job.before[l]
      /\ trades = 0 /\ tries = 1 /\ Acting =>
             \A l \in Leg : l # target.idx => position'[l] = job.before[l]
  BY <1>1, CloseOrderArrives
<1>5. /\ target.idx \in Leg /\ target.qty \in Int /\ position[target.idx] \in Int
      /\ position'[target.idx] \in Int
  BY <1>4 DEF HarmlessInv, LegInv
<1>6. AimInv'
  BY <1>1, <1>2, <1>4 DEF AimInv, Aimed, Asked, Acting
<1>7. CloseOrder' = CloseOrder
  BY <1>1 DEF CloseOrder
<1>8. WaitInv'
  BY <1>1, <1>2, <1>3, <1>7 DEF WaitInv, Acting
<1>9. Steady => Within(position[target.idx], target.qty)
  BY <1>1, <1>3 DEF ReadInv
<1>10. ReadInv'
  BY <1>1, <1>3, <1>4, <1>5, <1>9, WithinWithin DEF Steady, ReadInv, Acting
<1>11. Steady => position'[target.idx] = 0
  BY <1>1, <1>3, <1>5, <1>9, OrderCloses DEF HarmlessInv, LegInv
<1>12. ClosedInv'
  BY <1>1, <1>4, <1>11 DEF Steady, ClosedInv, Succeeded, Returned, Acting
<1>13. LedgerInv'
  BY <1>1, <1>2, <1>3, <1>4 DEF LedgerInv, Acting, Asked
<1>14. QED
  BY <1>6, <1>8, <1>10, <1>12, <1>13

\* An order of an earlier try arrives: it opens nothing, and turns nothing.
LEMMA CloseLateArrives ==
  ASSUME HarmlessInv, job.flow = "close", ClosingInv, job' = job, NEW c \in late, LateArrives(c)
  PROVE  ClosingInv'
<1> USE DEF ClosingInv
<1>1. /\ UNCHANGED <<at, step, call, target, err, tries>>
      /\ late' \subseteq late /\ Executable(c) /\ Execute(c)
  BY DEF LateArrives
<1>2. /\ \A l \in Leg \ job.legs : position'[l] = 0
      /\ \A l \in Leg : Within(position'[l], position[l])
      /\ position' \in [Leg -> Int]
      /\ UNCHANGED <<trades, moved, blank>>
      /\ trades = 0 => \A l \in Leg : ~ Asked(l) => position'[l] = job.before[l]
      /\ trades = 0 /\ tries = 1 /\ ~ Acting => position' = job.before
      /\ trades = 0 /\ tries = 1 /\ Acting =>
             \A l \in Leg : l # target.idx => position'[l] = job.before[l]
  BY <1>1, CloseOrderArrives
<1>3. /\ target.idx \in Leg /\ target.qty \in Int
      /\ position \in [Leg -> Int] /\ call.legs \in [Leg -> Int]
  BY DEF HarmlessInv, LegInv
<1>4. \A l \in Leg : /\ position[l] \in Int /\ position'[l] \in Int /\ call.legs[l] \in Int
                     /\ position[l] = 0 => position'[l] = 0
  BY <1>2, <1>3, WithinNone
<1>5. AimInv'
  BY <1>1, <1>2 DEF AimInv, Aimed, Asked, Acting
<1>6. CloseOrder' = CloseOrder
  BY <1>1 DEF CloseOrder
<1>7. WaitInv'
  BY <1>1, <1>6 DEF WaitInv, Acting
<1>8. ReadInv'
  BY <1>1, <1>2, <1>3, <1>4, WithinWithin DEF Steady, ReadInv, Acting
<1>9. ClosedInv'
  BY <1>1, <1>2, <1>3, <1>4 DEF Steady, ClosedInv, AimInv, Succeeded, Returned, Acting
<1>10. LedgerInv'
  BY <1>1, <1>2 DEF LedgerInv, Acting, Asked
<1>11. QED
  BY <1>5, <1>7, <1>8, <1>9, <1>10

\* The ways a call of ClosePosition may end.
LEMMA ConcludeClose ==
  ASSUME job.flow = "close", NEW kind, Conclude(kind)
  PROVE  \/ kind # OK /\ Return(<<kind>>)
         \/ kind = OK /\ ~ Acting /\ ChooseTarget
         \/ kind = OK /\ Return(<<"InvalidRequest">>)
         \/ kind = OK /\ (Acting \/ ToClose = {}) /\ Return(<<>>)
  BY DEF Conclude, Listing, UnknownSide

\* What is left of the call, and of the requests that are late, when it is over.
LEMMA CloseOver ==
  ASSUME CallInv, AnswerInv, Deliver \/ GiveUp
  PROVE  \E kind :
             /\ Conclude(kind) /\ call'.phase = "over" /\ call'.arg = call.arg
             /\ late' \subseteq late \union {call}
             /\ kind = OK => call.phase = "answered" /\ Told(call.op, call.answer) = OK
             /\ at = "waiting" /\ UNCHANGED <<tries, position, trades, moved, blank>>
<1>1. CASE Deliver
  <2>1. PICK answer \in {call.answer, [call.answer EXCEPT !.body = "cut"]} :
            Over(Told(call.op, answer)) /\ Conclude(Told(call.op, answer))
    BY <1>1 DEF Deliver
  <2>2. call'.phase = "over" /\ call'.arg = call.arg
    BY <2>1, OverKeeps
  <2>3. /\ at = "waiting" /\ call.phase = "answered" /\ late' = late
        /\ UNCHANGED <<tries, position, trades, moved, blank>>
    BY <1>1 DEF Deliver, exchangeVars
  <2>4. Told(call.op, answer) = OK => Told(call.op, call.answer) = OK
    BY <2>1, CutIsNetwork DEF AnswerInv, OK
  <2>5. QED
    BY <2>1, <2>2, <2>3, <2>4
<1>2. CASE GiveUp
  <2>1. Conclude(TransportError) /\ call'.phase = "over" /\ call'.arg = call.arg
    BY <1>2, OverKeeps DEF GiveUp
  <2>2. /\ at = "waiting" /\ late' \subseteq late \union {call}
        /\ UNCHANGED <<tries, position, trades, moved, blank>>
    BY <1>2 DEF GiveUp, exchangeVars
  <2>3. TransportError # OK
    BY DEF TransportError, OK
  <2>4. QED
    BY <2>1, <2>2, <2>3
<1>3. QED
  BY <1>1, <1>2

\* ClosePosition has chosen the row it closes.
LEMMA CloseChoosesTarget ==
  ASSUME HarmlessInv, job.flow = "close", ClosingInv, job' = job, ~ Acting, ChooseTarget,
         at = "waiting", call.phase = "answered", Told(call.op, call.answer) = OK,
         call'.phase = "over", call'.arg = call.arg, late' \subseteq late \union {call},
         UNCHANGED <<tries, position, trades, moved, blank>>
  PROVE  ClosingInv'
<1> USE DEF ClosingInv
<1>1. PICK l \in ToClose : target' = [idx |-> l, qty |-> call.legs[l]]
  BY DEF ChooseTarget
<1>2. /\ l \in job.legs /\ l \in Leg /\ Asked(l)
      /\ target'.idx = l /\ target'.qty = call.legs[l]
  BY <1>1 DEF ToClose, Asked, HarmlessInv, LegInv
<1>3. step' = "act" /\ at' = "next" /\ err' = err
  BY DEF ChooseTarget
<1>4. AimInv'
  BY <1>2 DEF AimInv, Aimed, Asked
<1>5. WaitInv'
  BY <1>3 DEF WaitInv, Acting
<1>6. call.op = "GetPosition"
  BY DEF WaitInv
<1>7. Steady => Within(position[l], call.legs[l])
  BY <1>2, <1>6 DEF ReadInv
<1>8. ReadInv' /\ ClosedInv'
  BY <1>2, <1>3, <1>7 DEF Steady, ReadInv, ClosedInv, Acting, Succeeded, Returned
<1>9. LedgerInv'
  BY <1>2, <1>3 DEF LedgerInv, Acting, Asked
<1>10. QED
  BY <1>4, <1>5, <1>8, <1>9

\* ClosePosition returns: with an error, or because there is nothing to close or its order
\* was executed.
LEMMA CloseReturns ==
  ASSUME HarmlessInv, job.flow = "close", ClosingInv, job' = job, AnswerInv,
         NEW kinds, Return(kinds), kinds # <<>> => \E kind : kinds = <<kind>>,
         kinds = <<>> => /\ Acting \/ ToClose = {}
                         /\ call.phase = "answered" /\ Told(call.op, call.answer) = OK,
         at = "waiting",
         call'.phase = "over", call'.arg = call.arg, late' \subseteq late \union {call},
         UNCHANGED <<tries, position, trades, moved, blank>>
  PROVE  ClosingInv'
<1> USE DEF ClosingInv
<1>1. at' = "returned" /\ err' = err \o kinds /\ UNCHANGED <<step, target>>
  BY DEF Return
<1>2. AimInv'
  BY <1>1 DEF AimInv, Aimed, Asked, Acting
<1>3. WaitInv'
  BY <1>1 DEF WaitInv, Acting
<1>4. ReadInv'
  BY <1>1 DEF ReadInv
<1>5. LedgerInv'
  BY <1>1 DEF LedgerInv, Acting, Asked
<1>6. ASSUME kinds # <<>>
      PROVE  err' # <<>>
  <2>1. PICK kind : kinds = <<kind>>
    BY <1>6
  <2>2. err = <<>>
    BY DEF WaitInv
  <2>3. err' = <<kind>>
    BY <1>1, <2>1, <2>2
  <2>4. QED
    BY <2>3
<1>7. ASSUME kinds = <<>>, Steady, job.idx # 0 \/ job.legs = {0}
      PROVE  position[job.idx] = 0
  <2>1. CASE Acting
    <3>1. call.done
      BY <1>7, <2>1, CloseRequests DEF AnswerInv, WaitInv
    <3>2. position[target.idx] = 0
      BY <1>7, <2>1, <3>1 DEF Steady, ClosedInv
    <3>3. target.idx = job.idx
      BY <1>7, <2>1 DEF AimInv, Asked
    <3>4. QED
      BY <3>2, <3>3
  <2>2. CASE ~ Acting
    <3>1. call.op = "GetPosition" /\ ToClose = {}
      BY <1>7, <2>2 DEF WaitInv
    <3>2. \A l \in Leg : Within(position[l], call.legs[l])
      BY <1>7, <2>2, <3>1 DEF ReadInv
    <3>3. job.idx \in Leg /\ (job.idx \notin job.legs => position[job.idx] = 0)
      BY DEF AimInv
    <3>4. job.idx \in job.legs => call.legs[job.idx] = 0
      BY <3>1 DEF ToClose
    <3>5. position[job.idx] \in Int
      BY <3>3 DEF HarmlessInv, LegInv
    <3>6. QED
      BY <3>2, <3>3, <3>4, <3>5, WithinNone
  <2>3. QED
    BY <2>1, <2>2
<1>8. ClosedInv'
  BY <1>1, <1>6, <1>7 DEF Steady, ClosedInv, Succeeded
<1>9. QED
  BY <1>2, <1>3, <1>4, <1>5, <1>8

\* The call is over, with an error, a row to close, or success.
LEMMA CloseConcludes ==
  ASSUME HarmlessInv, AnswerInv, job.flow = "close", ClosingInv, job' = job, Deliver \/ GiveUp
  PROVE  ClosingInv'
<1>1. PICK kind :
          /\ Conclude(kind) /\ call'.phase = "over" /\ call'.arg = call.arg
          /\ late' \subseteq late \union {call}
          /\ kind = OK => call.phase = "answered" /\ Told(call.op, call.answer) = OK
          /\ at = "waiting" /\ UNCHANGED <<tries, position, trades, moved, blank>>
  BY CloseOver DEF HarmlessInv
<1>2. CASE kind # OK /\ Return(<<kind>>)
  <2>1. <<kind>> # <<>>
    OBVIOUS
  <2>2. QED
    BY <1>1, <1>2, <2>1, CloseReturns
<1>3. CASE kind = OK /\ ~ Acting /\ ChooseTarget
  BY <1>1, <1>3, CloseChoosesTarget
<1>4. CASE kind = OK /\ Return(<<"InvalidRequest">>)
  <2>1. <<"InvalidRequest">> # <<>>
    OBVIOUS
  <2>2. QED
    BY <1>1, <1>4, <2>1, CloseReturns
<1>5. CASE kind = OK /\ (Acting \/ ToClose = {}) /\ Return(<<>>)
  BY <1>1, <1>5, CloseReturns
<1>6. QED
  BY <1>1, <1>2, <1>3, <1>4, <1>5, ConcludeClose

\* The invariant of ClosePosition, step by step.
LEMMA CloseStep ==
  ASSUME CloseInv, [RestNext]_restVars
  PROVE  CloseInv'
<1>1. TruthInv' /\ HarmlessInv' /\ job' = job
  BY TruthStep, HarmlessStep, CallStep DEF CloseInv, TruthInv
<1>2. ASSUME job.flow = "close"
      PROVE  ClosingInv'
  <2>0. ClosingInv /\ HarmlessInv /\ CallInv /\ AnswerInv /\ job' = job
    BY <1>1, <1>2 DEF CloseInv, TruthInv
  <2>1. CASE AsideStep
    <3>1. RefuseLocally \/ Retry \/ \E l \in job.legs, d \in {-1, 1} : Trade(l, d)
      BY <1>2, <2>1 DEF AsideStep, OrderDone, OrderCreated, Tick
    <3>2. QED
      BY <1>2, <2>0, <3>1, CloseRefuseLocally, CloseRetry, CloseTrade
  <2>2. CASE ServeStep
    <3>1. call.op \in {"GetPosition", "CreateOrder"}
      BY <2>0, <2>2 DEF ServeStep, ServePage, ServeQuery, ServePosition, OnItsWay, ClosingInv,
                        WaitInv
    <3>2. ServePosition \/ (ServeQuery /\ call.op = "GetPosition")
      BY <2>2, <3>1, CloseRequests DEF ServeStep, ServePage, ServeQuery
    <3>3. QED
      BY <1>2, <2>0, <3>2, CloseServePosition, CloseServeBlank
  <2>3. CASE Send
    BY <1>2, <2>0, <2>3, CloseSend
  <2>4. CASE Deliver \/ GiveUp
    BY <1>2, <2>0, <2>4, CloseConcludes
  <2>5. CASE RefuseRequest
    BY <1>2, <2>0, <2>5, CloseRefuseRequest
  <2>6. CASE ExecuteWrite
    BY <1>2, <2>0, <2>6, CloseExecuteWrite
  <2>7. ASSUME NEW c \in late, LateArrives(c)
        PROVE  ClosingInv'
    BY <1>2, <2>0, <2>7, CloseLateArrives
  <2>8. CASE UNCHANGED restVars
    BY <2>0, <2>8 DEF restVars, flowVars, exchangeVars, ClosingInv, AimInv, Aimed, Asked, WaitInv,
                      CloseOrder, Steady, ReadInv, ClosedInv, LedgerInv, Acting, Succeeded, Returned
  <2>9. QED
    BY <2>1, <2>2, <2>3, <2>4, <2>5, <2>6, <2>7, <2>8, StepCases
<1>3. QED
  BY <1>1, <1>2 DEF CloseInv

\* Legs that differ in one place only are at most one.
LEMMA AtMostOne ==
  ASSUME NEW S, NEW x, S \subseteq {x}
  PROVE  Cardinality(S) <= 1
<1>1. CASE S = {}
  BY <1>1, FS_EmptySet
<1>2. CASE S = {x}
  BY <1>2, FS_Singleton
<1>3. QED
  BY <1>1, <1>2

\* If nobody else has traded since the positions were read, ClosePosition without an error
\* has closed the leg it was asked to close, whatever was lost, refused or repeated on the
\* way; without any trade of others it has touched no other leg, and a first try no two.
THEOREM ClosingCloses == RestSpec => []ClosedUnlessMoved
<1>1. CloseInv => ClosedUnlessMoved
  <2> SUFFICES ASSUME CloseInv, job.flow = "close", Succeeded
               PROVE  /\ ~ moved /\ ~ blank /\ (job.idx # 0 \/ job.legs = {0}) =>
                            position[job.idx] = 0
                      /\ trades = 0 =>
                            LET changed == {l \in Leg : position[l] # job.before[l]}
                            IN  /\ job.idx # 0 => changed \subseteq {job.idx}
                                /\ tries = 1 => Cardinality(changed) <= 1
    BY DEF ClosedUnlessMoved
  <2> DEFINE changed == {l \in Leg : position[l] # job.before[l]}
  <2>1. ClosedInv /\ LedgerInv
    BY DEF CloseInv, ClosingInv
  <2>2. ~ moved /\ ~ blank /\ (job.idx # 0 \/ job.legs = {0}) => position[job.idx] = 0
    BY <2>1 DEF Steady, ClosedInv
  <2>3. trades = 0 /\ job.idx # 0 => changed \subseteq {job.idx}
    BY <2>1 DEF LedgerInv, Asked
  <2>4. ASSUME trades = 0, tries = 1
        PROVE  Cardinality(changed) <= 1
    <3>1. changed \subseteq {target.idx}
      BY <2>1, <2>4 DEF LedgerInv
    <3>2. QED
      BY <3>1, AtMostOne
  <2>5. QED
    BY <2>2, <2>3, <2>4
<1>2. QED
  BY CloseInit, CloseStep, <1>1, PTL DEF RestSpec

-------------------------------------------------------------------------------
(* Signatures. *)

\* The methods of the market ...
LEMMA MarketMethods ==
  /\ GetSymbolInfo.area = "market" /\ SpotGetSymbolInfo.area = "market"
  /\ GetOrderBook.area = "market" /\ SpotGetOrderBook.area = "market"
  /\ GetHistoricalCandles.area = "market" /\ SpotGetHistoricalCandles.area = "market"
  /\ GetFundingRateHistory.area = "market" /\ GetOpenInterest.area = "market"
  /\ GetInstruments.area = "market" /\ GetRiskLimit.area = "market" /\ GetTickers.area = "market"
  BY DEF Query, MarketQuery, ContractCategory,
         GetSymbolInfo, SpotGetSymbolInfo, GetOrderBook, SpotGetOrderBook, GetHistoricalCandles,
         SpotGetHistoricalCandles, GetFundingRateHistory, GetOpenInterest, GetInstruments,
         GetRiskLimit, GetTickers

\* ... and all the others, which ask for a signature.
LEMMA SignedMethods ==
  /\ GetBorrowHistory.signed /\ GetCollateralInfo.signed /\ GetFeeRate.signed
  /\ GetCoinGreeks.signed /\ GetAccountInfo.signed /\ GetTransactionLog.signed
  /\ GetFriendReferrals.signed /\ GetAffiliateUserInfo.signed /\ GetAffiliateUserList.signed
  /\ GetCoinInfo.signed /\ GetDepositAddress.signed /\ GetDepositRecords.signed
  /\ GetAllowedDepositCoins.signed /\ GetAllCoinsBalance.signed /\ GetSingleCoinBalance.signed
  /\ GetTransferableCoins.signed /\ GetInternalTransferRecords.signed /\ GetWithdrawRecords.signed
  /\ GetWithdrawableAmount.signed /\ BrokerGetAccountInfo.signed /\ GetVoucherSpec.signed
  /\ GetVoucherDistribution.signed /\ GetSubMemberDepositRecords.signed /\ GetEarnings.signed
  /\ GetWalletBalance.signed /\ SpotGetWalletBalance.signed /\ GetPosition.signed
  /\ GetOpenOrders.signed /\ SpotGetOpenOrders.signed /\ SetMarginMode.signed
  /\ SetCollateralCoin.signed /\ SetHedgingMode.signed /\ SetDepositAccount.signed
  /\ CreateInternalTransfer.signed /\ CreateWithdraw.signed /\ CancelWithdraw.signed
  /\ DistributeVoucher.signed /\ SetLeverage.signed /\ SetPositionMode.signed
  /\ CreateOrder.signed /\ SpotCreateOrder.signed /\ ModifyOrder.signed /\ SpotModifyOrder.signed
  /\ CancelOrder.signed /\ SpotCancelOrder.signed
  BY DEF Query, Command,
         BuildCancelOrderBody, BuildCreateOrderBody, BuildModifyOrderBody,
         SpotBuildCancelOrderBody, SpotBuildCreateOrderBody, SpotBuildModifyOrderBody,
         GetBorrowHistory, GetCollateralInfo, GetFeeRate, GetCoinGreeks, GetAccountInfo,
         GetTransactionLog, GetFriendReferrals, GetAffiliateUserInfo, GetAffiliateUserList,
         GetCoinInfo, GetDepositAddress, GetDepositRecords, GetAllowedDepositCoins,
         GetAllCoinsBalance, GetSingleCoinBalance, GetTransferableCoins,
         GetInternalTransferRecords, GetWithdrawRecords, GetWithdrawableAmount,
         BrokerGetAccountInfo, GetVoucherSpec, GetVoucherDistribution,
         GetSubMemberDepositRecords, GetEarnings, GetWalletBalance, SpotGetWalletBalance,
         GetPosition, GetOpenOrders, SpotGetOpenOrders, SetMarginMode, SetCollateralCoin,
         SetHedgingMode, SetDepositAccount, CreateInternalTransfer, CreateWithdraw,
         CancelWithdraw, DistributeVoucher, SetLeverage, SetPositionMode, CreateOrder,
         SpotCreateOrder, ModifyOrder, SpotModifyOrder, CancelOrder, SpotCancelOrder

\* Every method that the exchange wants signed asks for a signature.
LEMMA PrivateIsSigned ==
  ASSUME NEW op \in Op, Private(op)
  PROVE  Endpoint[op].signed
<1>1. Command("order").signed
  BY DEF Command, Query
<1>2. Endpoint[op].area # "market"
  BY DEF Private
<1>3. QED
  BY <1>1, <1>2, MarketMethods, SignedMethods, SMTT(60) DEF Op, Endpoint

\* A request that has been sent with keys is one that the exchange takes for genuine.
SignInv ==
    /\ OpInv
    /\ job.enabled /\ call.phase = "sent" => Authentic(call)
    /\ OwnRequestsVerify

\* What is signed is what is sent.
LEMMA SentIsAuthentic ==
  ASSUME Send, NextCall.op \in Op, job.enabled
  PROVE  Authentic(call')
<1> DEFINE e == Endpoint[NextCall.op]
<1>1. /\ call'.op = NextCall.op /\ call'.given = NextCall.given
      /\ call'.sign = Signature(e.signed, job.enabled, e.method, NextCall.given)
  BY DEF Send, NoCall
<1>2. SUFFICES ASSUME Private(NextCall.op) PROVE Verifies(call')
  BY <1>1 DEF Authentic
<1>3. e.signed
  BY <1>2, PrivateIsSigned
<1>4. QED
  BY <1>1, <1>3 DEF Verifies, Signature, SignPayload

\* At the start nothing is sent.
LEMMA SignInit == RestInit => SignInv
<1> SUFFICES ASSUME RestInit PROVE SignInv
  OBVIOUS
<1>1. call = NoCall
  BY DEF RestInit
<1>2. call.phase = "none"
  BY <1>1 DEF NoCall
<1>3. QED
  BY <1>2, OpInit DEF SignInv, OwnRequestsVerify

\* The exchange complains of the signature only if it is wrong.
LEMMA AnswersWithoutComplaint ==
  ASSUME NEW answer \in Refusals \union Failures \union {Envelope(0, content) : content \in Content}
  PROVE  answer.code # BadSignature
  BY DEF Refusals, Failures, Envelope, Plain, BadSignature, AuthCode, RateLimitCode,
         InvalidRequestCode, ExchangeCode, ServerErrorCode

\* What is on its way is genuine, step by step.
LEMMA SignStep ==
  ASSUME SignInv, [RestNext]_restVars
  PROVE  SignInv'
<1> USE DEF SignInv
<1>1. OpInv' /\ job' = job /\ CallInv /\ step \in {"read", "act"}
  BY OpStep, CallStep DEF OpInv
<1>2. CASE call' = call
  <2>1. Authentic(call) => Authentic(call')
    BY <1>2
  <2>2. QED
    BY <1>1, <1>2, <2>1 DEF OwnRequestsVerify, Authentic, Verifies
<1>3. CASE Send
  <2>1. call'.phase = "sent"
    BY <1>3, SendSets
  <2>2. job.enabled => Authentic(call')
    BY <1>3, NextCallHasOp, SentIsAuthentic DEF OpInv
  <2>3. QED
    BY <1>1, <2>1, <2>2 DEF OwnRequestsVerify, Authentic, Verifies
<1>4. CASE RefuseRequest
  <2>1. PICK answer : /\ Answered(answer, FALSE)
                      /\ answer \in IF Authentic(call)
                                    THEN Refusals \union Failures
                                    ELSE {Envelope(BadSignature, "empty"), Plain(401)}
    BY <1>4 DEF RefuseRequest
  <2>2. call'.phase = "answered" /\ call'.answer = answer
    BY <1>1, <2>1 DEF Answered, CallInv, CallFields
  <2>3. job.enabled => answer.code # BadSignature
    BY <1>4, <2>1, AnswersWithoutComplaint DEF RefuseRequest, OnItsWay
  <2>4. QED
    BY <1>1, <2>2, <2>3 DEF OwnRequestsVerify
<1>5. CASE ExecuteWrite \/ ServeStep
  <2>1. call'.phase = "answered" /\ call'.answer.code # BadSignature
    <3>1. CASE ServePage \/ ServePosition
      <4>1. /\ call'.phase = "answered"
            /\ call'.answer \in {Envelope(0, "rows"), Envelope(0, "sideless")}
        BY <1>1, <3>1, RowsServed
      <4>2. QED
        BY <4>1 DEF Envelope, BadSignature
    <3>2. CASE ExecuteWrite \/ ServeQuery
      <4>1. PICK answer \in Failures \union {Envelope(0, content) : content \in Content} :
                Answered(answer, TRUE)
        BY <3>2 DEF ExecuteWrite, ServeQuery, Content
      <4>2. call'.phase = "answered" /\ call'.answer = answer
        BY <1>1, <4>1 DEF Answered, CallInv, CallFields
      <4>3. QED
        BY <4>2, AnswersWithoutComplaint
    <3>3. QED
      BY <1>5, <3>1, <3>2 DEF ServeStep
  <2>2. QED
    BY <1>1, <2>1 DEF OwnRequestsVerify
<1>6. CASE Deliver \/ GiveUp
  <2>1. call'.phase = "over"
    BY <1>1, <1>6 DEF Deliver, GiveUp, Over, CallInv, CallFields
  <2>2. QED
    BY <1>1, <2>1 DEF OwnRequestsVerify
<1>7. CASE AsideStep
  BY <1>2, <1>7, AsideKeepsCall DEF CallKept
<1>8. ASSUME NEW c \in late, LateArrives(c)
      PROVE  SignInv'
  BY <1>2, <1>8 DEF LateArrives
<1>9. CASE UNCHANGED restVars
  BY <1>2, <1>9 DEF restVars, flowVars
<1>10. QED
  BY <1>3, <1>4, <1>5, <1>6, <1>7, <1>8, <1>9, StepCases

\* A program with keys is never told by the exchange that a signature is wrong: all methods
\* that have to be signed ask for it, and what is signed is what is sent.
THEOREM RequestsVerify == RestSpec => []OwnRequestsVerify
<1>1. SignInv => OwnRequestsVerify
  BY DEF SignInv
<1>2. QED
  BY SignInit, SignStep, <1>1, PTL DEF RestSpec

-------------------------------------------------------------------------------
(* Ids of requests. *)

Keyed == job.op \in Creating /\ job.given \intersect IdempotencyKey # {}

\* Of the parameters by which a request may be known, a method has one.
LEMMA OneKey ==
  ASSUME NEW op \in Creating, NEW given \in Params(op), given \intersect IdempotencyKey # {}
  PROVE  Endpoint[op].key \in given
<1> DEFINE e == Endpoint[op]
           all == e.needs \union e.one \union e.some \union (UNION {{p[1], p[2]} : p \in e.implies})
                     \union (IF e.key = "none" THEN {} ELSE {e.key})
<1>1. given \subseteq all \union e.never
  BY DEF Params
<1>2. \/ e = CreateInternalTransfer \/ e = CreateWithdraw \/ e = DistributeVoucher
      \/ e = CreateOrder \/ e = SpotCreateOrder
  BY DEF Creating, Endpoint
<1>3. /\ (e.needs \union e.one \union e.some \union e.never) \intersect IdempotencyKey \subseteq {e.key}
      /\ \A p \in e.implies : p[1] \notin IdempotencyKey /\ p[2] \notin IdempotencyKey
  <2>1. CASE e = CreateInternalTransfer
    BY <2>1 DEF Query, Command, CreateInternalTransfer, IdempotencyKey
  <2>2. CASE e = CreateWithdraw
    BY <2>2 DEF Query, Command, CreateWithdraw, IdempotencyKey
  <2>3. CASE e = DistributeVoucher
    BY <2>3 DEF Query, Command, DistributeVoucher, IdempotencyKey
  <2>4. CASE e = CreateOrder \/ e = SpotCreateOrder
    <3>1. /\ e.needs = {"symbol", "side", "qty"} /\ e.one = {} /\ e.some = {}
          /\ e.never = {"wrongOrderLinkId"} /\ e.key = "orderLinkId"
          /\ e.implies = {<<"limit", "price">>}
      BY <2>4 DEF Query, Command, CreateOrder, SpotCreateOrder, BuildCreateOrderBody,
                  SpotBuildCreateOrderBody
    <3>2. \A p \in {<<"limit", "price">>} : p[1] = "limit" /\ p[2] = "price"
      OBVIOUS
    <3> HIDE DEF e
    <3>3. QED
      BY <3>1, <3>2 DEF IdempotencyKey
  <2>5. QED
    BY <1>2, <2>1, <2>2, <2>3, <2>4
<1>4. \A p \in all \union e.never : p \in IdempotencyKey => p = e.key
  <2> HIDE DEF e
  <2>1. QED
    BY <1>3
<1>5. QED
  BY <1>1, <1>4

\* Every request of the job carries the parameters of the job, and one execution is all.
KeyInv ==
    /\ CallInv
    /\ executed \in Nat
    /\ Keyed => /\ job.flow = "call" /\ job.given \in Params(job.op)
                /\ call.phase = "sent" => call.op = job.op /\ call.given = job.given
                /\ \A c \in late : c.op = job.op /\ c.given = job.given
                /\ executed <= 1

\* At the start nothing is executed.
LEMMA KeyInit == RestInit => KeyInv
<1> SUFFICES ASSUME RestInit PROVE KeyInv
  OBVIOUS
<1>1. call = NoCall /\ late = {} /\ executed = 0
  BY DEF RestInit
<1>2. call.phase = "none"
  BY <1>1 DEF NoCall
<1>3. QED
  BY <1>1, <1>2, CallInit, JobOps DEF KeyInv, Keyed

\* A request with an id is executed only if none was before.
LEMMA ExecutedOnce ==
  ASSUME KeyInv, NEW c, Keyed => c.op = job.op /\ c.given = job.given, Executable(c), Execute(c)
  PROVE  executed' \in Nat /\ (Keyed => executed' <= 1)
<1>1. executed \in Nat /\ executed' = IF job.op \in Creating THEN executed + 1 ELSE executed
  BY DEF KeyInv, Execute
<1>2. Keyed => Endpoint[c.op].key \in c.given
  BY OneKey DEF KeyInv, Keyed
<1>3. Keyed => executed = 0
  BY <1>1, <1>2 DEF Executable
<1>4. QED
  BY <1>1, <1>3

\* A single call is sent with the parameters of the job.
LEMMA CallOfCall ==
  ASSUME job.flow = "call"
  PROVE  NextCall.op = job.op /\ NextCall.given = job.given
  BY DEF NextCall

\* What has an id is executed once, step by step.
LEMMA KeyStep ==
  ASSUME KeyInv, [RestNext]_restVars
  PROVE  KeyInv'
<1> USE DEF KeyInv
<1>0. CallInv' /\ job' = job /\ (Keyed' <=> Keyed)
  BY CallStep DEF Keyed
<1>1. CASE AsideStep
  BY <1>0, <1>1, AsideKeepsCall DEF CallKept
<1>2. CASE Send
  <2>1. UNCHANGED <<late, executed>>
    BY <1>2 DEF Send
  <2>2. QED
    BY <1>0, <1>2, <2>1, SendSets, CallOfCall
<1>3. CASE RefuseRequest \/ ServeStep
  <2>1. UNCHANGED <<late, executed>>
    BY <1>3 DEF RefuseRequest, ServeStep, ServePage, ServeQuery, ServePosition
  <2>2. call'.phase = "answered"
    BY <1>3 DEF RefuseRequest, ServeStep, ServePage, ServeQuery, ServePosition, Answered, CallInv,
                CallFields
  <2>3. QED
    BY <1>0, <2>1, <2>2
<1>4. CASE ExecuteWrite
  <2>1. UNCHANGED late /\ call'.phase = "answered"
    BY <1>4 DEF ExecuteWrite, Answered, CallInv, CallFields
  <2>2. executed' \in Nat /\ (Keyed => executed' <= 1)
    BY <1>4, ExecutedOnce DEF ExecuteWrite, OnItsWay
  <2>3. QED
    BY <1>0, <2>1, <2>2
<1>5. CASE Deliver \/ GiveUp
  <2>1. UNCHANGED executed /\ call'.phase = "over"
    BY <1>5 DEF Deliver, GiveUp, Over, CallInv, CallFields
  <2>2. \A c \in late' : c \in late \/ (c = call /\ call.phase = "sent")
    BY <1>5 DEF Deliver, GiveUp
  <2>3. QED
    BY <1>0, <2>1, <2>2
<1>6. ASSUME NEW c \in late, LateArrives(c)
      PROVE  KeyInv'
  <2>1. UNCHANGED call /\ late' \subseteq late
    BY <1>6 DEF LateArrives
  <2>2. executed' \in Nat /\ (Keyed => executed' <= 1)
    BY <1>6, ExecutedOnce DEF LateArrives
  <2>3. QED
    BY <1>0, <2>1, <2>2
<1>7. CASE UNCHANGED restVars
  BY <1>0, <1>7 DEF restVars, flowVars
<1>8. QED
  BY <1>1, <1>2, <1>3, <1>4, <1>5, <1>6, <1>7, StepCases

\* An order, transfer, withdrawal or voucher that has an id is executed once at most, however
\* many answers are lost, requests are late, and tries are made.
THEOREM KeysMakeOnce == RestSpec => []KeyedOnce
<1>1. KeyInv => KeyedOnce
  BY DEF KeyInv, Keyed, KeyedOnce
<1>2. QED
  BY KeyInit, KeyStep, <1>1, PTL DEF RestSpec

-------------------------------------------------------------------------------
(* Pages. *)

\* A set of natural numbers that is not empty has a least element.
LEMMA LeastExists ==
  ASSUME NEW S \in SUBSET Nat, S # {}
  PROVE  \E m \in S : \A n \in S : m <= n
<1>1. PICK m \in S : \A n \in S : <<n, m>> \notin OpToRel(<, Nat)
  BY NatLessThanWellFounded, WFMin, Zenon
<1>2. \A n \in S : ~ (n < m)
  BY <1>1 DEF OpToRel
<1>3. QED
  BY <1>2

\* There are finitely many orders.
LEMMA OrdersAreFinite ==
  ASSUME NEW S \in SUBSET Order
  PROVE  IsFiniteSet(S) /\ Cardinality(S) \in Nat
<1>1. IsFiniteSet(Order)
  BY FS_Interval, RestAssumption DEF Order
<1>2. IsFiniteSet(S)
  BY <1>1, FS_Subset
<1>3. QED
  BY <1>2, FS_CardinalityType

\* A page has every order below one that it has.
LEMMA PageIsPrefix ==
  ASSUME NEW S \in SUBSET Order, NEW n \in Nat, NEW m \in Lowest(S, n), NEW o \in S, o <= m
  PROVE  o \in Lowest(S, n)
<1> DEFINE below(x) == {p \in S : p < x}
<1>1. S \subseteq Nat
  BY RestAssumption DEF Order
<1>2. m \in S
  BY DEF Lowest
<1>3. \A p \in S : p < o => p < m
  BY <1>1, <1>2
<1>4. below(o) \in SUBSET below(m) /\ below(m) \in SUBSET Order
  BY <1>3
<1>5. Cardinality(below(o)) <= Cardinality(below(m))
  BY <1>4, OrdersAreFinite, FS_Subset
<1>6. Cardinality(below(m)) < n
  BY DEF Lowest
<1>7. Cardinality(below(o)) \in Nat /\ Cardinality(below(m)) \in Nat
  BY <1>4, OrdersAreFinite
<1>8. Cardinality(below(o)) < n
  BY <1>5, <1>6, <1>7
<1>9. QED
  BY <1>8 DEF Lowest

\* A page that is not full has all there is.
LEMMA ShortPageIsAll ==
  ASSUME NEW S \in SUBSET Order, NEW n \in Nat, Cardinality(Lowest(S, n)) < n
  PROVE  Lowest(S, n) = S
<1> DEFINE page == Lowest(S, n)
           rest == S \ page
<1>1. page \subseteq S /\ S \subseteq Nat
  BY RestAssumption DEF Lowest, Order
<1>2. SUFFICES ASSUME rest # {} PROVE FALSE
  BY <1>1
<1>3. PICK m \in rest : \A o \in rest : m <= o
  <2> HIDE DEF rest
  <2>1. rest \in SUBSET Nat
    BY <1>1 DEF rest
  <2>2. QED
    BY <1>2, <2>1, LeastExists
<1> DEFINE below == {p \in S : p < m}
<1>4. below \in SUBSET page /\ page \in SUBSET Order
  <2> HIDE DEF page
  <2>1. m \in Nat /\ \A p \in S : p \in Nat /\ (p \in page \/ m <= p)
    BY <1>1, <1>3
  <2>2. \A p \in S : p < m => p \in page
    BY <2>1
  <2>3. QED
    BY <1>1, <2>2
<1>5. Cardinality(below) <= Cardinality(page)
  <2> HIDE DEF below, page
  <2>1. QED
    BY <1>4, OrdersAreFinite, FS_Subset
<1>6. Cardinality(below) \in Nat /\ Cardinality(page) \in Nat
  <2> HIDE DEF below, page
  <2>1. QED
    BY <1>4, OrdersAreFinite
<1>7. Cardinality(below) < n
  <2> HIDE DEF below
  <2>1. QED
    BY <1>5, <1>6
<1>8. m \in page
  BY <1>3, <1>7 DEF Lowest
<1>9. QED
  BY <1>3, <1>8

\* The methods that write have no pages.
LEMMA WritesHaveNoPages ==
  /\ SetMarginMode.cursor = "none" /\ SetCollateralCoin.cursor = "none"
  /\ SetHedgingMode.cursor = "none" /\ SetDepositAccount.cursor = "none"
  /\ CreateInternalTransfer.cursor = "none" /\ CreateWithdraw.cursor = "none"
  /\ CancelWithdraw.cursor = "none" /\ DistributeVoucher.cursor = "none"
  /\ SetLeverage.cursor = "none" /\ SetPositionMode.cursor = "none" /\ CreateOrder.cursor = "none"
  /\ SpotCreateOrder.cursor = "none" /\ ModifyOrder.cursor = "none"
  /\ SpotModifyOrder.cursor = "none" /\ CancelOrder.cursor = "none"
  /\ SpotCancelOrder.cursor = "none"
  BY DEF Query, Command,
         BuildCancelOrderBody, BuildCreateOrderBody, BuildModifyOrderBody,
         SpotBuildCancelOrderBody, SpotBuildCreateOrderBody, SpotBuildModifyOrderBody,
         SetMarginMode, SetCollateralCoin, SetHedgingMode, SetDepositAccount,
         CreateInternalTransfer, CreateWithdraw, CancelWithdraw, DistributeVoucher, SetLeverage,
         SetPositionMode, CreateOrder, SpotCreateOrder, ModifyOrder, SpotModifyOrder,
         CancelOrder, SpotCancelOrder

\* No method of pages is one that writes.
LEMMA PagesAreReads ==
  \A op \in PagedOp :
      /\ ~ Endpoint[op].writes
      /\ op \notin {"SpotModifyOrder", "CancelBatchOrders", "GetPosition"}
<1>1. GetPosition.cursor = "none" /\ Command("order").cursor = "none"
  BY DEF GetPosition, Query, Command
<1> SUFFICES ASSUME NEW op \in Op, Endpoint[op].cursor # "none"
             PROVE  /\ ~ Endpoint[op].writes
                    /\ op \notin {"SpotModifyOrder", "CancelBatchOrders", "GetPosition"}
  BY DEF PagedOp
<1>2. QED
  BY <1>1, ReadsDoNotWrite, WritesHaveNoPages, SMTT(60) DEF Op, Endpoint

\* A page that cannot be decoded is an error.
LEMMA PagesAreDecoded ==
  ASSUME NEW op \in PagedOp
  PROVE  Told(op, Envelope(0, "garbled")) # OK
<1>1. Endpoint[op].decodes
  <2>1. op \in Op /\ Endpoint[op].cursor # "none"
    BY DEF PagedOp
  <2>2. Command("order").cursor = "none"
    BY DEF Command, Query
  <2>3. QED
    BY <2>1, <2>2, ReadsAreDecoded, WritesHaveNoPages, SMTT(60) DEF Op, Endpoint
<1>2. DoKind(Envelope(0, "garbled")) = OK
  BY DEF DoKind, Envelope
<1>3. QED
  BY <1>1, <1>2 DEF Told, Decoded, Envelope, OK

\* The listing of CancelForgottenOrders has pages ...
LEMMA OpenOrdersArePaged == "GetOpenOrders" \in PagedOp
  BY DEF PagedOp, Op, Endpoint, GetOpenOrders, Query

\* ... and its batches write.
LEMMA BatchesWrite == Endpoint["CancelBatchOrders"].writes
  BY DEF Endpoint, Command, Query

\* What a page says of the orders after the cursor.
LEMMA PageServed ==
  ASSUME ServePage, CallInv, open \subseteq Order
  PROVE  /\ call'.op = call.op /\ call'.arg = call.arg /\ call'.phase = "answered"
         /\ call'.next \in Nat
         /\ \A o \in open :
                /\ o > call.arg.cursor
                /\ call'.next = 0 \/ o <= call'.next \/ Cardinality(call'.rows) < PageLimit
                => o \in call'.rows
<1> DEFINE left == {o \in open : o > call.arg.cursor}
           page == Lowest(left, PageLimit)
<1>1. PICK next \in IF left # page THEN Highest(page)
                    ELSE {0} \union (IF Cardinality(page) = PageLimit THEN Highest(page) ELSE {}) :
          call' = [call EXCEPT !.phase = "answered", !.done = TRUE, !.rows = page,
                               !.next = next, !.answer = Envelope(0, "rows")]
  BY DEF ServePage
<1>2. /\ call'.op = call.op /\ call'.arg = call.arg /\ call'.phase = "answered"
      /\ call'.next = next /\ call'.rows = page
  BY <1>1 DEF CallInv, CallFields
<1>3. /\ left \in SUBSET Order /\ PageLimit \in Nat
      /\ \A o \in Order : o \in Nat /\ o # 0
  <2>1. left \in SUBSET Order /\ PageLimit \in Nat
    BY RestAssumption
  <2>2. \A o \in Order : o \in Nat /\ o # 0
    BY RestAssumption DEF Order
  <2>3. QED
    BY <2>1, <2>2
<1>4. page \subseteq left
  BY DEF Lowest
<1>5. next = 0 \/ next \in page
  BY <1>1 DEF Highest
<1>6. next = 0 => left = page
  <2> HIDE DEF left, page
  <2>1. QED
    BY <1>1, <1>3, <1>4 DEF Highest
<1>7. ASSUME NEW o \in left, o <= next
      PROVE  o \in page
  <2>1. next \in page
    BY <1>3, <1>5, <1>7
  <2> HIDE DEF left
  <2>2. QED
    BY <1>3, <1>7, <2>1, PageIsPrefix
<1>8. Cardinality(page) < PageLimit => page = left
  <2> HIDE DEF left
  <2>1. QED
    BY <1>3, ShortPageIsAll
<1>9. next \in Nat
  <2> HIDE DEF left, page
  <2>1. QED
    BY <1>3, <1>4, <1>5
<1>10. QED
  BY <1>2, <1>6, <1>7, <1>8, <1>9

-------------------------------------------------------------------------------
(* Listings. *)

\* An order that has been open all the time.
Lasting(o) == o \in open /\ job.born[o] # NotYet

\* One that CancelForgottenOrders ought to cancel.
Due(o) ==
    /\ Lasting(o)
    /\ o \notin job.unreadable
    /\ job.born[o] <= StartTime + job.skew - MaxAge

Running == at \in {"next", "waiting"}

\* The call in progress has an answer that is no error.
Confirmed == at = "waiting" /\ call.phase = "answered" /\ Told(call.op, call.answer) = OK

WorldInv ==
    /\ job.flow = "pages" => job.op \in PagedOp
    /\ job.flow = "forgotten" => job.op = "GetOpenOrders"
    /\ job.born \in [Order -> Int] /\ job.skew \in Int
    /\ now \in Nat /\ StartTime <= now
    /\ open \subseteq Order
    /\ \A o \in Order : job.born[o] # NotYet => created[o] = job.born[o]
    /\ err \in Seq(Kind \union {OK})
    /\ at \in {"next", "waiting", "returned"} /\ step \in {"read", "act"}
    /\ cursor \in Nat /\ call.next \in Nat

\* Every order up to the cursor is listed, and a page has every order up to the next one.
PagesInv ==
    Listing =>
        /\ at = "waiting" => call.op = job.op /\ call.arg.cursor = cursor
        /\ Running /\ ~ blank => \A o : Lasting(o) /\ o <= cursor => o \in got
        /\ Confirmed /\ ~ blank => \A o :
               /\ Lasting(o) /\ o > cursor
               /\ call.next = 0 \/ o <= call.next \/ Cardinality(call.rows) < PageLimit
               => o \in call.rows

\* As long as nothing has failed, what is to be cancelled is among the orders to cancel, and
\* a batch that is answered without an error has closed its orders.
BatchInv ==
    job.flow = "forgotten" /\ Acting =>
        /\ at = "waiting" => call.op = "CancelBatchOrders"
        /\ Running /\ err = <<>> /\ ~ blank => \A o : Due(o) => o \in todo
        /\ Confirmed => \A o \in call.arg.orders : ~ Lasting(o)

DoneInv ==
    /\ job.flow = "pages" /\ Succeeded /\ ~ blank => \A o : Lasting(o) => o \in got
    /\ job.flow = "forgotten" /\ Succeeded /\ ~ blank => \A o : ~ Due(o)

ListInv == WorldInv /\ PagesInv /\ BatchInv /\ DoneInv

\* Which methods the listings are of, and that they are to be started.
LEMMA JobKinds ==
  ASSUME RestInit
  PROVE  /\ job.flow = "pages" => job.op \in PagedOp
         /\ job.flow = "forgotten" => job.op = "GetOpenOrders"
         /\ job.flow \in {"pages", "forgotten"} => at = "next"
<1>1. CASE job \in CallJobs
  <2>1. PICK op, given, b : job = CallJob(op, given, b)
    BY <1>1 DEF CallJobs
  <2>2. QED
    BY <2>1 DEF CallJob, Job
<1>2. CASE job \in PageJobs
  <2>1. PICK op \in PagedOp, b \in Born({StartTime}) : job = PageJob(op, b)
    BY <1>2 DEF PageJobs
  <2>2. job.flow = "pages" /\ job.op = op
    BY <2>1 DEF PageJob, Job
  <2>3. job # NoJob
    BY <2>2 DEF NoJob, Job
  <2>4. QED
    BY <2>2, <2>3 DEF RestInit
<1>3. CASE job \in CloseJobs
  <2>1. PICK legs \in {{0}, {1, 2}} : \E given \in {{}, {"symbol"}}, i \in Leg, p \in Positions(legs) :
            job = CloseJob(given, i, legs, p)
    BY <1>3 DEF CloseJobs
  <2>2. QED
    BY <2>1 DEF CloseJob, Job
<1>4. CASE job \in ForgottenJobs
  <2>1. PICK given \in {{"symbol", "maxAge"}, {"symbol"}, {"maxAge"}},
             b \in Born(0 .. StartTime), u \in {{}, {1}} :
            job = ForgottenJob(given, b, u)
    BY <1>4 DEF ForgottenJobs
  <2>2. job.flow = "forgotten" /\ job.op = "GetOpenOrders"
    BY <2>1 DEF ForgottenJob, Job
  <2>3. job # NoJob
    BY <2>2 DEF NoJob, Job
  <2>4. QED
    BY <2>2, <2>3 DEF RestInit
<1>5. CASE job = NoJob
  BY <1>5 DEF NoJob, Job
<1>6. QED
  BY <1>1, <1>2, <1>3, <1>4, <1>5 DEF RestInit

\* At the start nothing is listed and nothing to be cancelled.
LEMMA ListInit == RestInit => ListInv
<1> SUFFICES ASSUME RestInit PROVE ListInv
  OBVIOUS
<1>1. /\ at \in {"next", "returned"} /\ step = "read" /\ cursor = 0 /\ err = <<>>
      /\ job.flow \in {"pages", "forgotten"} => at = "next"
  BY JobKinds DEF RestInit
<1>2. open \subseteq Order /\ created = job.born /\ now = StartTime /\ call = NoCall
  BY DEF RestInit
<1>3. \A o \in Order : ~ (o <= cursor)
  BY <1>1, RestAssumption DEF Order
<1>4. WorldInv
  BY <1>1, <1>2, JobKinds, JobNumbers, RestAssumption DEF WorldInv, NoCall
<1>5. PagesInv
  BY <1>1, <1>2, <1>3 DEF PagesInv, Confirmed, Lasting
<1>6. BatchInv /\ DoneInv
  BY <1>1 DEF BatchInv, DoneInv, Acting, Succeeded, Returned
<1>7. QED
  BY <1>4, <1>5, <1>6 DEF ListInv

\* A caller is told a kind of error or OK.
LEMMA ToldIsKind == \A op, answer : Told(op, answer) \in Kind \union {OK}
<1>1. \A n : MapBybitCode(n) \in Kind
  BY DEF MapBybitCode, Kind
<1>2. \A n : MapHTTPStatus(n) \in Kind
  BY DEF MapHTTPStatus, Kind
<1>3. \A answer : DoKind(answer) \in Kind \union {OK}
  BY <1>1, <1>2 DEF DoKind, Kind, OK
<1>4. QED
  BY <1>3 DEF Told, Decoded, Kind, OK

\* The world goes its way: no step unmakes an order that was there.
LEMMA WorldStep ==
  ASSUME WorldInv, CallInv, [RestNext]_restVars
  PROVE  /\ now' \in Nat /\ StartTime <= now'
         /\ open' \subseteq Order
         /\ \A o \in Order : job.born[o] # NotYet => created'[o] = job.born[o]
         /\ \A o \in open' : job.born[o] # NotYet => o \in open
<1> USE DEF WorldInv
<1>1. CASE OrderCreated
  <2>1. PICK o \in {p \in Order : created[p] = NotYet} :
            open' = open \union {o} /\ created' = [created EXCEPT ![o] = now]
    BY <1>1 DEF OrderCreated
  <2>2. job.born[o] = NotYet
    BY <2>1
  <2>3. now' = now
    BY <1>1 DEF OrderCreated
  <2>4. QED
    BY <2>1, <2>2, <2>3
<1>2. CASE Tick
  BY <1>2, RestAssumption DEF Tick
<1>3. ASSUME UNCHANGED <<now, created>>, open' \subseteq open
      PROVE  /\ now' \in Nat /\ StartTime <= now'
             /\ open' \subseteq Order
             /\ \A o \in Order : job.born[o] # NotYet => created'[o] = job.born[o]
             /\ \A o \in open' : job.born[o] # NotYet => o \in open
  BY <1>3
<1>4. ASSUME NEW c \in late, LateArrives(c)
      PROVE  UNCHANGED <<now, created>> /\ open' \subseteq open
  BY <1>4 DEF LateArrives, Execute
<1>5. CASE AsideStep /\ ~ OrderCreated /\ ~ Tick
  BY <1>3, <1>5 DEF AsideStep, RefuseLocally, Retry, Trade, OrderDone, exchangeVars
<1>6. CASE ExecuteWrite
  BY <1>3, <1>6 DEF ExecuteWrite, Execute
<1>7. CASE Send \/ RefuseRequest \/ ServeStep \/ Deliver \/ GiveUp
  BY <1>3, <1>7 DEF Send, RefuseRequest, ServeStep, ServePage, ServeQuery, ServePosition,
                    Deliver, GiveUp, exchangeVars
<1>8. CASE UNCHANGED restVars
  BY <1>3, <1>8 DEF restVars, exchangeVars
<1>9. QED
  BY <1>1, <1>2, <1>3, <1>4, <1>5, <1>6, <1>7, <1>8, StepCases

\* An order that lasts, or is due, has been so before.
LEMMA LastingStays ==
  ASSUME WorldInv, CallInv, [RestNext]_restVars
  PROVE  \A o : (Lasting(o)' => Lasting(o)) /\ (Due(o)' => Due(o))
<1>1. job' = job
  BY CallStep
<1>2. \A o \in open' : job.born[o] # NotYet => o \in open
  BY WorldStep
<1>3. QED
  BY <1>1, <1>2 DEF Lasting, Due

\* The rest of WorldInv.
LEMMA PlaceStep ==
  ASSUME WorldInv, CallInv, [RestNext]_restVars
  PROVE  WorldInv'
<1> DEFINE Place == /\ err \in Seq(Kind \union {OK})
                    /\ at \in {"next", "waiting", "returned"} /\ step \in {"read", "act"}
                    /\ cursor \in Nat /\ call.next \in Nat
<1>1. Place
  BY DEF WorldInv
<1>2. Place'
  <2>1. CASE AsideStep
    <3>1. call' = call
      BY <2>1, AsideKeepsCall DEF CallKept
    <3>2. CASE RefuseLocally
      BY <1>1, <3>1, <3>2 DEF RefuseLocally, Kind
    <3>3. CASE Retry
      BY <1>1, <3>1, <3>3 DEF Retry
    <3>4. CASE ~ RefuseLocally /\ ~ Retry
      <4>1. UNCHANGED flowVars
        BY <2>1, <3>4 DEF AsideStep, Trade, OrderDone, OrderCreated, Tick
      <4>2. QED
        BY <1>1, <4>1 DEF flowVars
    <3>5. QED
      BY <3>2, <3>3, <3>4
  <2>2. CASE Send
    BY <1>1, <2>2, SendSets DEF Send
  <2>3. CASE ServePage
    <3>1. call'.next \in Nat
      BY <2>3, PageServed DEF WorldInv
    <3>2. QED
      BY <1>1, <2>3, <3>1 DEF ServePage
  <2>4. CASE RefuseRequest \/ ExecuteWrite \/ ServeQuery \/ ServePosition
    <3>1. call'.next = call.next
      BY <2>4 DEF RefuseRequest, ExecuteWrite, ServeQuery, ServePosition, Answered, CallInv,
                  CallFields
    <3>2. QED
      BY <1>1, <2>4, <3>1 DEF RefuseRequest, ExecuteWrite, ServeQuery, ServePosition
  <2>5. CASE Deliver \/ GiveUp
    <3>1. PICK kind \in Kind \union {OK} : Over(kind) /\ Conclude(kind)
      BY <2>5, ToldIsKind DEF Deliver, GiveUp, TransportError, Kind
    <3>2. call'.next = 0
      BY <3>1 DEF Over, CallInv, CallFields
    <3>3. /\ <<kind>> \in Seq(Kind \union {OK}) /\ <<>> \in Seq(Kind \union {OK})
          /\ <<"InvalidRequest">> \in Seq(Kind \union {OK})
      BY DEF Kind
    <3>4. err' \in Seq(Kind \union {OK})
      <4>0. ASSUME NEW kinds \in Seq(Kind \union {OK}), Return(kinds)
            PROVE  err' \in Seq(Kind \union {OK})
        <5>1. err' = err \o kinds /\ err \in Seq(Kind \union {OK})
          BY <1>1, <4>0 DEF Return
        <5>2. \A S : \A s, t \in Seq(S) : s \o t \in Seq(S)
          OBVIOUS
        <5>3. QED
          BY <4>0, <5>1, <5>2
      <4>1. CASE Return(<<kind>>) \/ Return(<<>>) \/ UnknownSide
        <5>1. Return(<<kind>>) \/ Return(<<>>) \/ Return(<<"InvalidRequest">>)
          BY <4>1 DEF UnknownSide
        <5>2. QED
          BY <3>3, <4>0, <5>1
      <4>2. CASE NextPage \/ ListingDone \/ ChooseForgotten \/ ChooseTarget
        BY <1>1, <4>2 DEF NextPage, ListingDone, ChooseForgotten, ChooseTarget
      <4>3. CASE ChunkDone(kind)
        BY <1>1, <4>3 DEF ChunkDone
      <4>4. QED
        BY <3>1, <4>1, <4>2, <4>3 DEF Conclude
    <3>5. /\ at' \in {"next", "waiting", "returned"} /\ step' \in {"read", "act"}
          /\ cursor' \in Nat
      BY <1>1, <3>1 DEF Conclude, Return, NextPage, ListingDone, ChooseForgotten, ChooseTarget,
                        UnknownSide, ChunkDone
    <3>6. QED
      BY <3>2, <3>4, <3>5
  <2>6. ASSUME NEW c \in late, LateArrives(c)
        PROVE  Place'
    BY <1>1, <2>6 DEF LateArrives
  <2>7. CASE UNCHANGED restVars
    BY <1>1, <2>7 DEF restVars, flowVars
  <2>8. QED
    BY <2>1, <2>2, <2>3, <2>4, <2>5, <2>6, <2>7, StepCases DEF ServeStep
<1>3. job' = job
  BY CallStep
<1>4. QED
  BY <1>2, <1>3, WorldStep DEF WorldInv

\* Steps of others leave the listing and the batches what they are.
LEMMA OthersKeepLists ==
  ASSUME ListInv, CallInv, [RestNext]_restVars,
         UNCHANGED <<at, step, call, got, cursor, todo, err, blank>>
  PROVE  PagesInv' /\ BatchInv' /\ DoneInv'
<1>1. \A o : (Lasting(o)' => Lasting(o)) /\ (Due(o)' => Due(o))
  BY LastingStays DEF ListInv
<1>2. job' = job
  BY CallStep
<1>3. Confirmed' = Confirmed
  BY Zenon DEF Confirmed
<1>4. Running' = Running /\ Listing' = Listing /\ Acting' = Acting /\ Succeeded' = Succeeded
  BY <1>2 DEF Running, Listing, Acting, Succeeded, Returned
<1>5. PagesInv'
  BY <1>1, <1>2, <1>3, <1>4 DEF ListInv, PagesInv
<1>6. BatchInv' /\ DoneInv'
  BY <1>1, <1>2, <1>3, <1>4 DEF ListInv, BatchInv, DoneInv
<1>7. QED
  BY <1>5, <1>6

\* A job starts with nothing listed, and ends with an error if it is not valid.
LEMMA StartsAndRefusals ==
  ASSUME ListInv, CallInv, Retry \/ RefuseLocally
  PROVE  PagesInv' /\ BatchInv' /\ DoneInv'
<1>1. CASE Retry
  <2>1. at' = "next" /\ step' = "read" /\ cursor' = 0
    BY <1>1 DEF Retry
  <2>2. \A o \in open' : o \in Nat /\ o # 0
    BY <1>1, RestAssumption DEF Retry, exchangeVars, ListInv, WorldInv, Order
  <2>3. PagesInv'
    BY <2>1, <2>2 DEF PagesInv, Confirmed, Lasting
  <2>4. BatchInv' /\ DoneInv'
    BY <2>1 DEF BatchInv, DoneInv, Acting, Succeeded, Returned
  <2>5. QED
    BY <2>3, <2>4
<1>2. CASE RefuseLocally
  <2>1. at' = "returned" /\ err' = Append(err, "InvalidRequest") /\ err \in Seq(Kind \union {OK})
    BY <1>2 DEF RefuseLocally, ListInv, WorldInv
  <2>2. err' # <<>>
    BY <2>1
  <2>3. QED
    BY <2>1, <2>2 DEF PagesInv, BatchInv, DoneInv, Succeeded, Running, Confirmed
<1>3. QED
  BY <1>1, <1>2

\* The next request of a listing is for the page after the cursor.
LEMMA NextOfListing ==
  /\ Listing /\ step \in {"read", "act"} => NextCall.op = job.op /\ NextCall.arg.cursor = cursor
  /\ job.flow = "forgotten" /\ Acting => NextCall.op = "CancelBatchOrders"
  BY DEF Listing, Acting, NextCall, NoArg

\* A request for a page or a batch goes out.
LEMMA SendKeepsLists ==
  ASSUME ListInv, Send
  PROVE  PagesInv' /\ BatchInv' /\ DoneInv'
<1>1. /\ UNCHANGED <<job, step, got, cursor, todo, err, open, blank>>
      /\ at = "next" /\ at' = "waiting"
  BY DEF Send, exchangeVars
<1>2. call'.phase = "sent" /\ call'.op = NextCall.op /\ call'.arg = NextCall.arg
  BY SendSets
<1>3. PagesInv'
  BY <1>1, <1>2, NextOfListing DEF ListInv, WorldInv, PagesInv, Listing, Running, Confirmed, Lasting
<1>4. BatchInv' /\ DoneInv'
  BY <1>1, <1>2, NextOfListing DEF ListInv, WorldInv, BatchInv, DoneInv, Acting, Running, Confirmed,
                                   Lasting, Due, Succeeded, Returned
<1>5. QED
  BY <1>3, <1>4

\* An answer to a request of a listing is an error or a page, and one to a batch is an error
\* or comes after the orders are closed.
LEMMA AnswerKeepsLists ==
  ASSUME ListInv, TruthInv, RestNext, RefuseRequest \/ ExecuteWrite \/ ServeStep
  PROVE  PagesInv' /\ BatchInv' /\ DoneInv'
<1>1. /\ UNCHANGED <<job, at, step, got, cursor, todo, err>>
      /\ at = "waiting"
  BY DEF RefuseRequest, ExecuteWrite, ServeStep, ServePage, ServeQuery, ServePosition, OnItsWay
<1>2. ~ blank' => ~ blank
  BY DEF RefuseRequest, ExecuteWrite, Execute, ServeStep, ServePage, ServeQuery, ServePosition,
         exchangeVars
<1>3. \A o : (Lasting(o)' => Lasting(o)) /\ (Due(o)' => Due(o))
  BY LastingStays DEF ListInv, TruthInv
<1>4. /\ call'.op = call.op /\ call'.arg = call.arg /\ call'.phase = "answered"
  <2>1. CASE ServePage
    BY <2>1, PageServed, SMTT(30) DEF ListInv, WorldInv, TruthInv
  <2>2. CASE RefuseRequest \/ ExecuteWrite \/ ServeQuery \/ ServePosition
    BY <2>2, ZenonT(30) DEF RefuseRequest, ExecuteWrite, ServeQuery, ServePosition, Answered,
                            TruthInv, CallInv, CallFields
  <2>3. QED
    BY <2>1, <2>2 DEF ServeStep
<1>5. CASE RefuseRequest
  <2>1. PICK answer \in Refusals \union Failures \union {Envelope(BadSignature, "empty"), Plain(401)} :
            call' = [call EXCEPT !.phase = "answered", !.answer = answer, !.done = FALSE]
    BY <1>5 DEF RefuseRequest, Answered
  <2>2. call'.answer = answer
    BY <2>1 DEF TruthInv, CallInv, CallFields
  <2>3. call.op # "SpotModifyOrder" => ~ Confirmed'
    BY <1>4, <2>2, RefusedIsNotToldOK DEF Confirmed
  <2>4. Listing \/ (job.flow = "forgotten" /\ Acting) => call.op # "SpotModifyOrder"
    BY <1>1, PagesAreReads, OpenOrdersArePaged DEF ListInv, WorldInv, PagesInv, BatchInv, Listing
  <2>5. QED
    BY <1>1, <1>3, <1>4, <1>2, <2>3, <2>4 DEF ListInv, PagesInv, BatchInv, DoneInv, Listing, Acting,
                                        Running, Succeeded, Returned
<1>6. Listing => call.op \in PagedOp
  BY <1>1, OpenOrdersArePaged DEF ListInv, WorldInv, PagesInv, Listing
<1>7. job.flow = "forgotten" /\ Acting => call.op = "CancelBatchOrders"
  BY <1>1 DEF ListInv, BatchInv
<1>8. DoneInv'
  BY <1>1 DEF DoneInv, Succeeded, Returned
<1>9. CASE ExecuteWrite
  <2>1. ~ Listing
    BY <1>6, <1>9, PagesAreReads DEF ExecuteWrite
  <2>2. PagesInv'
    BY <1>1, <2>1 DEF PagesInv, Listing
  <2>3. \A o \in call'.arg.orders : ~ Lasting(o)'
    BY <1>4, <1>9 DEF ExecuteWrite, Execute, Lasting
  <2>4. BatchInv'
    BY <1>1, <1>3, <1>4, <1>7, <1>2, <2>3 DEF ListInv, BatchInv, Acting, Running
  <2>5. QED
    BY <1>8, <2>2, <2>4
<1>10. CASE ServePage
  <2>1. call.op \in PagedOp
    BY <1>10 DEF ServePage
  <2>2. ~ (job.flow = "forgotten" /\ Acting)
    BY <1>7, <2>1, PagesAreReads
  <2>3. BatchInv'
    BY <1>1, <2>2 DEF BatchInv, Acting
  <2>4. \A o \in open :
            /\ o > call.arg.cursor
            /\ call'.next = 0 \/ o <= call'.next \/ Cardinality(call'.rows) < PageLimit
            => o \in call'.rows
    BY <1>10, PageServed DEF ListInv, WorldInv, TruthInv
  <2>5. PagesInv'
    BY <1>1, <1>3, <1>4, <1>2, <2>4 DEF ListInv, PagesInv, Listing, Running, Lasting
  <2>6. QED
    BY <1>8, <2>3, <2>5
<1>11. CASE ServePosition
  <2>1. ~ Listing
    BY <1>6, <1>11, PagesAreReads DEF ServePosition
  <2>2. ~ (job.flow = "forgotten" /\ Acting)
    BY <1>7, <1>11 DEF ServePosition
  <2>3. QED
    BY <1>1, <1>8, <2>1, <2>2 DEF PagesInv, BatchInv, Listing, Acting
<1>12. CASE ServeQuery
  <2>1. ~ (job.flow = "forgotten" /\ Acting)
    BY <1>7, <1>12, BatchesWrite DEF ServeQuery
  <2>2. CASE ~ Listing
    BY <1>1, <1>8, <2>1, <2>2 DEF PagesInv, BatchInv, Listing, Acting
  <2>3. CASE Listing
    <3>1. call.op \in PagedOp
      BY <1>6, <2>3
    <3>2. PICK content \in {"empty", "garbled"} :
              /\ call' = [call EXCEPT !.phase = "answered", !.answer = Envelope(0, content),
                                      !.done = TRUE]
              /\ content = "empty" => blank'
      BY <1>12, <3>1 DEF ServeQuery, Answered, Reading
    <3>3. call'.answer = Envelope(0, content)
      BY <3>2 DEF TruthInv, CallInv, CallFields
    <3>4. ~ blank' => ~ Confirmed'
      BY <1>4, <3>1, <3>2, <3>3, PagesAreDecoded DEF Confirmed
    <3>5. PagesInv'
      BY <1>1, <1>3, <1>4, <1>2, <2>3, <3>4 DEF ListInv, PagesInv, Listing, Running
    <3>6. QED
      BY <1>1, <1>8, <2>1, <3>5 DEF BatchInv, Acting
  <2>4. QED
    BY <2>2, <2>3
<1>13. QED
  BY <1>5, <1>9, <1>10, <1>11, <1>12 DEF ServeStep

\* The end of a call, which is told OK only if it was confirmed.
LEMMA ConcludeKeepsLists ==
  ASSUME ListInv, CallInv, [RestNext]_restVars, at = "waiting",
         NEW kind \in Kind \union {OK}, kind = OK => Confirmed,
         Over(kind), Conclude(kind), UNCHANGED <<open, created, now, blank>>
  PROVE  PagesInv' /\ BatchInv' /\ DoneInv'
<1>1. job' = job /\ ~ Confirmed'
  BY CallStep DEF Over, CallInv, CallFields, Confirmed
<1>2. \A o : (Lasting(o)' => Lasting(o)) /\ (Due(o)' => Due(o))
  BY LastingStays DEF ListInv
<1>3. err \in Seq(Kind \union {OK}) /\ step \in {"read", "act"}
  BY DEF ListInv, WorldInv
<1>4. CASE ~ (Listing \/ job.flow = "forgotten")
  BY <1>1, <1>4 DEF PagesInv, BatchInv, DoneInv, Listing
<1>5. CASE (Listing \/ job.flow = "forgotten") /\ Return(<<kind>>) /\ kind # OK
  <2>1. err' # <<>> /\ at' = "returned"
    BY <1>3, <1>5 DEF Return
  <2>2. QED
    BY <1>1, <2>1 DEF PagesInv, BatchInv, DoneInv, Running, Succeeded
<1>6. CASE kind = OK /\ Listing
  <2>1. Confirmed /\ call.arg.cursor = cursor
    BY <1>6 DEF ListInv, PagesInv
  <2>2. ASSUME ~ blank, NEW o, Lasting(o), call.next = 0 \/ o <= call.next \/ Cardinality(call.rows) < PageLimit
        PROVE  o \in got \union call.rows
    <3>1. o \in Nat /\ cursor \in Nat
      <4>1. o \in Order /\ cursor \in Nat
        BY <2>2 DEF ListInv, WorldInv, Lasting
      <4>2. QED
        BY <4>1, RestAssumption DEF Order
    <3>2. CASE o <= cursor
      BY <1>6, <2>2, <3>2 DEF ListInv, PagesInv, Running
    <3>3. CASE o > cursor
      BY <1>6, <2>1, <2>2, <3>3 DEF ListInv, PagesInv
    <3>4. QED
      BY <3>1, <3>2, <3>3
  <2>3. CASE ~ LastPage /\ NextPage
    <3>1. cursor' = call.next /\ got' = got \union call.rows /\ at' = "next" /\ UNCHANGED <<step, err>>
      BY <2>3 DEF NextPage
    <3>2. PagesInv'
      BY <1>1, <1>2, <2>2, <3>1 DEF PagesInv, Running
    <3>3. BatchInv' /\ DoneInv'
      BY <1>1, <1>3, <1>6, <3>1 DEF BatchInv, DoneInv, Listing, Acting, Succeeded, Returned
    <3>4. QED
      BY <3>2, <3>3
  <2>4. LastPage /\ ~ blank => \A o : Lasting(o) => o \in got \union call.rows
    BY <2>2 DEF LastPage
  <2>5. CASE LastPage /\ ListingDone
    BY <1>1, <1>2, <2>4, <2>5 DEF ListingDone, PagesInv, BatchInv, DoneInv, Running
  <2>6. CASE LastPage /\ ChooseForgotten
    <3>1. ~ blank => \A o : Due(o) => o \in got \union call.rows /\ IsForgotten(o)
      <4>1. ASSUME NEW o, Due(o) PROVE IsForgotten(o)
        <5>1. /\ o \in Order /\ o \notin job.unreadable /\ created[o] = job.born[o]
              /\ job.born[o] <= StartTime + job.skew - MaxAge /\ job.born[o] \in Int
          BY <4>1 DEF Due, Lasting, ListInv, WorldInv
        <5>2. now \in Int /\ StartTime <= now /\ job.skew \in Int /\ MaxAge \in Int /\ StartTime \in Int
          BY RestAssumption DEF ListInv, WorldInv
        <5>3. QED
          BY <5>1, <5>2 DEF IsForgotten
      <4>2. QED
        BY <2>4, <2>6, <4>1 DEF Due
    <3>2. /\ todo' = {o \in got \union call.rows : IsForgotten(o)}
          /\ step' = "act" /\ job.flow = "forgotten"
          /\ at' = IF todo' = {} THEN "returned" ELSE "next"
      BY <2>6 DEF ChooseForgotten
    <3>3. ~ blank => \A o : Due(o)' => o \in todo'
      BY <1>2, <3>1, <3>2
    <3>4. PagesInv'
      BY <1>1, <3>2 DEF PagesInv, Listing
    <3>5. BatchInv'
      BY <1>1, <3>2, <3>3 DEF BatchInv
    <3>6. DoneInv'
      BY <1>1, <3>2, <3>3 DEF DoneInv, Succeeded, Returned
    <3>7. QED
      BY <3>4, <3>5, <3>6
  <2>7. QED
    BY <1>6, <2>3, <2>5, <2>6 DEF Conclude, Listing, Acting, OK
<1>7. CASE job.flow = "forgotten" /\ Acting /\ ChunkDone(kind)
  <2>1. /\ todo' = todo \ call.arg.orders
        /\ err' = IF kind = OK THEN err ELSE Append(err, kind)
        /\ at' = IF todo' = {} THEN "returned" ELSE "next"
        /\ UNCHANGED step
    BY <1>7 DEF ChunkDone
  <2>2. err' = <<>> => kind = OK /\ err = <<>>
    BY <1>3, <2>1
  <2>3. err' = <<>> /\ ~ blank => \A o : Due(o)' => o \in todo'
    BY <1>2, <1>7, <2>1, <2>2 DEF ListInv, BatchInv, Running, Due
  <2>4. PagesInv'
    BY <1>1, <1>7, <2>1 DEF PagesInv, Listing, Acting
  <2>5. BatchInv'
    BY <1>1, <2>1, <2>3 DEF BatchInv
  <2>6. DoneInv'
    BY <1>1, <1>7, <2>1, <2>3 DEF DoneInv, Succeeded, Returned
  <2>7. QED
    BY <2>4, <2>5, <2>6
<1>8. QED
  BY <1>3, <1>4, <1>5, <1>6, <1>7 DEF Conclude, Listing, Acting

\* Lists are right, step by step.
LEMMA ListStep ==
  ASSUME ListInv, TruthInv, [RestNext]_restVars
  PROVE  ListInv'
<1>0. WorldInv' /\ CallInv
  BY PlaceStep DEF ListInv, TruthInv
<1> SUFFICES PagesInv' /\ BatchInv' /\ DoneInv'
  BY <1>0 DEF ListInv
<1>1. CASE UNCHANGED <<at, step, call, got, cursor, todo, err, blank>>
  BY <1>0, <1>1, OthersKeepLists
<1>2. CASE AsideStep
  <2>1. CASE Retry \/ RefuseLocally
    BY <1>0, <2>1, StartsAndRefusals
  <2>2. CASE ~ (Retry \/ RefuseLocally)
    BY <1>1, <1>2, <2>2 DEF AsideStep, Trade, OrderDone, OrderCreated, Tick, flowVars
  <2>3. QED
    BY <2>1, <2>2
<1>3. CASE Send
  BY <1>3, SendKeepsLists
<1>4. CASE RefuseRequest \/ ExecuteWrite \/ ServeStep
  BY <1>4, AnswerKeepsLists DEF RestNext, ServeStep
<1>5. CASE Deliver
  <2>1. PICK answer \in {call.answer, [call.answer EXCEPT !.body = "cut"]} :
            Over(Told(call.op, answer)) /\ Conclude(Told(call.op, answer))
    BY <1>5 DEF Deliver
  <2>2. Told(call.op, answer) = OK => Confirmed
    <3>1. CASE answer = call.answer
      BY <1>5, <3>1 DEF Deliver, Confirmed
    <3>2. CASE answer # call.answer
      BY <2>1, <3>2, CutIsNetwork DEF TruthInv, AnswerInv, OK
    <3>3. QED
      BY <3>1, <3>2
  <2>3. at = "waiting" /\ UNCHANGED <<open, created, now, blank>>
    BY <1>5 DEF Deliver, exchangeVars
  <2>4. Told(call.op, answer) \in Kind \union {OK}
    BY ToldIsKind
  <2>5. QED
    BY <1>0, <2>1, <2>2, <2>3, <2>4, ConcludeKeepsLists
<1>6. CASE GiveUp
  <2>1. /\ Over(TransportError) /\ Conclude(TransportError)
        /\ at = "waiting" /\ UNCHANGED <<open, created, now, blank>>
    BY <1>6 DEF GiveUp, exchangeVars
  <2>2. TransportError \in Kind \union {OK} /\ TransportError # OK
    BY DEF TransportError, Kind, OK
  <2>3. QED
    BY <1>0, <2>1, <2>2, ConcludeKeepsLists
<1>7. ASSUME NEW c \in late, LateArrives(c)
      PROVE  PagesInv' /\ BatchInv' /\ DoneInv'
  BY <1>1, <1>7 DEF LateArrives, Execute
<1>8. CASE UNCHANGED restVars
  BY <1>1, <1>8 DEF restVars, flowVars, exchangeVars
<1>9. QED
  BY <1>2, <1>3, <1>4, <1>5, <1>6, <1>7, <1>8, StepCases

\* What is listed, to be cancelled and cancelled is right at all times.
LEMMA ListsAreRight == RestSpec => []ListInv
  BY TruthInit, TruthStep, ListInit, ListStep, PTL DEF RestSpec

\* A listing that returns without an error has every order that was open all the time, of
\* however many pages, and whatever is created or filled between two of them.
THEOREM ListingsAreComplete == RestSpec => []ListingIsComplete
<1>1. ListInv => ListingIsComplete
  BY DEF ListInv, DoneInv, Lasting, ListingIsComplete
<1>2. QED
  BY ListsAreRight, <1>1, PTL

\* CancelForgottenOrders that returns nil leaves no order open that was old enough when it
\* was called, however many batches it takes, and however often it is tried.
THEOREM NilLeavesNoneForgotten == RestSpec => []NilMeansForgottenGone
<1>1. ListInv => NilMeansForgottenGone
  <2> SUFFICES ASSUME ListInv, job.flow = "forgotten", Succeeded, ~ blank,
                      NEW o \in open, job.born[o] # NotYet, o \notin job.unreadable
               PROVE  job.born[o] > StartTime + job.skew - MaxAge
    BY DEF NilMeansForgottenGone
  <2>1. ~ Due(o)
    BY DEF ListInv, DoneInv
  <2>2. job.born[o] \in Int /\ job.skew \in Int
    BY DEF ListInv, WorldInv
  <2>3. QED
    BY <2>1, <2>2, RestAssumption DEF Due, Lasting
<1>2. QED
  BY ListsAreRight, <1>1, PTL

-------------------------------------------------------------------------------
(* Types. *)

CallTypes ==
    /\ call.op \in Op
    /\ call.phase \in {"none", "sent", "answered", "over"}
    /\ call.told \in Kind \union {OK}
    /\ call.answer \in Answer \union {NoAnswer}
    /\ call.next \in 0 .. MaxOrders
    /\ call.legs \in [Leg -> Size]

FlowTypes ==
    /\ at \in {"next", "waiting", "returned"}
    /\ step \in {"read", "act"}
    /\ tries \in 1 .. MaxTries
    /\ cursor \in 0 .. MaxOrders
    /\ target.idx \in Leg /\ target.qty \in Size
    /\ err \in Seq(Kind)
    /\ \A c \in late : Endpoint[c.op].writes /\ c.phase = "sent"

WorldTypes ==
    /\ position \in [Leg -> Size]
    /\ trades \in 0 .. MaxTrades
    /\ created \in [Order -> BirthTime]
    /\ now \in Time
    /\ executed \in Nat
    /\ moved \in BOOLEAN
    /\ blank \in BOOLEAN

\* The types of all variables; the numbers of orders are those of ForgottenInv, and orders
\* that shrink a position keep it in its bounds.
TypesInv ==
    /\ ForgottenInv /\ HarmlessInv
    /\ job.flow # "close" => job.op \in Op
    /\ CallTypes /\ FlowTypes /\ WorldTypes

\* The types at the start ...
LEMMA TypesInit == RestInit => TypesInv
<1> SUFFICES ASSUME RestInit PROVE TypesInv
  OBVIOUS
<1>1. /\ call = NoCall /\ target = NoRow /\ err = <<>> /\ late = {} /\ position = job.before
      /\ at \in {"next", "returned"} /\ step = "read" /\ tries = 1 /\ cursor = 0 /\ trades = 0
      /\ created = job.born /\ now = StartTime /\ executed = 0 /\ moved = FALSE
      /\ blank = FALSE
  BY DEF RestInit
<1>2. 0 \in Size /\ NoPosition \in [Leg -> Size]
  BY RestAssumption DEF Size, NoPosition
<1>3. "GetWalletBalance" \in Op
  BY DEF Op, Endpoint
<1>4. CallTypes
  BY <1>1, <1>2, <1>3, RestAssumption DEF CallTypes, NoCall, OK
<1>5. FlowTypes
  BY <1>1, <1>2, RestAssumption DEF FlowTypes, NoRow, Leg
<1>6. WorldTypes
  <2>1. 0 \in 0 .. MaxTrades /\ StartTime \in Time
    BY RestAssumption DEF Time
  <2>2. QED
    BY <1>1, <2>1, JobTypes, Zenon DEF WorldTypes
<1>7. QED
  BY <1>4, <1>5, <1>6, JobOps, ForgottenInit, HarmlessInit DEF TypesInv

\* The answers of the exchange are answers.
LEMMA AnswersAreAnswers ==
  /\ Refusals \union Failures \union {Envelope(BadSignature, "empty"), Plain(401)} \subseteq Answer
  /\ \A content \in Content : Envelope(0, content) \in Answer
<1>1. ASSUME NEW code \in Nat, NEW result \in Content
      PROVE  Envelope(code, result) \in Answer
  BY DEF Envelope, Answer, Status, Body
<1>2. ASSUME NEW status \in Status
      PROVE  Plain(status) \in Answer
  BY DEF Plain, Answer, Body, Content
<1>3. "empty" \in Content /\ {200, 401, 403, 404, 429, 500, 502} \subseteq Status
  BY DEF Content, Status
<1>4. [Envelope(ServerErrorCode, "empty") EXCEPT !.status = 500] \in Answer
  BY DEF Envelope, Answer, Status, Body, Content, ServerErrorCode
<1>5. AuthCode \union RateLimitCode \union InvalidRequestCode \union ExchangeCode
          \union {BadSignature, ServerErrorCode} \subseteq Nat
  BY DEF AuthCode, RateLimitCode, InvalidRequestCode, ExchangeCode, BadSignature,
         ServerErrorCode
<1>6. Refusals \subseteq Answer
  <2>1. \A code \in AuthCode \union RateLimitCode \union InvalidRequestCode \union ExchangeCode :
            Envelope(code, "empty") \in Answer
    BY <1>1, <1>3, <1>5
  <2>2. Envelope(10001, "empty") \in Answer
    BY <1>1, <1>3
  <2>3. QED
    BY <1>2, <1>3, <2>1, <2>2 DEF Refusals
<1>7. Failures \subseteq Answer
  <2>1. Envelope(ServerErrorCode, "empty") \in Answer
    BY <1>1, <1>3, <1>5
  <2>2. QED
    BY <1>2, <1>3, <1>4, <2>1 DEF Failures
<1>8. Envelope(BadSignature, "empty") \in Answer /\ Plain(401) \in Answer
  BY <1>1, <1>2, <1>3, <1>5
<1>9. QED
  BY <1>1, <1>6, <1>7, <1>8

\* ... of the call after every step ...
LEMMA CallTypesStep ==
  ASSUME TypesInv, [RestNext]_restVars
  PROVE  CallTypes'
<1> USE DEF TypesInv, HarmlessInv, CallTypes
<1>1. CASE AsideStep
  BY <1>1, AsideKeepsCall DEF CallKept
<1>2. CASE Send
  <2>1. NextCall.op \in Op
    BY NextCallHasOp DEF FlowTypes
  <2>2. call'.told = OK
    BY <1>2 DEF Send, NoCall
  <2>3. NoPosition \in [Leg -> Size]
    BY RestAssumption DEF NoPosition, Size
  <2>4. QED
    BY <1>2, <2>1, <2>2, <2>3, SendSets, RestAssumption
<1>3. CASE RefuseRequest
  <2>1. PICK answer \in Refusals \union Failures \union {Envelope(BadSignature, "empty"), Plain(401)} :
            call' = [call EXCEPT !.phase = "answered", !.answer = answer, !.done = FALSE]
    BY <1>3, ZenonT(30) DEF RefuseRequest, Answered
  <2>2. answer \in Answer
    BY AnswersAreAnswers
  <2>3. QED
    BY <2>1, <2>2 DEF CallInv, CallFields
<1>4. CASE ExecuteWrite
  <2>1. PICK answer \in Failures \union
                (IF call.arg.orders \subseteq open
                 THEN {Envelope(0, content) : content \in {"rows", "garbled", "empty"}}
                 ELSE {Envelope(0, content) : content \in {"partly", "garbled", "empty"}}) :
            call' = [call EXCEPT !.phase = "answered", !.answer = answer, !.done = TRUE]
    BY <1>4 DEF ExecuteWrite, Answered
  <2>2. answer \in Answer
    <3>1. {"rows", "garbled", "empty", "partly"} \subseteq Content
      BY DEF Content
    <3>2. QED
      BY <2>1, <3>1, AnswersAreAnswers
  <2>3. QED
    BY <2>1, <2>2 DEF CallInv, CallFields
<1>5. CASE ServeQuery
  <2>0. {"rows", "empty", "garbled"} \subseteq Content
    BY DEF Content
  <2>1. PICK content \in {"rows", "empty", "garbled"} :
            call' = [call EXCEPT !.phase = "answered", !.answer = Envelope(0, content),
                                 !.done = TRUE]
    BY <1>5 DEF ServeQuery, Answered
  <2>2. QED
    BY <2>0, <2>1, AnswersAreAnswers DEF CallInv, CallFields
<1>6. CASE ServePage
  <2> DEFINE page == Lowest({o \in open : o > call.arg.cursor}, PageLimit)
  <2>1. PICK next \in IF {o \in open : o > call.arg.cursor} # page THEN Highest(page)
                      ELSE {0} \union (IF Cardinality(page) = PageLimit THEN Highest(page)
                                                                        ELSE {}) :
            call' = [call EXCEPT !.phase = "answered", !.done = TRUE, !.rows = page,
                                 !.next = next, !.answer = Envelope(0, "rows")]
    BY <1>6 DEF ServePage
  <2>2. page \subseteq Order
    BY DEF Lowest, ForgottenInv, Known
  <2> HIDE DEF page
  <2>3. next = 0 \/ next \in page
    BY DEF Highest
  <2>4. next \in 0 .. MaxOrders
    <3>1. 0 \in 0 .. MaxOrders /\ Order \subseteq 0 .. MaxOrders
      BY RestAssumption DEF Order
    <3>2. QED
      BY <2>2, <2>3, <3>1, Zenon
  <2>5. Envelope(0, "rows") \in Answer
    BY AnswersAreAnswers DEF Content
  <2>6. QED
    BY <2>1, <2>4, <2>5 DEF CallInv, CallFields
<1>7. CASE ServePosition
  <2>1. Envelope(0, "rows") \in Answer /\ Envelope(0, "sideless") \in Answer
    BY AnswersAreAnswers DEF Content
  <2>2. QED
    BY <1>7, <2>1 DEF ServePosition, CallInv, CallFields, WorldTypes
<1>8. CASE Deliver \/ GiveUp
  <2>1. PICK kind \in Kind \union {OK} : Over(kind)
    BY <1>8, ToldIsKind DEF Deliver, GiveUp, TransportError, Kind
  <2>2. NoPosition \in [Leg -> Size]
    BY RestAssumption DEF NoPosition, Size
  <2>3. QED
    BY <2>1, <2>2, RestAssumption DEF Over, CallInv, CallFields
<1>9. ASSUME NEW c \in late, LateArrives(c)
      PROVE  CallTypes'
  BY <1>9 DEF LateArrives
<1>10. CASE UNCHANGED restVars
  BY <1>10 DEF restVars, flowVars
<1>11. QED
  BY <1>1, <1>2, <1>3, <1>4, <1>5, <1>6, <1>7, <1>8, <1>9, <1>10, StepCases DEF ServeStep

\* The end of a call.
LEMMA ConcludeTypes ==
  ASSUME TypesInv, NEW kind \in Kind \union {OK}, Conclude(kind)
  PROVE  /\ at' \in {"next", "returned"} /\ step' \in {"read", "act"}
         /\ cursor' \in 0 .. MaxOrders
         /\ target'.idx \in Leg /\ target'.qty \in Size
         /\ err' \in Seq(Kind)
<1> USE DEF TypesInv, FlowTypes
<1>1. ASSUME NEW kinds \in Seq(Kind), Return(kinds)
      PROVE  /\ at' = "returned" /\ UNCHANGED <<step, cursor, target>>
             /\ err' \in Seq(Kind)
  BY <1>1 DEF Return
<1>2. CASE kind # OK /\ Return(<<kind>>)
  <2>1. <<kind>> \in Seq(Kind)
    BY <1>2
  <2>2. QED
    BY <1>1, <1>2, <2>1
<1>3. CASE Return(<<>>)
  <2>1. <<>> \in Seq(Kind)
    OBVIOUS
  <2>2. QED
    BY <1>1, <1>3, <2>1
<1>4. CASE NextPage \/ ListingDone \/ ChooseForgotten
  BY <1>4 DEF NextPage, ListingDone, ChooseForgotten, CallTypes
<1>5. CASE ChooseTarget
  <2>1. PICK l \in ToClose : target' = [idx |-> l, qty |-> call.legs[l]]
    BY <1>5 DEF ChooseTarget
  <2>2. l \in Leg /\ call.legs[l] \in Size
    BY <2>1 DEF ToClose, HarmlessInv, LegInv, CallTypes
  <2>3. QED
    BY <1>5, <2>1, <2>2 DEF ChooseTarget
<1>6. CASE UnknownSide
  <2>1. <<"InvalidRequest">> \in Seq(Kind)
    BY DEF Kind
  <2>2. QED
    BY <1>1, <1>6, <2>1 DEF UnknownSide
<1>7. CASE ChunkDone(kind)
  BY <1>7 DEF ChunkDone
<1>8. QED
  BY <1>2, <1>3, <1>4, <1>5, <1>6, <1>7 DEF Conclude

\* ... of the program ...
LEMMA FlowTypesStep ==
  ASSUME TypesInv, [RestNext]_restVars
  PROVE  FlowTypes'
<1> USE DEF TypesInv, FlowTypes
<1>1. CASE RefuseLocally
  BY <1>1 DEF RefuseLocally, Kind
<1>2. CASE Retry
  BY <1>2, RestAssumption DEF Retry, NoRow, Leg, Size
<1>3. CASE AsideStep /\ ~ RefuseLocally /\ ~ Retry
  <2>1. UNCHANGED <<flowVars, tries>>
    BY <1>3 DEF AsideStep, Trade, OrderDone, OrderCreated, Tick
  <2>2. QED
    BY <2>1 DEF flowVars
<1>4. CASE Send
  BY <1>4 DEF Send
<1>5. CASE RefuseRequest \/ ExecuteWrite \/ ServeStep
  BY <1>5 DEF RefuseRequest, ExecuteWrite, ServeStep, ServePage, ServeQuery, ServePosition
<1>6. CASE Deliver \/ GiveUp
  <2>1. PICK kind \in Kind \union {OK} : Conclude(kind)
    BY <1>6, ToldIsKind DEF Deliver, GiveUp, TransportError, Kind
  <2>2. /\ tries' = tries
        /\ \A c \in late' : c \in late \/ (c = call /\ c.phase = "sent" /\ Endpoint[c.op].writes)
    BY <1>6 DEF Deliver, GiveUp
  <2>3. QED
    BY <2>1, <2>2, ConcludeTypes
<1>7. ASSUME NEW c \in late, LateArrives(c)
      PROVE  FlowTypes'
  BY <1>7 DEF LateArrives
<1>8. CASE UNCHANGED restVars
  BY <1>8 DEF restVars, flowVars
<1>9. QED
  BY <1>1, <1>2, <1>3, <1>4, <1>5, <1>6, <1>7, <1>8, StepCases

\* An order that shrinks positions leaves them in their bounds.
LEMMA OrderKeepsTypes ==
  ASSUME WorldTypes, NEW c, Harmless(c.arg), Executable(c), Execute(c)
  PROVE  WorldTypes'
<1> USE DEF WorldTypes
<1>1. \A n : n \in Size <=> n \in Int /\ -MaxQty <= n /\ n <= MaxQty
  BY RestAssumption DEF Size
<1>2. position \in [Leg -> Int]
  BY <1>1
<1>3. /\ position' \in [Leg -> Int]
      /\ \A l \in Leg : Within(position'[l], position[l])
      /\ UNCHANGED <<trades, moved, blank>>
  BY <1>2, OrderShrinks
<1>4. ASSUME NEW l \in Leg
      PROVE  position'[l] \in Size
  <2>1. position[l] \in Size /\ position'[l] \in Int /\ Within(position'[l], position[l])
    BY <1>3
  <2>2. QED
    BY <1>1, <2>1, RestAssumption DEF Within
<1>5. position' \in [Leg -> Size]
  BY <1>3, <1>4
<1>6. executed' \in Nat /\ UNCHANGED <<created, now>>
  BY DEF Execute
<1>7. QED
  BY <1>3, <1>5, <1>6

\* ... of the exchange ...
LEMMA WorldTypesStep ==
  ASSUME TypesInv, [RestNext]_restVars
  PROVE  WorldTypes'
<1> USE DEF TypesInv, WorldTypes
<1>1. CASE Send \/ RefuseLocally \/ Retry \/ RefuseRequest \/ Deliver \/ GiveUp
  BY <1>1 DEF Send, RefuseLocally, Retry, RefuseRequest, Deliver, GiveUp, exchangeVars
<1>2. CASE ServeStep
  BY <1>2 DEF ServeStep, ServePage, ServeQuery, ServePosition, exchangeVars
<1>3. CASE ExecuteWrite
  BY <1>3, OrderKeepsTypes DEF ExecuteWrite, HarmlessInv
<1>4. ASSUME NEW c \in late, LateArrives(c)
      PROVE  WorldTypes'
  BY <1>4, OrderKeepsTypes DEF LateArrives, HarmlessInv
<1>5. ASSUME NEW l \in job.legs, NEW d \in {-1, 1}, Trade(l, d)
      PROVE  WorldTypes'
  <2>1. position' \in [Leg -> Size]
    BY <1>5 DEF Trade, Positions, Size
  <2>2. /\ trades' \in 0 .. MaxTrades /\ moved' = TRUE
        /\ UNCHANGED <<created, now, executed, blank>>
    BY <1>5, RestAssumption DEF Trade
  <2>3. QED
    BY <2>1, <2>2
<1>6. ASSUME NEW o \in open, OrderDone(o)
      PROVE  WorldTypes'
  BY <1>6 DEF OrderDone
<1>7. CASE OrderCreated
  <2>1. PICK o \in Order : created' = [created EXCEPT ![o] = now]
    BY <1>7 DEF OrderCreated
  <2>2. UNCHANGED <<position, trades, now, executed, moved, blank>>
    BY <1>7 DEF OrderCreated
  <2>3. now \in BirthTime
    BY DEF BirthTime
  <2>4. QED
    BY <2>1, <2>2, <2>3
<1>8. CASE Tick
  <2>1. now' \in Time /\ UNCHANGED <<position, trades, created, executed, moved, blank>>
    BY <1>8, RestAssumption DEF Tick, Time
  <2>2. QED
    BY <2>1
<1>9. CASE UNCHANGED restVars
  BY <1>9 DEF restVars, exchangeVars
<1>10. QED
  BY <1>1, <1>2, <1>3, <1>4, <1>5, <1>6, <1>7, <1>8, <1>9, StepCases DEF AsideStep

\* ... and of all together.
LEMMA TypesStep ==
  ASSUME TypesInv, [RestNext]_restVars
  PROVE  TypesInv'
<1>1. ForgottenInv' /\ HarmlessInv' /\ job' = job
  BY ForgottenStep, HarmlessStep, CallStep DEF TypesInv, HarmlessInv
<1>2. QED
  BY <1>1, CallTypesStep, FlowTypesStep, WorldTypesStep DEF TypesInv

\* The type invariant of the program, its requests and the exchange.
THEOREM RestTypeCorrect == RestSpec => []RestTypeOK
<1>1. TypesInv => RestTypeOK
  <2> SUFFICES ASSUME TypesInv PROVE RestTypeOK
    OBVIOUS
  <2>1. \A n \in Size : Abs(n) <= MaxQty
    BY RestAssumption DEF Size, Abs
  <2>2. open \subseteq Order /\ got \subseteq Order /\ todo \subseteq Order
    BY DEF TypesInv, ForgottenInv, Known, Old
  <2>3. QED
    BY <2>1, <2>2 DEF TypesInv, CallTypes, FlowTypes, WorldTypes, Size, BirthTime, RestTypeOK
<1>2. QED
  BY TypesInit, TypesStep, <1>1, PTL DEF RestSpec

===============================================================================
