------------------------------ MODULE RestFlows ------------------------------
(***************************************************************************)
(* A program that calls REST methods: one request at a time, which may be  *)
(* lost, answered late or answered with an error, and which the program    *)
(* tries again when it is told of a network error. A job is a single call, *)
(* a paged listing, ClosePosition or CancelForgottenOrders; the latter two *)
(* read first and act on what they have read, while orders and positions   *)
(* move on at the exchange.                                                *)
(*                                                                         *)
(* A request the caller has given up is not gone: it may still reach the   *)
(* exchange and be executed.                                               *)
(***************************************************************************)
EXTENDS Endpoints, RestClient, FiniteSets

CONSTANTS
    MaxTries,       \* attempts of the program at its job
    MaxQty,         \* size of a position at most
    MaxTrades,      \* trades of others at most
    MaxOrders,      \* orders of the symbol; they are numbered as they are created
    PageLimit,      \* rows of a page
    MaxCancels,     \* orders of a batch cancel at most
    MaxAge,         \* CancelForgottenOrders cancels orders this old
    Skew,           \* how far the clock of the program is off
    StartTime, MaxTime

ASSUME RestAssumption ==
    /\ MaxTries \in Nat \ {0}
    /\ MaxQty \in Nat /\ MaxTrades \in Nat
    /\ MaxOrders \in Nat
    /\ PageLimit \in Nat \ {0} /\ MaxCancels \in Nat \ {0}
    /\ MaxAge \in Nat \ {0} /\ Skew \in Nat
    /\ StartTime \in Nat /\ MaxTime \in Nat /\ StartTime <= MaxTime

VARIABLES
    job,        \* what the program is to do
    at,         \* "next": to send a request; "waiting" for its answer; "returned"
    step,       \* "read" or "act", of a job of two parts
    tries,
    call,       \* the last request and its answer
    got,        \* orders listed so far
    cursor,     \* of the next page, 0 for the first
    target,     \* the row ClosePosition has chosen
    todo,       \* orders still to be cancelled
    err,        \* kinds of the error of the job, joined; none if empty
    late,       \* writes given up that may still reach the exchange
    position,   \* exchange: the position of each leg, short if negative
    trades,     \* exchange: trades of others so far
    open,       \* exchange: open orders
    created,    \* exchange: when an order was created
    now,
    executed,   \* how often the exchange has executed the write of a job in Creating
    moved,      \* ghost: somebody has traded since the exchange was asked for the position
    blank       \* ghost: a page or the positions this try has asked for came without a result

flowVars == <<at, step, call, got, cursor, target, todo, err, late>>

exchangeVars == <<position, trades, open, created, now, moved, blank>>

restVars == <<job, flowVars, tries, exchangeVars, executed>>

Order == 1 .. MaxOrders

Time == 0 .. MaxTime

NotYet == -1

\* The methods of a single request, and the batch cancel of BatchOrders as one request.
Endpoint ==
    [GetBorrowHistory           |-> GetBorrowHistory,
     GetCollateralInfo          |-> GetCollateralInfo,
     GetFeeRate                 |-> GetFeeRate,
     GetCoinGreeks              |-> GetCoinGreeks,
     GetAccountInfo             |-> GetAccountInfo,
     SetMarginMode              |-> SetMarginMode,
     SetCollateralCoin          |-> SetCollateralCoin,
     SetHedgingMode             |-> SetHedgingMode,
     GetTransactionLog          |-> GetTransactionLog,
     GetFriendReferrals         |-> GetFriendReferrals,
     GetAffiliateUserInfo       |-> GetAffiliateUserInfo,
     GetAffiliateUserList       |-> GetAffiliateUserList,
     GetCoinInfo                |-> GetCoinInfo,
     GetDepositAddress          |-> GetDepositAddress,
     GetDepositRecords          |-> GetDepositRecords,
     GetAllowedDepositCoins     |-> GetAllowedDepositCoins,
     SetDepositAccount          |-> SetDepositAccount,
     GetAllCoinsBalance         |-> GetAllCoinsBalance,
     GetSingleCoinBalance       |-> GetSingleCoinBalance,
     GetTransferableCoins       |-> GetTransferableCoins,
     CreateInternalTransfer     |-> CreateInternalTransfer,
     GetInternalTransferRecords |-> GetInternalTransferRecords,
     CreateWithdraw             |-> CreateWithdraw,
     CancelWithdraw             |-> CancelWithdraw,
     GetWithdrawRecords         |-> GetWithdrawRecords,
     GetWithdrawableAmount      |-> GetWithdrawableAmount,
     BrokerGetAccountInfo       |-> BrokerGetAccountInfo,
     GetVoucherSpec             |-> GetVoucherSpec,
     DistributeVoucher          |-> DistributeVoucher,
     GetVoucherDistribution     |-> GetVoucherDistribution,
     GetSubMemberDepositRecords |-> GetSubMemberDepositRecords,
     GetEarnings                |-> GetEarnings,
     GetWalletBalance           |-> GetWalletBalance,
     SpotGetWalletBalance       |-> SpotGetWalletBalance,
     GetPosition                |-> GetPosition,
     GetOpenOrders              |-> GetOpenOrders,
     SpotGetOpenOrders          |-> SpotGetOpenOrders,
     SetLeverage                |-> SetLeverage,
     SetPositionMode            |-> SetPositionMode,
     GetSymbolInfo              |-> GetSymbolInfo,
     SpotGetSymbolInfo          |-> SpotGetSymbolInfo,
     GetOrderBook               |-> GetOrderBook,
     SpotGetOrderBook           |-> SpotGetOrderBook,
     GetHistoricalCandles       |-> GetHistoricalCandles,
     SpotGetHistoricalCandles   |-> SpotGetHistoricalCandles,
     GetFundingRateHistory      |-> GetFundingRateHistory,
     GetOpenInterest            |-> GetOpenInterest,
     GetInstruments             |-> GetInstruments,
     GetRiskLimit               |-> GetRiskLimit,
     GetTickers                 |-> GetTickers,
     CreateOrder                |-> CreateOrder,
     SpotCreateOrder            |-> SpotCreateOrder,
     ModifyOrder                |-> ModifyOrder,
     SpotModifyOrder            |-> SpotModifyOrder,
     CancelOrder                |-> CancelOrder,
     SpotCancelOrder            |-> SpotCancelOrder,
     CancelBatchOrders          |-> Command("order")]

Op == DOMAIN Endpoint

PagedOp == {op \in Op : Endpoint[op].cursor # "none"}

\* The exchange asks for a signature except for market data.
Private(op) == Endpoint[op].area # "market"

\* Writes that must not be done twice, and the parameters that keep them from it.
Creating ==
    {"CreateInternalTransfer", "CreateWithdraw", "DistributeVoucher", "CreateOrder",
     "SpotCreateOrder"}

IdempotencyKey == {"transferId", "requestId", "specCode", "orderLinkId"}

-------------------------------------------------------------------------------
(* Jobs. Parameters are all that a method knows, all but one, or only what *)
(* it needs.                                                               *)

Params(op) ==
    LET e   == Endpoint[op]
        all == e.needs \union e.one \union e.some \union (UNION {{p[1], p[2]} : p \in e.implies})
                   \union (IF e.key = "none" THEN {} ELSE {e.key})
    IN  {all, e.needs, all \union e.never} \union {all \ {p} : p \in all}

Leg == 0 .. 2

NoPosition == [l \in Leg |-> 0]

NoOrders == [o \in Order |-> NotYet]

Job(flow, op, given) ==
    [flow |-> flow, op |-> op, given |-> given, enabled |-> TRUE,
     idx |-> 0, legs |-> {}, before |-> NoPosition,
     born |-> NoOrders, unreadable |-> {}, skew |-> 0]

CallJob(op, given, enabled) == [Job("call", op, given) EXCEPT !.enabled = enabled]

CallJobs ==
    UNION {{CallJob(op, given, b) : given \in Params(op), b \in BOOLEAN} :
           op \in Op \ (PagedOp \union {"CancelBatchOrders"})}

\* The first k orders exist, numbered as they were created.
Born(times) ==
    UNION {{[o \in Order |-> IF o <= k THEN f[o] ELSE NotYet] :
                f \in {g \in [1 .. k -> times] : \A i, j \in 1 .. k : i < j => g[i] <= g[j]}} :
           k \in 0 .. MaxOrders}

PageJob(op, born) == [Job("pages", op, Endpoint[op].needs) EXCEPT !.born = born]

PageJobs == {PageJob(op, b) : op \in PagedOp, b \in Born({StartTime})}

\* An account has one leg for both directions, or a long and a short one.
Positions(legs) ==
    {p \in [Leg -> -MaxQty .. MaxQty] :
        /\ \A l \in Leg \ legs : p[l] = 0
        /\ p[1] >= 0 /\ p[2] <= 0}

CloseJob(given, idx, legs, before) ==
    [Job("close", "ClosePosition", given) EXCEPT !.idx = idx, !.legs = legs, !.before = before]

CloseJobs ==
    UNION {{CloseJob(given, i, legs, p) :
                given \in {{}, {"symbol"}}, i \in Leg, p \in Positions(legs)} :
           legs \in {{0}, {1, 2}}}

\* The creation time of an order may be one the client cannot read, and the clock of the
\* program be slow or fast; here it is slow when there is such an order, so that no order is
\* cancelled for the clock alone. Spot's method is that of the linear market.
ForgottenJob(given, born, unreadable) ==
    [Job("forgotten", "GetOpenOrders", given) EXCEPT
        !.born = born, !.unreadable = unreadable,
        !.skew = IF unreadable = {} THEN Skew ELSE -Skew]

ForgottenJobs ==
    {ForgottenJob(given, b, u) :
        given \in {{"symbol", "maxAge"}, {"symbol"}, {"maxAge"}},
        b \in Born(0 .. StartTime), u \in {{}, {1}}}

\* A program that sends no requests.
NoJob == Job("none", "GetWalletBalance", {})

NoArg == [cursor |-> 0, idx |-> 0, side |-> "", qty |-> 0, reduceOnly |-> FALSE, orders |-> {}]

NoAnswer == [status |-> 0, body |-> "cut", code |-> 0, result |-> "empty"]

NoCall ==
    [op |-> "GetWalletBalance", given |-> {}, sign |-> NoSignature, arg |-> NoArg, try |-> 1,
     phase |-> "none", answer |-> NoAnswer, rows |-> {}, next |-> 0, legs |-> NoPosition,
     told |-> OK, done |-> FALSE]

NoRow == [idx |-> 0, qty |-> 0]

RestInit ==
    /\ job \in CallJobs \union PageJobs \union CloseJobs \union ForgottenJobs \union {NoJob}
    /\ at = IF job = NoJob THEN "returned" ELSE "next"
    /\ step = "read"
    /\ tries = 1
    /\ call = NoCall
    /\ got = {}
    /\ cursor = 0
    /\ target = NoRow
    /\ todo = {}
    /\ err = <<>>
    /\ late = {}
    /\ position = job.before
    /\ trades = 0
    /\ open = {o \in Order : job.born[o] # NotYet}
    /\ created = job.born
    /\ now = StartTime
    /\ executed = 0
    /\ moved = FALSE
    /\ blank = FALSE

Abs(n) == IF n < 0 THEN -n ELSE n

RestTypeOK ==
    /\ at \in {"next", "waiting", "returned"}
    /\ step \in {"read", "act"}
    /\ tries \in 1 .. MaxTries
    /\ call.op \in Op
    /\ call.phase \in {"none", "sent", "answered", "over"}
    /\ call.told \in Kind \union {OK}
    /\ call.answer \in Answer \union {NoAnswer}
    /\ got \in SUBSET Order /\ todo \in SUBSET Order
    /\ cursor \in 0 .. MaxOrders
    /\ target.idx \in Leg /\ Abs(target.qty) <= MaxQty
    /\ err \in Seq(Kind)
    /\ \A c \in late : Endpoint[c.op].writes /\ c.phase = "sent"
    /\ position \in [Leg -> -MaxQty .. MaxQty]
    /\ trades \in 0 .. MaxTrades
    /\ open \in SUBSET Order
    /\ created \in [Order -> Time \union {NotYet}]
    /\ now \in Time
    /\ executed \in Nat
    /\ moved \in BOOLEAN
    /\ blank \in BOOLEAN

-------------------------------------------------------------------------------
(* The SDK: what it sends.                                                 *)

\* The checks of a method before it sends anything.
Valid(op, given) ==
    LET e == Endpoint[op]
    IN  /\ e.needs \subseteq given
        /\ \A p \in e.implies : p[1] \in given => p[2] \in given
        /\ e.one = {} \/ Cardinality(e.one \intersect given) = 1
        /\ e.some = {} \/ e.some \intersect given # {}
        /\ e.never \intersect given = {}

\* Those of CancelForgottenOrders come before the ones of the listing.
ValidJob == job.flow = "forgotten" => {"symbol", "maxAge"} \subseteq job.given

Lowest(orders, n) == {o \in orders : Cardinality({p \in orders : p < o}) < n}

Chunk == Lowest(todo, MaxCancels)

Opposite(qty) == IF qty > 0 THEN "Sell" ELSE "Buy"

\* Mutant of CloseOrder: an order that may open a position.
CloseOrderFree ==
    [op |-> "CreateOrder", given |-> {"symbol", "side", "qty"},
     arg |-> [NoArg EXCEPT !.idx = target.idx, !.side = Opposite(target.qty),
                           !.qty = Abs(target.qty)]]

\* The market order of ClosePosition.
CloseOrder ==
    [op |-> "CreateOrder", given |-> {"symbol", "side", "qty"},
     arg |-> [NoArg EXCEPT !.idx = target.idx, !.side = Opposite(target.qty),
                           !.qty = Abs(target.qty), !.reduceOnly = TRUE]]

NextCall ==
    CASE job.flow = "close" /\ step = "read" ->
            [op |-> "GetPosition", given |-> job.given, arg |-> NoArg]
      [] job.flow = "close" /\ step = "act" -> CloseOrder
      [] job.flow = "forgotten" /\ step = "act" ->
            [op |-> "CancelBatchOrders", given |-> {}, arg |-> [NoArg EXCEPT !.orders = Chunk]]
      [] OTHER ->
            [op |-> job.op, given |-> job.given, arg |-> [NoArg EXCEPT !.cursor = cursor]]

\* buildRequest and applyHeaders: the request goes out, signed if it is to be.
Send ==
    LET next == NextCall
        e    == Endpoint[next.op]
    IN  /\ at = "next"
        /\ ValidJob /\ Valid(next.op, next.given)
        /\ call' = [NoCall EXCEPT
                        !.op = next.op, !.given = next.given, !.arg = next.arg,
                        !.sign = Signature(e.signed, job.enabled, e.method, next.given),
                        !.phase = "sent", !.try = tries]
        /\ at' = "waiting"
        /\ UNCHANGED <<job, step, got, cursor, target, todo, err, late, tries,
                       exchangeVars, executed>>

\* A request that does not pass the checks of its method is not sent.
RefuseLocally ==
    /\ at = "next"
    /\ ~ (ValidJob /\ Valid(NextCall.op, NextCall.given))
    /\ err' = Append(err, "InvalidRequest")
    /\ at' = "returned"
    /\ UNCHANGED <<job, step, call, got, cursor, target, todo, late, tries, exchangeVars,
                   executed>>

-------------------------------------------------------------------------------
(* The exchange.                                                           *)

Envelope(code, result) ==
    [status |-> 200, body |-> "envelope", code |-> code, result |-> result]

Plain(status) == [status |-> status, body |-> "other", code |-> 0, result |-> "empty"]

BadSignature == 10004

\* Answers of an exchange that has turned the request down: every code on single calls,
\* one of them on the other jobs.
Refusals ==
    IF job.flow = "call"
    THEN {Envelope(code, "empty") :
              code \in (AuthCode \ {10003, BadSignature}) \union RateLimitCode
                           \union InvalidRequestCode \union ExchangeCode}
         \union {Plain(status) : status \in {401, 403, 404, 429}}
    ELSE {Envelope(10001, "empty")}

\* Answers that leave open whether the request was executed.
Failures ==
    IF job.flow = "call"
    THEN {Envelope(ServerErrorCode, "empty"), [Envelope(ServerErrorCode, "empty") EXCEPT !.status = 500],
          Plain(200), Plain(500), Plain(502)}
    ELSE {Plain(502)}

\* The exchange computes the signature of what it has received.
Verifies(c) ==
    LET method == Endpoint[c.op].method
    IN  c.sign = [of |-> IF method = "GET" THEN QueryOf(method, c.given)
                                           ELSE BodyOf(method, c.given),
                  by |-> TRUE]

Authentic(c) == Private(c.op) => Verifies(c)

\* A repeated key is known; a reduce-only order finds something to reduce.
Executable(c) ==
    /\ Authentic(c)
    /\ executed > 0 => Endpoint[c.op].key \notin c.given
    /\ c.arg.reduceOnly =>
          IF c.arg.side = "Sell" THEN position[c.arg.idx] > 0 ELSE position[c.arg.idx] < 0

\* What an order makes of the position of its leg.
Traded(arg) ==
    LET signed == IF arg.side = "Sell" THEN -arg.qty ELSE arg.qty
        after  == position[arg.idx] + signed
    IN  IF arg.reduceOnly /\ after * position[arg.idx] < 0 THEN 0 ELSE after

\* The exchange executes a write.
Execute(c) ==
    /\ executed' = IF job.op \in Creating THEN executed + 1 ELSE executed
    /\ position' = [position EXCEPT ![c.arg.idx] = Traded(c.arg)]
    /\ open' = open \ c.arg.orders
    /\ UNCHANGED <<trades, created, now, moved, blank>>

Answered(answer, done) ==
    call' = [call EXCEPT !.phase = "answered", !.answer = answer, !.done = done]

OnItsWay == at = "waiting" /\ call.phase = "sent"

RefuseRequest ==
    /\ OnItsWay
    /\ \E answer \in IF Authentic(call)
                     THEN Refusals \union Failures
                     ELSE {Envelope(BadSignature, "empty"), Plain(401)} :
            Answered(answer, FALSE)
    /\ UNCHANGED <<job, at, step, got, cursor, target, todo, err, late, tries, exchangeVars,
                   executed>>

\* An answer without a result, or without information by row, does not say what was done.
ExecuteWrite ==
    /\ OnItsWay
    /\ Endpoint[call.op].writes
    /\ Executable(call)
    /\ Execute(call)
    /\ \E answer \in Failures \union
            IF call.arg.orders \subseteq open
            THEN {Envelope(0, content) : content \in {"rows", "garbled", "empty"}}
            ELSE {Envelope(0, content) : content \in {"partly", "garbled", "empty"}} :
            Answered(answer, TRUE)
    /\ UNCHANGED <<job, at, step, got, cursor, target, todo, err, late, tries>>

Highest(page) == {o \in page : \A p \in page : p <= o}

\* A page is the first orders after the cursor. There is a next cursor if there are more,
\* and there may be one after a full last page.
ServePage ==
    LET left == {o \in open : o > call.arg.cursor}
        page == Lowest(left, PageLimit)
    IN  /\ OnItsWay /\ Authentic(call)
        /\ call.op \in PagedOp
        /\ \E next \in IF left # page THEN Highest(page)
                       ELSE {0} \union (IF Cardinality(page) = PageLimit THEN Highest(page) ELSE {}) :
                call' = [call EXCEPT !.phase = "answered", !.done = TRUE, !.rows = page,
                                     !.next = next, !.answer = Envelope(0, "rows")]
        /\ UNCHANGED <<job, at, step, got, cursor, target, todo, err, late, tries, exchangeVars,
                       executed>>

\* Requests whose rows matter to what is done next.
Reading == call.op \in PagedOp \union {"GetPosition"}

\* Any other query, and an answer to a page or the positions that has no rows: its result
\* is absent or cannot be decoded.
ServeQuery ==
    /\ OnItsWay /\ Authentic(call)
    /\ ~ Endpoint[call.op].writes
    /\ \E content \in {"rows", "empty", "garbled"} :
           /\ Reading => content # "rows"
           /\ Answered(Envelope(0, content), TRUE)
           /\ blank' = (blank \/ (Reading /\ content = "empty"))
    /\ UNCHANGED <<job, at, step, got, cursor, target, todo, err, late, tries,
                   position, trades, open, created, now, moved, executed>>

ServePosition ==
    /\ OnItsWay /\ Authentic(call)
    /\ call.op = "GetPosition"
    /\ \E content \in {"rows", "sideless"} :
           call' = [call EXCEPT !.phase = "answered", !.done = TRUE, !.legs = position,
                                !.answer = Envelope(0, content)]
    /\ moved' = FALSE
    /\ UNCHANGED <<job, at, step, got, cursor, target, todo, err, late, tries,
                   position, trades, open, created, now, blank, executed>>

\* A write that was given up reaches the exchange all the same.
LateArrives(c) ==
    /\ Executable(c)
    /\ Execute(c)
    /\ late' = late \ {c}
    /\ UNCHANGED <<job, at, step, call, got, cursor, target, todo, err, tries>>

Trade(l, d) ==
    /\ trades < MaxTrades
    /\ [position EXCEPT ![l] = @ + d] \in Positions(job.legs)
    /\ position' = [position EXCEPT ![l] = @ + d]
    /\ trades' = trades + 1
    /\ moved' = TRUE
    /\ UNCHANGED <<job, flowVars, tries, open, created, now, blank, executed>>

\* Orders come and go, which nobody sees but a request that arrives after it.
OrderDone(o) ==
    /\ job.flow \in {"pages", "forgotten"} /\ OnItsWay
    /\ open' = open \ {o}
    /\ UNCHANGED <<job, flowVars, tries, position, trades, created, now, executed, moved, blank>>

OrderCreated ==
    LET unborn == {o \in Order : created[o] = NotYet}
    IN  /\ job.flow \in {"pages", "forgotten"} /\ OnItsWay
        /\ \E o \in unborn :
               /\ \A p \in unborn : o <= p
               /\ open' = open \union {o}
               /\ created' = [created EXCEPT ![o] = now]
        /\ UNCHANGED <<job, flowVars, tries, position, trades, now, executed, moved, blank>>

Tick ==
    /\ job.flow = "forgotten" /\ at = "waiting"
    /\ now < MaxTime
    /\ now' = now + 1
    /\ UNCHANGED <<job, flowVars, tries, position, trades, open, created, executed, moved,
                   blank>>

-------------------------------------------------------------------------------
(* The SDK: what it makes of the answer.                                   *)

\* What the method says of the answer. Spot takes an amendment that is refused with 10001
\* for one that changes nothing; a missing symbol is an error of the request.
Told(op, answer) ==
    LET e       == Endpoint[op]
        kind    == DoKind(answer)
        decoded == Decoded(e.decodes, answer)
        notModified == op = "SpotModifyOrder" /\ answer.body = "envelope"
                           /\ answer.code = 10001
    IN  CASE kind # OK /\ notModified -> OK
          [] kind # OK /\ ~ notModified -> kind
          [] kind = OK /\ decoded # OK -> decoded
          [] kind = OK /\ answer.result = "empty" /\ e.first -> "InvalidRequest"
          [] kind = OK /\ answer.result = "partly" -> "InvalidRequest"
          [] OTHER -> OK

Return(kinds) ==
    /\ at' = "returned"
    /\ err' = err \o kinds
    /\ UNCHANGED <<step, got, cursor, target, todo>>

Listing == job.flow = "pages" \/ (job.flow = "forgotten" /\ step = "read")

\* Mutant of LastPage: a full page is taken for the last one.
LastPageEarly == call.next = 0 \/ Endpoint[call.op].cursor = "loop"

\* The loop of GetOpenOrders also ends with a page that is not full.
LastPage ==
    \/ call.next = 0
    \/ Endpoint[call.op].cursor = "loop" /\ Cardinality(call.rows) < PageLimit

\* Mutant of NextPage: the next request is for the same page.
NextPageAgain ==
    /\ got' = got \union call.rows
    /\ at' = "next"
    /\ UNCHANGED <<step, cursor, target, todo, err>>

NextPage ==
    /\ got' = got \union call.rows
    /\ cursor' = call.next
    /\ at' = "next"
    /\ UNCHANGED <<step, target, todo, err>>

ListingDone ==
    /\ job.flow = "pages"
    /\ got' = got \union call.rows
    /\ at' = "returned"
    /\ UNCHANGED <<step, cursor, target, todo, err>>

\* Mutant of IsForgotten: an order without a creation time is taken for an old one.
IsForgottenUnread(o) ==
    o \in job.unreadable \/ created[o] <= now + job.skew - MaxAge

\* Old enough by the clock of the program; a creation time that cannot be read is 0.
IsForgotten(o) == o \notin job.unreadable /\ created[o] <= now + job.skew - MaxAge

ChooseForgotten ==
    LET listed    == got \union call.rows
        forgotten == {o \in listed : IsForgotten(o)}
    IN  /\ job.flow = "forgotten" /\ step = "read"
        /\ got' = listed
        /\ todo' = forgotten
        /\ step' = "act"
        /\ at' = IF forgotten = {} THEN "returned" ELSE "next"
        /\ UNCHANGED <<cursor, target, err>>

\* Mutant of ChunkDone: the error of a chunk is dropped.
ChunkDoneSilently(kind) ==
    /\ todo' = todo \ call.arg.orders
    /\ at' = IF todo' = {} THEN "returned" ELSE "next"
    /\ UNCHANGED <<step, got, cursor, target, err>>

\* Mutant of ChunkDone: the error of a chunk is joined to the others though it is nil.
ChunkDoneWithNil(kind) ==
    /\ todo' = todo \ call.arg.orders
    /\ err' = Append(err, kind)
    /\ at' = IF todo' = {} THEN "returned" ELSE "next"
    /\ UNCHANGED <<step, got, cursor, target>>

\* A chunk is over, the next one is sent whatever became of it.
ChunkDone(kind) ==
    /\ todo' = todo \ call.arg.orders
    /\ err' = IF kind = OK THEN err ELSE Append(err, kind)
    /\ at' = IF todo' = {} THEN "returned" ELSE "next"
    /\ UNCHANGED <<step, got, cursor, target>>

\* Mutant of ToClose: the leg the program asks for is not looked at.
ToCloseAny == {l \in job.legs : call.legs[l] # 0}

\* Rows of ClosePosition that it may close; 0 stands for any leg.
ToClose == {l \in job.legs : call.legs[l] # 0 /\ (job.idx # 0 => l = job.idx)}

\* The first row it may close, whose side is the long or the short one.
ChooseTarget ==
    /\ call.answer.result # "sideless"
    /\ \E l \in ToClose :
           /\ \A m \in ToClose : l <= m
           /\ target' = [idx |-> l, qty |-> call.legs[l]]
    /\ step' = "act"
    /\ at' = "next"
    /\ UNCHANGED <<got, cursor, todo, err>>

\* The side of that row is neither.
UnknownSide == call.answer.result = "sideless" /\ Return(<<"InvalidRequest">>)

Acting == step = "act"

Conclude(kind) ==
    \/ kind # OK /\ ~ (job.flow = "forgotten" /\ Acting) /\ Return(<<kind>>)
    \/ kind = OK /\ job.flow = "call" /\ Return(<<>>)
    \/ kind = OK /\ Listing /\ ~ LastPage /\ NextPage
    \/ kind = OK /\ Listing /\ LastPage /\ (ListingDone \/ ChooseForgotten)
    \/ kind = OK /\ job.flow = "close" /\ ~ Acting /\ ToClose # {}
           /\ (ChooseTarget \/ UnknownSide)
    \/ kind = OK /\ job.flow = "close" /\ (Acting \/ ToClose = {}) /\ Return(<<>>)
    \/ job.flow = "forgotten" /\ Acting /\ ChunkDone(kind)

Over(kind) ==
    call' = [call EXCEPT !.phase = "over", !.told = kind, !.answer = NoAnswer,
                         !.rows = {}, !.next = 0, !.legs = NoPosition]

\* Do returns with an answer; its body may break off.
Deliver ==
    /\ at = "waiting" /\ call.phase = "answered"
    /\ \E answer \in {call.answer, [call.answer EXCEPT !.body = "cut"]} :
            Over(Told(call.op, answer)) /\ Conclude(Told(call.op, answer))
    /\ UNCHANGED <<job, late, tries, exchangeVars, executed>>

\* The client times out, is cancelled, or loses the connection.
GiveUp ==
    /\ at = "waiting"
    /\ Over(TransportError)
    /\ Conclude(TransportError)
    /\ late' = IF call.phase = "sent" /\ Endpoint[call.op].writes THEN late \union {call} ELSE late
    /\ UNCHANGED <<job, tries, exchangeVars, executed>>

\* The program does its job anew, from the start.
Retry ==
    /\ at = "returned" /\ IsKind(err, "Network")
    /\ tries < MaxTries
    /\ tries' = tries + 1
    /\ at' = "next" /\ step' = "read"
    /\ got' = {} /\ cursor' = 0 /\ target' = NoRow /\ todo' = {} /\ err' = <<>>
    /\ blank' = FALSE
    /\ UNCHANGED <<job, call, late, position, trades, open, created, now, moved, executed>>

-------------------------------------------------------------------------------

RestNext ==
    \/ Send \/ RefuseLocally \/ Deliver \/ GiveUp \/ Retry
    \/ RefuseRequest \/ ExecuteWrite \/ ServePage \/ ServeQuery \/ ServePosition
    \/ \E c \in late : LateArrives(c)
    \/ \E l \in job.legs, d \in {-1, 1} : Trade(l, d)
    \/ \E o \in open : OrderDone(o)
    \/ OrderCreated
    \/ Tick

\* The SDK runs, and every request has a timeout; nothing is asked of the exchange.
RestFairness ==
    /\ WF_restVars(Send)
    /\ WF_restVars(RefuseLocally)
    /\ WF_restVars(Deliver \/ GiveUp)

RestSpec == RestInit /\ [][RestNext]_restVars /\ RestFairness

-------------------------------------------------------------------------------
(* Properties.                                                             *)

Returned == at = "returned"

Succeeded == Returned /\ err = <<>>

\* A write of which the caller is told that it was refused is not executed, and one of
\* which it is told no error is: only network and unknown errors leave it open. (Do and
\* the maps of codes and statuses; spot's ModifyOrder may have had nothing to do.)
ToldTheTruth ==
    call.phase = "over" /\ Endpoint[call.op].writes /\ call.op # "CancelBatchOrders" =>
        /\ call.told \in Refusal => ~ call.done
        /\ call.told = OK => call.done \/ call.op = "SpotModifyOrder"

\* What creates an order, a transfer, a withdrawal or a voucher is done once, whatever
\* answers are lost and however often it is tried, if the request has an id of its own.
KeyedOnce ==
    job.op \in Creating /\ job.given \intersect IdempotencyKey # {} => executed <= 1

\* With keys, no request is refused for its signature: what is signed is what is sent,
\* and every method that the exchange wants signed asks for it.
OwnRequestsVerify ==
    call.phase = "answered" /\ job.enabled => call.answer.code # BadSignature

\* A listing without an error has all orders that were open all the time, whatever is
\* filled or created while its pages are read. (If an answer has no result, UnmarshalResult
\* leaves its page empty, and the listing ends there: blank.)
ListingIsComplete ==
    job.flow = "pages" /\ Succeeded /\ ~ blank =>
        {o \in open : job.born[o] # NotYet} \subseteq got

\* CancelForgottenOrders without an error leaves no order open that was old enough when
\* it was called, by a clock that is off by the skew, if every page it has read had a result.
NilMeansForgottenGone ==
    job.flow = "forgotten" /\ Succeeded /\ ~ blank =>
        \A o \in open :
            job.born[o] # NotYet /\ o \notin job.unreadable =>
                job.born[o] > StartTime + job.skew - MaxAge

\* ... and it cancels no order younger than that, however late the cancel arrives.
OnlyForgottenCancelled ==
    [][<<call, late>>' # <<call, late>> =>
           \A o \in open \ open' : now - created[o] >= MaxAge - job.skew]_restVars

\* No order of ClosePosition opens or turns a position, whatever is traded between the
\* reading and the order, however often it is tried, and however late it arrives.
CloseNeverOpens ==
    [][<<call, late>>' # <<call, late>> =>
           \A l \in Leg : /\ Abs(position'[l]) <= Abs(position[l])
                          /\ position'[l] * position[l] >= 0]_restVars

\* If nobody else trades after the reading, and the reading has a result, ClosePosition
\* without an error has closed the leg it was asked to close; in any case it closes no other
\* leg, and a first try no two.
ClosedUnlessMoved ==
    job.flow = "close" /\ Succeeded =>
        /\ ~ moved /\ ~ blank /\ (job.idx # 0 \/ job.legs = {0}) => position[job.idx] = 0
        /\ trades = 0 =>
              LET changed == {l \in Leg : position[l] # job.before[l]}
              IN  /\ job.idx # 0 => changed \subseteq {job.idx}
                  /\ tries = 1 => Cardinality(changed) <= 1

\* Every job comes to an end: a call has a timeout, and a listing a last page.
EveryJobReturns == at # "returned" ~> at = "returned"

===============================================================================
