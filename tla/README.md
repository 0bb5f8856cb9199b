# A TLA+ model of go-bybit

go-bybit is a Go SDK for the Bybit V5 API: REST calls and websocket streams for
linear derivatives and spot, with a local order book, reconnecting connections, an
id cache and batch trading. This directory holds TLA+ modules of it, the TLC runs that
check them, and TLAPS proofs about them. Paths below are relative
to the repository (`src/`).

## 1. Inventory

| component | state | operations | talks to |
|---|---|---|---|
| order book engine (`orderbook/engine.go`) | `bids`, `asks`, `lastU`, `primed`, `dirty` under one RWMutex | `ApplySnapshot`, `ApplyDelta`, `MarkResynced`, `TopLevels` | called by the stream dispatcher and by `Reset` |
| order book stream (`linears/stream.go`, `spot/stream.go`) | one engine per `WatchOrderBook` call, captured in the closures of a `ws.Subscription` | `WatchOrderBook`, `applyOrderbookFrame`, `Unsubscribe` | connection, engine, handler and errHandler of the caller |
| websocket connection (`internal/ws/conn.go`) | registry `subs`, `socket`, `closed`, `cancel`; the supervisor's `backoff` | `Start`, `Subscribe`, `Unsubscribe`, `Close`; supervisor, read loop and ping loop | server, subscription handlers |
| order id cache (`linears/trading.go`, `spot/trading.go`) | `clOrdToOrd`, `ordToClOrd`, `createdAtMs` | `rememberMapping`, `forgetMappingByClOrdOrOrd`, `SyncOrderMappings` | every trading call |
| batch orders (same files) | that of one call: chunk, rows, results, errors | `CreateBatchOrders`, `ModifyBatchOrders`, `CancelBatchOrders` | REST client, id cache |
| single orders, account (`linears/account.go`, `spot/account.go`) | none between calls | create, amend, cancel, `GetOpenOrders`, `ClosePosition`, ... | REST client |
| REST client (`internal/rest/client.go`), `internal/bberr` | none between calls | `Do`: build, sign, send, classify | exchange |
| other streams (ticker, trades, klines, private) | the ticker merge keeps the last ticker | decode and hand on | connection |
| root client, sub-clients, configuration | lazily made sub-clients under `sync.Once` | factories, `Close`, `withDefaults` | all of the above |
| `asset`, `account`, `broker`, `affiliate`, `premarket`, market data | none | validate, call, decode | REST client |
| numbers and precision (`internal/v5common`), request signing, logging, metrics, codec | none | pure functions and output | all of the above |

`linears` and `spot` are near copies of each other. Where they differ the model has
both (`Market` in `BatchOrders`); where they do not, one module stands for both.

What is hard to test here, and what each hazard is checked by, is the list
`hazards` of `PROJECT.json`. In short:

- order and loss: deltas around gaps, reconnects, matcher restarts;
- goroutines: callers that release the mutex and then write to the socket they saw,
  while the supervisor replaces it, authenticates and resubscribes;
- failures half way: chunks of a batch, rows of a chunk, answers that are lost;
- stale knowledge: a listing that is older than the cache it is compared with, a
  position or a list of orders that is acted on after it was read;
- answers that never come: a request the caller has given up may still be executed,
  and what the caller is told decides whether it repeats it;
- streams that change hands: a topic watched anew, unsubscribed or reconnected while
  its frames are on their way.

## 2. Modules

| module | models | composed of |
|---|---|---|
| `BookLevels` | books as functions from (side, price) to size: trim, override, difference | |
| `BookEngine` | what `orderbook.Engine` promises, on such books | extends `BookLevels` |
| `OrderBookEngine` | the engine as written: sorted slices, binary search, stable sort, truncation | refines `BookEngine` by `INSTANCE ... WITH` |
| `OrderBookProofs` | theorems about `OrderBookEngine` | extends `OrderBookEngine` |
| `BookFeed` | one `WatchOrderBook` end to end: exchange, wire, connection as the subscription sees it, dispatcher, engine | extends `BookEngine` |
| `BookFeedProofs` | theorems about `BookFeed` | extends `BookFeed` |
| `WsConn` | `ws.Conn` with all its goroutines, callers, network and server | |
| `WsConnProofs` | theorems about `WsConn` | extends `WsConn` |
| `OrderIdMap` | the id cache, its callers and the exchange's orders | |
| `OrderIdMapProofs` | theorems about `OrderIdMap` | extends `OrderIdMap` |
| `BatchOrders` | the batch methods of both markets | |
| `BatchProofs` | theorems about `BatchOrders` | extends `BatchOrders` |
| `RestClient` | one REST exchange as operators: what is signed, which error an answer is | |
| `Endpoints` | the REST methods of all packages, one definition each | |
| `RestFlows` | a program that calls REST methods, lists pages, closes positions, cancels old orders and tries again, against an exchange | extends `RestClient`, `Endpoints` |
| `RestProofs` | theorems about what is told, signed, sent, repeated, listed, cancelled and closed | extends `RestFlows` |
| `Config` | environments and the resolution of URLs | |
| `Streams` | the root client, the stream clients of both profiles and their connections | extends `Config` |
| `StreamProofs` | theorems about `Streams` | extends `Streams` |
| `MCClient` | a root client: REST methods beside streams | extends `RestFlows`, `Streams` |
| `ClientProofs` | what is proved of either holds of the root client | extends `MCClient`, `RestProofs`, `StreamProofs` |
| `MCOrderBookEngine`, `MCBookFeed`, `MCWsConn`, `MCOrderIdMap` | constants for TLC | extend the module they name |

Operators whose comment starts with "Mutant of" are the model of a plausible bug in
the definition that follows. They are no part of any specification: substituted for
that definition, they must make a property of a run fail (`mutants` in
`PROJECT.json`).

### How state and actions correspond to the code

**OrderBookEngine.** The variables are the fields of `Engine`; `seq` and `ts` are
stamped and never read by it, and left out. Methods hold the mutex throughout, so a
method is one action. A call carries rows in any order and, for deltas, with
repeated prices. `sort.Search` is the first index at which the predicate holds. The
stable sort of a snapshot is stated by rank: the position of a row is the number of rows
that go before it, by price or, among equal prices, by where they stood. `ApplyLevels`
takes one row after the other, each on what the one before has made of the slice.

**BookFeed.** `version` and `history` are the exchange's. `wire` is what the current
socket still holds; it is lost with the socket, and no frame of an older socket is
read, because `connectAndRun` waits for its read loop. `Connect` is the block under
the mutex in `connectAndRun` (`Reset` of the registered subscription, which is
`MarkResynced(0, 0, 0)`) with the resubscription, answered by a snapshot.
`ReadSnapshot`, `ReadDelta` and `ReadGap` are the branches of
`applyOrderbookFrame`; only the read loop calls it, so it is one action. `LoseFrame`
is a frame that is never applied. One assumption is made of the exchange and named in
its guard: the first frame of a new matcher epoch is not lost to a clean engine,
since `u` alone cannot tell two epochs apart.

**WsConn.** Each goroutine has a program counter: `sup` for `supervise` and
`connectAndRun`, `reader` and `hand` for the read loop and the handler it is running,
`pinger`, and `pending[c]` for a caller that has let go of the mutex and still has to
write. Critical sections are one action each. `fed[t]` names the socket whose frames
the subscription of `t` has seen since its last `Reset`, the state that `Reset` is
there to clear. Timeouts and network errors may happen whenever the code waits.
`refused` are topics whose subscribe op the server turned down because it came before
the authentication. Sockets are named from a finite set, and a name is used again
once nobody holds it.

**OrderIdMap.** A call goes through `sent`, `answered` and, row by row under the
mutex, `returning`; between any two of these steps other callers, fills and lost
answers may come. A client order id is taken by the exchange once, which is what
Bybit documents for `orderLinkId`. Batch methods remember and forget row by row with
the same two helpers. `createdAtMs` follows `clOrdToOrd` and has no reader.

**BatchOrders.** A request is its index and whether its body builder accepts it. A
chunk is built, sent, executed or refused by the exchange, and worked off. An answer is
two lists, `result.list` with the orders and `retExtInfo.list` with the codes; either may
end early or be absent (`AnswerRows`), which is no error for the code: the row beyond it
names no order, or has code 0 (`RowOrder`, `RowCode`). The error of a chunk is the requests
it has an error of (`tells`) and the code of the first one, since that is what `errors.As`
finds; errors of body builders come first and have no code. Codes are `0`, `10001` and any
other. Every request carries a client order id, so that every accepted row that names an
order is remembered. `sent`, `done`, `verdict` and `named` are ghosts; the verdict on a
request is a code, `silent` if the answer has none for it, or `none` without an answer.

The properties keep to what the code can know. `ErrorTellsOfFailure` is about every
request: the error returned has each one that was left out, refused or in a chunk without
an answer, and no other; a silent row counts as a success, whatever the exchange did.
`CacheFollowsAcks` says that a create remembers exactly the orders that were named, all of
them placed, and that a cancel forgets exactly the requests whose row was not refused, each
executed or silent. What silent rows mean for a caller is noted in section 4.

**RestClient.** An answer is its HTTP status, whether its body is an envelope of
Bybit's, something else (a proxy's page) or cut off, and the code and the result in
the envelope. `DoKind` is `Do` from the reading of the body on, with `MapBybitCode`
and `MapHTTPStatus` code by code; `Decoded` is `UnmarshalResult`. A request is the set
of its parameters, which go into the query of a GET and into the body otherwise;
`SignPayload` chooses which of the two is signed, and the exchange computes the
signature anew from what it has received.

**Endpoints.** Every method of `linears`, `spot`, `asset`, `account`, `broker`,
`affiliate` and `premarket` validates, sends one request and decodes; the record of a
method holds what its checks refuse, its verb, whether it asks for a signature,
whether it writes, the parameter by which the exchange recognises a repetition, who
follows its cursor, and whether it decodes or wants a first row.

**RestFlows.** `job` is what the program is to do: one call of any method with any
parameters (`CallJob`), a paged listing (`PageJob`), `ClosePosition` (`CloseJob`), or
`CancelForgottenOrders` (`ForgottenJob`). `at` is where the calling goroutine is, `call`
the request and its answer. `Send` and `RefuseLocally` are the checks of a method and
`buildRequest`; `Deliver` and `GiveUp` are the two ways out of `Do`, and with it the
method does the rest in one step (`Conclude`), since it has no state to share. A write
given up before it arrived goes to `late` and may be executed at any later time.
`Retry` is the program, not the SDK: it repeats its job when `IsKind` says it was a
network error. At the exchange, `position`, `open`, `created` and `now` move while a
request is on its way, and positions at all times; that order events only happen then
loses nothing, because only an arriving request reads them. Every answer is tried on
single calls, and one refusal and one failure on the other jobs, which only look at
the kind of the error. `CancelForgottenOrders` of spot is that of linears line by line
and stands for both; `ClosePosition` is linear only. The clock of the program is fast,
or slow with an order whose creation time cannot be read.

Answers with code 0 may have no result, or one that cannot be read, on every job; a batch
cancel is answered for all of its rows, for some of them or for none; and a row of
`GetPosition` may have a side the SDK does not know, which ends `ClosePosition` with an error
(`UnknownSide`). A result that is absent is decoded to an empty page or to no position
(`internal/rest/client.go:165-167`), which the code cannot tell from a listing that ends or an
account that is flat. The ghost `blank` notes that this has happened in the current try:
`ListingIsComplete` and `NilMeansForgottenGone` do not speak of such tries, nor does the
part of `ClosedUnlessMoved` about the position itself.

**Config, Streams.** A URL is the environment it belongs to. `link` is what `WsConn`
shows of a connection: not made, made, down, up, dead (its context is done) or closed;
`Connect` is the block under the mutex with the resubscription. `hand` is the frame
whose handler the read loop is running, outside the mutex: the topic may be watched
anew, unsubscribed or closed meanwhile, and a handler that belongs to an earlier
subscription (`Detached`) no longer counts. The merge of a ticker is `merged`, and
`told` is what the exchange's ticker was when the last frame read was sent; rows are
ids with a category. `owed` are the rows pushed for a topic since its handler was
made or reset, on connections that have stayed up. On a closed connection a `Watch`
returns an error. What a closed or broken connection still does on its own is in `WsConn`.

**MCClient.** REST methods and streams share the configuration and nothing else, so a
behaviour uses one of the two and `ClientSpec` is the disjoint union of both.

## 3. Runs

| run | result | what it shows | bounds |
|---|---|---|---|
| `OrderBookEngine` | pass | slices sorted, bounded and without empty levels; `TopLevels` are the best levels; the rows of a call do to the slices what they mean for the book; every method refines `BookEngine` | 3 prices, depth 2, 3 sizes, u in 0..2, calls of up to 2 rows |
| `BookFeed` | pass | a delivered book is the exchange's book of that update; deliveries never go back; the invariant of the proof is inductive material TLC agrees with | 1 side, 2 prices, 3 updates in each of 2 epochs, 2 frames in flight |
| `WsConn` | pass | cancellation stops every goroutine; a registered topic is served in the end | 1 topic, 1 caller, public and private |
| `WsConnTopics` | pass | no topic is lost, no old state survives a reconnect, no dead socket is visible; the invariants of the proofs | 2 topics, 1 caller, public and private |
| `OrderIdMap` | pass | the two maps stay true and inverse; cancels forget no live order; the invariant of the proof | 3 client ids, 3 orders, 2 symbols, 2 callers |
| `BatchOrders` | pass | results by request, each request sent once, the error tells of every known failure, the cache follows the answers; answers that end early or are absent | up to 5 requests in chunks of 2, both markets, all methods |
| `Client` | pass | what callers are told is true; keys make writes happen once; signatures verify; listings are complete; old orders go and young ones stay; closing closes and never opens; every job returns; tickers are whole, rows reach their handler and no other, silence after `Unsubscribe`; keys stay in their environment | 2 tries; positions up to 2 and 1 trade; 3 orders in pages of 2 and batches of 2; ages around 1 with a skew of 1; 2 pushes, 2 calls of `Watch`, 1 break, 2 ticker fields, 11 sets of topics |
| `BookFeedGap` | violation | a gap is not repaired on a connection that stays up | as `BookFeed`, 1 epoch |
| `BookFeedTrimmed` | violation | a snapshot cut to a local depth below the topic's: a later update removes what is left, and the book delivered lacks a level the exchange has | local depth 1, topic depth 2 |
| `WsConnClosed` | violation | closed before `Start`, the supervisor runs for good | 1 topic, 1 caller, public |
| `OrderIdMapSync` | violation | a sync drops ids of live orders | as `OrderIdMap`, 1 caller |
| `BatchOrdersRefused` | violation | a refused spot amend batch returns no error | up to 3 requests in chunks of 2 |

Why the bounds are enough for the cases that matter:

- depth 2 against 3 prices pushes levels out of the book and lets them return; a call
  of 2 rows has both orders and a repeat of one price; sides share their code but for
  the comparator, so bids get the larger calls;
- 2 frames in flight and 3 updates allow a loss between two deltas, a snapshot
  overtaken by an update, and a reconnect with frames pending; 2 epochs allow a delta
  of a new epoch that fits the old `u` by chance;
- with 2 topics the resubscription can be interrupted half way. One caller, because
  two callers that write in another order than they registered can lose a topic by
  that alone (see hazards); the liveness run has one topic since the topics do not
  depend on each other there;
- 3 orders in pages of 2 are a full page and a short one, or a full last page with or
  without a cursor; the order numbered last may be created and any be filled between
  the two, and 3 orders to cancel are two batches, of which one may fail; 2 tries
  let the request of the first arrive during or after the second; ages 0 to 2
  around an age of 1 and a skew of 1 have orders on both sides of every threshold;
- 2 pushes of up to two rows, 2 watches and 1 break allow a frame in hand while its
  topic is watched anew, a delta after a reconnect, and rows on both connections; the
  sets of topics have every topic of both profiles, and pairs where one connection, one
  topic of two profiles or two connections matter;
- 5 requests in chunks of 2 are two full chunks and a short one; invalid rows may be
  anywhere.

`CHECK_DEADLOCK FALSE` is set for `BatchOrders` and `BatchOrdersRefused`, where a call that has returned does nothing more, and for `Client`, where a job that has returned and streams whose counts
of pushes, watches and breaks are used up stop.

### Fairness

`BookFeed!FairSpec`: the read loop reads what the socket holds, and the supervisor
redials. Nothing forces the exchange to send. The counterexample of `BookFeedGap`
therefore is not one of a lazy SDK: it is a live connection on which everything is
read.

`WsConn!FairSpec`: weak fairness of the goroutines, since every blocking call of them
has a timeout (`HandshakeTimeout`, `AuthTimeout`, `ReadTimeout`, the sleep) or is
ended by the context; the ping loop ends once its context is done. Strong fairness of
the successful outcome of dial, publication, authentication and resubscription: a
network that fails for ever serves nobody, so liveness is claimed for one that lets
each of these succeed again and again. No fairness for callers to call, for the
server to push or for the network to break.

`RestFlows!RestFairness`: weak fairness of `Send`, `RefuseLocally` and of
`Deliver \/ GiveUp`: a goroutine that may run does, and `Do` returns because
`http.Client` has a timeout. The exchange owes no answer, so `EveryJobReturns` holds
for one that never gives any.

## 4. Findings

Each is the counterexample of a `violation` run; `PROJECT.json` quotes the lines.

1. `GapIsRepaired`: after a gap nobody resubscribes; the doc of the engine says M3
   wires this. The book stays dirty until the connection happens to break.
2. `DeliveredIsExchangeBook` with `MaxDepth` below the topic's depth (the default 200
   against `orderbook.500`): levels cut off are missing later, without a gap. In the run
   two levels exist before the topic is watched, `copyLevelsSortedDesc` cuts the snapshot to
   the better one, and the next update removes it: the book delivered is empty, that of the
   exchange is not.
3. `CloseStops`: `Close` before `Start` cannot cancel what does not exist yet, and
   `Start` does not look at `closed`.
4. `OnlyStaleIsDropped`: `SyncOrderMappings` of one symbol sweeps the whole cache.
5. `NilErrorMeansDone`: a spot amend chunk refused as a whole with 10001, which is
   also Bybit's code for wrong parameters, is filtered out of the error.

Noted while modelling, without a run of their own: a private `Subscribe` during the
authentication is refused and forgotten until the next reconnect (the exception in
`RegistryIsServedOrRefused`); `errHandler` is called for every delta of a gap, not
once (`linears/stream.go:134-136`); rows of a chunk that was never executed have
`Code` 0 and are `IsOK`, as are rows for which `retExtInfo.list` has no entry or that are
answered without `retExtInfo` (`linears/trading.go:363-368`, 929-939, "not an error"), of which
the error does not tell either and whose ids a batch cancel forgets: `result.list`, which
names the orders, is not asked; validation errors of a chunk are dropped from the error when
its call fails; the backoff is not reset by a connection that worked; the context of
the first `Watch` rules the connection for good; entries of filled orders, and
of orders cancelled before the answer to their create is worked off, stay in the id cache
until a sync.

Of the REST methods and streams: `ErrSignerDisabled`, which `client.go:184`,
`config.go:415` and `linears/account.go:28` promise for private calls without keys,
never comes back from a REST call: the request goes out unsigned and the exchange
refuses it (`Signature`). `spot/trading.go:142` calls `ModifyOrder` symmetric to the
linear one, which has no path for 10001 (`Told`); a spot amendment refused with 10001
as wrong is a success to its caller, the exception in `ToldTheTruth`. `IsKind` of a
joined error sees the first part only, so a program that retries by it does not retry a
batch whose first chunk was refused and whose second was lost. Code 0 without a result is
an empty page, no position or an empty record to the caller (`internal/rest/client.go:165`).
Code 10000, a timeout
of the server, is not listed and classified as `Exchange`; the exchange of the model
answers with the codes the client lists, since nothing in this repository says what
Bybit does with a request it answers that way. A
`ClosePosition` with index 0 on a hedge account closes one leg, and a repetition after
a lost answer the other too (`ClosedUnlessMoved` speaks of the first try there). A
second `WatchTicker` of a live topic may get deltas without a snapshot and shows a
partial ticker. A sub-client asked for before its package is registered is nil for
good. `StreamClient.Close` may miss a connection that another goroutine has just made.

## 5. Proofs

`OrderBookProofs` is about the engine as it is written, for any prices and sizes, any depth
and calls of any rows (`OrderBookAssumption`, that the constants have their types):

- `EngineTypeCorrect` and `SidesStaySorted`: `Spec => []TypeOK` and `Spec => []SortedSides`;
  their conjunction `EngineInv` is inductive, the one because of the other: binary search
  finds the place of a price only in a sorted slice;
- `RowsAlwaysMeanBooks`: `Spec => []RowsMeanBooks`. What inserting, replacing and removing at
  the index found do to the slice is what the row means for the book (`RowIsApplied`), and
  so for all rows of a call, one after the other (`RowsAreApplied`); a snapshot is sorted by
  ranks, which every index has exactly one of (`RanksAreFilled`, by counting), so nothing
  is lost or doubled (`SortedCopy`);
- `TopLevelsAlwaysBest`: `Spec => []TopLevelsAreBest`. Of a sorted slice the first n levels
  are the n best of the book (`CutKeepsBest`), since as many levels are ahead of the i-th
  as there are indices below i;
- `EngineRefinesBook`: `Spec => RefinesBookEngine`. Every method, on the slices, is the
  method of the same name of `BookEngine` on the books that the slices are, or a step that
  changes nothing.

`BookFeedProofs` proves, for every set of prices and sizes, every depth, any number
of epochs and updates and any length of the wire:

- `TypeCorrect`: `Spec => []TypeOK`;
- `FeedInvariant`: `WireDepth <= MaxDepth => (Spec => []FeedInv)`;
- `DeliveredIsCorrect`: under the same condition, `[]DeliveredIsExchangeBook`;
- `DeliveryMovesForward`: under the same condition, `DeliveredMovesForward`.

The assumptions are `BookAssumption`, `EngineAssumption` and `FeedAssumption`, that
the constants have their types. The condition on the depths is needed: finding 2 is
what happens without it.

`DeliveredIsExchangeBook` is not inductive: a step that applies a delta must know that
the engine's levels are the exchange's book of the update before, that the delta is
the change from there, and that the delta is of the same epoch. `FeedInv` says so:
frames carry their book or their change (`WireCarriesHistory`), they are in order and
none is older than the engine or the last delivery (`WireIsOrdered`), an engine that
would deliver holds the book of its version (`EngineHoldsHistory`), and between it and
any frame of another epoch there is a frame that makes it notice, a snapshot or a
delta with u = 1 (`EpochsAreAnnounced`). The proof goes action by action; its lemmas
are about books (`Override` of a `Diff`, `KeepBest` of a book that is within the
depth), about the order of versions and about appending to and taking from the wire.

`OrderIdMapProofs` proves, for any number of callers, orders and symbols:

- `IdTypeCorrect` and `IdInvariant`: `Spec => []TypeOK` and `Spec => [](TypeOK /\ IdInv)`;
- `CacheIsCorrect`: `Spec => []CacheIsConsistent`;
- `CancelsForgetOnlyDone`: `Spec => CancelForgetsOnlyDone`.

The assumption is `IdAssumption`. `CacheIsConsistent` is not inductive, since the next
answer to be worked off could carry anything: `IdInv` adds that every row that waits
in some caller is true of an order of the exchange, by both of its ids or, to be
forgotten, by one (`RowsAreTrue`), that a client order id is taken once, that live
orders were placed, and that a cancel carries exactly one id. A row stays true because
orders keep their ids and do not come back to life (`PlacedStays`, `DoneStays`).

`WsConnProofs` proves, for any number of topics, callers and sockets:

- `ConnTypeCorrect`: `Spec => []TypeOK`; that a name for a new socket is left follows
  from `ConnAssumption`, more names than callers and subscriptions that can hold one;
- `ConnInvariant`: `Spec => []ConnInv`, and from it `PublishedSocketIsCorrect` and
  `ResetIsBeforeFrames`;
- `RegistryInvariant` and `RegistryIsCorrect`: for one caller (`OneCaller`),
  `Spec => []RegistryInv` and `Spec => []RegistryIsServedOrRefused`.

`ConnInv` ties the program counter of the supervisor to the sockets: which states own
a socket, that it is shown unless the connection was closed, that the loops only run
in state `run`, and that all subscriptions were reset or made since publication.
`RegistryInv` says where a topic is while it is not yet pushed: in `todo` of the
supervisor or in the write that a caller owes on this very socket. `OneCaller` is
needed: of two callers, one may write its unsubscribe after the other's later
subscribe.

`BatchProofs` proves all five properties of `BatchOrders` for any number of requests and
any size of the chunks (`BatchAssumption`): `BatchTypeCorrect`, `ResultsMatchRequests`,
`BatchSendsOnce`, `BatchErrorIsTrue` and `BatchCacheFollows`, each `Spec => []` the
property. None is inductive alone; `CallInv` is the conjunction of

- `PlaceInv`: there are as many results as the chunks before had requests;
- `SentInv`: what was sent are the valid requests up to the end of the current chunk;
- `AnswerInv` and `VerdictInv`: the answer that is worked off is about this chunk, either
  list only as far as it goes, and nothing was said of later ones;
- `MatchInv`, `CacheInv` and `ErrInv`: results, cache and errors so far say what the
  answers have said of the chunks before, silence included.

That rows and requests of a chunk are paired one to one (`RowsAreKept`) follows from
`keptIdx` being increasing, hence injective, and by counting onto. `ChunkIsOver` and
`AfterChunk` do the end of a chunk once for the three ways it may come about.

`RestProofs` is about `RestSpec`, for any numbers of tries, trades, orders, rows of a page
and of a batch, any sizes, ages, skew and times (`RestAssumption`):

- `TellsTheTruth`: `RestSpec => []ToldTheTruth`. The request on its way is the one the job
  is at (`OpInv`), and an answer on its way is about what was
  done (`AnswerInv`); that no answer the exchange gives in doubt is told as a refusal
  or as success (`FailuresLeaveOpen`, `RefusedIsNotToldOK`, `CutIsNetwork`) goes through
  every case of `DoKind` and `Told`;
- `OnlyOldOrdersGo`: `RestSpec => OnlyForgottenCancelled`. Orders in `todo`, in the
  request and in late requests are old enough (`ForgottenInv`), and stay so since time
  moves forward (`OldStays`);
- `ClosingNeverOpens`: `RestSpec => CloseNeverOpens`. Every order of `ClosePosition`, on
  its way or late, is reduce-only (`HarmlessInv`), and such an order is harmless to any
  position (`HarmlessOrder`);
- `ClosingCloses`: `RestSpec => []ClosedUnlessMoved`. What is known changes hands four times:
  an answer in hand has positions that the account's are within, as long as nobody has
  traded (`ReadInv`); the chosen row has its size from there; the order carries it
  (`WaitInv`), and leaves nothing if it is executed (`OrderCloses`); nothing stays nothing
  (`ClosedInv`), because late orders of earlier tries only shrink (`OrderShrinks`) what they
  are aimed at (`AimInv`). Nobody has traded and no answer was blank is `Steady`. `LedgerInv` compares with the positions at the start: without
  trades only legs that an order was aimed at have changed;
- `ListingsAreComplete` and `NilLeavesNoneForgotten`: the orders that last are in `got`
  up to the cursor (`PagesInv`), since a page is a prefix of what is left
  (`PageIsPrefix`) and a short one all of it (`ShortPageIsAll`), by the least
  order that would be missing; what a batch confirmed is gone (`BatchInv`), and `DoneInv` says
  what is known once the job has returned;
- `RequestsVerify`: `RestSpec => []OwnRequestsVerify`. What is on its way carries the
  signature of what is sent if its method is private (`SignInv`), method by method;
- `KeysMakeOnce`: `RestSpec => []KeyedOnce`. A repetition carries the parameters of the
  job, so its key as well (`KeyInv`);
- `RestTypeCorrect`: `RestSpec => []RestTypeOK`. The bounds of positions follow from
  `HarmlessInv`, the numbers of orders from `ForgottenInv`, the rest from itself.

`StreamProofs` is about `StreamSpec`, for any fields, counts and sets of topics
(`StreamAssumption`, `WatchAssumption`):

- `KeysAreAtHome`: `StreamSpec => []KeysStayAtHome`, from what `WithDefaults` makes of any
  configuration and that a private connection comes up with keys only;
- `UnsubscribedTopicsAreQuiet`: `StreamSpec => UnsubscribedIsQuiet`. What a registry or a
  handler in hand has is wanted, because `Unsubscribe` looks on the connection the
  topic was watched on (`WatchIsRouted`);
- `TickersAreWhole`: `StreamSpec => []TickerIsWhole`. The ticker frames in hand and on their
  way form a chain without a gap from what the handler was last told to the exchange's
  ticker (`TickerInv`): what a frame leaves out is as the frame before it told (`Unbroken`),
  and a snapshot leaves nothing out. A break of the connection empties the chain, and a
  new one begins with a snapshot;
- `RowsReachTheirHandlers`: `StreamSpec => []RowsReachTheirWatch`. The rows a handler has
  heard, followed by those of its category in hand and on the wire, are the rows owed to
  it (`RowsInv`);
- `StreamTypeCorrect`: `StreamSpec => []StreamTypeOK`.

The last three are inductive together with `QuietInv` and the types. They rest on what
`FlattenSeq` makes of a sequence that grows at one end and shrinks at the other
(`OwedAppend` and its like).

`ClientProofs` puts the two together: a behaviour of `ClientSpec`, which the run `Client`
checks, is one of `RestSpec` and one of `StreamSpec`, since a step of the one leaves the
variables of the other alone (`ClientIsBoth`). So all invariants and action properties of
that run are theorems about `ClientSpec`, `ClientTypeCorrect` among them.

Lemmas about sequences and finite sets of any length cannot use the induction theorems of
the library, which take an operator; they are proved by the least counterexample
(`LeastExists`, `LeastIndexExists`).

Model-checked only: all liveness (`CancelStops`, `SubscriptionIsServed`,
`EveryJobReturns`), which the proof system cannot treat, as it knows no fairness and no
`ENABLED`. Every other property of a passing run is the subject of a theorem. What the
runs show beside the proofs is that the premises are met: that the cases the theorems
speak of do happen, and that a bug in the code they are about would be seen.

## 6. Not modelled, and why

- The conversions of `internal/v5common` and the precision helpers: functions of one
  string or number, which table tests cover. Malformed rows of an order book frame are
  decoded to size zero and so remove a level (`internal/v5common/parse.go`); the feed of
  the model sends well-formed rows. Rows of REST results that cannot be read are
  skipped; the model's rows can be, but for creation times.
- The HMAC of a signature, and the clock of `recvWindow`: it bounds how late a given up
  request may still be accepted, while the model lets it come at any time.
- Defaults of timeouts and sizes in `withDefaults`, which are fields set if they are
  zero, and the URLs of inverse and option streams, which no client connects to.
- Page sizes that are clamped, optional parameters that are passed on, and the
  conversion of results field by field.
- Frames of tickers and rows that cannot be parsed: they are logged and dropped.
- Rate limit headers, observers, logging, metrics, codec, examples: output only.
- That two goroutines may be in a factory or an accessor at once: `sync.Once` is taken
  for what it promises.

## 7. Plan

Done: order book engine, feed, connection, id cache, batch orders, REST client and every
REST method, listings and read-then-act methods, configuration and streams; every safety
property of them that is checked is proved too.

Next:

1. `WsConn` with two callers and per-subscription identity, and its composition with
   `BookFeed` and `Streams`.
2. `BookFeed` over `OrderBookEngine` instead of `BookEngine`, by the refinement that is
   proved of the engine.
