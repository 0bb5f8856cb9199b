------------------------------- MODULE Streams -------------------------------
(***************************************************************************)
(* The stream clients of the linear and the spot profile: each has a       *)
(* public and a private connection of its own, made when it is first       *)
(* needed, on which it watches topics. The exchange pushes tickers as a    *)
(* snapshot and the changes to it, trades and candles as rows, and what    *)
(* happens to the account as rows of every category on every private       *)
(* connection.                                                             *)
(*                                                                         *)
(* A connection is what WsConn shows of it: it is up or not, and when it   *)
(* comes up, what the registry holds is reset and subscribed again. What   *)
(* is sent on it arrives in order, until it breaks. Order books are in     *)
(* BookFeed.                                                               *)
(***************************************************************************)
EXTENDS Config, Integers, Sequences, FiniteSets, SequencesExt

CONSTANTS
    Watches,    \* sets of profiles with a topic, what a program may watch
    Field,      \* fields of a ticker
    Fresh,      \* a field of a ticker that was never set
    MaxPushes,  \* frames of the exchange at most, beside snapshots
    MaxWatches, \* calls of Watch methods at most
    MaxDrops    \* broken connections at most

ASSUME StreamAssumption ==
    /\ MaxPushes \in Nat /\ MaxWatches \in Nat /\ MaxDrops \in Nat
    /\ IsFiniteSet(Field) /\ Field # {}
    /\ Fresh \notin Nat

VARIABLES
    config,     \* of the root client, as resolved
    given,      \* ... and as the program has given it
    watch,      \* what the program may watch in this behaviour
    clients,    \* profiles whose client the program has got from the root client
    factories,  \* profiles whose package the program imports
    link,       \* state of each connection
    subs,       \* topics in the registry of each connection
    server,     \* topics the exchange pushes on each connection
    wire,       \* frames on their way to the client
    hand,       \* the frame whose handler each read loop runs
    ticker,     \* exchange: the ticker of each profile
    merged,     \* the ticker of each profile as its handler holds it
    told,       \* what the exchange's ticker was when the last frame was sent
    whole,      \* the handler has read a snapshot since it was made or reset
    heard,      \* rows each handler was called with
    owed,       \* ghost: rows pushed for it since then on a connection that is still up
    wanted,     \* ghost: topics the program has watched and not unsubscribed
    pushes,     \* frames the exchange will still push, beside snapshots
    watchCalls, drops

clientVars == <<config, given, watch, clients, factories>>

tickerVars == <<merged, told, whole>>

rowVars == <<heard, owed>>

countVars == <<pushes, watchCalls, drops>>

streamVars == <<clientVars, link, subs, server, wire, hand, ticker, tickerVars, rowVars, wanted,
                countVars>>

Profile == {"linear", "spot"}

PrivateTopic == {"order", "position", "execution", "wallet"}

Topic == {"tickers", "publicTrade", "kline"} \union PrivateTopic

ASSUME WatchAssumption == Watches \subseteq SUBSET (Profile \X Topic)

\* Topics whose rows belong to a category; a wallet is that of the account.
Categorised == {"order", "position", "execution"}

\* Categories of rows; some rows come without one.
NoCategory == ""

Category == {"linear", "spot", NoCategory}

Connection == Profile \X {"public", "private"}

NoTicker == [f \in Field |-> Fresh]

\* No frame is in the hands of a handler.
Idle == [topic |-> "none"]

-------------------------------------------------------------------------------
(* The root client and the connections of a profile.                       *)

URLOf(c) ==
    config.url[IF c[2] = "private" THEN "private"
               ELSE IF c[1] = "linear" THEN "publicLinear" ELSE "publicSpot"]

StreamInit ==
    /\ given \in GivenConfig
    /\ config = WithDefaults(given)
    /\ watch \in Watches
    /\ factories \in SUBSET Profile
    /\ clients = {}
    /\ link = [c \in Connection |-> "none"]
    /\ subs = [c \in Connection |-> {}]
    /\ server = [c \in Connection |-> {}]
    /\ wire = [c \in Connection |-> <<>>]
    /\ hand = [c \in Connection |-> Idle]
    /\ ticker = [p \in Profile |-> [f \in Field |-> 0]]
    /\ merged = [p \in Profile |-> NoTicker]
    /\ told = [p \in Profile |-> NoTicker]
    /\ whole = [p \in Profile |-> FALSE]
    /\ heard = [w \in watch |-> <<>>]
    /\ owed = [w \in watch |-> <<>>]
    /\ wanted = {}
    /\ pushes \in {0, MaxPushes}
    /\ watchCalls = 0
    /\ drops = 0

StreamTypeOK ==
    /\ config.url \in [Place -> {"production", "testnet", "demo", Own}]
    /\ clients \in SUBSET factories
    /\ link \in [Connection -> {"none", "made", "down", "up", "dead", "closed"}]
    /\ subs \in [Connection -> SUBSET Topic]
    /\ server \in [Connection -> SUBSET Topic]
    /\ \A c \in Connection : link[c] # "up" => server[c] = {} /\ wire[c] = <<>>
    /\ \A c \in Connection : hand[c].topic \in subs[c] \union {Idle.topic}
    /\ \A p \in Profile :
           /\ merged[p] \in [Field -> Nat \union {Fresh}]
           /\ told[p] \in [Field -> Nat \union {Fresh}]
    /\ wanted \in SUBSET watch
    /\ heard \in [watch -> Seq(Nat)] /\ owed \in [watch -> Seq(Nat)]

\* Client.Linears, Client.Spot: the client of a profile is made once, if there is one.
Accessor(p) ==
    /\ p \in factories \ clients
    /\ clients' = clients \union {p}
    /\ UNCHANGED <<config, given, watch, factories, link, subs, server, wire, hand, ticker,
                   tickerVars, rowVars, wanted, countVars>>

\* Mutant of Route: the routing forgets the wallet.
RouteForgetful(t) == IF t \in PrivateTopic \ {"wallet"} THEN "private" ELSE "public"

\* isPrivateLinearTopic: where Unsubscribe looks for a topic.
Route(t) == IF t \in PrivateTopic THEN "private" ELSE "public"

-------------------------------------------------------------------------------
(* Frames.                                                                 *)

SnapshotOf(p) ==
    [topic |-> "tickers", fields |-> ticker[p], snapshot |-> TRUE, truth |-> ticker[p]]

\* The exchange starts a subscription to a ticker with a snapshot.
First(p, topics) == IF "tickers" \in topics THEN <<SnapshotOf(p)>> ELSE <<>>

Foreign(p, category) == category \in Profile \ {p}

\* Mutant of Rows: the first row of another category ends the frame.
RowsUntilForeign(p, frame) ==
    LET foreign == {i \in DOMAIN frame.rows : Foreign(p, frame.rows[i].category)}
    IN  IF frame.topic \in Categorised /\ foreign # {}
        THEN SubSeq(frame.rows, 1, (CHOOSE i \in foreign : \A j \in foreign : i <= j) - 1)
        ELSE frame.rows

\* The rows at these positions, in order.
Kept(rows, keep) == FlattenSeq([i \in DOMAIN rows |-> IF i \in keep THEN <<rows[i]>> ELSE <<>>])

\* The rows of a frame a handler is called with.
Rows(p, frame) ==
    IF frame.topic \in Categorised
    THEN Kept(frame.rows, {i \in DOMAIN frame.rows : ~ Foreign(p, frame.rows[i].category)})
    ELSE frame.rows

\* Every topic has its connection; a Watch method knows which.
ConnectionOf(w) == <<w[1], IF w[2] \in PrivateTopic THEN "private" ELSE "public">>

Ids(rows) == [i \in DOMAIN rows |-> rows[i].id]

\* Rows on their way that the handler of a topic is owed.
RowsOf(w, frame) ==
    Ids(Kept(frame.rows, {i \in DOMAIN frame.rows :
        w[2] \in Categorised => frame.rows[i].category \in {w[1], NoCategory}}))

\* Frames that are not of the topic owe nothing, nor do tickers.
Owed(w, frames) ==
    FlattenSeq([i \in DOMAIN frames |->
        IF frames[i].topic = w[2] /\ w[2] # "tickers" THEN RowsOf(w, frames[i]) ELSE <<>>])

\* What is left to be done with the frame in hand once its subscription is not the one
\* of its topic any more: the handler that is called is one nobody watches.
Detached(c, t) == hand' = IF hand[c].topic = t THEN [hand EXCEPT ![c] = Idle] ELSE hand

-------------------------------------------------------------------------------
(* The stream clients.                                                     *)

\* The handler of a topic is a new one, which has read nothing.
Renew(p, t, frames) ==
    /\ IF t = "tickers"
       THEN /\ merged' = [merged EXCEPT ![p] = NoTicker]
            /\ told' = [told EXCEPT ![p] = NoTicker]
            /\ whole' = [whole EXCEPT ![p] = FALSE]
            /\ UNCHANGED rowVars
       ELSE /\ heard' = [heard EXCEPT ![<<p, t>>] = <<>>]
            /\ owed' = [owed EXCEPT ![<<p, t>>] = Owed(<<p, t>>, frames)]
            /\ UNCHANGED tickerVars

\* A Watch method: the connection is made and started if it was not, the topic registered,
\* and subscribed if the connection is up. The exchange may answer a topic it pushes
\* already with an error, and send no snapshot. A private topic is refused without keys,
\* and any topic on a connection that was closed.
Watch(c, t) ==
    LET p == c[1]
    IN  /\ watchCalls < MaxWatches
        /\ watchCalls' = watchCalls + 1
        /\ p \in clients /\ <<p, t>> \in watch
        /\ c[2] = "private" => config.keys
        /\ link[c] # "closed"
        /\ link' = [link EXCEPT ![c] = IF @ \in {"none", "made"} THEN "down" ELSE @]
        /\ subs' = [subs EXCEPT ![c] = @ \union {t}]
        /\ IF link[c] = "up"
           THEN /\ server' = [server EXCEPT ![c] = @ \union {t}]
                /\ \E answer \in IF t \in server[c] THEN {<<>>, First(p, {t})}
                                                    ELSE {First(p, {t})} :
                        wire' = [wire EXCEPT ![c] = @ \o answer]
           ELSE UNCHANGED <<server, wire>>
        /\ Detached(c, t)
        /\ Renew(p, t, wire[c])
        /\ wanted' = wanted \union {<<p, t>>}
        /\ UNCHANGED <<clientVars, ticker, pushes, drops>>

WatchTicker == Watch(<<"linear", "public">>, "tickers")

WatchTrades == Watch(<<"linear", "public">>, "publicTrade")

WatchKline == Watch(<<"linear", "public">>, "kline")

WatchOrders == Watch(<<"linear", "private">>, "order")

WatchPositions == Watch(<<"linear", "private">>, "position")

WatchExecutions == Watch(<<"linear", "private">>, "execution")

WatchWallet == Watch(<<"linear", "private">>, "wallet")

SpotWatchTicker == Watch(<<"spot", "public">>, "tickers")

SpotWatchTrades == Watch(<<"spot", "public">>, "publicTrade")

SpotWatchKline == Watch(<<"spot", "public">>, "kline")

SpotWatchOrders == Watch(<<"spot", "private">>, "order")

SpotWatchExecutions == Watch(<<"spot", "private">>, "execution")

SpotWatchWallet == Watch(<<"spot", "private">>, "wallet")

\* Unsubscribe makes the connection of the topic if there is none, and does not start it.
Unsubscribe(t) ==
    LET c == <<"linear", Route(t)>>
    IN  /\ "linear" \in clients /\ <<"linear", t>> \in watch
        /\ link' = [link EXCEPT ![c] = IF @ = "none" THEN "made" ELSE @]
        /\ subs' = [subs EXCEPT ![c] = @ \ {t}]
        /\ server' = [server EXCEPT ![c] = @ \ {t}]
        /\ Detached(c, t)
        /\ wanted' = wanted \ {<<"linear", t>>}
        /\ UNCHANGED <<clientVars, wire, ticker, tickerVars, rowVars, countVars>>

\* Nothing more is pushed on a connection; what it had on its way is lost.
Silenced(cs) ==
    /\ server' = [c \in Connection |-> IF c \in cs THEN {} ELSE server[c]]
    /\ wire' = [c \in Connection |-> IF c \in cs THEN <<>> ELSE wire[c]]
    /\ owed' = [w \in watch |->
                    IF ConnectionOf(w) \in cs
                    THEN heard[w] \o Owed(w, <<hand[ConnectionOf(w)]>>)
                    ELSE owed[w]]

\* Close reads the connections without the Once that makes them: it may miss one that
\* another goroutine has made.
Close(p) ==
    /\ p \in clients
    /\ \E seen \in SUBSET {c \in Connection : c[1] = p /\ link[c] \notin {"none", "closed"}} :
          /\ link' = [c \in Connection |-> IF c \in seen THEN "closed" ELSE link[c]]
          /\ Silenced(seen)
    /\ UNCHANGED <<clientVars, subs, hand, ticker, tickerVars, heard, wanted, countVars>>

-------------------------------------------------------------------------------
(* Connections.                                                            *)

\* The connection comes up: Reset for every topic of the registry, which are then
\* subscribed. The handlers of rows have no Reset.
Connect(c) ==
    LET p == c[1]
    IN  /\ link[c] = "down" /\ hand[c] = Idle
        /\ link' = [link EXCEPT ![c] = "up"]
        /\ server' = [server EXCEPT ![c] = subs[c]]
        /\ wire' = [wire EXCEPT ![c] = First(p, subs[c])]
        /\ IF "tickers" \in subs[c] THEN Renew(p, "tickers", <<>>)
                                    ELSE UNCHANGED <<tickerVars, rowVars>>
        /\ UNCHANGED <<clientVars, subs, hand, ticker, wanted, countVars>>

Break(c) ==
    /\ drops < MaxDrops
    /\ drops' = drops + 1
    /\ link[c] = "up"
    /\ link' = [link EXCEPT ![c] = "down"]
    /\ Silenced({c})
    /\ UNCHANGED <<clientVars, subs, hand, ticker, tickerVars, heard, wanted, pushes, watchCalls>>

\* The context of the first Watch is done: the connection is not made up any more.
ContextDone(c) ==
    /\ drops < MaxDrops
    /\ drops' = drops + 1
    /\ link[c] \in {"down", "up"}
    /\ link' = [link EXCEPT ![c] = "dead"]
    /\ Silenced({c})
    /\ UNCHANGED <<clientVars, subs, hand, ticker, tickerVars, heard, wanted, pushes, watchCalls>>

\* Mutant of MergeTicker: a field that is left out is taken for one that is gone.
MergeTickerGone(held, fields) == [f \in Field |-> IF f \in DOMAIN fields THEN fields[f] ELSE Fresh]

\* mergeTickerUpdate: a field that is left out has not changed.
MergeTicker(held, fields) == [f \in Field |-> IF f \in DOMAIN fields THEN fields[f] ELSE held[f]]

\* The same for spot, whose ticker has other fields.
SpotMergeTicker(held, fields) ==
    [f \in Field |-> IF f \in DOMAIN fields THEN fields[f] ELSE held[f]]

HandleTicker(p, frame) ==
    LET held == IF frame.snapshot THEN NoTicker ELSE merged[p]
    IN  /\ merged' = [merged EXCEPT ![p] = IF p = "linear" THEN MergeTicker(held, frame.fields)
                                           ELSE SpotMergeTicker(held, frame.fields)]
        /\ told' = [told EXCEPT ![p] = frame.truth]
        /\ whole' = [whole EXCEPT ![p] = @ \/ frame.snapshot]
        /\ UNCHANGED rowVars

HandleRows(p, frame) ==
    /\ heard' = [heard EXCEPT ![<<p, frame.topic>>] = @ \o Ids(Rows(p, frame))]
    /\ UNCHANGED <<tickerVars, owed>>

\* The read loop finds the handler of a frame, or drops the frame.
Read(c) ==
    LET frame == Head(wire[c])
    IN  /\ wire[c] # <<>> /\ hand[c] = Idle
        /\ wire' = [wire EXCEPT ![c] = Tail(@)]
        /\ hand' = [hand EXCEPT ![c] = IF frame.topic \in subs[c] THEN frame ELSE Idle]
        /\ UNCHANGED <<clientVars, link, subs, server, ticker, tickerVars, rowVars, wanted,
                       countVars>>

\* ... and calls it, whatever has become of the connection.
Handle(c) ==
    /\ hand[c] # Idle
    /\ hand' = [hand EXCEPT ![c] = Idle]
    /\ IF hand[c].topic = "tickers" THEN HandleTicker(c[1], hand[c])
                                    ELSE HandleRows(c[1], hand[c])
    /\ UNCHANGED <<clientVars, link, subs, server, wire, ticker, wanted, countVars>>

-------------------------------------------------------------------------------
(* The exchange.                                                           *)

\* A ticker changes in some fields, which a delta tells of.
ChangeTicker(p, changed) ==
    LET c     == <<p, "public">>
        after == [f \in Field |-> IF f \in changed THEN ticker[p][f] + 1 ELSE ticker[p][f]]
        delta == [topic |-> "tickers", fields |-> [f \in changed |-> after[f]],
                  snapshot |-> FALSE, truth |-> after]
    IN  /\ pushes > 0 /\ <<p, "tickers">> \in watch
        /\ pushes' = pushes - 1
        /\ ticker' = [ticker EXCEPT ![p] = after]
        /\ wire' = [wire EXCEPT ![c] = IF "tickers" \in server[c] THEN Append(@, delta) ELSE @]
        /\ UNCHANGED <<clientVars, link, subs, server, hand, tickerVars, rowVars, wanted,
                       watchCalls, drops>>

\* Rows are pushed on every connection that has subscribed to their topic.
PushRows(t, categories) ==
    LET frame == [topic |-> t,
                  rows |-> [i \in DOMAIN categories |->
                               [id |-> 2 * pushes - i, category |-> categories[i]]]]
        to(p) == {c \in Connection : c[1] = p /\ t \in server[c]}
    IN  /\ pushes > 0 /\ \E w \in watch : w[2] = t
        /\ pushes' = pushes - 1
        /\ wire' = [c \in Connection |-> IF t \in server[c] THEN Append(wire[c], frame)
                                                            ELSE wire[c]]
        /\ owed' = [w \in watch |-> IF w[2] = t /\ to(w[1]) # {} THEN owed[w] \o RowsOf(w, frame)
                                    ELSE owed[w]]
        /\ UNCHANGED <<clientVars, link, subs, server, hand, ticker, tickerVars, heard, wanted,
                       watchCalls, drops>>

\* One row, or rows of two categories at once.
Categories(t) ==
    IF t \in Categorised
    THEN {<<a>> : a \in Category} \union {<<"linear", "spot">>, <<"spot", "linear">>}
    ELSE {<<NoCategory>>}

StreamNext ==
    \/ \E p \in Profile : Accessor(p) \/ Close(p)
    \/ WatchTicker \/ WatchTrades \/ WatchKline
    \/ WatchOrders \/ WatchPositions \/ WatchExecutions \/ WatchWallet
    \/ SpotWatchTicker \/ SpotWatchTrades \/ SpotWatchKline
    \/ SpotWatchOrders \/ SpotWatchExecutions \/ SpotWatchWallet
    \/ \E t \in Topic : Unsubscribe(t)
    \/ \E c \in Connection : Connect(c) \/ Break(c) \/ ContextDone(c)
    \/ \E c \in Connection : Read(c) \/ Handle(c)
    \/ \E p \in Profile, changed \in (SUBSET Field) \ {{}} : ChangeTicker(p, changed)
    \/ \E t \in Topic \ {"tickers"} : \E categories \in Categories(t) : PushRows(t, categories)

StreamSpec == StreamInit /\ [][StreamNext]_streamVars

-------------------------------------------------------------------------------
(* Properties.                                                             *)

\* Once its handler has read a snapshot, a ticker is what the exchange's was when the last
\* frame was sent, and what it is if nothing is on its way: no change is lost, none is
\* mixed with those of an earlier connection or subscription. (WatchTicker; a second Watch
\* of a live topic may get no snapshot, and then has part of a ticker.)
TickerIsWhole ==
    \A p \in Profile :
        LET c       == <<p, "public">>
            current == "tickers" \in subs[c] \intersect server[c] /\ wire[c] = <<>>
                           /\ hand[c] = Idle
        IN  whole[p] => merged[p] = told[p] /\ (current => merged[p] = ticker[p])

\* What happens to the account reaches the handler of its profile: every row of its
\* category or of none once, in the order it was pushed, no row of another category; rows
\* are missing only if the connection broke while they were on their way. (WatchOrders and
\* the other Watch methods of rows.)
RowsReachTheirWatch ==
    \A w \in watch :
        LET c == ConnectionOf(w)
        IN  w[2] \in subs[c] \ {"tickers"} =>
                heard[w] \o Owed(w, <<hand[c]>> \o wire[c]) = owed[w]

\* No handler is called for a topic the program has unsubscribed, on whatever connection,
\* until it watches it again, but for one that was found before. (Unsubscribe)
UnsubscribedIsQuiet ==
    [][\A w \in watch : (IF w[2] = "tickers" THEN told'[w[1]] \notin {told[w[1]], NoTicker}
                                             ELSE heard'[w] \notin {heard[w], <<>>})
                            => w \in wanted]_streamVars

\* Keys of one environment are not used at another: signed requests and the private
\* connection go to the environment the flags name, public connections to one that has
\* such streams, and a URL of the program's own is kept. (NewClient)
KeysStayAtHome ==
    LET home == CASE given.testnet -> "testnet"
                  [] ~ given.testnet /\ given.demo -> "demo"
                  [] OTHER -> "production"
        kept(place) == given.url[place] = Own /\ config.url[place] = Own
    IN  /\ \A place \in {"rest", "private"} : kept(place) \/ config.url[place] = home
        /\ \A c \in Connection : link[c] = "up" /\ c[2] = "private" =>
               config.keys /\ (kept("private") \/ URLOf(c) = home)
        /\ \A place \in {"publicLinear", "publicSpot"} :
               kept(place) \/ config.url[place] = IF home = "demo" THEN "production" ELSE home

===============================================================================
