------------------------------ MODULE OrderIdMap ------------------------------
(***************************************************************************)
(* The id cache of a TradingClient: clOrdToOrd and ordToClOrd, shared by   *)
(* the goroutines that create and cancel orders, while orders are placed,  *)
(* filled and cancelled at the exchange.  A call sends its request, the    *)
(* exchange acts and answers, and the answer is worked off row by row, one *)
(* short critical section per row.                                         *)
(*                                                                         *)
(* createdAtMs is left out: it is written and deleted with clOrdToOrd and  *)
(* read by no one.  The lookups of the cache change nothing.               *)
(***************************************************************************)
EXTENDS Integers, Sequences, FiniteSets, SequencesExt

CONSTANTS
    Link,       \* client order ids, orderLinkId on the wire
    OrderId,    \* order ids of the exchange
    Symbol,     \* symbols
    Of,         \* the symbol that a client order id is used for
    Caller,     \* goroutines that use the client
    None        \* the empty id

ASSUME IdAssumption ==
    /\ Of \in [Link -> Symbol]
    /\ None \notin Link \union OrderId
    /\ IsFiniteSet(Link)
    /\ IsFiniteSet(OrderId)

VARIABLES
    placed,     \* the client order id of every order the exchange took
    open,       \* orders that are live
    clOrdToOrd, \* the cache, None where there is no entry
    ordToClOrd,
    call        \* what each caller is doing

vars == <<placed, open, clOrdToOrd, ordToClOrd, call>>

cache == <<clOrdToOrd, ordToClOrd>>

\* A critical section that the answer of the exchange leads to.
Row == [do : {"remember", "forget"}, link : Link \union {None}, id : OrderId \union {None}]

Remember(l, o) == [do |-> "remember", link |-> l, id |-> o]

Forget(l, o) == [do |-> "forget", link |-> l, id |-> o]

Op == {"idle", "create", "cancel", "cancelAll", "sync"}

Call ==
    [op : Op,
     phase : {"sent", "answered", "returning"},
     link : Link \union {None},         \* the ids of the request
     id : OrderId \union {None},
     symbol : Symbol \union {None},
     rows : Seq(Row),                   \* critical sections to come
     seen : SUBSET Link]                \* SyncOrderMappings: what was listed

Request(op, l, o, s) ==
    [op |-> op, phase |-> "sent", link |-> l, id |-> o, symbol |-> s,
     rows |-> <<>>, seen |-> {}]

Idle == Request("idle", None, None, None)

TypeOK ==
    /\ placed \in [OrderId -> Link \union {None}]
    /\ open \in SUBSET OrderId
    /\ clOrdToOrd \in [Link -> OrderId \union {None}]
    /\ ordToClOrd \in [OrderId -> Link \union {None}]
    /\ call \in [Caller -> Call]

Init ==
    /\ placed = [o \in OrderId |-> None]
    /\ open = {}
    /\ clOrdToOrd = [l \in Link |-> None]
    /\ ordToClOrd = [o \in OrderId |-> None]
    /\ call = [c \in Caller |-> Idle]

-------------------------------------------------------------------------------
(* Requests. *)

Send(c, request) ==
    /\ call[c] = Idle
    /\ call' = [call EXCEPT ![c] = request]
    /\ UNCHANGED <<placed, open, cache>>

\* CreateOrder of an order that carries a client order id: the cache ignores others.
CreateOrder(c, l) == Send(c, Request("create", l, None, Of[l]))

\* Mutant of CancelOrder: both ids may be given.
CancelOrderUnchecked(c, o) ==
    /\ placed[o] # None
    /\ \/ Send(c, Request("cancel", None, o, Of[placed[o]]))
       \/ Send(c, Request("cancel", placed[o], o, Of[placed[o]]))

\* CancelOrder takes exactly one of the two ids.
CancelOrder(c, o) ==
    /\ placed[o] # None
    /\ \/ Send(c, Request("cancel", None, o, Of[placed[o]]))
       \/ Send(c, Request("cancel", placed[o], None, Of[placed[o]]))

CancelAllOrders(c, s) == Send(c, Request("cancelAll", None, None, s))

SyncOrderMappings(c, s) == Send(c, Request("sync", None, None, s))

-------------------------------------------------------------------------------
(* The exchange. *)

Sent(c, op) == call[c].op = op /\ call[c].phase = "sent"

Answer(c, rows, seen) ==
    call' = [call EXCEPT ![c] = [@ EXCEPT !.phase = "answered", !.rows = rows, !.seen = seen]]

OpenOf(s) == {o \in open : Of[placed[o]] = s}

\* A client order id is taken once.
Place(c) ==
    /\ Sent(c, "create")
    /\ \A o \in OrderId : placed[o] # call[c].link
    /\ \E o \in OrderId :
          /\ placed[o] = None
          /\ placed' = [placed EXCEPT ![o] = call[c].link]
          /\ open' = open \union {o}
          /\ Answer(c, <<Remember(call[c].link, o)>>, {})
    /\ UNCHANGED cache

\* The ids of the ack are forgotten, and then those of the request.
Cancel(c) ==
    /\ Sent(c, "cancel")
    /\ \E o \in open :
          /\ o = call[c].id \/ placed[o] = call[c].link
          /\ open' = open \ {o}
          /\ Answer(c, <<Forget(placed[o], o), Forget(call[c].link, call[c].id)>>, {})
    /\ UNCHANGED <<placed, cache>>

CancelAll(c) ==
    /\ Sent(c, "cancelAll")
    /\ LET gone == OpenOf(call[c].symbol)
       IN /\ open' = open \ gone
          /\ Answer(c, SetToSeq({Forget(placed[o], o) : o \in gone}), {})
    /\ UNCHANGED <<placed, cache>>

\* GetOpenOrders, for one symbol.
List(c) ==
    /\ Sent(c, "sync")
    /\ LET listed == OpenOf(call[c].symbol)
       IN Answer(c, SetToSeq({Remember(placed[o], o) : o \in listed}),
                 {placed[o] : o \in listed})
    /\ UNCHANGED <<placed, open, cache>>

\* A live order is filled, or cancelled by the exchange.
Fill(o) ==
    /\ open' = open \ {o}
    /\ o \in open
    /\ UNCHANGED <<placed, cache, call>>

-------------------------------------------------------------------------------
(* Answers. *)

\* Mutant of Fail: a cancel forgets its ids although it failed.
FailForgetting(c) ==
    /\ call[c] # Idle
    /\ call[c].phase \in {"sent", "answered"}
    /\ call' = IF call[c].op = "cancel"
               THEN [call EXCEPT ![c].phase = "returning",
                                 ![c].rows = <<Forget(call[c].link, call[c].id)>>]
               ELSE [call EXCEPT ![c] = Idle]
    /\ UNCHANGED <<placed, open, cache>>

\* Do returns an error: the exchange refused, or its answer was lost on the way.
Fail(c) ==
    /\ call[c] # Idle
    /\ call[c].phase \in {"sent", "answered"}
    /\ call' = [call EXCEPT ![c] = Idle]
    /\ UNCHANGED <<placed, open, cache>>

\* Mutant of RememberMapping: keys and values are mixed up.
RememberMappingSwapped(l, o) ==
    /\ clOrdToOrd' = [clOrdToOrd EXCEPT ![l] = l]
    /\ ordToClOrd' = [ordToClOrd EXCEPT ![o] = o]

\* rememberMapping.
RememberMapping(l, o) ==
    /\ clOrdToOrd' = [clOrdToOrd EXCEPT ![l] = o]
    /\ ordToClOrd' = [ordToClOrd EXCEPT ![o] = l]

\* Mutant of ForgetMapping: the id that is missing is not looked up.
ForgetMappingHalf(l, o) ==
    /\ clOrdToOrd' = [k \in Link |-> IF k = l THEN None ELSE clOrdToOrd[k]]
    /\ ordToClOrd' = [k \in OrderId |-> IF k = o THEN None ELSE ordToClOrd[k]]

\* forgetMappingByClOrdOrOrd: the id that is missing is looked up.
ForgetMapping(l, o) ==
    LET link == IF l = None THEN ordToClOrd[o] ELSE l
        id == IF o = None THEN clOrdToOrd[link] ELSE o
    IN /\ clOrdToOrd' = [k \in Link |-> IF k = link THEN None ELSE clOrdToOrd[k]]
       /\ ordToClOrd' = [k \in OrderId |-> IF k = id THEN None ELSE ordToClOrd[k]]

Apply(row) ==
    \/ row.do = "remember" /\ RememberMapping(row.link, row.id)
    \/ row.do = "forget" /\ ForgetMapping(row.link, row.id)

\* One row of the answer, under the mutex.
Return(c) ==
    /\ call[c].phase \in {"answered", "returning"}
    /\ call[c].rows # <<>>
    /\ Apply(Head(call[c].rows))
    /\ call' = IF Len(call[c].rows) = 1 /\ call[c].op # "sync"
               THEN [call EXCEPT ![c] = Idle]
               ELSE [call EXCEPT ![c] = [@ EXCEPT !.phase = "returning",
                                                  !.rows = Tail(call[c].rows)]]
    /\ UNCHANGED <<placed, open>>

\* CancelAllOrders with nothing to cancel.
ReturnEmpty(c) ==
    /\ call[c].phase = "answered"
    /\ call[c].op = "cancelAll"
    /\ call[c].rows = <<>>
    /\ call' = [call EXCEPT ![c] = Idle]
    /\ UNCHANGED <<placed, open, cache>>

\* The end of SyncOrderMappings: entries that were not listed are dropped.
Sweep(c) ==
    /\ call[c].phase \in {"answered", "returning"}
    /\ call[c].op = "sync"
    /\ call[c].rows = <<>>
    /\ LET dropped == {l \in Link : clOrdToOrd[l] # None /\ l \notin call[c].seen}
       IN /\ clOrdToOrd' = [l \in Link |-> IF l \in dropped THEN None ELSE clOrdToOrd[l]]
          /\ ordToClOrd' = [o \in OrderId |->
                               IF \E l \in dropped : clOrdToOrd[l] = o
                               THEN None ELSE ordToClOrd[o]]
    /\ call' = [call EXCEPT ![c] = Idle]
    /\ UNCHANGED <<placed, open>>

-------------------------------------------------------------------------------

Next ==
    \/ \E c \in Caller :
          \/ \E l \in Link : CreateOrder(c, l)
          \/ \E o \in OrderId : CancelOrder(c, o)
          \/ \E s \in Symbol : CancelAllOrders(c, s) \/ SyncOrderMappings(c, s)
          \/ Place(c) \/ Cancel(c) \/ CancelAll(c) \/ List(c)
          \/ Fail(c) \/ Return(c) \/ ReturnEmpty(c) \/ Sweep(c)
    \/ \E o \in OrderId : Fill(o)

Spec == Init /\ [][Next]_vars

-------------------------------------------------------------------------------
(* Properties. *)

\* An entry of the cache names an order of the exchange by its own ids, and the two
\* maps stay each other's inverse without an orphan in either, whatever the order in
\* which the answers of several callers are worked off (trading.go:1085-1111).
CacheIsConsistent ==
    /\ \A l \in Link : clOrdToOrd[l] # None => placed[clOrdToOrd[l]] = l
    /\ \A l \in Link, o \in OrderId : clOrdToOrd[l] = o <=> ordToClOrd[o] = l

\* An entry that vanishes, but for the sweep of a sync, is one of an order that is
\* no longer live.
CancelForgetsOnlyDone ==
    [][\A l \in Link :
          (clOrdToOrd[l] # None /\ clOrdToOrd'[l] = None) =>
             \/ clOrdToOrd[l] \notin open
             \/ \E c \in Caller : call[c].op = "sync" /\ call'[c] = Idle]_vars

\* trading.go:1135-1136: SyncOrderMappings drops "orders no longer live".
OnlyStaleIsDropped ==
    [][\A l \in Link :
          (clOrdToOrd[l] # None /\ clOrdToOrd'[l] = None) => clOrdToOrd[l] \notin open]_vars

-------------------------------------------------------------------------------
(* The strengthening that makes CacheIsConsistent inductive. *)

OpenIsPlaced == \A o \in open : placed[o] # None

LinkTakenOnce ==
    \A o, p \in OrderId : (placed[o] # None /\ placed[o] = placed[p]) => o = p

\* A row names an order by both of its ids; one to be forgotten is no longer live, and
\* may be named by one of them.
TrueRow(orders, live, row) ==
    \E o \in OrderId :
        /\ orders[o] # None
        /\ row.do = "forget" => o \notin live
        /\ \/ row.link = orders[o] /\ row.id = o
           \/ row.do = "forget" /\ row.link = orders[o] /\ row.id = None
           \/ row.do = "forget" /\ row.link = None /\ row.id = o

RowsAreTrue ==
    \A c \in Caller :
        \A i \in 1 .. Len(call[c].rows) : TrueRow(placed, open, call[c].rows[i])

\* Requests carry the ids that their operation needs.
RequestsAreWhole ==
    \A c \in Caller :
        /\ call[c].op = "create" => call[c].link \in Link
        /\ call[c].op = "cancel" =>
              \/ call[c].link \in Link /\ call[c].id = None
              \/ call[c].link = None /\ call[c].id \in OrderId

\* All that the callers still have to work off is true of the orders, so that the
\* cache stays consistent whichever of them goes next.
IdInv ==
    /\ OpenIsPlaced
    /\ LinkTakenOnce
    /\ RowsAreTrue
    /\ RequestsAreWhole
    /\ CacheIsConsistent

===============================================================================
