----------------------------- MODULE ClientProofs -----------------------------
(***************************************************************************)
(* What is proved of REST methods and of streams holds of the root client, *)
(* which is both.                                                          *)
(***************************************************************************)
EXTENDS MCClient, RestProofs, StreamProofs

\* A behaviour of the root client is one of its REST methods, and one of its streams: a step
\* of the one leaves the state of the other alone.
THEOREM ClientIsBoth == ClientSpec => RestSpec /\ StreamSpec
<1>1. ClientInit => RestInit /\ StreamInit
  BY DEF ClientInit
<1>2. [ClientNext]_<<restVars, streamVars>> => [RestNext]_restVars /\ [StreamNext]_streamVars
  BY DEF ClientNext
<1>3. QED
  BY <1>1, <1>2, PTL DEF ClientSpec, RestSpec, StreamSpec

\* The type invariant of the root client.
THEOREM ClientTypeCorrect == ClientSpec => []TypeOK
<1>1. RestTypeOK /\ StreamTypeOK => TypeOK
  BY DEF TypeOK
<1>2. QED
  BY ClientIsBoth, RestTypeCorrect, StreamTypeCorrect, <1>1, PTL

\* Callers of REST methods are told the truth, what has an id is done once, requests with
\* keys verify, listings are complete, and what is to be cancelled or closed is.
THEOREM ClientCallsAreCorrect ==
  ClientSpec => [](/\ ToldTheTruth /\ KeyedOnce /\ OwnRequestsVerify
                   /\ ListingIsComplete /\ NilMeansForgottenGone /\ ClosedUnlessMoved)
  BY ClientIsBoth, TellsTheTruth, KeysMakeOnce, RequestsVerify, ListingsAreComplete,
     NilLeavesNoneForgotten, ClosingCloses, PTL

\* Orders that are young stay, and positions are never opened or turned by closing them.
THEOREM ClientActsWithCare == ClientSpec => OnlyForgottenCancelled /\ CloseNeverOpens
  BY ClientIsBoth, OnlyOldOrdersGo, ClosingNeverOpens

\* Tickers are whole, rows reach their handlers, and keys stay in their environment.
THEOREM ClientStreamsAreCorrect ==
  ClientSpec => [](TickerIsWhole /\ RowsReachTheirWatch /\ KeysStayAtHome)
  BY ClientIsBoth, TickersAreWhole, RowsReachTheirHandlers, KeysAreAtHome, PTL

\* A topic that is unsubscribed is quiet.
THEOREM ClientUnsubscribesQuietly == ClientSpec => UnsubscribedIsQuiet
  BY ClientIsBoth, UnsubscribedTopicsAreQuiet

===============================================================================
