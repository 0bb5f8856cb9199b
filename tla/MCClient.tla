------------------------------- MODULE MCClient -------------------------------
(***************************************************************************)
(* The root client: its REST methods and its stream clients. Neither knows *)
(* of the other, so a behaviour uses one of the two.                       *)
(***************************************************************************)
EXTENDS RestFlows, Streams

CONSTANTS f1, f2

MCField == {f1, f2}

MCWatches ==
    {{},
     {<<"linear", "tickers">>}, {<<"spot", "tickers">>},
     {<<"linear", "execution">>}, {<<"spot", "execution">>},
     {<<"linear", "tickers">>, <<"linear", "order">>},
     {<<"linear", "order">>, <<"spot", "order">>},
     {<<"linear", "wallet">>, <<"spot", "wallet">>},
     {<<"linear", "position">>, <<"linear", "wallet">>},
     {<<"linear", "publicTrade">>, <<"linear", "kline">>},
     {<<"spot", "publicTrade">>, <<"spot", "kline">>}}

PlainConfig ==
    [testnet |-> FALSE, demo |-> FALSE, url |-> [place \in Place |-> Unset], keys |-> TRUE]

\* URLs all unset, all as DefaultConfig has them, or one of them the program's own.
MCConfigs ==
    [testnet : BOOLEAN, demo : BOOLEAN, keys : BOOLEAN,
     url : {[place \in Place |-> u] : u \in {Unset, "production"}}
             \union {[[place \in Place |-> Unset] EXCEPT ![own] = Own] : own \in Place}]

OnlyRest == given = PlainConfig /\ watch = {} /\ factories = {} /\ pushes = 0

\* The configurations with what may be watched for it, and every set of topics with the
\* plain configuration.
OnlyStreams ==
    /\ job = NoJob
    /\ \/ /\ given \in MCConfigs
          /\ watch = {<<"linear", "tickers">>, <<"linear", "order">>}
          /\ pushes = 0
          /\ factories = Profile
       \/ /\ given = PlainConfig
          /\ watch \in MCWatches \ {{}, {<<"linear", "tickers">>, <<"linear", "order">>}}
          /\ pushes = MaxPushes
          /\ factories = {w[1] : w \in watch}

ClientInit == (OnlyRest \/ OnlyStreams) /\ RestInit /\ StreamInit

ClientNext ==
    \/ RestNext /\ UNCHANGED streamVars
    \/ StreamNext /\ UNCHANGED restVars

ClientSpec == ClientInit /\ [][ClientNext]_<<restVars, streamVars>> /\ RestFairness

\* The variables of both parts have values of their types.
TypeOK == RestTypeOK /\ StreamTypeOK
===============================================================================
