----------------------------- MODULE WsConnProofs -----------------------------
(***************************************************************************)
(* Theorems about WsConn for any number of topics, callers and sockets:    *)
(* the type invariant, which socket callers see, that subscriptions are    *)
(* Reset before frames of a new socket are read and, for one caller, that  *)
(* no topic is lost.                                                       *)
(***************************************************************************)
EXTENDS WsConn, FiniteSetTheorems, TLAPS

-------------------------------------------------------------------------------
(* A name for the next socket. *)

LEMMA ImageBound ==
  ASSUME NEW S, IsFiniteSet(S), NEW f, DOMAIN f = S
  PROVE  /\ IsFiniteSet({f[x] : x \in S})
         /\ Cardinality({f[x] : x \in S}) <= Cardinality(S)
  <1> DEFINE T == {f[x] : x \in S}
             g == [x \in S |-> f[x]]
  <1>1. g \in Surjection(S, T)
    BY DEF Surjection
  <1> HIDE DEF T, g
  <1>2. IsFiniteSet(T) /\ Cardinality(T) <= Cardinality(S)
    BY <1>1, FS_Surjection
  <1> QED
    BY <1>2 DEF T

\* There are more names than callers and subscriptions that could hold one.
LEMMA SocketIsFree ==
  ASSUME TypeOK
  PROVE  \E s \in SocketId : s \notin InUse
  <1> DEFINE p == [c \in Client |-> pending[c].socket]
             A == {p[c] : c \in Client}
             B == {fed[t] : t \in Topic}
  <1>1. A = {pending[c].socket : c \in Client}
    OBVIOUS
  <1>2. IsFiniteSet(A) /\ Cardinality(A) <= Cardinality(Client)
    <2>1. DOMAIN p = Client
      OBVIOUS
    <2> HIDE DEF p
    <2> QED
      BY <2>1, ImageBound, ConnAssumption
  <1>3. IsFiniteSet(B) /\ Cardinality(B) <= Cardinality(Topic)
    <2>1. DOMAIN fed = Topic
      BY DEF TypeOK
    <2> QED
      BY <2>1, ImageBound, ConnAssumption
  <1>4. InUse = A \union B
    BY <1>1 DEF InUse
  <1> HIDE DEF A, B, p
  <1>5. IsFiniteSet(A \union B)
    BY <1>2, <1>3, FS_Union
  <1>6. Cardinality(A \union B) = Cardinality(A) + Cardinality(B) - Cardinality(A \cap B)
    BY <1>2, <1>3, FS_Union
  <1>7. Cardinality(A \cap B) \in Nat
    <2>1. IsFiniteSet(A \cap B)
      BY <1>2, FS_Subset
    <2> QED
      BY <2>1, FS_CardinalityType
  <1>8. /\ Cardinality(A) \in Nat /\ Cardinality(B) \in Nat
        /\ Cardinality(Topic) \in Nat /\ Cardinality(Client) \in Nat
        /\ Cardinality(SocketId) \in Nat
    BY <1>2, <1>3, FS_CardinalityType, ConnAssumption
  <1>9. ~(SocketId \subseteq A \union B)
    <2>1. SUFFICES ASSUME SocketId \subseteq A \union B
                   PROVE  FALSE
      OBVIOUS
    <2>2. Cardinality(SocketId) <= Cardinality(A \union B)
      BY <1>5, <2>1, FS_Subset
    <2> QED
      BY <1>2, <1>3, <1>6, <1>7, <1>8, <2>2, ConnAssumption
  <1> QED
    BY <1>4, <1>9

-------------------------------------------------------------------------------
(* Type correctness. *)

\* The types of the variables that are not Boolean, and of those that are.
DataTypeOK ==
    /\ subs \in SUBSET Topic
    /\ socket \in SocketId \union {None}
    /\ sup \in SupState
    /\ conn \in SocketId \union {None}
    /\ todo \in SUBSET Topic
    /\ backoff \in {InitialBackoff} \union 0 .. MaxBackoff
    /\ reader \in {"off", "top", "read", "handle"}
    /\ hand \in Topic \union {None, Detached}
    /\ pending \in [Client -> Write]
    /\ fed \in [Topic -> SocketId \union {None}]
    /\ serverSubs \in SUBSET Topic
    /\ inFlight \in SUBSET Topic
    /\ refused \in SUBSET Topic

FlagTypeOK ==
    /\ private \in BOOLEAN
    /\ closed \in BOOLEAN
    /\ cancelled \in BOOLEAN
    /\ pinger \in BOOLEAN
    /\ live \in BOOLEAN
    /\ authed \in BOOLEAN

LEMMA TypeParts == TypeOK <=> DataTypeOK /\ FlagTypeOK
  BY DEF TypeOK, DataTypeOK, FlagTypeOK

LEMMA TypeInit == Init => TypeOK
  <1>1. Init => DataTypeOK
    BY ConnAssumption DEF Init, DataTypeOK, SupState, Write
  <1>2. Init => FlagTypeOK
    BY ConnAssumption, Zenon DEF Init, FlagTypeOK
  <1> QED
    BY <1>1, <1>2, TypeParts

LEMMA FlagNext == FlagTypeOK /\ [Next]_vars => FlagTypeOK'
  <1> SUFFICES ASSUME FlagTypeOK, [Next]_vars
               PROVE  FlagTypeOK'
    OBVIOUS
  <1> USE DEF FlagTypeOK, supVars, loopVars, serverVars
  <1>1. ASSUME Start \/ CancelContext
        PROVE  FlagTypeOK'
    BY <1>1, Zenon DEF Start, CancelContext
  <1>2. ASSUME NEW c \in Client, NEW t \in Topic, Subscribe(c, t) \/ Unsubscribe(c, t)
        PROVE  FlagTypeOK'
    BY <1>2, Zenon DEF Subscribe, Unsubscribe
  <1>3. ASSUME NEW c \in Client, Close(c)
        PROVE  FlagTypeOK'
    BY <1>3, Zenon DEF Close
  <1>4. ASSUME NEW c \in Client, Send(c)
        PROVE  FlagTypeOK'
    BY <1>4, Zenon DEF Send
  <1>5. ASSUME NEW c \in Client, CloseSocket(c)
        PROVE  FlagTypeOK'
    BY <1>5, Zenon DEF CloseSocket, Hangup
  <1>6. ASSUME Top \/ DialFail \/ Publish \/ AuthAck \/ AuthFail
        PROVE  FlagTypeOK'
    BY <1>6, Zenon DEF Top, DialFail, Publish, AuthAck, AuthFail
  <1>7. ASSUME NEW t \in Topic, Resubscribe(t)
        PROVE  FlagTypeOK'
    BY <1>7, Zenon DEF Resubscribe
  <1>8. ASSUME RunLoops \/ Join \/ Returned \/ WakeUp \/ SleepCancelled
        PROVE  FlagTypeOK'
    BY <1>8, Zenon DEF RunLoops, Join, Returned, WakeUp, SleepCancelled
  <1>9. ASSUME Teardown
        PROVE  FlagTypeOK'
    BY <1>9, Zenon DEF Teardown, Hangup
  <1>10. ASSUME DialOk
        PROVE  FlagTypeOK'
    BY <1>10, Zenon DEF DialOk
  <1>11. ASSUME ReaderTop \/ HandlerReturns \/ ReadError \/ PingerExit
        PROVE  FlagTypeOK'
    BY <1>11, Zenon DEF ReaderTop, HandlerReturns, ReadError, PingerExit
  <1>12. ASSUME NEW t \in Topic, ReadFrame(t) \/ ServerPush(t)
        PROVE  FlagTypeOK'
    BY <1>12, Zenon DEF ReadFrame, ServerPush
  <1>13. ASSUME AuthAccepted \/ Break
        PROVE  FlagTypeOK'
    BY <1>13, Zenon DEF AuthAccepted, Break
  <1>14. CASE UNCHANGED vars
    BY <1>14, Zenon DEF vars
  <1> QED
    BY <1>1, <1>2, <1>3, <1>4, <1>5, <1>6, <1>7, <1>8, <1>9, <1>10, <1>11, <1>12, <1>13, <1>14
       DEF Next, Caller, SupervisorStep, ReaderStep

LEMMA DataNext == TypeOK /\ [Next]_vars => DataTypeOK'
  <1> SUFFICES ASSUME TypeOK, [Next]_vars
               PROVE  DataTypeOK'
    OBVIOUS
  <1>0. DataTypeOK
    BY TypeParts
  <1> USE <1>0 DEF DataTypeOK, SupState, registryVars, supVars, loopVars, serverVars
  <1>1. ASSUME Start \/ CancelContext
        PROVE  DataTypeOK'
    BY <1>1 DEF Start, CancelContext
  <1>2. ASSUME NEW c \in Client, NEW t \in Topic, Subscribe(c, t) \/ Unsubscribe(c, t)
        PROVE  DataTypeOK'
    BY <1>2 DEF Subscribe, Unsubscribe, Owes, Detach, Write, NoWrite
  <1>3. ASSUME NEW c \in Client, Close(c)
        PROVE  DataTypeOK'
    BY <1>3 DEF Close, Owes, Write, NoWrite
  <1>4. ASSUME NEW c \in Client, Send(c)
        PROVE  DataTypeOK'
    <2>1. pending[c].topic \in Topic
      BY <1>4 DEF Send, Write, NoWrite
    <2>2. serverSubs' \in SUBSET Topic /\ refused' \in SUBSET Topic
      BY <1>4, <2>1 DEF Send, Serve
    <2>3. pending' \in [Client -> Write]
      BY <1>4 DEF Send, Write
    <2> QED
      BY <1>4, <2>2, <2>3 DEF Send
  <1>5. ASSUME NEW c \in Client, CloseSocket(c)
        PROVE  DataTypeOK'
    BY <1>5 DEF CloseSocket, Hangup, Write, NoWrite
  <1>6. ASSUME Top \/ DialFail \/ Publish \/ AuthAck \/ AuthFail
        PROVE  DataTypeOK'
    BY <1>6 DEF Top, DialFail, Publish, AuthAck, AuthFail
  <1>7. ASSUME NEW t \in Topic, Resubscribe(t)
        PROVE  DataTypeOK'
    BY <1>7 DEF Resubscribe, Serve
  <1>8. ASSUME RunLoops \/ Join \/ Returned \/ WakeUp \/ SleepCancelled
        PROVE  DataTypeOK'
    BY ConnAssumption, <1>8 DEF RunLoops, Join, Returned, WakeUp, SleepCancelled, NextBackoff
  <1>9. ASSUME Teardown
        PROVE  DataTypeOK'
    BY <1>9 DEF Teardown, Hangup
  <1>10. ASSUME DialOk
         PROVE  DataTypeOK'
    <2>1. conn' \in SocketId
      BY <1>10, SocketIsFree DEF DialOk
    <2> QED
      BY <1>10, <2>1 DEF DialOk
  <1>11. ASSUME ReaderTop \/ HandlerReturns \/ ReadError \/ PingerExit
        PROVE  DataTypeOK'
    BY <1>11 DEF ReaderTop, HandlerReturns, ReadError, PingerExit
  <1>12. ASSUME NEW t \in Topic, ReadFrame(t) \/ ServerPush(t)
        PROVE  DataTypeOK'
    BY <1>12 DEF ReadFrame, ServerPush
  <1>13. ASSUME AuthAccepted \/ Break
        PROVE  DataTypeOK'
    BY <1>13 DEF AuthAccepted, Break
  <1>14. CASE UNCHANGED vars
    BY <1>14 DEF vars
  <1> QED
    BY <1>1, <1>2, <1>3, <1>4, <1>5, <1>6, <1>7, <1>8, <1>9, <1>10, <1>11, <1>12, <1>13, <1>14
       DEF Next, Caller, SupervisorStep, ReaderStep

\* Every variable of the connection keeps its type; the backoff stays within its cap.
THEOREM ConnTypeCorrect == Spec => []TypeOK
  <1>1. TypeOK /\ [Next]_vars => TypeOK'
    <2>1. TypeOK /\ [Next]_vars => DataTypeOK' /\ FlagTypeOK'
      BY FlagNext, DataNext, TypeParts
    <2> QED
      BY <2>1, TypeParts DEF TypeOK, DataTypeOK, FlagTypeOK
  <1> QED
    BY <1>1, TypeInit, PTL DEF Spec

-------------------------------------------------------------------------------
(* The socket and the loops. *)

\* By cases of the step.
LEMMA ConnNext == TypeOK /\ ConnInv /\ [Next]_vars => ConnInv'
  <1> SUFFICES ASSUME TypeOK, ConnInv, [Next]_vars
               PROVE  ConnInv'
    OBVIOUS
  <1>0. /\ hand \in Topic \union {None, Detached} /\ None \notin Topic
        /\ fed \in [Topic -> SocketId \union {None}] /\ subs \subseteq Topic
    BY ConnAssumption DEF TypeOK
  <1> USE <1>0
      DEF ConnInv, PublishedSocketIsOwned, SocketIsPublished, ConnIsOwned, LoopsAreJoined,
          FedByThisSocket, Serving, registryVars, supVars, loopVars, serverVars
  <1>1. ASSUME Start \/ CancelContext
        PROVE  ConnInv'
    BY <1>1 DEF Start, CancelContext
  <1>2. ASSUME NEW c \in Client, NEW t \in Topic, Subscribe(c, t) \/ Unsubscribe(c, t)
        PROVE  ConnInv'
    BY <1>2 DEF Subscribe, Unsubscribe, Detach
  <1>3. ASSUME NEW c \in Client, Close(c)
        PROVE  ConnInv'
    BY <1>3 DEF Close
  <1>4. ASSUME NEW c \in Client, Send(c) \/ CloseSocket(c)
        PROVE  ConnInv'
    BY <1>4 DEF Send, CloseSocket
  <1>5. ASSUME Top \/ DialFail \/ AuthAck \/ AuthFail
        PROVE  ConnInv'
    BY <1>5 DEF Top, DialFail, AuthAck, AuthFail
  <1>6. ASSUME Publish
        PROVE  ConnInv'
    BY <1>6 DEF Publish
  <1>7. ASSUME NEW t \in Topic, Resubscribe(t)
        PROVE  ConnInv'
    BY <1>7 DEF Resubscribe
  <1>8. ASSUME RunLoops \/ Join \/ Returned \/ WakeUp \/ SleepCancelled
        PROVE  ConnInv'
    BY <1>8 DEF RunLoops, Join, Returned, WakeUp, SleepCancelled
  <1>9. ASSUME Teardown
        PROVE  ConnInv'
    BY <1>9 DEF Teardown
  <1>10. ASSUME DialOk
         PROVE  ConnInv'
    <2>1. conn' \in SocketId /\ None \notin SocketId
      BY <1>10, SocketIsFree, ConnAssumption DEF DialOk
    <2> QED
      BY <1>10, <2>1 DEF DialOk
  <1>11. ASSUME ReaderTop \/ HandlerReturns \/ ReadError \/ PingerExit
         PROVE  ConnInv'
    BY <1>11 DEF ReaderTop, HandlerReturns, ReadError, PingerExit
  <1>12. ASSUME NEW t \in Topic, ReadFrame(t) \/ ServerPush(t)
         PROVE  ConnInv'
    BY <1>12 DEF ReadFrame, ServerPush
  <1>13. ASSUME AuthAccepted \/ Break
         PROVE  ConnInv'
    BY <1>13 DEF AuthAccepted, Break
  <1>14. CASE UNCHANGED vars
    BY <1>14 DEF vars
  <1> QED
    BY <1>1, <1>2, <1>3, <1>4, <1>5, <1>6, <1>7, <1>8, <1>9, <1>10, <1>11, <1>12, <1>13, <1>14
       DEF Next, Caller, SupervisorStep, ReaderStep

LEMMA ConnInit == Init => ConnInv
  BY DEF Init, ConnInv, PublishedSocketIsOwned, SocketIsPublished, ConnIsOwned,
         LoopsAreJoined, FedByThisSocket, Serving

\* The supervisor owns the socket that callers see, and it shows it until it is closed.
THEOREM ConnInvariant == Spec => []ConnInv
  BY ConnInit, ConnNext, ConnTypeCorrect, PTL DEF Spec

\* Whatever callers do and wherever the supervisor is, the socket of Conn is the one
\* of the running connectAndRun or none.
THEOREM PublishedSocketIsCorrect == Spec => []PublishedSocketIsOwned
  <1>1. ConnInv => PublishedSocketIsOwned
    BY DEF ConnInv
  <1> QED
    BY <1>1, ConnInvariant, PTL

\* While the read loop runs, no subscription holds what an older socket has fed it.
THEOREM ResetIsBeforeFrames == Spec => []ResetBeforeFrames
  <1>1. ConnInv => ResetBeforeFrames
    BY DEF ConnInv, LoopsAreJoined, FedByThisSocket, Serving, ResetBeforeFrames
  <1> QED
    BY <1>1, ConnInvariant, PTL

-------------------------------------------------------------------------------
(* The registry. *)

OneCaller == \A c, d \in Client : c = d

LEMMA UnsubscribeNext ==
    OneCaller /\ TypeOK /\ UnsubscribeFollowsRegistry /\ [Next]_vars
        => UnsubscribeFollowsRegistry'
  <1> SUFFICES ASSUME OneCaller, TypeOK, UnsubscribeFollowsRegistry, [Next]_vars
               PROVE  UnsubscribeFollowsRegistry'
    OBVIOUS
  <1>0. pending \in [Client -> Write]
    BY DEF TypeOK
  <1> USE <1>0 DEF UnsubscribeFollowsRegistry
  <1>1. CASE UNCHANGED <<subs, pending>>
    BY <1>1
  <1>2. ASSUME NEW c \in Client, NEW t \in Topic, Subscribe(c, t)
        PROVE  UnsubscribeFollowsRegistry'
    BY <1>2 DEF OneCaller, Subscribe, Owes, NoWrite
  <1>3. ASSUME NEW c \in Client, NEW t \in Topic, Unsubscribe(c, t)
        PROVE  UnsubscribeFollowsRegistry'
    BY <1>3 DEF Unsubscribe, Owes, NoWrite
  <1>4. ASSUME NEW c \in Client, Close(c)
        PROVE  UnsubscribeFollowsRegistry'
    BY <1>4 DEF Close, Owes, registryVars
  <1>5. ASSUME NEW c \in Client, Send(c) \/ CloseSocket(c)
        PROVE  UnsubscribeFollowsRegistry'
    BY <1>5 DEF Send, CloseSocket, NoWrite, registryVars
  <1> QED
    BY <1>1, <1>2, <1>3, <1>4, <1>5
       DEF Next, vars, registryVars, Caller, SupervisorStep, ReaderStep, Start, CancelContext,
           Top, DialFail, Publish, AuthAck, AuthFail, Resubscribe, RunLoops, Join, Teardown,
           Returned, WakeUp, SleepCancelled, DialOk, ReaderTop, HandlerReturns, ReadError,
           ReadFrame, PingerExit, AuthAccepted, ServerPush, Break

LEMMA SubscribeOpIsWrite == \A t : SubscribeOp(t) # NoWrite
  <1>1. \A t : SubscribeOp(t).op = "subscribe" /\ NoWrite.op = "none"
    BY DEF SubscribeOp, NoWrite
  <1> QED
    BY <1>1

\* A topic that is on its way before a step is so after it.
LEMMA TopicNext ==
    OneCaller /\ TypeOK /\ ConnInv /\ RegistryInv /\ [Next]_vars => TopicIsOnItsWay'
  <1> SUFFICES ASSUME OneCaller, TypeOK, ConnInv, RegistryInv, [Next]_vars
               PROVE  TopicIsOnItsWay'
    OBVIOUS
  <1>0. /\ pending \in [Client -> Write] /\ subs \subseteq Topic
        /\ TopicIsOnItsWay /\ UnsubscribeFollowsRegistry
    BY DEF TypeOK, RegistryInv
  <1> USE <1>0 DEF TopicIsOnItsWay, Serving, SubscribeOp
  <1>1. CASE UNCHANGED <<subs, sup, live, serverSubs, refused, todo, pending, conn>>
    BY <1>1
  <1>2. ASSUME NEW c \in Client, NEW t \in Topic, Subscribe(c, t)
        PROVE  TopicIsOnItsWay'
    <2>1. \A d \in Client : pending[d] = NoWrite
      BY <1>2 DEF OneCaller, Subscribe
    <2>2. /\ subs' = subs \union {t}
          /\ UNCHANGED <<sup, live, serverSubs, refused, todo, conn>>
      BY <1>2 DEF Subscribe, supVars, serverVars
    <2>3. \A u \in subs : pending[c] # SubscribeOp(u)
      BY <2>1 DEF NoWrite
    <2>4. sup \in Serving => pending'[c] = SubscribeOp(t)
      <3>1. ASSUME sup \in Serving
            PROVE  socket = conn /\ conn # None
        BY <1>2, <3>1 DEF Subscribe, ConnInv, SocketIsPublished, ConnIsOwned
      <3> QED
        BY <1>2, <3>1 DEF Subscribe, Owes
    <2>5. (sup \in Serving /\ live) =>
             \A u \in subs : u \in serverSubs \union refused \/ (sup # "run" /\ u \in todo)
      <3> HIDE DEF SubscribeOp, Serving
      <3> QED
        BY <2>1, SubscribeOpIsWrite
    <2> QED
      BY <2>2, <2>4, <2>5
  <1>3. ASSUME NEW c \in Client, NEW t \in Topic, Unsubscribe(c, t)
        PROVE  TopicIsOnItsWay'
    <2>1. \A d \in Client : pending[d] = NoWrite
      BY <1>3 DEF OneCaller, Unsubscribe
    <2>2. /\ subs' = subs \ {t}
          /\ UNCHANGED <<sup, live, serverSubs, refused, todo, conn>>
      BY <1>3 DEF Unsubscribe, supVars, serverVars
    <2> QED
      BY <2>1, <2>2 DEF NoWrite
  <1>4. ASSUME NEW c \in Client, Close(c)
        PROVE  TopicIsOnItsWay'
    <2>1. \A d \in Client : pending[d] = NoWrite
      BY <1>4 DEF OneCaller, Close
    <2>2. UNCHANGED <<subs, sup, live, serverSubs, refused, todo, conn>>
      BY <1>4 DEF Close, registryVars, supVars, serverVars
    <2> QED
      BY <2>1, <2>2 DEF NoWrite
  <1>5. ASSUME NEW c \in Client, Send(c)
        PROVE  TopicIsOnItsWay'
    <2>1. UNCHANGED <<subs, sup, live, todo, conn>>
      BY <1>5 DEF Send, registryVars, supVars
    <2>2. \A d \in Client : d = c
      BY DEF OneCaller
    <2>3. CASE live /\ pending[c].socket = conn /\ pending[c].op = "subscribe"
      <3>1. /\ serverSubs \subseteq serverSubs'
            /\ refused \subseteq refused' \union serverSubs'
            /\ pending[c].topic \in serverSubs' \union refused'
        BY <1>5, <2>3 DEF Send, Serve
      <3>2. \A u \in subs : pending[c] = SubscribeOp(u) => pending[c].topic = u
        OBVIOUS
      <3> QED
        BY <2>1, <2>2, <3>1, <3>2
    <2>4. CASE live /\ pending[c].socket = conn /\ pending[c].op = "unsubscribe"
      <3>1. pending[c].topic \notin subs
        BY <2>4 DEF UnsubscribeFollowsRegistry
      <3>2. serverSubs' = serverSubs \ {pending[c].topic} /\ refused' = refused
        BY <1>5, <2>4 DEF Send, Serve
      <3>3. \A u \in subs : pending[c] # SubscribeOp(u)
        BY <2>4
      <3> QED
        BY <2>1, <2>2, <3>1, <3>2, <3>3
    <2>5. CASE ~(live /\ pending[c].socket = conn)
      <3>1. UNCHANGED <<serverSubs, refused>>
        BY <1>5, <2>5 DEF Send
      <3>2. live => \A u \in subs : pending[c] # SubscribeOp(u)
        BY <2>5
      <3> QED
        BY <2>1, <2>2, <3>1, <3>2
    <2> QED
      BY <1>5, <2>3, <2>4, <2>5 DEF Send
  <1>6. ASSUME NEW c \in Client, CloseSocket(c)
        PROVE  TopicIsOnItsWay'
    <2>1. \A d \in Client : d = c
      BY DEF OneCaller
    <2>2. \A u \in subs : pending[c] # SubscribeOp(u)
      BY <1>6 DEF CloseSocket
    <2>3. UNCHANGED <<subs, sup, todo, conn>>
      BY <1>6 DEF CloseSocket, registryVars, supVars
    <2>4. ~live' \/ UNCHANGED <<live, serverSubs, refused>>
      BY <1>6, Zenon DEF CloseSocket, Hangup, serverVars
    <2> QED
      BY <2>1, <2>2, <2>3, <2>4
  <1>7. ASSUME NEW t \in Topic, Resubscribe(t)
        PROVE  TopicIsOnItsWay'
    <2>1. UNCHANGED <<subs, sup, live, pending, conn>> /\ todo' = todo \ {t}
      BY <1>7 DEF Resubscribe, registryVars
    <2>2. live => /\ serverSubs \subseteq serverSubs'
                  /\ refused \subseteq refused' \union serverSubs'
                  /\ t \in serverSubs' \union refused'
      BY <1>7 DEF Resubscribe, Serve
    <2> QED
      BY <2>1, <2>2
  <1>8. CASE Publish
    BY <1>8 DEF Publish
  <1>9. CASE RunLoops
    BY <1>9 DEF RunLoops, registryVars, serverVars
  <1>10. CASE AuthAck
    BY <1>10 DEF AuthAck, registryVars, serverVars
  <1>11. CASE Break
    BY <1>11 DEF Break
  <1>12. CASE sup' \notin Serving
    BY <1>12
  <1> QED
    BY <1>1, <1>2, <1>3, <1>4, <1>5, <1>6, <1>7, <1>8, <1>9, <1>10, <1>11, <1>12
       DEF Next, vars, registryVars, supVars, serverVars, loopVars, Caller, SupervisorStep,
           ReaderStep, Start, CancelContext, Top, DialFail, AuthFail, Join, Teardown,
           Returned, WakeUp, SleepCancelled, DialOk, ReaderTop, HandlerReturns, ReadError,
           ReadFrame, PingerExit, AuthAccepted, ServerPush

LEMMA RegistryInit == Init => RegistryInv
  BY DEF Init, RegistryInv, UnsubscribeFollowsRegistry, TopicIsOnItsWay, Serving, NoWrite

\* A topic of the registry is pushed, refused, or still to be sent by the supervisor
\* or the caller, wherever the two were when the connection came up.
THEOREM RegistryInvariant == OneCaller => (Spec => []RegistryInv)
  <1> SUFFICES ASSUME OneCaller
               PROVE  Spec => []RegistryInv
    OBVIOUS
  <1>1. TypeOK /\ ConnInv /\ RegistryInv /\ [Next]_vars => RegistryInv'
    BY UnsubscribeNext, TopicNext DEF RegistryInv
  <1> QED
    BY <1>1, RegistryInit, ConnTypeCorrect, ConnInvariant, PTL DEF Spec

\* A single caller never loses a topic to a reconnect: once its writes are done, what
\* is in the registry is pushed or was refused before the authentication.
THEOREM RegistryIsCorrect == OneCaller => (Spec => []RegistryIsServedOrRefused)
  <1> SUFFICES ASSUME OneCaller
               PROVE  Spec => []RegistryIsServedOrRefused
    OBVIOUS
  <1>1. RegistryInv => RegistryIsServedOrRefused
    BY SubscribeOpIsWrite
       DEF RegistryInv, TopicIsOnItsWay, RegistryIsServedOrRefused, Serving, Quiet
  <1> QED
    BY <1>1, RegistryInvariant, PTL

===============================================================================
