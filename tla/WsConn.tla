-------------------------------- MODULE WsConn --------------------------------
(***************************************************************************)
(* internal/ws Conn: the supervisor goroutine that dials, authenticates,   *)
(* resubscribes and runs a read loop and a ping loop per socket, and the   *)
(* goroutines of the callers, whose operations take the mutex, let go of   *)
(* it and only then write to the socket they saw.                          *)
(*                                                                         *)
(* A topic stands for a key of the registry with the wire names that lead  *)
(* to it.  Timeouts and network errors may happen at any time.             *)
(***************************************************************************)
EXTENDS Integers, FiniteSets

CONSTANTS
    Topic,          \* topics callers subscribe to
    Client,         \* goroutines that call the methods of Conn
    SocketId,       \* names of sockets; a name is reused once nobody holds it
    Endpoint,       \* values of Config.IsPrivate
    InitialBackoff, \* Config.ReconnectInitialBackoff
    MaxBackoff,     \* Config.ReconnectMaxBackoff
    None            \* nil

ASSUME ConnAssumption ==
    /\ Endpoint \subseteq BOOLEAN
    /\ InitialBackoff \in Nat
    /\ MaxBackoff \in Nat
    /\ None \notin Topic \union SocketId
    /\ IsFiniteSet(Topic)
    /\ IsFiniteSet(Client)
    /\ IsFiniteSet(SocketId)
    /\ Cardinality(SocketId) > Cardinality(Topic) + Cardinality(Client)

VARIABLES
    private,    \* c.cfg.IsPrivate
    subs,       \* topics in the registry
    socket,     \* c.socket, the socket that callers see
    closed,     \* c.closed
    cancelled,  \* the context of the supervisor is done
    sup,        \* where the supervisor goroutine is
    conn,       \* the socket of connectAndRun
    todo,       \* topics of subsCopy not yet sent
    backoff,    \* the sleep after the next failure
    reader,     \* where the read loop is
    hand,       \* the topic whose handler the read loop is running
    pinger,     \* the ping loop is running
    pending,    \* per caller, the write it still has to do, outside the mutex
    fed,        \* per topic, the socket whose frames its subscription holds
    live,       \* conn is open at both ends
    authed,     \* the server has accepted the authentication on conn
    serverSubs, \* topics the server pushes on conn
    inFlight,   \* topics with frames sent on conn and not yet read
    refused     \* ghost: topics whose subscribe op the server refused on conn

registryVars == <<subs, fed>>
supVars == <<sup, conn, todo, backoff>>
loopVars == <<reader, hand, pinger>>
serverVars == <<live, authed, serverSubs, inFlight, refused>>

vars == <<private, subs, socket, closed, cancelled, sup, conn, todo, backoff,
          reader, hand, pinger, pending, fed, live, authed, serverSubs, inFlight,
          refused>>

\* A subscription that was replaced or removed while its handler was running.
Detached == "detached"

NoWrite == [op |-> "none", topic |-> None, socket |-> None]

Write == {NoWrite}
           \union [op : {"subscribe", "unsubscribe"}, topic : Topic, socket : SocketId]
           \union [op : {"close"}, topic : {None}, socket : SocketId]

SupState == {"unstarted", "top", "dial", "publish", "auth", "resubscribe", "run",
             "teardown", "returned", "sleep", "exited"}

TypeOK ==
    /\ private \in BOOLEAN
    /\ subs \in SUBSET Topic
    /\ socket \in SocketId \union {None}
    /\ closed \in BOOLEAN
    /\ cancelled \in BOOLEAN
    /\ sup \in SupState
    /\ conn \in SocketId \union {None}
    /\ todo \in SUBSET Topic
    /\ backoff \in {InitialBackoff} \union 0 .. MaxBackoff
    /\ reader \in {"off", "top", "read", "handle"}
    /\ hand \in Topic \union {None, Detached}
    /\ pinger \in BOOLEAN
    /\ pending \in [Client -> Write]
    /\ fed \in [Topic -> SocketId \union {None}]
    /\ live \in BOOLEAN
    /\ authed \in BOOLEAN
    /\ serverSubs \in SUBSET Topic
    /\ inFlight \in SUBSET Topic
    /\ refused \in SUBSET Topic

Init ==
    /\ private \in Endpoint
    /\ subs = {}
    /\ socket = None
    /\ closed = FALSE
    /\ cancelled = FALSE
    /\ sup = "unstarted"
    /\ conn = None
    /\ todo = {}
    /\ backoff = InitialBackoff
    /\ reader = "off"
    /\ hand = None
    /\ pinger = FALSE
    /\ pending = [c \in Client |-> NoWrite]
    /\ fed = [t \in Topic |-> None]
    /\ live = FALSE
    /\ authed = FALSE
    /\ serverSubs = {}
    /\ inFlight = {}
    /\ refused = {}

-------------------------------------------------------------------------------
(* Callers. *)

\* Start: once, whether or not the connection was closed.
Start ==
    /\ sup = "unstarted"
    /\ sup' = "top"
    /\ UNCHANGED <<private, registryVars, socket, closed, cancelled, conn, todo,
                   backoff, loopVars, pending, serverVars>>

\* The context given to Start is cancelled.
CancelContext ==
    /\ sup # "unstarted"
    /\ ~cancelled
    /\ cancelled' = TRUE
    /\ UNCHANGED <<private, registryVars, socket, closed, supVars, loopVars,
                   pending, serverVars>>

\* The write a caller owes once it has let go of the mutex.
Owes(c, op, t) ==
    pending' = IF socket = None THEN pending
               ELSE [pending EXCEPT ![c] = [op |-> op, topic |-> t, socket |-> socket]]

Detach(t) == hand' = IF hand = t THEN Detached ELSE hand

\* Mutant of Subscribe: the op is left to the next connection.
SubscribeLazily(c, t) ==
    /\ pending[c] = NoWrite
    /\ ~closed
    /\ subs' = subs \union {t}
    /\ fed' = [fed EXCEPT ![t] = None]
    /\ Detach(t)
    /\ UNCHANGED <<private, socket, closed, cancelled, supVars, reader, pinger,
                   pending, serverVars>>

\* Subscribe, up to c.mu.Unlock: a fresh subscription takes the topic.
Subscribe(c, t) ==
    /\ pending[c] = NoWrite
    /\ ~closed
    /\ subs' = subs \union {t}
    /\ fed' = [fed EXCEPT ![t] = None]
    /\ Detach(t)
    /\ Owes(c, "subscribe", t)
    /\ UNCHANGED <<private, socket, closed, cancelled, supVars, reader, pinger,
                   serverVars>>

\* Mutant of Unsubscribe: the topic stays in the registry.
UnsubscribeKeepingTopic(c, t) ==
    /\ pending[c] = NoWrite
    /\ Detach(t)
    /\ Owes(c, "unsubscribe", t)
    /\ UNCHANGED <<private, registryVars, socket, closed, cancelled, supVars, reader,
                   pinger, serverVars>>

\* Unsubscribe, up to c.mu.Unlock; the topic need not be known.
Unsubscribe(c, t) ==
    /\ pending[c] = NoWrite
    /\ subs' = subs \ {t}
    /\ Detach(t)
    /\ Owes(c, "unsubscribe", t)
    /\ UNCHANGED <<private, socket, closed, cancelled, fed, supVars, reader, pinger,
                   serverVars>>

\* Close, up to c.mu.Unlock: c.cancel is nil before Start.
Close(c) ==
    /\ pending[c] = NoWrite
    /\ ~closed
    /\ closed' = TRUE
    /\ cancelled' = (cancelled \/ sup # "unstarted")
    /\ Owes(c, "close", None)
    /\ socket' = None
    /\ UNCHANGED <<private, registryVars, supVars, loopVars, serverVars>>

\* The server takes a subscribe op once the connection is authenticated, if it has
\* to be, and refuses it before; the refusal is a control frame that is only logged.
Serve(op, t) ==
    \/ /\ op = "subscribe"
       /\ private => authed
       /\ serverSubs' = serverSubs \union {t}
       /\ refused' = refused \ {t}
    \/ /\ op = "subscribe"
       /\ private /\ ~authed
       /\ refused' = refused \union {t}
       /\ UNCHANGED serverSubs
    \/ /\ op = "unsubscribe"
       /\ serverSubs' = serverSubs \ {t}
       /\ UNCHANGED refused

\* The write reaches the server if the socket the caller saw still is the open one.
Send(c) ==
    /\ pending[c].op \in {"subscribe", "unsubscribe"}
    /\ pending' = [pending EXCEPT ![c] = NoWrite]
    /\ IF live /\ pending[c].socket = conn
       THEN Serve(pending[c].op, pending[c].topic)
       ELSE UNCHANGED <<serverSubs, refused>>
    /\ UNCHANGED <<private, registryVars, socket, closed, cancelled, supVars,
                   loopVars, live, authed, inFlight>>

\* Nothing is read or written on a socket closed at this end.
Hangup ==
    /\ live' = FALSE
    /\ authed' = FALSE
    /\ serverSubs' = {}
    /\ inFlight' = {}
    /\ refused' = {}

\* Close closes the socket it saw.
CloseSocket(c) ==
    /\ pending[c].op = "close"
    /\ pending' = [pending EXCEPT ![c] = NoWrite]
    /\ IF pending[c].socket = conn THEN Hangup ELSE UNCHANGED serverVars
    /\ UNCHANGED <<private, registryVars, socket, closed, cancelled, supVars,
                   loopVars>>

-------------------------------------------------------------------------------
(* The supervisor: supervise and connectAndRun. *)

Top ==
    /\ sup = "top"
    /\ sup' = IF cancelled THEN "exited" ELSE "dial"
    /\ UNCHANGED <<private, registryVars, socket, closed, cancelled, conn, todo,
                   backoff, loopVars, pending, serverVars>>

InUse == {pending[c].socket : c \in Client} \union {fed[t] : t \in Topic}

DialOk ==
    /\ sup = "dial"
    /\ ~cancelled
    /\ conn' = CHOOSE s \in SocketId : s \notin InUse
    /\ live' = TRUE
    /\ authed' = FALSE
    /\ serverSubs' = {}
    /\ inFlight' = {}
    /\ refused' = {}
    /\ sup' = "publish"
    /\ UNCHANGED <<private, registryVars, socket, closed, cancelled, todo, backoff,
                   loopVars, pending>>

DialFail ==
    /\ sup = "dial"
    /\ sup' = "returned"
    /\ UNCHANGED <<private, registryVars, socket, closed, cancelled, conn, todo,
                   backoff, loopVars, pending, serverVars>>

\* Mutant of Publish: the subscriptions are not Reset.
PublishWithoutReset ==
    /\ sup = "publish"
    /\ socket' = conn
    /\ todo' = subs
    /\ sup' = IF private THEN "auth" ELSE "resubscribe"
    /\ UNCHANGED <<private, registryVars, closed, cancelled, conn, backoff, loopVars,
                   pending, serverVars>>

\* Under the mutex: the socket is published, every subscription is Reset and
\* subsCopy is taken.  Whether the connection was closed is not asked.
Publish ==
    /\ sup = "publish"
    /\ socket' = conn
    /\ fed' = [t \in Topic |-> IF t \in subs THEN None ELSE fed[t]]
    /\ todo' = subs
    /\ sup' = IF private THEN "auth" ELSE "resubscribe"
    /\ UNCHANGED <<private, subs, closed, cancelled, conn, backoff,
                   loopVars, pending, serverVars>>

\* The server accepts the auth op.
AuthAccepted ==
    /\ sup = "auth"
    /\ live
    /\ authed' = TRUE
    /\ UNCHANGED <<private, registryVars, socket, closed, cancelled, supVars,
                   loopVars, pending, live, serverSubs, inFlight, refused>>

\* performAuth reads the ack.
AuthAck ==
    /\ sup = "auth"
    /\ authed
    /\ sup' = "resubscribe"
    /\ UNCHANGED <<private, registryVars, socket, closed, cancelled, conn, todo,
                   backoff, loopVars, pending, serverVars>>

\* Rejected, ten other frames, AuthTimeout, a broken socket or no credentials.
AuthFail ==
    /\ sup = "auth"
    /\ todo' = {}
    /\ sup' = "teardown"
    /\ UNCHANGED <<private, registryVars, socket, closed, cancelled, conn, backoff,
                   loopVars, pending, serverVars>>

\* An error of the write is only logged.
Resubscribe(t) ==
    /\ sup = "resubscribe"
    /\ t \in todo
    /\ todo' = todo \ {t}
    /\ IF live THEN Serve("subscribe", t) ELSE UNCHANGED <<serverSubs, refused>>
    /\ UNCHANGED <<private, registryVars, socket, closed, cancelled, sup, conn,
                   backoff, loopVars, pending, live, authed, inFlight>>

RunLoops ==
    /\ sup = "resubscribe"
    /\ todo = {}
    /\ reader' = "top"
    /\ pinger' = TRUE
    /\ sup' = "run"
    /\ UNCHANGED <<private, registryVars, socket, closed, cancelled, conn, todo,
                   backoff, hand, pending, serverVars>>

\* wg.Wait: both loops have returned.
Join ==
    /\ sup = "run"
    /\ reader = "off"
    /\ ~pinger
    /\ sup' = "teardown"
    /\ UNCHANGED <<private, registryVars, socket, closed, cancelled, conn, todo,
                   backoff, loopVars, pending, serverVars>>

\* Mutant of Teardown: the closed socket stays published.
TeardownKeepingSocket ==
    /\ sup = "teardown"
    /\ conn' = None
    /\ Hangup
    /\ sup' = "returned"
    /\ UNCHANGED <<private, registryVars, socket, closed, cancelled, todo, backoff,
                   loopVars, pending>>

\* The deferred function of connectAndRun.
Teardown ==
    /\ sup = "teardown"
    /\ socket' = IF socket = conn THEN None ELSE socket
    /\ conn' = None
    /\ Hangup
    /\ sup' = "returned"
    /\ UNCHANGED <<private, registryVars, closed, cancelled, todo, backoff,
                   loopVars, pending>>

\* Mutant of Returned: a connection that ended is not dialled again.
ReturnedForGood ==
    /\ sup = "returned"
    /\ sup' = "exited"
    /\ UNCHANGED <<private, registryVars, socket, closed, cancelled, conn, todo,
                   backoff, loopVars, pending, serverVars>>

Returned ==
    /\ sup = "returned"
    /\ sup' = IF cancelled THEN "exited" ELSE "sleep"
    /\ UNCHANGED <<private, registryVars, socket, closed, cancelled, conn, todo,
                   backoff, loopVars, pending, serverVars>>

\* Mutant of NextBackoff: no cap.
NextBackoffUncapped(b) == 2 * b

\* nextBackoff; the jitter of the sleep itself is left out.
NextBackoff(b) == IF 2 * b > MaxBackoff THEN MaxBackoff ELSE 2 * b

WakeUp ==
    /\ sup = "sleep"
    /\ backoff' = NextBackoff(backoff)
    /\ sup' = "top"
    /\ UNCHANGED <<private, registryVars, socket, closed, cancelled, conn, todo,
                   loopVars, pending, serverVars>>

SleepCancelled ==
    /\ sup = "sleep"
    /\ cancelled
    /\ sup' = "exited"
    /\ UNCHANGED <<private, registryVars, socket, closed, cancelled, conn, todo,
                   backoff, loopVars, pending, serverVars>>

-------------------------------------------------------------------------------
(* The loops of a socket. *)

\* Mutant of ReaderTop: the context is not looked at.
ReaderTopDeaf ==
    /\ reader = "top"
    /\ reader' = "read"
    /\ UNCHANGED <<private, registryVars, socket, closed, cancelled, supVars, hand,
                   pinger, pending, serverVars>>

ReaderTop ==
    /\ reader = "top"
    /\ reader' = IF cancelled THEN "off" ELSE "read"
    /\ UNCHANGED <<private, registryVars, socket, closed, cancelled, supVars, hand,
                   pinger, pending, serverVars>>

\* A push frame: its subscription is looked up, and the frame dropped without one.
ReadFrame(t) ==
    /\ reader = "read"
    /\ t \in inFlight
    /\ inFlight' = inFlight \ {t}
    /\ IF t \in subs
       THEN reader' = "handle" /\ hand' = t
       ELSE reader' = "top" /\ UNCHANGED hand
    /\ UNCHANGED <<private, registryVars, socket, closed, cancelled, supVars,
                   pinger, pending, live, authed, serverSubs, refused>>

\* The handler has run, outside the mutex, on the subscription it was looked up for.
HandlerReturns ==
    /\ reader = "handle"
    /\ reader' = "top"
    /\ fed' = IF hand \in Topic THEN [fed EXCEPT ![hand] = conn] ELSE fed
    /\ hand' = None
    /\ UNCHANGED <<private, subs, socket, closed, cancelled, supVars, pinger,
                   pending, serverVars>>

\* A broken or closed socket, or ReadTimeout without a frame.
ReadError ==
    /\ reader = "read"
    /\ reader' = "off"
    /\ UNCHANGED <<private, registryVars, socket, closed, cancelled, supVars, hand,
                   pinger, pending, serverVars>>

\* A ping could not be written, or the context of the loops is done.
PingerExit ==
    /\ pinger
    /\ pinger' = FALSE
    /\ UNCHANGED <<private, registryVars, socket, closed, cancelled, supVars,
                   reader, hand, pending, serverVars>>

-------------------------------------------------------------------------------
(* The other end. *)

ServerPush(t) ==
    /\ live
    /\ t \in serverSubs
    /\ inFlight' = inFlight \union {t}
    /\ UNCHANGED <<private, registryVars, socket, closed, cancelled, supVars,
                   loopVars, pending, live, authed, serverSubs, refused>>

\* The connection breaks; frames that have arrived can still be read.
Break ==
    /\ live
    /\ live' = FALSE
    /\ authed' = FALSE
    /\ serverSubs' = {}
    /\ refused' = {}
    /\ UNCHANGED <<private, registryVars, socket, closed, cancelled, supVars,
                   loopVars, pending, inFlight>>

-------------------------------------------------------------------------------

Caller ==
    \E c \in Client :
        \/ \E t \in Topic : Subscribe(c, t) \/ Unsubscribe(c, t)
        \/ Close(c)
        \/ Send(c)
        \/ CloseSocket(c)

SupervisorStep ==
    \/ Top \/ DialFail \/ Publish \/ AuthAck \/ AuthFail
    \/ \E t \in Topic : Resubscribe(t)
    \/ RunLoops \/ Join \/ Teardown \/ Returned \/ WakeUp \/ SleepCancelled

ReaderStep ==
    \/ ReaderTop \/ HandlerReturns \/ ReadError
    \/ \E t \in Topic : ReadFrame(t)

Next ==
    \/ Start
    \/ CancelContext
    \/ Caller
    \/ SupervisorStep
    \/ DialOk
    \/ ReaderStep
    \/ PingerExit
    \/ AuthAccepted
    \/ \E t \in Topic : ServerPush(t)
    \/ Break

Spec == Init /\ [][Next]_vars

\* Goroutines run on: blocking calls return, by a result or by their timeout.  The
\* network lets dialling, and after it every step up to the read loop, succeed again
\* and again.
FairSpec ==
    /\ Spec
    /\ WF_vars(SupervisorStep)
    /\ WF_vars(ReaderStep)
    /\ WF_vars(PingerExit /\ (cancelled \/ reader = "off"))
    /\ \A c \in Client : WF_vars(Send(c) \/ CloseSocket(c))
    /\ SF_vars(DialOk)
    /\ SF_vars(live /\ Publish)
    /\ SF_vars(AuthAccepted)
    /\ SF_vars(AuthAck)
    /\ \A t \in Topic : SF_vars(live /\ Resubscribe(t))

-------------------------------------------------------------------------------
(* Properties. *)

Quiet == \A c \in Client : pending[c] = NoWrite

\* While the loops run and no caller owes a write, the server pushes every topic of
\* the registry, but for the topics it refused because a caller sent them before the
\* authentication: no other race of a caller with a reconnect loses a topic
\* (conn.go:220-222: a subscribe op is sent at once if the socket is up and
\* "automatically on the next successful (re)connect" otherwise).
RegistryIsServedOrRefused ==
    sup = "run" /\ live /\ Quiet => subs \subseteq serverSubs \union refused

\* What a subscription has been fed on an older socket is gone before frames of the
\* new one are read (conn.go:325-327).
ResetBeforeFrames == reader # "off" => \A t \in subs : fed[t] \in {None, conn}

\* Callers never see a socket that the supervisor has let go of: what Subscribe
\* writes goes to the current connection or waits for the next one.
PublishedSocketIsOwned ==
    socket # None => socket = conn /\ sup \in {"auth", "resubscribe", "run", "teardown"}

\* A cancelled connection stops: no goroutine and no socket is left
\* (TS-SINGLE-EXCHANGE-SDK-EN.md:292, "No goroutine leaks on context cancellation").
CancelStops ==
    cancelled ~> /\ sup = "exited"
                 /\ conn = None /\ socket = None
                 /\ reader = "off" /\ ~pinger

\* conn.go:52-53: "On Conn.Close() the supervisor exits cleanly without further
\* reconnect attempts".
CloseStops == closed ~> sup \in {"unstarted", "exited"}

\* A topic of the registry is pushed in the end, however often the network fails,
\* unless it is refused or the caller gives up the topic or the connection.
SubscriptionIsServed ==
    \A t \in Topic :
        (t \in subs /\ sup # "unstarted") ~>
            (t \in serverSubs \union refused \/ t \notin subs \/ closed \/ cancelled)

-------------------------------------------------------------------------------
(* The strengthening that makes the safety properties inductive. *)

Serving == {"auth", "resubscribe", "run"}

\* Until it is closed, the connection shows the socket of connectAndRun.
SocketIsPublished == (~closed /\ sup \in Serving \union {"teardown"}) => socket = conn

ConnIsOwned == conn # None <=> sup \in Serving \union {"publish", "teardown"}

\* Frames are read only while connectAndRun waits for its loops.
LoopsAreJoined ==
    /\ reader # "off" => sup = "run"
    /\ hand # None => reader = "handle"

\* Every subscription was Reset, or made, since the socket was published.
FedByThisSocket == sup \in Serving => \A t \in subs : fed[t] \in {None, conn}

ConnInv ==
    /\ PublishedSocketIsOwned
    /\ SocketIsPublished
    /\ ConnIsOwned
    /\ LoopsAreJoined
    /\ FedByThisSocket

\* A caller that owes an unsubscribe has taken the topic off the registry.
UnsubscribeFollowsRegistry ==
    \A c \in Client : pending[c].op = "unsubscribe" => pending[c].topic \notin subs

SubscribeOp(t) == [op |-> "subscribe", topic |-> t, socket |-> conn]

\* A topic that the server neither pushes nor refused is still to be sent, by the
\* supervisor or by a caller that saw this socket.
TopicIsOnItsWay ==
    (sup \in Serving /\ live) =>
        \A t \in subs :
            \/ t \in serverSubs \union refused
            \/ sup # "run" /\ t \in todo
            \/ \E c \in Client : pending[c] = SubscribeOp(t)

\* Of one caller: with two, an unsubscribe may be written after a later subscribe.
RegistryInv == UnsubscribeFollowsRegistry /\ TopicIsOnItsWay

===============================================================================
