------------------------------- MODULE BookFeed -------------------------------
(***************************************************************************)
(* One order book subscription end to end: the exchange's book for the     *)
(* topic, the frames in flight on the current socket, the dispatcher of    *)
(* StreamClient.WatchOrderBook and the local engine it feeds.  The engine  *)
(* is BookEngine; the connection is reduced to what the dispatcher sees of *)
(* ws.Conn: Reset and resubscription on every new socket, frames of one    *)
(* socket in order, none after it was closed.                              *)
(*                                                                         *)
(* The exchange numbers its books with "u".  A restart of its matcher      *)
(* begins a new epoch at u = 1 and announces it to the subscribers.        *)
(***************************************************************************)
EXTENDS BookEngine, Sequences

CONSTANTS
    Epochs,         \* matcher epochs, 1 .. Epochs
    LastUpdateId,   \* the largest "u" of an epoch
    WireDepth,      \* depth of the topic: levels per side the exchange shows
    DisplayDepth,   \* levels per side handed to the handler, 0 for all
    MaxWire         \* frames in flight at most

ASSUME FeedAssumption ==
    /\ Epochs \in Nat \ {0}
    /\ LastUpdateId \in Nat \ {0}
    /\ WireDepth \in Nat
    /\ DisplayDepth \in Nat
    /\ MaxWire \in Nat

VARIABLES
    version,    \* <<epoch, u>> of the exchange's current book
    history,    \* history[v] is the exchange's book at version v
    serverSub,  \* the exchange pushes the topic on the current socket
    up,         \* the socket is up
    wire,       \* frames sent on the current socket and not yet read
    watching,   \* the topic is in the registry of the connection
    epoch,      \* ghost: epoch of the last frame the engine applied
    delivered   \* the last OrderBookSnapshot given to the handler

feedVars == <<version, history, serverSub, up, wire, watching, epoch, delivered>>

vars == <<engineVars, feedVars>>

Version == (1 .. Epochs) \X (1 .. LastUpdateId)

\* Version v precedes version w on the exchange.
Earlier(v, w) == v[1] < w[1] \/ (v[1] = w[1] /\ v[2] < w[2])

View == {b \in Book : DepthAtMost(b, WireDepth)}

Frame == [type : {"snapshot", "delta"}, version : Version, rows : Rows]

\* Before the first delivery there is nothing to compare.
NothingDelivered == [version |-> <<0, 0>>, view |-> EmptyBook]

\* TopLevels(displayDepth).
Display(b) == IF DisplayDepth = 0 THEN b ELSE KeepBest(b, DisplayDepth)

TypeOK ==
    /\ EngineTypeOK
    /\ version \in Version
    /\ history \in [Version -> View]
    /\ serverSub \in BOOLEAN
    /\ up \in BOOLEAN
    /\ wire \in Seq(Frame)
    /\ watching \in BOOLEAN
    /\ epoch \in 0 .. Epochs
    /\ delivered \in [version : Version \union {<<0, 0>>}, view : Book]

Init ==
    /\ EngineInit
    /\ version = <<1, 1>>
    /\ history = [v \in Version |-> EmptyBook]
    /\ serverSub = FALSE
    /\ up = FALSE
    /\ wire = <<>>
    /\ watching = FALSE
    /\ epoch = 0
    /\ delivered = NothingDelivered

-------------------------------------------------------------------------------
(* The exchange. *)

SnapshotOf(v, b) == [type |-> "snapshot", version |-> v, rows |-> b]

DeltaTo(v, a, b) == [type |-> "delta", version |-> v, rows |-> Diff(a, b)]

CurrentSnapshot == SnapshotOf(version, history[version])

Room == Len(wire) < MaxWire

\* The book moves on by one update, announced to a subscriber as a delta.
ExchangeUpdate ==
    /\ version[2] < LastUpdateId
    /\ LET next == <<version[1], version[2] + 1>>
       IN \E b \in View :
            /\ b # history[version]
            /\ version' = next
            /\ history' = [history EXCEPT ![next] = b]
            /\ \/ /\ serverSub
                  /\ Room
                  /\ wire' = Append(wire, DeltaTo(next, history[version], b))
               \/ /\ ~serverSub
                  /\ UNCHANGED wire
    /\ UNCHANGED <<engineVars, serverSub, up, watching, epoch, delivered>>

\* The matcher restarts with any book at u = 1 and tells its subscribers, with a
\* snapshot or with a delta.
ServiceRestart ==
    /\ version[1] < Epochs
    /\ LET next == <<version[1] + 1, 1>>
       IN \E b \in View :
            /\ version' = next
            /\ history' = [history EXCEPT ![next] = b]
            /\ \/ /\ serverSub
                  /\ Room
                  /\ \E f \in {SnapshotOf(next, b), DeltaTo(next, history[version], b)} :
                        wire' = Append(wire, f)
               \/ /\ ~serverSub
                  /\ UNCHANGED wire
    /\ UNCHANGED <<engineVars, serverSub, up, watching, epoch, delivered>>

\* The exchange may repeat a snapshot on a live subscription.
PushSnapshot ==
    /\ serverSub
    /\ Room
    /\ wire' = Append(wire, CurrentSnapshot)
    /\ UNCHANGED <<engineVars, version, history, serverSub, up, watching, epoch,
                   delivered>>

-------------------------------------------------------------------------------
(* The connection, as the subscription sees it. *)

\* connectAndRun: Reset of every registered subscription, then resubscription,
\* which the exchange answers with a snapshot.
Connect ==
    /\ ~up
    /\ up' = TRUE
    /\ serverSub' = watching
    /\ \/ /\ watching
          /\ MarkResynced(0)
          /\ epoch' = 0
          /\ Room
          /\ wire' = Append(wire, CurrentSnapshot)
       \/ /\ ~watching
          /\ UNCHANGED <<engineVars, epoch, wire>>
    /\ UNCHANGED <<version, history, watching, delivered>>

\* Mutant of Disconnect: the old socket is still read from.
DisconnectKeepingWire ==
    /\ up
    /\ up' = FALSE
    /\ serverSub' = FALSE
    /\ UNCHANGED <<engineVars, version, history, wire, watching, epoch, delivered>>

\* The socket is closed and what was in flight on it is never read.
Disconnect ==
    /\ up
    /\ up' = FALSE
    /\ serverSub' = FALSE
    /\ wire' = <<>>
    /\ UNCHANGED <<engineVars, version, history, watching, epoch, delivered>>

\* WatchOrderBook: a fresh engine replaces the one registered for the topic.  The
\* exchange answers a new subscription with a snapshot and a repeated one with a
\* snapshot or not at all.
Watch ==
    /\ watching' = TRUE
    /\ levels' = EmptyBook
    /\ lastU' = 0
    /\ primed' = FALSE
    /\ dirty' = FALSE
    /\ epoch' = 0
    /\ delivered' = NothingDelivered
    /\ \/ /\ up
          /\ Room
          /\ serverSub' = TRUE
          /\ \/ wire' = Append(wire, CurrentSnapshot)
             \/ serverSub /\ UNCHANGED wire
       \/ /\ ~up
          /\ UNCHANGED <<serverSub, wire>>
    /\ UNCHANGED <<version, history, up>>

\* Unsubscribe: frames in flight are still read, and dropped.
Unsubscribe ==
    /\ watching
    /\ watching' = FALSE
    /\ serverSub' = FALSE
    /\ UNCHANGED <<engineVars, version, history, up, wire, epoch, delivered>>

-------------------------------------------------------------------------------
(* The dispatcher: applyOrderbookFrame on the frame at the head of the wire. *)

HeadFrame == Head(wire)

\* After the apply the handler is called unless the engine is dirty.
DeliverIfClean(v) ==
    delivered' = IF dirty' THEN delivered
                 ELSE [version |-> v, view |-> Display(levels')]

ReadSnapshot ==
    /\ watching
    /\ HeadFrame.type # "delta"
    /\ ApplySnapshot(FromRows(HeadFrame.rows), HeadFrame.version[2])
    /\ epoch' = HeadFrame.version[1]
    /\ DeliverIfClean(HeadFrame.version)

ReadDelta ==
    /\ watching
    /\ HeadFrame.type = "delta"
    /\ AcceptDelta(HeadFrame.rows, HeadFrame.version[2])
    /\ epoch' = HeadFrame.version[1]
    /\ DeliverIfClean(HeadFrame.version)

\* A gap: nothing is delivered; the call of errHandler changes no state.
ReadGap ==
    /\ watching
    /\ HeadFrame.type = "delta"
    /\ RejectDelta(HeadFrame.version[2])
    /\ UNCHANGED <<epoch, delivered>>

ReadUnregistered ==
    /\ ~watching
    /\ UNCHANGED <<engineVars, epoch, delivered>>

\* Mutant of ReadFrame: frames are handed to goroutines of their own, so that a later
\* one may overtake.
ReadFrameOvertaking ==
    \/ /\ wire # <<>>
       /\ wire' = Tail(wire)
       /\ ReadSnapshot \/ ReadDelta \/ ReadGap \/ ReadUnregistered
       /\ UNCHANGED <<version, history, serverSub, up, watching>>
    \/ /\ Len(wire) = 2
       /\ wire' = <<wire[2], wire[1]>>
       /\ UNCHANGED <<engineVars, version, history, serverSub, up, watching, epoch,
                      delivered>>

ReadFrame ==
    /\ wire # <<>>
    /\ wire' = Tail(wire)
    /\ ReadSnapshot \/ ReadDelta \/ ReadGap \/ ReadUnregistered
    /\ UNCHANGED <<version, history, serverSub, up, watching>>

\* A frame that is never applied: skipped at the source, or dropped by the
\* dispatcher because its payload does not parse.  The frame that first tells a
\* clean engine of a new epoch is not lost: "u" alone cannot tell epochs apart.
LoseFrame ==
    /\ wire # <<>>
    /\ dirty \/ epoch \in {0, HeadFrame.version[1]}
    /\ wire' = Tail(wire)
    /\ UNCHANGED <<engineVars, version, history, serverSub, up, watching, epoch,
                   delivered>>

-------------------------------------------------------------------------------

Next ==
    \/ ExchangeUpdate
    \/ ServiceRestart
    \/ PushSnapshot
    \/ Connect
    \/ Disconnect
    \/ Watch
    \/ Unsubscribe
    \/ ReadFrame
    \/ LoseFrame

Spec == Init /\ [][Next]_vars

\* The read loop reads whatever the socket holds and the supervisor redials.
FairSpec == Spec /\ WF_vars(ReadFrame) /\ WF_vars(Connect)

-------------------------------------------------------------------------------
(* Properties. *)

\* Every book given to the handler is the one the exchange had at that update,
\* cut to the display depth: no lost frame, reconnect, restart or re-watch makes
\* a wrong book look right (linears/stream.go:186-240).
DeliveredIsExchangeBook ==
    delivered # NothingDelivered =>
        delivered.view = Display(history[delivered.version])

\* What the handler sees never goes back in the exchange's time, within a
\* connection or across reconnects (until the topic is watched anew).
DeliveredMovesForward ==
    [][delivered' # NothingDelivered => ~Earlier(delivered'.version, delivered.version)]_vars

\* orderbook/doc.go:14-16: on a gap the engine waits for a resync that is wired
\* "to the StreamClient resubscription path": a live subscription recovers.
GapIsRepaired == (dirty /\ watching /\ up) ~> (~dirty \/ ~watching \/ ~up)

-------------------------------------------------------------------------------
(* The strengthening that makes DeliveredIsExchangeBook inductive when the *)
(* local depth covers the depth of the topic.                              *)

\* The registered engine holds a book it would deliver.
Synced == watching /\ primed /\ ~dirty /\ lastU # 0

EngineVersion == <<epoch, lastU>>

\* A frame that moves an engine of an older epoch off its book.
IsNotice(f) == f.type = "snapshot" \/ f.version[2] = 1

\* Frames carry what they say: the book of their version, or the change from the
\* update before.
WireCarriesHistory ==
    \A i \in 1 .. Len(wire) :
        /\ ~Earlier(version, wire[i].version)
        /\ wire[i].type = "snapshot" => wire[i].rows = history[wire[i].version]
        /\ ~IsNotice(wire[i]) =>
              history[wire[i].version] =
                 Override(history[<<wire[i].version[1], wire[i].version[2] - 1>>],
                          wire[i].rows)

\* Frames are in the exchange's order, all of them after what the engine holds
\* and after what was delivered.
FramesInOrder ==
    \A i, j \in 1 .. Len(wire) : i < j => ~Earlier(wire[j].version, wire[i].version)

EngineBehindWire ==
    Synced => \A i \in 1 .. Len(wire) : ~Earlier(wire[i].version, EngineVersion)

DeliveredBehindWire ==
    \A i \in 1 .. Len(wire) : ~Earlier(wire[i].version, delivered.version)

WireIsOrdered == FramesInOrder /\ EngineBehindWire /\ DeliveredBehindWire

\* Between the engine, the frames and the next frame to be sent, no step into
\* another epoch goes without its notice.
Announced(w, e, first, last) ==
    \E k \in first .. last : w[k].version[1] = e /\ IsNotice(w[k])

FramesAnnounce ==
    \A i, j \in 1 .. Len(wire) :
        (i < j /\ wire[i].version[1] # wire[j].version[1]) =>
            Announced(wire, wire[j].version[1], i + 1, j)

SubscriberIsTold ==
    \A i \in 1 .. Len(wire) :
        (serverSub /\ wire[i].version[1] # version[1]) =>
            Announced(wire, version[1], i + 1, Len(wire))

EngineIsTold ==
    Synced => /\ \A i \in 1 .. Len(wire) :
                    wire[i].version[1] # epoch =>
                        Announced(wire, wire[i].version[1], 1, i)
              /\ (serverSub /\ epoch # version[1]) =>
                    Announced(wire, version[1], 1, Len(wire))

EpochsAreAnnounced == FramesAnnounce /\ SubscriberIsTold /\ EngineIsTold

EngineHoldsHistory ==
    Synced => /\ EngineVersion \in Version
              /\ ~Earlier(version, EngineVersion)
              /\ levels = history[EngineVersion]

DeliveredIsPast ==
    /\ ~Earlier(version, delivered.version)
    /\ delivered # NothingDelivered => delivered.version \in Version

\* Without a socket nothing is in flight.
WireNeedsSocket == ~up => wire = <<>> /\ ~serverSub

FeedInv ==
    /\ WireCarriesHistory
    /\ WireIsOrdered
    /\ EpochsAreAnnounced
    /\ EngineHoldsHistory
    /\ DeliveredIsPast
    /\ WireNeedsSocket
    /\ DeliveredIsExchangeBook

===============================================================================
