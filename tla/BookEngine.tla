------------------------------ MODULE BookEngine ------------------------------
(***************************************************************************)
(* What orderbook.Engine promises, over books as functions: the gap rules  *)
(* of ApplyDelta, the reset of ApplySnapshot and the stamp of              *)
(* MarkResynced.  OrderBookEngine implements it with sorted slices, and    *)
(* BookFeed drives it from the frames of a connection.                     *)
(***************************************************************************)
EXTENDS BookLevels

CONSTANTS
    UpdateId,       \* the values of "u" that a call may carry
    SnapshotBook,   \* the books that a snapshot may carry
    DeltaRows       \* the rows that a delta may carry

ASSUME EngineAssumption ==
    /\ UpdateId \subseteq Nat
    /\ SnapshotBook \subseteq Book
    /\ DeltaRows \subseteq Rows

VARIABLES
    levels,     \* bids and asks
    lastU,      \* "u" of the last applied call
    primed,     \* a snapshot or a resync was seen
    dirty       \* a gap was seen since then

engineVars == <<levels, lastU, primed, dirty>>

EngineTypeOK ==
    /\ levels \in Book
    /\ lastU \in Nat
    /\ primed \in BOOLEAN
    /\ dirty \in BOOLEAN

EngineInit ==
    /\ levels = EmptyBook
    /\ lastU = 0
    /\ primed = FALSE
    /\ dirty = FALSE

ApplySnapshot(b, u) ==
    /\ levels' = KeepBest(b, MaxDepth)
    /\ lastU' = u
    /\ primed' = TRUE
    /\ dirty' = FALSE

\* Mutant of Gap: a restart of the matcher is not told from the next update.
GapIgnoringRestart(u) ==
    CASE ~primed -> "initial"
      [] primed /\ u # lastU + 1 -> "sequence"
      [] OTHER -> "none"

\* The outcome of ApplyDelta, checked in this order.
Gap(u) ==
    CASE ~primed        -> "initial"
      [] primed /\ u = 1 -> "service_restart"
      [] primed /\ u # 1 /\ u # lastU + 1 -> "sequence"
      [] OTHER -> "none"

\* A gap only raises the flag.
RejectDelta(u) ==
    /\ Gap(u) # "none"
    /\ dirty' = TRUE
    /\ UNCHANGED <<levels, lastU, primed>>

\* Without a gap the rows are applied, whether or not the engine is dirty.
AcceptDelta(rows, u) ==
    /\ Gap(u) = "none"
    /\ levels' = KeepBest(Override(levels, rows), MaxDepth)
    /\ lastU' = u
    /\ UNCHANGED <<primed, dirty>>

ApplyDelta(rows, u) == RejectDelta(u) \/ AcceptDelta(rows, u)

\* Mutant of MarkResynced: stamped so that an update u would be the next.
MarkResyncedBefore(u) ==
    /\ lastU' = u - 1
    /\ primed' = TRUE
    /\ dirty' = FALSE
    /\ UNCHANGED levels

\* Stamps the engine and keeps its levels.
MarkResynced(u) ==
    /\ lastU' = u
    /\ primed' = TRUE
    /\ dirty' = FALSE
    /\ UNCHANGED levels

EngineNext ==
    \E u \in UpdateId :
        \/ \E b \in SnapshotBook : ApplySnapshot(b, u)
        \/ \E rows \in DeltaRows : ApplyDelta(rows, u)
        \/ MarkResynced(u)

EngineSpec == EngineInit /\ [][EngineNext]_engineVars

===============================================================================
