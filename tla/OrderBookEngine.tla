--------------------------- MODULE OrderBookEngine ---------------------------
(***************************************************************************)
(* orderbook.Engine as it is written: two slices of levels sorted best     *)
(* first, binary search, insertion, removal and truncation                 *)
(* (src/orderbook/engine.go).  A level is a record; seq and ts, which the  *)
(* engine stamps next to u and never reads, are left out.                  *)
(***************************************************************************)
EXTENDS Integers, Sequences, FiniteSets, SequencesExt

CONSTANTS
    Price,      \* price levels
    Size,       \* level sizes, 0 included
    MaxDepth,   \* levels kept per side
    UpdateId,   \* the values of "u" that a call may carry
    Call        \* rows that a call may carry: [bids, asks : Seq(Level)]

Level == [price : Price, size : Size]

ASSUME OrderBookAssumption ==
    /\ Price \subseteq Int
    /\ Size \subseteq Nat
    /\ 0 \in Size
    /\ MaxDepth \in Nat \ {0}
    /\ UpdateId \subseteq Nat
    /\ Call \subseteq [bids : Seq(Level), asks : Seq(Level)]

VARIABLES bids, asks, lastU, primed, dirty

vars == <<bids, asks, lastU, primed, dirty>>

\* The "less" closures of the two sides: a comes before b.
Before(side, a, b) == IF side = "bid" THEN a > b ELSE a < b

\* sort.Search: the first index whose level does not come before price.
SearchIndex(side, arr, price) ==
    CHOOSE i \in 1 .. Len(arr) + 1 :
        /\ i <= Len(arr) => ~Before(side, arr[i].price, price)
        /\ \A j \in 1 .. i - 1 : Before(side, arr[j].price, price)

\* Mutant of ApplyLevel: the level found is not compared with the price.
ApplyLevelUnchecked(side, arr, lvl) ==
    LET i == SearchIndex(side, arr, lvl.price)
        found == i <= Len(arr)
    IN  CASE found /\ lvl.size = 0  -> RemoveAt(arr, i)
          [] found /\ lvl.size # 0  -> [arr EXCEPT ![i].size = lvl.size]
          [] ~found /\ lvl.size # 0 -> InsertAt(arr, i, lvl)
          [] OTHER -> arr

ApplyLevel(side, arr, lvl) ==
    LET i == SearchIndex(side, arr, lvl.price)
        found == i <= Len(arr) /\ arr[i].price = lvl.price
    IN  CASE found /\ lvl.size = 0  -> RemoveAt(arr, i)
          [] found /\ lvl.size # 0  -> [arr EXCEPT ![i].size = lvl.size]
          [] ~found /\ lvl.size # 0 -> InsertAt(arr, i, lvl)
          [] OTHER -> arr

\* The rows of a delta one after the other.
ApplyLevels(side, arr, rows) ==
    LET after[n \in 0 .. Len(rows)] ==
            IF n = 0 THEN arr ELSE ApplyLevel(side, after[n - 1], rows[n])
    IN  after[Len(rows)]

\* Mutant of Trim: one level too many is kept.
TrimLate(arr) == IF Len(arr) > MaxDepth + 1 THEN SubSeq(arr, 1, MaxDepth + 1) ELSE arr

Trim(arr) == IF Len(arr) > MaxDepth THEN SubSeq(arr, 1, MaxDepth) ELSE arr

\* The rows of a delta, then trimLocked.
ApplyRows(side, arr, rows) == Trim(ApplyLevels(side, arr, rows))

\* A stable sort: row i goes before row j if its price does, or if it already did and
\* the prices are equal.
GoesBefore(side, rows, i, j) ==
    \/ Before(side, rows[i].price, rows[j].price)
    \/ rows[i].price = rows[j].price /\ i < j

Kept(rows) == {i \in DOMAIN rows : rows[i].size # 0}

\* The number of rows that go before row i.
Rank(side, rows, i) == Cardinality({j \in Kept(rows) : GoesBefore(side, rows, j, i)})

CopyLevelsSorted(side, rows) ==
    Trim([n \in 1 .. Cardinality(Kept(rows)) |->
              rows[CHOOSE i \in Kept(rows) : Rank(side, rows, i) = n - 1]])

\* Mutant of TopLevels: the levels are taken from the wrong end.
TopLevelsFromEnd(arr, n) ==
    IF n > 0 /\ n < Len(arr) THEN SubSeq(arr, Len(arr) - n + 1, Len(arr)) ELSE arr

TopLevels(arr, n) == IF n > 0 /\ n < Len(arr) THEN SubSeq(arr, 1, n) ELSE arr

-------------------------------------------------------------------------------

Init ==
    /\ bids = <<>>
    /\ asks = <<>>
    /\ lastU = 0
    /\ primed = FALSE
    /\ dirty = FALSE

ApplySnapshot(c, u) ==
    /\ bids' = CopyLevelsSorted("bid", c.bids)
    /\ asks' = CopyLevelsSorted("ask", c.asks)
    /\ lastU' = u
    /\ primed' = TRUE
    /\ dirty' = FALSE

\* Mutant of ApplyDelta: a restart of the matcher is not told from the next update.
ApplyDeltaOnRestart(c, u) ==
    \/ /\ ~primed \/ u # lastU + 1
       /\ dirty' = TRUE
       /\ UNCHANGED <<bids, asks, lastU, primed>>
    \/ /\ primed /\ u = lastU + 1
       /\ bids' = ApplyRows("bid", bids, c.bids)
       /\ asks' = ApplyRows("ask", asks, c.asks)
       /\ lastU' = u
       /\ UNCHANGED <<primed, dirty>>

ApplyDelta(c, u) ==
    \/ /\ ~primed \/ u = 1 \/ u # lastU + 1
       /\ dirty' = TRUE
       /\ UNCHANGED <<bids, asks, lastU, primed>>
    \/ /\ primed /\ u # 1 /\ u = lastU + 1
       /\ bids' = ApplyRows("bid", bids, c.bids)
       /\ asks' = ApplyRows("ask", asks, c.asks)
       /\ lastU' = u
       /\ UNCHANGED <<primed, dirty>>

\* Mutant of MarkResynced: the next update is stamped instead of the last.
MarkResyncedAhead(u) ==
    /\ lastU' = u + 1
    /\ primed' = TRUE
    /\ dirty' = FALSE
    /\ UNCHANGED <<bids, asks>>

MarkResynced(u) ==
    /\ lastU' = u
    /\ primed' = TRUE
    /\ dirty' = FALSE
    /\ UNCHANGED <<bids, asks>>

\* A frame names each price at most once, as the exchange's frames do.
DistinctPrices(rows) == \A i, j \in DOMAIN rows : rows[i].price = rows[j].price => i = j

Next ==
    \E u \in UpdateId :
        \/ \E c \in Call :
            /\ DistinctPrices(c.bids)
            /\ DistinctPrices(c.asks)
            /\ ApplySnapshot(c, u)
        \/ \E c \in Call : ApplyDelta(c, u)
        \/ MarkResynced(u)

Spec == Init /\ [][Next]_vars

-------------------------------------------------------------------------------

TypeOK ==
    /\ bids \in Seq(Level)
    /\ asks \in Seq(Level)
    /\ lastU \in UpdateId \union {0}
    /\ primed \in BOOLEAN
    /\ dirty \in BOOLEAN

\* Each side stays strictly sorted, best price first, without empty levels and
\* within the configured depth: what binary search and TopLevels rely on after
\* any sequence of snapshots, deltas and resyncs (engine.go:329, 284-302).
SortedSide(side, arr) ==
    /\ Len(arr) <= MaxDepth
    /\ \A i \in DOMAIN arr : arr[i].size # 0
    /\ \A i, j \in DOMAIN arr : i < j => Before(side, arr[i].price, arr[j].price)

SortedSides == SortedSide("bid", bids) /\ SortedSide("ask", asks)

\* The meaning of the slices: the refinement mapping to BookEngine.  Of two rows
\* for one price the later one counts.
At(arr, price) == {i \in DOMAIN arr : arr[i].price = price}

SizeAt(arr, price) ==
    IF At(arr, price) = {} THEN 0
    ELSE arr[CHOOSE i \in At(arr, price) : \A j \in At(arr, price) : j <= i].size

AsBook(b, a) ==
    [k \in {"bid", "ask"} \X Price |-> SizeAt(IF k[1] = "bid" THEN b ELSE a, k[2])]

RowsOf(c) ==
    [k \in {<<"bid", c.bids[i].price>> : i \in DOMAIN c.bids}
          \union {<<"ask", c.asks[i].price>> : i \in DOMAIN c.asks}
        |-> SizeAt(IF k[1] = "bid" THEN c.bids ELSE c.asks, k[2])]

BothSides == {"bid", "ask"}

CallBooks == {AsBook(c.bids, c.asks) : c \in Call}

CallRows == {RowsOf(c) : c \in Call}

Abstract == INSTANCE BookEngine WITH
    Side <- BothSides,
    SnapshotBook <- CallBooks,
    DeltaRows <- CallRows,
    levels <- AsBook(bids, asks)

\* Every step is one that BookEngine allows: gaps freeze the book, only a snapshot
\* or a resync lifts the flag (engine.go:183-280).
RefinesBookEngine == Abstract!EngineSpec

\* The rows of a call do to the slices what they mean for the book: they replace,
\* insert or remove their own level and no other, and what is cut off are the worst
\* levels, whatever the calls before (engine.go:321-397).
RowsMeanBooks ==
    \A c \in Call :
        /\ AsBook(ApplyRows("bid", bids, c.bids), ApplyRows("ask", asks, c.asks))
              = Abstract!KeepBest(Abstract!Override(AsBook(bids, asks), RowsOf(c)), MaxDepth)
        /\ (DistinctPrices(c.bids) /\ DistinctPrices(c.asks)) =>
              AsBook(CopyLevelsSorted("bid", c.bids), CopyLevelsSorted("ask", c.asks))
                 = Abstract!KeepBest(AsBook(c.bids, c.asks), MaxDepth)

\* TopLevels(n) hands out the n best levels of each side (engine.go:284-302).
TopLevelsAreBest ==
    \A n \in 1 .. MaxDepth + 1 :
        AsBook(TopLevels(bids, n), TopLevels(asks, n))
            = Abstract!KeepBest(AsBook(bids, asks), n)

===============================================================================
