------------------------------ MODULE BookLevels ------------------------------
(***************************************************************************)
(* The two sides of an L2 order book as one function from level keys to    *)
(* sizes: the meaning of the sorted slices that orderbook.Engine keeps.    *)
(* Size 0 stands for "no such level", as it does on the wire.              *)
(***************************************************************************)
EXTENDS Integers, FiniteSets

CONSTANTS
    Side,       \* sides kept by the book, a subset of {"bid", "ask"}
    Price,      \* price levels
    Size,       \* level sizes, 0 included
    MaxDepth    \* Config.Orderbook.MaxDepth, the levels kept per side

ASSUME BookAssumption ==
    /\ Side \subseteq {"bid", "ask"}
    /\ Price \subseteq Int
    /\ IsFiniteSet(Price)
    /\ Size \subseteq Nat
    /\ 0 \in Size
    /\ MaxDepth \in Nat \ {0}

Key == Side \X Price

Book == [Key -> Size]

EmptyBook == [k \in Key |-> 0]

\* The rows of one frame: the sizes of the levels it mentions.
Rows == UNION {[D -> Size] : D \in SUBSET Key}

\* Bids are ordered by descending price, asks by ascending price.
Better(k, m) ==
    /\ k[1] = m[1]
    /\ IF k[1] = "bid" THEN k[2] > m[2] ELSE k[2] < m[2]

\* The levels of b on k's side that come before k in the slice.
Ahead(b, k) == {m \in Key : b[m] # 0 /\ Better(m, k)}

\* The n best levels of each side.
KeepBest(b, n) == [k \in Key |-> IF Cardinality(Ahead(b, k)) < n THEN b[k] ELSE 0]

\* The levels of b after each row was applied: replaced, inserted or removed.
Override(b, rows) == [k \in Key |-> IF k \in DOMAIN rows THEN rows[k] ELSE b[k]]

\* A book made of the rows alone.
FromRows(rows) == Override(EmptyBook, rows)

\* The rows that turn book a into book b.
Diff(a, b) == [k \in {m \in Key : a[m] # b[m]} |-> b[k]]

\* Books with at most n levels on each side.
DepthAtMost(b, n) ==
    \A s \in Side : Cardinality({k \in Key : k[1] = s /\ b[k] # 0}) <= n

===============================================================================
