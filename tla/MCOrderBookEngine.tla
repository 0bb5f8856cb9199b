-------------------------- MODULE MCOrderBookEngine --------------------------
(***************************************************************************)
(* Three prices against a depth of two, so that insertions push levels out *)
(* of the book; calls carry at most two rows, in any order, with repeats.  *)
(***************************************************************************)
EXTENDS OrderBookEngine

MCPrice == {1, 2, 3}

MCSize == {0, 1, 2}

MCLevel(prices, sizes) == [price : prices, size : sizes]

\* Bids carry one row of any size or up to two rows of size 0 or 1; asks, which
\* share the code, one row on two of the prices.
MCCall ==
    [bids : BoundedSeq(MCLevel(MCPrice, MCSize), 1)
              \union BoundedSeq(MCLevel(MCPrice, {0, 1}), 2),
     asks : {<<>>}]
      \union [bids : {<<>>}, asks : BoundedSeq(MCLevel({1, 2}, {0, 1}), 1)]

===============================================================================
