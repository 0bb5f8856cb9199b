------------------------------ MODULE MCBookFeed ------------------------------
(***************************************************************************)
(* One side, two prices: the sides do not interact and OrderBookEngine     *)
(* covers their comparators.  The engine's own call sets are unused here:  *)
(* the frames of the feed drive it.                                        *)
(***************************************************************************)
EXTENDS BookFeed

MCSide == {"bid"}

MCPrice == {1, 2}

MCSize == {0, 1}

MCUpdateId == 0 .. LastUpdateId

===============================================================================
