----------------------------- MODULE MCOrderIdMap -----------------------------
(***************************************************************************)
(* Three client order ids on two symbols, and two callers.                 *)
(***************************************************************************)
EXTENDS OrderIdMap, TLC

CONSTANTS l1, l2, l3, btc, eth

MCOf == (l1 :> btc) @@ (l2 :> btc) @@ (l3 :> eth)

===============================================================================
