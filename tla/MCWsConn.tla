------------------------------- MODULE MCWsConn -------------------------------
(***************************************************************************)
(* Sockets are numbered; there is one more of them than topics and callers *)
(* can hold on to, so that a dial always finds a name.                     *)
(***************************************************************************)
EXTENDS WsConn

MCSocketId == 1 .. Cardinality(Topic) + Cardinality(Client) + 1

===============================================================================
