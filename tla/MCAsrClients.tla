------------------------------ MODULE MCAsrClients ------------------------------
(***************************************************************************)
(* AsrClients with a pool of three instances and a pool of one.            *)
(***************************************************************************)
EXTENDS AsrClients

BothPools == {"online", "offline"}
ThreeAndOne == [p \in BothPools |-> IF p = "online" THEN 3 ELSE 1]
=============================================================================
