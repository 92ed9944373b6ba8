------------------------------ MODULE MCRpcLink ------------------------------
(* RpcLink for one player with its puppet, and a node of an unknown kind. *)
EXTENDS RpcLink

CONSTANTS player, puppet, other

PlayerOf == [n \in {player, puppet, other} |-> IF n = puppet THEN player ELSE n]
=============================================================================
