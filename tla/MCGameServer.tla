---------------------------- MODULE MCGameServer ----------------------------
(* GameServer for TLC: the peers are interchangeable. *)
EXTENDS GameServer

PeerSymmetry == Permutations(Peer)
=============================================================================
