----------------------------- MODULE MCQuicConn -----------------------------
(* The client's login and one frame against one of the server, so that a window and a *)
(* queue are full while both send.                                                     *)
EXTENDS QuicConn

Sends == [client |-> 2, server |-> 1]
Sizes == [client |-> {1, 2}, server |-> {0, 1}]
=============================================================================
