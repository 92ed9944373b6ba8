------------------------------ MODULE QuicConn ------------------------------
(***************************************************************************)
(* One connection between the two quic transports (net/backends/quic_*.rs):*)
(* at each end a worker task, the receiving and the transmitting task it   *)
(* spawns, the queues between them and the main loop (transport.rs), and   *)
(* the main loops themselves (mp/client.rs, mp/server.rs).  Both ends run  *)
(* this program.  The quinn connection is external: a reliable stream of   *)
(* pieces of frames with a window, close, and loss of the connection.      *)
(*                                                                         *)
(* A frame is its length in bytes.  The decoder takes empty ones, and they *)
(* weigh nothing in the back-pressure of the receiver.                     *)
(*                                                                         *)
(* A stream that one end drops is reset at the other, and the rx and tx    *)
(* tasks can end only with the connection closed or with an error: the     *)
(* other's rx is then already gone, so no task reads a reset stream.       *)
(***************************************************************************)
EXTENDS Integers, Sequences, FiniteSets

CONSTANTS
  MaxSent,   \* how many frames the main loop of each end sends, a bound (the client's
             \* login is one)
  Window,    \* how many pieces fit into a stream before its writer has to wait
  Size,      \* the lengths of the frames that each end sends, in bytes without the header
  Login,     \* the length of the client's login packet
  MaxPacket, \* FrameDecoder::max_packet_size
  Capacity   \* of the back-pressure of a receiver, in bytes

End == {"client", "server"}

ASSUME QuicConnAssumption ==
  /\ MaxSent \in [End -> Nat] /\ MaxSent["client"] > 0
  /\ Window \in Nat \ {0}
  /\ Size \in [End -> SUBSET Nat] /\ Login \in Size["client"]
  /\ MaxPacket \in Nat /\ Login \in 1..MaxPacket
  /\ Capacity \in Nat

Other(e) == CHOOSE f \in End : f # e

VARIABLES
  conn,     \* what close_reason says at each end; "none" before the handshake
  listener, \* run_listen_inner: accepts connections, or has ended
  worker,   \* where the worker of each end is
  rx, tx,   \* where its two tasks are; "ok" and "err" are their results
  actions,  \* send_action_tx: numbers of frames, and Disconnect
  net,      \* the pieces on their way to each end
  partial,  \* the frame whose header the decoder has seen
  events,   \* event_tx
  mapped,   \* whether the peer is in the peer_map
  asked,    \* whether the main loop has kicked the peer or disconnected
  cause,    \* the result of run_conn_inner / run_inner
  told,     \* what the main loop knows of the connection
  sent,     \* the lengths of the frames it has sent
  got       \* the frames that were handed to it

vars == <<conn, listener, worker, rx, tx, actions, net, partial, events, mapped, asked,
          cause, told, sent, got>>
mainVars == <<asked, told, sent, got>>

Closed == {"local", "remote", "lost"}
Done == {"ok", "err"}
Disconnect == 0
Frame == 1..(MaxSent["client"] + MaxSent["server"])
Piece == [frame : Frame, part : {"header", "body", "whole"}]
Event == [kind : {"data"}, frame : Frame, len : 0..MaxPacket]
         \cup [kind : {"connected", "disconnected", "shutdown"}]

IsData(ev) == ev.kind = "data"

Init ==
  /\ conn = [e \in End |-> "none"]
  /\ listener = "up"
  /\ worker = [client |-> "connecting", server |-> "none"]
  /\ rx = [e \in End |-> "off"]
  /\ tx = [e \in End |-> "off"]
  /\ actions = [e \in End |-> <<>>]
  /\ net = [e \in End |-> <<>>]
  /\ partial = [e \in End |-> 0]
  /\ events = [e \in End |-> <<>>]
  /\ mapped = FALSE
  /\ asked = [e \in End |-> FALSE]
  /\ cause = [e \in End |-> "none"]
  /\ told = [e \in End |-> "before"]
  /\ sent = [e \in End |-> <<>>]
  /\ got = [e \in End |-> <<>>]

Emit(e, ev) == events' = [events EXCEPT ![e] = Append(@, ev)]
Goto(e, w) == worker' = [worker EXCEPT ![e] = w]
Ended(e, w, c) == Goto(e, w) /\ cause' = [cause EXCEPT ![e] = c]
SpawnTasks(e) ==
  /\ rx' = [rx EXCEPT ![e] = "reading"]
  /\ tx' = [tx EXCEPT ![e] = "idle"]

\* Connection::close: only the first reason counts.
ClosedLocally(e) == IF conn[e] = "open" THEN [conn EXCEPT ![e] = "local"] ELSE conn

----------------------------------------------------------------------------
(* Setting up: run_inner of the client, run_listen_inner and run_conn of the server. *)

Connected ==
  /\ worker["client"] = "connecting"
  /\ listener = "up"
  /\ conn' = [conn EXCEPT !["client"] = "open"]
  /\ Emit("client", [kind |-> "connected"])
  /\ Goto("client", "opening")
  /\ UNCHANGED <<listener, rx, tx, actions, net, partial, mapped, cause>>
  /\ UNCHANGED mainVars

ConnectFails ==
  /\ worker["client"] = "connecting"
  /\ Ended("client", "joined", "err")
  /\ UNCHANGED <<conn, listener, rx, tx, actions, net, partial, events, mapped>>
  /\ UNCHANGED mainVars

OpenStream ==
  /\ worker["client"] = "opening"
  /\ conn["client"] = "open"
  /\ Goto("client", "running")
  /\ SpawnTasks("client")
  /\ UNCHANGED <<conn, listener, actions, net, partial, events, mapped, cause>>
  /\ UNCHANGED mainVars

\* open_bi and accept_bi fail on a connection that is closed.
OpenFails(e) ==
  /\ worker[e] = "opening"
  /\ conn[e] \in Closed
  /\ Ended(e, "joined", "err")
  /\ actions' = [actions EXCEPT ![e] = <<>>]
  /\ UNCHANGED <<conn, listener, rx, tx, net, partial, events, mapped>>
  /\ UNCHANGED mainVars

Accept ==
  /\ listener = "up"
  /\ conn["client"] = "open" /\ conn["server"] = "none"
  /\ conn' = [conn EXCEPT !["server"] = "open"]
  /\ Goto("server", "spawned")
  /\ UNCHANGED <<listener, rx, tx, actions, net, partial, events, mapped, cause>>
  /\ UNCHANGED mainVars

\* The handshake is awaited in the loop that accepts: if it fails, the listener ends.
HandshakeFails ==
  /\ listener = "up"
  /\ conn["server"] = "none"
  /\ conn["client"] = "lost" \/ cause["client"] = "err"
  /\ listener' = "down"
  /\ Emit("server", [kind |-> "shutdown"])
  /\ UNCHANGED <<conn, worker, rx, tx, actions, net, partial, mapped, cause>>
  /\ UNCHANGED mainVars

MapPeer ==
  /\ worker["server"] = "spawned"
  /\ mapped' = TRUE
  /\ Goto("server", "mapped")
  /\ UNCHANGED <<conn, listener, rx, tx, actions, net, partial, events, cause>>
  /\ UNCHANGED mainVars

Announce ==
  /\ worker["server"] = "mapped"
  /\ Emit("server", [kind |-> "connected"])
  /\ Goto("server", "opening")
  /\ UNCHANGED <<conn, listener, rx, tx, actions, net, partial, mapped, cause>>
  /\ UNCHANGED mainVars

\* accept_bi returns with the first piece that the client has written.
AcceptStream ==
  /\ worker["server"] = "opening"
  /\ net["server"] # <<>>
  /\ Goto("server", "running")
  /\ SpawnTasks("server")
  /\ UNCHANGED <<conn, listener, actions, net, partial, events, mapped, cause>>
  /\ UNCHANGED mainVars

----------------------------------------------------------------------------
(* run_conn_rx with FrameDecoder::decode. *)

DataReceived(e, n) ==
  /\ Emit(e, [kind |-> "data", frame |-> n, len |-> sent[Other(e)][n]])
  /\ rx' = [rx EXCEPT ![e] = "waiting"]
  /\ partial' = [partial EXCEPT ![e] = 0]

\* Mutation: the decoder has no limit, like the encoder.
FitsAlways(e, n) == n > 0
Fits(e, n) == sent[Other(e)][n] <= MaxPacket

\* The header is judged before the body is there.
HeaderRead(e, n) ==
  /\ IF Fits(e, n)
       THEN partial' = [partial EXCEPT ![e] = n] /\ rx' = rx
       ELSE rx' = [rx EXCEPT ![e] = "err"] /\ partial' = partial
  /\ UNCHANGED events

\* The frame that is complete with the next piece.
Completed(e) == IF Head(net[e]).part = "body" THEN partial[e] ELSE Head(net[e]).frame

Read(e) ==
  /\ rx[e] = "reading"
  /\ net[e] # <<>>
  /\ net' = [net EXCEPT ![e] = Tail(@)]
  /\ IF Head(net[e]).part = "header" THEN HeaderRead(e, Head(net[e]).frame)
                                     ELSE DataReceived(e, Completed(e))
  /\ UNCHANGED <<conn, listener, worker, tx, actions, mapped, cause>>
  /\ UNCHANGED mainVars

\* The bytes of the packets in a queue, each as the packet's place and its own.
Bytes(evs) == {p \in (DOMAIN evs) \X (1..MaxPacket) :
                 IsData(evs[p[1]]) /\ p[2] <= evs[p[1]].len}

\* By how much the guards of packets that are not dropped yet lower the counter.
Outstanding(e) == Cardinality(Bytes(events[e]))

\* Mutations: the receiver goes on without having waited, or not at zero.
RelievedAlways(e) == TRUE
RelievedBelow(e) == Outstanding(e) < Capacity
Relieved(e) == Outstanding(e) <= Capacity

Resume(e) ==
  /\ rx[e] = "waiting"
  /\ Relieved(e)
  /\ rx' = [rx EXCEPT ![e] = "reading"]
  /\ UNCHANGED <<conn, listener, worker, tx, actions, net, partial, events, mapped, cause>>
  /\ UNCHANGED mainVars

\* closed() in the select, or a read that fails with ConnectionLost; what has arrived
\* before may still be read.
RxClosed(e) ==
  /\ rx[e] \in {"reading", "waiting"}
  /\ conn[e] \in Closed
  /\ rx' = [rx EXCEPT ![e] = "ok"]
  /\ UNCHANGED <<conn, listener, worker, tx, actions, net, partial, events, mapped, cause>>
  /\ UNCHANGED mainVars

----------------------------------------------------------------------------
(* run_conn_tx; write_all is done when all of the frame is in the stream. *)

TakeFrame(e) ==
  /\ tx[e] = "idle"
  /\ actions[e] # <<>> /\ Head(actions[e]) # Disconnect
  /\ tx' = [tx EXCEPT ![e] = "header"]
  /\ UNCHANGED <<conn, listener, worker, rx, actions, net, partial, events, mapped, cause>>
  /\ UNCHANGED mainVars

\* A reader that is dropped while the connection is open stops the stream.
Stopped(e) == rx[Other(e)] = "err"

\* Mutation: what does not fit is written all the same.
HasRoomAlways(e) == Len(net[Other(e)]) >= 0
HasRoom(e) == Len(net[Other(e)]) < Window

\* An empty frame is whole with its header.
NextPart(e) ==
  IF tx[e] = "header" /\ sent[e][Head(actions[e])] = 0 THEN "whole" ELSE tx[e]

\* The frame leaves the queue with its last piece.
Write(e) ==
  LET part == NextPart(e) IN
    /\ tx[e] \in {"header", "body"}
    /\ conn[e] = "open" /\ ~Stopped(e)
    /\ HasRoom(e)
    /\ net' = [net EXCEPT ![Other(e)] = Append(@, [frame |-> Head(actions[e]), part |-> part])]
    /\ tx' = [tx EXCEPT ![e] = IF part = "header" THEN "body" ELSE "idle"]
    /\ actions' = [actions EXCEPT ![e] = IF part = "header" THEN @ ELSE Tail(@)]
    /\ UNCHANGED <<conn, listener, worker, rx, partial, events, mapped, cause>>
    /\ UNCHANGED mainVars

WriteFails(e) ==
  /\ tx[e] \in {"header", "body"}
  /\ conn[e] \in Closed \/ Stopped(e)
  /\ tx' = [tx EXCEPT ![e] = "err"]
  /\ actions' = [actions EXCEPT ![e] = <<>>]
  /\ UNCHANGED <<conn, listener, worker, rx, net, partial, events, mapped, cause>>
  /\ UNCHANGED mainVars

\* Mutation: the task ends and leaves the connection open.
CloseOnDisconnectSkipped(e) == conn
CloseOnDisconnect(e) == ClosedLocally(e)

TxDisconnect(e) ==
  /\ tx[e] = "idle"
  /\ actions[e] # <<>> /\ Head(actions[e]) = Disconnect
  /\ conn' = CloseOnDisconnect(e)
  /\ tx' = [tx EXCEPT ![e] = "ok"]
  /\ actions' = [actions EXCEPT ![e] = <<>>]
  /\ UNCHANGED <<listener, worker, rx, net, partial, events, mapped, cause>>
  /\ UNCHANGED mainVars

\* Mutation: the select does not look at closed().
NoticesClosedNever(e) == FALSE
NoticesClosed(e) == conn[e] \in Closed

TxClosed(e) ==
  /\ tx[e] = "idle"
  /\ NoticesClosed(e)
  /\ tx' = [tx EXCEPT ![e] = "ok"]
  /\ actions' = [actions EXCEPT ![e] = <<>>]
  /\ UNCHANGED <<conn, listener, worker, rx, net, partial, events, mapped, cause>>
  /\ UNCHANGED mainVars

----------------------------------------------------------------------------
(* run_transport_data_handler, and the end of run / run_conn. *)

\* Mutation: the handler trusts the other task to notice, whatever the first result is.
CloseAfterFirstNever(e, first) == conn
CloseAfterFirst(e, first) == IF first = "err" THEN ClosedLocally(e) ELSE conn

FirstEnds(e) ==
  /\ worker[e] = "running"
  /\ \E first \in {rx[e], tx[e]} \cap Done : conn' = CloseAfterFirst(e, first)
  /\ Goto(e, "joining")
  /\ UNCHANGED <<listener, rx, tx, actions, net, partial, events, mapped, cause>>
  /\ UNCHANGED mainVars

\* Mutation: the handler is done with the first task.
BothDoneFirst(e) == rx[e] \in Done \/ tx[e] \in Done
BothDone(e) == rx[e] \in Done /\ tx[e] \in Done

\* close_reason().unwrap(), and the three results together.
Join(e) ==
  /\ worker[e] = "joining"
  /\ BothDone(e)
  /\ Ended(e, "joined",
           IF conn[e] \notin Closed THEN "panic"
           ELSE IF "err" \in {rx[e], tx[e]} \/ conn[e] = "lost" THEN "err" ELSE "ok")
  /\ UNCHANGED <<conn, listener, rx, tx, actions, net, partial, events, mapped>>
  /\ UNCHANGED mainVars

Unmap ==
  /\ worker["server"] = "joined"
  /\ mapped' = FALSE
  /\ Goto("server", "unmapped")
  /\ UNCHANGED <<conn, listener, rx, tx, actions, net, partial, events, cause>>
  /\ UNCHANGED mainVars

Report(e) ==
  /\ worker[e] = (IF e = "server" THEN "unmapped" ELSE "joined")
  /\ Emit(e, [kind |-> "disconnected"])
  /\ Goto(e, "ended")
  /\ UNCHANGED <<conn, listener, rx, tx, actions, net, partial, mapped, cause>>
  /\ UNCHANGED mainVars

----------------------------------------------------------------------------
(* The connection. *)

CloseArrives(e) ==
  /\ conn[e] = "open" /\ conn[Other(e)] = "local"
  /\ conn' = [conn EXCEPT ![e] = "remote"]
  /\ UNCHANGED <<listener, worker, rx, tx, actions, net, partial, events, mapped, cause>>
  /\ UNCHANGED mainVars

Lost(e) ==
  /\ conn[e] = "open"
  /\ conn' = [conn EXCEPT ![e] = "lost"]
  /\ UNCHANGED <<listener, worker, rx, tx, actions, net, partial, events, mapped, cause>>
  /\ UNCHANGED mainVars

LostToo(e) == conn[Other(e)] \in Closed /\ Lost(e)

----------------------------------------------------------------------------
(* The main loops. *)

\* QuicServerTransport::peer filters by the map and by kicked.
PeerAlive(e) == e = "server" => mapped /\ ~asked["server"]

\* The channel of the actions is open as long as somebody can receive from it.
Accepts(e) ==
  PeerAlive(e) /\ tx[e] \notin Done /\ worker[e] \notin {"joined", "unmapped", "ended"}

Queued(e, a) == [actions EXCEPT ![e] = IF Accepts(e) THEN Append(@, a) ELSE @]

\* A frame that is absorbed with a warning does not count as sent.
SendFrame(e, size) ==
  /\ actions' = Queued(e, Len(sent[e]) + 1)
  /\ sent' = [sent EXCEPT ![e] = IF Accepts(e) THEN Append(@, size) ELSE @]

Send(e) ==
  /\ told[e] = "open"
  /\ Len(sent[e]) < MaxSent[e]
  /\ \E size \in Size[e] : SendFrame(e, size)
  /\ UNCHANGED <<conn, listener, worker, rx, tx, net, partial, events, mapped, asked,
                 cause, told, got>>

\* The client leaves after a packet it could not make sense of.
ClientDisconnect ==
  /\ told["client"] = "open" /\ got["client"] # <<>> /\ ~asked["client"]
  /\ asked' = [asked EXCEPT !["client"] = TRUE]
  /\ actions' = Queued("client", Disconnect)
  /\ UNCHANGED <<conn, listener, worker, rx, tx, net, partial, events, mapped, cause, told,
                 sent, got>>

\* Mutation: the packets of a kicked peer are still handed over.
ReceivesAlways == TRUE
Receives == PeerAlive("server")

Popped(e) == events' = [events EXCEPT ![e] = Tail(@)]
HandOver(e) == got' = [got EXCEPT ![e] = Append(@, Head(events[e]).frame)]

\* process of the server: a packet that does not decode has its peer kicked.
ServerData ==
  /\ events["server"] # <<>> /\ IsData(Head(events["server"]))
  /\ told["server"] = "open"
  /\ Popped("server")
  /\ IF Receives
       THEN /\ HandOver("server")
            /\ \E kick \in BOOLEAN :
                 /\ asked' = [asked EXCEPT !["server"] = @ \/ kick]
                 /\ actions' = IF kick THEN Queued("server", Disconnect) ELSE actions
       ELSE UNCHANGED <<got, asked, actions>>
  /\ UNCHANGED <<conn, listener, worker, rx, tx, net, partial, mapped, cause, told, sent>>

ClientData ==
  /\ events["client"] # <<>> /\ IsData(Head(events["client"]))
  /\ Popped("client")
  /\ HandOver("client")
  /\ UNCHANGED <<conn, listener, worker, rx, tx, actions, net, partial, mapped, asked, cause,
                 told, sent>>

\* The client answers with its login packet.
TakeConnected(e) ==
  /\ events[e] # <<>> /\ Head(events[e]).kind = "connected"
  /\ Popped(e)
  /\ told' = [told EXCEPT ![e] = "open"]
  /\ IF e = "client" THEN SendFrame(e, Login) ELSE UNCHANGED <<actions, sent>>
  /\ UNCHANGED <<conn, listener, worker, rx, tx, net, partial, mapped, asked, cause, got>>

\* After Shutdown the server's loop exits; after Disconnected the client's is not written.
TakeEnd(e) ==
  /\ events[e] # <<>> /\ Head(events[e]).kind \in {"disconnected", "shutdown"}
  /\ Popped(e)
  /\ told' = [told EXCEPT ![e] = Head(events[e]).kind]
  /\ UNCHANGED <<conn, listener, worker, rx, tx, actions, net, partial, mapped, asked, cause,
                 sent, got>>

Handle(e) ==
  \/ TakeConnected(e)
  \/ TakeEnd(e)
  \/ e = "server" /\ ServerData
  \/ e = "client" /\ ClientData

----------------------------------------------------------------------------
Worker(e) ==
  \/ OpenFails(e)
  \/ FirstEnds(e)
  \/ Join(e)
  \/ Report(e)

Setup ==
  \/ Connected
  \/ ConnectFails
  \/ OpenStream
  \/ Accept
  \/ MapPeer
  \/ Announce
  \/ AcceptStream
  \/ Unmap

Rx(e) == Read(e) \/ Resume(e) \/ RxClosed(e)
Tx(e) == TakeFrame(e) \/ Write(e) \/ WriteFails(e) \/ TxDisconnect(e) \/ TxClosed(e)
Ask(e) == Send(e) \/ (e = "client" /\ ClientDisconnect)

Next ==
  \/ Setup
  \/ HandshakeFails
  \/ \E e \in End :
       \/ Worker(e)
       \/ Rx(e)
       \/ Tx(e)
       \/ CloseArrives(e)
       \/ Lost(e)
       \/ Handle(e)
       \/ Ask(e)

\* tokio polls every task that is ready; a close is repeated until it arrives or the other
\* end gives up; a main loop processes its events in every frame.  Nobody has to send
\* anything, no connection has to be lost, and no handshake has to fail.
Fairness ==
  /\ WF_vars(Setup)
  /\ \A e \in End :
       /\ WF_vars(Worker(e))
       /\ WF_vars(Rx(e))
       /\ WF_vars(Tx(e))
       /\ WF_vars(CloseArrives(e) \/ LostToo(e))
       /\ WF_vars(Handle(e))

Spec == Init /\ [][Next]_vars
FairSpec == Spec /\ Fairness

----------------------------------------------------------------------------
TypeOK ==
  /\ conn \in [End -> Closed \cup {"none", "open"}]
  /\ listener \in {"up", "down"}
  /\ worker \in [End -> {"none", "connecting", "spawned", "mapped", "opening", "running",
                        "joining", "joined", "unmapped", "ended"}]
  /\ rx \in [End -> Done \cup {"off", "reading", "waiting"}]
  /\ tx \in [End -> Done \cup {"off", "idle", "header", "body"}]
  /\ \A e \in End :
       /\ actions[e] \in Seq(Frame \cup {Disconnect})
       /\ net[e] \in Seq(Piece) /\ Len(net[e]) <= Window
       /\ partial[e] \in Frame \cup {0}
       /\ events[e] \in Seq(Event)
       /\ sent[e] \in Seq(Nat) /\ Len(sent[e]) <= MaxSent[e]
       /\ got[e] \in Seq(Frame)
  /\ mapped \in BOOLEAN
  /\ asked \in [End -> BOOLEAN]
  /\ cause \in [End -> {"none", "ok", "err", "panic"}]
  /\ told \in [End -> {"before", "open", "disconnected", "shutdown"}]

\* A task that ends without an error has seen the connection closed: that is why the handler
\* need not stop the other task, and why close_reason().unwrap() finds a reason.
CloseReasonKnown ==
  \A e \in End :
    /\ rx[e] = "ok" \/ tx[e] = "ok" => conn[e] \in Closed
    /\ cause[e] # "panic"

\* The bytes that a main loop has not dropped yet are bounded by the capacity and the one
\* packet that went over it, however slow the loop is.  (Bytes, not packets: empty ones raise
\* no pressure, and nothing bounds how many of them are queued.)
QueueBounded == \A e \in End : Outstanding(e) <= Capacity + MaxPacket

\* The main loops look up the session of every event: it begins with Connected, which comes
\* once, and nothing follows Disconnected although two tasks write to the same queue.
EventsBracketed ==
  \A e \in End :
    LET Is(i, kind) == events[e][i].kind = kind
        Opened(i) == told[e] = "open" \/ \E j \in 1..(i - 1) : Is(j, "connected")
    IN /\ told[e] \in {"disconnected", "shutdown"} => events[e] = <<>>
       /\ \A i \in DOMAIN events[e] :
            /\ Is(i, "connected") => ~Opened(i)
            /\ Is(i, "data") => Opened(i)
            /\ Is(i, "disconnected") => i = Len(events[e])

Phase(e) ==
  CASE told[e] = "before" -> "before"
    [] told[e] = "open" /\ (e = "server" => ~asked[e]) -> "open"
    [] OTHER -> "over"

ToClient == INSTANCE FrameLink
  WITH Size <- Size["server"],
       sent <- sent["server"], got <- got["client"], phase <- Phase("client")
ToServer == INSTANCE FrameLink
  WITH Size <- Size["client"],
       sent <- sent["client"], got <- got["server"], phase <- Phase("server")

\* Each direction is a FrameLink: what a main loop is handed are the frames the other one
\* sent, in order and with none missing, until it is over.  A kicked peer is over at once,
\* with its packets still in the queue.
ConversationKept == ToClient!Spec /\ ToServer!Spec

\* A peer that is kicked, and a server that is left, are told so at both ends, whatever is
\* still to be written, read or waited for at the time.
AskedEnds == \A e \in End : asked[e] ~> \A f \in End : told[f] = "disconnected"

\* Whoever's connection is closed is told.
EndIsTold == \A e \in End : conn[e] \in Closed ~> told[e] = "disconnected"

\* With both sides sending against full windows and full queues, a frame arrives unless the
\* connection ends.
FramesArrive ==
  \A e \in End : \A n \in 1..MaxSent[e] :
    Len(sent[e]) >= n ~> \/ Len(got[Other(e)]) >= n
                         \/ \E f \in End : conn[f] \in Closed

\* However the two tasks of a connection end, its reason is known, and the main loop hears
\* of it first, last and in between as its lookups of the session expect.
EndsInOrder == TypeOK /\ CloseReasonKnown /\ EventsBracketed

\* A connection that has ended, or that someone has asked to end, is over at both ends.
EndsAreTold == AskedEnds /\ EndIsTold
=============================================================================
