--------------------------- MODULE QuicConnProofs ---------------------------
(***************************************************************************)
(* Proofs about QuicConn, for any number and lengths of frames, any window,*)
(* any limit of the decoders and any capacity of the receivers.            *)
(***************************************************************************)
EXTENDS QuicConn, FiniteSetTheorems, TLAPS

----------------------------------------------------------------------------
(* The inductive invariant: the workers, their tasks and the connection *)

\* What TypeOK says of the sequences, with their functions.
DataOK ==
  /\ actions \in [End -> Seq(Frame \cup {Disconnect})]
  /\ net \in [End -> Seq(Piece)]
  /\ partial \in [End -> Frame \cup {0}]
  /\ events \in [End -> Seq(Event)]
  /\ sent \in [End -> Seq(Nat)]
  /\ got \in [End -> Seq(Frame)]

Before == {"none", "connecting", "spawned", "mapped"}
Working == {"opening", "running", "joining"}
Finished == {"joined", "unmapped", "ended"}

\* The two tasks begin and end together as far as the worker can see, and a worker that
\* waits for its second task has a closed connection.
TasksFollow(e) ==
  /\ worker[e] \in Before \cup {"opening"} => rx[e] = "off" /\ tx[e] = "off"
  /\ worker[e] \in {"running", "joining"} => rx[e] # "off" /\ tx[e] # "off"
  /\ worker[e] \in Finished => \/ rx[e] = "off" /\ tx[e] = "off"
                               \/ rx[e] \in Done /\ tx[e] \in Done

ConnFollows(e) ==
  /\ conn[e] = "none" => rx[e] = "off" /\ tx[e] = "off"
  /\ worker[e] = "connecting" => conn[e] = "none"
  /\ worker[e] \in Working => conn[e] # "none"
  /\ worker[e] = "joining" => conn[e] \in Closed
  /\ rx[e] = "ok" \/ tx[e] = "ok" => conn[e] \in Closed
  /\ cause[e] # "panic"

\* Each end has its own places, the listener ends only before the connection, and the map
\* holds the peer from its announcement to its end.
ServerFollows ==
  /\ worker["client"] \notin {"none", "spawned", "mapped", "unmapped"}
  /\ worker["server"] # "connecting"
  /\ conn["server"] = "none" <=> worker["server"] = "none"
  /\ listener = "down" => conn["server"] = "none"
  /\ mapped <=> worker["server"] \in {"mapped", "joined"} \cup Working

CtlInv ==
  /\ \A e \in End : TasksFollow(e) /\ ConnFollows(e)
  /\ ServerFollows

----------------------------------------------------------------------------
(* The events and what the main loop knows *)

Has(evs, kind) == \E i \in DOMAIN evs : evs[i].kind = kind

\* Before it is connected nothing is told, but that the listener has ended; while the
\* worker runs the main loop knows of the connection or will find Connected first; and
\* the end is told once, last.
EventsFollow(e) ==
  /\ worker[e] \in Before \ {"none"} => events[e] = <<>> /\ told[e] = "before"
  /\ worker[e] = "none" =>
       \/ events[e] = <<>> /\ told[e] \in {"before", "shutdown"}
       \/ Len(events[e]) = 1 /\ events[e][1].kind = "shutdown" /\ told[e] = "before"
  /\ worker[e] = "none" /\ listener = "up" => events[e] = <<>> /\ told[e] = "before"
  /\ worker[e] \in Working =>
       \/ told[e] = "open"
       \/ told[e] = "before" /\ events[e] # <<>> /\ events[e][1].kind = "connected"
  /\ worker[e] # "ended" => told[e] # "disconnected" /\ ~Has(events[e], "disconnected")
  /\ worker[e] # "none" => told[e] # "shutdown" /\ ~Has(events[e], "shutdown")
  /\ told[e] \in {"disconnected", "shutdown"} => events[e] = <<>>
  /\ \A i \in DOMAIN events[e] :
       /\ events[e][i].kind = "connected" => i = 1 /\ told[e] = "before"
       /\ IsData(events[e][i]) => told[e] = "open" \/ events[e][1].kind = "connected"
       /\ events[e][i].kind = "disconnected" => i = Len(events[e])

\* Nothing is read before the receiver is relieved.
Relief == \A e \in End : /\ rx[e] \in {"off", "reading"} => Relieved(e)
                         /\ Outstanding(e) <= Capacity + MaxPacket

----------------------------------------------------------------------------
(* The frames on their way to e *)

Sender(e) == Other(e)

\* Whatever has been handed over, kicked, or taken out of the map is over.
Over(e) ==
  \/ told[e] \in {"disconnected", "shutdown"}
  \/ e = "server" /\ (asked["server"] \/ worker["server"] \in {"unmapped", "ended"})
Reading(e) == rx[e] \notin Done /\ worker[e] \notin Finished
Queuing(e) == tx[e] \notin Done /\ worker[e] \notin Finished

\* All numbers on the way are of frames that were sent, and what was decoded, or needs no
\* more than its header, is within the limit.
Known(sizes, n) == n \in 1..Len(sizes)
KnownSmall(sizes, n) == Known(sizes, n) /\ sizes[n] <= MaxPacket
NumbersKnown(e) ==
  LET sizes == sent[Sender(e)] IN
    /\ \A i \in DOMAIN actions[Sender(e)] :
         actions[Sender(e)][i] # Disconnect => Known(sizes, actions[Sender(e)][i])
    /\ \A i \in DOMAIN net[e] :
         /\ Known(sizes, net[e][i].frame)
         /\ net[e][i].part = "whole" => KnownSmall(sizes, net[e][i].frame)
    /\ partial[e] # 0 => KnownSmall(sizes, partial[e])
    /\ \A i \in DOMAIN events[e] : IsData(events[e][i]) => KnownSmall(sizes, events[e][i].frame)

\* The frames decoded so far that are not followed by one that was dropped; the piece that
\* was read last, or would have been; and the one that was written last.
Base(e) == IF told[e] = "before" THEN Len(got[e]) - 1 ELSE Len(got[e])
Decoded(e) == IF told[e] = "before" /\ events[e] = <<>> THEN Len(got[e])
                                                        ELSE Base(e) + Len(events[e])
LastRead(e) == IF partial[e] = 0 THEN [frame |-> Decoded(e), part |-> "body"]
                                 ELSE [frame |-> partial[e], part |-> "header"]
LastOf(last, pieces) == IF pieces = <<>> THEN last ELSE pieces[Len(pieces)]
PrevOf(last, pieces, i) == IF i = 1 THEN last ELSE pieces[i - 1]
LastWritten(e) == LastOf(LastRead(e), net[e])

\* A body follows its header, and what ends a frame is followed by the next one.
Opens(piece) == piece.part = "header"
Closes(piece) == piece.part = "body"
NextFrame(piece) == IF Opens(piece) THEN piece.frame ELSE piece.frame + 1
Linked(last, pieces) ==
  \A i \in DOMAIN pieces : Closes(pieces[i]) <=> Opens(PrevOf(last, pieces, i))
Numbered(last, pieces) ==
  \A i \in DOMAIN pieces : pieces[i].frame = NextFrame(PrevOf(last, pieces, i))

\* The writer is in the middle of a frame when its reader has, or will have, the header.
Alternate(e) ==
  Reading(e) =>
    /\ Linked(LastRead(e), net[e])
    /\ tx[Sender(e)] \notin Done =>
         (Opens(LastWritten(e)) <=> tx[Sender(e)] = "body")

\* What waits to be handed over follows what was, and what is read follows that.
EventsNumbered(evs, base) == \A i \in DOMAIN evs : IsData(evs[i]) => evs[i].frame = base + i
Consecutive(e) ==
  ~Over(e) =>
    /\ EventsNumbered(events[e], Base(e))
    /\ Reading(e) =>
         /\ partial[e] # 0 => partial[e] = Decoded(e) + 1
         /\ Numbered(LastRead(e), net[e])

\* A writer has the frame that it writes at the head of its queue, and the frames in the
\* queue up to a Disconnect follow the last one that was written.
Written(piece) == IF Opens(piece) THEN piece.frame - 1 ELSE piece.frame
AskedIn(queue, k) == \E i \in 1..k : queue[i] = Disconnect
QueueNumbered(queue, n, total) ==
  /\ \A i \in DOMAIN queue : ~AskedIn(queue, i) => queue[i] = n + i
  /\ ~AskedIn(queue, Len(queue)) => total = n + Len(queue)
QueueFollows(e) ==
  Queuing(Sender(e)) /\ Reading(e) /\ ~Over(e) =>
    QueueNumbered(actions[Sender(e)], Written(LastWritten(e)), Len(sent[Sender(e)]))

WriterHolds(e) == tx[e] \in {"header", "body"} => actions[e] # <<>> /\ Head(actions[e]) # Disconnect

\* The login packet is the first one that the client sends.
LoginFirst == told["client"] = "before" => sent["client"] = <<>>

GotInOrder(e) == \A i \in DOMAIN got[e] : got[e][i] = i

FramesFollow(e) ==
  NumbersKnown(e) /\ Alternate(e) /\ Consecutive(e) /\ QueueFollows(e) /\ GotInOrder(e)

LinkInv(e) == FramesFollow(e) /\ WriterHolds(e)

IInv ==
  /\ TypeOK /\ DataOK
  /\ CtlInv /\ Relief /\ LoginFirst
  /\ \A e \in End : EventsFollow(e) /\ LinkInv(e)
----------------------------------------------------------------------------
(* The two ends, and the initial state *)

LEMMA Ends ==
  /\ "client" \in End /\ "server" \in End
  /\ Other("client") = "server" /\ Other("server") = "client"
  /\ \A e \in End : /\ e = "client" \/ e = "server"
                    /\ Other(e) \in End /\ Other(e) # e /\ Other(Other(e)) = e
                    /\ \A f \in End : f # e => f = Other(e)
<1>1. Other("client") = "server"
  BY DEF Other, End
<1>2. Other("server") = "client"
  BY DEF Other, End
<1>3. QED
  BY <1>1, <1>2 DEF End

LEMMA FrameType == /\ Frame \subseteq Nat /\ 0 \notin Frame
                   /\ \A e \in End : MaxSent[e] \in Nat /\ 1..MaxSent[e] \subseteq Frame
BY QuicConnAssumption DEF Frame, End

LEMMA InitIInv == Init => IInv
<1> SUFFICES ASSUME Init PROVE IInv
  OBVIOUS
<1>1. DataOK
  BY DEF Init, DataOK
<1>2. TypeOK
  <2>1. worker \in [End -> {"none", "connecting", "spawned", "mapped", "opening", "running",
                            "joining", "joined", "unmapped", "ended"}]
    BY DEF Init, End
  <2>2. 0 <= Window /\ \A e \in End : 0 <= MaxSent[e]
    BY FrameType, QuicConnAssumption
  <2>3. ASSUME NEW e \in End
        PROVE  /\ actions[e] \in Seq(Frame \cup {Disconnect}) /\ events[e] \in Seq(Event)
               /\ net[e] \in Seq(Piece) /\ Len(net[e]) <= Window
               /\ sent[e] \in Seq(Nat) /\ Len(sent[e]) <= MaxSent[e]
               /\ got[e] \in Seq(Frame) /\ partial[e] \in Frame \cup {0}
    BY <2>2, <2>3 DEF Init
  <2>4. QED
    BY <2>1, <2>3 DEF Init, TypeOK, Closed, Done
<1>3. CtlInv
  BY DEF Init, CtlInv, TasksFollow, ConnFollows, ServerFollows, Before, Working, Finished, Done,
         Closed, End
<1>4. LoginFirst
  BY Ends DEF Init, LoginFirst
<1>5. Relief
  <2>1. ASSUME NEW e \in End PROVE Outstanding(e) = 0
    <3>1. events[e] = <<>> /\ DOMAIN <<>> = {}
      BY <2>1 DEF Init
    <3>2. Bytes(events[e]) = {}
      BY <3>1 DEF Bytes
    <3>3. QED
      BY <3>2, FS_EmptySet DEF Outstanding
  <2>2. Capacity \in Nat /\ MaxPacket \in Nat
    BY QuicConnAssumption
  <2>3. 0 <= Capacity /\ 0 <= Capacity + MaxPacket
    BY <2>2
  <2>4. QED
    BY <2>1, <2>3 DEF Relief, Relieved
<1>6. ASSUME NEW e \in End PROVE EventsFollow(e)
  BY <1>6 DEF Init, EventsFollow, Before, Working, Has, End
<1>7. ASSUME NEW e \in End PROVE LinkInv(e)
  <2>1. Other(e) \in End
    BY Ends
  <2>2. NumbersKnown(e) /\ GotInOrder(e) /\ WriterHolds(e)
    BY <2>1 DEF Init, NumbersKnown, GotInOrder, WriterHolds, Sender
  <2>3. LastRead(e) = [frame |-> 0, part |-> "body"] /\ LastWritten(e) = LastRead(e)
    BY DEF Init, LastRead, LastWritten, Decoded, LastOf
  <2>4. Alternate(e) /\ Consecutive(e)
    BY <2>1, <2>3 DEF Init, Alternate, Consecutive, Linked, Opens, Numbered, EventsNumbered, Sender
  <2>5. QueueFollows(e)
    BY <2>1, <2>3 DEF Init, QueueFollows, QueueNumbered, Written, Opens, Sender
  <2>6. QED
    BY <2>2, <2>4, <2>5 DEF LinkInv, FramesFollow
<1>8. QED
  BY <1>1, <1>2, <1>3, <1>4, <1>5, <1>6, <1>7 DEF IInv

----------------------------------------------------------------------------
(* The workers, their tasks and the connection *)

LEMMA CtlStep ==
  ASSUME TypeOK, CtlInv, [Next]_vars
  PROVE  CtlInv'
<1> USE DEF TypeOK, CtlInv, TasksFollow, ConnFollows, ServerFollows, Before, Working, Finished,
            Closed, Done, End
<1>1. CASE UNCHANGED <<conn, listener, worker, rx, tx, mapped, cause>>
  BY <1>1
<1>2. CASE Connected \/ ConnectFails \/ OpenStream
  BY <1>2 DEF Connected, ConnectFails, OpenStream, Goto, Ended, SpawnTasks
<1>3. CASE Accept \/ MapPeer \/ Announce \/ AcceptStream \/ Unmap
  BY <1>3 DEF Accept, MapPeer, Announce, AcceptStream, Unmap, Goto, SpawnTasks
<1>4. CASE HandshakeFails
  BY <1>4 DEF HandshakeFails
<1>5. ASSUME NEW e \in End, OpenFails(e) PROVE CtlInv'
  BY <1>5 DEF OpenFails, Goto, Ended
<1>6. ASSUME NEW e \in End, FirstEnds(e) PROVE CtlInv'
  BY <1>6 DEF FirstEnds, CloseAfterFirst, ClosedLocally, Goto
<1>7. ASSUME NEW e \in End, Join(e) PROVE CtlInv'
  BY <1>7 DEF Join, BothDone, Goto, Ended
<1>8. ASSUME NEW e \in End, Report(e) PROVE CtlInv'
  BY <1>8 DEF Report, Goto
<1>9. ASSUME NEW e \in End, Read(e) PROVE CtlInv'
  BY <1>9 DEF Read, HeaderRead, DataReceived
<1>10. ASSUME NEW e \in End, Resume(e) \/ RxClosed(e) PROVE CtlInv'
  BY <1>10 DEF Resume, RxClosed
<1>11. ASSUME NEW e \in End, TakeFrame(e) \/ Write(e) \/ WriteFails(e) PROVE CtlInv'
  BY <1>11 DEF TakeFrame, Write, WriteFails
<1>12. ASSUME NEW e \in End, TxDisconnect(e) \/ TxClosed(e) PROVE CtlInv'
  BY <1>12 DEF TxDisconnect, TxClosed, CloseOnDisconnect, ClosedLocally, NoticesClosed
<1>13. ASSUME NEW e \in End, CloseArrives(e) \/ Lost(e) PROVE CtlInv'
  BY <1>13 DEF CloseArrives, Lost
<1>14. ASSUME NEW e \in End, Handle(e) PROVE CtlInv'
  BY <1>1, <1>14 DEF Handle, TakeConnected, TakeEnd, ServerData, ClientData
<1>15. ASSUME NEW e \in End, Ask(e) PROVE CtlInv'
  BY <1>1, <1>15 DEF Ask, Send, ClientDisconnect
<1>16. CASE UNCHANGED vars
  BY <1>1, <1>16 DEF vars
<1>17. QED
  BY <1>2, <1>3, <1>4, <1>5, <1>6, <1>7, <1>8, <1>9, <1>10, <1>11, <1>12, <1>13, <1>14, <1>15,
     <1>16
  DEF Next, Setup, Worker, Rx, Tx
----------------------------------------------------------------------------
(* Sequences: one element more at the end, or one less at the front *)

LEMMA AppendIndex ==
  ASSUME NEW S, NEW s \in Seq(S), NEW x
  PROVE  LET t == Append(s, x)
         IN /\ Len(s) \in Nat /\ DOMAIN s = 1..Len(s)
            /\ Len(t) = Len(s) + 1 /\ DOMAIN t = 1..(Len(s) + 1) /\ t # <<>>
            /\ \A i \in DOMAIN s : t[i] = s[i]
            /\ t[Len(s) + 1] = x
            /\ \A i \in DOMAIN t : i = Len(s) + 1 \/ i \in DOMAIN s
OBVIOUS

LEMMA TailIndex ==
  ASSUME NEW S, NEW s \in Seq(S), s # <<>>
  PROVE  /\ Head(s) = s[1] /\ Head(s) \in S /\ 1 \in DOMAIN s
         /\ Len(s) \in Nat /\ DOMAIN s = 1..Len(s) /\ Len(s) >= 1
         /\ Len(Tail(s)) = Len(s) - 1 /\ DOMAIN Tail(s) = 1..(Len(s) - 1)
         /\ Tail(s) \in Seq(S)
         /\ Tail(s) = <<>> <=> Len(s) = 1
         /\ \A i \in DOMAIN Tail(s) : i + 1 \in DOMAIN s /\ Tail(s)[i] = s[i + 1]
<1>1. /\ Len(s) \in Nat /\ DOMAIN s = 1..Len(s) /\ Len(s) >= 1
      /\ Head(s) = s[1] /\ Head(s) \in S /\ 1 \in DOMAIN s
  OBVIOUS
<1>2. /\ Len(Tail(s)) = Len(s) - 1 /\ Tail(s) \in Seq(S)
      /\ \A i \in DOMAIN Tail(s) : i + 1 \in DOMAIN s /\ Tail(s)[i] = s[i + 1]
  OBVIOUS
<1>3. DOMAIN Tail(s) = 1..(Len(s) - 1)
  BY <1>1, <1>2
<1>4. Tail(s) = <<>> <=> Len(s) = 1
  <2>1. \A t \in Seq(S) : t = <<>> <=> Len(t) = 0
    OBVIOUS
  <2>2. Len(Tail(s)) = 0 <=> Len(s) = 1
    BY <1>1, <1>2
  <2>3. QED
    BY <1>2, <2>1, <2>2
<1>5. QED
  BY <1>1, <1>2, <1>3, <1>4

----------------------------------------------------------------------------
(* The events *)

\* A worker that goes on without telling anything.
LEMMA EventsQuiet ==
  ASSUME NEW e \in End, EventsFollow(e), UNCHANGED <<events, told>>,
         worker'[e] = worker[e] \/ (worker[e] # "none" /\ worker'[e] # "none"),
         worker'[e] = worker[e] /\ worker[e] = "none" /\ listener' = "up" => listener = "up",
         worker'[e] \in Before => worker[e] \in Before,
         worker'[e] \in Working => worker[e] \in Working,
         worker[e] = "ended" => worker'[e] = "ended"
  PROVE  EventsFollow(e)'
BY DEF EventsFollow, Before, Working, Has

LEMMA EventsPopped ==
  ASSUME DataOK, NEW e \in End, EventsFollow(e), events[e] # <<>>, Popped(e),
         UNCHANGED <<worker, listener>>,
         LET head == Head(events[e])
         IN \/ IsData(head) /\ told'[e] = told[e]
            \/ head.kind = "connected" /\ told'[e] = "open"
            \/ head.kind \in {"disconnected", "shutdown"} /\ told'[e] = head.kind
  PROVE  EventsFollow(e)'
<1> DEFINE evs == events[e]
           rest == Tail(evs)
<1>1. events'[e] = rest /\ evs \in Seq(Event)
  BY DEF Popped, DataOK
<1>2. /\ Head(evs) = evs[1] /\ 1 \in DOMAIN evs /\ Len(evs) \in Nat /\ Len(rest) = Len(evs) - 1
      /\ DOMAIN evs = 1..Len(evs) /\ rest = <<>> <=> Len(evs) = 1
      /\ \A i \in DOMAIN rest : /\ i \in Nat /\ i >= 1 /\ i + 1 \in DOMAIN evs
                                /\ rest[i] = evs[i + 1]
  BY <1>1, TailIndex
<1>3. CASE IsData(evs[1])
  <2>1. told[e] = "open" /\ told'[e] = "open"
    BY <1>2, <1>3 DEF EventsFollow, IsData
  <2>2. worker[e] \notin Before
    BY <1>2, <1>3, <2>1 DEF EventsFollow, Before
  <2> HIDE DEF evs, rest
  <2>3. \A i \in DOMAIN rest : /\ rest[i].kind # "connected"
                               /\ rest[i].kind = "disconnected" => i = Len(rest)
    BY <1>2, <2>1 DEF EventsFollow, evs
  <2>4. /\ worker[e] # "ended" => ~Has(rest, "disconnected")
        /\ worker[e] # "none" => ~Has(rest, "shutdown")
    BY <1>2 DEF EventsFollow, Has, evs
  <2>5. QED
    BY <1>1, <2>1, <2>2, <2>3, <2>4 DEF EventsFollow, Before
<1>4. CASE evs[1].kind = "connected"
  <2>1. told[e] = "before" /\ told'[e] = "open"
    BY <1>2, <1>4 DEF EventsFollow, IsData
  <2>2. worker[e] \notin Before
    BY <1>2, <1>4, <2>1 DEF EventsFollow, Before
  <2> HIDE DEF evs, rest
  <2>3. \A i \in DOMAIN rest : /\ rest[i].kind # "connected"
                               /\ rest[i].kind = "disconnected" => i = Len(rest)
    BY <1>2, <2>1 DEF EventsFollow, evs
  <2>4. /\ worker[e] # "ended" => ~Has(rest, "disconnected")
        /\ worker[e] # "none" => ~Has(rest, "shutdown")
    BY <1>2 DEF EventsFollow, Has, evs
  <2>5. QED
    BY <1>1, <2>1, <2>2, <2>3, <2>4 DEF EventsFollow, Before
<1>5. CASE evs[1].kind = "disconnected"
  <2>1. told'[e] = "disconnected" /\ rest = <<>> /\ worker[e] = "ended"
    BY <1>2, <1>5 DEF EventsFollow, IsData, Has
  <2>2. QED
    BY <1>1, <2>1 DEF EventsFollow, Before, Working, Has
<1>6. CASE evs[1].kind = "shutdown"
  <2>1. told'[e] = "shutdown" /\ worker[e] = "none"
    BY <1>2, <1>6 DEF EventsFollow, IsData, Has
  <2>2. rest = <<>> /\ listener # "up"
    BY <1>2, <2>1 DEF EventsFollow, Before
  <2>3. QED
    BY <1>1, <2>1, <2>2 DEF EventsFollow, Before, Working, Has
<1>7. QED
  BY <1>2, <1>3, <1>4, <1>5, <1>6

\* An event after the others: the first one, data while the worker runs, or the last one.
LEMMA EventsEmitted ==
  ASSUME TypeOK, DataOK, NEW e \in End, EventsFollow(e), NEW ev \in Event, Emit(e, ev), UNCHANGED told,
         \/ ev.kind = "connected" /\ worker[e] \in Before \ {"none"} /\ worker'[e] = "opening"
         \/ /\ ev.kind = "shutdown" /\ worker[e] = "none" /\ worker'[e] = "none"
            /\ listener = "up" /\ listener' = "down"
         \/ IsData(ev) /\ worker[e] \in Working /\ worker'[e] = worker[e]
         \/ ev.kind = "disconnected" /\ worker[e] \in {"joined", "unmapped"} /\ worker'[e] = "ended"
  PROVE  EventsFollow(e)'
<1> DEFINE evs == events[e]
           more == Append(evs, ev)
<1>1. events'[e] = more /\ evs \in Seq(Event) /\ told'[e] = told[e]
  BY DEF Emit, DataOK
<1>2. /\ Len(evs) \in Nat /\ DOMAIN evs = 1..Len(evs) /\ Len(more) = Len(evs) + 1
      /\ DOMAIN more = 1..(Len(evs) + 1) /\ more # <<>>
      /\ \A i \in DOMAIN evs : more[i] = evs[i] /\ i < Len(evs) + 1
      /\ more[Len(evs) + 1] = ev /\ Len(evs) + 1 \in DOMAIN more
      /\ \A i \in DOMAIN more : i = Len(evs) + 1 \/ i \in DOMAIN evs
      /\ evs # <<>> => 1 \in DOMAIN evs
      /\ evs = <<>> => Len(evs) = 0
  BY <1>1, AppendIndex
<1>3. CASE evs = <<>>
  <2>1. Len(more) = 1 /\ more[1] = ev /\ DOMAIN more = {1}
    BY <1>2, <1>3
  <2> HIDE DEF evs, more
  <2>2. QED
    BY <1>1, <1>3, <2>1 DEF EventsFollow, Before, Working, Has, IsData, evs
<1>4. CASE evs # <<>>
  <2> HIDE DEF evs, more
  <2>1. more[1] = evs[1] /\ worker[e] \notin Before
    BY <1>2, <1>4 DEF EventsFollow, Before, evs
  <2>2. told[e] \notin {"disconnected", "shutdown"}
    BY <1>4 DEF EventsFollow, evs
  <2>3. worker[e] # "ended"
    BY <2>1 DEF Before, Working
  <2>4. \A i \in DOMAIN more : /\ more[i].kind = "connected" => i = 1 /\ told[e] = "before"
                               /\ more[i].kind = "disconnected" => i = Len(more)
    BY <1>2, <2>1, <2>3 DEF EventsFollow, Has, IsData, Before, evs
  <2>5. /\ worker'[e] # "ended" => ~Has(more, "disconnected")
        /\ ~Has(more, "shutdown")
    BY <1>2, <2>1, <2>3 DEF EventsFollow, Has, IsData, Before, evs
  <2>6. \A i \in DOMAIN more : IsData(more[i]) => told[e] = "open" \/ more[1].kind = "connected"
    BY <1>2, <2>1, <2>2 DEF EventsFollow, IsData, Before, Working, evs
  <2>7. QED
    BY <1>1, <1>2, <2>1, <2>2, <2>4, <2>5, <2>6 DEF EventsFollow, Before, Working, evs
<1>5. QED
  BY <1>3, <1>4
\* A body is read only after its header, and what is handed on was within the limit.
LEMMA FrameRead ==
  ASSUME DataOK, CtlInv, NEW e \in End, LinkInv(e), Read(e), ~Opens(Head(net[e]))
  PROVE  LET n == Completed(e)
         IN /\ n \in Frame /\ KnownSmall(sent[Other(e)], n)
            /\ [kind |-> "data", frame |-> n, len |-> sent[Other(e)][n]] \in Event
            /\ Closes(Head(net[e])) <=> partial[e] # 0
<1> DEFINE n == Completed(e)
           sizes == sent[Other(e)]
<1>1. Reading(e) /\ Linked(LastRead(e), net[e]) /\ net[e] # <<>> /\ net[e] \in Seq(Piece)
  BY DEF Read, Reading, CtlInv, TasksFollow, Done, LinkInv, FramesFollow, Alternate, DataOK
<1>2. /\ Head(net[e]) = net[e][1] /\ net[e][1] \in Piece /\ 1 \in DOMAIN net[e]
      /\ Closes(net[e][1]) <=> Opens(LastRead(e))
  BY <1>1, TailIndex DEF Linked, PrevOf
<1>3. Closes(net[e][1]) <=> partial[e] # 0
  BY <1>2 DEF LastRead, Opens
<1>4. net[e][1].frame \in Frame /\ net[e][1].part \in {"header", "body", "whole"}
  BY <1>2 DEF Piece
<1>5. n \in Frame /\ KnownSmall(sizes, n)
  <2>1. CASE Closes(net[e][1])
    BY <1>2, <1>3, <2>1
    DEF Completed, Closes, DataOK, LinkInv, FramesFollow, NumbersKnown, Sender
  <2>2. CASE ~Closes(net[e][1])
    BY <1>2, <1>4, <2>2
    DEF Completed, Closes, Opens, LinkInv, FramesFollow, NumbersKnown, Sender
  <2>3. QED
    BY <2>1, <2>2
<1>6. sizes[n] \in 0..MaxPacket
  <2>1. sizes \in Seq(Nat)
    BY Ends DEF DataOK
  <2>2. n \in 1..Len(sizes) /\ sizes[n] <= MaxPacket
    BY <1>5 DEF KnownSmall, Known
  <2>3. sizes[n] \in Nat
    BY <2>1, <2>2
  <2>4. sizes[n] \in Nat /\ MaxPacket \in Nat
    BY <2>3, QuicConnAssumption
  <2>5. QED
    BY <2>2, <2>4
<1> HIDE DEF n, sizes
<1>7. [kind |-> "data", frame |-> n, len |-> sizes[n]] \in Event
  BY <1>5, <1>6 DEF Event
<1>8. QED
  BY <1>2, <1>3, <1>5, <1>7 DEF n, sizes

LEMMA EventsStep ==
  ASSUME TypeOK, DataOK, CtlInv, NEW e \in End, EventsFollow(e), [Next]_vars,
         \A d \in End : LinkInv(d)
  PROVE  EventsFollow(e)'
<1> DEFINE Kept(d) == /\ UNCHANGED <<events, told>> /\ worker'[d] = worker[d]
                      /\ listener' = "up" => listener = "up"
<1>1. ASSUME Kept(e) PROVE EventsFollow(e)'
  BY <1>1, EventsQuiet
<1>2. CASE Connected
  <2>1. /\ worker["client"] = "connecting" /\ worker' = [worker EXCEPT !["client"] = "opening"]
        /\ Emit("client", [kind |-> "connected"]) /\ UNCHANGED <<listener, told>>
    BY <1>2 DEF Connected, Goto, mainVars
  <2>2. CASE e = "client"
    BY <2>1, <2>2, EventsEmitted DEF TypeOK, Event, Before
  <2>3. CASE e # "client"
    BY <2>1, <2>3 DEF Emit, EventsFollow, TypeOK, DataOK
  <2>4. QED
    BY <2>2, <2>3
<1>3. CASE Announce
  <2>1. /\ worker["server"] = "mapped" /\ worker' = [worker EXCEPT !["server"] = "opening"]
        /\ Emit("server", [kind |-> "connected"]) /\ UNCHANGED <<listener, told>>
    BY <1>3 DEF Announce, Goto, mainVars
  <2>2. CASE e = "server"
    BY <2>1, <2>2, EventsEmitted DEF TypeOK, Event, Before
  <2>3. CASE e # "server"
    BY <2>1, <2>3 DEF Emit, EventsFollow, TypeOK, DataOK
  <2>4. QED
    BY <2>2, <2>3
<1>4. CASE HandshakeFails
  <2>1. /\ listener = "up" /\ listener' = "down" /\ conn["server"] = "none" /\ UNCHANGED worker
        /\ Emit("server", [kind |-> "shutdown"]) /\ UNCHANGED told
    BY <1>4 DEF HandshakeFails, mainVars
  <2>2. worker["server"] = "none"
    BY <2>1 DEF CtlInv, ServerFollows
  <2>3. CASE e = "server"
    BY <2>1, <2>2, <2>3, EventsEmitted DEF TypeOK, Event
  <2>4. CASE e # "server"
    BY <2>1, <2>4 DEF Emit, EventsFollow, TypeOK, DataOK
  <2>5. QED
    BY <2>3, <2>4
<1>5. ASSUME NEW d \in End, Report(d) PROVE EventsFollow(e)'
  <2>1. /\ worker[d] \in {"joined", "unmapped"} /\ worker' = [worker EXCEPT ![d] = "ended"]
        /\ Emit(d, [kind |-> "disconnected"]) /\ UNCHANGED <<listener, told>>
    BY <1>5 DEF Report, Goto, mainVars
  <2>2. CASE e = d
    BY <2>1, <2>2, EventsEmitted DEF TypeOK, Event
  <2>3. CASE e # d
    BY <2>1, <2>3 DEF Emit, EventsFollow, TypeOK, DataOK
  <2>4. QED
    BY <2>2, <2>3
<1>6. ASSUME NEW d \in End, Read(d) PROVE EventsFollow(e)'
  <2> DEFINE n == Completed(d)
             ev == [kind |-> "data", frame |-> n, len |-> sent[Other(d)][n]]
  <2>1. UNCHANGED <<worker, listener, told>> /\ rx[d] = "reading"
    BY <1>6 DEF Read, mainVars
  <2>2. CASE UNCHANGED events
    BY <1>1, <2>1, <2>2
  <2>3. CASE DataReceived(d, n) /\ ~Opens(Head(net[d]))
    <3>1. Emit(d, ev)
      BY <2>3 DEF DataReceived
    <3>2. ev \in Event /\ IsData(ev)
      BY <1>6, <2>3, FrameRead DEF IsData
    <3>3. worker[d] \in Working
      BY <2>1 DEF CtlInv, TasksFollow, TypeOK, Before, Finished, Working, Done
    <3>4. CASE e = d
      <4> HIDE DEF ev
      <4>1. QED
        BY <2>1, <3>1, <3>2, <3>3, <3>4, EventsEmitted
    <3>5. CASE e # d
      BY <2>1, <3>1, <3>5 DEF Emit, EventsFollow, DataOK
    <3>6. QED
      BY <3>4, <3>5
  <2>4. QED
    BY <1>6, <2>2, <2>3 DEF Read, HeaderRead, Opens
<1>7. ASSUME NEW d \in End, Handle(d) PROVE EventsFollow(e)'
  <2> DEFINE head == Head(events[d])
  <2>1. /\ UNCHANGED <<worker, listener>> /\ events[d] # <<>> /\ Popped(d)
        /\ \A f \in End : f # d => told'[f] = told[f]
        /\ \/ IsData(head) /\ told'[d] = told[d]
           \/ head.kind = "connected" /\ told'[d] = "open"
           \/ head.kind \in {"disconnected", "shutdown"} /\ told'[d] = head.kind
    <3>1. CASE TakeConnected(d)
      BY <3>1 DEF TakeConnected, TypeOK
    <3>2. CASE TakeEnd(d)
      BY <3>2 DEF TakeEnd, TypeOK
    <3>3. CASE d = "server" /\ ServerData
      BY <3>3 DEF ServerData
    <3>4. CASE d = "client" /\ ClientData
      BY <3>4 DEF ClientData
    <3>5. QED
      BY <1>7, <3>1, <3>2, <3>3, <3>4 DEF Handle
  <2>2. CASE e = d
    BY <2>1, <2>2, EventsPopped
  <2>3. CASE e # d
    BY <2>1, <2>3 DEF Popped, EventsFollow, DataOK
  <2>4. QED
    BY <2>2, <2>3
<1>8. CASE ConnectFails \/ OpenStream
  <2>1. /\ UNCHANGED <<events, told, listener>>
        /\ \/ /\ worker["client"] = "connecting"
              /\ worker' = [worker EXCEPT !["client"] = "joined"]
           \/ /\ worker["client"] = "opening"
              /\ worker' = [worker EXCEPT !["client"] = "running"]
    <3>1. CASE ConnectFails
      BY <3>1 DEF ConnectFails, Ended, Goto, mainVars
    <3>2. CASE OpenStream
      BY <3>2 DEF OpenStream, Goto, mainVars
    <3>3. QED
      BY <1>8, <3>1, <3>2
  <2>2. CASE e = "client"
    BY <2>1, <2>2, EventsQuiet DEF TypeOK, Before, Working
  <2>3. CASE e # "client"
    BY <2>1, <2>3, EventsQuiet DEF TypeOK
  <2>4. QED
    BY <2>2, <2>3
<1>9. CASE MapPeer \/ AcceptStream \/ Unmap
  BY <1>9, EventsQuiet DEF MapPeer, AcceptStream, Unmap, Goto, mainVars, TypeOK, Before, Working
<1>10. CASE Accept
  <2>1. /\ listener = "up" /\ worker["server"] = "none"
        /\ worker' = [worker EXCEPT !["server"] = "spawned"] /\ UNCHANGED <<events, told, listener>>
    BY <1>10 DEF Accept, Goto, mainVars, CtlInv, ServerFollows
  <2>2. CASE e = "server"
    BY <2>1, <2>2 DEF EventsFollow, TypeOK, Before, Working, Has
  <2>3. CASE e # "server"
    BY <1>1, <2>1, <2>3 DEF TypeOK
  <2>4. QED
    BY <2>2, <2>3
<1>11. ASSUME NEW d \in End, OpenFails(d) \/ FirstEnds(d) \/ Join(d) PROVE EventsFollow(e)'
  <2>1. /\ UNCHANGED <<events, told, listener>>
        /\ \/ worker[d] = "opening" /\ worker' = [worker EXCEPT ![d] = "joined"]
           \/ worker[d] = "running" /\ worker' = [worker EXCEPT ![d] = "joining"]
           \/ worker[d] = "joining" /\ worker' = [worker EXCEPT ![d] = "joined"]
    <3>1. CASE OpenFails(d)
      BY <3>1 DEF OpenFails, Ended, Goto, mainVars
    <3>2. CASE FirstEnds(d)
      BY <3>2 DEF FirstEnds, Goto, mainVars
    <3>3. CASE Join(d)
      BY <3>3 DEF Join, Ended, Goto, mainVars
    <3>4. QED
      BY <1>11, <3>1, <3>2, <3>3
  <2>2. QED
    BY <2>1, EventsQuiet DEF TypeOK, Before, Working
<1>12. ASSUME NEW d \in End, Resume(d) \/ RxClosed(d) \/ Tx(d) PROVE EventsFollow(e)'
  BY <1>1, <1>12 DEF Resume, RxClosed, Tx, TakeFrame, Write, WriteFails, TxDisconnect, TxClosed,
                     mainVars
<1>13. ASSUME NEW d \in End, CloseArrives(d) \/ Lost(d) \/ Ask(d) PROVE EventsFollow(e)'
  BY <1>1, <1>13 DEF CloseArrives, Lost, Ask, Send, ClientDisconnect, mainVars
<1>14. CASE UNCHANGED vars
  BY <1>1, <1>14 DEF vars
<1>15. QED
  BY <1>2, <1>3, <1>4, <1>5, <1>6, <1>7, <1>8, <1>9, <1>10, <1>11, <1>12, <1>13, <1>14
  DEF Next, Setup, Worker, Rx
----------------------------------------------------------------------------
(* What is in the queue of a main loop *)

LEMMA CountType ==
  ASSUME NEW evs \in Seq(Event)
  PROVE  IsFiniteSet(Bytes(evs)) /\ Cardinality(Bytes(evs)) \in Nat
<1>1. DOMAIN evs = 1..Len(evs) /\ Len(evs) \in Int /\ MaxPacket \in Int
  BY QuicConnAssumption
<1>2. IsFiniteSet(DOMAIN evs) /\ IsFiniteSet(1..MaxPacket)
  BY <1>1, FS_Interval
<1>3. IsFiniteSet((DOMAIN evs) \X (1..MaxPacket))
  BY <1>2, FS_Product
<1>4. Bytes(evs) \subseteq (DOMAIN evs) \X (1..MaxPacket)
  BY DEF Bytes
<1>5. QED
  BY <1>3, <1>4, FS_Subset, FS_CardinalityType

\* A packet adds at most the limit, and any other event nothing.
LEMMA CountAppend ==
  ASSUME NEW evs \in Seq(Event), NEW ev \in Event
  PROVE  Cardinality(Bytes(Append(evs, ev))) <=
           Cardinality(Bytes(evs)) + IF IsData(ev) THEN MaxPacket ELSE 0
<1> DEFINE more == Append(evs, ev)
           k == Len(evs) + 1
           last == {k} \X (1..MaxPacket)
<1>1. /\ DOMAIN more = DOMAIN evs \cup {k} /\ more[k] = ev
      /\ \A i \in DOMAIN evs : more[i] = evs[i] /\ i # k
  BY AppendIndex
<1>2. more \in Seq(Event) /\ MaxPacket \in Nat
  BY QuicConnAssumption
<1>3. /\ IsFiniteSet(Bytes(evs)) /\ Cardinality(Bytes(evs)) \in Nat
      /\ IsFiniteSet(Bytes(more)) /\ Cardinality(Bytes(more)) \in Nat
  <2> HIDE DEF more
  <2>1. QED
    BY <1>2, CountType
<1> HIDE DEF more, k
<1>4. CASE IsData(ev)
  <2>1. IsFiniteSet(last) /\ Cardinality(last) = MaxPacket
    <3>1. IsFiniteSet({k}) /\ Cardinality({k}) = 1
      BY FS_Singleton
    <3>2. IsFiniteSet(1..MaxPacket) /\ Cardinality(1..MaxPacket) = MaxPacket
      BY <1>2, FS_Interval
    <3>3. /\ IsFiniteSet({k} \X (1..MaxPacket))
          /\ Cardinality({k} \X (1..MaxPacket)) = Cardinality({k}) * Cardinality(1..MaxPacket)
      BY <3>1, <3>2, FS_Product, Zenon
    <3>4. QED
      BY <1>2, <3>1, <3>2, <3>3
  <2>2. Bytes(more) \subseteq Bytes(evs) \cup last
    BY <1>1 DEF Bytes
  <2> HIDE DEF last
  <2>3. /\ IsFiniteSet(Bytes(evs) \cup last)
        /\ Cardinality(Bytes(evs) \cup last) =
             Cardinality(Bytes(evs)) + Cardinality(last) - Cardinality(Bytes(evs) \cap last)
    BY <1>3, <2>1, FS_Union
  <2>4. Cardinality(Bytes(evs) \cap last) \in Nat
    BY <1>3, FS_Intersection, FS_CardinalityType
  <2>5. Cardinality(Bytes(more)) <= Cardinality(Bytes(evs) \cup last)
    BY <2>2, <2>3, FS_Subset
  <2>6. Cardinality(Bytes(more)) <= Cardinality(Bytes(evs)) + MaxPacket
    BY <1>2, <1>3, <2>1, <2>3, <2>4, <2>5
  <2>7. QED
    BY <1>4, <2>6 DEF more
<1>5. CASE ~IsData(ev)
  <2>1. Bytes(more) \subseteq Bytes(evs)
    BY <1>1, <1>5 DEF Bytes
  <2>2. Cardinality(Bytes(more)) <= Cardinality(Bytes(evs))
    BY <1>3, <2>1, FS_Subset
  <2>3. QED
    BY <1>3, <1>5, <2>2 DEF more
<1>6. QED
  BY <1>4, <1>5

LEMMA CountTail ==
  ASSUME NEW evs \in Seq(Event), evs # <<>>
  PROVE  Cardinality(Bytes(Tail(evs))) <= Cardinality(Bytes(evs))
<1> DEFINE rest == Tail(evs)
           f == [p \in Bytes(rest) |-> <<p[1] + 1, p[2]>>]
<1>1. \A i \in DOMAIN rest : i \in Nat /\ i + 1 \in DOMAIN evs /\ rest[i] = evs[i + 1]
  BY TailIndex
<1> HIDE DEF rest
<1>2. f \in Injection(Bytes(rest), Bytes(evs))
  <2>1. \A p \in Bytes(rest) :
          /\ p[1] \in DOMAIN rest /\ p[2] \in 1..MaxPacket /\ p = <<p[1], p[2]>>
          /\ IsData(rest[p[1]]) /\ p[2] <= rest[p[1]].len
    BY DEF Bytes
  <2>2. \A p \in Bytes(rest) : <<p[1] + 1, p[2]>> \in Bytes(evs)
    BY <1>1, <2>1 DEF Bytes
  <2>3. \A p, q \in Bytes(rest) : <<p[1] + 1, p[2]>> = <<q[1] + 1, q[2]>> => p = q
    <3>1. SUFFICES ASSUME NEW p \in Bytes(rest), NEW q \in Bytes(rest),
                          <<p[1] + 1, p[2]>> = <<q[1] + 1, q[2]>>
                   PROVE  p = q
      OBVIOUS
    <3>2. p[1] + 1 = q[1] + 1 /\ p[2] = q[2]
      BY <3>1
    <3>3. p[1] \in Nat /\ q[1] \in Nat
      BY <1>1, <2>1
    <3>4. p[1] = q[1]
      BY <3>2, <3>3
    <3>5. QED
      BY <2>1, <3>2, <3>4
  <2>4. QED
    BY <2>2, <2>3 DEF Injection, IsInjective
<1>3. QED
  BY <1>2, CountType, FS_Injection DEF rest

LEMMA ReliefStep ==
  ASSUME TypeOK, DataOK, DataOK', CtlInv, Relief, \A e \in End : LinkInv(e), [Next]_vars
  PROVE  Relief'
<1> SUFFICES ASSUME NEW e \in End
             PROVE  /\ rx'[e] \in {"off", "reading"} => Outstanding(e)' <= Capacity
                    /\ Outstanding(e)' <= Capacity + MaxPacket
  BY DEF Relief, Relieved
<1> DEFINE n == Cardinality(Bytes(events[e]))
<1>1. /\ Outstanding(e) = n /\ Outstanding(e)' = Cardinality(Bytes(events'[e]))
      /\ n \in Nat /\ n <= Capacity + MaxPacket
      /\ rx[e] \in {"off", "reading"} => n <= Capacity
      /\ Capacity \in Nat /\ MaxPacket \in Nat /\ events[e] \in Seq(Event)
  BY CountType, QuicConnAssumption DEF Outstanding, Relief, Relieved, DataOK
<1>2. CASE /\ rx'[e] \in {"off", "reading"} => rx[e] \in {"off", "reading"}
           /\ Cardinality(Bytes(events'[e])) <= n
  <2>1. Cardinality(Bytes(events'[e])) \in Nat
    BY CountType DEF DataOK
  <2>2. QED
    BY <1>1, <1>2, <2>1
<1>3. CASE /\ events'[e] = events[e]
           /\ rx'[e] \in {"off", "reading"} => rx[e] \in {"off", "reading"}
  BY <1>1, <1>2, <1>3
<1>4. ASSUME NEW d \in End, NEW ev \in Event, ~IsData(ev), Emit(d, ev), UNCHANGED rx
      PROVE  Cardinality(Bytes(events'[e])) <= n
  <2>1. events'[e] = events[e] \/ events'[e] = Append(events[e], ev)
    BY <1>4 DEF Emit, DataOK
  <2>2. Cardinality(Bytes(Append(events[e], ev))) <= n
    <3>1. Cardinality(Bytes(Append(events[e], ev))) <= n + 0
      BY <1>1, <1>4, CountAppend
    <3>2. QED
      BY <1>1, <3>1
  <2>3. n <= n
    BY <1>1
  <2>4. CASE events'[e] = events[e]
    BY <2>3, <2>4
  <2>5. CASE events'[e] = Append(events[e], ev)
    BY <2>2, <2>3, <2>5
  <2>6. QED
    BY <2>1, <2>4, <2>5
<1>5. CASE Connected \/ Announce \/ HandshakeFails \/ \E d \in End : Report(d)
  <2>1. /\ \A kind \in {"connected", "disconnected", "shutdown"} :
             [kind |-> kind] \in Event /\ ~IsData([kind |-> kind])
        /\ \E d \in End, kind \in {"connected", "disconnected", "shutdown"} :
             Emit(d, [kind |-> kind])
        /\ UNCHANGED rx
    BY <1>5, Ends DEF Connected, Announce, HandshakeFails, Report, Event, IsData
  <2>2. QED
    BY <1>2, <1>4, <2>1
<1>6. ASSUME NEW d \in End, Handle(d)
      PROVE  /\ rx'[e] \in {"off", "reading"} => rx[e] \in {"off", "reading"}
             /\ Cardinality(Bytes(events'[e])) <= n
  <2>1. UNCHANGED rx /\ events[d] # <<>> /\ Popped(d)
    BY <1>6 DEF Handle, TakeConnected, TakeEnd, ServerData, ClientData
  <2>2. CASE e = d
    <3>1. events'[e] = Tail(events[e]) /\ events[e] # <<>>
      BY <2>1, <2>2 DEF Popped, DataOK
    <3>2. QED
      BY <1>1, <2>1, <3>1, CountTail
  <2>3. CASE e # d
    BY <1>1, <2>1, <2>3 DEF Popped, DataOK
  <2>4. QED
    BY <2>2, <2>3
<1>7. ASSUME NEW d \in End, Read(d)
      PROVE  /\ rx'[e] \in {"off", "reading"} => Outstanding(e)' <= Capacity
             /\ Outstanding(e)' <= Capacity + MaxPacket
  <2>1. CASE UNCHANGED events
    BY <1>3, <1>7, <2>1 DEF Read, HeaderRead, DataReceived, TypeOK
  <2>2. CASE DataReceived(d, Completed(d)) /\ e # d
    BY <1>3, <2>2 DEF DataReceived, Emit, TypeOK, DataOK
  <2>3. CASE DataReceived(d, Completed(d)) /\ ~Opens(Head(net[d])) /\ e = d
    <3> DEFINE k == Completed(d)
               ev == [kind |-> "data", frame |-> k, len |-> sent[Other(d)][k]]
    <3>1. events'[e] = Append(events[e], ev) /\ rx'[e] = "waiting" /\ rx[e] = "reading"
      BY <1>7, <2>3 DEF DataReceived, Emit, DataOK, TypeOK, Read
    <3>2. ev \in Event
      BY <1>7, <2>3, FrameRead
    <3>3. IsData(ev)
      BY DEF IsData
    <3> HIDE DEF ev
    <3>4. Cardinality(Bytes(events'[e])) <= n + MaxPacket /\ Cardinality(Bytes(events'[e])) \in Nat
      BY <1>1, <3>1, <3>2, <3>3, CountAppend, CountType DEF DataOK
    <3>5. QED
      BY <1>1, <3>1, <3>4
  <2>4. QED
    BY <1>7, <2>1, <2>2, <2>3 DEF Read, HeaderRead, Opens
<1>8. ASSUME NEW d \in End, Resume(d)
      PROVE  /\ rx'[e] \in {"off", "reading"} => Outstanding(e)' <= Capacity
             /\ Outstanding(e)' <= Capacity + MaxPacket
  <2>1. CASE e = d
    BY <1>1, <1>8, <2>1 DEF Resume, Relieved, mainVars
  <2>2. CASE e # d
    BY <1>3, <1>8, <2>2 DEF Resume, mainVars, TypeOK
  <2>3. QED
    BY <2>1, <2>2
<1>9. CASE OpenStream \/ AcceptStream
  BY <1>3, <1>9 DEF OpenStream, AcceptStream, SpawnTasks, CtlInv, TasksFollow, TypeOK, End
<1>10. CASE ConnectFails \/ Accept \/ MapPeer \/ Unmap
  BY <1>3, <1>10 DEF ConnectFails, Accept, MapPeer, Unmap
<1>11. ASSUME NEW d \in End, OpenFails(d) \/ FirstEnds(d) \/ Join(d) \/ RxClosed(d)
       PROVE  events' = events /\ (rx'[e] \in {"off", "reading"} => rx[e] \in {"off", "reading"})
  BY <1>11 DEF OpenFails, FirstEnds, Join, RxClosed, TypeOK
<1>12. ASSUME NEW d \in End, Tx(d) \/ CloseArrives(d) \/ Lost(d) \/ Ask(d)
       PROVE  UNCHANGED <<events, rx>>
  BY <1>12 DEF Tx, TakeFrame, Write, WriteFails, TxDisconnect, TxClosed, CloseArrives, Lost, Ask,
               Send, ClientDisconnect
<1>13. CASE UNCHANGED vars
  BY <1>3, <1>13 DEF vars
<1>14. QED
  BY <1>2, <1>3, <1>5, <1>6, <1>7, <1>8, <1>9, <1>10, <1>11, <1>12, <1>13
  DEF Next, Setup, Worker, Rx
----------------------------------------------------------------------------
(* Pieces: one more at the end, or one less at the front *)

LEMMA PiecesAppend ==
  ASSUME NEW last, NEW pieces \in Seq(Piece), NEW piece \in Piece
  PROVE  LET more == Append(pieces, piece)
         IN /\ LastOf(last, more) = piece
            /\ Linked(last, pieces) /\ (Closes(piece) <=> Opens(LastOf(last, pieces))) =>
                 Linked(last, more)
            /\ Numbered(last, pieces) /\ piece.frame = NextFrame(LastOf(last, pieces)) =>
                 Numbered(last, more)
<1> DEFINE more == Append(pieces, piece)
           k == Len(pieces) + 1
<1>1. /\ Len(pieces) \in Nat /\ DOMAIN pieces = 1..Len(pieces) /\ Len(more) = k
      /\ DOMAIN more = 1..k /\ more # <<>> /\ more[k] = piece
      /\ \A i \in DOMAIN pieces : more[i] = pieces[i]
      /\ \A i \in DOMAIN more : i = k \/ i \in DOMAIN pieces
  BY AppendIndex
<1>2. \A i \in DOMAIN pieces : PrevOf(last, more, i) = PrevOf(last, pieces, i)
  <2>1. \A i \in DOMAIN pieces : i = 1 \/ i - 1 \in DOMAIN pieces
    BY <1>1
  <2>2. QED
    BY <1>1, <2>1 DEF PrevOf
<1>3. PrevOf(last, more, k) = LastOf(last, pieces)
  <2>1. CASE pieces = <<>>
    <3>1. k = 1
      BY <2>1
    <3>2. QED
      BY <2>1, <3>1 DEF PrevOf, LastOf
  <2>2. CASE pieces # <<>>
    <3>1. k # 1 /\ k - 1 = Len(pieces) /\ Len(pieces) \in DOMAIN pieces
      BY <1>1, <2>2
    <3>2. QED
      BY <1>1, <2>2, <3>1 DEF PrevOf, LastOf
  <2>3. QED
    BY <2>1, <2>2
<1>4. LastOf(last, more) = piece
  BY <1>1 DEF LastOf
<1> HIDE DEF more, k
<1>5. Linked(last, pieces) /\ (Closes(piece) <=> Opens(LastOf(last, pieces))) =>
        Linked(last, more)
  BY <1>1, <1>2, <1>3 DEF Linked
<1>6. Numbered(last, pieces) /\ piece.frame = NextFrame(LastOf(last, pieces)) =>
        Numbered(last, more)
  BY <1>1, <1>2, <1>3 DEF Numbered
<1>7. QED
  BY <1>4, <1>5, <1>6 DEF more

LEMMA PiecesTail ==
  ASSUME NEW last, NEW next, NEW pieces \in Seq(Piece), pieces # <<>>,
         Opens(next) <=> Opens(pieces[1])
  PROVE  LET rest == Tail(pieces)
             alike == next.frame = pieces[1].frame
         IN /\ Linked(last, pieces) => Linked(next, rest)
            /\ Opens(LastOf(next, rest)) <=> Opens(LastOf(last, pieces))
            /\ alike /\ Numbered(last, pieces) => Numbered(next, rest)
            /\ alike => LastOf(next, rest).frame = LastOf(last, pieces).frame
<1> DEFINE rest == Tail(pieces)
<1>1. /\ Len(pieces) \in Nat /\ DOMAIN pieces = 1..Len(pieces)
      /\ Len(rest) = Len(pieces) - 1 /\ rest = <<>> <=> Len(pieces) = 1
      /\ DOMAIN rest = 1..(Len(pieces) - 1)
      /\ \A i \in DOMAIN rest : /\ i + 1 \in DOMAIN pieces /\ rest[i] = pieces[i + 1]
  BY TailIndex
<1>2. \A i \in DOMAIN rest : \/ i = 1 /\ PrevOf(next, rest, i) = next
                                   /\ PrevOf(last, pieces, i + 1) = pieces[1]
                             \/ PrevOf(next, rest, i) = PrevOf(last, pieces, i + 1)
  <2>1. \A i \in DOMAIN rest : /\ i \in Nat /\ i + 1 # 1 /\ (i + 1) - 1 = i
                               /\ i = 1 \/ (i - 1 \in DOMAIN rest /\ (i - 1) + 1 = i)
    BY <1>1
  <2> HIDE DEF rest
  <2>2. \A i \in DOMAIN rest : PrevOf(last, pieces, i + 1) = pieces[i]
    BY <2>1 DEF PrevOf
  <2>3. \A i \in DOMAIN rest : i # 1 => PrevOf(next, rest, i) = pieces[i]
    BY <1>1, <2>1 DEF PrevOf
  <2>4. QED
    BY <2>2, <2>3 DEF PrevOf
<1>3. \/ rest = <<>> /\ LastOf(next, rest) = next /\ LastOf(last, pieces) = pieces[1]
      \/ LastOf(next, rest) = LastOf(last, pieces)
  <2>1. CASE rest = <<>>
    BY <1>1, <2>1 DEF LastOf
  <2>2. CASE rest # <<>>
    <3>1. Len(rest) \in DOMAIN rest /\ Len(rest) + 1 = Len(pieces)
      BY <1>1, <2>2
    <3>2. QED
      BY <1>1, <2>2, <3>1 DEF LastOf
  <2>3. QED
    BY <2>1, <2>2
<1> HIDE DEF rest
<1>4. Linked(last, pieces) => Linked(next, rest)
  BY <1>1, <1>2 DEF Linked
<1>5. ASSUME next.frame = pieces[1].frame, Numbered(last, pieces), NEW i \in DOMAIN rest
      PROVE  rest[i].frame = NextFrame(PrevOf(next, rest, i))
  <2>1. pieces[i + 1].frame = NextFrame(PrevOf(last, pieces, i + 1))
    BY <1>1, <1>5 DEF Numbered
  <2>2. QED
    BY <1>1, <1>2, <1>5, <2>1 DEF NextFrame
<1>6. QED
  BY <1>3, <1>4, <1>5 DEF rest, Numbered
----------------------------------------------------------------------------
(* The queue of a writer, and the frames among the events *)

LEMMA QueueAppend ==
  ASSUME NEW queue \in Seq(Frame \cup {Disconnect}), NEW n \in Int, NEW total \in Nat,
         QueueNumbered(queue, n, total)
  PROVE  /\ QueueNumbered(Append(queue, Disconnect), n, total)
         /\ QueueNumbered(Append(queue, total + 1), n, total + 1)
<1> DEFINE k == Len(queue) + 1
<1>1. ASSUME NEW a, a = Disconnect \/ a = total + 1
      PROVE  QueueNumbered(Append(queue, a), n, IF a = Disconnect THEN total ELSE total + 1)
  <2> DEFINE more == Append(queue, a)
  <2>1. /\ Len(queue) \in Nat /\ DOMAIN queue = 1..Len(queue) /\ Len(more) = k
        /\ DOMAIN more = 1..k /\ more[k] = a
        /\ \A i \in DOMAIN queue : more[i] = queue[i] /\ i < k
        /\ \A i \in DOMAIN more : i = k \/ i \in DOMAIN queue
    BY AppendIndex
  <2> HIDE DEF more
  <2>2. \A i \in DOMAIN queue : AskedIn(more, i) <=> AskedIn(queue, i)
    <3>1. \A i \in DOMAIN queue : \A j \in 1..i : j \in DOMAIN queue
      BY <2>1
    <3>2. QED
      BY <2>1, <3>1 DEF AskedIn
  <2>3. AskedIn(queue, Len(queue)) => AskedIn(more, k)
    BY <2>1 DEF AskedIn
  <2>4. a = Disconnect => AskedIn(more, k)
    BY <2>1 DEF AskedIn
  <2>5. \A i \in DOMAIN queue : ~AskedIn(more, i) => more[i] = n + i
    BY <2>1, <2>2 DEF QueueNumbered
  <2>6. ~AskedIn(more, k) => a # Disconnect /\ a = n + k /\ total + 1 = n + k
    <3>1. CASE ~AskedIn(queue, Len(queue))
      BY <1>1, <2>1, <2>4, <3>1 DEF QueueNumbered
    <3>2. QED
      BY <2>3, <3>1
  <2>7. QED
    BY <2>1, <2>5, <2>6 DEF QueueNumbered, more
<1>2. total + 1 # Disconnect
  BY DEF Disconnect
<1>3. QED
  BY <1>1, <1>2

LEMMA QueueTail ==
  ASSUME NEW queue \in Seq(Frame \cup {Disconnect}), NEW n \in Int, NEW total \in Nat,
         QueueNumbered(queue, n, total), queue # <<>>, Head(queue) # Disconnect
  PROVE  /\ Head(queue) = n + 1
         /\ QueueNumbered(Tail(queue), n + 1, total)
<1> DEFINE rest == Tail(queue)
<1>1. /\ Head(queue) = queue[1] /\ 1 \in DOMAIN queue
      /\ Len(queue) \in Nat /\ DOMAIN queue = 1..Len(queue) /\ Len(queue) >= 1
      /\ Len(rest) = Len(queue) - 1 /\ DOMAIN rest = 1..(Len(queue) - 1)
      /\ \A i \in DOMAIN rest : /\ i \in Nat /\ i + 1 \in DOMAIN queue
                                /\ rest[i] = queue[i + 1]
  BY TailIndex
<1> HIDE DEF rest
<1>2. ~AskedIn(queue, 1)
  BY <1>1 DEF AskedIn
<1>3. ASSUME NEW i \in 0..Len(rest), AskedIn(queue, i + 1) PROVE AskedIn(rest, i)
  <2>1. PICK j \in 1..(i + 1) : queue[j] = Disconnect
    BY <1>3 DEF AskedIn
  <2>2. j # 1
    BY <1>1, <2>1
  <2>3. j - 1 \in 1..i /\ j - 1 \in DOMAIN rest /\ (j - 1) + 1 = j
    BY <1>1, <2>1, <2>2
  <2>4. rest[j - 1] = Disconnect
    BY <1>1, <2>1, <2>3
  <2>5. QED
    BY <2>3, <2>4 DEF AskedIn
<1>4. \A i \in DOMAIN rest : ~AskedIn(rest, i) => rest[i] = (n + 1) + i
  <2>1. ASSUME NEW i \in DOMAIN rest, ~AskedIn(rest, i) PROVE rest[i] = (n + 1) + i
    <3>1. i \in 0..Len(rest) /\ i \in Nat
      BY <1>1
    <3>2. ~AskedIn(queue, i + 1)
      BY <1>3, <2>1, <3>1
    <3>3. queue[i + 1] = n + (i + 1)
      BY <1>1, <3>2 DEF QueueNumbered
    <3>4. QED
      BY <1>1, <3>1, <3>3
  <2>2. QED
    BY <2>1
<1>5. ~AskedIn(rest, Len(rest)) => total = (n + 1) + Len(rest)
  <2>1. Len(rest) \in 0..Len(rest) /\ Len(rest) + 1 = Len(queue)
    BY <1>1
  <2>2. QED
    BY <1>1, <1>3, <2>1 DEF QueueNumbered
<1>6. QED
  BY <1>1, <1>2, <1>4, <1>5 DEF QueueNumbered, rest

LEMMA NumberedEvents ==
  ASSUME NEW evs \in Seq(Event), NEW base \in Int, EventsNumbered(evs, base)
  PROVE  /\ evs # <<>> => EventsNumbered(Tail(evs), base + 1)
         /\ evs # <<>> /\ IsData(Head(evs)) => Head(evs).frame = base + 1
         /\ \A ev \in Event : ~IsData(ev) \/ ev.frame = base + Len(evs) + 1 =>
              EventsNumbered(Append(evs, ev), base)
<1>1. CASE evs # <<>>
  <2> DEFINE rest == Tail(evs)
  <2>1. /\ Head(evs) = evs[1] /\ 1 \in DOMAIN evs
        /\ \A i \in DOMAIN rest : /\ i \in Nat /\ i + 1 \in DOMAIN evs
                                  /\ rest[i] = evs[i + 1]
    BY <1>1, TailIndex
  <2> HIDE DEF rest
  <2>2. EventsNumbered(rest, base + 1)
    BY <2>1 DEF EventsNumbered
  <2>3. QED
    BY <2>1, <2>2 DEF EventsNumbered, rest
<1>2. ASSUME NEW ev \in Event, ~IsData(ev) \/ ev.frame = base + Len(evs) + 1
      PROVE  EventsNumbered(Append(evs, ev), base)
  <2> DEFINE more == Append(evs, ev)
             k == Len(evs) + 1
  <2>1. /\ Len(evs) \in Nat /\ more[k] = ev
        /\ \A i \in DOMAIN evs : more[i] = evs[i]
        /\ \A i \in DOMAIN more : i = k \/ i \in DOMAIN evs
    BY AppendIndex
  <2>2. base + k = base + Len(evs) + 1
    BY <2>1
  <2> HIDE DEF more, k
  <2>3. QED
    BY <1>2, <2>1, <2>2 DEF EventsNumbered, more
<1>3. QED
  BY <1>1, <1>2
----------------------------------------------------------------------------
(* What is over stays over *)

LEMMA OverStays ==
  ASSUME TypeOK, CtlInv, [Next]_vars, NEW e \in End, EventsFollow(e)
  PROVE  /\ Reading(e)' => Reading(e)
         /\ Queuing(e)' => Queuing(e)
         /\ Over(e) => Over(e)'
<1> DEFINE Stays == /\ Reading(e)' => Reading(e)
                    /\ Queuing(e)' => Queuing(e)
                    /\ Over(e) => Over(e)'
<1> USE DEF TypeOK, Reading, Queuing, Over, Finished, Done
<1>1. CASE UNCHANGED <<worker, rx, tx, asked, told>>
  BY <1>1
<1>2. CASE Connected \/ ConnectFails \/ OpenStream
  BY <1>2
  DEF Connected, ConnectFails, OpenStream, Goto, Ended, SpawnTasks, mainVars, CtlInv, TasksFollow
<1>3. CASE Accept \/ MapPeer \/ Announce \/ AcceptStream \/ Unmap
  BY <1>3 DEF Accept, MapPeer, Announce, AcceptStream, Unmap, Goto, SpawnTasks, mainVars, CtlInv,
              ServerFollows, TasksFollow
<1>4. CASE HandshakeFails
  BY <1>4 DEF HandshakeFails, mainVars
<1>5. ASSUME NEW d \in End, OpenFails(d) \/ FirstEnds(d) \/ Join(d) PROVE Stays
  BY <1>5 DEF OpenFails, FirstEnds, Join, Goto, Ended, mainVars
<1>6. ASSUME NEW d \in End, Report(d) PROVE Stays
  BY <1>6 DEF Report, Goto, mainVars
<1>7. ASSUME NEW d \in End, Read(d) PROVE Stays
  BY <1>7 DEF Read, HeaderRead, DataReceived, mainVars
<1>8. ASSUME NEW d \in End, Resume(d) \/ RxClosed(d) PROVE Stays
  BY <1>8 DEF Resume, RxClosed, mainVars
<1>9. ASSUME NEW d \in End, Tx(d) PROVE Stays
  BY <1>9 DEF Tx, TakeFrame, Write, WriteFails, TxDisconnect, TxClosed, mainVars
<1>10. ASSUME NEW d \in End, CloseArrives(d) \/ Lost(d) PROVE Stays
  BY <1>1, <1>10 DEF CloseArrives, Lost, mainVars
<1>11. ASSUME NEW d \in End, TakeConnected(d) \/ TakeEnd(d) PROVE Stays
  BY <1>11 DEF TakeConnected, TakeEnd, EventsFollow
<1>12. CASE ServerData
  BY <1>12 DEF ServerData
<1>13. CASE ClientData
  BY <1>1, <1>13 DEF ClientData
<1>14. ASSUME NEW d \in End, Ask(d) PROVE Stays
  <2>1. CASE Send(d)
    BY <1>1, <2>1 DEF Send
  <2>2. CASE ClientDisconnect
    <3>1. asked'["server"] = asked["server"] /\ UNCHANGED <<worker, rx, tx, told>>
      BY <2>2, Ends DEF ClientDisconnect
    <3>2. QED
      BY <3>1
  <2>3. QED
    BY <1>14, <2>1, <2>2 DEF Ask
<1>15. CASE UNCHANGED vars
  BY <1>1, <1>15 DEF vars
<1>16. QED
  BY <1>2, <1>3, <1>4, <1>5, <1>6, <1>7, <1>8, <1>9, <1>10, <1>11, <1>12, <1>13, <1>14, <1>15
  DEF Next, Setup, Worker, Rx, Handle
----------------------------------------------------------------------------
(* The frames on their way to e, step by step *)

LEMMA LastType ==
  ASSUME DataOK, NEW e \in End
  PROVE  /\ Base(e) \in Int /\ Decoded(e) \in Int
         /\ LastRead(e).frame \in Int /\ LastRead(e).part \in {"header", "body", "whole"}
         /\ LastWritten(e).frame \in Int /\ LastWritten(e).part \in {"header", "body", "whole"}
<1>1. \A n \in Frame \cup {0} : n \in Int
  BY FrameType
<1>2. Len(got[e]) \in Nat /\ Len(events[e]) \in Nat /\ net[e] \in Seq(Piece)
  BY DEF DataOK
<1>3. partial[e] \in Int
  BY <1>1 DEF DataOK
<1>4. Base(e) \in Int /\ Decoded(e) \in Int
  BY <1>2 DEF Base, Decoded
<1>5. LastRead(e).frame \in Int /\ LastRead(e).part \in {"header", "body", "whole"}
  BY <1>3, <1>4 DEF LastRead
<1>6. CASE net[e] = <<>>
  BY <1>4, <1>5, <1>6 DEF LastWritten, LastOf
<1>7. CASE net[e] # <<>>
  <2>1. net[e][Len(net[e])] \in Piece
    BY <1>2, <1>7
  <2>2. \A piece \in Piece : piece.frame \in Int /\ piece.part \in {"header", "body", "whole"}
    BY <1>1 DEF Piece
  <2>3. QED
    BY <1>4, <1>5, <1>7, <2>1, <2>2 DEF LastWritten, LastOf
<1>8. QED
  BY <1>6, <1>7

\* Nothing moves; at most a writer gives up, with its queue.
LEMMA FramesQuiet ==
  ASSUME NEW e \in End, FramesFollow(e), NEW s, s = Other(e),
         /\ events'[e] = events[e] /\ told'[e] = told[e] /\ got'[e] = got[e]
         /\ partial'[e] = partial[e] /\ net'[e] = net[e] /\ sent'[s] = sent[s],
         actions'[s] = actions[s] \/ (actions'[s] = <<>> /\ ~Queuing(s)'),
         tx'[s] \notin Done => tx[s] \notin Done /\ (tx'[s] = "body" <=> tx[s] = "body"),
         Reading(e)' => Reading(e), Queuing(s)' => Queuing(s), Over(e) => Over(e)'
  PROVE  FramesFollow(e)'
<1>1. /\ Decoded(e)' = Decoded(e) /\ Base(e)' = Base(e) /\ LastRead(e)' = LastRead(e)
      /\ LastWritten(e)' = LastWritten(e)
  BY DEF Decoded, Base, LastRead, LastWritten
<1>2. NumbersKnown(e)'
  BY DEF FramesFollow, NumbersKnown, Sender
<1>3. Alternate(e)'
  BY <1>1 DEF FramesFollow, Alternate, Sender
<1>4. Consecutive(e)'
  BY <1>1 DEF FramesFollow, Consecutive
<1>5. QueueFollows(e)'
  BY <1>1 DEF FramesFollow, QueueFollows, Sender
<1>6. GotInOrder(e)'
  BY DEF FramesFollow, GotInOrder
<1>7. QED
  BY <1>2, <1>3, <1>4, <1>5, <1>6 DEF FramesFollow

\* A main loop sends a frame, or asks for the end.
LEMMA FramesQueued ==
  ASSUME DataOK, NEW e \in End, FramesFollow(e), NEW s \in End, s = Other(e),
         /\ events'[e] = events[e] /\ told'[e] = told[e] /\ got'[e] = got[e]
         /\ partial'[e] = partial[e] /\ net'[e] = net[e] /\ tx'[s] = tx[s],
         \/ actions'[s] = Append(actions[s], Disconnect) /\ sent'[s] = sent[s]
         \/ \E size \in Size[s] : /\ actions'[s] = Append(actions[s], Len(sent[s]) + 1)
                               /\ sent'[s] = Append(sent[s], size),
         Reading(e)' => Reading(e), Queuing(s)' => Queuing(s), Over(e) => Over(e)'
  PROVE  FramesFollow(e)'
<1>1. /\ Decoded(e)' = Decoded(e) /\ Base(e)' = Base(e) /\ LastRead(e)' = LastRead(e)
      /\ LastWritten(e)' = LastWritten(e)
  BY DEF Decoded, Base, LastRead, LastWritten
<1> DEFINE total == Len(sent[s])
<1>2. /\ actions[s] \in Seq(Frame \cup {Disconnect}) /\ sent[s] \in Seq(Nat) /\ total \in Nat
      /\ Written(LastWritten(e)) \in Int
  <2>1. Written(LastWritten(e)) \in Int
    BY LastType DEF Written
  <2>2. QED
    BY <2>1 DEF DataOK
<1>3. /\ \A n : Known(sent[s], n) => Known(sent'[s], n)
      /\ \A n : KnownSmall(sent[s], n) => KnownSmall(sent'[s], n)
  <2>1. CASE sent'[s] = sent[s]
    BY <2>1
  <2>2. ASSUME NEW size \in Size[s], sent'[s] = Append(sent[s], size)
        PROVE  /\ \A n : Known(sent[s], n) => Known(sent'[s], n)
               /\ \A n : KnownSmall(sent[s], n) => KnownSmall(sent'[s], n)
    BY <1>2, <2>2 DEF Known, KnownSmall
  <2>3. QED
    BY <2>1, <2>2
<1>4. \E a : /\ actions'[s] = Append(actions[s], a)
             /\ a # Disconnect => Known(sent'[s], a)
  <2>1. CASE actions'[s] = Append(actions[s], Disconnect)
    BY <2>1
  <2>2. ASSUME NEW size \in Size[s], actions'[s] = Append(actions[s], total + 1),
               sent'[s] = Append(sent[s], size)
        PROVE  Known(sent'[s], total + 1)
    BY <1>2, <2>2 DEF Known
  <2>3. QED
    BY <2>1, <2>2
<1>5. NumbersKnown(e)'
  <2>1. \A i \in DOMAIN actions'[s] :
          actions'[s][i] # Disconnect => Known(sent'[s], actions'[s][i])
    <3>1. PICK a : /\ actions'[s] = Append(actions[s], a)
                   /\ a # Disconnect => Known(sent'[s], a)
      BY <1>4
    <3> DEFINE k == Len(actions[s]) + 1
               more == actions'[s]
    <3>2. /\ more[k] = a
          /\ \A i \in DOMAIN actions[s] : more[i] = actions[s][i]
          /\ \A i \in DOMAIN more : i = k \/ i \in DOMAIN actions[s]
      BY <1>2, <3>1, AppendIndex
    <3>3. \A i \in DOMAIN actions[s] :
            actions[s][i] # Disconnect => Known(sent[s], actions[s][i])
      BY DEF FramesFollow, NumbersKnown, Sender
    <3> HIDE DEF more, k
    <3>4. \A i \in DOMAIN more : more[i] # Disconnect => Known(sent'[s], more[i])
      BY <1>3, <3>1, <3>2, <3>3
    <3>5. QED
      BY <3>4 DEF more
  <2>2. QED
    BY <1>3, <2>1 DEF FramesFollow, NumbersKnown, Sender
<1>6. Alternate(e)'
  BY <1>1 DEF FramesFollow, Alternate, Sender
<1>7. Consecutive(e)'
  BY <1>1 DEF FramesFollow, Consecutive
<1>8. QueueFollows(e)'
  <2>1. SUFFICES ASSUME Queuing(s)', Reading(e)', ~Over(e)'
                 PROVE  QueueNumbered(actions'[s], Written(LastWritten(e)), Len(sent'[s]))
    BY <1>1 DEF QueueFollows, Sender
  <2>2. QueueNumbered(actions[s], Written(LastWritten(e)), total)
    BY <2>1 DEF FramesFollow, QueueFollows, Sender
  <2>3. /\ QueueNumbered(Append(actions[s], Disconnect), Written(LastWritten(e)), total)
        /\ QueueNumbered(Append(actions[s], total + 1), Written(LastWritten(e)), total + 1)
    BY <1>2, <2>2, QueueAppend
  <2>4. \A size \in Size[s] : Len(Append(sent[s], size)) = total + 1
    BY <1>2
  <2>5. QED
    BY <2>3, <2>4
<1>9. GotInOrder(e)'
  BY DEF FramesFollow, GotInOrder
<1>10. QED
  BY <1>5, <1>6, <1>7, <1>8, <1>9 DEF FramesFollow

\* An event that carries no frame: the first one, or one of an end that does not read.
LEMMA FramesTold ==
  ASSUME DataOK, NEW e \in End, FramesFollow(e), NEW s \in End, s = Other(e),
         NEW ev \in Event, ~IsData(ev), events'[e] = Append(events[e], ev),
         /\ told'[e] = told[e] /\ got'[e] = got[e] /\ partial'[e] = partial[e]
         /\ net'[e] = net[e] /\ tx'[s] = tx[s] /\ actions'[s] = actions[s]
         /\ sent'[s] = sent[s],
         (events[e] = <<>> /\ told[e] = "before") \/ ~Reading(e)',
         Reading(e)' => Reading(e), Queuing(s)' => Queuing(s), Over(e) => Over(e)'
  PROVE  FramesFollow(e)'
<1> DEFINE evs == events[e]
           more == Append(evs, ev)
<1>1. /\ evs \in Seq(Event) /\ Len(got[e]) \in Nat
      /\ Len(evs) \in Nat /\ Len(more) = Len(evs) + 1 /\ more # <<>> /\ more[Len(evs) + 1] = ev
      /\ \A i \in DOMAIN evs : more[i] = evs[i]
      /\ \A i \in DOMAIN more : i = Len(evs) + 1 \/ i \in DOMAIN evs
  <2>1. evs \in Seq(Event) /\ Len(got[e]) \in Nat
    BY DEF DataOK
  <2>2. QED
    BY <2>1, AppendIndex
<1>2. Base(e)' = Base(e)
  BY DEF Base
<1>3. Reading(e)' => /\ Decoded(e)' = Decoded(e) /\ LastRead(e)' = LastRead(e)
                     /\ LastWritten(e)' = LastWritten(e)
  <2>1. SUFFICES ASSUME events[e] = <<>>, told[e] = "before"
                 PROVE  Decoded(e)' = Decoded(e)
    BY DEF LastRead, LastWritten
  <2>2. Len(more) = 1
    BY <1>1, <2>1
  <2>3. Decoded(e)' = (Len(got[e]) - 1) + 1 /\ Decoded(e) = Len(got[e])
    BY <1>1, <2>1, <2>2 DEF Decoded, Base
  <2>4. QED
    BY <1>1, <2>3
<1> HIDE DEF more
<1>4. NumbersKnown(e)'
  <2>1. \A i \in DOMAIN more : IsData(more[i]) => KnownSmall(sent[s], more[i].frame)
    BY <1>1 DEF FramesFollow, NumbersKnown, Sender
  <2>2. QED
    BY <2>1 DEF FramesFollow, NumbersKnown, Sender, more
<1>5. Alternate(e)'
  BY <1>3 DEF FramesFollow, Alternate, Sender
<1>6. Consecutive(e)'
  <2>1. SUFFICES ASSUME ~Over(e)' PROVE Consecutive(e)'
    BY DEF Consecutive
  <2>2. EventsNumbered(events'[e], Base(e))
    BY <1>1, <2>1, NumberedEvents, LastType DEF FramesFollow, Consecutive
  <2>3. QED
    BY <1>2, <1>3, <2>1, <2>2 DEF FramesFollow, Consecutive
<1>7. QueueFollows(e)'
  BY <1>3 DEF FramesFollow, QueueFollows, Sender
<1>8. GotInOrder(e)'
  BY DEF FramesFollow, GotInOrder
<1>9. QED
  BY <1>4, <1>5, <1>6, <1>7, <1>8 DEF FramesFollow

\* The main loop takes an event: what it is handed, as long as nothing is over, is the next
\* frame.
LEMMA FramesPopped ==
  ASSUME DataOK, NEW e \in End, FramesFollow(e), NEW s \in End, s = Other(e),
         events[e] # <<>>, events'[e] = Tail(events[e]),
         /\ partial'[e] = partial[e] /\ net'[e] = net[e] /\ tx'[s] = tx[s]
         /\ actions'[s] = actions[s] /\ sent'[s] = sent[s],
         \/ /\ IsData(Head(events[e])) /\ told[e] = "open" /\ told'[e] = "open" /\ ~Over(e)
            /\ got'[e] = Append(got[e], Head(events[e]).frame)
         \/ got'[e] = got[e] /\ told[e] = "before" /\ told'[e] = "open"
         \/ got'[e] = got[e] /\ Over(e)',
         Reading(e)' => Reading(e), Queuing(s)' => Queuing(s), Over(e) => Over(e)'
  PROVE  FramesFollow(e)'
<1> DEFINE evs == events[e]
           rest == Tail(evs)
<1>1. /\ evs \in Seq(Event) /\ Len(got[e]) \in Nat /\ got[e] \in Seq(Frame)
      /\ Head(evs) = evs[1] /\ 1 \in DOMAIN evs /\ Len(evs) \in Nat /\ Len(rest) = Len(evs) - 1
      /\ \A i \in DOMAIN rest : i + 1 \in DOMAIN evs /\ rest[i] = evs[i + 1]
  <2>1. evs \in Seq(Event) /\ Len(got[e]) \in Nat /\ got[e] \in Seq(Frame)
    BY DEF DataOK
  <2>2. QED
    BY <2>1, TailIndex
<1>2. Base(e) \in Int /\ Decoded(e) \in Int
  BY LastType
<1>3. ~Over(e)' => Base(e)' = Base(e) + 1 /\ Decoded(e)' = Decoded(e)
  <2> HIDE DEF evs, rest
  <2>1. CASE told[e] = "open" /\ told'[e] = "open" /\ Len(got'[e]) = Len(got[e]) + 1
    <3>1. Base(e) = Len(got[e]) /\ Base(e)' = Len(got[e]) + 1
      BY <2>1 DEF Base
    <3>2. Decoded(e) = Len(got[e]) + Len(evs) /\ Decoded(e)' = Len(got[e]) + 1 + Len(rest)
      BY <2>1, <3>1 DEF Decoded, evs, rest
    <3>3. QED
      BY <1>1, <3>1, <3>2
  <2>2. CASE got'[e] = got[e] /\ told[e] = "before" /\ told'[e] = "open"
    <3>1. Base(e) = Len(got[e]) - 1 /\ Base(e)' = Len(got[e])
      BY <2>2 DEF Base
    <3>2. Decoded(e) = (Len(got[e]) - 1) + Len(evs) /\ Decoded(e)' = Len(got[e]) + Len(rest)
      BY <2>2, <3>1 DEF Decoded, evs, rest
    <3>3. QED
      BY <1>1, <3>1, <3>2
  <2>3. \A x : Len(Append(got[e], x)) = Len(got[e]) + 1
    BY <1>1
  <2>4. QED
    BY <2>1, <2>2, <2>3
<1>4. ~Over(e)' => LastRead(e)' = LastRead(e) /\ LastWritten(e)' = LastWritten(e)
  BY <1>3 DEF LastRead, LastWritten
<1>5. /\ Opens(LastRead(e)') <=> Opens(LastRead(e))
      /\ Opens(LastWritten(e)') <=> Opens(LastWritten(e))
  <2>1. Opens(LastRead(e)') <=> Opens(LastRead(e))
    BY DEF LastRead, Opens
  <2>2. QED
    BY <2>1 DEF LastWritten, LastOf
<1> HIDE DEF rest
<1>6. NumbersKnown(e)'
  <2>1. \A i \in DOMAIN rest : IsData(rest[i]) => KnownSmall(sent[s], rest[i].frame)
    BY <1>1 DEF FramesFollow, NumbersKnown, Sender
  <2>2. QED
    BY <2>1 DEF FramesFollow, NumbersKnown, Sender, rest
<1>7. Alternate(e)'
  <2>1. SUFFICES ASSUME Reading(e)' PROVE Linked(LastRead(e)', net[e])
    BY <1>5 DEF FramesFollow, Alternate, Sender
  <2>2. Linked(LastRead(e), net[e])
    BY <2>1 DEF FramesFollow, Alternate
  <2>3. QED
    BY <1>5, <2>2 DEF Linked, PrevOf
<1>8. Consecutive(e)'
  <2>1. SUFFICES ASSUME ~Over(e)' PROVE Consecutive(e)'
    BY DEF Consecutive
  <2>2. EventsNumbered(evs, Base(e))
    BY <2>1 DEF FramesFollow, Consecutive
  <2>3. EventsNumbered(events'[e], Base(e)')
    BY <1>1, <1>2, <1>3, <2>1, <2>2, NumberedEvents
  <2>4. QED
    BY <1>3, <1>4, <2>1, <2>3 DEF FramesFollow, Consecutive
<1>9. QueueFollows(e)'
  BY <1>4 DEF FramesFollow, QueueFollows, Sender
<1>10. GotInOrder(e)'
  <2>1. CASE got'[e] = got[e]
    BY <2>1 DEF FramesFollow, GotInOrder
  <2>2. CASE /\ IsData(Head(evs)) /\ told[e] = "open" /\ ~Over(e)
             /\ got'[e] = Append(got[e], Head(evs).frame)
    <3>1. EventsNumbered(evs, Base(e)) /\ Base(e) = Len(got[e])
      BY <2>2 DEF FramesFollow, Consecutive, Base
    <3>2. Head(evs).frame = Len(got[e]) + 1
      <4>1. Head(evs).frame = Base(e) + 1
        BY <1>1, <1>2, <2>2, <3>1, NumberedEvents
      <4>2. QED
        BY <3>1, <4>1
    <3> DEFINE k == Len(got[e]) + 1
               more == got'[e]
    <3>3. /\ more[k] = k
          /\ \A i \in DOMAIN got[e] : more[i] = got[e][i]
          /\ \A i \in DOMAIN more : i = k \/ i \in DOMAIN got[e]
      BY <1>1, <2>2, <3>2, AppendIndex
    <3> HIDE DEF more, k
    <3>4. \A i \in DOMAIN more : more[i] = i
      BY <3>3 DEF FramesFollow, GotInOrder
    <3>5. QED
      BY <3>4 DEF GotInOrder, more
  <2>3. QED
    BY <2>1, <2>2
<1>11. QED
  BY <1>6, <1>7, <1>8, <1>9, <1>10 DEF FramesFollow

\* The decoder takes a piece from the stream: it becomes the one that was read last.
LEMMA FramesRead ==
  ASSUME TypeOK, DataOK, CtlInv, NEW e \in End, EventsFollow(e), LinkInv(e),
         NEW s \in End, s = Other(e), Read(e),
         Reading(e)' => Reading(e), Queuing(s)' => Queuing(s), Over(e) => Over(e)'
  PROVE  FramesFollow(e)'
<1> DEFINE piece == Head(net[e])
           rest == Tail(net[e])
           n == Completed(e)
           ev == [kind |-> "data", frame |-> n, len |-> sent[s][n]]
<1>1. /\ net[e] \in Seq(Piece) /\ net[e] # <<>> /\ piece = net[e][1] /\ piece \in Piece
      /\ \A i \in DOMAIN rest : i + 1 \in DOMAIN net[e] /\ rest[i] = net[e][i + 1]
      /\ 1 \in DOMAIN net[e]
  <2>1. net[e] \in Seq(Piece) /\ net[e] # <<>>
    BY DEF Read, DataOK
  <2>2. QED
    BY <2>1, TailIndex
<1>2. net'[e] = rest /\ UNCHANGED <<tx, actions, told, sent, got, worker>>
  BY DEF Read, mainVars, DataOK
<1>3. Reading(e) /\ worker[e] \in Working
  BY DEF Read, Reading, TypeOK, CtlInv, TasksFollow, Done, Working, Finished, Before
<1>4. /\ Linked(LastRead(e), net[e])
      /\ ~Over(e) => /\ EventsNumbered(events[e], Base(e))
                     /\ partial[e] # 0 => partial[e] = Decoded(e) + 1
                     /\ Numbered(LastRead(e), net[e])
  BY <1>3 DEF LinkInv, FramesFollow, Alternate, Consecutive
<1>5. /\ Decoded(e) = Base(e) + Len(events[e]) /\ Base(e) \in Int
      /\ events[e] \in Seq(Event) /\ Len(events[e]) \in Nat
      /\ piece.frame # 0 /\ piece.frame \in Frame /\ piece.part \in {"header", "body", "whole"}
  <2>1. Decoded(e) = Base(e) + Len(events[e])
    BY <1>3 DEF EventsFollow, Decoded
  <2>2. events[e] \in Seq(Event) /\ Base(e) \in Int
    BY LastType DEF DataOK
  <2>3. piece.frame \in Frame /\ piece.part \in {"header", "body", "whole"}
    BY <1>1 DEF Piece
  <2>4. QED
    BY <2>1, <2>2, <2>3, FrameType
<1>6. /\ Closes(piece) <=> Opens(LastRead(e))
      /\ ~Over(e) => piece.frame = NextFrame(LastRead(e))
  BY <1>1, <1>4 DEF Linked, Numbered, PrevOf
<1>7. /\ partial[e] = 0 => LastRead(e).frame = Decoded(e) /\ ~Opens(LastRead(e))
      /\ partial[e] # 0 => LastRead(e).frame = partial[e] /\ Opens(LastRead(e))
  BY DEF LastRead, Opens
<1>8. /\ \A m : (\E i \in DOMAIN net[e] : net[e][i].frame = m) => Known(sent[s], m)
      /\ \A i \in DOMAIN net[e] : net[e][i].part = "whole" => KnownSmall(sent[s], net[e][i].frame)
      /\ partial[e] # 0 => KnownSmall(sent[s], partial[e])
      /\ \A i \in DOMAIN events[e] :
           IsData(events[e][i]) => KnownSmall(sent[s], events[e][i].frame)
      /\ \A i \in DOMAIN actions[s] :
           actions[s][i] # Disconnect => Known(sent[s], actions[s][i])
  BY DEF LinkInv, FramesFollow, NumbersKnown, Sender
<1>9. n = IF Closes(piece) THEN partial[e] ELSE piece.frame
  BY DEF Completed, Closes
<1>10. ~Opens(piece) => n \in Frame /\ KnownSmall(sent[s], n) /\ ev \in Event
  BY FrameRead
<1> HIDE DEF piece, rest, n, ev
\* What the decoder makes of the piece.
<1>11. /\ Base(e)' = Base(e)
       /\ Reading(e)' => (Opens(LastRead(e)') <=> Opens(piece))
       /\ Reading(e)' /\ ~Over(e) => LastRead(e)'.frame = piece.frame
       /\ ~Over(e) => EventsNumbered(events'[e], Base(e))
       /\ Reading(e)' /\ ~Over(e) /\ partial'[e] # 0 => partial'[e] = Decoded(e)' + 1
       /\ partial'[e] # 0 => KnownSmall(sent[s], partial'[e])
       /\ \A i \in DOMAIN events'[e] :
            IsData(events'[e][i]) => KnownSmall(sent[s], events'[e][i].frame)
  <2>1. Base(e)' = Base(e)
    BY <1>2 DEF Base
  <2>2. CASE Opens(piece) /\ HeaderRead(e, piece.frame)
    <3>1. events'[e] = events[e] /\ Decoded(e)' = Decoded(e)
      BY <1>2, <2>1, <2>2 DEF HeaderRead, Decoded
    <3>2. partial[e] = 0 /\ LastRead(e).frame = Decoded(e) /\ ~Opens(LastRead(e))
      BY <1>6, <1>7, <2>2 DEF Opens, Closes
    <3>3. CASE Fits(e, piece.frame)
      <4>1. partial'[e] = piece.frame
        BY <2>2, <3>3 DEF HeaderRead, DataOK
      <4>2. LastRead(e)'.frame = piece.frame /\ Opens(LastRead(e)')
        BY <1>5, <4>1 DEF LastRead, Opens
      <4>3. KnownSmall(sent[s], piece.frame)
        BY <1>1, <1>8, <3>3 DEF Fits, KnownSmall
      <4>4. ~Over(e) => piece.frame = Decoded(e) + 1
        BY <1>6, <3>2 DEF NextFrame
      <4>5. QED
        BY <1>4, <1>8, <2>1, <2>2, <3>1, <4>1, <4>2, <4>3, <4>4
    <3>4. CASE ~Fits(e, piece.frame)
      <4>1. rx'[e] = "err" /\ partial'[e] = partial[e]
        BY <2>2, <3>4 DEF HeaderRead, TypeOK
      <4>2. ~Reading(e)'
        BY <4>1 DEF Reading, Done
      <4>3. QED
        BY <1>4, <1>8, <2>1, <3>1, <3>2, <4>1, <4>2
    <3>5. QED
      BY <3>3, <3>4
  <2>3. CASE ~Opens(piece) /\ DataReceived(e, n)
    <3>1. events'[e] = Append(events[e], ev) /\ partial'[e] = 0
      BY <2>3 DEF DataReceived, Emit, DataOK, ev
    <3>2. ev \in Event /\ KnownSmall(sent[s], n) /\ IsData(ev) /\ ev.frame = n
      BY <1>10, <2>3 DEF IsData, ev
    <3> DEFINE more == Append(events[e], ev)
               k == Len(events[e]) + 1
    <3>4. /\ more # <<>> /\ Len(more) = k /\ more[k] = ev
          /\ \A i \in DOMAIN events[e] : more[i] = events[e][i]
          /\ \A i \in DOMAIN more : i = k \/ i \in DOMAIN events[e]
      BY <1>5, AppendIndex
    <3>5. Decoded(e)' = Base(e) + k /\ Decoded(e)' = Decoded(e) + 1
      <4>1. Decoded(e)' = Base(e) + Len(more)
        BY <2>1, <3>1, <3>4 DEF Decoded
      <4>2. QED
        BY <1>5, <3>4, <4>1
    <3>6. LastRead(e)'.frame = Decoded(e)' /\ ~Opens(LastRead(e)')
      BY <3>1 DEF LastRead, Opens
    <3>7. ~Over(e) => piece.frame = Decoded(e)' /\ n = Decoded(e)'
      <4>1. CASE Closes(piece)
        BY <1>4, <1>6, <1>7, <1>9, <3>5, <4>1 DEF NextFrame
      <4>2. CASE ~Closes(piece)
        BY <1>6, <1>7, <1>9, <3>5, <4>2 DEF NextFrame
      <4>3. QED
        BY <4>1, <4>2
    <3>8. ~Over(e) => EventsNumbered(more, Base(e))
      <4>1. ~Over(e) => ev.frame = Base(e) + Len(events[e]) + 1
        BY <1>5, <3>2, <3>5, <3>7
      <4>2. QED
        BY <1>4, <1>5, <3>2, <4>1, NumberedEvents
    <3>9. \A i \in DOMAIN more : IsData(more[i]) => KnownSmall(sent[s], more[i].frame)
      <4> HIDE DEF more, k
      <4>1. QED
        BY <1>8, <3>2, <3>4
    <3> HIDE DEF k
    <3>10. QED
      BY <2>1, <2>3, <3>1, <3>6, <3>7, <3>8, <3>9
  <2>4. QED
    BY <2>2, <2>3 DEF Read, Opens, piece, n
<1>12. /\ Reading(e)' => /\ Linked(LastRead(e)', rest)
                         /\ Opens(LastWritten(e)') <=> Opens(LastWritten(e))
       /\ Reading(e)' /\ ~Over(e) => /\ Numbered(LastRead(e)', rest)
                                     /\ LastWritten(e)'.frame = LastWritten(e).frame
  <2> DEFINE last == LastRead(e)
             next == LastRead(e)'
  <2>1. LastWritten(e) = LastOf(last, net[e]) /\ LastWritten(e)' = LastOf(next, rest)
    BY <1>2 DEF LastWritten
  <2>2. Reading(e)' => (Opens(next) <=> Opens(net[e][1]))
    BY <1>1, <1>11
  <2>3. Reading(e)' /\ ~Over(e) => next.frame = net[e][1].frame
    BY <1>1, <1>11
  <2> HIDE DEF last, next
  <2>4. Reading(e)' =>
          /\ Linked(last, net[e]) => Linked(next, rest)
          /\ Opens(LastOf(next, rest)) <=> Opens(LastOf(last, net[e]))
          /\ next.frame = net[e][1].frame /\ Numbered(last, net[e]) => Numbered(next, rest)
          /\ next.frame = net[e][1].frame =>
               LastOf(next, rest).frame = LastOf(last, net[e]).frame
    BY <1>1, <2>2, PiecesTail DEF rest
  <2>5. QED
    BY <1>4, <2>1, <2>3, <2>4 DEF last, next
<1>13. NumbersKnown(e)'
  <2>1. \A i \in DOMAIN rest : /\ Known(sent[s], rest[i].frame)
                               /\ rest[i].part = "whole" => KnownSmall(sent[s], rest[i].frame)
    BY <1>1, <1>8
  <2>2. QED
    BY <1>2, <1>8, <1>11, <2>1 DEF NumbersKnown, Sender
<1>14. Alternate(e)'
  <2>1. SUFFICES ASSUME Reading(e)' PROVE Alternate(e)'
    BY DEF Alternate
  <2>2. tx[s] \notin Done => (Opens(LastWritten(e)) <=> tx[s] = "body")
    BY <1>3 DEF LinkInv, FramesFollow, Alternate, Sender
  <2>3. QED
    BY <1>2, <1>12, <2>1, <2>2 DEF Alternate, Sender
<1>15. Consecutive(e)'
  BY <1>2, <1>11, <1>12 DEF Consecutive
<1>16. QueueFollows(e)'
  <2>1. Reading(e)' /\ ~Over(e) => Written(LastWritten(e))' = Written(LastWritten(e))
    BY <1>12 DEF Written
  <2>2. QED
    BY <1>2, <1>3, <2>1 DEF LinkInv, FramesFollow, QueueFollows, Sender
<1>17. GotInOrder(e)'
  BY <1>2 DEF LinkInv, FramesFollow, GotInOrder
<1>18. QED
  BY <1>13, <1>14, <1>15, <1>16, <1>17 DEF FramesFollow

\* The other end writes a piece: it becomes the one that was written last.
LEMMA FramesWritten ==
  ASSUME TypeOK, DataOK, CtlInv, NEW e \in End, FramesFollow(e), NEW s \in End, s = Other(e),
         Write(s), WriterHolds(s),
         Reading(e)' => Reading(e), Queuing(s)' => Queuing(s), Over(e) => Over(e)'
  PROVE  FramesFollow(e)'
<1> DEFINE queue == actions[s]
           part == NextPart(s)
           piece == [frame |-> Head(queue), part |-> part]
           more == Append(net[e], piece)
<1>1. Other(s) = e
  BY Ends
<1>2. /\ tx[s] \in {"header", "body"}
      /\ net'[e] = more
      /\ tx'[s] = (IF part = "header" THEN "body" ELSE "idle")
      /\ actions'[s] = (IF part = "header" THEN queue ELSE Tail(queue))
      /\ UNCHANGED <<partial, events, told, sent, got, worker, rx, asked>>
  BY <1>1 DEF Write, mainVars, DataOK, TypeOK
<1>3. /\ queue \in Seq(Frame \cup {Disconnect}) /\ queue # <<>> /\ Head(queue) # Disconnect
      /\ Len(sent[s]) \in Nat /\ net[e] \in Seq(Piece)
  BY <1>2 DEF WriterHolds, DataOK
<1>4. /\ Head(queue) = queue[1] /\ 1 \in DOMAIN queue
      /\ \A i \in DOMAIN Tail(queue) : i + 1 \in DOMAIN queue /\ Tail(queue)[i] = queue[i + 1]
      /\ Head(queue) \in Frame
  <2>1. Head(queue) \in Frame \cup {Disconnect}
    BY <1>3, TailIndex
  <2>2. QED
    BY <1>3, <2>1, TailIndex
<1>5. /\ part \in {"header", "body", "whole"} /\ piece \in Piece
      /\ part = "body" <=> tx[s] = "body"
      /\ part = "whole" => sent[s][Head(queue)] = 0
  <2>1. /\ part \in {"header", "body", "whole"}
        /\ part = "body" <=> tx[s] = "body"
        /\ part = "whole" => sent[s][Head(queue)] = 0
    BY <1>2 DEF NextPart
  <2>2. QED
    BY <1>4, <2>1 DEF Piece
<1>6. /\ Len(net[e]) \in Nat /\ more[Len(net[e]) + 1] = piece
      /\ \A i \in DOMAIN net[e] : more[i] = net[e][i]
      /\ \A i \in DOMAIN more : i = Len(net[e]) + 1 \/ i \in DOMAIN net[e]
  BY <1>3, AppendIndex
<1>7. /\ Decoded(e)' = Decoded(e) /\ Base(e)' = Base(e) /\ LastRead(e)' = LastRead(e)
  BY <1>2 DEF Decoded, Base, LastRead
<1>8. Queuing(s)
  BY <1>2 DEF Queuing, CtlInv, TasksFollow, Done, Finished
<1>9. /\ LastWritten(e)' = piece
      /\ Linked(LastRead(e), net[e]) /\ (Closes(piece) <=> Opens(LastWritten(e))) =>
           Linked(LastRead(e), more)
      /\ Numbered(LastRead(e), net[e]) /\ piece.frame = NextFrame(LastWritten(e)) =>
           Numbered(LastRead(e), more)
  BY <1>2, <1>3, <1>5, <1>7, PiecesAppend DEF LastWritten
<1>10. LastWritten(e).frame \in Int
  BY LastType
<1>11. piece.frame = Head(queue) /\ piece.part = part
  OBVIOUS
<1> HIDE DEF piece, more, part
<1>12. Reading(e) =>
         /\ Linked(LastRead(e), net[e])
         /\ Opens(LastWritten(e)) <=> tx[s] = "body"
  BY <1>8 DEF FramesFollow, Alternate, Sender, Queuing
<1>13. Reading(e) /\ ~Over(e) =>
         /\ QueueNumbered(queue, Written(LastWritten(e)), Len(sent[s]))
         /\ Head(queue) = Written(LastWritten(e)) + 1
         /\ QueueNumbered(Tail(queue), Written(LastWritten(e)) + 1, Len(sent[s]))
  <2>1. SUFFICES ASSUME Reading(e), ~Over(e)
                 PROVE  /\ QueueNumbered(queue, Written(LastWritten(e)), Len(sent[s]))
                        /\ Head(queue) = Written(LastWritten(e)) + 1
                        /\ QueueNumbered(Tail(queue), Written(LastWritten(e)) + 1, Len(sent[s]))
    OBVIOUS
  <2>2. QueueNumbered(queue, Written(LastWritten(e)), Len(sent[s]))
    BY <1>8, <2>1 DEF FramesFollow, QueueFollows, Sender
  <2>3. Written(LastWritten(e)) \in Int
    BY <1>10 DEF Written
  <2>4. QED
    BY <1>3, <2>2, <2>3, QueueTail
<1>14. NumbersKnown(e)'
  <2>1. /\ \A i \in DOMAIN queue : queue[i] # Disconnect => Known(sent[s], queue[i])
        /\ \A i \in DOMAIN net[e] :
             /\ Known(sent[s], net[e][i].frame)
             /\ net[e][i].part = "whole" => KnownSmall(sent[s], net[e][i].frame)
    BY DEF FramesFollow, NumbersKnown, Sender
  <2>5. Known(sent[s], piece.frame) /\ (piece.part = "whole" => KnownSmall(sent[s], piece.frame))
    BY <1>3, <1>4, <1>5, <1>11, <2>1, QuicConnAssumption DEF KnownSmall
  <2>2. \A i \in DOMAIN more : /\ Known(sent[s], more[i].frame)
                               /\ more[i].part = "whole" => KnownSmall(sent[s], more[i].frame)
    BY <1>6, <2>1, <2>5
  <2>3. \A i \in DOMAIN actions'[s] :
          actions'[s][i] # Disconnect => Known(sent[s], actions'[s][i])
    BY <1>2, <1>4, <2>1
  <2>4. QED
    BY <1>2, <2>2, <2>3 DEF FramesFollow, NumbersKnown, Sender
<1>15. Alternate(e)'
  <2>1. SUFFICES ASSUME Reading(e)' PROVE Alternate(e)'
    BY DEF Alternate
  <2>2. Linked(LastRead(e), more)
    BY <1>5, <1>9, <1>11, <1>12, <2>1 DEF Closes
  <2>3. Opens(piece) <=> tx'[s] = "body"
    BY <1>2, <1>11 DEF Opens
  <2>4. QED
    BY <1>2, <1>7, <1>9, <2>2, <2>3 DEF Alternate, Sender
<1>16. Consecutive(e)'
  <2>1. SUFFICES ASSUME ~Over(e)' PROVE Consecutive(e)'
    BY DEF Consecutive
  <2>2. ASSUME Reading(e)' PROVE Numbered(LastRead(e), more)
    <3>1. Head(queue) = NextFrame(LastWritten(e))
      BY <1>2, <1>10, <1>13, <2>1, <2>2 DEF NextFrame, Written
    <3>2. Numbered(LastRead(e), net[e])
      BY <2>1, <2>2 DEF FramesFollow, Consecutive
    <3>3. QED
      BY <1>9, <1>11, <3>1, <3>2
  <2>3. QED
    BY <1>2, <1>7, <2>1, <2>2 DEF FramesFollow, Consecutive
<1>17. QueueFollows(e)'
  <2>1. SUFFICES ASSUME Reading(e)', ~Over(e)'
                 PROVE  QueueNumbered(actions'[s], Written(piece), Len(sent[s]))
    BY <1>2, <1>9 DEF QueueFollows, Sender
  <2>2. CASE part = "header"
    <3>1. Opens(piece) /\ ~Opens(LastWritten(e))
      BY <1>2, <1>5, <1>11, <1>12, <2>1, <2>2 DEF Opens
    <3>2. Written(piece) = Written(LastWritten(e))
      BY <1>2, <1>10, <1>11, <1>13, <2>1, <3>1 DEF Written
    <3>3. QED
      BY <1>2, <1>13, <2>1, <2>2, <3>2
  <2>3. CASE part # "header"
    <3>1. Written(piece) = Written(LastWritten(e)) + 1
      BY <1>2, <1>11, <1>13, <2>1, <2>3 DEF Written, Opens
    <3>2. QED
      BY <1>2, <1>13, <2>1, <2>3, <3>1
  <2>4. QED
    BY <2>2, <2>3
<1>18. GotInOrder(e)'
  BY <1>2 DEF FramesFollow, GotInOrder
<1>19. QED
  BY <1>14, <1>15, <1>16, <1>17, <1>18 DEF FramesFollow

LEMMA FramesStep ==
  ASSUME TypeOK, DataOK, CtlInv, \A d \in End : EventsFollow(d) /\ LinkInv(d), [Next]_vars,
         NEW e \in End
  PROVE  FramesFollow(e)'
<1> DEFINE s == Other(e)
           Kept == /\ events'[e] = events[e] /\ told'[e] = told[e] /\ got'[e] = got[e]
                   /\ partial'[e] = partial[e] /\ net'[e] = net[e] /\ sent'[s] = sent[s]
           QueueKept == actions'[s] = actions[s] \/ (actions'[s] = <<>> /\ ~Queuing(s)')
           WriterKept == tx'[s] \notin Done => /\ tx[s] \notin Done
                                               /\ tx'[s] = "body" <=> tx[s] = "body"
<1>1. /\ s \in End /\ Other(s) = e /\ s # e /\ \A d \in End : d = e \/ d = s
  BY Ends
<1>2. /\ Reading(e)' => Reading(e)
      /\ Queuing(s)' => Queuing(s)
      /\ Over(e) => Over(e)'
  BY <1>1, OverStays
<1>3. EventsFollow(e) /\ LinkInv(e) /\ FramesFollow(e)
  BY DEF LinkInv
<1>4. ASSUME Kept, QueueKept, WriterKept PROVE FramesFollow(e)'
  <2> HIDE DEF s
  <2>1. s = Other(e)
    BY DEF s
  <2>2. QED
    BY <1>2, <1>3, <1>4, <2>1, FramesQuiet
<1>5. CASE UNCHANGED <<events, told, got, partial, net, sent, actions, tx>>
  BY <1>4, <1>5
<1>6. CASE Connected \/ Announce \/ HandshakeFails
  <2>1. PICK d \in End, kind \in {"connected", "shutdown"} :
          /\ Emit(d, [kind |-> kind]) /\ events[d] = <<>> /\ told[d] = "before"
          /\ UNCHANGED <<told, got, partial, net, sent, actions, tx>>
    <3>1. CASE Connected
      BY <1>1, <3>1, Ends DEF Connected, EventsFollow, Before, mainVars
    <3>2. CASE Announce
      BY <1>1, <3>2, Ends DEF Announce, EventsFollow, Before, mainVars
    <3>3. CASE HandshakeFails
      BY <1>1, <3>3, Ends DEF HandshakeFails, EventsFollow, CtlInv, ServerFollows, mainVars
    <3>4. QED
      BY <1>6, <3>1, <3>2, <3>3
  <2>2. CASE d = e
    <3>1. [kind |-> kind] \in Event /\ ~IsData([kind |-> kind])
      BY DEF Event, IsData
    <3>2. events'[e] = Append(events[e], [kind |-> kind])
      BY <2>1, <2>2 DEF Emit, DataOK
    <3>3. QED
      BY <1>1, <1>2, <1>3, <2>1, <2>2, <3>1, <3>2, FramesTold
  <2>3. CASE d # e
    BY <1>4, <2>1, <2>3 DEF Emit, DataOK
  <2>4. QED
    BY <2>2, <2>3
<1>7. ASSUME NEW d \in End, Report(d) PROVE FramesFollow(e)'
  <2>1. /\ Emit(d, [kind |-> "disconnected"]) /\ worker' = [worker EXCEPT ![d] = "ended"]
        /\ UNCHANGED <<told, got, partial, net, sent, actions, tx>>
    BY <1>7 DEF Report, Goto, mainVars
  <2>2. CASE d = e
    <3> DEFINE ev == [kind |-> "disconnected"]
    <3>1. ev \in Event /\ ~IsData(ev)
      BY DEF Event, IsData
    <3>2. events'[e] = Append(events[e], ev)
      BY <2>1, <2>2 DEF Emit, DataOK
    <3>3. ~Reading(e)'
      BY <2>1, <2>2 DEF Reading, Finished, TypeOK
    <3> HIDE DEF ev
    <3>4. QED
      BY <1>1, <1>2, <1>3, <2>1, <2>2, <3>1, <3>2, <3>3, FramesTold
  <2>3. CASE d # e
    BY <1>4, <2>1, <2>3 DEF Emit, DataOK
  <2>4. QED
    BY <2>2, <2>3
<1>8. ASSUME NEW d \in End, Read(d) PROVE FramesFollow(e)'
  <2>1. CASE d = e
    BY <1>1, <1>2, <1>3, <1>8, <2>1, FramesRead
  <2>2. CASE d # e
    <3>1. events'[e] = events[e] /\ partial'[e] = partial[e] /\ net'[e] = net[e]
      BY <1>8, <2>2 DEF Read, HeaderRead, DataReceived, Emit, DataOK
    <3>2. UNCHANGED <<told, got, sent, actions, tx>>
      BY <1>8 DEF Read, mainVars
    <3>3. QED
      BY <1>4, <3>1, <3>2
  <2>3. QED
    BY <2>1, <2>2
<1>9. ASSUME NEW d \in End, Write(d) PROVE FramesFollow(e)'
  <2>1. CASE d = s
    BY <1>1, <1>2, <1>3, <1>9, <2>1, FramesWritten DEF LinkInv
  <2>2. CASE d # s
    <3>1. d = e /\ UNCHANGED <<events, told, got, partial, sent>>
      BY <1>1, <1>9, <2>2 DEF Write, mainVars
    <3>2. /\ net'[e] = net[e] /\ actions'[s] = actions[s] /\ tx'[s] = tx[s]
      BY <1>1, <1>9, <3>1 DEF Write, DataOK, TypeOK
    <3>3. QED
      BY <1>4, <3>1, <3>2
  <2>3. QED
    BY <2>1, <2>2
<1>10. ASSUME NEW d \in End, WriteFails(d) \/ TxDisconnect(d) \/ TxClosed(d)
       PROVE  FramesFollow(e)'
  <2>1. /\ UNCHANGED <<events, told, got, partial, net, sent>>
        /\ tx'[d] \in Done /\ actions' = [actions EXCEPT ![d] = <<>>]
        /\ \A f \in End : f # d => tx'[f] = tx[f]
    BY <1>10 DEF WriteFails, TxDisconnect, TxClosed, mainVars, TypeOK, Done
  <2>2. CASE d = s
    BY <1>1, <1>4, <2>1, <2>2 DEF DataOK, Queuing
  <2>3. CASE d # s
    BY <1>1, <1>4, <2>1, <2>3 DEF DataOK
  <2>4. QED
    BY <2>2, <2>3
<1>11. ASSUME NEW d \in End, OpenFails(d) PROVE FramesFollow(e)'
  <2>1. /\ UNCHANGED <<events, told, got, partial, net, sent, tx>>
        /\ worker'[d] = "joined" /\ actions' = [actions EXCEPT ![d] = <<>>]
    BY <1>11 DEF OpenFails, Ended, Goto, mainVars, TypeOK
  <2>2. CASE d = s
    BY <1>1, <1>4, <2>1, <2>2 DEF DataOK, Queuing, Finished
  <2>3. CASE d # s
    BY <1>1, <1>4, <2>1, <2>3 DEF DataOK
  <2>4. QED
    BY <2>2, <2>3
<1>12. CASE OpenStream \/ AcceptStream
  <2>1. /\ UNCHANGED <<events, told, got, partial, net, sent, actions>>
        /\ \A d \in End : tx'[d] = tx[d] \/ (tx[d] = "off" /\ tx'[d] = "idle")
    BY <1>12
    DEF OpenStream, AcceptStream, SpawnTasks, mainVars, TypeOK, CtlInv, TasksFollow, Before
  <2>2. WriterKept
    BY <1>1, <2>1 DEF Done
  <2>3. QED
    BY <1>4, <2>1, <2>2
<1>13. ASSUME NEW d \in End, TakeFrame(d) PROVE FramesFollow(e)'
  <2>1. /\ UNCHANGED <<events, told, got, partial, net, sent, actions>>
        /\ \A f \in End : tx'[f] = tx[f] \/ (tx[f] = "idle" /\ tx'[f] = "header")
    BY <1>13 DEF TakeFrame, mainVars, TypeOK
  <2>2. WriterKept
    BY <1>1, <2>1 DEF Done
  <2>3. QED
    BY <1>4, <2>1, <2>2
<1>14. CASE ConnectFails \/ Accept \/ MapPeer \/ Unmap
  BY <1>5, <1>14 DEF ConnectFails, Accept, MapPeer, Unmap, mainVars
<1>15. ASSUME NEW d \in End,
              FirstEnds(d) \/ Join(d) \/ Resume(d) \/ RxClosed(d) \/ CloseArrives(d) \/ Lost(d)
       PROVE  FramesFollow(e)'
  BY <1>5, <1>15 DEF FirstEnds, Join, Resume, RxClosed, CloseArrives, Lost, mainVars
\* What the main loop of the other end puts into the queue of its writer.
<1>16. ASSUME events'[e] = events[e] /\ told'[e] = told[e] /\ got'[e] = got[e],
              UNCHANGED <<partial, net, tx>>,
              \/ actions' = Queued(s, Disconnect) /\ UNCHANGED sent
              \/ \E size \in Size[s] : SendFrame(s, size)
       PROVE  FramesFollow(e)'
  <2>1. CASE Accepts(s)
    <3> HIDE DEF s
    <3>1. s = Other(e)
      BY DEF s
    <3>2. \A a : Queued(s, a)[s] = Append(actions[s], a)
      BY <1>1, <2>1 DEF Queued, DataOK
    <3>3. \A size \in Size[s] : SendFrame(s, size) =>
            /\ actions'[s] = Append(actions[s], Len(sent[s]) + 1)
            /\ sent'[s] = Append(sent[s], size)
      BY <1>1, <2>1, <3>2 DEF SendFrame, DataOK
    <3>4. QED
      BY <1>1, <1>2, <1>3, <1>16, <3>1, <3>2, <3>3, FramesQueued
  <2>2. CASE ~Accepts(s)
    <3>1. UNCHANGED <<actions, sent>>
      BY <1>16, <2>2 DEF Queued, SendFrame, DataOK
    <3>2. QED
      BY <1>4, <1>16, <3>1
  <2>3. QED
    BY <2>1, <2>2
<1>17. ASSUME NEW d \in End, TakeConnected(d) PROVE FramesFollow(e)'
  <2>1. /\ events[d] # <<>> /\ Popped(d) /\ Head(events[d]).kind = "connected"
        /\ told' = [told EXCEPT ![d] = "open"] /\ UNCHANGED <<partial, net, tx, got>>
    BY <1>17 DEF TakeConnected
  <2>2. CASE d = e
    <3>1. Head(events[e]) = events[e][1] /\ 1 \in DOMAIN events[e]
      BY <2>1, <2>2, TailIndex DEF DataOK
    <3>2. told[e] = "before"
      BY <1>3, <2>1, <2>2, <3>1 DEF EventsFollow
    <3>3. actions'[s] = actions[s] /\ sent'[s] = sent[s]
      BY <1>1, <1>17, <2>2 DEF TakeConnected, SendFrame, Queued, DataOK
    <3>4. events'[e] = Tail(events[e]) /\ told'[e] = "open"
      BY <2>1, <2>2 DEF Popped, DataOK, TypeOK
    <3>5. QED
      BY <1>1, <1>2, <1>3, <2>1, <2>2, <3>2, <3>3, <3>4, FramesPopped
  <2>3. CASE d # e
    <3>1. d = s /\ events'[e] = events[e] /\ told'[e] = told[e]
      BY <1>1, <2>1, <2>3 DEF Popped, DataOK, TypeOK
    <3>2. CASE d = "client"
      BY <1>16, <1>17, <2>1, <3>1, <3>2, QuicConnAssumption DEF TakeConnected
    <3>3. CASE d # "client"
      BY <1>4, <1>17, <2>1, <3>1, <3>3 DEF TakeConnected
    <3>4. QED
      BY <3>2, <3>3
  <2>4. QED
    BY <2>2, <2>3
<1>18. ASSUME NEW d \in End, TakeEnd(d) PROVE FramesFollow(e)'
  <2>1. /\ events[d] # <<>> /\ Popped(d) /\ told'[d] \in {"disconnected", "shutdown"}
        /\ \A f \in End : f # d => told'[f] = told[f]
        /\ UNCHANGED <<partial, net, tx, got, actions, sent>>
    BY <1>18 DEF TakeEnd, TypeOK
  <2>2. CASE d = e
    <3>1. events'[e] = Tail(events[e]) /\ Over(e)'
      BY <2>1, <2>2 DEF Popped, DataOK, Over
    <3>2. QED
      BY <1>1, <1>2, <1>3, <2>1, <2>2, <3>1, FramesPopped
  <2>3. CASE d # e
    BY <1>4, <2>1, <2>3 DEF Popped, DataOK
  <2>4. QED
    BY <2>2, <2>3
<1>19. CASE ClientData
  <2>1. /\ events["client"] # <<>> /\ Popped("client") /\ HandOver("client")
        /\ IsData(Head(events["client"]))
        /\ UNCHANGED <<partial, net, tx, told, actions, sent>>
    BY <1>19 DEF ClientData
  <2>2. CASE e = "client"
    <3>1. Head(events[e]) = events[e][1] /\ 1 \in DOMAIN events[e]
      BY <2>1, <2>2, TailIndex DEF DataOK
    <3>2. told[e] = "open"
      BY <1>3, <2>1, <2>2, <3>1 DEF EventsFollow, IsData
    <3>3. ~Over(e)
      BY <2>2, <3>2 DEF Over
    <3>4. events'[e] = Tail(events[e]) /\ got'[e] = Append(got[e], Head(events[e]).frame)
      BY <2>1, <2>2 DEF Popped, HandOver, DataOK
    <3>5. QED
      BY <1>1, <1>2, <1>3, <2>1, <2>2, <3>2, <3>3, <3>4, FramesPopped
  <2>3. CASE e # "client"
    BY <1>4, <2>1, <2>3 DEF Popped, HandOver, DataOK
  <2>4. QED
    BY <2>2, <2>3
<1>20. CASE ServerData
  <2>1. /\ events["server"] # <<>> /\ Popped("server") /\ told["server"] = "open"
        /\ IsData(Head(events["server"]))
        /\ UNCHANGED <<partial, net, tx, told, sent, worker>>
    BY <1>20 DEF ServerData
  <2>2. CASE e = "server"
    <3>1. events'[e] = Tail(events[e]) /\ s = "client"
      BY <2>1, <2>2, Ends DEF Popped, DataOK
    <3>2. actions'[s] = actions[s]
      BY <1>1, <1>20, <2>2, <3>1 DEF ServerData, Queued, DataOK
    <3>3. CASE Receives
      <4>1. ~Over(e)
        BY <2>1, <2>2, <3>3, Ends
        DEF Receives, PeerAlive, Over, CtlInv, ServerFollows, Working
      <4>2. got'[e] = Append(got[e], Head(events[e]).frame)
        BY <1>20, <2>2, <3>3 DEF ServerData, HandOver, DataOK
      <4>3. QED
        BY <1>1, <1>2, <1>3, <2>1, <2>2, <3>1, <3>2, <4>1, <4>2, FramesPopped
    <3>4. CASE ~Receives
      <4>1. worker[e] \notin Before
        BY <1>3, <2>1, <2>2 DEF EventsFollow, Before
      <4>2. Over(e)
        BY <2>2, <3>4, <4>1, Ends
        DEF Receives, PeerAlive, Over, CtlInv, ServerFollows, Working, Before, TypeOK
      <4>3. got'[e] = got[e]
        BY <1>20, <3>4 DEF ServerData
      <4>4. QED
        BY <1>1, <1>2, <1>3, <2>1, <2>2, <3>1, <3>2, <4>2, <4>3, FramesPopped
    <3>5. QED
      BY <3>3, <3>4
  <2>3. CASE e # "server"
    <3>1. s = "server" /\ events'[e] = events[e] /\ got'[e] = got[e]
      BY <1>20, <2>1, <2>3, Ends DEF Popped, HandOver, ServerData, DataOK
    <3>2. UNCHANGED actions \/ actions' = Queued(s, Disconnect)
      BY <1>20, <3>1 DEF ServerData
    <3>3. QED
      BY <1>4, <1>16, <2>1, <3>1, <3>2
  <2>4. QED
    BY <2>2, <2>3
<1>21. ASSUME NEW d \in End, Ask(d) PROVE FramesFollow(e)'
  <2>1. /\ UNCHANGED <<events, told, got, partial, net, tx>>
        /\ \/ actions' = Queued(d, Disconnect) /\ UNCHANGED sent
           \/ \E size \in Size[d] : SendFrame(d, size)
    BY <1>21 DEF Ask, Send, ClientDisconnect
  <2>2. CASE d = s
    BY <1>16, <2>1, <2>2
  <2>3. CASE d # s
    <3>1. actions'[s] = actions[s] /\ sent'[s] = sent[s]
      BY <1>1, <2>1, <2>3 DEF SendFrame, Queued, DataOK
    <3>2. QED
      BY <1>4, <2>1, <3>1
  <2>4. QED
    BY <2>2, <2>3
<1>22. CASE UNCHANGED vars
  BY <1>5, <1>22 DEF vars, mainVars
<1>23. QED
  BY <1>6, <1>7, <1>8, <1>9, <1>10, <1>11, <1>12, <1>13, <1>14, <1>15, <1>17, <1>18, <1>19,
     <1>20, <1>21, <1>22
  DEF Next, Setup, Worker, Rx, Tx, Handle
----------------------------------------------------------------------------
(* The writers, the login packet, and the types *)

LEMMA WriterStep ==
  ASSUME TypeOK, DataOK, CtlInv, NEW e \in End, WriterHolds(e), [Next]_vars
  PROVE  WriterHolds(e)'
<1>1. CASE UNCHANGED <<tx, actions>>
  BY <1>1 DEF WriterHolds
<1>2. ASSUME tx'[e] \notin {"header", "body"} PROVE WriterHolds(e)'
  BY <1>2 DEF WriterHolds
<1>3. ASSUME NEW d \in End, Write(d) PROVE WriterHolds(e)'
  BY <1>3 DEF Write, WriterHolds, TypeOK, DataOK
<1>4. ASSUME NEW d \in End, TakeFrame(d) PROVE WriterHolds(e)'
  BY <1>4 DEF TakeFrame, WriterHolds, TypeOK
<1>5. ASSUME NEW d \in End, WriteFails(d) \/ TxDisconnect(d) \/ TxClosed(d)
      PROVE  WriterHolds(e)'
  BY <1>5 DEF WriteFails, TxDisconnect, TxClosed, WriterHolds, TypeOK, DataOK
<1>6. ASSUME NEW d \in End, OpenFails(d) PROVE WriterHolds(e)'
  BY <1>6 DEF OpenFails, WriterHolds, CtlInv, TasksFollow, DataOK, mainVars
<1>7. CASE OpenStream \/ AcceptStream
  BY <1>7 DEF OpenStream, AcceptStream, SpawnTasks, WriterHolds, TypeOK, mainVars
<1>8. ASSUME tx'[e] = tx[e], NEW d \in End, NEW a,
             actions' = Queued(d, a)
      PROVE  WriterHolds(e)'
  <2>1. actions'[e] = actions[e] \/ actions'[e] = Append(actions[e], a)
    BY <1>8 DEF Queued, DataOK
  <2>2. actions[e] \in Seq(Frame \cup {Disconnect})
    BY DEF DataOK
  <2>3. actions[e] # <<>> =>
          Append(actions[e], a) # <<>> /\ Head(Append(actions[e], a)) = Head(actions[e])
    BY <2>2
  <2>4. QED
    BY <1>8, <2>1, <2>3 DEF WriterHolds
<1>9. ASSUME NEW d \in End, TakeConnected(d) PROVE WriterHolds(e)'
  BY <1>1, <1>8, <1>9 DEF TakeConnected, SendFrame
<1>10. ASSUME NEW d \in End, TakeEnd(d) PROVE WriterHolds(e)'
  BY <1>1, <1>10 DEF TakeEnd
<1>11. CASE ServerData
  BY <1>1, <1>8, <1>11, Ends DEF ServerData
<1>12. CASE ClientData
  BY <1>1, <1>12 DEF ClientData
<1>13. ASSUME NEW d \in End, Ask(d) PROVE WriterHolds(e)'
  BY <1>8, <1>13 DEF Ask, Send, ClientDisconnect, SendFrame
<1>14. CASE Connected \/ ConnectFails \/ Accept \/ MapPeer \/ Announce \/ Unmap \/ HandshakeFails
  BY <1>1, <1>14
  DEF Connected, ConnectFails, Accept, MapPeer, Announce, Unmap, HandshakeFails
<1>15. ASSUME NEW d \in End,
              \/ FirstEnds(d) \/ Join(d) \/ Report(d) \/ Rx(d)
              \/ CloseArrives(d) \/ Lost(d)
       PROVE  WriterHolds(e)'
  BY <1>1, <1>15
  DEF FirstEnds, Join, Report, Rx, Read, Resume, RxClosed, CloseArrives, Lost
<1>16. CASE UNCHANGED vars
  BY <1>1, <1>16 DEF vars
<1>17. QED
  BY <1>3, <1>4, <1>5, <1>6, <1>7, <1>9, <1>10, <1>11, <1>12, <1>13, <1>14, <1>15, <1>16
  DEF Next, Setup, Worker, Tx, Handle

LEMMA LoginStep ==
  ASSUME TypeOK, DataOK, LoginFirst, [Next]_vars
  PROVE  LoginFirst'
<1>1. CASE UNCHANGED <<told, sent>>
  BY <1>1 DEF LoginFirst
<1>2. ASSUME NEW d \in End, TakeConnected(d) PROVE LoginFirst'
  <2>1. CASE d = "client"
    BY <1>2, <2>1 DEF TakeConnected, TypeOK, LoginFirst
  <2>2. CASE d # "client"
    <3>1. told'["client"] = told["client"] /\ UNCHANGED sent
      BY <1>2, <2>2, Ends DEF TakeConnected, TypeOK
    <3>2. QED
      BY <3>1 DEF LoginFirst
  <2>3. QED
    BY <2>1, <2>2
<1>3. ASSUME NEW d \in End, TakeEnd(d) PROVE LoginFirst'
  BY <1>3, Ends DEF TakeEnd, LoginFirst, TypeOK
<1>4. ASSUME NEW d \in End, Send(d) PROVE LoginFirst'
  BY <1>4, Ends DEF Send, SendFrame, LoginFirst, TypeOK, DataOK
<1>5. CASE ServerData \/ ClientData \/ ClientDisconnect
  BY <1>1, <1>5 DEF ServerData, ClientData, ClientDisconnect
<1>6. CASE Setup \/ HandshakeFails
  BY <1>1, <1>6 DEF Setup, Connected, ConnectFails, OpenStream, Accept, MapPeer, Announce,
                    AcceptStream, Unmap, HandshakeFails, mainVars
<1>7. ASSUME NEW d \in End, Worker(d) \/ Rx(d) \/ Tx(d) \/ CloseArrives(d) \/ Lost(d)
      PROVE  LoginFirst'
  BY <1>1, <1>7 DEF Worker, OpenFails, FirstEnds, Join, Report, Rx, Read, Resume, RxClosed, Tx,
                    TakeFrame, Write, WriteFails, TxDisconnect, TxClosed, CloseArrives, Lost,
                    mainVars
<1>8. CASE UNCHANGED vars
  BY <1>1, <1>8 DEF vars, mainVars
<1>9. QED
  BY <1>2, <1>3, <1>4, <1>5, <1>6, <1>7, <1>8 DEF Next, Handle, Ask

\* The rest of TypeOK: where everybody is.
PlacesOK ==
  /\ conn \in [End -> Closed \cup {"none", "open"}]
  /\ listener \in {"up", "down"}
  /\ worker \in [End -> {"none", "connecting", "spawned", "mapped", "opening", "running",
                        "joining", "joined", "unmapped", "ended"}]
  /\ rx \in [End -> Done \cup {"off", "reading", "waiting"}]
  /\ tx \in [End -> Done \cup {"off", "idle", "header", "body"}]
  /\ mapped \in BOOLEAN
  /\ asked \in [End -> BOOLEAN]
  /\ cause \in [End -> {"none", "ok", "err", "panic"}]
  /\ told \in [End -> {"before", "open", "disconnected", "shutdown"}]

LEMMA PlacesStep ==
  ASSUME PlacesOK, [Next]_vars
  PROVE  PlacesOK'
<1> USE DEF PlacesOK, mainVars, Goto, Ended, SpawnTasks, ClosedLocally, Closed, Done
<1>1. CASE Connected \/ ConnectFails \/ OpenStream \/ Accept
  <2>1. CASE Connected
    BY <2>1 DEF Connected
  <2>2. CASE ConnectFails
    BY <2>2 DEF ConnectFails
  <2>3. CASE OpenStream
    BY <2>3 DEF OpenStream
  <2>4. CASE Accept
    BY <2>4 DEF Accept
  <2>5. QED
    BY <1>1, <2>1, <2>2, <2>3, <2>4
<1>2. CASE MapPeer \/ Announce \/ AcceptStream \/ Unmap \/ HandshakeFails
  <2>1. CASE MapPeer
    BY <2>1 DEF MapPeer
  <2>2. CASE Announce
    BY <2>2 DEF Announce
  <2>3. CASE AcceptStream \/ Unmap
    BY <2>3 DEF AcceptStream, Unmap
  <2>4. CASE HandshakeFails
    BY <2>4 DEF HandshakeFails
  <2>5. QED
    BY <1>2, <2>1, <2>2, <2>3, <2>4
<1>3. ASSUME NEW d \in End, OpenFails(d) \/ FirstEnds(d) PROVE PlacesOK'
  BY <1>3 DEF OpenFails, FirstEnds, CloseAfterFirst
<1>4. ASSUME NEW d \in End, Join(d) \/ Report(d) PROVE PlacesOK'
  BY <1>4 DEF Join, Report
<1>5. ASSUME NEW d \in End, Rx(d) PROVE PlacesOK'
  BY <1>5 DEF Rx, Read, HeaderRead, DataReceived, Resume, RxClosed
<1>6. ASSUME NEW d \in End, TakeFrame(d) \/ Write(d) \/ WriteFails(d) PROVE PlacesOK'
  BY <1>6 DEF TakeFrame, Write, WriteFails
<1>7. ASSUME NEW d \in End, TxDisconnect(d) \/ TxClosed(d) PROVE PlacesOK'
  BY <1>7 DEF TxDisconnect, TxClosed, CloseOnDisconnect
<1>8. ASSUME NEW d \in End, CloseArrives(d) \/ Lost(d) PROVE PlacesOK'
  BY <1>8 DEF CloseArrives, Lost
<1>9. ASSUME NEW d \in End, TakeConnected(d) \/ TakeEnd(d) PROVE PlacesOK'
  BY <1>9 DEF TakeConnected, TakeEnd
<1>10. CASE ServerData
  <2>1. /\ UNCHANGED <<conn, listener, worker, rx, tx, mapped, cause, told>>
        /\ \/ UNCHANGED asked
           \/ \E kick \in BOOLEAN : asked' = [asked EXCEPT !["server"] = @ \/ kick]
    BY <1>10 DEF ServerData
  <2>2. asked' \in [End -> BOOLEAN]
    <3>1. ASSUME NEW kick \in BOOLEAN, asked' = [asked EXCEPT !["server"] = @ \/ kick]
          PROVE  asked' \in [End -> BOOLEAN]
      BY <3>1
    <3>2. QED
      BY <2>1, <3>1
  <2>3. QED
    BY <2>1, <2>2
<1>11. CASE ClientData \/ ClientDisconnect
  BY <1>11 DEF ClientData, ClientDisconnect
<1>12. ASSUME NEW d \in End, Send(d) PROVE PlacesOK'
  BY <1>12 DEF Send
<1>13. CASE UNCHANGED vars
  BY <1>13 DEF vars
<1>14. QED
  BY <1>1, <1>2, <1>3, <1>4, <1>5, <1>6, <1>7, <1>8, <1>9, <1>10, <1>11, <1>12, <1>13
  DEF Next, Setup, Worker, Tx, Handle, Ask

\* And the bounds on the pieces in a stream and on the frames that are sent.
Bounded == \A e \in End : Len(net[e]) <= Window /\ Len(sent[e]) <= MaxSent[e]

LEMMA DataStep ==
  ASSUME TypeOK, DataOK, CtlInv, LoginFirst, \A e \in End : EventsFollow(e) /\ LinkInv(e),
         [Next]_vars
  PROVE  DataOK' /\ Bounded'
<1> DEFINE ActionsOK == actions' \in [End -> Seq(Frame \cup {Disconnect})]
           EventsOK == events' \in [End -> Seq(Event)]
           SentOK == /\ sent' \in [End -> Seq(Nat)]
                     /\ \A e \in End : Len(sent'[e]) <= MaxSent[e]
           NetOK == net' \in [End -> Seq(Piece)] /\ \A e \in End : Len(net'[e]) <= Window
           PartialOK == partial' \in [End -> Frame \cup {0}]
           GotOK == got' \in [End -> Seq(Frame)]
           AllOK == ActionsOK /\ EventsOK /\ SentOK /\ NetOK /\ PartialOK /\ GotOK
<1>1. /\ UNCHANGED actions => ActionsOK
      /\ UNCHANGED events => EventsOK
      /\ UNCHANGED sent => SentOK
      /\ UNCHANGED net => NetOK
      /\ UNCHANGED partial => PartialOK
      /\ UNCHANGED got => GotOK
  BY DEF TypeOK, DataOK
<1>2. AllOK => DataOK' /\ Bounded'
  BY DEF DataOK, Bounded
<1>3. ASSUME NEW d \in End, NEW ev \in Event, Emit(d, ev) PROVE EventsOK
  BY <1>3 DEF Emit, DataOK
<1>4. ASSUME NEW d \in End, events[d] # <<>>, Popped(d) PROVE EventsOK
  BY <1>4 DEF Popped, DataOK
<1>5. ASSUME NEW d \in End, NEW a \in Frame \cup {Disconnect}, actions' = Queued(d, a)
      PROVE  ActionsOK
  <2>1. actions[d] \in Seq(Frame \cup {Disconnect})
    BY DEF DataOK
  <2>2. Append(actions[d], a) \in Seq(Frame \cup {Disconnect})
    BY <2>1
  <2>3. QED
    BY <1>5, <2>2 DEF Queued, DataOK
<1>6. ASSUME NEW d \in End, Len(sent[d]) < MaxSent[d], NEW size \in Size[d], SendFrame(d, size)
      PROVE  ActionsOK /\ SentOK
  <2>1. sent[d] \in Seq(Nat) /\ Len(sent[d]) \in Nat /\ MaxSent[d] \in Nat
    BY FrameType DEF DataOK
  <2>2. Len(sent[d]) + 1 \in 1..MaxSent[d]
    BY <1>6, <2>1
  <2>3. Len(sent[d]) + 1 \in Frame
    BY <2>2, FrameType
  <2>4. ActionsOK
    BY <1>5, <1>6, <2>3 DEF SendFrame
  <2>5. Append(sent[d], size) \in Seq(Nat) /\ Len(Append(sent[d], size)) <= MaxSent[d]
    <3>1. size \in Nat
      BY QuicConnAssumption
    <3>2. QED
      BY <2>1, <2>2, <3>1
  <2>6. sent' \in [End -> Seq(Nat)]
    BY <1>6, <2>5 DEF SendFrame, DataOK
  <2>7. ASSUME NEW f \in End PROVE Len(sent'[f]) <= MaxSent[f]
    <3>1. sent'[f] = sent[f] \/ (f = d /\ sent'[f] = Append(sent[f], size))
      BY <1>6 DEF SendFrame, DataOK
    <3>2. QED
      BY <2>5, <3>1 DEF TypeOK
  <2>8. QED
    BY <2>4, <2>6, <2>7
<1>7. [kind |-> "connected"] \in Event /\ [kind |-> "disconnected"] \in Event
      /\ [kind |-> "shutdown"] \in Event /\ Disconnect \in Frame \cup {Disconnect}
  BY DEF Event
<1>8. CASE Connected \/ Announce \/ HandshakeFails
  <2>1. \E d \in End, ev \in Event : Emit(d, ev)
    BY <1>7, <1>8, Ends DEF Connected, Announce, HandshakeFails
  <2>2. EventsOK
    BY <1>3, <2>1
  <2> HIDE DEF ActionsOK, EventsOK, SentOK, NetOK, PartialOK, GotOK
  <2>3. QED
    BY <1>1, <1>2, <1>8, <2>2 DEF Connected, Announce, HandshakeFails, mainVars
<1>9. ASSUME NEW d \in End, Report(d) PROVE AllOK
  <2>1. EventsOK
    BY <1>3, <1>7, <1>9 DEF Report
  <2> HIDE DEF ActionsOK, EventsOK, SentOK, NetOK, PartialOK, GotOK
  <2>2. QED
    BY <1>1, <1>9, <2>1 DEF Report, mainVars
<1>10. ASSUME NEW d \in End, Read(d) PROVE AllOK
  <2>1. net[d] \in Seq(Piece) /\ net[d] # <<>> /\ net' = [net EXCEPT ![d] = Tail(@)]
        /\ Head(net[d]) \in Piece /\ Len(net[d]) \in Nat /\ Window \in Nat
    BY <1>10, QuicConnAssumption DEF Read, DataOK
  <2>2. NetOK
    <3>1. net' \in [End -> Seq(Piece)]
      BY <2>1 DEF DataOK
    <3>2. ASSUME NEW e \in End PROVE Len(net'[e]) <= Window
      <4>1. CASE e = d
        <5>1. net'[e] = Tail(net[d]) /\ Len(net[d]) <= Window
          BY <2>1, <4>1 DEF DataOK, TypeOK
        <5>2. Len(Tail(net[d])) = Len(net[d]) - 1
          BY <2>1, TailIndex
        <5>3. Len(net'[e]) = Len(net[d]) - 1
          BY <5>1, <5>2
        <5>4. \A m, w \in Nat : m <= w => m - 1 <= w
          OBVIOUS
        <5>5. QED
          BY <2>1, <5>1, <5>3, <5>4
      <4>2. CASE e # d
        BY <2>1, <4>2 DEF DataOK, TypeOK
      <4>3. QED
        BY <4>1, <4>2
    <3>3. QED
      BY <3>1, <3>2
  <2>3. EventsOK /\ PartialOK
    <3>1. CASE Head(net[d]).part = "header" /\ HeaderRead(d, Head(net[d]).frame)
      <4>1. Head(net[d]).frame \in Frame
        BY <2>1 DEF Piece
      <4>2. QED
        BY <1>1, <3>1, <4>1 DEF HeaderRead, DataOK
    <3>2. CASE Head(net[d]).part # "header" /\ DataReceived(d, Completed(d))
      <4>1. [kind |-> "data", frame |-> Completed(d), len |-> sent[Other(d)][Completed(d)]]
              \in Event
        BY <1>10, <3>2, FrameRead DEF LinkInv, Opens
      <4>2. EventsOK
        BY <1>3, <3>2, <4>1 DEF DataReceived
      <4>3. PartialOK
        BY <3>2 DEF DataReceived, DataOK
      <4>4. QED
        BY <4>2, <4>3
    <3>3. QED
      BY <1>10, <3>1, <3>2 DEF Read
  <2> HIDE DEF ActionsOK, EventsOK, SentOK, NetOK, PartialOK, GotOK
  <2>4. QED
    BY <1>1, <1>10, <2>2, <2>3 DEF Read, mainVars
<1>11. ASSUME NEW d \in End, Write(d) PROVE AllOK
  <2> DEFINE e == Other(d)
             piece == [frame |-> Head(actions[d]), part |-> NextPart(d)]
  <2>1. /\ actions[d] \in Seq(Frame \cup {Disconnect}) /\ actions[d] # <<>>
        /\ Head(actions[d]) # Disconnect /\ tx[d] \in {"header", "body"}
        /\ e \in End /\ net[e] \in Seq(Piece) /\ Len(net[e]) < Window /\ Window \in Nat
        /\ net' = [net EXCEPT ![e] = Append(@, piece)]
    <3>1. WriterHolds(d) /\ tx[d] \in {"header", "body"}
      BY <1>11 DEF LinkInv, Write
    <3>2. Other(d) \in End
      BY Ends
    <3>3. QED
      BY <1>11, <3>1, <3>2, QuicConnAssumption DEF Write, HasRoom, WriterHolds, DataOK
  <2>2. Head(actions[d]) \in Frame
    BY <2>1, TailIndex
  <2>3. piece \in Piece
    BY <2>1, <2>2 DEF Piece, NextPart
  <2> HIDE DEF piece, e
  <2>4. NetOK
    <3>1. Append(net[e], piece) \in Seq(Piece) /\ Len(Append(net[e], piece)) <= Window
      BY <2>1, <2>3
    <3>2. net' \in [End -> Seq(Piece)]
      BY <2>1, <3>1 DEF DataOK
    <3>3. ASSUME NEW f \in End PROVE Len(net'[f]) <= Window
      <4>1. net'[f] = net[f] \/ net'[f] = Append(net[e], piece)
        BY <2>1 DEF DataOK
      <4>2. QED
        BY <3>1, <4>1 DEF TypeOK
    <3>4. QED
      BY <3>2, <3>3
  <2>5. ActionsOK
    <3>1. Tail(actions[d]) \in Seq(Frame \cup {Disconnect})
      BY <2>1
    <3>2. QED
      BY <1>11, <3>1 DEF Write, DataOK
  <2> HIDE DEF ActionsOK, EventsOK, SentOK, NetOK, PartialOK, GotOK
  <2>6. QED
    BY <1>1, <1>11, <2>4, <2>5 DEF Write, mainVars
<1>12. ASSUME NEW d \in End, OpenFails(d) \/ WriteFails(d) \/ TxDisconnect(d) \/ TxClosed(d)
       PROVE  AllOK
  <2>1. ActionsOK
    <3>1. actions' = [actions EXCEPT ![d] = <<>>]
      BY <1>12 DEF OpenFails, WriteFails, TxDisconnect, TxClosed
    <3>2. <<>> \in Seq(Frame \cup {Disconnect})
      OBVIOUS
    <3>3. QED
      BY <3>1, <3>2 DEF DataOK
  <2> HIDE DEF ActionsOK, EventsOK, SentOK, NetOK, PartialOK, GotOK
  <2>2. QED
    BY <1>1, <1>12, <2>1 DEF OpenFails, WriteFails, TxDisconnect, TxClosed, mainVars
<1>13. ASSUME NEW d \in End, TakeConnected(d) PROVE AllOK
  <2>1. EventsOK
    BY <1>4, <1>13 DEF TakeConnected
  <2>2. ActionsOK /\ SentOK
    <3>1. CASE d = "client"
      <4>1. events[d] \in Seq(Event) /\ events[d] # <<>> /\ Head(events[d]).kind = "connected"
        BY <1>13 DEF TakeConnected, DataOK
      <4>2. told[d] = "before"
        BY <4>1, TailIndex DEF EventsFollow
      <4>3. sent[d] = <<>> /\ MaxSent[d] > 0
        BY <3>1, <4>2, QuicConnAssumption DEF LoginFirst
      <4>4. Len(sent[d]) < MaxSent[d]
        BY <4>3
      <4>5. SendFrame(d, Login) /\ Login \in Size[d]
        BY <1>13, <3>1, QuicConnAssumption DEF TakeConnected
      <4>6. QED
        BY <1>6, <4>4, <4>5
    <3>2. CASE d # "client"
      BY <1>1, <1>13, <3>2 DEF TakeConnected
    <3>3. QED
      BY <3>1, <3>2
  <2> HIDE DEF ActionsOK, EventsOK, SentOK, NetOK, PartialOK, GotOK
  <2>3. QED
    BY <1>1, <1>13, <2>1, <2>2 DEF TakeConnected
<1>14. ASSUME NEW d \in End, TakeEnd(d) PROVE AllOK
  <2>1. EventsOK
    BY <1>4, <1>14 DEF TakeEnd
  <2> HIDE DEF ActionsOK, EventsOK, SentOK, NetOK, PartialOK, GotOK
  <2>2. QED
    BY <1>1, <1>14, <2>1 DEF TakeEnd
<1>15. ASSUME NEW d \in End, events[d] # <<>>, IsData(Head(events[d])), HandOver(d)
       PROVE  GotOK
  <2>1. Head(events[d]) \in Event /\ got[d] \in Seq(Frame)
    BY <1>15, TailIndex DEF DataOK
  <2>2. Head(events[d]).frame \in Frame
    BY <1>15, <2>1 DEF Event, IsData
  <2>3. Append(got[d], Head(events[d]).frame) \in Seq(Frame)
    BY <2>1, <2>2
  <2>4. QED
    BY <1>15, <2>3 DEF HandOver, DataOK
<1>16. CASE ServerData
  <2>1. EventsOK
    BY <1>4, <1>16, Ends DEF ServerData
  <2>2. GotOK
    BY <1>1, <1>15, <1>16, Ends DEF ServerData
  <2>3. ActionsOK
    BY <1>1, <1>5, <1>7, <1>16, Ends DEF ServerData
  <2> HIDE DEF ActionsOK, EventsOK, SentOK, NetOK, PartialOK, GotOK
  <2>4. QED
    BY <1>1, <1>2, <1>16, <2>1, <2>2, <2>3 DEF ServerData
<1>17. CASE ClientData
  <2>1. EventsOK
    BY <1>4, <1>17, Ends DEF ClientData
  <2>2. GotOK
    BY <1>15, <1>17, Ends DEF ClientData
  <2> HIDE DEF ActionsOK, EventsOK, SentOK, NetOK, PartialOK, GotOK
  <2>3. QED
    BY <1>1, <1>2, <1>17, <2>1, <2>2 DEF ClientData
<1>18. ASSUME NEW d \in End, Send(d) PROVE AllOK
  <2>1. ActionsOK /\ SentOK
    BY <1>6, <1>18 DEF Send
  <2> HIDE DEF ActionsOK, EventsOK, SentOK, NetOK, PartialOK, GotOK
  <2>2. QED
    BY <1>1, <1>18, <2>1 DEF Send
<1>19. CASE ClientDisconnect
  <2>1. ActionsOK
    BY <1>5, <1>7, <1>19, Ends DEF ClientDisconnect
  <2> HIDE DEF ActionsOK, EventsOK, SentOK, NetOK, PartialOK, GotOK
  <2>2. QED
    BY <1>1, <1>2, <1>19, <2>1 DEF ClientDisconnect
<1> HIDE DEF ActionsOK, EventsOK, SentOK, NetOK, PartialOK, GotOK
<1>20. CASE UNCHANGED <<actions, events, sent, net, partial, got>>
  BY <1>1, <1>2, <1>20
<1>21. CASE ConnectFails \/ OpenStream \/ Accept \/ MapPeer \/ AcceptStream \/ Unmap
  BY <1>20, <1>21
  DEF ConnectFails, OpenStream, Accept, MapPeer, AcceptStream, Unmap, mainVars
<1>22. ASSUME NEW d \in End,
              \/ FirstEnds(d) \/ Join(d) \/ Resume(d) \/ RxClosed(d) \/ TakeFrame(d)
              \/ CloseArrives(d) \/ Lost(d)
       PROVE  DataOK' /\ Bounded'
  BY <1>20, <1>22
  DEF FirstEnds, Join, Resume, RxClosed, TakeFrame, CloseArrives, Lost, mainVars
<1>23. CASE UNCHANGED vars
  BY <1>20, <1>23 DEF vars, mainVars
<1>24. QED
  BY <1>2, <1>8, <1>9, <1>10, <1>11, <1>12, <1>13, <1>14, <1>16, <1>17, <1>18, <1>19, <1>21,
     <1>22, <1>23
  DEF Next, Setup, Worker, Rx, Tx, Handle, Ask

----------------------------------------------------------------------------
(* The theorems *)

LEMMA TypesTogether == PlacesOK /\ DataOK /\ Bounded <=> TypeOK /\ DataOK
BY DEF PlacesOK, DataOK, Bounded, TypeOK

LEMMA Step == IInv /\ [Next]_vars => IInv'
<1> SUFFICES ASSUME IInv, [Next]_vars PROVE IInv'
  OBVIOUS
<1> USE DEF IInv
<1>1. DataOK' /\ Bounded'
  BY DataStep
<1>2. PlacesOK'
  BY TypesTogether, PlacesStep
<1>3. TypeOK'
  BY <1>1, <1>2 DEF PlacesOK, DataOK, Bounded, TypeOK
<1>4. CtlInv'
  BY CtlStep
<1>5. LoginFirst'
  BY LoginStep
<1>6. Relief'
  BY <1>1, ReliefStep
<1>7. ASSUME NEW e \in End PROVE EventsFollow(e)' /\ LinkInv(e)'
  <2>1. EventsFollow(e)'
    BY EventsStep
  <2>2. FramesFollow(e)'
    BY FramesStep
  <2>3. WriterHolds(e)'
    BY WriterStep DEF LinkInv
  <2>4. QED
    BY <2>1, <2>2, <2>3 DEF LinkInv
<1>8. QED
  BY <1>1, <1>3, <1>4, <1>5, <1>6, <1>7

LEMMA Invariance == Spec => []IInv
BY InitIInv, Step, PTL DEF Spec

\* However the two tasks of a connection end, the worker finds the reason why it was closed,
\* and the main loop is told in order: connected, frames, and the end once and last.
THEOREM EndsKnown == Spec => []EndsInOrder
<1>1. IInv => EndsInOrder
  <2> SUFFICES ASSUME IInv PROVE EndsInOrder
    OBVIOUS
  <2>1. CloseReasonKnown
    BY DEF IInv, CtlInv, ConnFollows, CloseReasonKnown
  <2>2. ASSUME NEW e \in End
        PROVE  /\ told[e] \in {"disconnected", "shutdown"} => events[e] = <<>>
               /\ \A i \in DOMAIN events[e] :
                    /\ events[e][i].kind = "connected" =>
                         ~(told[e] = "open" \/
                             \E j \in 1..(i - 1) : events[e][j].kind = "connected")
                    /\ events[e][i].kind = "data" =>
                         (told[e] = "open" \/
                             \E j \in 1..(i - 1) : events[e][j].kind = "connected")
                    /\ events[e][i].kind = "disconnected" => i = Len(events[e])
    <3>1. EventsFollow(e) /\ events[e] \in Seq(Event)
      BY DEF IInv, DataOK
    <3>2. told[e] \in {"disconnected", "shutdown"} => events[e] = <<>>
      BY <3>1 DEF EventsFollow
    <3>3. ASSUME NEW i \in DOMAIN events[e], events[e][i].kind = "connected"
          PROVE  ~(told[e] = "open" \/ \E j \in 1..(i - 1) : events[e][j].kind = "connected")
      <4>1. i = 1 /\ told[e] = "before"
        BY <3>1, <3>3 DEF EventsFollow
      <4>2. QED
        BY <4>1
    <3>4. ASSUME NEW i \in DOMAIN events[e], events[e][i].kind = "data"
          PROVE  told[e] = "open" \/ \E j \in 1..(i - 1) : events[e][j].kind = "connected"
      <4>1. told[e] = "open" \/ events[e][1].kind = "connected"
        BY <3>1, <3>4 DEF EventsFollow, IsData
      <4>2. events[e][1].kind = "connected" => 1 \in 1..(i - 1)
        BY <3>1, <3>4
      <4>3. QED
        BY <4>1, <4>2
    <3>5. QED
      BY <3>1, <3>2, <3>3, <3>4 DEF EventsFollow
  <2>3. EventsBracketed
    BY <2>2 DEF EventsBracketed
  <2>4. QED
    BY <2>1, <2>3 DEF IInv, EndsInOrder
<1>2. QED
  BY <1>1, Invariance, PTL

\* The bytes that a main loop has not dropped yet are never more than the capacity and one
\* packet, however slow the loop is.  This bounds bytes only: empty packets have none.
THEOREM PressureBounds == Spec => []QueueBounded
<1>1. IInv => QueueBounded
  BY DEF IInv, Relief, QueueBounded
<1>2. QED
  BY <1>1, Invariance, PTL

\* What a step does to one direction: it is a step of FrameLink, or none at all.
LEMMA DirectionStep ==
  ASSUME IInv, [Next]_vars, NEW e \in End, NEW s, s = Other(e)
  PROVE  \/ sent'[s] = sent[s] /\ got'[e] = got[e] /\ Phase(e)' = Phase(e)
         \/ /\ \E size \in Size[s] : sent'[s] = Append(sent[s], size)
            /\ got'[e] = got[e] /\ Phase(e)' = Phase(e)
         \/ /\ Phase(e) = "before" /\ Phase(e)' = "open"
            /\ sent'[s] = sent[s] /\ got'[e] = got[e]
         \/ /\ Phase(e) # "over" /\ Phase(e)' = "over"
            /\ sent'[s] = sent[s] /\ got'[e] = got[e]
         \/ /\ Phase(e) = "open" /\ Phase(e)' \in {"open", "over"}
            /\ Len(got[e]) + 1 <= Len(sent[s]) /\ sent[s][Len(got[e]) + 1] <= MaxPacket
            /\ got'[e] = Append(got[e], Len(got[e]) + 1)
            /\ sent'[s] = sent[s]
<1> DEFINE Still == sent'[s] = sent[s] /\ got'[e] = got[e] /\ Phase(e)' = Phase(e)
           Sends == /\ \E size \in Size[s] : sent'[s] = Append(sent[s], size)
                    /\ got'[e] = got[e] /\ Phase(e)' = Phase(e)
           Connects == /\ Phase(e) = "before" /\ Phase(e)' = "open"
                       /\ sent'[s] = sent[s] /\ got'[e] = got[e]
           Finishes == /\ Phase(e) # "over" /\ Phase(e)' = "over"
                       /\ sent'[s] = sent[s] /\ got'[e] = got[e]
           Delivers == /\ Phase(e) = "open" /\ Phase(e)' \in {"open", "over"}
                       /\ Len(got[e]) + 1 <= Len(sent[s])
                       /\ sent[s][Len(got[e]) + 1] <= MaxPacket
                       /\ got'[e] = Append(got[e], Len(got[e]) + 1)
                       /\ sent'[s] = sent[s]
<1>1. /\ TypeOK /\ DataOK /\ CtlInv /\ EventsFollow(e) /\ LinkInv(e)
      /\ s \in End /\ s # e /\ \A d \in End : d = e \/ d = s
  BY Ends DEF IInv
<1>2. Phase(e) \in {"before", "open", "over"}
  BY DEF Phase
<1>3. CASE UNCHANGED <<told, asked, sent, got>>
  BY <1>3 DEF Phase
\* The next frame in the queue is the next one that was sent, and within the limit.
<1>4. ASSUME events[e] # <<>>, IsData(Head(events[e])), told[e] = "open", ~Over(e)
      PROVE  LET n == Len(got[e]) + 1
             IN Head(events[e]).frame = n /\ n <= Len(sent[s]) /\ sent[s][n] <= MaxPacket
  <2>1. events[e] \in Seq(Event)
    BY <1>1 DEF DataOK
  <2>2. Head(events[e]) = events[e][1] /\ 1 \in DOMAIN events[e]
    BY <1>4, <2>1, TailIndex
  <2>3. EventsNumbered(events[e], Base(e)) /\ Base(e) = Len(got[e])
    BY <1>1, <1>4 DEF LinkInv, FramesFollow, Consecutive, Base
  <2>4. Head(events[e]).frame = Len(got[e]) + 1
    BY <1>4, <2>2, <2>3 DEF EventsNumbered
  <2>5. KnownSmall(sent[s], Head(events[e]).frame)
    BY <1>1, <1>4, <2>2 DEF LinkInv, FramesFollow, NumbersKnown, Sender
  <2>6. QED
    BY <2>4, <2>5 DEF KnownSmall, Known
<1>5. ASSUME NEW d \in End, \E size \in Size[d] : SendFrame(d, size), UNCHANGED got
      PROVE  \/ d = s /\ \E size \in Size[s] : sent'[s] = Append(sent[s], size)
             \/ sent'[s] = sent[s]
  BY <1>1, <1>5 DEF SendFrame, DataOK
<1>6. ASSUME NEW d \in End, TakeConnected(d) PROVE Still \/ Sends \/ Connects \/ Finishes
  <2>1. /\ told' = [told EXCEPT ![d] = "open"] /\ UNCHANGED <<asked, got>>
        /\ events[d] # <<>> /\ Head(events[d]).kind = "connected"
    BY <1>6 DEF TakeConnected
  <2>2. CASE d = e
    <3>1. Head(events[e]) = events[e][1] /\ 1 \in DOMAIN events[e]
      BY <1>1, <2>1, <2>2, TailIndex DEF DataOK
    <3>2. told[e] = "before"
      BY <1>1, <2>1, <2>2, <3>1 DEF EventsFollow
    <3>3. sent'[s] = sent[s]
      BY <1>1, <1>6, <2>2 DEF TakeConnected, SendFrame, DataOK
    <3>4. told'[e] = "open"
      BY <1>1, <2>1, <2>2 DEF TypeOK
    <3>5. QED
      BY <2>1, <3>2, <3>3, <3>4 DEF Phase
  <2>3. CASE d # e
    <3>1. told'[e] = told[e]
      BY <1>1, <2>1, <2>3 DEF TypeOK
    <3>2. Phase(e)' = Phase(e)
      BY <2>1, <3>1 DEF Phase
    <3>3. CASE d = "client"
      <4>1. \E size \in Size[d] : SendFrame(d, size)
        BY <1>6, <3>3, QuicConnAssumption DEF TakeConnected
      <4>2. QED
        BY <1>5, <2>1, <3>2, <4>1
    <3>4. CASE d # "client"
      BY <1>6, <2>1, <3>2, <3>4 DEF TakeConnected
    <3>5. QED
      BY <3>3, <3>4
  <2>4. QED
    BY <2>2, <2>3
<1>7. ASSUME NEW d \in End, TakeEnd(d) PROVE Still \/ Finishes
  <2>1. /\ told'[d] \in {"disconnected", "shutdown"} /\ \A f \in End : f # d => told'[f] = told[f]
        /\ UNCHANGED <<asked, sent, got>>
    BY <1>1, <1>7 DEF TakeEnd, TypeOK
  <2>2. CASE d = e
    <3>1. Phase(e)' = "over"
      BY <2>1, <2>2 DEF Phase
    <3>2. QED
      BY <1>2, <2>1, <3>1
  <2>3. CASE d # e
    BY <2>1, <2>3 DEF Phase
  <2>4. QED
    BY <2>2, <2>3
<1>8. CASE ClientData
  <2>1. /\ events["client"] # <<>> /\ IsData(Head(events["client"])) /\ HandOver("client")
        /\ UNCHANGED <<asked, told, sent>>
    BY <1>8 DEF ClientData
  <2>2. Phase(e)' = Phase(e)
    BY <2>1 DEF Phase
  <2>3. CASE e = "client"
    <3>1. Head(events[e]) = events[e][1] /\ 1 \in DOMAIN events[e]
      BY <1>1, <2>1, <2>3, TailIndex DEF DataOK
    <3>2. told[e] = "open"
      BY <1>1, <2>1, <2>3, <3>1 DEF EventsFollow, IsData
    <3>3. ~Over(e) /\ Phase(e) = "open"
      BY <2>3, <3>2 DEF Over, Phase
    <3>4. got'[e] = Append(got[e], Head(events[e]).frame)
      BY <1>1, <2>1, <2>3 DEF HandOver, DataOK
    <3>5. Delivers
      BY <1>4, <2>1, <2>2, <2>3, <3>2, <3>3, <3>4
    <3>6. QED
      BY <3>5
  <2>4. CASE e # "client"
    BY <1>1, <2>1, <2>2, <2>4 DEF HandOver, DataOK
  <2>5. QED
    BY <2>3, <2>4
<1>9. CASE ServerData
  <2>1. /\ events["server"] # <<>> /\ IsData(Head(events["server"])) /\ told["server"] = "open"
        /\ UNCHANGED <<told, sent>>
    BY <1>9 DEF ServerData
  <2>2. CASE ~Receives
    BY <1>3, <1>9, <2>2 DEF ServerData
  <2>3. CASE Receives /\ e = "server"
    <3>1. ~asked["server"] /\ ~Over(e)
      BY <1>1, <2>1, <2>3, Ends DEF Receives, PeerAlive, Over, CtlInv, ServerFollows, Working
    <3>2. Phase(e) = "open" /\ Phase(e)' \in {"open", "over"}
      BY <2>1, <2>3, <3>1 DEF Phase
    <3>3. got'[e] = Append(got[e], Head(events[e]).frame)
      BY <1>1, <1>9, <2>3 DEF ServerData, HandOver, DataOK
    <3>4. Delivers
      BY <1>4, <2>1, <2>3, <3>1, <3>2, <3>3
    <3>5. QED
      BY <3>4
  <2>4. CASE Receives /\ e # "server"
    <3>1. got'[e] = got[e]
      BY <1>1, <1>9, <2>4 DEF ServerData, HandOver, DataOK
    <3>2. Phase(e)' = Phase(e)
      BY <2>1, <2>4 DEF Phase
    <3>3. QED
      BY <2>1, <3>1, <3>2
  <2>5. QED
    BY <2>2, <2>3, <2>4
<1>10. ASSUME NEW d \in End, Send(d) PROVE Still \/ Sends
  <2>1. UNCHANGED <<told, asked, got>> /\ \E size \in Size[d] : SendFrame(d, size)
    BY <1>10 DEF Send
  <2>2. Phase(e)' = Phase(e)
    BY <2>1 DEF Phase
  <2>3. QED
    BY <1>5, <2>1, <2>2
<1>11. CASE ClientDisconnect
  <2>1. /\ asked' = [asked EXCEPT !["client"] = TRUE] /\ UNCHANGED <<told, sent, got>>
    BY <1>11 DEF ClientDisconnect
  <2>2. e = "server" => asked'[e] = asked[e]
    BY <1>1, <2>1 DEF TypeOK
  <2>3. Phase(e)' = Phase(e)
    BY <2>1, <2>2 DEF Phase
  <2>4. QED
    BY <2>1, <2>3
<1>12. CASE Setup \/ HandshakeFails
  BY <1>3, <1>12 DEF Setup, Connected, ConnectFails, OpenStream, Accept, MapPeer, Announce,
                     AcceptStream, Unmap, HandshakeFails, mainVars
<1>13. ASSUME NEW d \in End, Worker(d) \/ Rx(d) \/ Tx(d) \/ CloseArrives(d) \/ Lost(d)
       PROVE  Still
  <2>1. UNCHANGED <<told, asked, sent, got>>
    BY <1>13 DEF Worker, OpenFails, FirstEnds, Join, Report, Rx, Read, Resume, RxClosed, Tx,
                 TakeFrame, Write, WriteFails, TxDisconnect, TxClosed, CloseArrives, Lost,
                 mainVars
  <2>2. QED
    BY <2>1 DEF Phase
<1>14. CASE UNCHANGED vars
  BY <1>3, <1>14 DEF vars, mainVars
<1>15. QED
  BY <1>6, <1>7, <1>8, <1>9, <1>10, <1>11, <1>12, <1>13, <1>14 DEF Next, Handle, Ask

\* The queues, the tasks, the decoder and the windows between two main loops implement
\* FrameLink in each direction.
THEOREM LinksKept == Spec => ConversationKept
<1>1. Init => ToClient!Init /\ ToServer!Init
  BY Ends DEF Init, ToClient!Init, ToServer!Init, Phase
<1>2. IInv /\ [Next]_vars => [ToClient!Next]_<<sent["server"], got["client"], Phase("client")>>
  <2> SUFFICES ASSUME IInv, [Next]_vars
               PROVE  [ToClient!Next]_<<sent["server"], got["client"], Phase("client")>>
    OBVIOUS
  <2>1. QED
    BY Ends, DirectionStep
    DEF ToClient!Next, ToClient!Send, ToClient!Connect, ToClient!End, ToClient!Deliver,
        ToClient!Handed
<1>3. IInv /\ [Next]_vars => [ToServer!Next]_<<sent["client"], got["server"], Phase("server")>>
  <2> SUFFICES ASSUME IInv, [Next]_vars
               PROVE  [ToServer!Next]_<<sent["client"], got["server"], Phase("server")>>
    OBVIOUS
  <2>1. QED
    BY Ends, DirectionStep
    DEF ToServer!Next, ToServer!Send, ToServer!Connect, ToServer!End, ToServer!Deliver,
        ToServer!Handed
<1>4. QED
  BY <1>1, <1>2, <1>3, Invariance, PTL DEF Spec, ConversationKept, ToClient!Spec, ToServer!Spec
=============================================================================
