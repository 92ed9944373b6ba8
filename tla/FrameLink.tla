------------------------------ MODULE FrameLink ------------------------------
(***************************************************************************)
(* What a transport promises for one direction of a connection: the frames *)
(* are handed over in the order of their sending, none is skipped, and     *)
(* nothing comes before the receiver is told that it is connected or after *)
(* it was told, or decided, that it is over.  A frame over the limit is    *)
(* never handed over, and neither is what follows it.                      *)
(***************************************************************************)
EXTENDS Naturals, Sequences

CONSTANTS
  Size,      \* the lengths of the frames, in bytes
  MaxPacket  \* the limit of the receiver

VARIABLES
  sent,  \* the length of each frame that was accepted for sending
  got,   \* the numbers of the frames that were handed over
  phase  \* of the receiver

Init == sent = <<>> /\ got = <<>> /\ phase = "before"

Send(size) == sent' = Append(sent, size) /\ UNCHANGED <<got, phase>>

Connect == phase = "before" /\ phase' = "open" /\ UNCHANGED <<sent, got>>

End == phase # "over" /\ phase' = "over" /\ UNCHANGED <<sent, got>>

Handed(n) == n <= Len(sent) /\ sent[n] <= MaxPacket

\* The receiver may end it with the frame that it is looking at.
Deliver ==
  LET n == Len(got) + 1 IN
    /\ phase = "open"
    /\ Handed(n)
    /\ got' = Append(got, n)
    /\ phase' \in {"open", "over"}
    /\ UNCHANGED sent

Next ==
  \/ \E size \in Size : Send(size)
  \/ Connect
  \/ End
  \/ Deliver

Spec == Init /\ [][Next]_<<sent, got, phase>>
=============================================================================
