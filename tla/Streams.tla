------------------------------ MODULE Streams ------------------------------
(* The packets of small streams, as module Receiver has them.              *)
EXTENDS Naturals, Sequences

Packet(kind, s, id, index, total, covers) ==
    [kind |-> kind, session |-> s, id |-> id, index |-> index,
     total |-> total, covers |-> covers]

SessionInit(s) == Packet("init", s, 0, 0, 1, <<>>)
Fragment(s, id, index, total) == Packet("video", s, id, index, total, <<>>)
Track(s, id) == Packet("track", s, id, 0, 1, <<>>)
RepairOf(s, group, index, covers) ==
    Packet("repair", s, group, index, 1, covers)

\* A frame of two fragments, one of them with a repair, and an audio packet;
\* then a sender that starts again: its first frame has the id of the first
\* one, and only one of its fragments arrives.
Restarted ==
    {SessionInit(1), Fragment(1, 0, 0, 2), Fragment(1, 0, 1, 2), Track(1, 9),
     RepairOf(1, 0, 1, <<Fragment(1, 0, 1, 2)>>), Fragment(2, 0, 1, 2)}

\* The two fragments of a frame, and the two repairs of their group.
OneFrame ==
    LET group == <<Fragment(1, 0, 0, 2), Fragment(1, 0, 1, 2)>>
    IN  {group[1], group[2], RepairOf(1, 0, 2, group), RepairOf(1, 0, 3, group)}

\* One group of two audio packets and its repair packet.
OneGroup ==
    {Track(1, 1), Track(1, 2), RepairOf(1, 0, 2, <<Track(1, 1), Track(1, 2)>>)}
=============================================================================
