----------------------------- MODULE MCLibrary -----------------------------
(***************************************************************************)
(* The parts of the ussp library a program uses independently of each      *)
(* other: the playback buffer (JitterBuffer), a sending session (Sender),  *)
(* a receiving one (Receiver), clock synchronisation (Clock) and the       *)
(* packet formats (Codec).  They share nothing but formats: a behaviour is *)
(* about one part, the others standing at one of their initial states.     *)
(***************************************************************************)
EXTENDS JitterBuffer, Clock, MCCodec, Sender, Receiver

VARIABLE part

Wire == INSTANCE Streams

\* A group of one data shard decodes from its one parity shard.
Arrivals == Wire!Restarted

\* A peer that is behind, within the drift accepted unless a late answer adds
\* to it.
FewSkews == {-3}

\* By how much the local clock is set.
FewSteps == {-2}

LibraryInit ==
    /\ part \in {"buffer", "sender", "clock", "codec", "receiver"}
    /\ skew \in IF part = "clock" THEN Skews ELSE {CHOOSE s \in Skews : TRUE}
    /\ packet \in IF part = "codec" THEN Packets ELSE {Heartbeat}
    /\ Init /\ SenderInit /\ ClockInit /\ CodecInit
    /\ ReceiverInit

LibraryNext ==
    \/ /\ part = "buffer" /\ Next
       /\ UNCHANGED <<part, senderVars, clockVars, codecVars, receiverVars>>
    \/ /\ part = "sender" /\ SenderNext
       /\ UNCHANGED <<part, vars, clockVars, codecVars, receiverVars>>
    \/ /\ part = "clock" /\ ClockNext
       /\ UNCHANGED <<part, vars, senderVars, codecVars, receiverVars>>
    \/ /\ part = "codec" /\ CodecNext
       /\ UNCHANGED <<part, vars, senderVars, clockVars, receiverVars>>
    \/ /\ part = "receiver" /\ ReceiverNext
       /\ UNCHANGED <<part, vars, senderVars, clockVars, codecVars>>

LibrarySpec ==
    /\ LibraryInit
    /\ [][LibraryNext]_<<part, vars, senderVars, clockVars, codecVars, receiverVars>>
    /\ \A t \in Tasks : WF_senderVars(part = "sender" /\ Progress(t))
    /\ WF_receiverVars(part = "receiver" /\ Loop)
    /\ WF_receiverVars(part = "receiver" /\ Read)
    /\ SF_receiverVars(part = "receiver" /\ SayGoodbye)

-----------------------------------------------------------------------------
\* The types of every part's variables.
LibraryTypeOK ==
    /\ TypeOK /\ SenderTypeOK /\ ClockTypeOK /\ CodecTypeOK
    /\ ReceiverTypeOK
=============================================================================
