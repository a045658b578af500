------------------------------- MODULE Sender -------------------------------
(***************************************************************************)
(* The sending half of a USSP session (transport/sender.rs): calls that    *)
(* share one Sender, its session behind a mutex that video packets keep    *)
(* while they are added to the FEC group, the group being filled, and the  *)
(* encoder that numbers the groups.  A packet is its sequence number.      *)
(* Audio, DMX and mocap frames take the same path and are one kind, track. *)
(***************************************************************************)
EXTENDS Naturals, Sequences, FiniteSets

CONSTANTS
    Tasks,          \* the calls that can be in flight at a time
    Nobody,         \* nobody holds the session mutex
    FecEnabled,     \* config.fec_enabled
    DataShards,     \* config.session.fec.data_shards
    ParityShards,   \* config.session.fec.parity_shards
    MaxFragments,   \* bound: fragments of the largest video frame
    MaxCalls        \* bound: calls made on the sender

\* What the constants are.
ASSUME SenderAssumption ==
    /\ Nobody \notin Tasks
    /\ FecEnabled \in BOOLEAN
    /\ DataShards \in Nat \ {0} /\ ParityShards \in Nat \ {0}
    /\ MaxFragments \in Nat \ {0} /\ MaxCalls \in Nat

VARIABLES
    session,    \* Session::state
    holder,     \* the call that keeps the session mutex between its steps
    nextSeq,    \* Session::sequence
    pending,    \* pending_fec_packets
    groups,     \* the encoded groups in the order of their group_id
    media,      \* FEC-protected packets that were put on the wire
    repairs,    \* repair packets on the wire: <<group, sequence number>>
    task,       \* where each call in flight is
    calls,      \* calls made so far
    serial      \* history: no call has started while another was in flight

senderVars == <<session, holder, nextSeq, pending, groups, media, repairs,
                task, calls, serial>>

Kinds == {"init", "video", "track", "sync", "heartbeat", "flush", "close"}

\* Session::state; nothing sets it to Closing.
SessionStates == {"Initializing", "Active", "Closing", "Closed"}

Points == {"idle", "enter", "packet", "push", "encode", "repair", "closing"}

Idle == [at |-> "idle", kind |-> "flush", left |-> 0, packet |-> 0,
         group |-> <<>>, gid |-> 0]

SenderTypeOK ==
    /\ session \in SessionStates \ {"Closing"}
    /\ holder \in Tasks \cup {Nobody}
    /\ nextSeq \in Nat
    /\ pending \in Seq(Nat)
    /\ groups \in Seq(Seq(Nat))
    /\ media \subseteq Nat
    /\ repairs \subseteq Nat \X Nat
    /\ task \in [Tasks -> [at : Points, kind : Kinds, left : 0..MaxFragments,
                           packet : Nat, group : Seq(Nat), gid : Nat]]
    /\ calls \in 0..MaxCalls
    /\ serial \in BOOLEAN

SenderInit ==
    /\ session = "Initializing"
    /\ holder = Nobody
    /\ nextSeq = 0
    /\ pending = <<>>
    /\ groups = <<>>
    /\ media = {}
    /\ repairs = {}
    /\ task = [t \in Tasks |-> Idle]
    /\ calls = 0
    /\ serial = TRUE

-----------------------------------------------------------------------------
At(t, point) == task[t].at = point
Entering(t, kinds) == At(t, "enter") /\ task[t].kind \in kinds
Goto(t, point) == task' = [task EXCEPT ![t].at = point]
Return(t) == task' = [task EXCEPT ![t] = Idle]

\* Nobody keeps the session mutex: an action that starts here takes and
\* releases it within the step.
SessionFree == holder = Nobody

\* validate_active: what is sent before or after the session is an error.
Validated == session = "Active"

\* next_sequence: each packet made takes one, sent or not.
TakeSequence == nextSeq' = nextSeq + 1

\* A call is made: it will first wait for the session mutex.
Call(t, kind, fragments) ==
    /\ At(t, "idle")
    /\ calls < MaxCalls
    /\ calls' = calls + 1
    /\ task' = [task EXCEPT ![t].at = "enter", ![t].kind = kind,
                            ![t].left = fragments]
    /\ serial' = (serial /\ \A u \in Tasks \ {t} : At(u, "idle"))
    /\ UNCHANGED <<session, holder, nextSeq, pending, groups, media, repairs>>

-----------------------------------------------------------------------------
(* Packets.  A send on the socket may fail, after the sequence number was  *)
(* taken: the call then returns the error.                                 *)

\* init_session: the session is active at once, before any acknowledgement.
InitSession(t) ==
    /\ Entering(t, {"init"})
    /\ SessionFree
    /\ TakeSequence
    /\ session' \in {session, "Active"}
    /\ Return(t)
    /\ UNCHANGED <<holder, pending, groups, media, repairs, calls, serial>>

\* send_video checks the session once for the whole frame.
ValidateVideo(t) ==
    /\ Entering(t, {"video"})
    /\ SessionFree
    /\ IF Validated THEN Goto(t, "packet") ELSE Return(t)
    /\ UNCHANGED <<session, holder, nextSeq, pending, groups, media, repairs,
                   calls, serial>>

\* The frame's next fragment, or the return after its last one.
NextFragment(t) ==
    IF task[t].left > 1
    THEN task' = [task EXCEPT ![t].at = "packet", ![t].left = @ - 1]
    ELSE Return(t)

\* send_video_packet: with FEC the session mutex stays locked.
SendVideoPacket(t) ==
    /\ At(t, "packet")
    /\ SessionFree
    /\ TakeSequence
    /\ \/ /\ Return(t)
          /\ UNCHANGED <<media, holder>>
       \/ /\ media' = media \cup {nextSeq}
          /\ IF FecEnabled
             THEN /\ holder' = t
                  /\ task' = [task EXCEPT ![t].at = "push",
                                          ![t].packet = nextSeq]
             ELSE /\ NextFragment(t)
                  /\ UNCHANGED holder
    /\ UNCHANGED <<session, pending, groups, repairs, calls, serial>>

\* send_audio, send_dmx, send_mocap: the mutex is released before the packet
\* is added to the FEC group.
SendTrack(t) ==
    /\ Entering(t, {"track"})
    /\ SessionFree
    /\ \/ /\ ~Validated
          /\ Return(t)
          /\ UNCHANGED <<nextSeq, media>>
       \/ /\ Validated
          /\ TakeSequence
          /\ \/ Return(t) /\ UNCHANGED media
             \/ /\ media' = media \cup {nextSeq}
                /\ IF FecEnabled
                   THEN task' = [task EXCEPT ![t].at = "push",
                                             ![t].packet = nextSeq]
                   ELSE Return(t)
    /\ UNCHANGED <<session, holder, pending, groups, repairs, calls, serial>>

\* send_sync_point, and send_heartbeat, which does not check the session.
SendControl(t) ==
    /\ Entering(t, {"sync", "heartbeat"})
    /\ SessionFree
    /\ IF Validated \/ task[t].kind = "heartbeat"
       THEN TakeSequence ELSE UNCHANGED nextSeq
    /\ Return(t)
    /\ UNCHANGED <<session, holder, pending, groups, media, repairs, calls,
                   serial>>

-----------------------------------------------------------------------------
(* Forward error correction                                                *)

\* Mutant: a video packet forgets to give the session mutex back.
LeaveLocked(t) ==
    IF task[t].kind = "video"
    THEN NextFragment(t) /\ UNCHANGED holder
    ELSE Return(t) /\ UNCHANGED holder

\* The packet is done with FEC: a video packet gives the session mutex back.
Leave(t) ==
    IF task[t].kind = "video"
    THEN holder' = Nobody /\ NextFragment(t)
    ELSE Return(t) /\ UNCHANGED holder

\* Mutant: the packets are copied into the group and stay pending.
DrainCopies(t, packets) ==
    /\ pending' = packets
    /\ task' = [task EXCEPT ![t].at = "encode", ![t].group = packets]

\* drain(..): the packets leave pending for the call's own group.
Drain(t, packets) ==
    /\ pending' = <<>>
    /\ task' = [task EXCEPT ![t].at = "encode", ![t].group = packets]

\* Mutant: the group is encoded one packet too late.
PushLate(t) ==
    /\ At(t, "push")
    /\ LET filled == Append(pending, task[t].packet)
       IN  IF Len(filled) > DataShards
           THEN /\ Drain(t, filled)
                /\ UNCHANGED holder
           ELSE /\ pending' = filled
                /\ Leave(t)
    /\ UNCHANGED <<session, nextSeq, groups, media, repairs, calls, serial>>

\* add_to_fec_group: the packet that fills the group takes all of it along.
Push(t) ==
    /\ At(t, "push")
    /\ LET filled == Append(pending, task[t].packet)
       IN  IF Len(filled) >= DataShards
           THEN /\ Drain(t, filled)
                /\ UNCHANGED holder
           ELSE /\ pending' = filled
                /\ Leave(t)
    /\ UNCHANGED <<session, nextSeq, groups, media, repairs, calls, serial>>

\* FecEncoder::encode and encode_partial: the group gets the next number.
EncodeGroup(t) ==
    /\ At(t, "encode")
    /\ groups' = Append(groups, task[t].group)
    /\ task' = [task EXCEPT ![t].at = "repair", ![t].gid = Len(groups) + 1,
                            ![t].group = <<>>]
    /\ UNCHANGED <<session, holder, nextSeq, pending, media, repairs, calls,
                   serial>>

\* send_fec_repair locks the session again; it may fail at any parity shard.
SendRepair(t) ==
    /\ At(t, "repair")
    /\ SessionFree
    /\ \E n \in 0..ParityShards :
          /\ repairs' = repairs \cup
                 {<<task[t].gid, nextSeq + i>> : i \in {k \in 0..n : k < n}}
          /\ IF n = ParityShards
             THEN /\ nextSeq' = nextSeq + n
                  /\ IF task[t].kind = "close" THEN Goto(t, "closing")
                                               ELSE Return(t)
             ELSE /\ nextSeq' = nextSeq + n + 1
                  /\ Return(t)
    /\ UNCHANGED <<session, holder, pending, groups, media, calls, serial>>

\* Mutant: close does not flush.
FlushNotOnClose(t) ==
    /\ Entering(t, {"flush", "close"})
    /\ \/ /\ task[t].kind = "flush"
          /\ pending # <<>>
          /\ Drain(t, pending)
       \/ /\ task[t].kind = "flush"
          /\ pending = <<>>
          /\ Return(t)
          /\ UNCHANGED pending
       \/ /\ task[t].kind = "close"
          /\ Goto(t, "closing")
          /\ UNCHANGED pending
    /\ UNCHANGED <<session, holder, nextSeq, groups, media, repairs, calls,
                   serial>>

\* flush_fec, also the first half of close.
Flush(t) ==
    /\ Entering(t, {"flush", "close"})
    /\ \/ /\ pending # <<>>
          /\ Drain(t, pending)
       \/ /\ pending = <<>>
          /\ IF task[t].kind = "close" THEN Goto(t, "closing") ELSE Return(t)
          /\ UNCHANGED pending
    /\ UNCHANGED <<session, holder, nextSeq, groups, media, repairs, calls,
                   serial>>

CloseSession(t) ==
    /\ At(t, "closing")
    /\ SessionFree
    /\ session' = "Closed"
    /\ Return(t)
    /\ UNCHANGED <<holder, nextSeq, pending, groups, media, repairs, calls,
                   serial>>

-----------------------------------------------------------------------------
Progress(t) ==
    \/ InitSession(t)
    \/ ValidateVideo(t) \/ SendVideoPacket(t) \/ SendTrack(t) \/ SendControl(t)
    \/ Push(t) \/ EncodeGroup(t) \/ SendRepair(t)
    \/ Flush(t) \/ CloseSession(t)

SenderNext ==
    \/ \E t \in Tasks, kind \in Kinds \ {"video"} : Call(t, kind, 0)
    \/ \E t \in Tasks, fragments \in 1..MaxFragments :
           Call(t, "video", fragments)
    \/ \E t \in Tasks : Progress(t)

SenderSpec == SenderInit /\ [][SenderNext]_senderVars

\* tokio polls a call whose lock is free, and hands its mutexes out in order.
FairSenderSpec == SenderSpec /\ \A t \in Tasks : WF_senderVars(Progress(t))

-----------------------------------------------------------------------------
(* Properties                                                              *)

Quiet == \A t \in Tasks : At(t, "idle")

\* How many of the places a protected packet can be in hold packet s.
Copies(s) ==
      Cardinality({i \in DOMAIN pending : pending[i] = s})
    + Cardinality({g \in DOMAIN groups : \E i \in DOMAIN groups[g] :
                                            groups[g][i] = s})
    + Cardinality({t \in Tasks : At(t, "push") /\ task[t].packet = s})
    + Cardinality({t \in Tasks : At(t, "encode") /\ \E i \in DOMAIN task[t].group :
                                                       task[t].group[i] = s})

\* A packet on the wire that says FEC_PROTECTED is waiting for its group or
\* in one group: whatever calls interleave, and although the group being
\* filled, the encoder and the session have three separate locks, no packet
\* is lost between them or encoded twice.
ProtectedOnce == FecEnabled => \A s \in media : Copies(s) = 1

\* A repair packet follows on the wire every packet of the group it repairs,
\* so a receiver that has the repair knows the data was sent; and no group is
\* larger than the decoder's.
RepairFollowsData ==
    /\ \A r \in repairs : \A i \in DOMAIN groups[r[1]] : groups[r[1]][i] < r[2]
    /\ \A g \in DOMAIN groups : Len(groups[g]) \in 1..DataShards

\* While calls do not overlap, a session that was closed has no packet left
\* in an unfinished group, also when a send failed on the way.
ClosedIsFlushed == serial /\ Quiet /\ session = "Closed" => pending = <<>>

\* A video packet filled a FEC group: its call waits for the session mutex it
\* keeps itself.
SelfLocked == \E t \in Tasks : At(t, "repair") /\ holder = t

\* The only way for a call not to return is that one: no other order of the
\* session, the pending and the encoder locks hangs a sender.
CallsReturnUnlessSelfLocked ==
    \A t \in Tasks : At(t, "enter") ~> (At(t, "idle") \/ SelfLocked)

\* send_video: "Send a video frame, fragmenting if necessary." A call of it
\* comes back, with the frame sent or an error.
VideoReturns ==
    \A t \in Tasks : Entering(t, {"video"}) ~> At(t, "idle")
=============================================================================
