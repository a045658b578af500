------------------------------ MODULE Receiver ------------------------------
(***************************************************************************)
(* The receiving half of a USSP session (transport/receiver.rs) and its    *)
(* FEC decoder (fec/decoder.rs), behind a network that loses, duplicates   *)
(* and reorders: any packet may arrive at any time, any number of times or *)
(* never.  The run loop handles one packet at a time and puts the events   *)
(* into a bounded queue; while the queue is full it waits there.  The      *)
(* application reads the queue and stops the receiver.                     *)
(***************************************************************************)
EXTENDS Naturals, Sequences, FiniteSets

CONSTANTS
    Datagrams,     \* the packets senders put on the wire
    FecData,       \* config.fec.data_shards
    FecParity,     \* config.fec.parity_shards
    QueueSize      \* capacity of the event channel

\* A packet: its session, the id of its frame or FEC group, its place there,
\* the number of fragments of the frame, the packets a repair was made of.
PacketFields == {"kind", "session", "id", "index", "total", "covers"}

Ids == {p.id : p \in Datagrams}

\* Parts of one frame or of one group, of one sender.
SameGroup(p, q) ==
    p.kind = q.kind /\ p.session = q.session /\ p.id = q.id

\* The payloads a sender protects with FEC (add_to_fec_group).
Media == {d \in Datagrams : d.kind \in {"video", "track"}}

\* What the constants are.  A sender gives its frames and its groups an id
\* each (next_frame_id, FecEncoder::encode), and their parts a place.
ASSUME ReceiverAssumption ==
    /\ \A p \in Datagrams :
           /\ DOMAIN p = PacketFields
           /\ p.kind \in {"init", "video", "track", "repair"}
           /\ p.session \in Nat /\ p.index \in Nat /\ p.total \in Nat
           /\ p.kind = "video" => p.index < p.total
           /\ p.covers \in Seq(Media)
    /\ \A p, q \in Datagrams :
           p.kind \in {"video", "repair"} /\ SameGroup(p, q) =>
               /\ p.total = q.total /\ p.covers = q.covers
               /\ p.index = q.index => p = q
    /\ FecData \in Nat \ {0} /\ FecParity \in Nat \ {0}
    /\ QueueSize \in Nat \ {0}

VARIABLES
    pc,        \* where the run loop is
    running,   \* Receiver::running
    peer,      \* the id of Receiver::session, 0 without one
    partial,   \* pending_frames: one entry per frame id
    decoder,   \* the repair packets of FecDecoder::pending_groups
    outbox,    \* the kinds of the events the current packet's handler sends
    queue,     \* the event channel, as the kinds of the events in it
    reading,   \* the application still reads events
    goodbye,   \* the Disconnected event: "none", "due" or "sent"
    got,       \* history: packets received
    emitted,   \* history: the media events, with the packets they were made of
    clean      \* history: no packet came twice and no entry timed out

receiverVars == <<pc, running, peer, partial, decoder, outbox, queue,
                  reading, goodbye, got, emitted, clean>>

\* The kinds of events packets lead to.
EventKinds == {"SessionInit", "TrackFrame", "VideoFrame"}

\* An event made of packets that arrived, and one the decoder's packet leads
\* to: a recovered fragment is sent on as if it were a frame.
Event(kind, parts) == [kind |-> kind, parts |-> parts, recovered |-> FALSE]

Restored(d) ==
    [kind |-> IF d.kind = "video" THEN "VideoFrame" ELSE "TrackFrame",
     parts |-> {d}, recovered |-> TRUE]

ReceiverTypeOK ==
    /\ pc \in {"start", "check", "recv", "send", "ended"}
    /\ running \in BOOLEAN
    /\ peer \in Nat
    /\ partial \subseteq [id : Ids, parts : SUBSET Datagrams, total : Nat,
                          stale : BOOLEAN]
    /\ decoder \subseteq Datagrams
    /\ outbox \in Seq(EventKinds)
    /\ pc = "send" <=> outbox # <<>>
    /\ queue \in Seq(EventKinds \cup {"Disconnected"})
    /\ Len(queue) <= QueueSize
    /\ reading \in BOOLEAN /\ clean \in BOOLEAN
    /\ goodbye \in {"none", "due", "sent"}
    /\ got \subseteq Datagrams
    /\ emitted \subseteq [kind : EventKinds, parts : SUBSET Datagrams,
                          recovered : BOOLEAN]

ReceiverInit ==
    /\ pc = "start"
    /\ running = FALSE
    /\ peer = 0
    /\ partial = {}
    /\ decoder = {}
    /\ outbox = <<>>
    /\ queue = <<>>
    /\ reading = TRUE
    /\ goodbye = "none"
    /\ got = {}
    /\ emitted = {}
    /\ clean = TRUE

-----------------------------------------------------------------------------
(* run                                                                     *)

\* A stop that came before this is forgotten.
Start ==
    /\ pc = "start"
    /\ pc' = "check"
    /\ running' = TRUE
    /\ UNCHANGED <<peer, partial, decoder, outbox, queue, reading,
                   goodbye, got, clean, emitted>>

\* Mutant: the running flag is not looked at again.
CheckNever ==
    /\ pc = "check"
    /\ pc' = "recv"
    /\ UNCHANGED <<running, peer, partial, decoder, outbox, queue,
                   reading, goodbye, got, clean, emitted>>

\* The head of the loop.
Check ==
    /\ pc = "check"
    /\ pc' = IF running THEN "recv" ELSE "ended"
    /\ UNCHANGED <<running, peer, partial, decoder, outbox, queue,
                   reading, goodbye, got, clean, emitted>>

\* No packet came for 100 ms.
Timeout ==
    /\ pc = "recv"
    /\ pc' = "check"
    /\ UNCHANGED <<running, peer, partial, decoder, outbox, queue,
                   reading, goodbye, got, clean, emitted>>

SocketError ==
    /\ pc = "recv"
    /\ pc' = "ended"
    /\ UNCHANGED <<running, peer, partial, decoder, outbox, queue,
                   reading, goodbye, got, clean, emitted>>

-----------------------------------------------------------------------------
(* handle_packet                                                           *)

\* The events the packet leads to, sent one after the other.
Emit(events) ==
    /\ outbox' = [n \in DOMAIN events |-> events[n].kind]
    /\ emitted' = emitted \cup {events[n] : n \in DOMAIN events}
    /\ pc' = IF events = <<>> THEN "check" ELSE "send"

\* The session is replaced before the acknowledgement is sent, which may fail.
HandleSessionInit(p) ==
    /\ p.kind = "init"
    /\ peer' = p.session
    /\ Emit(<<>>) \/ Emit(<<Event("SessionInit", {p})>>)
    /\ UNCHANGED <<partial, decoder>>

\* Audio, DMX, mocap and sync packets, and video frames of one fragment.
HandleWhole(p) ==
    /\ \/ p.kind = "track" /\ Emit(<<Event("TrackFrame", {p})>>)
       \/ p.kind = "video" /\ p.total = 1 /\ Emit(<<Event("VideoFrame", {p})>>)
    /\ UNCHANGED <<peer, partial, decoder>>

EntryFor(p) ==
    IF \E e \in partial : e.id = p.id
    THEN CHOOSE e \in partial : e.id = p.id
    ELSE [id |-> p.id, parts |-> {}, total |-> p.total, stale |-> FALSE]

\* The frame's fragments with this one in its place.
PartsWith(p) == {q \in EntryFor(p).parts : q.index # p.index} \cup {p}

Others(p) == {e \in partial : e.id # p.id}

\* Mutant: the frame is taken for complete one fragment too early.
CompleteFrameEarly(p) ==
    /\ p.kind = "video" /\ p.total > 1
    /\ Cardinality(PartsWith(p)) + 1 >= p.total
    /\ partial' = Others(p)
    /\ IF EntryFor(p).total = p.total
       THEN Emit(<<Event("VideoFrame", PartsWith(p))>>)
       ELSE Emit(<<>>)
    /\ UNCHANGED <<peer, decoder>>

\* Mutant: the entry of a complete frame stays.
CompleteFrameKeepsEntry(p) ==
    /\ p.kind = "video" /\ p.total > 1
    /\ Cardinality(PartsWith(p)) = p.total
    /\ partial' = Others(p) \cup {[EntryFor(p) EXCEPT !.parts = PartsWith(p)]}
    /\ IF EntryFor(p).total = p.total
       THEN Emit(<<Event("VideoFrame", PartsWith(p))>>)
       ELSE Emit(<<>>)
    /\ UNCHANGED <<peer, decoder>>

\* The size of the frame is read from the fragment at hand here, and from the
\* entry when the frame is reassembled: if they differ the frame is dropped.
CompleteFrame(p) ==
    /\ p.kind = "video" /\ p.total > 1
    /\ Cardinality(PartsWith(p)) = p.total
    /\ partial' = Others(p)
    /\ IF EntryFor(p).total = p.total
       THEN Emit(<<Event("VideoFrame", PartsWith(p))>>)
       ELSE Emit(<<>>)
    /\ UNCHANGED <<peer, decoder>>

\* Otherwise the entries that are too old go, this frame's among them.
KeepFragment(p) ==
    /\ p.kind = "video" /\ p.total > 1
    /\ Cardinality(PartsWith(p)) # p.total
    /\ partial' = {e \in Others(p) \cup {[EntryFor(p) EXCEPT !.parts = PartsWith(p)]} :
                       ~e.stale}
    /\ Emit(<<>>)
    /\ UNCHANGED <<peer, decoder>>

\* add_shard refuses a place outside the group.
IsShard(p) == p.kind = "repair" /\ p.index < FecData + FecParity

\* The shards the decoder would hold of the repair packet's group.
ShardsWith(p) ==
    LET held == {q \in decoder : q.id = p.id}
    IN  IF \E q \in held : q.index = p.index THEN held ELSE held \cup {p}

\* try_decode: the group leaves the decoder.  Shards of different sessions
\* decode to bytes that are no packets.
TryDecode(p) ==
    /\ decoder' = {q \in decoder : q.id # p.id}
    /\ IF \A q \in ShardsWith(p) : q.session = p.session
       THEN Emit([n \in DOMAIN p.covers |-> Restored(p.covers[n])])
       ELSE Emit(<<>>)

\* Mutant: one more shard than data_shards is asked for.
HandleRepairLate(p) ==
    /\ p.kind = "repair"
    /\ IF ~IsShard(p)
       THEN Emit(<<>>) /\ UNCHANGED decoder
       ELSE IF Cardinality(ShardsWith(p)) > FecData
            THEN TryDecode(p)
            ELSE decoder' = decoder \cup ShardsWith(p) /\ Emit(<<>>)
    /\ UNCHANGED <<peer, partial>>

\* add_shard: only repair packets reach the decoder (add_to_fec_decoder does
\* nothing), so a group decodes from parity shards alone.
HandleRepair(p) ==
    /\ p.kind = "repair"
    /\ IF ~IsShard(p)
       THEN Emit(<<>>) /\ UNCHANGED decoder
       ELSE IF Cardinality(ShardsWith(p)) >= FecData
            THEN TryDecode(p)
            ELSE decoder' = decoder \cup ShardsWith(p) /\ Emit(<<>>)
    /\ UNCHANGED <<peer, partial>>

Receive(p) ==
    /\ pc = "recv"
    /\ \/ HandleSessionInit(p) \/ HandleWhole(p)
       \/ CompleteFrame(p) \/ KeepFragment(p)
       \/ HandleRepair(p)
    /\ got' = got \cup {p}
    /\ clean' = (clean /\ p \notin got)
    /\ UNCHANGED <<running, queue, reading, goodbye>>

\* A place in the queue lets the handler go on.
Deliver ==
    /\ pc = "send"
    /\ Len(queue) < QueueSize
    /\ queue' = Append(queue, Head(outbox))
    /\ outbox' = Tail(outbox)
    /\ pc' = IF Len(outbox) = 1 THEN "check" ELSE "send"
    /\ UNCHANGED <<running, peer, partial, decoder, reading,
                   goodbye, got, clean, emitted>>

\* fragment_timeout passes for an incomplete frame.
Expire(e) ==
    /\ e \in partial /\ ~e.stale
    /\ partial' = (partial \ {e}) \cup {[e EXCEPT !.stale = TRUE]}
    /\ clean' = FALSE
    /\ UNCHANGED <<pc, running, peer, decoder, outbox, queue,
                   reading, goodbye, got, emitted>>

-----------------------------------------------------------------------------
(* The application                                                         *)

\* It reads until it is told that the receiver was disconnected.
Read ==
    /\ reading /\ queue # <<>>
    /\ queue' = Tail(queue)
    /\ reading' = (Head(queue) # "Disconnected")
    /\ UNCHANGED <<pc, running, peer, partial, decoder, outbox,
                   goodbye, got, clean, emitted>>

\* stop: a task of its own sends the Disconnected event.
Stop ==
    /\ goodbye = "none"
    /\ running' = FALSE
    /\ goodbye' = "due"
    /\ UNCHANGED <<pc, peer, partial, decoder, outbox, queue,
                   reading, got, clean, emitted>>

\* The task waits for a place in the queue.
SayGoodbye ==
    /\ goodbye = "due"
    /\ Len(queue) < QueueSize
    /\ goodbye' = "sent"
    /\ queue' = Append(queue, "Disconnected")
    /\ UNCHANGED <<pc, running, peer, partial, decoder, outbox, reading,
                   got, clean, emitted>>

\* The stop signal ends the reading task of USSP Studio before the event does.
StopReading ==
    /\ reading /\ goodbye # "none"
    /\ reading' = FALSE
    /\ UNCHANGED <<pc, running, peer, partial, decoder, outbox,
                   queue, goodbye, got, clean, emitted>>

-----------------------------------------------------------------------------
Loop ==
    \/ Start \/ Check \/ Timeout \/ Deliver
    \/ \E p \in Datagrams : Receive(p)

ReceiverNext ==
    \/ Loop \/ SocketError
    \/ \E e \in partial : Expire(e)
    \/ Read \/ Stop \/ SayGoodbye \/ StopReading

ReceiverSpec == ReceiverInit /\ [][ReceiverNext]_receiverVars

\* The run loop, the reading task and the goodbye are futures that tokio
\* polls, with a receive that times out, and the channel grants its places in
\* the order they were asked for; nothing obliges the network.
ReceiverFairness == WF_receiverVars(Loop) /\ WF_receiverVars(Read) /\ SF_receiverVars(SayGoodbye)

-----------------------------------------------------------------------------
(* Properties                                                              *)

\* All packets received were sent by one sender.
OneSession == \A p, q \in got : p.session = q.session

\* reassemble_frame: whatever was lost, duplicated, reordered or timed out in a
\* session, a frame put together from fragments that arrived has every one of
\* its fragments, once.  (Frames the FEC decoder sends on are another matter,
\* see FramesAreComplete.)
FramesAreWhole ==
    OneSession => \A e \in emitted : e.kind = "VideoFrame" /\ ~e.recovered =>
        \A p \in e.parts :
            /\ {q.index : q \in e.parts} = {i \in 0..p.total : i < p.total}
            /\ Cardinality(e.parts) = p.total
            /\ \A q \in e.parts : q.id = p.id

\* As long as no packet comes twice, no fragment is put into two frames, also
\* when the frame ids of a new session meet entries of the old one.
PlayedOnce ==
    clean => \A d, e \in emitted :
                 d.kind = "VideoFrame" /\ e.kind = "VideoFrame"
                   /\ ~d.recovered /\ ~e.recovered /\ d # e
                     => d.parts \cap e.parts = {}

\* Without duplicates, timeouts and restarts nothing received is lost: every
\* fragment waits in the entry of its frame or was put into one; that the
\* decoder sent it on as well takes no part of it.
NothingLost ==
    clean /\ OneSession => \A p \in got : p.kind = "video" =>
                 \/ \E e \in partial : p \in e.parts
                 \/ \E e \in emitted : ~e.recovered /\ p \in e.parts

\* Each fragment received goes into exactly one reassembled frame, sent to the
\* application or awaited.
EachFragmentOnce == PlayedOnce /\ NothingLost

\* Once the parity shards of a group suffice by themselves, and are kept to
\* one session, the decoder has sent on every packet the group protects, also
\* those the network lost (and those it did not).
ParityRecovers ==
    clean /\ OneSession => \A p \in got :
        IsShard(p) /\ Cardinality({q \in got : IsShard(q) /\ q.id = p.id}) >= FecData
            => \A n \in DOMAIN p.covers :
                   \E e \in emitted : e.recovered /\ p.covers[n] \in e.parts

\* The run loop waits for a place in a queue nobody reads any more.
Stuck == pc = "send" /\ Len(queue) = QueueSize /\ ~reading

\* "Running flag for graceful shutdown": a running loop that is stopped ends,
\* unless the application has stopped reading and left it a full queue; and the
\* task that reads the events hears of it.
StopEnds == /\ (~running /\ pc # "start") ~> (pc = "ended" \/ Stuck)
            /\ goodbye # "none" ~> ~reading

\* ReceiverEvent::VideoFrame: "A complete video frame was received."
FramesAreComplete ==
    \A e \in emitted : e.kind = "VideoFrame" =>
        \A p \in e.parts :
            {q.index : q \in e.parts} = {i \in 0..p.total : i < p.total}

\* README "FEC": up to parity_shards lost packets can be recovered.  A group of
\* which data_shards shards, data or parity, have been received is complete.
LossIsRecovered ==
    pc = "check" =>
        \A p \in got :
            (/\ p.kind = "repair"
             /\ Cardinality({q \in got : q.kind = "repair" /\ q.id = p.id})
                  + Cardinality({n \in DOMAIN p.covers : p.covers[n] \in got})
                      >= FecData)
                => \A n \in DOMAIN p.covers :
                       \E e \in emitted : p.covers[n] \in e.parts
=============================================================================
