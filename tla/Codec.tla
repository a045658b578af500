------------------------------- MODULE Codec -------------------------------
(***************************************************************************)
(* Packets on the wire: how each kind is encoded, what of a datagram gets  *)
(* into the receive buffer, and what Packet::decode makes of it.           *)
(*                                                                         *)
(* A datagram is a sequence of cells <<width in bytes, value>>.  Encoding  *)
(* writes one cell per put_* call, or per array of floats; decoding reads  *)
(* fields of its own widths from the front, so that a layout the two sides *)
(* disagree about shows as a field that straddles cells.  Numbers are      *)
(* whole values, never bytes; a payload's data is one cell; bool fields    *)
(* are the 0 or 1 written.                                                 *)
(***************************************************************************)
EXTENDS Integers, FiniteSets, SequencesExt

CONSTANTS
    Packets,        \* the packets programs send: functions from field names
    MaxPacketSize,  \* receive buffer, transport::MAX_PACKET_SIZE
    Padding         \* bytes FEC may append to a packet to fill its shard

VARIABLES
    packet,  \* the packet sent
    wire,    \* the datagram, as cells
    end,     \* bytes of it that are there to be decoded
    fault,   \* what happened on the way: nothing, or one of Faults
    result   \* what decode returned, or Undecoded

codecVars == <<packet, wire, end, fault, result>>

Faults == {"none", "recovered", "foreign", "short"}
Undecoded == [status |-> "none", got |-> <<>>]

\* header.rs MAGIC, and the discriminants the enums are written as.
Magic == "USSP"
Version == 1
PacketTypes == 1..9
VideoCodecs == 0..5
AudioCodecs == 0..4
Flags == [KEY_FRAME |-> 1, END_OF_STREAM |-> 2, REQUIRES_ACK |-> 4,
          RETRANSMISSION |-> 8, FEC_PROTECTED |-> 16]
U16 == 65536

\* What programs put into a packet: the fields of its kind, codecs and flags this
\* version knows, lists and data no longer than their 16- and 32-bit lengths can say.
CommonFields == {"packet_type", "flags", "session_id", "sequence", "timestamp"}
OwnFields ==
    << {"frame_id", "fragment_index", "total_fragments", "codec", "is_key_frame",
        "pts", "dts", "data_len", "data"},
       {"track_id", "sample_rate", "channels", "bits_per_sample", "codec", "pts",
        "sample_count", "data_len", "data"},
       {"reference_timestamp", "video_pts", "audio_tracks"},
       {"group_id", "index", "total_shards", "data_shards", "data_len", "data"},
       {"init_session_id", "audio_track_count", "video_codec", "audio_codec",
        "fec_data_shards", "fec_parity_shards", "frame_rate", "sample_rate"},
       {"acked_session_id", "accepted", "server_timestamp"},
       {},
       {"universe", "net", "subnet", "dmx_sequence", "channel_count", "pts", "data"},
       {"pts", "frame_number", "timecode", "timecode_subframe", "mocap_timestamp",
        "rigid_bodies", "skeletons", "labeled_markers", "params"} >>

FitsU32(n) == n \in Nat /\ n \div U16 < U16
IsRecord(r, fields) == r = [f \in fields |-> r[f]]
IsList(s) == s \in Seq(Range(s)) /\ Len(s) < U16
IsBodies(s) ==
    /\ s \in Seq(Range(s))
    /\ \A i \in DOMAIN s :
          IsRecord(s[i], {"id", "position", "rotation", "mean_error", "tracking_valid"})
IsSkeletons(s) ==
    /\ IsList(s)
    /\ \A i \in DOMAIN s : /\ IsRecord(s[i], {"id", "bones"})
                          /\ IsBodies(s[i].bones) /\ FitsU32(Len(s[i].bones))

WellFormed(p) ==
    /\ p.packet_type \in PacketTypes /\ p.flags \in 0..(2 * Flags.FEC_PROTECTED - 1)
    /\ DOMAIN p = CommonFields \cup OwnFields[p.packet_type]
    /\ p.packet_type \in {1, 2, 4} => FitsU32(p.data_len)
    /\ p.packet_type = 1 => p.codec \in VideoCodecs
    /\ p.packet_type = 2 => p.codec \in AudioCodecs
    /\ p.packet_type = 3 =>
          /\ IsList(p.audio_tracks)
          /\ \A i \in DOMAIN p.audio_tracks :
                IsRecord(p.audio_tracks[i], {"track_id", "pts", "offset_us"})
    /\ p.packet_type = 5 => p.video_codec \in VideoCodecs /\ p.audio_codec \in AudioCodecs
    /\ p.packet_type = 8 => p.channel_count \in 0..512
    /\ p.packet_type = 9 =>
          /\ IsList(p.rigid_bodies) /\ IsBodies(p.rigid_bodies)
          /\ IsSkeletons(p.skeletons)
          /\ IsList(p.labeled_markers)
          /\ \A i \in DOMAIN p.labeled_markers :
                IsRecord(p.labeled_markers[i], {"id", "position", "size", "params", "residual"})

ASSUME CodecAssumption ==
    /\ MaxPacketSize \in Nat /\ Padding \in Nat
    /\ \A p \in Packets : WellFormed(p)

-----------------------------------------------------------------------------
(* Encoding: the put_* calls of each encode, in order                      *)

EncodeHeader(p) ==
    << <<4, Magic>>, <<1, Version>>, <<1, p.packet_type>>, <<2, p.flags>>,
       <<4, p.session_id>>, <<4, p.sequence>>, <<8, p.timestamp>> >>

\* Mutant: pts and dts are written in the wrong order.
EncodeVideoSwapped(p) ==
    << <<4, p.frame_id>>, <<2, p.fragment_index>>, <<2, p.total_fragments>>,
       <<1, p.codec>>, <<1, p.is_key_frame>>, <<2, 0>>, <<8, p.dts>>,
       <<8, p.pts>>, <<4, p.data_len>>, <<p.data_len, p.data>> >>

EncodeVideo(p) ==
    << <<4, p.frame_id>>, <<2, p.fragment_index>>, <<2, p.total_fragments>>,
       <<1, p.codec>>, <<1, p.is_key_frame>>, <<2, 0>>, <<8, p.pts>>,
       <<8, p.dts>>, <<4, p.data_len>>, <<p.data_len, p.data>> >>

EncodeAudio(p) ==
    << <<2, p.track_id>>, <<4, p.sample_rate>>, <<1, p.channels>>,
       <<1, p.bits_per_sample>>, <<1, p.codec>>, <<1, 0>>, <<2, 0>>,
       <<8, p.pts>>, <<4, p.sample_count>>, <<4, p.data_len>>,
       <<p.data_len, p.data>> >>

EncodeTrack(t) ==
    << <<2, t.track_id>>, <<2, 0>>, <<4, 0>>, <<8, t.pts>>, <<8, t.offset_us>> >>

EncodeSync(p) ==
    << <<8, p.reference_timestamp>>, <<8, p.video_pts>>,
       <<2, Len(p.audio_tracks) % U16>>, <<2, 0>>, <<4, 0>> >>
    \o FlattenSeq([i \in DOMAIN p.audio_tracks |-> EncodeTrack(p.audio_tracks[i])])

EncodeFecRepair(p) ==
    << <<4, p.group_id>>, <<2, p.index>>, <<2, p.total_shards>>,
       <<2, p.data_shards>>, <<2, 0>>, <<4, p.data_len>>, <<p.data_len, p.data>> >>

EncodeSessionInit(p) ==
    << <<4, p.init_session_id>>, <<2, p.audio_track_count>>, <<1, p.video_codec>>,
       <<1, p.audio_codec>>, <<2, p.fec_data_shards>>, <<2, p.fec_parity_shards>>,
       <<4, p.frame_rate>>, <<4, p.sample_rate>> >>

EncodeSessionAck(p) ==
    << <<4, p.acked_session_id>>, <<1, p.accepted>>, <<1, 0>>, <<2, 0>>,
       <<8, p.server_timestamp>> >>

\* new and with_artnet_address take channel_count from the data, 512 at most,
\* and encode writes only that much of it.
EncodeDmx(p) ==
    << <<2, p.universe>>, <<1, p.net>>, <<1, p.subnet>>, <<1, p.dmx_sequence>>,
       <<1, 0>>, <<2, p.channel_count>>, <<8, p.pts>>, <<p.channel_count, p.data>> >>

EncodeRigidBody(r) ==
    << <<4, r.id>>, <<12, r.position>>, <<16, r.rotation>>, <<4, r.mean_error>>,
       <<2, r.tracking_valid>> >>

EncodeMarker(m) ==
    << <<4, m.id>>, <<12, m.position>>, <<4, m.size>>, <<2, m.params>>,
       <<4, m.residual>> >>

EncodeSkeleton(s) ==
    << <<4, s.id>>, <<4, Len(s.bones)>> >>
    \o FlattenSeq([i \in DOMAIN s.bones |-> EncodeRigidBody(s.bones[i])])

EncodeMocap(p) ==
    << <<8, p.pts>>, <<4, p.frame_number>>, <<4, p.timecode>>,
       <<4, p.timecode_subframe>>, <<8, p.mocap_timestamp>>,
       <<2, Len(p.rigid_bodies) % U16>>, <<2, Len(p.skeletons) % U16>>,
       <<2, Len(p.labeled_markers) % U16>>, <<2, p.params>> >>
    \o FlattenSeq([i \in DOMAIN p.rigid_bodies |-> EncodeRigidBody(p.rigid_bodies[i])])
    \o FlattenSeq([i \in DOMAIN p.skeletons |-> EncodeSkeleton(p.skeletons[i])])
    \o FlattenSeq([i \in DOMAIN p.labeled_markers |-> EncodeMarker(p.labeled_markers[i])])

EncodePayload(p) ==
    CASE p.packet_type = 1 -> EncodeVideo(p)       [] p.packet_type = 2 -> EncodeAudio(p)
      [] p.packet_type = 3 -> EncodeSync(p)        [] p.packet_type = 4 -> EncodeFecRepair(p)
      [] p.packet_type = 5 -> EncodeSessionInit(p) [] p.packet_type = 6 -> EncodeSessionAck(p)
      [] p.packet_type = 7 -> <<>>                 [] p.packet_type = 8 -> EncodeDmx(p)
      [] p.packet_type = 9 -> EncodeMocap(p)

Encode(p) == EncodeHeader(p) \o EncodePayload(p)

\* The bytes of a datagram, or of the fields of a layout: so many of each cell or
\* field as its width, which comes first, says.
Bytes(s) == UNION {{i} \X (1..s[i][1]) : i \in 1..Len(s)}
Size(s) == Cardinality(Bytes(s))

-----------------------------------------------------------------------------
(* Decoding.  b is the buffer being read: the cells, the place of the next *)
(* one, the bytes left, the fields read so far and how decoding stands.    *)

Buffer(cells, bytes) ==
    [cells |-> cells, at |-> 1, left |-> bytes, got |-> <<>>, status |-> "ok"]

\* Decoding stops with an error, or panics.
Fail(b, status) == IF b.status = "ok" THEN [b EXCEPT !.status = status] ELSE b

\* Mutant: the length is not checked.
NeedNothing(b, n) == b

\* The length checks: BufferTooSmall unless n bytes are left.
Need(b, n) == IF b.left < n THEN Fail(b, "too_small") ELSE b

\* What was read, and one more field.
With(got, name, v) == [n \in DOMAIN got \cup {name} |-> IF n = name THEN v ELSE got[n]]

\* One get_* call for the field f = <<width, name, accepted values>>, where
\* {} accepts all.  The bytes crate panics when fewer bytes are left; a
\* reserved field is read and forgotten.
Take(b, f) ==
    LET v == b.cells[b.at][2]
    IN  IF f[3] # {} /\ v \notin f[3] THEN Fail(b, "refused")
        ELSE [b EXCEPT !.at = @ + 1, !.left = @ - f[1],
                       !.got = IF f[2] = "reserved" THEN @ ELSE With(@, f[2], v)]

Get(b, f) ==
    IF b.status # "ok" THEN b
    ELSE IF b.left < f[1] THEN Fail(b, "panic")
    ELSE IF b.at \notin DOMAIN b.cells \/ b.cells[b.at][1] # f[1] THEN Fail(b, "straddles")
    ELSE Take(b, f)

Fields(b, layout) ==
    LET read[i \in 0..Len(layout)] == IF i = 0 THEN b ELSE Get(read[i - 1], layout[i])
    IN  read[Len(layout)]

U(width, name) == <<width, name, {}>>
Reserved(width) == U(width, "reserved")

\* "if buf.remaining() < data_len" and the copy of the data.
Data(b, n) == Get(Need(b, n), U(n, "data"))

\* A list of records is read into the field name, one record after the other.
Empty(b, name) == [b EXCEPT !.got = With(@, name, <<>>)]
Fresh(b) == [b EXCEPT !.got = <<>>]
Longer(got, name, v) == With(got, name, Append(got[name], v))
Added(b, name, d) == [d EXCEPT !.got = Longer(b.got, name, d.got)]

NextRecord(b, name, layout) ==
    IF b.status = "ok" THEN Added(b, name, Fields(Fresh(b), layout)) ELSE b

Records(b, name, n, layout) ==
    LET all[i \in 0..n] ==
            IF i = 0 THEN Empty(b, name) ELSE NextRecord(all[i - 1], name, layout)
    IN  IF b.status # "ok" THEN b ELSE all[n]

HeaderLayout ==
    << <<4, "magic", {Magic}>>, <<1, "version", {Version}>>,
       <<1, "packet_type", PacketTypes>>, U(2, "flags"), U(4, "session_id"),
       U(4, "sequence"), U(8, "timestamp") >>

\* Flags this version does not know are dropped.
DecodeHeader(b) ==
    LET h == Fields(Need(b, 24), HeaderLayout)
    IN  IF h.status = "ok"
        THEN [h EXCEPT !.got.flags = @ % (2 * Flags.FEC_PROTECTED)] ELSE h

VideoLayout ==
    << U(4, "frame_id"), U(2, "fragment_index"), U(2, "total_fragments"),
       <<1, "codec", VideoCodecs>>, U(1, "is_key_frame"), Reserved(2),
       U(8, "pts"), U(8, "dts"), U(4, "data_len") >>

DecodeVideo(b) ==
    LET h == Fields(Need(b, 32), VideoLayout)
    IN  IF h.status = "ok" THEN Data(h, h.got.data_len) ELSE h

AudioLayout ==
    << U(2, "track_id"), U(4, "sample_rate"), U(1, "channels"),
       U(1, "bits_per_sample"), <<1, "codec", AudioCodecs>>, Reserved(1),
       Reserved(2), U(8, "pts"), U(4, "sample_count"), U(4, "data_len") >>

\* AUDIO_PAYLOAD_HEADER_SIZE is 24, the fields read take 28.
DecodeAudio(b) ==
    LET h == Fields(Need(b, 24), AudioLayout)
    IN  IF h.status = "ok" THEN Data(h, h.got.data_len) ELSE h

TrackLayout ==
    << U(2, "track_id"), Reserved(2), Reserved(4), U(8, "pts"), U(8, "offset_us") >>

SyncLayout ==
    << U(8, "reference_timestamp"), U(8, "video_pts"), U(2, "track_count"),
       Reserved(2), Reserved(4) >>

DecodeSync(b) ==
    LET h == Fields(Need(b, 24), SyncLayout)
    IN  IF h.status # "ok" THEN h
        ELSE Records(Need(h, 24 * h.got.track_count), "audio_tracks",
                     h.got.track_count, TrackLayout)

RepairLayout ==
    << U(4, "group_id"), U(2, "index"), U(2, "total_shards"),
       U(2, "data_shards"), Reserved(2), U(4, "data_len") >>

DecodeFecRepair(b) ==
    LET h == Fields(Need(b, 16), RepairLayout)
    IN  IF h.status = "ok" THEN Data(h, h.got.data_len) ELSE h

InitLayout ==
    << U(4, "init_session_id"), U(2, "audio_track_count"),
       <<1, "video_codec", VideoCodecs>>, <<1, "audio_codec", AudioCodecs>>,
       U(2, "fec_data_shards"), U(2, "fec_parity_shards"), U(4, "frame_rate"),
       U(4, "sample_rate") >>

DecodeSessionInit(b) == Fields(Need(b, 20), InitLayout)

AckLayout ==
    << U(4, "acked_session_id"), U(1, "accepted"), Reserved(1), Reserved(2),
       U(8, "server_timestamp") >>

DecodeSessionAck(b) == Fields(Need(b, 16), AckLayout)

DmxLayout ==
    << U(2, "universe"), U(1, "net"), U(1, "subnet"), U(1, "dmx_sequence"),
       Reserved(1), U(2, "channel_count"), U(8, "pts") >>

DecodeDmx(b) ==
    LET h == Fields(Need(b, 16), DmxLayout)
    IN  IF h.status # "ok" THEN h
        ELSE Data(h, IF h.got.channel_count < 512 THEN h.got.channel_count ELSE 512)

BodyLayout ==
    << U(4, "id"), U(12, "position"), U(16, "rotation"), U(4, "mean_error"),
       U(2, "tracking_valid") >>

MarkerLayout ==
    << U(4, "id"), U(12, "position"), U(4, "size"), U(2, "params"), U(4, "residual") >>

SkeletonLayout == << U(4, "id"), U(4, "bone_count") >>

DecodeSkeleton(b) ==
    LET h == Fields(Need(b, 8), SkeletonLayout)
    IN  IF h.status # "ok" THEN h
        ELSE Records([Need(h, 38 * h.got.bone_count) EXCEPT !.got = [id |-> @.id]],
                     "bones", h.got.bone_count, BodyLayout)

NextSkeleton(b) ==
    IF b.status = "ok" THEN Added(b, "skeletons", DecodeSkeleton(Fresh(b))) ELSE b

Skeletons(b, n) ==
    LET all[i \in 0..n] ==
            IF i = 0 THEN Empty(b, "skeletons") ELSE NextSkeleton(all[i - 1])
    IN  IF b.status # "ok" THEN b ELSE all[n]

MocapLayout ==
    << U(8, "pts"), U(4, "frame_number"), U(4, "timecode"),
       U(4, "timecode_subframe"), U(8, "mocap_timestamp"),
       U(2, "rigid_body_count"), U(2, "skeleton_count"),
       U(2, "labeled_marker_count"), U(2, "params") >>

DecodeMocap(b) ==
    LET h == Fields(Need(b, 36), MocapLayout)
        n == h.got
        bodies == Records(Need(h, 38 * n.rigid_body_count), "rigid_bodies",
                          n.rigid_body_count, BodyLayout)
        skeletons == Skeletons(bodies, n.skeleton_count)
    IN  IF h.status # "ok" THEN h
        ELSE Records(Need(skeletons, 26 * n.labeled_marker_count), "labeled_markers",
                     n.labeled_marker_count, MarkerLayout)

DecodePayload(h) ==
    LET t == h.got.packet_type
    IN  CASE t = 1 -> DecodeVideo(h)       [] t = 2 -> DecodeAudio(h)
          [] t = 3 -> DecodeSync(h)        [] t = 4 -> DecodeFecRepair(h)
          [] t = 5 -> DecodeSessionInit(h) [] t = 6 -> DecodeSessionAck(h)
          [] t = 7 -> h                    [] t = 8 -> DecodeDmx(h)
          [] t = 9 -> DecodeMocap(h)

Decode(cells, bytes) ==
    LET h == DecodeHeader(Buffer(cells, bytes))
        b == IF h.status = "ok" THEN DecodePayload(h) ELSE h
    IN  [status |-> b.status, got |-> b.got]

-----------------------------------------------------------------------------
Decoded == result.status # "none"

CodecInit ==
    /\ packet \in Packets
    /\ wire = Encode(packet)
    /\ end = Size(wire)
    /\ fault = "none"
    /\ result = Undecoded

\* The packet was lost, and FEC gives it back as a shard: the encoder had
\* filled the shards of the group up to the longest one with zeros.
Recover ==
    /\ fault = "none" /\ ~Decoded
    /\ end + Padding <= MaxPacketSize
    /\ fault' = "recovered"
    /\ wire' = Append(wire, <<Padding, 0>>)
    /\ end' = end + Padding
    /\ UNCHANGED <<packet, result>>

\* A peer of another version of the protocol, or no USSP peer at all.
Foreign ==
    /\ fault = "none" /\ ~Decoded
    /\ fault' = "foreign"
    /\ \E odd \in {<<1, "HTTP">>, <<2, 2>>, <<3, 10>>} :
           wire' = [wire EXCEPT ![odd[1]][2] = odd[2]]
    /\ UNCHANGED <<packet, end, result>>

\* A datagram that ends early, as in test_buffer_too_small_header.
Short ==
    /\ fault = "none" /\ ~Decoded
    /\ fault' = "short"
    /\ end' \in 0..(end - 1)
    /\ UNCHANGED <<packet, wire, result>>

\* recv_from leaves what does not fit the buffer out; then Packet::decode.
\* A recovered shard is decoded from memory.
Arrive ==
    /\ ~Decoded
    /\ end' = IF end < MaxPacketSize THEN end ELSE MaxPacketSize
    /\ result' = Decode(wire, end')
    /\ UNCHANGED <<packet, wire, fault>>

CodecNext == Recover \/ Foreign \/ Short \/ Arrive

CodecSpec == CodecInit /\ [][CodecNext]_codecVars

-----------------------------------------------------------------------------
(* Properties                                                              *)

CodecTypeOK ==
    /\ packet \in Packets /\ fault \in Faults /\ end \in Nat
    /\ result.status \in {"none", "ok", "too_small", "refused", "straddles", "panic"}

\* What was decoded is what was sent, field by field.
Same(p, got) == \A f \in DOMAIN p : f \in DOMAIN got /\ got[f] = p[f]

\* A packet that fits the receive buffer is decoded as it was sent, also when
\* it comes out of a FEC shard with zeros behind it.
ArrivesAsSent ==
    (Decoded /\ fault \in {"none", "recovered"} /\ Size(Encode(packet)) <= MaxPacketSize)
        => (result.status = "ok" /\ Same(packet, result.got))

\* The header check of audio passes 24 to 27 bytes and then reads 28.
AudioHeaderCut == packet.packet_type = 2 /\ end - 24 \in 24..27

\* Whatever arrives - cut off at the receive buffer, ended early, of another
\* version - decode never makes a different packet of it, and answers with an
\* error instead of reading past the end; short audio headers excepted.
NeverMistaken ==
    /\ result.status = "ok" => fault # "foreign" /\ Same(packet, result.got)
    /\ result.status # "straddles"
    /\ result.status = "panic" => AudioHeaderCut

\* transport/mod.rs, MAX_PACKET_SIZE: "Maximum packet size including headers."
\* What senders put into one packet is not cut off by receivers.
WhatIsSentArrives ==
    (Decoded /\ fault = "none") => result.status = "ok"
=============================================================================
