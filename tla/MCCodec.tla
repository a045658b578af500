------------------------------ MODULE MCCodec ------------------------------
(* Packets for TLC: one or more of each kind programs send, with different *)
(* values in fields of the same width, at the sizes where lengths matter.  *)
EXTENDS Codec

Header(type) ==
    [packet_type |-> type, flags |-> Flags.FEC_PROTECTED, session_id |-> 101,
     sequence |-> 102, timestamp |-> 103]

Video(bytes) == Header(1) @@
    [frame_id |-> 1, fragment_index |-> 2, total_fragments |-> 3, codec |-> 5,
     is_key_frame |-> 1, pts |-> 5, dts |-> 4, data_len |-> bytes, data |-> 77]

Audio(bytes) == Header(2) @@
    [track_id |-> 1, sample_rate |-> 48000, channels |-> 2, bits_per_sample |-> 16,
     codec |-> 0, pts |-> 5, sample_count |-> 960, data_len |-> bytes, data |-> 77]

SyncPoint(tracks) == Header(3) @@
    [reference_timestamp |-> 1, video_pts |-> 2,
     audio_tracks |-> [i \in 1..tracks |->
                          [track_id |-> i, pts |-> 10 + i, offset_us |-> -i]]]

Repair(bytes) == Header(4) @@
    [group_id |-> 1, index |-> 11, total_shards |-> 13, data_shards |-> 10,
     data_len |-> bytes, data |-> 77]

SessionInit == Header(5) @@
    [init_session_id |-> 7, audio_track_count |-> 2, video_codec |-> 1,
     audio_codec |-> 2, fec_data_shards |-> 10, fec_parity_shards |-> 3,
     frame_rate |-> 3000, sample_rate |-> 48000]

SessionAck == Header(6) @@
    [acked_session_id |-> 7, accepted |-> 1, server_timestamp |-> 9]

Heartbeat == Header(7)

Dmx(channels) == Header(8) @@
    [universe |-> 291, net |-> 1, subnet |-> 2, dmx_sequence |-> 3,
     channel_count |-> channels, pts |-> 4, data |-> 77]

Body(i) == [id |-> i, position |-> 1, rotation |-> 2, mean_error |-> 3,
            tracking_valid |-> 1]

Mocap(bodies, skeletons, markers) == Header(9) @@
    [pts |-> 1, frame_number |-> 2, timecode |-> 3, timecode_subframe |-> 4,
     mocap_timestamp |-> 5, params |-> 6,
     rigid_bodies |-> [i \in 1..bodies |-> Body(i)],
     skeletons |-> [i \in 1..skeletons |->
                       [id |-> i, bones |-> [j \in 1..i |-> Body(j)]]],
     labeled_markers |-> [i \in 1..markers |->
                             [id |-> i, position |-> 1, size |-> 2, params |-> 3,
                              residual |-> 4]]]

\* Audio(3840) is 20 ms of 16-bit stereo PCM, which the studio sends;
\* Mocap(10, 5, 50) is over the receive buffer, as the frame of mocap.rs,
\* test_large_mocap_frame, is.
Samples ==
    {Video(100), Video(1336), Audio(0), Audio(80), Audio(3840), SyncPoint(0),
     SyncPoint(2), Repair(1408), SessionInit, SessionAck, Heartbeat, Dmx(1),
     Dmx(512), Mocap(0, 0, 0), Mocap(2, 2, 2), Mocap(10, 5, 50)}
=============================================================================
