# Universal Sync Stream: TLA+ models, checks and proofs

Universal Sync Stream (USSP) is a UDP protocol for video, audio, DMX and motion
capture with one clock, forward error correction (FEC) and an SFU (selective
forwarding unit) that relays one sender's stream to a room of receivers. This
directory models the parts of its Rust code that keep state, run concurrently or
agree on a format, model-checks them with TLC on small instances and proves
theorems about every one of them with TLAPS. `PROJECT.json` maps every
definition to the source lines it stands for, and lists runs, mutants, hazards,
findings and theorems.

To check: `tlc -config <run>.cfg <module>` for each run of section 3, and
`tlapm <module>.tla` for each module of section 4.

## 1. The system

| Part | State it keeps | Operations | Touches |
|---|---|---|---|
| **Room** (`ussp-sfu/src/room.rs`) | participants map; primary and backup sender registers; room state Paused / Active / Failover / Closed | add, remove, promote backup, close, health check | participants; called by the SFU server and by the HTTP API |
| **SFU server** (`server.rs`) | rooms table, address-to-room table, counters | create, get-or-create and close rooms, add and remove participants, failover, media loop, health loop | Room, forwarder |
| **Control plane** (`ussp-control/src/api.rs`, `state.rs`, `auth.rs`) | servers, room-to-server table | HTTP handlers, tokens and permissions | SFU server; removes participants from the Room directly |
| **Participant, forwarder** (`participant.rs`, `forwarder.rs`) | role, state, activity time, counters | touch, health check, fan-out | Room, sockets |
| **Sender** (`ussp/src/transport/sender.rs`, `fec/encoder.rs`) | session and its sequence numbers, packets waiting for a FEC group, group counter | send video (fragmented), audio, DMX, mocap, sync, heartbeat; flush; close | UDP |
| **Receiver** (`transport/receiver.rs`, `fec/decoder.rs`) | running flag, session, fragments of unfinished frames, FEC groups, bounded event queue | run loop, packet handlers, recv, stop | UDP; the application that reads events |
| **Jitter buffer** (`sync/buffer.rs`) | frames by timestamp, Filling / Ready / Empty, last output timestamp, statistics | insert, get_next, clear | player |
| **Clock** (`sync/clock.rs`) | pending request, offset samples, median | request, response, convert | Sender and Receiver |
| **Codecs** (`protocol/*.rs`, `transport/mod.rs`) | none | encode, decode, the receive buffer | all of the transport |
| **Studio** (`apps/ussp-studio`) | is_running, stop channel, receiver handle; camera and microphone threads, tickers and time stamps of a sending task | start and stop a sender or a receiver; their tasks | Sender, Receiver, ffmpeg |
| **Admin** (`apps/ussp-admin`) | child process handle, running flag, configuration; server address and token | start, stop, restart, configure a server, its log reader; connect and send requests | the server process, the control plane |

How they interact: an application starts a Sender, whose packets reach a
Receiver directly or through the SFU. The SFU's media loop handles one UDP
packet at a time: from a known address it asks the room's participant for its
role and forwards a primary's packets to the others; a `SessionInit` from a
stranger makes a room and a participant. HTTP handlers run concurrently with the
media loop on the same tables, without any lock that spans two of them.

What is hard about it, and what makes each part correct:

- **Room.** Every operation is a sequence of short lock-protected accesses with
  awaits in between, so calls interleave inside. Correct: one sender is
  forwarded at a time and it is the registered one; the state shown to clients
  agrees with the registers; the primary's departure ends in a promoted backup
  or in Paused; the capacity is respected.
- **Participants, forwarding.** Two loops walk the participant map with guards
  they keep across awaits, on other threads than the calls that block on them.
  Correct: a receiver that is heard of is sent the stream, a walk ends.
- **Server and control plane.** Four tables are updated one after the other.
  Correct: the API reaches exactly the rooms it created and that still exist, no
  address leads into a closed room, what a client is listed it can fetch.
- **Sender.** Three mutexes (session, pending packets, encoder), taken in nested
  and in separate scopes. Correct: calls return, a protected packet is in
  exactly one group, closing flushes.
- **Receiver.** Loss, duplication, reordering, a restarted sender, a bounded
  queue and a stop at any time. Correct: frames are whole, nothing received is
  lost, enough parity recovers a group, a stop ends the loop and the reader.
- **Jitter buffer.** Sequential, but with a long memory: late frames, evictions,
  underruns. Correct: no late frame is taken in, the state fits the contents, the
  statistics add up.
- **Clock.** Answers are late, lost, or taken for the answer of another request.
  Correct: converted times are off by no more than half a round trip.
- **Codecs.** Two sides that must agree on every width and order, on data of any
  length. Correct: what arrives is what was sent, or an error.
- **Studio.** Commands come at any time and the tasks they leave outlive them;
  threads wait for a camera. Correct: what is shown is true, what cannot be
  stopped any more ends by itself, a stop returns and frees what it stopped, video
  and audio stay in step.
- **Admin.** Two locks, a reader per process that learns late of its end, a
  token and an address that are written at different times. Correct: a server that
  lives is shown and can be stopped, a token goes to the server it is of.

## 2. Modules

| Module | Models |
|---|---|
| `Room` | one room: its registers, its participants, the calls in flight on it, with the server's failover |
| `Stage` | the abstract specification of a room's stream: one holder, one speaker, handed over only when empty |
| `Forwarding` | the media loop's walk over the receivers, the health check and the calls that wait for their guards |
| `Registry` | the SFU's room and address tables and the control plane's assignment table, with the calls on them |
| `Api` | the control plane as clients see it: tokens, permissions, the requests that change something, what is listed and fetched, several servers |
| `Sender` | the calls of one Sender and its FEC encoder |
| `Receiver`, `Streams` | the run loop, the handlers, the decoder, the event queue and its reader, behind a network; the streams it is given |
| `JitterBuffer` | the playback buffer of one track |
| `Clock` | clock synchronisation with a peer over a network |
| `Codec` | every packet format, the receive buffer, the padding of FEC shards |
| `Studio` | the commands that start and stop a sender or a receiver, and their tasks |
| `Streaming` | one sending task: camera and microphone threads, tickers, time stamps, release of the devices |
| `Sidecar` | the admin application's server process, its configuration and its log readers |
| `Console` | the admin application's connection to a control plane |
| `MCServer`, `MCFailover`, `MCLibrary`, `MCDesktop` | compositions of the parts of a program or a library, for TLC |
| `MCRoom`, `MCReceiver`, `MCCodec` | constants for TLC |
| `RoomProofs` | proofs about `Room` |
| `TransportProofs` | proofs about `Sender` and `Receiver` |
| `CodecProofs` | proofs about `Codec` |
| `ServerProofs` | proofs about `Registry` and `Api`, and of their composition with `Room` |
| `ForwardingProofs` | proofs about `Forwarding`, and of its composition with `Room` |
| `SyncProofs` | proofs about `JitterBuffer` and `Clock`, and of the library's composition |
| `StudioProofs`, `AdminProofs` | proofs about `Studio` and `Streaming`, and of the desktop applications' composition; about `Sidecar` and `Console` |

A **call in flight** is a record that says at which point (`at`) it waits and what
it carries; each action is what the code does between two awaits, or between
releasing one lock and taking the next. A guard that tests a table and a write
that happens after an await are two actions, and anything may come between them.
**History variables** (`serial`, `clash`, `torn`, `takingTurns`, `own`, `clean`, ...)
record facts about the past that properties refer to; no guard reads them.
Definitions whose comment begins with *Mutant* are not part of any specification:
each is a plausible slip in the definition next to it, kept to show that a property
would notice it.

**Compositions.** The parts of one program are put side by side by `INSTANCE` or
`EXTENDS` in an `MC` module. Where the code gives two parts no common state
(a jitter buffer and a sender), or where two modules look at the same state at
different grains (a room's calls; the tables rooms are listed in), a behaviour is
about one part: a variable (`part`, `view`) chooses it at the start, the other parts
stand at one initial state, and fairness is stated per part: in the specification
under that choice, or as the premise of the liveness properties of that part.
Their state spaces add up instead of multiplying, and no action of one part
touches a variable of another.

**Room.** `open` is the room's presence in the server's table, `primary` and
`backup` the two `RwLock<Option<ParticipantId>>`, `members` the DashMap, as the set
of `Participant` objects (two objects may have the same id, so that a replaced
participant is distinguishable), `role` the participants' roles. `add_participant`
is CheckCapacity, CheckDuplicate, Claim, Insert; a removal is Cut (the map), Release
(the registers and the state); through the server it goes on with Inspect, Trigger,
Take, Crown, Install, Activate (or Pause, when there was no backup to take), through
the API it ends. `Close` removes the room from the table and marks it Closed.
`HandsOver` maps it to `Stage`: `holder` is the primary register, `speakers` the
members whose role makes the media loop forward them.

**Forwarding.** `present` is the room's map, `clientRole` and `condition` what its
participants are. `media` and `health` are the two walks: the media loop's goes over
the receivers to send, and once more to count them, awaiting every role, with the
participant each holds a guard at; `call` the API calls, each of which keeps a
worker thread while it waits for a guard (`Guarded`: the map's shards under guard).
`idle` counts the heartbeat timeouts that passed. A full socket makes the walk wait,
until a worker that is free polls the driver. Time is the action `Age`.

**Registry.** `rooms` maps an id to the object it names (a counter, so that a
replacement is visible), `roomMembers` the participants of an object by id and
address, `mapping` is `participant_rooms`, from an address to a room and an id,
`assigned` the keys of `room_servers`. A creation is CreateRoom, InsertRoom, Tally,
Assign, a closing RemoveRoom, CountClosed (behind the await of the room's state),
Unmap, Unassign: between any two of them other calls run. The media loop is one
caller (`Media`), HTTP calls are `Handlers`. The duplicate check and the room count
of `create_room` are two reads without an await between them and are taken as one.
Two ids may come with one address, and one id with two; `entered` remembers where,
and as whom, an address was let in. A join is refused for an id in the room already,
and otherwise at choice (`Find`, `Enter`): `Room` says when.

**Api.** `serverRooms` is every server's table of rooms. A creation and a closing
change that table first and `home` after an await (`request`: CreateRoomAs,
AssignRoom; CloseRoomAs, CloseOnServer, UnassignRoom), with any request in between;
an addition or a removal of a participant is one step with its checks in the
handler's order. Of the handlers that read, `list_rooms` and `get_room` are modelled
(`ListedRooms`, `GetRoom`). `tokens` holds the claims handed out, `home` is
`room_servers`. The load by which a server is chosen is never updated in the code,
so any registered one may be chosen.

**Sender.** A packet is its sequence number. `holder` is set only where the code
keeps the session mutex across an await, which is in `send_video_packet` with
FEC. `Push`, `EncodeGroup` and `SendRepair` are the three separately locked stages of
`add_to_fec_group`, `Flush` those of `flush_fec` and of `close`. Any send may fail
and end its call, with what it had already changed.

**Receiver.** The network is the set `Datagrams`: any of them may arrive in any
order, again, or never. `partial` (`pending_frames`) has an entry per frame id with
a `stale` mark that time may set (`Expire`), and an insertion drops the entries that
are marked, as the code's `retain` does. The decoder keeps the repair packets it was
given; media packets never reach it, because `add_to_fec_decoder` is empty. What it
restores is sent on at once (`Restored`), a track frame as such and a video fragment
as a video frame by itself, past the reassembly. An event is its kind in the queue;
`emitted` remembers what it was made of and whether it was recovered.

**JitterBuffer.** A frame is its timestamp. `StateAfter` is `update_state`. Any
depths are allowed, 0 too.

**Clock.** Requests and answers are on their way until they are taken or lost; an
answer carries no request's number; `own` remembers whether a sample is of the
request it was taken for, and made since the local clock was last set (`SetClock`:
the code reads `SystemTime`, which may step back or forth; `era` counts). `Offset`
is the median, declared by what the middle of the sorted offsets is: the least that
more than half of them do not exceed.

**Codec.** A datagram is a sequence of cells, one per `put_*` call, each a width
and a value; `Decode` reads fields of its own widths in the code's order, with the
code's length checks. A field that does not fall on a cell shows that the sides
disagree. What a decoder reads is a *layout*, the fields of a fixed part with the
values it accepts; `Fields` reads one, `Data` the bytes behind it, `Records` a list of
records. `Size` counts the bytes of the cells. `end` is how many bytes there are to
read. `WellFormed` says what a program can put into a packet: the fields of its kind,
known codecs and flags, and lists and data no longer than the 16- and 32-bit
lengths that are written for them (`encode` would cut a longer length with `as u16`
or `as u32`; a list of 65536 tracks or markers is far beyond any datagram).

**Studio.** `stopTx` is the start whose channel the shared state holds; a channel
is closed once no call and no state holds a sender of it (`Held`); a socket is
released once nothing owns its `Receiver` (`Bound`). **Streaming.** `camera` is
where the camera thread is, `ffmpeg` its child, `due` the tickers, `Pass` the time,
which may go past a tick while the loop sends.

**Sidecar.** `child` and `running` are the two locks, `proc` the processes,
`reader` their log readers, `launched` the configuration each was spawned with.
**Console.** `waiting` is the queue of the fair read-write lock, `reading` who
keeps it for reading across a request; `token` is the server that made it.
The page asks for the configuration when it is loaded, at first and again (the
command `mount`), and what a command found out is shown in a step of its own (`Show`).

## 3. Runs

| Run | Module | Instance | What it shows |
|---|---|---|---|
| `Server` | `MCServer` | a room: 4 objects (2 share an id), 2 overlapping calls, capacity 1, removals through the API; tables: 2 room ids, 2 rooms made, limit 1, 1 address, 2 participant ids, 2 API calls and the media loop; control plane: 2 servers, 2 room ids, 2 overlapping creations and closings, all roles, one token alive, expiry | as deployed (HTTP only), no interleaving mixes two senders and the room implements its `Stage`; state follows the register; capacity is exceeded by at most the other calls in flight; tables agree, no dead ends, members are heard unless conflicting calls overlapped; counters count in every state; what is listed can be fetched once it is assigned |
| `Failover` | `MCFailover` | a room: 3 objects, 2 ids, 2 calls, removals through the server; a media loop with 2 clients in one shard, 1 call, 1 worker | calls one at a time keep the room coherent across failovers and promote only backups; Failover is always left, undisturbed by promotion; a forwarded packet reaches every talkative receiver; the walks end unless all workers wait for their guard |
| `Library` | `MCLibrary` | buffer of 3 frames and 6 arrivals; 2 overlapping sender calls, 5 in all, groups of 2+1, frames of up to 2 fragments; 6 packets of two sessions, queue of one; clocks 2 ticks long with 3 samples, a peer 3 ticks behind, set back by 2 once; 16 packets of all 9 kinds at the lengths that matter | late frames stay out, playback resumes at the target; packets protected once, repairs after data, close flushes, calls return but for the self-lock; reassembled frames whole, fragments once, parity recovers, stop ends the loop; offsets true to half a round trip while most samples are of their own requests; packets arrive as sent or are refused |
| `Desktop` | `MCDesktop` | studio: 2 starts and 2 stops of a sender or a receiver, and a sending task of 20 ms at 60 fps with 2 tracks; admin: 2 calls on up to 2 server processes, 2 configurations, and 3 commands on 2 control planes | what is shown is true, orphaned tasks end, stops return and free ports and devices, stamps follow the time, ffmpeg is gone when the task is; the server is managed while calls take turns, dead servers are noticed, tokens fit, commands return unless a server does not answer |

Eight runs end in a violation. Each checks one statement of the repository that
the code does not keep:

| Run | The statement | What happens |
|---|---|---|
| `RoomApiFailover` (`MCRoom`) | README, failover: the backup is promoted and the room is Active again | the HTTP removal goes to the room directly; nothing continues the failover and the room stays in Failover |
| `RoomBackupForgotten` (`MCRoom`) | `room.rs:146` "Trigger failover if backup exists" | removing any backup empties the register; the primary's departure then pauses a room with a backup in it |
| `SenderVideo` (`Sender`) | `sender.rs:136` "Send a video frame, fragmenting if necessary" | the video packet that fills a FEC group waits for the session mutex its own call holds |
| `JitterPlayback` (`JitterBuffer`) | `buffer.rs:74` "Last output PTS", `buffer.rs:130` "Drop if too old" | the register gets the earliest timestamp that was due although the latest is returned: older frames are taken in and played after it |
| `ReceiverLoss` (`MCReceiver`) | README, FEC: up to three lost packets of a group are recovered | media packets never reach the decoder, only repairs do: with 10+3 shards no group is ever decoded |
| `WireLimit` (`MCCodec`) | `transport/mod.rs:14` "Maximum packet size including headers." | 20 ms of stereo PCM, which the studio sends on every tick, are one packet longer than the receive buffer: cut and refused |
| `ReceiverFragment` (`MCReceiver`) | `receiver.rs`, the event `VideoFrame`: "A complete video frame was received." | a fragment that FEC restores is sent on as a video frame of its own, past the reassembly |
| `StreamDrift` (`Streaming`) | README: the synchronisation of video and audio by time stamps is precise | the video ticker's period is a whole number of milliseconds and its stamp's is not: at 30 fps each frame is stamped a third of a millisecond more than its ticker waits, and after 100 ms video is a millisecond ahead of audio, 10 ms more with every second |

**Bounds.** `MaxCalls`, `MaxReceived`, `MaxPts`, `MaxFragments`, `MaxObjects`,
`MaxStarts`, `MaxStops`, `MaxProcs`, `MaxTime`, `MaxSets`, `MaxNow`, `MaxInFlight`,
`MaxTokens`, `Skews`, `Steps` and, for `Forwarding`, `Asks` bound otherwise
unbounded histories or choices; they are in the guards and named in the modules. Two
calls in flight are enough for every check-then-act race here: no operation needs
two others at different points to go wrong, and the proofs remove the bound where it
matters most. `Console` has three commands, because a queue behind a writer needs a
reader, a writer and one behind it. Groups of 2+1 shards, queues and channels of one
place and buffers of three frames put every limit within a few steps, and leave room
for one group after another. One worker thread and one call are the smallest case of
"every worker waits"; one shard makes every participant wait for every other. 20 ms
at 60 fps are two video ticks (at 0 and 16 ms) and two audio ticks (at 0 and 20),
missed or on time, and stamps that go beyond their tickers; `StreamDrift` needs 100
ms for the rounding of four frames to show. A peer that is 3 ticks behind is within
the drift until a late answer adds to it, and a clock set back by 2 once makes old
samples and answers wrong. In `Codec` lengths are real: one packet of each kind
below, at and above the limits its checks name. `SYMMETRY` is used where a run has
only safety properties: calls, and the two objects of one id, are interchangeable.
`CHECK_DEADLOCK FALSE` is set where a model may come to rest: no call left within
the bound, a stopped receiver, a sender that waits for itself, a packet that was
decoded, the end of the time.

**Fairness.** In `Failover` and `Desktop`, whose parts share no step, each liveness
property has the fairness of its own part as its premise (`FailoversComplete`,
`WalksEnd`; `NoOrphanStays`, `StopsComplete`, `DeathsAreNoticed`, `ClicksReturn`)
and the specification has none; in `Library` it is in the specification.
`WF(Progress(t))` of a call in flight: tokio keeps polling a future that can run,
and its mutexes are granted in order. The receive loop wakes up at least every 100
ms by its own timeout. `SF(SayGoodbye)`: the channel grants its places in the order
they were asked for, so a stop's message is not overtaken for ever by the loop's
events. `select!` polls its branches in random order, hence `WF(TaskStep)` in
`Studio` and `WF(TaskGoesOn)` in `Streaming`, where the stop stays ready. `SF` in
`Sidecar`: tokio's RwLock is fair, so a step that waits for `child` gets it although
others keep taking it; in `Console` the queue itself is modelled and weak fairness
is enough. In `Forwarding`, `main.rs` polls the media loop on the main thread
(`WF(Walk)`), while the health task and the handlers share the workers: `SF(Resume)`
and `SF(CheckGoesOn)` because a worker that becomes free takes what is ready in turn
and looks at the socket in between; a blocked map write wakes up when its shard is
free. The health check can stop at any await with its guard held, since tokio's
budget makes any await yield. Nothing is assumed of the network, of users, of a
camera, of a server that was sent a request, or of a process that has not been
killed.

## 4. Proofs

**`RoomProofs`**, for every set of participants, ids and concurrent calls and
every configuration that `RoomAssumption` allows:

- `TypeCorrect`: `Spec => []TypeOK`.
- `Inductive`: `Spec => []IInv`, `IInv == TypeOK /\ OneOwner /\ Routes /\ SoleClaim`.
- `SoleSenderHolds`: without promotions whoever is forwarded as primary is the
  registered one, alone.
- `HandsOverHolds`: without promotions the room implements `Stage`: every step is
  a grant, an entry, a departure or a release of the abstract stage, or
  changes nothing of it.
- `StateFollowsRegisterHolds`: while removals come through the API, Active is
  shown exactly when the register is taken.
- `BoundedOvershootHolds`: a room is overfilled by less than the number of calls.
- `SerialCoherentHolds`: while calls take turns and removals come through the
  server, a room at rest tells one story across any number of failovers.
- `PromotesOnlyBackupsHolds`: while calls take turns, a member whose role changes
  was a backup and becomes the primary.

`SoleSender` is not inductive: it speaks of the map, while a call claims the
register before its object is in the map and clears it after its object has left.
`SoleClaim` therefore speaks of *holding*: an object holds the primary claim from
the claim to the release, in the map or carried by a call. For that to be
preserved, an object in transit must belong to one call and not be in the map
(`OneOwner`), and no call may be at a promotion step (`Routes`). With these the
claim is granted only on an empty register, and emptied only by the holder's own
removal. The refinement uses the same invariant on both sides of a step: whoever
speaks holds the register, so the register cannot change while someone speaks.
`BoundedOvershoot` counts, besides the members, the calls that have
passed the capacity check and not inserted yet (`Admissions`): the check
admits one more only below capacity, and an insertion moves one unit from one
count to the other. Its cardinality steps rest on the finiteness of the sets of
objects and of calls, which the assumption states. The last two theorems speak of
rest, and rest is left and reached over many steps; `SerialInv` says what the one
call in flight has done of its work at each of its points. `Alone`: there is at
most one, and `serial` is lost the moment a second begins. `BackupFollows`: ids are
unique, the backup register names a backup in the map, except between the two
halves of a backup's own join or removal. `LeadFollows`: the room's state, the
primary register and the roles agree (`Led`), or the call is inside a failover, at
a point whose half-done work `LedAt` describes (`Abandoned`, `Vacant`).

**`ServerProofs`**, about `Registry`, for any number of rooms, addresses, HTTP calls
and room objects: `RegistryTypeCorrect`, `TablesAgreeHolds`, `NoDeadEndsHolds`,
`MembersAreHeardHolds` and `RoomsCountedHolds`, from one inductive invariant,
`RegistryInv`. The first three properties speak of rooms no call is working on, the
fourth of every state; the invariant says what rooms are while a call is at work.
`OnRoute` lists the points of each kind of call, `Apart` that calls under way on a
room without a `clash` do not conflict, so that of the calls that make or end it
there is at most one. `Staged` says what that one has left undone: between `insert`
and `assign` the room is live and unassigned, between `remove` and `unassign` gone
and still assigned, at any other point the two tables agree. `Mapped` allows an
address in a closed room only while its `unmap` is to come, `Heard` a member that
its address does not lead to only between `enter` and `map` of its own join or
before the `leave` that takes it out (`Pending`), unless the address was let in
elsewhere or as somebody else; for that a call must still hold the object the table
names (`Current`), objects must not be shared between rooms (`ObjectsApart`), and
members must have been let in (`Admitted`). `Counted` compares the objects made with
either counter, with the calls that are about to count (`CallsAt`) and with the
rooms that another was put over (`lost`): two equations, in every state and whatever
overlaps.

About `Api`, for any number of servers, rooms, participants, tokens and overlapping
requests, with and without authentication: `ApiInductive` (the invariant `ApiInv`) and
`ListedIsReachableHolds`. The property compares two lookups, one through every server's
table and one through the assignments; `Assigned` says of each room in a table where
its assignment leads, or that its assignment is to come (`Pends`); `Orderly` says what
room and server a creation or a closing is about as long as no other of the same room
overlapped it. A room created twice moves its assignment to the second server and
leaves the first room behind: `moved` records it; a creation that overlaps a closing of
its room may find its new assignment taken away: `torn` records that. The property
excepts both. `Housed`: participants are in rooms that exist.

**`ForwardingProofs`**, for any number of participants, shards, calls and workers:
`ForwardingInductive` (the invariant `ForwardingInv`) and `ReceiversHearHolds`. The
participant a walk stands at is always in the map, although any call may want to
take it out: `Guarding` ties the guards to the places where the walks stop, the walk
that counts the receivers and awaits their roles included, and a write needs the
shard of its participant free (`WriteSpares`). `Owing` says what `ReceiversHear`
needs in the middle of a walk: who is still owed the packet is still to be come to,
has been in the room all along, and is neither sender nor silent. A receiver that is
skipped must therefore have been silent, and that it was is `Silence`: a participant
leaves Active only after the health check saw it idle, with an activity time it read
before the judgement and that may be stale by then.

**`TransportProofs`**, about `Sender`, for any number of overlapping calls,
fragments, data and parity shards, with and without FEC: `SenderTypeCorrect`,
`ProtectedOnceHolds`, `RepairFollowsDataHolds` and `ClosedIsFlushedHolds`, from the
inductive `SenderInv`. A packet is in one of four places: waiting in `pending`,
pushed by a call, carried by a call that drained the group, or in a numbered group.
`Placed` says it is in some place and `OnePlace` that the places are disjoint, also
among each other and inside `pending`; a packet that is launched takes a fresh
number, and no place holds one that was not given out yet (`Numbered`); a drain, a
join and an encoding then move sets of packets without mixing them (`DrainKeeps`,
`JoinKeeps`, `EncodeGroupKeeps`). `ProtectedOnce`, which counts, follows from the
two by the cardinality of singletons (`OneCopy`). `Sized` bounds the waiting packets
strictly below the group size, which is what keeps a drained group within it, and
ties every repair to a group whose packets all have smaller numbers. `Flushed`
follows a close past its flush: while calls take turns nobody can push behind it.

About `Receiver`, for any set of packets, finite or not, in any order, each any
number of times or never, any number of data and parity shards and any length of
the event queue: `ReceiverInductive` (the invariant `ReceiverInv`), `FramesAreWholeHolds`,
`EachFragmentOnceHolds` and `ParityRecoversHolds`. The two in the middle speak of the
frames the receiver puts together; a fragment that FEC restored is no such frame, it
is emitted by itself, which `ReceiverFragment` shows and `EachFragmentOnce` allows for.
`Awaited` says what an entry of `partial` is: the only one of its frame id, with
fragments that were received, one for each place. The code counts them and
compares the count with the total; that the frame is then whole is a pigeonhole
argument, `EveryPlace`: as many fragments as there are places, in different places
below the total, fill every place. `Apart` keeps awaited fragments apart from played
ones, without which `PlayedOnce` is not inductive. `Gathered` bounds every group the
decoder holds strictly below the data shards, because `TryDecode` removes it at
once, and `Decoded` says that a shard received is held or its group was decoded;
`ParityRecovers` follows, for a group with shards enough cannot be held
(`ParityDecodes`). `ReceiverAssumption` says of the packets what senders do: a sender
gives a frame or a group one id, one total and each of its parts one place (both
ids are 32 bits wide and wrap after years of streaming, which the assumption leaves
out). Nothing is assumed across senders: the ids of a restarted one may meet those
of the old.

**`SyncProofs`**, about `JitterBuffer`, for any capacity, depths and timestamps that
`JitterBufferAssumption` allows: `TypeCorrect`, `NothingBufferedIsLateHolds`,
`StateFitsFramesHolds`, `StatsAccountHolds`, and the action properties
`ResumesAtTargetHolds` and `RegisterAdvancesHolds`. The four invariants together
are inductive. The argument needs the least and the greatest member of a finite
set of timestamps (`EarliestFrame`, `LatestFrame`, from the well-foundedness of the
naturals) and counting: an insertion adds one to what is buffered or counted, an
eviction moves one from the buffer to the counters, `get_next` moves all that is
due (`InsertCounts`, `GetNextCounts`). `ResumesAtTarget` rests on an Empty buffer
having at most the one frame just inserted, hence depth zero, below any minimum but
0 (`StateAfterFits`); with a `min_depth_us` of 0 playback resumes with that frame, and
the property says so. `MaxReceived` and `MaxPts` bound the model but are arbitrary.

About `Clock`, for any number of samples, any skew and drift, any setting of the
local clock and whatever the network does: `ClockInductive` (the invariant
`ClockInv`) and `OffsetIsTrueHolds`. `Stamped` says that an answer to a request of
this setting of the clock holds the peer's time at a moment since, `Sampled` that a
sample of its own request is within half its round trip of the truth (`Near`),
`Heeded` that no answer of a peer well within the drift is dropped, `NoneAhead` that
no request or answer is of a later setting than the present one. The samples made
before the clock was set are not own ones any more: they are outvoted or the
property is silent. What is left is the median. It is declared, as the least offset
that more than half of the samples do not exceed, and not computed; two majorities
of the samples have one in common (`MajoritiesMeet`), so it lies between two offsets
of any majority (`MedianAmong`), of the samples of their own requests too, and is as
close as the worse of the two.

**`CodecProofs`**, for packets of every kind, with any values in their fields, data and
lists of any length, any receive buffer and any padding: `CodecTypeCorrect`,
`ArrivesAsSentHolds` and `NeverMistakenHolds`. Nearly all of the work is one lemma
about the pure functions, `DecodeOutcome`: of a datagram that begins with the bytes of
a packet, `Decode` gives the packet back, field by field, if they are all there; if
not it answers too small, or panics on an audio header that ends in its last four
bytes. It is put together from one lemma for each format (`VideoDecodes`, ...,
`MocapDecodes`) and `HeaderDecodes`, and these from what all formats share:
`FieldsRead` (a layout that matches the cells is read whole, or runs out of bytes),
`DataFormat`, `RecordsRead` (a list, record after record) and `SkeletonsRead` (a list
of lists). What the provers cannot do is induction over a predicate; `Induction` is
about a *set* of numbers instead, and each induction here is the set of lengths for
which the claim holds. Sizes are sets of bytes (`Size`), so that the size of what is
written one after the other is a sum by counting (`SizeOfBoth`, `SizeOfEach`).
`HeaderRefused` and `OddIsRefused` say that a datagram of another version is refused
at the cell that differs, or is too short to tell. The invariant, `CodecInv`, then
says only what a datagram on its way is (`OnItsWay`): it begins with what was encoded,
all of it unless it was cut off, or is an odd one.

**`StudioProofs`**, about `Studio`, for any number of starts and stops:
`CommandsTypeCorrect` and `ShownIsTrueHolds`, from `StudioInv`. Calls take turns while
`orderly`, but tasks end when they like, and one that ends clears the state
whosever it is. `Shown` says what that leaves: while a start is under way nothing is
shown and all older tasks have ended; once it has published, the state shows it and
only its own task can clear it. A stop on its way may find and leave anything, a task
that ends under it included, so nothing is said of it until it returns. `Published`,
which holds without turns as well, says that before a start has published nobody
holds its channel: neither the state, nor a stop, nor a signal already sent.

About `Streaming`, for every frame rate from 1 to 1000 and any number of tracks:
`StreamingTypeCorrect`; `CameraReleasedHolds`, from `Lifecycle`, which ties the camera
thread, its child and the task's own position together; and `StampsFollowTimeHolds`, from
`Clocks`, which compares each time stamp with its ticker and each ticker with the
time. The frame period is a whole number of milliseconds for the ticker and of
microseconds for the time stamp; `Periods` shows that the second is never the
smaller, and the difference, `Rounding`, is what the video may run ahead by with
every frame. The bound grows with the frames sent: nothing is claimed of one
stream's stamps against the other's, and `StreamDrift` shows that they do not agree.

**`AdminProofs`**, about `Sidecar`, for any number of calls and processes:
`SidecarTypeCorrect` and `ServerIsManagedHolds`. The invariant `Serial` holds while
calls take turns and kills succeed: all processes but the last are dead and read to
their end (`InOrder`), and either no call is in flight and the state tells the
truth, or one is and has come to a point of which `Reached` says what it leaves so.
A start waits for all readers, so a reader that clears the state later can only be
that of the process the state is about.

About `Console`, for any number of commands and servers: `TokenFitsHolds`, from
`Held`. While all but requests take turns and no connect fails, at most one command
other than a request is under way, and the token is the server's or that one is a
connect to it (`Order`); `Shown` is what the interface shows between commands, and
what it will show when it hears of the end of the one under way.

**Compositions.** The runs check `ServerSpec`, `FailoverSpec`, `LibrarySpec` and
`DesktopSpec`, the proofs are about the specifications of the parts.
`ServerComposes`, `FailoverComposes`, `LibraryComposes` and `DesktopComposes` say
that the first imply the second: every initial state of a
composition is one of each part, and every step of it is a step of a part or leaves
the part's variables alone. With them every theorem above holds of the runs'
specifications too; `ServerTypeCorrect`, `FailoverTypeCorrect` and
`StudioTypeCorrect` draw that conclusion for the types, which each run states as one
property, `LibraryTypeCorrect` does for the library, and `LibraryKeepsPromises` for
its safety properties.

Only model-checked, because out of the prover's reach, is liveness
(`FailoversComplete`, `WalksEnd`, `CallsReturnUnlessSelfLocked`, `StopEnds`,
`NoOrphanStays`, `StopsComplete`, `DeathsAreNoticed`, `ClicksReturn`). Every other
property of the passing runs has a theorem.

`StateFitsFrames`, `StatsAccount` and `RegisterAdvances` of `JitterBuffer` and the types
of `Sidecar` are proved, and no run repeats them.

## 5. Not modelled

- **Data**: payloads, sample rates, quaternions, Art-Net conversions, pixel and
  sample conversion, the pattern and tone generators, Reed-Solomon arithmetic
  (any `data_shards` shards of a group restore it), token signatures, log lines.
  They are functions of their arguments without state, and no property depends
  on what they compute.
- **Counters** of packets and bytes, and the accessors that report them.
- **Clock values** outside `Clock` and `Streaming`: a timeout may expire at any
  moment after its start; delays are points where other calls run.
- `MultiTrackBuffer`: one `JitterBuffer` per track, read independently, used by an
  example only. `has_all_data`, `clear_old_groups`, `update_server_info`: nothing
  calls them.
- The **server's `main`** beyond which loop runs on which thread, and its
  shutdown: `stop()` is only called after the future of `run` was dropped, so
  nothing reads the flag it clears.
- **Device lists** and the operating system's camera drivers; the **React views**
  beyond the connection state they keep; the command `set_config` of the admin
  application, which no view calls.
- The **vendored camera crates** (`src/patches`): third-party code; the studio
  reaches its cameras through ffmpeg.

Remarks made while modelling, not expressed as properties:

- `min_depth_us` has no effect as a threshold of its own: a buffer leaves Empty
  at its first frame, when its depth is zero, and Filling waits for the target. Only 0
  makes a difference (`buffer.rs:257`): the first frame after an underrun is then
  enough, and playback resumes with nothing buffered behind it.
- The decoder's groups are never removed, and `max_pending_fragments` is not read.
- `CompleteFrame` includes the branch for a wrong total size; the instance's
  packets never take it.
- `close_room` marks a Room object Closed that calls in flight may still hold,
  and `set_state` does not look at what it overwrites. A join that found the room
  before the close maps its address after it (`server.rs:120`, `server.rs:154`): that
  address leads to a room that is gone, and every packet from it is dropped.
- A room opened by a stranger's `SessionInit` is unknown to the assignment
  table: it stays until the process ends.
- A primary that joins during the promotion delay is overwritten in the register,
  and both keep the role (`room.rs:197`); `SerialCoherent` is stated for calls that do
  not overlap.
- The deadlock `WalksEnd` excepts is reachable: a walk that waits for its
  socket with a guard, and calls on every worker that wait for the guard.
- A silent participant never becomes Active again, and a silent primary starts no
  failover.
- `clock.rs:110` says "Only accept samples with reasonable RTT", but what is compared
  with `max_drift_us` is the offset (`clock.rs:111`): two clocks further apart than that
  never synchronise, however short their round trips, and an answer of any age is
  accepted. `OffsetIsTrue` promises an offset only to a peer within the drift.
- The statistics of a room (GET `/rooms/{id}/stats`, `server.rs:364`) call
  `Handle::block_on` on the runtime they run on, which panics for every live room.
- Calls that overlap on one participant, one process handle or one configuration do
  mix them up: a property that speaks of calls that take turns says so in its
  comment, and the note of its hazard in `PROJECT.json` says what the overlap does.
- The length check of audio packets passes 24 to 27 bytes after the header where
  28 are read; a datagram that ends there panics the decoder (`AudioHeaderCut`).
- Server loads and room counts keep their first values: `/servers` and `/stats`
  show zero.
- A camera that falls silent keeps a stop waiting for ever, in `read_exact`
  behind the join; `StopReleases` excepts it.
- A request the control plane does not answer holds up, with the first writer
  behind it, every later command of the admin application.

## 6. Plan

Done: every component of the inventory that keeps state, and the proofs above.
What remains worth doing, in this order:

1. An abstract specification of a FEC group (open, full, repaired) implemented
   by `Sender`, and of a conversation with one server implemented by `Console`.
2. A composition of `Sender` and `Receiver` over one lossy channel, when the
   decoder is given media packets.
