------------------------------ MODULE Registry ------------------------------
(***************************************************************************)
(* The tables that say which rooms exist and who is in them, and the calls *)
(* that keep them in step: the SFU server's rooms and participant_rooms,   *)
(* the control plane's room_servers (one server is registered, so it is a  *)
(* set of assigned rooms), driven by HTTP handlers and by the media loop,  *)
(* which makes a room of its own for a stranger's SessionInit.  No lock    *)
(* spans two tables, so every call interleaves with every other between    *)
(* its accesses.  What happens inside one room is module Room's: here a    *)
(* room is its participants, each an id and an address, and may refuse one. *)
(***************************************************************************)
EXTENDS Naturals, FiniteSets

CONSTANTS
    Rooms,       \* room ids the API's clients choose from
    AutoRooms,   \* the ids among them that SessionInit packets name
    Addrs,       \* socket addresses
    Pids,        \* participant ids
    PidOf,       \* the id the media loop gives to a stranger's address
    Handlers,    \* the API calls that can be in flight at a time
    Media,       \* the media loop, which handles one packet at a time
    Nothing,     \* no room, no participant, no address
    MaxRooms,    \* config.max_rooms
    MaxObjects   \* bound: Room objects ever made

\* What the constants are.
ASSUME RegistryAssumption ==
    /\ AutoRooms \subseteq Rooms
    /\ PidOf \in [Addrs -> Pids]
    /\ IsFiniteSet(Rooms) /\ IsFiniteSet(Handlers)
    /\ Nothing \notin Rooms /\ Nothing \notin Addrs
    /\ Nothing \notin Rooms \X Pids
    /\ Media \notin Handlers
    /\ MaxRooms \in Nat /\ MaxObjects \in Nat

VARIABLES
    rooms,       \* SfuServer::rooms: the object under each id, 0 for none
    roomMembers, \* Room::participants of each object
    mapping,     \* SfuServer::participant_rooms: each address's room and id
    assigned,    \* AppState::room_servers
    made,        \* Room objects ever made; object n is the n-th of them
    created,     \* stats.rooms_created
    closed,      \* stats.rooms_closed
    call,        \* where each caller is and what it works on
    auto,        \* history: the objects made by the media loop
    clash,       \* history: rooms of which conflicting calls overlapped
    lost,        \* history: the live rooms that another was put over
    entered      \* history: where, and as whom, each address was let in

tables == <<rooms, roomMembers, mapping, assigned, made, created, closed>>
history == <<auto, lost, entered>>
registryVars == <<tables, call, clash, history>>

Callers == Handlers \cup {Media}
Objects == 1 .. MaxObjects

Ops == {"create", "close", "join", "open", "expel", "leave"}
CallPoints == {"idle",
               "insert", "tally", "assign",       \* create_room
               "remove", "count", "unmap", "unassign", \* close_room
               "open", "check",                   \* get_or_create_room
               "find", "enter", "map",            \* add_participant
               "expel", "leave"}                  \* remove_participant

RegistryTypeOK ==
    /\ made \in 0 .. MaxObjects
    /\ created \in 0 .. made /\ closed \in 0 .. made /\ lost \in 0 .. made
    /\ rooms \in [Rooms -> 0 .. made]
    /\ roomMembers \in [Objects -> SUBSET (Pids \X Addrs)]
    /\ mapping \in [Addrs -> (Rooms \X Pids) \cup {Nothing}]
    /\ assigned \subseteq Rooms
    /\ call \in [Callers -> [at : CallPoints, op : Ops,
                             room : Rooms \cup {Nothing},
                             obj : 0 .. MaxObjects,
                             pid : Pids \cup {Nothing},
                             addr : Addrs \cup {Nothing}]]
    /\ auto \subseteq Objects
    /\ clash \subseteq Rooms
    /\ entered \in [Addrs -> SUBSET (Rooms \X Pids)]

NoCall == [at |-> "idle", op |-> "create", room |-> Nothing, obj |-> 0,
           pid |-> Nothing, addr |-> Nothing]

RegistryInit ==
    /\ rooms = [r \in Rooms |-> 0]
    /\ roomMembers = [o \in Objects |-> {}]
    /\ mapping = [a \in Addrs |-> Nothing]
    /\ assigned = {}
    /\ made = 0 /\ created = 0 /\ closed = 0 /\ lost = 0
    /\ call = [c \in Callers |-> NoCall]
    /\ auto = {}
    /\ clash = {}
    /\ entered = [a \in Addrs |-> {}]

-----------------------------------------------------------------------------
CallAt(c, point) == call[c].at = point
Live == {r \in Rooms : rooms[r] # 0}
MappedTo(a, r) == mapping[a] # Nothing /\ mapping[a][1] = r

StepTo(c, point) == call' = [call EXCEPT ![c].at = point]
EndCall(c) == call' = [call EXCEPT ![c] = NoCall]

\* Calls on one room conflict unless both only let participants in; removing
\* a participant conflicts with nothing.
Conflict(op1, op2) ==
    /\ {op1, op2} \cap {"expel", "leave"} = {}
    /\ ~({op1, op2} \subseteq {"join", "open"})

BeginCall(c, point, op, r, p, a) ==
    /\ call' = [call EXCEPT ![c] =
                  [at |-> point, op |-> op, room |-> r, obj |-> 0,
                   pid |-> p, addr |-> a]]
    /\ clash' = IF \E d \in Callers \ {c} : /\ ~CallAt(d, "idle")
                                            /\ call[d].room = r
                                            /\ Conflict(op, call[d].op)
                THEN clash \cup {r}
                ELSE clash

-----------------------------------------------------------------------------
(* create_room: the API's, and the media loop's through get_or_create_room *)

\* SfuServer::create_room compares and looks up (two reads, taken as one), but
\* claims nothing.
MayCreate(r) == Cardinality(Live) < MaxRooms /\ r \notin Live

CreateRoom(t, r) ==
    /\ CallAt(t, "idle")
    /\ MayCreate(r)
    /\ made < MaxObjects
    /\ BeginCall(t, "insert", "create", r, Nothing, Nothing)
    /\ UNCHANGED <<tables, history>>

\* A room is made and put into the table, over whatever is there by now.
InsertRoom(c) ==
    /\ CallAt(c, "insert")
    /\ made < MaxObjects
    /\ made' = made + 1
    /\ rooms' = [rooms EXCEPT ![call[c].room] = made']
    /\ auto' = IF c = Media THEN auto \cup {made'} ELSE auto
    /\ lost' = IF call[c].room \in Live THEN lost + 1 ELSE lost
    /\ StepTo(c, "tally")
    /\ UNCHANGED <<roomMembers, mapping, assigned, created, closed, clash, entered>>

\* record_room_created
Tally(c) ==
    /\ CallAt(c, "tally")
    /\ created' = created + 1
    /\ StepTo(c, IF c = Media THEN "find" ELSE "assign")
    /\ UNCHANGED <<rooms, roomMembers, mapping, assigned, made, closed, clash, history>>

Assign(t) ==
    /\ CallAt(t, "assign")
    /\ assigned' = assigned \cup {call[t].room}
    /\ EndCall(t)
    /\ UNCHANGED <<rooms, roomMembers, mapping, made, created, closed, clash, history>>

-----------------------------------------------------------------------------
(* close_room                                                              *)

CloseRoom(t, r) ==
    /\ CallAt(t, "idle")
    /\ r \in assigned
    /\ BeginCall(t, "remove", "close", r, Nothing, Nothing)
    /\ UNCHANGED <<tables, history>>

\* Mutant: a room that is not in the table is closed all the same.
RemoveRoomUnfound(t) ==
    /\ CallAt(t, "remove")
    /\ rooms' = [rooms EXCEPT ![call[t].room] = 0]
    /\ StepTo(t, "count")
    /\ UNCHANGED <<roomMembers, mapping, assigned, made, created, closed, clash, history>>

\* A room that is not in the table ends the call, and leaves its assignment.
RemoveRoom(t) ==
    /\ CallAt(t, "remove")
    /\ IF call[t].room \in Live
       THEN /\ rooms' = [rooms EXCEPT ![call[t].room] = 0]
            /\ StepTo(t, "count")
       ELSE /\ EndCall(t)
            /\ UNCHANGED rooms
    /\ UNCHANGED <<roomMembers, mapping, assigned, made, created, closed, clash, history>>

\* Mutant: the closing is not counted.
CountClosedNever(t) ==
    /\ CallAt(t, "count")
    /\ StepTo(t, "unmap")
    /\ UNCHANGED <<tables, clash, history>>

\* record_room_closed, once the room's state could be set.
CountClosed(t) ==
    /\ CallAt(t, "count")
    /\ closed' = closed + 1
    /\ StepTo(t, "unmap")
    /\ UNCHANGED <<rooms, roomMembers, mapping, assigned, made, created, clash, history>>

\* Mutant: the addresses stay mapped.
UnmapNothing(t) ==
    /\ CallAt(t, "unmap")
    /\ StepTo(t, "unassign")
    /\ UNCHANGED <<tables, clash, history>>

Unmap(t) ==
    /\ CallAt(t, "unmap")
    /\ mapping' = [a \in Addrs |-> IF MappedTo(a, call[t].room)
                                   THEN Nothing ELSE mapping[a]]
    /\ StepTo(t, "unassign")
    /\ UNCHANGED <<rooms, roomMembers, assigned, made, created, closed, clash, history>>

\* Mutant: the assignment stays.
UnassignNothing(t) ==
    /\ CallAt(t, "unassign")
    /\ EndCall(t)
    /\ UNCHANGED <<tables, clash, history>>

Unassign(t) ==
    /\ CallAt(t, "unassign")
    /\ assigned' = assigned \ {call[t].room}
    /\ EndCall(t)
    /\ UNCHANGED <<rooms, roomMembers, mapping, made, created, closed, clash, history>>

-----------------------------------------------------------------------------
(* add_participant                                                         *)

AddParticipant(t, r, p, a) ==
    /\ CallAt(t, "idle")
    /\ r \in assigned
    /\ BeginCall(t, "find", "join", r, p, a)
    /\ UNCHANGED <<tables, history>>

Find(c) ==
    /\ CallAt(c, "find")
    /\ IF call[c].room \in Live
       THEN call' = [call EXCEPT ![c].at = "enter",
                                 ![c].obj = rooms[call[c].room]]
       ELSE EndCall(c)
    /\ UNCHANGED <<tables, clash, history>>

\* Who is in object o without the participant of this id.
Without(o, p) == {m \in roomMembers[o] : m[1] # p}

\* Once an address was let in at two places which they were is forgotten.
LetIn(places, place) ==
    IF places \subseteq {place} THEN {place} ELSE Rooms \X Pids

\* Room::add_participant: refused for an id already in the room, and for the
\* room's own reasons.
Enter(c) ==
    /\ CallAt(c, "enter")
    /\ \/ /\ Without(call[c].obj, call[c].pid) = roomMembers[call[c].obj]
          /\ roomMembers' = [roomMembers EXCEPT
                ![call[c].obj] = @ \cup {<<call[c].pid, call[c].addr>>}]
          /\ entered' = [entered EXCEPT
                ![call[c].addr] = LetIn(@, <<call[c].room, call[c].pid>>)]
          /\ StepTo(c, "map")
       \/ /\ EndCall(c)
          /\ UNCHANGED <<roomMembers, entered>>
    /\ UNCHANGED <<rooms, mapping, assigned, made, created, closed, clash, auto, lost>>

\* The address leads to this participant now, whoever it led to before.
Map(c) ==
    /\ CallAt(c, "map")
    /\ mapping' = [mapping EXCEPT ![call[c].addr] = <<call[c].room, call[c].pid>>]
    /\ EndCall(c)
    /\ UNCHANGED <<rooms, roomMembers, assigned, made, created, closed, clash, history>>

-----------------------------------------------------------------------------
(* The media loop: a SessionInit from an address that is not mapped        *)

HandleNewParticipant(r, a) ==
    /\ CallAt(Media, "idle")
    /\ mapping[a] = Nothing
    /\ BeginCall(Media, "open", "open", r, PidOf[a], a)
    /\ UNCHANGED <<tables, history>>

\* get_or_create_room: the room, or the way to create_room.
OpenRoom ==
    /\ CallAt(Media, "open")
    /\ StepTo(Media, IF call[Media].room \in Live THEN "find" ELSE "check")
    /\ UNCHANGED <<tables, clash, history>>

CheckRoom ==
    /\ CallAt(Media, "check")
    /\ IF MayCreate(call[Media].room) /\ made < MaxObjects
       THEN StepTo(Media, "insert")
       ELSE EndCall(Media)
    /\ UNCHANGED <<tables, clash, history>>

-----------------------------------------------------------------------------
(* remove_participant                                                      *)

\* The API's: the participant leaves its room, its address stays mapped.
ExpelParticipant(t, r, p) ==
    /\ CallAt(t, "idle")
    /\ r \in assigned
    /\ BeginCall(t, "expel", "expel", r, p, Nothing)
    /\ UNCHANGED <<tables, history>>

\* Room::remove_participant of the room that is live under the id by now.
Depart(t) ==
    /\ roomMembers' =
          IF call[t].room \in Live
          THEN [roomMembers EXCEPT ![rooms[call[t].room]] =
                                      Without(rooms[call[t].room], call[t].pid)]
          ELSE roomMembers
    /\ EndCall(t)
    /\ UNCHANGED <<rooms, mapping, assigned, made, created, closed, clash, history>>

Expel(t) == CallAt(t, "expel") /\ Depart(t)

\* The server's: the address is unmapped, then the participant leaves.
RemoveParticipant(t, a) ==
    /\ CallAt(t, "idle")
    /\ mapping[a] # Nothing
    /\ mapping' = [mapping EXCEPT ![a] = Nothing]
    /\ BeginCall(t, "leave", "leave", mapping[a][1], mapping[a][2], a)
    /\ UNCHANGED <<rooms, roomMembers, assigned, made, created, closed, history>>

\* Mutant: the address is unmapped, the participant stays in the room.
LeaveNothing(t) ==
    /\ CallAt(t, "leave")
    /\ EndCall(t)
    /\ UNCHANGED <<tables, clash, history>>

Leave(t) == CallAt(t, "leave") /\ Depart(t)

-----------------------------------------------------------------------------
RegistryNext ==
    \/ \E t \in Handlers, r \in Rooms : CreateRoom(t, r) \/ CloseRoom(t, r)
    \/ \E t \in Handlers, r \in Rooms, p \in Pids :
          \/ \E a \in Addrs : AddParticipant(t, r, p, a)
          \/ ExpelParticipant(t, r, p)
    \/ \E t \in Handlers, a \in Addrs : RemoveParticipant(t, a)
    \/ \E r \in AutoRooms, a \in Addrs : HandleNewParticipant(r, a)
    \/ OpenRoom \/ CheckRoom
    \/ \E t \in Handlers : \/ Assign(t)
                        \/ RemoveRoom(t) \/ CountClosed(t) \/ Unmap(t) \/ Unassign(t)
                        \/ Expel(t) \/ Leave(t)
    \/ \E c \in Callers : \/ InsertRoom(c) \/ Tally(c)
                       \/ Find(c) \/ Enter(c) \/ Map(c)

RegistrySpec == RegistryInit /\ [][RegistryNext]_registryVars
-----------------------------------------------------------------------------
(* Properties                                                              *)

\* No call that could change what room r is stands between two of its steps.
Settled(r) == \A c \in Callers : CallAt(c, "idle") \/ call[c].room # r

\* The API can reach exactly the rooms it created that the server still has:
\* a room whose creations, closings and joins never overlapped is neither
\* orphaned in the server nor assigned without existing, whatever else runs.
TablesAgree ==
    \A r \in Rooms \ clash :
        Settled(r) => (r \in assigned <=> r \in Live /\ rooms[r] \notin auto)

\* Packets of a mapped address never fall into a closed room: the dead end
\* exists only after a join or a creation overlapped a closing.
NoDeadEnds ==
    \A a \in Addrs :
        mapping[a] # Nothing /\ Settled(mapping[a][1]) /\ mapping[a][1] \notin clash
            => mapping[a][1] \in Live

\* The packets of a participant of a live room are taken for its packets: its
\* address is mapped to it there, unless the address was also let into another
\* room, or into this one as somebody else, which takes the mapping away.
MembersAreHeard ==
    \A r \in Live \ clash : Settled(r) =>
        \A m \in roomMembers[rooms[r]] :
            entered[m[2]] = {<<r, m[1]>>} => mapping[m[2]] = <<r, m[1]>>

\* The calls that stand at a point.
CallsAt(point) == {c \in Callers : CallAt(c, point)}

\* SfuStats::snapshot, rooms_active: however calls overlap, what is counted as
\* created and not as closed is a live room, or one that another was put over
\* before anyone closed it, give or take the calls about to count.
RoomsCounted ==
    created + Cardinality(CallsAt("tally")) =
        closed + Cardinality(CallsAt("count")) + Cardinality(Live) + lost
=============================================================================
