-------------------------------- MODULE Api --------------------------------
(***************************************************************************)
(* The control plane as its clients see it: tokens and what they allow,    *)
(* the request handlers, and the tables that lead from a room to the one   *)
(* of several SFU servers it lives on.  A room is created and closed on a  *)
(* server first and in the control plane's own table later, with other     *)
(* requests in between; other requests are one step.  How calls overlap    *)
(* inside one server is module Registry's, and what a room makes of a      *)
(* participant module Room's, which may refuse one here too.               *)
(***************************************************************************)
EXTENDS Naturals, FiniteSets

CONSTANTS
    Servers,     \* ids of the SFU servers that may be registered
    RoomIds,     \* room ids requests name
    LoopRooms,   \* the ids among them that the media loops make rooms for
    ApiIds,      \* participant ids
    Requests,    \* the creations and closings that can be in flight at a time
    RoomLimit,   \* config.max_rooms of each server
    Expiry,      \* token_expiration_secs
    MaxNow,      \* bound: the time at the end
    MaxTokens,   \* bound: tokens alive at a time
    AuthEnabled, \* AuthConfig::enabled
    Nowhere      \* no server, no room

ASSUME ApiAssumption ==
    /\ LoopRooms \subseteq RoomIds /\ IsFiniteSet(RoomIds)
    /\ Nowhere \notin Servers /\ Nowhere \notin RoomIds
    /\ {RoomLimit, Expiry, MaxNow, MaxTokens} \subseteq Nat
    /\ AuthEnabled \in BOOLEAN

UserRoles == {"admin", "operator", "sender", "receiver"}
Claims == [role : UserRoles, rooms : SUBSET RoomIds, exp : 0 .. MaxNow + Expiry]

VARIABLES
    now,         \* the time tokens are compared with
    tokens,      \* the tokens handed out, by their claims
    registered,  \* AppState::servers and server_info
    home,        \* AppState::room_servers
    serverRooms, \* SfuServer::rooms of each server
    people,      \* who is in them: <<server, room, participant id>>
    request,     \* where a creation or closing is, its room and its server
    serverAuto,  \* history: the ids the media loops have made rooms for
    moved,       \* history: ids created on a server while another had them
    torn         \* history: ids created and closed at the same time

apiVars == <<now, tokens, registered, home, serverRooms, people, request,
             serverAuto, moved, torn>>

ApiTypeOK ==
    /\ now \in 0 .. MaxNow
    /\ tokens \subseteq Claims
    /\ registered \subseteq Servers
    /\ home \in [RoomIds -> Servers \cup {Nowhere}]
    /\ serverRooms \in [Servers -> SUBSET RoomIds]
    /\ people \subseteq Servers \X RoomIds \X ApiIds
    /\ request \in [Requests -> [at : {"idle", "assign", "close", "unassign"},
                                room : RoomIds \cup {Nowhere},
                                server : Servers \cup {Nowhere}]]
    /\ serverAuto \subseteq LoopRooms /\ moved \subseteq RoomIds /\ torn \subseteq RoomIds

NoRequest == [at |-> "idle", room |-> Nowhere, server |-> Nowhere]

ApiInit ==
    /\ now = 0 /\ tokens = {}
    /\ registered = {}
    /\ home = [r \in RoomIds |-> Nowhere]
    /\ serverRooms = [s \in Servers |-> {}]
    /\ people = {}
    /\ request = [q \in Requests |-> NoRequest]
    /\ serverAuto = {} /\ moved = {} /\ torn = {}

-----------------------------------------------------------------------------
(* Tokens                                                                  *)

Tick ==
    /\ now < MaxNow
    /\ now' = now + 1
    /\ UNCHANGED <<tokens, registered, home, serverRooms, people, request, serverAuto,
                   moved, torn>>

\* Only senders and receivers are limited to rooms.
ClaimsOf(role, allowed) ==
    [role  |-> role, exp |-> now + Expiry,
     rooms |-> IF role \in {"admin", "operator"} THEN {} ELSE allowed]

\* POST /auth/token.  The bound lets expired tokens go.
GenerateToken(role, allowed) ==
    /\ AuthEnabled
    /\ LET valid == {c \in tokens : c.exp + 1 >= now}
       IN  /\ Cardinality(valid) < MaxTokens
           /\ tokens' = valid \cup {ClaimsOf(role, allowed)}
    /\ UNCHANGED <<now, registered, home, serverRooms, people, request, serverAuto,
                   moved, torn>>

CanAccessRoom(c, r) == c.role \in {"admin", "operator"} \/ c.rooms = {} \/ r \in c.rooms
CanSend(c, r) == c.role # "receiver" /\ CanAccessRoom(c, r)
CanManageRooms(c) == c.role \in {"admin", "operator"}

\* With authentication off everyone is an administrator.
Anonymous == [role |-> "admin", rooms |-> {}, exp |-> now + Expiry]
Bearers == IF AuthEnabled THEN tokens ELSE {Anonymous}
Expired(c) == c.exp < now

-----------------------------------------------------------------------------
(* From a room to its server                                               *)

Register(s) ==
    /\ s \notin registered
    /\ registered' = registered \cup {s}
    /\ UNCHANGED <<now, tokens, home, serverRooms, people, request, serverAuto,
                   moved, torn>>

\* get_best_server: no server's load or health is ever updated, so it may be
\* any of them.
BestServers == registered

\* get_server_for_room; a room on that server.
HomeOf(r) == IF home[r] \in registered THEN home[r] ELSE Nowhere
Reached(r) == HomeOf(r) # Nowhere /\ r \in serverRooms[HomeOf(r)]

\* SfuServer::create_room by a media loop for a stranger's SessionInit.
OpenAutoRoom(s, r) ==
    /\ s \in registered
    /\ r \notin serverRooms[s] /\ Cardinality(serverRooms[s]) < RoomLimit
    /\ serverRooms' = [serverRooms EXCEPT ![s] = @ \cup {r}]
    /\ serverAuto' = serverAuto \cup {r}
    /\ UNCHANGED <<now, tokens, registered, home, people, request, moved, torn>>

-----------------------------------------------------------------------------
(* The handlers that only read: their answers, for the claims c            *)

\* list_all_rooms: every registered server is asked for its rooms.
AllRooms == UNION {serverRooms[s] : s \in registered}

ListedRooms(c) == {r \in AllRooms : CanAccessRoom(c, r)}

GetRoom(c, r) ==
    IF ~CanAccessRoom(c, r) THEN "forbidden" ELSE IF Reached(r) THEN "ok" ELSE "not_found"

-----------------------------------------------------------------------------
(* Requests that change something, as the bearer of claims c.  A request   *)
(* that is refused changes nothing: its handler's checks are guards.       *)

RequestAt(q, point) == request[q].at = point

\* Some request on room r stands at one of these points.
Underway(r, points) ==
    \E q \in Requests : request[q].at \in points /\ request[q].room = r

Await(q, point, r, s) ==
    request' = [request EXCEPT ![q] = [at |-> point, room |-> r, server |-> s]]

Finish(q) == request' = [request EXCEPT ![q] = NoRequest]

\* Only the server chosen is asked whether it has the room.
CreateRoomAs(c, r) ==
    /\ CanManageRooms(c)
    /\ \E s \in BestServers, q \in Requests :
          /\ RequestAt(q, "idle")
          /\ Cardinality(serverRooms[s]) < RoomLimit /\ r \notin serverRooms[s]
          /\ serverRooms' = [serverRooms EXCEPT ![s] = @ \cup {r}]
          /\ Await(q, "assign", r, s)
          /\ moved' = IF \E t \in Servers \ {s} : r \in serverRooms[t]
                      THEN moved \cup {r} ELSE moved
    /\ torn' = IF Underway(r, {"close", "unassign"}) THEN torn \cup {r} ELSE torn
    /\ UNCHANGED <<home, people>>

\* assign_room_to_server
AssignRoom(q) ==
    /\ RequestAt(q, "assign")
    /\ home' = [home EXCEPT ![request[q].room] = request[q].server]
    /\ Finish(q)
    /\ UNCHANGED <<now, tokens, registered, serverRooms, people,
                   serverAuto, moved, torn>>

\* get_server_for_room
CloseRoomAs(c, r) ==
    /\ CanManageRooms(c) /\ HomeOf(r) # Nowhere
    /\ \E q \in Requests : RequestAt(q, "idle") /\ Await(q, "close", r, HomeOf(r))
    /\ torn' = IF Underway(r, {"assign"}) THEN torn \cup {r} ELSE torn
    /\ UNCHANGED <<home, serverRooms, people, moved>>

\* Who is in room r of server s.
PeopleOf(s, r) == {p \in people : p[1] = s /\ p[2] = r}

\* Mutant: closing a room empties it but leaves it on its server.
CloseOnServerKeepsRoom(q) ==
    /\ RequestAt(q, "close")
    /\ people' = people \ PeopleOf(request[q].server, request[q].room)
    /\ Await(q, "unassign", request[q].room, request[q].server)
    /\ UNCHANGED <<now, tokens, registered, home, serverRooms, serverAuto,
                   moved, torn>>

\* SfuServer::close_room
CloseOnServer(q) ==
    LET r == request[q].room  s == request[q].server
    IN  /\ RequestAt(q, "close")
        /\ IF r \in serverRooms[s]
           THEN /\ serverRooms' = [serverRooms EXCEPT ![s] = @ \ {r}]
                /\ people' = people \ PeopleOf(s, r)
                /\ Await(q, "unassign", r, s)
           ELSE Finish(q) /\ UNCHANGED <<serverRooms, people>>
        /\ UNCHANGED <<now, tokens, registered, home, serverAuto, moved, torn>>

\* remove_room_assignment: whatever server the room is assigned to by now.
UnassignRoom(q) ==
    /\ RequestAt(q, "unassign")
    /\ home' = [home EXCEPT ![request[q].room] = Nowhere]
    /\ Finish(q)
    /\ UNCHANGED <<now, tokens, registered, serverRooms, people,
                   serverAuto, moved, torn>>

\* Senders need the right to send, and the room may refuse.
AddParticipantAs(c, r, id, sends) ==
    /\ IF sends THEN CanSend(c, r) ELSE CanAccessRoom(c, r)
    /\ Reached(r)
    /\ <<HomeOf(r), r, id>> \notin people
    /\ people' = people \cup {<<HomeOf(r), r, id>>}
    /\ UNCHANGED <<home, serverRooms, request, moved, torn>>

RemoveParticipantAs(c, r, id) ==
    /\ CanManageRooms(c) /\ Reached(r)
    /\ <<HomeOf(r), r, id>> \in people
    /\ people' = people \ {<<HomeOf(r), r, id>>}
    /\ UNCHANGED <<home, serverRooms, request, moved, torn>>

\* A request with a token; AuthenticatedClaims comes before the handler.
Request(c) ==
    /\ ~Expired(c)
    /\ \/ \E r \in RoomIds : CreateRoomAs(c, r) \/ CloseRoomAs(c, r)
       \/ \E r \in RoomIds, id \in ApiIds :
             \/ \E sends \in BOOLEAN : AddParticipantAs(c, r, id, sends)
             \/ RemoveParticipantAs(c, r, id)
    /\ UNCHANGED <<now, tokens, registered, serverAuto>>

ApiNext ==
    \/ Tick
    \/ \E role \in UserRoles, allowed \in SUBSET RoomIds : GenerateToken(role, allowed)
    \/ \E s \in Servers : Register(s)
    \/ \E s \in Servers, r \in LoopRooms : OpenAutoRoom(s, r)
    \/ \E c \in Bearers : Request(c)
    \/ \E q \in Requests : AssignRoom(q) \/ CloseOnServer(q) \/ UnassignRoom(q)

ApiSpec == ApiInit /\ [][ApiNext]_apiVars

-----------------------------------------------------------------------------
(* Properties                                                              *)

\* What list_rooms shows a client, which it takes from every server's table,
\* get_room finds for the same client, which it takes from the assignments,
\* once their creation is through: except for rooms the media loops made and
\* ids created on two servers, or while a closing of them was underway.
ListedIsReachable ==
    \A c \in Bearers : \A r \in ListedRooms(c) \ (serverAuto \cup moved \cup torn) :
        GetRoom(c, r) = "ok" \/ Underway(r, {"assign"})
=============================================================================
