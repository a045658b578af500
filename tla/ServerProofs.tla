---------------------------- MODULE ServerProofs ----------------------------
(***************************************************************************)
(* Proofs about the two sets of tables a room is in: the server's own, of  *)
(* rooms and addresses, for every set of rooms, participants, addresses    *)
(* and overlapping calls, and the control plane's, for every set of        *)
(* servers, rooms, roles, tokens and overlapping requests.                 *)
(***************************************************************************)
EXTENDS MCServer, RoomProofs, FiniteSetTheorems, TLAPS

-----------------------------------------------------------------------------
(* The inductive invariant of the tables                                   *)

\* Some call on room r stands at one of these points; some handler's does.
Between(r, points) == \E c \in Callers : call[c].room = r /\ call[c].at \in points
Doing(r, points) == \E t \in Handlers : call[t].room = r /\ call[t].at \in points

\* Points after the step that makes a room exist, after the one that ends it,
\* and of those a join stands at once it has an object.
Creating == {"tally", "assign"}
Closing == {"count", "unmap", "unassign"}
Joining == {"enter", "map"}

\* Where the calls of each kind go.
Route == [create |-> {"insert", "tally", "assign"},
          close  |-> {"remove", "count", "unmap", "unassign"},
          join   |-> {"find", "enter", "map"},
          open   |-> {"open", "check", "insert", "tally", "find", "enter", "map"},
          expel  |-> {"expel"},
          leave  |-> {"leave"}]

\* Every call is on a route of its own kind, and names what it works on.
OnRoute ==
    \A c \in Callers : ~CallAt(c, "idle") =>
        /\ call[c].room \in Rooms
        /\ c = Media <=> call[c].op = "open"
        /\ call[c].at \in Route[call[c].op]
        /\ call[c].op \notin {"create", "close"} => call[c].pid \in Pids
        /\ call[c].op \in {"join", "open", "leave"} => call[c].addr \in Addrs

\* Calls on a room without a clash do not conflict.
Apart ==
    \A r \in Rooms \ clash : \A c, d \in Callers :
        /\ c # d
        /\ ~CallAt(c, "idle") /\ call[c].room = r
        /\ ~CallAt(d, "idle") /\ call[d].room = r
        => ~Conflict(call[c].op, call[d].op)

\* An object has one room, and one that is not made yet nobody in it.
ObjectsApart ==
    /\ auto \subseteq 1 .. made
    /\ \A r, s \in Rooms : rooms[r] # 0 /\ rooms[r] = rooms[s] => r = s
    /\ \A o \in Objects : o > made => roomMembers[o] = {}
    /\ \A c \in Callers : call[c].at \in Joining =>
          /\ call[c].obj \in 1 .. made
          /\ \A r \in Rooms : rooms[r] = call[c].obj => r = call[c].room

\* What the calls that change the existence of a room find and leave.
StagedAt(r) ==
    /\ Between(r, {"insert"}) => r \notin Live /\ r \notin assigned
    /\ Doing(r, Creating) => r \in Live /\ rooms[r] \notin auto
    /\ Between(r, Closing) => r \notin Live
    /\ Between(r, Joining) => r \in Live
    /\ \/ Doing(r, Creating) \/ Between(r, Closing)
       \/ r \in assigned <=> r \in Live /\ rooms[r] \notin auto

Staged == \A r \in Rooms \ clash : StagedAt(r)

\* The same for the object a join works on.
Current ==
    \A c \in Callers : /\ call[c].at \in Joining
                       /\ call[c].room \notin clash
                       => rooms[call[c].room] = call[c].obj

\* A mapped address leads to a live room, or to one that is about to unmap it.
Mapped ==
    \A a \in Addrs : /\ mapping[a] # Nothing
                     /\ mapping[a][1] \notin clash
                     => \/ mapping[a][1] \in Live
                        \/ Between(mapping[a][1], {"count", "unmap"})

\* Whoever is in a room, or about to be mapped there, was let in.
Admitted ==
    /\ \A r \in Live : \A m \in roomMembers[rooms[r]] : <<r, m[1]>> \in entered[m[2]]
    /\ \A c \in Callers : CallAt(c, "map") =>
          <<call[c].room, call[c].pid>> \in entered[call[c].addr]

\* Some call is about to map participant m of room r, or to remove it.
Pending(r, m) ==
    \E c \in Callers : /\ call[c].at \in {"map", "leave"}
                       /\ call[c].room = r /\ call[c].pid = m[1]
                       /\ call[c].addr = m[2]

\* A participant is mapped to its room, but for one step after its join and
\* one before its removal.
Heard ==
    \A r \in Live \ clash : \A m \in roomMembers[rooms[r]] :
        entered[m[2]] = {<<r, m[1]>>} =>
           mapping[m[2]] = <<r, m[1]>> \/ Pending(r, m)

\* Every object made is a live room, a room closed or one put over; and every
\* object but the newest was counted.
Counted ==
    /\ made = created + Cardinality(CallsAt("tally"))
    /\ made = closed + Cardinality(CallsAt("count")) + Cardinality(Live) + lost

RegistryInv ==
    /\ RegistryTypeOK /\ OnRoute /\ Apart /\ ObjectsApart
    /\ Staged /\ Current /\ Mapped /\ Admitted /\ Heard /\ Counted

\* What is known of a call.
CallType == [at : CallPoints, op : Ops, room : Rooms \cup {Nothing},
             obj : 0 .. MaxObjects, pid : Pids \cup {Nothing},
             addr : Addrs \cup {Nothing}]

\* Call c goes on to a point, on what it was about, and the others stand.
GoesOn(c, point) ==
    /\ call' \in [Callers -> CallType]
    /\ \A d \in Callers \ {c} : call'[d] = call[d]
    /\ call'[c].at = point
    /\ call'[c].op = call[c].op /\ call'[c].room = call[c].room
    /\ call'[c].pid = call[c].pid /\ call'[c].addr = call[c].addr

\* Call c ends, and the others stand.
Ends(c) ==
    /\ call' \in [Callers -> CallType]
    /\ \A d \in Callers \ {c} : call'[d] = call[d]
    /\ call'[c].at = "idle"

-----------------------------------------------------------------------------
(* The calls                                                              *)

\* A call that goes on changes its point and nothing else of itself.
LEMMA StepToEffect ==
    ASSUME RegistryTypeOK, NEW c \in Callers, NEW p \in CallPoints, StepTo(c, p)
    PROVE  GoesOn(c, p) /\ call'[c].obj = call[c].obj
BY DEF RegistryTypeOK, StepTo, GoesOn, CallType

\* A call that ends leaves nothing behind.
LEMMA EndCallEffect ==
    ASSUME RegistryTypeOK, NEW c \in Callers, EndCall(c)
    PROVE  Ends(c)
BY RegistryAssumption DEF RegistryTypeOK, EndCall, NoCall, CallPoints, Ops, Ends, CallType

\* A call that begins marks the room if it meets one it conflicts with.
LEMMA BeginCallEffect ==
    ASSUME RegistryTypeOK, NEW c \in Callers, NEW w \in CallPoints,
           NEW o \in Ops, NEW r \in Rooms, NEW p \in Pids \cup {Nothing},
           NEW a \in Addrs \cup {Nothing}, BeginCall(c, w, o, r, p, a)
    PROVE  /\ call' \in [Callers -> CallType]
           /\ \A d \in Callers \ {c} : call'[d] = call[d]
           /\ call'[c].at = w /\ call'[c].op = o /\ call'[c].room = r
           /\ call'[c].pid = p /\ call'[c].addr = a
           /\ clash' \in SUBSET Rooms
           /\ clash \subseteq clash'
           /\ r \notin clash' =>
                \A d \in Callers \ {c} :
                   CallAt(d, "idle") \/ call[d].room # r
                      \/ ~Conflict(o, call[d].op)
<1> DEFINE new == [at |-> w, op |-> o, room |-> r, obj |-> 0, pid |-> p, addr |-> a]
<1>1. call' = [call EXCEPT ![c] = new]
  BY DEF BeginCall
<1>2. new \in CallType
  BY RegistryAssumption DEF CallType
<1>3. clash' = IF \E d \in Callers \ {c} : /\ ~CallAt(d, "idle")
                                           /\ call[d].room = r
                                           /\ Conflict(o, call[d].op)
               THEN clash \cup {r} ELSE clash
  BY DEF BeginCall
<1>4. clash \subseteq Rooms
  BY DEF RegistryTypeOK
<1>5. /\ new.at = w /\ new.op = o /\ new.room = r /\ new.pid = p /\ new.addr = a
      /\ call \in [Callers -> CallType]
  BY DEF RegistryTypeOK, CallType
<1> HIDE DEF new
<1> QED
  BY <1>1, <1>2, <1>3, <1>4, <1>5

\* Which calls come to which point.
LEMMA RouteOfPoint ==
    ASSUME NEW o \in Ops
    PROVE  /\ Route[o] \cap {"insert", "tally"} # {} => o \in {"create", "open"}
           /\ "assign" \in Route[o] => o = "create"
           /\ Route[o] \cap {"remove", "count", "unmap", "unassign"} # {} => o = "close"
           /\ Route[o] \cap {"find", "enter", "map"} # {} => o \in {"join", "open"}
           /\ Route[o] \cap {"open", "check"} # {} => o = "open"
           /\ "expel" \in Route[o] => o = "expel"
           /\ "leave" \in Route[o] => o = "leave"
           /\ "idle" \notin Route[o]
BY DEF Ops, Route

\* What a call in flight is about.
LEMMA InFlight ==
    ASSUME RegistryInv, NEW c \in Callers, call[c].at # "idle"
    PROVE  /\ call[c].op \in Ops
           /\ call[c].at \in Route[call[c].op]
           /\ call[c].room \in Rooms
           /\ c = Media <=> call[c].op = "open"
           /\ call[c].op \notin {"create", "close"} => call[c].pid \in Pids
           /\ call[c].op \in {"join", "open", "leave"} => call[c].addr \in Addrs
BY DEF RegistryInv, OnRoute, CallAt, RegistryTypeOK

\* A live room is one of the objects made so far, and has participants in it.
LEMMA LiveRooms ==
    ASSUME RegistryTypeOK, NEW r \in Live
    PROVE  /\ r \in Rooms
           /\ rooms[r] \in 1 .. made
           /\ rooms[r] \in Objects
           /\ roomMembers[rooms[r]] \subseteq Pids \X Addrs
           /\ \A m \in roomMembers[rooms[r]] : m[1] \in Pids /\ m[2] \in Addrs
<1>1. r \in Rooms /\ rooms[r] \in 0 .. made /\ rooms[r] # 0
  BY DEF RegistryTypeOK, Live
<1>2. made \in 0 .. MaxObjects /\ MaxObjects \in Nat
  BY RegistryAssumption DEF RegistryTypeOK
<1>3. rooms[r] \in Objects
  BY <1>1, <1>2 DEF Objects
<1>4. roomMembers[rooms[r]] \subseteq Pids \X Addrs
  BY <1>3 DEF RegistryTypeOK
<1> QED
  BY <1>1, <1>2, <1>3, <1>4

\* Where an address leads is a room and an id.
LEMMA MappedPlaces ==
    ASSUME RegistryTypeOK, NEW a \in Addrs, mapping[a] # Nothing
    PROVE  /\ mapping[a] \in Rooms \X Pids
           /\ mapping[a][1] \in Rooms /\ mapping[a][2] \in Pids
           /\ mapping[a] = <<mapping[a][1], mapping[a][2]>>
BY DEF RegistryTypeOK

\* Cardinalities are numbers here.
LEMMA CountsAreNumbers ==
    ASSUME NEW point
    PROVE  /\ IsFiniteSet(CallsAt(point)) /\ Cardinality(CallsAt(point)) \in Nat
           /\ IsFiniteSet(Live) /\ Cardinality(Live) \in Nat
<1>1. IsFiniteSet(Callers)
  BY RegistryAssumption, FS_Singleton, FS_Union DEF Callers
<1>2. CallsAt(point) \subseteq Callers /\ Live \subseteq Rooms
  BY DEF CallsAt, Live
<1> QED
  BY <1>1, <1>2, RegistryAssumption, FS_Subset, FS_CardinalityType

\* When one call moves, one more or one less stands at a point, or as many.
LEMMA OneCallMoves ==
    ASSUME NEW c \in Callers, \A d \in Callers \ {c} : call'[d] = call[d], NEW point
    PROVE  /\ Cardinality(CallsAt(point)') \in Nat
           /\ (call[c].at = point <=> call'[c].at = point)
                 => CallsAt(point)' = CallsAt(point)
           /\ call[c].at # point /\ call'[c].at = point
                 => Cardinality(CallsAt(point)') = Cardinality(CallsAt(point)) + 1
           /\ call[c].at = point /\ call'[c].at # point
                 => Cardinality(CallsAt(point)) = Cardinality(CallsAt(point)') + 1
<1> DEFINE S == CallsAt(point)
<1> DEFINE T == CallsAt(point)'
<1>1. IsFiniteSet(S)
  BY CountsAreNumbers
<1>2. (call[c].at = point <=> call'[c].at = point) => T = S
  BY DEF CallsAt, CallAt
<1>3. call[c].at # point /\ call'[c].at = point => T = S \cup {c} /\ c \notin S
  BY DEF CallsAt, CallAt
<1>4. call[c].at = point /\ call'[c].at # point => T = S \ {c} /\ c \in S
  BY DEF CallsAt, CallAt
<1>5. Cardinality(T) \in Nat
  <2>1. T \subseteq Callers /\ IsFiniteSet(Callers)
    BY RegistryAssumption, FS_Singleton, FS_Union DEF CallsAt, Callers
  <2> QED
    BY <2>1, FS_Subset, FS_CardinalityType
<1> HIDE DEF S, T
<1>6. c \notin S => Cardinality(S \cup {c}) = Cardinality(S) + 1
  BY <1>1, FS_AddElement
<1>7. c \in S => Cardinality(S) = Cardinality(S \ {c}) + 1
  <2>1. IsFiniteSet(S \ {c}) /\ c \notin S \ {c}
    BY <1>1, FS_Subset
  <2>2. Cardinality((S \ {c}) \cup {c}) = Cardinality(S \ {c}) + 1
    BY <2>1, FS_AddElement
  <2>3. c \in S => (S \ {c}) \cup {c} = S
    OBVIOUS
  <2> QED
    BY <2>2, <2>3
<1>8. /\ (call[c].at = point <=> call'[c].at = point) => T = S
      /\ call[c].at # point /\ call'[c].at = point => Cardinality(T) = Cardinality(S) + 1
      /\ call[c].at = point /\ call'[c].at # point => Cardinality(S) = Cardinality(T) + 1
  BY <1>2, <1>3, <1>4, <1>6, <1>7
<1> QED
  BY <1>8, <1>5 DEF S, T

\* A step that neither makes, removes nor counts a room keeps the counts.
LEMMA CountsStay ==
    ASSUME RegistryInv, NEW c \in Callers,
           \A d \in Callers \ {c} : call'[d] = call[d],
           call[c].at \notin {"tally", "count"}, call'[c].at \notin {"tally", "count"},
           UNCHANGED <<rooms, made, created, closed, lost>>
    PROVE  Counted'
<1>1. CallsAt("tally")' = CallsAt("tally") /\ CallsAt("count")' = CallsAt("count")
  BY OneCallMoves
<1>2. Live' = Live
  BY DEF Live
<1> QED
  BY <1>1, <1>2 DEF RegistryInv, Counted

\* A call that goes on or ends stays on its route and apart from the others.
LEMMA CallsStayApart ==
    ASSUME RegistryInv, NEW c \in Callers, call[c].at # "idle",
           Ends(c) \/ \E w \in Route[call[c].op] : GoesOn(c, w),
           clash' = clash
    PROVE  OnRoute' /\ Apart'
<1>1. /\ \A d \in Callers \ {c} : call'[d] = call[d]
      /\ \/ call'[c].at = "idle"
         \/ /\ call'[c].op = call[c].op /\ call'[c].room = call[c].room
            /\ call'[c].pid = call[c].pid /\ call'[c].addr = call[c].addr
            /\ call'[c].at \in Route[call[c].op]
  BY DEF Ends, GoesOn
<1>2. OnRoute'
  BY <1>1 DEF RegistryInv, OnRoute, CallAt
<1>3. Apart'
  BY <1>1 DEF RegistryInv, Apart, CallAt
<1> QED
  BY <1>2, <1>3

\* The rooms that call c is not about see nothing of its step.
LEMMA OthersStayStaged ==
    ASSUME RegistryInv, NEW c \in Callers,
           Ends(c) \/ \E w \in CallPoints : GoesOn(c, w),
           NEW s \in Rooms \ clash, s # call[c].room,
           rooms'[s] = rooms[s], s \in assigned' <=> s \in assigned,
           rooms[s] \in auto' <=> rooms[s] \in auto
    PROVE  StagedAt(s)'
<1>1. /\ \A d \in Callers \ {c} : call'[d] = call[d]
      /\ call'[c].at = "idle" \/ call'[c].room = call[c].room
      /\ Handlers \subseteq Callers
  BY DEF Ends, GoesOn, Callers
<1>2. /\ Between(s, {"insert"})' <=> Between(s, {"insert"})
      /\ Between(s, Closing)' <=> Between(s, Closing)
      /\ Between(s, Joining)' <=> Between(s, Joining)
  BY <1>1 DEF Between, Closing, Joining
<1>3. Doing(s, Creating)' <=> Doing(s, Creating)
  BY <1>1 DEF Doing, Creating
<1>4. s \in Live' <=> s \in Live
  BY DEF Live
<1>5. StagedAt(s)
  BY DEF RegistryInv, Staged
<1> QED
  BY <1>2, <1>3, <1>4, <1>5 DEF StagedAt

\* A step of a call that leaves the existence of rooms alone, and goes on among
\* points of its kind or ends at none of those that matter.
LEMMA StagesStay ==
    ASSUME RegistryInv, NEW c \in Callers,
           Ends(c) \/ \E w \in CallPoints : GoesOn(c, w),
           call'[c].at # "insert",
           call[c].at \in Closing <=> call'[c].at \in Closing,
           c # Media => (call[c].at \in Creating <=> call'[c].at \in Creating),
           call'[c].at \in Joining => call[c].at \in Joining,
           UNCHANGED <<rooms, assigned, auto, clash>>
    PROVE  Staged'
<1>1. /\ \A d \in Callers \ {c} : call'[d] = call[d]
      /\ call'[c].at = "idle" \/ call'[c].room = call[c].room
      /\ \A t \in Handlers : t \in Callers /\ t # Media
  BY RegistryAssumption DEF Ends, GoesOn, Callers
<1>2. ASSUME NEW s \in Rooms \ clash PROVE StagedAt(s)'
  <2>1. /\ Between(s, {"insert"})' => Between(s, {"insert"})
        /\ Between(s, Closing)' <=> Between(s, Closing)
        /\ Between(s, Joining)' => Between(s, Joining)
    BY <1>1 DEF Between, Closing, Joining
  <2>2. Doing(s, Creating)' <=> Doing(s, Creating)
    BY <1>1 DEF Doing, Creating
  <2>3. Live' = Live
    BY DEF Live
  <2>4. StagedAt(s)
    BY DEF RegistryInv, Staged
  <2> QED
    BY <2>1, <2>2, <2>3, <2>4 DEF StagedAt
<1> QED
  BY <1>2 DEF Staged

\* Nothing else that changes the existence of a room runs beside a creation or
\* a closing of it, and no join beside a closing or an API's creation.
LEMMA AloneOnRoom ==
    ASSUME RegistryInv, NEW c \in Callers, NEW d \in Callers, c # d,
           call[c].at \in {"insert", "remove"} \cup Creating \cup Closing,
           call[c].room \notin clash, call[d].room = call[c].room
    PROVE  /\ call[d].at \notin {"insert", "remove"} \cup Creating \cup Closing
           /\ call[c].op # "open" => call[d].at \notin Joining
<1> USE DEF Creating, Closing, Joining
<1>1. /\ call[c].op \in {"create", "close", "open"}
      /\ call[c].op = "open" <=> c = Media
      /\ call[c].room \in Rooms \ clash
  BY InFlight, RouteOfPoint
<1>2. SUFFICES ASSUME call[d].at # "idle"
               PROVE  /\ call[d].at \notin {"insert", "remove"} \cup Creating \cup Closing
                      /\ call[c].op # "open" => call[d].at \notin Joining
  OBVIOUS
<1>3. ~Conflict(call[c].op, call[d].op)
  BY <1>1, <1>2 DEF RegistryInv, Apart, CallAt
<1>4. ASSUME call[d].at \in {"insert", "remove"} \cup Creating \cup Closing
      PROVE  FALSE
  <2>1. /\ call[d].op \in {"create", "close", "open"}
        /\ call[d].op = "open" <=> d = Media
    BY <1>4, InFlight, RouteOfPoint
  <2> QED
    BY <1>1, <1>3, <2>1 DEF Conflict
<1>5. ASSUME call[d].at \in Joining, call[c].op # "open"
      PROVE  FALSE
  <2>1. call[d].op \in {"join", "open"}
    BY <1>5, InFlight, RouteOfPoint
  <2> QED
    BY <1>1, <1>3, <1>5, <2>1 DEF Conflict
<1> QED
  BY <1>4, <1>5

-----------------------------------------------------------------------------
(* Every step of a call keeps the invariant                                *)

\* A call that begins.
LEMMA BeginKeepsInv ==
    ASSUME RegistryInv, NEW c \in Callers, CallAt(c, "idle"),
           NEW w \in {"insert", "remove", "find", "open", "expel", "leave"},
           NEW o \in Ops, NEW r \in Rooms, NEW p \in Pids \cup {Nothing},
           NEW a \in Addrs \cup {Nothing},
           BeginCall(c, w, o, r, p, a),
           w \in Route[o], c = Media <=> o = "open",
           o \notin {"create", "close"} => p \in Pids,
           o \in {"join", "open", "leave"} => a \in Addrs,
           w = "insert" => o = "create" /\ r \notin Live,
           \/ mapping' = mapping
           \/ /\ o = "leave"
              /\ mapping[a] = <<r, p>>
              /\ mapping' = [mapping EXCEPT ![a] = Nothing],
           UNCHANGED <<rooms, roomMembers, assigned, made, created, closed, history>>
    PROVE  RegistryInv'
<1> USE DEF CallAt, history
<1>0. w \in CallPoints
  BY DEF CallPoints
<1>1. /\ call' \in [Callers -> CallType]
      /\ \A d \in Callers \ {c} : call'[d] = call[d]
      /\ call'[c].at = w /\ call'[c].op = o /\ call'[c].room = r
      /\ call'[c].pid = p /\ call'[c].addr = a
      /\ clash' \in SUBSET Rooms /\ clash \subseteq clash'
      /\ r \notin clash' =>
           \A d \in Callers \ {c} :
              CallAt(d, "idle") \/ call[d].room # r \/ ~Conflict(o, call[d].op)
  BY <1>0, BeginCallEffect DEF RegistryInv
<1>2. RegistryTypeOK'
  <2>1. mapping' \in [Addrs -> (Rooms \X Pids) \cup {Nothing}]
    BY DEF RegistryInv, RegistryTypeOK
  <2> QED
    BY <1>1, <2>1 DEF RegistryInv, RegistryTypeOK, CallType
<1>3. OnRoute'
  BY <1>1 DEF RegistryInv, OnRoute
<1>4. Apart'
  <2> SUFFICES ASSUME NEW s \in Rooms \ clash', NEW d \in Callers, NEW e \in Callers,
                      d # e,
                      ~(CallAt(d, "idle")'), call'[d].room = s,
                      ~(CallAt(e, "idle")'), call'[e].room = s
               PROVE  ~Conflict(call'[d].op, call'[e].op)
    BY DEF Apart
  <2>1. CASE d # c /\ e # c
    BY <1>1, <2>1 DEF RegistryInv, Apart
  <2>2. CASE d = c
    BY <1>1, <2>2
  <2>3. CASE e = c
    BY <1>1, <2>3 DEF Conflict
  <2> QED
    BY <2>1, <2>2, <2>3
<1>5. ObjectsApart'
  BY <1>1 DEF RegistryInv, ObjectsApart, Joining
<1>6. Live' = Live
  BY DEF Live
<1>7. Staged'
  <2> SUFFICES ASSUME NEW s \in Rooms \ clash' PROVE StagedAt(s)'
    BY DEF Staged
  <2>0. StagedAt(s) /\ Handlers \subseteq Callers
    BY <1>1 DEF RegistryInv, Staged, Callers
  <2>1. /\ Between(s, Closing)' <=> Between(s, Closing)
        /\ Between(s, Joining)' <=> Between(s, Joining)
        /\ Doing(s, Creating)' <=> Doing(s, Creating)
    BY <1>1, <2>0 DEF Between, Doing, Creating, Closing, Joining
  <2>2. CASE Between(s, {"insert"})' => Between(s, {"insert"})
    BY <1>6, <2>0, <2>1, <2>2 DEF StagedAt
  <2>3. CASE w = "insert" /\ s = r
    <3>1. ~Doing(s, Creating) /\ ~Between(s, Closing)
      <4> SUFFICES ASSUME NEW d \in Callers, call[d].room = s,
                          call[d].at \in Creating \cup Closing
                   PROVE  FALSE
        BY <2>0 DEF Between, Doing
      <4>1. d # c /\ call[d].at # "idle"
        BY DEF Creating, Closing
      <4>2. ~Conflict(o, call[d].op)
        BY <1>1, <2>3, <4>1
      <4>3. call[d].op \in {"create", "close", "open"}
        BY <4>1, InFlight, RouteOfPoint DEF Creating, Closing
      <4> QED
        BY <2>3, <4>2, <4>3 DEF Conflict
    <3> QED
      BY <1>6, <2>0, <2>1, <2>3, <3>1 DEF StagedAt
  <2> QED
    BY <1>1, <2>2, <2>3 DEF Between
<1>8. Current'
  BY <1>1 DEF RegistryInv, Current, Joining
<1>9. Mapped'
  <2> SUFFICES ASSUME NEW b \in Addrs, mapping'[b] # Nothing, mapping'[b][1] \notin clash'
               PROVE  mapping'[b][1] \in Live \/ Between(mapping[b][1], {"count", "unmap"})'
    BY <1>6 DEF Mapped
  <2>1. mapping'[b] = mapping[b]
    BY DEF RegistryInv, RegistryTypeOK
  <2>2. mapping[b][1] \in Live \/ Between(mapping[b][1], {"count", "unmap"})
    BY <1>1, <2>1 DEF RegistryInv, Mapped
  <2> QED
    BY <1>1, <2>1, <2>2 DEF Between
<1>10. Admitted'
  BY <1>1, <1>6 DEF RegistryInv, Admitted
<1>11. Heard'
  <2> SUFFICES ASSUME NEW s \in Live \ clash', NEW m \in roomMembers[rooms[s]],
                      entered[m[2]] = {<<s, m[1]>>}
               PROVE  mapping'[m[2]] = <<s, m[1]>> \/ Pending(s, m)'
    BY <1>6 DEF Heard
  <2>1. CASE mapping[m[2]] = <<s, m[1]>> /\ mapping'[m[2]] # mapping[m[2]]
    <3>1. /\ o = "leave" /\ mapping[a] = <<r, p>> /\ a \in Addrs
          /\ mapping' = [mapping EXCEPT ![a] = Nothing]
      BY <2>1
    <3>2. m[2] \in Addrs
      BY LiveRooms DEF RegistryInv
    <3>3. m[2] = a
      BY <2>1, <3>1, <3>2 DEF RegistryInv, RegistryTypeOK
    <3>4. w = "leave" /\ s = r /\ m[1] = p
      BY <2>1, <3>1, <3>3 DEF Route
    <3> QED
      BY <1>1, <3>3, <3>4 DEF Pending
  <2>2. CASE Pending(s, m)
    BY <1>1, <2>2 DEF Pending
  <2> QED
    BY <1>1, <2>1, <2>2 DEF RegistryInv, Heard
<1>12. Counted'
  BY <1>1, CountsStay
<1> QED
  BY <1>2, <1>3, <1>4, <1>5, <1>7, <1>8, <1>9, <1>10, <1>11, <1>12 DEF RegistryInv

\* A call that looks at the tables and goes on, or gives up.
LEMMA MoveKeepsInv ==
    ASSUME RegistryInv, NEW c \in Callers,
           call[c].at \in {"open", "check", "find", "enter", "remove"},
           \/ Ends(c)
           \/ \E w \in {"find", "check", "insert", "enter"} \cap Route[call[c].op] :
                 /\ GoesOn(c, w)
                 /\ w = "insert" => call[c].room \notin Live
                 /\ w = "enter" => /\ call[c].room \in Live
                                   /\ call'[c].obj = rooms[call[c].room],
           UNCHANGED <<tables, clash, history>>
    PROVE  RegistryInv'
<1> USE DEF CallAt, tables, history
<1>0. /\ call' \in [Callers -> CallType]
      /\ \A d \in Callers \ {c} : call'[d] = call[d]
      /\ \/ call'[c].at = "idle"
         \/ /\ call'[c].op = call[c].op /\ call'[c].room = call[c].room
            /\ call'[c].pid = call[c].pid /\ call'[c].addr = call[c].addr
            /\ call'[c].at \in {"find", "check", "insert", "enter"}
            /\ call'[c].at \in Route[call[c].op]
            /\ call'[c].at = "insert" => call[c].room \notin Live
            /\ call'[c].at = "enter" => /\ call[c].room \in Live
                                        /\ call'[c].obj = rooms[call[c].room]
      /\ Ends(c) \/ \E w \in Route[call[c].op] \cap CallPoints : GoesOn(c, w)
  BY DEF Ends, GoesOn, CallPoints
<1>1. RegistryTypeOK'
  BY <1>0 DEF RegistryInv, RegistryTypeOK, CallType
<1>2. OnRoute' /\ Apart'
  BY <1>0, CallsStayApart
<1>4. Live' = Live
  BY DEF Live
<1>5. ObjectsApart'
  <2>1. ASSUME NEW d \in Callers, call'[d].at \in Joining
        PROVE  /\ call'[d].obj \in 1 .. made
               /\ \A r \in Rooms : rooms[r] = call'[d].obj => r = call'[d].room
    <3>1. CASE d # c
      BY <1>0, <2>1, <3>1 DEF RegistryInv, ObjectsApart
    <3>2. CASE d = c
      <4>1. call[c].room \in Live /\ call'[c].obj = rooms[call[c].room]
            /\ call'[c].room = call[c].room
        BY <1>0, <2>1, <3>2 DEF Joining
      <4>2. rooms[call[c].room] \in 1 .. made /\ call[c].room \in Rooms
            /\ rooms[call[c].room] # 0
        BY <4>1, LiveRooms DEF RegistryInv, Live
      <4> QED
        BY <3>2, <4>1, <4>2 DEF RegistryInv, ObjectsApart
    <3> QED
      BY <3>1, <3>2
  <2> QED
    BY <2>1 DEF RegistryInv, ObjectsApart
<1>6. Staged'
  <2> SUFFICES ASSUME NEW r \in Rooms \ clash PROVE StagedAt(r)'
    BY DEF Staged
  <2>0. StagedAt(r) /\ Handlers \subseteq Callers
    BY DEF RegistryInv, Staged, Callers
  <2>1. /\ Between(r, Closing)' <=> Between(r, Closing)
        /\ Doing(r, Creating)' <=> Doing(r, Creating)
    BY <1>0, <2>0 DEF Between, Doing, Creating, Closing
  <2>2. Between(r, Joining)' => r \in Live
    BY <1>0, <2>0 DEF StagedAt, Between, Joining
  <2>3. CASE Between(r, {"insert"})' => Between(r, {"insert"})
    BY <1>4, <2>0, <2>1, <2>2, <2>3 DEF StagedAt
  <2>4. CASE call'[c].at = "insert" /\ r = call[c].room
    <3>1. call[c].op = "open" /\ c = Media
      <4>1. "insert" \in Route[call[c].op] /\ call[c].op \in Ops
        BY <1>0, <2>4, InFlight
      <4>2. call[c].op # "create"
        BY InFlight DEF Route
      <4> QED
        BY <4>1, <4>2, InFlight, RouteOfPoint
    <3>2. ~Doing(r, Creating) /\ ~Between(r, Closing)
      <4> SUFFICES ASSUME NEW d \in Callers, call[d].room = r,
                          call[d].at \in Creating \cup Closing
                   PROVE  FALSE
        BY <2>0 DEF Between, Doing
      <4>1. d # c /\ call[d].at # "idle"
        BY DEF Creating, Closing
      <4>2. ~Conflict("open", call[d].op)
        BY <2>4, <3>1, <4>1 DEF RegistryInv, Apart
      <4>3. call[d].op \in {"create", "close"}
        BY <3>1, <4>1, InFlight, RouteOfPoint DEF Creating, Closing
      <4> QED
        BY <4>2, <4>3 DEF Conflict
    <3>3. r \notin Live /\ r \notin assigned
      BY <1>0, <2>0, <2>4, <3>2 DEF StagedAt
    <3> QED
      BY <1>4, <2>1, <2>2, <3>2, <3>3 DEF StagedAt
  <2> QED
    BY <1>0, <2>3, <2>4 DEF Between
<1>7. Current'
  BY <1>0 DEF RegistryInv, Current, Joining
<1>8. Mapped'
  BY <1>0, <1>4 DEF RegistryInv, Mapped, Between
<1>9. Admitted'
  BY <1>0, <1>4 DEF RegistryInv, Admitted
<1>10. Heard'
  BY <1>0, <1>4 DEF RegistryInv, Heard, Pending
<1>11. Counted'
  BY <1>0, CountsStay
<1> QED
  BY <1>1, <1>2, <1>5, <1>6, <1>7, <1>8, <1>9, <1>10, <1>11 DEF RegistryInv

\* get_or_create_room finds the room, or goes on to create_room.
LEMMA OpenRoomKeepsInv ==
    ASSUME RegistryInv, OpenRoom
    PROVE  RegistryInv'
<1> DEFINE w == IF call[Media].room \in Live THEN "find" ELSE "check"
<1>1. /\ Media \in Callers /\ w \in CallPoints
      /\ call[Media].at = "open" /\ StepTo(Media, w)
      /\ UNCHANGED <<tables, clash, history>>
  BY DEF OpenRoom, CallAt, Callers, CallPoints
<1>2. call[Media].op = "open"
  BY <1>1, InFlight
<1>3. w \in Route["open"] /\ w \in {"find", "check"}
  BY DEF Route
<1> HIDE DEF w
<1>4. GoesOn(Media, w)
  BY <1>1, StepToEffect DEF RegistryInv
<1> QED
  BY <1>1, <1>2, <1>3, <1>4, MoveKeepsInv

\* create_room refuses, or goes on to the insertion.
LEMMA CheckRoomKeepsInv ==
    ASSUME RegistryInv, CheckRoom
    PROVE  RegistryInv'
<1>1. /\ Media \in Callers /\ call[Media].at = "check"
      /\ UNCHANGED <<tables, clash, history>>
  BY DEF CheckRoom, CallAt, Callers
<1>2. call[Media].op = "open"
  BY <1>1, InFlight
<1>3. CASE EndCall(Media)
  BY <1>1, <1>3, EndCallEffect, MoveKeepsInv DEF RegistryInv
<1>4. CASE StepTo(Media, "insert") /\ MayCreate(call[Media].room)
  <2>1. GoesOn(Media, "insert")
    BY <1>1, <1>4, StepToEffect DEF RegistryInv, CallPoints
  <2>2. call[Media].room \notin Live /\ "insert" \in Route["open"]
    BY <1>4 DEF MayCreate, Route
  <2> QED
    BY <1>1, <1>2, <2>1, <2>2, MoveKeepsInv
<1> QED
  BY <1>3, <1>4 DEF CheckRoom

\* add_participant gets the object under the id, or gives up.
LEMMA FindKeepsInv ==
    ASSUME RegistryInv, NEW c \in Callers, Find(c)
    PROVE  RegistryInv'
<1>1. call[c].at = "find" /\ UNCHANGED <<tables, clash, history>>
  BY DEF Find, CallAt
<1>2. CASE EndCall(c)
  BY <1>1, <1>2, EndCallEffect, MoveKeepsInv DEF RegistryInv
<1>3. CASE /\ call[c].room \in Live
           /\ call' = [call EXCEPT ![c].at = "enter",
                                   ![c].obj = rooms[call[c].room]]
  <2>1. rooms[call[c].room] \in 0 .. MaxObjects
    BY <1>3, LiveRooms DEF RegistryInv, Objects
  <2>2. GoesOn(c, "enter") /\ call'[c].obj = rooms[call[c].room]
    BY <1>3, <2>1 DEF RegistryInv, RegistryTypeOK, CallPoints, GoesOn, CallType
  <2>3. "enter" \in Route[call[c].op]
    BY <1>1 DEF RegistryInv, OnRoute, CallAt, RegistryTypeOK, Route, Ops
  <2> QED
    BY <1>1, <1>3, <2>2, <2>3, MoveKeepsInv
<1> QED
  BY <1>2, <1>3 DEF Find

\* A room is put into the table: a new object, on a room that was neither live
\* nor assigned unless calls clashed on it.
LEMMA InsertRoomKeepsInv ==
    ASSUME RegistryInv, NEW c \in Callers, InsertRoom(c)
    PROVE  RegistryInv'
<1> DEFINE r == call[c].room
<1>1. /\ call[c].at = "insert" /\ made < MaxObjects /\ made' = made + 1
      /\ rooms' = [rooms EXCEPT ![r] = made']
      /\ auto' = IF c = Media THEN auto \cup {made'} ELSE auto
      /\ lost' = IF r \in Live THEN lost + 1 ELSE lost
      /\ StepTo(c, "tally")
      /\ UNCHANGED <<roomMembers, mapping, assigned, created, closed, clash, entered>>
  BY DEF InsertRoom, CallAt
<1>2. r \in Rooms /\ "tally" \in Route[call[c].op] /\ "tally" \in CallPoints
      /\ (c = Media <=> call[c].op = "open")
  <2>1. call[c].op \in {"create", "open"}
    BY <1>1, InFlight, RouteOfPoint
  <2> QED
    BY <1>1, <2>1, InFlight DEF Route, CallPoints
<1>3. GoesOn(c, "tally")
  BY <1>1, <1>2, StepToEffect DEF RegistryInv
<1>4. /\ made \in Nat /\ made' \in 1 .. MaxObjects /\ MaxObjects \in Nat
      /\ created \in 0 .. made /\ closed \in 0 .. made /\ lost \in 0 .. made
  BY <1>1, RegistryAssumption DEF RegistryInv, RegistryTypeOK
<1>5. /\ \A s \in Rooms \ {r} : rooms'[s] = rooms[s]
      /\ rooms'[r] = made'
      /\ \A s \in Rooms : rooms[s] \in 0 .. made
  BY <1>1, <1>2 DEF RegistryInv, RegistryTypeOK
<1>6. Live' = Live \cup {r}
  BY <1>2, <1>4, <1>5 DEF Live
<1>7. r \notin clash => StagedAt(r) /\ r \notin Live /\ r \notin assigned
  BY <1>1, <1>2 DEF RegistryInv, Staged, StagedAt, Between
<1>8. RegistryTypeOK'
  <2>1. rooms' \in [Rooms -> 0 .. made']
    <3>1. \A s \in Rooms : rooms'[s] \in 0 .. made'
      BY <1>1, <1>4, <1>5
    <3> QED
      BY <1>1, <3>1 DEF RegistryInv, RegistryTypeOK
  <2>2. auto' \subseteq Objects
    BY <1>1, <1>4 DEF RegistryInv, RegistryTypeOK, Objects
  <2>3. /\ made' \in 0 .. MaxObjects /\ lost' \in 0 .. made'
        /\ created' \in 0 .. made' /\ closed' \in 0 .. made'
    BY <1>1, <1>4
  <2> QED
    BY <1>1, <1>3, <2>1, <2>2, <2>3 DEF RegistryInv, RegistryTypeOK, GoesOn, CallType
<1>9. OnRoute' /\ Apart'
  BY <1>1, <1>2, <1>3, CallsStayApart
<1>10. ObjectsApart'
  <2>1. auto' \subseteq 1 .. made'
    <3>1. auto \subseteq 1 .. made
      BY <1>1 DEF RegistryInv, ObjectsApart
    <3>2. made' \in 1 .. made' /\ \A o \in 1 .. made : o \in 1 .. made'
      BY <1>1, <1>4
    <3> QED
      BY <1>1, <3>1, <3>2
  <2>2. ASSUME NEW s \in Rooms, NEW u \in Rooms, rooms'[s] # 0, rooms'[s] = rooms'[u]
        PROVE  s = u
    BY <1>1, <1>4, <1>5, <2>2 DEF RegistryInv, ObjectsApart
  <2>3. \A o \in Objects : o > made' => roomMembers'[o] = {}
    BY <1>1, <1>4 DEF RegistryInv, ObjectsApart, Objects
  <2>4. ASSUME NEW d \in Callers, call'[d].at \in Joining
        PROVE  /\ call'[d].obj \in 1 .. made'
               /\ \A s \in Rooms : rooms'[s] = call'[d].obj => s = call'[d].room
    <3>1. call'[d] = call[d]
      BY <1>3, <2>4 DEF GoesOn, Joining
    <3>2. /\ call[d].obj \in 1 .. made
          /\ \A s \in Rooms : rooms[s] = call[d].obj => s = call[d].room
      BY <2>4, <3>1 DEF RegistryInv, ObjectsApart
    <3> QED
      BY <1>1, <1>4, <1>5, <3>1, <3>2
  <2> QED
    BY <2>1, <2>2, <2>3, <2>4 DEF ObjectsApart
<1>11. Staged'
  <2> SUFFICES ASSUME NEW s \in Rooms \ clash PROVE StagedAt(s)'
    BY <1>1 DEF Staged
  <2>1. CASE s # r
    <3>1. rooms[s] \in auto' <=> rooms[s] \in auto
      BY <1>1, <1>4, <1>5, <2>1
    <3> QED
      BY <1>1, <1>2, <1>3, <1>5, <2>1, <3>1, OthersStayStaged
  <2>2. CASE s = r
    <3>1. ~Between(s, {"insert"})' /\ ~Between(s, Closing)'
      BY <1>1, <1>3, <2>2, AloneOnRoom DEF Between, Closing, GoesOn
    <3>2. s \in Live' /\ (c # Media <=> rooms'[s] \notin auto')
      BY <1>1, <1>4, <1>5, <1>6, <2>2 DEF RegistryInv, ObjectsApart
    <3>3. Doing(s, Creating)' <=> c # Media
      <4>1. Media \notin Handlers /\ Callers = Handlers \cup {Media}
        BY RegistryAssumption DEF Callers
      <4>2. \A d \in Callers : call'[d].room = s /\ call'[d].at \in Creating => d = c
        BY <1>1, <1>3, <2>2, AloneOnRoom DEF GoesOn
      <4>3. call'[c].room = s /\ call'[c].at \in Creating
        BY <1>3, <2>2 DEF GoesOn, Creating
      <4> QED
        BY <4>1, <4>2, <4>3 DEF Doing
    <3> QED
      BY <1>1, <1>7, <2>2, <3>1, <3>2, <3>3 DEF StagedAt
  <2> QED
    BY <2>1, <2>2
<1>12. Current'
  <2> SUFFICES ASSUME NEW d \in Callers, call'[d].at \in Joining,
                      call'[d].room \notin clash
               PROVE  rooms'[call'[d].room] = call'[d].obj
    BY <1>1 DEF Current
  <2>1. call'[d] = call[d] /\ call[d].room \in Rooms
    BY <1>3, InFlight DEF GoesOn, Joining
  <2>2. call[d].room # r
    BY <1>7, <2>1 DEF StagedAt, Between
  <2> QED
    BY <1>5, <2>1, <2>2 DEF RegistryInv, Current
<1>13. Mapped'
  <2>1. \A s \in Rooms : Between(s, {"count", "unmap"}) => Between(s, {"count", "unmap"})'
    BY <1>1, <1>3 DEF Between, GoesOn
  <2> QED
    BY <1>1, <1>6, <2>1, MappedPlaces DEF RegistryInv, Mapped
<1>14. roomMembers[made'] = {}
  BY <1>1, <1>4 DEF RegistryInv, ObjectsApart, Objects
<1>15. Admitted'
  BY <1>1, <1>3, <1>5, <1>6, <1>14 DEF RegistryInv, Admitted, CallAt, Live, GoesOn
<1>16. Heard'
  <2> SUFFICES ASSUME NEW s \in Live' \ clash, NEW m \in roomMembers[rooms'[s]],
                      entered[m[2]] = {<<s, m[1]>>}
               PROVE  mapping[m[2]] = <<s, m[1]>> \/ Pending(s, m)'
    BY <1>1 DEF Heard
  <2>1. s \in Live \ clash /\ rooms'[s] = rooms[s]
    BY <1>5, <1>6, <1>14 DEF Live
  <2>2. mapping[m[2]] = <<s, m[1]>> \/ Pending(s, m)
    BY <2>1 DEF RegistryInv, Heard
  <2>3. Pending(s, m) => Pending(s, m)'
    BY <1>1, <1>3 DEF Pending, GoesOn
  <2> QED
    BY <2>2, <2>3
<1>17. Counted'
  <2>1. Cardinality(Live') = IF r \in Live THEN Cardinality(Live)
                             ELSE Cardinality(Live) + 1
    BY <1>6, CountsAreNumbers, FS_AddElement
  <2>2. /\ CallsAt("count")' = CallsAt("count")
        /\ Cardinality(CallsAt("tally")') = Cardinality(CallsAt("tally")) + 1
    BY <1>1, <1>3, OneCallMoves DEF GoesOn
  <2> QED
    BY <1>1, <1>4, <2>1, <2>2, CountsAreNumbers DEF RegistryInv, Counted
<1> QED
  BY <1>8, <1>9, <1>10, <1>11, <1>12, <1>13, <1>15, <1>16, <1>17 DEF RegistryInv

\* A call that counts leaves rooms, participants and addresses alone.
LEMMA CounterKeepsInv ==
    ASSUME RegistryInv, NEW c \in Callers,
           NEW w \in CallPoints \cap Route[call[c].op], GoesOn(c, w),
           \/ call[c].at = "count" /\ w = "unmap"
           \/ call[c].at = "tally" /\ w = IF c = Media THEN "find" ELSE "assign",
           created' \in 0 .. made, closed' \in 0 .. made, Counted',
           UNCHANGED <<rooms, roomMembers, mapping, assigned, made, clash, history>>
    PROVE  RegistryInv'
<1> USE DEF history
<1>1. /\ \A d \in Callers \ {c} : call'[d] = call[d]
      /\ call'[c].at = w /\ call'[c].room = call[c].room
  BY DEF GoesOn
<1>2. RegistryTypeOK'
  BY DEF RegistryInv, RegistryTypeOK, GoesOn, CallType
<1>3. OnRoute' /\ Apart'
  BY CallsStayApart
<1>4. Live' = Live
  BY DEF Live
<1>5. ObjectsApart' /\ Current' /\ Admitted'
  BY <1>1, <1>4 DEF RegistryInv, ObjectsApart, Current, Admitted, CallAt, Joining
<1>6. Staged'
  BY <1>1, StagesStay DEF Creating, Closing, Joining
<1>7. Mapped'
  BY <1>1, <1>4 DEF RegistryInv, Mapped, Between
<1>8. Heard'
  BY <1>1, <1>4 DEF RegistryInv, Heard, Pending
<1> QED
  BY <1>2, <1>3, <1>5, <1>6, <1>7, <1>8 DEF RegistryInv

\* record_room_created
LEMMA TallyKeepsInv ==
    ASSUME RegistryInv, NEW c \in Callers, Tally(c)
    PROVE  RegistryInv'
<1> DEFINE w == IF c = Media THEN "find" ELSE "assign"
<1>1. /\ call[c].at = "tally" /\ created' = created + 1 /\ StepTo(c, w)
      /\ UNCHANGED <<rooms, roomMembers, mapping, assigned, made, closed, clash, history>>
  BY DEF Tally, CallAt
<1>2. w \in CallPoints \cap Route[call[c].op]
  BY <1>1, InFlight, RouteOfPoint DEF Route, CallPoints
<1>3. GoesOn(c, w)
  BY <1>1, <1>2, StepToEffect DEF RegistryInv
<1>4. /\ CallsAt("count")' = CallsAt("count")
      /\ Cardinality(CallsAt("tally")) = Cardinality(CallsAt("tally")') + 1
      /\ Cardinality(CallsAt("tally")') \in Nat
  BY <1>1, <1>3, OneCallMoves DEF GoesOn
<1>5. made \in Nat /\ created \in 0 .. made /\ closed \in 0 .. made
  BY RegistryAssumption DEF RegistryInv, RegistryTypeOK
<1>6. Live' = Live /\ lost' = lost
  BY <1>1 DEF Live, history
<1>7. Counted' /\ created' \in 0 .. made
  BY <1>1, <1>4, <1>5, <1>6 DEF RegistryInv, Counted
<1> QED
  BY <1>1, <1>2, <1>3, <1>5, <1>7, CounterKeepsInv

\* record_room_closed
LEMMA CountClosedKeepsInv ==
    ASSUME RegistryInv, NEW t \in Callers, CountClosed(t)
    PROVE  RegistryInv'
<1>1. /\ call[t].at = "count" /\ closed' = closed + 1 /\ StepTo(t, "unmap")
      /\ UNCHANGED <<rooms, roomMembers, mapping, assigned, made, created, clash, history>>
  BY DEF CountClosed, CallAt
<1>2. "unmap" \in CallPoints \cap Route[call[t].op]
  BY <1>1, InFlight, RouteOfPoint DEF Route, CallPoints
<1>3. GoesOn(t, "unmap")
  BY <1>1, <1>2, StepToEffect DEF RegistryInv
<1>4. /\ CallsAt("tally")' = CallsAt("tally")
      /\ Cardinality(CallsAt("count")) = Cardinality(CallsAt("count")') + 1
      /\ Cardinality(CallsAt("count")') \in Nat
  BY <1>1, <1>3, OneCallMoves DEF GoesOn
<1>5. /\ made \in Nat /\ created \in 0 .. made /\ closed \in 0 .. made
      /\ lost \in 0 .. made /\ Cardinality(Live) \in Nat
  <2>1. Cardinality(Live) \in Nat
    BY CountsAreNumbers
  <2> QED
    BY <2>1, RegistryAssumption DEF RegistryInv, RegistryTypeOK
<1>6. Live' = Live /\ lost' = lost
  BY <1>1 DEF Live, history
<1>7. Counted' /\ closed' \in 0 .. made
  BY <1>1, <1>4, <1>5, <1>6 DEF RegistryInv, Counted
<1> QED
  BY <1>1, <1>2, <1>3, <1>5, <1>7, CounterKeepsInv

\* The API records the room it created.
LEMMA AssignKeepsInv ==
    ASSUME RegistryInv, NEW t \in Handlers, Assign(t)
    PROVE  RegistryInv'
<1> DEFINE r == call[t].room
<1>1. /\ call[t].at = "assign"
      /\ assigned' = assigned \cup {r}
      /\ EndCall(t)
      /\ UNCHANGED <<rooms, roomMembers, mapping, made, created, closed, clash, history>>
  BY DEF Assign, CallAt
<1>2. r \in Rooms /\ t \in Callers /\ Handlers \subseteq Callers
  BY <1>1, InFlight DEF Callers
<1>3. Ends(t)
  BY <1>1, <1>2, EndCallEffect DEF RegistryInv
<1>4. RegistryTypeOK'
  BY <1>1, <1>2, <1>3 DEF RegistryInv, RegistryTypeOK, history, Ends, CallType
<1>5. OnRoute' /\ Apart'
  BY <1>1, <1>2, <1>3, CallsStayApart
<1>6. Live' = Live
  BY <1>1 DEF Live
<1>7. ObjectsApart' /\ Current' /\ Admitted'
  BY <1>1, <1>3, <1>6 DEF RegistryInv, ObjectsApart, Current, Admitted, CallAt,
                          history, Ends, Joining
<1>8. Staged'
  <2> SUFFICES ASSUME NEW s \in Rooms \ clash PROVE StagedAt(s)'
    BY <1>1 DEF Staged
  <2>1. CASE s # r
    BY <1>1, <1>2, <1>3, <2>1, OthersStayStaged DEF history
  <2>2. CASE s = r
    <3>1. /\ ~Between(s, {"insert"})' /\ ~Between(s, Closing)'
          /\ ~Doing(s, Creating)'
      BY <1>1, <1>2, <1>3, <2>2, AloneOnRoom
         DEF Between, Doing, Ends, Creating, Closing
    <3>2. StagedAt(s) /\ Doing(s, Creating)
      BY <1>1, <2>2 DEF RegistryInv, Staged, Doing, Creating
    <3> QED
      BY <1>1, <1>6, <2>2, <3>1, <3>2 DEF StagedAt, history
  <2> QED
    BY <2>1, <2>2
<1>9. Mapped'
  BY <1>1, <1>3, <1>6 DEF RegistryInv, Mapped, Between, Ends
<1>10. Heard'
  BY <1>1, <1>3, <1>6 DEF RegistryInv, Heard, Pending, history, Ends
<1>11. Counted'
  BY <1>1, <1>2, <1>3, CountsStay DEF history, Ends
<1> QED
  BY <1>4, <1>5, <1>7, <1>8, <1>9, <1>10, <1>11 DEF RegistryInv

\* close_room takes the room out of the table, if it is there.
LEMMA RemoveRoomKeepsInv ==
    ASSUME RegistryInv, NEW t \in Callers, RemoveRoom(t)
    PROVE  RegistryInv'
<1> DEFINE r == call[t].room
<1>1. /\ call[t].at = "remove"
      /\ UNCHANGED <<roomMembers, mapping, assigned, made, created, closed, clash, history>>
  BY DEF RemoveRoom, CallAt
<1>2. r \in Rooms /\ call[t].op = "close"
  BY <1>1, InFlight, RouteOfPoint
<1>3. CASE EndCall(t) /\ UNCHANGED rooms
  BY <1>1, <1>3, EndCallEffect, MoveKeepsInv DEF RegistryInv, tables
<1>4. CASE /\ r \in Live
           /\ rooms' = [rooms EXCEPT ![r] = 0]
           /\ StepTo(t, "count")
  <2> USE DEF history
  <2>1. GoesOn(t, "count") /\ "count" \in CallPoints /\ "count" \in Route[call[t].op]
    BY <1>2, <1>4, StepToEffect DEF RegistryInv, CallPoints, Route
  <2>2. /\ \A s \in Rooms \ {r} : rooms'[s] = rooms[s]
        /\ rooms'[r] = 0
    BY <1>2, <1>4 DEF RegistryInv, RegistryTypeOK
  <2>3. Live' = Live \ {r}
    BY <1>2, <2>2 DEF Live
  <2>4. RegistryTypeOK'
    <3>1. \A s \in Rooms : rooms'[s] \in 0 .. made
      BY <2>2, RegistryAssumption DEF RegistryInv, RegistryTypeOK
    <3> QED
      BY <1>1, <1>4, <2>1, <3>1 DEF RegistryInv, RegistryTypeOK, GoesOn, CallType
  <2>5. OnRoute' /\ Apart'
    BY <1>1, <2>1, CallsStayApart
  <2>6. ObjectsApart'
    <3>1. ASSUME NEW s \in Rooms, NEW u \in Rooms, rooms'[s] # 0, rooms'[s] = rooms'[u]
          PROVE  s = u
      BY <2>2, <3>1 DEF RegistryInv, ObjectsApart
    <3>2. ASSUME NEW d \in Callers, call'[d].at \in Joining
          PROVE  /\ call'[d].obj \in 1 .. made
                 /\ \A s \in Rooms : rooms'[s] = call'[d].obj => s = call'[d].room
      <4>1. call'[d] = call[d] /\ made \in Nat
        BY <2>1, <3>2, RegistryAssumption DEF GoesOn, Joining, RegistryInv, RegistryTypeOK
      <4>2. /\ call[d].obj \in 1 .. made
            /\ \A s \in Rooms : rooms[s] = call[d].obj => s = call[d].room
        BY <3>2, <4>1 DEF RegistryInv, ObjectsApart
      <4> QED
        BY <2>2, <4>1, <4>2
    <3> QED
      BY <1>1, <3>1, <3>2 DEF RegistryInv, ObjectsApart
  <2>7. Staged'
    <3> SUFFICES ASSUME NEW s \in Rooms \ clash PROVE StagedAt(s)'
      BY <1>1 DEF Staged
    <3>1. CASE s # r
      BY <1>1, <2>1, <2>2, <3>1, OthersStayStaged
    <3>2. CASE s = r
      <4>1. /\ ~Between(s, {"insert"})' /\ ~Between(s, Joining)' /\ ~Doing(s, Creating)'
        <5>1. \A d \in Callers : d # t => call'[d] = call[d]
          BY <2>1 DEF GoesOn
        <5>2. call'[t].at = "count" /\ Handlers \subseteq Callers
          BY <2>1 DEF GoesOn, Callers
        <5> QED
          BY <1>1, <1>2, <3>2, <5>1, <5>2, AloneOnRoom
             DEF Between, Doing, Creating, Joining
      <4>2. Between(s, Closing)'
        BY <2>1, <3>2 DEF Between, Closing, GoesOn
      <4> QED
        BY <2>3, <3>2, <4>1, <4>2 DEF StagedAt
    <3> QED
      BY <3>1, <3>2
  <2>8. Current'
    <3> SUFFICES ASSUME NEW d \in Callers, call'[d].at \in Joining,
                        call'[d].room \notin clash
                 PROVE  rooms'[call'[d].room] = call'[d].obj
      BY <1>1 DEF Current
    <3>1. d # t /\ call'[d] = call[d] /\ call[d].room \in Rooms
      BY <2>1, InFlight DEF GoesOn, Joining
    <3>2. call[d].room # r
      BY <1>1, <1>2, <3>1, AloneOnRoom
    <3> QED
      BY <2>2, <3>1, <3>2 DEF RegistryInv, Current
  <2>9. Mapped'
    <3>1. \A s \in Rooms : \/ ~Between(s, {"count", "unmap"})
                           \/ Between(s, {"count", "unmap"})'
      BY <1>1, <2>1 DEF Between, GoesOn
    <3>2. ASSUME NEW s \in Rooms, s = r PROVE Between(s, {"count", "unmap"})'
      BY <2>1, <3>2 DEF Between, GoesOn
    <3> SUFFICES ASSUME NEW a \in Addrs, mapping[a] # Nothing, mapping[a][1] \notin clash
                 PROVE  mapping[a][1] \in Live' \/ Between(mapping[a][1], {"count", "unmap"})'
      BY <1>1 DEF Mapped
    <3>3. /\ mapping[a][1] \in Rooms
          /\ mapping[a][1] \in Live \/ Between(mapping[a][1], {"count", "unmap"})
      BY MappedPlaces DEF RegistryInv, Mapped
    <3> QED
      BY <1>1, <2>3, <3>1, <3>2, <3>3 DEF Between
  <2>10. Admitted'
    BY <1>1, <2>1, <2>2, <2>3 DEF RegistryInv, Admitted, CallAt, Live, GoesOn
  <2>11. Heard'
    <3> SUFFICES ASSUME NEW s \in Live' \ clash, NEW m \in roomMembers[rooms'[s]],
                        entered[m[2]] = {<<s, m[1]>>}
                 PROVE  mapping[m[2]] = <<s, m[1]>> \/ Pending(s, m)'
      BY <1>1 DEF Heard
    <3>1. s \in Live \ clash /\ rooms'[s] = rooms[s]
      BY <2>2, <2>3 DEF Live
    <3>2. mapping[m[2]] = <<s, m[1]>> \/ Pending(s, m)
      BY <3>1 DEF RegistryInv, Heard
    <3>3. Pending(s, m) => Pending(s, m)'
      BY <1>1, <2>1 DEF Pending, GoesOn
    <3> QED
      BY <3>2, <3>3
  <2>12. Counted'
    <3>1. /\ CallsAt("tally")' = CallsAt("tally")
          /\ Cardinality(CallsAt("count")') = Cardinality(CallsAt("count")) + 1
      BY <1>1, <2>1, OneCallMoves DEF GoesOn
    <3>2. Cardinality(Live) = Cardinality(Live') + 1
      <4>1. IsFiniteSet(Live') /\ r \notin Live' /\ Live' \cup {r} = Live
        BY <1>4, <2>3, CountsAreNumbers, FS_Subset
      <4> QED
        BY <4>1, FS_AddElement
    <3>3. Cardinality(Live') \in Nat
      BY <2>3, CountsAreNumbers, FS_Subset, FS_CardinalityType
    <3>4. Cardinality(CallsAt("count")) \in Nat
      BY CountsAreNumbers
    <3>5. closed \in Nat /\ lost \in Nat
      BY RegistryAssumption DEF RegistryInv, RegistryTypeOK
    <3> QED
      BY <1>1, <3>1, <3>2, <3>3, <3>4, <3>5 DEF RegistryInv, Counted
  <2> QED
    BY <2>4, <2>5, <2>6, <2>7, <2>8, <2>9, <2>10, <2>11, <2>12 DEF RegistryInv
<1> QED
  BY <1>3, <1>4 DEF RemoveRoom

\* close_room forgets the addresses of the room.
LEMMA UnmapKeepsInv ==
    ASSUME RegistryInv, NEW t \in Callers, Unmap(t)
    PROVE  RegistryInv'
<1> USE DEF history
<1> DEFINE r == call[t].room
<1>1. /\ call[t].at = "unmap"
      /\ mapping' = [a \in Addrs |-> IF MappedTo(a, r) THEN Nothing ELSE mapping[a]]
      /\ StepTo(t, "unassign")
      /\ UNCHANGED <<rooms, roomMembers, assigned, made, created, closed, clash, history>>
  BY DEF Unmap, CallAt
<1>2. /\ r \in Rooms /\ call[t].op = "close"
      /\ "unassign" \in Route[call[t].op] /\ "unassign" \in CallPoints
  BY <1>1, InFlight, RouteOfPoint DEF Route, CallPoints
<1>3. GoesOn(t, "unassign")
  BY <1>1, <1>2, StepToEffect DEF RegistryInv
<1>4. RegistryTypeOK'
  BY <1>1, <1>3 DEF RegistryInv, RegistryTypeOK, GoesOn, CallType
<1>5. OnRoute' /\ Apart'
  BY <1>1, <1>2, <1>3, CallsStayApart
<1>6. Live' = Live
  BY <1>1 DEF Live
<1>7. ObjectsApart' /\ Current' /\ Admitted'
  <2>1. ObjectsApart'
    BY <1>1, <1>3 DEF RegistryInv, ObjectsApart, GoesOn, Joining
  <2>2. Current' /\ Admitted'
    BY <1>1, <1>3, <1>6 DEF RegistryInv, Current, Admitted, CallAt, GoesOn, Joining
  <2> QED
    BY <2>1, <2>2
<1>8. Staged'
  <2>1. call'[t].at = "unassign"
    BY <1>3 DEF GoesOn
  <2> QED
    BY <1>1, <1>2, <1>3, <2>1, StagesStay DEF Closing, Creating, Joining
<1>9. Mapped'
  <2> SUFFICES ASSUME NEW a \in Addrs, mapping'[a] # Nothing, mapping'[a][1] \notin clash
               PROVE  mapping'[a][1] \in Live \/ Between(mapping[a][1], {"count", "unmap"})'
    BY <1>1, <1>6 DEF Mapped
  <2>1. mapping'[a] = mapping[a] /\ mapping[a][1] # r
    BY <1>1 DEF MappedTo
  <2>2. Between(mapping[a][1], {"count", "unmap"}) => Between(mapping[a][1], {"count", "unmap"})'
    BY <1>3, <2>1 DEF Between, GoesOn
  <2> QED
    BY <2>1, <2>2 DEF RegistryInv, Mapped
<1>10. Heard'
  <2>1. r \notin clash => r \notin Live
    BY <1>1, <1>2 DEF RegistryInv, Staged, StagedAt, Between, Closing
  <2> SUFFICES ASSUME NEW s \in Live \ clash, NEW m \in roomMembers[rooms[s]],
                      entered[m[2]] = {<<s, m[1]>>}
               PROVE  mapping'[m[2]] = <<s, m[1]>> \/ Pending(s, m)'
    BY <1>1, <1>6 DEF Heard
  <2>2. CASE mapping[m[2]] = <<s, m[1]>>
    <3>1. m[2] \in Addrs
      BY LiveRooms DEF RegistryInv
    <3> QED
      BY <1>1, <2>1, <2>2, <3>1 DEF MappedTo
  <2>3. CASE Pending(s, m)
    BY <1>1, <1>3, <2>3 DEF Pending, GoesOn
  <2> QED
    BY <2>2, <2>3 DEF RegistryInv, Heard
<1>11. Counted'
  BY <1>1, <1>3, CountsStay DEF GoesOn
<1> QED
  BY <1>4, <1>5, <1>7, <1>8, <1>9, <1>10, <1>11 DEF RegistryInv

\* The API forgets the room it closed.
LEMMA UnassignKeepsInv ==
    ASSUME RegistryInv, NEW t \in Handlers, Unassign(t)
    PROVE  RegistryInv'
<1> USE DEF history
<1> DEFINE r == call[t].room
<1>1. /\ call[t].at = "unassign"
      /\ assigned' = assigned \ {r}
      /\ EndCall(t)
      /\ UNCHANGED <<rooms, roomMembers, mapping, made, created, closed, clash, history>>
  BY DEF Unassign, CallAt
<1>2. r \in Rooms /\ t \in Callers /\ Handlers \subseteq Callers
  BY <1>1, InFlight DEF Callers
<1>3. Ends(t)
  BY <1>1, <1>2, EndCallEffect DEF RegistryInv
<1>4. RegistryTypeOK'
  BY <1>1, <1>3 DEF RegistryInv, RegistryTypeOK, Ends, CallType
<1>5. OnRoute' /\ Apart'
  BY <1>1, <1>2, <1>3, CallsStayApart
<1>6. Live' = Live
  BY <1>1 DEF Live
<1>7. ObjectsApart' /\ Current' /\ Admitted'
  <2>1. ObjectsApart'
    BY <1>1, <1>3 DEF RegistryInv, ObjectsApart, Ends, Joining
  <2>2. Current' /\ Admitted'
    BY <1>1, <1>3, <1>6 DEF RegistryInv, Current, Admitted, CallAt, Ends, Joining
  <2> QED
    BY <2>1, <2>2
<1>8. Staged'
  <2> SUFFICES ASSUME NEW s \in Rooms \ clash PROVE StagedAt(s)'
    BY <1>1 DEF Staged
  <2>1. CASE s # r
    BY <1>1, <1>2, <1>3, <2>1, OthersStayStaged
  <2>2. CASE s = r
    <3>1. s \notin Live /\ s \notin assigned'
      BY <1>1, <1>2, <2>2 DEF RegistryInv, Staged, StagedAt, Between, Closing
    <3>2. call[t].op = "close"
      BY <1>1, <1>2, InFlight, RouteOfPoint
    <3>3. /\ ~Between(s, Joining)' /\ ~Doing(s, Creating)'
      BY <1>1, <1>2, <1>3, <2>2, <3>2, AloneOnRoom
         DEF Between, Doing, Ends, Creating, Closing, Joining
    <3> QED
      BY <1>6, <3>1, <3>3 DEF StagedAt
  <2> QED
    BY <2>1, <2>2
<1>9. Mapped'
  BY <1>1, <1>3, <1>6 DEF RegistryInv, Mapped, Between, Ends
<1>10. Heard'
  BY <1>1, <1>3, <1>6 DEF RegistryInv, Heard, Pending, Ends
<1>11. Counted'
  BY <1>1, <1>2, <1>3, CountsStay DEF Ends
<1> QED
  BY <1>4, <1>5, <1>7, <1>8, <1>9, <1>10, <1>11 DEF RegistryInv

\* The room lets the participant in, or refuses it.
LEMMA EnterKeepsInv ==
    ASSUME RegistryInv, NEW c \in Callers, Enter(c)
    PROVE  RegistryInv'
<1> DEFINE r == call[c].room
<1> DEFINE o == call[c].obj
<1> DEFINE p == call[c].pid
<1> DEFINE b == call[c].addr
<1>1. /\ call[c].at = "enter"
      /\ UNCHANGED <<rooms, mapping, assigned, made, created, closed, clash, auto, lost>>
  BY DEF Enter, CallAt
<1>2. CASE EndCall(c) /\ UNCHANGED <<roomMembers, entered>>
  BY <1>1, <1>2, EndCallEffect, MoveKeepsInv DEF RegistryInv, tables, history
<1>3. CASE /\ roomMembers' = [roomMembers EXCEPT ![o] = @ \cup {<<p, b>>}]
           /\ entered' = [entered EXCEPT ![b] = LetIn(@, <<r, p>>)]
           /\ StepTo(c, "map")
  <2>1. GoesOn(c, "map") /\ call'[c].obj = o /\ "map" \in CallPoints
    BY <1>3, StepToEffect DEF RegistryInv, CallPoints
  <2>2. r \in Rooms /\ p \in Pids /\ b \in Addrs /\ call[c].op \in {"join", "open"}
    <3>1. call[c].op \in {"join", "open"}
      BY <1>1, InFlight, RouteOfPoint
    <3> QED
      BY <1>1, <3>1, InFlight
  <2>3. o \in 1 .. made /\ o \in Objects /\ made \in Nat
    <3>1. o \in 1 .. made /\ made \in 0 .. MaxObjects /\ MaxObjects \in Nat
      BY <1>1, RegistryAssumption DEF RegistryInv, RegistryTypeOK, ObjectsApart, Joining
    <3> QED
      BY <3>1 DEF Objects
  <2>4. /\ \A x \in Objects :
              /\ x # o => roomMembers'[x] = roomMembers[x]
              /\ roomMembers'[x] \subseteq roomMembers[x] \cup {<<p, b>>}
        /\ \A a \in Addrs \ {b} : entered'[a] = entered[a]
        /\ entered[b] \cup {<<r, p>>} \subseteq entered'[b]
        /\ entered'[b] \subseteq Rooms \X Pids
    <3>1. entered[b] \subseteq Rooms \X Pids /\ <<r, p>> \in Rooms \X Pids
      BY <2>2 DEF RegistryInv, RegistryTypeOK
    <3>2. /\ entered[b] \cup {<<r, p>>} \subseteq LetIn(entered[b], <<r, p>>)
          /\ LetIn(entered[b], <<r, p>>) \subseteq Rooms \X Pids
      BY <3>1 DEF LetIn
    <3>3. entered'[b] = LetIn(entered[b], <<r, p>>)
          /\ \A a \in Addrs \ {b} : entered'[a] = entered[a]
      BY <1>3, <2>2 DEF RegistryInv, RegistryTypeOK
    <3>4. \A x \in Objects :
              /\ x # o => roomMembers'[x] = roomMembers[x]
              /\ roomMembers'[x] \subseteq roomMembers[x] \cup {<<p, b>>}
      BY <1>3, <2>3 DEF RegistryInv, RegistryTypeOK
    <3> QED
      BY <3>2, <3>3, <3>4
  <2>5. RegistryTypeOK'
    <3>1. roomMembers' \in [Objects -> SUBSET (Pids \X Addrs)]
      BY <1>3, <2>2, <2>3 DEF RegistryInv, RegistryTypeOK
    <3>2. entered' \in [Addrs -> SUBSET (Rooms \X Pids)]
      <4>1. \A a \in Addrs : entered'[a] \subseteq Rooms \X Pids
        BY <2>4 DEF RegistryInv, RegistryTypeOK
      <4> QED
        BY <1>3, <4>1 DEF RegistryInv, RegistryTypeOK
    <3> QED
      BY <1>1, <2>1, <3>1, <3>2 DEF RegistryInv, RegistryTypeOK, GoesOn, CallType
  <2>6. OnRoute' /\ Apart'
    <3>1. "map" \in Route[call[c].op]
      BY <2>2 DEF Route
    <3> QED
      BY <1>1, <2>1, <3>1, CallsStayApart
  <2>7. Live' = Live
    BY <1>1 DEF Live
  <2>8. ObjectsApart'
    <3>1. \A x \in Objects : x > made => roomMembers'[x] = {}
      BY <2>3, <2>4 DEF RegistryInv, ObjectsApart, Objects
    <3> QED
      BY <1>1, <2>1, <3>1 DEF RegistryInv, ObjectsApart, GoesOn, Joining
  <2>9. Staged'
    <3>1. call'[c].at = "map"
      BY <2>1 DEF GoesOn
    <3> QED
      BY <1>1, <2>1, <3>1, StagesStay DEF Closing, Creating, Joining
  <2>10. Current'
    BY <1>1, <2>1 DEF RegistryInv, Current, GoesOn, Joining
  <2>11. Mapped'
    BY <1>1, <2>1, <2>7 DEF RegistryInv, Mapped, Between, GoesOn
  <2>12. \A s \in Rooms : rooms[s] = o => s = r
    BY <1>1 DEF RegistryInv, ObjectsApart, Joining
  <2>13. Admitted'
    <3>1. ASSUME NEW s \in Live, NEW m \in roomMembers'[rooms[s]]
          PROVE  <<s, m[1]>> \in entered'[m[2]]
      <4>1. /\ rooms[s] \in Objects /\ s \in Rooms
            /\ \A n \in roomMembers[rooms[s]] : n[2] \in Addrs
        BY LiveRooms DEF RegistryInv
      <4>2. CASE m \in roomMembers[rooms[s]]
        BY <2>4, <4>1, <4>2 DEF RegistryInv, Admitted
      <4>3. CASE m \notin roomMembers[rooms[s]]
        <5>1. rooms[s] = o /\ m = <<p, b>>
          BY <2>4, <4>1, <4>3
        <5> QED
          BY <2>4, <2>12, <4>1, <5>1
      <4> QED
        BY <4>2, <4>3
    <3>2. ASSUME NEW d \in Callers, call'[d].at = "map"
          PROVE  <<call'[d].room, call'[d].pid>> \in entered'[call'[d].addr]
      <4>1. CASE d = c
        BY <2>1, <2>4, <4>1 DEF GoesOn
      <4>2. CASE d # c
        <5>1. call'[d] = call[d]
          BY <2>1, <4>2 DEF GoesOn
        <5>2. call[d].addr \in Addrs
          BY <3>2, <5>1, InFlight, RouteOfPoint
        <5> QED
          BY <2>4, <3>2, <5>1, <5>2 DEF RegistryInv, Admitted, CallAt
      <4> QED
        BY <4>1, <4>2
    <3> QED
      BY <1>1, <2>7, <3>1, <3>2 DEF Admitted, CallAt
  <2>14. Heard'
    <3> SUFFICES ASSUME NEW s \in Live \ clash, NEW m \in roomMembers'[rooms[s]],
                        entered'[m[2]] = {<<s, m[1]>>}
                 PROVE  mapping[m[2]] = <<s, m[1]>> \/ Pending(s, m)'
      BY <1>1, <2>7 DEF Heard
    <3>1. CASE m[2] = b
      <4>1. s = r /\ m[1] = p
        <5>1. <<r, p>> = <<s, m[1]>>
          BY <2>4, <3>1
        <5> QED
          BY <5>1
      <4> QED
        BY <2>1, <3>1, <4>1 DEF Pending, GoesOn
    <3>2. CASE m[2] # b
      <4>1. /\ rooms[s] \in Objects
            /\ \A n \in roomMembers[rooms[s]] : n[2] \in Addrs
        BY LiveRooms DEF RegistryInv
      <4>2. m \in roomMembers[rooms[s]]
        BY <2>4, <3>2, <4>1
      <4>3. entered[m[2]] = {<<s, m[1]>>}
        BY <2>4, <3>2, <4>1, <4>2
      <4>4. mapping[m[2]] = <<s, m[1]>> \/ Pending(s, m)
        BY <4>2, <4>3 DEF RegistryInv, Heard
      <4> QED
        BY <1>1, <2>1, <4>4 DEF Pending, GoesOn
    <3> QED
      BY <3>1, <3>2
  <2>15. Counted'
    BY <1>1, <2>1, CountsStay DEF GoesOn
  <2> QED
    BY <2>5, <2>6, <2>8, <2>9, <2>10, <2>11, <2>13, <2>14, <2>15 DEF RegistryInv
<1> QED
  BY <1>2, <1>3 DEF Enter

\* The address is mapped to the room, and to the participant that entered.
LEMMA MapKeepsInv ==
    ASSUME RegistryInv, NEW c \in Callers, Map(c)
    PROVE  RegistryInv'
<1> USE DEF history
<1> DEFINE r == call[c].room
<1> DEFINE p == call[c].pid
<1> DEFINE b == call[c].addr
<1>1. /\ call[c].at = "map"
      /\ mapping' = [mapping EXCEPT ![b] = <<r, p>>]
      /\ EndCall(c)
      /\ UNCHANGED <<rooms, roomMembers, assigned, made, created, closed, clash, history>>
  BY DEF Map, CallAt
<1>2. r \in Rooms /\ p \in Pids /\ b \in Addrs
  <2>1. call[c].op \in {"join", "open"}
    BY <1>1, InFlight, RouteOfPoint
  <2> QED
    BY <1>1, <2>1, InFlight
<1>3. Ends(c)
  BY <1>1, EndCallEffect DEF RegistryInv
<1>4. /\ \A a \in Addrs \ {b} : mapping'[a] = mapping[a]
      /\ mapping'[b] = <<r, p>>
  BY <1>1, <1>2 DEF RegistryInv, RegistryTypeOK
<1>5. RegistryTypeOK'
  <2>1. mapping' \in [Addrs -> (Rooms \X Pids) \cup {Nothing}]
    BY <1>1, <1>2 DEF RegistryInv, RegistryTypeOK
  <2> QED
    BY <1>1, <1>3, <2>1 DEF RegistryInv, RegistryTypeOK, Ends, CallType
<1>6. OnRoute' /\ Apart'
  BY <1>1, <1>3, CallsStayApart
<1>7. Live' = Live
  BY <1>1 DEF Live
<1>8. ObjectsApart' /\ Current' /\ Admitted'
  <2>1. ObjectsApart'
    BY <1>1, <1>3 DEF RegistryInv, ObjectsApart, Ends, Joining
  <2>2. Current' /\ Admitted'
    BY <1>1, <1>3, <1>7 DEF RegistryInv, Current, Admitted, CallAt, Ends, Joining
  <2> QED
    BY <2>1, <2>2
<1>9. Staged'
  <2>1. call'[c].at = "idle"
    BY <1>3 DEF Ends
  <2> QED
    BY <1>1, <1>3, <2>1, StagesStay DEF Closing, Creating, Joining
<1>10. Mapped'
  <2> SUFFICES ASSUME NEW a \in Addrs, mapping'[a] # Nothing, mapping'[a][1] \notin clash
               PROVE  mapping'[a][1] \in Live \/ Between(mapping[a][1], {"count", "unmap"})'
    BY <1>1, <1>7 DEF Mapped
  <2>1. CASE a = b
    <3>1. mapping'[a][1] = r /\ r \in Rooms \ clash /\ Between(r, Joining)
      BY <1>1, <1>2, <1>4, <2>1 DEF Between, Joining
    <3> QED
      BY <3>1 DEF RegistryInv, Staged, StagedAt
  <2>2. CASE a # b
    <3>1. mapping'[a] = mapping[a]
      BY <1>4, <2>2
    <3>2. Between(mapping[a][1], {"count", "unmap"})
             => Between(mapping[a][1], {"count", "unmap"})'
      BY <1>1, <1>3, <3>1 DEF Between, Ends
    <3> QED
      BY <3>1, <3>2 DEF RegistryInv, Mapped
  <2> QED
    BY <2>1, <2>2
<1>11. Heard'
  <2> SUFFICES ASSUME NEW s \in Live \ clash, NEW m \in roomMembers[rooms[s]],
                      entered[m[2]] = {<<s, m[1]>>}
               PROVE  mapping'[m[2]] = <<s, m[1]>> \/ Pending(s, m)'
    BY <1>1, <1>7 DEF Heard
  <2>1. CASE m[2] = b
    <3>1. <<r, p>> \in entered[b]
      BY <1>1 DEF RegistryInv, Admitted, CallAt
    <3> QED
      BY <1>4, <2>1, <3>1
  <2>2. CASE m[2] # b
    <3>1. m[2] \in Addrs
      BY LiveRooms DEF RegistryInv
    <3>2. mapping[m[2]] = <<s, m[1]>> \/ Pending(s, m)
      BY DEF RegistryInv, Heard
    <3>3. Pending(s, m) => Pending(s, m)'
      BY <1>1, <1>3, <2>2 DEF Pending, Ends
    <3> QED
      BY <1>4, <2>2, <3>1, <3>2, <3>3
  <2> QED
    BY <2>1, <2>2
<1>12. Counted'
  BY <1>1, <1>3, CountsStay DEF Ends
<1> QED
  BY <1>5, <1>6, <1>8, <1>9, <1>10, <1>11, <1>12 DEF RegistryInv

\* The API's removal of a participant and the server's end alike.
LEMMA DepartureKeepsInv ==
    ASSUME RegistryInv, NEW t \in Callers, call[t].at \in {"expel", "leave"}, Depart(t)
    PROVE  RegistryInv'
<1> USE DEF history
<1> DEFINE r == call[t].room
<1> DEFINE p == call[t].pid
<1>1. /\ EndCall(t)
      /\ roomMembers' = IF r \in Live
                        THEN [roomMembers EXCEPT ![rooms[r]] = Without(rooms[r], p)]
                        ELSE roomMembers
      /\ UNCHANGED <<rooms, mapping, assigned, made, created, closed, clash, history>>
  BY DEF Depart
<1>2. Ends(t) /\ call'[t].at = "idle"
  BY <1>1, EndCallEffect DEF RegistryInv, Ends
<1>3. /\ roomMembers' \in [Objects -> SUBSET (Pids \X Addrs)]
      /\ \A o \in Objects : roomMembers'[o] \subseteq roomMembers[o]
      /\ r \in Live => \A m \in roomMembers'[rooms[r]] : m[1] # p
  <2>1. roomMembers \in [Objects -> SUBSET (Pids \X Addrs)]
    BY DEF RegistryInv, RegistryTypeOK
  <2>2. r \in Live => rooms[r] \in Objects
    BY LiveRooms DEF RegistryInv
  <2>3. /\ Without(rooms[r], p) \subseteq roomMembers[rooms[r]]
        /\ \A m \in Without(rooms[r], p) : m[1] # p
    BY DEF Without
  <2> HIDE DEF r, p
  <2> QED
    BY <1>1, <2>1, <2>2, <2>3
<1>4. RegistryTypeOK'
  BY <1>1, <1>2, <1>3 DEF RegistryInv, RegistryTypeOK, Ends, CallType
<1>5. OnRoute' /\ Apart'
  BY <1>1, <1>2, CallsStayApart
<1>6. Live' = Live
  BY <1>1 DEF Live
<1>7. ObjectsApart'
  BY <1>1, <1>2, <1>3 DEF RegistryInv, ObjectsApart, Ends, Joining
<1>8. Staged'
  BY <1>1, <1>2, StagesStay DEF Closing, Creating, Joining
<1>9. Current'
  BY <1>1, <1>2 DEF RegistryInv, Current, Ends, Joining
<1>10. Mapped'
  BY <1>1, <1>2, <1>6 DEF RegistryInv, Mapped, Between, Ends
<1>11. \A s \in Live : roomMembers'[rooms[s]] \subseteq roomMembers[rooms[s]]
  BY <1>3, LiveRooms DEF RegistryInv
<1>12. Admitted'
  BY <1>1, <1>2, <1>6, <1>11 DEF RegistryInv, Admitted, CallAt, Ends
<1>13. Heard'
  <2> SUFFICES ASSUME NEW s \in Live \ clash, NEW m \in roomMembers'[rooms[s]],
                      entered[m[2]] = {<<s, m[1]>>}
               PROVE  mapping[m[2]] = <<s, m[1]>> \/ Pending(s, m)'
    BY <1>1, <1>6 DEF Heard
  <2>1. mapping[m[2]] = <<s, m[1]>> \/ Pending(s, m)
    BY <1>11 DEF RegistryInv, Heard
  <2>2. ~(r = s /\ p = m[1])
    BY <1>3
  <2> HIDE DEF r, p
  <2>3. Pending(s, m) => Pending(s, m)'
    BY <1>2, <2>2 DEF Pending, Ends, r, p
  <2> QED
    BY <2>1, <2>3
<1>14. Counted'
  BY <1>1, <1>2, CountsStay DEF Ends
<1> QED
  BY <1>4, <1>5, <1>7, <1>8, <1>9, <1>10, <1>12, <1>13, <1>14 DEF RegistryInv

\* Nothing exists at the start.
LEMMA InitEstablishes == RegistryInit => RegistryInv
<1> SUFFICES ASSUME RegistryInit PROVE RegistryInv
  OBVIOUS
<1>1. Live = {} /\ Cardinality(Live) = 0
  BY FS_EmptySet DEF RegistryInit, Live
<1>2. \A c \in Callers : call[c].at = "idle"
  BY DEF RegistryInit, NoCall
<1>3. RegistryTypeOK
  BY RegistryAssumption DEF RegistryInit, RegistryTypeOK, NoCall, CallPoints, Ops
<1>4. OnRoute /\ Apart
  BY <1>2 DEF OnRoute, Apart, CallAt
<1>5. ObjectsApart
  BY <1>2 DEF RegistryInit, ObjectsApart, Objects, Joining
<1>6. Staged /\ Current
  <2>1. Handlers \subseteq Callers
    BY DEF Callers
  <2> QED
    BY <1>1, <1>2, <2>1 DEF RegistryInit, Staged, StagedAt, Current, Between, Doing,
                            Creating, Closing, Joining
<1>7. Mapped /\ Admitted /\ Heard
  BY <1>1, <1>2 DEF RegistryInit, Mapped, Admitted, Heard, CallAt
<1>8. Counted
  <2>1. CallsAt("tally") = {} /\ CallsAt("count") = {}
    BY <1>2 DEF CallsAt, CallAt
  <2> QED
    BY <1>1, <2>1 DEF RegistryInit, Counted
<1> QED
  BY <1>3, <1>4, <1>5, <1>6, <1>7, <1>8 DEF RegistryInv

\* The API calls that begin with a look at the tables.
LEMMA BeginningsKeepInv ==
    ASSUME RegistryInv, NEW t \in Handlers, NEW r \in Rooms
    PROVE  /\ CreateRoom(t, r) \/ CloseRoom(t, r) => RegistryInv'
           /\ \A p \in Pids : ExpelParticipant(t, r, p) => RegistryInv'
           /\ \A p \in Pids, a \in Addrs : AddParticipant(t, r, p, a) => RegistryInv'
<1>1. t \in Callers /\ t # Media
  BY RegistryAssumption DEF Callers
<1> USE DEF tables, Ops, Route
<1>2. ASSUME CreateRoom(t, r) PROVE RegistryInv'
  <2>1. /\ CallAt(t, "idle") /\ r \notin Live
        /\ BeginCall(t, "insert", "create", r, Nothing, Nothing)
        /\ UNCHANGED <<tables, history>>
    BY <1>2 DEF CreateRoom, MayCreate
  <2> QED
    BY <1>1, <2>1, BeginKeepsInv
<1>3. ASSUME CloseRoom(t, r) PROVE RegistryInv'
  <2>1. /\ CallAt(t, "idle")
        /\ BeginCall(t, "remove", "close", r, Nothing, Nothing)
        /\ UNCHANGED <<tables, history>>
    BY <1>3 DEF CloseRoom
  <2> QED
    BY <1>1, <2>1, BeginKeepsInv
<1>4. ASSUME NEW p \in Pids, NEW a \in Addrs, AddParticipant(t, r, p, a)
      PROVE  RegistryInv'
  <2>1. /\ CallAt(t, "idle")
        /\ BeginCall(t, "find", "join", r, p, a)
        /\ UNCHANGED <<tables, history>>
    BY <1>4 DEF AddParticipant
  <2> QED
    BY <1>1, <2>1, BeginKeepsInv
<1>5. ASSUME NEW p \in Pids, ExpelParticipant(t, r, p) PROVE RegistryInv'
  <2>1. /\ CallAt(t, "idle")
        /\ BeginCall(t, "expel", "expel", r, p, Nothing)
        /\ UNCHANGED <<tables, history>>
    BY <1>5 DEF ExpelParticipant
  <2> QED
    BY <1>1, <2>1, BeginKeepsInv
<1> QED
  BY <1>2, <1>3, <1>4, <1>5

\* remove_participant begins by unmapping the address.
LEMMA RemoveParticipantKeepsInv ==
    ASSUME RegistryInv, NEW t \in Handlers, NEW a \in Addrs,
           RemoveParticipant(t, a)
    PROVE  RegistryInv'
<1> DEFINE r == mapping[a][1]
<1> DEFINE p == mapping[a][2]
<1>1. t \in Callers /\ t # Media
  BY RegistryAssumption DEF Callers
<1>2. mapping[a] # Nothing
  BY DEF RemoveParticipant
<1>3. r \in Rooms /\ p \in Pids /\ mapping[a] = <<r, p>>
  BY <1>2, MappedPlaces DEF RegistryInv
<1>4. /\ CallAt(t, "idle")
      /\ mapping' = [mapping EXCEPT ![a] = Nothing]
      /\ BeginCall(t, "leave", "leave", r, p, a)
      /\ UNCHANGED <<rooms, roomMembers, assigned, made, created, closed, history>>
  BY DEF RemoveParticipant
<1> HIDE DEF r, p
<1> QED
  BY <1>1, <1>3, <1>4, BeginKeepsInv DEF Ops, Route

\* The media loop takes a stranger's SessionInit.
LEMMA HandleNewParticipantKeepsInv ==
    ASSUME RegistryInv, NEW r \in Rooms, NEW a \in Addrs,
           HandleNewParticipant(r, a)
    PROVE  RegistryInv'
<1>1. Media \in Callers /\ PidOf[a] \in Pids
  BY RegistryAssumption DEF Callers
<1>2. /\ CallAt(Media, "idle")
      /\ BeginCall(Media, "open", "open", r, PidOf[a], a)
      /\ UNCHANGED <<tables, history>>
  BY DEF HandleNewParticipant
<1> QED
  BY <1>1, <1>2, BeginKeepsInv DEF Ops, Route, tables

\* Whatever call takes a step.
LEMMA StepKeepsInv ==
    ASSUME RegistryInv, [RegistryNext]_registryVars
    PROVE  RegistryInv'
<1>1. Handlers \subseteq Callers /\ AutoRooms \subseteq Rooms
  BY RegistryAssumption DEF Callers
<1>2. CASE \E t \in Handlers, r \in Rooms : CreateRoom(t, r) \/ CloseRoom(t, r)
  BY <1>2, BeginningsKeepInv
<1>3. CASE \E t \in Handlers, r \in Rooms, p \in Pids :
              \/ \E a \in Addrs : AddParticipant(t, r, p, a)
              \/ ExpelParticipant(t, r, p)
  BY <1>3, BeginningsKeepInv
<1>4. CASE \E t \in Handlers, a \in Addrs : RemoveParticipant(t, a)
  BY <1>4, RemoveParticipantKeepsInv
<1>5. CASE \E r \in AutoRooms, a \in Addrs : HandleNewParticipant(r, a)
  BY <1>1, <1>5, HandleNewParticipantKeepsInv
<1>6. CASE OpenRoom \/ CheckRoom
  BY <1>6, OpenRoomKeepsInv, CheckRoomKeepsInv
<1>7. ASSUME NEW t \in Handlers, Assign(t) \/ RemoveRoom(t) \/ CountClosed(t)
      PROVE  RegistryInv'
  BY <1>1, <1>7, AssignKeepsInv, RemoveRoomKeepsInv, CountClosedKeepsInv
<1>8. ASSUME NEW t \in Handlers, Unmap(t) \/ Unassign(t) PROVE RegistryInv'
  BY <1>1, <1>8, UnmapKeepsInv, UnassignKeepsInv
<1>9. ASSUME NEW t \in Handlers, Expel(t) \/ Leave(t) PROVE RegistryInv'
  <2>1. call[t].at \in {"expel", "leave"} /\ Depart(t)
    BY <1>9 DEF Expel, Leave, CallAt
  <2> QED
    BY <1>1, <2>1, DepartureKeepsInv
<1>10. ASSUME NEW c \in Callers, InsertRoom(c) \/ Tally(c) \/ Find(c) PROVE RegistryInv'
  BY <1>10, InsertRoomKeepsInv, TallyKeepsInv, FindKeepsInv
<1>11. ASSUME NEW c \in Callers, Enter(c) \/ Map(c) PROVE RegistryInv'
  BY <1>11, EnterKeepsInv, MapKeepsInv
<1>12. CASE UNCHANGED registryVars
  <2> USE DEF registryVars, tables, history
  <2>1. RegistryTypeOK' /\ OnRoute' /\ Apart' /\ ObjectsApart' /\ Current'
    BY <1>12 DEF RegistryInv, RegistryTypeOK, OnRoute, Apart, ObjectsApart, Current, CallAt
  <2>2. Staged' /\ Mapped' /\ Admitted' /\ Heard'
    BY <1>12 DEF RegistryInv, Staged, StagedAt, Mapped, Admitted, Heard, Between, Doing,
                 Pending, CallAt, Live
  <2>3. Counted'
    BY <1>12 DEF RegistryInv, Counted, CallsAt, CallAt, Live
  <2> QED
    BY <2>1, <2>2, <2>3 DEF RegistryInv
<1> QED
  BY <1>2, <1>3, <1>4, <1>5, <1>6, <1>7, <1>8, <1>9, <1>10, <1>11, <1>12
     DEF RegistryNext

-----------------------------------------------------------------------------
(* Theorems about the tables                                               *)

\* The inductive invariant of the tables (server.rs, api.rs, state.rs).
THEOREM RegistryInductive == RegistrySpec => []RegistryInv
BY InitEstablishes, StepKeepsInv, PTL DEF RegistrySpec

\* The tables hold rooms, objects, participants and addresses only.
THEOREM RegistryTypeCorrect == RegistrySpec => []RegistryTypeOK
<1>1. RegistryInv => RegistryTypeOK
  BY DEF RegistryInv
<1> QED
  BY <1>1, RegistryInductive, PTL

\* A room on which no conflicting calls overlapped is assigned exactly when it
\* exists and the API made it (create_room, close_room, get_or_create_room).
THEOREM TablesAgreeHolds == RegistrySpec => []TablesAgree
<1>1. RegistryInv => TablesAgree
  <2> SUFFICES ASSUME RegistryInv, NEW r \in Rooms \ clash, Settled(r)
               PROVE  r \in assigned <=> r \in Live /\ rooms[r] \notin auto
    BY DEF TablesAgree
  <2>1. ~Doing(r, Creating) /\ ~Between(r, Closing)
    BY DEF Settled, Doing, Between, CallAt, Callers, Creating, Closing
  <2> QED
    BY <2>1 DEF RegistryInv, Staged, StagedAt
<1> QED
  BY <1>1, RegistryInductive, PTL

\* No address is left mapped to a closed room (add_participant, close_room).
THEOREM NoDeadEndsHolds == RegistrySpec => []NoDeadEnds
<1>1. RegistryInv => NoDeadEnds
  BY DEF RegistryInv, Mapped, NoDeadEnds, Settled, Between, CallAt
<1> QED
  BY <1>1, RegistryInductive, PTL

\* Whoever is in a live room has its address mapped to it there
\* (add_participant, remove_participant).
THEOREM MembersAreHeardHolds == RegistrySpec => []MembersAreHeard
<1>1. RegistryInv => MembersAreHeard
  BY DEF RegistryInv, Heard, Pending, MembersAreHeard, Settled, CallAt
<1> QED
  BY <1>1, RegistryInductive, PTL

\* However calls overlap, the statistics count the live rooms and those lost
\* under another (create_room, close_room, SfuStats).
THEOREM RoomsCountedHolds == RegistrySpec => []RoomsCounted
<1>1. RegistryInv => RoomsCounted
  BY DEF RegistryInv, Counted, RoomsCounted
<1> QED
  BY <1>1, RegistryInductive, PTL

-----------------------------------------------------------------------------
(* The inductive invariant of the control plane                             *)

\* The ids nothing unusual happened to.
Plain == RoomIds \ (serverAuto \cup moved \cup torn)

\* Some request is about to assign room r to server s.
Pends(r, s) ==
    \E q \in Requests : /\ request[q].at = "assign"
                        /\ request[q].room = r /\ request[q].server = s

\* A room lives on a registered server, and is assigned to it or about to be.
Assigned ==
    \A s \in Servers : \A r \in serverRooms[s] :
        /\ s \in registered
        /\ r \in Plain => home[r] = s \/ Pends(r, s)

\* A plain room is not on two servers, and no request on it is in the way of
\* another: who is to assign it finds it there, who is to unassign it nowhere.
Orderly ==
    \A r \in Plain :
        /\ \A s, t \in Servers : r \in serverRooms[s] /\ r \in serverRooms[t] => s = t
        /\ \A q \in Requests : request[q].room = r =>
              /\ request[q].at = "assign" => r \in serverRooms[request[q].server]
              /\ request[q].at = "unassign" => \A s \in Servers : r \notin serverRooms[s]
              /\ request[q].at \in {"close", "unassign"} => ~Underway(r, {"assign"})

\* Participants are in rooms that exist.
Housed == \A p \in people : p[2] \in serverRooms[p[1]]

\* A request under way names a room and a registered server.
Named ==
    \A q \in Requests : ~RequestAt(q, "idle") =>
        request[q].room \in RoomIds /\ request[q].server \in registered

ApiInv == ApiTypeOK /\ Assigned /\ Orderly /\ Housed /\ Named

\* What is known of a request.
RequestType == [at : {"idle", "assign", "close", "unassign"},
                room : RoomIds \cup {Nowhere}, server : Servers \cup {Nowhere}]

\* Only request q moves, to this record.
Moves(q, record) ==
    /\ request' \in [Requests -> RequestType]
    /\ request'[q] = record
    /\ \A p \in Requests \ {q} : request'[p] = request[p]

\* A request that moves leaves the others where they are.
LEMMA RequestMoves ==
    ASSUME ApiTypeOK, NEW q \in Requests
    PROVE  /\ \A point \in {"assign", "close", "unassign"}, r \in RoomIds, s \in Servers :
                 Await(q, point, r, s) => Moves(q, [at |-> point, room |-> r, server |-> s])
           /\ Finish(q) => Moves(q, NoRequest)
BY DEF ApiTypeOK, Await, Finish, Moves, NoRequest, RequestType

\* A token's claims are claims.
LEMMA ClaimsTyped ==
    ASSUME ApiTypeOK, NEW kind \in UserRoles, NEW allowed \in SUBSET RoomIds
    PROVE  ClaimsOf(kind, allowed) \in Claims
<1>1. now + Expiry \in 0 .. MaxNow + Expiry
  BY ApiAssumption DEF ApiTypeOK
<1>2. (IF kind \in {"admin", "operator"} THEN {} ELSE allowed) \in SUBSET RoomIds
  OBVIOUS
<1> QED
  BY <1>1, <1>2 DEF ClaimsOf, Claims

\* create_room puts a room on a server that is registered, and is to assign it.
LEMMA CreateKeeps ==
    ASSUME ApiInv, NEW c, NEW r \in RoomIds, CreateRoomAs(c, r),
           UNCHANGED <<now, tokens, registered, serverAuto>>
    PROVE  ApiInv'
<1>1. PICK s \in registered, q \in Requests :
         /\ RequestAt(q, "idle") /\ r \notin serverRooms[s]
         /\ serverRooms' = [serverRooms EXCEPT ![s] = @ \cup {r}]
         /\ Await(q, "assign", r, s)
         /\ moved' = IF \E t \in Servers \ {s} : r \in serverRooms[t]
                     THEN moved \cup {r} ELSE moved
  BY DEF CreateRoomAs, BestServers
<1>2. /\ torn' = IF Underway(r, {"close", "unassign"}) THEN torn \cup {r} ELSE torn
      /\ UNCHANGED <<home, people>>
  BY DEF CreateRoomAs
<1>3. /\ serverRooms \in [Servers -> SUBSET RoomIds] /\ registered \subseteq Servers
      /\ people \subseteq Servers \X RoomIds \X ApiIds
      /\ moved \subseteq RoomIds /\ torn \subseteq RoomIds
  BY DEF ApiInv, ApiTypeOK
<1>4. /\ serverRooms'[s] = serverRooms[s] \cup {r}
      /\ \A t \in Servers \ {s} : serverRooms'[t] = serverRooms[t]
      /\ s \in Servers
  BY <1>1, <1>3
<1> DEFINE new == [at |-> "assign", room |-> r, server |-> s]
<1>5. Moves(q, new)
  BY <1>1, <1>4, RequestMoves DEF ApiInv
<1>6. /\ new.at = "assign" /\ new.room = r /\ new.server = s
  OBVIOUS
<1> HIDE DEF new
<1>7. /\ request'[q].at = "assign" /\ request'[q].room = r /\ request'[q].server = s
      /\ \A p \in Requests \ {q} : request'[p] = request[p]
      /\ request[q].at = "idle"
  BY <1>1, <1>5, <1>6 DEF Moves, RequestAt
<1>8. Plain' \subseteq Plain
  BY <1>1, <1>2 DEF Plain
<1>9. r \in Plain' => /\ \A t \in Servers \ {s} : r \notin serverRooms[t]
                      /\ ~Underway(r, {"close", "unassign"})
  BY <1>1, <1>2 DEF Plain
<1>10. ApiTypeOK'
  <2>1. serverRooms' \in [Servers -> SUBSET RoomIds]
    BY <1>1, <1>3
  <2>2. moved' \subseteq RoomIds /\ torn' \subseteq RoomIds
    BY <1>1, <1>2, <1>3
  <2> QED
    BY <1>2, <1>5, <2>1, <2>2 DEF ApiInv, ApiTypeOK, Moves, RequestType
<1>11. Assigned'
  <2> SUFFICES ASSUME NEW t \in Servers, NEW x \in serverRooms'[t]
               PROVE  t \in registered' /\ (x \in Plain' => home'[x] = t \/ Pends(x, t)')
    BY DEF Assigned
  <2>1. CASE t = s /\ x = r
    BY <1>7, <2>1 DEF Pends
  <2>2. CASE x \in serverRooms[t]
    <3>1. t \in registered /\ (x \in Plain => home[x] = t \/ Pends(x, t))
      BY <2>2 DEF ApiInv, Assigned
    <3>2. Pends(x, t) => Pends(x, t)'
      BY <1>7 DEF Pends
    <3> QED
      BY <1>2, <1>8, <3>1, <3>2
  <2> QED
    BY <1>4, <2>1, <2>2
<1>12. Orderly'
  <2> SUFFICES ASSUME NEW x \in Plain'
               PROVE  /\ \A u, t \in Servers :
                            x \in serverRooms'[u] /\ x \in serverRooms'[t] => u = t
                      /\ \A p \in Requests : request'[p].room = x =>
                            /\ request'[p].at = "assign"
                                  => x \in serverRooms'[request'[p].server]
                            /\ request'[p].at = "unassign"
                                  => \A t \in Servers : x \notin serverRooms'[t]
                            /\ request'[p].at \in {"close", "unassign"}
                                  => ~Underway(x, {"assign"})'
    BY DEF Orderly
  <2>0. /\ \A u, t \in Servers : x \in serverRooms[u] /\ x \in serverRooms[t] => u = t
        /\ \A p \in Requests : request[p].room = x =>
              /\ request[p].at = "assign" => x \in serverRooms[request[p].server]
              /\ request[p].at = "unassign" => \A t \in Servers : x \notin serverRooms[t]
              /\ request[p].at \in {"close", "unassign"} => ~Underway(x, {"assign"})
    BY <1>8 DEF ApiInv, Orderly
  <2>1. CASE x # r
    <3>1. \A t \in Servers : x \in serverRooms'[t] <=> x \in serverRooms[t]
      BY <1>4, <2>1
    <3>2. Underway(x, {"assign"})' <=> Underway(x, {"assign"})
      BY <1>7, <2>1 DEF Underway
    <3>3. \A p \in Requests : request'[p].room = x => p # q /\ request'[p] = request[p]
      BY <1>7, <2>1
    <3>4. \A p \in Requests : request[p].at = "assign" => request[p].server \in Servers
      BY <1>3 DEF ApiInv, Named, RequestAt
    <3> QED
      BY <2>0, <3>1, <3>2, <3>3, <3>4
  <2>2. CASE x = r
    <3>1. \A t \in Servers : r \in serverRooms'[t] <=> t = s
      BY <1>4, <1>9, <2>2
    <3>2. \A p \in Requests \ {q} : request[p].room = r => request[p].at \notin {"close", "unassign"}
      BY <1>9, <2>2 DEF Underway
    <3>3. \A p \in Requests \ {q} : request[p].room # r \/ request[p].at # "assign"
      <4> SUFFICES ASSUME NEW p \in Requests \ {q}, request[p].room = r,
                          request[p].at = "assign"
                   PROVE  FALSE
        OBVIOUS
      <4>1. request[p].server \in Servers
        BY <1>3 DEF ApiInv, Named, RequestAt
      <4>2. r \in serverRooms[request[p].server]
        BY <2>0, <2>2
      <4> QED
        BY <1>1, <1>9, <2>2, <4>1, <4>2
    <3>4. ASSUME NEW p \in Requests, request'[p].room = x
          PROVE  /\ request'[p].at = "assign" => x \in serverRooms'[request'[p].server]
                 /\ request'[p].at \notin {"close", "unassign"}
      <4>1. CASE p = q
        BY <1>4, <1>7, <2>2, <4>1
      <4>2. CASE p # q
        BY <1>7, <2>2, <3>2, <3>3, <3>4, <4>2
      <4> QED
        BY <4>1, <4>2
    <3> QED
      BY <2>2, <3>1, <3>4
  <2> QED
    BY <2>1, <2>2
<1>13. \A p \in people : p[1] \in Servers
  BY <1>3
<1>14. Housed'
  BY <1>2, <1>4, <1>13 DEF ApiInv, Housed
<1>15. Named'
  BY <1>7 DEF ApiInv, Named, RequestAt
<1> QED
  BY <1>10, <1>11, <1>12, <1>14, <1>15 DEF ApiInv

\* assign_room_to_server
LEMMA AssignRoomKeeps ==
    ASSUME ApiInv, NEW q \in Requests, AssignRoom(q)
    PROVE  ApiInv'
<1> DEFINE r == request[q].room
<1> DEFINE s == request[q].server
<1>1. /\ request[q].at = "assign" /\ home' = [home EXCEPT ![r] = s]
      /\ UNCHANGED <<now, tokens, registered, serverRooms, people, serverAuto, moved, torn>>
  BY DEF AssignRoom, RequestAt
<1>2. Moves(q, NoRequest)
  BY RequestMoves DEF AssignRoom, ApiInv
<1>3. r \in RoomIds /\ s \in registered /\ registered \subseteq Servers
      /\ home \in [RoomIds -> Servers \cup {Nowhere}]
  BY <1>1 DEF ApiInv, ApiTypeOK, Named, RequestAt
<1>4. /\ request'[q].at = "idle"
      /\ \A p \in Requests \ {q} : request'[p] = request[p]
  BY <1>2 DEF Moves, NoRequest
<1>5. home'[r] = s /\ \A x \in RoomIds \ {r} : home'[x] = home[x]
  BY <1>1, <1>3
<1>6. r \in Plain => r \in serverRooms[s] /\ \A t \in Servers \ {s} : r \notin serverRooms[t]
  BY <1>1, <1>3 DEF ApiInv, Orderly
<1>7. ApiTypeOK'
  BY <1>1, <1>2, <1>3 DEF ApiInv, ApiTypeOK, Moves, RequestType
<1>8. Plain' = Plain
  BY <1>1 DEF Plain
<1> HIDE DEF r, s
<1>9. Assigned'
  <2> SUFFICES ASSUME NEW t \in Servers, NEW x \in serverRooms[t]
               PROVE  t \in registered /\ (x \in Plain => home'[x] = t \/ Pends(x, t)')
    BY <1>1, <1>8 DEF Assigned
  <2>1. t \in registered /\ (x \in Plain => home[x] = t \/ Pends(x, t))
    BY DEF ApiInv, Assigned
  <2>2. CASE x = r
    BY <1>5, <1>6, <2>1, <2>2
  <2>3. CASE x # r
    <3>1. x \in Plain => x \in RoomIds
      BY DEF Plain
    <3>2. Pends(x, t) => Pends(x, t)'
      BY <1>4, <2>3 DEF Pends, r
    <3> QED
      BY <1>5, <2>1, <2>3, <3>1, <3>2
  <2> QED
    BY <2>2, <2>3
<1>10. Orderly'
  <2>1. \A x : Underway(x, {"assign"})' => Underway(x, {"assign"})
    BY <1>4 DEF Underway
  <2> QED
    BY <1>1, <1>4, <1>8, <2>1 DEF ApiInv, Orderly
<1>11. Housed' /\ Named'
  BY <1>1, <1>4 DEF ApiInv, Housed, Named, RequestAt
<1> QED
  BY <1>7, <1>9, <1>10, <1>11 DEF ApiInv

\* close_room finds the server of the room, and is to close it there.
LEMMA CloseKeeps ==
    ASSUME ApiInv, NEW c, NEW r \in RoomIds, CloseRoomAs(c, r),
           UNCHANGED <<now, tokens, registered, serverAuto>>
    PROVE  ApiInv'
<1> DEFINE s == HomeOf(r)
<1>1. PICK q \in Requests : RequestAt(q, "idle") /\ Await(q, "close", r, s)
  BY DEF CloseRoomAs
<1>2. /\ torn' = IF Underway(r, {"assign"}) THEN torn \cup {r} ELSE torn
      /\ UNCHANGED <<home, serverRooms, people, moved>> /\ s # Nowhere
  BY DEF CloseRoomAs
<1>3. s \in registered /\ s \in Servers
  BY <1>2 DEF HomeOf, ApiInv, ApiTypeOK
<1> HIDE DEF s
<1> DEFINE new == [at |-> "close", room |-> r, server |-> s]
<1>4. Moves(q, new)
  BY <1>1, <1>3, RequestMoves DEF ApiInv
<1>5. new.at = "close" /\ new.room = r /\ new.server = s
  OBVIOUS
<1> HIDE DEF new
<1>6. /\ request'[q].at = "close" /\ request'[q].room = r /\ request'[q].server = s
      /\ \A p \in Requests \ {q} : request'[p] = request[p]
      /\ request[q].at = "idle"
  BY <1>1, <1>4, <1>5 DEF Moves, RequestAt
<1>7. Plain' \subseteq Plain /\ (r \in Plain' => ~Underway(r, {"assign"}))
  BY <1>2 DEF Plain
<1>8. ApiTypeOK'
  <2>1. torn' \subseteq RoomIds
    BY <1>2 DEF ApiInv, ApiTypeOK
  <2> QED
    BY <1>2, <1>4, <2>1 DEF ApiInv, ApiTypeOK, Moves, RequestType
<1>9. Assigned'
  <2>1. \A x, t : Pends(x, t) => Pends(x, t)'
    BY <1>6 DEF Pends
  <2> QED
    BY <1>2, <1>7, <2>1 DEF ApiInv, Assigned
<1>10. Orderly'
  <2>1. \A x : Underway(x, {"assign"})' => Underway(x, {"assign"})
    BY <1>6 DEF Underway
  <2> SUFFICES ASSUME NEW x \in Plain'
               PROVE  /\ \A u, t \in Servers :
                            x \in serverRooms[u] /\ x \in serverRooms[t] => u = t
                      /\ \A p \in Requests : request'[p].room = x =>
                            /\ request'[p].at = "assign"
                                  => x \in serverRooms[request'[p].server]
                            /\ request'[p].at = "unassign"
                                  => \A t \in Servers : x \notin serverRooms[t]
                            /\ request'[p].at \in {"close", "unassign"}
                                  => ~Underway(x, {"assign"})
    BY <1>2, <2>1 DEF Orderly
  <2>2. /\ \A u, t \in Servers : x \in serverRooms[u] /\ x \in serverRooms[t] => u = t
        /\ \A p \in Requests : request[p].room = x =>
              /\ request[p].at = "assign" => x \in serverRooms[request[p].server]
              /\ request[p].at = "unassign" => \A t \in Servers : x \notin serverRooms[t]
              /\ request[p].at \in {"close", "unassign"} => ~Underway(x, {"assign"})
    BY <1>7 DEF ApiInv, Orderly
  <2> QED
    BY <1>6, <1>7, <2>2
<1>11. Housed' /\ Named'
  BY <1>2, <1>3, <1>6 DEF ApiInv, Housed, Named, RequestAt
<1> QED
  BY <1>8, <1>9, <1>10, <1>11 DEF ApiInv

\* SfuServer::close_room: a room that is closed takes its participants along.
LEMMA CloseOnServerKeeps ==
    ASSUME ApiInv, NEW q \in Requests, CloseOnServer(q)
    PROVE  ApiInv'
<1> DEFINE r == request[q].room
<1> DEFINE s == request[q].server
<1>1. /\ request[q].at = "close"
      /\ UNCHANGED <<now, tokens, registered, home, serverAuto, moved, torn>>
  BY DEF CloseOnServer, RequestAt
<1>2. r \in RoomIds /\ s \in registered /\ s \in Servers
  BY <1>1 DEF ApiInv, ApiTypeOK, Named, RequestAt
<1>3. Plain' = Plain
  BY <1>1 DEF Plain
<1>4. \/ Moves(q, NoRequest) /\ UNCHANGED <<serverRooms, people>>
      \/ /\ Moves(q, [at |-> "unassign", room |-> r, server |-> s])
         /\ r \in serverRooms[s]
         /\ serverRooms' = [serverRooms EXCEPT ![s] = @ \ {r}]
         /\ people' = people \ PeopleOf(s, r)
  BY <1>2, RequestMoves DEF CloseOnServer, ApiInv
<1>5. /\ \A p \in Requests \ {q} : request'[p] = request[p]
      /\ request'[q].at \in {"idle", "unassign"} /\ request' \in [Requests -> RequestType]
  BY <1>4 DEF Moves, NoRequest
<1>6. \A x, t : Pends(x, t) => Pends(x, t)'
  BY <1>1, <1>5 DEF Pends
<1>7. \A x : Underway(x, {"assign"})' => Underway(x, {"assign"})
  BY <1>5 DEF Underway
<1>8. \A x \in Plain :
        /\ \A u, t \in Servers : x \in serverRooms[u] /\ x \in serverRooms[t] => u = t
        /\ \A p \in Requests : request[p].room = x =>
              /\ request[p].at = "assign" => x \in serverRooms[request[p].server]
              /\ request[p].at = "unassign" => \A t \in Servers : x \notin serverRooms[t]
              /\ request[p].at \in {"close", "unassign"} => ~Underway(x, {"assign"})
  BY DEF ApiInv, Orderly
<1> HIDE DEF r, s
<1>9. CASE Moves(q, NoRequest) /\ UNCHANGED <<serverRooms, people>>
  <2>1. request'[q].at = "idle"
    BY <1>9 DEF Moves, NoRequest
  <2>2. ApiTypeOK'
    BY <1>1, <1>5, <1>9 DEF ApiInv, ApiTypeOK, RequestType
  <2>3. Assigned'
    BY <1>1, <1>3, <1>6, <1>9 DEF ApiInv, Assigned
  <2>4. Orderly'
    BY <1>3, <1>5, <1>7, <1>8, <1>9, <2>1 DEF Orderly
  <2>5. Housed' /\ Named'
    BY <1>1, <1>5, <1>9, <2>1 DEF ApiInv, Housed, Named, RequestAt
  <2> QED
    BY <2>2, <2>3, <2>4, <2>5 DEF ApiInv
<1>10. CASE /\ Moves(q, [at |-> "unassign", room |-> r, server |-> s])
            /\ r \in serverRooms[s]
            /\ serverRooms' = [serverRooms EXCEPT ![s] = @ \ {r}]
            /\ people' = people \ PeopleOf(s, r)
  <2>1. request'[q].at = "unassign" /\ request'[q].room = r /\ request'[q].server = s
    BY <1>10 DEF Moves
  <2>2. /\ serverRooms \in [Servers -> SUBSET RoomIds]
        /\ people \subseteq Servers \X RoomIds \X ApiIds
    BY DEF ApiInv, ApiTypeOK
  <2>3. /\ serverRooms'[s] = serverRooms[s] \ {r}
        /\ \A t \in Servers \ {s} : serverRooms'[t] = serverRooms[t]
    BY <1>2, <1>10, <2>2
  <2>4. ApiTypeOK'
    <3>1. serverRooms' \in [Servers -> SUBSET RoomIds]
      BY <1>10, <2>2
    <3> QED
      BY <1>1, <1>5, <1>10, <3>1 DEF ApiInv, ApiTypeOK, RequestType
  <2>5. Assigned'
    <3>1. \A t \in Servers : serverRooms'[t] \subseteq serverRooms[t]
      BY <2>3
    <3> QED
      BY <1>1, <1>3, <1>6, <3>1 DEF ApiInv, Assigned
  <2>6. r \in Plain => /\ ~Underway(r, {"assign"})
                       /\ \A t \in Servers : r \notin serverRooms'[t]
    BY <1>1, <1>2, <1>8, <1>10, <2>3 DEF r
  <2>7. Orderly'
    <3> SUFFICES ASSUME NEW x \in Plain
                 PROVE  /\ \A u, t \in Servers :
                              x \in serverRooms'[u] /\ x \in serverRooms'[t] => u = t
                        /\ \A p \in Requests : request'[p].room = x =>
                              /\ request'[p].at = "assign"
                                    => x \in serverRooms'[request'[p].server]
                              /\ request'[p].at = "unassign"
                                    => \A t \in Servers : x \notin serverRooms'[t]
                              /\ request'[p].at \in {"close", "unassign"}
                                    => ~Underway(x, {"assign"})'
      BY <1>3 DEF Orderly
    <3>1. \A t \in Servers : serverRooms'[t] \subseteq serverRooms[t]
      BY <2>3
    <3>2. CASE x = r
      <4>1. \A p \in Requests : request[p].room = r => request[p].at # "assign"
        BY <2>6, <3>2 DEF Underway
      <4>2. \A p \in Requests : request'[p].room = r => request'[p].at # "assign"
        BY <1>5, <2>1, <4>1
      <4> QED
        BY <1>7, <2>6, <3>2, <4>2
    <3>3. CASE x # r
      <4>1. \A t \in Servers : x \in serverRooms'[t] <=> x \in serverRooms[t]
        BY <2>3, <3>3
      <4>2. \A p \in Requests : request'[p].room = x => request'[p] = request[p]
        BY <1>5, <2>1, <3>3
      <4>3. \A p \in Requests : request[p].at = "assign" => request[p].server \in Servers
        BY DEF ApiInv, ApiTypeOK, Named, RequestAt
      <4> QED
        BY <1>7, <1>8, <4>1, <4>2, <4>3
    <3> QED
      BY <3>2, <3>3
  <2>8. Housed'
    <3>1. \A p \in people : p[1] \in Servers
      BY <2>2
    <3> QED
      BY <1>10, <2>3, <3>1 DEF ApiInv, Housed, PeopleOf
  <2>9. Named'
    BY <1>1, <1>2, <1>5, <2>1 DEF ApiInv, Named, RequestAt
  <2> QED
    BY <2>4, <2>5, <2>7, <2>8, <2>9 DEF ApiInv
<1> QED
  BY <1>4, <1>9, <1>10

\* remove_room_assignment
LEMMA UnassignRoomKeeps ==
    ASSUME ApiInv, NEW q \in Requests, UnassignRoom(q)
    PROVE  ApiInv'
<1> DEFINE r == request[q].room
<1>1. /\ request[q].at = "unassign" /\ home' = [home EXCEPT ![r] = Nowhere]
      /\ UNCHANGED <<now, tokens, registered, serverRooms, people, serverAuto, moved, torn>>
  BY DEF UnassignRoom, RequestAt
<1>2. Moves(q, NoRequest)
  BY RequestMoves DEF UnassignRoom, ApiInv
<1>3. r \in RoomIds /\ home \in [RoomIds -> Servers \cup {Nowhere}]
  BY <1>1 DEF ApiInv, ApiTypeOK, Named, RequestAt
<1>4. /\ request'[q].at = "idle"
      /\ \A p \in Requests \ {q} : request'[p] = request[p]
  BY <1>2 DEF Moves, NoRequest
<1>5. \A x \in RoomIds \ {r} : home'[x] = home[x]
  BY <1>1, <1>3
<1>6. r \in Plain => \A t \in Servers : r \notin serverRooms[t]
  BY <1>1 DEF ApiInv, Orderly
<1>7. ApiTypeOK'
  BY <1>1, <1>2, <1>3 DEF ApiInv, ApiTypeOK, Moves, RequestType
<1>8. Plain' = Plain
  BY <1>1 DEF Plain
<1> HIDE DEF r
<1>9. Assigned'
  <2> SUFFICES ASSUME NEW t \in Servers, NEW x \in serverRooms[t]
               PROVE  t \in registered /\ (x \in Plain => home'[x] = t \/ Pends(x, t)')
    BY <1>1, <1>8 DEF Assigned
  <2>1. t \in registered /\ (x \in Plain => home[x] = t \/ Pends(x, t))
    BY DEF ApiInv, Assigned
  <2>2. x \in Plain => x \in RoomIds \ {r}
    BY <1>6 DEF Plain
  <2>3. Pends(x, t) => Pends(x, t)'
    BY <1>1, <1>4 DEF Pends
  <2> QED
    BY <1>5, <2>1, <2>2, <2>3
<1>10. Orderly'
  <2>1. \A x : Underway(x, {"assign"})' => Underway(x, {"assign"})
    BY <1>4 DEF Underway
  <2> QED
    BY <1>1, <1>4, <1>8, <2>1 DEF ApiInv, Orderly
<1>11. Housed' /\ Named'
  BY <1>1, <1>4 DEF ApiInv, Housed, Named, RequestAt
<1> QED
  BY <1>7, <1>9, <1>10, <1>11 DEF ApiInv

\* Participants come into rooms that are reached, and leave them.
LEMMA PeopleKeep ==
    ASSUME ApiInv, NEW c, NEW r \in RoomIds, NEW id \in ApiIds, NEW sends,
           AddParticipantAs(c, r, id, sends) \/ RemoveParticipantAs(c, r, id),
           UNCHANGED <<now, tokens, registered, serverAuto>>
    PROVE  ApiInv'
<1>1. /\ UNCHANGED <<home, serverRooms, request, moved, torn>>
      /\ Reached(r)
      /\ people' \subseteq people \/ people' = people \cup {<<HomeOf(r), r, id>>}
  BY DEF AddParticipantAs, RemoveParticipantAs
<1>2. /\ people \subseteq Servers \X RoomIds \X ApiIds /\ registered \subseteq Servers
  BY DEF ApiInv, ApiTypeOK
<1>3. /\ people' \subseteq Servers \X RoomIds \X ApiIds
      /\ \A p \in people' : p[2] \in serverRooms[p[1]]
  <2>1. HomeOf(r) \in Servers /\ r \in serverRooms[HomeOf(r)]
    BY <1>1, <1>2 DEF Reached, HomeOf
  <2> HIDE DEF HomeOf
  <2> QED
    BY <1>1, <1>2, <2>1 DEF ApiInv, Housed
<1> QED
  BY <1>1, <1>3 DEF ApiInv, ApiTypeOK, Assigned, Orderly, Housed, Named, Plain, Pends,
                    Underway, RequestAt

\* Every request and every step of a server or of the clock keeps the invariant.
LEMMA ApiStepKeepsInv == ApiInv /\ [ApiNext]_apiVars => ApiInv'
<1> SUFFICES ASSUME ApiInv, [ApiNext]_apiVars PROVE ApiInv'
  OBVIOUS
<1> USE DEF Plain, Pends, Underway, RequestAt
<1>1. CASE Tick
  <2>1. now' \in 0 .. MaxNow
    BY <1>1, ApiAssumption DEF Tick, ApiInv, ApiTypeOK
  <2> QED
    BY <1>1, <2>1 DEF Tick, ApiInv, ApiTypeOK, Assigned, Orderly, Housed, Named
<1>2. ASSUME NEW kind \in UserRoles, NEW allowed \in SUBSET RoomIds,
             GenerateToken(kind, allowed)
      PROVE  ApiInv'
  <2>1. tokens' \subseteq Claims
    BY <1>2, ClaimsTyped DEF GenerateToken, ApiInv, ApiTypeOK
  <2>2. UNCHANGED <<now, registered, home, serverRooms, people, request, serverAuto,
                    moved, torn>>
    BY <1>2 DEF GenerateToken
  <2> QED
    BY <2>1, <2>2 DEF ApiInv, ApiTypeOK, Assigned, Orderly, Housed, Named
<1>3. ASSUME NEW s \in Servers, Register(s) PROVE ApiInv'
  BY <1>3 DEF Register, ApiInv, ApiTypeOK, Assigned, Orderly, Housed, Named
<1>4. ASSUME NEW s \in Servers, NEW r \in LoopRooms, OpenAutoRoom(s, r) PROVE ApiInv'
  <2>1. /\ serverRooms' = [serverRooms EXCEPT ![s] = @ \cup {r}]
        /\ serverAuto' = serverAuto \cup {r} /\ s \in registered /\ r \in RoomIds
        /\ UNCHANGED <<now, tokens, registered, home, people, request, moved, torn>>
    BY <1>4, ApiAssumption DEF OpenAutoRoom
  <2>2. /\ serverRooms \in [Servers -> SUBSET RoomIds] /\ serverAuto \subseteq LoopRooms
        /\ people \subseteq Servers \X RoomIds \X ApiIds
        /\ \A q \in Requests : request[q].at # "idle" => request[q].server \in Servers
    BY DEF ApiInv, ApiTypeOK, Named
  <2>3. /\ serverRooms'[s] = serverRooms[s] \cup {r}
        /\ \A t \in Servers \ {s} : serverRooms'[t] = serverRooms[t]
    BY <2>1, <2>2
  <2>4. ApiTypeOK' /\ Named'
    BY <2>1, <2>2 DEF ApiInv, ApiTypeOK, Named
  <2>5. Assigned'
    BY <2>1, <2>2, <2>3 DEF ApiInv, Assigned
  <2>6. \A p \in people : p[1] \in Servers
    BY <2>2
  <2>7. Housed'
    BY <2>1, <2>3, <2>6 DEF ApiInv, Housed
  <2>8. Plain' \subseteq Plain \ {r}
    BY <2>1
  <2>9. \A x \in Plain' : \A t \in Servers : x \in serverRooms'[t] <=> x \in serverRooms[t]
    BY <2>3, <2>8
  <2>10. Orderly'
    <3> HIDE DEF Plain
    <3> QED
      BY <2>1, <2>2, <2>8, <2>9 DEF ApiInv, Orderly
  <2> QED
    BY <2>4, <2>5, <2>7, <2>10 DEF ApiInv
<1>5. ASSUME NEW c, Request(c) PROVE ApiInv'
  <2>1. UNCHANGED <<now, tokens, registered, serverAuto>>
    BY <1>5 DEF Request
  <2>2. ASSUME NEW r \in RoomIds, CreateRoomAs(c, r) \/ CloseRoomAs(c, r) PROVE ApiInv'
    BY <2>1, <2>2, CreateKeeps, CloseKeeps
  <2>3. ASSUME NEW r \in RoomIds, NEW id \in ApiIds,
               \/ \E sends \in BOOLEAN : AddParticipantAs(c, r, id, sends)
               \/ RemoveParticipantAs(c, r, id)
        PROVE  ApiInv'
    BY <2>1, <2>3, PeopleKeep
  <2> QED
    BY <1>5, <2>2, <2>3 DEF Request
<1>6. ASSUME NEW q \in Requests, AssignRoom(q) \/ CloseOnServer(q) \/ UnassignRoom(q)
      PROVE  ApiInv'
  BY <1>6, AssignRoomKeeps, CloseOnServerKeeps, UnassignRoomKeeps
<1>7. CASE UNCHANGED apiVars
  BY <1>7 DEF apiVars, ApiInv, ApiTypeOK, Assigned, Orderly, Housed, Named
<1> QED
  BY <1>1, <1>2, <1>3, <1>4, <1>5, <1>6, <1>7 DEF ApiNext

-----------------------------------------------------------------------------
(* Theorems about the control plane                                       *)

\* ApiInv holds of every reachable state of the control plane.
THEOREM ApiInductive == ApiSpec => []ApiInv
<1>1. ApiInit => ApiInv
  <2> SUFFICES ASSUME ApiInit PROVE ApiInv
    OBVIOUS
  <2>1. 0 \in 0 .. MaxNow
    BY ApiAssumption
  <2> QED
    BY <2>1 DEF ApiInit, ApiInv, ApiTypeOK, Assigned, Orderly, Housed, Named, NoRequest,
                Underway, RequestAt
<1> QED
  BY <1>1, ApiStepKeepsInv, PTL DEF ApiSpec

\* The tables, the tokens and the requests under way keep their types (state.rs,
\* auth.rs, api.rs).
THEOREM ApiTypeCorrect == ApiSpec => []ApiTypeOK
<1>1. ApiInv => ApiTypeOK
  BY DEF ApiInv
<1> QED
  BY <1>1, ApiInductive, PTL

\* A room the list of rooms shows the bearer of a token can be asked for by its
\* id with that token, or its creation is under way, but for rooms a media loop
\* made, ids created on two servers and ids created and closed at a time
\* (create_room, close_room, list_rooms, get_room, find_server_for_room).
THEOREM ListedIsReachableHolds == ApiSpec => []ListedIsReachable
<1>1. ApiInv => ListedIsReachable
  <2> SUFFICES ASSUME ApiInv, NEW c \in Bearers,
                      NEW r \in ListedRooms(c) \ (serverAuto \cup moved \cup torn)
               PROVE  GetRoom(c, r) = "ok" \/ Underway(r, {"assign"})
    BY DEF ListedIsReachable
  <2>1. PICK s \in registered : r \in serverRooms[s]
    BY DEF ListedRooms, AllRooms
  <2>2. CanAccessRoom(c, r) /\ s \in Servers /\ r \in Plain
    BY <2>1 DEF ListedRooms, ApiInv, ApiTypeOK, Plain
  <2>3. home[r] = s \/ Pends(r, s)
    BY <2>1, <2>2 DEF ApiInv, Assigned
  <2>4. Nowhere \notin registered
    BY ApiAssumption DEF ApiInv, ApiTypeOK
  <2> QED
    BY <2>1, <2>2, <2>3, <2>4 DEF GetRoom, Reached, HomeOf, Pends, Underway
<1> QED
  BY <1>1, ApiInductive, PTL

-----------------------------------------------------------------------------
(* The composition                                                         *)

\* Side by side in MCServer a room, the tables and the control plane do what each
\* does alone, so that what is proved of each holds of the composition.
THEOREM ServerComposes == ServerSpec => Spec /\ RegistrySpec /\ ApiSpec
<1>1. ServerInit => Init /\ RegistryInit /\ ApiInit
  BY DEF ServerInit
<1>2. [ServerNext]_<<view, vars, registryVars, apiVars>> =>
          [Next]_vars /\ [RegistryNext]_registryVars /\ [ApiNext]_apiVars
  BY DEF ServerNext
<1> QED
  BY <1>1, <1>2, PTL DEF ServerSpec, Spec, RegistrySpec, ApiSpec

\* The types of a room, of the tables and of the control plane (room.rs,
\* server.rs, state.rs).
THEOREM ServerTypeCorrect == ServerSpec => []ServerTypeOK
<1>1. TypeOK /\ RegistryTypeOK /\ ApiTypeOK => ServerTypeOK
  BY DEF ServerTypeOK
<1> QED
  BY <1>1, ServerComposes, TypeCorrect, RegistryTypeCorrect, ApiTypeCorrect, PTL
=============================================================================
