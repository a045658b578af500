-------------------------- MODULE ForwardingProofs --------------------------
(***************************************************************************)
(* Proofs about Forwarding: its types, with the guards that keep the       *)
(* participants of a walk in the map, and that a packet is offered to      *)
(* every receiver that has always been heard of, for any number of         *)
(* participants, shards, calls and workers.                                *)
(***************************************************************************)
EXTENDS MCFailover, RoomProofs, TLAPS

-----------------------------------------------------------------------------
(* The inductive invariant                                                 *)

\* The participants at which a walk holds a guard.
Walker == {media.current, health.current} \ {Nobody}

\* A call works on a participant, and only an idle one on none.
Working ==
    \A t \in Calls :
        /\ call[t].at # "idle" => call[t].part \in Clients
        /\ call[t].at = "idle" => call[t] = NoCall

\* Where a walk holds a guard.
Guarding ==
    /\ media.at \in {"full", "role"} <=> media.current # Nobody
    /\ health.at = "judge" <=> health.current # Nobody

\* Who has been idle was silent.
Silence ==
    /\ \A p \in present : idle[p] > 0 => p \in silent
    /\ health.at = "judge" /\ health.idle > 0 => health.current \in silent
    /\ \A p \in present \ silent : condition[p] = "Active"

\* Who is owed the packet will be come to and is one that hears.
Owing ==
    /\ media.at \in {"receive", "count", "role"} => owed = {}
    /\ owed \subseteq (present \cap media.todo) \ silent
    /\ \A p \in owed : clientRole[p] = "Receiver" /\ p # media.from

ForwardingInv == MediaTypeOK /\ Working /\ Guarding /\ Silence /\ Owing

-----------------------------------------------------------------------------
(* Types                                                                   *)

MediaType == [at : {"receive", "next", "full", "count", "role"},
              from : Clients \cup {Nobody}, todo : SUBSET Clients,
              current : Clients \cup {Nobody}]
HealthType == [at : {"wait", "next", "judge"}, todo : SUBSET Clients,
               current : Clients \cup {Nobody}, idle : 0 .. 2]
CallType == [at : {"idle", "insert", "remove"}, part : Clients \cup {Nobody},
             role : ClientRoles]

\* The steps of the media loop change only its walk, activity and who is owed.
LEMMA MediaTyped ==
    ASSUME MediaTypeOK, media' \in MediaType, idle' \in [Clients -> 0 .. 2],
           owed' \subseteq Clients, media'.current \in {Nobody} \cup present,
           UNCHANGED <<present, clientRole, condition, health, call, silent>>
    PROVE  MediaTypeOK'
BY DEF MediaTypeOK, MediaType

\* The steps of the health check change only its walk and the conditions.
LEMMA HealthTyped ==
    ASSUME MediaTypeOK, health' \in HealthType,
           condition' \in [Clients -> Conditions \ {"Connecting"}],
           health'.current \in {Nobody} \cup present, HealthOnly
    PROVE  MediaTypeOK'
BY DEF MediaTypeOK, HealthType, HealthOnly

\* A write on the map spares the participants of the walks.
LEMMA WriteSpares ==
    ASSUME MediaTypeOK, Working, NEW t \in Calls, Write(t)
    PROVE  call[t].part \in Clients /\ call[t].part \notin Walker
<1>1. call[t].at # "idle" /\ ShardOf[call[t].part] \notin Guarded
  BY DEF Write
<1> QED
  BY <1>1 DEF Working, Walker, Guarded

\* A write on the map keeps the types.
LEMMA WriteTyped ==
    ASSUME MediaTypeOK, Working, NEW t \in Calls, Write(t)
    PROVE  MediaTypeOK'
<1> DEFINE p == call[t].part
<1>1. p \in Clients /\ p \notin Walker
  BY WriteSpares
<1>2. call[t].role \in ClientRoles /\ NoCall \in CallType /\ call \in [Calls -> CallType]
  BY DEF MediaTypeOK, CallType, NoCall, ClientRoles
<1>3. /\ call' = [call EXCEPT ![t] = NoCall]
      /\ present' \in {present \cup {p}, present \ {p}}
      /\ clientRole' \in {[clientRole EXCEPT ![p] = r] : r \in {call[t].role, "Receiver"}}
      /\ condition' = [condition EXCEPT ![p] = "Active"]
      /\ idle' = [idle EXCEPT ![p] = 0]
      /\ silent' = silent \ {p} /\ owed' = owed \ {p}
      /\ UNCHANGED <<media, health>>
  BY DEF Write
<1> HIDE DEF p
<1>4. call' \in [Calls -> CallType]
  BY <1>2, <1>3
<1>5. clientRole' \in [Clients -> ClientRoles]
  BY <1>2, <1>3 DEF MediaTypeOK, ClientRoles
<1>6. /\ present' \subseteq Clients /\ silent' \subseteq Clients /\ owed' \subseteq Clients
      /\ Walker \subseteq present'
  BY <1>1, <1>3 DEF MediaTypeOK, Walker
<1>7. condition' \in [Clients -> Conditions \ {"Connecting"}]
  BY <1>3 DEF MediaTypeOK, Conditions
<1>8. idle' \in [Clients -> 0 .. 2]
  <2>1. idle \in [Clients -> 0 .. 2] /\ idle' = [idle EXCEPT ![p] = 0]
    BY <1>3 DEF MediaTypeOK
  <2> QED
    BY <1>1, <2>1
<1> QED
  BY <1>3, <1>4, <1>5, <1>6, <1>7, <1>8 DEF MediaTypeOK, CallType, Walker

\* Every step keeps the types.
LEMMA TypesStep == ForwardingInv /\ [MediaNext]_mediaVars => MediaTypeOK'
<1> SUFFICES ASSUME ForwardingInv, [MediaNext]_mediaVars PROVE MediaTypeOK'
  OBVIOUS
<1> USE DEF ForwardingInv
<1>1. ASSUME NEW t \in Calls, NEW p \in Clients,
             \/ \E r \in ClientRoles : AddParticipant(t, p, r)
             \/ RemoveParticipant(t, p)
      PROVE  MediaTypeOK'
  <2>1. PICK q \in ClientRoles, a \in {"insert", "remove"} :
            call' = [call EXCEPT ![t] = [at |-> a, part |-> p, role |-> q]]
    BY <1>1 DEF AddParticipant, RemoveParticipant, Call, MediaTypeOK
  <2>2. call' \in [Calls -> CallType]
    BY <2>1 DEF MediaTypeOK, CallType
  <2>3. UNCHANGED <<present, clientRole, condition, idle, media, health, silent, owed>>
    BY <1>1 DEF AddParticipant, RemoveParticipant, Call
  <2> QED
    BY <2>2, <2>3 DEF MediaTypeOK, CallType
<1>2. ASSUME NEW t \in Calls, Write(t) PROVE MediaTypeOK'
  BY <1>2, WriteTyped
<1>3. ASSUME NEW p \in Clients, Age(p) PROVE MediaTypeOK'
  <2>1. idle' \in [Clients -> 0 .. 2]
    BY <1>3 DEF Age, MediaTypeOK
  <2> QED
    BY <1>3, <2>1 DEF Age, MediaTypeOK
<1>4. ASSUME NEW p \in Clients, PromoteBackup(p) PROVE MediaTypeOK'
  <2>1. /\ clientRole' \in [Clients -> ClientRoles]
        /\ condition' \in [Clients -> Conditions \ {"Connecting"}]
    BY <1>4 DEF PromoteBackup, MediaTypeOK, ClientRoles, Conditions
  <2> QED
    BY <1>4, <2>1 DEF PromoteBackup, MediaTypeOK
<1>5. ASSUME NEW p \in Clients, Receive(p) \/ Forward(p) PROVE MediaTypeOK'
  <2>1. idle' \in [Clients -> 0 .. 2]
    BY <1>5 DEF Receive, Forward, Touch, MediaTypeOK
  <2>2. CASE Receive(p)
    BY <2>1, <2>2 DEF Receive, MediaTypeOK
  <2>3. CASE Forward(p)
    <3>1. /\ media' = [at |-> "next", from |-> p, todo |-> present, current |-> Nobody]
          /\ owed' \subseteq Clients
          /\ UNCHANGED <<present, clientRole, condition, health, call, silent>>
      BY <2>3 DEF Forward, MediaTypeOK
    <3>2. media' \in MediaType /\ media'.current = Nobody
      BY <3>1 DEF MediaType, MediaTypeOK
    <3> QED
      BY <2>1, <3>1, <3>2, MediaTyped
  <2> QED
    BY <1>5, <2>2, <2>3
<1>6. CASE Walk \/ Resume
  <2>1. media \in MediaType /\ idle \in [Clients -> 0 .. 2] /\ owed \subseteq Clients
    BY DEF MediaTypeOK, MediaType
  <2>2. MediaOnly /\ owed' \subseteq owed
    BY <1>6 DEF Walk, Skip, Send, Done, AwaitRole, CountRole, Counted,
                         Resume, MediaOnly
  <2>3. media' \in MediaType /\ media'.current \in {Nobody} \cup present
    <3>1. ASSUME NEW p \in Clients \cup {Nobody}
          PROVE  Behind(p) \in MediaType /\ Behind(p).current = Nobody
      BY <2>1 DEF Behind, MediaType
    <3>2. Reading \in MediaType /\ Reading.current = Nobody
      BY DEF Reading, MediaType
    <3>3. ASSUME NEW p \in present, NEW a \in {"full", "role"}
          PROVE  /\ [media EXCEPT !.at = a, !.current = p] \in MediaType
                 /\ [media EXCEPT !.at = a, !.current = p].current = p
      BY <2>1 DEF MediaType, MediaTypeOK
    <3>5. ASSUME NEW p \in Clients \cup {Nobody}
          PROVE  /\ [Behind(p) EXCEPT !.at = "count"] \in MediaType
                 /\ [Behind(p) EXCEPT !.at = "count"].current = Nobody
      BY <2>1 DEF Behind, MediaType
    <3>6. CASE Done
      <4>1. media' = [media EXCEPT !.at = "count", !.todo = present] /\ media.at = "next"
        BY <3>6 DEF Done, WalkEnded
      <4> QED
        BY <2>1, <4>1 DEF MediaType, MediaTypeOK, Guarding
    <3>4. media.current \in Clients \cup {Nobody}
      BY <2>1 DEF MediaType
    <3>7. CASE CountRole
      BY <3>4, <3>5, <3>7 DEF CountRole
    <3>8. CASE Counted
      BY <3>2, <3>8 DEF Counted
    <3>9. ASSUME NEW p \in Clients, Skip(p) \/ Send(p) \/ AwaitRole(p)
          PROVE  media' \in MediaType /\ media'.current \in {Nobody} \cup present
      BY <3>1, <3>3, <3>9 DEF Skip, Send, AwaitRole
    <3>10. CASE Resume
      BY <3>1, <3>4, <3>10 DEF Resume
    <3> QED
      BY <1>6, <3>6, <3>7, <3>8, <3>9, <3>10 DEF Walk
  <2> QED
    BY <2>1, <2>2, <2>3, MediaTyped DEF MediaOnly
<1>7. CASE Check \/ CheckGoesOn
  <2>1. /\ health \in HealthType
        /\ condition \in [Clients -> Conditions \ {"Connecting"}]
        /\ present \subseteq Clients /\ idle \in [Clients -> 0 .. 2]
    BY DEF MediaTypeOK, HealthType
  <2>2. HealthOnly
    BY <1>7 DEF Check, CheckGoesOn, ReadIdle, Judge, CheckEnds
  <2>3. Waiting \in HealthType /\ Waiting.current = Nobody
    BY DEF Waiting, HealthType
  <2>4. CASE Check
    <3>1. health' \in HealthType /\ health'.current = Nobody /\ condition' = condition
      BY <2>1, <2>3, <2>4 DEF Check, HealthType
    <3> QED
      BY <2>1, <2>2, <3>1, HealthTyped
  <2>5. ASSUME NEW p \in Clients, ReadIdle(p) PROVE MediaTypeOK'
    <3>1. health' \in HealthType /\ health'.current \in present /\ condition' = condition
      BY <2>1, <2>5 DEF ReadIdle, HealthType
    <3> QED
      BY <2>1, <2>2, <3>1, HealthTyped
  <2>6. CASE Judge
    <3>1. health' = Judged
      BY <2>6 DEF Judge
    <3>4. health.todo \ {health.current} \in SUBSET Clients
      BY <2>1 DEF HealthType
    <3>3. health' \in HealthType /\ health'.current = Nobody
      BY <2>3, <3>1, <3>4 DEF Judged, HealthType
    <3>2. condition' \in [Clients -> Conditions \ {"Connecting"}]
      BY <2>1, <2>6 DEF Judge, Conditions
    <3> QED
      BY <2>2, <3>2, <3>3, HealthTyped
  <2>7. CASE CheckEnds
    BY <2>1, <2>2, <2>3, <2>7, HealthTyped DEF CheckEnds
  <2> QED
    BY <1>7, <2>4, <2>5, <2>6, <2>7 DEF CheckGoesOn
<1>8. CASE UNCHANGED mediaVars
  BY <1>8 DEF mediaVars, MediaTypeOK
<1> QED
  BY <1>1, <1>2, <1>3, <1>4, <1>5, <1>6, <1>7, <1>8 DEF MediaNext

-----------------------------------------------------------------------------
(* Calls, guards, silence and what is owed                                 *)

\* A check begins, or goes on behind a participant.
LEMMA CheckingWalk ==
    ASSUME NEW S
    PROVE  /\ [Waiting EXCEPT !.at = "next", !.todo = S].at = "next"
           /\ [Waiting EXCEPT !.at = "next", !.todo = S].current = Nobody
           /\ Waiting.at = "wait" /\ Waiting.current = Nobody
<1>1. Waiting \in HealthType /\ Waiting.at = "wait" /\ Waiting.current = Nobody
  BY DEF Waiting, HealthType
<1> QED
  BY <1>1 DEF HealthType

\* A call takes a participant when it begins and gives it up when it writes.
LEMMA WorkingStep ==
    ASSUME MediaTypeOK, Working, [MediaNext]_mediaVars
    PROVE  Working'
<1>1. ASSUME NEW t \in Calls, NEW p \in Clients,
             \/ \E r \in ClientRoles : AddParticipant(t, p, r)
             \/ RemoveParticipant(t, p)
      PROVE  Working'
  <2>1. \E r, a : /\ a \in {"insert", "remove"}
                  /\ call' = [call EXCEPT ![t] = [at |-> a, part |-> p, role |-> r]]
    BY <1>1 DEF AddParticipant, RemoveParticipant, Call
  <2>2. DOMAIN call = Calls
    BY DEF MediaTypeOK
  <2> QED
    BY <2>1, <2>2 DEF Working
<1>2. ASSUME NEW t \in Calls, Write(t) PROVE Working'
  <2>1. call' = [call EXCEPT ![t] = NoCall] /\ DOMAIN call = Calls
    BY <1>2 DEF Write, MediaTypeOK
  <2> QED
    BY <2>1 DEF Working, NoCall
<1>3. CASE UNCHANGED call
  BY <1>3 DEF Working
<1>4. CASE \/ \E p \in Clients : Age(p) \/ PromoteBackup(p) \/ Receive(p) \/ Forward(p)
           \/ Walk \/ Resume \/ Check \/ CheckGoesOn \/ UNCHANGED mediaVars
  BY <1>3, <1>4 DEF Age, PromoteBackup, Receive, Forward, Walk, Skip, Send, Done,
                    AwaitRole, CountRole, Counted, MediaOnly, Resume, Check, CheckGoesOn, ReadIdle, Judge, CheckEnds,
                    HealthOnly, mediaVars
<1> QED
  BY <1>1, <1>2, <1>4 DEF MediaNext

\* A walk has a current participant exactly while it may wait there.
LEMMA GuardingStep ==
    ASSUME MediaTypeOK, Guarding, [MediaNext]_mediaVars
    PROVE  Guarding'
<1>1. media \in MediaType /\ health \in HealthType /\ present \subseteq Clients
  BY DEF MediaTypeOK, MediaType, HealthType
<1>2. Nobody \notin Clients
  BY ForwardingAssumption
<1>3. ASSUME NEW p PROVE Behind(p).at = "next" /\ Behind(p).current = Nobody
  BY <1>1 DEF Behind, MediaType
<1>4. CASE \/ \E t \in Calls, p \in Clients, r \in ClientRoles : AddParticipant(t, p, r)
           \/ \E t \in Calls, p \in Clients : RemoveParticipant(t, p)
           \/ \E t \in Calls : Write(t)
           \/ \E p \in Clients : Age(p) \/ PromoteBackup(p) \/ Receive(p)
           \/ UNCHANGED mediaVars
  <2>1. UNCHANGED <<media, health>>
    BY <1>4 DEF AddParticipant, RemoveParticipant, Call, Write, Age, PromoteBackup,
                Receive, mediaVars
  <2> QED
    BY <2>1 DEF Guarding
<1>5. CASE (\E p \in Clients : Forward(p)) \/ Done \/ Counted \/ CountRole
  <2>1. CASE (\E p \in Clients : Forward(p)) \/ Counted
    BY <2>1 DEF Forward, Counted, Reading, MediaOnly, Guarding
  <2>2. CASE Done
    <3>1. /\ media' = [media EXCEPT !.at = "count", !.todo = present]
          /\ media.at = "next" /\ health' = health
      BY <2>2 DEF Done, WalkEnded, MediaOnly
    <3>2. media'.at = "count" /\ media'.current = media.current
      BY <1>1, <3>1 DEF MediaType
    <3> QED
      BY <3>1, <3>2 DEF Guarding
  <2>3. CASE CountRole
    <3>1. media' = [Behind(media.current) EXCEPT !.at = "count"] /\ health' = health
      BY <2>3 DEF CountRole, MediaOnly
    <3>2. media'.at = "count" /\ media'.current = Nobody
      BY <1>1, <3>1 DEF Behind, MediaType
    <3> QED
      BY <3>1, <3>2 DEF Guarding
  <2> QED
    BY <1>5, <2>1, <2>2, <2>3
<1>6. ASSUME NEW p \in Clients, Skip(p) \/ Send(p) \/ AwaitRole(p) PROVE Guarding'
  <2>1. /\ health' = health
        /\ \/ media' = Behind(p)
           \/ media' = [media EXCEPT !.at = "full", !.current = p]
           \/ media' = [media EXCEPT !.at = "role", !.current = p]
    BY <1>6 DEF Skip, Send, AwaitRole, MediaOnly
  <2>2. \/ media'.at = "next" /\ media'.current = Nobody
        \/ media'.at \in {"full", "role"} /\ media'.current = p
    BY <1>1, <1>3, <2>1 DEF MediaType
  <2> QED
    BY <1>2, <2>1, <2>2 DEF Guarding
<1>7. CASE Resume
  <2>1. health' = health /\ media'.at = "next" /\ media'.current = Nobody
    BY <1>3, <1>7 DEF Resume, MediaOnly
  <2> QED
    BY <2>1 DEF Guarding
<1>8. CASE Check \/ Judge \/ CheckEnds
  <2>1. media' = media /\ health'.at \in {"wait", "next"} /\ health'.current = Nobody
    BY <1>8, CheckingWalk DEF Check, Judge, Judged, CheckEnds, HealthOnly
  <2> QED
    BY <2>1 DEF Guarding
<1>9. ASSUME NEW p \in Clients, ReadIdle(p) PROVE Guarding'
  <2>1. media' = media /\ health'.at = "judge" /\ health'.current = p
    BY <1>1, <1>9 DEF ReadIdle, HealthOnly, HealthType
  <2> QED
    BY <1>2, <2>1 DEF Guarding
<1> QED
  BY <1>4, <1>5, <1>6, <1>7, <1>8, <1>9 DEF MediaNext, Walk, CheckGoesOn

\* Only who was idle is judged to be, and a write spares who is being judged.
LEMMA SilenceStep ==
    ASSUME MediaTypeOK, Working, Guarding, Silence, [MediaNext]_mediaVars
    PROVE  Silence'
<1> DEFINE Vars == <<present, condition, idle, health, silent>>
<1>0. /\ health \in HealthType /\ present \subseteq Clients
      /\ idle \in [Clients -> 0 .. 2] /\ DOMAIN condition = Clients
  BY DEF MediaTypeOK, HealthType
<1>1. CASE UNCHANGED Vars
  BY <1>1 DEF Silence
<1>2. CASE \/ \E t \in Calls, p \in Clients, r \in ClientRoles : AddParticipant(t, p, r)
           \/ \E t \in Calls, p \in Clients : RemoveParticipant(t, p)
           \/ Walk \/ Resume \/ UNCHANGED mediaVars
  <2>1. UNCHANGED Vars
    BY <1>2 DEF AddParticipant, RemoveParticipant, Call, Walk, Skip, Send, Done,
                AwaitRole, CountRole, Counted, Resume, MediaOnly, mediaVars
  <2> QED
    BY <1>1, <2>1
<1>3. ASSUME NEW t \in Calls, Write(t) PROVE Silence'
  <2> DEFINE p == call[t].part
  <2>1. p \in Clients /\ p \notin Walker
    BY <1>3, WriteSpares
  <2>2. /\ present' \subseteq present \cup {p} /\ silent' = silent \ {p}
        /\ condition' = [condition EXCEPT ![p] = "Active"]
        /\ idle' = [idle EXCEPT ![p] = 0] /\ health' = health
    BY <1>3 DEF Write
  <2> HIDE DEF p
  <2>3. /\ condition'[p] = "Active" /\ idle'[p] = 0
        /\ \A q \in Clients \ {p} : condition'[q] = condition[q] /\ idle'[q] = idle[q]
    BY <1>0, <2>1, <2>2
  <2>4. health.at = "judge" => health.current # p
    BY <2>1 DEF Guarding, Walker
  <2>5. /\ \A q \in present' : idle'[q] > 0 => q \in silent'
        /\ \A q \in present' \ silent' : condition'[q] = "Active"
    BY <1>0, <2>1, <2>2, <2>3 DEF Silence
  <2> QED
    BY <2>2, <2>4, <2>5 DEF Silence
<1>4. ASSUME NEW p \in Clients, Age(p) PROVE Silence'
  <2>1. /\ silent' = silent \cup {p}
        /\ \A q \in Clients \ {p} : idle'[q] = idle[q]
        /\ UNCHANGED <<present, condition, health>>
    BY <1>0, <1>4 DEF Age
  <2> QED
    BY <1>0, <2>1 DEF Silence
<1>5. ASSUME NEW p \in Clients, PromoteBackup(p) PROVE Silence'
  <2>1. /\ condition'[p] = "Active"
        /\ \A q \in Clients \ {p} : condition'[q] = condition[q]
        /\ UNCHANGED <<present, idle, health, silent>>
    BY <1>0, <1>5 DEF PromoteBackup
  <2> QED
    BY <1>0, <2>1 DEF Silence
<1>6. ASSUME NEW p \in Clients, Receive(p) \/ Forward(p) PROVE Silence'
  <2>1. /\ idle'[p] = 0 /\ \A q \in Clients \ {p} : idle'[q] = idle[q]
        /\ UNCHANGED <<present, condition, health, silent>>
    BY <1>0, <1>6 DEF Receive, Forward, Touch
  <2> QED
    BY <1>0, <2>1 DEF Silence
<1>7. CASE Check \/ CheckEnds
  <2>1. health'.at \in {"next", "wait"} /\ UNCHANGED <<present, condition, idle, silent>>
    BY <1>7, CheckingWalk DEF Check, CheckEnds, HealthOnly
  <2> QED
    BY <2>1 DEF Silence
<1>8. ASSUME NEW p \in Clients, ReadIdle(p) PROVE Silence'
  <2>1. /\ health'.current = p /\ health'.idle = idle[p] /\ p \in present
        /\ UNCHANGED <<present, condition, idle, silent>>
    BY <1>0, <1>8 DEF ReadIdle, HealthOnly, HealthType
  <2> QED
    BY <2>1 DEF Silence
<1>9. CASE Judge
  <2>1. /\ health'.at = "next" /\ health.at = "judge"
        /\ UNCHANGED <<present, idle, silent>>
    BY <1>9, CheckingWalk DEF Judge, Judged, HealthOnly
  <2>2. \A q \in Clients : condition'[q] # condition[q] =>
            q = health.current /\ health.idle > 0
    BY <1>0, <1>9 DEF Judge, HealthType
  <2>3. \A q \in present \ silent : condition'[q] = condition[q]
    BY <1>0, <2>1, <2>2 DEF Silence
  <2> QED
    BY <2>1, <2>3 DEF Silence
<1> QED
  BY <1>2, <1>3, <1>4, <1>5, <1>6, <1>7, <1>8, <1>9 DEF MediaNext, CheckGoesOn

\* Who is owed the packet is passed over by no step of the walk.
LEMMA OwingStep ==
    ASSUME MediaTypeOK, Working, Guarding, Silence, Owing, [MediaNext]_mediaVars
    PROVE  Owing'
<1>0. /\ media \in MediaType /\ present \subseteq Clients /\ DOMAIN clientRole = Clients
  BY DEF MediaTypeOK, MediaType
<1>1. CASE \/ \E t \in Calls, p \in Clients, r \in ClientRoles : AddParticipant(t, p, r)
           \/ \E t \in Calls, p \in Clients : RemoveParticipant(t, p)
           \/ \E p \in Clients : Receive(p)
           \/ Check \/ CheckGoesOn \/ UNCHANGED mediaVars
  <2>1. UNCHANGED <<present, clientRole, media, silent, owed>>
    BY <1>1 DEF AddParticipant, RemoveParticipant, Call, Receive, Check, CheckGoesOn,
                ReadIdle, Judge, CheckEnds, HealthOnly, mediaVars
  <2> QED
    BY <2>1 DEF Owing
<1>2. ASSUME NEW t \in Calls, Write(t) PROVE Owing'
  <2> DEFINE p == call[t].part
  <2>1. p \in Clients
    BY <1>2, WriteSpares
  <2>2. /\ present \ {p} \subseteq present' /\ silent' = silent \ {p} /\ owed' = owed \ {p}
        /\ \E r : clientRole' = [clientRole EXCEPT ![p] = r]
        /\ media' = media
    BY <1>2 DEF Write
  <2> HIDE DEF p
  <2>3. \A q \in Clients \ {p} : clientRole'[q] = clientRole[q]
    BY <1>0, <2>2
  <2> QED
    BY <1>0, <2>2, <2>3 DEF Owing
<1>3. ASSUME NEW p \in Clients, Age(p) PROVE Owing'
  <2>1. /\ silent' = silent \cup {p} /\ owed' = owed \ {p}
        /\ UNCHANGED <<present, clientRole, media>>
    BY <1>3 DEF Age
  <2> QED
    BY <2>1 DEF Owing
<1>4. ASSUME NEW p \in Clients, PromoteBackup(p) PROVE Owing'
  <2>1. /\ clientRole[p] = "BackupSender"
        /\ \A q \in Clients \ {p} : clientRole'[q] = clientRole[q]
        /\ UNCHANGED <<present, media, silent, owed>>
    BY <1>0, <1>4 DEF PromoteBackup
  <2> QED
    BY <1>0, <2>1 DEF Owing
<1>5. ASSUME NEW p \in Clients, Forward(p) PROVE Owing'
  <2>1. /\ media'.at = "next" /\ media'.from = p /\ media'.todo = present
        /\ clientRole[p] = "PrimarySender"
        /\ owed' = {q \in present \ silent : clientRole[q] = "Receiver"}
        /\ UNCHANGED <<present, clientRole, silent>>
    BY <1>5 DEF Forward
  <2> QED
    BY <2>1 DEF Owing
<1>6. ASSUME NEW p
      PROVE  /\ Behind(p).at = "next" /\ Behind(p).from = media.from
             /\ Behind(p).todo = media.todo \ {p}
  BY <1>0 DEF Behind, MediaType
<1>7. ASSUME NEW p \in Clients, Skip(p) PROVE Owing'
  <2>1. /\ media' = Behind(p) /\ media.at = "next" /\ ~Hears(p) /\ p \in present
        /\ UNCHANGED <<present, clientRole, silent, owed>>
    BY <1>7 DEF Skip, MediaOnly
  <2>2. p \notin owed
    BY <2>1 DEF Owing, Hears, Silence
  <2> QED
    BY <1>6, <2>1, <2>2 DEF Owing
<1>8. ASSUME NEW p \in Clients, Send(p) PROVE Owing'
  <2>1. /\ media.at = "next" /\ UNCHANGED <<present, clientRole, silent>>
        /\ \/ media' = Behind(p) /\ owed' = owed \ {p}
           \/ media' = [media EXCEPT !.at = "full", !.current = p] /\ owed' = owed
    BY <1>8 DEF Send, MediaOnly
  <2>2. CASE media' = Behind(p) /\ owed' = owed \ {p}
    BY <1>6, <2>1, <2>2 DEF Owing
  <2>3. CASE media' = [media EXCEPT !.at = "full", !.current = p] /\ owed' = owed
    <3>1. media'.at = "full" /\ media'.from = media.from /\ media'.todo = media.todo
      BY <1>0, <2>3 DEF MediaType
    <3> QED
      BY <2>1, <2>3, <3>1 DEF Owing
  <2> QED
    BY <2>1, <2>2, <2>3
<1>9. CASE Resume
  <2>1. /\ media.at = "full" /\ media' = Behind(media.current)
        /\ owed' = owed \ {media.current} /\ UNCHANGED <<present, clientRole, silent>>
    BY <1>9 DEF Resume, MediaOnly
  <2> QED
    BY <1>6, <2>1 DEF Owing
<1>10. CASE Done \/ Counted \/ CountRole \/ (\E p \in Clients : AwaitRole(p))
  <2>1. owed' = {}
    BY <1>10 DEF Done, Counted, CountRole, AwaitRole, Owing
  <2> QED
    BY <2>1 DEF Owing
<1> QED
  BY <1>1, <1>2, <1>3, <1>4, <1>5, <1>7, <1>8, <1>9, <1>10 DEF MediaNext, Walk

-----------------------------------------------------------------------------
(* Theorems                                                                *)

\* Nobody is in the room at first.
LEMMA InitEstablishes == MediaInit => ForwardingInv
<1> SUFFICES ASSUME MediaInit PROVE ForwardingInv
  OBVIOUS
<1>1. Reading \in MediaType /\ Waiting \in HealthType /\ NoCall \in CallType
  BY DEF Reading, Waiting, NoCall, MediaType, HealthType, CallType, ClientRoles
<1>2. /\ Reading.current = Nobody /\ Waiting.current = Nobody
      /\ Reading.at = "receive" /\ Waiting.at = "wait"
  BY DEF Reading, Waiting
<1>3. MediaTypeOK
  BY <1>1, <1>2 DEF MediaInit, MediaTypeOK, MediaType, HealthType, CallType, ClientRoles,
                    Conditions
<1>4. Working /\ Guarding /\ Silence /\ Owing
  BY <1>2 DEF MediaInit, Working, Guarding, Silence, Owing, NoCall
<1> QED
  BY <1>3, <1>4 DEF ForwardingInv

\* ForwardingInv holds of every reachable state of the media loop, the health
\* check and the calls.
THEOREM ForwardingInductive == MediaSpec => []ForwardingInv
<1>1. ForwardingInv /\ [MediaNext]_mediaVars => ForwardingInv'
  BY TypesStep, WorkingStep, GuardingStep, SilenceStep, OwingStep DEF ForwardingInv
<1> QED
  BY <1>1, InitEstablishes, PTL DEF MediaSpec

\* The variables of the media loop and the health check keep their types, and
\* no call takes the participant a walk stands at out of the map
\* (forward_to_receivers and check_health keep the map's guard).
THEOREM MediaTypeCorrect == MediaSpec => []MediaTypeOK
<1>1. ForwardingInv => MediaTypeOK
  BY DEF ForwardingInv
<1> QED
  BY <1>1, ForwardingInductive, PTL

\* When a walk over the receivers ends, the packet was offered to every receiver
\* that was in the room when it came in, has stayed and never fell silent
\* (forward_to_receivers, check_health, add_participant, remove_participant).
THEOREM ReceiversHearHolds == MediaSpec => []ReceiversHear
<1>1. ForwardingInv => ReceiversHear
  BY DEF ForwardingInv, Owing, ReceiversHear, WalkEnded
<1> QED
  BY <1>1, ForwardingInductive, PTL

-----------------------------------------------------------------------------
(* The composition                                                         *)

\* Side by side in MCFailover a room and a media loop do what each does alone.
THEOREM FailoverComposes == FailoverSpec => Spec /\ MediaSpec
<1>1. FailoverInit => Init /\ MediaInit
  BY DEF FailoverInit
<1>2. [FailoverNext]_<<view, vars, mediaVars>> => [Next]_vars /\ [MediaNext]_mediaVars
  BY DEF FailoverNext
<1> QED
  BY <1>1, <1>2, PTL DEF FailoverSpec, Spec, MediaSpec

\* The types of the room and of its media loop (room.rs, participant.rs).
THEOREM FailoverTypeCorrect == FailoverSpec => []FailoverTypeOK
<1>1. TypeOK /\ MediaTypeOK => FailoverTypeOK
  BY DEF FailoverTypeOK
<1> QED
  BY <1>1, FailoverComposes, TypeCorrect, MediaTypeCorrect, PTL
=============================================================================
