-------------------------------- MODULE Room --------------------------------
(***************************************************************************)
(* One room of the SFU: the registers that say who streams (the primary    *)
(* and the backup sender id), the participant map, the room state, and the *)
(* calls in flight on them.  room.rs is async code shared by the HTTP      *)
(* handlers and the media loop, so its calls interleave wherever one of    *)
(* them releases a lock or awaits; each action below is what a call does   *)
(* between two such points.  The removal entered through the SFU server    *)
(* goes on, after the room has forgotten the participant, to the failover  *)
(* of server.rs; the removal entered through the HTTP API does not.        *)
(***************************************************************************)
EXTENDS Naturals, FiniteSets

CONSTANTS
    Parts,            \* Participant objects: one per Participant::new
    Ids,              \* participant ids
    IdOf,             \* the id each object was made with
    Tasks,            \* the calls that can be in flight at a time
    None,             \* no participant, no id (Option::None)
    MaxParticipants,  \* config.max_participants_per_room
    AllowBackup,      \* config.room.allow_backup_sender
    FailoverEnabled,  \* config.failover.enabled
    Removals          \* the entry points removals use: "api", "server"

ASSUME RoomAssumption ==
    /\ IdOf \in [Parts -> Ids]
    /\ None \notin Parts /\ None \notin Ids
    /\ IsFiniteSet(Parts) /\ IsFiniteSet(Tasks)
    /\ MaxParticipants \in Nat
    /\ AllowBackup \in BOOLEAN /\ FailoverEnabled \in BOOLEAN
    /\ Removals \subseteq {"api", "server"}

VARIABLES
    open,       \* the server's room table still holds this room
    roomState,  \* Room::state
    primary,    \* Room::primary_sender_id
    backup,     \* Room::backup_sender_id
    members,    \* Room::participants, as the set of objects the map holds
    role,       \* Participant::role of every object
    task,       \* where each call in flight is, and the object it works on
    serial      \* history: no call has started while another was in flight

vars == <<open, roomState, primary, backup, members, role, task, serial>>

RoomStates == {"Active", "Paused", "Failover", "Closed"}
Roles == {"PrimarySender", "BackupSender", "Receiver"}

\* The points at which a call waits for its next step.
Points == {"idle",
           "duplicate", "claim", "insert",        \* add_participant
           "release",                             \* remove_participant
           "inspect", "trigger",                  \* the server's removal
           "take", "crown", "install", "activate", "pause" \* promote_backup
          }

TypeOK ==
    /\ open \in BOOLEAN
    /\ roomState \in RoomStates
    /\ primary \in Ids \cup {None}
    /\ backup \in Ids \cup {None}
    /\ members \subseteq Parts
    /\ role \in [Parts -> Roles]
    /\ task \in [Tasks -> [at  : Points,
                           obj : Parts \cup {None},
                           via : {"api", "server"}]]
    /\ \A t \in Tasks : task[t].at \notin {"idle", "inspect", "trigger", "take", "pause"}
                            => task[t].obj # None
    /\ serial \in BOOLEAN

Idle == [at |-> "idle", obj |-> None, via |-> "api"]

Init ==
    /\ open = TRUE
    /\ roomState = "Paused"
    /\ primary = None
    /\ backup = None
    /\ members = {}
    /\ role = [p \in Parts |-> "Receiver"]
    /\ task = [t \in Tasks |-> Idle]
    /\ serial = TRUE

-----------------------------------------------------------------------------
At(t, point) == task[t].at = point

Goto(t, point) == task' = [task EXCEPT ![t].at = point]

Return(t) == task' = [task EXCEPT ![t] = Idle]

\* A call begins: it overlaps whatever other call has not returned yet.
Begin(t, point, p, via) ==
    /\ task' = [task EXCEPT ![t] = [at |-> point, obj |-> p, via |-> via]]
    /\ serial' = (serial /\ \A u \in Tasks \ {t} : At(u, "idle"))

\* No map entry and no call holds the object: Participant::new may make it.
Unused(p) ==
    /\ p \notin members
    /\ \A t \in Tasks : task[t].obj # p

-----------------------------------------------------------------------------
(* SfuServer::add_participant and Room::add_participant                    *)

\* Mutant: the capacity check lets one participant too many through.
CheckCapacityOffByOne(t, p, r) ==
    /\ At(t, "idle")
    /\ open
    /\ Unused(p)
    /\ Cardinality(members) <= MaxParticipants
    /\ role' = [role EXCEPT ![p] = r]
    /\ Begin(t, "duplicate", p, "api")
    /\ UNCHANGED <<open, roomState, primary, backup, members>>

\* The room is looked up and has room for one more: the check is not made
\* again before the insertion.
CheckCapacity(t, p, r) ==
    /\ At(t, "idle")
    /\ open
    /\ Unused(p)
    /\ Cardinality(members) < MaxParticipants
    /\ role' = [role EXCEPT ![p] = r]
    /\ Begin(t, "duplicate", p, "api")
    /\ UNCHANGED <<open, roomState, primary, backup, members>>

SameId(p, q) == IdOf[p] = IdOf[q]

CheckDuplicate(t) ==
    /\ At(t, "duplicate")
    /\ IF \E m \in members : SameId(m, task[t].obj)
       THEN Return(t)
       ELSE Goto(t, "claim")
    /\ UNCHANGED <<open, roomState, primary, backup, members, role, serial>>

\* Mutant: the register is not looked at before it is taken.
ClaimPrimaryUnchecked(t) ==
    /\ role[task[t].obj] = "PrimarySender"
    /\ primary' = IdOf[task[t].obj]
    /\ roomState' = "Active"
    /\ Goto(t, "insert")
    /\ UNCHANGED backup

\* A primary takes the primary register if it is free and makes the room
\* active, under the register's lock.
ClaimPrimary(t) ==
    /\ role[task[t].obj] = "PrimarySender"
    /\ IF primary = None
       THEN /\ primary' = IdOf[task[t].obj]
            /\ roomState' = "Active"
            /\ Goto(t, "insert")
       ELSE /\ Return(t)
            /\ UNCHANGED <<primary, roomState>>
    /\ UNCHANGED backup

\* A backup takes the backup register from whoever holds it.
ClaimBackup(t) ==
    /\ role[task[t].obj] = "BackupSender"
    /\ IF AllowBackup
       THEN /\ backup' = IdOf[task[t].obj]
            /\ Goto(t, "insert")
       ELSE /\ Return(t)
            /\ UNCHANGED backup
    /\ UNCHANGED <<primary, roomState>>

ClaimNothing(t) ==
    /\ role[task[t].obj] = "Receiver"
    /\ Goto(t, "insert")
    /\ UNCHANGED <<primary, backup, roomState>>

Claim(t) ==
    /\ At(t, "claim")
    /\ ClaimPrimary(t) \/ ClaimBackup(t) \/ ClaimNothing(t)
    /\ UNCHANGED <<open, members, role, serial>>

\* The map insertion replaces an object inserted under the same id meanwhile.
Insert(t) ==
    /\ At(t, "insert")
    /\ members' = {m \in members : ~SameId(m, task[t].obj)} \cup {task[t].obj}
    /\ Return(t)
    /\ UNCHANGED <<open, roomState, primary, backup, role, serial>>

-----------------------------------------------------------------------------
(* Room::remove_participant, entered from the HTTP API or from the server  *)

Cut(t, p, via) ==
    /\ At(t, "idle")
    /\ open
    /\ p \in members
    /\ members' = members \ {p}
    /\ Begin(t, "release", p, via)
    /\ UNCHANGED <<open, roomState, primary, backup, role>>

\* Mutant: a removed primary leaves the room state as it was.
ReleaseKeepsState(t) ==
    /\ At(t, "release")
    /\ primary' = IF role[task[t].obj] = "PrimarySender" THEN None ELSE primary
    /\ backup' = IF role[task[t].obj] = "BackupSender" THEN None ELSE backup
    /\ IF task[t].via = "server"
       THEN task' = [task EXCEPT ![t] = [Idle EXCEPT !.at = "inspect"]]
       ELSE Return(t)
    /\ UNCHANGED <<open, roomState, members, role, serial>>

\* Mutant: a removed backup stays in the backup register.
ReleaseKeepsBackup(t) ==
    /\ At(t, "release")
    /\ IF role[task[t].obj] = "PrimarySender"
       THEN /\ primary' = None
            /\ roomState' = IF backup # None THEN "Failover" ELSE "Paused"
       ELSE UNCHANGED <<primary, roomState>>
    /\ IF task[t].via = "server"
       THEN task' = [task EXCEPT ![t] = [Idle EXCEPT !.at = "inspect"]]
       ELSE Return(t)
    /\ UNCHANGED <<open, backup, members, role, serial>>

\* The role decides which register is cleared, whatever id it holds.
Release(t) ==
    /\ At(t, "release")
    /\ CASE role[task[t].obj] = "PrimarySender" ->
              /\ primary' = None
              /\ roomState' = IF backup # None THEN "Failover" ELSE "Paused"
              /\ UNCHANGED backup
         [] role[task[t].obj] = "BackupSender" ->
              /\ backup' = None
              /\ UNCHANGED <<primary, roomState>>
         [] OTHER -> UNCHANGED <<primary, backup, roomState>>
    /\ IF task[t].via = "server"
       THEN task' = [task EXCEPT ![t] = [Idle EXCEPT !.at = "inspect"]]
       ELSE Return(t)
    /\ UNCHANGED <<open, members, role, serial>>

-----------------------------------------------------------------------------
(* SfuServer::remove_participant goes on: trigger_failover, promote_backup *)

Inspect(t) ==
    /\ At(t, "inspect")
    /\ IF roomState = "Failover" THEN Goto(t, "trigger") ELSE Return(t)
    /\ UNCHANGED <<open, roomState, primary, backup, members, role, serial>>

Trigger(t) ==
    /\ At(t, "trigger")
    /\ IF open /\ FailoverEnabled
       THEN Goto(t, "take")     \* sleeps for promotion_delay first
       ELSE Return(t)
    /\ roomState' = IF open /\ ~FailoverEnabled THEN "Paused" ELSE roomState
    /\ UNCHANGED <<open, primary, backup, members, role, serial>>

\* Mutant: the backup register keeps the promoted backup.
TakeKeepsBackup(t) ==
    /\ At(t, "take")
    /\ \/ \E p \in members :
            /\ IdOf[p] = backup
            /\ task' = [task EXCEPT ![t].at = "crown", ![t].obj = p]
       \/ /\ \A p \in members : IdOf[p] # backup
          /\ Goto(t, "pause")
    /\ UNCHANGED <<open, roomState, primary, backup, members, role, serial>>

\* The backup register is emptied before the participant is looked up; there
\* may be no backup, or one that is gone.
Take(t) ==
    /\ At(t, "take")
    /\ backup' = None
    /\ \/ \E p \in members :
            /\ IdOf[p] = backup
            /\ task' = [task EXCEPT ![t].at = "crown", ![t].obj = p]
       \/ /\ \A p \in members : IdOf[p] # backup
          /\ Goto(t, "pause")
    /\ UNCHANGED <<open, roomState, primary, members, role, serial>>

\* Without a backup the room is paused, whatever has become of it meanwhile.
Pause(t) ==
    /\ At(t, "pause")
    /\ roomState' = "Paused"
    /\ Return(t)
    /\ UNCHANGED <<open, primary, backup, members, role, serial>>

\* Mutant: the promoted participant keeps its backup role.
CrownWithoutRole(t) ==
    /\ At(t, "crown")
    /\ Goto(t, "install")
    /\ UNCHANGED <<open, roomState, primary, backup, members, role, serial>>

Crown(t) ==
    /\ At(t, "crown")
    /\ role' = [role EXCEPT ![task[t].obj] = "PrimarySender"]
    /\ Goto(t, "install")
    /\ UNCHANGED <<open, roomState, primary, backup, members, serial>>

\* The primary register is overwritten without being looked at.
Install(t) ==
    /\ At(t, "install")
    /\ primary' = IdOf[task[t].obj]
    /\ Goto(t, "activate")
    /\ UNCHANGED <<open, roomState, backup, members, role, serial>>

Activate(t) ==
    /\ At(t, "activate")
    /\ roomState' = "Active"
    /\ Return(t)
    /\ UNCHANGED <<open, primary, backup, members, role, serial>>

-----------------------------------------------------------------------------
(* SfuServer::close_room: calls in flight keep their reference to the room *)

Close ==
    /\ open
    /\ open' = FALSE
    /\ roomState' = "Closed"
    /\ serial' = (serial /\ \A t \in Tasks : At(t, "idle"))
    /\ UNCHANGED <<primary, backup, members, role, task>>

-----------------------------------------------------------------------------
Progress(t) ==
    \/ CheckDuplicate(t) \/ Claim(t) \/ Insert(t)
    \/ Release(t)
    \/ Inspect(t) \/ Trigger(t)
    \/ Take(t) \/ Pause(t) \/ Crown(t) \/ Install(t) \/ Activate(t)

Next ==
    \/ \E t \in Tasks, p \in Parts, r \in Roles : CheckCapacity(t, p, r)
    \/ \E t \in Tasks, p \in Parts, via \in Removals : Cut(t, p, via)
    \/ \E t \in Tasks : Progress(t)
    \/ Close

Spec == Init /\ [][Next]_vars

\* A call in flight is a future its runtime keeps polling until it returns:
\* the locks it waits for are all released within an action.
FairSpec == Spec /\ \A t \in Tasks : WF_vars(Progress(t))
-----------------------------------------------------------------------------
(* Properties                                                              *)

\* The participants whose packets the media loop forwards to the receivers.
Speaking == {p \in members : role[p] = "PrimarySender"}

\* No removal goes on to promote a backup.
NoPromotion == "server" \notin Removals \/ ~FailoverEnabled

Quiet == \A t \in Tasks : At(t, "idle")

\* As long as nothing promotes a backup, whoever is forwarded as the primary
\* is the one in the primary register, and is alone: however adds and
\* removals interleave, no two senders are mixed into the room's stream.
\* (add_participant claims under the register's lock, but removes a primary
\* from the map and clears the register in two separate steps.)
SoleSender ==
    NoPromotion => /\ \A p \in Speaking : primary = IdOf[p]
                   /\ \A p, q \in Speaking : p = q

\* The stage of the room: the primary register and whoever is forwarded.
Abstract == INSTANCE Stage WITH holder <- primary, speakers <- Speaking

\* Without promotions the room implements the stage (module Stage), although
\* its calls take the register, the map and the role one after the other: the
\* stream passes from one sender to the next only over an empty stage and a
\* free register.
HandsOver == Abstract!StageSpec

\* While removals come through the API only, an open room is Active exactly
\* when the primary register is taken: the state other clients are shown
\* cannot drift from the register that decides who may become the primary.
StateFollowsRegister ==
    "server" \notin Removals =>
        (open => (roomState = "Active" <=> primary # None))

\* The capacity check is not repeated at the insertion, so calls that passed
\* it together may overfill the room: by one less than the calls in flight,
\* never by more.
BoundedOvershoot ==
    \/ Cardinality(members) < MaxParticipants + Cardinality(Tasks)
    \/ members = {}

\* While calls do not overlap and removals come through the server, a room
\* at rest is coherent across any number of failovers: its state, its two
\* registers and the roles in its map tell the same story, and Failover is
\* never where it comes to rest.
SerialCoherent ==
    "api" \notin Removals /\ serial /\ open /\ Quiet =>
        /\ roomState \in {"Active", "Paused"}
        /\ roomState = "Active" <=> primary # None
        /\ primary # None => \E p \in Speaking : IdOf[p] = primary
        /\ \A p \in Speaking : IdOf[p] = primary
        /\ backup # None => \E p \in members : /\ IdOf[p] = backup
                                               /\ role[p] = "BackupSender"

\* Without overlapping calls, the only participants made primary are members
\* that joined as a backup: a receiver is never handed the stream.
PromotesOnlyBackups ==
    [][serial' => \A p \in members \cap members' :
                     role[p] # role'[p] => /\ role[p] = "BackupSender"
                                           /\ role'[p] = "PrimarySender"]_vars

\* README "failover": an open room that a removal left in Failover does not
\* stay there, whatever other calls run meanwhile.
FailoverResolves ==
    (open /\ roomState = "Failover") ~> (~open \/ roomState # "Failover")

\* The whole of README "failover": while no other call interferes, the backup
\* that is registered when the primary goes becomes the one primary of an
\* Active room.
BackupTakesOver ==
    (/\ roomState = "Failover" /\ open /\ serial
     /\ \E p \in members : IdOf[p] = backup)
        ~> \/ roomState = "Active" /\ \E p \in Parts : /\ Speaking = {p}
                                                     /\ primary = IdOf[p]
           \/ ~serial

\* Both halves of a failover: the Failover state is always left, and by the
\* backup's promotion where nothing interferes.
FailoverCompletes == FailoverResolves /\ BackupTakesOver

\* room.rs, remove_participant: "Trigger failover if backup exists".  Removing
\* the primary of a room with a backup sender in it starts a failover.
FailoverIfBackupExists ==
    [][(/\ primary # None /\ primary' = None
        /\ \E p \in members : role[p] = "BackupSender")
            => roomState' = "Failover"]_vars
=============================================================================
