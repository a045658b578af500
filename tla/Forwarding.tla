---------------------------- MODULE Forwarding ----------------------------
(***************************************************************************)
(* The SFU's media loop and its health check over one room's participants. *)
(* Both walk the participant map with a guard on the shard of the current  *)
(* participant, which they keep across awaits; calls of the API that       *)
(* change the map block their worker thread until the guard is gone.  The  *)
(* media loop runs on the main thread, the health check and the calls on   *)
(* the runtime's workers, which also wake whoever waits for the socket.    *)
(* How participants get their roles is module Room's.                      *)
(***************************************************************************)
EXTENDS Naturals, FiniteSets

CONSTANTS
    Clients,  \* participants of the room
    ShardOf,  \* the shard of the participant map each one's id falls into
    Asks,     \* the roles each may join with: pairs <<p, r>>
    Calls,    \* the API calls that can be in flight at a time
    Nobody,   \* no participant
    Workers   \* worker threads of the runtime

ASSUME ForwardingAssumption ==
    /\ Nobody \notin Clients /\ IsFiniteSet(Clients) /\ IsFiniteSet(Calls)
    /\ DOMAIN ShardOf = Clients
    /\ Asks \subseteq Clients \X {"PrimarySender", "BackupSender", "Receiver"}
    /\ Workers \in Nat \ {0}

VARIABLES
    present,    \* Room::participants
    clientRole, \* Participant::role, of those present
    condition,  \* Participant::state, of those present
    idle,       \* how many heartbeat timeouts last_activity is past: 0, 1 or 2
    media,      \* the media loop: what it does and its walk over the map
    health,     \* the health check: its walk and the idle time it has read
    call,       \* the API calls: where each is and what it wants
    silent,     \* history: who has been idle for too long since joining
    owed        \* history: who has been a talkative receiver since the packet
                \* being forwarded came in, and was not sent it yet

mediaVars == <<present, clientRole, condition, idle, media, health, call,
               silent, owed>>

ClientRoles == {"PrimarySender", "BackupSender", "Receiver"}

\* SfuServer::add_participant makes a participant Active before it joins.
Conditions == {"Connecting", "Active", "Suspected", "Disconnected"}
Reading == [at |-> "receive", from |-> Nobody, todo |-> {}, current |-> Nobody]
Waiting == [at |-> "wait", todo |-> {}, current |-> Nobody, idle |-> 0]
NoCall == [at |-> "idle", part |-> Nobody, role |-> "Receiver"]

\* Types; the participant a walk stands at is not taken from under it.
MediaTypeOK ==
    /\ present \subseteq Clients
    /\ clientRole \in [Clients -> ClientRoles]
    /\ condition \in [Clients -> Conditions \ {"Connecting"}]
    /\ idle \in [Clients -> 0 .. 2]
    /\ media \in [at : {"receive", "next", "full", "count", "role"},
                  from : Clients \cup {Nobody}, todo : SUBSET Clients,
                  current : Clients \cup {Nobody}]
    /\ health \in [at : {"wait", "next", "judge"}, todo : SUBSET Clients,
                   current : Clients \cup {Nobody}, idle : 0 .. 2]
    /\ call \in [Calls -> [at : {"idle", "insert", "remove"},
                           part : Clients \cup {Nobody}, role : ClientRoles]]
    /\ {media.current, health.current} \ {Nobody} \subseteq present
    /\ silent \subseteq Clients /\ owed \subseteq Clients

MediaInit ==
    /\ present = {}
    /\ clientRole = [p \in Clients |-> "Receiver"]
    /\ condition = [p \in Clients |-> "Active"]
    /\ idle = [p \in Clients |-> 0]
    /\ media = Reading
    /\ health = Waiting
    /\ call = [t \in Calls |-> NoCall]
    /\ silent = {} /\ owed = {}

-----------------------------------------------------------------------------
(* Guards, workers, time                                                   *)

\* The shards of which a walk over the map holds the read guard.
Guarded == {ShardOf[p] : p \in {media.current, health.current} \ {Nobody}}

\* A call in the map keeps its worker, waiting for a guard or not.
Busy == Cardinality({t \in Calls : call[t].at # "idle"})

\* Mutant: the health check blocks its worker while it waits, as a block_on
\* inside the runtime would.
BesidesCheck == Busy + (IF health.at = "judge" THEN 1 ELSE 0) < Workers

WorkerFree == Busy < Workers

\* Time passes without a packet of p.
Age(p) ==
    /\ p \in present /\ idle[p] < 2
    /\ idle' = [idle EXCEPT ![p] = @ + 1]
    /\ silent' = silent \cup {p}
    /\ owed' = owed \ {p}
    /\ UNCHANGED <<present, clientRole, condition, media, health, call>>

-----------------------------------------------------------------------------
(* The API: calls that change the map                                      *)

Call(t, point, p, r) ==
    /\ call[t].at = "idle" /\ WorkerFree
    /\ \A u \in Calls : call[u].part # p
    /\ call' = [call EXCEPT ![t] = [at |-> point, part |-> p, role |-> r]]
    /\ UNCHANGED <<present, clientRole, condition, idle, media, health, silent, owed>>

\* Room::add_participant, which has checked the role; one primary at most.
AddParticipant(t, p, r) ==
    /\ p \notin present /\ <<p, r>> \in Asks
    /\ r = "PrimarySender" => \A q \in present : clientRole[q] # r
    /\ \A u \in Calls : call[u].at # "insert"
    /\ Call(t, "insert", p, r)

RemoveParticipant(t, p) == p \in present /\ Call(t, "remove", p, clientRole[p])

\* Mutant: a participant that joins is not made Active.
WriteConnecting(t) ==
    LET p == call[t].part
    IN  /\ call[t].at = "insert"
        /\ ShardOf[p] \notin Guarded
        /\ call' = [call EXCEPT ![t] = NoCall]
        /\ present' = present \cup {p}
        /\ clientRole' = [clientRole EXCEPT ![p] = call[t].role]
        /\ condition' = [condition EXCEPT ![p] = "Suspected"]
        /\ idle' = [idle EXCEPT ![p] = 0]
        /\ UNCHANGED <<media, health, silent, owed>>

\* Mutant: a write does not wait for the guards.
WriteUnguarded(t) ==
    LET p == call[t].part
        inserts == call[t].at = "insert"
    IN  /\ call[t].at # "idle"
        /\ call' = [call EXCEPT ![t] = NoCall]
        /\ present' = IF inserts THEN present \cup {p} ELSE present \ {p}
        /\ clientRole' = [clientRole EXCEPT ![p] = IF inserts THEN call[t].role ELSE "Receiver"]
        /\ condition' = [condition EXCEPT ![p] = "Active"]
        /\ idle' = [idle EXCEPT ![p] = 0]
        /\ silent' = silent \ {p}
        /\ owed' = owed \ {p}
        /\ UNCHANGED <<media, health>>

\* The write on the map, once no walk holds the shard.
Write(t) ==
    LET p == call[t].part
        inserts == call[t].at = "insert"
    IN  /\ call[t].at # "idle"
        /\ ShardOf[p] \notin Guarded
        /\ call' = [call EXCEPT ![t] = NoCall]
        /\ present' = IF inserts THEN present \cup {p} ELSE present \ {p}
        /\ clientRole' = [clientRole EXCEPT ![p] = IF inserts THEN call[t].role ELSE "Receiver"]
        /\ condition' = [condition EXCEPT ![p] = "Active"]
        /\ idle' = [idle EXCEPT ![p] = 0]
        /\ silent' = silent \ {p}
        /\ owed' = owed \ {p}
        /\ UNCHANGED <<media, health>>

\* promote_backup, after the primary has left.
PromoteBackup(p) ==
    /\ p \in present /\ clientRole[p] = "BackupSender"
    /\ \A q \in present : clientRole[q] # "PrimarySender"
    /\ clientRole' = [clientRole EXCEPT ![p] = "PrimarySender"]
    /\ condition' = [condition EXCEPT ![p] = "Active"]
    /\ UNCHANGED <<present, idle, media, health, call, silent, owed>>

-----------------------------------------------------------------------------
(* The media loop                                                          *)

MediaOnly == UNCHANGED <<present, clientRole, condition, idle, health, call, silent>>

\* Participant::touch; nothing brings back a participant that is no longer
\* Active.
Touch(p) == idle' = [idle EXCEPT ![p] = 0]

\* A packet of a participant's address, media or a heartbeat, counts as
\* activity.
Receive(p) ==
    /\ media.at = "receive" /\ p \in present
    /\ Touch(p)
    /\ UNCHANGED <<present, clientRole, condition, media, health, call, silent, owed>>

\* A packet of the primary that should_forward lets through.
Forward(p) ==
    /\ media.at = "receive" /\ p \in present /\ clientRole[p] = "PrimarySender"
    /\ Touch(p)
    /\ media' = [at |-> "next", from |-> p, todo |-> present, current |-> Nobody]
    /\ owed' = {q \in present \ silent : clientRole[q] = "Receiver"}
    /\ UNCHANGED <<present, clientRole, condition, health, call, silent>>

\* The walk goes on behind participant p.
Behind(p) == [media EXCEPT !.at = "next", !.current = Nobody, !.todo = @ \ {p}]

\* The sender itself, senders and who is not Active are passed over.
Hears(p) == p # media.from /\ clientRole[p] = "Receiver" /\ condition[p] = "Active"

Skip(p) ==
    /\ media.at = "next" /\ p \in media.todo \cap present /\ ~Hears(p)
    /\ media' = Behind(p)
    /\ UNCHANGED owed /\ MediaOnly

\* The socket takes the packet, or is full and the walk waits with its guard.
Send(p) ==
    /\ media.at = "next" /\ p \in media.todo \cap present /\ Hears(p)
    /\ \/ media' = Behind(p) /\ owed' = owed \ {p}
       \/ media' = [media EXCEPT !.at = "full", !.current = p] /\ UNCHANGED owed
    /\ MediaOnly

\* A worker that has nothing else to do notices that the socket is ready.
Resume ==
    /\ media.at = "full" /\ WorkerFree
    /\ media' = Behind(media.current)
    /\ owed' = owed \ {media.current}
    /\ MediaOnly

WalkEnded == media.at = "next" /\ media.todo \cap present = {}

\* forward goes on to count the receivers, in a walk of its own.
Done ==
    /\ WalkEnded
    /\ media' = [media EXCEPT !.at = "count", !.todo = present]
    /\ owed' = {}
    /\ MediaOnly

\* receiver_count awaits each role with the guard, which it then gives back.
AwaitRole(p) ==
    /\ media.at = "count" /\ p \in media.todo \cap present
    /\ media' = [media EXCEPT !.at = "role", !.current = p]
    /\ UNCHANGED owed /\ MediaOnly

CountRole ==
    /\ media.at = "role"
    /\ media' = [Behind(media.current) EXCEPT !.at = "count"]
    /\ UNCHANGED owed /\ MediaOnly

Counted ==
    /\ media.at = "count" /\ media.todo \cap present = {}
    /\ media' = Reading
    /\ UNCHANGED owed /\ MediaOnly

-----------------------------------------------------------------------------
(* The health check.  It yields at any await, with its guard: then it goes *)
(* on when a worker is free.                                               *)

HealthOnly == UNCHANGED <<present, clientRole, idle, media, call, silent, owed>>

Check ==
    /\ health.at = "wait" /\ WorkerFree
    /\ health' = [Waiting EXCEPT !.at = "next", !.todo = present]
    /\ UNCHANGED condition /\ HealthOnly

\* The idle time is read before the state.
ReadIdle(p) ==
    /\ health.at = "next" /\ WorkerFree
    /\ p \in health.todo \cap present
    /\ health' = [health EXCEPT !.at = "judge", !.current = p, !.idle = idle[p]]
    /\ UNCHANGED condition /\ HealthOnly

Judged == [Waiting EXCEPT !.at = "next", !.todo = health.todo \ {health.current}]

\* check_health, of the current participant.
Judge ==
    /\ health.at = "judge" /\ WorkerFree
    /\ LET p == health.current
       IN  condition' =
             CASE health.idle > 0 /\ condition[p] = "Active" ->
                    [condition EXCEPT ![p] = "Suspected"]
               [] health.idle > 1 /\ condition[p] # "Active" ->
                    [condition EXCEPT ![p] = "Disconnected"]
               [] OTHER -> condition
    /\ health' = Judged
    /\ HealthOnly

CheckEnds ==
    /\ health.at = "next" /\ WorkerFree
    /\ health.todo \cap present = {}
    /\ health' = Waiting
    /\ UNCHANGED condition /\ HealthOnly

-----------------------------------------------------------------------------
Walk ==
    \/ \E p \in Clients : Skip(p) \/ Send(p) \/ AwaitRole(p)
    \/ Done \/ CountRole \/ Counted
CheckGoesOn == (\E p \in Clients : ReadIdle(p)) \/ Judge \/ CheckEnds

MediaNext ==
    \/ \E t \in Calls, p \in Clients, r \in ClientRoles : AddParticipant(t, p, r)
    \/ \E t \in Calls, p \in Clients : RemoveParticipant(t, p)
    \/ \E t \in Calls : Write(t)
    \/ \E p \in Clients : Age(p) \/ PromoteBackup(p) \/ Receive(p) \/ Forward(p)
    \/ Walk \/ Resume
    \/ Check \/ CheckGoesOn

MediaSpec == MediaInit /\ [][MediaNext]_mediaVars

\* The main thread polls the media loop; workers take what is ready in turn
\* and look after the socket in between.
MediaFairness ==
    /\ WF_mediaVars(Walk) /\ SF_mediaVars(Resume)
    /\ SF_mediaVars(CheckGoesOn)
    /\ \A t \in Calls : WF_mediaVars(Write(t))

FairMediaSpec == MediaSpec /\ MediaFairness

-----------------------------------------------------------------------------
(* Properties                                                              *)

\* A packet of the primary was offered to every receiver that has been in the
\* room since it came in and never fell silent: no order of joins, removals,
\* promotions and health checks leaves a talkative receiver out.  (One that
\* fell silent once is left out for as long as it stays.)
ReceiversHear == WalkEnded => owed = {}

\* Every worker waits for a guard that its holder gives back only after a
\* worker got to it.
Deadlocked ==
    /\ Busy = Workers
    /\ \A t \in Calls : call[t].at # "idle" => ShardOf[call[t].part] \in Guarded

\* The walks over the receivers end: guards that are kept across awaits stop
\* the server only when as many calls as there are workers wait for them.
ForwardingGoesOn == media.at # "receive" ~> (media.at = "receive" \/ Deadlocked)
=============================================================================
