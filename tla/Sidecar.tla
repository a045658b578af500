------------------------------- MODULE Sidecar -------------------------------
(***************************************************************************)
(* How USSP Admin starts, stops and restarts the SFU server as a child     *)
(* process and configures it: commands called at any time, one log reader  *)
(* per process, which learns of the process's end, and the stop at exit.   *)
(* child and running are two locks; stop keeps the first while it writes   *)
(* the second, start and the reader take one after the other.              *)
(***************************************************************************)
EXTENDS Naturals

CONSTANTS
    Calls,    \* commands that can be in flight at a time
    MaxProcs, \* bound: server processes ever spawned
    Configs   \* the configurations a user may choose

ASSUME SidecarAssumption == MaxProcs \in Nat /\ Configs # {}

VARIABLES
    running,   \* SidecarState::running
    child,     \* SidecarState::child: the process a handle is held of, or 0
    proc,      \* the processes: "none", "live", "killed" (about to end), "dead"
    reader,    \* the log reader of each process
    spawned,   \* processes spawned so far
    cmd,       \* where each call is, the process it spawned and whether it is
               \* a restart
    config,    \* SidecarState::config
    launched,  \* the configuration each process was spawned with
    exited,    \* the application has ended
    inTurn,    \* history: every call waited for what went before it to end
    killFailed \* history: the system refused to kill a process

settings == <<config, launched, exited>>
sidecarVars == <<running, child, proc, reader, spawned, cmd, settings, inTurn, killFailed>>

Procs == 1 .. MaxProcs
DefaultConfig == CHOOSE g \in Configs : TRUE

SidecarTypeOK ==
    /\ running \in BOOLEAN
    /\ child \in 0 .. spawned
    /\ spawned \in 0 .. MaxProcs
    /\ proc \in [Procs -> {"none", "live", "killed", "dead"}]
    /\ \A p \in Procs : proc[p] = "none" <=> p > spawned
    /\ reader \in [Procs -> {"none", "reading", "told", "done"}]
    /\ cmd \in [Calls -> [at : {"idle", "spawn", "keep", "show", "listen", "unshow",
                                "pause", "set"},
                          pid : 0 .. spawned, restarts : BOOLEAN]]
    /\ config \in Configs /\ launched \in [Procs -> Configs]
    /\ exited \in BOOLEAN /\ inTurn \in BOOLEAN /\ killFailed \in BOOLEAN

Call(point, pid, restarts) == [at |-> point, pid |-> pid, restarts |-> restarts]
Idle == Call("idle", 0, FALSE)

SidecarInit ==
    /\ running = FALSE
    /\ child = 0
    /\ proc = [p \in Procs |-> "none"]
    /\ reader = [p \in Procs |-> "none"]
    /\ spawned = 0
    /\ cmd = [c \in Calls |-> Idle]
    /\ config = DefaultConfig
    /\ launched = [p \in Procs |-> config]
    /\ exited = FALSE
    /\ inTurn = TRUE
    /\ killFailed = FALSE

-----------------------------------------------------------------------------
At(c, point) == cmd[c].at = point
Goto(c, point) == cmd' = [cmd EXCEPT ![c].at = point]

AllIdle == \A c \in Calls : At(c, "idle")
OthersIdle(c) == \A d \in Calls \ {c} : At(d, "idle")

\* stop holds the lock on child until it has written running.
ChildUnlocked == \A c \in Calls : ~At(c, "unshow")

ReadersSettled == \A p \in Procs : reader[p] \in {"none", "done"}
-----------------------------------------------------------------------------
(* start                                                                   *)

\* A start that finds running set is refused.
LaunchCheck(c) ==
    /\ At(c, "idle")
    /\ ~running
    /\ Goto(c, "spawn")
    /\ inTurn' = (inTurn /\ AllIdle /\ ReadersSettled)
    /\ UNCHANGED <<running, child, proc, reader, spawned, settings, killFailed>>

\* The sidecar is spawned with the configuration as it is now, or cannot be.
SpawnChild(c) ==
    /\ At(c, "spawn")
    /\ \/ /\ spawned < MaxProcs
          /\ spawned' = spawned + 1
          /\ proc' = [proc EXCEPT ![spawned'] = "live"]
          /\ launched' = [launched EXCEPT ![spawned'] = config]
          /\ cmd' = [cmd EXCEPT ![c] = Call("keep", spawned', FALSE)]
       \/ /\ cmd' = [cmd EXCEPT ![c] = Idle]
          /\ UNCHANGED <<spawned, proc, launched>>
    /\ UNCHANGED <<running, child, reader, config, exited, inTurn, killFailed>>

\* The handle is kept over whatever handle is there; dropping that kills nothing.
KeepChild(c) ==
    /\ At(c, "keep")
    /\ ChildUnlocked
    /\ child' = cmd[c].pid
    /\ Goto(c, "show")
    /\ UNCHANGED <<running, proc, reader, spawned, settings, inTurn, killFailed>>

ShowRunning(c) ==
    /\ At(c, "show")
    /\ running' = TRUE
    /\ Goto(c, "listen")
    /\ UNCHANGED <<child, proc, reader, spawned, settings, inTurn, killFailed>>

SpawnReader(c) ==
    /\ At(c, "listen")
    /\ reader' = [reader EXCEPT ![cmd[c].pid] = "reading"]
    /\ cmd' = [cmd EXCEPT ![c] = Idle]
    /\ UNCHANGED <<running, child, proc, spawned, settings, inTurn, killFailed>>

-----------------------------------------------------------------------------
(* stop                                                                    *)

\* Mutant: the handle is dropped and its process not killed.
StopChildDrops(c, restarts) ==
    /\ At(c, "idle")
    /\ ChildUnlocked
    /\ inTurn' = (inTurn /\ AllIdle)
    /\ child' = 0
    /\ cmd' = [cmd EXCEPT ![c] = Call("unshow", 0, restarts)]
    /\ UNCHANGED <<running, proc, reader, spawned, settings, killFailed>>

\* c.kill() of the handle that is held.
Killed == [p \in Procs |-> IF p = child /\ proc[p] = "live" THEN "killed" ELSE proc[p]]

\* stop, or the first half of restart: the handle is taken and its process
\* killed.  If the kill fails the call ends here, with the handle gone and
\* running as it was.
StopChild(c, restarts) ==
    /\ At(c, "idle")
    /\ ChildUnlocked
    /\ inTurn' = (inTurn /\ AllIdle)
    /\ child' = 0
    /\ \/ /\ proc' = Killed
          /\ cmd' = [cmd EXCEPT ![c] = Call("unshow", 0, restarts)]
          /\ UNCHANGED killFailed
       \/ /\ child # 0
          /\ killFailed' = TRUE
          /\ UNCHANGED <<proc, cmd>>
    /\ UNCHANGED <<running, reader, spawned, settings>>

UnshowRunning(c) ==
    /\ At(c, "unshow")
    /\ running' = FALSE
    /\ cmd' = [cmd EXCEPT ![c] = IF cmd[c].restarts THEN Call("pause", 0, FALSE)
                                 ELSE Idle]
    /\ UNCHANGED <<child, proc, reader, spawned, settings, inTurn, killFailed>>

\* The second half of restart, half a second later; nothing waits for the
\* reader of the process that was stopped.
Restart(c) ==
    /\ At(c, "pause")
    /\ cmd' = [cmd EXCEPT ![c] = IF running THEN Idle ELSE Call("spawn", 0, FALSE)]
    /\ inTurn' = (inTurn /\ OthersIdle(c) /\ ReadersSettled)
    /\ UNCHANGED <<running, child, proc, reader, spawned, settings, killFailed>>

\* The application exits: the same stop, and no call or reader goes on.
Exit ==
    /\ ~exited /\ ChildUnlocked
    /\ exited' = TRUE
    /\ inTurn' = (inTurn /\ AllIdle)
    /\ child' = 0 /\ running' = FALSE
    /\ \/ proc' = Killed /\ UNCHANGED killFailed
       \/ child # 0 /\ killFailed' = TRUE /\ UNCHANGED proc
    /\ UNCHANGED <<reader, spawned, cmd, config, launched>>

-----------------------------------------------------------------------------
(* set_sidecar_config                                                      *)

\* Refused while running is set...
SetCheck(c) ==
    /\ At(c, "idle")
    /\ ~running
    /\ Goto(c, "set")
    /\ inTurn' = (inTurn /\ AllIdle)
    /\ UNCHANGED <<running, child, proc, reader, spawned, settings, killFailed>>

\* ...and written without looking again.
SetConfig(c) ==
    /\ At(c, "set")
    /\ config' \in Configs \ {config}
    /\ cmd' = [cmd EXCEPT ![c] = Idle]
    /\ UNCHANGED <<running, child, proc, reader, spawned, launched, exited, inTurn,
                   killFailed>>

-----------------------------------------------------------------------------
(* The process and its reader                                              *)

\* A process ends because it was killed, or on its own.
Die(p) ==
    /\ proc[p] \in {"live", "killed"}
    /\ proc' = [proc EXCEPT ![p] = "dead"]
    /\ UNCHANGED <<running, child, reader, spawned, cmd, settings, inTurn, killFailed>>

\* CommandEvent::Terminated: running is cleared, whose ever it is by now...
Terminated(p) ==
    /\ reader[p] = "reading"
    /\ proc[p] = "dead"
    /\ running' = FALSE
    /\ reader' = [reader EXCEPT ![p] = "told"]
    /\ UNCHANGED <<child, proc, spawned, cmd, settings, inTurn, killFailed>>

\* Mutant: the handle of the ended process stays.
ForgetNothing(p) ==
    /\ reader[p] = "told"
    /\ ChildUnlocked
    /\ reader' = [reader EXCEPT ![p] = "done"]
    /\ UNCHANGED <<running, child, proc, spawned, cmd, settings, inTurn, killFailed>>

\* ...and the handle dropped, whose ever it is.
ForgetChild(p) ==
    /\ reader[p] = "told"
    /\ ChildUnlocked
    /\ child' = 0
    /\ reader' = [reader EXCEPT ![p] = "done"]
    /\ UNCHANGED <<running, proc, spawned, cmd, settings, inTurn, killFailed>>

-----------------------------------------------------------------------------
CallStep(c) ==
    /\ ~exited
    /\ \/ SpawnChild(c) \/ KeepChild(c) \/ ShowRunning(c) \/ SpawnReader(c)
       \/ UnshowRunning(c) \/ Restart(c) \/ SetConfig(c)

ReaderStep(p) == ~exited /\ (Terminated(p) \/ ForgetChild(p))

SidecarNext ==
    \/ \E c \in Calls :
          \/ ~exited /\ (LaunchCheck(c) \/ SetCheck(c))
          \/ ~exited /\ \E restarts \in BOOLEAN : StopChild(c, restarts)
          \/ CallStep(c)
    \/ \E p \in Procs : Die(p) \/ ReaderStep(p)
    \/ Exit

SidecarSpec == SidecarInit /\ [][SidecarNext]_sidecarVars

\* Calls and readers are futures tokio keeps polling, its locks are fair; a
\* killed process ends.
SidecarFairness ==
    /\ \A c \in Calls : SF_sidecarVars(CallStep(c))
    /\ \A p \in Procs : /\ SF_sidecarVars(ReaderStep(p))
                        /\ WF_sidecarVars(proc[p] = "killed" /\ Die(p))

FairSidecarSpec == SidecarSpec /\ SidecarFairness
-----------------------------------------------------------------------------
(* Properties                                                              *)

\* While each call waits for what went before it, the reader of an ended
\* process included, and every kill succeeds, the state tells the truth
\* between calls: a live server is shown as running, with the configuration
\* shown, and its handle is held; nothing is shown as running without a handle
\* to stop it by; and no server outlives the application.
ServerIsManaged ==
    inTurn /\ AllIdle /\ ~killFailed =>
        /\ \A p \in Procs : proc[p] = "live" =>
               child = p /\ running /\ launched[p] = config
        /\ running => child # 0

\* The handle that is held is of a process that has ended.
HoldsDead == child # 0 /\ proc[child] = "dead"

\* The end of a server process is noticed, also if it ends while its start is
\* not finished or another call runs: its handle does not stay.
DeathIsNoticed == HoldsDead ~> ~HoldsDead
=============================================================================
