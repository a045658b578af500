---------------------------- MODULE AdminProofs ----------------------------
(***************************************************************************)
(* Proofs about USSP Admin.  Of the sidecar: its types, and that the state *)
(* tells the truth about the server process while calls take turns.  Of    *)
(* the console: a token goes to the server it is of, whatever requests are *)
(* under way.                                                              *)
(***************************************************************************)
EXTENDS Sidecar, Console, TLAPS

USE SidecarAssumption

-----------------------------------------------------------------------------
(* Types, in three parts                                                   *)

Points == {"idle", "spawn", "keep", "show", "listen", "unshow", "pause", "set"}

Flags ==
    /\ running \in BOOLEAN /\ exited \in BOOLEAN
    /\ inTurn \in BOOLEAN /\ killFailed \in BOOLEAN

Processes ==
    /\ child \in 0 .. spawned
    /\ spawned \in 0 .. MaxProcs
    /\ proc \in [Procs -> {"none", "live", "killed", "dead"}]
    /\ \A p \in Procs : proc[p] = "none" <=> p > spawned
    /\ reader \in [Procs -> {"none", "reading", "told", "done"}]
    /\ config \in Configs /\ launched \in [Procs -> Configs]

Line(n) == [at : Points, pid : 0 .. n, restarts : BOOLEAN]
CommandTypes == cmd \in [Calls -> Line(spawned)]

\* The types, part by part.
LEMMA Parts == SidecarTypeOK <=> Flags /\ Processes /\ CommandTypes
BY DEF SidecarTypeOK, Flags, Processes, CommandTypes, Line, Points

\* The sidecar begins with its types right.
LEMMA InitTypes == SidecarInit => SidecarTypeOK
<1> SUFFICES ASSUME SidecarInit PROVE SidecarTypeOK
  OBVIOUS
<1>1. Flags
  BY DEF SidecarInit, Flags
<1>2. config \in Configs
  BY DEF SidecarInit, DefaultConfig
<1>3. Processes
  BY <1>2 DEF SidecarInit, Processes, Procs
<1>4. CommandTypes
  BY DEF SidecarInit, CommandTypes, Line, Idle, Call, Points
<1>5. QED
  BY <1>1, <1>3, <1>4, Parts

\* Every step keeps the flags boolean.
LEMMA FlagsStep == Flags /\ [SidecarNext]_sidecarVars => Flags'
<1> SUFFICES ASSUME Flags, [SidecarNext]_sidecarVars PROVE Flags'
  OBVIOUS
<1> USE DEF Flags, settings
<1>1. ASSUME NEW c \in Calls, LaunchCheck(c) \/ SetCheck(c) \/ CallStep(c)
      PROVE  Flags'
  BY <1>1 DEF LaunchCheck, SetCheck, CallStep, SpawnChild, KeepChild, ShowRunning,
              SpawnReader, UnshowRunning, Restart, SetConfig
<1>2. ASSUME NEW c \in Calls, NEW restarts \in BOOLEAN, StopChild(c, restarts)
      PROVE  Flags'
  BY <1>2 DEF StopChild
<1>3. ASSUME NEW p \in Procs, Die(p) \/ ReaderStep(p)
      PROVE  Flags'
  BY <1>3 DEF Die, ReaderStep, Terminated, ForgetChild
<1>4. CASE Exit
  BY <1>4 DEF Exit
<1>5. CASE UNCHANGED sidecarVars
  BY <1>5 DEF sidecarVars
<1>6. QED
  BY <1>1, <1>2, <1>3, <1>4, <1>5 DEF SidecarNext

\* Every step keeps handle, processes and readers of their kinds.
LEMMA ProcessesStep == Processes /\ CommandTypes /\ [SidecarNext]_sidecarVars => Processes'
<1> SUFFICES ASSUME Processes, CommandTypes, [SidecarNext]_sidecarVars PROVE Processes'
  OBVIOUS
<1> USE DEF Processes, Procs, settings
<1>1. ASSUME NEW c \in Calls, LaunchCheck(c) \/ SetCheck(c)
      PROVE  Processes'
  BY <1>1 DEF LaunchCheck, SetCheck
<1>2. ASSUME NEW c \in Calls, NEW restarts \in BOOLEAN, StopChild(c, restarts)
      PROVE  Processes'
  BY <1>2 DEF StopChild, Killed
<1>3. ASSUME NEW c \in Calls, CallStep(c)
      PROVE  Processes'
  <2>1. CASE SpawnChild(c)
    <3>1. CASE UNCHANGED <<spawned, proc, launched>>
      BY <2>1, <3>1 DEF SpawnChild
    <3>2. ASSUME spawned < MaxProcs, spawned' = spawned + 1,
                 proc' = [proc EXCEPT ![spawned'] = "live"],
                 launched' = [launched EXCEPT ![spawned'] = config]
          PROVE  Processes'
      <4>1. spawned' \in Procs
        BY <3>2
      <4>2. \A p \in Procs : proc'[p] = "none" <=> p > spawned'
        BY <3>2
      <4>3. UNCHANGED <<child, reader, config>>
        BY <2>1 DEF SpawnChild
      <4>4. QED
        BY <3>2, <4>1, <4>2, <4>3
    <3>3. QED
      BY <2>1, <3>1, <3>2 DEF SpawnChild
  <2>2. CASE KeepChild(c)
    BY <2>2 DEF KeepChild, CommandTypes, Line
  <2>3. CASE SpawnReader(c)
    BY <2>3 DEF SpawnReader
  <2>4. CASE ShowRunning(c) \/ UnshowRunning(c) \/ Restart(c)
    BY <2>4 DEF ShowRunning, UnshowRunning, Restart
  <2>5. CASE SetConfig(c)
    BY <2>5 DEF SetConfig
  <2>6. QED
    BY <1>3, <2>1, <2>2, <2>3, <2>4, <2>5 DEF CallStep
<1>4. ASSUME NEW p \in Procs, Die(p)
      PROVE  Processes'
  BY <1>4 DEF Die
<1>5. ASSUME NEW p \in Procs, ReaderStep(p)
      PROVE  Processes'
  BY <1>5 DEF ReaderStep, Terminated, ForgetChild
<1>6. CASE Exit
  BY <1>6 DEF Exit, Killed
<1>7. CASE UNCHANGED sidecarVars
  BY <1>7 DEF sidecarVars
<1>8. QED
  BY <1>1, <1>2, <1>3, <1>4, <1>5, <1>6, <1>7 DEF SidecarNext

\* A step that changes one command, and spawns at most one process.
LEMMA OneCommand ==
    ASSUME Processes, CommandTypes, NEW c \in Calls, NEW line \in Line(spawned'),
           spawned' \in {spawned, spawned + 1}, cmd' = [cmd EXCEPT ![c] = line]
    PROVE  CommandTypes'
<1>1. spawned \in Nat
  BY DEF Processes
<1>2. cmd \in [Calls -> Line(spawned')]
  BY <1>1 DEF CommandTypes, Line
<1>3. cmd' \in [Calls -> Line(spawned')]
  BY <1>2
<1>4. QED
  BY <1>3 DEF CommandTypes, Line

\* Every step moves a call between the points a call has.
LEMMA CommandsStep == Processes /\ CommandTypes /\ [SidecarNext]_sidecarVars => CommandTypes'
<1> SUFFICES ASSUME Processes, CommandTypes, [SidecarNext]_sidecarVars PROVE CommandTypes'
  OBVIOUS
<1>1. spawned \in Nat
  BY DEF Processes
<1>2. ASSUME NEW c \in Calls, NEW point \in Points, Goto(c, point), UNCHANGED spawned
      PROVE  CommandTypes'
  BY <1>2 DEF Goto, CommandTypes, Line
<1>3. ASSUME NEW c \in Calls, LaunchCheck(c) \/ SetCheck(c) \/ KeepChild(c) \/ ShowRunning(c)
      PROVE  CommandTypes'
  BY <1>2, <1>3 DEF LaunchCheck, SetCheck, KeepChild, ShowRunning, settings, Points
<1>4. ASSUME NEW c \in Calls, NEW restarts \in BOOLEAN, StopChild(c, restarts)
      PROVE  CommandTypes'
  <2>1. CASE cmd' = cmd
    BY <1>4, <2>1 DEF StopChild, CommandTypes, Line
  <2>2. CASE cmd' = [cmd EXCEPT ![c] = Call("unshow", 0, restarts)]
    <3>1. spawned' = spawned /\ Call("unshow", 0, restarts) \in Line(spawned)
      BY <1>1, <1>4 DEF StopChild, Call, Line, Points, settings
    <3>2. QED
      BY <2>2, <3>1, OneCommand
  <2>3. QED
    BY <1>4, <2>1, <2>2 DEF StopChild
<1>5. ASSUME NEW c \in Calls, SpawnChild(c)
      PROVE  CommandTypes'
  <2>1. /\ spawned' \in {spawned, spawned + 1}
        /\ \/ cmd' = [cmd EXCEPT ![c] = Call("keep", spawned', FALSE)]
           \/ cmd' = [cmd EXCEPT ![c] = Idle]
    BY <1>5 DEF SpawnChild
  <2>2. spawned' \in Nat
    BY <1>1, <2>1
  <2>3. Call("keep", spawned', FALSE) \in Line(spawned') /\ Idle \in Line(spawned')
    BY <2>2 DEF Idle, Call, Line, Points
  <2>4. QED
    BY <2>1, <2>3, OneCommand
<1>6. ASSUME NEW c \in Calls,
             SpawnReader(c) \/ SetConfig(c) \/ UnshowRunning(c) \/ Restart(c)
      PROVE  CommandTypes'
  <2>1. UNCHANGED spawned
    BY <1>6 DEF SpawnReader, SetConfig, UnshowRunning, Restart, settings
  <2>2. \/ cmd' = [cmd EXCEPT ![c] = Idle]
        \/ cmd' = [cmd EXCEPT ![c] = Call("pause", 0, FALSE)]
        \/ cmd' = [cmd EXCEPT ![c] = Call("spawn", 0, FALSE)]
    BY <1>6 DEF SpawnReader, SetConfig, UnshowRunning, Restart
  <2>3. /\ Idle \in Line(spawned) /\ Call("pause", 0, FALSE) \in Line(spawned)
        /\ Call("spawn", 0, FALSE) \in Line(spawned)
    BY <1>1 DEF Idle, Call, Line, Points
  <2>4. QED
    BY <2>1, <2>2, <2>3, OneCommand
<1>7. ASSUME NEW p \in Procs, Die(p) \/ ReaderStep(p)
      PROVE  CommandTypes'
  BY <1>7 DEF Die, ReaderStep, Terminated, ForgetChild, CommandTypes, Line
<1>8. CASE Exit \/ UNCHANGED sidecarVars
  BY <1>8 DEF Exit, sidecarVars, CommandTypes, Line
<1>9. QED
  BY <1>3, <1>4, <1>5, <1>6, <1>7, <1>8 DEF SidecarNext, CallStep

\* Every step of the sidecar keeps its types.
LEMMA TypeStep == SidecarTypeOK /\ [SidecarNext]_sidecarVars => SidecarTypeOK'
<1>1. SidecarTypeOK' <=> Flags' /\ Processes' /\ CommandTypes'
  BY DEF SidecarTypeOK, Flags, Processes, CommandTypes, Line, Points
<1>2. QED
  BY <1>1, Parts, FlagsStep, ProcessesStep, CommandsStep

\* The variables of the server's state, its processes and the calls keep their
\* types, and the handle that is held is always of a process that was spawned.
THEOREM SidecarTypeCorrect == SidecarSpec => []SidecarTypeOK
BY InitTypes, TypeStep, PTL DEF SidecarSpec

-----------------------------------------------------------------------------
(* Calls that take turns                                                   *)

\* Between calls the state tells the truth, and every process has its reader.
Truth ==
    /\ \A p \in Procs : proc[p] = "live" => child = p /\ running /\ launched[p] = config
    /\ \A p \in Procs : p <= spawned => reader[p] # "none"
    /\ running => child # 0

\* What is so when the readers are past all processes but the last.
InOrder ==
    /\ \A p \in Procs : p < spawned => reader[p] = "done"
    /\ \A p \in Procs : p > spawned => reader[p] = "none"
    /\ \A p \in Procs : reader[p] \in {"told", "done"} => proc[p] = "dead"
    /\ \A p \in Procs : reader[p] = "told" => ~running
    /\ child # 0 => child = spawned /\ reader[child] # "done"

AllRead == \A p \in Procs : p <= spawned => reader[p] = "done"
NoneLive ==
    /\ \A p \in Procs : proc[p] # "live"
    /\ \A p \in Procs : p <= spawned => reader[p] # "none"
Fresh(c) ==
    /\ cmd[c].pid = spawned /\ spawned # 0
    /\ reader[spawned] = "none" /\ launched[spawned] = config

\* What a call has come to.
Reached(c) ==
    \/ At(c, "spawn") /\ AllRead /\ ~running /\ child = 0
    \/ At(c, "keep") /\ Fresh(c) /\ ~running /\ child = 0
    \/ At(c, "show") /\ Fresh(c) /\ ~running /\ child = spawned
    \/ At(c, "listen") /\ Fresh(c) /\ running /\ child = spawned
    \/ At(c, "unshow") /\ NoneLive /\ child = 0
    \/ At(c, "pause") /\ NoneLive /\ ~running
    \/ At(c, "set") /\ NoneLive /\ ~running

Serial ==
    /\ InOrder
    /\ \/ AllIdle /\ Truth
       \/ \E c \in Calls : OthersIdle(c) /\ Reached(c)

Managed == inTurn /\ ~killFailed => Serial

\* No process and no call at first.
LEMMA ManagedInit == SidecarInit => Managed
BY DEF SidecarInit, Managed, Serial, InOrder, Truth, AllIdle, At, Idle, Call, Procs

\* Who is where, from where one call has come to.
LEMMA Places ==
    ASSUME Serial
    PROVE  /\ AllIdle => InOrder /\ Truth
           /\ \A c \in Calls : ~At(c, "idle") => InOrder /\ OthersIdle(c) /\ Reached(c)
<1>1. \A c \in Calls : Reached(c) => ~At(c, "idle")
  BY DEF Reached, At
<1>2. QED
  BY <1>1 DEF Serial, AllIdle, OthersIdle

\* A step of one call moves no other.
LEMMA OthersStay ==
    ASSUME CommandTypes, NEW c \in Calls, OthersIdle(c), NEW line,
           cmd' = [cmd EXCEPT ![c] = line]
    PROVE  OthersIdle(c)' /\ cmd'[c] = line
BY DEF CommandTypes, OthersIdle, At

\* A step that leaves a call at another point, or idle, or that goes on.
LEMMA CalledTo ==
    ASSUME CommandTypes, NEW c \in Calls, OthersIdle(c),
           NEW point, NEW pid, NEW restarts,
           cmd' = [cmd EXCEPT ![c] = Call(point, pid, restarts)]
    PROVE  OthersIdle(c)' /\ cmd'[c].at = point
BY DEF CommandTypes, OthersIdle, At, Call

\* What a call that returns leaves of the calls.
LEMMA BackToIdle ==
    ASSUME CommandTypes, NEW c \in Calls, OthersIdle(c), cmd' = [cmd EXCEPT ![c] = Idle]
    PROVE  AllIdle'
BY DEF CommandTypes, OthersIdle, AllIdle, At, Idle, Call

\* Where a call that goes on is, and that the others stay.
LEMMA GoneTo ==
    ASSUME CommandTypes, NEW c \in Calls, OthersIdle(c), NEW point \in Points, Goto(c, point)
    PROVE  /\ OthersIdle(c)'
           /\ cmd'[c].at = point /\ cmd'[c].pid = cmd[c].pid
BY DEF CommandTypes, Line, OthersIdle, At, Goto

\* The first step of a call keeps the invariant.
LEMMA StartingSerial ==
    ASSUME SidecarTypeOK, Serial, NEW c \in Calls,
           \/ LaunchCheck(c) \/ SetCheck(c)
           \/ \E restarts \in BOOLEAN : StopChild(c, restarts),
           inTurn', ~killFailed'
    PROVE  Serial'
<1>1. AllIdle /\ InOrder /\ Truth /\ OthersIdle(c)
  BY Places DEF LaunchCheck, SetCheck, StopChild, OthersIdle, AllIdle
<1>2. Processes /\ CommandTypes
  BY Parts
<1>3. CASE LaunchCheck(c)
  <2>1. UNCHANGED <<running, child, proc, reader, spawned, config, launched>>
    BY <1>3 DEF LaunchCheck, settings
  <2>2. OthersIdle(c)' /\ At(c, "spawn")'
    BY <1>1, <1>2, <1>3, GoneTo DEF LaunchCheck, At, Points
  <2>3. AllRead /\ ~running
    BY <1>1, <1>3 DEF LaunchCheck, ReadersSettled, AllRead, Truth
  <2>4. child = 0
    BY <1>1, <1>2, <2>3 DEF InOrder, AllRead, Processes, Procs
  <2>5. QED
    BY <1>1, <2>1, <2>2, <2>3, <2>4 DEF Serial, InOrder, Reached, AllRead, At
<1>4. CASE SetCheck(c)
  <2>1. UNCHANGED <<running, child, proc, reader, spawned, config, launched>>
    BY <1>4 DEF SetCheck, settings
  <2>2. OthersIdle(c)' /\ At(c, "set")'
    BY <1>1, <1>2, <1>4, GoneTo DEF SetCheck, At, Points
  <2>3. NoneLive /\ ~running
    BY <1>1, <1>4 DEF SetCheck, NoneLive, Truth
  <2>4. QED
    BY <1>1, <2>1, <2>2, <2>3 DEF Serial, InOrder, Reached, NoneLive, At
<1>5. ASSUME NEW restarts \in BOOLEAN, StopChild(c, restarts)
      PROVE  Serial'
  <2>1. /\ cmd' = [cmd EXCEPT ![c] = Call("unshow", 0, restarts)]
        /\ proc' = Killed /\ child' = 0
        /\ UNCHANGED <<running, reader, spawned, config, launched>>
    BY <1>5 DEF StopChild, settings
  <2>2. OthersIdle(c)' /\ At(c, "unshow")'
    BY <1>1, <1>2, <2>1, CalledTo DEF At
  <2>3. \A p \in Procs : proc'[p] # "live" /\ (proc[p] = "dead" => proc'[p] = "dead")
    BY <1>1, <2>1 DEF Killed, Truth
  <2>4. NoneLive'
    BY <1>1, <2>1, <2>3 DEF NoneLive, Truth, Procs
  <2>5. InOrder'
    BY <1>1, <2>1, <2>3 DEF InOrder, Procs
  <2>6. QED
    BY <2>1, <2>2, <2>4, <2>5 DEF Serial, Reached
<1>6. QED
  BY <1>3, <1>4, <1>5

\* Every step of a call keeps the invariant.
LEMMA CallSerial ==
    ASSUME SidecarTypeOK, Serial, NEW c \in Calls, CallStep(c), inTurn', ~killFailed'
    PROVE  Serial'
<1>1. Processes /\ CommandTypes
  BY Parts
<1>2. ~At(c, "idle")
  BY DEF CallStep, SpawnChild, KeepChild, ShowRunning, SpawnReader, UnshowRunning,
         Restart, SetConfig, At
<1>3. InOrder /\ OthersIdle(c) /\ Reached(c)
  BY <1>2, Places
<1>4. CASE SpawnChild(c)
  <2>1. AllRead /\ ~running /\ child = 0
    BY <1>3, <1>4 DEF SpawnChild, Reached, At
  <2>2. UNCHANGED <<running, child, reader, config>>
    BY <1>4 DEF SpawnChild
  <2>3. CASE UNCHANGED <<spawned, proc, launched>> /\ cmd' = [cmd EXCEPT ![c] = Idle]
    <3>1. AllIdle'
      BY <1>1, <1>3, <2>3, BackToIdle
    <3>2. Truth'
      BY <1>1, <1>3, <2>1, <2>2, <2>3 DEF Truth, InOrder, AllRead, Processes, Procs
    <3>3. QED
      BY <1>3, <2>2, <2>3, <3>1, <3>2 DEF Serial, InOrder, Procs
  <2>4. CASE /\ spawned < MaxProcs /\ spawned' = spawned + 1
             /\ proc' = [proc EXCEPT ![spawned'] = "live"]
             /\ launched' = [launched EXCEPT ![spawned'] = config]
             /\ cmd' = [cmd EXCEPT ![c] = Call("keep", spawned', FALSE)]
    <3>1. spawned' \in Procs /\ spawned \in Nat
      BY <1>1, <2>4 DEF Processes, Procs
    <3>2. OthersIdle(c)' /\ cmd'[c] = Call("keep", spawned', FALSE)
      BY <1>1, <1>3, <2>4, OthersStay
    <3>3. At(c, "keep")' /\ Fresh(c)'
      <4>1. reader[spawned'] = "none"
        BY <1>3, <2>4, <3>1 DEF InOrder
      <4>2. launched'[spawned'] = config'
        BY <1>1, <2>2, <2>4, <3>1 DEF Processes
      <4>3. cmd'[c].at = "keep" /\ cmd'[c].pid = spawned'
        BY <3>2 DEF Call
      <4>4. QED
        BY <2>2, <3>1, <4>1, <4>2, <4>3 DEF At, Fresh, Procs
    <3>4. InOrder'
      <4>1. \A p \in Procs : p < spawned' => reader[p] = "done"
        BY <2>1, <2>4, <3>1 DEF AllRead, Procs
      <4>2. \A p \in Procs : p # spawned' => proc'[p] = proc[p]
        BY <1>1, <2>4 DEF Processes
      <4>3. reader[spawned'] = "none"
        BY <1>3, <2>4, <3>1 DEF InOrder
      <4>4. \A p \in Procs : p > spawned' => reader[p] = "none"
        BY <1>3, <2>4, <3>1 DEF InOrder, Procs
      <4>5. QED
        BY <1>3, <2>1, <2>2, <4>1, <4>2, <4>3, <4>4 DEF InOrder
    <3>5. QED
      BY <2>1, <2>2, <3>2, <3>3, <3>4 DEF Serial, Reached
  <2>5. QED
    BY <1>4, <2>3, <2>4 DEF SpawnChild
<1>5. CASE KeepChild(c)
  <2>1. Fresh(c) /\ ~running
    BY <1>3, <1>5 DEF KeepChild, Reached, At
  <2>2. /\ child' = spawned /\ Goto(c, "show")
        /\ UNCHANGED <<running, proc, reader, spawned, config, launched>>
    BY <1>5, <2>1 DEF KeepChild, Fresh, settings
  <2>3. OthersIdle(c)' /\ At(c, "show")' /\ cmd'[c].pid = cmd[c].pid
    BY <1>1, <1>3, <2>2, GoneTo DEF At, Points
  <2>4. InOrder'
    BY <1>3, <2>1, <2>2 DEF InOrder, Fresh
  <2>5. QED
    BY <2>1, <2>2, <2>3, <2>4 DEF Serial, Reached, Fresh
<1>6. CASE ShowRunning(c)
  <2>1. Fresh(c) /\ child = spawned
    BY <1>3, <1>6 DEF ShowRunning, Reached, At
  <2>2. /\ running' = TRUE /\ Goto(c, "listen")
        /\ UNCHANGED <<child, proc, reader, spawned, config, launched>>
    BY <1>6 DEF ShowRunning, settings
  <2>3. OthersIdle(c)' /\ At(c, "listen")' /\ cmd'[c].pid = cmd[c].pid
    BY <1>1, <1>3, <2>2, GoneTo DEF At, Points
  <2>4. \A p \in Procs : reader[p] # "told"
    BY <1>1, <1>3, <2>1 DEF InOrder, Fresh, Processes, Procs
  <2>5. InOrder'
    BY <1>3, <2>2, <2>4 DEF InOrder
  <2>6. QED
    BY <2>1, <2>2, <2>3, <2>5 DEF Serial, Reached, Fresh
<1>7. CASE SpawnReader(c)
  <2>1. Fresh(c) /\ running /\ child = spawned
    BY <1>3, <1>7 DEF SpawnReader, Reached, At
  <2>2. /\ reader' = [reader EXCEPT ![spawned] = "reading"]
        /\ cmd' = [cmd EXCEPT ![c] = Idle]
        /\ UNCHANGED <<running, child, proc, spawned, config, launched>>
    BY <1>7, <2>1 DEF SpawnReader, Fresh, settings
  <2>3. AllIdle'
    BY <1>1, <1>3, <2>2, BackToIdle
  <2>4. InOrder'
    BY <1>1, <1>3, <2>2 DEF InOrder, Processes, Procs
  <2>5. Truth'
    <3>1. \A p \in Procs : p # spawned => proc[p] # "live"
      BY <1>1, <1>3 DEF InOrder, Processes, Procs
    <3>2. \A p \in Procs : p <= spawned => reader'[p] # "none"
      BY <1>1, <1>3, <2>2 DEF InOrder, Processes, Procs
    <3>3. QED
      BY <2>1, <2>2, <3>1, <3>2 DEF Truth, Fresh
  <2>6. QED
    BY <2>3, <2>4, <2>5 DEF Serial
<1>8. CASE UnshowRunning(c)
  <2>1. NoneLive /\ child = 0
    BY <1>3, <1>8 DEF UnshowRunning, Reached, At
  <2>2. running' = FALSE /\ UNCHANGED <<child, proc, reader, spawned, config, launched>>
    BY <1>8 DEF UnshowRunning, settings
  <2>3. InOrder' /\ NoneLive' /\ Truth'
    BY <1>3, <2>1, <2>2 DEF InOrder, NoneLive, Truth
  <2>4. CASE cmd' = [cmd EXCEPT ![c] = Call("pause", 0, FALSE)]
    <3>1. OthersIdle(c)' /\ At(c, "pause")'
      BY <1>1, <1>3, <2>4, CalledTo DEF At
    <3>2. QED
      BY <2>2, <2>3, <3>1 DEF Serial, Reached
  <2>5. CASE cmd' = [cmd EXCEPT ![c] = Idle]
    BY <1>1, <1>3, <2>3, <2>5, BackToIdle DEF Serial
  <2>6. QED
    BY <1>8, <2>4, <2>5 DEF UnshowRunning
<1>9. CASE Restart(c)
  <2>1. NoneLive /\ ~running
    BY <1>3, <1>9 DEF Restart, Reached, At
  <2>2. /\ cmd' = [cmd EXCEPT ![c] = Call("spawn", 0, FALSE)]
        /\ UNCHANGED <<running, child, proc, reader, spawned, config, launched>>
    BY <1>9, <2>1 DEF Restart, settings
  <2>3. AllRead
    BY <1>9, <2>1 DEF Restart, ReadersSettled, AllRead, NoneLive
  <2>4. child = 0
    BY <1>1, <1>3, <2>3 DEF InOrder, AllRead, Processes, Procs
  <2>5. OthersIdle(c)' /\ At(c, "spawn")'
    BY <1>1, <1>3, <2>2, CalledTo DEF At
  <2>6. QED
    BY <1>3, <2>1, <2>2, <2>3, <2>4, <2>5 DEF Serial, InOrder, Reached, AllRead
<1>10. CASE SetConfig(c)
  <2>1. NoneLive /\ ~running
    BY <1>3, <1>10 DEF SetConfig, Reached, At
  <2>2. /\ cmd' = [cmd EXCEPT ![c] = Idle]
        /\ UNCHANGED <<running, child, proc, reader, spawned, launched>>
    BY <1>10 DEF SetConfig
  <2>3. InOrder' /\ Truth'
    BY <1>3, <2>1, <2>2 DEF InOrder, NoneLive, Truth
  <2>4. QED
    BY <1>1, <1>3, <2>2, <2>3, BackToIdle DEF Serial
<1>11. QED
  BY <1>4, <1>5, <1>6, <1>7, <1>8, <1>9, <1>10 DEF CallStep

\* Every step of a process or its reader keeps the invariant.
LEMMA ProcessSerial ==
    ASSUME SidecarTypeOK, Serial, NEW p \in Procs, Die(p) \/ Terminated(p) \/ ForgetChild(p)
    PROVE  Serial'
<1>1. Processes /\ UNCHANGED <<cmd, spawned, config, launched>>
  BY Parts DEF Die, Terminated, ForgetChild, settings
<1>2. InOrder
  BY DEF Serial
<1>3. /\ \A q \in Procs : proc'[q] = "live" => proc[q] = "live"
      /\ \A q \in Procs : proc[q] = "dead" => proc'[q] = "dead"
      /\ \A q \in Procs : reader'[q] = "none" <=> reader[q] = "none"
      /\ \A q \in Procs : reader[q] = "done" => reader'[q] = "done"
  BY <1>1 DEF Die, Terminated, ForgetChild, Processes
<1>4. CASE Die(p)
  <2>1. UNCHANGED <<running, child, reader>>
    BY <1>4 DEF Die
  <2>2. InOrder'
    BY <1>1, <1>2, <1>3, <2>1 DEF InOrder
  <2>3. QED
    BY <1>1, <1>3, <2>1, <2>2
       DEF Serial, AllIdle, OthersIdle, At, Truth, Reached, AllRead, Fresh, NoneLive
<1>5. CASE Terminated(p)
  <2>1. /\ p = spawned /\ reader[spawned] = "reading" /\ proc[p] = "dead"
        /\ running' = FALSE /\ UNCHANGED <<child, proc>>
        /\ reader' = [reader EXCEPT ![p] = "told"]
    BY <1>1, <1>2, <1>5 DEF Terminated, InOrder, Processes, Procs
  <2>2. InOrder'
    BY <1>1, <1>2, <2>1 DEF InOrder, Processes, Procs
  <2>3. \A q \in Procs : proc[q] = "live" => q = spawned
    BY <1>1, <1>2 DEF InOrder, Processes, Procs
  <2>4. AllIdle /\ Truth => AllIdle' /\ Truth'
    BY <1>1, <1>3, <2>1, <2>3 DEF AllIdle, At, Truth
  <2>5. ASSUME NEW c \in Calls, OthersIdle(c), Reached(c)
        PROVE  OthersIdle(c)' /\ Reached(c)'
    <3>1. ~AllRead /\ ~Fresh(c)
      BY <2>1 DEF AllRead, Fresh, Procs
    <3>2. NoneLive => NoneLive'
      BY <1>1, <1>3 DEF NoneLive
    <3>3. QED
      BY <1>1, <2>1, <2>5, <3>1, <3>2 DEF OthersIdle, Reached, At
  <2>6. QED
    BY <2>2, <2>4, <2>5 DEF Serial
<1>6. CASE ForgetChild(p)
  <2>1. /\ p = spawned /\ reader[spawned] = "told" /\ proc[p] = "dead" /\ ~running
        /\ child' = 0 /\ UNCHANGED <<proc, running>>
        /\ reader' = [reader EXCEPT ![p] = "done"]
    BY <1>1, <1>2, <1>6 DEF ForgetChild, InOrder, Processes, Procs
  <2>2. InOrder'
    BY <1>1, <1>2, <2>1 DEF InOrder, Processes, Procs
  <2>3. AllIdle /\ Truth => AllIdle' /\ Truth'
    BY <1>1, <1>3, <2>1 DEF AllIdle, At, Truth
  <2>4. ASSUME NEW c \in Calls, OthersIdle(c), Reached(c)
        PROVE  OthersIdle(c)' /\ Reached(c)'
    <3>1. ~AllRead /\ ~Fresh(c)
      BY <2>1 DEF AllRead, Fresh, Procs
    <3>2. NoneLive => NoneLive'
      BY <1>1, <1>3 DEF NoneLive
    <3>3. QED
      BY <1>1, <2>1, <2>4, <3>1, <3>2 DEF OthersIdle, Reached, At
  <2>5. QED
    BY <2>2, <2>3, <2>4 DEF Serial
<1>7. QED
  BY <1>4, <1>5, <1>6

\* Every step of the sidecar keeps the invariant.
LEMMA ManagedStep == SidecarTypeOK /\ Managed /\ [SidecarNext]_sidecarVars => Managed'
<1> SUFFICES ASSUME SidecarTypeOK, Managed, [SidecarNext]_sidecarVars, inTurn', ~killFailed'
             PROVE  Serial'
  BY DEF Managed
<1> USE DEF settings
<1>0. /\ inTurn \in BOOLEAN /\ killFailed \in BOOLEAN
      /\ inTurn' \in BOOLEAN /\ killFailed' \in BOOLEAN
  BY Parts, FlagsStep DEF Flags
<1>1. ASSUME NEW c \in Calls, LaunchCheck(c) \/ SetCheck(c)
      PROVE  Serial'
  <2>1. inTurn /\ ~killFailed
    BY <1>0, <1>1 DEF LaunchCheck, SetCheck
  <2>2. QED
    BY <1>1, <2>1, StartingSerial DEF Managed
<1>2. ASSUME NEW c \in Calls, NEW restarts \in BOOLEAN, StopChild(c, restarts)
      PROVE  Serial'
  <2>1. inTurn /\ ~killFailed
    BY <1>0, <1>2 DEF StopChild
  <2>2. QED
    BY <1>2, <2>1, StartingSerial DEF Managed
<1>3. ASSUME NEW c \in Calls, CallStep(c)
      PROVE  Serial'
  <2>1. inTurn /\ ~killFailed
    <3>1. CASE Restart(c)
      BY <1>0, <3>1 DEF Restart
    <3>2. CASE ~Restart(c)
      <4>1. UNCHANGED <<inTurn, killFailed>>
        BY <1>3, <3>2 DEF CallStep, SpawnChild, KeepChild, ShowRunning, SpawnReader,
                          UnshowRunning, SetConfig
      <4>2. QED
        BY <1>0, <4>1
    <3>3. QED
      BY <3>1, <3>2
  <2>2. QED
    BY <1>3, <2>1, CallSerial DEF Managed
<1>4. ASSUME NEW p \in Procs, Die(p) \/ ReaderStep(p)
      PROVE  Serial'
  <2>1. inTurn /\ ~killFailed
    BY <1>0, <1>4 DEF Die, ReaderStep, Terminated, ForgetChild
  <2>2. QED
    BY <1>4, <2>1, ProcessSerial DEF Managed, ReaderStep
<1>5. CASE Exit
  <2>1. inTurn /\ ~killFailed /\ AllIdle
    BY <1>0, <1>5 DEF Exit
  <2>2. InOrder /\ Truth /\ Processes
    BY <2>1, Places, Parts DEF Managed
  <2>3. /\ child' = 0 /\ running' = FALSE /\ proc' = Killed
        /\ UNCHANGED <<reader, spawned, cmd, config, launched>>
    BY <1>5 DEF Exit
  <2>4. \A p \in Procs : proc'[p] # "live" /\ (proc[p] = "dead" => proc'[p] = "dead")
    BY <2>2, <2>3 DEF Killed, Truth
  <2>5. InOrder'
    BY <2>2, <2>3, <2>4 DEF InOrder, Procs
  <2>6. AllIdle' /\ Truth'
    BY <2>1, <2>2, <2>3, <2>4 DEF AllIdle, At, Truth, Procs
  <2>7. QED
    BY <2>5, <2>6 DEF Serial
<1>6. CASE UNCHANGED sidecarVars
  BY <1>6 DEF sidecarVars, Managed, Serial, InOrder, Truth, AllIdle, OthersIdle, At, Reached,
              AllRead, NoneLive, Fresh
<1>7. QED
  BY <1>1, <1>2, <1>3, <1>4, <1>5, <1>6 DEF SidecarNext

\* While calls take turns and kills succeed, the state tells the truth about
\* the server process between calls (ServerIsManaged), for any number of calls
\* and processes.
THEOREM ServerIsManagedHolds == SidecarSpec => []ServerIsManaged
<1>1. SidecarTypeOK /\ Managed => ServerIsManaged
  BY Places DEF Managed, ServerIsManaged, Truth
<1>2. QED
  BY <1>1, InitTypes, TypeStep, ManagedInit, ManagedStep, PTL DEF SidecarSpec

-----------------------------------------------------------------------------
(* Console                                                                 *)

ClickPoints == {"idle", "lock", "token", "store", "answer", "yes", "no", "auto"}

\* As much of ConsoleTypeOK as the proof needs; it asks nothing of the constants.
Types ==
    /\ click \in [Clicks -> [at : ClickPoints, does : Commands, to : Urls \cup {NoServer}]]
    /\ takingTurns \in BOOLEAN

\* Only a connect has a server's token to wait for, and is about a server; only
\* an automatic look at the server finds one, and a request shows nothing.
Connects ==
    \A c \in Clicks :
        /\ ClickAt(c, "token") \/ ClickAt(c, "store") => click[c].does = "connect"
        /\ click[c].does = "connect" => click[c].to # NoServer
        /\ ClickAt(c, "idle") => click[c].does = "request"
        /\ ClickAt(c, "auto") => click[c].does = "auto"
        /\ ClickAt(c, "yes") \/ ClickAt(c, "no") => click[c].does # "request"

\* While commands take turns one at most is no request, and the token is of the
\* server unless that one is a connect under way to it.
Order ==
    /\ \A c, d \in Clicks :
           c = d \/ click[c].does = "request" \/ click[d].does = "request"
    /\ \/ token \in {NoServer, serverUrl}
       \/ \E c \in Clicks : ClickAt(c, "token") \/ ClickAt(c, "store")
    /\ \A c \in Clicks : ClickAt(c, "token") \/ ClickAt(c, "store") => serverUrl = click[c].to

\* What is shown, and what is about to be shown.
Shown ==
    /\ (\A c \in Clicks : click[c].does = "request") => (connected = "yes" <=> token # NoServer)
    /\ \A c \in Clicks :
          /\ ClickAt(c, "yes") => token # NoServer
          /\ ClickAt(c, "no") => token = NoServer
          /\ click[c].does = "auto" => token = NoServer /\ connected # "yes"

Held ==
    /\ Types /\ Connects
    /\ takingTurns => Order /\ Shown

\* Not connected and no command at first.
LEMMA HeldInit == ConsoleInit => Held
BY DEF ConsoleInit, Held, Types, ClickPoints, Connects, Order, Shown, Nothing, Commands,
       ClickAt

\* Every step of the user interface keeps the types.
LEMMA TypesStep == Types /\ [ConsoleNext]_consoleVars => Types'
<1> SUFFICES ASSUME Types, [ConsoleNext]_consoleVars PROVE Types'
  OBVIOUS
<1> USE DEF Types, ClickPoints
<1>1. ASSUME NEW c \in Clicks, NEW command \in Commands, NEW url \in Urls \cup {NoServer},
             Issue(c, command, url)
      PROVE  Types'
  BY <1>1 DEF Issue
<1>2. ASSUME NEW c \in Clicks, NEW point \in ClickPoints, ClickTo(c, point),
             takingTurns' \in BOOLEAN
      PROVE  Types'
  BY <1>2 DEF ClickTo
<1>3. ASSUME NEW c \in Clicks, ClickDone(c), takingTurns' \in BOOLEAN
      PROVE  Types'
  BY <1>3 DEF ClickDone, Nothing, Commands
<1>4. ASSUME NEW c \in Clicks, Enter(c)
      PROVE  Types'
  <2>1. CASE SetUrl(c) \/ SetToken(c) \/ Disconnect(c)
    BY <1>2, <2>1 DEF SetUrl, SetToken, Disconnect
  <2>2. CASE GetConfig(c)
    BY <1>2, <2>2 DEF GetConfig
  <2>3. CASE Send(c)
    BY <1>2, <1>3, <2>3 DEF Send
  <2>4. QED
    BY <1>4, <2>1, <2>2, <2>3 DEF Enter
<1>5. ASSUME NEW c \in Clicks, GetToken(c)
      PROVE  Types'
  BY <1>2, <1>5 DEF GetToken
<1>6. ASSUME NEW c \in Clicks, Answered(c) \/ Healthy(c) \/ Show(c)
      PROVE  Types'
  BY <1>2, <1>3, <1>6 DEF Answered, Healthy, Show
<1>7. CASE UNCHANGED consoleVars
  BY <1>7 DEF consoleVars
<1>8. QED
  BY <1>1, <1>4, <1>5, <1>6, <1>7 DEF ConsoleNext

\* Every step of the user interface keeps the invariant.
LEMMA HeldStep == Held /\ [ConsoleNext]_consoleVars => Held'
<1> SUFFICES ASSUME Held, [ConsoleNext]_consoleVars PROVE Held'
  OBVIOUS
<1>1. Types /\ Types' /\ Connects
  BY TypesStep DEF Held
<1>2. ASSUME NEW c \in Clicks, NEW command \in Commands, NEW url \in Urls \cup {NoServer},
             Issue(c, command, url)
      PROVE  Held'
  <2>1. /\ ClickAt(c, "idle") /\ (url = NoServer <=> command # "connect")
        /\ click' = [click EXCEPT ![c] = [at |-> "lock", does |-> command, to |-> url]]
        /\ command = "auto" => connected = "no"
        /\ command # "mount" => connected' = connected
        /\ UNCHANGED <<serverUrl, token>>
    BY <1>2 DEF Issue
  <2>2. /\ \A d \in Clicks \ {c} : click'[d] = click[d]
        /\ click'[c].at = "lock" /\ click'[c].does = command /\ click'[c].to = url
    BY <1>1, <2>1 DEF Types
  <2>3. Connects'
    BY <1>1, <2>1, <2>2 DEF Connects, ClickAt
  <2>4. ASSUME takingTurns' PROVE Order' /\ Shown'
    <3>1. /\ takingTurns
          /\ command # "request" => \A d \in Clicks : ClickAt(d, "idle") \/ click[d].does = "request"
      BY <1>1, <1>2, <2>4 DEF Issue, Types
    <3>2. Order /\ Shown
      BY <3>1 DEF Held
    <3>3. Order'
      BY <1>1, <2>1, <2>2, <3>1, <3>2 DEF Connects, Order, ClickAt
    <3>4. click[c].does = "request" /\ token' = token
      BY <1>1, <2>1 DEF Connects
    <3>5. CASE command = "request"
      <4>1. /\ connected' = connected
            /\ \A d \in Clicks : click'[d].does = click[d].does
            /\ \A d \in Clicks : click'[d].at = click[d].at \/ click'[d].at = "lock"
        BY <2>1, <2>2, <3>4, <3>5
      <4>2. QED
        <5>1. (\A d \in Clicks : click'[d].does = "request") =>
                  (connected' = "yes" <=> token' # NoServer)
          BY <3>2, <3>4, <4>1 DEF Shown
        <5>2. ASSUME NEW d \in Clicks
              PROVE  /\ click'[d].at = "yes" => token' # NoServer
                     /\ click'[d].at = "no" => token' = NoServer
                     /\ click'[d].does = "auto" => token' = NoServer /\ connected' # "yes"
          BY <3>2, <3>4, <4>1 DEF Shown, ClickAt
        <5>3. QED
          BY <3>3, <5>1, <5>2 DEF Shown, ClickAt
    <3>6. CASE command # "request"
      <4>1. \A d \in Clicks : click[d].does = "request"
        BY <1>1, <3>1, <3>6 DEF Connects
      <4>2. connected = "yes" <=> token # NoServer
        BY <3>2, <4>1 DEF Shown
      <4>3. \A d \in Clicks : ~ClickAt(d, "yes") /\ ~ClickAt(d, "no")
        BY <1>1, <4>1 DEF Connects
      <4>4. click'[c].does # "request"
        BY <2>2, <3>6
      <4>5. ASSUME NEW d \in Clicks
            PROVE  /\ click'[d].at # "yes" /\ click'[d].at # "no"
                   /\ click'[d].does = "auto" => token = NoServer /\ connected' # "yes"
        <5>1. CASE d = c
          BY <2>1, <2>2, <4>2, <5>1
        <5>2. CASE d # c
          BY <2>2, <4>1, <4>3, <5>2 DEF ClickAt
        <5>3. QED
          BY <5>1, <5>2
      <4>6. QED
        <5>1. ~ \A d \in Clicks : click'[d].does = "request"
          BY <4>4
        <5>2. QED
          BY <3>3, <3>4, <4>5, <5>1 DEF Shown, ClickAt
    <3>7. QED
      BY <3>3, <3>5, <3>6
  <2>5. QED
    BY <1>1, <2>3, <2>4 DEF Held
<1>3. ASSUME NEW c \in Clicks, SetUrl(c)
      PROVE  Held'
  <2>1. /\ ClickAt(c, "lock") /\ click[c].does = "connect" /\ serverUrl' = click[c].to
        /\ click' = [click EXCEPT ![c].at = "token"]
        /\ UNCHANGED <<token, connected, takingTurns>>
    BY <1>3 DEF SetUrl, Writes, Locks, ClickTo
  <2>2. /\ \A d \in Clicks \ {c} : click'[d] = click[d]
        /\ click'[c].at = "token" /\ click'[c].does = "connect" /\ click'[c].to = click[c].to
    BY <1>1, <2>1 DEF Types
  <2>3. Connects'
    BY <1>1, <2>1, <2>2 DEF Connects, ClickAt
  <2>4. Order => Order'
    BY <1>1, <2>1, <2>2 DEF Connects, Order, ClickAt
  <2>5. Shown => Shown'
    BY <1>1, <2>1, <2>2 DEF Connects, Shown, ClickAt
  <2>6. QED
    BY <1>1, <2>1, <2>3, <2>4, <2>5 DEF Held
<1>4. ASSUME NEW c \in Clicks, SetToken(c)
      PROVE  Held'
  <2>1. /\ ClickAt(c, "store") /\ token' = click[c].to
        /\ click' = [click EXCEPT ![c].at = "yes"]
        /\ UNCHANGED <<serverUrl, connected, takingTurns>>
    BY <1>4 DEF SetToken, Writes, Locks, ClickTo
  <2>2. /\ \A d \in Clicks \ {c} : click'[d] = click[d]
        /\ click'[c].at = "yes" /\ click'[c].does = "connect" /\ click'[c].to = click[c].to
    BY <1>1, <2>1 DEF Types, Connects
  <2>3. Connects' /\ token' # NoServer
    BY <1>1, <2>1, <2>2 DEF Connects, ClickAt
  <2>4. Order => Order'
    BY <1>1, <2>1, <2>2 DEF Connects, Order, ClickAt
  <2>5. Order => Shown'
    <3>1. SUFFICES ASSUME Order PROVE Shown'
      OBVIOUS
    <3>2. \A d \in Clicks \ {c} : click'[d].does = "request"
      BY <1>1, <2>1, <2>2, <3>1 DEF Connects, Order
    <3>3. QED
      BY <1>1, <2>2, <2>3, <3>2 DEF Connects, Shown, ClickAt
  <2>6. QED
    BY <1>1, <2>1, <2>3, <2>4, <2>5 DEF Held
<1>5. ASSUME NEW c \in Clicks, Disconnect(c)
      PROVE  Held'
  <2>1. /\ ClickAt(c, "lock") /\ click[c].does = "disconnect" /\ token' = NoServer
        /\ click' = [click EXCEPT ![c].at = "no"]
        /\ UNCHANGED <<serverUrl, connected, takingTurns>>
    BY <1>5 DEF Disconnect, Writes, Locks, ClickTo
  <2>2. /\ \A d \in Clicks \ {c} : click'[d] = click[d]
        /\ click'[c].at = "no" /\ click'[c].does = "disconnect" /\ click'[c].to = click[c].to
    BY <1>1, <2>1 DEF Types
  <2>3. Connects'
    BY <1>1, <2>1, <2>2 DEF Connects, ClickAt
  <2>4. Order => Order'
    BY <1>1, <2>1, <2>2 DEF Connects, Order, ClickAt
  <2>5. Order => Shown'
    <3>1. SUFFICES ASSUME Order PROVE Shown'
      OBVIOUS
    <3>2. \A d \in Clicks \ {c} : click'[d].does = "request"
      BY <1>1, <2>1, <2>2, <3>1 DEF Order
    <3>3. QED
      BY <1>1, <2>1, <2>2, <2>3, <3>2 DEF Connects, Shown, ClickAt
  <2>6. QED
    BY <1>1, <2>1, <2>3, <2>4, <2>5 DEF Held
<1>6. ASSUME NEW c \in Clicks, GetToken(c)
      PROVE  Held'
  <2>1. ClickAt(c, "token") /\ UNCHANGED <<serverUrl, token, connected>>
    BY <1>6 DEF GetToken
  <2>2. CASE ClickTo(c, "store") /\ UNCHANGED takingTurns
    <3>1. /\ \A d \in Clicks \ {c} : click'[d] = click[d]
          /\ click'[c].at = "store" /\ click'[c].does = click[c].does
          /\ click'[c].to = click[c].to
      BY <1>1, <2>2 DEF Types, ClickTo
    <3>2. Connects' /\ (Order => Order')
      BY <1>1, <2>1, <3>1 DEF Connects, Order, ClickAt
    <3>3. Shown => Shown'
      BY <1>1, <2>1, <3>1 DEF Connects, Shown, ClickAt
    <3>4. QED
      BY <1>1, <2>2, <3>2, <3>3 DEF Held
  <2>3. CASE ClickTo(c, "no") /\ takingTurns' = FALSE
    <3>1. /\ \A d \in Clicks \ {c} : click'[d] = click[d]
          /\ click'[c].at = "no" /\ click'[c].does = "connect"
          /\ click'[c].to = click[c].to
      BY <1>1, <2>1, <2>3 DEF Types, ClickTo, Connects
    <3>2. Connects'
      BY <1>1, <2>1, <3>1 DEF Connects, ClickAt
    <3>3. QED
      BY <1>1, <2>3, <3>2 DEF Held
  <2>4. QED
    BY <1>6, <2>2, <2>3 DEF GetToken
<1>7. ASSUME NEW c \in Clicks, Send(c) \/ Answered(c) \/ Healthy(c)
      PROVE  Held'
  <2>1. /\ click[c].does \in {"request", "auto"}
        /\ ClickAt(c, "lock") \/ ClickAt(c, "answer")
        /\ \/ click' = [click EXCEPT ![c].at = "answer"]
           \/ click' = [click EXCEPT ![c].at = "auto"] /\ click[c].does = "auto"
           \/ click' = [click EXCEPT ![c] = Nothing]
        /\ UNCHANGED <<serverUrl, token, connected, takingTurns>>
    BY <1>7 DEF Send, Answered, Healthy, Locks, ClickTo, ClickDone
  <2>2. /\ \A d \in Clicks \ {c} : click'[d] = click[d]
        /\ \/ /\ click'[c].at \in {"answer", "auto"}
              /\ click'[c].at = "auto" => click[c].does = "auto"
              /\ click'[c].does = click[c].does /\ click'[c].to = click[c].to
           \/ click'[c].at = "idle" /\ click'[c].does = "request"
    <3>1. CASE click' = [click EXCEPT ![c].at = "answer"]
      BY <1>1, <3>1 DEF Types
    <3>2. CASE click' = [click EXCEPT ![c].at = "auto"] /\ click[c].does = "auto"
      BY <1>1, <3>2 DEF Types
    <3>3. CASE click' = [click EXCEPT ![c] = Nothing]
      BY <1>1, <3>3 DEF Types, Nothing
    <3>4. QED
      BY <2>1, <3>1, <3>2, <3>3
  <2>3. Connects' /\ (Order => Order')
    BY <1>1, <2>1, <2>2 DEF Connects, Order, ClickAt
  <2>4. ASSUME Order, Shown PROVE Shown'
    <3>1. CASE click[c].does = "request"
      BY <1>1, <2>1, <2>2, <2>4, <3>1 DEF Connects, Shown, ClickAt
    <3>2. CASE click[c].does = "auto"
      BY <1>1, <2>1, <2>2, <2>4, <3>2 DEF Connects, Shown, ClickAt
    <3>3. QED
      BY <2>1, <3>1, <3>2
  <2>5. QED
    BY <1>1, <2>1, <2>3, <2>4 DEF Held
<1>8. ASSUME NEW c \in Clicks, GetConfig(c)
      PROVE  Held'
  <2>1. /\ ClickAt(c, "lock") /\ click[c].does = "mount"
        /\ click' = [click EXCEPT ![c].at = IF token = NoServer THEN "no" ELSE "yes"]
        /\ UNCHANGED <<serverUrl, token, connected, takingTurns>>
    BY <1>8 DEF GetConfig, Locks, ClickTo
  <2>2. /\ \A d \in Clicks \ {c} : click'[d] = click[d]
        /\ click'[c].at = IF token = NoServer THEN "no" ELSE "yes"
        /\ click'[c].does = "mount" /\ click'[c].to = click[c].to
    BY <1>1, <2>1 DEF Types
  <2>3. Connects' /\ (Order => Order') /\ (Shown => Shown')
    BY <1>1, <2>1, <2>2 DEF Connects, Order, Shown, ClickAt
  <2>4. QED
    BY <1>1, <2>1, <2>3 DEF Held
<1>9. ASSUME NEW c \in Clicks, Show(c)
      PROVE  Held'
  <2>1. /\ click[c].at \in {"yes", "no", "auto"}
        /\ connected' = IF ClickAt(c, "auto") /\ connected # "no" THEN connected
                        ELSE click[c].at
        /\ click' = [click EXCEPT ![c] = Nothing]
        /\ UNCHANGED <<serverUrl, token, takingTurns>>
    BY <1>9 DEF Show, ClickDone
  <2>2. /\ \A d \in Clicks \ {c} : click'[d] = click[d]
        /\ click'[c].at = "idle" /\ click'[c].does = "request"
    BY <1>1, <2>1 DEF Types, Nothing
  <2>3. Connects' /\ (Order => Order')
    BY <1>1, <2>1, <2>2 DEF Connects, Order, ClickAt
  <2>4. ASSUME Order, Shown PROVE Shown'
    <3>1. \A d \in Clicks : click'[d].does = "request"
      BY <1>1, <2>1, <2>2, <2>4 DEF Connects, Order, ClickAt
    <3>2. connected' = "yes" <=> token' # NoServer
      BY <1>1, <2>1, <2>4 DEF Connects, Shown, ClickAt
    <3>3. QED
      BY <2>3, <3>1, <3>2 DEF Connects, Shown, ClickAt
  <2>5. QED
    BY <1>1, <2>1, <2>3, <2>4 DEF Held
<1>10. CASE UNCHANGED consoleVars
  BY <1>1, <1>10 DEF consoleVars, Held, Connects, Order, Shown, ClickAt
<1>11. QED
  BY <1>2, <1>3, <1>4, <1>5, <1>6, <1>7, <1>8, <1>9, <1>10 DEF ConsoleNext, Enter

\* As long as all but requests take turns and no connect fails, a token goes to
\* the server it is of, and a connection is shown exactly when there is a token
\* (TokenFits), for any number of commands and servers.
THEOREM TokenFitsHolds == ConsoleSpec => []TokenFits
<1>1. Held => TokenFits
  BY DEF Held, Connects, Order, Shown, TokenFits, NoCommand, ClickAt
<1>2. QED
  BY <1>1, HeldInit, HeldStep, PTL DEF ConsoleSpec

=============================================================================
