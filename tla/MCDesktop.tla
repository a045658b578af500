----------------------------- MODULE MCDesktop -----------------------------
(***************************************************************************)
(* The two desktop applications.  USSP Studio: the commands that start and *)
(* stop a sender or a receiver (Studio), and one sending task with its     *)
(* devices (Streaming); what the commands need of a task is in Studio, and *)
(* a task runs alike whoever started it.  USSP Admin: its server process   *)
(* (Sidecar) and its connection to a control plane (Console), kept in two  *)
(* states that no command touches together.  A behaviour is about one of   *)
(* the four, the others standing at one of their starts.                   *)
(***************************************************************************)
EXTENDS Studio, Streaming, Sidecar, Console

VARIABLE part

DesktopInit ==
    /\ part \in {"commands", "task", "server", "console"}
    /\ Init /\ StreamingInit /\ SidecarInit /\ ConsoleInit
    /\ part # "commands" => service = "sender"
    /\ part # "task" => video = "pattern" /\ audio = "tone"

DesktopNext ==
    \/ /\ part = "commands" /\ Next
       /\ UNCHANGED <<part, streamingVars, sidecarVars, consoleVars>>
    \/ /\ part = "task" /\ StreamingNext
       /\ UNCHANGED <<part, vars, sidecarVars, consoleVars>>
    \/ /\ part = "server" /\ SidecarNext
       /\ UNCHANGED <<part, vars, streamingVars, consoleVars>>
    \/ /\ part = "console" /\ ConsoleNext
       /\ UNCHANGED <<part, vars, streamingVars, sidecarVars>>

DesktopSpec ==
    DesktopInit /\ [][DesktopNext]_<<part, vars, streamingVars, sidecarVars, consoleVars>>

-----------------------------------------------------------------------------
\* The types of the studio's variables.
StudioTypeOK == TypeOK /\ StreamingTypeOK

\* What each part does in the end it does under its own fairness, which says
\* nothing of the other parts; that of a task, which begins at once, holds where
\* the behaviour is about it.
TaskFairness ==
    /\ WF_streamingVars(part = "task" /\ TaskGoesOn)
    /\ WF_streamingVars(part = "task" /\ CameraThread)
    /\ WF_streamingVars(part = "task" /\ MicrophoneEnds)

\* start_sender, start_receiver: a task whose stop channel another start has
\* replaced ends (module Studio).
NoOrphanStays == Fairness => OrphansEnd

\* stop_sender, stop_receiver: a stop returns and frees the port, and the task
\* it reaches lets its devices go (modules Studio and Streaming).
StopsComplete ==
    /\ Fairness => StopCompletes
    /\ TaskFairness => StopReleases

\* sidecar.rs: the end of a server process is noticed (module Sidecar).
DeathsAreNoticed == SidecarFairness => DeathIsNoticed

\* lib.rs: commands get their lock, unless a server never answers (module
\* Console).
ClicksReturn == ConsoleFairness => CommandsReturn
=============================================================================
