------------------------------- MODULE Studio -------------------------------
(***************************************************************************)
(* How USSP Studio starts and stops its sender or its receiver: the two    *)
(* commands, which the user interface may call again at any time, the      *)
(* tasks a start leaves behind, and the shared state (is_running, stop_tx, *)
(* receiver) they all write.  The lock on that state is never held across  *)
(* an await, and a start checks it long before it writes it.  The stop     *)
(* channel ends a task in two ways: by a message, and by the last of its   *)
(* senders being dropped.  The two services share nothing, so a behaviour  *)
(* is about one of them, chosen in the initial state.                      *)
(***************************************************************************)
EXTENDS Naturals

CONSTANTS
    MaxStarts, \* bound: the start calls of a behaviour
    MaxStops,  \* bound: the stop calls of a behaviour
    None

ASSUME StudioAssumption ==
    /\ MaxStarts \in Nat /\ MaxStops \in Nat
    /\ None \notin 1 .. MaxStarts

\* A start names its task, loop, socket and stop channel.
Starts == 1 .. MaxStarts
Stops == 1 .. MaxStops

VARIABLES
    service,   \* "sender" or "receiver"
    isRunning, \* is_running
    stopTx,    \* stop_tx: the start whose channel's sender the state holds
    receiver,  \* ReceiverState::receiver
    start,     \* where each start call is
    task,      \* the sender's task, the receiver's event processing task
    loop,      \* the task running Receiver::run
    flag,      \* Receiver::running, and whether run has set it yet
    goodbye,   \* Receiver::stop was called: Disconnected is on its way
    signal,    \* the stop channel (capacity one) holds a message
    stop,      \* where each stop call is, and what it took from the state
    orderly    \* history: every call waited for what went before it to end

vars == <<service, isRunning, stopTx, receiver, start, task, loop, flag,
          goodbye, signal, stop, orderly>>

tasks == <<service, task, loop, flag, goodbye, signal>>

TypeOK ==
    /\ service \in {"sender", "receiver"}
    /\ isRunning \in BOOLEAN
    /\ stopTx \in Starts \cup {None}
    /\ receiver \in Starts \cup {None}
    /\ service = "sender" => receiver = None
    /\ start \in [Starts -> {"new", "bind", "publish", "spawn", "returned", "failed"}]
    /\ task \in [Starts -> {"none", "running", "cleanup", "ended", "hung"}]
    /\ loop \in [Starts -> {"none", "spawned", "running", "blocked", "ended"}]
    /\ flag \in [Starts -> {"unset", "run", "stop"}]
    /\ goodbye \in [Starts -> BOOLEAN]
    /\ signal \in [Starts -> BOOLEAN]
    /\ stop \in [Stops -> [at : {"new", "halt", "signal", "wait", "returned"},
                           tx : Starts \cup {None}, rcv : Starts \cup {None}]]
    /\ orderly \in BOOLEAN

StopAt(point) == [at |-> point, tx |-> None, rcv |-> None]

Init ==
    /\ service \in {"sender", "receiver"}
    /\ isRunning = FALSE
    /\ stopTx = None
    /\ receiver = None
    /\ start = [s \in Starts |-> "new"]
    /\ task = [s \in Starts |-> "none"]
    /\ loop = [s \in Starts |-> "none"]
    /\ flag = [s \in Starts |-> "unset"]
    /\ goodbye = [s \in Starts |-> FALSE]
    /\ signal = [s \in Starts |-> FALSE]
    /\ stop = [c \in Stops |-> StopAt("new")]
    /\ orderly = TRUE

-----------------------------------------------------------------------------
Starting(s) == start[s] \in {"bind", "publish", "spawn"}
Stopping == \E c \in Stops : stop[c].at \notin {"new", "returned"}

\* A sender of the stop channel of s is left: in the state, in the start call
\* that made it, or in a stop call that has not sent yet.
Held(s) ==
    \/ stopTx = s
    \/ start[s] = "publish"
    \/ \E c \in Stops : stop[c].tx = s /\ stop[c].at \in {"halt", "signal"}

\* Something still owns the Receiver of s, and with it the socket.
Bound(s) ==
    \/ start[s] \in {"publish", "spawn"}
    \/ task[s] \in {"running", "cleanup"}
    \/ loop[s] \in {"spawned", "running", "blocked"}
    \/ receiver = s
    \/ \E c \in Stops : stop[c].rcv = s /\ stop[c].at = "halt"

\* Nothing of an earlier start is left when a call begins now.
Undisturbed == /\ ~Stopping
               /\ \A s \in Starts : /\ ~Starting(s)
                                    /\ loop[s] # "spawned"

AllEnded == \A s \in Starts : /\ task[s] \in {"none", "ended"}
                              /\ loop[s] \in {"none", "ended"}
-----------------------------------------------------------------------------
(* start_sender, start_receiver                                            *)

StartCheck(s) ==
    /\ start[s] = "new"
    /\ \A r \in Starts : r < s => start[r] # "new"
    /\ ~isRunning
    /\ start' = [start EXCEPT ![s] = "bind"]
    /\ orderly' = (orderly /\ Undisturbed /\ AllEnded)
    /\ UNCHANGED <<isRunning, stopTx, receiver, tasks, stop>>

\* A sender takes any free port, but its handshake may fail.  A receiver may be
\* asked for the port of another one that still has its socket.
Bind(s) ==
    /\ start[s] = "bind"
    /\ \/ start' = [start EXCEPT ![s] = "publish"]
       \/ /\ service = "receiver" => \E r \in Starts \ {s} : Bound(r)
          /\ start' = [start EXCEPT ![s] = "failed"]
    /\ UNCHANGED <<isRunning, stopTx, receiver, tasks, stop, orderly>>

\* Mutant: a sender is kept as if it were a receiver.
PublishAsReceiver(s) ==
    /\ start[s] = "publish"
    /\ start' = [start EXCEPT ![s] = "spawn"]
    /\ isRunning' = TRUE
    /\ stopTx' = s
    /\ receiver' = s
    /\ UNCHANGED <<tasks, stop, orderly>>

\* Whatever the state held is dropped.
Publish(s) ==
    /\ start[s] = "publish"
    /\ start' = [start EXCEPT ![s] = "spawn"]
    /\ isRunning' = TRUE
    /\ stopTx' = s
    /\ receiver' = IF service = "receiver" THEN s ELSE None
    /\ UNCHANGED <<tasks, stop, orderly>>

Spawn(s) ==
    /\ start[s] = "spawn"
    /\ start' = [start EXCEPT ![s] = "returned"]
    /\ task' = [task EXCEPT ![s] = "running"]
    /\ loop' = [loop EXCEPT ![s] = IF service = "receiver" THEN "spawned"
                                                           ELSE "none"]
    /\ UNCHANGED <<service, isRunning, stopTx, receiver, flag, goodbye,
                   signal, stop, orderly>>

-----------------------------------------------------------------------------
(* The tasks                                                               *)

\* Mutant: the stop branch matches a message only, not a closed channel.
StopSeenOnMessage(s) ==
    /\ task[s] = "running"
    /\ signal[s]
    /\ task' = [task EXCEPT ![s] = "cleanup"]
    /\ signal' = [signal EXCEPT ![s] = FALSE]
    /\ UNCHANGED <<service, isRunning, stopTx, receiver, start, loop,
                   flag, goodbye, stop, orderly>>

\* stop_rx.recv() returns on a message and on a closed channel.
StopSeen(s) ==
    /\ task[s] = "running"
    /\ signal[s] \/ ~Held(s)
    /\ task' = [task EXCEPT ![s] = "cleanup"]
    /\ signal' = [signal EXCEPT ![s] = FALSE]
    /\ UNCHANGED <<service, isRunning, stopTx, receiver, start, loop,
                   flag, goodbye, stop, orderly>>

\* The Disconnected event ends the event processing task.
GoodbyeSeen(s) ==
    /\ task[s] = "running"
    /\ goodbye[s]
    /\ task' = [task EXCEPT ![s] = "cleanup"]
    /\ UNCHANGED <<service, isRunning, stopTx, receiver, start, loop,
                   flag, goodbye, signal, stop, orderly>>

\* A sender with FEC and video waits for itself for ever (module Sender), or
\* its clean-up for a camera that is silent (module Streaming).
Hang(s) ==
    /\ service = "sender"
    /\ task[s] \in {"running", "cleanup"}
    /\ task' = [task EXCEPT ![s] = "hung"]
    /\ UNCHANGED <<service, isRunning, stopTx, receiver, start, loop,
                   flag, goodbye, signal, stop, orderly>>

\* The camera is released and the session closed, then the state is cleared,
\* whoever's it is by now.
Cleanup(s) ==
    /\ task[s] = "cleanup"
    /\ task' = [task EXCEPT ![s] = "ended"]
    /\ isRunning' = FALSE
    /\ stopTx' = None
    /\ UNCHANGED <<service, receiver, start, loop, flag, goodbye,
                   signal, stop, orderly>>

\* Receiver::run begins: a stop that came before it is forgotten.
Run(s) ==
    /\ loop[s] = "spawned"
    /\ loop' = [loop EXCEPT ![s] = "running"]
    /\ flag' = [flag EXCEPT ![s] = "run"]
    /\ UNCHANGED <<service, isRunning, stopTx, receiver, start, task,
                   goodbye, signal, stop, orderly>>

\* The loop looks at its flag, at least every 100 ms.
LoopEnds(s) ==
    /\ loop[s] = "running"
    /\ flag[s] = "stop"
    /\ loop' = [loop EXCEPT ![s] = "ended"]
    /\ UNCHANGED <<service, isRunning, stopTx, receiver, start, task,
                   flag, goodbye, signal, stop, orderly>>

\* Nobody reads the events any more and their queue is full.
LoopBlocks(s) ==
    /\ loop[s] = "running"
    /\ task[s] \in {"cleanup", "ended"}
    /\ loop' = [loop EXCEPT ![s] = "blocked"]
    /\ UNCHANGED <<service, isRunning, stopTx, receiver, start, task,
                   flag, goodbye, signal, stop, orderly>>

LoopFails(s) ==
    /\ loop[s] = "running"
    /\ loop' = [loop EXCEPT ![s] = "ended"]
    /\ UNCHANGED <<service, isRunning, stopTx, receiver, start, task,
                   flag, goodbye, signal, stop, orderly>>

-----------------------------------------------------------------------------
(* stop_sender, stop_receiver                                              *)

StopBegin(c) ==
    /\ stop[c].at = "new"
    /\ \A d \in Stops : d < c => stop[d].at # "new"
    /\ stop' = [stop EXCEPT ![c] = [at  |-> IF receiver = None THEN "signal"
                                                              ELSE "halt",
                                    tx  |-> stopTx,
                                    rcv |-> receiver]]
    /\ orderly' = (orderly /\ Undisturbed)
    /\ UNCHANGED <<isRunning, stopTx, receiver, start, tasks>>

\* Receiver::stop.
Halt(c) ==
    /\ stop[c].at = "halt"
    /\ stop' = [stop EXCEPT ![c].at = "signal"]
    /\ flag' = [flag EXCEPT ![stop[c].rcv] = "stop"]
    /\ goodbye' = [goodbye EXCEPT ![stop[c].rcv] = TRUE]
    /\ UNCHANGED <<service, isRunning, stopTx, receiver, start, task,
                   loop, signal, orderly>>

\* Mutant: the message waits for a place though nobody will ever make it.
SignalWaits(c) ==
    /\ stop[c].at = "signal"
    /\ stop[c].tx # None => ~signal[stop[c].tx] /\ task[stop[c].tx] # "ended"
    /\ signal' = [s \in Starts |-> signal[s] \/ s = stop[c].tx]
    /\ stop' = [stop EXCEPT ![c].at = "wait"]
    /\ UNCHANGED <<service, isRunning, stopTx, receiver, start, task,
                   loop, flag, goodbye, orderly>>

\* The message needs the channel's one place, unless the task has dropped the
\* other end.
Signal(c) ==
    /\ stop[c].at = "signal"
    /\ stop[c].tx # None /\ task[stop[c].tx] # "ended" => ~signal[stop[c].tx]
    /\ signal' = [s \in Starts |-> \/ signal[s]
                                   \/ s = stop[c].tx /\ task[s] # "ended"]
    /\ stop' = [stop EXCEPT ![c].at = "wait"]
    /\ UNCHANGED <<service, isRunning, stopTx, receiver, start, task,
                   loop, flag, goodbye, orderly>>

\* Mutant: is_running is left to the task.
ClearKeepsRunning(c) ==
    /\ stop[c].at = "wait"
    /\ stop' = [stop EXCEPT ![c] = StopAt("returned")]
    /\ stopTx' = None
    /\ receiver' = None
    /\ UNCHANGED <<isRunning, start, tasks, orderly>>

\* A fixed time later the state is cleared, whatever has become of the task.
Clear(c) ==
    /\ stop[c].at = "wait"
    /\ stop' = [stop EXCEPT ![c] = StopAt("returned")]
    /\ isRunning' = FALSE
    /\ stopTx' = None
    /\ receiver' = None
    /\ UNCHANGED <<start, tasks, orderly>>

-----------------------------------------------------------------------------
StartStep(s) == Bind(s) \/ Publish(s) \/ Spawn(s)
TaskStep(s) == StopSeen(s) \/ GoodbyeSeen(s) \/ Cleanup(s)
LoopStep(s) == Run(s) \/ LoopEnds(s)
StopStep(c) == Halt(c) \/ Signal(c) \/ Clear(c)

Next ==
    \/ \E s \in Starts : \/ StartCheck(s)
                         \/ StartStep(s) \/ TaskStep(s) \/ LoopStep(s)
                         \/ Hang(s) \/ LoopBlocks(s) \/ LoopFails(s)
    \/ \E c \in Stops : StopBegin(c) \/ StopStep(c)

Spec == Init /\ [][Next]_vars

\* Calls and tasks are futures tokio keeps polling; a task's select polls its
\* branches in random order, so the stop branch is not put off for ever.
Fairness ==
    /\ \A s \in Starts : /\ WF_vars(StartStep(s))
                         /\ WF_vars(TaskStep(s))
                         /\ WF_vars(LoopStep(s))
    /\ \A c \in Stops : WF_vars(StopStep(c))

FairSpec == Spec /\ Fairness
-----------------------------------------------------------------------------
(* Properties                                                              *)

\* While each call waits for what went before it to end, what the interface
\* shows between calls is the truth: the service is shown as running exactly
\* when there is a task at work that a stop would reach.
ShownIsTrue ==
    orderly /\ ~Stopping /\ (\A s \in Starts : ~Starting(s)) =>
        (isRunning <=> \E s \in Starts : /\ task[s] \in {"running", "hung"}
                                         /\ stopTx = s /\ ~signal[s])

\* A task at work that the state does not name any more: no later stop can
\* reach it.
Orphans == {s \in Starts : task[s] = "running" /\ stopTx # s}

\* However starts and stops overlap, orphaned tasks end by themselves: their
\* stop channels are closed.
OrphansEnd == Orphans # {} ~> Orphans = {}

\* The stop commands that were issued return, also when a message of another
\* one fills the channel, unless the task they wait for hangs.
StopReturns == Stopping ~> ~Stopping \/ \E s \in Starts : task[s] = "hung"

\* Stopped receivers whose port is still taken.  One whose loop was left with
\* a full queue keeps it for ever and does not count.
StoppedAndBound == {s \in Starts : goodbye[s] /\ Bound(s) /\ loop[s] # "blocked"}

\* Without overlaps a stopped receiver gives its port back, so that it can be
\* started again.
StopFreesThePort ==
    orderly /\ StoppedAndBound # {} ~> StoppedAndBound = {} \/ ~orderly

\* A stop gets done what it is for.
StopCompletes == StopReturns /\ StopFreesThePort
=============================================================================
