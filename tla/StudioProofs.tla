--------------------------- MODULE StudioProofs ---------------------------
(***************************************************************************)
(* Proofs about USSP Studio.  Of the commands: their types, and that what  *)
(* the interface shows is true while calls wait for each other.  Of one    *)
(* sending task: its types, that it leaves no ffmpeg process behind, and   *)
(* that the time stamps of video and audio keep up with the time, for any  *)
(* frame rate.                                                             *)
(***************************************************************************)
EXTENDS MCDesktop, TLAPS

USE StudioAssumption

-----------------------------------------------------------------------------
(* The commands: the inductive invariant                                   *)

\* Where a task is that does nothing more.
Ended == {"none", "ended"}

\* Before a start has published its channel nobody knows of it.
Unknown(s) ==
    /\ stopTx # s /\ receiver # s
    /\ ~signal[s] /\ ~goodbye[s]
    /\ \A c \in Stops : stop[c].tx # s /\ stop[c].rcv # s

\* A start that is under way has no task yet.
Published ==
    \A s \in Starts :
        /\ start[s] \in {"new", "bind", "publish"} => Unknown(s)
        /\ start[s] # "returned" => task[s] = "none"

\* The state shows no service.
Down == ~isRunning /\ stopTx = None

\* The state shows the service of start s, which nobody has told to stop, and no
\* other task is left that could clear the state.
Up(s) == /\ isRunning /\ stopTx = s /\ ~signal[s] /\ ~goodbye[s]
         /\ \A r \in Starts \ {s} : task[r] \in Ended

InFlight(c) == stop[c].at \notin {"new", "returned"}

\* While all is orderly calls take turns.
OneCall ==
    /\ \A s, r \in Starts : Starting(s) /\ Starting(r) => s = r
    /\ \A c, d \in Stops : InFlight(c) /\ InFlight(d) => c = d
    /\ \A c \in Stops, s \in Starts : ~(InFlight(c) /\ Starting(s))

\* What the state shows when no stop is under way.  A stop may find and leave
\* anything: when it returns it has cleared the state.
Shown ==
    ~Stopping =>
        /\ \A s \in Starts : start[s] \in {"bind", "publish"} =>
              Down /\ \A r \in Starts : task[r] \in Ended
        /\ \A s \in Starts : start[s] = "spawn" => Up(s)
        /\ (\A s \in Starts : ~Starting(s)) =>
              Down \/ \E s \in Starts : Up(s) /\ task[s] \in {"running", "hung"}

StudioInv == TypeOK /\ Published /\ (orderly => OneCall /\ Shown)

-----------------------------------------------------------------------------
(* The commands: every step keeps it                                       *)

Line == [at : {"new", "halt", "signal", "wait", "returned"},
         tx : Starts \cup {None}, rcv : Starts \cup {None}]

\* Every step of the commands and tasks keeps the types.
LEMMA StudioTypeStep == TypeOK /\ [Next]_vars => TypeOK'
<1> SUFFICES ASSUME TypeOK, [Next]_vars PROVE TypeOK'
  OBVIOUS
<1>1. ASSUME NEW s \in Starts, StartCheck(s) \/ StartStep(s) PROVE TypeOK'
  <2>1. CASE StartCheck(s) \/ Bind(s)
    BY <2>1 DEF StartCheck, Bind, TypeOK, tasks
  <2>2. CASE Publish(s)
    BY <2>2 DEF Publish, TypeOK, tasks
  <2>3. CASE Spawn(s)
    BY <2>3 DEF Spawn, TypeOK
  <2> QED
    BY <1>1, <2>1, <2>2, <2>3 DEF StartStep
<1>2. ASSUME NEW s \in Starts, TaskStep(s) \/ Hang(s) PROVE TypeOK'
  BY <1>2 DEF TaskStep, StopSeen, GoodbyeSeen, Cleanup, Hang, TypeOK
<1>3. ASSUME NEW s \in Starts, LoopStep(s) \/ LoopBlocks(s) \/ LoopFails(s) PROVE TypeOK'
  BY <1>3 DEF LoopStep, Run, LoopEnds, LoopBlocks, LoopFails, TypeOK
<1>4. ASSUME NEW c \in Stops, StopBegin(c) PROVE TypeOK'
  <2>1. stop' \in [Stops -> Line]
    BY <1>4 DEF StopBegin, TypeOK, Line
  <2> QED
    BY <1>4, <2>1 DEF StopBegin, TypeOK, Line, tasks
<1>5. ASSUME NEW c \in Stops, StopStep(c) PROVE TypeOK'
  <2>1. stop' \in [Stops -> Line]
    BY <1>5 DEF StopStep, Halt, Signal, Clear, StopAt, TypeOK, Line
  <2>2. CASE Halt(c)
    BY <2>1, <2>2 DEF Halt, TypeOK, Line
  <2>3. CASE Signal(c)
    <3>1. signal' \in [Starts -> BOOLEAN]
      BY <2>3 DEF Signal
    <3> QED
      BY <2>1, <2>3, <3>1 DEF Signal, TypeOK, Line
  <2>4. CASE Clear(c)
    BY <2>1, <2>4 DEF Clear, TypeOK, Line, tasks
  <2> QED
    BY <1>5, <2>2, <2>3, <2>4 DEF StopStep
<1>6. CASE UNCHANGED vars
  BY <1>6 DEF vars, TypeOK
<1> QED
  BY <1>1, <1>2, <1>3, <1>4, <1>5, <1>6 DEF Next

\* A channel becomes known when its start publishes it.
LEMMA PublishedStep == TypeOK /\ Published /\ [Next]_vars => Published'
<1> SUFFICES ASSUME TypeOK, Published, [Next]_vars, NEW r \in Starts
             PROVE  /\ start'[r] \in {"new", "bind", "publish"} => Unknown(r)'
                    /\ start'[r] # "returned" => task'[r] = "none"
  BY DEF Published
<1>1. /\ start[r] \in {"new", "bind", "publish"} => Unknown(r)
      /\ start[r] # "returned" => task[r] = "none"
      /\ r # None
  BY DEF Published, Starts
<1>2. ASSUME NEW s \in Starts, StartCheck(s) \/ Bind(s)
      PROVE  /\ start'[r] \in {"new", "bind", "publish"} => Unknown(r)'
             /\ start'[r] # "returned" => task'[r] = "none"
  BY <1>1, <1>2 DEF StartCheck, Bind, TypeOK, Unknown, tasks
<1>3. ASSUME NEW s \in Starts, Publish(s) \/ Spawn(s)
      PROVE  /\ start'[r] \in {"new", "bind", "publish"} => Unknown(r)'
             /\ start'[r] # "returned" => task'[r] = "none"
  BY <1>1, <1>3 DEF Publish, Spawn, TypeOK, Unknown, tasks
<1>4. ASSUME NEW s \in Starts, TaskStep(s) \/ Hang(s)
      PROVE  /\ start'[r] \in {"new", "bind", "publish"} => Unknown(r)'
             /\ start'[r] # "returned" => task'[r] = "none"
  BY <1>1, <1>4 DEF TaskStep, StopSeen, GoodbyeSeen, Cleanup, Hang, TypeOK, Unknown
<1>5. ASSUME NEW s \in Starts, LoopStep(s) \/ LoopBlocks(s) \/ LoopFails(s)
      PROVE  /\ start'[r] \in {"new", "bind", "publish"} => Unknown(r)'
             /\ start'[r] # "returned" => task'[r] = "none"
  BY <1>1, <1>5 DEF LoopStep, Run, LoopEnds, LoopBlocks, LoopFails, Unknown
<1>6. ASSUME NEW c \in Stops, StopBegin(c) \/ StopStep(c)
      PROVE  /\ start'[r] \in {"new", "bind", "publish"} => Unknown(r)'
             /\ start'[r] # "returned" => task'[r] = "none"
  <2>1. start' = start /\ task' = task
    BY <1>6 DEF StopBegin, StopStep, Halt, Signal, Clear, tasks
  <2>2. ASSUME Unknown(r), StopBegin(c) PROVE Unknown(r)'
    BY <2>2 DEF StopBegin, TypeOK, Unknown, tasks
  <2>3. ASSUME Unknown(r), Halt(c) PROVE Unknown(r)'
    BY <2>3 DEF Halt, TypeOK, Unknown
  <2>4. ASSUME Unknown(r), Signal(c) PROVE Unknown(r)'
    BY <2>4 DEF Signal, TypeOK, Unknown
  <2>5. ASSUME Unknown(r), Clear(c) PROVE Unknown(r)'
    BY <1>1, <2>5 DEF Clear, StopAt, TypeOK, Unknown, tasks
  <2> QED
    BY <1>1, <1>6, <2>1, <2>2, <2>3, <2>4, <2>5 DEF StopStep
<1>7. CASE UNCHANGED vars
  BY <1>1, <1>7 DEF vars, Unknown
<1> QED
  BY <1>2, <1>3, <1>4, <1>5, <1>6, <1>7 DEF Next, StartStep

\* A call that begins while another is under way is not orderly.
LEMMA OneCallStep ==
    ASSUME TypeOK, OneCall, orderly', [Next]_vars
    PROVE  OneCall'
<1>1. ASSUME NEW s \in Starts, StartCheck(s) PROVE OneCall'
  <2>1. /\ ~Stopping /\ \A r \in Starts : ~Starting(r)
        /\ stop' = stop /\ start' = [start EXCEPT ![s] = "bind"]
    BY <1>1 DEF StartCheck, Undisturbed
  <2>2. \A r \in Starts : Starting(r)' => r = s
    BY <2>1 DEF Starting, TypeOK
  <2> QED
    BY <2>1, <2>2 DEF OneCall, InFlight, Stopping
<1>2. ASSUME NEW s \in Starts, StartStep(s) PROVE OneCall'
  <2>1. \A r \in Starts : Starting(r)' => Starting(r)
    BY <1>2 DEF StartStep, Bind, Publish, Spawn, Starting, TypeOK
  <2>2. stop' = stop
    BY <1>2 DEF StartStep, Bind, Publish, Spawn
  <2> QED
    BY <2>1, <2>2 DEF OneCall, InFlight
<1>3. ASSUME NEW c \in Stops, StopBegin(c) PROVE OneCall'
  <2>1. /\ ~Stopping /\ \A r \in Starts : ~Starting(r)
        /\ start' = start
        /\ \A d \in Stops \ {c} : stop'[d] = stop[d]
    BY <1>3 DEF StopBegin, Undisturbed, TypeOK
  <2> QED
    BY <2>1 DEF OneCall, InFlight, Stopping, Starting
<1>4. ASSUME NEW c \in Stops, StopStep(c) PROVE OneCall'
  <2>1. start' = start
    BY <1>4 DEF StopStep, Halt, Signal, Clear
  <2>2. \A d \in Stops : InFlight(d)' => InFlight(d)
    BY <1>4 DEF StopStep, Halt, Signal, Clear, StopAt, InFlight, TypeOK
  <2> QED
    BY <2>1, <2>2 DEF OneCall, Starting
<1>5. CASE \/ \E s \in Starts : TaskStep(s) \/ Hang(s)
           \/ \E s \in Starts : LoopStep(s) \/ LoopBlocks(s) \/ LoopFails(s)
           \/ UNCHANGED vars
  <2>1. start' = start /\ stop' = stop
    BY <1>5 DEF TaskStep, StopSeen, GoodbyeSeen, Cleanup, Hang, LoopStep, Run,
                LoopEnds, LoopBlocks, LoopFails, vars
  <2> QED
    BY <2>1 DEF OneCall, InFlight, Starting
<1> QED
  BY <1>1, <1>2, <1>3, <1>4, <1>5 DEF Next

\* The task that is shown is told to stop by nobody but a stop call.
LEMMA ShownStep ==
    ASSUME TypeOK, Published, OneCall, Shown, orderly', [Next]_vars
    PROVE  Shown'
<1>1. ASSUME NEW s \in Starts, StartCheck(s) PROVE Shown'
  <2>1. /\ ~Stopping /\ (\A r \in Starts : ~Starting(r))
        /\ \A r \in Starts : task[r] \in Ended
        /\ ~isRunning /\ start' = [start EXCEPT ![s] = "bind"]
        /\ UNCHANGED <<isRunning, stopTx, task, stop>>
    BY <1>1 DEF StartCheck, Undisturbed, AllEnded, Ended, tasks
  <2>2. Down
    BY <2>1 DEF Shown, Down, Up
  <2>3. Down' /\ Starting(s)' /\ \A r \in Starts : r # s => ~Starting(r)'
    BY <2>1, <2>2 DEF Down, Starting, TypeOK
  <2>4. \A r \in Starts : start'[r] \in {"bind", "publish", "spawn"} => r = s
    BY <2>3 DEF Starting
  <2>5. start'[s] = "bind"
    BY <2>1 DEF TypeOK
  <2> QED
    BY <2>1, <2>3, <2>4, <2>5 DEF Shown
<1>2. ASSUME NEW s \in Starts, StartStep(s) PROVE Shown'
  <2>1. Starting(s) /\ ~Stopping /\ stop' = stop
        /\ \A r \in Starts \ {s} : ~Starting(r)
    BY <1>2 DEF StartStep, Bind, Publish, Spawn, Starting, OneCall, Stopping, InFlight
  <2>2. \A r \in Starts \ {s} : start'[r] = start[r] /\ ~Starting(r)'
    BY <1>2, <2>1 DEF StartStep, Bind, Publish, Spawn, Starting, TypeOK
  <2>3. ~Stopping'
    BY <2>1 DEF Stopping
  <2>4. CASE Bind(s)
    <3>1. /\ start'[s] \in {"publish", "failed"} /\ start[s] = "bind"
          /\ UNCHANGED <<isRunning, stopTx, task>>
      BY <2>4 DEF Bind, TypeOK, tasks
    <3>2. Down' /\ \A r \in Starts : task'[r] \in Ended
      BY <2>1, <3>1 DEF Shown, Down
    <3> QED
      BY <2>2, <3>1, <3>2 DEF Shown, Starting
  <2>5. CASE Publish(s)
    <3>1. /\ start'[s] = "spawn" /\ start[s] = "publish"
          /\ isRunning' = TRUE /\ stopTx' = s /\ UNCHANGED <<task, signal, goodbye>>
      BY <2>5 DEF Publish, TypeOK, tasks
    <3>2. ~signal[s] /\ ~goodbye[s] /\ \A r \in Starts : task[r] \in Ended
      BY <2>1, <3>1 DEF Published, Unknown, Shown
    <3>3. Up(s)'
      BY <3>1, <3>2 DEF Up
    <3> QED
      BY <2>2, <3>1, <3>3 DEF Shown, Starting
  <2>6. CASE Spawn(s)
    <3>1. /\ start'[s] = "returned" /\ start[s] = "spawn"
          /\ task'[s] = "running" /\ \A r \in Starts \ {s} : task'[r] = task[r]
          /\ UNCHANGED <<isRunning, stopTx, signal, goodbye>>
      BY <2>6 DEF Spawn, TypeOK
    <3>2. Up(s)'
      BY <2>1, <3>1 DEF Shown, Up
    <3> QED
      BY <2>2, <3>1, <3>2 DEF Shown, Starting
  <2> QED
    BY <1>2, <2>4, <2>5, <2>6 DEF StartStep
<1>3. ASSUME NEW s \in Starts, TaskStep(s) PROVE Shown'
  <2>1. /\ start' = start /\ stop' = stop /\ goodbye' = goodbye
        /\ task[s] \in {"running", "cleanup"}
        /\ \A r \in Starts \ {s} : task'[r] = task[r] /\ signal'[r] = signal[r]
        /\ \/ UNCHANGED <<isRunning, stopTx>> /\ (signal[s] \/ goodbye[s] \/ ~Held(s))
           \/ task'[s] = "ended" /\ task[s] = "cleanup" /\ isRunning' = FALSE /\ stopTx' = None
    BY <1>3 DEF TaskStep, StopSeen, GoodbyeSeen, Cleanup, TypeOK
  <2>2. ASSUME ~Stopping PROVE Shown'
    <3>1. \A r \in Starts : ~Starting(r)
      BY <2>1, <2>2 DEF Shown, Up, Starting, Ended, Published
    <3>2. \A r \in Starts : ~(Up(r) /\ task[r] \in {"running", "hung"})
      BY <2>1 DEF Up, Held, Ended
    <3>3. Down
      BY <2>2, <3>1, <3>2 DEF Shown
    <3>4. Down'
      BY <2>1, <3>3 DEF Down
    <3> QED
      BY <2>1, <3>1, <3>4 DEF Shown, Starting
  <2> QED
    BY <2>1, <2>2 DEF Shown, Stopping
<1>4. ASSUME NEW s \in Starts, Hang(s) PROVE Shown'
  <2>1. /\ UNCHANGED <<start, stop, goodbye, signal, isRunning, stopTx>>
        /\ task[s] \in {"running", "cleanup"} /\ task'[s] = "hung"
        /\ \A r \in Starts \ {s} : task'[r] = task[r]
    BY <1>4 DEF Hang, TypeOK
  <2>2. ASSUME ~Stopping PROVE Shown'
    <3>1. \A r \in Starts : ~Starting(r)
      BY <2>1, <2>2 DEF Shown, Up, Starting, Ended, Published
    <3>2. ASSUME NEW r \in Starts, Up(r), task[r] \in {"running", "hung"}
          PROVE  Up(r)' /\ task'[r] \in {"running", "hung"}
      BY <2>1, <3>2 DEF Up, Ended
    <3>3. Down => Down'
      BY <2>1 DEF Down
    <3> QED
      BY <2>1, <2>2, <3>1, <3>2, <3>3 DEF Shown, Starting
  <2> QED
    BY <2>1, <2>2 DEF Shown, Stopping
<1>5. ASSUME NEW c \in Stops, StopBegin(c) PROVE Shown'
  <2>1. stop'[c].at \in {"signal", "halt"}
    BY <1>5 DEF StopBegin, TypeOK
  <2> QED
    BY <2>1 DEF Shown, Stopping
<1>6. ASSUME NEW c \in Stops, Halt(c) \/ Signal(c) PROVE Shown'
  <2>1. stop'[c].at \in {"signal", "wait"}
    <3>1. stop \in [Stops -> Line]
      BY DEF TypeOK, Line
    <3> QED
      BY <1>6, <3>1 DEF Halt, Signal, Line
  <2> QED
    BY <2>1 DEF Shown, Stopping
<1>7. ASSUME NEW c \in Stops, Clear(c) PROVE Shown'
  <2>1. InFlight(c) /\ start' = start /\ Down'
    BY <1>7 DEF Clear, InFlight, Down
  <2>2. \A s \in Starts : ~Starting(s)'
    BY <2>1 DEF OneCall, Starting
  <2> QED
    BY <2>1, <2>2 DEF Shown, Starting
<1>8. CASE \/ \E s \in Starts : LoopStep(s) \/ LoopBlocks(s) \/ LoopFails(s)
           \/ UNCHANGED vars
  <2>1. UNCHANGED <<isRunning, stopTx, start, task, goodbye, signal, stop>>
    BY <1>8 DEF LoopStep, Run, LoopEnds, LoopBlocks, LoopFails, vars
  <2> QED
    BY <2>1 DEF Shown, Stopping, Starting, Down, Up
<1> QED
  BY <1>1, <1>2, <1>3, <1>4, <1>5, <1>6, <1>7, <1>8 DEF Next, StopStep

\* What is orderly has always been.
LEMMA OrderlyBefore == [Next]_vars /\ orderly' => orderly
<1> SUFFICES ASSUME [Next]_vars, orderly' PROVE orderly
  OBVIOUS
<1>1. CASE \E s \in Starts : \/ StartCheck(s) \/ StartStep(s) \/ TaskStep(s)
                            \/ Hang(s)
  BY <1>1 DEF StartCheck, StartStep, Bind, Publish, Spawn, TaskStep, StopSeen,
              GoodbyeSeen, Cleanup, Hang
<1>2. CASE \E s \in Starts : LoopStep(s) \/ LoopBlocks(s) \/ LoopFails(s)
  BY <1>2 DEF LoopStep, Run, LoopEnds, LoopBlocks, LoopFails
<1>3. CASE \E c \in Stops : StopBegin(c) \/ StopStep(c)
  BY <1>3 DEF StopBegin, StopStep, Halt, Signal, Clear
<1>4. CASE UNCHANGED vars
  BY <1>4 DEF vars
<1> QED
  BY <1>1, <1>2, <1>3, <1>4 DEF Next

\* StudioInv holds of every reachable state of the commands and tasks.
THEOREM StudioInductive == Spec => []StudioInv
<1>1. Init => StudioInv
  <2> SUFFICES ASSUME Init PROVE StudioInv
    OBVIOUS
  <2>1. TypeOK
    BY DEF Init, TypeOK, StopAt
  <2>2. Published
    BY DEF Init, Published, Unknown, StopAt, Starts
  <2>3. OneCall /\ Shown
    BY DEF Init, OneCall, Shown, Starting, InFlight, Down, StopAt
  <2> QED
    BY <2>1, <2>2, <2>3 DEF StudioInv
<1>2. StudioInv /\ [Next]_vars => StudioInv'
  BY StudioTypeStep, PublishedStep, OneCallStep, ShownStep, OrderlyBefore DEF StudioInv
<1> QED
  BY <1>1, <1>2, PTL DEF Spec

\* The variables of the commands and tasks keep their types (start_sender,
\* stop_sender, start_receiver, stop_receiver).
THEOREM CommandsTypeCorrect == Spec => []TypeOK
<1>1. StudioInv => TypeOK
  BY DEF StudioInv
<1> QED
  BY <1>1, StudioInductive, PTL

\* While each call waits for what went before it, the service is shown as
\* running exactly when there is a task at work that a stop would reach
\* (is_running and stop_tx, which starts, stops and tasks all write).
THEOREM ShownIsTrueHolds == Spec => []ShownIsTrue
<1>1. StudioInv => ShownIsTrue
  <2> SUFFICES ASSUME StudioInv, orderly, ~Stopping, \A s \in Starts : ~Starting(s)
               PROVE  isRunning <=> \E s \in Starts : /\ task[s] \in {"running", "hung"}
                                                      /\ stopTx = s /\ ~signal[s]
    BY DEF ShownIsTrue
  <2>1. Down \/ \E s \in Starts : Up(s) /\ task[s] \in {"running", "hung"}
    BY DEF StudioInv, Shown
  <2>2. None \notin Starts
    BY DEF Starts
  <2> QED
    BY <2>1, <2>2 DEF Down, Up
<1> QED
  BY <1>1, StudioInductive, PTL

-----------------------------------------------------------------------------
(* A sending task                                                          *)

HIDE StudioAssumption
USE StreamingAssumption

(* Arithmetic of the tickers                                               *)

\* A video frame's time stamp goes on by at least the whole milliseconds of
\* its ticker.
LEMMA Periods ==
    /\ FrameMs \in Nat /\ FramePts \in Nat /\ Rounding \in Nat
    /\ FramePts = 1000 * FrameMs + Rounding
<1> DEFINE q == 1000 \div Fps
           r == 1000000 \div Fps
<1>1. Fps \in Nat /\ Fps > 0
  OBVIOUS
<1>2. q \in Nat /\ r \in Nat
  BY <1>1
<1>3. Fps * q <= 1000
  BY <1>1
<1>4. 1000000 < Fps * (r + 1)
  BY <1>1
<1>5. 1000 * q <= r
  <2>1. SUFFICES ASSUME 1000 * q > r PROVE FALSE
    BY <1>2
  <2>2. 1000 * q >= r + 1
    BY <1>2, <2>1
  <2>3. Fps * (1000 * q) >= Fps * (r + 1)
    BY <1>1, <1>2, <2>2
  <2>4. Fps * (1000 * q) = 1000 * (Fps * q)
    BY <1>1, <1>2
  <2>5. QED
    BY <1>1, <1>2, <1>3, <1>4, <2>3, <2>4
<1>6. QED
  BY <1>2, <1>5 DEF FrameMs, FramePts, Rounding

\* The rounding of one frame more.
LEMMA OneMore ==
    ASSUME NEW n \in Nat
    PROVE  n * Rounding \in Nat /\ (n + 1) * Rounding = n * Rounding + Rounding
<1>1. \A k \in Nat : n * k \in Nat /\ (n + 1) * k = n * k + k
  OBVIOUS
<1>2. QED
  BY <1>1, Periods

-----------------------------------------------------------------------------
(* Types                                                                   *)

\* StreamingTypeOK in three parts, each proved on its own.
Flags ==
    /\ stopping \in BOOLEAN /\ silent \in BOOLEAN /\ filming \in BOOLEAN
    /\ frames \in BOOLEAN /\ latest \in BOOLEAN /\ recording \in BOOLEAN

Points ==
    /\ at \in {"camera", "microphone", "loop", "drop", "join", "close", "closed"}
    /\ video \in {"camera", "pattern"} /\ audio \in {"microphone", "tone"}
    /\ camera \in {"none", "check", "read", "kill", "ended"}
    /\ ffmpeg \in {"none", "alive", "dead", "reaped"}
    /\ microphone \in {"none", "running", "ended"}

Counts ==
    /\ {chunks, buffer, now, videoPts, audioPts, sent} \subseteq Nat
    /\ due \in [{"video", "audio"} -> Nat]

\* The types, part by part.
LEMMA StreamingParts == StreamingTypeOK <=> Flags /\ Points /\ Counts
BY DEF StreamingTypeOK, Flags, Points, Counts

\* A sending task begins with its types right.
LEMMA StreamingInitTypes == StreamingInit => StreamingTypeOK
<1>1. StreamingInit => Flags
  BY DEF StreamingInit, Flags
<1>2. StreamingInit => Points
  BY DEF StreamingInit, Points
<1>3. StreamingInit => Counts
  BY DEF StreamingInit, Counts
<1>4. QED
  BY <1>1, <1>2, <1>3, StreamingParts

\* Every step keeps the flags boolean.
LEMMA StreamingFlagsStep == Flags /\ Points /\ [StreamingNext]_streamingVars => Flags'
<1> SUFFICES ASSUME Flags, Points, [StreamingNext]_streamingVars
             PROVE  Flags'
  OBVIOUS
<1> USE DEF Flags, devices
<1>1. CASE StartCamera
  BY <1>1 DEF StartCamera, OpenCamera
<1>2. CASE StartMicrophone
  BY <1>2 DEF StartMicrophone, OpenMicrophone
<1>3. CASE LoopStops \/ DropCamera \/ Join \/ Close
  BY <1>3 DEF LoopStops, DropCamera, Join, Close
<1>4. CASE CameraThread \/ CameraFails
  BY <1>4 DEF CameraThread, CameraCheck, CameraRead, CameraKill, CameraFails
<1>5. CASE Record \/ MicrophoneEnds \/ TakeFrame \/ TakeSamples
  BY <1>5 DEF Record, MicrophoneEnds, TakeFrame, TakeSamples
<1>6. CASE VideoTick \/ AudioTick \/ Pass \/ Stop
  BY <1>6 DEF VideoTick, AudioTick, Pass, Stop
<1>7. CASE UNCHANGED streamingVars
  BY <1>7 DEF streamingVars
<1>8. QED
  BY <1>1, <1>2, <1>3, <1>4, <1>5, <1>6, <1>7 DEF StreamingNext, TaskGoesOn

\* Every step moves threads and task between the points they have.
LEMMA StreamingPointsStep == Points /\ [StreamingNext]_streamingVars => Points'
<1> SUFFICES ASSUME Points, [StreamingNext]_streamingVars
             PROVE  Points'
  OBVIOUS
<1> USE DEF Points, devices
<1>1. CASE StartCamera
  BY <1>1 DEF StartCamera, OpenCamera
<1>2. CASE StartMicrophone
  BY <1>2 DEF StartMicrophone, OpenMicrophone
<1>3. CASE LoopStops \/ DropCamera \/ Join \/ Close
  BY <1>3 DEF LoopStops, DropCamera, Join, Close
<1>4. CASE CameraThread \/ CameraFails
  BY <1>4 DEF CameraThread, CameraCheck, CameraRead, CameraKill, CameraFails
<1>5. CASE Record \/ MicrophoneEnds \/ TakeFrame \/ TakeSamples
  BY <1>5 DEF Record, MicrophoneEnds, TakeFrame, TakeSamples
<1>6. CASE VideoTick \/ AudioTick \/ Pass \/ Stop
  BY <1>6 DEF VideoTick, AudioTick, Pass, Stop
<1>7. CASE UNCHANGED streamingVars
  BY <1>7 DEF streamingVars
<1>8. QED
  BY <1>1, <1>2, <1>3, <1>4, <1>5, <1>6, <1>7 DEF StreamingNext, TaskGoesOn

\* Every step keeps counters and time stamps natural numbers.
LEMMA StreamingCountsStep == Counts /\ [StreamingNext]_streamingVars => Counts'
<1> SUFFICES ASSUME Counts, [StreamingNext]_streamingVars
             PROVE  Counts'
  OBVIOUS
<1> USE DEF Counts, devices, clocks
<1>1. CASE TaskGoesOn
  BY <1>1 DEF TaskGoesOn, StartCamera, StartMicrophone, LoopStops, DropCamera, Join,
              Close
<1>2. CASE CameraThread \/ CameraFails \/ MicrophoneEnds \/ TakeFrame \/ Stop
  BY <1>2 DEF CameraThread, CameraFails, MicrophoneEnds, TakeFrame, Stop
<1>3. CASE Record \/ TakeSamples
  BY <1>3 DEF Record, TakeSamples
<1>4. CASE VideoTick
  <2>1. due' \in [{"video", "audio"} -> Nat]
    BY <1>4, Periods DEF VideoTick, Ticked
  <2>2. videoPts' \in Nat /\ sent' \in Nat
    BY <1>4, Periods DEF VideoTick
  <2>3. QED
    BY <1>4, <2>1, <2>2 DEF VideoTick
<1>5. CASE AudioTick
  <2>1. due' \in [{"video", "audio"} -> Nat]
    BY <1>5 DEF AudioTick, Ticked, AudioMs
  <2>2. audioPts' \in Nat /\ buffer' \in Nat
    BY <1>5 DEF AudioTick, AudioPts
  <2>3. QED
    BY <1>5, <2>1, <2>2 DEF AudioTick
<1>6. CASE Pass
  <2>1. now' \in Nat
    BY <1>6, Periods DEF Pass, AudioMs
  <2>2. QED
    BY <1>6, <2>1 DEF Pass
<1>7. CASE UNCHANGED streamingVars
  BY <1>7 DEF streamingVars
<1>8. QED
  BY <1>1, <1>2, <1>3, <1>4, <1>5, <1>6, <1>7 DEF StreamingNext

\* Every step of a sending task keeps its types.
LEMMA StreamingTypeStep ==
    StreamingTypeOK /\ [StreamingNext]_streamingVars => StreamingTypeOK'
<1>1. StreamingTypeOK' <=> Flags' /\ Points' /\ Counts'
  BY DEF StreamingTypeOK, Flags, Points, Counts
<1>2. QED
  BY <1>1, StreamingParts, StreamingFlagsStep, StreamingPointsStep, StreamingCountsStep

\* The variables of the sending task and its devices keep their types; counts
\* of samples never go below zero.
THEOREM StreamingTypeCorrect == StreamingSpec => []StreamingTypeOK
BY StreamingInitTypes, StreamingTypeStep, PTL DEF StreamingSpec

-----------------------------------------------------------------------------
(* The camera                                                              *)

\* ffmpeg is there from the start of the camera's thread to its end, and a
\* task that is past the join has no thread.
Lifecycle ==
    /\ at = "camera" => camera = "none"
    /\ camera = "none" <=> ffmpeg = "none"
    /\ camera = "ended" <=> ffmpeg = "reaped"
    /\ at \in {"close", "closed"} => camera \in {"none", "ended"}

\* Every step keeps thread, child and task in step.
LEMMA LifecycleStep ==
    StreamingTypeOK /\ Lifecycle /\ [StreamingNext]_streamingVars => Lifecycle'
<1> SUFFICES ASSUME StreamingTypeOK, Lifecycle, [StreamingNext]_streamingVars
             PROVE  Lifecycle'
  OBVIOUS
<1> USE DEF Lifecycle
<1>1. CASE StartCamera
  BY <1>1 DEF StartCamera, OpenCamera
<1>2. CASE TaskGoesOn /\ ~StartCamera
  BY <1>2 DEF TaskGoesOn, StartMicrophone, OpenMicrophone, LoopStops, DropCamera,
              Join, Close, devices
<1>3. CASE CameraThread
  <2>1. CASE CameraCheck
    BY <1>3, <2>1 DEF CameraThread, CameraCheck
  <2>2. CASE CameraRead
    BY <1>3, <2>2 DEF CameraThread, CameraRead
  <2>3. CASE CameraKill
    BY <1>3, <2>3 DEF CameraThread, CameraKill
  <2>4. QED
    BY <1>3, <2>1, <2>2, <2>3 DEF CameraThread
<1>4. CASE CameraFails
  BY <1>4 DEF CameraFails
<1>5. CASE UNCHANGED <<at, camera, ffmpeg>>
  BY <1>5
<1>6. ASSUME Record \/ MicrophoneEnds \/ TakeFrame \/ TakeSamples \/ VideoTick
             \/ AudioTick \/ Pass \/ Stop
      PROVE  UNCHANGED <<at, camera, ffmpeg>>
  BY <1>6 DEF Record, MicrophoneEnds, TakeFrame, TakeSamples, VideoTick, AudioTick,
              Pass, Stop, devices
<1>7. UNCHANGED streamingVars => UNCHANGED <<at, camera, ffmpeg>>
  BY DEF streamingVars, devices
<1>8. QED
  BY <1>1, <1>2, <1>3, <1>4, <1>5, <1>6, <1>7 DEF StreamingNext

\* A task that is through has left no ffmpeg process (CameraReleased), however
\* its camera ended.
THEOREM CameraReleasedHolds == StreamingSpec => []CameraReleased
<1>1. StreamingInit => StreamingTypeOK /\ Lifecycle
  BY StreamingInitTypes DEF StreamingInit, Lifecycle
<1>2. StreamingTypeOK /\ Lifecycle => CameraReleased
  BY DEF StreamingTypeOK, Lifecycle, CameraReleased
<1>3. QED
  BY <1>1, <1>2, StreamingTypeStep, LifecycleStep, PTL DEF StreamingSpec

-----------------------------------------------------------------------------
(* Time stamps                                                             *)

\* Each time stamp against its ticker, and each ticker against the time.  The
\* test sources miss no tick.
Clocks ==
    /\ at \in {"camera", "microphone"} =>
           due.video = 0 /\ due.audio = 0 /\ videoPts = 0 /\ audioPts = 0
    /\ videoPts <= 1000 * due.video + sent * Rounding
    /\ audioPts <= 1000 * due.audio
    /\ due.video <= now + FrameMs /\ due.audio <= now + AudioMs
    /\ at = "loop" /\ video = "pattern" => videoPts >= 1000 * due.video
    /\ at = "loop" /\ audio = "tone" => audioPts >= 1000 * due.audio

\* Every step keeps the time stamps close to the time.
LEMMA ClocksStep ==
    StreamingTypeOK /\ Clocks /\ [StreamingNext]_streamingVars => Clocks'
<1> SUFFICES ASSUME StreamingTypeOK, Clocks, [StreamingNext]_streamingVars
             PROVE  Clocks'
  OBVIOUS
<1> DEFINE slack == sent * Rounding
<1>1. /\ {now, videoPts, audioPts, sent, due.video, due.audio} \subseteq Nat
      /\ slack \in Nat
  BY OneMore DEF StreamingTypeOK
<1>2. CASE VideoTick
  <2>1. /\ due'.video = due.video + FrameMs /\ due'.audio = due.audio
        /\ due.video <= now
        /\ UNCHANGED <<at, video, audio, now, audioPts>>
    BY <1>2 DEF VideoTick, Ticked, StreamingTypeOK
  <2>2. /\ \/ videoPts' = videoPts /\ slack' = slack /\ video = "camera"
           \/ videoPts' = videoPts + FramePts /\ slack' = slack + Rounding
    <3>1. Rounding' = Rounding
      BY DEF Rounding, FramePts, FrameMs
    <3>2. (sent + 1) * Rounding = slack + Rounding
      BY <1>1, OneMore
    <3>3. QED
      BY <1>2, <3>1, <3>2 DEF VideoTick
  <2>3. at = "loop"
    BY <1>2 DEF VideoTick
  <2> HIDE DEF slack
  <2>4. /\ videoPts' <= 1000 * due'.video + slack'
        /\ due'.video <= now' + FrameMs
        /\ video' = "pattern" => videoPts' >= 1000 * due'.video
    <3>1. videoPts <= 1000 * due.video + slack
      BY DEF Clocks, slack
    <3>2. video = "pattern" => videoPts >= 1000 * due.video
      BY <2>3 DEF Clocks
    <3>3. QED
      BY <1>1, <2>1, <2>2, <3>1, <3>2, Periods
  <2>5. UNCHANGED <<FrameMs, AudioMs>>
    BY DEF FrameMs, AudioMs
  <2>6. QED
    BY <2>1, <2>3, <2>4, <2>5 DEF Clocks, slack
<1>3. CASE AudioTick
  <2>1. /\ due'.audio = due.audio + AudioMs /\ due'.video = due.video
        /\ due.audio <= now
        /\ UNCHANGED <<at, video, audio, now, videoPts, sent>>
    BY <1>3 DEF AudioTick, Ticked, StreamingTypeOK
  <2>2. \/ audioPts' = audioPts /\ audio # "tone"
        \/ audioPts' = audioPts + AudioPts
    BY <1>3 DEF AudioTick
  <2>3. at = "loop"
    BY <1>3 DEF AudioTick
  <2>4. /\ audioPts' <= 1000 * due'.audio
        /\ due'.audio <= now' + AudioMs
        /\ audio' = "tone" => audioPts' >= 1000 * due'.audio
    BY <1>1, <2>1, <2>2, <2>3 DEF Clocks, AudioMs, AudioPts
  <2>5. UNCHANGED <<FrameMs, AudioMs, Rounding>>
    BY DEF FrameMs, AudioMs, Rounding, FramePts
  <2>6. QED
    BY <2>1, <2>3, <2>4, <2>5 DEF Clocks
<1>4. CASE Pass
  <2>1. /\ UNCHANGED <<at, video, audio, due, videoPts, audioPts, sent>>
        /\ now' \in Int /\ now < now'
    BY <1>1, <1>4, Periods DEF Pass, AudioMs
  <2>2. /\ due'.video <= now' + FrameMs /\ due'.audio <= now' + AudioMs
    BY <1>1, <2>1, Periods DEF Clocks, AudioMs
  <2>3. UNCHANGED <<FrameMs, AudioMs, Rounding>>
    BY DEF FrameMs, AudioMs, Rounding, FramePts
  <2>4. QED
    BY <2>1, <2>2, <2>3 DEF Clocks
<1>5. ASSUME UNCHANGED <<now, due, videoPts, audioPts, sent>>,
             at' = "loop" => \/ at = "loop" /\ UNCHANGED <<video, audio>>
                             \/ at = "microphone",
             at' \in {"camera", "microphone"} => at \in {"camera", "microphone"}
      PROVE  Clocks'
  BY <1>1, <1>5 DEF Clocks, FrameMs, AudioMs, Rounding, FramePts
<1>6. CASE TaskGoesOn
  BY <1>5, <1>6 DEF TaskGoesOn, StartCamera, StartMicrophone, LoopStops, DropCamera,
                    Join, Close, clocks
<1>7. CASE CameraThread \/ CameraFails \/ Record \/ MicrophoneEnds
  BY <1>5, <1>7 DEF CameraThread, CameraFails, Record, MicrophoneEnds, clocks
<1>8. CASE TakeFrame \/ TakeSamples \/ Stop \/ UNCHANGED streamingVars
  BY <1>5, <1>8 DEF TakeFrame, TakeSamples, Stop, streamingVars, clocks
<1>9. QED
  BY <1>2, <1>3, <1>4, <1>6, <1>7, <1>8 DEF StreamingNext

\* The time stamps of video and audio follow the loop's clock up to a frame and
\* the rounding of each (StampsFollowTime), for every frame rate, whatever ticks
\* are late.
THEOREM StampsFollowTimeHolds == StreamingSpec => []StampsFollowTime
<1>1. StreamingInit => StreamingTypeOK /\ Clocks
  <2> SUFFICES ASSUME StreamingInit PROVE StreamingTypeOK /\ Clocks
    OBVIOUS
  <2>1. StreamingTypeOK
    BY StreamingInitTypes
  <2>2. Clocks
    BY Periods, OneMore DEF StreamingInit, Clocks, AudioMs
  <2>3. QED
    BY <2>1, <2>2
<1>2. StreamingTypeOK /\ Clocks => StampsFollowTime
  <2> SUFFICES ASSUME StreamingTypeOK, Clocks PROVE StampsFollowTime
    OBVIOUS
  <2> DEFINE slack == sent * Rounding
  <2>1. /\ {now, videoPts, audioPts, due.video, due.audio} \subseteq Nat
        /\ slack \in Nat
    BY OneMore DEF StreamingTypeOK
  <2>2. videoPts <= 1000 * due.video + slack
    BY DEF Clocks
  <2> HIDE DEF slack
  <2>3. /\ videoPts <= 1000 * now + FramePts + slack
        /\ audioPts <= 1000 * now + AudioPts
    BY <2>1, <2>2, Periods DEF Clocks, AudioMs, AudioPts
  <2>4. at = "loop" /\ CaughtUp =>
            /\ video = "pattern" => videoPts > 1000 * now
            /\ audio = "tone" => audioPts > 1000 * now
    BY <2>1 DEF Clocks, CaughtUp
  <2>5. QED
    BY <2>3, <2>4 DEF StampsFollowTime, slack
<1>3. QED
  BY <1>1, <1>2, StreamingTypeStep, ClocksStep, PTL DEF StreamingSpec

-----------------------------------------------------------------------------
(* The composition                                                         *)

\* Side by side in MCDesktop the studio's commands, a sending task, the admin's
\* server process and its console do what each does alone.
THEOREM DesktopComposes ==
    DesktopSpec => Spec /\ StreamingSpec /\ SidecarSpec /\ ConsoleSpec
<1>1. DesktopInit => Init /\ StreamingInit /\ SidecarInit /\ ConsoleInit
  BY DEF DesktopInit
<1>2. [DesktopNext]_<<part, vars, streamingVars, sidecarVars, consoleVars>> =>
          /\ [Next]_vars /\ [StreamingNext]_streamingVars
          /\ [SidecarNext]_sidecarVars /\ [ConsoleNext]_consoleVars
  BY DEF DesktopNext
<1> QED
  BY <1>1, <1>2, PTL DEF DesktopSpec, Spec, StreamingSpec, SidecarSpec, ConsoleSpec

\* The types of the commands and of the sending task (sender.rs, receiver.rs,
\* capture.rs).
THEOREM StudioTypeCorrect == DesktopSpec => []StudioTypeOK
<1>1. TypeOK /\ StreamingTypeOK => StudioTypeOK
  BY DEF StudioTypeOK
<1> QED
  BY <1>1, DesktopComposes, CommandsTypeCorrect, StreamingTypeCorrect, PTL
=============================================================================
