---------------------------- MODULE JitterBuffer ----------------------------
(***************************************************************************)
(* The playback buffer of sync/buffer.rs: frames kept by their timestamp,  *)
(* inserted in the order the network delivers them and taken out by a      *)
(* player that asks for the frame of a given time.  A frame is its pts.    *)
(***************************************************************************)
EXTENDS Naturals, FiniteSets, FiniteSetsExt

CONSTANTS
    MaxPts,       \* bound: the largest timestamp
    MaxReceived,  \* bound: frames received
    MaxFrames,    \* config.max_frames
    TargetDepth,  \* config.target_depth_us
    MinDepth,     \* config.min_depth_us
    None          \* Option::None

ASSUME JitterBufferAssumption ==
    /\ MaxPts \in Nat /\ MaxReceived \in Nat
    /\ MaxFrames \in Nat
    /\ TargetDepth \in Nat /\ MinDepth \in Nat
    /\ None \notin Nat

Pts == 0..MaxPts

VARIABLES
    frames,      \* the timestamps buffered
    state,       \* JitterBuffer::state
    lastOutput,  \* last_output_pts
    stats,       \* BufferStats
    shown,       \* history: the frame get_next returned last, since clear
    exact        \* history: no frame was replaced by one of the same pts, and
                 \* the buffer was never cleared

vars == <<frames, state, lastOutput, stats, shown, exact>>

BufferStates == {"Filling", "Ready", "Empty"}

TypeOK ==
    /\ frames \subseteq Pts
    /\ state \in BufferStates
    /\ lastOutput \in Pts \cup {None}
    /\ stats \in [received : 0..MaxReceived, output : Nat, late : Nat,
                  overflow : Nat, underruns : Nat]
    /\ shown \in Pts \cup {None}
    /\ exact \in BOOLEAN

Init ==
    /\ frames = {}
    /\ state = "Filling"
    /\ lastOutput = None
    /\ stats = [received |-> 0, output |-> 0, late |-> 0, overflow |-> 0,
                underruns |-> 0]
    /\ shown = None
    /\ exact = TRUE

-----------------------------------------------------------------------------
\* depth_us: the time between the first and the last frame buffered.
Depth(buffered) == IF buffered = {} THEN 0 ELSE Max(buffered) - Min(buffered)

\* Mutant: playback starts at the minimum depth.
StateAfterMinDepth(buffered) ==
    CASE state = "Filling" /\ Depth(buffered) >= MinDepth -> "Ready"
      [] state = "Ready" /\ buffered = {} -> "Empty"
      [] state = "Empty" /\ Depth(buffered) >= MinDepth -> "Ready"
      [] state = "Empty" /\ Depth(buffered) < MinDepth /\ buffered # {} -> "Filling"
      [] OTHER -> state

\* update_state, for the frames now buffered.
StateAfter(buffered) ==
    CASE state = "Filling" /\ Depth(buffered) >= TargetDepth -> "Ready"
      [] state = "Ready" /\ buffered = {} -> "Empty"
      [] state = "Empty" /\ Depth(buffered) >= MinDepth -> "Ready"
      [] state = "Empty" /\ Depth(buffered) < MinDepth /\ buffered # {} -> "Filling"
      [] OTHER -> state

UnderrunAfter(buffered) ==
    IF state = "Ready" /\ buffered = {} THEN 1 ELSE 0

-----------------------------------------------------------------------------
\* Mutant: every frame is taken in.
TooOldNever(pts) == FALSE

TooOld(pts) == lastOutput # None /\ pts < lastOutput

\* insert of a frame that is older than the last one played.
InsertLate(pts) ==
    /\ stats.received < MaxReceived
    /\ TooOld(pts)
    /\ stats' = [stats EXCEPT !.received = @ + 1, !.late = @ + 1]
    /\ UNCHANGED <<frames, state, lastOutput, shown, exact>>

\* insert otherwise: a full buffer loses its oldest frame, also when the new
\* frame only takes the place of one with its timestamp.
Insert(pts) ==
    /\ stats.received < MaxReceived
    /\ ~TooOld(pts)
    /\ LET full == Cardinality(frames) >= MaxFrames /\ frames # {}
           kept == IF full THEN frames \ {Min(frames)} ELSE frames
       IN  /\ frames' = kept \cup {pts}
           /\ stats' = [stats EXCEPT !.received = @ + 1,
                                     !.overflow = @ + (IF full THEN 1 ELSE 0)]
           /\ state' = StateAfter(kept \cup {pts})
           /\ exact' = (exact /\ pts \notin kept)
    /\ UNCHANGED <<lastOutput, shown>>

\* Mutant: both the first and the last frame due are left out of the dropped.
GetNextUnderflow(currentPts) ==
    /\ state = "Ready"
    /\ LET due  == {f \in frames : f <= currentPts}
           rest == frames \ due
       IN  /\ due # {}
           /\ frames' = rest
           /\ lastOutput' = Min(due)
           /\ shown' = Max(due)
           /\ stats' = [stats EXCEPT !.output = @ + 1,
                                     !.late = @ + Cardinality(due) - 2,
                                     !.underruns = @ + UnderrunAfter(rest)]
           /\ state' = StateAfter(rest)
    /\ UNCHANGED exact

\* get_next: of the frames that are due the latest is returned; the register
\* keeps the timestamp of the earliest.
GetNext(currentPts) ==
    /\ state = "Ready"
    /\ LET due  == {f \in frames : f <= currentPts}
           rest == frames \ due
       IN  /\ due # {}
           /\ frames' = rest
           /\ lastOutput' = Min(due)
           /\ shown' = Max(due)
           /\ stats' = [stats EXCEPT !.output = @ + 1,
                                     !.late = @ + Cardinality(due) - 1,
                                     !.underruns = @ + UnderrunAfter(rest)]
           /\ state' = StateAfter(rest)
    /\ UNCHANGED exact

Clear ==
    /\ frames' = {}
    /\ state' = "Filling"
    /\ lastOutput' = None
    /\ shown' = None
    /\ exact' = FALSE
    /\ UNCHANGED stats

Next ==
    \/ \E pts \in Pts : InsertLate(pts) \/ Insert(pts) \/ GetNext(pts)
    \/ Clear

Spec == Init /\ [][Next]_vars

-----------------------------------------------------------------------------
(* Properties                                                              *)

\* The state a player sees fits the frames: Ready promises at least one
\* frame, Empty has none, and a buffer that is Filling has not reached the
\* depth it waits for, if it waits for any.
StateFitsFrames ==
    /\ state = "Ready" => frames # {}
    /\ state = "Empty" => frames = {}
    /\ state = "Filling" /\ TargetDepth > 0 => Depth(frames) < TargetDepth

\* Late frames never get in: everything buffered is at or after the register
\* insert compares with, whatever the order of arrivals, evictions and reads.
NothingBufferedIsLate ==
    lastOutput # None => \A f \in frames : f >= lastOutput

\* The statistics account for every frame received: until a frame of the
\* same timestamp is replaced or the buffer cleared, each frame is buffered,
\* played, late or evicted, exactly one of them; after that none is counted
\* twice.
StatsAccount ==
    LET counted == stats.output + stats.late + stats.overflow
                       + Cardinality(frames)
    IN  /\ counted <= stats.received
        /\ exact => counted = stats.received

\* After an underrun playback resumes only when the whole target depth is
\* buffered again, in spite of any smaller min_depth_us: a single frame ends
\* Empty, and from Filling only the target leads to Ready.  Only a min_depth_us
\* of 0 lets the single frame through.
ResumesAtTarget ==
    [][state # "Ready" /\ state' = "Ready" =>
           Depth(frames') >= TargetDepth \/ (state = "Empty" /\ MinDepth = 0)]_vars

\* A cleared buffer takes any frame again, and only clear forgets what was
\* played: the register never goes back otherwise.
RegisterAdvances ==
    [][lastOutput # None => \/ lastOutput' # None /\ lastOutput' >= lastOutput
                            \/ frames' = {} /\ state' = "Filling"]_vars

\* buffer.rs, insert: "Drop if too old".  Playback never steps back: a frame
\* older than the one last returned is not returned any more.
PlaybackAdvances ==
    [][shown # None /\ shown' # None => shown' >= shown]_vars
=============================================================================
