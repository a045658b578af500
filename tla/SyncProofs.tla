----------------------------- MODULE SyncProofs -----------------------------
(***************************************************************************)
(* Proofs about the two parts of the library's sync module - the playback  *)
(* buffer, for any capacity, depths and timestamps, and the clock, for any *)
(* number of samples and any delays and losses - and about the library's   *)
(* parts side by side.                                                     *)
(***************************************************************************)
EXTENDS MCLibrary, TransportProofs, CodecProofs

-----------------------------------------------------------------------------
(* The first and the last timestamp of a set of frames.                    *)

\* Min returns the earliest frame of a buffer that is not empty.
LEMMA EarliestFrame ==
  ASSUME NEW S \in SUBSET Pts, S # {}
  PROVE  Min(S) \in S /\ \A f \in S : Min(S) <= f
<1>1. S \subseteq Nat
  BY JitterBufferAssumption DEF Pts
<1>2. \E x \in S : \A y \in S : x <= y
  BY <1>1, LeastExists
<1>3. QED
  BY <1>2 DEF Min

\* Max returns the latest one: the least distance from MaxPts.
LEMMA LatestFrame ==
  ASSUME NEW S \in SUBSET Pts, S # {}
  PROVE  Max(S) \in S /\ \A f \in S : Max(S) >= f
<1> DEFINE Distances == {d \in Nat : \E f \in S : d = MaxPts - f}
<1>1. \A f \in S : f \in Nat /\ MaxPts - f \in Distances
  BY JitterBufferAssumption DEF Pts
<1>2. PICK d \in Distances : \A e \in Distances : d <= e
  <2>1. Distances \subseteq Nat /\ Distances # {}
    BY <1>1
  <2> HIDE DEF Distances
  <2>2. QED
    BY <2>1, LeastExists
<1>3. PICK x \in S : d = MaxPts - x
  BY <1>2
<1>4. ASSUME NEW f \in S PROVE x >= f
  <2>1. MaxPts - x <= MaxPts - f
    BY <1>1, <1>2, <1>3
  <2>2. QED
    BY <2>1, <1>1, JitterBufferAssumption
<1>5. QED
  BY <1>4 DEF Max

\* The depth of a buffer is a duration, and one of a single frame is none.
LEMMA DepthOf ==
  ASSUME NEW S \in SUBSET Pts
  PROVE  Depth(S) \in Nat /\ \A f \in Pts : Depth({f}) = 0
<1>1. Depth(S) \in Nat
  <2>1. CASE S = {}
    BY <2>1 DEF Depth
  <2>2. CASE S # {}
    <3>1. Max(S) \in Nat /\ Min(S) \in Nat /\ Min(S) <= Max(S)
      <4>1. Max(S) \in S /\ Min(S) \in S /\ \A f \in S : Min(S) <= f
        BY <2>2, EarliestFrame, LatestFrame
      <4>2. \A f \in S : f \in Nat
        BY JitterBufferAssumption DEF Pts
      <4>3. QED
        BY <4>1, <4>2
    <3>2. QED
      BY <2>2, <3>1 DEF Depth
  <2>3. QED
    BY <2>1, <2>2
<1>2. ASSUME NEW f \in Pts PROVE Depth({f}) = 0
  <2>1. Max({f}) = f /\ Min({f}) = f
    BY EarliestFrame, LatestFrame
  <2>2. f \in Nat
    BY JitterBufferAssumption DEF Pts
  <2>3. QED
    BY <2>1, <2>2 DEF Depth
<1>3. QED
  BY <1>1, <1>2

\* A buffer can be counted, and so can any part of it.
LEMMA FramesAreFinite ==
  ASSUME NEW S \in SUBSET Pts
  PROVE  IsFiniteSet(S) /\ Cardinality(S) \in Nat
<1>1. IsFiniteSet(Pts)
  BY FS_Interval, JitterBufferAssumption DEF Pts
<1>2. QED
  BY <1>1, FS_Subset, FS_CardinalityType

-----------------------------------------------------------------------------
(* Type correctness.                                                       *)

\* The counters of BufferStats.
Counters == [received : 0..MaxReceived, output : Nat, late : Nat,
             overflow : Nat, underruns : Nat]

\* One step per action: each keeps every variable in its type; the count of
\* late frames stays a natural number, because some frame is due.
LEMMA TypeStep == TypeOK /\ [Next]_vars => TypeOK'
<1> SUFFICES ASSUME TypeOK, [Next]_vars PROVE TypeOK'
  OBVIOUS
<1> USE JitterBufferAssumption
<1>1. ASSUME NEW pts \in Pts, InsertLate(pts) PROVE TypeOK'
  <2>1. /\ stats' = [stats EXCEPT !.received = @ + 1, !.late = @ + 1]
        /\ stats.received < MaxReceived
    BY <1>1 DEF InsertLate
  <2>2. stats' \in Counters
    <3>1. /\ stats.received + 1 \in 0..MaxReceived
          /\ stats.late + 1 \in Nat
      BY <2>1 DEF TypeOK
    <3>2. QED
      BY <2>1, <3>1, Zenon DEF TypeOK, Counters
  <2>3. QED
    BY <1>1, <2>2 DEF InsertLate, TypeOK, Counters
<1>2. ASSUME NEW pts \in Pts, Insert(pts) PROVE TypeOK'
  <2>1. PICK full \in {0, 1} :
            stats' = [stats EXCEPT !.received = @ + 1, !.overflow = @ + full]
    BY <1>2, Zenon DEF Insert
  <2>2. stats.received < MaxReceived
    BY <1>2 DEF Insert
  <2>3. stats' \in Counters
    <3>1. /\ stats.received + 1 \in 0..MaxReceived
          /\ stats.overflow + full \in Nat
      BY <2>1, <2>2 DEF TypeOK
    <3>2. QED
      BY <2>1, <3>1, Zenon DEF TypeOK, Counters
  <2>4. state' \in BufferStates
    BY <1>2 DEF Insert, StateAfter, TypeOK, BufferStates
  <2>5. frames' \in SUBSET Pts
    BY <1>2 DEF Insert, TypeOK
  <2>6. UNCHANGED <<lastOutput, shown>> /\ exact' \in BOOLEAN
    BY <1>2 DEF Insert, TypeOK
  <2>7. QED
    BY <2>3, <2>4, <2>5, <2>6 DEF TypeOK, Counters
<1>3. ASSUME NEW pts \in Pts, GetNext(pts) PROVE TypeOK'
  <2> DEFINE due == {f \in frames : f <= pts}
  <2>1. due \in SUBSET Pts /\ due # {}
    BY <1>3 DEF GetNext, TypeOK
  <2>2. Min(due) \in Pts /\ Max(due) \in Pts
    BY <2>1, EarliestFrame, LatestFrame
  <2>3. Cardinality(due) \in Nat \ {0}
    BY <2>1, FramesAreFinite, FS_EmptySet
  <2>4. state' \in BufferStates
    BY <1>3 DEF GetNext, StateAfter, TypeOK, BufferStates
  <2>5. stats' \in Counters
    <3> DEFINE missed == UnderrunAfter(frames \ due)
    <3>1. stats' = [stats EXCEPT !.output = @ + 1,
                                 !.late = @ + Cardinality(due) - 1,
                                 !.underruns = @ + missed]
      BY <1>3, Zenon DEF GetNext
    <3>2. missed \in Nat
      BY DEF UnderrunAfter
    <3> HIDE DEF due, missed
    <3>3. /\ stats.output + 1 \in Nat
          /\ stats.late + Cardinality(due) - 1 \in Nat
          /\ stats.underruns + missed \in Nat
      BY <2>3, <3>2 DEF TypeOK
    <3>4. QED
      BY <3>1, <3>3, Zenon DEF TypeOK, Counters
  <2>6. QED
    BY <1>3, <2>2, <2>4, <2>5 DEF GetNext, TypeOK, Counters
<1>4. CASE Clear
  BY <1>4 DEF Clear, TypeOK, BufferStates
<1>5. CASE UNCHANGED vars
  BY <1>5 DEF vars, TypeOK
<1>6. QED
  BY <1>1, <1>2, <1>3, <1>4, <1>5 DEF Next

\* Every variable of the buffer keeps its type, whatever arrives and whenever
\* the player asks (JitterBuffer::insert, get_next, clear).
THEOREM TypeCorrect == Spec => []TypeOK
<1>1. Init => TypeOK
  BY JitterBufferAssumption DEF Init, TypeOK, BufferStates
<1>2. QED
  BY <1>1, TypeStep, PTL DEF Spec

-----------------------------------------------------------------------------
(* What stays buffered.                                                    *)

\* An insertion takes in only a frame that is not too old, and what get_next
\* leaves is later than the frame its register names.
LEMMA LateStep ==
  TypeOK /\ NothingBufferedIsLate /\ [Next]_vars => NothingBufferedIsLate'
<1> SUFFICES ASSUME TypeOK, NothingBufferedIsLate, [Next]_vars
             PROVE  NothingBufferedIsLate'
  OBVIOUS
<1>1. ASSUME NEW pts \in Pts, InsertLate(pts) PROVE NothingBufferedIsLate'
  BY <1>1 DEF InsertLate, NothingBufferedIsLate
<1>2. ASSUME NEW pts \in Pts, Insert(pts) PROVE NothingBufferedIsLate'
  <2>1. frames' \subseteq frames \cup {pts} /\ lastOutput' = lastOutput
    BY <1>2 DEF Insert
  <2>2. lastOutput # None => pts >= lastOutput
    BY <1>2, JitterBufferAssumption DEF Insert, TooOld, TypeOK, Pts
  <2>3. QED
    BY <2>1, <2>2 DEF NothingBufferedIsLate
<1>3. ASSUME NEW pts \in Pts, GetNext(pts) PROVE NothingBufferedIsLate'
  <2> DEFINE due == {f \in frames : f <= pts}
  <2>1. due \in SUBSET Pts /\ due # {}
    BY <1>3 DEF GetNext, TypeOK
  <2>2. Min(due) \in due
    BY <2>1, EarliestFrame
  <2>3. lastOutput' = Min(due) /\ frames' = frames \ due
    BY <1>3 DEF GetNext
  <2>4. \A f \in frames \ due, e \in due : f >= e
    BY JitterBufferAssumption DEF TypeOK, Pts
  <2> HIDE DEF due
  <2>5. QED
    BY <2>2, <2>3, <2>4 DEF NothingBufferedIsLate
<1>4. CASE Clear
  BY <1>4 DEF Clear, NothingBufferedIsLate
<1>5. CASE UNCHANGED vars
  BY <1>5 DEF vars, NothingBufferedIsLate
<1>6. QED
  BY <1>1, <1>2, <1>3, <1>4, <1>5 DEF Next

-----------------------------------------------------------------------------
(* The state.                                                              *)

\* What lets playback start with these frames.
Resumes(S) == Depth(S) >= TargetDepth \/ (state = "Empty" /\ MinDepth = 0)

\* The part of update_state the invariant needs: a buffer that is not empty
\* is never Empty afterwards, one that is empty never Ready, and Filling
\* means below the target.
LEMMA StateAfterFits ==
  ASSUME TypeOK, StateFitsFrames, NEW S \in SUBSET Pts,
         state = "Empty" => \E f \in Pts : S = {f},
         state = "Filling" => S # {}
  PROVE  /\ StateAfter(S) = "Ready" => S # {}
         /\ StateAfter(S) = "Empty" => S = {}
         /\ StateAfter(S) = "Filling" /\ TargetDepth > 0 => Depth(S) < TargetDepth
         /\ state # "Ready" /\ StateAfter(S) = "Ready" => Resumes(S)
<1>1. /\ Depth(S) \in Nat
      /\ TargetDepth \in Nat /\ MinDepth \in Nat
  BY DepthOf, JitterBufferAssumption
<1>2. CASE state = "Filling"
  <2>1. StateAfter(S) = IF Depth(S) >= TargetDepth THEN "Ready" ELSE "Filling"
    BY <1>2 DEF StateAfter
  <2>2. QED
    BY <1>1, <1>2, <2>1 DEF Resumes
<1>3. CASE state = "Ready"
  <2>1. StateAfter(S) = IF S = {} THEN "Empty" ELSE "Ready"
    BY <1>3 DEF StateAfter
  <2>2. QED
    BY <1>3, <2>1
<1>4. CASE state = "Empty"
  <2>1. Depth(S) = 0 /\ S # {}
    BY <1>4, DepthOf
  <2>2. CASE MinDepth = 0
    BY <1>1, <1>4, <2>1, <2>2 DEF StateAfter, Resumes
  <2>3. CASE MinDepth # 0
    <3>1. Depth(S) < MinDepth
      BY <1>1, <2>1, <2>3
    <3>2. StateAfter(S) = "Filling"
      BY <1>1, <1>4, <2>1, <3>1 DEF StateAfter
    <3>3. QED
      BY <1>1, <2>1, <3>2
  <2>4. QED
    BY <2>2, <2>3
<1>5. QED
  BY <1>2, <1>3, <1>4 DEF TypeOK, BufferStates

\* Where insert leaves the buffer: an Empty one holds the new frame only.
LEMMA InsertedFrames ==
  ASSUME TypeOK, StateFitsFrames, NEW pts \in Pts, Insert(pts)
  PROVE  /\ frames' \in SUBSET Pts /\ pts \in frames'
         /\ state = "Empty" => frames' = {pts}
         /\ state' = StateAfter(frames')
BY DEF Insert, TypeOK, StateFitsFrames

\* Every operation leaves a state that fits the frames, and only insertions
\* that let playback start lead to Ready.
LEMMA StateStep ==
  ASSUME TypeOK, StateFitsFrames, [Next]_vars
  PROVE  /\ StateFitsFrames'
         /\ state # "Ready" /\ state' = "Ready"
                => Resumes(frames')
<1>1. ASSUME NEW pts \in Pts, InsertLate(pts)
      PROVE  StateFitsFrames' /\ state' = state
  BY <1>1 DEF InsertLate, StateFitsFrames, Depth
<1>2. ASSUME NEW pts \in Pts, Insert(pts)
      PROVE  /\ StateFitsFrames'
             /\ state # "Ready" /\ state' = "Ready"
                    => Resumes(frames')
  <2>1. /\ frames' \in SUBSET Pts /\ frames' # {}
        /\ state = "Empty" => \E f \in Pts : frames' = {f}
        /\ state' = StateAfter(frames')
    BY <1>2, InsertedFrames
  <2>2. /\ StateAfter(frames') = "Empty" => frames' = {}
        /\ StateAfter(frames') = "Filling" /\ TargetDepth > 0 => Depth(frames') < TargetDepth
        /\ state # "Ready" /\ StateAfter(frames') = "Ready"
               => Resumes(frames')
    BY <2>1, StateAfterFits
  <2>3. Depth(frames)' = Depth(frames')
    BY DEF Depth
  <2>4. QED
    BY <2>1, <2>2, <2>3 DEF StateFitsFrames
<1>3. ASSUME NEW pts \in Pts, GetNext(pts)
      PROVE  StateFitsFrames' /\ state = "Ready"
  <2>1. /\ state = "Ready"
        /\ frames' \in SUBSET Pts
        /\ state' = StateAfter(frames')
    BY <1>3 DEF GetNext, TypeOK
  <2>2. /\ StateAfter(frames') = "Ready" => frames' # {}
        /\ StateAfter(frames') = "Empty" => frames' = {}
        /\ StateAfter(frames') = "Filling" /\ TargetDepth > 0 => Depth(frames') < TargetDepth
    BY <2>1, StateAfterFits
  <2>3. Depth(frames)' = Depth(frames')
    BY DEF Depth
  <2>4. QED
    BY <2>1, <2>2, <2>3 DEF StateFitsFrames
<1>4. ASSUME Clear PROVE StateFitsFrames' /\ state' = "Filling"
  <2>1. frames' = {} /\ state' = "Filling" /\ Depth(frames)' = 0
    BY <1>4 DEF Clear, Depth
  <2>2. QED
    BY <2>1, JitterBufferAssumption DEF StateFitsFrames
<1>5. ASSUME UNCHANGED vars PROVE StateFitsFrames' /\ state' = state
  BY <1>5 DEF vars, StateFitsFrames, Depth
<1>6. QED
  BY <1>1, <1>2, <1>3, <1>4, <1>5 DEF Next

-----------------------------------------------------------------------------
(* The statistics.                                                         *)

\* The frames the counters know of.
Played == stats.output + stats.late + stats.overflow

\* An insertion counts its frame once more and buffers at most one frame
\* more; an eviction moves a frame from the buffer to the counters.
LEMMA InsertCounts ==
  ASSUME TypeOK, NEW pts \in Pts, Insert(pts)
  PROVE  /\ stats'.received = stats.received + 1
         /\ Played' + Cardinality(frames') <= Played + Cardinality(frames) + 1
         /\ exact' => Played' + Cardinality(frames')
                          = Played + Cardinality(frames) + 1
<1> DEFINE full == Cardinality(frames) >= MaxFrames /\ frames # {}
           kept == IF full THEN frames \ {Min(frames)} ELSE frames
           evicted == IF full THEN 1 ELSE 0
<1>1. /\ frames' = kept \cup {pts}
      /\ stats' = [stats EXCEPT !.received = @ + 1, !.overflow = @ + evicted]
      /\ exact' => pts \notin kept
  BY Zenon DEF Insert
<1>2. frames \in SUBSET Pts /\ kept \in SUBSET Pts
  BY DEF TypeOK
<1>3. Cardinality(kept) + evicted = Cardinality(frames)
  <2>1. IsFiniteSet(frames) /\ Cardinality(frames) \in Nat
    BY <1>2, FramesAreFinite
  <2>2. CASE full
    <3>1. Min(frames) \in frames
      BY <1>2, <2>2, EarliestFrame
    <3>2. Cardinality(frames \ {Min(frames)}) = Cardinality(frames) - 1
      BY <2>1, <3>1, FS_RemoveElement
    <3>3. kept = frames \ {Min(frames)} /\ evicted = 1
      BY <2>2
    <3>4. QED
      BY <2>1, <3>2, <3>3
  <2>3. CASE ~full
    BY <2>1, <2>3
  <2>4. QED
    BY <2>2, <2>3
<1>4. /\ Cardinality(kept \cup {pts}) <= Cardinality(kept) + 1
      /\ pts \notin kept => Cardinality(kept \cup {pts}) = Cardinality(kept) + 1
  <2> HIDE DEF kept
  <2>1. IsFiniteSet(kept) /\ Cardinality(kept) \in Nat
    BY <1>2, FramesAreFinite
  <2>2. QED
    BY <2>1, FS_AddElement
<1>5. evicted \in Nat
  OBVIOUS
<1>6. /\ Cardinality(frames) \in Nat /\ Cardinality(kept) \in Nat
      /\ Cardinality(kept \cup {pts}) \in Nat
  <2>1. kept \cup {pts} \in SUBSET Pts
    BY <1>2
  <2> HIDE DEF kept
  <2>2. QED
    BY <1>2, <2>1, FramesAreFinite
<1> HIDE DEF kept, evicted
<1>7. /\ stats'.received = stats.received + 1
      /\ stats'.output = stats.output /\ stats'.late = stats.late
      /\ stats'.overflow = stats.overflow + evicted
  BY <1>1 DEF TypeOK
<1>8. /\ stats.output \in Nat /\ stats.late \in Nat /\ stats.overflow \in Nat
  BY DEF TypeOK
<1>9. Played' = Played + evicted
  BY <1>5, <1>7, <1>8 DEF Played
<1>10. Played \in Nat
  BY <1>8 DEF Played
<1>11. QED
  BY <1>1, <1>3, <1>4, <1>5, <1>6, <1>7, <1>9, <1>10

\* get_next plays one of the frames that are due and counts the others late.
LEMMA GetNextCounts ==
  ASSUME TypeOK, NEW pts \in Pts, GetNext(pts)
  PROVE  /\ stats'.received = stats.received
         /\ Played' + Cardinality(frames') = Played + Cardinality(frames)
<1> DEFINE due == {f \in frames : f <= pts}
           missed == UnderrunAfter(frames \ due)
<1>1. /\ frames' = frames \ due
      /\ stats' = [stats EXCEPT !.output = @ + 1,
                                !.late = @ + Cardinality(due) - 1,
                                !.underruns = @ + missed]
  BY Zenon DEF GetNext
<1>2. frames \in SUBSET Pts /\ due \in SUBSET frames /\ due \in SUBSET Pts
  BY DEF TypeOK
<1> HIDE DEF due, missed
<1>3. Cardinality(frames \ due) = Cardinality(frames) - Cardinality(due)
  <2>1. IsFiniteSet(frames)
    BY <1>2, FramesAreFinite
  <2>2. frames \cap due = due
    BY <1>2
  <2>3. QED
    BY <2>1, <2>2, FS_Difference
<1>4. Cardinality(frames) \in Nat /\ Cardinality(due) \in Nat
  BY <1>2, FramesAreFinite
<1>5. /\ stats'.received = stats.received
      /\ stats'.output = stats.output + 1
      /\ stats'.late = stats.late + Cardinality(due) - 1
      /\ stats'.overflow = stats.overflow
  BY <1>1 DEF TypeOK
<1>6. /\ stats.output \in Nat /\ stats.late \in Nat /\ stats.overflow \in Nat
  BY DEF TypeOK
<1>7. QED
  BY <1>1, <1>3, <1>4, <1>5, <1>6 DEF Played

\* Every operation keeps the account.
LEMMA StatsStep == TypeOK /\ StatsAccount /\ [Next]_vars => StatsAccount'
<1> SUFFICES ASSUME TypeOK, StatsAccount, [Next]_vars PROVE StatsAccount'
  OBVIOUS
<1>1. /\ stats.received \in Nat /\ Played \in Nat
      /\ Cardinality(frames) \in Nat
      /\ Played + Cardinality(frames) <= stats.received
      /\ exact => Played + Cardinality(frames) = stats.received
  <2>1. stats.output \in Nat /\ stats.late \in Nat /\ stats.overflow \in Nat
    BY DEF TypeOK
  <2>2. Cardinality(frames) \in Nat
    BY FramesAreFinite DEF TypeOK
  <2>3. stats.received \in Nat
    BY JitterBufferAssumption DEF TypeOK
  <2>4. QED
    BY <2>1, <2>2, <2>3 DEF Played, StatsAccount
<1>2. SUFFICES /\ Played' + Cardinality(frames') <= stats'.received
               /\ exact' => Played' + Cardinality(frames') = stats'.received
  BY DEF Played, StatsAccount
<1>3. ASSUME NEW pts \in Pts, InsertLate(pts)
      PROVE  /\ Played' + Cardinality(frames') <= stats'.received
             /\ exact' => Played' + Cardinality(frames') = stats'.received
  <2>1. /\ stats' = [stats EXCEPT !.received = @ + 1, !.late = @ + 1]
        /\ frames' = frames /\ exact' = exact
    BY <1>3 DEF InsertLate
  <2>2. /\ stats'.received = stats.received + 1
        /\ stats'.output = stats.output /\ stats'.late = stats.late + 1
        /\ stats'.overflow = stats.overflow
    BY <2>1 DEF TypeOK
  <2>3. Played' = Played + 1
    <3>1. /\ stats.output \in Nat /\ stats.late \in Nat
          /\ stats.overflow \in Nat
      BY DEF TypeOK
    <3>2. QED
      BY <2>2, <3>1 DEF Played
  <2>4. QED
    BY <1>1, <2>1, <2>2, <2>3
<1>4. ASSUME NEW pts \in Pts, Insert(pts)
      PROVE  /\ Played' + Cardinality(frames') <= stats'.received
             /\ exact' => Played' + Cardinality(frames') = stats'.received
  <2>1. /\ exact' => exact
        /\ Played' \in Nat /\ Cardinality(frames') \in Nat
    <3>1. TypeOK'
      BY TypeStep
    <3>2. Played' \in Nat
      BY <3>1 DEF TypeOK, Played
    <3>3. Cardinality(frames') \in Nat
      BY <3>1, FramesAreFinite DEF TypeOK
    <3>4. QED
      BY <1>4, <3>2, <3>3 DEF Insert
  <2>2. QED
    BY <1>1, <1>4, <2>1, InsertCounts
<1>5. ASSUME NEW pts \in Pts, GetNext(pts)
      PROVE  /\ Played' + Cardinality(frames') <= stats'.received
             /\ exact' => Played' + Cardinality(frames') = stats'.received
  <2>1. exact' = exact
    BY <1>5 DEF GetNext
  <2>2. QED
    BY <1>1, <1>5, <2>1, GetNextCounts
<1>6. ASSUME Clear
      PROVE  /\ Played' + Cardinality(frames') <= stats'.received
             /\ exact' => Played' + Cardinality(frames') = stats'.received
  <2>1. stats' = stats /\ frames' = {} /\ exact' = FALSE
    BY <1>6 DEF Clear
  <2>2. Played' = Played /\ Cardinality(frames') = 0
    BY <2>1, FS_EmptySet DEF Played
  <2>3. QED
    BY <1>1, <2>1, <2>2
<1>7. ASSUME UNCHANGED vars
      PROVE  /\ Played' + Cardinality(frames') <= stats'.received
             /\ exact' => Played' + Cardinality(frames') = stats'.received
  BY <1>1, <1>7 DEF vars, Played
<1>8. QED
  BY <1>3, <1>4, <1>5, <1>6, <1>7 DEF Next

-----------------------------------------------------------------------------
(* The theorems.                                                           *)

IInv == TypeOK /\ NothingBufferedIsLate /\ StateFitsFrames /\ StatsAccount

\* The four invariants hold of the empty buffer and are kept by every step.
THEOREM Inductive == Spec => []IInv
<1>1. Init => IInv
  <2> SUFFICES ASSUME Init PROVE IInv
    OBVIOUS
  <2>1. TypeOK
    BY JitterBufferAssumption DEF Init, TypeOK, BufferStates
  <2>2. NothingBufferedIsLate
    BY DEF Init, NothingBufferedIsLate
  <2>3. StateFitsFrames
    BY JitterBufferAssumption DEF Init, StateFitsFrames, Depth
  <2>4. StatsAccount
    BY FS_EmptySet DEF Init, StatsAccount
  <2>5. QED
    BY <2>1, <2>2, <2>3, <2>4 DEF IInv
<1>2. IInv /\ [Next]_vars => IInv'
  BY TypeStep, LateStep, StateStep, StatsStep DEF IInv
<1>3. QED
  BY <1>1, <1>2, PTL DEF Spec

\* JitterBuffer::insert against get_next: no frame older than the register is
\* ever buffered, for any capacity and any order of arrivals and reads.
THEOREM NothingBufferedIsLateHolds == Spec => []NothingBufferedIsLate
<1>1. IInv => NothingBufferedIsLate
  BY DEF IInv
<1>2. QED
  BY <1>1, Inductive, PTL

\* JitterBuffer::update_state: the state a player is shown fits the frames,
\* for any target and minimum depth.
THEOREM StateFitsFramesHolds == Spec => []StateFitsFrames
<1>1. IInv => StateFitsFrames
  BY DEF IInv
<1>2. QED
  BY <1>1, Inductive, PTL

\* BufferStats: every frame received is buffered, played, late or evicted,
\* and none is counted twice.
THEOREM StatsAccountHolds == Spec => []StatsAccount
<1>1. IInv => StatsAccount
  BY DEF IInv
<1>2. QED
  BY <1>1, Inductive, PTL

\* After an underrun no frame is played before the target depth is buffered
\* again, whatever the minimum depth is configured to, 0 alone excepted
\* (JitterBuffer::update_state).
THEOREM ResumesAtTargetHolds == Spec => ResumesAtTarget
<1>1. IInv /\ [Next]_vars =>
          [state # "Ready" /\ state' = "Ready" =>
               Depth(frames') >= TargetDepth \/ (state = "Empty" /\ MinDepth = 0)]_vars
  BY StateStep DEF IInv, Resumes
<1>2. QED
  BY <1>1, Inductive, PTL DEF Spec, ResumesAtTarget

\* The register insert compares with only goes forward, except by clear: the
\* earliest frame that is due is never before the register.
THEOREM RegisterAdvancesHolds == Spec => RegisterAdvances
<1>1. ASSUME IInv, [Next]_vars, lastOutput # None
      PROVE  \/ lastOutput' # None /\ lastOutput' >= lastOutput
             \/ frames' = {} /\ state' = "Filling"
  <2>1. TypeOK /\ NothingBufferedIsLate
    BY <1>1 DEF IInv
  <2>2. lastOutput \in Nat
    BY <1>1, <2>1, JitterBufferAssumption DEF TypeOK, Pts
  <2>3. ASSUME NEW pts \in Pts, GetNext(pts)
        PROVE  lastOutput' # None /\ lastOutput' >= lastOutput
    <3> DEFINE due == {f \in frames : f <= pts}
    <3>1. due \in SUBSET Pts /\ due # {} /\ due \subseteq frames
      BY <2>1, <2>3 DEF GetNext, TypeOK
    <3>2. Min(due) \in frames /\ Min(due) \in Pts
      BY <3>1, EarliestFrame
    <3>3. lastOutput' = Min(due)
      BY <2>3 DEF GetNext
    <3> HIDE DEF due
    <3>4. lastOutput' \in Nat /\ lastOutput' \in frames
      BY <3>2, <3>3, JitterBufferAssumption DEF Pts
    <3>5. QED
      BY <1>1, <2>1, <3>4, JitterBufferAssumption DEF NothingBufferedIsLate
  <2>4. ASSUME NEW pts \in Pts, InsertLate(pts) \/ Insert(pts)
        PROVE  lastOutput' = lastOutput
    BY <2>4 DEF InsertLate, Insert
  <2>5. CASE Clear
    BY <2>5 DEF Clear
  <2>6. CASE UNCHANGED vars
    BY <1>1, <2>2, <2>6 DEF vars
  <2>7. QED
    BY <1>1, <2>2, <2>3, <2>4, <2>5, <2>6 DEF Next
<1>2. IInv /\ [Next]_vars =>
          [lastOutput # None => \/ lastOutput' # None /\ lastOutput' >= lastOutput
                                \/ frames' = {} /\ state' = "Filling"]_vars
  BY <1>1
<1>3. QED
  BY <1>2, Inductive, PTL DEF Spec, RegisterAdvances

-----------------------------------------------------------------------------
(* The clock: the inductive invariant                                      *)

Sample == [offset : Int, rtt : Nat, own : BOOLEAN]

\* Since the clock was last set, no request comes from the future, and an
\* answer holds the peer's time at some moment since its request.
Stamped ==
    /\ \A q \in asked : q.era = era => q.sent <= now
    /\ \A a \in answers : a.era = era => \E t \in a.sent .. now : a.remote = t + skew

\* A sample is within half its round trip of the truth.
Near(s) == /\ 2 * (skew - s.offset) <= s.rtt
           /\ 2 * (s.offset - skew) <= s.rtt + 1

\* The samples are not too many, they are ones that were accepted, and near the
\* truth if they are of their own requests.
Sampled ==
    /\ Len(samples) <= SampleCount
    /\ \A i \in DOMAIN samples :
          /\ Abs(samples[i].offset) < MaxDrift
          /\ samples[i].own => Near(samples[i])

\* No answer of a peer within the drift accepted is dropped.
Heeded == Abs(skew) + MaxTime < MaxDrift => heard <= Len(samples)

\* No request and no answer is of an era to come.
NoneAhead ==
    /\ \A q \in asked : q.era <= era
    /\ \A a \in answers : a.era <= era

ClockInv == ClockTypeOK /\ Stamped /\ Sampled /\ Heeded /\ NoneAhead

-----------------------------------------------------------------------------
(* The clock: the median                                                   *)

\* Each place in the queue holds a sample.
LEMMA SampleAt ==
    ASSUME samples \in Seq(Sample)
    PROVE  /\ DOMAIN samples = 1 .. Len(samples) /\ Len(samples) \in Nat
           /\ \A i \in DOMAIN samples : /\ samples[i] \in Sample
                                       /\ samples[i].offset \in Int
                                       /\ samples[i].rtt \in Nat
<1>1. DOMAIN samples = 1 .. Len(samples) /\ Len(samples) \in Nat
  OBVIOUS
<1>2. \A i \in 1 .. Len(samples) : samples[i] \in Sample
  OBVIOUS
<1>3. \A s \in Sample : s.offset \in Int /\ s.rtt \in Nat
  BY DEF Sample
<1> QED
  BY <1>1, <1>2, <1>3

\* A finite set of samples, not empty, has one with the greatest offset.
LEMMA GreatestOffset ==
    ASSUME samples \in Seq(Sample), \A i \in DOMAIN samples : samples[i].offset < MaxDrift,
           NEW G \in SUBSET DOMAIN samples, G # {}
    PROVE  \E j \in G : \A i \in G : samples[i].offset <= samples[j].offset
<1> DEFINE Distances == {d \in Nat : \E i \in G : d = MaxDrift - samples[i].offset}
<1>1. \A i \in G : samples[i].offset \in Int /\ MaxDrift - samples[i].offset \in Distances
  BY SampleAt, ClockAssumption
<1>2. PICK d \in Distances : \A e \in Distances : d <= e
  <2>1. Distances \subseteq Nat /\ Distances # {}
    BY <1>1
  <2> HIDE DEF Distances
  <2> QED
    BY <2>1, LeastExists
<1>3. PICK j \in G : d = MaxDrift - samples[j].offset
  BY <1>2
<1>4. ASSUME NEW i \in G PROVE samples[i].offset <= samples[j].offset
  <2>1. MaxDrift - samples[j].offset <= MaxDrift - samples[i].offset
    BY <1>1, <1>2, <1>3
  <2> QED
    BY <2>1, <1>1, ClockAssumption
<1> QED
  BY <1>3, <1>4

\* A set of samples can be counted.
LEMMA SamplesAreFinite ==
    ASSUME samples \in Seq(Sample), NEW G \in SUBSET DOMAIN samples
    PROVE  /\ IsFiniteSet(G) /\ Cardinality(G) \in Nat
           /\ IsFiniteSet(DOMAIN samples) /\ Cardinality(DOMAIN samples) = Len(samples)
<1>1. Len(samples) \in Nat /\ DOMAIN samples = 1 .. Len(samples)
  BY SampleAt
<1>2. IsFiniteSet(DOMAIN samples) /\ Cardinality(DOMAIN samples) = Len(samples)
  <2>1. /\ IsFiniteSet(1 .. Len(samples))
        /\ Cardinality(1 .. Len(samples)) =
              IF 1 > Len(samples) THEN 0 ELSE Len(samples) - 1 + 1
    BY <1>1, FS_Interval
  <2>2. Cardinality(1 .. Len(samples)) = Len(samples)
    BY <1>1, <2>1
  <2> QED
    BY <1>1, <2>1, <2>2
<1>3. IsFiniteSet(G)
  BY <1>2, FS_Subset
<1> QED
  BY <1>2, <1>3, FS_CardinalityType

\* Two majorities of the samples meet.
LEMMA MajoritiesMeet ==
    ASSUME samples \in Seq(Sample),
           NEW G \in SUBSET DOMAIN samples, 2 * Cardinality(G) > Len(samples),
           NEW H \in SUBSET DOMAIN samples, 2 * Cardinality(H) > Len(samples)
    PROVE  \E i \in G : i \in H
<1> SUFFICES ASSUME G \cap H = {} PROVE FALSE
  OBVIOUS
<1>1. /\ IsFiniteSet(G) /\ Cardinality(G) \in Nat
      /\ IsFiniteSet(H) /\ Cardinality(H) \in Nat
      /\ IsFiniteSet(DOMAIN samples) /\ Cardinality(DOMAIN samples) = Len(samples)
  BY SamplesAreFinite
<1>2. Cardinality(G \cup H) = Cardinality(G) + Cardinality(H)
  <2>1. Cardinality(G \cup H) = Cardinality(G) + Cardinality(H) - Cardinality(G \cap H)
    BY <1>1, FS_Union
  <2>2. Cardinality(G \cap H) = 0
    BY FS_EmptySet
  <2> QED
    BY <1>1, <2>1, <2>2
<1>3. Cardinality(G \cup H) <= Cardinality(DOMAIN samples)
  BY <1>1, FS_Subset
<1> QED
  BY <1>1, <1>2, <1>3

\* The median lies among the offsets of any majority of the samples.
LEMMA MedianAmong ==
    ASSUME samples \in Seq(Sample),
           \A i \in DOMAIN samples : Abs(samples[i].offset) < MaxDrift,
           NEW G \in SUBSET DOMAIN samples, 2 * Cardinality(G) > Len(samples)
    PROVE  /\ Median \in Int
           /\ \E i \in G : samples[i].offset <= Median
           /\ \E j \in G : Median <= samples[j].offset
<1> DEFINE Middle == {x \in Offsets : 2 * Cardinality(UpTo(x)) > Len(samples)}
<1>1. \A i \in DOMAIN samples :
         /\ samples[i].offset \in Int /\ samples[i].offset \in Offsets
         /\ -MaxDrift < samples[i].offset /\ samples[i].offset < MaxDrift
  BY SampleAt, ClockAssumption DEF Offsets, Abs
<1>2. G # {}
  <2>1. G = {} => Cardinality(G) = 0
    BY FS_EmptySet
  <2>2. Len(samples) \in Nat
    OBVIOUS
  <2> QED
    BY <2>1, <2>2
<1>3. PICK j \in G : \A i \in G : samples[i].offset <= samples[j].offset
  BY <1>1, <1>2, GreatestOffset
<1>4. samples[j].offset \in Middle
  <2>1. G \subseteq UpTo(samples[j].offset) /\ UpTo(samples[j].offset) \in SUBSET DOMAIN samples
    BY <1>3 DEF UpTo
  <2>2. Cardinality(G) <= Cardinality(UpTo(samples[j].offset))
    BY <2>1, SamplesAreFinite, FS_Subset
  <2>3. /\ Cardinality(G) \in Nat /\ Cardinality(UpTo(samples[j].offset)) \in Nat
        /\ Len(samples) \in Nat
    BY <2>1, SamplesAreFinite
  <2>4. 2 * Cardinality(UpTo(samples[j].offset)) > Len(samples)
    BY <2>2, <2>3
  <2> QED
    BY <1>1, <2>4
<1>5. \E x \in Middle : \A y \in Middle : x <= y
  <2> DEFINE Above == {n \in Nat : \E x \in Middle : n = x + MaxDrift}
  <2>1. \A x \in Middle : x \in Int /\ x + MaxDrift \in Above
    BY <1>1, ClockAssumption DEF Offsets
  <2>2. PICK n \in Above : \A m \in Above : n <= m
    <3>1. Above \subseteq Nat /\ Above # {}
      BY <1>4, <2>1
    <3> HIDE DEF Above
    <3> QED
      BY <3>1, LeastExists
  <2>3. PICK x \in Middle : n = x + MaxDrift
    BY <2>2
  <2>4. ASSUME NEW y \in Middle PROVE x <= y
    <3>1. x + MaxDrift <= y + MaxDrift
      BY <2>1, <2>2, <2>3
    <3> QED
      BY <3>1, <2>1, ClockAssumption
  <2> QED
    BY <2>4
<1>6. Median \in Middle /\ \A y \in Middle : Median <= y
  <2> HIDE DEF Middle
  <2>1. Median = CHOOSE x \in Middle : \A y \in Middle : x <= y
    BY DEF Median, Middle
  <2> QED
    BY <1>5, <2>1
<1>7. Median \in Int
  BY <1>1, <1>6 DEF Offsets
<1>8. Median <= samples[j].offset
  BY <1>4, <1>6
<1>9. \E i \in G : samples[i].offset <= Median
  <2>1. UpTo(Median) \in SUBSET DOMAIN samples /\ 2 * Cardinality(UpTo(Median)) > Len(samples)
    BY <1>6 DEF UpTo
  <2>2. PICK i \in G : i \in UpTo(Median)
    BY <2>1, MajoritiesMeet
  <2> QED
    BY <2>2 DEF UpTo
<1> QED
  BY <1>7, <1>8, <1>9
-----------------------------------------------------------------------------
(* The clock: every step keeps the invariant                               *)

\* What an answer read at t, between 0 and the time it comes back, says of a
\* clock that is k ahead.
LEMMA HalfTheRoundTrip ==
    ASSUME NEW s \in Nat, NEW u \in Nat, NEW k \in Int, NEW t \in 0 .. u,
           NEW m \in Nat, s <= m, u <= m
    PROVE  LET offset == SampleOffset(s, t + k, u)
           IN  /\ offset \in Int
               /\ Abs(offset - k) <= m
               /\ s <= t => /\ 2 * (k - offset) <= u - s
                            /\ 2 * (offset - k) <= u - s + 1
<1> DEFINE h == (s + u) \div 2
<1>1. h \in Int /\ 2 * h <= s + u /\ s + u <= 2 * h + 1
  OBVIOUS
<1>2. SampleOffset(s, t + k, u) = t + k - h
  BY DEF SampleOffset
<1> HIDE DEF h
<1>3. t + k - h \in Int /\ -m <= t - h /\ t - h <= m
  BY <1>1
<1>4. s <= t => 2 * (h - t) <= u - s /\ 2 * (t - h) <= u - s + 1
  BY <1>1
<1> QED
  BY <1>1, <1>2, <1>3, <1>4 DEF Abs

\* Keep forgets at most the oldest sample, and only when there are enough.
LEMMA Kept ==
    ASSUME samples \in Seq(Sample), NEW s \in Sample
    PROVE  LET kept == Keep(samples, s)
           IN  /\ kept \in Seq(Sample)
               /\ Len(kept) = IF Len(samples) >= SampleCount THEN Len(samples)
                              ELSE Len(samples) + 1
               /\ \A i \in DOMAIN kept :
                     kept[i] = s \/ \E j \in DOMAIN samples : kept[i] = samples[j]
<1>1. CASE Len(samples) >= SampleCount
  <2>1. Len(samples) \in Nat /\ Len(samples) >= 1
    BY <1>1, ClockAssumption, SampleAt
  <2>2. samples # <<>>
    BY <2>1
  <2> DEFINE rest == Tail(samples)
  <2>3. /\ rest \in Seq(Sample) /\ Len(rest) = Len(samples) - 1
        /\ \A i \in 1 .. Len(rest) : rest[i] = samples[i + 1]
    BY <2>1, <2>2
  <2>4. \A i \in 1 .. Len(rest) : i + 1 \in DOMAIN samples
    BY <2>1, <2>3, SampleAt
  <2>5. Keep(samples, s) = Append(rest, s)
    BY <1>1 DEF Keep
  <2> HIDE DEF rest
  <2>6. /\ Append(rest, s) \in Seq(Sample) /\ Len(Append(rest, s)) = Len(rest) + 1
        /\ \A i \in 1 .. Len(rest) : Append(rest, s)[i] = rest[i]
        /\ Append(rest, s)[Len(rest) + 1] = s
        /\ DOMAIN Append(rest, s) = 1 .. Len(rest) + 1
    BY <2>3
  <2>7. \A i \in DOMAIN Append(rest, s) : i \in 1 .. Len(rest) \/ i = Len(rest) + 1
    BY <2>1, <2>3, <2>6
  <2>8. Len(Append(rest, s)) = Len(samples)
    BY <2>1, <2>3, <2>6
  <2> QED
    BY <1>1, <2>3, <2>4, <2>5, <2>6, <2>7, <2>8
<1>2. CASE ~(Len(samples) >= SampleCount)
  <2>1. Keep(samples, s) = Append(samples, s)
    BY <1>2 DEF Keep
  <2>2. /\ Append(samples, s) \in Seq(Sample) /\ Len(Append(samples, s)) = Len(samples) + 1
        /\ \A i \in 1 .. Len(samples) : Append(samples, s)[i] = samples[i]
        /\ Append(samples, s)[Len(samples) + 1] = s
        /\ DOMAIN Append(samples, s) = 1 .. Len(samples) + 1
    OBVIOUS
  <2>3. \A i \in DOMAIN Append(samples, s) : i \in DOMAIN samples \/ i = Len(samples) + 1
    BY <2>2, SampleAt
  <2> QED
    BY <1>2, <2>1, <2>2, <2>3, SampleAt
<1> QED
  BY <1>1, <1>2

\* What may be said of a sample that is kept.
Good(s) == /\ Abs(s.offset) < MaxDrift
           /\ s.own => Near(s)

\* An answer that is taken leaves good samples.
LEMMA ResponseKeeps ==
    ASSUME ClockInv, NEW a \in answers, ProcessResponse(a)
    PROVE  ClockInv'
<1>1. /\ skew \in Int /\ now \in Nat /\ samples \in Seq(Sample)
      /\ a.sent \in Nat /\ a.era \in Eras /\ a.remote \in Int /\ era \in Eras
      /\ heard \in 0 .. MinSamples /\ MinSamples \in Nat /\ SampleCount \in Nat
      /\ MinSamples <= SampleCount /\ now <= MaxTime /\ MaxTime \in Nat /\ MaxDrift \in Nat
  BY ClockAssumption DEF ClockInv, ClockTypeOK, Sample
<1>2. a.era = era => \E t \in a.sent .. now : a.remote = t + skew
  BY DEF ClockInv, Stamped
<1>3. /\ UNCHANGED <<skew, now, asked, era>> /\ request' = Unknown /\ answers' = answers \ {a}
  BY DEF ProcessResponse
<1>4. Stamped' /\ NoneAhead'
  BY <1>3 DEF ClockInv, Stamped, NoneAhead
<1>5. CASE request = Unknown
  <2>1. UNCHANGED <<samples, heard>>
    BY <1>5 DEF ProcessResponse
  <2> QED
    BY <1>3, <1>4, <2>1 DEF ClockInv, ClockTypeOK, Sampled, Near, Heeded
<1>6. CASE request # Unknown
  <2> DEFINE offset == SampleOffset(request, a.remote, now)
             s == [offset |-> offset, rtt |-> RoundTrip(request, now),
                   own |-> request = a.sent /\ a.era = era]
  <2>1. /\ samples' = IF Abs(offset) < MaxDrift THEN Keep(samples, s) ELSE samples
        /\ heard' = IF a.era = era /\ heard < MinSamples THEN heard + 1 ELSE heard
    BY <1>6 DEF ProcessResponse
  <2>2. request \in Nat /\ request <= MaxTime
    BY <1>1, <1>6 DEF ClockInv, ClockTypeOK
  <2>3. offset \in Int
    BY <1>1, <2>2 DEF SampleOffset
  <2>4. a.era = era =>
           /\ Abs(offset - skew) <= MaxTime
           /\ request = a.sent => /\ request <= now
                                  /\ 2 * (skew - offset) <= now - request
                                  /\ 2 * (offset - skew) <= now - request + 1
    <3> SUFFICES ASSUME a.era = era
                 PROVE  /\ Abs(offset - skew) <= MaxTime
                        /\ request = a.sent => /\ request <= now
                                               /\ 2 * (skew - offset) <= now - request
                                               /\ 2 * (offset - skew) <= now - request + 1
      OBVIOUS
    <3>1. PICK t \in a.sent .. now : a.remote = t + skew
      BY <1>2
    <3>2. t \in 0 .. now /\ a.sent <= t /\ t <= now
      BY <1>1, <3>1
    <3>3. t \in 0 .. now /\ offset = SampleOffset(request, t + skew, now)
      BY <3>1, <3>2
    <3> HIDE DEF offset
    <3>4. /\ Abs(offset - skew) <= MaxTime
          /\ request <= t => /\ 2 * (skew - offset) <= now - request
                             /\ 2 * (offset - skew) <= now - request + 1
      BY <1>1, <2>2, <3>3, HalfTheRoundTrip
    <3>5. request = a.sent => request <= t /\ request <= now
      BY <1>1, <2>2, <3>2
    <3> QED
      BY <3>4, <3>5
  <2> HIDE DEF offset
  <2>5. /\ s \in Sample /\ s.offset = offset /\ s.rtt = RoundTrip(request, now)
        /\ s.own <=> request = a.sent /\ a.era = era
    <3>1. RoundTrip(request, now) \in Nat
      BY <1>1, <2>2 DEF RoundTrip
    <3>2. (request = a.sent /\ a.era = era) \in BOOLEAN
      OBVIOUS
    <3>3. s \in Sample
      BY <2>3, <3>1, <3>2, Zenon DEF Sample
    <3> QED
      BY <3>3
  <2> HIDE DEF s
  <2>6. s.own => Near(s)
    BY <1>1, <2>2, <2>4, <2>5 DEF Near, RoundTrip
  <2>7. /\ samples' \in Seq(Sample)
        /\ Len(samples') \in {Len(samples), Len(samples) + 1}
        /\ Len(samples') <= SampleCount
        /\ Abs(offset) < MaxDrift =>
              Len(samples') = IF Len(samples) >= SampleCount THEN Len(samples)
                              ELSE Len(samples) + 1
    BY <1>1, <2>1, <2>5, Kept, SampleAt DEF ClockInv, Sampled
  <2>8. \A i \in DOMAIN samples' :
           \/ samples'[i] = s /\ Abs(s.offset) < MaxDrift
           \/ \E j \in DOMAIN samples : samples'[i] = samples[j]
    BY <1>1, <2>1, <2>5, Kept
  <2>9. Sampled'
    <3>1. ASSUME NEW i \in DOMAIN samples' PROVE Good(samples'[i])
      <4>1. Good(s) \/ ~(Abs(s.offset) < MaxDrift)
        BY <2>6 DEF Good
      <4>2. \A j \in DOMAIN samples : Good(samples[j])
        BY DEF Good, ClockInv, Sampled
      <4> QED
        BY <2>8, <4>1, <4>2
    <3> QED
      BY <1>3, <2>7, <3>1 DEF Sampled, Good, Near
  <2>10. heard' \in 0 .. MinSamples
    BY <1>1, <2>1
  <2>11. ClockTypeOK'
    BY <1>3, <2>7, <2>10 DEF ClockInv, ClockTypeOK, Sample
  <2>12. Heeded'
    <3> SUFFICES ASSUME Abs(skew) + MaxTime < MaxDrift PROVE heard' <= Len(samples')
      BY <1>3 DEF Heeded
    <3>1. heard <= Len(samples)
      BY DEF ClockInv, Heeded
    <3>2. CASE a.era = era
      <4>1. Abs(offset) < MaxDrift
        BY <1>1, <2>3, <2>4, <3>2 DEF Abs
      <4> QED
        BY <1>1, <2>1, <2>7, <3>1, <4>1, SampleAt
    <3>3. CASE a.era # era
      BY <1>1, <2>1, <2>7, <3>1, <3>3, SampleAt
    <3> QED
      BY <3>2, <3>3
  <2> QED
    BY <1>4, <2>9, <2>11, <2>12 DEF ClockInv
<1> QED
  BY <1>5, <1>6

\* Once the clock is set, no sample counts as one of its own request any more,
\* and no message on its way is of the new era.
LEMMA SetClockKeeps ==
    ASSUME ClockInv, NEW by \in Steps, SetClock(by)
    PROVE  ClockInv'
<1>1. /\ by \in Int /\ skew \in Int /\ samples \in Seq(Sample)
      /\ era \in 0 .. MaxSets /\ MaxSets \in Nat /\ MinSamples \in Nat
  BY ClockAssumption DEF ClockInv, ClockTypeOK, Sample, Eras
<1>2. /\ now' = now + by /\ now' \in 0 .. MaxTime /\ skew' = skew - by /\ skew' \in Int
      /\ era' = era + 1 /\ era' \in 0 .. MaxSets /\ heard' = 0
      /\ UNCHANGED <<request, asked, answers>>
  BY <1>1, ClockAssumption DEF SetClock, ClockInv, ClockTypeOK
<1>3. /\ samples' \in Seq(Sample) /\ Len(samples') = Len(samples)
      /\ DOMAIN samples' = DOMAIN samples
      /\ \A i \in DOMAIN samples : samples'[i].offset = samples[i].offset /\ ~samples'[i].own
  <2>1. samples' = [i \in DOMAIN samples |-> [samples[i] EXCEPT !.own = FALSE]]
    BY DEF SetClock
  <2>2. PICK k \in Nat : DOMAIN samples = 1 .. k /\ k = Len(samples)
    BY <1>1, SampleAt
  <2>3. ASSUME NEW s \in Sample
        PROVE  /\ [s EXCEPT !.own = FALSE] \in Sample
               /\ [s EXCEPT !.own = FALSE].offset = s.offset
               /\ ~[s EXCEPT !.own = FALSE].own
    BY DEF Sample
  <2>4. samples' \in [1 .. k -> Sample]
    BY <1>1, <2>1, <2>2, <2>3, SampleAt
  <2>5. samples' \in Seq(Sample)
    BY <2>4, SeqDef
  <2>6. Len(samples') = k /\ DOMAIN samples' = 1 .. k
    BY <2>2, <2>4, <2>5
  <2>7. \A i \in DOMAIN samples : samples'[i].offset = samples[i].offset /\ ~samples'[i].own
    BY <1>1, <2>1, <2>3, SampleAt
  <2> QED
    BY <2>2, <2>5, <2>6, <2>7
<1>4. ClockTypeOK'
  BY <1>1, <1>2, <1>3, ClockAssumption DEF ClockInv, ClockTypeOK, Sample, Eras
<1>5. Stamped' /\ NoneAhead'
  <2>1. /\ \A q \in asked : q.era <= era /\ q.era \in Int
        /\ \A a \in answers : a.era <= era /\ a.era \in Int
    BY ClockAssumption DEF ClockInv, ClockTypeOK, NoneAhead, Eras
  <2> QED
    BY <1>1, <1>2, <2>1 DEF Stamped, NoneAhead
<1>6. Sampled'
  BY <1>2, <1>3 DEF ClockInv, Sampled
<1>7. Heeded'
  <2>1. Len(samples') \in Nat
    BY <1>3
  <2> QED
    BY <1>2, <2>1 DEF Heeded
<1> QED
  BY <1>4, <1>5, <1>6, <1>7 DEF ClockInv

\* Every step keeps the invariant: the network only delays and loses, and
\* between two settings of the clock time only goes on.
LEMMA ClockStepKeepsInv == ClockInv /\ [ClockNext]_clockVars => ClockInv'
<1> SUFFICES ASSUME ClockInv, [ClockNext]_clockVars PROVE ClockInv'
  OBVIOUS
<1>0. /\ now \in 0 .. MaxTime /\ MaxTime \in Nat /\ skew \in Int
      /\ era \in 0 .. MaxSets /\ MaxSets \in Nat
  BY ClockAssumption DEF ClockInv, ClockTypeOK, Eras
<1>1. CASE Tick
  <2>1. /\ now' = now + 1 /\ now' \in 0 .. MaxTime
        /\ UNCHANGED <<skew, request, samples, asked, answers, era, heard>>
    BY <1>0, <1>1 DEF Tick
  <2>2. ClockTypeOK'
    BY <2>1 DEF ClockInv, ClockTypeOK
  <2>3. Stamped'
    <3>1. ASSUME NEW q \in asked, q.era = era PROVE q.sent <= now'
      BY <1>0, <2>1, <3>1 DEF ClockInv, ClockTypeOK, Stamped
    <3>2. ASSUME NEW a \in answers, a.era = era
          PROVE  \E t \in a.sent .. now' : a.remote = t + skew
      <4>1. a.sent \in Nat
        BY <1>0 DEF ClockInv, ClockTypeOK
      <4>2. PICK t \in a.sent .. now : a.remote = t + skew
        BY <3>2 DEF ClockInv, Stamped
      <4>3. t \in a.sent .. now'
        BY <1>0, <2>1, <4>1, <4>2
      <4> QED
        BY <4>2, <4>3
    <3> QED
      BY <2>1, <3>1, <3>2 DEF Stamped
  <2> QED
    BY <2>1, <2>2, <2>3 DEF ClockInv, Sampled, Near, Heeded, NoneAhead
<1>2. CASE StartRequest
  <2>1. /\ request' = now /\ asked' = asked \cup {[sent |-> now, era |-> era]}
        /\ UNCHANGED <<skew, now, samples, answers, era, heard>>
    BY <1>2 DEF StartRequest
  <2>2. Stamped' /\ NoneAhead'
    BY <1>0, <2>1 DEF ClockInv, Stamped, NoneAhead
  <2>3. ClockTypeOK'
    BY <1>0, <2>1 DEF ClockInv, ClockTypeOK
  <2> QED
    BY <2>1, <2>2, <2>3 DEF ClockInv, Sampled, Near, Heeded
<1>3. ASSUME NEW q \in asked, Answer(q) PROVE ClockInv'
  <2> DEFINE a == [sent |-> q.sent, era |-> q.era, remote |-> now + skew]
  <2>1. /\ asked' = asked \ {q} /\ answers' = answers \cup {a}
        /\ UNCHANGED <<skew, now, request, samples, era, heard>>
    BY <1>3 DEF Answer
  <2>2. /\ q.sent \in 0 .. MaxTime /\ q.era \in Eras /\ now + skew \in Int
        /\ q.era <= era
        /\ q.era = era => q.sent <= now /\ now \in q.sent .. now
    BY <1>0 DEF ClockInv, ClockTypeOK, Stamped, NoneAhead
  <2>3. a.sent = q.sent /\ a.era = q.era /\ a.remote = now + skew
    OBVIOUS
  <2>4. ClockTypeOK'
    BY <2>1, <2>2 DEF ClockInv, ClockTypeOK
  <2> HIDE DEF a
  <2>5. Stamped' /\ NoneAhead'
    <3>1. a.era = era => \E t \in a.sent .. now : a.remote = t + skew
      BY <2>2, <2>3
    <3> QED
      BY <2>1, <2>2, <2>3, <3>1 DEF ClockInv, Stamped, NoneAhead
  <2> QED
    BY <2>1, <2>4, <2>5 DEF ClockInv, Sampled, Near, Heeded
<1>4. ASSUME NEW message, Lose(message) PROVE ClockInv'
  <2>1. /\ asked' \subseteq asked /\ answers' \subseteq answers
        /\ UNCHANGED <<skew, now, request, samples, era, heard>>
    BY <1>4 DEF Lose
  <2> QED
    BY <2>1 DEF ClockInv, ClockTypeOK, Stamped, Sampled, Near, Heeded, NoneAhead
<1>5. ASSUME NEW a \in answers, ProcessResponse(a) PROVE ClockInv'
  BY <1>5, ResponseKeeps
<1>6. CASE Reset
  <2>1. /\ samples' = <<>> /\ request' = Unknown /\ heard' = 0
        /\ UNCHANGED <<skew, now, asked, answers, era>>
    BY <1>6 DEF Reset
  <2>2. samples' \in Seq(Sample) /\ Len(samples') = 0 /\ DOMAIN samples' = {}
    BY <2>1
  <2>3. heard' \in 0 .. MinSamples
    BY <2>1, ClockAssumption
  <2>4. ClockTypeOK'
    BY <2>1, <2>2, <2>3 DEF ClockInv, ClockTypeOK, Sample
  <2>5. Sampled' /\ Heeded'
    BY <2>1, <2>2, ClockAssumption DEF Sampled, Heeded
  <2> QED
    BY <2>1, <2>4, <2>5 DEF ClockInv, Stamped, NoneAhead
<1>7. ASSUME NEW by \in Steps, SetClock(by) PROVE ClockInv'
  BY <1>7, SetClockKeeps
<1>8. CASE UNCHANGED clockVars
  BY <1>8 DEF clockVars, ClockInv, ClockTypeOK, Stamped, Sampled, Near, Heeded, NoneAhead
<1> QED
  BY <1>1, <1>2, <1>3, <1>4, <1>5, <1>6, <1>7, <1>8 DEF ClockNext

-----------------------------------------------------------------------------
(* The clock: theorems                                                     *)

\* ClockInv holds of every reachable state of a clock.
THEOREM ClockInductive == ClockSpec => []ClockInv
<1>1. ClockInit => ClockInv
  <2> SUFFICES ASSUME ClockInit PROVE ClockInv
    OBVIOUS
  <2>1. /\ samples = <<>> /\ samples \in Seq(Sample) /\ Len(samples) = 0
        /\ DOMAIN samples = {}
    BY DEF ClockInit
  <2>2. ClockTypeOK
    BY <2>1, ClockAssumption DEF ClockInit, ClockTypeOK, Sample, Eras
  <2>3. Stamped /\ Sampled /\ Heeded /\ NoneAhead
    BY <2>1, ClockAssumption DEF ClockInit, Stamped, Sampled, Heeded, NoneAhead
  <2> QED
    BY <2>2, <2>3 DEF ClockInv
<1> QED
  BY <1>1, ClockStepKeepsInv, PTL DEF ClockSpec

\* The clock's variables keep their types (sync/clock.rs, ClockSync).
THEOREM ClockTypeCorrect == ClockSpec => []ClockTypeOK
<1>1. ClockInv => ClockTypeOK
  BY DEF ClockInv
<1> QED
  BY <1>1, ClockInductive, PTL

\* While most samples are of answers to their own requests and made since the
\* clock was last set, times are converted to within half the slowest round trip
\* of these; the offset is known after MinSamples answers of a peer well within
\* the drift accepted (process_response, offset, local_to_remote,
\* remote_to_local).
THEOREM OffsetIsTrueHolds == ClockSpec => []OffsetIsTrue
<1>1. ClockInv => OffsetIsTrue
  <2> SUFFICES ASSUME ClockInv PROVE OffsetIsTrue
    OBVIOUS
  <2>1. /\ samples \in Seq(Sample) /\ skew \in Int /\ now \in Nat /\ now <= MaxTime
        /\ Unknown \notin Int /\ MinSamples \in Nat /\ MinSamples >= 1
        /\ MaxTime \in Nat /\ MaxDrift \in Nat
    BY ClockAssumption DEF ClockInv, ClockTypeOK, Sample
  <2>2. Offset # Unknown <=> Len(samples) >= MinSamples
    <3>1. CASE Len(samples) >= MinSamples
      <4>1. 2 * Cardinality(DOMAIN samples) > Len(samples)
        BY <2>1, <3>1, SamplesAreFinite, SampleAt
      <4>2. Median \in Int
        BY <2>1, <4>1, MedianAmong DEF ClockInv, Sampled
      <4> QED
        BY <2>1, <3>1, <4>2, SampleAt DEF Offset
    <3>2. CASE ~(Len(samples) >= MinSamples)
      BY <2>1, <3>2, SampleAt DEF Offset
    <3> QED
      BY <3>1, <3>2
  <2>3. ASSUME Offset # Unknown, 2 * Cardinality(Own) > Len(samples)
        PROVE  \E i \in Own :
                  /\ Abs(2 * (LocalToRemote(now) - (now + skew))) <= samples[i].rtt + 1
                  /\ Abs(2 * (RemoteToLocal(now + skew) - now)) <= samples[i].rtt + 1
    <3>1. Own \in SUBSET DOMAIN samples
      BY DEF Own
    <3>2. /\ Median \in Int
          /\ \E i \in Own : samples[i].offset <= Median
          /\ \E j \in Own : Median <= samples[j].offset
      BY <2>1, <2>3, <3>1, MedianAmong DEF ClockInv, Sampled
    <3>3. PICK i \in Own : samples[i].offset <= Median
      BY <3>2
    <3>4. PICK j \in Own : Median <= samples[j].offset
      BY <3>2
    <3>5. \A k \in Own : /\ Near(samples[k])
                         /\ samples[k].offset \in Int /\ samples[k].rtt \in Nat
      BY <2>1, SampleAt DEF Own, ClockInv, Sampled
    <3>6. /\ 2 * (skew - Median) <= samples[i].rtt
          /\ 2 * (Median - skew) <= samples[j].rtt + 1
      <4>1. /\ 2 * (skew - samples[i].offset) <= samples[i].rtt
            /\ 2 * (samples[j].offset - skew) <= samples[j].rtt + 1
        BY <3>3, <3>4, <3>5 DEF Near
      <4>2. \A x, y, z \in Int, r \in Nat :
               /\ x <= y /\ 2 * (z - x) <= r => 2 * (z - y) <= r
               /\ y <= x /\ 2 * (x - z) <= r + 1 => 2 * (y - z) <= r + 1
        OBVIOUS
      <4>3. 2 * (skew - Median) <= samples[i].rtt
        BY <2>1, <3>2, <3>3, <3>5, <4>1, <4>2
      <4>4. 2 * (Median - skew) <= samples[j].rtt + 1
        BY <2>1, <3>2, <3>4, <3>5, <4>1, <4>2
      <4> QED
        BY <4>3, <4>4
    <3>7. /\ LocalToRemote(now) - (now + skew) = Median - skew
          /\ RemoteToLocal(now + skew) - now = skew - Median
      <4>1. LocalToRemote(now) = now + Median /\ RemoteToLocal(now + skew) = now + skew - Median
        <5>1. Offset = Median
          BY <2>3 DEF Offset
        <5> QED
          BY <2>1, <2>3, <3>2, <5>1 DEF LocalToRemote, RemoteToLocal
      <4> QED
        BY <2>1, <3>2, <4>1
    <3>8. PICK k \in {i, j} : samples[i].rtt <= samples[k].rtt /\ samples[j].rtt <= samples[k].rtt
      <4>1. samples[i].rtt \in Nat /\ samples[j].rtt \in Nat
        BY <3>3, <3>4, <3>5
      <4>2. CASE samples[i].rtt <= samples[j].rtt
        BY <4>1, <4>2
      <4>3. CASE ~(samples[i].rtt <= samples[j].rtt)
        BY <4>1, <4>3
      <4> QED
        BY <4>2, <4>3
    <3>9. /\ 2 * (skew - Median) <= samples[k].rtt + 1
          /\ 2 * (Median - skew) <= samples[k].rtt + 1
          /\ k \in Own
      <4>1. /\ samples[i].rtt \in Nat /\ samples[j].rtt \in Nat
            /\ samples[k].rtt \in Nat /\ k \in Own
        BY <3>3, <3>4, <3>5, <3>8
      <4>2. \A x \in Int, r, q \in Nat : r <= q /\ (x <= r \/ x <= r + 1) => x <= q + 1
        OBVIOUS
      <4>3. 2 * (skew - Median) \in Int /\ 2 * (Median - skew) \in Int
        BY <2>1, <3>2
      <4>4. 2 * (skew - Median) <= samples[k].rtt + 1
        BY <3>6, <3>8, <4>1, <4>2, <4>3
      <4>5. 2 * (Median - skew) <= samples[k].rtt + 1
        BY <3>6, <3>8, <4>1, <4>2, <4>3
      <4> QED
        BY <4>1, <4>4, <4>5
    <3>10. /\ Abs(2 * (Median - skew)) <= samples[k].rtt + 1
           /\ Abs(2 * (skew - Median)) <= samples[k].rtt + 1
      <4>1. samples[k].rtt \in Nat
        BY <3>5, <3>9
      <4> QED
        BY <2>1, <3>2, <3>9, <4>1 DEF Abs
    <3> QED
      BY <3>7, <3>9, <3>10
  <2>4. Abs(skew) + MaxTime < MaxDrift /\ heard = MinSamples => Offset # Unknown
    BY <2>2 DEF ClockInv, Heeded
  <2> QED
    BY <2>3, <2>4 DEF OffsetIsTrue
<1> QED
  BY <1>1, ClockInductive, PTL

-----------------------------------------------------------------------------
(* The composition                                                         *)

\* Side by side in MCLibrary the parts of the library do what each does alone.
THEOREM LibraryComposes ==
    LibrarySpec => Spec /\ SenderSpec /\ ReceiverSpec /\ ClockSpec /\ CodecSpec
<1>1. LibraryInit => Init /\ SenderInit /\ ReceiverInit /\ ClockInit /\ CodecInit
  BY DEF LibraryInit
<1>2. [LibraryNext]_<<part, vars, senderVars, clockVars, codecVars, receiverVars>> =>
          /\ [Next]_vars /\ [SenderNext]_senderVars /\ [ReceiverNext]_receiverVars
          /\ [ClockNext]_clockVars /\ [CodecNext]_codecVars
  BY DEF LibraryNext
<1> QED
  BY <1>1, <1>2, PTL DEF LibrarySpec, Spec, SenderSpec, ReceiverSpec, ClockSpec, CodecSpec

\* Every variable of the library keeps its type, whichever of its parts a program
\* uses (JitterBuffer, Sender, Receiver, ClockSync, Packet).
THEOREM LibraryTypeCorrect == LibrarySpec => []LibraryTypeOK
<1>1. /\ TypeOK /\ SenderTypeOK /\ ReceiverTypeOK /\ ClockTypeOK /\ CodecTypeOK
      => LibraryTypeOK
  BY DEF LibraryTypeOK
<1> QED
  BY <1>1, LibraryComposes, TypeCorrect, SenderTypeCorrect, ReceiverTypeCorrect,
     ClockTypeCorrect, CodecTypeCorrect, PTL

\* What is proved of each part alone holds of the library as it is run.
THEOREM LibraryKeepsPromises ==
    LibrarySpec =>
        /\ ResumesAtTarget
        /\ [](/\ NothingBufferedIsLate /\ OffsetIsTrue
              /\ ProtectedOnce /\ RepairFollowsData /\ ClosedIsFlushed
              /\ FramesAreWhole /\ EachFragmentOnce /\ ParityRecovers
              /\ ArrivesAsSent /\ NeverMistaken)
BY LibraryComposes, ResumesAtTargetHolds, NothingBufferedIsLateHolds, OffsetIsTrueHolds,
   ProtectedOnceHolds, RepairFollowsDataHolds, ClosedIsFlushedHolds, FramesAreWholeHolds,
   EachFragmentOnceHolds, ParityRecoversHolds, ArrivesAsSentHolds, NeverMistakenHolds, PTL
=============================================================================
