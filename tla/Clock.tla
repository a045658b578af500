------------------------------- MODULE Clock -------------------------------
(***************************************************************************)
(* Clock synchronisation (sync/clock.rs): a ClockSync whose requests are   *)
(* answered by a peer over a network that delays, reorders and loses them. *)
(* Time is the local clock; the peer's clock is ahead of it by skew.  It   *)
(* is the system's clock, which may be set, forwards or back.              *)
(***************************************************************************)
EXTENDS Integers, Sequences, FiniteSets

CONSTANTS
    Skews,        \* bound: how far the peer's clock may be ahead at first
    Steps,        \* bound: by how much the local clock may be set
    MaxSets,      \* bound: how often it is set
    MaxTime,      \* bound: the local time at the end
    MaxInFlight,  \* bound: requests and answers on their way
    SampleCount,  \* config.sample_count
    MinSamples,   \* config.min_samples
    MaxDrift,     \* config.max_drift_us
    Unknown       \* Option::None

ASSUME ClockAssumption ==
    /\ Skews \subseteq Int /\ Steps \subseteq Int /\ MaxSets \in Nat
    /\ Unknown \notin Int
    /\ MaxTime \in Nat /\ MaxDrift \in Nat /\ MaxInFlight \in Nat
    /\ SampleCount \in Nat \ {0} /\ MinSamples \in 1..SampleCount

VARIABLES
    skew,     \* the peer's clock minus the local one
    now,      \* current_time_us
    request,  \* ClockSync::pending_request
    samples,  \* ClockSync::samples; own is history: the answer was that of the
              \* request it was taken for, and the clock was not set since
    asked,    \* requests on their way to the peer
    answers,  \* answers on their way back
    era,      \* history: how often the clock was set
    heard     \* history: answers of this era processed since the last reset,
              \* up to MinSamples

clockVars == <<skew, now, request, samples, asked, answers, era, heard>>

Eras == 0..MaxSets

ClockTypeOK ==
    /\ skew \in Int /\ now \in 0..MaxTime
    /\ request \in 0..MaxTime \cup {Unknown}
    /\ samples \in Seq([offset : Int, rtt : Nat, own : BOOLEAN])
    /\ asked \subseteq [sent : 0..MaxTime, era : Eras]
    /\ answers \subseteq [sent : 0..MaxTime, era : Eras, remote : Int]
    /\ era \in Eras /\ heard \in 0..MinSamples

ClockInit ==
    /\ skew \in Skews /\ now = 0
    /\ request = Unknown /\ samples = <<>>
    /\ asked = {} /\ answers = {}
    /\ era = 0 /\ heard = 0

-----------------------------------------------------------------------------
Abs(n) == IF n < 0 THEN -n ELSE n

\* Mutant: the remote time is taken to be that of the answer's arrival.
OffsetOnArrival(sent, remote, received) == remote - received

\* offset: the remote time against the middle of the round trip.  Times are
\* positive, so the truncation of "/" rounds down.
SampleOffset(sent, remote, received) == remote - (sent + received) \div 2

\* The last count samples are kept.
Keep(seq, sample) ==
    IF Len(seq) >= SampleCount THEN Append(Tail(seq), sample) ELSE Append(seq, sample)

Offsets == {samples[i].offset : i \in DOMAIN samples}
UpTo(x) == {i \in DOMAIN samples : samples[i].offset <= x}

\* Mutant: the offsets are not sorted.
MedianUnsorted == samples[Len(samples) \div 2 + 1].offset

\* The middle one of the sorted offsets, the upper one of an even number: the
\* least that more than half of them do not exceed.
Median ==
    LET Middle == {x \in Offsets : 2 * Cardinality(UpTo(x)) > Len(samples)}
    IN  CHOOSE x \in Middle : \A y \in Middle : x <= y

\* offset()
Offset == IF Len(samples) < MinSamples THEN Unknown ELSE Median

\* local_to_remote and remote_to_local
LocalToRemote(local) == IF Offset = Unknown THEN Unknown ELSE local + Offset
RemoteToLocal(remote) == IF Offset = Unknown THEN Unknown ELSE remote - Offset

Tick ==
    /\ now < MaxTime
    /\ now' = now + 1
    /\ UNCHANGED <<skew, request, samples, asked, answers, era, heard>>

\* The local clock is set.
SetClock(by) ==
    /\ era < MaxSets
    /\ now + by \in 0..MaxTime
    /\ now' = now + by /\ skew' = skew - by
    /\ era' = era + 1 /\ heard' = 0
    /\ samples' = [i \in DOMAIN samples |-> [samples[i] EXCEPT !.own = FALSE]]
    /\ UNCHANGED <<request, asked, answers>>

\* A request replaces one that has not been answered.
StartRequest ==
    LET message == [sent |-> now, era |-> era]
    IN  /\ message \notin asked
        /\ Cardinality(asked) + Cardinality(answers) < MaxInFlight
        /\ request' = now
        /\ asked' = asked \cup {message}
        /\ UNCHANGED <<skew, now, samples, answers, era, heard>>

\* The peer reads its clock.
Answer(q) ==
    /\ q \in asked
    /\ asked' = asked \ {q}
    /\ answers' = answers \cup {[sent |-> q.sent, era |-> q.era, remote |-> now + skew]}
    /\ UNCHANGED <<skew, now, request, samples, era, heard>>

Lose(message) ==
    /\ message \in asked \cup answers
    /\ asked' = asked \ {message}
    /\ answers' = answers \ {message}
    /\ UNCHANGED <<skew, now, request, samples, era, heard>>

\* saturating_sub: no round trip is shorter than nothing.
RoundTrip(sent, received) == IF received >= sent THEN received - sent ELSE 0

\* The answer carries nothing that says which request it belongs to.
ProcessResponse(a) ==
    /\ a \in answers
    /\ answers' = answers \ {a}
    /\ request' = Unknown
    /\ IF request = Unknown
       THEN UNCHANGED <<samples, heard>>
       ELSE LET offset == SampleOffset(request, a.remote, now)
                sample == [offset |-> offset, rtt |-> RoundTrip(request, now),
                           own |-> request = a.sent /\ a.era = era]
            IN  /\ samples' = IF Abs(offset) < MaxDrift THEN Keep(samples, sample)
                              ELSE samples
                /\ heard' = IF a.era = era /\ heard < MinSamples THEN heard + 1
                            ELSE heard
    /\ UNCHANGED <<skew, now, asked, era>>

Reset ==
    /\ samples' = <<>> /\ request' = Unknown
    /\ heard' = 0
    /\ UNCHANGED <<skew, now, asked, answers, era>>

ClockNext ==
    \/ Tick \/ StartRequest \/ Reset
    \/ \E by \in Steps : SetClock(by)
    \/ \E q \in asked : Answer(q)
    \/ \E message \in asked \cup answers : Lose(message)
    \/ \E a \in answers : ProcessResponse(a)

ClockSpec == ClockInit /\ [][ClockNext]_clockVars

-----------------------------------------------------------------------------
(* Properties                                                              *)

\* The samples of answers that were taken for those of their own requests, and
\* of requests made since the clock was last set.
Own == {i \in DOMAIN samples : samples[i].own}

\* Whatever is delayed or lost: while most samples are of answers to their own
\* requests (an answer carries no number, and a late one is measured against
\* the last request) and were made since the clock was last set, times are
\* converted to the peer's clock and back to within half of the slowest round
\* trip among those; and the offset is known after MinSamples answers of a peer
\* whose clock is well within the drift accepted.
OffsetIsTrue ==
    /\ Offset # Unknown /\ 2 * Cardinality(Own) > Len(samples) =>
           \E i \in Own :
              /\ Abs(2 * (LocalToRemote(now) - (now + skew))) <= samples[i].rtt + 1
              /\ Abs(2 * (RemoteToLocal(now + skew) - now)) <= samples[i].rtt + 1
    /\ Abs(skew) + MaxTime < MaxDrift /\ heard = MinSamples => Offset # Unknown
=============================================================================
