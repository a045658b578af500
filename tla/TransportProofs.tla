-------------------------- MODULE TransportProofs --------------------------
(***************************************************************************)
(* Proofs about the two ends of a transport: the sender and its FEC        *)
(* groups, for every group size, frame size and number of overlapping      *)
(* calls; the receiver and its FEC decoder, for every set of packets a     *)
(* network may bring in any order, any number of times or never.           *)
(***************************************************************************)
EXTENDS Sender, Receiver, FiniteSetTheorems, SequenceTheorems, TLAPS

-----------------------------------------------------------------------------
(* The sender: its inductive invariant                                     *)

\* The places a protected packet can be in, as the packets they hold.
Elements(s) == {s[i] : i \in DOMAIN s}
Waiting == Elements(pending)
Grouped(g) == Elements(groups[g])
Carried(t) == IF At(t, "push") THEN {task[t].packet}
              ELSE IF At(t, "encode") THEN Elements(task[t].group)
              ELSE {}

\* No packet is in two places, nor waits twice for its group.
OnePlace ==
    /\ \A i, j \in DOMAIN pending : pending[i] = pending[j] => i = j
    /\ \A g \in DOMAIN groups : Waiting \cap Grouped(g) = {}
    /\ \A t \in Tasks : Waiting \cap Carried(t) = {}
    /\ \A g \in DOMAIN groups, t \in Tasks : Grouped(g) \cap Carried(t) = {}
    /\ \A g, h \in DOMAIN groups : g # h => Grouped(g) \cap Grouped(h) = {}
    /\ \A t, u \in Tasks : t # u => Carried(t) \cap Carried(u) = {}

\* Every protected packet is in a place.
Placed ==
    FecEnabled => \A s \in media : \/ s \in Waiting
                                   \/ \E g \in DOMAIN groups : s \in Grouped(g)
                                   \/ \E t \in Tasks : s \in Carried(t)

\* Sequence numbers are given out once.
Numbered ==
    /\ \A s \in Waiting : s < nextSeq
    /\ \A g \in DOMAIN groups : \A s \in Grouped(g) : s < nextSeq
    /\ \A t \in Tasks : \A s \in Carried(t) : s < nextSeq

\* A group is never larger than the decoder's, and repaired after it is made.
Sized ==
    /\ Len(pending) < DataShards
    /\ \A g \in DOMAIN groups : Len(groups[g]) \in 1 .. DataShards
    /\ \A t \in Tasks : /\ At(t, "encode") => Len(task[t].group) \in 1 .. DataShards
                        /\ At(t, "repair") => task[t].gid \in DOMAIN groups
    /\ \A r \in repairs : /\ r[1] \in DOMAIN groups
                          /\ \A s \in Grouped(r[1]) : s < r[2]

\* Calls that take turns are alone; a close that is past its flush, and a
\* session that is closed, leave no packet waiting.
Flushed ==
    /\ \A t \in Tasks : task[t].at \in {"packet", "push"} => task[t].kind # "close"
    /\ \A t \in Tasks : At(t, "closing") => task[t].kind = "close"
    /\ serial =>
         /\ \A t, u \in Tasks : t # u => At(t, "idle") \/ At(u, "idle")
         /\ \A t \in Tasks : /\ task[t].kind = "close"
                             /\ task[t].at \in {"encode", "repair", "closing"}
                             => pending = <<>>
         /\ session = "Closed" =>
              /\ pending = <<>>
              /\ \A t \in Tasks : task[t].at \notin {"packet", "push"}

SenderInv ==
    SenderTypeOK /\ OnePlace /\ Placed /\ Numbered /\ Sized /\ Flushed

-----------------------------------------------------------------------------
(* What one step does to a call, and to the packets in their places        *)

TaskType == [at : Points, kind : Kinds, left : 0..MaxFragments,
             packet : Nat, group : Seq(Nat), gid : Nat]

\* What appending a packet does to the packets of a sequence.
LEMMA ElementsOfAppend ==
    ASSUME NEW s \in Seq(Nat), NEW x \in Nat
    PROVE  /\ Elements(Append(s, x)) = Elements(s) \cup {x}
           /\ Append(s, x) \in Seq(Nat)
           /\ Len(Append(s, x)) = Len(s) + 1
           /\ Elements(s) \subseteq Nat
<1>1. /\ Append(s, x) \in Seq(Nat)
      /\ Len(Append(s, x)) = Len(s) + 1
      /\ \A i \in 1 .. Len(s) : Append(s, x)[i] = s[i]
      /\ Append(s, x)[Len(s) + 1] = x
      /\ DOMAIN s = 1 .. Len(s) /\ Len(s) \in Nat
      /\ DOMAIN Append(s, x) = 1 .. Len(s) + 1
  OBVIOUS
<1>2. Elements(Append(s, x)) = Elements(s) \cup {x}
  BY <1>1 DEF Elements
<1>3. Elements(s) \subseteq Nat
  BY <1>1 DEF Elements
<1> QED
  BY <1>1, <1>2, <1>3

\* A call that is not under way.
LEMMA IdleType == Idle \in TaskType /\ Idle.at = "idle"
BY SenderAssumption DEF Idle, TaskType, Points, Kinds

\* A call that goes on changes its point and nothing else of itself.
LEMMA GotoEffect ==
    ASSUME SenderTypeOK, NEW t \in Tasks, NEW p \in Points, Goto(t, p)
    PROVE  /\ task' \in [Tasks -> TaskType]
           /\ \A u \in Tasks \ {t} : task'[u] = task[u]
           /\ task'[t].at = p
           /\ task'[t].kind = task[t].kind
           /\ task'[t].group = task[t].group
           /\ task'[t].gid = task[t].gid
BY DEF SenderTypeOK, Goto, TaskType

\* A call that ends leaves nothing behind.
LEMMA ReturnEffect ==
    ASSUME SenderTypeOK, NEW t \in Tasks, Return(t)
    PROVE  /\ task' \in [Tasks -> TaskType]
           /\ \A u \in Tasks \ {t} : task'[u] = task[u]
           /\ task'[t].at = "idle"
BY IdleType DEF SenderTypeOK, Return, TaskType

\* A video call goes on to its next fragment, or ends.
LEMMA NextFragmentEffect ==
    ASSUME SenderTypeOK, NEW t \in Tasks, NextFragment(t)
    PROVE  /\ task' \in [Tasks -> TaskType]
           /\ \A u \in Tasks \ {t} : task'[u] = task[u]
           /\ task'[t].at \in {"idle", "packet"}
           /\ task'[t].at = "packet" => task'[t].kind = task[t].kind
<1>1. task[t] \in TaskType /\ task \in [Tasks -> TaskType]
  BY DEF SenderTypeOK, TaskType
<1>2. CASE task[t].left > 1
  <2>1. task' = [task EXCEPT ![t].at = "packet",
                             ![t].left = task[t].left - 1]
    BY <1>2 DEF NextFragment
  <2>2. task[t].left - 1 \in 0 .. MaxFragments
    BY <1>1, <1>2, SenderAssumption DEF TaskType
  <2> QED
    BY <1>1, <2>1, <2>2 DEF TaskType, Points
<1>3. CASE ~(task[t].left > 1)
  BY <1>3, ReturnEffect DEF NextFragment
<1> QED
  BY <1>2, <1>3

\* The group a call takes from the waiting packets.
LEMMA DrainEffect ==
    ASSUME SenderTypeOK, NEW t \in Tasks, NEW packets \in Seq(Nat),
           Drain(t, packets)
    PROVE  /\ task' \in [Tasks -> TaskType]
           /\ \A u \in Tasks \ {t} : task'[u] = task[u]
           /\ task'[t].at = "encode"
           /\ task'[t].kind = task[t].kind
           /\ task'[t].group = packets
           /\ pending' = <<>>
BY DEF SenderTypeOK, Drain, TaskType, Points

\* What is in a place is a sequence number.
LEMMA PlacesHoldNumbers ==
    ASSUME SenderTypeOK
    PROVE  /\ Waiting \subseteq Nat
           /\ \A g \in DOMAIN groups : Grouped(g) \subseteq Nat
           /\ \A t \in Tasks : Carried(t) \subseteq Nat
           /\ nextSeq \in Nat
<1>1. \A s \in Seq(Nat) : Elements(s) \subseteq Nat
  BY DEF Elements
<1>2. Waiting \subseteq Nat /\ nextSeq \in Nat
  BY <1>1 DEF SenderTypeOK, Waiting
<1>3. ASSUME NEW g \in DOMAIN groups PROVE Grouped(g) \subseteq Nat
  <2>1. groups[g] \in Seq(Nat)
    BY DEF SenderTypeOK
  <2> QED
    BY <1>1, <2>1 DEF Grouped
<1>4. ASSUME NEW t \in Tasks PROVE Carried(t) \subseteq Nat
  <2>1. task[t].packet \in Nat /\ task[t].group \in Seq(Nat)
    BY DEF SenderTypeOK
  <2> QED
    BY <1>1, <2>1 DEF Carried
<1> QED
  BY <1>2, <1>3, <1>4

-----------------------------------------------------------------------------
\* A step that leaves the packets where they are.
LEMMA SenderStillKeeps ==
    ASSUME SenderInv, NEW t \in Tasks,
           \A u \in Tasks \ {t} : task'[u] = task[u],
           task[t].at \notin {"push", "encode"},
           task'[t].at \notin {"push", "encode"},
           pending' = pending, groups' = groups,
           FecEnabled => media' = media,
           nextSeq' \in Nat, nextSeq' >= nextSeq
    PROVE  OnePlace' /\ Placed' /\ Numbered'
<1>1. Carried(t) = {} /\ Carried(t)' = {}
  BY DEF Carried, At
<1>2. \A u \in Tasks : u # t => Carried(u)' = Carried(u)
  BY DEF Carried, At
<1>3. Waiting' = Waiting /\ \A g : Grouped(g)' = Grouped(g)
  BY DEF Waiting, Grouped, Elements
<1>4. \A u \in Tasks : Carried(u)' = Carried(u)
  BY <1>1, <1>2
<1>5. OnePlace'
  BY <1>3, <1>4 DEF SenderInv, OnePlace
<1>6. Placed'
  BY <1>3, <1>4 DEF SenderInv, Placed
<1>7. Numbered'
  <2>1. /\ Waiting \subseteq Nat
        /\ \A g \in DOMAIN groups : Grouped(g) \subseteq Nat
        /\ \A u \in Tasks : Carried(u) \subseteq Nat
        /\ nextSeq \in Nat
    BY PlacesHoldNumbers DEF SenderInv
  <2> QED
    BY <1>3, <1>4, <2>1 DEF SenderInv, Numbered
<1> QED
  BY <1>5, <1>6, <1>7

\* A packet is put on the wire, on its way to a group.
LEMMA LaunchKeeps ==
    ASSUME SenderInv, NEW t \in Tasks,
           \A u \in Tasks \ {t} : task'[u] = task[u],
           task[t].at \notin {"push", "encode"},
           task'[t].at = "push", task'[t].packet = nextSeq,
           pending' = pending, groups' = groups,
           media' = media \cup {nextSeq}, nextSeq' = nextSeq + 1
    PROVE  OnePlace' /\ Placed' /\ Numbered'
<1>1. Carried(t) = {} /\ Carried(t)' = {nextSeq}
  BY DEF Carried, At
<1>2. \A u \in Tasks : u # t => Carried(u)' = Carried(u)
  BY DEF Carried, At
<1>3. Waiting' = Waiting /\ \A g : Grouped(g)' = Grouped(g)
  BY DEF Waiting, Grouped, Elements
<1>4. /\ Waiting \subseteq Nat
      /\ \A g \in DOMAIN groups : Grouped(g) \subseteq Nat
      /\ \A u \in Tasks : Carried(u) \subseteq Nat
      /\ nextSeq \in Nat
  BY PlacesHoldNumbers DEF SenderInv
<1>5. /\ nextSeq \notin Waiting
      /\ \A g \in DOMAIN groups : nextSeq \notin Grouped(g)
      /\ \A u \in Tasks : nextSeq \notin Carried(u)
  BY <1>4 DEF SenderInv, Numbered
<1>6. OnePlace'
  BY <1>1, <1>2, <1>3, <1>5 DEF SenderInv, OnePlace
<1>7. Placed'
  BY <1>1, <1>2, <1>3 DEF SenderInv, Placed
<1>8. Numbered'
  BY <1>1, <1>2, <1>3, <1>4 DEF SenderInv, Numbered
<1> QED
  BY <1>6, <1>7, <1>8

-----------------------------------------------------------------------------
(* The calls that leave the groups alone                                   *)

\* The next sequence number is a number, and so is the one after it.
LEMMA NextNumber ==
    ASSUME SenderInv
    PROVE  nextSeq \in Nat /\ nextSeq + 1 \in Nat /\ nextSeq + 1 >= nextSeq
           /\ nextSeq >= nextSeq
BY DEF SenderInv, SenderTypeOK

\* A step of a call that is under way.
LEMMA FlushedKeeps ==
    ASSUME SenderInv, NEW t \in Tasks, task[t].at # "idle",
           \A u \in Tasks \ {t} : task'[u] = task[u],
           serial' = serial,
           task'[t].at \in {"packet", "push"} => task'[t].kind # "close",
           task'[t].at = "closing" => task'[t].kind = "close",
           /\ serial /\ task'[t].kind = "close"
           /\ task'[t].at \in {"encode", "repair", "closing"}
           => pending' = <<>>,
           serial /\ session' = "Closed" =>
               pending' = <<>> /\ task'[t].at \notin {"packet", "push"}
    PROVE  Flushed'
<1>1. serial => \A u \in Tasks \ {t} : task[u].at = "idle"
  BY DEF SenderInv, Flushed, At
<1> QED
  BY <1>1 DEF SenderInv, Flushed, At

\* A step that makes no group and no repair.
LEMMA SizedKeeps ==
    ASSUME SenderInv, NEW t \in Tasks,
           \A u \in Tasks \ {t} : task'[u] = task[u],
           task'[t].at \notin {"encode", "repair"},
           pending' = pending, groups' = groups, repairs' = repairs
    PROVE  Sized'
BY DEF SenderInv, Sized, At, Grouped, Elements

-----------------------------------------------------------------------------
\* A call is made: no packet moves.
LEMMA CallKeeps ==
    ASSUME SenderInv, NEW t \in Tasks, NEW kind \in Kinds,
           NEW fragments \in 0 .. MaxFragments, Call(t, kind, fragments)
    PROVE  SenderInv'
<1>1. /\ task[t].at = "idle" /\ calls < MaxCalls /\ calls' = calls + 1
      /\ task' = [task EXCEPT ![t].at = "enter", ![t].kind = kind,
                              ![t].left = fragments]
      /\ serial' = (serial /\ \A u \in Tasks \ {t} : At(u, "idle"))
      /\ UNCHANGED <<session, holder, nextSeq, pending, groups, media, repairs>>
  BY DEF Call, At
<1>2. /\ task' \in [Tasks -> TaskType]
      /\ \A u \in Tasks \ {t} : task'[u] = task[u]
      /\ task'[t].at = "enter"
  <2>1. task \in [Tasks -> TaskType] /\ "enter" \in Points
    BY DEF SenderInv, SenderTypeOK, TaskType, Points
  <2> QED
    BY <1>1, <2>1 DEF TaskType
<1>3. calls' \in 0 .. MaxCalls
  <2>1. calls \in 0 .. MaxCalls /\ MaxCalls \in Nat
    BY SenderAssumption DEF SenderInv, SenderTypeOK
  <2> QED
    BY <1>1, <2>1
<1>4. serial' \in BOOLEAN
  BY <1>1
<1>5. SenderTypeOK'
  BY <1>1, <1>2, <1>3, <1>4 DEF SenderInv, SenderTypeOK, TaskType
<1>6. OnePlace' /\ Placed' /\ Numbered'
  BY <1>1, <1>2, NextNumber, SenderStillKeeps
<1>7. Sized'
  BY <1>1, <1>2, SizedKeeps
<1>8. Flushed'
  BY <1>1, <1>2 DEF SenderInv, Flushed, At
<1> QED
  BY <1>5, <1>6, <1>7, <1>8 DEF SenderInv

\* The session is opened.
LEMMA InitSessionKeeps ==
    ASSUME SenderInv, NEW t \in Tasks, InitSession(t)
    PROVE  SenderInv'
<1>1. /\ task[t].at = "enter" /\ nextSeq' = nextSeq + 1
      /\ session' \in {session, "Active"}
      /\ Return(t)
      /\ UNCHANGED <<holder, pending, groups, media, repairs, calls, serial>>
  BY DEF InitSession, Entering, At, TakeSequence
<1>2. /\ task' \in [Tasks -> TaskType]
      /\ \A u \in Tasks \ {t} : task'[u] = task[u]
      /\ task'[t].at = "idle"
  BY <1>1, ReturnEffect DEF SenderInv
<1>3. SenderTypeOK'
  <2>1. session' \in SessionStates \ {"Closing"} /\ nextSeq' \in Nat
    BY <1>1, NextNumber DEF SenderInv, SenderTypeOK, SessionStates
  <2> QED
    BY <1>1, <1>2, <2>1 DEF SenderInv, SenderTypeOK, TaskType
<1>4. OnePlace' /\ Placed' /\ Numbered'
  BY <1>1, <1>2, NextNumber, SenderStillKeeps
<1>5. Sized'
  BY <1>1, <1>2, SizedKeeps
<1>6. serial /\ session' = "Closed" => pending' = <<>>
  BY <1>1 DEF SenderInv, Flushed
<1>7. Flushed'
  BY <1>1, <1>2, <1>6, FlushedKeeps
<1> QED
  BY <1>3, <1>4, <1>5, <1>7 DEF SenderInv

\* A video frame starts, or is refused.
LEMMA ValidateVideoKeeps ==
    ASSUME SenderInv, NEW t \in Tasks, ValidateVideo(t)
    PROVE  SenderInv'
<1>1. /\ task[t].at = "enter" /\ task[t].kind = "video"
      /\ \/ session = "Active" /\ Goto(t, "packet")
         \/ session # "Active" /\ Return(t)
      /\ UNCHANGED <<session, holder, nextSeq, pending, groups, media, repairs,
                     calls, serial>>
  BY DEF ValidateVideo, Entering, At, Validated
<1>2. /\ task' \in [Tasks -> TaskType]
      /\ \A u \in Tasks \ {t} : task'[u] = task[u]
      /\ \/ /\ task'[t].at = "packet" /\ session = "Active"
            /\ task'[t].kind = "video"
         \/ task'[t].at = "idle"
  BY <1>1, GotoEffect, ReturnEffect DEF SenderInv, Points
<1>3. SenderTypeOK'
  BY <1>1, <1>2 DEF SenderInv, SenderTypeOK, TaskType
<1>4. OnePlace' /\ Placed' /\ Numbered'
  BY <1>1, <1>2, NextNumber, SenderStillKeeps
<1>5. Sized'
  BY <1>1, <1>2, SizedKeeps
<1>6. serial /\ session' = "Closed" => pending' = <<>>
  BY <1>1 DEF SenderInv, Flushed
<1>7. Flushed'
  BY <1>1, <1>2, <1>6, FlushedKeeps
<1> QED
  BY <1>3, <1>4, <1>5, <1>7 DEF SenderInv

\* A packet put on the wire with FEC: the next thing is its group.
LEMMA LaunchEffect ==
    ASSUME SenderTypeOK, NEW t \in Tasks,
           task' = [task EXCEPT ![t].at = "push", ![t].packet = nextSeq]
    PROVE  /\ task' \in [Tasks -> TaskType]
           /\ \A u \in Tasks \ {t} : task'[u] = task[u]
           /\ task'[t].at = "push"
           /\ task'[t].packet = nextSeq
           /\ task'[t].kind = task[t].kind
BY DEF SenderTypeOK, TaskType, Points

\* A fragment is sent: lost, on its way to a group, or without FEC.
LEMMA SendVideoPacketKeeps ==
    ASSUME SenderInv, NEW t \in Tasks, SendVideoPacket(t)
    PROVE  SenderInv'
<1>1. /\ task[t].at = "packet" /\ nextSeq' = nextSeq + 1
      /\ UNCHANGED <<session, pending, groups, repairs, calls, serial>>
  BY DEF SendVideoPacket, At, TakeSequence
<1>2. /\ nextSeq \in Nat /\ nextSeq' \in Nat /\ media \subseteq Nat
      /\ serial => session' # "Closed"
      /\ task[t].kind # "close"
  BY <1>1 DEF SenderInv, Flushed, SenderTypeOK
<1>3. CASE Return(t) /\ UNCHANGED <<media, holder>>
  <2>1. /\ task' \in [Tasks -> TaskType]
        /\ \A u \in Tasks \ {t} : task'[u] = task[u]
        /\ task'[t].at = "idle"
    BY <1>3, ReturnEffect DEF SenderInv
  <2>2. SenderTypeOK'
    BY <1>1, <1>2, <1>3, <2>1 DEF SenderInv, SenderTypeOK, TaskType
  <2>3. OnePlace' /\ Placed' /\ Numbered'
    BY <1>1, <1>3, <2>1, NextNumber, SenderStillKeeps
  <2>4. Sized'
    BY <1>1, <2>1, SizedKeeps
  <2>5. Flushed'
    BY <1>1, <1>2, <2>1, FlushedKeeps
  <2> QED
    BY <2>2, <2>3, <2>4, <2>5 DEF SenderInv
<1>4. CASE /\ FecEnabled /\ holder' = t /\ media' = media \cup {nextSeq}
           /\ task' = [task EXCEPT ![t].at = "push", ![t].packet = nextSeq]
  <2>1. /\ task' \in [Tasks -> TaskType]
        /\ \A u \in Tasks \ {t} : task'[u] = task[u]
        /\ task'[t].at = "push" /\ task'[t].packet = nextSeq
        /\ task'[t].kind = task[t].kind
    BY <1>4, LaunchEffect DEF SenderInv
  <2>2. SenderTypeOK'
    <3>1. media' \subseteq Nat /\ nextSeq' \in Nat
      BY <1>1, <1>4 DEF SenderInv, SenderTypeOK
    <3> QED
      BY <1>1, <1>4, <2>1, <3>1 DEF SenderInv, SenderTypeOK, TaskType
  <2>3. OnePlace' /\ Placed' /\ Numbered'
    BY <1>1, <1>4, <2>1, LaunchKeeps
  <2>4. Sized'
    BY <1>1, <2>1, SizedKeeps
  <2>5. Flushed'
    BY <1>1, <1>2, <2>1, FlushedKeeps
  <2> QED
    BY <2>2, <2>3, <2>4, <2>5 DEF SenderInv
<1>5. CASE ~FecEnabled /\ NextFragment(t) /\ UNCHANGED holder
           /\ media' = media \cup {nextSeq}
  <2>1. /\ task' \in [Tasks -> TaskType]
        /\ \A u \in Tasks \ {t} : task'[u] = task[u]
        /\ task'[t].at \in {"idle", "packet"}
        /\ task'[t].at = "packet" => task'[t].kind = task[t].kind
    BY <1>5, NextFragmentEffect DEF SenderInv
  <2>2. SenderTypeOK'
    <3>1. media' \subseteq Nat /\ nextSeq' \in Nat
      BY <1>1, <1>5 DEF SenderInv, SenderTypeOK
    <3> QED
      BY <1>1, <1>5, <2>1, <3>1 DEF SenderInv, SenderTypeOK, TaskType
  <2>3. OnePlace' /\ Placed' /\ Numbered'
    BY <1>1, <1>5, <2>1, NextNumber, SenderStillKeeps
  <2>4. Sized'
    BY <1>1, <2>1, SizedKeeps
  <2>5. Flushed'
    BY <1>1, <1>2, <2>1, FlushedKeeps
  <2> QED
    BY <2>2, <2>3, <2>4, <2>5 DEF SenderInv
<1> QED
  BY <1>3, <1>4, <1>5 DEF SendVideoPacket

\* An audio, DMX or mocap packet is sent, in the same three ways.
LEMMA SendTrackKeeps ==
    ASSUME SenderInv, NEW t \in Tasks, SendTrack(t)
    PROVE  SenderInv'
<1>1. /\ task[t].at = "enter" /\ task[t].kind = "track"
      /\ UNCHANGED <<session, holder, pending, groups, repairs, calls, serial>>
  BY DEF SendTrack, Entering, At
<1>2. nextSeq \in Nat /\ (serial /\ session' = "Closed" => pending' = <<>>)
  BY <1>1 DEF SenderInv, Flushed, SenderTypeOK
<1>3. CASE /\ Return(t) /\ nextSeq' \in {nextSeq, nextSeq + 1}
           /\ FecEnabled => media' = media
           /\ media' \in {media, media \cup {nextSeq}}
  <2>1. /\ task' \in [Tasks -> TaskType]
        /\ \A u \in Tasks \ {t} : task'[u] = task[u]
        /\ task'[t].at = "idle"
    BY <1>3, ReturnEffect DEF SenderInv
  <2>2. SenderTypeOK'
    <3>1. media' \subseteq Nat /\ nextSeq' \in Nat
      BY <1>2, <1>3 DEF SenderInv, SenderTypeOK
    <3> QED
      BY <1>1, <2>1, <3>1 DEF SenderInv, SenderTypeOK, TaskType
  <2>3. OnePlace' /\ Placed' /\ Numbered'
    <3>1. nextSeq' \in Nat /\ nextSeq' >= nextSeq
      BY <1>2, <1>3
    <3> QED
      BY <1>1, <1>3, <2>1, <3>1, SenderStillKeeps
  <2>4. Sized'
    BY <1>1, <2>1, SizedKeeps
  <2>5. Flushed'
    BY <1>1, <1>2, <2>1, FlushedKeeps
  <2> QED
    BY <2>2, <2>3, <2>4, <2>5 DEF SenderInv
<1>4. CASE /\ session = "Active" /\ nextSeq' = nextSeq + 1
           /\ media' = media \cup {nextSeq}
           /\ task' = [task EXCEPT ![t].at = "push", ![t].packet = nextSeq]
  <2>1. /\ task' \in [Tasks -> TaskType]
        /\ \A u \in Tasks \ {t} : task'[u] = task[u]
        /\ task'[t].at = "push" /\ task'[t].packet = nextSeq
        /\ task'[t].kind = task[t].kind
    BY <1>4, LaunchEffect DEF SenderInv
  <2>2. SenderTypeOK'
    <3>1. media' \subseteq Nat /\ nextSeq' \in Nat
      BY <1>2, <1>4 DEF SenderInv, SenderTypeOK
    <3> QED
      BY <1>1, <2>1, <3>1 DEF SenderInv, SenderTypeOK, TaskType
  <2>3. OnePlace' /\ Placed' /\ Numbered'
    BY <1>1, <1>4, <2>1, LaunchKeeps
  <2>4. Sized'
    BY <1>1, <2>1, SizedKeeps
  <2>5. Flushed'
    BY <1>1, <1>4, <2>1, FlushedKeeps
  <2> QED
    BY <2>2, <2>3, <2>4, <2>5 DEF SenderInv
<1> QED
  BY <1>3, <1>4 DEF SendTrack, Validated, TakeSequence

\* A sync point or a heartbeat only takes a number.
LEMMA SendControlKeeps ==
    ASSUME SenderInv, NEW t \in Tasks, SendControl(t)
    PROVE  SenderInv'
<1>1. /\ task[t].at = "enter" /\ nextSeq' \in {nextSeq, nextSeq + 1}
      /\ Return(t)
      /\ UNCHANGED <<session, holder, pending, groups, media, repairs, calls,
                     serial>>
  BY DEF SendControl, Entering, At, TakeSequence
<1>2. /\ task' \in [Tasks -> TaskType]
      /\ \A u \in Tasks \ {t} : task'[u] = task[u]
      /\ task'[t].at = "idle"
  BY <1>1, ReturnEffect DEF SenderInv
<1>3. nextSeq \in Nat /\ nextSeq' \in Nat /\ nextSeq' >= nextSeq
  BY <1>1 DEF SenderInv, SenderTypeOK
<1>4. SenderTypeOK'
  BY <1>1, <1>2, <1>3 DEF SenderInv, SenderTypeOK, TaskType
<1>5. OnePlace' /\ Placed' /\ Numbered'
  BY <1>1, <1>2, <1>3, SenderStillKeeps
<1>6. Sized'
  BY <1>1, <1>2, SizedKeeps
<1>7. serial /\ session' = "Closed" => pending' = <<>>
  BY <1>1 DEF SenderInv, Flushed
<1>8. Flushed'
  BY <1>1, <1>2, <1>7, FlushedKeeps
<1> QED
  BY <1>4, <1>5, <1>6, <1>8 DEF SenderInv

\* The session is closed: its flush has left nothing waiting.
LEMMA CloseSessionKeeps ==
    ASSUME SenderInv, NEW t \in Tasks, CloseSession(t)
    PROVE  SenderInv'
<1>1. /\ task[t].at = "closing" /\ session' = "Closed" /\ Return(t)
      /\ UNCHANGED <<holder, nextSeq, pending, groups, media, repairs, calls,
                     serial>>
  BY DEF CloseSession, At
<1>2. /\ task' \in [Tasks -> TaskType]
      /\ \A u \in Tasks \ {t} : task'[u] = task[u]
      /\ task'[t].at = "idle"
  BY <1>1, ReturnEffect DEF SenderInv
<1>3. SenderTypeOK'
  BY <1>1, <1>2 DEF SenderInv, SenderTypeOK, TaskType, SessionStates
<1>4. OnePlace' /\ Placed' /\ Numbered'
  BY <1>1, <1>2, NextNumber, SenderStillKeeps
<1>5. Sized'
  BY <1>1, <1>2, SizedKeeps
<1>6. serial => pending' = <<>>
  BY <1>1 DEF SenderInv, Flushed, At
<1>7. Flushed'
  BY <1>1, <1>2, <1>6, FlushedKeeps
<1> QED
  BY <1>3, <1>4, <1>5, <1>7 DEF SenderInv

-----------------------------------------------------------------------------
(* The packets on their way through a group                                *)

\* A call takes the whole of some packets along: those that wait and the one
\* it pushes.
LEMMA DrainKeeps ==
    ASSUME SenderInv, NEW t \in Tasks, NEW packets \in Seq(Nat),
           Elements(packets) = Waiting \cup Carried(t),
           \A u \in Tasks \ {t} : task'[u] = task[u],
           task'[t].at = "encode", task'[t].group = packets,
           pending' = <<>>, groups' = groups, media' = media,
           nextSeq' = nextSeq
    PROVE  OnePlace' /\ Placed' /\ Numbered'
<1>1. Carried(t)' = Waiting \cup Carried(t)
  BY DEF Carried, At
<1>2. \A u \in Tasks : u # t => Carried(u)' = Carried(u)
  BY DEF Carried, At
<1>3. Waiting' = {} /\ DOMAIN pending' = {}
  BY DEF Waiting, Elements
<1>4. \A g : Grouped(g)' = Grouped(g)
  BY DEF Grouped, Elements
<1>5. OnePlace'
  BY <1>1, <1>2, <1>3, <1>4 DEF SenderInv, OnePlace
<1>6. Placed'
  BY <1>1, <1>2, <1>3, <1>4 DEF SenderInv, Placed
<1>7. Numbered'
  BY <1>1, <1>2, <1>3, <1>4 DEF SenderInv, Numbered
<1> QED
  BY <1>5, <1>6, <1>7

\* A pushed packet joins those that wait.
LEMMA JoinKeeps ==
    ASSUME SenderInv, NEW t \in Tasks, task[t].at = "push",
           \A u \in Tasks \ {t} : task'[u] = task[u],
           task'[t].at \notin {"push", "encode"},
           pending' = Append(pending, task[t].packet), groups' = groups,
           media' = media, nextSeq' = nextSeq
    PROVE  OnePlace' /\ Placed' /\ Numbered'
<1>1. Carried(t) = {task[t].packet} /\ Carried(t)' = {}
  BY DEF Carried, At
<1>2. \A u \in Tasks : u # t => Carried(u)' = Carried(u)
  BY DEF Carried, At
<1>3. pending \in Seq(Nat) /\ task[t].packet \in Nat
  BY DEF SenderInv, SenderTypeOK
<1>4. Waiting' = Waiting \cup Carried(t)
  BY <1>1, <1>3, ElementsOfAppend DEF Waiting
<1>5. \A g : Grouped(g)' = Grouped(g)
  BY DEF Grouped, Elements
<1>6. task[t].packet \notin Waiting
  BY <1>1 DEF SenderInv, OnePlace
<1>7. \A i, j \in DOMAIN pending' : pending'[i] = pending'[j] => i = j
  <2>1. \A i \in DOMAIN pending : pending[i] # task[t].packet
    BY <1>6 DEF Waiting, Elements
  <2>2. \A i, j \in DOMAIN pending : pending[i] = pending[j] => i = j
    BY DEF SenderInv, OnePlace
  <2>3. /\ DOMAIN pending = 1 .. Len(pending) /\ Len(pending) \in Nat
        /\ DOMAIN pending' = 1 .. Len(pending) + 1
        /\ \A i \in 1 .. Len(pending) : pending'[i] = pending[i]
        /\ pending'[Len(pending) + 1] = task[t].packet
    BY <1>3
  <2> QED
    BY <2>1, <2>2, <2>3
<1>8. OnePlace'
  BY <1>1, <1>2, <1>4, <1>5, <1>7 DEF SenderInv, OnePlace
<1>9. Placed'
  BY <1>1, <1>2, <1>4, <1>5 DEF SenderInv, Placed
<1>10. Numbered'
  BY <1>1, <1>2, <1>4, <1>5 DEF SenderInv, Numbered
<1> QED
  BY <1>8, <1>9, <1>10

\* The pushed packet fills the group and goes with it, or joins those that wait.
LEMMA PushKeeps ==
    ASSUME SenderInv, NEW t \in Tasks, Push(t)
    PROVE  SenderInv'
<1> DEFINE filled == Append(pending, task[t].packet)
<1>1. /\ task[t].at = "push"
      /\ \/ Len(filled) >= DataShards /\ Drain(t, filled) /\ UNCHANGED holder
         \/ Len(filled) < DataShards /\ pending' = filled /\ Leave(t)
      /\ UNCHANGED <<session, nextSeq, groups, media, repairs, calls, serial>>
  <2>1. Len(filled) \in Nat /\ DataShards \in Nat
    BY SenderAssumption DEF SenderInv, SenderTypeOK
  <2> QED
    BY <2>1 DEF Push, At
<1>2. /\ pending \in Seq(Nat) /\ task[t].packet \in Nat
      /\ Len(pending) \in Nat /\ Len(pending) < DataShards
      /\ DataShards \in Nat \ {0}
  BY SenderAssumption DEF SenderInv, SenderTypeOK, Sized
<1>3. /\ filled \in Seq(Nat)
      /\ Len(filled) = Len(pending) + 1
      /\ Elements(filled) = Waiting \cup Carried(t)
  <2>1. Carried(t) = {task[t].packet}
    BY <1>1 DEF Carried, At
  <2> QED
    BY <1>2, <2>1, ElementsOfAppend DEF Waiting
<1>4. task[t].kind # "close" /\ (serial => session # "Closed")
  BY <1>1 DEF SenderInv, Flushed
<1>5. CASE Len(filled) >= DataShards /\ Drain(t, filled) /\ UNCHANGED holder
  <2>1. /\ task' \in [Tasks -> TaskType]
        /\ \A u \in Tasks \ {t} : task'[u] = task[u]
        /\ task'[t].at = "encode"
        /\ task'[t].kind = task[t].kind
        /\ task'[t].group = filled
        /\ pending' = <<>>
    <3> HIDE DEF filled
    <3> QED
      BY <1>3, <1>5, DrainEffect DEF SenderInv
  <2>2. SenderTypeOK'
    <3>1. pending' \in Seq(Nat)
      BY <2>1
    <3> QED
      BY <1>1, <1>5, <2>1, <3>1 DEF SenderInv, SenderTypeOK, TaskType
  <2>3. OnePlace' /\ Placed' /\ Numbered'
    <3> HIDE DEF filled
    <3> QED
      BY <1>1, <1>3, <2>1, DrainKeeps
  <2>4. Sized'
    <3>1. Len(task'[t].group) \in 1 .. DataShards /\ Len(pending') < DataShards
      <4>1. Len(filled) \in 1 .. DataShards
        BY <1>2, <1>3, <1>5
      <4> QED
        BY <1>2, <2>1, <4>1
    <3> QED
      BY <1>1, <2>1, <3>1 DEF SenderInv, Sized, At, Grouped, Elements
  <2>5. Flushed'
    BY <1>1, <1>4, <2>1, FlushedKeeps
  <2> QED
    BY <2>2, <2>3, <2>4, <2>5 DEF SenderInv
<1>6. CASE Len(filled) < DataShards /\ pending' = filled /\ Leave(t)
  <2>1. /\ task' \in [Tasks -> TaskType]
        /\ \A u \in Tasks \ {t} : task'[u] = task[u]
        /\ task'[t].at \in {"idle", "packet"}
        /\ task'[t].at = "packet" => task'[t].kind = task[t].kind
        /\ holder' \in {holder, Nobody}
    BY <1>6, NextFragmentEffect, ReturnEffect DEF Leave, SenderInv
  <2>2. SenderTypeOK'
    <3>1. pending' \in Seq(Nat) /\ holder' \in Tasks \cup {Nobody}
      BY <1>3, <1>6, <2>1 DEF SenderInv, SenderTypeOK
    <3> QED
      BY <1>1, <2>1, <3>1 DEF SenderInv, SenderTypeOK, TaskType
  <2>3. OnePlace' /\ Placed' /\ Numbered'
    BY <1>1, <1>6, <2>1, JoinKeeps
  <2>4. Sized'
    BY <1>1, <1>6, <2>1 DEF SenderInv, Sized, At, Grouped, Elements
  <2>5. Flushed'
    BY <1>1, <1>4, <2>1, FlushedKeeps
  <2> QED
    BY <2>2, <2>3, <2>4, <2>5 DEF SenderInv
<1> QED
  BY <1>1, <1>5, <1>6

\* A flush takes what waits into a group that may be smaller.
LEMMA FlushKeeps ==
    ASSUME SenderInv, NEW t \in Tasks, Flush(t)
    PROVE  SenderInv'
<1>1. /\ task[t].at = "enter" /\ task[t].kind \in {"flush", "close"}
      /\ \/ pending # <<>> /\ Drain(t, pending)
         \/ /\ pending = <<>> /\ UNCHANGED pending
            /\ \/ task[t].kind = "close" /\ Goto(t, "closing")
               \/ Return(t)
      /\ UNCHANGED <<session, holder, nextSeq, groups, media, repairs, calls,
                     serial>>
  BY DEF Flush, Entering, At
<1>2. /\ pending \in Seq(Nat) /\ Len(pending) \in Nat
      /\ Len(pending) < DataShards /\ DataShards \in Nat \ {0}
      /\ pending # <<>> => Len(pending) > 0
      /\ serial /\ session' = "Closed" => pending = <<>>
  BY <1>1, SenderAssumption DEF SenderInv, SenderTypeOK, Sized, Flushed
<1>3. CASE pending # <<>> /\ Drain(t, pending)
  <2>1. /\ task' \in [Tasks -> TaskType]
        /\ \A u \in Tasks \ {t} : task'[u] = task[u]
        /\ task'[t].at = "encode"
        /\ task'[t].group = pending
        /\ pending' = <<>>
    BY <1>2, <1>3, DrainEffect DEF SenderInv
  <2>2. SenderTypeOK'
    <3>1. pending' \in Seq(Nat)
      BY <2>1
    <3> QED
      BY <1>1, <2>1, <3>1 DEF SenderInv, SenderTypeOK, TaskType
  <2>3. OnePlace' /\ Placed' /\ Numbered'
    <3>1. Elements(pending) = Waiting \cup Carried(t)
      BY <1>1 DEF Waiting, Carried, At
    <3> QED
      BY <1>1, <1>2, <2>1, <3>1, DrainKeeps
  <2>4. Sized'
    <3>1. Len(task'[t].group) \in 1 .. DataShards /\ Len(pending') < DataShards
      <4>1. Len(pending) \in 1 .. DataShards
        BY <1>2, <1>3
      <4> QED
        BY <1>2, <2>1, <4>1
    <3> QED
      BY <1>1, <2>1, <3>1 DEF SenderInv, Sized, At, Grouped, Elements
  <2>5. Flushed'
    BY <1>1, <2>1, FlushedKeeps
  <2> QED
    BY <2>2, <2>3, <2>4, <2>5 DEF SenderInv
<1>4. CASE /\ pending = <<>> /\ UNCHANGED pending
           /\ \/ task[t].kind = "close" /\ Goto(t, "closing")
              \/ Return(t)
  <2>1. /\ task' \in [Tasks -> TaskType]
        /\ \A u \in Tasks \ {t} : task'[u] = task[u]
        /\ \/ task'[t].at = "idle"
           \/ task'[t].at = "closing" /\ task'[t].kind = "close"
    BY <1>4, GotoEffect, ReturnEffect DEF SenderInv, Points
  <2>2. SenderTypeOK'
    BY <1>1, <1>4, <2>1 DEF SenderInv, SenderTypeOK, TaskType
  <2>3. OnePlace' /\ Placed' /\ Numbered'
    BY <1>1, <1>4, <2>1, NextNumber, SenderStillKeeps
  <2>4. Sized'
    BY <1>1, <1>4, <2>1, SizedKeeps
  <2>5. Flushed'
    BY <1>1, <1>4, <2>1, FlushedKeeps
  <2> QED
    BY <2>2, <2>3, <2>4, <2>5 DEF SenderInv
<1> QED
  BY <1>1, <1>3, <1>4

\* The group gets its number: its packets change place together.
LEMMA EncodeGroupKeeps ==
    ASSUME SenderInv, NEW t \in Tasks, EncodeGroup(t)
    PROVE  SenderInv'
<1>1. /\ task[t].at = "encode"
      /\ groups' = Append(groups, task[t].group)
      /\ task' = [task EXCEPT ![t].at = "repair", ![t].gid = Len(groups) + 1,
                              ![t].group = <<>>]
      /\ UNCHANGED <<session, holder, nextSeq, pending, media, repairs, calls,
                     serial>>
  BY DEF EncodeGroup, At
<1>2. /\ groups \in Seq(Seq(Nat)) /\ task[t].group \in Seq(Nat)
      /\ task \in [Tasks -> TaskType]
      /\ Len(groups) \in Nat
      /\ Len(task[t].group) \in 1 .. DataShards
  BY <1>1 DEF SenderInv, SenderTypeOK, TaskType, Sized, At
<1>3. PICK new \in Nat : new = Len(groups) + 1
  BY <1>2
<1>4. /\ task' \in [Tasks -> TaskType]
      /\ \A u \in Tasks \ {t} : task'[u] = task[u]
      /\ task'[t].at = "repair" /\ task'[t].kind = task[t].kind
      /\ task'[t].gid = new
  <2>1. <<>> \in Seq(Nat) /\ "repair" \in Points
    BY DEF Points
  <2> QED
    BY <1>1, <1>2, <1>3, <2>1 DEF TaskType
<1>5. /\ groups' \in Seq(Seq(Nat))
      /\ DOMAIN groups = 1 .. Len(groups)
      /\ DOMAIN groups' = DOMAIN groups \cup {new}
      /\ new \notin DOMAIN groups
      /\ \A g \in DOMAIN groups : groups'[g] = groups[g]
      /\ groups'[new] = task[t].group
  BY <1>1, <1>2, <1>3
<1>6. /\ Carried(t) = Elements(task[t].group) /\ Carried(t)' = {}
      /\ \A u \in Tasks : u # t => Carried(u)' = Carried(u)
      /\ Waiting' = Waiting
  <2>1. Carried(t) = Elements(task[t].group) /\ Carried(t)' = {}
    BY <1>1, <1>4 DEF Carried, At
  <2>2. \A u \in Tasks : u # t => Carried(u)' = Carried(u)
    BY <1>4 DEF Carried, At
  <2>3. Waiting' = Waiting
    BY <1>1 DEF Waiting, Elements
  <2> QED
    BY <2>1, <2>2, <2>3
<1>7. /\ \A g \in DOMAIN groups : Grouped(g)' = Grouped(g)
      /\ Grouped(new)' = Carried(t)
  <2>1. \A g \in DOMAIN groups : Grouped(g)' = Grouped(g)
    BY <1>5 DEF Grouped, Elements
  <2>2. Grouped(new)' = Elements(task[t].group)
    BY <1>5 DEF Grouped, Elements
  <2> QED
    BY <1>6, <2>1, <2>2
<1>8. OnePlace'
  <2> USE DEF SenderInv, OnePlace
  <2>1. \A i, j \in DOMAIN pending : pending[i] = pending[j] => i = j
    OBVIOUS
  <2>2. \A g \in DOMAIN groups' : Waiting \cap Grouped(g)' = {}
    BY <1>5, <1>7
  <2>3. \A u \in Tasks : Waiting \cap Carried(u)' = {}
    BY <1>6
  <2>4. \A g \in DOMAIN groups', u \in Tasks : Grouped(g)' \cap Carried(u)' = {}
    <3>1. \A g \in DOMAIN groups, u \in Tasks : Grouped(g)' \cap Carried(u)' = {}
      BY <1>6, <1>7
    <3>2. \A u \in Tasks : Grouped(new)' \cap Carried(u)' = {}
      BY <1>6, <1>7
    <3> HIDE DEF SenderInv, OnePlace
    <3> QED
      BY <1>5, <3>1, <3>2
  <2>5. \A g, h \in DOMAIN groups' : g # h => Grouped(g)' \cap Grouped(h)' = {}
    <3>1. \A g \in DOMAIN groups : Grouped(g)' \cap Grouped(new)' = {}
      BY <1>7
    <3>2. \A g, h \in DOMAIN groups : g # h => Grouped(g)' \cap Grouped(h)' = {}
      BY <1>7
    <3> HIDE DEF SenderInv, OnePlace
    <3> QED
      BY <1>5, <3>1, <3>2
  <2>6. \A u, v \in Tasks : u # v => Carried(u)' \cap Carried(v)' = {}
    BY <1>6
  <2> QED
    BY <1>1, <1>6, <2>1, <2>2, <2>3, <2>4, <2>5, <2>6
<1>9. Placed'
  BY <1>1, <1>5, <1>6, <1>7 DEF SenderInv, Placed
<1>10. Numbered'
  <2>1. \A g \in DOMAIN groups' : \A s \in Grouped(g)' : s < nextSeq
    <3>1. \A s \in Carried(t) : s < nextSeq
      BY DEF SenderInv, Numbered
    <3>2. \A g \in DOMAIN groups : \A s \in Grouped(g)' : s < nextSeq
      BY <1>7 DEF SenderInv, Numbered
    <3> QED
      BY <1>5, <1>7, <3>1, <3>2
  <2> QED
    BY <1>1, <1>6, <2>1 DEF SenderInv, Numbered
<1>11. SenderTypeOK'
  BY <1>1, <1>4, <1>5 DEF SenderInv, SenderTypeOK, TaskType
<1>12. Sized'
  <2>1. \A g \in DOMAIN groups' : Len(groups'[g]) \in 1 .. DataShards
    BY <1>2, <1>5 DEF SenderInv, Sized
  <2>2. \A u \in Tasks :
           /\ At(u, "encode")' => Len(task'[u].group) \in 1 .. DataShards
           /\ At(u, "repair")' => task'[u].gid \in DOMAIN groups'
    BY <1>4, <1>5 DEF SenderInv, Sized, At
  <2>3. \A r \in repairs : /\ r[1] \in DOMAIN groups'
                           /\ \A s \in Grouped(r[1])' : s < r[2]
    BY <1>5, <1>7 DEF SenderInv, Sized
  <2> QED
    BY <1>1, <2>1, <2>2, <2>3 DEF SenderInv, Sized
<1>13. serial /\ task'[t].kind = "close" => pending' = <<>>
  BY <1>1, <1>4 DEF SenderInv, Flushed
<1>14. serial /\ session' = "Closed" => pending' = <<>>
  BY <1>1 DEF SenderInv, Flushed
<1>15. Flushed'
  BY <1>1, <1>4, <1>13, <1>14, FlushedKeeps
<1> QED
  BY <1>8, <1>9, <1>10, <1>11, <1>12, <1>15 DEF SenderInv

\* A repair takes a number after every packet of the group it repairs.
LEMMA SendRepairKeeps ==
    ASSUME SenderInv, NEW t \in Tasks, SendRepair(t)
    PROVE  SenderInv'
<1>1. PICK n \in 0 .. ParityShards :
         /\ repairs' = repairs \cup
                {<<task[t].gid, nextSeq + i>> : i \in {k \in 0..n : k < n}}
         /\ nextSeq' \in {nextSeq + n, nextSeq + n + 1}
         /\ \/ task[t].kind = "close" /\ Goto(t, "closing")
            \/ Return(t)
  BY DEF SendRepair
<1>2. /\ task[t].at = "repair"
      /\ UNCHANGED <<session, holder, pending, groups, media, calls, serial>>
  BY DEF SendRepair, At
<1>3. /\ task' \in [Tasks -> TaskType]
      /\ \A u \in Tasks \ {t} : task'[u] = task[u]
      /\ \/ task'[t].at = "idle"
         \/ /\ task'[t].at = "closing" /\ task'[t].kind = "close"
            /\ task[t].kind = "close"
  BY <1>1, GotoEffect, ReturnEffect DEF SenderInv, Points
<1>4. /\ nextSeq \in Nat /\ nextSeq' \in Nat /\ nextSeq' >= nextSeq
      /\ n \in Nat
  <2>1. nextSeq \in Nat /\ ParityShards \in Nat
    BY SenderAssumption DEF SenderInv, SenderTypeOK
  <2> QED
    BY <1>1, <2>1
<1>5. /\ repairs \subseteq Nat \X Nat /\ task[t].gid \in Nat
      /\ task[t].gid \in DOMAIN groups
  BY <1>2 DEF SenderInv, SenderTypeOK, Sized, At
<1>6. \A r \in repairs' : \/ r \in repairs
                          \/ /\ r[1] = task[t].gid
                             /\ r[2] \in Nat /\ r[2] >= nextSeq
                             /\ r \in Nat \X Nat
  BY <1>1, <1>4, <1>5
<1>7. SenderTypeOK'
  <2>1. repairs' \subseteq Nat \X Nat
    BY <1>5, <1>6
  <2> QED
    BY <1>2, <1>3, <1>4, <2>1 DEF SenderInv, SenderTypeOK, TaskType
<1>8. OnePlace' /\ Placed' /\ Numbered'
  BY <1>2, <1>3, <1>4, SenderStillKeeps
<1>9. Sized'
  <2>1. \A g : Grouped(g)' = Grouped(g)
    BY <1>2 DEF Grouped, Elements
  <2>2. \A g \in DOMAIN groups : \A s \in Grouped(g) : s \in Nat /\ s < nextSeq
    BY PlacesHoldNumbers DEF SenderInv, Numbered
  <2>3. \A r \in repairs' : /\ r[1] \in DOMAIN groups'
                            /\ \A s \in Grouped(r[1])' : s < r[2]
    <3>1. TAKE r \in repairs'
    <3>2. CASE r \in repairs
      BY <1>2, <2>1, <3>2 DEF SenderInv, Sized
    <3>3. CASE r \notin repairs
      <4>1. r[1] = task[t].gid /\ r[2] \in Nat /\ r[2] >= nextSeq
        BY <1>6, <3>3
      <4>2. \A s \in Grouped(task[t].gid) : s \in Nat /\ s < nextSeq
        BY <1>5, <2>2
      <4>3. \A s \in Grouped(task[t].gid) : s < r[2]
        BY <1>4, <4>1, <4>2
      <4> QED
        BY <1>2, <1>5, <2>1, <4>1, <4>3
    <3> QED
      BY <3>2, <3>3
  <2> QED
    BY <1>2, <1>3, <2>3 DEF SenderInv, Sized, At
<1>10. Flushed'
  <2>1. serial /\ task[t].kind = "close" => pending = <<>>
    BY <1>2 DEF SenderInv, Flushed
  <2>2. serial /\ session' = "Closed" => pending' = <<>>
    BY <1>2 DEF SenderInv, Flushed
  <2> QED
    BY <1>2, <1>3, <2>1, <2>2, FlushedKeeps
<1> QED
  BY <1>7, <1>8, <1>9, <1>10 DEF SenderInv

-----------------------------------------------------------------------------
\* A new sender has no packet anywhere.
LEMMA SenderInitEstablishes == SenderInit => SenderInv
<1> SUFFICES ASSUME SenderInit PROVE SenderInv
  OBVIOUS
<1>1. /\ pending = <<>> /\ groups = <<>> /\ \A t \in Tasks : At(t, "idle")
      /\ task \in [Tasks -> TaskType] /\ media = {} /\ repairs = {}
      /\ \A t \in Tasks : task[t].at = "idle"
  BY IdleType DEF SenderInit, At
<1>2. Waiting = {} /\ DOMAIN groups = {} /\ DOMAIN pending = {}
  BY <1>1 DEF Waiting, Elements
<1>3. \A t \in Tasks : Carried(t) = {}
  BY <1>1 DEF Carried, At
<1>4. SenderTypeOK
  <2>1. /\ pending \in Seq(Nat) /\ groups \in Seq(Seq(Nat))
        /\ calls \in 0 .. MaxCalls /\ nextSeq \in Nat
    BY SenderAssumption DEF SenderInit
  <2> QED
    BY <1>1, <2>1 DEF SenderInit, SenderTypeOK, TaskType, SessionStates
<1>5. OnePlace /\ Placed /\ Numbered
  BY <1>1, <1>2, <1>3 DEF OnePlace, Placed, Numbered
<1>6. Sized
  <2>1. Len(pending) < DataShards
    BY <1>1, SenderAssumption
  <2> QED
    BY <1>1, <1>2, <2>1 DEF Sized, At
<1>7. Flushed
  BY <1>1 DEF Flushed, At, SenderInit
<1> QED
  BY <1>4, <1>5, <1>6, <1>7 DEF SenderInv

\* The invariant is inductive.
LEMMA SenderStepKeepsInv == SenderInv /\ [SenderNext]_senderVars => SenderInv'
<1> SUFFICES ASSUME SenderInv, [SenderNext]_senderVars
             PROVE  SenderInv'
  OBVIOUS
<1>1. ASSUME NEW t \in Tasks, NEW kind \in Kinds \ {"video"}, Call(t, kind, 0)
      PROVE  SenderInv'
  <2>1. 0 \in 0 .. MaxFragments
    BY SenderAssumption
  <2> QED
    BY <1>1, <2>1, CallKeeps
<1>2. ASSUME NEW t \in Tasks, NEW fragments \in 1 .. MaxFragments,
             Call(t, "video", fragments)
      PROVE  SenderInv'
  <2>1. fragments \in 0 .. MaxFragments /\ "video" \in Kinds
    BY SenderAssumption DEF Kinds
  <2> QED
    BY <1>2, <2>1, CallKeeps
<1>3. ASSUME NEW t \in Tasks, Progress(t)
      PROVE  SenderInv'
  BY <1>3, InitSessionKeeps, ValidateVideoKeeps, SendVideoPacketKeeps,
     SendTrackKeeps, SendControlKeeps, PushKeeps, EncodeGroupKeeps,
     SendRepairKeeps, FlushKeeps, CloseSessionKeeps DEF Progress
<1>4. CASE UNCHANGED senderVars
  <2>1. /\ Waiting' = Waiting /\ \A g : Grouped(g)' = Grouped(g)
        /\ \A t : Carried(t)' = Carried(t)
    BY <1>4 DEF senderVars, Waiting, Grouped, Carried, Elements, At
  <2>2. SenderTypeOK'
    BY <1>4 DEF SenderInv, SenderTypeOK, senderVars
  <2>3. OnePlace' /\ Placed' /\ Numbered'
    BY <1>4, <2>1 DEF SenderInv, OnePlace, Placed, Numbered, senderVars
  <2>4. Sized' /\ Flushed'
    BY <1>4, <2>1 DEF SenderInv, Sized, Flushed, At, senderVars
  <2> QED
    BY <2>2, <2>3, <2>4 DEF SenderInv
<1> QED
  BY <1>1, <1>2, <1>3, <1>4 DEF SenderNext

-----------------------------------------------------------------------------
(* Theorems                                                                *)

\* In every reachable state of the sender the packets are where the
\* invariant says.
THEOREM SenderInductive == SenderSpec => []SenderInv
BY SenderInitEstablishes, SenderStepKeepsInv, PTL DEF SenderSpec

\* Every variable of the sender stays of its type.
THEOREM SenderTypeCorrect == SenderSpec => []SenderTypeOK
<1>1. SenderInv => SenderTypeOK
  BY DEF SenderInv
<1> QED
  BY <1>1, SenderInductive, PTL

\* The four counts of the places that hold a protected packet.
LEMMA OneCopy ==
    ASSUME SenderInv, FecEnabled, NEW s \in media
    PROVE  Copies(s) = 1
<1> DEFINE P == {i \in DOMAIN pending : pending[i] = s}
           G == {g \in DOMAIN groups : \E i \in DOMAIN groups[g] :
                                           groups[g][i] = s}
           H == {t \in Tasks : At(t, "push") /\ task[t].packet = s}
           E == {t \in Tasks : At(t, "encode") /\
                     \E i \in DOMAIN task[t].group : task[t].group[i] = s}
<1>1. /\ P # {} <=> s \in Waiting
      /\ \A i, j \in P : i = j
  BY DEF SenderInv, OnePlace, Waiting, Elements
<1>2. /\ G = {g \in DOMAIN groups : s \in Grouped(g)}
      /\ \A g, h \in G : g = h
  <2>1. \A g \in DOMAIN groups : s \in Grouped(g) <=>
            \E i \in DOMAIN groups[g] : groups[g][i] = s
    BY DEF Grouped, Elements
  <2> QED
    BY <2>1 DEF SenderInv, OnePlace
<1>3. /\ H \cup E = {t \in Tasks : s \in Carried(t)}
      /\ H \cap E = {}
      /\ \A t, u \in H \cup E : t = u
  <2>1. \A t \in Tasks : s \in Carried(t) <=> t \in H \cup E
    BY DEF Carried, Elements, At
  <2>2. H \cap E = {}
    BY DEF At
  <2>3. \A t, u \in Tasks : s \in Carried(t) /\ s \in Carried(u) => t = u
    BY DEF SenderInv, OnePlace
  <2> QED
    BY <2>1, <2>2, <2>3
<1>4. /\ P # {} \/ G # {} \/ H \cup E # {}
      /\ P = {} \/ G = {}
      /\ P = {} \/ H \cup E = {}
      /\ G = {} \/ H \cup E = {}
  BY <1>1, <1>2, <1>3 DEF SenderInv, OnePlace, Placed
<1>5. Copies(s) = Cardinality(P) + Cardinality(G) + Cardinality(H)
                    + Cardinality(E)
  BY DEF Copies
<1>6. \A S : S # {} /\ (\A x, y \in S : x = y) => Cardinality(S) = 1
  <2>1. SUFFICES ASSUME NEW S, S # {}, \A x, y \in S : x = y
                 PROVE  Cardinality(S) = 1
    OBVIOUS
  <2>2. PICK x \in S : TRUE
    BY <2>1
  <2>3. S = {x}
    BY <2>1, <2>2
  <2> QED
    BY <2>3, FS_Singleton
<1>7. Cardinality({}) = 0
  BY FS_EmptySet
<1> HIDE DEF P, G, H, E
<1>8. CASE P # {}
  <2>1. G = {} /\ H = {} /\ E = {} /\ Cardinality(P) = 1
    BY <1>1, <1>4, <1>6, <1>8
  <2> QED
    BY <1>5, <1>7, <2>1
<1>9. CASE G # {}
  <2>1. P = {} /\ H = {} /\ E = {} /\ Cardinality(G) = 1
    BY <1>2, <1>4, <1>6, <1>9
  <2> QED
    BY <1>5, <1>7, <2>1
<1>10. CASE H # {}
  <2>1. P = {} /\ G = {} /\ E = {} /\ Cardinality(H) = 1
    BY <1>3, <1>4, <1>6, <1>10
  <2> QED
    BY <1>5, <1>7, <2>1
<1>11. CASE E # {}
  <2>1. P = {} /\ G = {} /\ H = {} /\ Cardinality(E) = 1
    BY <1>3, <1>4, <1>6, <1>11
  <2> QED
    BY <1>5, <1>7, <2>1
<1> QED
  BY <1>4, <1>8, <1>9, <1>10, <1>11

\* A protected packet on the wire is in exactly one place, whatever the calls
\* that interleave: waiting, carried by one call, or in one group.
THEOREM ProtectedOnceHolds == SenderSpec => []ProtectedOnce
<1>1. SenderInv => ProtectedOnce
  BY OneCopy DEF ProtectedOnce
<1> QED
  BY <1>1, SenderInductive, PTL

\* A repair packet has a later number than every packet of its group, and no
\* group is larger than the decoder's.
THEOREM RepairFollowsDataHolds == SenderSpec => []RepairFollowsData
<1>1. SenderInv => RepairFollowsData
  BY DEF SenderInv, Sized, RepairFollowsData, Grouped, Elements
<1> QED
  BY <1>1, SenderInductive, PTL

\* Calls that do not overlap leave no packet waiting after a close.
THEOREM ClosedIsFlushedHolds == SenderSpec => []ClosedIsFlushed
<1>1. SenderInv => ClosedIsFlushed
  BY DEF SenderInv, Flushed, ClosedIsFlushed
<1> QED
  BY <1>1, SenderInductive, PTL

-----------------------------------------------------------------------------
(* The receiver: its inductive invariant                                   *)

\* The map of unfinished frames: one entry per id, which holds fragments of
\* that id that were received, one per place.
Awaited ==
    /\ \A d, e \in partial : d.id = e.id => d = e
    /\ \A e \in partial :
          /\ IsFiniteSet(e.parts) /\ e.parts # {}
          /\ \A p \in e.parts : p \in got /\ p.kind = "video" /\ p.id = e.id
          /\ \A p, q \in e.parts : p.index = q.index => p = q
          /\ OneSession => \A p \in e.parts : p.total = e.total

\* What was reassembled was received, as a whole.
PlayedWhole ==
    /\ \A e \in emitted : e.kind = "VideoFrame" /\ ~e.recovered => e.parts \subseteq got
    /\ FramesAreWhole

\* What was played is no longer awaited, unless it came again.
Apart ==
    clean => /\ \A e \in partial : ~e.stale
             /\ \A e \in partial, d \in emitted :
                    d.kind = "VideoFrame" /\ ~d.recovered => e.parts \cap d.parts = {}

\* The shards the decoder holds of packet p's group.
HeldWith(p) == {q \in decoder : q.id = p.id}

\* A group leaves the decoder as soon as it has shards enough.
Gathered ==
    /\ decoder \subseteq {p \in got : IsShard(p)}
    /\ IsFiniteSet(decoder)
    /\ \A p \in decoder : Cardinality(HeldWith(p)) < FecData

\* A shard is held, or its group was decoded.
Recovered ==
    clean /\ OneSession =>
        \A p \in got : IsShard(p) =>
            \/ p \in decoder
            \/ \A n \in DOMAIN p.covers :
                   \E e \in emitted : e.recovered /\ p.covers[n] \in e.parts

ReceiverInv ==
    /\ ReceiverTypeOK
    /\ Awaited /\ PlayedWhole /\ Apart /\ PlayedOnce /\ NothingLost
    /\ Gathered /\ Recovered

-----------------------------------------------------------------------------
(* Sets of packets, types and events                                       *)

EventType == [kind : EventKinds, parts : SUBSET Datagrams, recovered : BOOLEAN]
EntryType == [id : Ids, parts : SUBSET Datagrams, total : Nat, stale : BOOLEAN]

\* Packets that are as many as their frame says, one for each place, are all
\* of it.
LEMMA EveryPlace ==
    ASSUME NEW P, IsFiniteSet(P), NEW T \in Nat, Cardinality(P) = T,
           \A q \in P : q.index \in Nat /\ q.index < T,
           \A q, r \in P : q.index = r.index => q = r
    PROVE  {q.index : q \in P} = {i \in 0 .. T : i < T}
<1> DEFINE I == {q.index : q \in P}
           J == {i \in 0 .. T : i < T}
           f == [q \in P |-> q.index]
<1>1. f \in Bijection(P, I)
  <2>1. f \in [P -> I] /\ \A q \in P : f[q] = q.index
    OBVIOUS
  <2>2. \A a, b \in P : f[a] = f[b] => a = b
    BY <2>1
  <2>3. \A i \in I : \E q \in P : f[q] = i
    BY <2>1
  <2> QED
    BY <2>1, <2>2, <2>3 DEF Bijection, Injection, Surjection, IsInjective
<1>2. ExistsBijection(P, I)
  BY <1>1 DEF ExistsBijection
<1>3. Cardinality(I) = T
  <2> HIDE DEF I
  <2> QED
    BY <1>2, FS_Bijection
<1>4. IsFiniteSet(J) /\ Cardinality(J) = T
  <2>1. J = 0 .. (T - 1)
    OBVIOUS
  <2>2. /\ IsFiniteSet(0 .. (T - 1))
        /\ Cardinality(0 .. (T - 1)) = IF 0 > T - 1 THEN 0 ELSE T - 1 - 0 + 1
    BY FS_Interval
  <2>3. (IF 0 > T - 1 THEN 0 ELSE T - 1 - 0 + 1) = T
    OBVIOUS
  <2> HIDE DEF J
  <2> QED
    BY <2>1, <2>2, <2>3
<1>5. I \subseteq J
  OBVIOUS
<1>6. I = J
  <2> HIDE DEF I, J
  <2> QED
    BY <1>3, <1>4, <1>5, FS_Subset
<1> QED
  BY <1>6

-----------------------------------------------------------------------------
\* What a packet is.
LEMMA PacketType ==
    ASSUME NEW p \in Datagrams
    PROVE  /\ p.kind \in {"init", "video", "track", "repair"}
           /\ p.session \in Nat /\ p.index \in Nat /\ p.total \in Nat
           /\ p.kind = "video" => p.index < p.total
           /\ p.covers \in Seq(Media)
           /\ p.id \in Ids
BY ReceiverAssumption DEF Ids

\* The handler has no event to send.
LEMMA EmitNothing ==
    ASSUME Emit(<<>>)
    PROVE  outbox' = <<>> /\ emitted' = emitted /\ pc' = "check"
BY DEF Emit

\* The handler sends these events one after the other.
LEMMA EmitEffect ==
    ASSUME ReceiverTypeOK, NEW events \in Seq(EventType), Emit(events)
    PROVE  /\ outbox' \in Seq(EventKinds)
           /\ pc' \in {"check", "send"}
           /\ pc' = "send" <=> outbox' # <<>>
           /\ emitted' = emitted \cup {events[n] : n \in DOMAIN events}
           /\ emitted' \subseteq EventType
<1>1. /\ outbox' = [n \in DOMAIN events |-> events[n].kind]
      /\ emitted' = emitted \cup {events[n] : n \in DOMAIN events}
      /\ pc' = IF events = <<>> THEN "check" ELSE "send"
  BY DEF Emit
<1>2. PICK k \in Nat : events \in [1 .. k -> EventType]
  BY SeqDef
<1>3. outbox' \in [1 .. k -> EventKinds]
  BY <1>1, <1>2 DEF EventType
<1>4. outbox' \in Seq(EventKinds)
  BY <1>3, SeqDef
<1>5. /\ events = <<>> <=> k = 0
      /\ outbox' = <<>> <=> k = 0
  <2>1. Len(events) = k /\ Len(outbox') = k
    BY <1>2, <1>3
  <2>2. \A S : \A s \in Seq(S) : s = <<>> <=> Len(s) = 0
    OBVIOUS
  <2> QED
    BY <1>4, <2>1, <2>2
<1>6. emitted' \subseteq EventType
  BY <1>1, <1>2 DEF ReceiverTypeOK, EventType
<1> QED
  BY <1>1, <1>4, <1>5, <1>6

\* The handler sends one event.
LEMMA EmitOne ==
    ASSUME ReceiverTypeOK, NEW kind \in EventKinds, NEW parts \in SUBSET Datagrams,
           Emit(<<Event(kind, parts)>>)
    PROVE  /\ outbox' \in Seq(EventKinds)
           /\ pc' = "send" /\ outbox' # <<>>
           /\ emitted' = emitted \cup {[kind |-> kind, parts |-> parts, recovered |-> FALSE]}
           /\ emitted' \subseteq EventType
<1> DEFINE e == [kind |-> kind, parts |-> parts, recovered |-> FALSE]
<1>1. e \in EventType /\ e = Event(kind, parts)
  BY DEF EventType, Event
<1>2. <<e>> \in Seq(EventType) /\ DOMAIN <<e>> = {1} /\ <<e>>[1] = e
      /\ <<e>> # <<>>
  BY <1>1
<1>3. Emit(<<e>>)
  BY <1>1
<1>4. pc' = "send"
  BY <1>2, <1>3 DEF Emit
<1> HIDE DEF e
<1>5. /\ outbox' \in Seq(EventKinds)
      /\ pc' = "send" <=> outbox' # <<>>
      /\ emitted' = emitted \cup {<<e>>[n] : n \in DOMAIN <<e>>}
      /\ emitted' \subseteq EventType
  BY <1>2, <1>3, EmitEffect
<1>6. {<<e>>[n] : n \in DOMAIN <<e>>} = {e}
  BY <1>2
<1> QED
  BY <1>4, <1>5, <1>6 DEF e

-----------------------------------------------------------------------------
(* Frames and their fragments                                              *)

\* The entry a fragment belongs to is the only one of its id, or a new one.
LEMMA EntryFacts ==
    ASSUME ReceiverInv, NEW p \in Datagrams
    PROVE  /\ EntryFor(p) \in EntryType
           /\ EntryFor(p).id = p.id
           /\ \/ EntryFor(p) \in partial
              \/ /\ EntryFor(p).parts = {} /\ EntryFor(p).total = p.total
                 /\ EntryFor(p).stale = FALSE
           /\ \A e \in partial : e.id = p.id => e = EntryFor(p)
<1>1. CASE \E e \in partial : e.id = p.id
  <2>1. EntryFor(p) = CHOOSE e \in partial : e.id = p.id
    BY <1>1 DEF EntryFor
  <2>2. EntryFor(p) \in partial /\ EntryFor(p).id = p.id
    BY <1>1, <2>1
  <2>3. EntryFor(p) \in EntryType
    BY <2>2 DEF ReceiverInv, ReceiverTypeOK, EntryType
  <2> QED
    BY <2>2, <2>3 DEF ReceiverInv, Awaited
<1>2. CASE ~\E e \in partial : e.id = p.id
  <2>1. EntryFor(p)
          = [id |-> p.id, parts |-> {}, total |-> p.total, stale |-> FALSE]
    BY <1>2 DEF EntryFor
  <2>2. p.id \in Ids /\ p.total \in Nat
    BY PacketType
  <2> QED
    BY <1>2, <2>1, <2>2 DEF EntryType
<1> QED
  BY <1>1, <1>2

\* The fragments of a frame after one more has been put in its place.
LEMMA PartsFacts ==
    ASSUME ReceiverInv, NEW p \in Datagrams, p.kind = "video"
    PROVE  /\ PartsWith(p) \subseteq Datagrams /\ IsFiniteSet(PartsWith(p))
           /\ p \in PartsWith(p) /\ PartsWith(p) \subseteq EntryFor(p).parts \cup {p}
           /\ EntryFor(p).parts \subseteq got
           /\ \A q \in PartsWith(p) : /\ q \in got \cup {p}
                                      /\ q.kind = "video" /\ q.id = p.id
           /\ \A q, r \in PartsWith(p) : q.index = r.index => q = r
<1>1. /\ EntryFor(p) \in EntryType /\ EntryFor(p).id = p.id
      /\ EntryFor(p) \in partial \/ EntryFor(p).parts = {}
  BY EntryFacts
<1>2. PartsWith(p) = {q \in EntryFor(p).parts : q.index # p.index} \cup {p}
  BY DEF PartsWith
<1>3. /\ IsFiniteSet(EntryFor(p).parts)
      /\ \A q \in EntryFor(p).parts : q \in got /\ q.kind = "video" /\ q.id = p.id
      /\ \A q, r \in EntryFor(p).parts : q.index = r.index => q = r
  <2>1. CASE EntryFor(p) \in partial
    BY <1>1, <2>1 DEF ReceiverInv, Awaited
  <2>2. CASE EntryFor(p).parts = {}
    BY <2>2, FS_EmptySet
  <2> QED
    BY <1>1, <2>1, <2>2
<1>4. IsFiniteSet(PartsWith(p))
  <2>1. IsFiniteSet({q \in EntryFor(p).parts : q.index # p.index})
    BY <1>3, FS_Subset
  <2> QED
    BY <1>2, <2>1, FS_AddElement
<1>5. EntryFor(p).parts \subseteq Datagrams
  BY <1>1 DEF EntryType
<1> QED
  BY <1>2, <1>3, <1>4, <1>5

\* With one sender the fragments of a frame agree on its size, and a new one
\* takes the place of none.
LEMMA PartsOfOneSender ==
    ASSUME ReceiverInv, NEW p \in Datagrams, p.kind = "video",
           OneSession, \A q \in got : q.session = p.session
    PROVE  /\ EntryFor(p).total = p.total
           /\ \A q \in PartsWith(p) : q.total = p.total
           /\ p \notin got => EntryFor(p).parts \subseteq PartsWith(p)
<1>1. \A q \in EntryFor(p).parts :
         /\ q \in got /\ q.total = p.total
         /\ q.index = p.index => q = p
  <2>1. TAKE q \in EntryFor(p).parts
  <2>2. EntryFor(p) \in partial
    BY EntryFacts
  <2>3. q \in got /\ q \in Datagrams /\ q.kind = "video" /\ q.id = p.id
    BY <2>2, EntryFacts DEF ReceiverInv, Awaited, ReceiverTypeOK
  <2>4. q.kind \in {"video", "repair"} /\ SameGroup(q, p)
    BY <2>3 DEF SameGroup
  <2> QED
    BY <2>3, <2>4, ReceiverAssumption
<1>2. EntryFor(p).total = p.total
  <2>1. CASE EntryFor(p) \in partial
    <3>1. PICK q \in EntryFor(p).parts : TRUE
      BY <2>1 DEF ReceiverInv, Awaited
    <3>2. q.total = EntryFor(p).total
      BY <2>1 DEF ReceiverInv, Awaited
    <3> QED
      BY <1>1, <3>2
  <2> QED
    BY <2>1, EntryFacts
<1> QED
  BY <1>1, <1>2 DEF PartsWith

\* What receiving a packet adds to the past.
LEMMA PastGrows ==
    ASSUME NEW p, got' = got \cup {p}
    PROVE  OneSession' => OneSession /\ \A q \in got : q.session = p.session
BY DEF OneSession

-----------------------------------------------------------------------------
\* A packet that is no fragment leaves the frames as they are.
LEMMA FramesStill ==
    ASSUME ReceiverInv, NEW p \in Datagrams, p.kind # "video",
           got' = got \cup {p}, clean' = (clean /\ p \notin got),
           partial' = partial, emitted \subseteq emitted',
           \A e \in emitted' : e.kind = "VideoFrame" /\ ~e.recovered => e \in emitted
    PROVE  Awaited' /\ PlayedWhole' /\ Apart' /\ PlayedOnce' /\ NothingLost'
<1>1. OneSession' => OneSession
  BY PastGrows
<1>2. Awaited'
  BY <1>1 DEF ReceiverInv, Awaited
<1>3. PlayedWhole'
  <2>1. FramesAreWhole'
    BY <1>1 DEF ReceiverInv, PlayedWhole, FramesAreWhole
  <2> QED
    BY <2>1 DEF ReceiverInv, PlayedWhole
<1>4. Apart'
  BY DEF ReceiverInv, Apart
<1>5. PlayedOnce'
  BY DEF ReceiverInv, PlayedOnce
<1>6. NothingLost'
  BY <1>1 DEF ReceiverInv, NothingLost
<1> QED
  BY <1>2, <1>3, <1>4, <1>5, <1>6

\* A fragment completes a frame, which is played and leaves the map.
LEMMA PlayKeeps ==
    ASSUME ReceiverInv, NEW p \in Datagrams,
           got' = got \cup {p}, clean' = (clean /\ p \notin got),
           NEW P, p \in P, P \subseteq got \cup {p},
           partial' \subseteq partial,
           emitted' = emitted \cup {[kind |-> "VideoFrame", parts |-> P, recovered |-> FALSE]},
           OneSession' => \A q \in P :
               /\ {r.index : r \in P} = {i \in 0 .. q.total : i < q.total}
               /\ Cardinality(P) = q.total
               /\ \A r \in P : r.id = q.id,
           clean' => \A e \in partial' : e.parts \cap P = {},
           clean' => \A d \in emitted : d.kind = "VideoFrame" /\ ~d.recovered => d.parts \cap P = {},
           clean' /\ OneSession' => \A e \in partial : e \in partial' \/ e.parts \subseteq P
    PROVE  Awaited' /\ PlayedWhole' /\ Apart' /\ PlayedOnce' /\ NothingLost'
<1> DEFINE new == [kind |-> "VideoFrame", parts |-> P, recovered |-> FALSE]
<1>1. OneSession' => OneSession
  BY PastGrows
<1>2. new.kind = "VideoFrame" /\ new.parts = P /\ ~new.recovered
  OBVIOUS
<1>3. emitted' = emitted \cup {new}
  OBVIOUS
<1> HIDE DEF new
<1>4. Awaited'
  BY <1>1 DEF ReceiverInv, Awaited
<1>5. PlayedWhole'
  <2>1. FramesAreWhole'
    <3>1. OneSession' => \A e \in emitted : e.kind = "VideoFrame" /\ ~e.recovered =>
             \A q \in e.parts :
                /\ {r.index : r \in e.parts} = {i \in 0 .. q.total : i < q.total}
                /\ Cardinality(e.parts) = q.total
                /\ \A r \in e.parts : r.id = q.id
      BY <1>1 DEF ReceiverInv, PlayedWhole, FramesAreWhole
    <3> QED
      BY <1>2, <1>3, <3>1 DEF FramesAreWhole
  <2> QED
    BY <1>2, <1>3, <2>1 DEF ReceiverInv, PlayedWhole
<1>6. Apart'
  BY <1>2, <1>3 DEF ReceiverInv, Apart
<1>7. PlayedOnce'
  BY <1>2, <1>3 DEF ReceiverInv, PlayedOnce
<1>8. NothingLost'
  BY <1>1, <1>2, <1>3 DEF ReceiverInv, NothingLost
<1> QED
  BY <1>4, <1>5, <1>6, <1>7, <1>8

-----------------------------------------------------------------------------
(* The handlers, one by one                                                *)

\* What is the same whatever packet is received.
Arrives(p) ==
    /\ got' = got \cup {p} /\ clean' = (clean /\ p \notin got)
    /\ UNCHANGED <<running, queue, reading, goodbye>>

\* The types once the handler has told its events.
LEMMA ArrivalTyped ==
    ASSUME ReceiverInv, NEW p \in Datagrams, Arrives(p),
           peer' \in Nat, partial' \subseteq EntryType, decoder' \subseteq Datagrams,
           outbox' \in Seq(EventKinds), pc' \in {"check", "send"},
           pc' = "send" <=> outbox' # <<>>, emitted' \subseteq EventType
    PROVE  ReceiverTypeOK'
<1>1. got' \subseteq Datagrams /\ clean' \in BOOLEAN
  BY DEF Arrives, ReceiverInv, ReceiverTypeOK
<1> QED
  BY <1>1 DEF Arrives, ReceiverInv, ReceiverTypeOK, EntryType, EventType

\* A fragment of one of several places leaves the decoder as it is.
LEMMA DecoderStill ==
    ASSUME ReceiverInv, NEW p \in Datagrams, Arrives(p), ~IsShard(p),
           decoder' = decoder, emitted \subseteq emitted'
    PROVE  Gathered' /\ Recovered'
<1>1. OneSession' => OneSession
  BY PastGrows DEF Arrives
<1>2. Gathered'
  BY DEF ReceiverInv, Gathered, Arrives, HeldWith, IsShard
<1>3. Recovered'
  BY <1>1 DEF ReceiverInv, Recovered, Arrives, IsShard
<1> QED
  BY <1>2, <1>3

\* The entry's parts are not played elsewhere, nor is a packet that is new.
LEMMA PartsUnplayed ==
    ASSUME ReceiverInv, NEW p \in Datagrams, p.kind = "video", Arrives(p), clean',
           NEW d \in emitted, d.kind = "VideoFrame" /\ ~d.recovered
    PROVE  d.parts \cap PartsWith(p) = {}
<1>1. d.parts \subseteq got /\ p \notin got /\ clean
  BY DEF ReceiverInv, PlayedWhole, Arrives
<1>2. EntryFor(p).parts \cap d.parts = {}
  <2>1. CASE EntryFor(p) \in partial
    BY <1>1, <2>1 DEF ReceiverInv, Apart
  <2> QED
    BY <2>1, EntryFacts
<1> QED
  BY <1>1, <1>2, PartsFacts

\* The other entries have no part of this frame.
LEMMA OthersApart ==
    ASSUME ReceiverInv, NEW p \in Datagrams, p.kind = "video", NEW e \in Others(p)
    PROVE  e.parts \cap PartsWith(p) = {}
<1>1. e \in partial /\ e.id # p.id
  BY DEF Others
<1>2. \A q \in e.parts : q.id = e.id
  BY <1>1 DEF ReceiverInv, Awaited
<1> QED
  BY <1>1, <1>2, PartsFacts

\* A session init becomes the peer and touches no frame.
LEMMA SessionInitKeeps ==
    ASSUME ReceiverInv, NEW p \in Datagrams, Arrives(p), HandleSessionInit(p)
    PROVE  ReceiverInv'
<1>1. /\ p.kind = "init" /\ peer' = p.session
      /\ Emit(<<>>) \/ Emit(<<Event("SessionInit", {p})>>)
      /\ partial' = partial /\ decoder' = decoder
  BY DEF HandleSessionInit
<1>2. /\ outbox' \in Seq(EventKinds) /\ pc' \in {"check", "send"}
      /\ pc' = "send" <=> outbox' # <<>>
      /\ emitted' \subseteq EventType
      /\ emitted \subseteq emitted'
      /\ \A e \in emitted' : e.kind = "VideoFrame" /\ ~e.recovered => e \in emitted
  <2>1. CASE Emit(<<>>)
    <3>1. <<>> \in Seq(EventKinds) /\ emitted \subseteq EventType
      BY DEF ReceiverInv, ReceiverTypeOK, EventType
    <3> QED
      BY <2>1, <3>1, EmitNothing
  <2>2. CASE Emit(<<Event("SessionInit", {p})>>)
    <3>1. "SessionInit" \in EventKinds /\ {p} \in SUBSET Datagrams
      BY DEF EventKinds
    <3>2. /\ outbox' \in Seq(EventKinds) /\ pc' = "send" /\ outbox' # <<>>
          /\ emitted' = emitted \cup {[kind |-> "SessionInit", parts |-> {p}, recovered |-> FALSE]}
          /\ emitted' \subseteq EventType
      BY <2>2, <3>1, EmitOne DEF ReceiverInv
    <3> QED
      BY <3>2
  <2> QED
    BY <1>1, <2>1, <2>2
<1>3. ReceiverTypeOK'
  <2>1. peer' \in Nat
    BY <1>1, PacketType
  <2>2. partial' \subseteq EntryType /\ decoder' \subseteq Datagrams
    BY <1>1 DEF ReceiverInv, ReceiverTypeOK, EntryType
  <2> QED
    BY <1>2, <2>1, <2>2, ArrivalTyped
<1>4. Awaited' /\ PlayedWhole' /\ Apart' /\ PlayedOnce' /\ NothingLost'
  BY <1>1, <1>2, FramesStill DEF Arrives
<1>5. Gathered' /\ Recovered'
  BY <1>1, <1>2, DecoderStill DEF IsShard
<1> QED
  BY <1>3, <1>4, <1>5 DEF ReceiverInv

\* A packet that is whole by itself is told at once.
LEMMA WholeKeeps ==
    ASSUME ReceiverInv, NEW p \in Datagrams, Arrives(p), HandleWhole(p)
    PROVE  ReceiverInv'
<1>1. /\ \/ p.kind = "track" /\ Emit(<<Event("TrackFrame", {p})>>)
         \/ p.kind = "video" /\ p.total = 1 /\ Emit(<<Event("VideoFrame", {p})>>)
      /\ peer' = peer /\ partial' = partial /\ decoder' = decoder
  BY DEF HandleWhole
<1>2. /\ "TrackFrame" \in EventKinds /\ "VideoFrame" \in EventKinds
      /\ {p} \in SUBSET Datagrams /\ ReceiverTypeOK
  BY DEF EventKinds, ReceiverInv
<1>3. /\ outbox' \in Seq(EventKinds) /\ pc' = "send" /\ outbox' # <<>>
      /\ emitted' \subseteq EventType
      /\ emitted \subseteq emitted'
      /\ \/ /\ p.kind = "track"
            /\ emitted' = emitted \cup {[kind |-> "TrackFrame", parts |-> {p}, recovered |-> FALSE]}
         \/ /\ p.kind = "video" /\ p.total = 1
            /\ emitted' = emitted \cup {[kind |-> "VideoFrame", parts |-> {p}, recovered |-> FALSE]}
  BY <1>1, <1>2, EmitOne
<1>4. ReceiverTypeOK'
  <2>1. /\ peer' \in Nat
        /\ partial' \subseteq EntryType /\ decoder' \subseteq Datagrams
    BY <1>1 DEF ReceiverInv, ReceiverTypeOK, EntryType
  <2> QED
    BY <1>3, <2>1, ArrivalTyped
<1>5. Awaited' /\ PlayedWhole' /\ Apart' /\ PlayedOnce' /\ NothingLost'
  <2>1. CASE p.kind = "track"
    <3>1. \A e \in emitted' : e.kind = "VideoFrame" /\ ~e.recovered => e \in emitted
      BY <1>3, <2>1
    <3> QED
      BY <1>1, <1>3, <2>1, <3>1, FramesStill DEF Arrives
  <2>2. CASE p.kind = "video" /\ p.total = 1
    <3>1. /\ emitted' = emitted \cup {[kind |-> "VideoFrame", parts |-> {p}, recovered |-> FALSE]}
          /\ partial' = partial
          /\ got' = got \cup {p} /\ clean' = (clean /\ p \notin got)
      BY <1>1, <1>3, <2>2 DEF Arrives
    <3>2. \A q \in {p} :
             /\ {r.index : r \in {p}} = {i \in 0 .. q.total : i < q.total}
             /\ Cardinality({p}) = q.total
             /\ \A r \in {p} : r.id = q.id
      <4>1. p.index = 0
        BY <2>2, PacketType
      <4>2. {r.index : r \in {p}} = {0}
        BY <4>1
      <4>3. {i \in 0 .. p.total : i < p.total} = {0}
        BY <2>2
      <4> QED
        BY <2>2, <4>2, <4>3, FS_Singleton
    <3>3. clean' => \A e \in partial' : e.parts \cap {p} = {}
      <4>1. \A e \in partial : e.parts \subseteq got
        BY DEF ReceiverInv, Awaited
      <4>2. clean' => p \notin got
        BY <3>1
      <4> QED
        BY <3>1, <4>1, <4>2
    <3>4. clean' => \A d \in emitted : d.kind = "VideoFrame" /\ ~d.recovered => d.parts \cap {p} = {}
      BY <3>1 DEF ReceiverInv, PlayedWhole
    <3>5. /\ p \in {p} /\ {p} \subseteq got \cup {p} /\ partial' \subseteq partial
          /\ clean' /\ OneSession' =>
                \A e \in partial : e \in partial' \/ e.parts \subseteq {p}
      BY <3>1
    <3> DEFINE P == {p}
    <3> HIDE DEF P
    <3> QED
      BY <3>1, <3>2, <3>3, <3>4, <3>5, PlayKeeps DEF P
  <2> QED
    BY <1>1, <2>1, <2>2
<1>6. Gathered' /\ Recovered'
  BY <1>1, <1>3, DecoderStill DEF IsShard
<1> QED
  BY <1>4, <1>5, <1>6 DEF ReceiverInv

\* The last fragment plays the frame.
LEMMA CompleteFrameKeeps ==
    ASSUME ReceiverInv, NEW p \in Datagrams, Arrives(p), CompleteFrame(p)
    PROVE  ReceiverInv'
<1>1. /\ p.kind = "video" /\ Cardinality(PartsWith(p)) = p.total
      /\ partial' = Others(p) /\ peer' = peer /\ decoder' = decoder
      /\ got' = got \cup {p} /\ clean' = (clean /\ p \notin got)
      /\ \/ /\ EntryFor(p).total = p.total
            /\ Emit(<<Event("VideoFrame", PartsWith(p))>>)
         \/ EntryFor(p).total # p.total /\ Emit(<<>>)
  BY DEF CompleteFrame, Arrives
<1>2. OneSession' => OneSession /\ \A q \in got : q.session = p.session
  BY <1>1, PastGrows
<1>3. Others(p) \subseteq partial /\ \A e \in partial : e \in Others(p) \/ e = EntryFor(p)
  BY EntryFacts DEF Others
<1>4. peer' \in Nat /\ partial' \subseteq EntryType /\ decoder' \subseteq Datagrams
  BY <1>1, <1>3 DEF ReceiverInv, ReceiverTypeOK, EntryType
<1>5. CASE /\ EntryFor(p).total = p.total
           /\ Emit(<<Event("VideoFrame", PartsWith(p))>>)
  <2>1. /\ outbox' \in Seq(EventKinds) /\ pc' = "send" /\ outbox' # <<>>
        /\ emitted' = emitted \cup {[kind |-> "VideoFrame", parts |-> PartsWith(p), recovered |-> FALSE]}
        /\ emitted' \subseteq EventType
    <3>1. /\ "VideoFrame" \in EventKinds /\ PartsWith(p) \in SUBSET Datagrams
          /\ ReceiverTypeOK
      BY <1>1, PartsFacts DEF EventKinds, ReceiverInv
    <3> QED
      BY <1>5, <3>1, EmitOne
  <2>2. ReceiverTypeOK'
    BY <1>4, <2>1, ArrivalTyped
  <2>3. Awaited' /\ PlayedWhole' /\ Apart' /\ PlayedOnce' /\ NothingLost'
    <3> DEFINE P == PartsWith(p)
    <3>1. /\ p \in P /\ P \subseteq got \cup {p} /\ IsFiniteSet(P)
          /\ P \subseteq Datagrams
          /\ \A q \in P : q.kind = "video" /\ q.id = p.id
          /\ \A q, r \in P : q.index = r.index => q = r
      BY <1>1, PartsFacts
    <3>2. OneSession' => \A q \in P :
             /\ {r.index : r \in P} = {i \in 0 .. q.total : i < q.total}
             /\ Cardinality(P) = q.total
             /\ \A r \in P : r.id = q.id
      <4>1. SUFFICES ASSUME OneSession'
                     PROVE  \A q \in P :
                        /\ {r.index : r \in P} = {i \in 0 .. q.total : i < q.total}
                        /\ Cardinality(P) = q.total
                        /\ \A r \in P : r.id = q.id
        OBVIOUS
      <4>2. \A q \in P : q.total = p.total
        BY <1>1, <1>2, <4>1, PartsOfOneSender
      <4>3. p.total \in Nat /\ \A q \in P : q.index \in Nat /\ q.index < p.total
        BY <3>1, <4>2, PacketType
      <4>4. {r.index : r \in P} = {i \in 0 .. p.total : i < p.total}
        <5> HIDE DEF P
        <5> QED
          BY <1>1, <3>1, <4>3, EveryPlace DEF P
      <4> QED
        BY <1>1, <3>1, <4>2, <4>4
    <3>3. clean' => \A e \in partial' : e.parts \cap P = {}
      BY <1>1, OthersApart
    <3>4. clean' => \A d \in emitted : d.kind = "VideoFrame" /\ ~d.recovered => d.parts \cap P = {}
      BY <1>1, PartsUnplayed
    <3>5. clean' /\ OneSession' =>
             \A e \in partial : e \in partial' \/ e.parts \subseteq P
      BY <1>1, <1>2, <1>3, PartsOfOneSender
    <3> HIDE DEF P
    <3>6. emitted' = emitted \cup {[kind |-> "VideoFrame", parts |-> P, recovered |-> FALSE]}
      BY <2>1 DEF P
    <3>7. partial' \subseteq partial
      BY <1>1, <1>3
    <3> QED
      BY <1>1, <3>1, <3>2, <3>3, <3>4, <3>5, <3>6, <3>7, PlayKeeps
  <2>4. Gathered' /\ Recovered'
    <3>1. emitted \subseteq emitted'
      BY <2>1
    <3> QED
      BY <1>1, <3>1, DecoderStill DEF IsShard
  <2> QED
    BY <2>2, <2>3, <2>4 DEF ReceiverInv
<1>6. CASE EntryFor(p).total # p.total /\ Emit(<<>>)
  <2>1. outbox' = <<>> /\ emitted' = emitted /\ pc' = "check"
    BY <1>6, EmitNothing
  <2>2. ReceiverTypeOK'
    <3>1. outbox' \in Seq(EventKinds) /\ emitted' \subseteq EventType
      BY <2>1 DEF ReceiverInv, ReceiverTypeOK, EventType
    <3> QED
      BY <1>4, <2>1, <3>1, ArrivalTyped
  <2>3. ~OneSession'
    BY <1>1, <1>2, <1>6, PartsOfOneSender
  <2>4. Awaited' /\ Apart'
    BY <1>1, <1>3, <2>1, <2>3 DEF ReceiverInv, Awaited, Apart
  <2>5. PlayedWhole' /\ PlayedOnce' /\ NothingLost'
    BY <1>1, <2>1, <2>3 DEF ReceiverInv, PlayedWhole, FramesAreWhole, PlayedOnce,
                            NothingLost
  <2>6. Gathered' /\ Recovered'
    BY <1>1, <2>1, DecoderStill DEF IsShard
  <2> QED
    BY <2>2, <2>4, <2>5, <2>6 DEF ReceiverInv
<1> QED
  BY <1>1, <1>5, <1>6

\* An earlier fragment joins its entry.
LEMMA KeepFragmentKeeps ==
    ASSUME ReceiverInv, NEW p \in Datagrams, Arrives(p), KeepFragment(p)
    PROVE  ReceiverInv'
<1> DEFINE new == [EntryFor(p) EXCEPT !.parts = PartsWith(p)]
<1>1. /\ p.kind = "video"
      /\ partial' = {e \in Others(p) \cup {new} : ~e.stale}
      /\ peer' = peer /\ decoder' = decoder
      /\ got' = got \cup {p} /\ clean' = (clean /\ p \notin got)
      /\ Emit(<<>>)
  BY DEF KeepFragment, Arrives
<1>2. OneSession' => OneSession /\ \A q \in got : q.session = p.session
  BY <1>1, PastGrows
<1>3. Others(p) \subseteq partial /\ \A e \in partial : e \in Others(p) \/ e = EntryFor(p)
  BY EntryFacts DEF Others
<1>4. /\ new \in EntryType /\ new.id = p.id /\ new.parts = PartsWith(p)
      /\ new.total = EntryFor(p).total /\ new.stale = EntryFor(p).stale
  <2>1. EntryFor(p) \in EntryType /\ EntryFor(p).id = p.id
    BY EntryFacts
  <2>2. PartsWith(p) \in SUBSET Datagrams
    BY <1>1, PartsFacts
  <2> QED
    BY <2>1, <2>2 DEF EntryType
<1> HIDE DEF new
<1>5. outbox' = <<>> /\ emitted' = emitted /\ pc' = "check"
  BY <1>1, EmitNothing
<1>6. ReceiverTypeOK'
  <2>1. /\ outbox' \in Seq(EventKinds) /\ emitted' \subseteq EventType
        /\ peer' \in Nat /\ decoder' \subseteq Datagrams /\ partial \subseteq EntryType
    BY <1>1, <1>5 DEF ReceiverInv, ReceiverTypeOK, EventType, EntryType
  <2>2. partial' \subseteq EntryType
    BY <1>1, <1>3, <1>4, <2>1
  <2> QED
    BY <1>5, <2>1, <2>2, ArrivalTyped
<1>7. Awaited'
  <2>1. \A d, e \in partial' : d.id = e.id => d = e
    <3>1. \A e \in Others(p) : e.id # p.id
      BY DEF Others
    <3>2. \A d, e \in Others(p) : d.id = e.id => d = e
      BY <1>3 DEF ReceiverInv, Awaited
    <3> QED
      BY <1>1, <1>4, <3>1, <3>2
  <2>2. ASSUME NEW e \in partial'
        PROVE  /\ IsFiniteSet(e.parts) /\ e.parts # {}
               /\ \A q \in e.parts : q \in got' /\ q.kind = "video" /\ q.id = e.id
               /\ \A q, r \in e.parts : q.index = r.index => q = r
               /\ OneSession' => \A q \in e.parts : q.total = e.total
    <3>1. CASE e \in Others(p)
      <4>1. e \in partial
        BY <1>3, <3>1
      <4> QED
        BY <1>1, <1>2, <4>1 DEF ReceiverInv, Awaited
    <3>2. CASE e = new
      <4>1. /\ IsFiniteSet(PartsWith(p)) /\ p \in PartsWith(p)
            /\ \A q \in PartsWith(p) : /\ q \in got \cup {p}
                                       /\ q.kind = "video" /\ q.id = p.id
            /\ \A q, r \in PartsWith(p) : q.index = r.index => q = r
        BY <1>1, PartsFacts
      <4>2. OneSession' => \A q \in PartsWith(p) : q.total = EntryFor(p).total
        BY <1>1, <1>2, PartsOfOneSender
      <4> QED
        BY <1>1, <1>4, <3>2, <4>1, <4>2
    <3> QED
      BY <1>1, <3>1, <3>2
  <2> QED
    BY <2>1, <2>2 DEF Awaited
<1>8. PlayedWhole'
  BY <1>1, <1>2, <1>5 DEF ReceiverInv, PlayedWhole, FramesAreWhole
<1>9. Apart'
  <2>1. clean' => \A d \in emitted : d.kind = "VideoFrame" /\ ~d.recovered => d.parts \cap new.parts = {}
    BY <1>1, <1>4, PartsUnplayed
  <2>2. clean' => \A e \in Others(p), d \in emitted :
                     d.kind = "VideoFrame" /\ ~d.recovered => e.parts \cap d.parts = {}
    BY <1>1, <1>3 DEF ReceiverInv, Apart
  <2>3. \A e \in partial' : (e \in Others(p) \/ e = new) /\ ~e.stale
    BY <1>1
  <2> QED
    BY <1>5, <2>1, <2>2, <2>3 DEF Apart
<1>10. PlayedOnce'
  BY <1>1, <1>5 DEF ReceiverInv, PlayedOnce
<1>11. NothingLost'
  <2>1. SUFFICES ASSUME clean', OneSession', NEW q \in got', q.kind = "video"
                 PROVE  \/ \E e \in partial' : q \in e.parts
                        \/ \E e \in emitted' : ~e.recovered /\ q \in e.parts
    BY DEF NothingLost
  <2>2. clean /\ p \notin got /\ OneSession
    BY <1>1, <1>2, <2>1
  <2>3. EntryFor(p).parts \subseteq PartsWith(p) /\ p \in PartsWith(p)
    BY <1>1, <1>2, <2>1, <2>2, PartsOfOneSender, PartsFacts
  <2>4. ~new.stale /\ \A e \in Others(p) : ~e.stale
    <3>1. \A e \in partial : ~e.stale
      BY <2>2 DEF ReceiverInv, Apart
    <3> QED
      BY <1>3, <1>4, <3>1, EntryFacts
  <2>5. new \in partial' /\ \A e \in Others(p) : e \in partial'
    BY <1>1, <2>4
  <2>6. CASE q = p
    BY <1>4, <2>3, <2>5, <2>6
  <2>7. CASE q \in got
    <3>1. \/ \E e \in partial : q \in e.parts
          \/ \E e \in emitted : ~e.recovered /\ q \in e.parts
      BY <2>1, <2>2, <2>7 DEF ReceiverInv, NothingLost
    <3> QED
      BY <1>3, <1>4, <1>5, <2>3, <2>5, <3>1
  <2> QED
    BY <1>1, <2>6, <2>7
<1>12. Gathered' /\ Recovered'
  BY <1>1, <1>5, DecoderStill DEF IsShard
<1> QED
  BY <1>6, <1>7, <1>8, <1>9, <1>10, <1>11, <1>12 DEF ReceiverInv

-----------------------------------------------------------------------------
\* The shards of the group with this one in its place.
LEMMA ShardsFacts ==
    ASSUME ReceiverInv, NEW p \in Datagrams, IsShard(p)
    PROVE  /\ ShardsWith(p) = HeldWith(p) \/ ShardsWith(p) = HeldWith(p) \cup {p}
           /\ ShardsWith(p) # {}
           /\ \A q \in ShardsWith(p) : /\ q \in got \cup {p} /\ q \in Datagrams
                                       /\ IsShard(q) /\ q.id = p.id
           /\ OneSession /\ (\A q \in got : q.session = p.session) /\ p \notin got
                 => p \in ShardsWith(p)
<1>1. ShardsWith(p) = IF \E q \in HeldWith(p) : q.index = p.index
                      THEN HeldWith(p) ELSE HeldWith(p) \cup {p}
  BY DEF ShardsWith, HeldWith
<1>2. \A q \in HeldWith(p) : /\ q \in got /\ q \in Datagrams
                             /\ IsShard(q) /\ q.id = p.id
  BY DEF HeldWith, ReceiverInv, Gathered, ReceiverTypeOK
<1>3. ASSUME \A q \in got : q.session = p.session, p \notin got
      PROVE  p \in ShardsWith(p)
  <2>1. ASSUME NEW q \in HeldWith(p), q.index = p.index PROVE FALSE
    <3>1. q.kind \in {"video", "repair"} /\ SameGroup(q, p)
      BY <1>2, <1>3 DEF SameGroup, IsShard
    <3>2. q = p
      BY <1>2, <2>1, <3>1, ReceiverAssumption
    <3> QED
      BY <1>2, <1>3, <3>2
  <2> QED
    BY <1>1, <2>1
<1>4. ShardsWith(p) # {}
  BY <1>1
<1> QED
  BY <1>1, <1>2, <1>3, <1>4

\* A parity shard joins its group, which is decoded when it has enough.
LEMMA RepairKeeps ==
    ASSUME ReceiverInv, NEW p \in Datagrams, Arrives(p), HandleRepair(p)
    PROVE  ReceiverInv'
<1>1. /\ p.kind = "repair" /\ peer' = peer /\ partial' = partial
      /\ got' = got \cup {p} /\ clean' = (clean /\ p \notin got)
      /\ \/ ~IsShard(p) /\ Emit(<<>>) /\ decoder' = decoder
         \/ /\ IsShard(p) /\ Cardinality(ShardsWith(p)) >= FecData
            /\ TryDecode(p)
         \/ /\ IsShard(p) /\ ~(Cardinality(ShardsWith(p)) >= FecData)
            /\ decoder' = decoder \cup ShardsWith(p) /\ Emit(<<>>)
  BY DEF HandleRepair, Arrives
<1>2. OneSession' => OneSession /\ \A q \in got : q.session = p.session
  BY <1>1, PastGrows
<1>3. /\ peer' \in Nat /\ partial' \subseteq EntryType
      /\ <<>> \in Seq(EventKinds) /\ emitted \subseteq EventType
      /\ decoder \subseteq Datagrams
  BY <1>1 DEF ReceiverInv, ReceiverTypeOK, EntryType, EventType
<1>4. CASE ~IsShard(p) /\ Emit(<<>>) /\ decoder' = decoder
  <2>1. outbox' = <<>> /\ emitted' = emitted /\ pc' = "check"
    BY <1>4, EmitNothing
  <2>2. ReceiverTypeOK'
    BY <1>3, <1>4, <2>1, ArrivalTyped
  <2>3. Awaited' /\ PlayedWhole' /\ Apart' /\ PlayedOnce' /\ NothingLost'
    BY <1>1, <2>1, FramesStill
  <2>4. Gathered' /\ Recovered'
    BY <1>4, <2>1, DecoderStill
  <2> QED
    BY <2>2, <2>3, <2>4 DEF ReceiverInv
<1>5. CASE /\ IsShard(p) /\ ~(Cardinality(ShardsWith(p)) >= FecData)
           /\ decoder' = decoder \cup ShardsWith(p) /\ Emit(<<>>)
  <2>1. outbox' = <<>> /\ emitted' = emitted /\ pc' = "check"
    BY <1>5, EmitNothing
  <2>2. ReceiverTypeOK'
    <3>1. decoder' \subseteq Datagrams
      BY <1>3, <1>5, ShardsFacts
    <3> QED
      BY <1>3, <2>1, <3>1, ArrivalTyped
  <2>3. Awaited' /\ PlayedWhole' /\ Apart' /\ PlayedOnce' /\ NothingLost'
    BY <1>1, <2>1, FramesStill
  <2>4. decoder' \in {decoder, decoder \cup {p}}
    BY <1>5, ShardsFacts DEF HeldWith
  <2>5. Gathered'
    <3>1. decoder' \subseteq {q \in got' : IsShard(q)}
      BY <1>1, <1>5, <2>4 DEF ReceiverInv, Gathered, IsShard
    <3>2. IsFiniteSet(decoder')
      BY <2>4, FS_AddElement DEF ReceiverInv, Gathered
    <3>3. ASSUME NEW q \in decoder'
          PROVE  Cardinality({r \in decoder' : r.id = q.id}) < FecData
      <4>1. CASE q.id = p.id
        <5>1. {r \in decoder' : r.id = q.id} = ShardsWith(p)
          BY <1>5, <4>1, ShardsFacts DEF HeldWith
        <5>2. IsFiniteSet(ShardsWith(p))
          BY <1>5, <3>2, FS_Subset
        <5>3. Cardinality(ShardsWith(p)) \in Nat /\ FecData \in Nat
          BY <5>2, FS_CardinalityType, ReceiverAssumption
        <5>4. Cardinality(ShardsWith(p)) < FecData
          BY <1>5, <5>3
        <5> QED
          BY <5>1, <5>4
      <4>2. CASE q.id # p.id
        <5>1. /\ q \in decoder
              /\ \A r : r \in decoder' /\ r.id = q.id <=> r \in decoder /\ r.id = q.id
          BY <2>4, <3>3, <4>2
        <5>2. {r \in decoder' : r.id = q.id} = HeldWith(q)
          BY <5>1 DEF HeldWith
        <5> QED
          BY <5>1, <5>2 DEF ReceiverInv, Gathered
      <4> QED
        BY <4>1, <4>2
    <3> QED
      BY <3>1, <3>2, <3>3 DEF Gathered, HeldWith
  <2>6. Recovered'
    <3>1. clean' /\ OneSession' => p \in decoder'
      BY <1>1, <1>2, <1>5, ShardsFacts
    <3> QED
      BY <1>1, <1>2, <1>5, <2>1, <3>1 DEF ReceiverInv, Recovered, IsShard
  <2> QED
    BY <2>2, <2>3, <2>5, <2>6 DEF ReceiverInv
<1>6. CASE /\ IsShard(p) /\ Cardinality(ShardsWith(p)) >= FecData
           /\ TryDecode(p)
  <2> DEFINE events == [n \in DOMAIN p.covers |-> Restored(p.covers[n])]
  <2>1. /\ decoder' = {q \in decoder : q.id # p.id}
        /\ \/ (\A q \in ShardsWith(p) : q.session = p.session) /\ Emit(events)
           \/ ~(\A q \in ShardsWith(p) : q.session = p.session) /\ Emit(<<>>)
    BY <1>6 DEF TryDecode
  <2>2. events \in Seq(EventType)
    <3>1. PICK k \in Nat : p.covers \in [1 .. k -> Media]
      <4> HIDE DEF events
      <4> QED
        BY PacketType, SeqDef
    <3>2. \A n \in 1 .. k : Restored(p.covers[n]) \in EventType
      <4> HIDE DEF events
      <4>1. \A d \in Media : Restored(d) \in EventType
        BY DEF Media, Restored, EventType, EventKinds
      <4> QED
        BY <3>1, <4>1
    <3>3. DOMAIN p.covers = 1 .. k
      BY <3>1
    <3>4. events \in [1 .. k -> EventType]
      <4>1. \A n \in 1 .. k : events[n] = Restored(p.covers[n])
        BY <3>3
      <4>2. DOMAIN events = 1 .. k /\ events = [n \in DOMAIN events |-> events[n]]
        BY <3>3
      <4> HIDE DEF events
      <4> QED
        BY <3>2, <4>1, <4>2
    <3> HIDE DEF events
    <3> QED
      BY <3>4, SeqDef
  <2>3. /\ outbox' \in Seq(EventKinds) /\ pc' \in {"check", "send"}
        /\ pc' = "send" <=> outbox' # <<>>
        /\ emitted' \subseteq EventType
        /\ \/ /\ \A q \in ShardsWith(p) : q.session = p.session
              /\ emitted' = emitted \cup {events[n] : n \in DOMAIN events}
           \/ /\ ~(\A q \in ShardsWith(p) : q.session = p.session)
              /\ emitted' = emitted
    <3> HIDE DEF events
    <3>1. ReceiverTypeOK
      BY DEF ReceiverInv
    <3> QED
      BY <1>3, <2>1, <2>2, <3>1, EmitEffect, EmitNothing
  <2>4. \A n \in DOMAIN p.covers :
           /\ events[n].recovered /\ events[n].parts = {p.covers[n]}
           /\ n \in DOMAIN events
    BY DEF Restored
  <2>5. DOMAIN events = DOMAIN p.covers
    OBVIOUS
  <2> HIDE DEF events
  <2>6. /\ emitted \subseteq emitted'
        /\ \A e \in emitted' : e.kind = "VideoFrame" /\ ~e.recovered => e \in emitted
    BY <2>3, <2>4, <2>5
  <2>7. ReceiverTypeOK'
    <3>1. decoder' \subseteq Datagrams
      BY <1>3, <2>1
    <3> QED
      BY <1>3, <2>3, <3>1, ArrivalTyped
  <2>8. Awaited' /\ PlayedWhole' /\ Apart' /\ PlayedOnce' /\ NothingLost'
    BY <1>1, <2>6, FramesStill
  <2>9. Gathered'
    <3>1. decoder' \subseteq {q \in got' : IsShard(q)}
      BY <1>1, <2>1 DEF ReceiverInv, Gathered, IsShard
    <3>2. IsFiniteSet(decoder')
      BY <2>1, FS_Subset DEF ReceiverInv, Gathered
    <3>3. ASSUME NEW q \in decoder'
          PROVE  Cardinality({r \in decoder' : r.id = q.id}) < FecData
      <4>1. {r \in decoder' : r.id = q.id} = HeldWith(q) /\ q \in decoder
        BY <2>1, <3>3 DEF HeldWith
      <4> QED
        BY <4>1 DEF ReceiverInv, Gathered
    <3> QED
      BY <3>1, <3>2, <3>3 DEF Gathered, HeldWith
  <2>10. Recovered'
    <3>1. SUFFICES ASSUME clean', OneSession', NEW q \in got', IsShard(q)
                   PROVE  \/ q \in decoder'
                          \/ \A n \in DOMAIN q.covers :
                                \E e \in emitted' : e.recovered /\ q.covers[n] \in e.parts
      BY DEF Recovered, IsShard
    <3>2. /\ clean /\ p \notin got /\ OneSession
          /\ \A r \in got : r.session = p.session
      BY <1>1, <1>2, <3>1
    <3>3. emitted' = emitted \cup {events[n] : n \in DOMAIN events}
      BY <1>6, <2>3, <3>2, ShardsFacts
    <3>4. CASE q.id = p.id
      <4>1. q \in Datagrams /\ q.kind = "repair" /\ p.kind = "repair" /\ q.session = p.session
        BY <1>1, <3>1, <3>2 DEF IsShard, ReceiverInv, ReceiverTypeOK
      <4>2. q.covers = p.covers
        BY <3>4, <4>1, ReceiverAssumption DEF SameGroup
      <4>3. \A n \in DOMAIN p.covers : events[n] \in emitted' /\ events[n].recovered
               /\ p.covers[n] \in events[n].parts
        BY <2>4, <3>3
      <4> QED
        BY <4>2, <4>3
    <3>5. CASE q.id # p.id
      <4>1. q \in got
        BY <1>1, <3>1, <3>5
      <4>2. \/ q \in decoder
            \/ \A n \in DOMAIN q.covers : \E e \in emitted : e.recovered /\ q.covers[n] \in e.parts
        BY <3>1, <3>2, <4>1 DEF ReceiverInv, Recovered
      <4> QED
        BY <2>1, <2>6, <3>5, <4>2
    <3> QED
      BY <3>4, <3>5
  <2> QED
    BY <2>7, <2>8, <2>9, <2>10 DEF ReceiverInv
<1> QED
  BY <1>1, <1>4, <1>5, <1>6

-----------------------------------------------------------------------------
(* Every step                                                              *)

\* The loop, the event channel and the application touch no packet.
LEMMA ReceiverStillKeeps ==
    ASSUME ReceiverInv, UNCHANGED <<partial, decoder, got, emitted, clean>>
    PROVE  /\ Awaited' /\ PlayedWhole' /\ Apart' /\ PlayedOnce' /\ NothingLost'
           /\ Gathered' /\ Recovered'
<1>1. Awaited' /\ PlayedWhole' /\ Apart'
  BY DEF ReceiverInv, Awaited, OneSession, PlayedWhole, FramesAreWhole, Apart
<1>2. PlayedOnce' /\ NothingLost'
  BY DEF ReceiverInv, PlayedOnce, NothingLost, OneSession
<1>3. Gathered' /\ Recovered'
  BY DEF ReceiverInv, Gathered, HeldWith, IsShard, Recovered, OneSession
<1> QED
  BY <1>1, <1>2, <1>3

\* An entry grows old: from here on fragments may be thrown away.
LEMMA ExpireKeeps ==
    ASSUME ReceiverInv, NEW e \in partial, Expire(e)
    PROVE  ReceiverInv'
<1> DEFINE old == [e EXCEPT !.stale = TRUE]
<1>1. /\ partial' = (partial \ {e}) \cup {old} /\ clean' = FALSE
      /\ UNCHANGED <<pc, running, peer, decoder, outbox, queue,
                     reading, goodbye, got, emitted>>
  BY DEF Expire
<1>2. partial \subseteq EntryType
  BY DEF ReceiverInv, ReceiverTypeOK, EntryType
<1>3. /\ old \in EntryType
      /\ old.id = e.id /\ old.parts = e.parts /\ old.total = e.total
  BY <1>2 DEF EntryType
<1> HIDE DEF old
<1>4. ReceiverTypeOK'
  <2>1. partial' \subseteq EntryType
    BY <1>1, <1>2, <1>3
  <2> QED
    BY <1>1, <2>1 DEF ReceiverInv, ReceiverTypeOK, EntryType
<1>5. Awaited'
  <2>1. \A a, b \in partial' : a.id = b.id => a = b
    BY <1>1, <1>3 DEF ReceiverInv, Awaited
  <2>2. \A a \in partial' :
          /\ IsFiniteSet(a.parts) /\ a.parts # {}
          /\ \A p \in a.parts : p \in got' /\ p.kind = "video" /\ p.id = a.id
          /\ \A p, q \in a.parts : p.index = q.index => p = q
          /\ OneSession' => \A p \in a.parts : p.total = a.total
    <3>1. TAKE a \in partial'
    <3>2. PICK b \in partial : b.id = a.id /\ b.parts = a.parts /\ b.total = a.total
      BY <1>1, <1>3
    <3>3. OneSession' => OneSession
      BY <1>1 DEF OneSession
    <3>4. /\ IsFiniteSet(b.parts) /\ b.parts # {}
          /\ \A p \in b.parts : p \in got /\ p.kind = "video" /\ p.id = b.id
          /\ \A p, q \in b.parts : p.index = q.index => p = q
          /\ OneSession => \A p \in b.parts : p.total = b.total
      BY DEF ReceiverInv, Awaited
    <3> QED
      BY <1>1, <3>2, <3>3, <3>4
  <2> QED
    BY <2>1, <2>2 DEF Awaited
<1>6. PlayedWhole'
  BY <1>1 DEF ReceiverInv, PlayedWhole, FramesAreWhole, OneSession
<1>7. Apart' /\ PlayedOnce' /\ NothingLost' /\ Recovered'
  BY <1>1 DEF Apart, PlayedOnce, NothingLost, Recovered
<1>8. Gathered'
  BY <1>1 DEF ReceiverInv, Gathered, HeldWith, IsShard
<1> QED
  BY <1>4, <1>5, <1>6, <1>7, <1>8 DEF ReceiverInv

\* Whatever packet is received, the invariant holds after it.
LEMMA ReceiveKeeps ==
    ASSUME ReceiverInv, NEW p \in Datagrams, Receive(p)
    PROVE  ReceiverInv'
<1>1. /\ Arrives(p)
      /\ \/ HandleSessionInit(p) \/ HandleWhole(p)
         \/ CompleteFrame(p) \/ KeepFragment(p) \/ HandleRepair(p)
  BY DEF Receive, Arrives
<1> QED
  BY <1>1, SessionInitKeeps, WholeKeeps, CompleteFrameKeeps, KeepFragmentKeeps,
     RepairKeeps

\* An event moves from the handler to the channel.
LEMMA DeliverTyped ==
    ASSUME ReceiverTypeOK, Deliver
    PROVE  ReceiverTypeOK'
<1>1. /\ pc = "send" /\ Len(queue) < QueueSize
      /\ queue' = Append(queue, Head(outbox)) /\ outbox' = Tail(outbox)
      /\ pc' = IF Len(outbox) = 1 THEN "check" ELSE "send"
      /\ UNCHANGED <<running, peer, partial, decoder, reading, goodbye, got,
                     clean, emitted>>
  BY DEF Deliver
<1>2. /\ outbox \in Seq(EventKinds) /\ outbox # <<>>
      /\ queue \in Seq(EventKinds \cup {"Disconnected"})
      /\ QueueSize \in Nat
  BY <1>1, ReceiverAssumption DEF ReceiverTypeOK
<1>3. /\ Head(outbox) \in EventKinds /\ outbox' \in Seq(EventKinds)
      /\ Len(outbox') = Len(outbox) - 1 /\ Len(outbox) \in Nat
  BY <1>1, <1>2, HeadTailProperties
<1>4. outbox' = <<>> <=> Len(outbox) = 1
  <2>1. \A s \in Seq(EventKinds) : s = <<>> <=> Len(s) = 0
    OBVIOUS
  <2> QED
    BY <1>3, <2>1
<1>5. /\ queue' \in Seq(EventKinds \cup {"Disconnected"})
      /\ Len(queue') <= QueueSize
  BY <1>1, <1>2, <1>3
<1>6. pc' \in {"check", "send"} /\ (pc' = "send" <=> outbox' # <<>>)
  BY <1>1, <1>4
<1> QED
  BY <1>1, <1>3, <1>5, <1>6 DEF ReceiverTypeOK

\* The application and its goodbye.
LEMMA ApplicationTyped ==
    ASSUME ReceiverTypeOK, Read \/ Stop \/ SayGoodbye \/ StopReading
    PROVE  ReceiverTypeOK'
<1>1. /\ queue \in Seq(EventKinds \cup {"Disconnected"})
      /\ Len(queue) <= QueueSize /\ QueueSize \in Nat
  BY ReceiverAssumption DEF ReceiverTypeOK
<1>2. CASE Read
  <2>1. /\ queue' \in Seq(EventKinds \cup {"Disconnected"})
        /\ Len(queue') <= QueueSize
    <3>1. queue # <<>> /\ queue' = Tail(queue)
      BY <1>2 DEF Read
    <3>2. /\ queue' \in Seq(EventKinds \cup {"Disconnected"})
          /\ Len(queue') = Len(queue) - 1
      BY <1>1, <3>1, HeadTailProperties
    <3> QED
      BY <1>1, <3>2
  <2> QED
    BY <1>2, <2>1 DEF Read, ReceiverTypeOK
<1>3. CASE SayGoodbye
  <2>1. /\ queue' \in Seq(EventKinds \cup {"Disconnected"})
        /\ Len(queue') <= QueueSize
    BY <1>1, <1>3 DEF SayGoodbye
  <2> QED
    BY <1>3, <2>1 DEF SayGoodbye, ReceiverTypeOK
<1>4. CASE Stop
  BY <1>4 DEF Stop, ReceiverTypeOK
<1>5. CASE StopReading
  BY <1>5 DEF StopReading, ReceiverTypeOK
<1> QED
  BY <1>2, <1>3, <1>4, <1>5

\* A receiver starts with nothing received.
LEMMA ReceiverInitEstablishes == ReceiverInit => ReceiverInv
<1> SUFFICES ASSUME ReceiverInit PROVE ReceiverInv
  OBVIOUS
<1>1. ReceiverTypeOK
  <2>1. outbox = <<>> /\ outbox \in Seq(EventKinds)
    BY DEF ReceiverInit
  <2>2. queue = <<>> /\ queue \in Seq(EventKinds \cup {"Disconnected"})
    BY DEF ReceiverInit
  <2>3. Len(queue) <= QueueSize
    BY <2>2, ReceiverAssumption
  <2>4. /\ pc = "start" /\ peer \in Nat /\ running \in BOOLEAN
        /\ reading \in BOOLEAN /\ clean \in BOOLEAN /\ goodbye = "none"
    BY DEF ReceiverInit
  <2>5. partial = {} /\ decoder = {} /\ got = {} /\ emitted = {}
    BY DEF ReceiverInit
  <2> QED
    BY <2>1, <2>2, <2>3, <2>4, <2>5 DEF ReceiverTypeOK
<1>2. Awaited /\ PlayedWhole /\ Apart /\ PlayedOnce /\ NothingLost
  BY DEF ReceiverInit, Awaited, PlayedWhole, FramesAreWhole, Apart, PlayedOnce, NothingLost
<1>3. Gathered /\ Recovered
  BY FS_EmptySet DEF ReceiverInit, Gathered, Recovered
<1> QED
  BY <1>1, <1>2, <1>3 DEF ReceiverInv

\* Every step of the receiver keeps the invariant.
LEMMA ReceiverStepKeepsInv == ReceiverInv /\ [ReceiverNext]_receiverVars => ReceiverInv'
<1> SUFFICES ASSUME ReceiverInv, [ReceiverNext]_receiverVars
             PROVE  ReceiverInv'
  OBVIOUS
<1>1. CASE Start \/ Check \/ Timeout \/ SocketError
  <2>1. UNCHANGED <<partial, decoder, got, emitted, clean>>
    BY <1>1 DEF Start, Check, Timeout, SocketError
  <2>2. ReceiverTypeOK'
    BY <1>1 DEF Start, Check, Timeout, SocketError, ReceiverInv, ReceiverTypeOK
  <2> QED
    BY <2>1, <2>2, ReceiverStillKeeps DEF ReceiverInv
<1>2. CASE Deliver
  <2>1. UNCHANGED <<partial, decoder, got, emitted, clean>>
    BY <1>2 DEF Deliver
  <2>2. ReceiverTypeOK'
    BY <1>2, DeliverTyped DEF ReceiverInv
  <2> QED
    BY <2>1, <2>2, ReceiverStillKeeps DEF ReceiverInv
<1>3. CASE Read \/ Stop \/ SayGoodbye \/ StopReading
  <2>1. UNCHANGED <<partial, decoder, got, emitted, clean>>
    BY <1>3 DEF Read, Stop, SayGoodbye, StopReading
  <2>2. ReceiverTypeOK'
    BY <1>3, ApplicationTyped DEF ReceiverInv
  <2> QED
    BY <2>1, <2>2, ReceiverStillKeeps DEF ReceiverInv
<1>4. ASSUME NEW p \in Datagrams, Receive(p) PROVE ReceiverInv'
  BY <1>4, ReceiveKeeps
<1>5. ASSUME NEW e \in partial, Expire(e) PROVE ReceiverInv'
  BY <1>5, ExpireKeeps
<1>6. CASE UNCHANGED receiverVars
  <2>1. UNCHANGED <<partial, decoder, got, emitted, clean>>
    BY <1>6 DEF receiverVars
  <2>2. ReceiverTypeOK'
    BY <1>6 DEF receiverVars, ReceiverInv, ReceiverTypeOK
  <2> QED
    BY <2>1, <2>2, ReceiverStillKeeps DEF ReceiverInv
<1> QED
  BY <1>1, <1>2, <1>3, <1>4, <1>5, <1>6 DEF ReceiverNext, Loop

\* ReceiverInv holds of every reachable state of the receiver.
THEOREM ReceiverInductive == ReceiverSpec => []ReceiverInv
BY ReceiverInitEstablishes, ReceiverStepKeepsInv, PTL DEF ReceiverSpec

\* The variables of the receiver keep their types (Receiver::run).
THEOREM ReceiverTypeCorrect == ReceiverSpec => []ReceiverTypeOK
<1>1. ReceiverInv => ReceiverTypeOK
  BY DEF ReceiverInv
<1> QED
  BY <1>1, ReceiverInductive, PTL

\* A video frame put together from packets that came has every fragment of one
\* frame (reassemble_frame joins the fragments when their count is total).  What
\* the decoder restores is sent on by itself and is not spoken of.
THEOREM FramesAreWholeHolds == ReceiverSpec => []FramesAreWhole
<1>1. ReceiverInv => FramesAreWhole
  BY DEF ReceiverInv, PlayedWhole
<1> QED
  BY <1>1, ReceiverInductive, PTL

\* Unless the network repeats a packet or one expires, a fragment that came is in
\* one reassembled frame or still waits for the others (handle_video,
\* pending_frames), whether or not the decoder sent it on as well.
THEOREM EachFragmentOnceHolds == ReceiverSpec => []EachFragmentOnce
<1>1. ReceiverInv => EachFragmentOnce
  BY DEF ReceiverInv, EachFragmentOnce
<1> QED
  BY <1>1, ReceiverInductive, PTL

\* A group that is not decoded has too few shards.
LEMMA ParityDecodes == ReceiverInv => ParityRecovers
<1> SUFFICES ASSUME ReceiverInv, clean, OneSession, NEW p \in got, IsShard(p),
                    Cardinality({q \in got : IsShard(q) /\ q.id = p.id}) >= FecData,
                    ~\A n \in DOMAIN p.covers :
                        \E e \in emitted : e.recovered /\ p.covers[n] \in e.parts
             PROVE  FALSE
  BY DEF ParityRecovers
<1> DEFINE G == {q \in got : IsShard(q) /\ q.id = p.id}
<1>1. ASSUME NEW q \in G PROVE q \in HeldWith(p)
  <2>1. /\ q \in Datagrams /\ p \in Datagrams /\ q \in got
        /\ q.kind \in {"video", "repair"} /\ SameGroup(q, p)
    BY DEF ReceiverInv, ReceiverTypeOK, IsShard, SameGroup, OneSession
  <2>2. q.covers = p.covers
    BY <2>1, ReceiverAssumption
  <2>3. q \in decoder
    BY <2>1, <2>2 DEF ReceiverInv, Recovered
  <2> QED
    BY <2>3 DEF HeldWith
<1>2. IsFiniteSet(HeldWith(p))
  BY FS_Subset DEF HeldWith, ReceiverInv, Gathered
<1>3. p \in decoder
  BY <1>1 DEF HeldWith
<1>4. Cardinality(HeldWith(p)) < FecData
  BY <1>3 DEF ReceiverInv, Gathered
<1> HIDE DEF G
<1>5. Cardinality(G) <= Cardinality(HeldWith(p)) /\ IsFiniteSet(G)
  BY <1>1, <1>2, FS_Subset
<1>6. Cardinality(G) \in Nat /\ Cardinality(HeldWith(p)) \in Nat /\ FecData \in Nat
  BY <1>2, <1>5, FS_CardinalityType, ReceiverAssumption
<1>7. Cardinality(G) >= FecData
  BY DEF G
<1> QED
  BY <1>4, <1>5, <1>6, <1>7

\* A group of which enough shards came is decoded, in whatever order they
\* came (FecDecoder::add_shard and its try_decode).
THEOREM ParityRecoversHolds == ReceiverSpec => []ParityRecovers
BY ParityDecodes, ReceiverInductive, PTL
=============================================================================
