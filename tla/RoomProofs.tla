----------------------------- MODULE RoomProofs -----------------------------
(* Safety of Room for any number of participants, ids and calls in flight. *)
EXTENDS Room, FiniteSetTheorems, TLAPS

-----------------------------------------------------------------------------
(* The strengthening: what the calls in flight hold between their steps.   *)

\* A call between these points works on an object that only it can reach.
OwnPoints == {"duplicate", "claim", "insert", "release"}
PromotionPoints == {"take", "crown", "install", "activate", "pause"}

OneOwner ==
    \A t \in Tasks : task[t].at \in OwnPoints =>
        /\ task[t].obj \notin members
        /\ \A u \in Tasks : task[u].at \in OwnPoints =>
               (task[u].obj = task[t].obj => u = t)

\* Only server removals reach the failover code, and only an enabled
\* failover gets past the trigger.
Routes ==
    \A t \in Tasks :
        /\ task[t].at = "release" => task[t].via \in Removals
        /\ task[t].at \in {"inspect", "trigger"} \cup PromotionPoints
               => "server" \in Removals
        /\ task[t].at \in PromotionPoints => FailoverEnabled

\* A primary that has claimed the register and has not been released yet,
\* in the map or on its way into or out of it.
Holding(p) ==
    /\ role[p] = "PrimarySender"
    /\ \/ p \in members
       \/ \E t \in Tasks : /\ task[t].at \in {"insert", "release"}
                           /\ task[t].obj = p

SoleClaim ==
    NoPromotion => \A p \in Parts : Holding(p) =>
                       /\ primary = IdOf[p]
                       /\ \A q \in Parts : Holding(q) => q = p

\* The calls that passed the capacity check and have not inserted yet.
Passed == {t \in Tasks : task[t].at \in {"duplicate", "claim", "insert"}}

Admissions ==
    \/ Cardinality(members) + Cardinality(Passed)
           < MaxParticipants + Cardinality(Tasks)
    \/ members = {} /\ Passed = {}

IInv == TypeOK /\ OneOwner /\ Routes /\ SoleClaim

-----------------------------------------------------------------------------
(* Type correctness.                                                       *)

\* The room starts empty and well typed.
LEMMA TypeInit == Init => TypeOK
BY RoomAssumption DEF Init, TypeOK, Idle, RoomStates, Roles, Points

\* One step per action: each keeps every variable in its type.
LEMMA TypeStep == TypeOK /\ [Next]_vars => TypeOK'
<1> SUFFICES ASSUME TypeOK, [Next]_vars PROVE TypeOK'
  OBVIOUS
<1> USE RoomAssumption DEF TypeOK, RoomStates, Roles, Points, Idle
<1>1. ASSUME NEW t \in Tasks, NEW p \in Parts, NEW r \in Roles,
             CheckCapacity(t, p, r)
      PROVE  TypeOK'
  BY <1>1 DEF CheckCapacity, Begin, At
<1>2. ASSUME NEW t \in Tasks, NEW p \in Parts, NEW via \in Removals,
             Cut(t, p, via)
      PROVE  TypeOK'
  BY <1>2 DEF Cut, Begin, At
<1>3. ASSUME NEW t \in Tasks, CheckDuplicate(t) PROVE TypeOK'
  BY <1>3 DEF CheckDuplicate, Goto, Return, At
<1>4. ASSUME NEW t \in Tasks, Claim(t) PROVE TypeOK'
  BY <1>4 DEF Claim, ClaimPrimary, ClaimBackup, ClaimNothing, Goto, Return, At
<1>5. ASSUME NEW t \in Tasks, Insert(t) PROVE TypeOK'
  BY <1>5 DEF Insert, Return, At
<1>6. ASSUME NEW t \in Tasks, Release(t) PROVE TypeOK'
  BY <1>6 DEF Release, Return, At
<1>7. ASSUME NEW t \in Tasks, Inspect(t) PROVE TypeOK'
  BY <1>7 DEF Inspect, Goto, Return, At
<1>8. ASSUME NEW t \in Tasks, Trigger(t) PROVE TypeOK'
  BY <1>8 DEF Trigger, Goto, Return, At
<1>9. ASSUME NEW t \in Tasks, Take(t) PROVE TypeOK'
  BY <1>9 DEF Take, Goto, At
<1>10. ASSUME NEW t \in Tasks, Crown(t) PROVE TypeOK'
  BY <1>10 DEF Crown, Goto, At
<1>11. ASSUME NEW t \in Tasks, Install(t) PROVE TypeOK'
  BY <1>11 DEF Install, Goto, At
<1>12. ASSUME NEW t \in Tasks, Activate(t) PROVE TypeOK'
  BY <1>12 DEF Activate, Return, At
<1>13. CASE Close
  BY <1>13 DEF Close, At
<1>14. CASE UNCHANGED vars
  BY <1>14 DEF vars
<1>15. ASSUME NEW t \in Tasks, Pause(t) PROVE TypeOK'
  BY <1>15 DEF Pause, Return, At
<1>16. QED
  BY <1>1, <1>2, <1>3, <1>4, <1>5, <1>6, <1>7, <1>8, <1>9, <1>10, <1>11,
     <1>12, <1>13, <1>14, <1>15 DEF Next, Progress

\* Every step of every call keeps the room's registers, its map and the
\* calls' places within their types (the whole of Room and of the failover).
THEOREM TypeCorrect == Spec => []TypeOK
BY TypeInit, TypeStep, PTL DEF Spec

-----------------------------------------------------------------------------
(* The invariants about the calls in flight.                               *)

\* An object between its construction and its insertion, or between its
\* removal and the release of its register, belongs to exactly one call.
LEMMA OneOwnerStep == TypeOK /\ OneOwner /\ [Next]_vars => OneOwner'
<1> SUFFICES ASSUME TypeOK, OneOwner, [Next]_vars PROVE OneOwner'
  OBVIOUS
<1> USE RoomAssumption DEF TypeOK, OneOwner, OwnPoints, Points, Idle
<1>1. ASSUME NEW t \in Tasks, NEW p \in Parts, NEW r \in Roles,
             CheckCapacity(t, p, r)
      PROVE  OneOwner'
  BY <1>1 DEF CheckCapacity, Begin, At, Unused
<1>2. ASSUME NEW t \in Tasks, NEW p \in Parts, NEW via \in Removals,
             Cut(t, p, via)
      PROVE  OneOwner'
  BY <1>2 DEF Cut, Begin, At
<1>3. ASSUME NEW t \in Tasks, CheckDuplicate(t) PROVE OneOwner'
  BY <1>3 DEF CheckDuplicate, Goto, Return, At
<1>4. ASSUME NEW t \in Tasks, Claim(t) PROVE OneOwner'
  BY <1>4 DEF Claim, ClaimPrimary, ClaimBackup, ClaimNothing, Goto, Return, At
<1>5. ASSUME NEW t \in Tasks, Insert(t) PROVE OneOwner'
  BY <1>5 DEF Insert, Return, At
<1>6. ASSUME NEW t \in Tasks, Release(t) PROVE OneOwner'
  BY <1>6 DEF Release, Return, At
<1>7. ASSUME NEW t \in Tasks, Inspect(t) PROVE OneOwner'
  BY <1>7 DEF Inspect, Goto, Return, At
<1>8. ASSUME NEW t \in Tasks, Trigger(t) PROVE OneOwner'
  BY <1>8 DEF Trigger, Goto, Return, At
<1>9. ASSUME NEW t \in Tasks, Take(t) PROVE OneOwner'
  BY <1>9 DEF Take, Goto, At
<1>10. ASSUME NEW t \in Tasks, Crown(t) PROVE OneOwner'
  BY <1>10 DEF Crown, Goto, At
<1>11. ASSUME NEW t \in Tasks, Install(t) PROVE OneOwner'
  BY <1>11 DEF Install, Goto, At
<1>12. ASSUME NEW t \in Tasks, Activate(t) PROVE OneOwner'
  BY <1>12 DEF Activate, Return, At
<1>13. CASE Close
  BY <1>13 DEF Close, At
<1>14. CASE UNCHANGED vars
  BY <1>14 DEF vars
<1>15. ASSUME NEW t \in Tasks, Pause(t) PROVE OneOwner'
  BY <1>15 DEF Pause, Return, At
<1>16. QED
  BY <1>1, <1>2, <1>3, <1>4, <1>5, <1>6, <1>7, <1>8, <1>9, <1>10, <1>11,
     <1>12, <1>13, <1>14, <1>15 DEF Next, Progress

\* Which calls can stand where, given the removals' entry points and the
\* failover switch.
LEMMA RoutesStep == TypeOK /\ Routes /\ [Next]_vars => Routes'
<1> SUFFICES ASSUME TypeOK, Routes, [Next]_vars PROVE Routes'
  OBVIOUS
<1> USE RoomAssumption DEF TypeOK, Routes, PromotionPoints, Points, Idle
<1>1. ASSUME NEW t \in Tasks, NEW p \in Parts, NEW r \in Roles,
             CheckCapacity(t, p, r)
      PROVE  Routes'
  BY <1>1 DEF CheckCapacity, Begin, At, Unused
<1>2. ASSUME NEW t \in Tasks, NEW p \in Parts, NEW via \in Removals,
             Cut(t, p, via)
      PROVE  Routes'
  BY <1>2 DEF Cut, Begin, At
<1>3. ASSUME NEW t \in Tasks, CheckDuplicate(t) PROVE Routes'
  BY <1>3 DEF CheckDuplicate, Goto, Return, At
<1>4. ASSUME NEW t \in Tasks, Claim(t) PROVE Routes'
  BY <1>4 DEF Claim, ClaimPrimary, ClaimBackup, ClaimNothing, Goto, Return, At
<1>5. ASSUME NEW t \in Tasks, Insert(t) PROVE Routes'
  BY <1>5 DEF Insert, Return, At
<1>6. ASSUME NEW t \in Tasks, Release(t) PROVE Routes'
  BY <1>6 DEF Release, Return, At
<1>7. ASSUME NEW t \in Tasks, Inspect(t) PROVE Routes'
  BY <1>7 DEF Inspect, Goto, Return, At
<1>8. ASSUME NEW t \in Tasks, Trigger(t) PROVE Routes'
  BY <1>8 DEF Trigger, Goto, Return, At
<1>9. ASSUME NEW t \in Tasks, Take(t) PROVE Routes'
  BY <1>9 DEF Take, Goto, At
<1>10. ASSUME NEW t \in Tasks, Crown(t) PROVE Routes'
  BY <1>10 DEF Crown, Goto, At
<1>11. ASSUME NEW t \in Tasks, Install(t) PROVE Routes'
  BY <1>11 DEF Install, Goto, At
<1>12. ASSUME NEW t \in Tasks, Activate(t) PROVE Routes'
  BY <1>12 DEF Activate, Return, At
<1>13. CASE Close
  BY <1>13 DEF Close, At
<1>14. CASE UNCHANGED vars
  BY <1>14 DEF vars
<1>15. ASSUME NEW t \in Tasks, Pause(t) PROVE Routes'
  BY <1>15 DEF Pause, Return, At
<1>16. QED
  BY <1>1, <1>2, <1>3, <1>4, <1>5, <1>6, <1>7, <1>8, <1>9, <1>10, <1>11,
     <1>12, <1>13, <1>14, <1>15 DEF Next, Progress
\* A claim is only granted on an empty register, and the register is only
\* emptied by the call that removed the claimant.
LEMMA SoleClaimStep ==
    TypeOK /\ OneOwner /\ Routes /\ SoleClaim /\ [Next]_vars => SoleClaim'
<1> SUFFICES ASSUME TypeOK, OneOwner, Routes, SoleClaim, [Next]_vars,
                    NoPromotion
             PROVE  SoleClaim'
  BY DEF SoleClaim, NoPromotion
<1> USE RoomAssumption DEF TypeOK, OneOwner, Routes, SoleClaim, Holding,
        NoPromotion, OwnPoints, PromotionPoints, Points, Idle
<1>1. ASSUME NEW t \in Tasks, NEW p \in Parts, NEW r \in Roles,
             CheckCapacity(t, p, r)
      PROVE  SoleClaim'
  BY <1>1 DEF CheckCapacity, Begin, At, Unused
<1>2. ASSUME NEW t \in Tasks, NEW p \in Parts, NEW via \in Removals,
             Cut(t, p, via)
      PROVE  SoleClaim'
  BY <1>2 DEF Cut, Begin, At
<1>3. ASSUME NEW t \in Tasks, CheckDuplicate(t) PROVE SoleClaim'
  BY <1>3 DEF CheckDuplicate, Goto, Return, At
<1>4. ASSUME NEW t \in Tasks, Claim(t) PROVE SoleClaim'
  BY <1>4 DEF Claim, ClaimPrimary, ClaimBackup, ClaimNothing, Goto, Return, At
<1>5. ASSUME NEW t \in Tasks, Insert(t) PROVE SoleClaim'
  BY <1>5 DEF Insert, Return, At
<1>6. ASSUME NEW t \in Tasks, Release(t) PROVE SoleClaim'
  BY <1>6 DEF Release, Return, At
<1>7. ASSUME NEW t \in Tasks, Inspect(t) PROVE SoleClaim'
  BY <1>7 DEF Inspect, Goto, Return, At
<1>8. ASSUME NEW t \in Tasks, Trigger(t) PROVE SoleClaim'
  BY <1>8 DEF Trigger, Goto, Return, At
<1>9. ASSUME NEW t \in Tasks, Take(t) PROVE SoleClaim'
  BY <1>9 DEF Take, Goto, At
<1>10. ASSUME NEW t \in Tasks, Crown(t) PROVE SoleClaim'
  BY <1>10 DEF Crown, Goto, At
<1>11. ASSUME NEW t \in Tasks, Install(t) PROVE SoleClaim'
  BY <1>11 DEF Install, Goto, At
<1>12. ASSUME NEW t \in Tasks, Activate(t) PROVE SoleClaim'
  BY <1>12 DEF Activate, Return, At
<1>13. CASE Close
  BY <1>13 DEF Close, At
<1>14. CASE UNCHANGED vars
  BY <1>14 DEF vars
<1>15. ASSUME NEW t \in Tasks, Pause(t) PROVE SoleClaim'
  BY <1>15 DEF Pause, Return, At
<1>16. QED
  BY <1>1, <1>2, <1>3, <1>4, <1>5, <1>6, <1>7, <1>8, <1>9, <1>10, <1>11,
     <1>12, <1>13, <1>14, <1>15 DEF Next, Progress

\* The map and the admitted calls are finite, so they can be counted.
LEMMA Countable ==
    ASSUME TypeOK
    PROVE  /\ IsFiniteSet(members) /\ Cardinality(members) \in Nat
           /\ IsFiniteSet(Passed) /\ Cardinality(Passed) \in Nat
           /\ Cardinality(Passed) <= Cardinality(Tasks)
           /\ Cardinality(Tasks) \in Nat
<1>1. members \in SUBSET Parts /\ Passed \in SUBSET Tasks
  BY DEF TypeOK, Passed
<1>2. QED
  BY <1>1, RoomAssumption, FS_Subset, FS_CardinalityType

\* A step that neither admits a call nor inserts an object adds to neither
\* count.
LEMMA AdmissionsShrink ==
    ASSUME TypeOK, TypeOK', Admissions,
           members' \subseteq members, Passed' \subseteq Passed
    PROVE  Admissions'
<1>1. /\ Cardinality(members') <= Cardinality(members)
      /\ Cardinality(Passed') <= Cardinality(Passed)
  BY Countable, FS_Subset
<1>2. Cardinality(members') \in Nat /\ Cardinality(Passed') \in Nat
  <2>1. /\ IsFiniteSet(members') /\ IsFiniteSet(Passed')
    BY Countable, FS_Subset
  <2>2. QED
    BY <2>1, FS_CardinalityType
<1>3. QED
  BY <1>1, <1>2, Countable, RoomAssumption DEF Admissions

\* A call counts against the capacity from its check to its insertion, where
\* it leaves the admitted calls as its object enters the map.
LEMMA AdmissionsStep ==
    TypeOK /\ TypeOK' /\ Admissions /\ [Next]_vars => Admissions'
<1> SUFFICES ASSUME TypeOK, TypeOK', Admissions, [Next]_vars
             PROVE  Admissions'
  OBVIOUS
<1> USE DEF Passed, Idle
<1>1. ASSUME NEW t \in Tasks, NEW p \in Parts, NEW r \in Roles,
             CheckCapacity(t, p, r)
      PROVE  Admissions'
  <2>1. Passed' \in SUBSET Tasks
    BY DEF Passed
  <2>2. /\ Cardinality(Passed') \in Nat
        /\ Cardinality(Passed') <= Cardinality(Tasks)
    BY <2>1, FS_Subset, FS_CardinalityType, RoomAssumption
  <2>3. members' = members /\ Cardinality(members) < MaxParticipants
    BY <1>1 DEF CheckCapacity
  <2>4. QED
    BY <2>2, <2>3, Countable, RoomAssumption DEF Admissions
<1>2. ASSUME NEW t \in Tasks, NEW p \in Parts, NEW via \in Removals,
             Cut(t, p, via)
      PROVE  Admissions'
  <2>1. members' \subseteq members /\ Passed' \subseteq Passed
    BY <1>2 DEF Cut, Begin, At, TypeOK, Points
  <2>2. QED
    BY <2>1, AdmissionsShrink
<1>3. ASSUME NEW t \in Tasks, CheckDuplicate(t) PROVE Admissions'
  <2>1. members' \subseteq members /\ Passed' \subseteq Passed
    BY <1>3 DEF CheckDuplicate, Goto, Return, At, TypeOK, Points
  <2>2. QED
    BY <2>1, AdmissionsShrink
<1>4. ASSUME NEW t \in Tasks, Claim(t) PROVE Admissions'
  <2>1. members' \subseteq members /\ Passed' \subseteq Passed
    BY <1>4 DEF Claim, ClaimPrimary, ClaimBackup, ClaimNothing, Goto, Return, At, TypeOK, Points
  <2>2. QED
    BY <2>1, AdmissionsShrink
<1>5. ASSUME NEW t \in Tasks, Insert(t)
      PROVE  Admissions'
  <2> DEFINE kept == {m \in members : ~SameId(m, task[t].obj)}
  <2>1. t \in Passed /\ Passed' = Passed \ {t}
    BY <1>5 DEF Insert, Return, At, Passed, Idle, TypeOK
  <2>2. Cardinality(Passed') = Cardinality(Passed) - 1
    BY <2>1, Countable, FS_RemoveElement
  <2>3. IsFiniteSet(kept) /\ Cardinality(kept) <= Cardinality(members)
    BY Countable, FS_Subset
  <2>4. Cardinality(kept) \in Nat
    BY <2>3, FS_CardinalityType
  <2>5. members' = kept \cup {task[t].obj}
    BY <1>5 DEF Insert
  <2>6. /\ Cardinality(members') \in Nat
        /\ Cardinality(members') <= Cardinality(members) + 1
    <3> HIDE DEF kept
    <3>1. /\ IsFiniteSet(kept \cup {task[t].obj})
          /\ Cardinality(kept \cup {task[t].obj}) \in
                 {Cardinality(kept), Cardinality(kept) + 1}
      BY <2>3, FS_AddElement
    <3>2. QED
      BY <3>1, <2>3, <2>4, <2>5, Countable
  <2>7. QED
    BY <2>1, <2>2, <2>6, Countable, RoomAssumption DEF Admissions
<1>6. ASSUME NEW t \in Tasks, Release(t) PROVE Admissions'
  <2>1. members' \subseteq members /\ Passed' \subseteq Passed
    BY <1>6 DEF Release, Return, At, TypeOK, Points
  <2>2. QED
    BY <2>1, AdmissionsShrink
<1>7. ASSUME NEW t \in Tasks, Inspect(t) PROVE Admissions'
  <2>1. members' \subseteq members /\ Passed' \subseteq Passed
    BY <1>7 DEF Inspect, Goto, Return, At, TypeOK, Points
  <2>2. QED
    BY <2>1, AdmissionsShrink
<1>8. ASSUME NEW t \in Tasks, Trigger(t) PROVE Admissions'
  <2>1. members' \subseteq members /\ Passed' \subseteq Passed
    BY <1>8 DEF Trigger, Goto, Return, At, TypeOK, Points
  <2>2. QED
    BY <2>1, AdmissionsShrink
<1>9. ASSUME NEW t \in Tasks, Take(t) PROVE Admissions'
  <2>1. members' \subseteq members /\ Passed' \subseteq Passed
    BY <1>9 DEF Take, Goto, At, TypeOK, Points
  <2>2. QED
    BY <2>1, AdmissionsShrink
<1>10. ASSUME NEW t \in Tasks, Crown(t) PROVE Admissions'
  <2>1. members' \subseteq members /\ Passed' \subseteq Passed
    BY <1>10 DEF Crown, Goto, At, TypeOK, Points
  <2>2. QED
    BY <2>1, AdmissionsShrink
<1>11. ASSUME NEW t \in Tasks, Install(t) PROVE Admissions'
  <2>1. members' \subseteq members /\ Passed' \subseteq Passed
    BY <1>11 DEF Install, Goto, At, TypeOK, Points
  <2>2. QED
    BY <2>1, AdmissionsShrink
<1>12. ASSUME NEW t \in Tasks, Activate(t) PROVE Admissions'
  <2>1. members' \subseteq members /\ Passed' \subseteq Passed
    BY <1>12 DEF Activate, Return, At, TypeOK, Points
  <2>2. QED
    BY <2>1, AdmissionsShrink
<1>13. CASE Close
  <2>1. members' \subseteq members /\ Passed' \subseteq Passed
    BY <1>13 DEF Close, At, TypeOK, Points
  <2>2. QED
    BY <2>1, AdmissionsShrink
<1>14. CASE UNCHANGED vars
  <2>1. members' \subseteq members /\ Passed' \subseteq Passed
    BY <1>14 DEF vars, TypeOK, Points
  <2>2. QED
    BY <2>1, AdmissionsShrink
<1>15. ASSUME NEW t \in Tasks, Pause(t) PROVE Admissions'
  <2>1. members' \subseteq members /\ Passed' \subseteq Passed
    BY <1>15 DEF Pause, Return, At, TypeOK, Points
  <2>2. QED
    BY <2>1, AdmissionsShrink
<1>16. QED
  BY <1>1, <1>2, <1>3, <1>4, <1>5, <1>6, <1>7, <1>8, <1>9, <1>10, <1>11,
     <1>12, <1>13, <1>14, <1>15 DEF Next, Progress

-----------------------------------------------------------------------------
(* The theorems.                                                           *)

\* The strengthened invariant of the room's calls.
THEOREM Inductive == Spec => []IInv
<1>1. Init => IInv
  BY RoomAssumption, TypeInit DEF Init, IInv, OneOwner, Routes, SoleClaim, Holding,
     OwnPoints, PromotionPoints, Idle
<1>2. IInv /\ [Next]_vars => IInv'
  BY TypeStep, OneOwnerStep, RoutesStep, SoleClaimStep DEF IInv
<1>3. QED
  BY <1>1, <1>2, PTL DEF Spec

\* Without promotions no interleaving of adds and removals ever mixes two
\* senders into one room (SoleSender), for any number of concurrent calls.
THEOREM SoleSenderHolds == Spec => []SoleSender
<1>1. IInv => SoleSender
  BY DEF IInv, SoleClaim, Holding, SoleSender, Speaking, TypeOK
<1>2. QED
  BY <1>1, Inductive, PTL

\* While removals come through the API, the state clients are shown and the
\* primary register agree in every reachable state (StateFollowsRegister).
THEOREM StateFollowsRegisterHolds == Spec => []StateFollowsRegister
<1>1. Init => StateFollowsRegister
  BY DEF Init, StateFollowsRegister
<1>2. /\ IInv /\ StateFollowsRegister /\ [Next]_vars => StateFollowsRegister'
  <2> SUFFICES ASSUME IInv, StateFollowsRegister, [Next]_vars,
                      "server" \notin Removals
               PROVE  open' => (roomState' = "Active" <=> primary' # None)
    BY DEF StateFollowsRegister
  <2> DEFINE Follows == open => (roomState = "Active" <=> primary # None)
  <2>0. \A t \in Tasks : task[t].at \notin {"inspect", "trigger"} \cup PromotionPoints
    BY DEF IInv, Routes
  <2> USE <2>0, RoomAssumption DEF IInv, TypeOK, StateFollowsRegister,
          PromotionPoints
  <2>1. ASSUME NEW t \in Tasks, NEW p \in Parts, NEW r \in Roles,
               CheckCapacity(t, p, r)
        PROVE  Follows'
    BY <2>1 DEF CheckCapacity, Begin, At, Unused
  <2>2. ASSUME NEW t \in Tasks, NEW p \in Parts, NEW via \in Removals,
               Cut(t, p, via)
        PROVE  Follows'
    BY <2>2 DEF Cut, Begin, At
  <2>3. ASSUME NEW t \in Tasks, CheckDuplicate(t) PROVE Follows'
    BY <2>3 DEF CheckDuplicate, Goto, Return, At
  <2>4. ASSUME NEW t \in Tasks, Claim(t) PROVE Follows'
    BY <2>4 DEF Claim, ClaimPrimary, ClaimBackup, ClaimNothing, Goto, Return, At
  <2>5. ASSUME NEW t \in Tasks, Insert(t) PROVE Follows'
    BY <2>5 DEF Insert, Return, At
  <2>6. ASSUME NEW t \in Tasks, Release(t) PROVE Follows'
    BY <2>6 DEF Release, Return, At
  <2>7. ASSUME NEW t \in Tasks, Inspect(t) PROVE Follows'
    BY <2>7 DEF Inspect, Goto, Return, At
  <2>8. ASSUME NEW t \in Tasks, Trigger(t) PROVE Follows'
    BY <2>8 DEF Trigger, Goto, Return, At
  <2>9. ASSUME NEW t \in Tasks, Take(t) PROVE Follows'
    BY <2>9 DEF Take, Goto, At
  <2>10. ASSUME NEW t \in Tasks, Crown(t) PROVE Follows'
    BY <2>10 DEF Crown, Goto, At
  <2>11. ASSUME NEW t \in Tasks, Install(t) PROVE Follows'
    BY <2>11 DEF Install, Goto, At
  <2>12. ASSUME NEW t \in Tasks, Activate(t) PROVE Follows'
    BY <2>12 DEF Activate, Return, At
  <2>13. CASE Close
    BY <2>13 DEF Close, At
  <2>14. CASE UNCHANGED vars
    BY <2>14 DEF vars
  <2>15. ASSUME NEW t \in Tasks, Pause(t) PROVE Follows'
    BY <2>15 DEF Pause, Return, At
  <2>16. QED
    BY <2>1, <2>2, <2>3, <2>4, <2>5, <2>6, <2>7, <2>8, <2>9, <2>10, <2>11,
       <2>12, <2>13, <2>14, <2>15 DEF Next, Progress
<1>3. QED
  BY <1>1, <1>2, Inductive, PTL DEF Spec

\* Concurrent joins overfill a room by less than the number of calls in
\* flight (BoundedOvershoot), whatever the capacity.
THEOREM BoundedOvershootHolds == Spec => []BoundedOvershoot
<1>1. Init => Admissions
  BY DEF Init, Admissions, Passed, Idle
<1>2. TypeOK /\ TypeOK' /\ Admissions /\ [Next]_vars => Admissions'
  BY AdmissionsStep
<1>3. TypeOK /\ Admissions => BoundedOvershoot
  BY Countable, RoomAssumption DEF Admissions, BoundedOvershoot
<1>4. QED
  BY <1>1, <1>2, <1>3, TypeCorrect, PTL DEF Spec

-----------------------------------------------------------------------------
(* Refinement: the stage.                                                  *)

\* Without promotions a speaker holds the register, alone; and while another
\* claim is on its way in or out nobody speaks.
LEMMA SpeakersHold ==
    ASSUME IInv, NoPromotion
    PROVE  /\ Speaking \subseteq Parts
           /\ \A p \in Speaking : primary = IdOf[p] /\ Speaking = {p}
           /\ primary = None => Speaking = {}
           /\ \A t \in Tasks : (/\ task[t].at \in {"insert", "release"}
                               /\ role[task[t].obj] = "PrimarySender")
                 => primary = IdOf[task[t].obj] /\ Speaking = {}
<1> USE RoomAssumption DEF IInv, TypeOK, Speaking
<1>1. \A p \in Speaking : Holding(p)
  BY DEF Holding
<1>2. \A p \in Speaking : primary = IdOf[p] /\ Speaking = {p}
  BY <1>1 DEF SoleClaim
<1>3. primary = None => Speaking = {}
  BY <1>2
<1>4. ASSUME NEW t \in Tasks, task[t].at \in {"insert", "release"},
             role[task[t].obj] = "PrimarySender"
      PROVE  primary = IdOf[task[t].obj] /\ Speaking = {}
  <2>1. task[t].obj \in Parts \ members
    BY <1>4 DEF OneOwner, OwnPoints
  <2>2. Holding(task[t].obj)
    BY <1>4, <2>1 DEF Holding
  <2>3. QED
    BY <1>1, <2>1, <2>2 DEF SoleClaim
<1>5. QED
  BY <1>2, <1>3, <1>4

\* Each step of a call is a step of the stage, or none.
LEMMA StageStep ==
    ASSUME IInv, NoPromotion, [Next]_vars
    PROVE  Abstract!StageNext \/ UNCHANGED <<primary, Speaking>>
<1> DEFINE Goal == Abstract!StageNext \/ UNCHANGED <<primary, Speaking>>
<1>0. \A t \in Tasks : task[t].at \notin PromotionPoints
  BY DEF IInv, Routes, NoPromotion
<1>1. ASSUME UNCHANGED <<primary, members, role>> PROVE Goal
  BY <1>1 DEF Speaking
<1>2. ASSUME NEW t \in Tasks, NEW p \in Parts, NEW r \in Roles,
             CheckCapacity(t, p, r)
      PROVE  Goal
  BY <1>2 DEF CheckCapacity, Unused, Speaking, IInv, TypeOK
<1>3. ASSUME NEW t \in Tasks, NEW p \in Parts, NEW via \in Removals, Cut(t, p, via)
      PROVE  Goal
  <2>1. UNCHANGED primary /\ Speaking' = Speaking \ {p}
    BY <1>3 DEF Cut, Speaking
  <2>2. CASE p \in Speaking
    BY <2>1, <2>2, SpeakersHold DEF Abstract!StageNext, Abstract!Leave
  <2>3. CASE p \notin Speaking
    BY <2>1, <2>3
  <2>4. QED
    BY <2>2, <2>3
<1>4. ASSUME NEW t \in Tasks, Claim(t) PROVE Goal
  <2>1. UNCHANGED Speaking
    BY <1>4 DEF Claim, Speaking
  <2>2. UNCHANGED primary \/ (primary = None /\ primary' = IdOf[task[t].obj])
    BY <1>4 DEF Claim, ClaimPrimary, ClaimBackup, ClaimNothing
  <2>3. IdOf[task[t].obj] \in Ids
    BY <1>4, RoomAssumption DEF Claim, At, IInv, TypeOK
  <2>4. QED
    BY <2>1, <2>2, <2>3, SpeakersHold DEF Abstract!StageNext, Abstract!Grant
<1>5. ASSUME NEW t \in Tasks, Insert(t) PROVE Goal
  <2> DEFINE obj == task[t].obj
  <2>1. /\ task[t].at = "insert" /\ obj \in Parts
        /\ UNCHANGED <<primary, role>>
        /\ members' = {m \in members : ~SameId(m, obj)} \cup {obj}
    BY <1>5 DEF Insert, At, IInv, TypeOK
  <2>2. CASE role[obj] = "PrimarySender"
    <3>1. Speaking = {} /\ primary = IdOf[obj]
      BY <2>1, <2>2, SpeakersHold
    <3>2. Speaking' = {obj}
      BY <2>1, <2>2, <3>1 DEF Speaking
    <3>3. QED
      BY <2>1, <3>1, <3>2 DEF Abstract!StageNext, Abstract!Enter
  <2>3. CASE role[obj] # "PrimarySender"
    <3>1. Speaking' \subseteq Speaking
      BY <2>1, <2>3 DEF Speaking
    <3>2. Speaking' = Speaking \/ (Speaking # {} /\ Speaking' = {})
      BY <3>1, SpeakersHold
    <3>3. QED
      BY <2>1, <3>2 DEF Abstract!StageNext, Abstract!Leave
  <2>4. QED
    BY <2>2, <2>3
<1>6. ASSUME NEW t \in Tasks, Release(t) PROVE Goal
  <2>1. task[t].at = "release" /\ UNCHANGED Speaking
    BY <1>6 DEF Release, At, Speaking
  <2>2. CASE role[task[t].obj] = "PrimarySender"
    <3>1. primary' = None
      BY <1>6, <2>2 DEF Release
    <3>2. QED
      BY <2>1, <2>2, <3>1, SpeakersHold DEF Abstract!StageNext, Abstract!Free
  <2>3. CASE role[task[t].obj] # "PrimarySender"
    <3>1. UNCHANGED primary
      BY <1>6, <2>3 DEF Release
    <3>2. QED
      BY <2>1, <3>1
  <2>4. QED
    BY <2>2, <2>3
<1>7. ASSUME NEW t \in Tasks,
             CheckDuplicate(t) \/ Inspect(t) \/ Trigger(t)
      PROVE  Goal
  BY <1>1, <1>7 DEF CheckDuplicate, Inspect, Trigger
<1>8. ASSUME NEW t \in Tasks,
             Take(t) \/ Pause(t) \/ Crown(t) \/ Install(t) \/ Activate(t)
      PROVE  Goal
  BY <1>0, <1>8 DEF Take, Pause, Crown, Install, Activate, At, PromotionPoints
<1>9. CASE Close
  BY <1>1, <1>9 DEF Close
<1>10. CASE UNCHANGED vars
  BY <1>1, <1>10 DEF vars
<1>11. QED
  BY <1>2, <1>3, <1>4, <1>5, <1>6, <1>7, <1>8, <1>9, <1>10 DEF Next, Progress

\* The room implements the stage (HandsOver), however many calls are in
\* flight, as long as nothing promotes a backup.
THEOREM HandsOverHolds ==
    ASSUME NoPromotion
    PROVE  Spec => HandsOver
<1>1. Init => Abstract!StageInit
  BY DEF Init, Abstract!StageInit, Speaking
<1>2. IInv /\ [Next]_vars => [Abstract!StageNext]_<<primary, Speaking>>
  BY StageStep
<1>3. QED
  BY <1>1, <1>2, Inductive, PTL DEF Spec, HandsOver, Abstract!StageSpec

-----------------------------------------------------------------------------
(* Calls that take turns: what the only call in flight leaves so.          *)

\* At most one call is in flight, and none once the room is closed.
Alone ==
    serial => /\ \A t, u \in Tasks : At(t, "idle") \/ At(u, "idle") \/ t = u
              /\ ~open => Quiet

\* The map has one object under each id; NewId(p): and none under p's.
UniqueIds == \A p, q \in members : SameId(p, q) => p = q

NewId(p) == p \notin members /\ \A m \in members : ~SameId(m, p)

\* The backup register names a backup in the map.
BackupKnown ==
    backup # None => \E p \in members : IdOf[p] = backup /\ role[p] = "BackupSender"

\* What call t has come to, as far as the backup register goes.
BackupAt(t) ==
    /\ At(t, "duplicate") => task[t].obj \notin members
    /\ task[t].at \in {"claim", "insert", "release"} => NewId(task[t].obj)
    /\ At(t, "insert") /\ role[task[t].obj] = "BackupSender"
          => backup = IdOf[task[t].obj]
    /\ \/ /\ task[t].at \in {"insert", "release"}
          /\ role[task[t].obj] = "BackupSender"
       \/ BackupKnown
    /\ task[t].at \in {"crown", "install", "activate"}
          => backup = None /\ task[t].obj \in members
    /\ At(t, "crown") => role[task[t].obj] = "BackupSender"
    /\ task[t].at \in {"install", "activate"} => role[task[t].obj] = "PrimarySender"

\* The backup register follows the map, whoever is in flight.
BackupFollows ==
    serial => /\ UniqueIds
              /\ Quiet => BackupKnown
              /\ \A t \in Tasks : ~At(t, "idle") => BackupAt(t)

\* serial is lost as soon as a call or a closing overlaps a call.
LEMMA AloneStep == TypeOK /\ Alone /\ [Next]_vars => Alone'
<1> SUFFICES ASSUME TypeOK, Alone, [Next]_vars PROVE Alone'
  OBVIOUS
<1> USE RoomAssumption DEF TypeOK, Alone, Quiet, At, Points, Idle
<1>1. ASSUME NEW t \in Tasks, NEW p \in Parts, NEW r \in Roles,
             CheckCapacity(t, p, r)
      PROVE  Alone'
  BY <1>1 DEF CheckCapacity, Begin
<1>2. ASSUME NEW t \in Tasks, NEW p \in Parts, NEW via \in Removals,
             Cut(t, p, via)
      PROVE  Alone'
  BY <1>2 DEF Cut, Begin
<1>3. ASSUME NEW t \in Tasks, Progress(t) PROVE Alone'
  <2>1. /\ task[t].at # "idle" /\ UNCHANGED <<serial, open>>
        /\ \A u \in Tasks \ {t} : task'[u] = task[u]
    BY <1>3 DEF Progress, CheckDuplicate, Claim, ClaimPrimary, ClaimBackup,
       ClaimNothing, Insert, Release, Inspect, Trigger, Take, Pause, Crown,
       Install, Activate, Goto, Return
  <2>2. QED
    BY <2>1
<1>4. CASE Close
  BY <1>4 DEF Close
<1>5. CASE UNCHANGED vars
  BY <1>5 DEF vars
<1>6. QED
  BY <1>1, <1>2, <1>3, <1>4, <1>5 DEF Next

\* One call at a time keeps the backup register naming a backup of the map:
\* a join writes it before it inserts, a removal clears it after it has cut,
\* a promotion empties it.
LEMMA BackupFollowsStep ==
    TypeOK /\ Alone /\ Alone' /\ BackupFollows /\ [Next]_vars => BackupFollows'
<1> SUFFICES ASSUME TypeOK, Alone, Alone', BackupFollows, [Next]_vars, serial'
             PROVE  BackupFollows'
  BY DEF BackupFollows
<1> DEFINE Others(t) == \A u \in Tasks \ {t} : At(u, "idle")
           Goal(t) == UniqueIds /\ IF At(t, "idle") THEN BackupKnown ELSE BackupAt(t)
<1>0. ASSUME NEW t \in Tasks, Others(t)', Goal(t)' PROVE BackupFollows'
  BY <1>0 DEF BackupFollows, Quiet
<1>1. ASSUME NEW t \in Tasks, NEW p \in Parts, NEW r \in Roles,
             CheckCapacity(t, p, r)
      PROVE  BackupFollows'
  <2>1. UniqueIds /\ BackupKnown /\ Others(t)
    BY <1>1 DEF CheckCapacity, Begin, BackupFollows, Quiet, At
  <2>2. /\ task'[t] = [at |-> "duplicate", obj |-> p, via |-> "api"]
        /\ \A u \in Tasks \ {t} : task'[u] = task[u]
        /\ p \notin members /\ UNCHANGED <<members, backup>>
        /\ \A q \in members : role'[q] = role[q]
    BY <1>1 DEF CheckCapacity, Begin, Unused, TypeOK
  <2>3. Others(t)' /\ UniqueIds' /\ BackupKnown'
    BY <2>1, <2>2 DEF At, UniqueIds, SameId, BackupKnown
  <2>4. BackupAt(t)'
    BY <2>2, <2>3 DEF BackupAt, At
  <2>5. QED
    BY <2>2, <2>3, <2>4, <1>0
<1>2. ASSUME NEW t \in Tasks, NEW p \in Parts, NEW via \in Removals,
             Cut(t, p, via)
      PROVE  BackupFollows'
  <2>1. UniqueIds /\ BackupKnown /\ Others(t)
    BY <1>2 DEF Cut, Begin, BackupFollows, Quiet, At
  <2>2. /\ task'[t] = [at |-> "release", obj |-> p, via |-> via]
        /\ \A u \in Tasks \ {t} : task'[u] = task[u]
        /\ p \in members /\ members' = members \ {p} /\ UNCHANGED <<role, backup>>
    BY <1>2 DEF Cut, Begin, TypeOK
  <2>3. Others(t)' /\ UniqueIds' /\ NewId(p)'
    BY <2>1, <2>2 DEF At, UniqueIds, SameId, NewId
  <2>4. role[p] # "BackupSender" => BackupKnown'
    BY <2>1, <2>2 DEF BackupKnown
  <2>5. BackupAt(t)'
    BY <2>2, <2>3, <2>4 DEF BackupAt, At
  <2>6. QED
    BY <2>2, <2>3, <2>5, <1>0 DEF At
<1>3. ASSUME NEW t \in Tasks, Progress(t) PROVE BackupFollows'
  <2> DEFINE obj == task[t].obj
  <2>1. /\ ~At(t, "idle") /\ serial
        /\ \A u \in Tasks \ {t} : task'[u] = task[u]
    BY <1>3 DEF Progress, CheckDuplicate, Claim, ClaimPrimary, ClaimBackup,
       ClaimNothing, Insert, Release, Inspect, Trigger, Take, Pause, Crown,
       Install, Activate, Goto, Return, At, TypeOK
  <2>2. Others(t) /\ UniqueIds /\ BackupAt(t) /\ Others(t)'
    BY <2>1 DEF Alone, BackupFollows, At
  <2>3. SUFFICES Goal(t)'
    BY <2>2, <1>0
  <2> HIDE DEF Others
  <2> USE <2>2, RoomAssumption DEF TypeOK, Points, At, Idle, BackupAt
  <2>4. CASE CheckDuplicate(t)
    BY <2>4 DEF CheckDuplicate, Goto, Return, UniqueIds, BackupKnown, NewId
  <2>5. CASE Claim(t)
    <3>1. task[t].at = "claim" /\ UNCHANGED <<members, role>> /\ NewId(obj)
      BY <2>5 DEF Claim
    <3>2. UniqueIds' /\ BackupKnown
      BY <3>1 DEF UniqueIds, SameId
    <3>3. CASE task' = [task EXCEPT ![t] = Idle] /\ UNCHANGED backup
      BY <3>1, <3>2, <3>3 DEF BackupKnown
    <3>4. CASE /\ task' = [task EXCEPT ![t].at = "insert"]
               /\ IF role[obj] = "BackupSender" THEN backup' = IdOf[obj]
                                               ELSE UNCHANGED backup
      <4>1. task'[t].at = "insert" /\ task'[t].obj = obj
        BY <3>4
      <4>2. role[obj] # "BackupSender" => BackupKnown'
        BY <3>1, <3>2, <3>4 DEF BackupKnown
      <4>3. QED
        BY <3>1, <3>2, <3>4, <4>1, <4>2 DEF NewId, SameId
    <3>5. QED
      BY <2>5, <3>3, <3>4 DEF Claim, ClaimPrimary, ClaimBackup, ClaimNothing,
                              Goto, Return
  <2>6. CASE Insert(t)
    BY <2>6 DEF Insert, Return, UniqueIds, BackupKnown, NewId, SameId
  <2>7. CASE Release(t)
    <3>1. /\ task[t].at = "release" /\ UNCHANGED <<members, role>>
          /\ task'[t].at \in {"idle", "inspect"}
      BY <2>7 DEF Release, Return
    <3>2. IF role[obj] = "BackupSender" THEN backup' = None ELSE UNCHANGED backup
      BY <2>7 DEF Release
    <3>3. UniqueIds' /\ BackupKnown'
      BY <3>1, <3>2 DEF UniqueIds, BackupKnown
    <3>4. QED
      BY <3>1, <3>3
  <2>8. CASE Inspect(t) \/ Trigger(t)
    <3>1. /\ task[t].at \in {"inspect", "trigger"}
          /\ UNCHANGED <<members, role, backup>>
          /\ task'[t].at \in {"idle", "trigger", "take"}
      <4>1. CASE Inspect(t)
        BY <4>1 DEF Inspect, Goto, Return
      <4>2. CASE Trigger(t)
        BY <4>2 DEF Trigger, Goto, Return
      <4>3. QED
        BY <2>8, <4>1, <4>2
    <3>2. UniqueIds' /\ BackupKnown'
      BY <3>1 DEF UniqueIds, BackupKnown
    <3>3. QED
      BY <3>1, <3>2
  <2>9. CASE Take(t)
    <3>1. /\ task[t].at = "take" /\ UNCHANGED <<members, role>>
          /\ backup' = None /\ UniqueIds' /\ BackupKnown'
      BY <2>9 DEF Take, UniqueIds, BackupKnown
    <3>2. CASE task'[t].at = "pause"
      BY <3>1, <3>2
    <3>3. ASSUME NEW p \in members, IdOf[p] = backup,
                 task' = [task EXCEPT ![t].at = "crown", ![t].obj = p]
          PROVE  Goal(t)'
      <4>1. role[p] = "BackupSender"
        BY <3>1, <3>3 DEF BackupKnown, UniqueIds, SameId
      <4>2. QED
        BY <3>1, <3>3, <4>1
    <3>4. QED
      BY <2>9, <3>2, <3>3 DEF Take, Goto
  <2>10. CASE Crown(t)
    BY <2>10 DEF Crown, Goto, UniqueIds, BackupKnown
  <2>11. CASE Install(t) \/ Activate(t)
    <3>1. /\ task[t].at \in {"install", "activate"}
          /\ UNCHANGED <<members, role, backup>>
          /\ \/ task'[t].at = "activate" /\ task'[t].obj = obj
             \/ task'[t].at = "idle"
      <4>1. CASE Install(t)
        BY <4>1 DEF Install, Goto
      <4>2. CASE Activate(t)
        BY <4>2 DEF Activate, Return
      <4>3. QED
        BY <2>11, <4>1, <4>2
    <3>2. UniqueIds' /\ BackupKnown'
      BY <3>1 DEF UniqueIds, BackupKnown
    <3>3. QED
      BY <3>1, <3>2
  <2>12. CASE Pause(t)
    BY <2>12 DEF Pause, Return, UniqueIds, BackupKnown
  <2>13. QED
    BY <1>3, <2>4, <2>5, <2>6, <2>7, <2>8, <2>9, <2>10, <2>11, <2>12 DEF Progress
<1>4. CASE Close
  BY <1>4 DEF Close, Alone, BackupFollows, Quiet, At, UniqueIds, BackupKnown
<1>5. CASE UNCHANGED vars
  BY <1>5 DEF vars, BackupFollows, Quiet, At, UniqueIds, BackupKnown, BackupAt, NewId
<1>6. QED
  BY <1>1, <1>2, <1>3, <1>4, <1>5 DEF Next

\* Nobody has the register and nobody is forwarded.
Vacant == primary = None /\ Speaking = {}

\* State, primary register and roles tell the same story.
Led ==
    /\ roomState \in {"Active", "Paused"}
    /\ roomState = "Active" <=> primary # None
    /\ primary # None => \E p \in Speaking : IdOf[p] = primary
    /\ \A p \in Speaking : IdOf[p] = primary

\* The primary is gone and the backup is not promoted yet.
Abandoned == Vacant /\ roomState = "Failover" /\ backup # None

\* A primary that has the register and is not in the map.
Passing(t) ==
    task[t].at \in {"insert", "release"} /\ role[task[t].obj] = "PrimarySender"

\* What call t has come to, as far as the primary register goes.
LedAt(t) ==
    /\ Passing(t) => /\ primary = IdOf[task[t].obj] /\ Speaking = {}
                     /\ roomState = "Active"
    /\ \/ Passing(t)
       \/ task[t].at \in {"inspect", "trigger"} \cup PromotionPoints
       \/ Led
    /\ At(t, "inspect") => Led \/ Abandoned
    /\ task[t].at \in {"trigger", "take"} => Abandoned
    /\ task[t].at \in {"crown", "pause"} => Vacant
    /\ At(t, "install") => primary = None /\ Speaking = {task[t].obj}
    /\ At(t, "activate") => primary = IdOf[task[t].obj] /\ Speaking = {task[t].obj}

\* The primary register, the state and the roles follow each other while every
\* removal goes on to the failover.
LeadFollows ==
    "api" \notin Removals /\ serial /\ open =>
        /\ Quiet => Led
        /\ \A t \in Tasks : ~At(t, "idle") => LedAt(t)

\* One call at a time takes the room from one coherent state to the next: by
\* way of the claim, the insertion, the cut, and the steps of a failover.
LEMMA LeadFollowsStep ==
    TypeOK /\ Routes /\ Alone /\ Alone' /\ BackupFollows /\ LeadFollows /\ [Next]_vars
        => LeadFollows'
<1> SUFFICES ASSUME TypeOK, Routes, Alone, Alone', BackupFollows, LeadFollows,
                    [Next]_vars, serial', open', "api" \notin Removals
             PROVE  LeadFollows'
  BY DEF LeadFollows
<1> DEFINE Others(t) == \A u \in Tasks \ {t} : At(u, "idle")
           Goal(t) == IF At(t, "idle") THEN Led ELSE LedAt(t)
<1>0. ASSUME NEW t \in Tasks, Others(t)', Goal(t)' PROVE LeadFollows'
  BY <1>0 DEF LeadFollows, Quiet
<1>1. ASSUME NEW t \in Tasks, NEW p \in Parts, NEW r \in Roles,
             CheckCapacity(t, p, r)
      PROVE  LeadFollows'
  <2>1. Led /\ Others(t)
    BY <1>1 DEF CheckCapacity, Begin, LeadFollows, Quiet, At
  <2>2. /\ task'[t] = [at |-> "duplicate", obj |-> p, via |-> "api"]
        /\ \A u \in Tasks \ {t} : task'[u] = task[u]
        /\ p \notin members /\ UNCHANGED <<members, primary, roomState>>
        /\ \A q \in members : role'[q] = role[q]
    BY <1>1 DEF CheckCapacity, Begin, Unused, TypeOK
  <2>3. Others(t)' /\ UNCHANGED Speaking
    BY <2>1, <2>2 DEF At, Speaking
  <2>4. Led'
    BY <2>1, <2>2, <2>3 DEF Led
  <2>5. LedAt(t)'
    BY <2>2, <2>4 DEF LedAt, Passing, At
  <2>6. QED
    BY <2>2, <2>3, <2>4, <2>5, <1>0
<1>2. ASSUME NEW t \in Tasks, NEW p \in Parts, NEW via \in Removals,
             Cut(t, p, via)
      PROVE  LeadFollows'
  <2>1. UniqueIds /\ Led /\ Others(t)
    BY <1>2 DEF Cut, Begin, BackupFollows, LeadFollows, Quiet, At
  <2>2. /\ task'[t] = [at |-> "release", obj |-> p, via |-> via]
        /\ \A u \in Tasks \ {t} : task'[u] = task[u]
        /\ p \in members /\ members' = members \ {p}
        /\ UNCHANGED <<role, primary, roomState>>
    BY <1>2 DEF Cut, Begin, TypeOK
  <2>3. Others(t)' /\ Speaking' = Speaking \ {p}
    BY <2>1, <2>2 DEF At, Speaking
  <2>4. CASE role[p] = "PrimarySender"
    <3>1. p \in Speaking /\ primary = IdOf[p] /\ primary # None
      BY <2>1, <2>2, <2>4, RoomAssumption DEF Led, Speaking, TypeOK
    <3>2. Speaking' = {} /\ roomState = "Active"
      BY <2>1, <2>3, <3>1 DEF Led, Speaking, UniqueIds, SameId
    <3>3. LedAt(t)'
      BY <2>2, <2>4, <3>1, <3>2 DEF LedAt, Passing, At
    <3>4. QED
      BY <2>2, <2>3, <3>3, <1>0 DEF At
  <2>5. CASE role[p] # "PrimarySender"
    <3>1. UNCHANGED Speaking
      BY <2>3, <2>5 DEF Speaking
    <3>2. Led'
      BY <2>1, <2>2, <3>1 DEF Led
    <3>3. LedAt(t)'
      BY <2>2, <2>5, <3>2 DEF LedAt, Passing, At
    <3>4. QED
      BY <2>2, <2>3, <3>3, <1>0 DEF At
  <2>6. QED
    BY <2>4, <2>5
<1>3. ASSUME NEW t \in Tasks, Progress(t) PROVE LeadFollows'
  <2> DEFINE obj == task[t].obj
  <2>1. /\ ~At(t, "idle") /\ serial /\ open
        /\ \A u \in Tasks \ {t} : task'[u] = task[u]
    BY <1>3 DEF Progress, CheckDuplicate, Claim, ClaimPrimary, ClaimBackup,
       ClaimNothing, Insert, Release, Inspect, Trigger, Take, Pause, Crown,
       Install, Activate, Goto, Return, At, TypeOK
  <2>2. Others(t) /\ BackupAt(t) /\ LedAt(t) /\ Others(t)'
    BY <2>1 DEF Alone, BackupFollows, LeadFollows, At
  <2>3. SUFFICES Goal(t)'
    BY <2>2, <1>0
  <2> HIDE DEF Others
  <2> USE <2>2, RoomAssumption DEF TypeOK, Points, PromotionPoints, At, Idle
  <2>4. CASE CheckDuplicate(t)
    <3>1. /\ At(t, "duplicate") /\ UNCHANGED <<members, role, primary, roomState>>
          /\ task'[t].at \in {"idle", "claim"}
      BY <2>4 DEF CheckDuplicate, Goto, Return
    <3>2. Led'
      BY <3>1 DEF LedAt, Passing, Led, Speaking
    <3>3. QED
      BY <3>1, <3>2 DEF LedAt, Passing
  <2>5. CASE Claim(t)
    <3>1. /\ At(t, "claim") /\ UNCHANGED <<members, role, Speaking>>
          /\ obj \in Parts /\ IdOf[obj] # None
      BY <2>5 DEF Claim, Speaking
    <3>2. Led
      BY <3>1 DEF LedAt, Passing
    <3>3. CASE UNCHANGED <<primary, roomState>> /\ task'[t].at = "idle"
      BY <3>1, <3>2, <3>3 DEF Led
    <3>4. CASE /\ UNCHANGED <<primary, roomState>> /\ task'[t].at = "insert"
               /\ task'[t].obj = obj /\ role[obj] # "PrimarySender"
      <4>1. Led'
        BY <3>1, <3>2, <3>4 DEF Led
      <4>2. QED
        BY <3>1, <3>4, <4>1 DEF LedAt, Passing
    <3>5. CASE /\ role[obj] = "PrimarySender" /\ primary = None
               /\ primary' = IdOf[obj] /\ roomState' = "Active"
               /\ task'[t].at = "insert" /\ task'[t].obj = obj
      <4>1. Speaking = {}
        BY <3>2, <3>5 DEF Led, Speaking
      <4>2. QED
        BY <3>1, <3>5, <4>1 DEF LedAt, Passing
    <3>6. CASE ClaimPrimary(t)
      BY <3>3, <3>5, <3>6 DEF ClaimPrimary, Goto, Return
    <3>7. CASE ClaimBackup(t)
      BY <3>3, <3>4, <3>7 DEF ClaimBackup, Goto, Return
    <3>8. CASE ClaimNothing(t)
      BY <3>4, <3>8 DEF ClaimNothing, Goto, Return
    <3>9. QED
      BY <2>5, <3>6, <3>7, <3>8 DEF Claim
  <2>6. CASE Insert(t)
    <3>1. /\ At(t, "insert") /\ UNCHANGED <<role, primary, roomState>>
          /\ obj \in Parts /\ IdOf[obj] # None
          /\ members' = members \cup {obj} /\ task'[t].at = "idle"
      BY <2>6 DEF Insert, Return, BackupAt, NewId, SameId
    <3>2. Speaking' = IF role[obj] = "PrimarySender" THEN Speaking \cup {obj}
                                                    ELSE Speaking
      BY <3>1 DEF Speaking
    <3>3. Led'
      BY <3>1, <3>2 DEF Led, LedAt, Passing
    <3>4. QED
      BY <3>1, <3>3
  <2>7. CASE Release(t)
    <3>1. /\ At(t, "release") /\ UNCHANGED <<members, role, Speaking>>
          /\ task'[t].at = "inspect"
      BY <2>7 DEF Release, Return, Routes, Speaking
    <3>2. CASE role[obj] = "PrimarySender"
      <4>1. /\ primary' = None /\ UNCHANGED backup
            /\ roomState' = IF backup # None THEN "Failover" ELSE "Paused"
        BY <2>7, <3>2 DEF Release
      <4>2. QED
        BY <3>1, <3>2, <4>1 DEF LedAt, Passing, Led, Abandoned, Vacant
    <3>3. CASE role[obj] # "PrimarySender"
      <4>1. UNCHANGED <<primary, roomState>>
        BY <2>7, <3>3 DEF Release
      <4>2. QED
        BY <3>1, <3>3, <4>1 DEF LedAt, Passing, Led
    <3>4. QED
      BY <3>2, <3>3
  <2>8. CASE Inspect(t)
    <3>1. /\ At(t, "inspect")
          /\ UNCHANGED <<members, role, primary, backup, roomState, Speaking>>
          /\ task'[t].at = IF roomState = "Failover" THEN "trigger" ELSE "idle"
      BY <2>8 DEF Inspect, Goto, Return, Speaking
    <3>2. QED
      BY <3>1 DEF LedAt, Passing, Led, Abandoned, Vacant
  <2>9. CASE Trigger(t)
    <3>1. /\ At(t, "trigger") /\ UNCHANGED <<primary, backup, Speaking>>
          /\ \/ task'[t].at = "take" /\ UNCHANGED roomState
             \/ task'[t].at = "idle" /\ roomState' = "Paused"
      BY <2>1, <2>9 DEF Trigger, Goto, Return, Speaking
    <3>2. QED
      BY <3>1 DEF LedAt, Passing, Led, Abandoned, Vacant
  <2>10. CASE Take(t)
    <3>1. /\ At(t, "take") /\ UNCHANGED <<primary, Speaking>>
          /\ \/ task'[t].at = "crown" /\ UNCHANGED roomState
             \/ task'[t].at = "pause" /\ UNCHANGED roomState
      BY <2>10 DEF Take, Goto, Speaking
    <3>2. QED
      BY <3>1 DEF LedAt, Passing, Led, Abandoned, Vacant
  <2>11. CASE Crown(t)
    <3>1. /\ At(t, "crown") /\ UNCHANGED <<members, primary>>
          /\ obj \in members /\ task'[t].at = "install" /\ task'[t].obj = obj
          /\ role' = [role EXCEPT ![obj] = "PrimarySender"]
      BY <2>11 DEF Crown, Goto, BackupAt
    <3>2. Speaking = {} /\ primary = None
      BY <3>1 DEF LedAt, Vacant
    <3>3. Speaking' = {obj}
      BY <3>1, <3>2 DEF Speaking
    <3>4. QED
      BY <3>1, <3>2, <3>3 DEF LedAt, Passing
  <2>12. CASE Install(t)
    <3>1. /\ At(t, "install") /\ primary' = IdOf[obj] /\ UNCHANGED Speaking
          /\ task'[t].at = "activate" /\ task'[t].obj = obj
      BY <2>12 DEF Install, Goto, Speaking
    <3>2. QED
      BY <3>1 DEF LedAt, Passing
  <2>13. CASE Activate(t)
    <3>1. /\ At(t, "activate") /\ roomState' = "Active"
          /\ UNCHANGED <<primary, Speaking>>
          /\ task'[t].at = "idle" /\ IdOf[obj] # None
      BY <2>13 DEF Activate, Return, Speaking
    <3>2. QED
      BY <3>1 DEF LedAt, Passing, Led
  <2>14. CASE Pause(t)
    <3>1. /\ At(t, "pause") /\ roomState' = "Paused"
          /\ UNCHANGED <<primary, Speaking>> /\ task'[t].at = "idle"
      BY <2>14 DEF Pause, Return, Speaking
    <3>2. QED
      BY <3>1 DEF LedAt, Passing, Led, Vacant
  <2>15. QED
    BY <1>3, <2>4, <2>5, <2>6, <2>7, <2>8, <2>9, <2>10, <2>11, <2>12, <2>13, <2>14
       DEF Progress
<1>4. CASE Close
  BY <1>4 DEF Close
<1>5. CASE UNCHANGED vars
  BY <1>5 DEF vars, LeadFollows, Quiet, At, Led, LedAt, Passing, Abandoned, Vacant,
              Speaking, PromotionPoints
<1>6. QED
  BY <1>1, <1>2, <1>3, <1>4, <1>5 DEF Next

-----------------------------------------------------------------------------
\* The invariant of calls that take turns.
SerialInv == Alone /\ BackupFollows /\ LeadFollows

\* Calls that take turns find and leave the registers, the map and the state as
\* SerialInv says, step by step.
THEOREM TurnsHold == Spec => []SerialInv
<1>1. Init => SerialInv
  BY DEF Init, SerialInv, Alone, BackupFollows, LeadFollows, Quiet, At, Idle,
     UniqueIds, BackupKnown, Led, Speaking
<1>2. TypeOK /\ TypeOK' /\ IInv /\ SerialInv /\ [Next]_vars => SerialInv'
  BY AloneStep, BackupFollowsStep, LeadFollowsStep DEF SerialInv, IInv
<1>3. QED
  BY <1>1, <1>2, TypeCorrect, Inductive, PTL DEF Spec

\* A room at rest is coherent across any number of joins, removals and failovers
\* that did not overlap (SerialCoherent).
THEOREM SerialCoherentHolds == Spec => []SerialCoherent
<1>1. SerialInv => SerialCoherent
  BY DEF SerialInv, BackupFollows, LeadFollows, SerialCoherent, Led, BackupKnown
<1>2. QED
  BY <1>1, TurnsHold, PTL

\* Only a backup sender is ever made primary by a failover that nothing overlaps
\* (PromotesOnlyBackups), whichever way removals enter.
THEOREM PromotesOnlyBackupsHolds == Spec => PromotesOnlyBackups
<1> DEFINE Fair == serial' => \A p \in members \cap members' :
                     role[p] # role'[p] => /\ role[p] = "BackupSender"
                                           /\ role'[p] = "PrimarySender"
<1>1. TypeOK /\ SerialInv /\ [Next]_vars => [Fair]_vars
  <2> SUFFICES ASSUME TypeOK, SerialInv, Next PROVE Fair
    OBVIOUS
  <2>1. ASSUME NEW t \in Tasks, NEW p \in Parts, NEW r \in Roles,
               CheckCapacity(t, p, r)
        PROVE  Fair
    BY <2>1 DEF CheckCapacity, Unused, TypeOK
  <2>2. ASSUME NEW t \in Tasks, Crown(t), serial' PROVE Fair
    <3>1. role[task[t].obj] = "BackupSender"
      BY <2>2 DEF Crown, At, SerialInv, BackupFollows, BackupAt
    <3>2. QED
      BY <2>2, <3>1 DEF Crown, TypeOK
  <2>3. CASE UNCHANGED role
    BY <2>3
  <2>4. ASSUME NEW t \in Tasks, Progress(t), ~Crown(t) PROVE UNCHANGED role
    BY <2>4 DEF Progress, CheckDuplicate, Claim, Insert, Release, Inspect,
                Trigger, Take, Pause, Install, Activate
  <2>5. QED
    BY <2>1, <2>2, <2>3, <2>4 DEF Next, Cut, Close
<1>2. QED
  BY <1>1, TypeCorrect, TurnsHold, PTL DEF Spec, PromotesOnlyBackups
=============================================================================
