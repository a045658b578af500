------------------------------- MODULE MCRoom -------------------------------
(* Small instances of Room for TLC.                                        *)
EXTENDS Room, TLC

CONSTANTS p1, p2, p3, p4, idA, idB, idC

\* Two of the objects are made with the same id.
SharedIdOf == [p \in Parts |-> CASE p = p1 -> idA [] p = p4 -> idC [] OTHER -> idB]

\* Every object has an id of its own.
OwnIdOf == [p \in Parts |-> p]

\* The two objects with the same id are interchangeable.
Twins == Permutations({p2, p3})
TwinsAndTasks == Twins \cup Permutations(Tasks)
=============================================================================
