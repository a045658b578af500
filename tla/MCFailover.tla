----------------------------- MODULE MCFailover -----------------------------
(***************************************************************************)
(* What the SFU must get to the end of: a failover (module Room, with the  *)
(* removals that go on to promote a backup) and the forwarding of a packet *)
(* while health checks and API calls use the same participants (module     *)
(* Forwarding).  A behaviour is about one of the two.                      *)
(***************************************************************************)
EXTENDS MCRoom, Forwarding

CONSTANTS q1, q2

VARIABLE view

\* The ids of all clients fall into one shard of the participant map.
OneShard == [p \in Clients |-> 1]

\* One client streams or listens, the other is the backup that takes over.
TwoRoles == {<<q1, "PrimarySender">>, <<q1, "Receiver">>, <<q2, "BackupSender">>}

FailoverInit == view \in {"room", "media"} /\ Init /\ MediaInit

FailoverNext ==
    \/ view = "room" /\ Next /\ UNCHANGED <<view, mediaVars>>
    \/ view = "media" /\ MediaNext /\ UNCHANGED <<view, vars>>

FailoverSpec == FailoverInit /\ [][FailoverNext]_<<view, vars, mediaVars>>

-----------------------------------------------------------------------------
\* The types of the room and of its media loop.
FailoverTypeOK == TypeOK /\ MediaTypeOK

\* A failover that a removal through the server calls for completes, when every
\* call that has begun goes on (module Room).
FailoversComplete == (\A t \in Tasks : WF_vars(Progress(t))) => FailoverCompletes

\* The walks over the receivers end, under the fairness of the threads they run
\* on (module Forwarding).
WalksEnd == MediaFairness => ForwardingGoesOn
=============================================================================
