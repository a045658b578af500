------------------------------ MODULE MCServer ------------------------------
(***************************************************************************)
(* The SFU server process as it is deployed: the API calls on one room     *)
(* (module Room), the tables the calls and the media loop keep (module     *)
(* Registry), and the clients' view of the control plane (module Api).     *)
(* Each looks at the process at its own grain, so a behaviour is about one *)
(* of them, the others standing at their initial states.                   *)
(***************************************************************************)
EXTENDS MCRoom, Registry, Api

CONSTANT n1

\* The media loop takes every stranger for the same participant.
LoopPids == [a \in Addrs |-> n1]

VARIABLE view

ServerInit ==
    view \in {"room", "tables", "api"} /\ Init /\ RegistryInit /\ ApiInit

ServerNext ==
    \/ view = "room" /\ Next /\ UNCHANGED <<view, registryVars, apiVars>>
    \/ view = "tables" /\ RegistryNext /\ UNCHANGED <<view, vars, apiVars>>
    \/ view = "api" /\ ApiNext /\ UNCHANGED <<view, vars, registryVars>>

ServerSpec ==
    ServerInit /\ [][ServerNext]_<<view, vars, registryVars, apiVars>>

-----------------------------------------------------------------------------
\* The types of a room, of the tables and of the control plane.
ServerTypeOK == TypeOK /\ RegistryTypeOK /\ ApiTypeOK
=============================================================================
