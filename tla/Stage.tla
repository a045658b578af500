------------------------------- MODULE Stage -------------------------------
(***************************************************************************)
(* What a room promises about its stage, without the calls that run it:    *)
(* a sender's id holds the stage, one sender at most speaks on it, and the *)
(* stage changes hands only when nobody speaks: it is given back free, and *)
(* then granted to the next.                                               *)
(***************************************************************************)
CONSTANTS Parts, Ids, IdOf, None

VARIABLES
    holder,   \* the id the stage is granted to, or None
    speakers  \* the participants whose packets are forwarded

StageInit == holder = None /\ speakers = {}

Grant ==
    /\ holder = None /\ speakers = {}
    /\ holder' \in Ids
    /\ UNCHANGED speakers

Enter ==
    /\ speakers = {}
    /\ \E p \in Parts : IdOf[p] = holder /\ speakers' = {p}
    /\ UNCHANGED holder

Leave ==
    /\ speakers # {} /\ speakers' = {}
    /\ UNCHANGED holder

Free ==
    /\ speakers = {}
    /\ holder' = None
    /\ UNCHANGED speakers

StageNext == Grant \/ Enter \/ Leave \/ Free

StageSpec == StageInit /\ [][StageNext]_<<holder, speakers>>
=============================================================================
