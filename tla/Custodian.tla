------------------------------- MODULE Custodian -------------------------------
(***************************************************************************)
(* What whoever asks the gateway's hot wallet for a transfer is promised,  *)
(* with no threads, RPC node or blockhashes: only an entitled request is   *)
(* paid, at most once, and what the asker is told is true.  HotWallet      *)
(* implements it.                                                          *)
(***************************************************************************)
CONSTANTS
    Jobs,       \* requests, one for each arrival
    Entitled    \* those the operator's policy allows

VARIABLES
    stage,      \* how far the custodian has got with each
    told,       \* what the asker has been told
    granted     \* requests whose transfer the chain's node has accepted

Init ==
    /\ stage = [j \in Jobs |-> "new"]
    /\ told = [j \in Jobs |-> "nothing"]
    /\ granted = {}

Move(j, from, to) == stage[j] \in from /\ stage' = [stage EXCEPT ![j] = to]

Tell(j, words) == told' = [told EXCEPT ![j] = words]

Consider(j) ==
    /\ j \in Entitled
    /\ Move(j, {"new"}, "open")
    /\ UNCHANGED <<told, granted>>

(* Silence is allowed, a false answer is not.                              *)
Decline(j) ==
    /\ Move(j, {"new", "open"}, "closed")
    /\ Tell(j, "no") \/ UNCHANGED told
    /\ UNCHANGED granted

Pay(j) ==
    /\ Move(j, {"open"}, "tried")
    /\ granted' = granted \cup {j} \/ UNCHANGED granted
    /\ UNCHANGED told

Close(j) ==
    /\ Move(j, {"tried"}, "closed")
    /\ \/ j \in granted /\ Tell(j, "ok")
       \/ Tell(j, "no")
       \/ UNCHANGED told
    /\ UNCHANGED granted

(* The custodian forgets what it was at.                                   *)
Forget ==
    /\ stage' = [j \in Jobs |-> IF stage[j] = "new" THEN "new" ELSE "closed"]
    /\ UNCHANGED <<told, granted>>

Next ==
    \/ \E j \in Jobs : Consider(j) \/ Decline(j) \/ Pay(j) \/ Close(j)
    \/ Forget

Spec == Init /\ [][Next]_<<stage, told, granted>>

=============================================================================
