---------------------------- MODULE IntentLifecycle ----------------------------
(***************************************************************************)
(* What an execution intent promises those who read it: a status that only *)
(* moves along the lifecycle, one transition at a time, and stays where it *)
(* is once the intent is settled or refunded.                              *)
(***************************************************************************)
CONSTANT Intents

VARIABLE status

Statuses == {"absent", "pending", "approved", "executed", "settled", "refunded"}

Legal ==
    {<<"absent", "pending">>, <<"pending", "approved">>, <<"approved", "executed">>,
     <<"executed", "settled">>, <<"pending", "refunded">>, <<"approved", "refunded">>,
     <<"executed", "refunded">>}

Init == status = [i \in Intents |-> "absent"]

Move(i) ==
    \E s \in Statuses :
       /\ <<status[i], s>> \in Legal
       /\ status' = [status EXCEPT ![i] = s]

Next == \E i \in Intents : Move(i)

Spec == Init /\ [][Next]_status
=============================================================================
