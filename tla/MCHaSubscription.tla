-------------------------- MODULE MCHaSubscription --------------------------
(* Small instances of HaSubscription for TLC.                              *)
EXTENDS HaSubscription, TLC

CONSTANTS n1, n2, e1, t1, t2, sdk

VariableAndEventType == {n1, e1}
TwoVariables == {n1, n2}
OneEventType == {e1}
NoEventType == {}
OneThread == {t1}
TwoThreads == {t1, t2}

(* The server may refuse what it is asked for, but answers in time and     *)
(* keeps its subscriptions.                                                *)
Refusals == Services \cup {"item"}
AddRefusals == Refusals \ {"deleteSubscription"}
NoFaults == {}
LateAnswers == {"item", "lateAnswer"}
LossAndRefusals ==
    {"subscriptionLost", "createSubscription", "deleteSubscription", "item"}
ThreadSymmetry == Permutations(TwoThreads)
=============================================================================
