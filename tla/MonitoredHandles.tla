-------------------------- MODULE MonitoredHandles --------------------------
(***************************************************************************)
(* What a subscription object promises about client handles, without       *)
(* threads, services or failures: a handle stands for one node for ever,   *)
(* waits until the server has confirmed it, is active then, and once       *)
(* retired never comes back; and the application is only told about nodes  *)
(* that have a waiting or an active handle at that moment.                 *)
(***************************************************************************)
VARIABLES
    waiting,   \* handle -> node, entered but not confirmed
    active,    \* handle -> node, confirmed by the server
    retired,   \* handles that were given up
    told       \* the node the application was last told about, in a set

handles == <<waiting, active, retired, told>>

Init ==
    /\ DOMAIN waiting = {}
    /\ DOMAIN active = {}
    /\ retired = {}
    /\ told = {}

(* Every handle of f is one of g, for the same node.                       *)
PartOf(f, g) == \A h \in DOMAIN f : h \in DOMAIN g /\ g[h] = f[h]

(* New handles enter; old ones stay as they are.                           *)
Enter ==
    /\ PartOf(waiting, waiting')
    /\ \A h \in DOMAIN waiting' \ DOMAIN waiting :
          h \notin DOMAIN active \cup retired
    /\ active' = active
    /\ retired' = retired
    /\ told' = told

(* The server has answered for some handles: waiting ones become active or *)
(* retire.                                                                 *)
Settle ==
    /\ PartOf(waiting', waiting)
    /\ PartOf(active, active')
    /\ \A h \in DOMAIN active' \ DOMAIN active :
          h \in DOMAIN waiting \ DOMAIN waiting' /\ active'[h] = waiting[h]
    /\ retired' = retired \cup (DOMAIN waiting
                                   \ (DOMAIN waiting' \cup DOMAIN active'))
    /\ told' = told

(* Handles are given up.                                                   *)
Retire ==
    /\ PartOf(waiting', waiting)
    /\ PartOf(active', active)
    /\ retired' = retired \cup (DOMAIN waiting \ DOMAIN waiting')
                          \cup (DOMAIN active \ DOMAIN active')
    /\ told' = told

Tell ==
    /\ \/ \E h \in DOMAIN waiting : told' = {waiting[h]}
       \/ \E h \in DOMAIN active : told' = {active[h]}
    /\ UNCHANGED <<waiting, active, retired>>

Next == Enter \/ Settle \/ Retire \/ Tell

Spec == Init /\ [][Next]_handles
=============================================================================
