----------------------------- MODULE AtomicCalls -----------------------------
(***************************************************************************)
(* What the native methods of the client promise to the Java thread that   *)
(* calls them, without sessions, conversions or a cache of types: whatever *)
(* a call reads, writes, executes, subscribes or unsubscribes, it does at  *)
(* one moment between the call and its answer, and no more than once.      *)
(* After a success it was done; after a failure nobody knows, and what a   *)
(* subscribe added may have been taken back.  Meanwhile the values of the  *)
(* nodes change by themselves.                                             *)
(***************************************************************************)
EXTENDS Integers

CONSTANT NoValue    \* what a node has that cannot be read

VARIABLES
    value,       \* node -> its value
    itemsOf,     \* node -> how many monitored items tell Java of its values
    subscribed,  \* nodes that Java subscribed and did not ask to unsubscribe since
    call,        \* what is called: kind, node, and the value written or read
    effects,     \* how often it was done
    status       \* how the last call ended, or "open"

nodes == <<value, itemsOf, subscribed>>
calls == <<nodes, call, effects, status>>

Idle == call.kind = "none"

Init ==
    /\ itemsOf = [m \in DOMAIN value |-> 0] /\ subscribed = {}
    /\ Idle /\ effects = 0 /\ status = "success"

Ask ==
    /\ Idle /\ call'.kind # "none"
    /\ effects' = 0 /\ status' = "open"
    /\ subscribed' = IF call'.kind = "unsubscribe"
                     THEN subscribed \ {call'.node} ELSE subscribed
    /\ UNCHANGED <<value, itemsOf>>

-----------------------------------------------------------------------------
(* The one moment.                                                         *)
Do(kind) ==
    /\ call.kind = kind /\ effects = 0
    /\ effects' = 1
    /\ UNCHANGED <<subscribed, status>>

Read ==
    /\ Do("read")
    /\ value[call.node] # NoValue
    /\ call' = [call EXCEPT !.value = value[call.node]]
    /\ UNCHANGED <<value, itemsOf>>

Write ==
    /\ Do("write")
    /\ value' = [value EXCEPT ![call.node] = call.value]
    /\ UNCHANGED <<itemsOf, call>>

Execute ==
    /\ Do("exec")
    /\ UNCHANGED <<value, itemsOf, call>>

Monitor ==
    /\ Do("subscribe")
    /\ itemsOf' = [itemsOf EXCEPT ![call.node] = @ + 1]
    /\ UNCHANGED <<value, call>>

Release ==
    /\ Do("unsubscribe")
    /\ itemsOf[call.node] > 0
    /\ itemsOf' = [itemsOf EXCEPT ![call.node] = @ - 1]
    /\ UNCHANGED <<value, call>>

-----------------------------------------------------------------------------
(* The answer.                                                             *)
Answer(result) ==
    /\ ~Idle /\ call'.kind = "none"
    /\ effects' = 0 /\ status' = result
    /\ value' = value

(* Browsing does nothing, and there may be nothing to unsubscribe.         *)
Succeed ==
    /\ Answer("success")
    /\ \/ effects = 1
       \/ call.kind = "browse"
       \/ call.kind = "unsubscribe" /\ itemsOf[call.node] = 0
    /\ subscribed' = IF call.kind = "subscribe"
                     THEN subscribed \cup {call.node} ELSE subscribed
    /\ itemsOf' = itemsOf

Fail ==
    /\ Answer("failed")
    /\ \/ itemsOf' = itemsOf
       \/ /\ call.kind = "subscribe" /\ effects = 1
          /\ itemsOf' = [itemsOf EXCEPT ![call.node] = @ - 1]
    /\ subscribed' = subscribed

-----------------------------------------------------------------------------
(* One node gets another value.                                            *)
Change ==
    /\ \E m \in DOMAIN value : value' = [value EXCEPT ![m] = value'[m]]
    /\ UNCHANGED <<itemsOf, subscribed, call, effects, status>>

Next == \/ Ask \/ Read \/ Write \/ Execute \/ Monitor \/ Release
        \/ Succeed \/ Fail \/ Change

Spec == Init /\ [][Next]_calls
=============================================================================
