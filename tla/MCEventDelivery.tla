-------------------------- MODULE MCEventDelivery ----------------------------
(* An instance of EventDelivery: type 2 is a subtype of type 1 and         *)
(* declares one of its fields again; type 3 is their sibling; type 4 is    *)
(* not generated by any object.                                            *)
EXTENDS EventDelivery, TLC
MCSuperOf == <<0, 1, 0, 0>>
MCMembers == (0 :> <<"Message", "Time">>) @@ (1 :> <<"a", "b">>) @@ (2 :> <<"a2">>)
             @@ (3 :> <<"d">>) @@ (4 :> <<>>)
MCNameOf  == [Message |-> "Message", Time |-> "Time", a |-> "a", a2 |-> "a", b |-> "b", d |-> "d"]
MCHandling == <<"async", "async", "async", "none">>
=============================================================================
