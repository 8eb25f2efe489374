--------------------------- MODULE MCServerCache ---------------------------
(* Small instances of ServerCache for TLC.                                 *)
EXTENDS ServerCache, TLC

CONSTANTS a, b, s, r, u, c1, c2

OneOfEach == {a, s, u}
OneAsyncOneSync == {a, s}
TwoSync == {s, r}
TwoAsyncOneSync == {a, b, s}
AllKinds == {a, s, r, u}

HandlingOf(variables) ==
    [v \in variables |->
        CASE v \in {a, b} -> "async"
          [] v \in {s, r} -> "sync"
          [] v = u -> "none"]
HandlingOfEach == HandlingOf(OneOfEach)
HandlingAsyncSync == HandlingOf(OneAsyncOneSync)
HandlingTwoSync == HandlingOf(TwoSync)
HandlingTwoAsync == HandlingOf(TwoAsyncOneSync)
HandlingAll == HandlingOf(AllKinds)

OneClient == {c1}
TwoClients == {c1, c2}
NoFaults == {}
Conversion == {"conversion"}
ClientSymmetry == Permutations(TwoClients)
=============================================================================
