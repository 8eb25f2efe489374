------------------------- MODULE MCClientOperations --------------------------
(* Instances of ClientOperations.  types: one node, whose type is a        *)
(* structure that contains another type of the server, and methods, one    *)
(* with an argument of a type without super types; values: two nodes of    *)
(* simple types.                                                           *)
EXTENDS ClientOperations
CONSTANTS n1, n2, m1, m2
TypesKindOf     == <<"simple", "structure", "unknown">>
TypesFields     == << <<>>, <<1>>, <<>> >>
TypesTypeOf     == n1 :> 2
TypesInputType  == (m1 :> 1) @@ (m2 :> 3)
TypesOutputType == (m1 :> 2) @@ (m2 :> 0)
ValuesTypeOf    == [m \in {n1, n2} |-> 0]
NoTypes         == <<>>
NoMethods       == [m \in {} |-> 0]
=============================================================================
