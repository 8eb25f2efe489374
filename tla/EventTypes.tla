------------------------------ MODULE EventTypes -----------------------------
(***************************************************************************)
(* The event types of a server and the variables that are their fields.    *)
(* Types are numbered so that a type comes after its super type; 0 is      *)
(* BaseEventType.  The server and its clients see the same types, each     *)
(* through what it has browsed.                                            *)
(***************************************************************************)
EXTENDS Integers, SequencesExt

CONSTANTS
    TypeCount,   \* event types of the server's model, 1 .. TypeCount
    SuperOf,     \* type of the model -> its super type
    Members,     \* type -> the variables it declares, in browse order
    NameOf,      \* variable -> browse name
    Message, Time   \* two variables of BaseEventType

BaseEventType == 0
ModelTypes    == 1 .. TypeCount
EventTypeIds  == {BaseEventType} \cup ModelTypes
BaseVariables == ToSet(Members[BaseEventType])
Variables     == UNION {ToSet(Members[t]) : t \in EventTypeIds}

(* A type declares no browse name twice, and no variable belongs to two    *)
(* types; a type may well declare a name again that a super type has.      *)
ASSUME EventTypesAssumption ==
    /\ TypeCount \in Nat
    /\ DOMAIN SuperOf = ModelTypes /\ \A t \in ModelTypes : SuperOf[t] \in 0 .. t - 1
    /\ DOMAIN Members = EventTypeIds
    /\ \A t \in EventTypeIds : Members[t] \in Seq(ToSet(Members[t]))
    /\ \A t \in EventTypeIds :
          IsInjective([i \in DOMAIN Members[t] |-> NameOf[Members[t][i]]])
    /\ \A t, u \in EventTypeIds : t # u => ToSet(Members[t]) \cap ToSet(Members[u]) = {}
    /\ {Message, Time} \subseteq BaseVariables

NoVariable == "no variable"

(* A type and its super types, nearest first.                              *)
Line[t \in EventTypeIds] ==
    IF t = BaseEventType THEN <<t>> ELSE <<t>> \o Line[SuperOf[t]]

IsSubtype(t, u) == u \in ToSet(Line[t])

(* What both sides mean by the field of that name of an event type: the    *)
(* variable that the nearest type of its line declares.                    *)
DeclaredBy(types) == UNION {ToSet(Members[types[i]]) : i \in DOMAIN types}
Named(t, name) == {v \in ToSet(Members[t]) : NameOf[v] = name}
Nearest(t, name) ==
    LET places == {k \in DOMAIN Line[t] : Named(Line[t][k], name) # {}}
    IN IF places = {} THEN NoVariable
       ELSE CHOOSE v \in Named(Line[t][Min(places)], name) : TRUE
=============================================================================
