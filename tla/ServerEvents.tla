----------------------------- MODULE ServerEvents ----------------------------
(***************************************************************************)
(* The server's half of events.  When the nodes of a model have been       *)
(* created, its node manager registers the event types and their fields    *)
(* (HaNodeManagerNodeSetXml, EventTypeRegistry) and the bridge asks the    *)
(* Java data provider for their events, type by type.  From then on Java   *)
(* reports events from threads of its own: JDataProvider converts them and *)
(* the subscriber callback fires them.  Sessions read the fields of a      *)
(* fired event by name, which EventTypeData answers from the registry.     *)
(*                                                                         *)
(* One node manager and one data provider.  Whatever fails at start-up is  *)
(* recorded, the rest is done, and the first failure is logged.            *)
(***************************************************************************)
EXTENDS EventTypes

CONSTANTS
    Generated,     \* types that some object type refers to with GeneratesEvent
    Unexaminable,  \* types for which a browse to find that out may fail
    Handling,      \* type -> value handling of the node: "none", "sync" or "async"
    MaxEvents      \* bound: events that Java reports

ASSUME ServerEventsAssumption ==
    /\ Generated \subseteq ModelTypes /\ Unexaminable \subseteq ModelTypes
    /\ Handling \in [ModelTypes -> {"none", "sync", "async"}]
    /\ MaxEvents \in Nat

VARIABLES
    toExamine,    \* types of the model not yet examined
    eventTypes,   \* the registry: a registered type -> its super type
    eventFields,  \* the registry: <<type, browse name, variable>>
    asked,        \* types of which Java was asked to report events
    listening,    \* types with a callback in the JDataProvider
    reported,     \* number of events Java has reported
    fired,        \* the fired events, in that order: [type, given]
    serverDown    \* has the process crashed?

registry   == <<eventTypes, eventFields>>
serverVars == <<toExamine, registry, asked, listening, reported, fired, serverDown>>

ServerInit == /\ toExamine = ModelTypes
              /\ eventTypes = <<>> /\ eventFields = {}
              /\ asked = {} /\ listening = {}
              /\ reported = 0 /\ fired = <<>>
              /\ serverDown = FALSE

-----------------------------------------------------------------------------
(* Start-up.                                                               *)

(* HaNodeManagerNodeSetXmlPrivate::isEventType follows HasSubtype upwards  *)
(* from the type and downwards from it, without changing direction.        *)
IsEventType(t) == \E g \in Generated : IsSubtype(t, g) \/ IsSubtype(g, t)

(* The element that addObjectTypeElements has made of a type, with the     *)
(* type it was reached from; only its childs that are variables matter.    *)
Element(t) == [parent |-> SuperOf[t], childs |-> ToSet(Members[t])]
Entries(t) == {<<t, NameOf[v], v>> : v \in Element(t).childs}

(* One turn of the first loop of allNodesAndReferencesCreated.             *)
Mutant_TypeNotLinked(t) ==
    /\ ~serverDown /\ t \in toExamine
    /\ toExamine' = toExamine \ {t}
    /\ \/ /\ IsEventType(t)
          /\ eventTypes' = [u \in DOMAIN eventTypes \cup {t} |-> BaseEventType]
          /\ eventFields' = eventFields \cup Entries(t)
       \/ (~IsEventType(t) \/ t \in Unexaminable) /\ UNCHANGED registry
    /\ UNCHANGED <<asked, listening, reported, fired, serverDown>>
RegisterType(t) ==
    /\ ~serverDown /\ t \in toExamine
    /\ toExamine' = toExamine \ {t}
    /\ \/ /\ IsEventType(t)
          /\ eventTypes' = [u \in DOMAIN eventTypes \cup {t} |-> Element(u).parent]
          /\ eventFields' = eventFields \cup Entries(t)
       \/ (~IsEventType(t) \/ t \in Unexaminable) /\ UNCHANGED registry
    /\ UNCHANGED <<asked, listening, reported, fired, serverDown>>

(* What HaNodeManagerIODataProviderBridge::updateValueHandling subscribes; *)
(* synchronous handling of an event type is one of the recorded failures.  *)
Asynchronous == {t \in DOMAIN eventTypes : Handling[t] = "async"}

(* JDataProvider::subscribe asks Java for one type after the other; Java   *)
(* may report an event before the callback is in the list.                 *)
AskJava(t) ==
    /\ ~serverDown /\ toExamine = {}
    /\ asked = listening /\ t \in Asynchronous \ asked
    /\ asked' = asked \cup {t}
    /\ UNCHANGED <<toExamine, registry, listening, reported, fired, serverDown>>

AddCallback ==
    /\ ~serverDown /\ asked # listening
    /\ listening' = asked
    /\ UNCHANGED <<toExamine, registry, asked, reported, fired, serverDown>>

Up == toExamine = {} /\ listening = Asynchronous

-----------------------------------------------------------------------------
(* Events.                                                                 *)

HasSubtypes(t) == \E u \in ModelTypes : SuperOf[u] = t

(* JDataProvider::event takes every child of the event type for a field    *)
(* and uses the null pointer that NodeBrowser::getVariable returns for one *)
(* that is no variable, a subtype.                                         *)
BrowseFields(t) ==
    /\ HasSubtypes(t)
    /\ serverDown' = TRUE
    /\ UNCHANGED <<listening, fired>>

(* Nobody listens to the type; or its values are not a map (silently), or  *)
(* the source or a field is unknown, or a value cannot be converted        *)
(* (logged): the whole event is dropped.                                   *)
DropEvent(t, inOrder) ==
    /\ ~HasSubtypes(t)
    /\ t \notin listening \/ ~inOrder
    /\ UNCHANGED <<listening, fired, serverDown>>

Fire(t, given) ==
    /\ ~HasSubtypes(t)
    /\ t \in listening
    /\ fired' = Append(fired, [type |-> t, given |-> given])
    /\ UNCHANGED <<listening, serverDown>>

(* Server::event, on a thread of Java, to the end of processOpcUaEvent.    *)
JavaEvent(t, given, inOrder) ==
    /\ ~serverDown /\ t \in asked /\ reported < MaxEvents
    /\ reported' = reported + 1
    /\ \/ BrowseFields(t)
       \/ DropEvent(t, inOrder)
       \/ inOrder /\ Fire(t, given)
    /\ UNCHANGED <<toExamine, registry, asked>>

(* EventTypeRegistry::getEventFieldNodeId walks along the registered super *)
(* types until one has a field of that name (SDK: an index per name).      *)
Registered(t, name) == {v \in Variables : <<t, name, v>> \in eventFields}

FieldNodeId(t, name) ==
    LET Walk[u \in EventTypeIds] ==
            IF Registered(u, name) # {} THEN CHOOSE v \in Registered(u, name) : TRUE
            ELSE IF u \in DOMAIN eventTypes THEN Walk[eventTypes[u]]
            ELSE NoVariable
    IN Walk[t]

(* EventTypeData::getFieldData: the value is named by the variable for     *)
(* which it was given; NoVariable stands for an empty value.  What is not  *)
(* registered is left to the SDK, which knows BaseEventType.               *)
FieldData(event, name) ==
    LET v == FieldNodeId(event.type, name) IN
    IF v # NoVariable
    THEN IF v \in event.given THEN v ELSE NoVariable
    ELSE IF \E w \in BaseVariables : NameOf[w] = name
         THEN CHOOSE w \in BaseVariables : NameOf[w] = name ELSE NoVariable
=============================================================================
