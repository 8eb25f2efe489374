----------------------------- MODULE ClientEvents ----------------------------
(***************************************************************************)
(* A client's half of events.  To subscribe an event type HaSession        *)
(* collects the fields of the type and its super types from the server,    *)
(* HaSubscription adds a monitored item that selects them by name, and     *)
(* Client preloads the types of their values.  The SDK's thread hands over *)
(* each event as the list of the selected values, from which Client makes  *)
(* what Native2J tells Java.                                               *)
(*                                                                         *)
(* One Java thread, each type subscribed once; what becomes of an item     *)
(* that is removed, lost or answered late is the subject of HaSubscription.*)
(***************************************************************************)
EXTENDS EventTypes

CONSTANTS
    Wanted,       \* types that Java may subscribe
    BrowseFails,  \* types whose references the server may fail to return
    ReadFails,    \* variables whose attributes the server may fail to return
    Strange       \* variables whose values the client may fail to convert

ASSUME ClientEventsAssumption ==
    /\ Wanted \subseteq ModelTypes /\ BrowseFails \subseteq EventTypeIds
    /\ ReadFails \subseteq Variables /\ Strange \subseteq Variables \ BaseVariables

VARIABLES
    items,       \* the server: type of a monitored item -> the names it selects
    list,        \* HaSubscription: type of a monitored item -> its fields
    op,          \* the subscription under way
    tried,       \* types that Java has subscribed, successfully or not
    published,   \* notifications, one event each: [item, number, values]
    told,        \* what Java was told: [item, number, elements, time]
    clientDown   \* has the process crashed?

clientVars == <<items, list, op, tried, published, told, clientDown>>

NoOp == [pc |-> "idle", type |-> 0, at |-> 0, rest |-> <<>>, fields |-> <<>>]

ClientInit == /\ items = <<>> /\ list = <<>>
              /\ op = NoOp /\ tried = {}
              /\ published = <<>> /\ told = <<>>
              /\ clientDown = FALSE

-----------------------------------------------------------------------------
(* Subscribing.                                                            *)

Done == op' = NoOp

Subscribe(t) ==
    /\ ~clientDown /\ op.pc = "idle" /\ t \in Wanted \ tried
    /\ tried' = tried \cup {t}
    /\ op' = [NoOp EXCEPT !.pc = "browse", !.type = t, !.at = t]
    /\ UNCHANGED <<items, list, published, told, clientDown>>

(* HaSessionPrivate::getEventFields: first the variables of the type ...   *)
Browse ==
    /\ ~clientDown /\ op.pc = "browse"
    /\ op' = [op EXCEPT !.pc = "fields", !.rest = Members[op.at]]
    /\ UNCHANGED <<items, list, tried, published, told, clientDown>>

(* (a super type that fails is logged, "process as many event fields as    *)
(* possible"; for the type itself the operation fails)                     *)
BrowseFailed ==
    /\ ~clientDown /\ op.pc = "browse" /\ op.at \in BrowseFails
    /\ IF op.at = op.type THEN Done ELSE op' = [op EXCEPT !.pc = "collected"]
    /\ UNCHANGED <<items, list, tried, published, told, clientDown>>

(* The search for an earlier field of that name; a field that could not be *)
(* read has no name, and to compare with it is to use a null pointer.      *)
Mutant_Comparison(name) == "new"
Comparison(name) ==
    LET hit == SelectInSeq(op.fields, LAMBDA f : f.failed \/ NameOf[f.variable] = name)
    IN IF hit = 0 THEN "new" ELSE IF op.fields[hit].failed THEN "null" ELSE "found"

(* HaSession::read of a variable's class, data type and value; that a value *)
(* cannot be read is reason enough to fail.                                *)
ReadOutcomes(v) == {"read"} \cup (IF v \in ReadFails THEN {"failed"} ELSE {})

NextField ==
    /\ ~clientDown /\ op.pc = "fields" /\ op.rest # <<>>
    /\ LET v == Head(op.rest)
           seen == Comparison(NameOf[v])
       IN \/ /\ seen = "new"
             /\ \E outcome \in ReadOutcomes(v) :
                   op' = [op EXCEPT !.rest = Tail(@),
                             !.fields = Append(@, [variable |-> v, failed |-> outcome = "failed"])]
             /\ UNCHANGED clientDown
          \/ seen = "found" /\ op' = [op EXCEPT !.rest = Tail(@)] /\ UNCHANGED clientDown
          \/ seen = "null" /\ clientDown' = TRUE /\ op' = op
    /\ UNCHANGED <<items, list, tried, published, told>>

Mutant_SuperTypesIgnored ==
    /\ ~clientDown /\ op.pc = "fields" /\ op.rest = <<>>
    /\ op' = [op EXCEPT !.pc = "collected"]
    /\ UNCHANGED <<items, list, tried, published, told, clientDown>>

(* ... then, along the inverse HasSubtype reference, those of the super    *)
(* type.  (Of BaseObjectType, above BaseEventType, there are none.)        *)
SuperType ==
    /\ ~clientDown /\ op.pc = "fields" /\ op.rest = <<>>
    /\ op' = IF op.at = BaseEventType THEN [op EXCEPT !.pc = "collected"]
             ELSE [op EXCEPT !.pc = "browse", !.at = SuperOf[op.at]]
    /\ UNCHANGED <<items, list, tried, published, told, clientDown>>

(* A field that could not be read fails the operation; otherwise           *)
(* HaSubscription::add enters the item and its fields before it asks the   *)
(* server for it.                                                          *)
Collected ==
    /\ ~clientDown /\ op.pc = "collected"
    /\ IF \E i \in DOMAIN op.fields : op.fields[i].failed
       THEN Done /\ UNCHANGED list
       ELSE /\ op' = [op EXCEPT !.pc = "create", !.rest = <<>>, !.fields = <<>>]
            /\ list' = [t \in DOMAIN list \cup {op.type} |->
                           IF t = op.type
                           THEN [i \in DOMAIN op.fields |-> op.fields[i].variable] ELSE list[t]]
    /\ UNCHANGED <<items, tried, published, told, clientDown>>

(* The server creates the item, its event filter selects by browse name.   *)
CreateItem ==
    /\ ~clientDown /\ op.pc = "create"
    /\ items' = [t \in DOMAIN items \cup {op.type} |->
                    IF t = op.type
                    THEN [i \in DOMAIN list[t] |-> NameOf[list[t][i]]] ELSE items[t]]
    /\ op' = [op EXCEPT !.pc = "created"]
    /\ UNCHANGED <<list, tried, published, told, clientDown>>

(* ... or refuses it: it is taken out of the list and the operation fails. *)
ItemRefused ==
    /\ ~clientDown /\ op.pc = "create"
    /\ list' = [t \in DOMAIN list \ {op.type} |-> list[t]]
    /\ Done
    /\ UNCHANGED <<items, tried, published, told, clientDown>>

Mutant_ItemForgotten ==
    /\ ~clientDown /\ op.pc = "created"
    /\ Done
    /\ \/ UNCHANGED list
       \/ list' = [t \in DOMAIN list \ {op.type} |-> list[t]]
    /\ UNCHANGED <<items, tried, published, told, clientDown>>

(* Preloading the types of the fields; if it fails Java is told that the   *)
(* subscription failed, but the item stays.                                *)
Preloaded ==
    /\ ~clientDown /\ op.pc = "created"
    /\ Done
    /\ UNCHANGED <<items, list, tried, published, told, clientDown>>

-----------------------------------------------------------------------------
(* Events.                                                                 *)

(* HaSubscriptionPrivate::newEvents gives the values by their place to the *)
(* fields of the item.                                                     *)
Mutant_ValueOf(n, i) == n.values[IF i = 1 THEN Len(n.values) ELSE i - 1]
ValueOf(n, i) == n.values[i]

(* ClientPrivate::newEvents converts what it tells Java: elements of the   *)
(* server's model, Time and Message; the other variables of BaseEventType  *)
(* are not modelled.  An empty value has no type and is not converted.     *)
Convertible(n) == \A i \in DOMAIN list[n.item] : ValueOf(n, i) # NoVariable
Fails(n)       == \E i \in DOMAIN list[n.item] : list[n.item][i] \in Strange

EventOf(n) ==
    LET fields == list[n.item] IN
    [item |-> n.item, number |-> n.number,
     elements |-> {<<fields[i], ValueOf(n, i)>> :
                      i \in {j \in DOMAIN fields : fields[j] \notin BaseVariables}},
     time |-> IF Time \in ToSet(fields) THEN "of the event" ELSE "uninitialised"]

(* One event on the SDK's thread, to the end of eventReceived.  If it      *)
(* cannot be converted it is dropped and logged; without a Message field   *)
(* a null pointer is used.                                                 *)
NewEvents ==
    /\ ~clientDown /\ published # <<>>
    /\ published' = Tail(published)
    /\ LET n == Head(published) IN
       \/ (~Convertible(n) \/ Fails(n)) /\ UNCHANGED <<told, clientDown>>
       \/ /\ Convertible(n) /\ Message \in ToSet(list[n.item])
          /\ told' = Append(told, EventOf(n))
          /\ UNCHANGED clientDown
       \/ /\ Convertible(n) /\ Message \notin ToSet(list[n.item])
          /\ clientDown' = TRUE
          /\ UNCHANGED told
    /\ UNCHANGED <<items, list, op, tried>>
=============================================================================
