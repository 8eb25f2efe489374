---------------------------- MODULE EventDelivery ----------------------------
(***************************************************************************)
(* Events from the Java of a data provider to the Java of a client: the    *)
(* server's half and a client's half, joined where the SDK evaluates the   *)
(* monitored items as an event is fired.                                   *)
(***************************************************************************)
EXTENDS ServerEvents, ClientEvents

vars == <<serverVars, clientVars>>

Init == ServerInit /\ ClientInit

(* OfType selects a type and its subtypes; a notification is sent for each *)
(* item, with the values of the names that it selects.                     *)
Notifications(event, number) ==
    LET matching == {t \in DOMAIN items : IsSubtype(event.type, t)}
    IN SetToSeq({[item |-> t, number |-> number,
                  values |-> [i \in DOMAIN items[t] |-> FieldData(event, items[t][i])]] :
                 t \in matching})

Report(t, given, inOrder) ==
    /\ JavaEvent(t, given, inOrder)
    /\ published' = published \o (IF fired' = fired THEN <<>>
                                  ELSE Notifications(Last(fired'), Len(fired')))
    /\ UNCHANGED <<items, list, op, tried, told, clientDown>>

(* Java gives values for variables that the type and its super types of    *)
(* the model declare.                                                      *)
GivenSets(t) == SUBSET (DeclaredBy(Line[t]) \ BaseVariables)

StartUp == \/ \E t \in ModelTypes : RegisterType(t) \/ AskJava(t)
           \/ AddCallback
ServerStep == StartUp /\ UNCHANGED clientVars
Events     == \E t \in ModelTypes : \E given \in GivenSets(t) :
                  \E inOrder \in BOOLEAN : Report(t, given, inOrder)

(* Clients connect when the server has started.                            *)
ClientCall ==
    \/ Up /\ \E t \in Wanted : Subscribe(t)
    \/ Browse \/ BrowseFailed \/ NextField \/ SuperType
    \/ Collected \/ CreateItem \/ ItemRefused \/ Preloaded
ClientStep == ~serverDown /\ ClientCall /\ UNCHANGED serverVars
SdkStep    == NewEvents /\ UNCHANGED serverVars

Next == ServerStep \/ Events \/ ClientStep \/ SdkStep

(* The SDK's thread hands over what it has received.                       *)
Spec == Init /\ [][Next]_vars /\ WF_vars(SdkStep)

-----------------------------------------------------------------------------
TypeOK ==
    /\ toExamine \subseteq ModelTypes
    /\ DOMAIN eventTypes \subseteq ModelTypes \ toExamine
    /\ listening \subseteq asked /\ asked \subseteq Asynchronous
    /\ reported \in 0 .. MaxEvents /\ Len(fired) <= reported
    /\ DOMAIN items \subseteq DOMAIN list /\ DOMAIN list \subseteq tried
    /\ \A t \in DOMAIN items : Len(items[t]) = Len(list[t])
    /\ \A i \in DOMAIN published : published[i].item \in DOMAIN items
    /\ op.pc \in {"idle", "browse", "fields", "collected", "create", "created"}
    /\ serverDown \in BOOLEAN /\ clientDown \in BOOLEAN

(* The fields of an item are the nearest variables of their names, no name *)
(* twice, whatever was overridden, and all those of the types that could   *)
(* be browsed (getEventFields searches the fields it has so far and goes   *)
(* on to the super types afterwards).                                      *)
FieldsNearest ==
    \A t \in DOMAIN list :
        \E k \in DOMAIN Line[t] :
            /\ ToSet(list[t]) = {v \in DeclaredBy(SubSeq(Line[t], 1, k)) :
                                     v = Nearest(t, NameOf[v])}
            /\ \A i, j \in DOMAIN list[t] :
                  NameOf[list[t][i]] = NameOf[list[t][j]] => i = j
            /\ k = Len(Line[t]) \/ Line[t][k + 1] \in BrowseFails

(* Java is told of events in the order in which they were fired, once per  *)
(* item, of the type it subscribed or a subtype, and as the value of each  *)
(* field what the provider's Java gave, in that event, for the variable    *)
(* that its type means by the name (newEvents pairs values and fields by   *)
(* place; EventTypeRegistry finds a variable by its name).                 *)
EventsTrue ==
    /\ \A i, j \in DOMAIN told :
          (i < j /\ told[i].item = told[j].item) => told[i].number < told[j].number
    /\ \A i \in DOMAIN told :
          LET event == fired[told[i].number] IN
          /\ IsSubtype(event.type, told[i].item)
          /\ \A e \in told[i].elements :
                e[2] = Nearest(event.type, NameOf[e[1]]) /\ e[2] \in event.given

(* The client crashes only after the server failed to return the          *)
(* attributes of a variable or the references of a type, the server only   *)
(* after an event of a type that has subtypes.                             *)
NoCrash ==
    /\ clientDown => \/ \E i \in DOMAIN op.fields :
                            op.fields[i].failed /\ op.fields[i].variable \in ReadFails
                     \/ \E t \in DOMAIN list : /\ Message \notin ToSet(list[t])
                                              /\ ToSet(Line[t]) \cap BrowseFails # {}
    /\ serverDown => \E t \in asked : HasSubtypes(t)

(* If the server fails to return the references of a super type, the event *)
(* fields found so far are processed (HaSession.cpp, "process as many      *)
(* event fields as possible"): the client goes on.                         *)
FieldsProcessed == ~clientDown

(* The k-th event is one for the item of t, and has a value for each field *)
(* of the item.                                                            *)
Complete(t, event) ==
    /\ \A v \in ToSet(list[t]) \ BaseVariables :
          v \notin Strange /\ Nearest(event.type, NameOf[v]) \in event.given
    /\ Message \in ToSet(list[t])
Due(t, k)    == /\ Len(fired) >= k /\ t \in DOMAIN items
                /\ IsSubtype(fired[k].type, t) /\ Complete(t, fired[k])
                /\ ToSet(Line[fired[k].type]) \subseteq DOMAIN eventTypes \cup {BaseEventType}
Told(t, k)   == \E i \in DOMAIN told : told[i].item = t /\ told[i].number = k
Before(t, k) == t \in DOMAIN items /\ Len(fired) < k

(* An event that is fired while a client has an item for its type or a     *)
(* super type, with a value for each of the item's fields, reaches that    *)
(* client's Java if its type and the super types could be registered       *)
(* (unless the process has been brought down).                             *)
EventArrives ==
    \A k \in 1 .. MaxEvents : \A t \in Wanted :
        [](Before(t, k) => (Due(t, k) ~> (Told(t, k) \/ clientDown)))
=============================================================================
