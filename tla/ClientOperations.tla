-------------------------- MODULE ClientOperations --------------------------
(***************************************************************************)
(* The operations of an opened client: the native read, write, exec,       *)
(* subscribe, unsubscribe and browse of class OPCUA, as one Java thread    *)
(* calls them, through Client and HaSession to the server; and the changed *)
(* values that the SDK reports on a thread of its own, through Client and  *)
(* Native2J to Java.  Both threads convert values, and for the types of    *)
(* the server both fill one CachedConverterCallback, whose lock does not   *)
(* exclude anybody.                                                        *)
(*                                                                         *)
(* An operation is cut where it waits for the server.  A value is a number *)
(* or NoValue, what a node has while it cannot be read.  Conversions are   *)
(* modelled by the types they have to know: those of namespace 0 need      *)
(* nothing, a type of the server its super types and, if it is a           *)
(* structure, its definition and then the types of its fields.  Of the     *)
(* subscription there is here what a Java thread that is alone can notice: *)
(* its list of items, of which one may be gone at the server when a delete *)
(* was answered too late, and the server's items, of which one may be      *)
(* missing in the list when a create was.  That the subscription itself    *)
(* cannot be created, or is lost, is left to HaSubscription; event types   *)
(* are the subject of ClientEvents.                                        *)
(***************************************************************************)
EXTENDS Integers, FiniteSets, SequencesExt

CONSTANTS
    Nodes,        \* variables of the server
    Methods,      \* methods, each with one input and one output argument
    TypeCount,    \* types of the server, 1 .. TypeCount; 0 is a type of namespace 0
    KindOf,       \* type -> "structure", "simple" or "unknown" (it has no super type)
    Fields,       \* type -> the types of the server among those of its fields, a sequence
    TypeOf,       \* node -> type of its value
    InputType, OutputType,   \* method -> type of its argument
    Values,       \* a set of numbers
    Kinds,        \* operations that Java uses
    Pages,        \* how many answers a browse of the server takes
    FetchFails,   \* threads for which getting a type from the server may fail
    MaxPackets,   \* bound: notifications the SDK has not handed over
    MaxItems      \* bound: monitored items that are created

Types   == 1 .. TypeCount
Threads == {"java", "sdk"}

(* No type contains itself: they are numbered so that a structure comes    *)
(* after the types of its fields.  (Of one that does, the conversions and  *)
(* preload would not come to an end.)                                      *)
ASSUME OperationsAssumption ==
    /\ TypeCount \in Nat /\ Pages \in Nat \ {0} /\ MaxPackets \in Nat
    /\ MaxItems \in Nat
    /\ KindOf \in [Types -> {"structure", "simple", "unknown"}]
    /\ DOMAIN Fields = Types
    /\ \A t \in Types : Fields[t] \in Seq(1 .. t - 1)
    /\ TypeOf \in [Nodes -> 0 .. TypeCount]
    /\ InputType \in [Methods -> 0 .. TypeCount] /\ OutputType \in [Methods -> 0 .. TypeCount]
    /\ FetchFails \subseteq Threads
    /\ Values \subseteq Nat

NoValue == -1

VARIABLES
    value,       \* the server: node -> its value
    items,       \* client handle -> monitored item: its node, is it in the list, is it at the server
    changed,     \* items of the server whose value has to be published
    packets,     \* data change notifications under way: sequences of <<handle, value>>
    pc, op,      \* the Java thread and its operation
    sdk,         \* element of the first notification that the SDK's thread hands over
    todo,        \* thread -> what its conversion has to know, in that order
    fetching,    \* thread -> is it asking the server for the first of those?
    cache,       \* what the CachedConverterCallback knows
    subscribed,  \* nodes that Java subscribed, with success, and did not ask to unsubscribe since
    told         \* node -> value of which Java was told last

serverVars == <<value, items, changed, packets>>
typeVars   == <<todo, fetching, cache>>
vars == <<serverVars, pc, op, sdk, typeVars, subscribed, told>>

NoElement == <<0, NoValue>>

NoOperation == [kind |-> "none", node |-> "none", value |-> NoValue, seen |-> {}, effect |-> 0,
                page |-> 0, status |-> "success"]

Init == /\ value \in [Nodes -> Values]
        /\ items = <<>> /\ changed = {} /\ packets = <<>>
        /\ pc = "idle" /\ op = NoOperation
        /\ sdk = NoElement
        /\ todo = [th \in Threads |-> <<>>]
        /\ fetching = [th \in Threads |-> FALSE]
        /\ cache = {}
        /\ subscribed = {}
        /\ told = [m \in Nodes |-> NoValue]

-----------------------------------------------------------------------------
(* Types: what a conversion, or preload, of a type has to know first, and  *)
(* what it goes on with once it knows that.                                *)

Needs(t) == IF t \in Types THEN << <<"superTypes", t>> >> ELSE <<>>

Mutant_FollowedAgain(info) ==     \* a structure leads back to its super types
    LET t == info[2] IN
    IF info[1] = "superTypes"
    THEN IF KindOf[t] = "structure" THEN << <<"structureDefinition", t>> >> ELSE <<>>
    ELSE << <<"superTypes", t>> >>
Mutant_FieldsNotFollowed(info) ==
    IF info[1] = "superTypes" /\ KindOf[info[2]] = "structure"
    THEN << <<"structureDefinition", info[2]>> >>
    ELSE <<>>
GoesOn(info) ==
    LET t == info[2] IN
    IF info[1] = "superTypes"
    THEN IF KindOf[t] = "structure" THEN << <<"structureDefinition", t>> >> ELSE <<>>
    ELSE [i \in 1 .. Len(Fields[t]) |-> <<"superTypes", Fields[t][i]>>]

Unknown(info) == info[1] = "superTypes" /\ KindOf[info[2]] = "unknown"

Obtained(th) == todo' = [todo EXCEPT ![th] = GoesOn(Head(todo[th])) \o Tail(todo[th])]

(* CachedConverterCallback::getSuperTypes and getStructureDefinition, up   *)
(* to the call of the server if it is not in the cache.                    *)
LookUp(th) ==
    /\ todo[th] # <<>> /\ ~fetching[th]
    /\ LET info == Head(todo[th]) IN
       \/ /\ info \in cache /\ ~Unknown(info)
          /\ Obtained(th)
          /\ fetching' = fetching
       \/ /\ info \notin cache
          /\ fetching' = [fetching EXCEPT ![th] = TRUE]
          /\ todo' = todo
    /\ UNCHANGED <<serverVars, pc, op, sdk, cache, subscribed, told>>

(* ... and from its answer on; HaSession::getSuperTypes follows the chain  *)
(* of super types up to namespace 0.                                       *)
Fetched(th) ==
    /\ fetching[th]
    /\ fetching' = [fetching EXCEPT ![th] = FALSE]
    /\ cache' = cache \cup {Head(todo[th])}
    /\ IF Unknown(Head(todo[th])) THEN todo' = todo ELSE Obtained(th)
    /\ UNCHANGED <<serverVars, pc, op, sdk, subscribed, told>>

(* A conversion fails: the server does not tell the type, or the type has  *)
(* no super type of namespace 0 (which is in the cache for good).          *)
ConversionFails(th) ==
    /\ todo[th] # <<>>
    /\ \/ fetching[th] /\ th \in FetchFails
       \/ ~fetching[th] /\ Head(todo[th]) \in cache /\ Unknown(Head(todo[th]))
    /\ fetching' = [fetching EXCEPT ![th] = FALSE]
    /\ todo' = [todo EXCEPT ![th] = <<>>]
    /\ cache' = cache

-----------------------------------------------------------------------------
(* The Java thread.                                                        *)

FirstStep == [read |-> "class", write |-> "class", subscribe |-> "class",
              unsubscribe |-> "remove", exec |-> "arguments", browse |-> "browse"]

Begin(kind, m, v) ==
    /\ pc = "idle"
    /\ pc' = FirstStep[kind]
    /\ op' = [kind |-> kind, node |-> m, value |-> v, effect |-> 0, page |-> 0,
              seen |-> IF kind = "read" THEN {value[m]} ELSE {}, status |-> "open"]
    /\ subscribed' = IF kind = "unsubscribe" THEN subscribed \ {m} ELSE subscribed
    /\ UNCHANGED <<serverVars, sdk, typeVars, told>>

Operations ==
    \/ \E m \in Nodes : \/ \E kind \in Kinds \cap {"read", "subscribe", "unsubscribe"} :
                              Begin(kind, m, NoValue)
                        \/ "write" \in Kinds /\ \E v \in Values : Begin("write", m, v)
    \/ "exec" \in Kinds /\ \E m \in Methods : Begin("exec", m, NoValue)
    \/ "browse" \in Kinds /\ Begin("browse", "root", NoValue)

Answer(status) == pc' = "idle" /\ op' = [NoOperation EXCEPT !.status = status]

(* The entries of a node in the list of the subscription.                  *)
Listed(m) == {h \in 1 .. Len(items) : items[h].listed /\ items[h].node = m}

(* Items of a node at the server.                                          *)
Live(m) == {h \in 1 .. Len(items) : items[h].live /\ items[h].node = m}

(* An exception of the session or of the subscription: the native method   *)
(* turns it into one of Java.  The service was refused or never reached    *)
(* the server, or it was executed and answered after callTimeout: then a   *)
(* new item is taken out of the list, while that of a delete stays in it.  *)
Mutant_WrittenAgain ==   \* an answer that is late: the write is repeated
    /\ pc = "written"
    /\ pc' = "write"
    /\ UNCHANGED <<serverVars, op, sdk, typeVars, subscribed, told>>
ServiceFails ==
    /\ pc \in {"class", "value", "add", "added", "remove", "removed", "write", "written",
              "arguments", "call", "called"}
    /\ pc = "remove" => Listed(op.node) # {}
    /\ items' = IF pc = "added" THEN [items EXCEPT ![Len(items)].listed = FALSE] ELSE items
    /\ Answer("failed")
    /\ UNCHANGED <<value, changed, packets, sdk, typeVars, subscribed, told>>

(* HaSession::read: the node's class in one call of the server, then value *)
(* and data type in another.                                               *)
ReadClass ==
    /\ pc = "class"
    /\ pc' = "value"
    /\ UNCHANGED <<serverVars, op, sdk, typeVars, subscribed, told>>

(* read converts the value and write the argument into the node's type;    *)
(* subscribe goes on to the monitored item.                                *)
ReadValue ==
    /\ pc = "value"
    /\ IF value[op.node] = NoValue
       THEN Answer("failed") /\ todo' = todo
       ELSE /\ op' = [op EXCEPT !.value = IF op.kind = "read" THEN value[op.node] ELSE @]
            /\ IF op.kind = "subscribe"
               THEN pc' = "add" /\ todo' = todo
               ELSE /\ pc' = "convert"
                    /\ todo' = [todo EXCEPT !["java"] = Needs(TypeOf[op.node])]
    /\ UNCHANGED <<serverVars, sdk, fetching, cache, subscribed, told>>

JavaConversionFails ==
    /\ ConversionFails("java")
    /\ Answer("failed")
    /\ UNCHANGED <<serverVars, sdk, subscribed, told>>

Converted ==
    /\ pc = "convert" /\ todo["java"] = <<>>
    /\ IF op.kind = "read"
       THEN Answer("success")
       ELSE pc' = "write" /\ op' = op
    /\ UNCHANGED <<serverVars, sdk, typeVars, subscribed, told>>

(* The server takes the value; its answer may be lost, which HaSession     *)
(* takes for a failure.                                                    *)
Write ==
    /\ pc = "write"
    /\ value' = [value EXCEPT ![op.node] = op.value]
    /\ changed' = changed \cup Live(op.node)
    /\ op' = [op EXCEPT !.effect = @ + 1]
    /\ pc' = "written"
    /\ UNCHANGED <<items, packets, sdk, typeVars, subscribed, told>>

Written ==
    /\ pc = "written"
    /\ Answer("success")
    /\ UNCHANGED <<serverVars, sdk, typeVars, subscribed, told>>

(* The results of a write are looked at one by one: a refused value is an  *)
(* exception.                                                              *)
Mutant_ResultsIgnored ==
    /\ pc = "write"
    /\ Answer("success")
    /\ UNCHANGED <<serverVars, sdk, typeVars, subscribed, told>>
WriteRefused ==
    /\ pc = "write"
    /\ Answer("failed")
    /\ UNCHANGED <<serverVars, sdk, typeVars, subscribed, told>>

(* subscribe: the entry is in the list before createMonitoredItems is      *)
(* called; once there is an item the server publishes the node's value,    *)
(* and only then the node's type is loaded into the cache.  If that fails  *)
(* the item stays.                                                         *)
AddItem ==
    /\ pc = "add" /\ Len(items) < MaxItems
    /\ items' = Append(items, [node |-> op.node, listed |-> TRUE, live |-> TRUE])
    /\ changed' = changed \cup {Len(items) + 1}
    /\ op' = [op EXCEPT !.effect = @ + 1]
    /\ pc' = "added"
    /\ UNCHANGED <<value, packets, sdk, typeVars, subscribed, told>>

ItemAdded ==
    /\ pc = "added"
    /\ pc' = "preload"
    /\ todo' = [todo EXCEPT !["java"] = Needs(TypeOf[op.node])]
    /\ UNCHANGED <<serverVars, op, sdk, fetching, cache, subscribed, told>>

Preloaded ==
    /\ pc = "preload" /\ todo["java"] = <<>>
    /\ Answer("success")
    /\ subscribed' = subscribed \cup {op.node}
    /\ UNCHANGED <<serverVars, sdk, typeVars, told>>

(* unsubscribe: without an entry of the node there is nothing to do; of    *)
(* several, the item of the one with the lowest handle is deleted.  If the *)
(* server does not have it any more its result is bad (ServiceFails).      *)
NothingToRemove ==
    /\ pc = "remove" /\ Listed(op.node) = {}
    /\ Answer("success")
    /\ UNCHANGED <<serverVars, sdk, typeVars, subscribed, told>>

Picked == Min(Listed(op.node))

Mutant_StillSampled ==
    /\ pc = "remove" /\ Listed(op.node) # {} /\ items[Picked].live
    /\ items' = [items EXCEPT ![Picked].live = FALSE]
    /\ changed' = changed
    /\ op' = [op EXCEPT !.effect = @ + 1]
    /\ pc' = "removed"
    /\ UNCHANGED <<value, packets, sdk, typeVars, subscribed, told>>
RemoveItem ==
    /\ pc = "remove" /\ Listed(op.node) # {} /\ items[Picked].live
    /\ items' = [items EXCEPT ![Picked].live = FALSE]
    /\ changed' = changed \ {Picked}
    /\ op' = [op EXCEPT !.effect = @ + 1]
    /\ pc' = "removed"
    /\ UNCHANGED <<value, packets, sdk, typeVars, subscribed, told>>

(* The entry goes with a good result; a list that ran empty takes the      *)
(* subscription with it, and that may fail.                                *)
ItemRemoved ==
    /\ pc = "removed"
    /\ items' = [items EXCEPT ![Picked].listed = FALSE]
    /\ \/ Answer("success")
       \/ (\A h \in 1 .. Len(items) : items[h].listed => h = Picked) /\ Answer("failed")
    /\ UNCHANGED <<value, changed, packets, sdk, typeVars, subscribed, told>>

(* exec: the arguments of the method, for the model of the types and for   *)
(* the conversion of the input; the call; the conversion of the output.    *)
(* A failure of any of them, before or after the method was executed, is   *)
(* an exception of Java.                                                   *)
GetArguments ==
    /\ pc = "arguments"
    /\ pc' = "input"
    /\ todo' = [todo EXCEPT !["java"] = Needs(InputType[op.node])]
    /\ UNCHANGED <<serverVars, op, sdk, fetching, cache, subscribed, told>>

InputConverted ==
    /\ pc = "input" /\ todo["java"] = <<>>
    /\ pc' = "call"
    /\ UNCHANGED <<serverVars, op, sdk, typeVars, subscribed, told>>

Call ==
    /\ pc = "call"
    /\ pc' = "called" /\ op' = [op EXCEPT !.effect = @ + 1]
    /\ UNCHANGED <<serverVars, sdk, typeVars, subscribed, told>>

Called ==
    /\ pc = "called"
    /\ pc' = "output"
    /\ todo' = [todo EXCEPT !["java"] = Needs(OutputType[op.node])]
    /\ UNCHANGED <<serverVars, op, sdk, fetching, cache, subscribed, told>>

OutputConverted ==
    /\ pc = "output" /\ todo["java"] = <<>>
    /\ Answer("success")
    /\ UNCHANGED <<serverVars, sdk, typeVars, subscribed, told>>

(* browse: a first answer that is bad is not an error for the caller, but  *)
(* an empty map; after a good one the rest is asked for as long as there   *)
(* is any, also after an answer that is bad (a step that changes nothing). *)
Browse ==
    /\ pc = "browse"
    /\ \/ Answer("success")
       \/ op' = [op EXCEPT !.page = 1] /\ pc' = "browseNext"
    /\ UNCHANGED <<serverVars, sdk, typeVars, subscribed, told>>

BrowseNext ==
    /\ pc = "browseNext" /\ op.page < Pages
    /\ op' = [op EXCEPT !.page = @ + 1]
    /\ UNCHANGED <<serverVars, pc, sdk, typeVars, subscribed, told>>

BrowseEnds ==
    /\ pc = "browseNext" /\ op.page = Pages
    /\ Answer("success")
    /\ UNCHANGED <<serverVars, sdk, typeVars, subscribed, told>>

-----------------------------------------------------------------------------
(* The server: values change by themselves and are published.              *)

Change(m, v) ==
    /\ value[m] # v
    /\ value' = [value EXCEPT ![m] = v]
    /\ changed' = changed \cup Live(m)
    /\ op' = IF op.kind = "read" /\ op.node = m THEN [op EXCEPT !.seen = @ \cup {v}] ELSE op
    /\ UNCHANGED <<items, packets, pc, sdk, typeVars, subscribed, told>>

Publish ==
    /\ changed # {} /\ Len(packets) < MaxPackets
    /\ packets' = Append(packets, SetToSeq({<<h, value[items[h].node]>> : h \in changed}))
    /\ changed' = {}
    /\ UNCHANGED <<value, items, pc, op, sdk, typeVars, subscribed, told>>

-----------------------------------------------------------------------------
(* The SDK's thread: HaSubscription looks each element of a notification   *)
(* up in its list and hands it over in a call of its own, Client converts  *)
(* it and Native2J, which takes one value out of what it gets, tells Java. *)
(* An element without an entry is left out; a value that is bad or cannot  *)
(* be converted is an exception that HaSubscription logs.                  *)

DataChange ==
    /\ packets # <<>> /\ Head(packets) # <<>> /\ sdk = NoElement
    /\ packets' = [packets EXCEPT ![1] = Tail(@)]
    /\ LET e == Head(Head(packets)) IN
       IF items[e[1]].listed /\ e[2] # NoValue
       THEN /\ sdk' = e
            /\ todo' = [todo EXCEPT !["sdk"] = Needs(TypeOf[items[e[1]].node])]
       ELSE UNCHANGED <<sdk, todo>>
    /\ UNCHANGED <<value, items, changed, pc, op, fetching, cache, subscribed, told>>

Tell(e) == told' = [told EXCEPT ![items[e[1]].node] = e[2]]

Mutant_OneCallForAll ==     \* the whole notification is handed to Client at once
    /\ sdk # NoElement /\ todo["sdk"] = <<>>
    /\ Tell(sdk)
    /\ sdk' = NoElement
    /\ packets' = [packets EXCEPT ![1] = <<>>]
    /\ UNCHANGED <<value, items, changed, pc, op, typeVars, subscribed>>
NotificationReceived ==
    /\ sdk # NoElement /\ todo["sdk"] = <<>>
    /\ Tell(sdk)
    /\ sdk' = NoElement
    /\ UNCHANGED <<serverVars, pc, op, typeVars, subscribed>>

SdkConversionFails ==
    /\ ConversionFails("sdk")
    /\ sdk' = NoElement
    /\ UNCHANGED <<serverVars, pc, op, subscribed, told>>

DataChangeEnds ==
    /\ packets # <<>> /\ Head(packets) = <<>> /\ sdk = NoElement
    /\ packets' = Tail(packets)
    /\ UNCHANGED <<value, items, changed, pc, op, sdk, typeVars, subscribed, told>>

-----------------------------------------------------------------------------
JavaStep == \/ ServiceFails \/ ReadClass \/ ReadValue \/ JavaConversionFails \/ Converted
            \/ Write \/ Written \/ WriteRefused \/ AddItem \/ ItemAdded \/ Preloaded
            \/ NothingToRemove \/ RemoveItem \/ ItemRemoved
            \/ GetArguments \/ InputConverted \/ Call \/ Called \/ OutputConverted
            \/ Browse \/ BrowseEnds
            \/ LookUp("java") \/ Fetched("java")
SdkStep  == \/ DataChange \/ NotificationReceived \/ SdkConversionFails \/ DataChangeEnds
            \/ LookUp("sdk") \/ Fetched("sdk")

Next == \/ Operations \/ JavaStep \/ BrowseNext \/ SdkStep \/ Publish
        \/ \E m \in Nodes, v \in Values \cup {NoValue} : Change(m, v)

(* The server answers or the call times out, and the SDK's thread goes on. *)
(* Nothing says that browseNext gets a good answer in the end: the step    *)
(* BrowseNext is not a fair one.                                           *)
Spec == Init /\ [][Next]_vars /\ WF_vars(JavaStep) /\ WF_vars(SdkStep) /\ WF_vars(Publish)

-----------------------------------------------------------------------------
(* Properties.                                                             *)

Infos    == {"superTypes", "structureDefinition"} \X Types
Items    == [node: Nodes, listed: BOOLEAN, live: BOOLEAN]
Elements == (1 .. Len(items)) \X (Values \cup {NoValue})

TypeOK ==
    /\ value \in [Nodes -> Values \cup {NoValue}]
    /\ items \in Seq(Items) /\ Len(items) <= MaxItems
    /\ changed \subseteq {h \in 1 .. Len(items) : items[h].live}
    /\ packets \in Seq(Seq(Elements)) /\ Len(packets) <= MaxPackets
    /\ pc \in {"idle", "class", "value", "convert", "write", "written", "add", "added",
               "preload", "remove", "removed", "arguments", "input", "call", "called", "output",
               "browse", "browseNext"}
    /\ op.status \in {"open", "success", "failed"} /\ (op.status = "open") = (pc # "idle")
    /\ op.effect \in 0 .. 1 /\ op.page \in 0 .. Pages
    /\ sdk # NoElement => sdk \in Elements /\ packets # <<>>
    /\ \A th \in Threads : /\ todo[th] \in Seq(Infos)
                           /\ fetching[th] \in BOOLEAN /\ (fetching[th] => todo[th] # <<>>)
    /\ cache \subseteq Infos
    /\ subscribed \subseteq Nodes
    /\ told \in [Nodes -> Values \cup {NoValue}]

(* What Java is answered is what happened: a value read is one that the    *)
(* node had since the operation began; a write or a method that succeeded  *)
(* was executed, and none is ever executed twice; a browse answers all or  *)
(* nothing.                                                                *)
AnswersTrue ==
    [][(pc # "idle" /\ pc' = "idle" /\ op'.status = "success") =>
          /\ op.kind = "read" => op.value \in op.seen
          /\ op.kind \in {"write", "exec"} => op.effect = 1
          /\ op.kind = "browse" => op.page \in {0, Pages}]_vars

(* Every operation is as good as atomic: whatever it reads, writes,        *)
(* executes, subscribes or unsubscribes happens at one moment between the  *)
(* call and its answer, once, and has happened if the answer is a success; *)
(* if it is a failure it may have happened, or, an item that was added,    *)
(* may be taken back.  No node changes and no item comes or goes           *)
(* otherwise.  Converting, getting types and the SDK's thread do nothing   *)
(* that Java could see of this.  An item counts while it is known both to  *)
(* the list and to the server: otherwise Java is told of no value.         *)
Effects == IF op.kind = "read" /\ pc = "convert" THEN 1 ELSE op.effect

Atomic == INSTANCE AtomicCalls WITH
    itemsOf <- [m \in Nodes |-> Cardinality(Listed(m) \cap Live(m))],
    call    <- [kind |-> op.kind, node |-> op.node, value |-> op.value],
    effects <- Effects,
    status  <- op.status

OperationsAtomic == Atomic!Spec

(* What a conversion goes on to ask for once it knows something, and sets  *)
(* of what it may know that leave nothing to ask for.                      *)
AsksFor(info) ==
    LET t == info[2] IN
    CASE info[1] = "structureDefinition"
            -> {<<"superTypes", f>> : f \in ToSet(Fields[t])}
      [] info[1] = "superTypes" /\ KindOf[t] = "structure"
            -> {<<"structureDefinition", t>>}
      [] OTHER -> {}

Complete(infos) == \A info \in infos : AsksFor(info) \subseteq infos

(* Once Java was told that it is subscribed, the types of the node are in  *)
(* the cache: no later value of it makes the SDK's thread ask the server,  *)
(* whatever the two threads did to the cache meanwhile.                    *)
TypesPreloaded ==
    \A m \in subscribed : \E infos \in SUBSET cache :
        ToSet(Needs(TypeOf[m])) \subseteq infos /\ Complete(infos)

(* When nothing is under way Java has been told the value that a           *)
(* subscribed node has now, however many values a notification has (while  *)
(* the SDK's thread can get the types it has to know).                     *)
Current ==
    ("sdk" \notin FetchFails /\ changed = {} /\ packets = <<>>) =>
        \A m \in subscribed : value[m] # NoValue => told[m] = value[m]

(* A subscribed node has an item that the server and the list know.        *)
SubscribedHasItem == \A m \in subscribed : Listed(m) \cap Live(m) # {}

(* No type is fetched by both threads at once, as the lock of the cache    *)
(* has it.                                                                 *)
OneFetch ==
    ~(fetching["java"] /\ fetching["sdk"] /\ Head(todo["java"]) = Head(todo["sdk"]))

(* Every operation is answered, whatever fails, but for a browse that did  *)
(* not get all pages: the loop of ClientPrivate::browse asks again after   *)
(* every bad answer, without an end.                                       *)
OperationsEnd == pc # "idle" ~> (pc = "idle" \/ (pc = "browseNext" /\ op.page < Pages))

(* ... which the code does not promise of a browse.                        *)
EveryOperationEnds == pc # "idle" ~> pc = "idle"

=============================================================================
