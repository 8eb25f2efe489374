---------------------------- MODULE ServerCache ----------------------------
(***************************************************************************)
(* The values of the server: sasModelProvider/base/                        *)
(* HaNodeManagerIODataProviderBridge.cpp and IODataProviderSubscriber-     *)
(* Callback.cpp, with the data provider in Java behind                     *)
(* provider/binary/jDataProvider/JDataProvider.cpp.                        *)
(*                                                                         *)
(* While the node set is loaded the bridge sets the value handling of      *)
(* every variable, subscribes to the asynchronous ones, reads them all and *)
(* puts what it read into the server's cache.  The server core is already  *)
(* started then (Server.cpp:99), so clients read and write meanwhile, and  *)
(* a thread of the Java provider sends notifications that go into the same *)
(* cache.  The MutexLocks of JDataProvider lock nothing.                   *)
(*                                                                         *)
(* One step is one call of the Java provider, one value put into the       *)
(* cache, or one classification of a variable.                             *)
(*                                                                         *)
(* External: the server SDK (calls the bridge from its worker threads and  *)
(* writes the cache itself after beforeSetAttributeValue) and the Java     *)
(* provider (values that change at any time, notifications delivered by    *)
(* one thread in the order of the changes).                                *)
(*                                                                         *)
(* Abstracted: a value is the number of the change that brought it, the    *)
(* empty variant is 0 and a bad status -1; types, models of structures,    *)
(* events and methods are left out.                                        *)
(***************************************************************************)
EXTENDS Integers, Sequences, Functions

CONSTANTS
    Variables,   \* variables of the name space
    Handling,    \* their value handling, Variables -> Handlings
    Clients,     \* worker threads of the SDK that serve client requests
    Faults,      \* what may go wrong, a subset of FaultKinds
    MayShutDown, \* whether the server is shut down
    MaxRequest,  \* bound: variables in one read
    MaxValue,    \* bound: changes of values, by the provider and by clients
    MaxQueue     \* bound: notifications the provider has not yet sent

Empty == 0                    \* the value of an empty variant
Bad == -1                     \* no value but a bad status
NoVariable == "no variable"

Handlings == {"none", "async", "sync"}

(* "conversion": a value does not convert between OPC UA and the provider; *)
(* "javaException": a read or write of the provider throws in Java, which  *)
(* JDataProvider does not look at.                                         *)
FaultKinds == {"conversion", "javaException"}

ASSUME ServerCacheAssumption ==
    /\ NoVariable \notin Variables
    /\ Handling \in [Variables -> Handlings]
    /\ Faults \subseteq FaultKinds
    /\ MayShutDown \in BOOLEAN
    /\ MaxRequest \in Nat
    /\ MaxValue \in Nat
    /\ MaxQueue \in Nat

(* d->getValueHandling, by kind.                                           *)
With(kind) == {v \in Variables : Handling[v] = kind}

VARIABLES
    phase,         \* how far updateValueHandling is
    todo,          \* variables its current loop has still to go through
    asking,        \* subscribed in Java, its callback not yet in the list
    results,       \* what the initial read returned: variable -> value
    valueSource,   \* UaVariable::setValueHandling
    callbacks,     \* variables with an entry in d->callbacks
    callbackAlive, \* d->ioDataProviderSubscriberCallback is not deleted
    crashed,       \* a dead callback was called
    cache,         \* the server's value of every variable
    clients,       \* the request every worker thread serves, see Frame
    provider,      \* the provider's value of every variable
    subscribed,    \* variables the provider sends notifications for
    queue,         \* notifications on their way, in order
    nextValue,     \* number of the next change
    held,          \* history: values the provider has had
    cached,        \* history: values the cache has had
    current        \* history: values the provider has had during a read

startUp == <<phase, todo, asking, results, valueSource, callbacks>>
process == <<callbackAlive, crashed>>
java == <<provider, subscribed, queue>>
history == <<held, cached, current>>
vars == <<startUp, process, cache, clients, java, nextValue, history>>

(* What a worker thread is doing.  A write has a value, the variables it   *)
(* goes to (batch), those its loop has left (left) and whether the         *)
(* provider took all of them; a read has a sequence of variables and the   *)
(* answers so far, which stay until the next request.                      *)
Frame(pc, value, batch, left, ok, request, answers) ==
    [pc |-> pc, value |-> value, batch |-> batch, left |-> left, ok |-> ok,
     request |-> request, answers |-> answers]
Idle(request, answers) == Frame("idle", Empty, {}, {}, TRUE, request, answers)
Write(pc, value, batch, left, ok) ==
    Frame(pc, value, batch, left, ok, << >>, << >>)
Read(request, answers) ==
    Frame("reading", Empty, {}, {}, TRUE, request, answers)
Goto(c, frame) == clients' = [clients EXCEPT ![c] = frame]

Init ==
    /\ phase = "classifying"
    /\ todo = Variables
    /\ asking = NoVariable
    /\ results = [v \in Variables |-> Empty]
    /\ valueSource = [v \in Variables |-> "CacheIsSource"]
    /\ callbacks = {}
    /\ callbackAlive = TRUE
    /\ crashed = FALSE
    /\ cache = [v \in Variables |-> Empty]
    /\ clients = [c \in Clients |-> Idle(<< >>, << >>)]
    /\ provider = [v \in Variables |-> 1]
    /\ subscribed = {}
    /\ queue = << >>
    /\ nextValue = 2
    /\ held = [v \in Variables |-> {1}]
    /\ cached = [v \in Variables |-> {Empty}]
    /\ current = [c \in Clients |-> [v \in Variables |-> {}]]

(* The history every step adds to; current is kept for the reads in progress.       *)
History ==
    /\ held' = [v \in Variables |-> held[v] \cup {provider'[v]}]
    /\ cached' = [v \in Variables |-> cached[v] \cup {cache'[v]}]
    /\ current' =
          [c \in Clients |->
              IF clients[c].pc = "reading"
              THEN [v \in Variables |-> current[c][v] \cup {provider'[v]}]
              ELSE IF clients'[c].pc = "reading"
              THEN [v \in Variables |-> {provider[v]}]
              ELSE current[c]]

-----------------------------------------------------------------------------
(* Start-up: updateValueHandling for variables, JDataProvider::subscribe   *)

(* The loops of the start-up, each over the asynchronous variables.  With  *)
(* no asynchronous variable there is only the first.                       *)
Mutant_AfterLoop(loop) ==   \* first the values are read, then subscribed
    CASE loop = "classifying" -> "reading"
      [] loop = "reading" -> "subscribing"
      [] loop = "subscribing" -> "caching"
      [] loop = "caching" -> "up"
AfterLoop(loop) ==
    CASE loop = "classifying" -> "subscribing"
      [] loop = "subscribing" -> "reading"
      [] loop = "reading" -> "caching"
      [] loop = "caching" -> "up"

(* One round of a loop; the last one goes on to the next loop.  The order  *)
(* of the nodes is left open.                                              *)
Round(loop, v) ==
    /\ phase = loop
    /\ v \in todo
    /\ IF todo # {v}
       THEN phase' = phase /\ todo' = todo \ {v}
       ELSE IF With("async") = {} \/ AfterLoop(loop) = "up"
       THEN phase' = "up" /\ todo' = {}
       ELSE phase' = AfterLoop(loop) /\ todo' = With("async")

(* The switch over the value handling of a variable.                       *)
SetValueHandling(v) ==
    /\ Round("classifying", v)
    /\ valueSource' = [valueSource EXCEPT ![v] =
                          IF Handling[v] = "sync"
                          THEN "CacheIsUpdatedOnRequest" ELSE "CacheIsSource"]
    /\ UNCHANGED <<asking, results, callbacks, process, cache, clients, java,
                   nextValue>>
    /\ History

(* JDataProvider::subscribe calls Java and then puts the callback into the *)
(* list; a notification may come between the two.                          *)
JavaSubscribe(v) ==
    /\ phase = "subscribing"
    /\ v \in todo
    /\ asking = NoVariable
    /\ asking' = v
    /\ subscribed' = subscribed \cup {v}
    /\ UNCHANGED <<phase, todo, results, valueSource, callbacks, process,
                   cache, clients, provider, queue, nextValue>>
    /\ History

PushCallback(v) ==
    /\ asking = v
    /\ Round("subscribing", v)
    /\ asking' = NoVariable
    /\ callbacks' = callbacks \cup {v}
    /\ UNCHANGED <<results, valueSource, process, cache, clients, java,
                   nextValue>>
    /\ History

(* What JDataProvider::read gets for a variable.  After an exception in    *)
(* Java the result is a null reference and no exception is set.            *)
Mutant_ReadResults(v) == {cache[v]}     \* the cache answers
ReadResults(v) ==
    {provider[v]}
    \cup (IF "javaException" \in Faults THEN {Empty} ELSE {})
    \cup (IF "conversion" \in Faults THEN {Bad} ELSE {})

(* The read of the initial values, at the end of subscribe.                *)
InitialRead(v) ==
    /\ Round("reading", v)
    /\ \E value \in ReadResults(v) :
          results' = [results EXCEPT ![v] = value]
    /\ UNCHANGED <<asking, valueSource, callbacks, process, cache, clients,
                   java, nextValue>>
    /\ History

(* The loop over the results: a value that does not convert, or an         *)
(* exception in the result, leaves the cache alone.  In the end the        *)
(* collected exception is dropped (its throw is commented out).            *)
SetInitialValue(v) ==
    /\ Round("caching", v)
    /\ \/ /\ results[v] # Bad
          /\ cache' = [cache EXCEPT ![v] = results[v]]
       \/ /\ results[v] = Bad \/ "conversion" \in Faults
          /\ cache' = cache
    /\ UNCHANGED <<asking, results, valueSource, callbacks, process, clients,
                   java, nextValue>>
    /\ History

-----------------------------------------------------------------------------
(* The Java provider, and IODataProviderSubscriberCallback::valuesChanged. *)

Notification(v, value) == [variable |-> v, value |-> value]

(* The provider's value of a variable becomes value; the provider notifies *)
(* of it when it has a subscription, if it notifies at all.                *)
Change(v, value, notifies) ==
    /\ provider' = [provider EXCEPT ![v] = value]
    /\ IF notifies /\ v \in subscribed
       THEN /\ Len(queue) < MaxQueue
            /\ queue' = Append(queue, Notification(v, value))
       ELSE queue' = queue

(* A value changes in the field, at any time.                              *)
ProviderChanges(v) ==
    /\ ~crashed
    /\ nextValue <= MaxValue
    /\ nextValue' = nextValue + 1
    /\ Change(v, nextValue, TRUE)
    /\ UNCHANGED <<startUp, process, cache, clients, subscribed>>
    /\ History

(* The variables with a callback that a notification is handed to, which   *)
(* converts the value and sets the variable.                               *)
Mutant_Receivers(v) ==       \* the list is local to the start-up
    IF phase = "up" THEN {} ELSE callbacks \cap {v}
Receivers(v) == callbacks \cap {v}

(* JDataProvider::notification: a notification without a callback in the   *)
(* list is dropped; the exceptions of the callback are swallowed.          *)
DeliverNotification ==
    /\ ~crashed
    /\ queue # << >>
    /\ queue' = Tail(queue)
    /\ LET n == Head(queue) IN
       /\ crashed' = (Receivers(n.variable) # {} /\ ~callbackAlive)
       /\ \/ /\ Receivers(n.variable) # {}
             /\ callbackAlive
             /\ cache' = [cache EXCEPT ![n.variable] = n.value]
          \/ /\ \/ Receivers(n.variable) = {}
                \/ ~callbackAlive
                \/ "conversion" \in Faults
             /\ cache' = cache
    /\ UNCHANGED <<startUp, callbackAlive, clients, provider, subscribed,
                   nextValue>>
    /\ History

-----------------------------------------------------------------------------
(* Requests of clients: readValues, writeValues, beforeSetAttributeValue   *)

Serving == phase # "closed"
HandledBy(source) == {v \in Variables : valueSource[v] = source}
Requests(n, S) == UNION {[1 .. k -> S] : k \in 1 .. n}

(* readValues: the variables are read one by one in the order of the       *)
(* request; one that is asked for twice is read twice.                     *)
ReadValues(c) ==
    /\ Serving
    /\ clients[c].pc = "idle"
    /\ \E request \in Requests(MaxRequest,
                               HandledBy("CacheIsUpdatedOnRequest")) :
          Goto(c, Read(request, << >>))
    /\ UNCHANGED <<startUp, process, cache, java, nextValue>>
    /\ History

(* The results go to the array index of an equal node, which for a         *)
(* variable asked for twice is one and the same index (the map is ordered  *)
(* by pointers) and keeps the last of its results; an index without a      *)
(* result keeps its bad status.                                            *)
Places(request) == [Range(request) -> DOMAIN request]
ArrayIndices(request) ==
    {f \in Places(request) : \A v \in DOMAIN f : request[f[v]] = v}
LastResults(request) ==
    {f \in Places(request) :
        \A v \in DOMAIN f :
            /\ request[f[v]] = v
            /\ \A k \in DOMAIN request : request[k] = v => k <= f[v]}

Mutant_OwnPlace(request, answers, arrayIndex, last) ==  \* a result at another
    [i \in DOMAIN request |->                           \* place is dropped
        IF arrayIndex[request[i]] = i /\ last[request[i]] = i
        THEN answers[i] ELSE Bad]
Mutant_LastLost(request, answers, arrayIndex, last) ==
    SubSeq(answers, 1, Len(request) - 1)      \* one result too few
ReturnValues(request, answers, arrayIndex, last) ==
    [i \in DOMAIN request |->
        IF arrayIndex[request[i]] = i THEN answers[last[request[i]]] ELSE Bad]

ReadNext(c) ==
    LET f == clients[c]
        v == f.request[Len(f.answers) + 1]
    IN
    /\ f.pc = "reading"
    /\ \E value \in ReadResults(v) :
          LET answers == Append(f.answers, value) IN
          IF Len(answers) < Len(f.request)
          THEN Goto(c, Read(f.request, answers))
          ELSE \E arrayIndex \in ArrayIndices(f.request),
                  last \in LastResults(f.request) :
                  Goto(c, Idle(f.request, ReturnValues(f.request, answers,
                                                       arrayIndex, last)))
    /\ UNCHANGED <<startUp, process, cache, java, nextValue>>
    /\ History

(* writeValues: the values that convert are written, in one call, to the   *)
(* provider; when none does, the request fails.                            *)
Prepared(batch) ==
    IF "conversion" \in Faults THEN (SUBSET batch) \ {{}} ELSE {batch}

WriteValues(c) ==
    /\ Serving
    /\ clients[c].pc = "idle"
    /\ nextValue <= MaxValue
    /\ nextValue' = nextValue + 1
    /\ \E batch \in (SUBSET HandledBy("CacheIsUpdatedOnRequest")) \ {{}} :
          \E left \in Prepared(batch) :
             Goto(c, Write("writing", nextValue, batch, left, TRUE))
    /\ UNCHANGED <<startUp, process, cache, java>>
    /\ History

(* beforeSetAttributeValue: a variable without value handling is left to   *)
(* the SDK, every other one is first written to the provider.              *)
SetAttribute(c) ==
    /\ Serving
    /\ clients[c].pc = "idle"
    /\ nextValue <= MaxValue
    /\ nextValue' = nextValue + 1
    /\ \E v \in HandledBy("CacheIsSource") :
          Goto(c, Write(IF Handling[v] = "none" THEN "caching" ELSE "writing",
                        nextValue, {v}, {v}, TRUE))
    /\ UNCHANGED <<startUp, process, cache, java>>
    /\ History

(* After the last variable of a loop over them the request goes on, or is  *)
(* over.                                                                   *)
Mutant_ExceptionIgnored(c, v, ok) ==  \* the provider's exception is lost
    LET f == clients[c] IN
    IF f.left # {v}
    THEN Goto(c, Write("writing", f.value, f.batch, f.left \ {v}, TRUE))
    ELSE Goto(c, Write("caching", f.value, f.batch, f.batch, TRUE))
AfterWrite(c, v, ok) ==
    LET f == clients[c] IN
    IF f.left # {v}
    THEN Goto(c, Write("writing", f.value, f.batch, f.left \ {v}, ok))
    ELSE IF ok
    THEN Goto(c, Write("caching", f.value, f.batch, f.batch, TRUE))
    ELSE Goto(c, Idle(<< >>, << >>))

(* JDataProvider::write, one variable: a value that does not convert       *)
(* raises the exception after the others were written; after an exception  *)
(* in Java the call looks successful.  The provider may or may not notify  *)
(* of a change it is asked for.                                            *)
WriteProvider(c) ==
    LET f == clients[c] IN
    /\ f.pc = "writing"
    /\ \E v \in f.left :
          \/ /\ \E notifies \in BOOLEAN : Change(v, f.value, notifies)
             /\ AfterWrite(c, v, f.ok)
          \/ /\ "javaException" \in Faults
             /\ AfterWrite(c, v, f.ok)
             /\ UNCHANGED <<provider, queue>>
          \/ /\ "conversion" \in Faults
             /\ AfterWrite(c, v, FALSE)
             /\ UNCHANGED <<provider, queue>>
    /\ UNCHANGED <<startUp, process, cache, subscribed, nextValue>>
    /\ History

(* The cache gets the value: from writeValues for every variable of the    *)
(* request, from the SDK for an attribute.  The variable may refuse it.    *)
SetCache(c) ==
    LET f == clients[c] IN
    /\ f.pc = "caching"
    /\ \E v \in f.left :
          /\ \/ cache' = [cache EXCEPT ![v] = f.value]
             \/ "conversion" \in Faults /\ cache' = cache
          /\ IF f.left = {v}
             THEN Goto(c, Idle(<< >>, << >>))
             ELSE Goto(c, Write("caching", f.value, f.batch, f.left \ {v},
                                TRUE))
    /\ UNCHANGED <<startUp, process, java, nextValue>>
    /\ History

-----------------------------------------------------------------------------
(* Shut-down: the SDK has ended its requests; beforeShutDown deletes the   *)
(* callback.                                                               *)
BeforeShutDown ==
    /\ MayShutDown
    /\ phase = "up"
    /\ \A c \in Clients : clients[c].pc = "idle"
    /\ phase' = "closed"
    /\ callbackAlive' = FALSE
    /\ UNCHANGED <<todo, asking, results, valueSource, callbacks, crashed,
                   cache, clients, java, nextValue>>
    /\ History

-----------------------------------------------------------------------------
StartUpStep ==
    \E v \in Variables :
        \/ SetValueHandling(v)
        \/ JavaSubscribe(v)
        \/ PushCallback(v)
        \/ InitialRead(v)
        \/ SetInitialValue(v)

ServeStep(c) == ReadNext(c) \/ WriteProvider(c) \/ SetCache(c)

ClientStep(c) ==
    ReadValues(c) \/ WriteValues(c) \/ SetAttribute(c) \/ ServeStep(c)

Next ==
    \/ StartUpStep
    \/ \E v \in Variables : ProviderChanges(v)
    \/ DeliverNotification
    \/ \E c \in Clients : ClientStep(c)
    \/ BeforeShutDown

Spec == Init /\ [][Next]_vars

(* Calls of the Java provider return, and a thread that can go on does.    *)
Fairness ==
    /\ WF_vars(StartUpStep)
    /\ WF_vars(DeliverNotification)
    /\ \A c \in Clients : WF_vars(ServeStep(c))

FairSpec == Spec /\ Fairness

-----------------------------------------------------------------------------
(* Properties                                                              *)

Answers == Nat \cup {Bad}
Frames ==
    [pc: {"idle", "reading", "writing", "caching"}, value: Nat,
     batch: SUBSET Variables, left: SUBSET Variables, ok: BOOLEAN,
     request: Seq(Variables), answers: Seq(Answers)]

FrameOK(f) ==
    /\ f \in Frames
    /\ f.left \subseteq f.batch
    /\ f.pc \in {"writing", "caching"} => f.left # {}
    /\ f.pc = "reading" => Len(f.answers) < Len(f.request)
    /\ f.pc = "idle" => Len(f.answers) = Len(f.request)

ClientsOK ==
    /\ clients = [c \in Clients |-> clients[c]]
    /\ \A c \in Clients : FrameOK(clients[c])

StartUpOK ==
    /\ phase \in {"classifying", "subscribing", "reading", "caching", "up",
                  "closed"}
    /\ todo \subseteq Variables
    /\ asking \in Variables \cup {NoVariable}
    /\ results \in [Variables -> Answers]
    /\ valueSource \in
          [Variables -> {"CacheIsSource", "CacheIsUpdatedOnRequest"}]
    /\ callbacks \subseteq Variables

ValuesOK ==
    /\ cache \in [Variables -> Nat]
    /\ provider \in [Variables -> Nat]
    /\ subscribed \subseteq Variables
    /\ queue \in Seq([variable: Variables, value: Nat])
    /\ nextValue \in Nat

HistoryOK ==
    /\ held \in [Variables -> SUBSET Nat]
    /\ cached \in [Variables -> SUBSET Nat]
    /\ current \in [Clients -> [Variables -> SUBSET Nat]]

(* The variables have their types; a read is never ahead of its request, a *)
(* write in progress has a variable left, and what it has left belongs to  *)
(* its batch (bridge, the loops of readValues and writeValues).            *)
TypeOK ==
    /\ ClientsOK
    /\ StartUpOK
    /\ ValuesOK
    /\ HistoryOK
    /\ callbackAlive \in BOOLEAN
    /\ crashed \in BOOLEAN

(* The cache holds for a variable with value handling either nothing or a  *)
(* value the provider has had: no value that exists only in the server     *)
(* (bridge, lines 363-378 and 418-438).                                    *)
HeldByProvider(v) == cache[v] \in {Empty} \cup held[v]
CacheHeld == \A v \in With("async") \cup With("sync") : HeldByProvider(v)

(* The same for the asynchronous variables, values that do not convert     *)
(* included: beforeSetAttributeValue refuses the write then.               *)
AsyncCacheHeld == \A v \in With("async") : HeldByProvider(v)

(* Why: only synchronous variables are written in batches, and every value *)
(* on its way into the cache has been the provider's.  This is inductive   *)
(* as long as Java throws nothing (bridge, lines 199-438 and 766-813;      *)
(* IODataProviderSubscriberCallback.cpp, lines 80-88).                     *)
Guarded ==   \* variables whose conversions fail before the provider is asked
    With("async") \cup IF "conversion" \in Faults THEN {} ELSE With("sync")

SourcesFollowHandling ==
    HandledBy("CacheIsUpdatedOnRequest") \subseteq With("sync")

WriteHeld(f) ==
    /\ f.pc = "writing" /\ f.ok =>
          \A v \in (f.batch \ f.left) \cap Guarded : f.value \in held[v]
    /\ f.pc = "caching" => \A v \in f.left \cap Guarded : f.value \in held[v]

ProviderHeld == \A v \in Variables : provider[v] \in held[v]
ResultsHeld == \A v \in Variables : results[v] \in {Empty, Bad} \cup held[v]
QueueHeld == \A i \in DOMAIN queue : queue[i].value \in held[queue[i].variable]
WritesHeld == \A c \in Clients : WriteHeld(clients[c])
GuardedHeld == \A v \in Guarded : HeldByProvider(v)

HeldInv ==
    /\ SourcesFollowHandling
    /\ ProviderHeld
    /\ ResultsHeld
    /\ QueueHeld
    /\ WritesHeld
    /\ GuardedHeld

(* Every answer so far is fresh, and a read in progress knows the present  *)
(* values (bridge, lines 199-287).                                         *)
AnswersFresh(f, values) ==
    \A i \in DOMAIN f.answers :
        f.answers[i] \in {Bad} \cup values[f.request[i]]
PresentKnown(f, values) ==
    f.pc = "reading" => \A v \in Variables : provider[v] \in values[v]

(* A client that reads synchronously gets for every place of its request a *)
(* bad status or a value the provider has had since the request came       *)
(* (bridge, lines 199-287).                                                *)
ReadsFresh == \A c \in Clients : AnswersFresh(clients[c], current[c])

FreshInv ==
    /\ ReadsFresh
    /\ \A c \in Clients : PresentKnown(clients[c], current[c])

(* As long as nothing fails every variable of a read is answered at one of *)
(* its places.  Of one that is asked for twice the other place keeps its   *)
(* bad status, as the look-up of an index by value finds the same place    *)
(* again (bridge, line 221): that place is not spoken of.  Before that, no *)
(* answer of the provider is a bad status.                                 *)
Answered(f) ==
    f.pc = "idle" =>
        \A v \in Range(f.request) :
            \E i \in DOMAIN f.request : f.request[i] = v /\ f.answers[i] # Bad
ReadsAnswered == \A c \in Clients : Answered(clients[c])

NoneBad(f) == f.pc = "reading" => \A i \in DOMAIN f.answers : f.answers[i] # Bad
AnsweredInv == ReadsAnswered /\ \A c \in Clients : NoneBad(clients[c])

(* When the server is up and nothing is on its way, the present value of   *)
(* every asynchronous variable has been in the cache: no change is lost    *)
(* between the subscription in Java, the callback that enters the list     *)
(* after it and the initial read (JDataProvider.cpp 605-691).              *)
Quiet ==
    /\ phase = "up"
    /\ queue = << >>
    /\ \A c \in Clients : clients[c].pc \notin {"writing", "caching"}
NoChangeLost == Quiet => \A v \in With("async") : provider[v] \in cached[v]

(* Why: the present value is either still to be read, or in the results of *)
(* the initial read, or in a notification, or in a request that is about   *)
(* to set the cache, or it has been in the cache; and from the initial     *)
(* read on every notification finds its callback.                          *)
OnItsWay(v) ==
    \/ phase \in {"classifying", "subscribing"}
    \/ phase = "reading" /\ v \in todo
    \/ phase = "reading" /\ v \notin todo /\ results[v] = provider[v]
    \/ phase = "caching" /\ v \in todo /\ results[v] = provider[v]
    \/ \E i \in DOMAIN queue : queue[i] = Notification(v, provider[v])
    \/ \E c \in Clients :
          /\ clients[c].pc = "caching"
          /\ v \in clients[c].left
          /\ clients[c].value = provider[v]

Kept(v) == OnItsWay(v) \/ provider[v] \in cached[v]

Subscribed ==
    IF phase = "classifying" THEN {}
    ELSE IF phase = "subscribing" THEN With("async") \ todo
    ELSE With("async")

CallbacksReady ==
    /\ callbackAlive
    /\ asking # NoVariable => asking \in subscribed
    /\ Subscribed \subseteq callbacks \cap subscribed

WriteAlone(f) ==
    f.pc = "writing" =>
        /\ f.ok
        /\ \A v \in With("async") \cap f.batch : f.batch = {v}
WritesAlone == \A c \in Clients : WriteAlone(clients[c])

ChangesKept ==
    /\ SourcesFollowHandling
    /\ WritesAlone
    /\ phase # "closed" => CallbacksReady
    /\ phase # "closed" => \A v \in With("async") : Kept(v)

(* A change of an asynchronous variable comes into the cache, unless the   *)
(* next change or the end of the server comes first.                       *)
ChangeArrives ==
    \A v \in With("async"), n \in 1 .. MaxValue :
        (phase = "up" /\ provider[v] = n)
            ~> (n \in cached[v] \/ provider[v] # n \/ phase = "closed")

(* Then the cache holds the present value: "Subscribes to variables or     *)
(* events and returns the current values of variables ... The caller is    *)
(* informed about changes" (IODataProvider.h:73-75).                       *)
CacheCurrent == Quiet => \A v \in With("async") : cache[v] = provider[v]

(* No notification is handed to a deleted callback: "Method "unsubscribe"  *)
(* must be used to cancel the subscriptions" and the reference to the      *)
(* callback "can be saved in the implementation until the relating nodes   *)
(* are unsubscribed" (IODataProvider.h:76-79).                             *)
NoDeadCallback == ~crashed
=============================================================================
