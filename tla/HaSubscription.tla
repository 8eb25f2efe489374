--------------------------- MODULE HaSubscription ---------------------------
(***************************************************************************)
(* The client's subscription object: binaryServer/HaSubscription.cpp.      *)
(*                                                                         *)
(* Application threads call add, remove and removeAll; the callback thread *)
(* of the OPC UA client SDK calls dataChange, newEvents and                *)
(* subscriptionStatusChanged.  Every operation opens with a MutexLock on   *)
(* d->mutex, but the lock calls of common/MutexLock.cpp are commented out, *)
(* so the code excludes nobody.  Each operation is cut where it blocks in  *)
(* a service call, and the loop of add, which no service call divides, at  *)
(* every access to what threads share: the read and the write of           *)
(* clientHandleCounter (one ++ in the source), the entry of one item and   *)
(* the test of the subscription.  Between two cuts any other thread may    *)
(* run; the stretch between them is one step of the model.                 *)
(*                                                                         *)
(* External, modelled from how the code uses it: the SDK and the OPC UA    *)
(* server behind it.  The server executes or refuses a call, may answer an *)
(* executed call too late (the client sees a bad status), may refuse       *)
(* single items, publishes notifications that arrive at any later time,    *)
(* and may lose a subscription.                                            *)
(*                                                                         *)
(* Abstracted: values, time stamps, event fields, filters, the sampling    *)
(* parameters and the text of exceptions.  A single operation of std::map  *)
(* is taken as atomic, and an add whose own loop comes twice to the same   *)
(* handle (it takes a race at the counter) as one that asks for the later. *)
(***************************************************************************)
EXTENDS Integers, FiniteSets, Functions

CONSTANTS
    Nodes,       \* node ids the application may subscribe to
    EventTypes,  \* those of node class ObjectType, subscribed for events
    Threads,     \* application threads
    Sdk,         \* the SDK's callback thread
    Faults,      \* what the server may do wrong, a subset of FaultKinds
    MaxRequest,  \* bound: nodes in one call of add
    MaxHandle,   \* bound: client handles given out by application threads
    MaxSubs,     \* bound: subscriptions created for application threads
    MaxInFlight  \* bound: notifications published and not yet delivered

(* Services a call of the SDK blocks in. *)
ItemServices == {"createMonitoredItems", "deleteMonitoredItems"}
Services == ItemServices \cup {"createSubscription", "deleteSubscription"}

(* A service in Faults may be refused; "item": single items of an accepted *)
(* call may be refused; "lateAnswer": an executed call may be answered     *)
(* after the call time-out; "subscriptionLost": the server may drop a      *)
(* subscription.                                                           *)
FaultKinds == Services \cup {"item", "lateAnswer", "subscriptionLost"}

ASSUME HaSubscriptionAssumption ==
    /\ EventTypes \subseteq Nodes
    /\ Sdk \notin Threads       \* callbacks run on a thread of the SDK's own
    /\ Faults \subseteq FaultKinds
    /\ MaxRequest \in Nat
    /\ MaxHandle \in Nat
    /\ MaxSubs \in Nat
    /\ MaxInFlight \in Nat

Procs == Threads \cup {Sdk}
Null == 0                       \* the null pointer; subscriptions count from 1

VARIABLES
    monitoredItems,      \* d->monitoredItems: client handle -> [node, id]
    clientHandleCounter, \* d->clientHandleCounter
    subscription,        \* d->subscription
    calls,               \* the operation every thread is in, see Frame
    callback,            \* the last call of the HaSubscriptionCallback
    crashed,             \* the process has dereferenced a dead pointer
    sdkObjects,          \* subscriptions the SDK holds a client object for
    serverSubs,          \* subscriptions of the server -> last item id used
    items,               \* monitored items of the server
    published,           \* notifications on their way to the client
    expired,             \* lost subscriptions the client is not told of yet
    nextSub,             \* next subscription id of the server
    raced                \* history: has a thread read the counter between
                         \* the read and the write of another's ++

client == <<monitoredItems, clientHandleCounter, subscription>>
server == <<serverSubs, items, nextSub>>
vars == <<client, calls, callback, crashed, sdkObjects, server, published,
          expired, raced>>

-----------------------------------------------------------------------------
(* Data.                                                                   *)

NoItems == [h \in {} |-> [node |-> {}, id |-> 0]]
NoResults == [h \in {} |-> 0]
NoNodes == [h \in {} |-> {}]

(* The steps of the loop of add: at its head, having read the counter but  *)
(* not written it back, having counted but not entered the item.           *)
EntrySteps == {"next", "counting", "counted"}

(* What a thread is doing: pc is the service it is blocked in, a step of   *)
(* the loop of add or "idle"; todo the nodes the loop has not reached, by  *)
(* their place; handle its clientHandle; request holds the items of the    *)
(* call by client handle; sub the subscription the call names; answer and  *)
(* results what the server said; thrown whether an exception is (or, when  *)
(* idle, was) raised.                                                      *)
Idle(op, thrown) ==
    [pc |-> "idle", op |-> op, todo |-> NoNodes, handle |-> 0,
     request |-> NoItems, sub |-> Null, answer |-> "none",
     results |-> NoResults, thrown |-> thrown]

Call(service, op, request, sub, thrown) ==
    [pc |-> service, op |-> op, todo |-> NoNodes, handle |-> 0,
     request |-> request, sub |-> sub, answer |-> "none",
     results |-> NoResults, thrown |-> thrown]

Entry(step, todo, handle, request) ==
    [pc |-> step, op |-> "add", todo |-> todo, handle |-> handle,
     request |-> request, sub |-> Null, answer |-> "none",
     results |-> NoResults, thrown |-> FALSE]

Goto(p, frame) == calls' = [calls EXCEPT ![p] = frame]

Item == [node: Nodes, id: Nat]
IsItems(f) == DOMAIN f \subseteq Nat /\ f \in [DOMAIN f -> Item]

(* f with the item of a node under a client handle.                        *)
Mutant_WaitingInvalid(node) == [node |-> node, id |-> -1]
Waiting(node) == [node |-> node, id |-> 0]

WithItem(f, handle, node) ==
    [h \in DOMAIN f \cup {handle} |->
        IF h = handle THEN Waiting(node) ELSE f[h]]

(* The item of a node that remove picks: the loop over the std::map breaks *)
(* at the first, the lowest, matching handle.                              *)
IsFirstHandle(h) ==
    \A g \in DOMAIN monitoredItems :
        monitoredItems[g].node = monitoredItems[h].node => h <= g
FirstHandles(nodes) ==
    {h \in DOMAIN monitoredItems :
        monitoredItems[h].node \in nodes /\ IsFirstHandle(h)}

Init ==
    /\ monitoredItems = NoItems
    /\ clientHandleCounter = 1
    /\ subscription = Null
    /\ calls = [p \in Procs |-> Idle("none", FALSE)]
    /\ callback = {}
    /\ crashed = FALSE
    /\ sdkObjects = {}
    /\ serverSubs = NoResults
    /\ items = {}
    /\ published = {}
    /\ expired = {}
    /\ nextSub = 1
    /\ raced = FALSE

Crash ==
    /\ crashed' = TRUE
    /\ UNCHANGED <<client, calls, callback, sdkObjects, server, published,
                   expired, raced>>

-----------------------------------------------------------------------------
(* HaSubscription::add                                                     *)

(* An application thread's add; an empty list of nodes returns at once.    *)
(* The bound counts the nodes of adds that have begun, and a shared handle *)
(* twice.                                                                  *)
Add(t) ==
    LET adding == {u \in Threads : calls[u].pc \in EntrySteps}
        begun == MaxRequest * Cardinality(adding)
        shared == IF raced THEN 1 ELSE 0
    IN
    /\ ~crashed
    /\ calls[t].pc = "idle"
    /\ subscription = Null => nextSub <= MaxSubs
    /\ \E n \in 1 .. MaxRequest :
          /\ clientHandleCounter + n - 1 + begun + shared <= MaxHandle
          /\ \E todo \in [1 .. n -> Nodes] :
                Goto(t, Entry("next", todo, 0, NoItems))
    /\ UNCHANGED <<client, callback, crashed, sdkObjects, server, published,
                   expired, raced>>

(* clientHandleCounter++, line 149: the read.  A thread that reads while   *)
(* another has not written back shares its handle, or will see the counter *)
(* step back.                                                              *)
Mutant_NextHandle == Cardinality(DOMAIN monitoredItems) + 1
NextHandle == clientHandleCounter

ReadCounter(p) ==
    LET c == calls[p] IN
    /\ ~crashed
    /\ c.pc = "next"
    /\ DOMAIN c.todo # {}
    /\ Goto(p, Entry("counting", c.todo, NextHandle, c.request))
    /\ raced' = (raced \/ \E q \in Procs \ {p} : calls[q].pc = "counting")
    /\ UNCHANGED <<client, callback, crashed, sdkObjects, server, published,
                   expired>>

(* The write.                                                              *)
WriteCounter(p) ==
    LET c == calls[p] IN
    /\ ~crashed
    /\ c.pc = "counting"
    /\ clientHandleCounter' = c.handle + 1
    /\ Goto(p, Entry("counted", c.todo, c.handle, c.request))
    /\ UNCHANGED <<monitoredItems, subscription, callback, crashed,
                   sdkObjects, server, published, expired, raced>>

(* The item enters the list only when the server has answered.             *)
Mutant_EnterAfterCall(p, place) ==
    LET c == calls[p] IN
    /\ monitoredItems' = monitoredItems
    /\ Goto(p, Entry("next", Restrict(c.todo, DOMAIN c.todo \ {place}), 0,
                     WithItem(c.request, c.handle, c.todo[place])))

(* The node at a place of the request enters the list and the request      *)
(* before the server is asked.                                             *)
Enter(p, place) ==
    LET c == calls[p] IN
    /\ monitoredItems' = WithItem(monitoredItems, c.handle, c.todo[place])
    /\ Goto(p, Entry("next", Restrict(c.todo, DOMAIN c.todo \ {place}), 0,
                     WithItem(c.request, c.handle, c.todo[place])))

EnterItem(p) ==
    LET c == calls[p] IN
    /\ ~crashed
    /\ c.pc = "counted"
    /\ \E place \in DOMAIN c.todo :
          /\ \A other \in DOMAIN c.todo : place <= other
          /\ Enter(p, place)
    /\ UNCHANGED <<clientHandleCounter, subscription, callback, crashed,
                   sdkObjects, server, published, expired, raced>>

(* After the last node: the subscription is created when there is none.    *)
AllEntered(p) ==
    LET c == calls[p]
        service == IF subscription = Null THEN "createSubscription"
                                          ELSE "createMonitoredItems"
    IN
    /\ ~crashed
    /\ c.pc = "next"
    /\ DOMAIN c.todo = {}
    /\ Goto(p, Call(service, "add", c.request, subscription, FALSE))
    /\ UNCHANGED <<client, callback, crashed, sdkObjects, server, published,
                   expired, raced>>

(* A refused createSubscription is tried again without end.                *)
Mutant_CreateSubscriptionRetried(p) ==
    LET c == calls[p] IN
    /\ ~crashed
    /\ c.pc = "createSubscription"
    /\ c.answer # "none"
    /\ \/ /\ c.answer = "good"
          /\ subscription' = c.sub
          /\ sdkObjects' = sdkObjects \cup {c.sub}
          /\ Goto(p, Call("createMonitoredItems", "add", c.request, c.sub,
                          FALSE))
       \/ /\ c.answer = "bad"
          /\ UNCHANGED <<subscription, sdkObjects>>
          /\ Goto(p, Call("createSubscription", "add", c.request, Null, FALSE))
    /\ UNCHANGED <<monitoredItems, clientHandleCounter, callback, crashed,
                   server, published, expired, raced>>

(* createSubscription returns.  When it failed nothing takes the entered   *)
(* items out of the list again.                                            *)
CreateSubscriptionReturns(p) ==
    LET c == calls[p] IN
    /\ ~crashed
    /\ c.pc = "createSubscription"
    /\ c.answer # "none"
    /\ \/ /\ c.answer = "good"
          /\ subscription' = c.sub
          /\ sdkObjects' = sdkObjects \cup {c.sub}
          /\ Goto(p, Call("createMonitoredItems", "add", c.request, c.sub,
                          FALSE))
       \/ /\ c.answer = "bad"
          /\ subscription' = Null
          /\ sdkObjects' = sdkObjects
          /\ Goto(p, Idle("add", TRUE))
    /\ UNCHANGED <<monitoredItems, clientHandleCounter, callback, crashed,
                   server, published, expired, raced>>

(* deleteSubscription is called after the list ran empty: it returns at    *)
(* once when there is no subscription.                                     *)
Mutant_SubscriptionKept(p, op, thrown) == Goto(p, Idle(op, thrown))
DeleteSubscriptionOrEnd(p, op, thrown) ==
    Goto(p, IF subscription = Null
            THEN Idle(op, thrown)
            ELSE Call("deleteSubscription", op, NoItems, subscription,
                      thrown))

(* The client handles of a call that the server granted, those it did not, *)
(* and the id an item got: results come in the order of the request.       *)
Mutant_DeletedNotGranted(c) ==   \* remove misreads the single results
    IF c.answer = "good" /\ c.pc = "createMonitoredItems"
    THEN DOMAIN c.results ELSE {}
Granted(c) == IF c.answer = "good" THEN DOMAIN c.results ELSE {}

Mutant_NoneFailed(c) == {}       \* the single results are not looked at
Failed(c) == DOMAIN c.request \ Granted(c)

Mutant_FirstResult(c, h) ==      \* the index of the result stays behind
    CHOOSE id \in {c.results[g] : g \in DOMAIN c.results} :
        \A g \in DOMAIN c.results : id <= c.results[g]
ResultOf(c, h) == c.results[h]

(* createMonitoredItems returns.  Granted items get their id, the others   *)
(* leave the list, and a list that ran empty gives up the subscription.    *)
(* An entry that left the list meanwhile, or a subscription that is gone   *)
(* when an error is worded, is a null pointer.                             *)
CreateMonitoredItemsReturns(p) ==
    LET c == calls[p]
        kept == DOMAIN monitoredItems \ Failed(c)
        dead == \/ ~(DOMAIN c.request \subseteq DOMAIN monitoredItems)
                \/ Failed(c) # {} /\ subscription = Null
    IN
    /\ ~crashed
    /\ c.pc = "createMonitoredItems"
    /\ c.answer # "none"
    /\ \/ dead /\ Crash
       \/ /\ ~dead
          /\ monitoredItems' =
                [h \in kept |->
                    IF h \in Granted(c)
                    THEN [node |-> monitoredItems[h].node,
                          id |-> ResultOf(c, h)]
                    ELSE monitoredItems[h]]
          /\ IF Failed(c) # {} /\ kept = {}
             THEN DeleteSubscriptionOrEnd(p, "add", TRUE)
             ELSE Goto(p, Idle("add", Failed(c) # {}))
          /\ UNCHANGED <<clientHandleCounter, subscription, callback, crashed,
                         sdkObjects, server, published, expired, raced>>

-----------------------------------------------------------------------------
(* HaSubscription::remove and removeAll                                    *)

(* The first stretch of remove: one item for every node that has one, and  *)
(* nothing to do when no node has.                                         *)
StartRemove(t, op, nodes) ==
    LET handles == FirstHandles(nodes) IN
    /\ ~crashed
    /\ calls[t].pc = "idle"
    /\ \/ /\ handles = {}
          /\ Goto(t, Idle(op, FALSE))
          /\ UNCHANGED <<client, callback, crashed, sdkObjects, server,
                         published, expired, raced>>
       \/ handles # {} /\ subscription = Null /\ Crash
       \/ /\ handles # {}
          /\ subscription # Null
          /\ Goto(t, Call("deleteMonitoredItems", op,
                          Restrict(monitoredItems, handles), subscription,
                          FALSE))
          /\ UNCHANGED <<client, callback, crashed, sdkObjects, server,
                         published, expired, raced>>

Remove(t) ==
    \E nodes \in SUBSET Nodes : nodes # {} /\ StartRemove(t, "remove", nodes)

(* removeAll passes the node of every entry to remove.                     *)
RemoveAll(t) == StartRemove(t, "removeAll", Nodes)

(* deleteMonitoredItems returns.  An entry that is already gone is         *)
(* skipped; an entry the server kept raises the exception, which comes     *)
(* before the test for an empty list.                                      *)
DeleteMonitoredItemsReturns(p) ==
    LET c == calls[p]
        kept == DOMAIN monitoredItems \ Granted(c)
        failed == IF c.answer = "good"
                  THEN Failed(c) \cap DOMAIN monitoredItems
                  ELSE DOMAIN c.request
        dead == failed # {} /\ subscription = Null
    IN
    /\ ~crashed
    /\ c.pc = "deleteMonitoredItems"
    /\ c.answer # "none"
    /\ \/ dead /\ Crash
       \/ /\ ~dead
          /\ monitoredItems' = Restrict(monitoredItems, kept)
          /\ IF failed = {} /\ kept = {}
             THEN DeleteSubscriptionOrEnd(p, c.op, FALSE)
             ELSE Goto(p, Idle(c.op, failed # {}))
          /\ UNCHANGED <<clientHandleCounter, subscription, callback, crashed,
                         sdkObjects, server, published, expired, raced>>

-----------------------------------------------------------------------------
(* HaSubscriptionPrivate::deleteSubscription, and what follows it in       *)
(* subscriptionStatusChanged.                                              *)

(* The end of subscriptionStatusChanged: the collected attributes are      *)
(* added again, in the order of their old handles.                         *)
Mutant_NothingAddedAgain(p, old) == Goto(p, Idle("resubscribe", FALSE))

AddAgain(p, old) ==
    Goto(p, IF DOMAIN old = {}
            THEN Idle("resubscribe", FALSE)
            ELSE Entry("next", [h \in DOMAIN old |-> old[h].node], 0, NoItems))

DeleteSubscriptionReturns(p) ==
    LET c == calls[p] IN
    /\ ~crashed
    /\ c.pc = "deleteSubscription"
    /\ c.answer # "none"
    /\ \/ /\ c.answer = "bad"
          /\ Goto(p, Idle(c.op, TRUE))
          /\ UNCHANGED <<client, sdkObjects, published, expired>>
       \/ /\ c.answer = "good"
          /\ subscription' = Null
          /\ sdkObjects' = sdkObjects \ {c.sub}
          /\ published' = {n \in published : n.sub # c.sub}
          /\ expired' = expired \ {c.sub}
          /\ UNCHANGED <<monitoredItems, clientHandleCounter>>
          /\ IF c.op = "resubscribe" THEN AddAgain(p, c.request)
                                     ELSE Goto(p, Idle(c.op, c.thrown))
    /\ UNCHANGED <<callback, crashed, server, raced>>

(* subscriptionStatusChanged(BadSubscriptionIdInvalid): the list is        *)
(* emptied into local variables before the subscription object is deleted. *)
StatusChanged ==
    /\ ~crashed
    /\ calls[Sdk].pc = "idle"
    /\ \E s \in expired \cap sdkObjects :
          \/ subscription = Null /\ Crash
          \/ /\ subscription # Null
             /\ expired' = expired \ {s}
             /\ monitoredItems' = NoItems
             /\ Goto(Sdk, Call("deleteSubscription", "resubscribe",
                               monitoredItems, subscription, FALSE))
             /\ UNCHANGED <<clientHandleCounter, subscription, callback,
                            crashed, sdkObjects, server, published, raced>>

-----------------------------------------------------------------------------
(* The notifications.                                                      *)

(* dataChange: a handle without an entry is ignored.                       *)
DataChange(n) ==
    /\ callback' = IF n.handle \in DOMAIN monitoredItems
                   THEN {[node |-> monitoredItems[n.handle].node,
                          source |-> n.node]}
                   ELSE callback
    /\ crashed' = crashed

(* newEvents: operator[] of the map makes up a null entry for a handle     *)
(* without one, and an entry of a variable has no event fields: both are   *)
(* dereferenced.                                                           *)
NewEvents(n) ==
    LET h == n.handle
        known == h \in DOMAIN monitoredItems /\ monitoredItems[h].node \in EventTypes
    IN  /\ callback' = IF known THEN {[node |-> monitoredItems[h].node,
                                      source |-> n.node]}
                       ELSE callback
        /\ crashed' = ~known

Deliver ==
    /\ ~crashed
    /\ calls[Sdk].pc = "idle"
    /\ \E n \in published :
          /\ n.sub \in sdkObjects
          /\ published' = published \ {n}
          /\ IF n.node \in EventTypes THEN NewEvents(n) ELSE DataChange(n)
    /\ UNCHANGED <<client, calls, sdkObjects, server, expired, raced>>

-----------------------------------------------------------------------------
(* The SDK and the server (external).                                      *)

Answer(p, answer, sub, results) ==
    LET c == calls[p] IN
    Goto(p, [pc |-> c.pc, op |-> c.op, todo |-> c.todo, handle |-> c.handle,
             request |-> c.request, sub |-> sub, answer |-> answer,
             results |-> results, thrown |-> c.thrown])

(* How the client sees an executed call.                                   *)
Answers == {"good"} \cup (IF "lateAnswer" \in Faults THEN {"bad"} ELSE {})

(* The server refuses a call: it may when Faults say so, and has to when   *)
(* an item service names a subscription it does not have.                  *)
Refuse(p) ==
    LET c == calls[p] IN
    /\ ~crashed
    /\ c.pc \in Services
    /\ c.answer = "none"
    /\ \/ c.pc \in Faults
       \/ c.pc \in ItemServices /\ c.sub \notin DOMAIN serverSubs
    /\ Answer(p, "bad", c.sub, NoResults)
    /\ UNCHANGED <<client, callback, crashed, sdkObjects, server, published,
                   expired, raced>>

ServeCreateSubscription(p) ==
    /\ ~crashed
    /\ calls[p].pc = "createSubscription"
    /\ calls[p].answer = "none"
    /\ serverSubs' = [s \in DOMAIN serverSubs \cup {nextSub} |->
                         IF s = nextSub THEN 0 ELSE serverSubs[s]]
    /\ nextSub' = nextSub + 1
    /\ \E answer \in Answers : Answer(p, answer, nextSub, NoResults)
    /\ UNCHANGED <<client, callback, crashed, sdkObjects, items, published,
                   expired, raced>>

(* Item ids are unique within a subscription only, so every subscription   *)
(* counts them from 1.                                                     *)
ServeCreateMonitoredItems(p) ==
    LET c == calls[p] IN
    /\ ~crashed
    /\ c.pc = "createMonitoredItems"
    /\ c.answer = "none"
    /\ c.sub \in DOMAIN serverSubs
    /\ \E granted \in SUBSET DOMAIN c.request, first \in DOMAIN c.request :
          LET idOf(h) == serverSubs[c.sub] + 1 + h - first IN
          /\ \A h \in DOMAIN c.request : first <= h
          /\ granted # DOMAIN c.request => "item" \in Faults
          /\ items' = items \cup {[sub |-> c.sub, id |-> idOf(h), handle |-> h,
                                   node |-> c.request[h].node] : h \in granted}
          /\ \E last \in DOMAIN c.request :
                /\ \A h \in DOMAIN c.request : h <= last
                /\ serverSubs' = [serverSubs EXCEPT ![c.sub] = idOf(last)]
          /\ \E answer \in Answers :
                Answer(p, answer, c.sub, [h \in granted |-> idOf(h)])
    /\ UNCHANGED <<client, callback, crashed, sdkObjects, nextSub, published,
                   expired, raced>>

ServeDeleteMonitoredItems(p) ==
    LET c == calls[p]
        of(h) == {i \in items : i.sub = c.sub /\ i.id = c.request[h].id}
        known == {h \in DOMAIN c.request : of(h) # {}}
    IN
    /\ ~crashed
    /\ c.pc = "deleteMonitoredItems"
    /\ c.answer = "none"
    /\ c.sub \in DOMAIN serverSubs
    /\ \E deleted \in SUBSET known :
          /\ deleted # known => "item" \in Faults
          /\ items' = items \ UNION {of(h) : h \in deleted}
          /\ \E answer \in Answers :
                Answer(p, answer, c.sub,
                       [h \in deleted |-> c.request[h].id])
    /\ UNCHANGED <<client, callback, crashed, sdkObjects, serverSubs, nextSub,
                   published, expired, raced>>

(* A subscription the server no longer has only costs the SDK its object,  *)
(* which is what the code deletes it for.                                  *)
ServeDeleteSubscription(p) ==
    LET c == calls[p] IN
    /\ ~crashed
    /\ c.pc = "deleteSubscription"
    /\ c.answer = "none"
    /\ serverSubs' = Restrict(serverSubs, DOMAIN serverSubs \ {c.sub})
    /\ items' = {i \in items : i.sub # c.sub}
    /\ \E answer \in Answers : Answer(p, answer, c.sub, NoResults)
    /\ UNCHANGED <<client, callback, crashed, sdkObjects, nextSub, published,
                   expired, raced>>

(* A call on a subscription object that another thread's deleteSubscription*)
(* has freed is undefined: it may end the process or go on as if nothing   *)
(* had happened.                                                           *)
UseAfterDelete(p) ==
    /\ ~crashed
    /\ calls[p].pc \in Services \ {"createSubscription"}
    /\ calls[p].sub \notin sdkObjects
    /\ Crash

Publish ==
    /\ ~crashed
    /\ \E i \in items :
          /\ i.sub \in DOMAIN serverSubs
          /\ published' = published \cup {[sub |-> i.sub, handle |-> i.handle,
                                           node |-> i.node]}
          /\ published' # published
          /\ Cardinality(published') <= MaxInFlight
    /\ UNCHANGED <<client, calls, callback, crashed, sdkObjects, server,
                   expired, raced>>

LoseSubscription ==
    /\ ~crashed
    /\ "subscriptionLost" \in Faults
    /\ nextSub <= MaxSubs
    /\ \E s \in DOMAIN serverSubs :
          /\ serverSubs' = Restrict(serverSubs, DOMAIN serverSubs \ {s})
          /\ items' = {i \in items : i.sub # s}
          /\ expired' = expired \cup {s}
    /\ UNCHANGED <<client, calls, callback, crashed, sdkObjects, nextSub,
                   published, raced>>

-----------------------------------------------------------------------------
Serve(p) ==
    \/ Refuse(p)
    \/ ServeCreateSubscription(p)
    \/ ServeCreateMonitoredItems(p)
    \/ ServeDeleteMonitoredItems(p)
    \/ ServeDeleteSubscription(p)

Returns(p) ==
    \/ CreateSubscriptionReturns(p)
    \/ CreateMonitoredItemsReturns(p)
    \/ DeleteMonitoredItemsReturns(p)
    \/ DeleteSubscriptionReturns(p)

Enters(p) ==
    \/ ReadCounter(p)
    \/ WriteCounter(p)
    \/ EnterItem(p)
    \/ AllEntered(p)

(* After a crash, or with every bound used up, nothing more happens.       *)
Ended == crashed /\ UNCHANGED vars

Next ==
    \/ \E t \in Threads : Add(t) \/ Remove(t) \/ RemoveAll(t)
    \/ \E p \in Procs : Serve(p) \/ Returns(p) \/ Enters(p)
                        \/ UseAfterDelete(p)
    \/ StatusChanged
    \/ Deliver
    \/ Publish
    \/ LoseSubscription
    \/ Ended

Spec == Init /\ [][Next]_vars

(* Every service call carries a callTimeout, so it returns; and the        *)
(* operating system runs every thread.                                     *)
Fairness ==
    /\ \A p \in Procs : WF_vars(Serve(p)) /\ WF_vars(Returns(p) \/ Enters(p))
    /\ WF_vars(StatusChanged)
FairSpec == Spec /\ Fairness

-----------------------------------------------------------------------------
(* Properties.                                                             *)

(* The type of one thread's frame.                                         *)
FrameOK(c) ==
    /\ c.pc \in Services \cup EntrySteps \cup {"idle"}
    /\ DOMAIN c.todo \subseteq Nat /\ c.todo \in [DOMAIN c.todo -> Nodes]
    /\ c.pc \in {"counting", "counted"} => DOMAIN c.todo # {}
    /\ c.handle \in Nat
    /\ c.answer \in {"none", "good", "bad"}
    /\ c.sub \in Nat
    /\ IsItems(c.request)
    /\ DOMAIN c.results \subseteq DOMAIN c.request
    /\ \A h \in DOMAIN c.results : c.results[h] \in Nat \ {0}
    /\ c.thrown \in BOOLEAN

CallsOK ==
    /\ calls = [p \in Procs |-> calls[p]]
    /\ \A p \in Procs : FrameOK(calls[p])

(* The types of the variables.                                             *)
TypeOK ==
    /\ IsItems(monitoredItems)
    /\ clientHandleCounter \in Nat \ {0}
    /\ subscription \in Nat
    /\ CallsOK
    /\ callback \subseteq [node: Nodes, source: Nodes]
    /\ crashed \in BOOLEAN
    /\ nextSub \in Nat
    /\ sdkObjects \subseteq Nat
    /\ expired \subseteq Nat
    /\ DOMAIN serverSubs \subseteq Nat
    /\ serverSubs = [s \in DOMAIN serverSubs |-> serverSubs[s]]
    /\ \A s \in DOMAIN serverSubs : serverSubs[s] \in Nat
    /\ items \subseteq [sub: Nat, id: Nat \ {0}, handle: Nat, node: Nodes]
    /\ published \subseteq [sub: Nat, handle: Nat, node: Nodes]
    /\ raced \in BOOLEAN

(* Two threads can get one handle, since nothing makes the ++ of line 149  *)
(* one step; then anything may be said of its items.  The properties of    *)
(* handles say that nothing else can: they hold until threads race at that *)
(* line.                                                                   *)

(* What the application is told about a node was published for that node:  *)
(* a notification that comes late, after the item was removed, after the   *)
(* list was rebuilt by subscriptionStatusChanged or while two threads      *)
(* change it, is passed on as one of another node only when two threads    *)
(* have raced at the counter.                                              *)
NotificationsAttributed == ~raced => \A c \in callback : c.node = c.source

(* Without that exception: false, as two threads in add show.              *)
AllNotificationsAttributed == \A c \in callback : c.node = c.source

(* Why that is so: without a race the counter never steps back, and what   *)
(* any part of the state says of a client handle was said when add gave it *)
(* out.  A thread reserves the handle that it has counted and not entered. *)
(* Claims holds for a handle and a node when some part of the state ties   *)
(* them.                                                                   *)
Given == 1 .. clientHandleCounter - 1
Reserved == {calls[p].handle : p \in {q \in Procs : calls[q].pc = "counted"}}

Claims(h, node) ==
    \/ h \in DOMAIN monitoredItems /\ monitoredItems[h].node = node
    \/ \E p \in Procs : /\ h \in DOMAIN calls[p].request
                        /\ calls[p].request[h].node = node
    \/ \E i \in items : i.handle = h /\ i.node = node
    \/ \E n \in published : n.handle = h /\ n.node = node

HandlesGiven ==
    /\ DOMAIN monitoredItems \subseteq Given
    /\ \A p \in Procs : DOMAIN calls[p].request \subseteq Given
    /\ \A i \in items : i.handle \in Given
    /\ \A n \in published : n.handle \in Given

OneNodePerHandle ==
    \A h \in Given : \A m, n \in Nodes : Claims(h, m) /\ Claims(h, n) => m = n

(* One thread at a time is between the read and the write, and what it     *)
(* read still stands; a handle that was counted is out of the counter's    *)
(* reach, is no other thread's and nothing says anything of it.            *)
CountingAlone ==
    /\ \A p \in Procs : calls[p].pc = "counting" =>
          /\ calls[p].handle = clientHandleCounter
          /\ \A q \in Procs \ {p} : calls[q].pc # "counting"
    /\ \A p \in Procs : calls[p].pc = "counted" =>
          /\ calls[p].handle \in Given
          /\ \A n \in Nodes : ~Claims(calls[p].handle, n)
          /\ \A q \in Procs \ {p} :
                calls[q].pc = "counted" => calls[q].handle # calls[p].handle

(* The inductive invariant behind NotificationsAttributed: every handle in *)
(* use was given out, and all parts of the state agree on its node.        *)
AttributionInv ==
    /\ TypeOK
    /\ ~raced => HandlesGiven /\ OneNodePerHandle /\ CountingAlone
    /\ NotificationsAttributed

(* The list and the server mean the same item by a client handle: an item  *)
(* of the server that the list has an id for is listed under its own id    *)
(* and node, however calls and their answers interleave, unless threads    *)
(* have raced at the counter.                                              *)
IdsAgree ==
    ~raced => \A i \in items :
        i.handle \in DOMAIN monitoredItems =>
            /\ monitoredItems[i.handle].node = i.node
            /\ monitoredItems[i.handle].id \in {0, i.id}

Quiet == ~crashed /\ \A p \in Procs : calls[p].pc = "idle"

(* The comment of add: the nodes are "in the internal lists before [...]   *)
(* because the server may send dataChange events before the call is        *)
(* finished".  Whatever the server monitors in the current subscription    *)
(* has its entry at every moment, so no first value is ignored.            *)
EveryItemListed ==
    ~crashed => \A i \in items : /\ i.sub = subscription
                                 /\ i.handle \in DOMAIN monitoredItems

(* Between operations every entry that has an id is an item the server     *)
(* still monitors: a failed add or remove leaves neither a listed item the *)
(* server dropped nor a list that outlives its subscription.               *)
ListedItemsExist ==
    Quiet =>
        \A h \in DOMAIN monitoredItems :
            monitoredItems[h].id # 0 =>
                \E i \in items : /\ i.handle = h
                                 /\ i.id = monitoredItems[h].id
                                 /\ i.sub = subscription

(* No subscription is leaked: between operations the server has none that  *)
(* the object does not point at, and none at all when nothing is monitored *)
(* unless the server refused to delete it.                                 *)
NoSubscriptionLeaked ==
    Quiet =>
        /\ DOMAIN serverSubs \subseteq {subscription}
        /\ monitoredItems = NoItems /\ "deleteSubscription" \notin Faults
              => subscription = Null

(* Without events the process dereferences a null pointer only while the   *)
(* list holds what an add left there that failed in createSubscription: an *)
(* entry without an id that no call is adding.  No refusal of any other    *)
(* service, in any order, makes one thread use an entry or a subscription  *)
(* that is gone (remove, line 290; add, line 195).                         *)
LeftOver(h) ==
    /\ monitoredItems[h].id = 0
    /\ \A p \in Procs : h \notin DOMAIN calls[p].request
NoCrash == crashed => \E h \in DOMAIN monitoredItems : LeftOver(h)

(* A removal that returns without an exception has taken every item it     *)
(* picked out of the list, whatever other threads did meanwhile.           *)
RemovedHandlesGone ==
    [][\A p \in Procs :
             /\ calls[p].pc = "deleteMonitoredItems"
             /\ calls[p]'.pc # "deleteMonitoredItems"
             /\ ~calls[p]'.thrown
          => DOMAIN calls[p].request \cap DOMAIN monitoredItems' = {}]_vars

(* deleteMonitoredItems hits the items it was called for and no others:    *)
(* ids are unique within one subscription only, so an id kept from an      *)
(* earlier one would name a stranger's item.                               *)
OnlyPickedItemsDeleted ==
    [][\A p \in Procs :
             /\ calls[p].pc = "deleteMonitoredItems"
             /\ calls[p].answer # calls[p]'.answer
          => \A i \in items \ items' : i.handle \in DOMAIN calls[p].request]_vars

(* "Deletes all subscriptions." (HaSession.h on unsubscribe()): a removeAll*)
(* that returns without an exception leaves an empty list.                 *)
RemoveAllRemovesAll ==
    [][\A t \in Threads :
             /\ calls[t].op = "removeAll"
             /\ calls[t].pc # "idle"
             /\ calls[t]'.pc = "idle"
             /\ ~calls[t]'.thrown
          => monitoredItems' = NoItems]_vars

(* "remove nodeIds which could not be added for monitoring from internal   *)
(* lists" (add): an add that ends with an exception leaves no entry of its *)
(* own without an id.                                                      *)
FailedNodesLeaveList ==
    [][\A t \in Threads :
             /\ calls[t].pc \in {"createSubscription", "createMonitoredItems"}
             /\ calls[t]'.pc = "idle"
             /\ calls[t]'.thrown
          => \A h \in DOMAIN calls[t].request \cap DOMAIN monitoredItems' :
                   monitoredItems'[h].id # 0]_vars

(* Every operation comes to its end, unless the process does.              *)
OperationsEnd ==
    \A p \in Procs : calls[p].pc # "idle" ~> calls[p].pc = "idle" \/ crashed

(* A subscription the server lost is replaced: every node it monitored is  *)
(* monitored again, unless a service or an item the SDK's thread asks for  *)
(* is refused, the next one is lost, or the application removes nodes or   *)
(* gives up the new subscription in an add of its own that failed: its     *)
(* test for an empty list (line 236) may come before the SDK's thread has  *)
(* entered what it adds again.                                             *)
Refused(c) ==
    \/ c.answer = "bad"
    \/ c.pc = "createMonitoredItems" /\ c.answer = "good"
          /\ DOMAIN c.results # DOMAIN c.request

Resubscribed ==
    \A n \in Nodes :
        (/\ calls[Sdk].op = "resubscribe"
         /\ \E h \in DOMAIN calls[Sdk].request : calls[Sdk].request[h].node = n)
            ~> \/ \E i \in items :
                     /\ i.node = n
                     /\ i.handle \in DOMAIN monitoredItems
                     /\ monitoredItems[i.handle].id = i.id
               \/ Refused(calls[Sdk])
               \/ \E t \in Threads :
                     \/ calls[t].op \in {"remove", "removeAll"}
                     \/ calls[t].pc = "deleteSubscription"
               \/ expired # {}
               \/ crashed

(* Why it does: a handle is asked for by one call only, and has no id      *)
(* before that call has returned, unless threads have raced at the counter.*)
Adding(c) ==
    c.pc \in EntrySteps \cup {"createSubscription", "createMonitoredItems"}

AddedHandlesWait ==
    ~raced => \A p \in Procs : Adding(calls[p]) =>
        /\ \A h \in DOMAIN calls[p].request \cap DOMAIN monitoredItems :
              monitoredItems[h].id = 0
        /\ \A q \in Procs \ {p} : Adding(calls[q]) =>
              DOMAIN calls[p].request \cap DOMAIN calls[q].request = {}

(* The object implements the life cycle of client handles until threads    *)
(* race at the counter: an entry waits while it has no id, is active with  *)
(* one, and a handle that was given out, has no entry and is not about to  *)
(* get one is retired.                                                     *)
WithId == {h \in DOMAIN monitoredItems : monitoredItems[h].id # 0}
WithoutId == {h \in DOMAIN monitoredItems : monitoredItems[h].id = 0}
NodesOf(handles) == [h \in handles |-> monitoredItems[h].node]

Handles == INSTANCE MonitoredHandles WITH
    waiting <- NodesOf(WithoutId),
    active  <- NodesOf(WithId),
    retired <- Given \ (DOMAIN monitoredItems \cup Reserved),
    told    <- {c.node : c \in callback}

HandleLifeCycle ==
    Handles!Init /\ [][Handles!Next \/ raced]_(Handles!handles)

=============================================================================
