---------------------- MODULE HaSubscriptionItemsProofs ----------------------
(* Theorems about what HaSubscription and the server each hold of an item. *)
EXTENDS HaSubscriptionProofs

-----------------------------------------------------------------------------
(* Steps and frames.                                                       *)

LEMMA GotoFrames ==
    ASSUME TypeOK, NEW p \in Procs, NEW frame, Goto(p, frame)
    PROVE  /\ calls'[p] = frame
           /\ \A q \in Procs \ {p} : calls'[q] = calls[q]
BY DEF Goto, TypeOK, CallsOK

(* The steps of one thread.                                                *)
StepOf(p) ==
    \/ p \in Threads /\ (Add(p) \/ Remove(p) \/ RemoveAll(p))
    \/ Serve(p) \/ Returns(p) \/ Enters(p)
    \/ p = Sdk /\ StatusChanged

LEMMA StepGoes ==
    ASSUME NEW p \in Procs, StepOf(p), calls' # calls
    PROVE  \E frame : Goto(p, frame)
<1>1. CASE Add(p)
  BY <1>1, Zenon DEF Add
<1>2. CASE Remove(p) \/ RemoveAll(p)
  <2>1. PICK op, nodes : StartRemove(p, op, nodes)
    BY <1>2 DEF Remove, RemoveAll
  <2> QED
    BY <2>1, Zenon DEF StartRemove, Crash
<1>3. CASE Serve(p)
  BY <1>3, Zenon
  DEF Serve, Refuse, ServeCreateSubscription, ServeCreateMonitoredItems,
      ServeDeleteMonitoredItems, ServeDeleteSubscription, Answer
<1>4. CASE StatusChanged /\ p = Sdk
  BY <1>4, Zenon DEF StatusChanged, Crash
<1>5. CASE CreateSubscriptionReturns(p)
  BY <1>5, Zenon DEF CreateSubscriptionReturns
<1>6. CASE CreateMonitoredItemsReturns(p)
  BY <1>6, Zenon
  DEF CreateMonitoredItemsReturns, DeleteSubscriptionOrEnd, Crash
<1>7. CASE DeleteMonitoredItemsReturns(p)
  BY <1>7, Zenon
  DEF DeleteMonitoredItemsReturns, DeleteSubscriptionOrEnd, Crash
<1>8. CASE DeleteSubscriptionReturns(p)
  BY <1>8, Zenon DEF DeleteSubscriptionReturns, AddAgain
<1>9. CASE ReadCounter(p) \/ WriteCounter(p) \/ AllEntered(p)
  BY <1>9, Zenon DEF ReadCounter, WriteCounter, AllEntered
<1>10. CASE EnterItem(p)
  BY <1>10, Zenon DEF EnterItem, Enter
<1> QED
  BY <1>1, <1>2, <1>3, <1>4, <1>5, <1>6, <1>7, <1>8, <1>9, <1>10
  DEF StepOf, Returns, Enters

(* A frame changes only in a step of its own thread.                       *)
LEMMA OwnStep ==
    ASSUME TypeOK, [Next]_vars, NEW p \in Procs, calls'[p] # calls[p]
    PROVE  StepOf(p)
<1>1. ASSUME NEW q \in Procs, StepOf(q) PROVE StepOf(p)
  <2>1. PICK frame : Goto(q, frame)
    BY <1>1, StepGoes
  <2>2. q = p
    BY <2>1, GotoFrames
  <2> QED
    BY <1>1, <2>2
<1>2. CASE calls' = calls
  BY <1>2
<1>3. \/ \E q \in Procs : StepOf(q)
      \/ calls' = calls
  <2>1. ASSUME NEW t \in Threads, Add(t) \/ Remove(t) \/ RemoveAll(t)
        PROVE  t \in Procs /\ StepOf(t)
    BY <2>1 DEF StepOf, Procs
  <2>2. ASSUME NEW q \in Procs,
               Serve(q) \/ Returns(q) \/ Enters(q) \/ UseAfterDelete(q)
        PROVE  StepOf(q) \/ calls' = calls
    BY <2>2 DEF StepOf, UseAfterDelete, Crash
  <2>3. StatusChanged => Sdk \in Procs /\ StepOf(Sdk)
    BY DEF StepOf, Procs
  <2>4. Deliver \/ Publish \/ LoseSubscription \/ Ended \/ UNCHANGED vars
            => calls' = calls
    BY DEF Deliver, Publish, LoseSubscription, Ended, vars
  <2> QED
    BY <2>1, <2>2, <2>3, <2>4, Zenon DEF Next
<1> QED
  BY <1>1, <1>2, <1>3

-----------------------------------------------------------------------------
(* Removal.                                                                *)

(* A thread leaves the service deleteMonitoredItems only when it returns.  *)
LEMMA LeavesDeletion ==
    ASSUME TypeOK, [Next]_vars, NEW p \in Procs,
           calls[p].pc = "deleteMonitoredItems",
           calls'[p].pc # "deleteMonitoredItems"
    PROVE  DeleteMonitoredItemsReturns(p) /\ ~Crash
<1>1. StepOf(p)
  BY OwnStep
<1>2. ~Crash
  BY DEF Crash
<1>3. ~Serve(p)
  <2>1. ASSUME Serve(p) PROVE FALSE
    <3>1. PICK answer, sub, results : Answer(p, answer, sub, results)
      BY <2>1 DEF Serve, Refuse, ServeCreateSubscription,
                  ServeCreateMonitoredItems, ServeDeleteMonitoredItems,
                  ServeDeleteSubscription
    <3>2. PICK frame : Goto(p, frame) /\ frame.pc = calls[p].pc
      BY <3>1 DEF Answer
    <3> QED
      BY <3>2, GotoFrames
  <2> QED
    BY <2>1
<1>4. /\ ~Add(p) /\ ~CreateSubscriptionReturns(p)
      /\ ~CreateMonitoredItemsReturns(p) /\ ~DeleteSubscriptionReturns(p)
      /\ ~(p = Sdk /\ StatusChanged)
  BY DEF Add, CreateSubscriptionReturns, CreateMonitoredItemsReturns,
         DeleteSubscriptionReturns, StatusChanged
<1>5. ~Remove(p) /\ ~RemoveAll(p) /\ ~Enters(p)
  BY DEF Remove, RemoveAll, StartRemove, Enters, ReadCounter, WriteCounter,
         EnterItem, AllEntered
<1> QED
  BY <1>1, <1>2, <1>3, <1>4, <1>5 DEF StepOf, Returns

LEMMA RemovedGone ==
    ASSUME TypeOK, NEW p \in Procs, DeleteMonitoredItemsReturns(p), ~Crash,
           ~calls'[p].thrown
    PROVE  DOMAIN calls[p].request \cap DOMAIN monitoredItems' = {}
<1> DEFINE c == calls[p]
           kept == DOMAIN monitoredItems \ Granted(c)
           failed == IF c.answer = "good"
                     THEN Failed(c) \cap DOMAIN monitoredItems
                     ELSE DOMAIN c.request
<1>1. /\ monitoredItems' = Restrict(monitoredItems, kept)
      /\ IF failed = {} /\ kept = {}
         THEN DeleteSubscriptionOrEnd(p, c.op, FALSE)
         ELSE Goto(p, Idle(c.op, failed # {}))
  BY DEF DeleteMonitoredItemsReturns
<1>2. failed = {}
  <2>1. CASE Goto(p, Idle(c.op, failed # {}))
    <3>1. calls'[p] = Idle(c.op, failed # {})
      BY <2>1, GotoFrames
    <3>2. Idle(c.op, failed # {}).thrown = (failed # {})
      BY DEF Idle
    <3> QED
      BY <3>1, <3>2
  <2> QED
    BY <1>1, <2>1
<1>3. DOMAIN monitoredItems' = kept
  BY <1>1 DEF Restrict
<1> QED
  BY <1>2, <1>3 DEF Failed, Granted

(* Whatever other threads do meanwhile and however the server answers, a   *)
(* removal that ends without an exception has taken all its items out of   *)
(* the list.                                                               *)
THEOREM RemovedHandlesGoneCorrect == Spec => RemovedHandlesGone
<1> DEFINE gone == \A p \in Procs :
             /\ calls[p].pc = "deleteMonitoredItems"
             /\ calls[p]'.pc # "deleteMonitoredItems"
             /\ ~calls[p]'.thrown
          => DOMAIN calls[p].request \cap DOMAIN monitoredItems' = {}
<1>1. TypeOK /\ [Next]_vars => [gone]_vars
  BY LeavesDeletion, RemovedGone
<1> HIDE DEF gone
<1>2. Spec => [][gone]_vars
  BY <1>1, TypeCorrect, PTL DEF Spec
<1> QED
  BY <1>2 DEF gone, RemovedHandlesGone

-----------------------------------------------------------------------------
(* Ids.                                                                    *)

(* The server has no item for the handles of an adding call before it has  *)
(* served the call, and afterwards one with the id it answers; of a handle *)
(* that the list has an id for, every item has that id.                    *)
ItemsAsAnswered ==
    \A p \in Procs : Adding(calls[p]) =>
        \A i \in items : i.handle \in DOMAIN calls[p].request =>
            /\ calls[p].pc = "createMonitoredItems"
            /\ calls[p].answer # "none"
            /\ i.handle \in DOMAIN calls[p].results
            /\ i.id = calls[p].results[i.handle]

SameIds ==
    \A i \in items : i.handle \in DOMAIN monitoredItems =>
        monitoredItems[i.handle].id \in {0, i.id}

IdsInv == ItemsAsAnswered /\ SameIds

LEMMA AnsweredKept ==
    ASSUME TypeOK, ItemsAsAnswered, items' \subseteq items,
           NEW p \in Procs, NEW frame, Goto(p, frame),
           Adding(frame) =>
               \A i \in items : i.handle \notin DOMAIN frame.request
    PROVE  ItemsAsAnswered'
<1>1. /\ calls'[p] = frame
      /\ \A q \in Procs \ {p} : calls'[q] = calls[q]
  BY GotoFrames
<1> QED
  BY <1>1 DEF ItemsAsAnswered

LEMMA AnsweredSame ==
    ASSUME ItemsAsAnswered, items' \subseteq items, calls' = calls
    PROVE  ItemsAsAnswered'
BY DEF ItemsAsAnswered

LEMMA SameIdsKept ==
    ASSUME SameIds, items' \subseteq items,
           \A h \in DOMAIN monitoredItems' :
               \/ monitoredItems'[h].id = 0
               \/ /\ h \in DOMAIN monitoredItems
                  /\ monitoredItems'[h] = monitoredItems[h]
    PROVE  SameIds'
BY DEF SameIds

(* The loop of add: an item enters under a handle the server does not know.*)
LEMMA EntersIds ==
    ASSUME TypeOK, ClaimsInv, IdsInv, NEW p \in Procs, Enters(p)
    PROVE  IdsInv'
<1> DEFINE c == calls[p]
<1>1. items' = items
  BY DEF Enters, ReadCounter, WriteCounter, EnterItem, AllEntered, server
<1>2. \A i \in items : i.handle \notin DOMAIN c.request
  <2>1. Adding(c) /\ c.pc # "createMonitoredItems"
    BY DEF Enters, ReadCounter, WriteCounter, EnterItem, AllEntered, Adding,
           EntrySteps
  <2> QED
    BY <2>1 DEF IdsInv, ItemsAsAnswered
<1>3. CASE ~EnterItem(p)
  <2>1. PICK frame : Goto(p, frame) /\ frame.request = c.request
    <3>1. CASE ReadCounter(p)
      BY <3>1, GotoEntry DEF ReadCounter
    <3>2. CASE WriteCounter(p)
      BY <3>2, GotoEntry DEF WriteCounter
    <3>3. CASE AllEntered(p)
      BY <3>3, AllEnteredRequest
    <3> QED
      BY <1>3, <3>1, <3>2, <3>3 DEF Enters
  <2>2. monitoredItems' = monitoredItems
    BY <1>3 DEF Enters, ReadCounter, WriteCounter, AllEntered, client
  <2>3. ItemsAsAnswered'
    BY <1>1, <1>2, <2>1, AnsweredKept DEF IdsInv
  <2>4. SameIds'
    BY <1>1, <2>2 DEF IdsInv, SameIds
  <2> QED
    BY <2>3, <2>4 DEF IdsInv
<1>4. CASE EnterItem(p)
  <2>1. PICK node \in Nodes : \E frame :
          /\ monitoredItems' = WithItem(monitoredItems, c.handle, node)
          /\ frame.pc = "next"
          /\ frame.request = WithItem(c.request, c.handle, node)
          /\ \A q \in Procs : calls'[q] = IF q = p THEN frame ELSE calls[q]
    BY <1>4, EnterItemChanges
  <2>2. PICK frame :
          /\ monitoredItems' = WithItem(monitoredItems, c.handle, node)
          /\ frame.request = WithItem(c.request, c.handle, node)
          /\ \A q \in Procs : calls'[q] = IF q = p THEN frame ELSE calls[q]
    BY <2>1
  <2>3. PICK h : h = c.handle
    OBVIOUS
  <2>4. \A i \in items : i.handle # h
    <3> SUFFICES ASSUME NEW i \in items, i.handle = h PROVE FALSE
      OBVIOUS
    <3>1. i.node \in Nodes /\ Claims(i.handle, i.node)
      BY OwnClaims DEF TypeOK
    <3>2. Counted(p)
      BY <1>4, AloneCounted DEF EnterItem, ClaimsInv
    <3> QED
      BY <2>3, <3>1, <3>2 DEF Counted
  <2>5. /\ DOMAIN frame.request = DOMAIN c.request \cup {h}
        /\ DOMAIN monitoredItems' = DOMAIN monitoredItems \cup {h}
        /\ monitoredItems'[h].id = 0
        /\ \A g \in DOMAIN monitoredItems \ {h} :
              monitoredItems'[g] = monitoredItems[g]
    <3>1. /\ monitoredItems' = WithItem(monitoredItems, h, node)
          /\ frame.request = WithItem(c.request, h, node)
      BY <2>2, <2>3
    <3> QED
      BY <3>1 DEF WithItem, Waiting
  <2>6. ItemsAsAnswered'
    BY <1>1, <1>2, <2>2, <2>4, <2>5 DEF IdsInv, ItemsAsAnswered
  <2>7. SameIds'
    BY <1>1, <2>5, SameIdsKept DEF IdsInv
  <2> QED
    BY <2>6, <2>7 DEF IdsInv
<1> QED
  BY <1>3, <1>4

(* A thread that begins to add asks for nothing yet.                       *)
LEMMA BeginIds ==
    ASSUME TypeOK, IdsInv, NEW p \in Procs, NEW todo,
           Goto(p, Entry("next", todo, 0, NoItems)),
           UNCHANGED <<monitoredItems, items>>
    PROVE  IdsInv'
<1>1. PICK frame : Goto(p, frame) /\ DOMAIN frame.request = {}
  BY GotoEntry, NoRequest
<1>2. ItemsAsAnswered'
  BY <1>1, AnsweredKept DEF IdsInv
<1>3. SameIds'
  BY DEF IdsInv, SameIds
<1> QED
  BY <1>2, <1>3 DEF IdsInv

(* A step after which thread p adds nothing, and that at most takes        *)
(* entries out of the list and items from the server.                      *)
LEMMA DropIds ==
    ASSUME TypeOK, IdsInv, NEW p \in Procs, NEW frame, Goto(p, frame),
           ~Adding(frame), items' \subseteq items,
           \A h \in DOMAIN monitoredItems' :
               /\ h \in DOMAIN monitoredItems
               /\ monitoredItems'[h] = monitoredItems[h]
    PROVE  IdsInv'
<1>1. ItemsAsAnswered'
  BY AnsweredKept DEF IdsInv
<1>2. SameIds'
  BY SameIdsKept DEF IdsInv
<1> QED
  BY <1>1, <1>2 DEF IdsInv

LEMMA SameIdsInv ==
    ASSUME IdsInv, items' \subseteq items, UNCHANGED <<calls, monitoredItems>>
    PROVE  IdsInv'
BY AnsweredSame, SameIdsKept DEF IdsInv

LEMMA CreateSubscriptionReturnsIds ==
    ASSUME TypeOK, IdsInv, NEW p \in Procs, CreateSubscriptionReturns(p)
    PROVE  IdsInv'
<1> DEFINE c == calls[p]
<1>1. monitoredItems' = monitoredItems /\ items' = items
  BY DEF CreateSubscriptionReturns, server
<1>2. CASE Goto(p, Idle("add", TRUE))
  BY <1>1, <1>2, NotAdding, DropIds
<1>3. CASE Goto(p, Call("createMonitoredItems", "add", c.request, c.sub, FALSE))
  <2> DEFINE frame == Call("createMonitoredItems", "add", c.request, c.sub,
                           FALSE)
  <2>1. frame.request = c.request
    BY DEF Call
  <2>2. \A i \in items : i.handle \notin DOMAIN c.request
    BY DEF IdsInv, ItemsAsAnswered, CreateSubscriptionReturns, Adding
  <2>3. Goto(p, frame)
    BY <1>3
  <2> HIDE DEF frame
  <2>4. ItemsAsAnswered'
    BY <1>1, <2>1, <2>2, <2>3, AnsweredKept DEF IdsInv
  <2>5. SameIds'
    BY <1>1 DEF IdsInv, SameIds
  <2> QED
    BY <2>4, <2>5 DEF IdsInv
<1> QED
  BY <1>2, <1>3 DEF CreateSubscriptionReturns

LEMMA CreateMonitoredItemsReturnsIds ==
    ASSUME TypeOK, IdsInv, NEW p \in Procs, CreateMonitoredItemsReturns(p)
    PROVE  IdsInv'
<1> DEFINE c == calls[p]
           kept == DOMAIN monitoredItems \ Failed(c)
<1>1. CASE Crash
  BY <1>1, SameIdsInv DEF Crash, client, server
<1>2. CASE ~Crash
  <2>1. /\ items' = items
        /\ monitoredItems' =
              [h \in kept |-> IF h \in Granted(c)
                              THEN [node |-> monitoredItems[h].node,
                                    id |-> c.results[h]]
                              ELSE monitoredItems[h]]
    BY <1>2 DEF CreateMonitoredItemsReturns, ResultOf, server
  <2>2. PICK frame : Goto(p, frame) /\ ~Adding(frame)
    BY <1>2, DeleteSubscriptionOrEndWaits, NotAdding
    DEF CreateMonitoredItemsReturns
  <2>3. ItemsAsAnswered'
    BY <2>1, <2>2, AnsweredKept DEF IdsInv
  <2>4. \A i \in items : i.handle \in Granted(c) => i.id = c.results[i.handle]
    <3>1. Granted(c) \subseteq DOMAIN c.request
      BY DEF Granted, TypeOK, CallsOK, FrameOK
    <3> QED
      BY <3>1 DEF IdsInv, ItemsAsAnswered, CreateMonitoredItemsReturns, Adding
  <2>5. SameIds'
    <3> SUFFICES ASSUME NEW i \in items, i.handle \in kept
                 PROVE  monitoredItems'[i.handle].id \in {0, i.id}
      BY <2>1 DEF SameIds
    <3>1. CASE i.handle \in Granted(c)
      BY <2>1, <2>4, <3>1
    <3>2. CASE i.handle \notin Granted(c)
      BY <2>1, <3>2 DEF IdsInv, SameIds
    <3> QED
      BY <3>1, <3>2
  <2> QED
    BY <2>3, <2>5 DEF IdsInv
<1> QED
  BY <1>1, <1>2

LEMMA DeletionReturnsIds ==
    ASSUME TypeOK, IdsInv, NEW p \in Procs,
           DeleteMonitoredItemsReturns(p) \/ DeleteSubscriptionReturns(p)
    PROVE  IdsInv'
<1> DEFINE c == calls[p]
<1>1. CASE Crash
  BY <1>1, SameIdsInv DEF Crash, client, server
<1>2. CASE DeleteMonitoredItemsReturns(p) /\ ~Crash
  <2>1. PICK frame : Goto(p, frame) /\ ~Adding(frame)
    BY <1>2, DeleteSubscriptionOrEndWaits, NotAdding
    DEF DeleteMonitoredItemsReturns
  <2>2. /\ items' = items
        /\ monitoredItems' =
             Restrict(monitoredItems, DOMAIN monitoredItems \ Granted(c))
    BY <1>2 DEF DeleteMonitoredItemsReturns, server
  <2> QED
    BY <2>1, <2>2, DropIds DEF Restrict
<1>3. CASE DeleteSubscriptionReturns(p)
  <2>0. items' = items
    BY <1>3 DEF DeleteSubscriptionReturns, server
  <2>1. CASE \E op, thrown : /\ Goto(p, Idle(op, thrown))
                             /\ monitoredItems' = monitoredItems
    BY <2>0, <2>1, NotAdding, DropIds
  <2>2. CASE \E todo : /\ Goto(p, Entry("next", todo, 0, NoItems))
                       /\ monitoredItems' = monitoredItems
    BY <2>0, <2>2, BeginIds
  <2> QED
    BY <1>3, <2>1, <2>2 DEF DeleteSubscriptionReturns, AddAgain, client
<1> QED
  BY <1>1, <1>2, <1>3

LEMMA AnswerGoes ==
    ASSUME NEW p, NEW answer, NEW sub, NEW results,
           Answer(p, answer, sub, results)
    PROVE  \E frame : /\ Goto(p, frame)
                      /\ frame.pc = calls[p].pc
                      /\ frame.op = calls[p].op
                      /\ frame.request = calls[p].request
                      /\ frame.thrown = calls[p].thrown
                      /\ frame.sub = sub
                      /\ frame.answer = answer
                      /\ frame.results = results
BY DEF Answer

(* Calls that create no items.                                             *)
LEMMA OtherCallsIds ==
    ASSUME TypeOK, IdsInv, NEW p \in Procs,
           \/ Refuse(p)
           \/ ServeCreateSubscription(p)
           \/ ServeDeleteMonitoredItems(p)
           \/ ServeDeleteSubscription(p)
    PROVE  IdsInv'
<1>1. /\ monitoredItems' = monitoredItems
      /\ items' \subseteq items
  BY DEF Refuse, ServeCreateSubscription, ServeDeleteMonitoredItems,
         ServeDeleteSubscription, client, server
<1>2. PICK answer, sub, results : Answer(p, answer, sub, results)
  BY Zenon DEF Refuse, ServeCreateSubscription, ServeDeleteMonitoredItems,
         ServeDeleteSubscription
<1>3. PICK frame : /\ Goto(p, frame) /\ frame.pc = calls[p].pc
                   /\ frame.request = calls[p].request
  <2>1. \E frame : /\ Goto(p, frame)
                   /\ frame.pc = calls[p].pc
                   /\ frame.op = calls[p].op
                   /\ frame.request = calls[p].request
                   /\ frame.thrown = calls[p].thrown
                   /\ frame.sub = sub
                   /\ frame.answer = answer
                   /\ frame.results = results
    BY <1>2, AnswerGoes
  <2> QED
    BY <2>1, Zenon
<1>4. Adding(frame) => \A i \in items : i.handle \notin DOMAIN frame.request
  <2>1. calls[p].answer = "none" \/ ~Adding(calls[p])
    BY DEF Refuse, ServeCreateSubscription, ServeDeleteMonitoredItems,
           ServeDeleteSubscription, Adding
  <2> QED
    BY <1>3, <2>1 DEF IdsInv, ItemsAsAnswered, Adding
<1>5. ItemsAsAnswered'
  BY <1>1, <1>3, <1>4, AnsweredKept DEF IdsInv
<1>6. SameIds'
  BY <1>1, SameIdsKept DEF IdsInv
<1> QED
  BY <1>5, <1>6 DEF IdsInv

(* What the server does when it creates items: those it grants get new and *)
(* different ids.                                                          *)
Creates(p, granted, idOf, frame) ==
    LET c == calls[p] IN
    /\ granted # DOMAIN c.request => "item" \in Faults
    /\ \A h \in DOMAIN c.request : /\ idOf[h] > serverSubs[c.sub]
                                   /\ idOf[h] <= serverSubs'[c.sub]
    /\ \A g, h \in DOMAIN c.request : idOf[g] = idOf[h] => g = h
    /\ items' = items \cup {[sub |-> c.sub, id |-> idOf[h], handle |-> h,
                             node |-> c.request[h].node] : h \in granted}
    /\ DOMAIN serverSubs' = DOMAIN serverSubs
    /\ \A s \in DOMAIN serverSubs : /\ serverSubs[s] <= serverSubs'[s]
                                    /\ s # c.sub => serverSubs'[s] = serverSubs[s]
    /\ Goto(p, frame)
    /\ frame.pc = "createMonitoredItems"
    /\ frame.op = c.op /\ frame.request = c.request /\ frame.sub = c.sub
    /\ frame.thrown = c.thrown
    /\ frame.answer \in Answers
    /\ frame.results = [h \in granted |-> idOf[h]]

LEMMA CreatesItems ==
    ASSUME TypeOK, NEW p \in Procs, ServeCreateMonitoredItems(p)
    PROVE  \E granted, idOf, frame :
             /\ granted \subseteq DOMAIN calls[p].request
             /\ idOf \in [DOMAIN calls[p].request -> Nat]
             /\ Creates(p, granted, idOf, frame)
<1> DEFINE c == calls[p]
           request == DOMAIN c.request
<1>1. /\ c.sub \in DOMAIN serverSubs
      /\ c.pc = "createMonitoredItems"
  BY DEF ServeCreateMonitoredItems
<1>2. PICK granted \in SUBSET request, first \in request :
        LET idOf(h) == serverSubs[c.sub] + 1 + h - first IN
        /\ \A h \in request : first <= h
        /\ granted # request => "item" \in Faults
        /\ items' = items \cup {[sub |-> c.sub, id |-> idOf(h), handle |-> h,
                                 node |-> c.request[h].node] : h \in granted}
        /\ \E last \in request :
              /\ \A h \in request : h <= last
              /\ serverSubs' = [serverSubs EXCEPT ![c.sub] = idOf(last)]
        /\ \E answer \in Answers :
              Answer(p, answer, c.sub, [h \in granted |-> idOf(h)])
  BY DEF ServeCreateMonitoredItems
<1> DEFINE idOf(h) == serverSubs[c.sub] + 1 + h - first
           ids == [h \in request |-> idOf(h)]
<1>3. PICK last \in request :
        /\ \A h \in request : h <= last
        /\ serverSubs' = [serverSubs EXCEPT ![c.sub] = idOf(last)]
  BY <1>2
<1>4. PICK answer \in Answers :
        Answer(p, answer, c.sub, [h \in granted |-> idOf(h)])
  BY <1>2
<1>5. serverSubs[c.sub] \in Nat /\ request \subseteq Nat
  BY <1>1 DEF TypeOK, CallsOK, FrameOK, IsItems
<1>6. \A h \in request : idOf(h) \in Nat /\ idOf(h) > serverSubs[c.sub]
  BY <1>2, <1>5
<1>7. \A g, h \in request : idOf(g) = idOf(h) => g = h
  BY <1>5
<1>8. \A h \in request : idOf(h) <= idOf(last)
  BY <1>3, <1>5
<1>9. DOMAIN serverSubs' = DOMAIN serverSubs /\ serverSubs'[c.sub] = idOf(last)
  BY <1>1, <1>3
<1>10. \A s \in DOMAIN serverSubs \ {c.sub} : serverSubs'[s] = serverSubs[s]
  BY <1>3
<1>11. [h \in granted |-> idOf(h)] = [h \in granted |-> ids[h]]
  OBVIOUS
<1>12. {[sub |-> c.sub, id |-> idOf(h), handle |-> h,
         node |-> c.request[h].node] : h \in granted}
        = {[sub |-> c.sub, id |-> ids[h], handle |-> h,
            node |-> c.request[h].node] : h \in granted}
  OBVIOUS
<1>13. /\ ids \in [request -> Nat]
       /\ \A h \in request : ids[h] = idOf(h)
  BY <1>6
<1>14. PICK frame : /\ Goto(p, frame)
                    /\ frame.pc = c.pc
                    /\ frame.op = c.op
                    /\ frame.request = c.request
                    /\ frame.thrown = c.thrown
                    /\ frame.sub = c.sub
                    /\ frame.answer = answer
                    /\ frame.results = [h \in granted |-> ids[h]]
  <2>1. Answer(p, answer, c.sub, [h \in granted |-> ids[h]])
    BY <1>4, <1>11
  <2> HIDE DEF ids
  <2> QED
    BY <2>1, AnswerGoes
<1>15. /\ granted # request => "item" \in Faults
       /\ items' = items \cup
            {[sub |-> c.sub, id |-> ids[h], handle |-> h,
              node |-> c.request[h].node] : h \in granted}
  BY <1>2, <1>12
<1>16. \A s \in DOMAIN serverSubs : serverSubs[s] <= serverSubs'[s]
  <2>1. serverSubs[c.sub] <= serverSubs'[c.sub]
    BY <1>3, <1>5, <1>6, <1>9
  <2> QED
    BY <1>10, <2>1 DEF TypeOK
<1> HIDE DEF ids
<1>17. /\ \A h \in request : /\ ids[h] > serverSubs[c.sub]
                             /\ ids[h] <= serverSubs'[c.sub]
       /\ \A g, h \in request : ids[g] = ids[h] => g = h
  BY <1>6, <1>7, <1>8, <1>9, <1>13
<1>18. frame.pc = "createMonitoredItems" /\ frame.answer \in Answers
  BY <1>1, <1>4, <1>14
<1>19. Creates(p, granted, ids, frame)
  BY <1>9, <1>10, <1>14, <1>15, <1>16, <1>17, <1>18 DEF Creates
<1> QED
  BY <1>13, <1>19

LEMMA CreatesIds ==
    ASSUME TypeOK, IdsInv, Waits, NEW p \in Procs,
           ServeCreateMonitoredItems(p)
    PROVE  IdsInv'
<1> DEFINE c == calls[p]
<1>1. PICK granted, idOf, frame :
             /\ granted \subseteq DOMAIN c.request
             /\ idOf \in [DOMAIN c.request -> Nat]
             /\ Creates(p, granted, idOf, frame)
  BY CreatesItems
<1>2. /\ calls'[p] = frame
      /\ \A q \in Procs \ {p} : calls'[q] = calls[q]
  BY <1>1, GotoFrames DEF Creates
<1>3. /\ Adding(c) /\ c.answer = "none" /\ monitoredItems' = monitoredItems
  BY DEF ServeCreateMonitoredItems, Adding, client
<1>4. \A i \in items : i.handle \notin DOMAIN c.request
  BY <1>3 DEF IdsInv, ItemsAsAnswered
<1>5. ASSUME NEW i \in items'
      PROVE  \/ i \in items
             \/ i.handle \in granted /\ i.id = idOf[i.handle]
  BY <1>1 DEF Creates
<1>6. ASSUME NEW q \in Procs, Adding(calls'[q]), NEW i \in items',
             i.handle \in DOMAIN calls'[q].request
      PROVE  /\ calls'[q].pc = "createMonitoredItems"
             /\ calls'[q].answer # "none"
             /\ i.handle \in DOMAIN calls'[q].results
             /\ i.id = calls'[q].results[i.handle]
  <2>1. CASE q = p
    <3>1. /\ frame.pc = "createMonitoredItems" /\ frame.answer \in Answers
          /\ frame.request = c.request
          /\ frame.results = [h \in granted |-> idOf[h]]
      BY <1>1 DEF Creates
    <3>2. i.handle \in granted /\ i.id = idOf[i.handle]
      BY <1>2, <1>4, <1>5, <1>6, <2>1, <3>1
    <3> QED
      BY <1>2, <2>1, <3>1, <3>2, AnswersOK
  <2>2. CASE q # p
    <3>1. DOMAIN calls[q].request \cap DOMAIN c.request = {}
      BY <1>2, <1>3, <1>6, <2>2 DEF Waits
    <3>2. i \in items
      BY <1>1, <1>2, <1>5, <1>6, <2>2, <3>1
    <3> QED
      BY <1>2, <1>6, <2>2, <3>2 DEF IdsInv, ItemsAsAnswered
  <2> QED
    BY <2>1, <2>2
<1>7. ItemsAsAnswered'
  BY <1>6 DEF ItemsAsAnswered
<1>8. SameIds'
  <2>1. \A h \in granted : h \in DOMAIN monitoredItems => monitoredItems[h].id = 0
    BY <1>1, <1>3 DEF Waits
  <2> QED
    BY <1>3, <1>5, <2>1 DEF IdsInv, SameIds
<1> QED
  BY <1>7, <1>8 DEF IdsInv

LEMMA StartRemoveIds ==
    ASSUME TypeOK, IdsInv, NEW t \in Threads, NEW op, NEW nodes,
           StartRemove(t, op, nodes)
    PROVE  IdsInv'
<1>1. CASE Crash
  BY <1>1, SameIdsInv DEF Crash, client, server
<1>2. CASE ~Crash
  <2>1. monitoredItems' = monitoredItems /\ items' = items
    BY <1>2 DEF StartRemove, client, server
  <2>2. PICK frame : Goto(t, frame) /\ ~Adding(frame)
    BY <1>2, NotAdding DEF StartRemove
  <2> QED
    BY <2>1, <2>2, DropIds DEF Procs
<1> QED
  BY <1>1, <1>2

LEMMA StatusChangedIds ==
    ASSUME TypeOK, IdsInv, StatusChanged PROVE IdsInv'
<1>1. CASE Crash
  BY <1>1, SameIdsInv DEF Crash, client, server
<1>2. CASE ~Crash
  <2>1. PICK frame : Goto(Sdk, frame) /\ ~Adding(frame)
    BY <1>2, NotAdding DEF StatusChanged
  <2>2. DOMAIN monitoredItems' = {} /\ items' = items
    BY <1>2, NoRequest DEF StatusChanged, server
  <2> QED
    BY <2>1, <2>2, DropIds DEF Procs
<1> QED
  BY <1>1, <1>2

LEMMA AddIds ==
    ASSUME TypeOK, IdsInv, NEW t \in Threads, Add(t)
    PROVE  IdsInv'
<1>1. PICK todo : Goto(t, Entry("next", todo, 0, NoItems))
  BY DEF Add
<1>2. UNCHANGED <<monitoredItems, items>>
  BY DEF Add, client, server
<1> QED
  BY <1>1, <1>2, BeginIds DEF Procs

LEMMA IdsStep ==
    ASSUME TypeOK, ClaimsInv, Waits, IdsInv, [Next]_vars
    PROVE  IdsInv'
<1>1. ASSUME NEW t \in Threads, Add(t) \/ Remove(t) \/ RemoveAll(t)
      PROVE  IdsInv'
  BY <1>1, AddIds, StartRemoveIds DEF Remove, RemoveAll
<1>2. ASSUME NEW p \in Procs, Serve(p) PROVE IdsInv'
  BY <1>2, OtherCallsIds, CreatesIds DEF Serve
<1>3. ASSUME NEW p \in Procs, Returns(p) PROVE IdsInv'
  BY <1>3, CreateSubscriptionReturnsIds, CreateMonitoredItemsReturnsIds,
     DeletionReturnsIds
  DEF Returns
<1>4. CASE LoseSubscription
  BY <1>4, SameIdsInv DEF LoseSubscription, client
<1>5. CASE UNCHANGED <<calls, monitoredItems, items>>
  BY <1>5, SameIdsInv
<1>6. ASSUME NEW p \in Procs, UseAfterDelete(p)
      PROVE  UNCHANGED <<calls, monitoredItems, items>>
  BY <1>6 DEF UseAfterDelete, Crash, client, server
<1>7. ASSUME Deliver \/ Publish \/ Ended \/ UNCHANGED vars
      PROVE  UNCHANGED <<calls, monitoredItems, items>>
  BY <1>7 DEF Deliver, Publish, Ended, vars, client, server
<1>8. ASSUME NEW p \in Procs, Enters(p) PROVE IdsInv'
  BY <1>8, EntersIds
<1> QED
  BY <1>1, <1>2, <1>3, <1>4, <1>5, <1>6, <1>7, <1>8, StatusChangedIds DEF Next

(* ClaimsInv and Waits hold as long as no threads have raced.              *)
LEMMA Unraced ==
    ASSUME AttributionInv, AddedHandlesWait, ~raced
    PROVE  TypeOK /\ ClaimsInv /\ Waits
BY DEF AttributionInv, ClaimsInv, AddedHandlesWait, Waits

LEMMA IdsInvariant == Spec => [](~raced => IdsInv)
<1>1. Init => IdsInv
  <2>1. Init => items = {}
    BY DEF Init
  <2> QED
    BY <2>1 DEF IdsInv, ItemsAsAnswered, SameIds
<1>2. /\ AttributionInv /\ AddedHandlesWait /\ (~raced => IdsInv)
      /\ [Next]_vars
      => (~raced => IdsInv)'
  <2> SUFFICES ASSUME AttributionInv, AddedHandlesWait, ~raced => IdsInv,
                      [Next]_vars, ~raced'
               PROVE  IdsInv'
    OBVIOUS
  <2>1. ~raced
    BY RacedStays
  <2> QED
    BY <2>1, Unraced, IdsStep
<1> QED
  BY <1>1, <1>2, AttributionInvariant, AddedHandlesWaitCorrect, PTL DEF Spec

(* However calls and answers of any number of threads interleave, and      *)
(* whatever the server refuses, loses or answers too late: the list has an *)
(* item of the server under the item's own id and node, or not at all,     *)
(* until threads race at the counter.                                      *)
THEOREM IdsAgreeCorrect == Spec => []IdsAgree
<1>1. AttributionInv /\ AddedHandlesWait /\ (~raced => IdsInv) => IdsAgree
  <2> SUFFICES ASSUME AttributionInv, AddedHandlesWait, ~raced, IdsInv,
                      NEW i \in items, i.handle \in DOMAIN monitoredItems
               PROVE  monitoredItems[i.handle].node = i.node
    BY DEF IdsInv, SameIds, IdsAgree
  <2>1. /\ Claims(i.handle, i.node)
        /\ Claims(i.handle, monitoredItems[i.handle].node)
    BY DEF Claims
  <2>2. TypeOK /\ ClaimsInv
    BY Unraced
  <2>3. i.handle \in Given
    BY <2>2 DEF ClaimsInv, HandlesGiven
  <2>4. i.node \in Nodes /\ monitoredItems[i.handle].node \in Nodes
    BY <2>2 DEF TypeOK, IsItems, Item
  <2> QED
    BY <2>1, <2>2, <2>3, <2>4 DEF ClaimsInv, OneNodePerHandle
<1> QED
  BY <1>1, IdsInvariant, AttributionInvariant, AddedHandlesWaitCorrect, PTL

-----------------------------------------------------------------------------
(* The server.                                                             *)

(* Subscriptions and items are numbered upwards.                           *)
ServerInv ==
    /\ nextSub > 0
    /\ \A s \in DOMAIN serverSubs : 0 < s /\ s < nextSub
    /\ \A i \in items : i.sub \in DOMAIN serverSubs /\ i.id <= serverSubs[i.sub]

LEMMA ServerStep ==
    ASSUME TypeOK, ServerInv, [Next]_vars PROVE ServerInv'
<1>1. CASE UNCHANGED server
  BY <1>1 DEF ServerInv, server
<1>2. ASSUME NEW p \in Procs, ServeCreateSubscription(p) PROVE ServerInv'
  BY <1>2 DEF ServeCreateSubscription, ServerInv, TypeOK
<1>3. ASSUME NEW p \in Procs, ServeCreateMonitoredItems(p) PROVE ServerInv'
  <2>1. PICK granted, idOf, frame :
             /\ granted \subseteq DOMAIN calls[p].request
             /\ idOf \in [DOMAIN calls[p].request -> Nat]
             /\ Creates(p, granted, idOf, frame)
    BY <1>3, CreatesItems
  <2>2. /\ nextSub' = nextSub /\ DOMAIN serverSubs' = DOMAIN serverSubs
        /\ calls[p].sub \in DOMAIN serverSubs
    BY <1>3, <2>1 DEF ServeCreateMonitoredItems, Creates
  <2>3. \A i \in items' :
           \/ i \in items
           \/ \E h \in granted : i.sub = calls[p].sub /\ i.id = idOf[h]
    BY <2>1 DEF Creates
  <2>4. \A i \in items' :
           i.sub \in DOMAIN serverSubs' /\ i.id <= serverSubs'[i.sub]
    <3> SUFFICES ASSUME NEW i \in items'
                 PROVE  i.sub \in DOMAIN serverSubs' /\ i.id <= serverSubs'[i.sub]
      OBVIOUS
    <3>1. CASE i \in items
      <4>1. /\ i.sub \in DOMAIN serverSubs /\ i.id <= serverSubs[i.sub]
            /\ serverSubs[i.sub] <= serverSubs'[i.sub]
        BY <2>1, <3>1 DEF ServerInv, Creates
      <4>2. i.id \in Nat /\ serverSubs[i.sub] \in Nat /\ serverSubs'[i.sub] \in Nat
        BY <1>3, <2>2, <3>1, <4>1, ServeCreateMonitoredItemsType DEF TypeOK
      <4> QED
        BY <2>2, <4>1, <4>2
    <3>2. CASE \E h \in granted : i.sub = calls[p].sub /\ i.id = idOf[h]
      BY <2>1, <2>2, <3>2 DEF Creates
    <3> QED
      BY <2>3, <3>1, <3>2
  <2> QED
    BY <2>2, <2>4 DEF ServerInv
<1>4. ASSUME NEW p \in Procs,
             Refuse(p) \/ ServeDeleteMonitoredItems(p)
             \/ ServeDeleteSubscription(p) \/ LoseSubscription
      PROVE  ServerInv'
  BY <1>4 DEF Refuse, ServeDeleteMonitoredItems, ServeDeleteSubscription,
              LoseSubscription, ServerInv, server, Restrict
<1>5. ASSUME NEW p \in Procs, Returns(p) \/ UseAfterDelete(p) PROVE UNCHANGED server
  BY <1>5 DEF Returns, CreateSubscriptionReturns, CreateMonitoredItemsReturns,
              DeleteMonitoredItemsReturns, DeleteSubscriptionReturns,
              UseAfterDelete, Crash
<1>6. ASSUME NEW t \in Threads, Add(t) \/ Remove(t) \/ RemoveAll(t)
      PROVE  UNCHANGED server
  BY <1>6 DEF Add, Remove, RemoveAll, StartRemove, Crash
<1>7. Deliver \/ Publish \/ Ended \/ UNCHANGED vars \/ StatusChanged
          => UNCHANGED server
  BY DEF Deliver, Publish, Ended, vars, StatusChanged, Crash
<1>8. Sdk \in Procs
  BY DEF Procs
<1>9. ASSUME NEW p \in Procs, Enters(p) PROVE UNCHANGED server
  BY <1>9 DEF Enters, ReadCounter, WriteCounter, EnterItem, AllEntered
<1> QED
  BY <1>1, <1>2, <1>3, <1>4, <1>5, <1>6, <1>7, <1>8, <1>9 DEF Next, Serve

LEMMA ServerInvariant == Spec => []ServerInv
<1>1. Init => ServerInv
  BY NoResultsOK DEF Init, ServerInv
<1> QED
  BY <1>1, ServerStep, TypeCorrect, PTL DEF Spec

-----------------------------------------------------------------------------
(* The object in the hands of one thread, with a server that keeps its     *)
(* subscriptions.                                                          *)

Caller == CHOOSE t \in Threads : TRUE
SingleThreaded == Threads = {Caller} /\ "subscriptionLost" \notin Faults

(* The SDK's thread only delivers notifications.                           *)
SdkAtRest ==
    expired = {} /\ calls[Sdk].pc = "idle" /\ DOMAIN calls[Sdk].request = {}

SubscriptionHeld ==
    /\ subscription # Null => subscription \in sdkObjects
    /\ subscription = Null =>
          \A h \in DOMAIN monitoredItems : monitoredItems[h].id = 0

(* What a call is about is in the list, and stays there.                   *)
CallPlaced(c) ==
    /\ c.pc = "idle" => DOMAIN c.request = {}
    /\ c.pc = "createSubscription" => /\ subscription = Null
                                      /\ c.answer = "good" => c.sub # Null
    /\ c.pc \in Services \ {"createSubscription"} =>
          subscription = c.sub /\ c.sub # Null
    /\ Adding(c) \/ c.pc = "deleteMonitoredItems" =>
          /\ DOMAIN c.request \subseteq DOMAIN monitoredItems
          /\ DOMAIN c.request # {} \/ c.pc \in Between
                \/ (c.pc = "next" /\ DOMAIN c.todo # {})
    /\ c.pc = "deleteMonitoredItems" =>
          \A h \in DOMAIN c.request : c.request[h] = monitoredItems[h]
    /\ c.pc = "deleteSubscription" =>
          DOMAIN monitoredItems = {} /\ DOMAIN c.request = {}

(* One thread does not race at the counter.                                *)
CallerInv ==
    /\ ~raced
    /\ SdkAtRest
    /\ SubscriptionHeld
    /\ CallPlaced(calls[Caller])

LEMMA CallerIsProc == SingleThreaded => Caller \in Procs /\ Caller # Sdk
BY HaSubscriptionAssumption DEF SingleThreaded, Procs

LEMMA CallerGoes ==
    ASSUME TypeOK, SingleThreaded, SdkAtRest, NEW frame, Goto(Caller, frame),
           expired' \subseteq expired
    PROVE  SdkAtRest' /\ calls'[Caller] = frame
BY CallerIsProc, GotoFrames DEF SdkAtRest, Procs

(* What the frames of Idle and Call say.                                   *)
LEMMA FrameFields ==
    /\ \A op, thrown :
          /\ Idle(op, thrown).pc = "idle"
          /\ Idle(op, thrown).answer = "none"
          /\ DOMAIN Idle(op, thrown).request = {}
          /\ DOMAIN Idle(op, thrown).results = {}
          /\ Idle(op, thrown).thrown = thrown
    /\ \A service, op, request, sub, thrown :
          /\ Call(service, op, request, sub, thrown).pc = service
          /\ Call(service, op, request, sub, thrown).answer = "none"
          /\ Call(service, op, request, sub, thrown).request = request
          /\ Call(service, op, request, sub, thrown).sub = sub
          /\ DOMAIN Call(service, op, request, sub, thrown).results = {}
BY DEF Idle, Call, NoItems, NoResults

(* And those of Entry.                                                     *)
LEMMA EntryFields ==
    \A step, todo, handle, request :
        /\ Entry(step, todo, handle, request).pc = step
        /\ Entry(step, todo, handle, request).todo = todo
        /\ Entry(step, todo, handle, request).handle = handle
        /\ Entry(step, todo, handle, request).request = request
        /\ Entry(step, todo, handle, request).answer = "none"
        /\ DOMAIN Entry(step, todo, handle, request).results = {}
BY DEF Entry, NoResults

(* A frame without a call is placed.                                       *)
LEMMA IdlePlaced ==
    ASSUME NEW c, c.pc = "idle", DOMAIN c.request = {} PROVE CallPlaced(c)
BY DEF CallPlaced, Services, ItemServices, Adding, EntrySteps, Between

(* The steps that are left.                                                *)
Rests == UNCHANGED <<client, calls, sdkObjects, server, expired, raced>>

LEMMA SingleThreadedStep ==
    ASSUME TypeOK, SingleThreaded, SdkAtRest, [Next]_vars
    PROVE  \/ Add(Caller)
           \/ \E op, nodes : StartRemove(Caller, op, nodes)
           \/ Serve(Caller)
           \/ Returns(Caller)
           \/ Enters(Caller)
           \/ Rests
<1>1. ASSUME NEW t \in Threads PROVE t = Caller
  BY DEF SingleThreaded
<1>2. ASSUME NEW p \in Procs, Serve(p) \/ Returns(p) \/ Enters(p)
      PROVE  p = Caller
  <2>1. CASE p = Sdk /\ Enters(p)
    BY <2>1 DEF Enters, ReadCounter, WriteCounter, EnterItem, AllEntered,
                SdkAtRest
  <2>2. CASE p = Sdk /\ ~Enters(p)
    BY <1>2, <2>2
    DEF Serve, Returns, Refuse, ServeCreateSubscription,
        ServeCreateMonitoredItems, ServeDeleteMonitoredItems,
        ServeDeleteSubscription, CreateSubscriptionReturns,
        CreateMonitoredItemsReturns, DeleteMonitoredItemsReturns,
        DeleteSubscriptionReturns, SdkAtRest, Services, ItemServices
  <2> QED
    BY <1>1, <2>1, <2>2 DEF Procs
<1>3. \A p \in Procs : UseAfterDelete(p) => Rests
  BY DEF UseAfterDelete, Crash, Rests
<1>4. StatusChanged => Rests
  BY DEF StatusChanged, SdkAtRest
<1>5. ~LoseSubscription
  BY DEF LoseSubscription, SingleThreaded
<1>6. Deliver \/ Publish \/ Ended \/ UNCHANGED vars => Rests
  BY DEF Deliver, Publish, Ended, vars, Rests
<1> QED
  BY <1>1, <1>2, <1>3, <1>4, <1>5, <1>6 DEF Next, Remove, RemoveAll

LEMMA RestsCaller ==
    ASSUME CallerInv, Rests PROVE CallerInv'
BY
DEF CallerInv, SdkAtRest, SubscriptionHeld, CallPlaced, Rests, client, server

LEMMA CrashRests == Crash => Rests
BY DEF Crash, Rests

(* The entry of an item: nothing is said of its handle yet.                *)
LEMMA EnterItemEnters ==
    ASSUME TypeOK, ClaimsInv, NEW p \in Procs, EnterItem(p)
    PROVE  \E h, frame :
             /\ \A n \in Nodes : ~Claims(h, n)
             /\ DOMAIN monitoredItems' = DOMAIN monitoredItems \cup {h}
             /\ monitoredItems'[h].id = 0
             /\ \A g \in DOMAIN monitoredItems :
                   g # h /\ monitoredItems'[g] = monitoredItems[g]
             /\ Goto(p, frame)
             /\ frame.pc = "next" /\ frame.answer = "none"
             /\ DOMAIN frame.request = DOMAIN calls[p].request \cup {h}
             /\ DOMAIN frame.results = {}
<1> DEFINE c == calls[p]
<1>1. PICK place \in DOMAIN c.todo : Enter(p, place)
  BY DEF EnterItem
<1>2. PICK h : h = c.handle
  OBVIOUS
<1>3. \A n \in Nodes : ~Claims(h, n)
  BY <1>2, AloneCounted DEF EnterItem, ClaimsInv, Counted
<1> DEFINE node == c.todo[place]
           request == WithItem(c.request, c.handle, node)
           rest == Restrict(c.todo, DOMAIN c.todo \ {place})
           frame == Entry("next", rest, 0, request)
<1>4. /\ monitoredItems' = WithItem(monitoredItems, c.handle, node)
      /\ Goto(p, frame)
  BY <1>1 DEF Enter
<1> HIDE DEF node
<1>5. /\ DOMAIN monitoredItems' = DOMAIN monitoredItems \cup {h}
      /\ monitoredItems'[h].id = 0
      /\ \A g \in DOMAIN monitoredItems \ {h} :
            monitoredItems'[g] = monitoredItems[g]
      /\ DOMAIN request = DOMAIN c.request \cup {h}
  BY <1>2, <1>4 DEF WithItem, Waiting
<1>6. \A g \in DOMAIN monitoredItems : g # h
  <2> SUFFICES ASSUME h \in DOMAIN monitoredItems PROVE FALSE
    OBVIOUS
  <2>1. monitoredItems[h].node \in Nodes /\ Claims(h, monitoredItems[h].node)
    BY OwnClaims DEF TypeOK, IsItems, Item
  <2> QED
    BY <1>3, <2>1
<1>7. /\ frame.pc = "next" /\ frame.answer = "none"
      /\ frame.request = request
      /\ DOMAIN frame.results = {}
  BY EntryFields
<1> HIDE DEF frame
<1> QED
  BY <1>3, <1>4, <1>5, <1>6, <1>7

(* After the last node.                                                    *)
LEMMA AllEnteredGoes ==
    ASSUME NEW p, AllEntered(p)
    PROVE  \E frame :
             /\ Goto(p, frame)
             /\ \/ frame.pc = "createSubscription" /\ subscription = Null
                \/ frame.pc = "createMonitoredItems" /\ subscription # Null
             /\ frame.answer = "none" /\ frame.sub = subscription
             /\ frame.request = calls[p].request
             /\ DOMAIN frame.results = {}
<1> DEFINE service == IF subscription = Null THEN "createSubscription"
                                             ELSE "createMonitoredItems"
           frame == Call(service, "add", calls[p].request, subscription, FALSE)
<1>1. Goto(p, frame)
  BY DEF AllEntered
<1>2. /\ frame.pc = service /\ frame.answer = "none"
      /\ frame.sub = subscription /\ frame.request = calls[p].request
      /\ DOMAIN frame.results = {}
  BY DEF Call, NoResults
<1>3. \/ service = "createSubscription" /\ subscription = Null
      \/ service = "createMonitoredItems" /\ subscription # Null
  OBVIOUS
<1> HIDE DEF frame, service
<1> QED
  BY <1>1, <1>2, <1>3

(* The two steps of the count.                                             *)
LEMMA CountGoes ==
    ASSUME NEW p, ReadCounter(p) \/ WriteCounter(p)
    PROVE  \E step, todo, handle :
              /\ step \in Between
              /\ Goto(p, Entry(step, todo, handle, calls[p].request))
<1>1. "counting" \in Between /\ "counted" \in Between
  BY DEF Between
<1>2. CASE ReadCounter(p)
  <2>1. Goto(p, Entry("counting", calls[p].todo, NextHandle, calls[p].request))
    BY <1>2 DEF ReadCounter
  <2> QED
    BY <1>1, <2>1, Zenon
<1>3. CASE WriteCounter(p)
  <2>1. Goto(p, Entry("counted", calls[p].todo, calls[p].handle,
                      calls[p].request))
    BY <1>3 DEF WriteCounter
  <2> QED
    BY <1>1, <2>1, Zenon
<1> QED
  BY <1>2, <1>3

LEMMA AddCaller ==
    ASSUME TypeOK, SingleThreaded, CallerInv, Add(Caller)
    PROVE  CallerInv'
<1>1. PICK n \in 1 .. MaxRequest : \E todo \in [1 .. n -> Nodes] :
        Goto(Caller, Entry("next", todo, 0, NoItems))
  BY DEF Add
<1>2. PICK todo \in [1 .. n -> Nodes] :
        Goto(Caller, Entry("next", todo, 0, NoItems))
  BY <1>1
<1>3. 1 \in 1 .. n /\ DOMAIN todo = 1 .. n
  BY HaSubscriptionAssumption
<1> DEFINE frame == Entry("next", todo, 0, NoItems)
<1>4. /\ frame.pc = "next" /\ frame.todo = todo /\ frame.request = NoItems
      /\ Goto(Caller, frame)
  BY <1>2, EntryFields
<1> HIDE DEF frame
<1>5. UNCHANGED <<monitoredItems, subscription, sdkObjects, expired, raced>>
  BY DEF Add, client
<1>6. SdkAtRest' /\ calls'[Caller] = frame
  BY <1>4, <1>5, CallerGoes DEF CallerInv
<1>7. SubscriptionHeld'
  BY <1>5 DEF CallerInv, SubscriptionHeld
<1>8. CallPlaced(calls[Caller])'
  BY <1>3, <1>4, <1>5, <1>6, NoRequest
  DEF CallPlaced, Services, ItemServices, Adding, EntrySteps, Between
<1> QED
  BY <1>5, <1>6, <1>7, <1>8 DEF CallerInv

LEMMA EntersCaller ==
    ASSUME TypeOK, ClaimsInv, SingleThreaded, CallerInv, Enters(Caller)
    PROVE  CallerInv'
<1> DEFINE c == calls[Caller]
<1>1. UNCHANGED <<subscription, sdkObjects, expired>>
  BY DEF Enters, ReadCounter, WriteCounter, EnterItem, AllEntered, client
<1>2. Caller \in Procs
  BY CallerIsProc
<1>3. ~raced'
  <2>1. \A q \in Procs \ {Caller} : calls[q].pc # "counting"
    BY DEF CallerInv, SdkAtRest, SingleThreaded, Procs
  <2>2. ReadCounter(Caller) => raced' = raced
    BY <2>1 DEF ReadCounter, TypeOK
  <2> QED
    BY <2>2 DEF Enters, WriteCounter, EnterItem, AllEntered, CallerInv
<1>4. Adding(c) /\ DOMAIN c.request \subseteq DOMAIN monitoredItems
  BY DEF Enters, ReadCounter, WriteCounter, EnterItem, AllEntered, Adding,
         EntrySteps, CallerInv, CallPlaced
<1>5. CASE ReadCounter(Caller) \/ WriteCounter(Caller)
  <2>1. PICK step, todo, handle :
          /\ step \in Between
          /\ Goto(Caller, Entry(step, todo, handle, c.request))
    BY <1>5, CountGoes
  <2> DEFINE frame == Entry(step, todo, handle, c.request)
  <2>2. frame.pc = step /\ frame.request = c.request /\ Goto(Caller, frame)
    BY <2>1, EntryFields
  <2> HIDE DEF frame
  <2>3. SdkAtRest' /\ calls'[Caller] = frame
    BY <1>1, <2>2, CallerGoes DEF CallerInv
  <2>4. monitoredItems' = monitoredItems
    BY <1>5 DEF ReadCounter, WriteCounter, client
  <2>5. CallPlaced(calls[Caller])'
    BY <1>1, <1>4, <2>1, <2>2, <2>3, <2>4
    DEF CallPlaced, Services, ItemServices, Adding, EntrySteps, Between
  <2> QED
    BY <1>1, <1>3, <2>3, <2>4, <2>5 DEF CallerInv, SubscriptionHeld
<1>6. CASE EnterItem(Caller)
  <2>1. PICK h, frame :
             /\ DOMAIN monitoredItems' = DOMAIN monitoredItems \cup {h}
             /\ monitoredItems'[h].id = 0
             /\ \A g \in DOMAIN monitoredItems :
                   g # h /\ monitoredItems'[g] = monitoredItems[g]
             /\ Goto(Caller, frame)
             /\ frame.pc = "next"
             /\ DOMAIN frame.request = DOMAIN c.request \cup {h}
    BY <1>2, <1>6, EnterItemEnters
  <2>2. SdkAtRest' /\ calls'[Caller] = frame
    BY <1>1, <2>1, CallerGoes DEF CallerInv
  <2>3. SubscriptionHeld'
    BY <1>1, <2>1 DEF CallerInv, SubscriptionHeld
  <2>4. CallPlaced(calls[Caller])'
    BY <1>1, <1>4, <2>1, <2>2
    DEF CallPlaced, Services, ItemServices, Adding, EntrySteps, Between
  <2> QED
    BY <1>3, <2>2, <2>3, <2>4 DEF CallerInv
<1>7. CASE AllEntered(Caller)
  <2>1. PICK frame :
          /\ Goto(Caller, frame)
          /\ \/ frame.pc = "createSubscription" /\ subscription = Null
             \/ frame.pc = "createMonitoredItems" /\ subscription # Null
          /\ frame.answer = "none" /\ frame.sub = subscription
          /\ frame.request = c.request
    BY <1>7, AllEnteredGoes
  <2>2. SdkAtRest' /\ calls'[Caller] = frame
    BY <1>1, <2>1, CallerGoes DEF CallerInv
  <2>3. monitoredItems' = monitoredItems
    BY <1>7 DEF AllEntered, client
  <2>4. DOMAIN c.request # {}
    BY <1>4, <1>7 DEF AllEntered, CallerInv, CallPlaced, Between
  <2>5. CallPlaced(calls[Caller])'
    BY <1>1, <1>4, <2>1, <2>2, <2>3, <2>4
    DEF CallPlaced, Services, ItemServices, Adding, EntrySteps, Between
  <2> QED
    BY <1>1, <1>3, <2>2, <2>3, <2>5 DEF CallerInv, SubscriptionHeld
<1> QED
  BY <1>5, <1>6, <1>7 DEF Enters

(* What the loop of add does to the list: it enters nothing, or an item    *)
(* under a handle the server does not know.                                *)
LEMMA LoopEnters ==
    ASSUME TypeOK, ClaimsInv, SingleThreaded, Add(Caller) \/ Enters(Caller)
    PROVE  \E new, frame :
             /\ calls'[Caller] = frame
             /\ Adding(frame)
             /\ frame.answer = "none"
             /\ DOMAIN frame.results = {}
             /\ DOMAIN frame.request \subseteq DOMAIN calls[Caller].request \cup new
             /\ \A h \in new : /\ monitoredItems'[h].id = 0
                               /\ \A i \in items : i.handle # h
             /\ DOMAIN monitoredItems' = DOMAIN monitoredItems \cup new
             /\ \A h \in DOMAIN monitoredItems :
                   h \notin new /\ monitoredItems'[h] = monitoredItems[h]
<1> DEFINE c == calls[Caller]
<1>1. Caller \in Procs
  BY CallerIsProc
<1>2. CASE EnterItem(Caller)
  <2>1. PICK h, frame :
             /\ \A n \in Nodes : ~Claims(h, n)
             /\ DOMAIN monitoredItems' = DOMAIN monitoredItems \cup {h}
             /\ monitoredItems'[h].id = 0
             /\ \A g \in DOMAIN monitoredItems :
                   g # h /\ monitoredItems'[g] = monitoredItems[g]
             /\ Goto(Caller, frame)
             /\ frame.pc = "next" /\ frame.answer = "none"
             /\ DOMAIN frame.request = DOMAIN c.request \cup {h}
             /\ DOMAIN frame.results = {}
    BY <1>1, <1>2, EnterItemEnters
  <2>2. calls'[Caller] = frame
    BY <1>1, <2>1, GotoFrames
  <2>3. \A i \in items : i.handle # h
    BY <2>1 DEF Claims, TypeOK
  <2>4. Adding(frame)
    BY <2>1 DEF Adding, EntrySteps
  <2>5. PICK new : new = {h}
    OBVIOUS
  <2>6. \A g \in new : g = h
    BY <2>5
  <2>7. /\ DOMAIN frame.request \subseteq DOMAIN calls[Caller].request \cup new
        /\ DOMAIN monitoredItems' = DOMAIN monitoredItems \cup new
    BY <2>1, <2>5
  <2>8. \A g \in new : /\ monitoredItems'[g].id = 0
                       /\ \A i \in items : i.handle # g
    BY <2>1, <2>3, <2>6
  <2>9. \A g \in DOMAIN monitoredItems :
           g \notin new /\ monitoredItems'[g] = monitoredItems[g]
    BY <2>1, <2>6
  <2> QED
    BY <2>1, <2>2, <2>4, <2>7, <2>8, <2>9, Zenon
<1>3. CASE ~EnterItem(Caller)
  <2>1. monitoredItems' = monitoredItems
    BY <1>3 DEF Add, Enters, ReadCounter, WriteCounter, AllEntered, client
  <2>2. \E frame : /\ Goto(Caller, frame)
                   /\ frame.answer = "none"
                   /\ DOMAIN frame.results = {}
                   /\ frame.pc \in EntrySteps \cup {"createSubscription",
                                                   "createMonitoredItems"}
                   /\ DOMAIN frame.request \subseteq DOMAIN c.request
    <3>1. CASE AllEntered(Caller)
      <4>1. PICK frame : /\ Goto(Caller, frame)
                         /\ frame.pc \in {"createSubscription",
                                          "createMonitoredItems"}
                         /\ frame.answer = "none"
                         /\ DOMAIN frame.results = {}
                         /\ frame.request = c.request
        BY <3>1, AllEnteredGoes
      <4> QED
        BY <4>1
    <3>2. CASE Add(Caller) \/ ReadCounter(Caller) \/ WriteCounter(Caller)
      <4>1. PICK step, todo, handle, request :
              /\ step \in {"next", "counting", "counted"}
              /\ request \in {NoItems, c.request}
              /\ Goto(Caller, Entry(step, todo, handle, request))
        <5>1. "next" \in {"next", "counting", "counted"}
          OBVIOUS
        <5>2. CASE Add(Caller)
          <6>1. PICK todo : Goto(Caller, Entry("next", todo, 0, NoItems))
            BY <5>2, Zenon DEF Add
          <6>2. NoItems \in {NoItems, c.request}
            OBVIOUS
          <6> QED
            BY <5>1, <6>1, <6>2
        <5>3. CASE ReadCounter(Caller) \/ WriteCounter(Caller)
          BY <5>3, CountGoes DEF Between
        <5> QED
          BY <3>2, <5>2, <5>3
      <4> DEFINE frame == Entry(step, todo, handle, request)
      <4>2. /\ Goto(Caller, frame)
            /\ frame.answer = "none"
            /\ DOMAIN frame.results = {}
            /\ frame.pc = step
            /\ frame.request = request
        BY <4>1, EntryFields
      <4> HIDE DEF frame
      <4> QED
        BY <4>1, <4>2, NoRequest DEF EntrySteps
    <3> QED
      BY <1>3, <3>1, <3>2 DEF Enters
  <2>3. PICK frame : /\ Goto(Caller, frame)
                     /\ frame.answer = "none"
                     /\ DOMAIN frame.results = {}
                     /\ frame.pc \in EntrySteps \cup {"createSubscription",
                                                     "createMonitoredItems"}
                     /\ DOMAIN frame.request \subseteq DOMAIN c.request
    BY <2>2
  <2>4. calls'[Caller] = frame /\ Adding(frame)
    BY <1>1, <2>3, GotoFrames DEF Adding
  <2>5. \E new : new = {}
    OBVIOUS
  <2> QED
    BY <2>1, <2>3, <2>4, <2>5
<1> QED
  BY <1>2, <1>3

LEMMA LoopLeaves ==
    ASSUME Add(Caller) \/ Enters(Caller)
    PROVE  /\ UNCHANGED <<server, subscription>>
           /\ calls[Caller].pc \in EntrySteps \cup {"idle"}
BY DEF Add, Enters, ReadCounter, WriteCounter, EnterItem, AllEntered, client,
       EntrySteps

LEMMA StartRemoveCaller ==
    ASSUME TypeOK, SingleThreaded, CallerInv, NEW op, NEW nodes,
           StartRemove(Caller, op, nodes)
    PROVE  CallerInv'
<1> DEFINE handles == FirstHandles(nodes)
<1>1. CASE Crash
  BY <1>1, CrashRests, RestsCaller
<1>2. CASE /\ Goto(Caller, Idle(op, FALSE))
           /\ UNCHANGED <<client, sdkObjects, expired, raced>>
  <2>1. SdkAtRest' /\ calls'[Caller] = Idle(op, FALSE)
    BY <1>2, CallerGoes DEF CallerInv
  <2>2. Idle(op, FALSE).pc = "idle" /\ DOMAIN Idle(op, FALSE).request = {}
    BY DEF Idle, NoItems
  <2>3. CallPlaced(calls[Caller])'
    BY <2>1, <2>2
    DEF CallPlaced, Services, ItemServices, Adding, EntrySteps, Between
  <2> QED
    BY <1>2, <2>1, <2>3 DEF CallerInv, SubscriptionHeld, client
<1>3. CASE /\ handles # {} /\ subscription # Null
           /\ Goto(Caller, Call("deleteMonitoredItems", op,
                                Restrict(monitoredItems, handles),
                                subscription, FALSE))
           /\ UNCHANGED <<client, sdkObjects, expired, raced>>
  <2> DEFINE frame == Call("deleteMonitoredItems", op,
                           Restrict(monitoredItems, handles), subscription,
                           FALSE)
  <2>1. SdkAtRest' /\ calls'[Caller] = frame
    BY <1>3, CallerGoes DEF CallerInv
  <2>2. /\ frame.pc = "deleteMonitoredItems"
        /\ frame.request = Restrict(monitoredItems, handles)
        /\ frame.sub = subscription
    BY DEF Call
  <2>3. handles \subseteq DOMAIN monitoredItems
    BY DEF FirstHandles
  <2> HIDE DEF frame, handles
  <2>4. CallPlaced(calls[Caller])'
    BY <1>3, <2>1, <2>2, <2>3
    DEF CallPlaced, Services, ItemServices, Adding, EntrySteps, Between,
        Restrict, client
  <2> QED
    BY <1>3, <2>1, <2>4 DEF CallerInv, SubscriptionHeld, client
<1> QED
  BY <1>1, <1>2, <1>3 DEF StartRemove

LEMMA ServeCaller ==
    ASSUME TypeOK, SingleThreaded, CallerInv, ServerInv, Serve(Caller)
    PROVE  CallerInv'
<1> DEFINE c == calls[Caller]
<1>1. /\ UNCHANGED <<client, sdkObjects, expired, raced>>
      /\ c.pc \in Services
  BY DEF Serve, Refuse, ServeCreateSubscription, ServeCreateMonitoredItems,
         ServeDeleteMonitoredItems, ServeDeleteSubscription, Services,
         ItemServices
<1>2. \/ \E results : Answer(Caller, "bad", c.sub, results)
      \/ /\ c.pc = "createSubscription"
         /\ \E answer, results : Answer(Caller, answer, nextSub, results)
      \/ /\ c.pc # "createSubscription"
         /\ \E answer, results : Answer(Caller, answer, c.sub, results)
  <2>1. CASE Refuse(Caller)
    BY <2>1, Zenon DEF Refuse
  <2>2. CASE ServeCreateSubscription(Caller)
    BY <2>2, Zenon DEF ServeCreateSubscription
  <2>3. CASE \/ ServeCreateMonitoredItems(Caller)
             \/ ServeDeleteMonitoredItems(Caller)
             \/ ServeDeleteSubscription(Caller)
    <3>1. \E answer, results : Answer(Caller, answer, c.sub, results)
      BY <2>3, Zenon DEF ServeCreateMonitoredItems, ServeDeleteMonitoredItems,
                         ServeDeleteSubscription
    <3>2. c.pc # "createSubscription"
      BY <2>3 DEF ServeCreateMonitoredItems, ServeDeleteMonitoredItems,
                  ServeDeleteSubscription
    <3> QED
      BY <3>1, <3>2, Zenon
  <2> QED
    BY <2>1, <2>2, <2>3 DEF Serve
<1>3. PICK frame :
        /\ Goto(Caller, frame)
        /\ frame.pc = c.pc /\ frame.request = c.request
        /\ \/ frame.answer = "bad" /\ frame.sub = c.sub
           \/ frame.sub = nextSub /\ c.pc = "createSubscription"
           \/ frame.sub = c.sub /\ c.pc # "createSubscription"
  <2>1. CASE \E results : Answer(Caller, "bad", c.sub, results)
    BY <2>1, AnswerGoes
  <2>2. CASE /\ c.pc = "createSubscription"
             /\ \E answer, results : Answer(Caller, answer, nextSub, results)
    BY <2>2, AnswerGoes
  <2>3. CASE /\ c.pc # "createSubscription"
             /\ \E answer, results : Answer(Caller, answer, c.sub, results)
    BY <2>3, AnswerGoes
  <2> QED
    BY <1>2, <2>1, <2>2, <2>3
<1>4. SdkAtRest' /\ calls'[Caller] = frame
  BY <1>1, <1>3, CallerGoes DEF CallerInv
<1>5. nextSub # Null
  BY DEF ServerInv, Null
<1>6. CallPlaced(calls[Caller])'
  BY <1>1, <1>3, <1>4, <1>5
  DEF CallerInv, CallPlaced, Services, ItemServices, Adding, EntrySteps,
      Between, client
<1> QED
  BY <1>1, <1>4, <1>6 DEF CallerInv, SubscriptionHeld, client

(* The caller goes on without a call: idle, or to deleteSubscription if    *)
(* the list ran empty and there is one.                                    *)
LEMMA EndCaller ==
    ASSUME TypeOK, SingleThreaded, CallerInv, NEW op, NEW thrown,
           \/ Goto(Caller, Idle(op, thrown))
           \/ /\ DeleteSubscriptionOrEnd(Caller, op, thrown)
              /\ DOMAIN monitoredItems' = {},
           SubscriptionHeld', UNCHANGED <<expired, subscription, raced>>
    PROVE  CallerInv'
<1>1. CASE Goto(Caller, Idle(op, thrown))
  <2>1. SdkAtRest' /\ calls'[Caller] = Idle(op, thrown)
    BY <1>1, CallerGoes DEF CallerInv
  <2>2. Idle(op, thrown).pc = "idle" /\ DOMAIN Idle(op, thrown).request = {}
    BY DEF Idle, NoItems
  <2>3. CallPlaced(calls[Caller])'
    BY <2>1, <2>2
    DEF CallPlaced, Services, ItemServices, Adding, EntrySteps, Between
  <2> QED
    BY <2>1, <2>3 DEF CallerInv
<1>2. CASE /\ subscription # Null
           /\ Goto(Caller, Call("deleteSubscription", op, NoItems,
                                subscription, thrown))
           /\ DOMAIN monitoredItems' = {}
  <2> DEFINE frame == Call("deleteSubscription", op, NoItems, subscription,
                           thrown)
  <2>1. SdkAtRest' /\ calls'[Caller] = frame
    BY <1>2, CallerGoes DEF CallerInv
  <2>2. /\ frame.pc = "deleteSubscription"
        /\ DOMAIN frame.request = {}
        /\ frame.sub = subscription
    BY DEF Call, NoItems
  <2> HIDE DEF frame
  <2>3. CallPlaced(calls[Caller])'
    BY <1>2, <2>1, <2>2
    DEF CallPlaced, Services, ItemServices, Adding, EntrySteps, Between
  <2> QED
    BY <2>1, <2>3 DEF CallerInv
<1> QED
  BY <1>1, <1>2 DEF DeleteSubscriptionOrEnd

LEMMA CreateSubscriptionReturnsCaller ==
    ASSUME TypeOK, SingleThreaded, CallerInv, CreateSubscriptionReturns(Caller)
    PROVE  CallerInv'
<1> DEFINE c == calls[Caller]
<1>1. /\ UNCHANGED <<monitoredItems, expired, raced>>
      /\ c.pc = "createSubscription" /\ subscription = Null
  BY DEF CreateSubscriptionReturns, CallerInv, CallPlaced
<1>2. CASE c.answer = "bad"
  <2>1. /\ subscription' = Null /\ sdkObjects' = sdkObjects
        /\ Goto(Caller, Idle("add", TRUE))
    BY <1>2 DEF CreateSubscriptionReturns
  <2>2. SubscriptionHeld'
    BY <1>1, <2>1 DEF CallerInv, SubscriptionHeld
  <2> QED
    BY <1>1, <2>1, <2>2, EndCaller
<1>3. CASE c.answer = "good"
  <2> DEFINE frame == Call("createMonitoredItems", "add", c.request, c.sub,
                           FALSE)
  <2>1. /\ subscription' = c.sub /\ sdkObjects' = sdkObjects \cup {c.sub}
        /\ Goto(Caller, frame) /\ ~raced'
    BY <1>3 DEF CreateSubscriptionReturns, CallerInv
  <2>2. SdkAtRest' /\ calls'[Caller] = frame
    BY <1>1, <2>1, CallerGoes DEF CallerInv
  <2>3. /\ frame.pc = "createMonitoredItems"
        /\ frame.request = c.request
        /\ frame.sub = c.sub
    BY DEF Call
  <2> HIDE DEF frame
  <2>4. /\ c.sub # Null /\ DOMAIN c.request # {}
        /\ DOMAIN c.request \subseteq DOMAIN monitoredItems
    BY <1>1, <1>3 DEF CallerInv, CallPlaced, Adding, Between
  <2>5. CallPlaced(calls[Caller])'
    BY <1>1, <2>1, <2>2, <2>3, <2>4
    DEF CallPlaced, Services, ItemServices, Adding, EntrySteps, Between
  <2>6. SubscriptionHeld'
    BY <1>1, <2>1, <2>4 DEF SubscriptionHeld
  <2> QED
    BY <2>1, <2>2, <2>5, <2>6 DEF CallerInv
<1> QED
  BY <1>2, <1>3 DEF CreateSubscriptionReturns

LEMMA CreateMonitoredItemsReturnsCaller ==
    ASSUME TypeOK, SingleThreaded, CallerInv,
           CreateMonitoredItemsReturns(Caller)
    PROVE  CallerInv'
<1> DEFINE c == calls[Caller]
           kept == DOMAIN monitoredItems \ Failed(c)
<1>1. CASE Crash
  BY <1>1, CrashRests, RestsCaller
<1>2. CASE ~Crash
  <2>1. /\ DOMAIN monitoredItems' = kept
        /\ UNCHANGED <<subscription, sdkObjects, expired, raced>>
        /\ IF Failed(c) # {} /\ kept = {}
           THEN DeleteSubscriptionOrEnd(Caller, "add", TRUE)
           ELSE Goto(Caller, Idle("add", Failed(c) # {}))
    BY <1>2 DEF CreateMonitoredItemsReturns
  <2>2. subscription # Null /\ subscription \in sdkObjects
    BY DEF CallerInv, SubscriptionHeld, CallPlaced,
           CreateMonitoredItemsReturns, Services, ItemServices
  <2>3. SubscriptionHeld'
    BY <2>1, <2>2 DEF SubscriptionHeld
  <2> QED
    BY <2>1, <2>3, EndCaller
<1> QED
  BY <1>1, <1>2

LEMMA DeleteMonitoredItemsReturnsCaller ==
    ASSUME TypeOK, SingleThreaded, CallerInv,
           DeleteMonitoredItemsReturns(Caller)
    PROVE  CallerInv'
<1> DEFINE c == calls[Caller]
           kept == DOMAIN monitoredItems \ Granted(c)
<1>1. CASE Crash
  BY <1>1, CrashRests, RestsCaller
<1>2. CASE ~Crash
  <2>1. /\ monitoredItems' = Restrict(monitoredItems, kept)
        /\ UNCHANGED <<subscription, sdkObjects, expired, raced>>
        /\ \/ DeleteSubscriptionOrEnd(Caller, c.op, FALSE) /\ kept = {}
           \/ \E thrown : Goto(Caller, Idle(c.op, thrown))
    BY <1>2 DEF DeleteMonitoredItemsReturns
  <2>2. subscription # Null /\ subscription \in sdkObjects
    BY DEF CallerInv, SubscriptionHeld, CallPlaced,
           DeleteMonitoredItemsReturns, Services, ItemServices
  <2>3. SubscriptionHeld'
    BY <2>1, <2>2 DEF SubscriptionHeld
  <2>4. DOMAIN monitoredItems' = kept
    BY <2>1 DEF Restrict
  <2> QED
    BY <2>1, <2>3, <2>4, EndCaller
<1> QED
  BY <1>1, <1>2

LEMMA DeleteSubscriptionReturnsCaller ==
    ASSUME TypeOK, SingleThreaded, CallerInv, DeleteSubscriptionReturns(Caller)
    PROVE  /\ CallerInv'
           /\ UNCHANGED <<monitoredItems, server>>
           /\ DOMAIN monitoredItems = {}
           /\ \/ calls[Caller].answer = "good" /\ subscription' = Null
              \/ calls[Caller].answer = "bad" /\ subscription' = subscription
           /\ calls'[Caller].pc = "idle"
<1> DEFINE c == calls[Caller]
<1>1. DOMAIN monitoredItems = {} /\ DOMAIN c.request = {}
  BY DEF CallerInv, CallPlaced, DeleteSubscriptionReturns
<1>2. /\ UNCHANGED <<monitoredItems, server, raced>>
      /\ \E op, thrown : Goto(Caller, Idle(op, thrown))
  BY <1>1 DEF DeleteSubscriptionReturns, AddAgain, client
<1>3. PICK op, thrown : Goto(Caller, Idle(op, thrown))
  BY <1>2
<1>4. expired' \subseteq expired
  BY DEF DeleteSubscriptionReturns
<1>5. SdkAtRest' /\ calls'[Caller] = Idle(op, thrown)
  BY <1>3, <1>4, CallerGoes DEF CallerInv
<1>6. Idle(op, thrown).pc = "idle" /\ DOMAIN Idle(op, thrown).request = {}
  BY DEF Idle, NoItems
<1>7. CallPlaced(calls[Caller])'
  BY <1>5, <1>6
  DEF CallPlaced, Services, ItemServices, Adding, EntrySteps, Between
<1>8. SubscriptionHeld'
  BY <1>1, <1>2 DEF DeleteSubscriptionReturns, CallerInv, SubscriptionHeld,
                    client
<1>9. \/ c.answer = "good" /\ subscription' = Null
      \/ c.answer = "bad" /\ subscription' = subscription
  BY DEF DeleteSubscriptionReturns, client
<1> QED
  BY <1>1, <1>2, <1>5, <1>6, <1>7, <1>8, <1>9 DEF CallerInv

LEMMA CallerStep ==
    ASSUME TypeOK, ClaimsInv, SingleThreaded, CallerInv, ServerInv, [Next]_vars
    PROVE  CallerInv'
<1>1. SdkAtRest
  BY DEF CallerInv
<1>2. CASE Returns(Caller)
  BY <1>2, CreateSubscriptionReturnsCaller, CreateMonitoredItemsReturnsCaller,
     DeleteMonitoredItemsReturnsCaller, DeleteSubscriptionReturnsCaller
  DEF Returns
<1> QED
  BY <1>1, <1>2, SingleThreadedStep, AddCaller, StartRemoveCaller, ServeCaller,
     EntersCaller, RestsCaller

LEMMA CallerInvariant ==
    ASSUME SingleThreaded PROVE Spec => []CallerInv
<1>1. Init => CallerInv
  <2>1. Init => \A p \in Procs : calls[p].pc = "idle" /\ DOMAIN calls[p].request = {}
    BY DEF Init, Idle, NoItems
  <2>2. Sdk \in Procs /\ Caller \in Procs
    BY CallerIsProc DEF Procs
  <2>3. Init => DOMAIN monitoredItems = {}
    BY DEF Init, NoItems
  <2> QED
    BY <2>1, <2>2, <2>3, IdlePlaced
    DEF Init, CallerInv, SdkAtRest, SubscriptionHeld
<1>2. AttributionInv /\ ServerInv /\ CallerInv /\ [Next]_vars => CallerInv'
  BY CallerStep DEF AttributionInv, ClaimsInv, CallerInv
<1> QED
  BY <1>1, <1>2, AttributionInvariant, ServerInvariant, PTL DEF Spec

(* No step dereferences a dead pointer, but for a remove that picks an     *)
(* entry left over without a subscription.                                 *)
LEMMA OnlyLeftOverCrashes ==
    ASSUME TypeOK, SingleThreaded, EventTypes = {}, CallerInv, ~crashed,
           [Next]_vars, crashed'
    PROVE  \E h \in DOMAIN monitoredItems : LeftOver(h)
<1> DEFINE c == calls[Caller]
<1>1. ~CreateMonitoredItemsReturns(Caller)
  <2> SUFFICES ASSUME CreateMonitoredItemsReturns(Caller) PROVE FALSE
    OBVIOUS
  <2>1. /\ DOMAIN c.request \subseteq DOMAIN monitoredItems
        /\ subscription # Null
    BY DEF CreateMonitoredItemsReturns, CallerInv, CallPlaced, Adding,
           Services, ItemServices
  <2> QED
    BY <2>1 DEF CreateMonitoredItemsReturns
<1>2. ~DeleteMonitoredItemsReturns(Caller)
  <2> SUFFICES ASSUME DeleteMonitoredItemsReturns(Caller) PROVE FALSE
    OBVIOUS
  <2>1. subscription # Null
    BY DEF DeleteMonitoredItemsReturns, CallerInv, CallPlaced, Services,
           ItemServices
  <2> QED
    BY <2>1 DEF DeleteMonitoredItemsReturns
<1>3. ~CreateSubscriptionReturns(Caller) /\ ~DeleteSubscriptionReturns(Caller)
  BY DEF CreateSubscriptionReturns, DeleteSubscriptionReturns
<1>4. ~Serve(Caller) /\ ~Add(Caller) /\ \A p \in Procs : ~Enters(p)
  BY
  DEF Enters, ReadCounter, WriteCounter, EnterItem, AllEntered, Serve, Refuse,
      ServeCreateSubscription, ServeCreateMonitoredItems,
         ServeDeleteMonitoredItems, ServeDeleteSubscription, Add
<1>5. ASSUME NEW op, NEW nodes, StartRemove(Caller, op, nodes)
      PROVE  \E h \in DOMAIN monitoredItems : LeftOver(h)
  <2>1. c.pc = "idle" /\ subscription = Null /\ FirstHandles(nodes) # {}
    BY <1>5 DEF StartRemove
  <2>2. \A p \in Procs : DOMAIN calls[p].request = {}
    BY <2>1 DEF CallerInv, SdkAtRest, CallPlaced, SingleThreaded, Procs
  <2>3. PICK h \in FirstHandles(nodes) : TRUE
    BY <2>1
  <2>4. h \in DOMAIN monitoredItems /\ monitoredItems[h].id = 0
    BY <2>1, <2>3 DEF FirstHandles, CallerInv, SubscriptionHeld
  <2> QED
    BY <2>2, <2>4 DEF LeftOver
<1>6. ASSUME NEW p \in Procs PROVE ~UseAfterDelete(p)
  <2>1. calls[p].pc \in Services \ {"createSubscription"} =>
            p = Caller /\ calls[p].sub \in sdkObjects
    BY DEF CallerInv, SdkAtRest, SubscriptionHeld, CallPlaced, SingleThreaded,
           Procs, Services, ItemServices
  <2> QED
    BY <2>1 DEF UseAfterDelete
<1>7. ~StatusChanged /\ ~LoseSubscription
  BY DEF StatusChanged, CallerInv, SdkAtRest, LoseSubscription
<1>8. ~Deliver
  BY DEF Deliver, DataChange
<1>9. ~(Publish \/ Ended \/ UNCHANGED vars)
  BY DEF Publish, Ended, vars
<1>10. \A p \in Procs : Serve(p) \/ Returns(p) => p = Caller
  <2>1. ~Serve(Sdk) /\ ~Returns(Sdk)
    BY DEF CallerInv, SdkAtRest, Serve, Returns, Refuse,
        ServeCreateSubscription, ServeCreateMonitoredItems,
        ServeDeleteMonitoredItems, ServeDeleteSubscription,
        CreateSubscriptionReturns, CreateMonitoredItemsReturns,
        DeleteMonitoredItemsReturns, DeleteSubscriptionReturns, Services,
        ItemServices
  <2> QED
    BY <2>1 DEF SingleThreaded, Procs
<1> QED
  BY <1>1, <1>2, <1>3, <1>4, <1>5, <1>6, <1>7, <1>8, <1>9, <1>10
  DEF Next, Remove, RemoveAll, Returns, SingleThreaded

(* The list and the calls stay as they are in a step that ends the process.*)
LEMMA LastStep ==
    ASSUME [Next]_vars, crashed' PROVE UNCHANGED <<monitoredItems, calls>>
<1>1. ASSUME NEW t \in Threads, Add(t) \/ Remove(t) \/ RemoveAll(t)
      PROVE  UNCHANGED <<monitoredItems, calls>>
  BY <1>1 DEF Add, Remove, RemoveAll, StartRemove, Crash, client
<1>2. ASSUME NEW p \in Procs, Serve(p)
      PROVE  UNCHANGED <<monitoredItems, calls>>
  BY <1>2 DEF Serve, Refuse, ServeCreateSubscription,
      ServeCreateMonitoredItems, ServeDeleteMonitoredItems,
      ServeDeleteSubscription, client
<1>3. ASSUME NEW p \in Procs, Returns(p)
      PROVE  UNCHANGED <<monitoredItems, calls>>
  BY <1>3 DEF Returns, CreateSubscriptionReturns, CreateMonitoredItemsReturns,
      DeleteMonitoredItemsReturns, DeleteSubscriptionReturns, Crash, client
<1>4. ASSUME NEW p \in Procs, Enters(p) \/ UseAfterDelete(p)
      PROVE  UNCHANGED <<monitoredItems, calls>>
  BY <1>4 DEF Enters, ReadCounter, WriteCounter, EnterItem, AllEntered,
      UseAfterDelete, Crash, client
<1>5. CASE \/ StatusChanged \/ Deliver \/ Publish \/ LoseSubscription
           \/ Ended \/ UNCHANGED vars
  BY <1>5 DEF StatusChanged, Deliver, Publish, LoseSubscription, Ended, vars,
      Crash, client
<1> QED
  BY <1>1, <1>2, <1>3, <1>4, <1>5 DEF Next

LEMMA NoCrashStep ==
    ASSUME TypeOK, SingleThreaded, EventTypes = {}, CallerInv, NoCrash,
           [Next]_vars
    PROVE  NoCrash'
<1> SUFFICES ASSUME crashed' PROVE \E h \in DOMAIN monitoredItems : LeftOver(h)
  BY LastStep DEF NoCrash, LeftOver
<1> QED
  BY OnlyLeftOverCrashes DEF NoCrash

(* With one thread, no events and a server that keeps its subscriptions,   *)
(* the process can only crash over an entry that a failed add left behind, *)
(* whatever services and items the server refuses or answers too late.     *)
THEOREM NoCrashCorrect ==
    ASSUME SingleThreaded, EventTypes = {} PROVE Spec => []NoCrash
<1>1. Init => NoCrash
  BY DEF Init, NoCrash
<1>2. TypeOK /\ CallerInv /\ NoCrash /\ [Next]_vars => NoCrash'
  BY NoCrashStep
<1> QED
  BY <1>1, <1>2, TypeCorrect, CallerInvariant, PTL DEF Spec

-----------------------------------------------------------------------------
(* Which item an id names.                                                 *)

(* In that subscription the id is given out, and to no other handle's item.*)
Names(s, id, h) ==
    /\ s \in DOMAIN serverSubs
    /\ id <= serverSubs[s]
    /\ \A i \in items : i.sub = s /\ i.id = id => i.handle = h

IdsName(c) ==
    /\ \A h \in DOMAIN monitoredItems :
          monitoredItems[h].id # 0 => Names(subscription, monitoredItems[h].id, h)
    /\ c.pc = "createMonitoredItems" =>
          \A h \in DOMAIN c.results : Names(c.sub, c.results[h], h)

NamesInv == IdsName(calls[Caller])

(* An id that names an item keeps naming it while its subscription lives.  *)
LEMMA NamesKept ==
    ASSUME UNCHANGED serverSubs, items' \subseteq items,
           NEW s, NEW id, NEW h, Names(s, id, h)
    PROVE  Names(s, id, h)'
BY DEF Names

LEMMA NamesCreates ==
    ASSUME TypeOK, TypeOK', ServerInv, NEW p \in Procs,
           NEW granted, granted \subseteq DOMAIN calls[p].request,
           NEW idOf \in [DOMAIN calls[p].request -> Nat],
           NEW frame, Creates(p, granted, idOf, frame),
           calls[p].sub \in DOMAIN serverSubs
    PROVE  /\ \A s, id, h : id \in Nat /\ Names(s, id, h) => Names(s, id, h)'
           /\ \A s : s = calls[p].sub =>
                 \A h \in granted : Names(s, idOf[h], h)'
<1> DEFINE c == calls[p]
<1>1. \A i \in items' :
        \/ i \in items
        \/ \E g \in granted : i.sub = c.sub /\ i.id = idOf[g] /\ i.handle = g
  BY DEF Creates
<1>2. \A g \in granted : /\ idOf[g] \in Nat /\ idOf[g] > serverSubs[c.sub]
                         /\ idOf[g] <= serverSubs'[c.sub]
  BY DEF Creates
<1>3. \A s \in DOMAIN serverSubs : /\ serverSubs[s] \in Nat
                                   /\ serverSubs'[s] \in Nat
                                   /\ serverSubs[s] <= serverSubs'[s]
  BY DEF Creates, TypeOK
<1>4. \A i \in items : /\ i.id \in Nat /\ i.sub \in DOMAIN serverSubs
                       /\ i.id <= serverSubs[i.sub]
  BY DEF ServerInv, TypeOK
<1>5. DOMAIN serverSubs' = DOMAIN serverSubs
  BY DEF Creates
<1>6. ASSUME NEW s, NEW id \in Nat, NEW h, Names(s, id, h)
      PROVE  Names(s, id, h)'
  <2>1. s \in DOMAIN serverSubs /\ id <= serverSubs[s]
    BY <1>6 DEF Names
  <2>2. ASSUME NEW i \in items', i.sub = s, i.id = id PROVE i.handle = h
    <3>1. CASE i \in items
      BY <1>6, <2>2, <3>1 DEF Names
    <3>2. CASE \E g \in granted : i.sub = c.sub /\ i.id = idOf[g]
      BY <1>2, <1>3, <2>1, <2>2, <3>2
    <3> QED
      BY <1>1, <3>1, <3>2
  <2>3. id <= serverSubs'[s]
    BY <1>3, <2>1
  <2> QED
    BY <1>5, <2>1, <2>2, <2>3 DEF Names
<1>7. ASSUME NEW s, s = c.sub, NEW h \in granted PROVE Names(s, idOf[h], h)'
  <2>1. ASSUME NEW i \in items', i.sub = c.sub, i.id = idOf[h] PROVE i.handle = h
    <3>1. CASE i \in items
      BY <1>2, <1>3, <1>4, <2>1, <3>1
    <3>2. CASE \E g \in granted : i.id = idOf[g] /\ i.handle = g
      BY <2>1, <3>2 DEF Creates
    <3> QED
      BY <1>1, <3>1, <3>2
  <2> QED
    BY <1>2, <1>5, <1>7, <2>1 DEF Names
<1> QED
  BY <1>6, <1>7

(* The list keeps its ids, or names what the server answered.              *)
LEMMA RestsNames ==
    ASSUME NamesInv, Rests PROVE NamesInv'
BY DEF NamesInv, IdsName, Names, Rests, client, server

(* A step that leaves the server and the subscription alone.               *)
LEMMA SameServerNames ==
    ASSUME NamesInv, NEW frame, calls'[Caller] = frame,
           UNCHANGED <<server, subscription>>,
           frame.pc = "createMonitoredItems" => DOMAIN frame.results = {},
           \A h \in DOMAIN monitoredItems' :
              \/ monitoredItems'[h].id = 0
              \/ h \in DOMAIN monitoredItems /\ monitoredItems'[h] = monitoredItems[h]
              \/ Names(subscription, monitoredItems'[h].id, h)
    PROVE  NamesInv'
<1>1. \A h \in DOMAIN monitoredItems' : monitoredItems'[h].id # 0 =>
          Names(subscription, monitoredItems'[h].id, h)
  BY DEF NamesInv, IdsName
<1>2. \A s, id, h : Names(s, id, h) => Names(s, id, h)'
  BY DEF Names, server
<1>3. \A h \in DOMAIN monitoredItems' : monitoredItems'[h].id # 0 =>
          Names(subscription, monitoredItems[h].id, h)'
  BY <1>1, <1>2
<1> QED
  BY <1>3 DEF NamesInv, IdsName

LEMMA ServeNames ==
    ASSUME TypeOK, TypeOK', SingleThreaded, CallerInv, ServerInv, NamesInv,
           Serve(Caller)
    PROVE  NamesInv'
<1> DEFINE c == calls[Caller]
<1>0. Caller \in Procs
  BY CallerIsProc
<1>1. UNCHANGED client
  BY DEF Serve, Refuse, ServeCreateSubscription, ServeCreateMonitoredItems,
         ServeDeleteMonitoredItems, ServeDeleteSubscription
<1>2. CASE Refuse(Caller) \/ ServeCreateSubscription(Caller)
  <2>1. \E answer, sub : Answer(Caller, answer, sub, NoResults)
    BY <1>2, Zenon DEF Refuse, ServeCreateSubscription
  <2>2. PICK frame : Goto(Caller, frame) /\ frame.results = NoResults
    BY <2>1, AnswerGoes
  <2>3. calls'[Caller] = frame
    BY <1>0, <2>2, GotoFrames
  <2>4. /\ items' = items
        /\ \A s \in DOMAIN serverSubs :
              s \in DOMAIN serverSubs' /\ serverSubs'[s] = serverSubs[s]
    BY <1>2 DEF Refuse, ServeCreateSubscription, ServerInv, server, TypeOK
  <2>5. \A s, id, h : Names(s, id, h) => Names(s, id, h)'
    BY <2>4 DEF Names
  <2>6. \A h \in DOMAIN monitoredItems' : monitoredItems'[h].id # 0 =>
           Names(subscription, monitoredItems[h].id, h)'
    BY <1>1, <2>5 DEF NamesInv, IdsName, client
  <2> QED
    BY <2>2, <2>3, <2>6, NoResultsOK DEF NamesInv, IdsName
<1>3. CASE ServeCreateMonitoredItems(Caller)
  <2>1. PICK granted, idOf, frame :
             /\ granted \subseteq DOMAIN c.request
             /\ idOf \in [DOMAIN c.request -> Nat]
             /\ Creates(Caller, granted, idOf, frame)
    BY <1>0, <1>3, CreatesItems
  <2>2. c.sub \in DOMAIN serverSubs
    BY <1>3 DEF ServeCreateMonitoredItems
  <2>3. /\ calls'[Caller] = frame
        /\ frame.sub = c.sub
        /\ frame.results = [h \in granted |-> idOf[h]]
    BY <1>0, <2>1, GotoFrames DEF Creates
  <2>4. /\ \A s, id, h : id \in Nat /\ Names(s, id, h) => Names(s, id, h)'
        /\ \A s : s = c.sub => \A h \in granted : Names(s, idOf[h], h)'
    BY <1>0, <2>1, <2>2, NamesCreates
  <2>5. \A h \in DOMAIN monitoredItems : monitoredItems[h].id \in Nat
    BY DEF TypeOK, IsItems, Item
  <2>6. \A h \in DOMAIN monitoredItems' : monitoredItems'[h].id # 0 =>
           Names(subscription, monitoredItems[h].id, h)'
    BY <1>1, <2>4, <2>5 DEF NamesInv, IdsName, client
  <2>7. \A h \in DOMAIN frame.results : Names(calls[Caller].sub, calls[Caller].results[h], h)'
    BY <2>3, <2>4
  <2> QED
    BY <2>3, <2>6, <2>7 DEF NamesInv, IdsName
<1>4. CASE ServeDeleteMonitoredItems(Caller)
  <2>1. /\ UNCHANGED serverSubs
        /\ items' \subseteq items
        /\ c.pc = "deleteMonitoredItems"
    BY <1>4 DEF ServeDeleteMonitoredItems
  <2>2. \E answer, results : Answer(Caller, answer, c.sub, results)
    BY <1>4, Zenon DEF ServeDeleteMonitoredItems
  <2>3. PICK frame : Goto(Caller, frame) /\ frame.pc = c.pc
    BY <2>2, AnswerGoes
  <2>4. calls'[Caller] = frame
    BY <1>0, <2>3, GotoFrames
  <2>5. \A s, id, h : Names(s, id, h) => Names(s, id, h)'
    BY <2>1 DEF Names
  <2>6. \A h \in DOMAIN monitoredItems' : monitoredItems'[h].id # 0 =>
           Names(subscription, monitoredItems[h].id, h)'
    BY <1>1, <2>5 DEF NamesInv, IdsName, client
  <2> QED
    BY <2>1, <2>3, <2>4, <2>6 DEF NamesInv, IdsName
<1>5. CASE ServeDeleteSubscription(Caller)
  <2>1. c.pc = "deleteSubscription" /\ DOMAIN monitoredItems = {}
    BY <1>5 DEF ServeDeleteSubscription, CallerInv, CallPlaced
  <2>2. PICK frame : Goto(Caller, frame) /\ frame.pc = c.pc
    BY <1>5, AnswerGoes DEF ServeDeleteSubscription
  <2>3. calls'[Caller] = frame
    BY <1>0, <2>2, GotoFrames
  <2> QED
    BY <1>1, <2>1, <2>2, <2>3 DEF NamesInv, IdsName, client
<1> QED
  BY <1>2, <1>3, <1>4, <1>5 DEF Serve

(* The frames in which a call of the client ends or goes on.               *)
LEMMA ReturnsFresh ==
    ASSUME TypeOK, SingleThreaded, SdkAtRest, Returns(Caller), ~Crash,
           calls[Caller].pc # "deleteSubscription"
    PROVE  \E frame : /\ calls'[Caller] = frame
                      /\ frame.answer = "none"
                      /\ DOMAIN frame.results = {}
<1>0. Caller \in Procs
  BY CallerIsProc
<1>1. \/ \E op, thrown : Goto(Caller, Idle(op, thrown))
      \/ \E service, op, request, sub, thrown :
            Goto(Caller, Call(service, op, request, sub, thrown))
  <2>1. CASE CreateSubscriptionReturns(Caller)
    BY <2>1, Zenon DEF CreateSubscriptionReturns
  <2>2. CASE CreateMonitoredItemsReturns(Caller)
    BY <2>2, Zenon DEF CreateMonitoredItemsReturns, DeleteSubscriptionOrEnd
  <2>3. CASE DeleteMonitoredItemsReturns(Caller)
    BY <2>3, Zenon DEF DeleteMonitoredItemsReturns, DeleteSubscriptionOrEnd
  <2> QED
    BY <2>1, <2>2, <2>3 DEF Returns, DeleteSubscriptionReturns
<1>2. \A op, thrown : /\ Idle(op, thrown).answer = "none"
                      /\ DOMAIN Idle(op, thrown).results = {}
  BY DEF Idle, NoResults
<1>3. \A service, op, request, sub, thrown :
         /\ Call(service, op, request, sub, thrown).answer = "none"
         /\ DOMAIN Call(service, op, request, sub, thrown).results = {}
  BY DEF Call, NoResults
<1> QED
  BY <1>0, <1>1, <1>2, <1>3, GotoFrames

LEMMA ReturnsNames ==
    ASSUME TypeOK, SingleThreaded, CallerInv, NamesInv, Returns(Caller)
    PROVE  NamesInv'
<1> DEFINE c == calls[Caller]
<1>1. CASE Crash
  BY <1>1, CrashRests, RestsNames
<1>2. CASE DeleteSubscriptionReturns(Caller)
  <2>1. calls'[Caller].pc = "idle" /\ DOMAIN monitoredItems' = {}
    BY <1>2, DeleteSubscriptionReturnsCaller
  <2> QED
    BY <2>1 DEF NamesInv, IdsName
<1>3. CASE ~Crash /\ c.pc # "deleteSubscription"
  <2>1. PICK frame : /\ calls'[Caller] = frame
                     /\ DOMAIN frame.results = {}
    BY <1>3, ReturnsFresh DEF CallerInv
  <2>2. UNCHANGED server
    BY DEF Returns, CreateSubscriptionReturns, CreateMonitoredItemsReturns,
           DeleteMonitoredItemsReturns, DeleteSubscriptionReturns, Crash
  <2>3. CASE CreateSubscriptionReturns(Caller)
    <3>1. \A h \in DOMAIN monitoredItems' : monitoredItems'[h].id = 0
      BY <2>3 DEF CreateSubscriptionReturns, CallerInv, CallPlaced,
                  SubscriptionHeld
    <3> QED
      BY <2>1, <3>1 DEF NamesInv, IdsName
  <2>4. CASE CreateMonitoredItemsReturns(Caller)
    <3>1. /\ UNCHANGED subscription
          /\ \A h \in DOMAIN monitoredItems' :
                /\ h \in DOMAIN monitoredItems
                /\ \/ monitoredItems'[h] = monitoredItems[h]
                   \/ /\ h \in Granted(c)
                      /\ monitoredItems'[h].id = c.results[h]
      <4> DEFINE kept == DOMAIN monitoredItems \ Failed(c)
      <4>1. /\ UNCHANGED subscription
            /\ monitoredItems' =
                  [h \in kept |->
                      IF h \in Granted(c)
                      THEN [node |-> monitoredItems[h].node, id |-> c.results[h]]
                      ELSE monitoredItems[h]]
        BY <1>3, <2>4 DEF CreateMonitoredItemsReturns, ResultOf
      <4> QED
        BY <4>1
    <3>2. \A h \in Granted(c) : Names(subscription, c.results[h], h)
      BY <2>4 DEF CreateMonitoredItemsReturns, Granted, NamesInv, IdsName,
                  CallerInv, CallPlaced, Services, ItemServices
    <3> QED
      BY <2>1, <2>2, <3>1, <3>2, SameServerNames
  <2>5. CASE DeleteMonitoredItemsReturns(Caller)
    <3>1. /\ UNCHANGED subscription
          /\ \A h \in DOMAIN monitoredItems' :
                /\ h \in DOMAIN monitoredItems
                /\ monitoredItems'[h] = monitoredItems[h]
      BY <1>3, <2>5 DEF DeleteMonitoredItemsReturns, Restrict
    <3> QED
      BY <2>1, <2>2, <3>1, SameServerNames
  <2> QED
    BY <1>3, <2>3, <2>4, <2>5 DEF Returns, DeleteSubscriptionReturns
<1> QED
  BY <1>1, <1>2, <1>3
  DEF Returns, CreateSubscriptionReturns, CreateMonitoredItemsReturns,
      DeleteMonitoredItemsReturns

LEMMA NamesStep ==
    ASSUME TypeOK, TypeOK', ClaimsInv, SingleThreaded, CallerInv, ServerInv,
           NamesInv, [Next]_vars
    PROVE  NamesInv'
<1>0. Caller \in Procs
  BY CallerIsProc
<1>1. CASE Add(Caller) \/ Enters(Caller)
  <2>1. PICK new, frame :
             /\ calls'[Caller] = frame
             /\ DOMAIN frame.results = {}
             /\ \A h \in new : monitoredItems'[h].id = 0
             /\ DOMAIN monitoredItems' = DOMAIN monitoredItems \cup new
             /\ \A h \in DOMAIN monitoredItems :
                   monitoredItems'[h] = monitoredItems[h]
    BY <1>1, LoopEnters
  <2>2. UNCHANGED <<server, subscription>>
    BY <1>1, LoopLeaves
  <2> QED
    BY <2>1, <2>2, SameServerNames
<1>2. ASSUME NEW op, NEW nodes, StartRemove(Caller, op, nodes), ~Crash
      PROVE  NamesInv'
  <2>1. \/ Goto(Caller, Idle(op, FALSE))
        \/ \E request, sub :
             Goto(Caller, Call("deleteMonitoredItems", op, request, sub, FALSE))
    BY <1>2, Zenon DEF StartRemove
  <2>2. \A request, sub :
          Call("deleteMonitoredItems", op, request, sub, FALSE).pc
             = "deleteMonitoredItems"
    BY DEF Call
  <2>3. Idle(op, FALSE).pc = "idle"
    BY DEF Idle
  <2>4. PICK frame : /\ calls'[Caller] = frame
                     /\ frame.pc # "createMonitoredItems"
    BY <1>0, <2>1, <2>2, <2>3, GotoFrames
  <2>5. UNCHANGED <<server, client>>
    BY <1>2 DEF StartRemove
  <2> QED
    BY <2>4, <2>5, SameServerNames DEF client
<1>3. Crash => NamesInv'
  BY CrashRests, RestsNames
<1> QED
  BY <1>1, <1>2, <1>3, SingleThreadedStep, ServeNames, ReturnsNames, RestsNames
  DEF CallerInv

LEMMA NamesInvariant ==
    ASSUME SingleThreaded PROVE Spec => []NamesInv
<1>1. Init => NamesInv
  <2>1. Init => calls[Caller].pc = "idle"
    BY CallerIsProc DEF Init, Idle
  <2>2. Init => DOMAIN monitoredItems = {}
    BY DEF Init, NoItems
  <2> QED
    BY <2>1, <2>2 DEF NamesInv, IdsName
<1>2. /\ AttributionInv /\ TypeOK' /\ ServerInv /\ CallerInv /\ NamesInv
      /\ [Next]_vars
      => NamesInv'
  BY NamesStep DEF AttributionInv, ClaimsInv, CallerInv
<1> QED
  BY <1>1, <1>2, TypeCorrect, AttributionInvariant, ServerInvariant,
     CallerInvariant, PTL DEF Spec

(* deleteMonitoredItems deletes no item but those of the handles that it   *)
(* was called for, in the hands of one thread and with a server that keeps *)
(* its subscriptions: no id that the list still has names a stranger's.    *)
THEOREM OnlyPickedItemsDeletedCorrect ==
    ASSUME SingleThreaded PROVE Spec => OnlyPickedItemsDeleted
<1> DEFINE picked == \A p \in Procs :
             /\ calls[p].pc = "deleteMonitoredItems"
             /\ calls[p].answer # calls[p]'.answer
          => \A i \in items \ items' : i.handle \in DOMAIN calls[p].request
<1>1. TypeOK /\ CallerInv /\ NamesInv /\ [Next]_vars => [picked]_vars
  <2> SUFFICES ASSUME TypeOK, CallerInv, NamesInv, [Next]_vars,
                      NEW p \in Procs, calls[p].pc = "deleteMonitoredItems",
                      NEW i \in items, i \notin items'
               PROVE  i.handle \in DOMAIN calls[p].request
    OBVIOUS
  <2>1. p = Caller
    BY DEF CallerInv, SdkAtRest, SingleThreaded, Procs
  <2>2. Serve(Caller)
    <3>1. /\ ~Add(Caller) /\ ~Enters(Caller)
          /\ \A op, nodes : ~StartRemove(Caller, op, nodes)
      BY <2>1 DEF Add, StartRemove, Enters, ReadCounter, WriteCounter,
                  EnterItem, AllEntered
    <3>2. ~Returns(Caller)
      BY DEF Returns, CreateSubscriptionReturns, CreateMonitoredItemsReturns,
             DeleteMonitoredItemsReturns, DeleteSubscriptionReturns, Crash,
             server
    <3>3. ~Rests
      BY DEF Rests, server
    <3> QED
      BY <3>1, <3>2, <3>3, SingleThreadedStep DEF CallerInv
  <2>3. ServeDeleteMonitoredItems(Caller)
    BY <2>1, <2>2
    DEF Serve, Refuse, ServeCreateSubscription, ServeCreateMonitoredItems,
        ServeDeleteSubscription, server
  <2>4. PICK h \in DOMAIN calls[p].request :
          i.sub = calls[p].sub /\ i.id = calls[p].request[h].id
    BY <2>1, <2>3 DEF ServeDeleteMonitoredItems
  <2>5. /\ calls[p].sub = subscription
        /\ h \in DOMAIN monitoredItems /\ calls[p].request[h] = monitoredItems[h]
    BY <2>1, <2>4 DEF CallerInv, CallPlaced, Services, ItemServices
  <2>6. i.id # 0
    BY DEF TypeOK
  <2>7. i.handle = h
    BY <2>4, <2>5, <2>6 DEF NamesInv, IdsName, Names
  <2> QED
    BY <2>7
<1> HIDE DEF picked
<1>2. Spec => [][picked]_vars
  BY <1>1, TypeCorrect, CallerInvariant, NamesInvariant, PTL DEF Spec
<1> QED
  BY <1>2 DEF picked, OnlyPickedItemsDeleted

-----------------------------------------------------------------------------
(* The list and the server, when every executed call is answered in time.  *)

AnsweredInTime == "lateAnswer" \notin Faults

Monitored(s, id, h) == \E i \in items : i.handle = h /\ i.id = id /\ i.sub = s

(* Every item of the server is in the list, and stays there when the call  *)
(* has returned.                                                           *)
ItemsListed(c) ==
    /\ \A i \in items : i.sub = subscription /\ i.handle \in DOMAIN monitoredItems
    /\ Adding(c) => \A i \in items : i.handle \in DOMAIN c.request => c.answer = "good"
    /\ c.pc = "deleteMonitoredItems" /\ c.answer = "good" =>
          \A i \in items : i.handle \notin DOMAIN c.results

(* Every entry with an id is an item of the server, or leaves the list     *)
(* when the call returns.                                                  *)
ListMonitored(c) ==
    /\ \A h \in DOMAIN monitoredItems : monitoredItems[h].id # 0 =>
          \/ Monitored(subscription, monitoredItems[h].id, h)
          \/ /\ c.pc = "deleteMonitoredItems" /\ c.answer = "good"
             /\ h \in DOMAIN c.results
    /\ c.pc = "createMonitoredItems" /\ c.answer = "good" =>
          \A h \in DOMAIN c.results : Monitored(c.sub, c.results[h], h)

(* The server has no subscription but the object's, and the object keeps   *)
(* none for an empty list.                                                 *)
SubscriptionUsed(c) ==
    /\ \A s \in DOMAIN serverSubs :
          \/ s = subscription
          \/ c.pc = "createSubscription" /\ c.answer = "good" /\ s = c.sub
    /\ c.pc = "deleteSubscription" /\ c.answer = "good" =>
          c.sub \notin DOMAIN serverSubs
    /\ "deleteSubscription" \notin Faults =>
          /\ c.pc = "deleteSubscription" => c.answer # "bad"
          /\ DOMAIN monitoredItems = {} /\ subscription # Null =>
                c.pc = "deleteSubscription"

InTime(c) == ItemsListed(c) /\ ListMonitored(c) /\ SubscriptionUsed(c)
InTimeInv == InTime(calls[Caller])

(* All that is known of the state.                                         *)
AllInv == /\ TypeOK /\ ClaimsInv /\ ServerInv /\ CallerInv
          /\ IdsInv /\ NamesInv /\ InTimeInv

LEMMA OnlyGood == AnsweredInTime => Answers = {"good"}
BY DEF AnsweredInTime, Answers

LEMMA NoSubscriptionNoItems ==
    ASSUME TypeOK, ServerInv, InTimeInv, subscription = Null PROVE items = {}
BY DEF ServerInv, InTimeInv, InTime, ItemsListed, Null

LEMMA RestsInTime ==
    ASSUME InTimeInv, Rests PROVE InTimeInv'
BY DEF InTimeInv, InTime, ItemsListed, ListMonitored, SubscriptionUsed,
       Monitored, Rests, client, server, Adding

(* The steps that start an operation.                                      *)
LEMMA LoopInTime ==
    ASSUME AllInv, SingleThreaded, Add(Caller) \/ Enters(Caller)
    PROVE  InTimeInv'
<1> DEFINE c == calls[Caller]
<1>1. PICK new, frame :
             /\ calls'[Caller] = frame
             /\ Adding(frame)
             /\ frame.answer = "none"
             /\ DOMAIN frame.request \subseteq DOMAIN c.request \cup new
             /\ \A h \in new : /\ monitoredItems'[h].id = 0
                               /\ \A i \in items : i.handle # h
             /\ DOMAIN monitoredItems' = DOMAIN monitoredItems \cup new
             /\ \A h \in DOMAIN monitoredItems :
                   h \notin new /\ monitoredItems'[h] = monitoredItems[h]
  BY LoopEnters DEF AllInv
<1>2. /\ UNCHANGED <<subscription, server>>
      /\ c.pc \in EntrySteps \cup {"idle"}
  BY LoopLeaves
<1>3. frame.pc \notin {"deleteMonitoredItems", "deleteSubscription"}
  BY <1>1 DEF Adding, EntrySteps
<1>4. ItemsListed(calls[Caller])'
  <2>1. \A i \in items : i.handle \notin DOMAIN c.request
    <3>1. c.pc = "idle" => DOMAIN c.request = {}
      BY DEF AllInv, CallerInv, CallPlaced
    <3>2. c.pc \in EntrySteps => Adding(c) /\ c.pc # "createMonitoredItems"
      BY DEF Adding, EntrySteps
    <3> QED
      BY <1>2, <3>1, <3>2, CallerIsProc DEF AllInv, IdsInv, ItemsAsAnswered
  <2>2. \A i \in items : i.handle \notin DOMAIN frame.request
    BY <1>1, <2>1
  <2>3. items' = items
    BY <1>2 DEF server
  <2>4. \A i \in items : i.sub = subscription /\ i.handle \in DOMAIN monitoredItems
    BY DEF AllInv, InTimeInv, InTime, ItemsListed
  <2> QED
    BY <1>1, <1>2, <2>2, <2>3, <2>4 DEF ItemsListed
<1>5. ListMonitored(calls[Caller])'
  <2>1. \A h \in DOMAIN monitoredItems' : monitoredItems'[h].id # 0 =>
            Monitored(subscription, monitoredItems'[h].id, h)
    BY <1>1, <1>2
    DEF AllInv, InTimeInv, InTime, ListMonitored, EntrySteps
  <2> QED
    BY <1>1, <1>2, <2>1 DEF ListMonitored, Monitored, server
<1>6. SubscriptionUsed(calls[Caller])'
  BY <1>1, <1>2, <1>3
  DEF AllInv, InTimeInv, InTime, SubscriptionUsed, server, EntrySteps
<1> QED
  BY <1>4, <1>5, <1>6 DEF InTimeInv, InTime

LEMMA StartRemoveInTime ==
    ASSUME AllInv, SingleThreaded, NEW op, NEW nodes,
           StartRemove(Caller, op, nodes)
    PROVE  InTimeInv'
<1>1. CASE Crash
  BY <1>1, CrashRests, RestsInTime DEF AllInv
<1>2. CASE ~Crash
  <2>1. \/ Goto(Caller, Idle(op, FALSE))
        \/ \E request, sub :
             Goto(Caller, Call("deleteMonitoredItems", op, request, sub, FALSE))
    BY <1>2, Zenon DEF StartRemove
  <2>2. \A request, sub :
          /\ Call("deleteMonitoredItems", op, request, sub, FALSE).pc
                = "deleteMonitoredItems"
          /\ Call("deleteMonitoredItems", op, request, sub, FALSE).answer = "none"
    BY DEF Call
  <2>3. Idle(op, FALSE).pc = "idle" /\ Idle(op, FALSE).answer = "none"
    BY DEF Idle
  <2>4. PICK frame : /\ calls'[Caller] = frame
                     /\ frame.pc \in {"idle", "deleteMonitoredItems"}
                     /\ frame.answer = "none"
    <3>1. TypeOK /\ Caller \in Procs
      BY CallerIsProc DEF AllInv
    <3>2. CASE Goto(Caller, Idle(op, FALSE))
      BY <2>3, <3>1, <3>2, GotoFrames
    <3>3. ASSUME NEW request, NEW sub,
                 Goto(Caller, Call("deleteMonitoredItems", op, request, sub,
                                   FALSE))
          PROVE  /\ calls'[Caller].pc = "deleteMonitoredItems"
                 /\ calls'[Caller].answer = "none"
      <4> DEFINE frame == Call("deleteMonitoredItems", op, request, sub, FALSE)
      <4>1. /\ Goto(Caller, frame)
            /\ frame.pc = "deleteMonitoredItems"
            /\ frame.answer = "none"
        BY <2>2, <3>3
      <4> HIDE DEF frame
      <4> QED
        BY <3>1, <4>1, GotoFrames
    <3> QED
      BY <2>1, <2>3, <3>2, <3>3
  <2>5. UNCHANGED <<server, client>> /\ calls[Caller].pc = "idle"
    BY <1>2 DEF StartRemove
  <2> QED
    BY <2>4, <2>5
    DEF AllInv, InTimeInv, InTime, ItemsListed, ListMonitored, Monitored,
        SubscriptionUsed, Adding, EntrySteps, client, server
<1> QED
  BY <1>1, <1>2

(* The server's steps.                                                     *)
LEMMA RefuseInTime ==
    ASSUME AllInv, SingleThreaded, Refuse(Caller) PROVE InTimeInv'
<1> DEFINE c == calls[Caller]
<1>0. TypeOK /\ Caller \in Procs
  BY CallerIsProc DEF AllInv
<1>1. PICK frame : /\ Goto(Caller, frame)
                   /\ frame.pc = c.pc
                   /\ frame.request = c.request
                   /\ frame.answer = "bad"
  BY AnswerGoes DEF Refuse
<1>2. calls'[Caller] = frame
  BY <1>0, <1>1, GotoFrames
<1>3. UNCHANGED <<client, server>> /\ c.answer = "none"
  BY DEF Refuse
<1>4. c.pc = "deleteSubscription" => "deleteSubscription" \in Faults
  BY DEF Refuse, ItemServices
<1> QED
  BY <1>1, <1>2, <1>3, <1>4
  DEF AllInv, InTimeInv, InTime, ItemsListed, ListMonitored, Monitored,
      SubscriptionUsed, Adding, EntrySteps, client, server

LEMMA ServeCreateSubscriptionInTime ==
    ASSUME AllInv, SingleThreaded, AnsweredInTime,
           ServeCreateSubscription(Caller)
    PROVE  InTimeInv'
<1> DEFINE c == calls[Caller]
<1>0. TypeOK /\ Caller \in Procs
  BY CallerIsProc DEF AllInv
<1>1. PICK frame : /\ Goto(Caller, frame)
                   /\ frame.pc = c.pc
                   /\ frame.answer = "good"
                   /\ frame.sub = nextSub
  BY AnswerGoes, OnlyGood DEF ServeCreateSubscription
<1>2. calls'[Caller] = frame
  BY <1>0, <1>1, GotoFrames
<1>3. /\ UNCHANGED <<client, items>>
      /\ c.answer = "none" /\ c.pc = "createSubscription"
      /\ DOMAIN serverSubs' = DOMAIN serverSubs \cup {nextSub}
  BY DEF ServeCreateSubscription
<1>4. subscription = Null
  BY <1>3 DEF AllInv, CallerInv, CallPlaced
<1>5. items = {}
  BY <1>4, NoSubscriptionNoItems DEF AllInv
<1>6. DOMAIN serverSubs = {}
  <2>1. \A s \in DOMAIN serverSubs : s = Null
    BY <1>3, <1>4 DEF AllInv, InTimeInv, InTime, SubscriptionUsed
  <2>2. \A s \in DOMAIN serverSubs : 0 < s
    BY DEF AllInv, ServerInv
  <2> QED
    BY <2>1, <2>2 DEF Null
<1>7. ItemsListed(calls[Caller])'
  BY <1>3, <1>5 DEF ItemsListed
<1>8. ListMonitored(calls[Caller])'
  BY <1>1, <1>2, <1>3
  DEF AllInv, InTimeInv, InTime, ListMonitored, Monitored, client
<1>9. SubscriptionUsed(calls[Caller])'
  BY <1>1, <1>2, <1>3, <1>4, <1>6 DEF SubscriptionUsed, client
<1> QED
  BY <1>7, <1>8, <1>9 DEF InTimeInv, InTime

LEMMA ServeCreateMonitoredItemsInTime ==
    ASSUME AllInv, SingleThreaded, AnsweredInTime,
           ServeCreateMonitoredItems(Caller)
    PROVE  InTimeInv'
<1> DEFINE c == calls[Caller]
<1>0. TypeOK /\ Caller \in Procs
  BY CallerIsProc DEF AllInv
<1>1. PICK granted, idOf, frame :
             /\ granted \subseteq DOMAIN c.request
             /\ idOf \in [DOMAIN c.request -> Nat]
             /\ Creates(Caller, granted, idOf, frame)
  BY <1>0, CreatesItems
<1>2. /\ calls'[Caller] = frame
      /\ frame.pc = "createMonitoredItems"
      /\ frame.answer = "good"
      /\ frame.sub = c.sub
      /\ frame.results = [h \in granted |-> idOf[h]]
  BY <1>0, <1>1, GotoFrames, OnlyGood DEF Creates
<1>3. UNCHANGED client /\ c.answer = "none" /\ c.pc = "createMonitoredItems"
  BY DEF ServeCreateMonitoredItems
<1>4. /\ items' = items \cup {[sub |-> c.sub, id |-> idOf[h], handle |-> h,
                               node |-> c.request[h].node] : h \in granted}
      /\ DOMAIN serverSubs' = DOMAIN serverSubs
  BY <1>1 DEF Creates
<1>5. /\ subscription = c.sub
      /\ DOMAIN c.request \subseteq DOMAIN monitoredItems
  BY <1>3 DEF AllInv, CallerInv, CallPlaced, Services, ItemServices, Adding,
           EntrySteps, Between
<1>6. \A i \in items' : i.sub = subscription /\ i.handle \in DOMAIN monitoredItems
  BY <1>1, <1>4, <1>5 DEF AllInv, InTimeInv, InTime, ItemsListed
<1>7. ItemsListed(calls[Caller])'
  BY <1>2, <1>3, <1>6 DEF ItemsListed, client
<1>8. ListMonitored(calls[Caller])'
  <2>1. \A s, id, h : Monitored(s, id, h) => Monitored(s, id, h)'
    BY <1>4 DEF Monitored
  <2>2. \A h \in granted : \A s : s = c.sub => Monitored(s, idOf[h], h)'
    <3> SUFFICES ASSUME NEW h \in granted, NEW s, s = c.sub
                 PROVE  Monitored(s, idOf[h], h)'
      OBVIOUS
    <3> DEFINE i == [sub |-> c.sub, id |-> idOf[h], handle |-> h,
                     node |-> c.request[h].node]
    <3>1. i \in items'
      BY <1>4
    <3>2. i.handle = h /\ i.id = idOf[h] /\ i.sub = s
      OBVIOUS
    <3> HIDE DEF i
    <3> QED
      BY <3>1, <3>2 DEF Monitored
  <2>3. \A h \in DOMAIN monitoredItems' : monitoredItems'[h].id # 0 =>
            Monitored(subscription, monitoredItems[h].id, h)'
    BY <1>3, <2>1 DEF AllInv, InTimeInv, InTime, ListMonitored, client
  <2>4. \A h \in DOMAIN frame.results :
            Monitored(calls[Caller].sub, calls[Caller].results[h], h)'
    BY <1>2, <2>2
  <2> QED
    BY <1>2, <2>3, <2>4 DEF ListMonitored
<1>9. SubscriptionUsed(calls[Caller])'
  BY <1>2, <1>3, <1>4 DEF AllInv, InTimeInv, InTime, SubscriptionUsed, client
<1> QED
  BY <1>7, <1>8, <1>9 DEF InTimeInv, InTime

LEMMA ServeDeleteMonitoredItemsInTime ==
    ASSUME AllInv, SingleThreaded, AnsweredInTime,
           ServeDeleteMonitoredItems(Caller)
    PROVE  InTimeInv'
<1> DEFINE c == calls[Caller]
           of(h) == {i \in items : i.sub = c.sub /\ i.id = c.request[h].id}
<1>0. TypeOK /\ Caller \in Procs
  BY CallerIsProc DEF AllInv
<1>1. PICK deleted \in SUBSET {h \in DOMAIN c.request : of(h) # {}} :
             /\ items' = items \ UNION {of(h) : h \in deleted}
             /\ Answer(Caller, "good", c.sub,
                       [h \in deleted |-> c.request[h].id])
  BY OnlyGood DEF ServeDeleteMonitoredItems
<1>2. PICK frame : /\ Goto(Caller, frame)
                   /\ frame.pc = c.pc
                   /\ frame.answer = "good"
                   /\ frame.sub = c.sub
                   /\ DOMAIN frame.results = deleted
  BY <1>1, AnswerGoes
<1>3. calls'[Caller] = frame
  BY <1>0, <1>2, GotoFrames
<1>4. /\ UNCHANGED <<client, serverSubs>>
      /\ c.answer = "none" /\ c.pc = "deleteMonitoredItems"
  BY DEF ServeDeleteMonitoredItems
<1>5. /\ subscription = c.sub
      /\ DOMAIN c.request \subseteq DOMAIN monitoredItems
      /\ \A h \in DOMAIN c.request : c.request[h] = monitoredItems[h]
  BY <1>4 DEF AllInv, CallerInv, CallPlaced, Services, ItemServices, Adding,
           EntrySteps, Between
<1>6. ItemsListed(calls[Caller])'
  <2>1. ASSUME NEW i \in items', i.handle \in deleted PROVE FALSE
    <3>1. i \in items /\ i \notin of(i.handle)
      BY <1>1, <2>1
    <3>2. PICK j \in items : j.id = c.request[i.handle].id
      BY <1>1, <2>1
    <3>3. j.id # 0
      BY <1>0 DEF TypeOK
    <3>4. i.handle \in DOMAIN c.request
      BY <1>1, <2>1
    <3>5. c.request[i.handle].id \in {0, i.id}
      BY <1>5, <3>1, <3>4 DEF AllInv, IdsInv, SameIds
    <3>6. i.sub = c.sub
      BY <1>5, <3>1 DEF AllInv, InTimeInv, InTime, ItemsListed
    <3> QED
      BY <3>1, <3>2, <3>3, <3>5, <3>6
  <2>2. \A i \in items' : i.sub = subscription /\ i.handle \in DOMAIN monitoredItems
    BY <1>1 DEF AllInv, InTimeInv, InTime, ItemsListed
  <2> QED
    BY <1>2, <1>3, <1>4, <2>1, <2>2 DEF ItemsListed, Adding, client
<1>7. ListMonitored(calls[Caller])'
  <2>1. ASSUME NEW h \in DOMAIN monitoredItems, monitoredItems[h].id # 0,
               h \notin deleted
        PROVE  Monitored(subscription, monitoredItems[h].id, h)'
    <3>1. PICK i \in items : /\ i.handle = h
                             /\ i.id = monitoredItems[h].id
                             /\ i.sub = subscription
      BY <1>4, <2>1 DEF AllInv, InTimeInv, InTime, ListMonitored, Monitored
    <3>2. ASSUME NEW g \in deleted, i \in of(g) PROVE FALSE
      <4>1. /\ g \in DOMAIN monitoredItems
            /\ i.id = monitoredItems[g].id
            /\ i.id # 0
        BY <1>0, <1>1, <1>5, <3>2 DEF TypeOK
      <4>2. i.handle = g
        BY <3>1, <4>1 DEF AllInv, NamesInv, IdsName, Names
      <4> QED
        BY <2>1, <3>1, <4>2
    <3>3. i \in items'
      BY <1>1, <3>2
    <3> QED
      BY <1>4, <3>1, <3>3 DEF Monitored, client
  <2> QED
    BY <1>2, <1>3, <1>4, <2>1 DEF ListMonitored, client
<1>8. SubscriptionUsed(calls[Caller])'
  BY <1>2, <1>3, <1>4 DEF AllInv, InTimeInv, InTime, SubscriptionUsed, client
<1> QED
  BY <1>6, <1>7, <1>8 DEF InTimeInv, InTime

LEMMA ServeDeleteSubscriptionInTime ==
    ASSUME AllInv, SingleThreaded, AnsweredInTime,
           ServeDeleteSubscription(Caller)
    PROVE  InTimeInv'
<1> DEFINE c == calls[Caller]
<1>0. TypeOK /\ Caller \in Procs
  BY CallerIsProc DEF AllInv
<1>1. PICK frame : /\ Goto(Caller, frame)
                   /\ frame.pc = c.pc
                   /\ frame.answer = "good"
                   /\ frame.sub = c.sub
  BY AnswerGoes, OnlyGood DEF ServeDeleteSubscription
<1>2. calls'[Caller] = frame
  BY <1>0, <1>1, GotoFrames
<1>3. /\ UNCHANGED client /\ items' \subseteq items
      /\ c.answer = "none" /\ c.pc = "deleteSubscription"
      /\ DOMAIN serverSubs' = DOMAIN serverSubs \ {c.sub}
  BY DEF ServeDeleteSubscription, Restrict
<1>4. DOMAIN monitoredItems = {} /\ subscription = c.sub
  BY <1>3 DEF AllInv, CallerInv, CallPlaced, Services, ItemServices
<1>5. items' = {}
  BY <1>3, <1>4 DEF AllInv, InTimeInv, InTime, ItemsListed
<1>6. ItemsListed(calls[Caller])'
  BY <1>5 DEF ItemsListed
<1>7. ListMonitored(calls[Caller])'
  BY <1>1, <1>2, <1>3, <1>4 DEF ListMonitored, client
<1>8. SubscriptionUsed(calls[Caller])'
  BY <1>1, <1>2, <1>3, <1>4
  DEF AllInv, InTimeInv, InTime, SubscriptionUsed, client
<1> QED
  BY <1>6, <1>7, <1>8 DEF InTimeInv, InTime

(* How the frames say that a call ends or goes on.                         *)
LEMMA CreateSubscriptionReturnsFresh ==
    ASSUME TypeOK, NEW p \in Procs, CreateSubscriptionReturns(p)
    PROVE  /\ calls'[p].pc \in {"idle", "createMonitoredItems"}
           /\ calls'[p].answer = "none"
<1>1. CASE Goto(p, Idle("add", TRUE))
  <2>1. Idle("add", TRUE).pc = "idle" /\ Idle("add", TRUE).answer = "none"
    BY DEF Idle
  <2> QED
    BY <1>1, <2>1, GotoFrames
<1>2. ASSUME NEW request, NEW sub,
             Goto(p, Call("createMonitoredItems", "add", request, sub, FALSE))
      PROVE  /\ calls'[p].pc = "createMonitoredItems"
             /\ calls'[p].answer = "none"
  <2> DEFINE frame == Call("createMonitoredItems", "add", request, sub, FALSE)
  <2>1. frame.pc = "createMonitoredItems" /\ frame.answer = "none"
    BY DEF Call
  <2>2. Goto(p, frame)
    BY <1>2
  <2> HIDE DEF frame
  <2> QED
    BY <2>1, <2>2, GotoFrames
<1>3. \/ Goto(p, Idle("add", TRUE))
      \/ \E request, sub :
            Goto(p, Call("createMonitoredItems", "add", request, sub, FALSE))
  BY Zenon DEF CreateSubscriptionReturns
<1> QED
  BY <1>1, <1>2, <1>3

LEMMA EndsOrDeletes ==
    ASSUME TypeOK, NEW p \in Procs, NEW op, NEW thrown, subscription # Null
    PROVE  /\ Goto(p, Idle(op, thrown)) =>
                 calls'[p].pc = "idle" /\ calls'[p].answer = "none"
           /\ DeleteSubscriptionOrEnd(p, op, thrown) =>
                 /\ calls'[p].pc = "deleteSubscription"
                 /\ calls'[p].answer = "none"
<1>1. Idle(op, thrown).pc = "idle" /\ Idle(op, thrown).answer = "none"
  BY DEF Idle
<1> DEFINE frame == Call("deleteSubscription", op, NoItems, subscription, thrown)
<1>2. frame.pc = "deleteSubscription" /\ frame.answer = "none"
  BY DEF Call
<1>3. DeleteSubscriptionOrEnd(p, op, thrown) => Goto(p, frame)
  BY DEF DeleteSubscriptionOrEnd
<1> HIDE DEF frame
<1> QED
  BY <1>1, <1>2, <1>3, GotoFrames

(* The steps with which a call returns.                                    *)
LEMMA CreateSubscriptionReturnsInTime ==
    ASSUME AllInv, SingleThreaded, CreateSubscriptionReturns(Caller)
    PROVE  InTimeInv'
<1> DEFINE c == calls[Caller]
<1>0. TypeOK /\ Caller \in Procs
  BY CallerIsProc DEF AllInv
<1>1. /\ UNCHANGED <<monitoredItems, server>>
      /\ c.pc = "createSubscription" /\ subscription = Null
      /\ DOMAIN monitoredItems # {}
  <2>1. /\ UNCHANGED <<monitoredItems, server>>
        /\ c.pc = "createSubscription"
    BY DEF CreateSubscriptionReturns
  <2> QED
    BY <2>1 DEF AllInv, CallerInv, CallPlaced, Adding, Between
<1>2. items = {}
  BY <1>1, NoSubscriptionNoItems DEF AllInv
<1>3. \A h \in DOMAIN monitoredItems : monitoredItems[h].id = 0
  BY <1>1 DEF AllInv, CallerInv, SubscriptionHeld
<1>4. \A s \in DOMAIN serverSubs : s # Null
  BY DEF AllInv, ServerInv, Null
<1>5. /\ calls'[Caller].pc \in {"idle", "createMonitoredItems"}
      /\ calls'[Caller].answer = "none"
  BY <1>0, <1>1, CreateSubscriptionReturnsFresh
<1>6. \/ c.answer = "good" /\ subscription' = c.sub
      \/ c.answer = "bad" /\ subscription' = Null
  BY DEF CreateSubscriptionReturns
<1>7. ItemsListed(calls[Caller])'
  BY <1>1, <1>2 DEF ItemsListed, server
<1>8. ListMonitored(calls[Caller])'
  BY <1>1, <1>3, <1>5 DEF ListMonitored
<1>9. SubscriptionUsed(calls[Caller])'
  BY <1>1, <1>4, <1>5, <1>6
  DEF AllInv, InTimeInv, InTime, SubscriptionUsed, server
<1> QED
  BY <1>7, <1>8, <1>9 DEF InTimeInv, InTime

LEMMA CreateMonitoredItemsReturnsInTime ==
    ASSUME AllInv, SingleThreaded, CreateMonitoredItemsReturns(Caller)
    PROVE  InTimeInv'
<1> DEFINE c == calls[Caller]
           kept == DOMAIN monitoredItems \ Failed(c)
<1>0. TypeOK /\ Caller \in Procs
  BY CallerIsProc DEF AllInv
<1>1. CASE Crash
  BY <1>1, CrashRests, RestsInTime DEF AllInv
<1>2. CASE ~Crash
  <2>1. /\ monitoredItems' =
              [h \in kept |->
                  IF h \in Granted(c)
                  THEN [node |-> monitoredItems[h].node, id |-> c.results[h]]
                  ELSE monitoredItems[h]]
        /\ UNCHANGED <<subscription, server>>
        /\ c.pc = "createMonitoredItems"
        /\ \/ /\ Failed(c) # {} /\ kept = {}
              /\ DeleteSubscriptionOrEnd(Caller, "add", TRUE)
           \/ /\ Failed(c) = {} \/ kept # {}
              /\ Goto(Caller, Idle("add", Failed(c) # {}))
    BY <1>2 DEF CreateMonitoredItemsReturns, ResultOf
  <2>2. /\ subscription = c.sub /\ subscription # Null
        /\ DOMAIN c.request # {}
        /\ DOMAIN c.request \subseteq DOMAIN monitoredItems
    BY <2>1 DEF AllInv, CallerInv, CallPlaced, Services, ItemServices, Adding,
           EntrySteps, Between
  <2>3. /\ calls'[Caller].answer = "none"
        /\ \/ kept = {} /\ calls'[Caller].pc = "deleteSubscription"
           \/ kept # {} /\ calls'[Caller].pc = "idle"
    <3>1. kept = {} => Failed(c) # {}
      BY <2>2
    <3> QED
      BY <1>0, <2>1, <2>2, <3>1, EndsOrDeletes
  <2>4. ItemsListed(calls[Caller])'
    <3>1. ASSUME NEW i \in items
          PROVE  i.sub = subscription /\ i.handle \in kept
      <4>1. i.sub = subscription /\ i.handle \in DOMAIN monitoredItems
        BY DEF AllInv, InTimeInv, InTime, ItemsListed
      <4>2. i.handle \in DOMAIN c.request =>
               c.answer = "good" /\ i.handle \in DOMAIN c.results
        BY <1>0, <2>1 DEF AllInv, InTimeInv, InTime, ItemsListed, IdsInv,
                          ItemsAsAnswered, Adding
      <4> QED
        BY <4>1, <4>2 DEF Failed, Granted
    <3>2. DOMAIN monitoredItems' = kept /\ items' = items
      BY <2>1 DEF server
    <3> QED
      BY <2>1, <2>3, <3>1, <3>2 DEF ItemsListed, Adding, EntrySteps
  <2>5. ListMonitored(calls[Caller])'
    <3>1. ASSUME NEW h \in DOMAIN monitoredItems', monitoredItems'[h].id # 0
          PROVE  Monitored(subscription, monitoredItems'[h].id, h)
      <4>1. CASE h \in Granted(c)
        <5>1. monitoredItems'[h].id = c.results[h]
          BY <2>1, <4>1
        <5>2. c.answer = "good" /\ h \in DOMAIN c.results
          BY <4>1 DEF Granted
        <5> QED
          BY <2>1, <2>2, <5>1, <5>2
          DEF AllInv, InTimeInv, InTime, ListMonitored
      <4>2. CASE h \notin Granted(c)
        BY <2>1, <3>1, <4>2 DEF AllInv, InTimeInv, InTime, ListMonitored
      <4> QED
        BY <4>1, <4>2
    <3> QED
      BY <2>1, <2>3, <3>1 DEF ListMonitored, Monitored, server
  <2>6. SubscriptionUsed(calls[Caller])'
    BY <2>1, <2>3 DEF AllInv, InTimeInv, InTime, SubscriptionUsed, server
  <2> QED
    BY <2>4, <2>5, <2>6 DEF InTimeInv, InTime
<1> QED
  BY <1>1, <1>2

LEMMA DeleteMonitoredItemsReturnsInTime ==
    ASSUME AllInv, SingleThreaded, DeleteMonitoredItemsReturns(Caller)
    PROVE  InTimeInv'
<1> DEFINE c == calls[Caller]
           kept == DOMAIN monitoredItems \ Granted(c)
           failed == IF c.answer = "good"
                     THEN Failed(c) \cap DOMAIN monitoredItems
                     ELSE DOMAIN c.request
<1>0. TypeOK /\ Caller \in Procs
  BY CallerIsProc DEF AllInv
<1>1. CASE Crash
  BY <1>1, CrashRests, RestsInTime DEF AllInv
<1>2. CASE ~Crash
  <2>1. /\ monitoredItems' = Restrict(monitoredItems, kept)
        /\ UNCHANGED <<subscription, server>>
        /\ c.pc = "deleteMonitoredItems"
        /\ \/ /\ failed = {} /\ kept = {}
              /\ DeleteSubscriptionOrEnd(Caller, c.op, FALSE)
           \/ /\ failed # {} \/ kept # {}
              /\ Goto(Caller, Idle(c.op, failed # {}))
    BY <1>2 DEF DeleteMonitoredItemsReturns
  <2>2. /\ subscription = c.sub /\ subscription # Null
        /\ DOMAIN c.request # {}
        /\ DOMAIN c.request \subseteq DOMAIN monitoredItems
    BY <2>1 DEF AllInv, CallerInv, CallPlaced, Services, ItemServices, Adding,
           EntrySteps, Between
  <2>3. /\ calls'[Caller].answer = "none"
        /\ \/ kept = {} /\ calls'[Caller].pc = "deleteSubscription"
           \/ kept # {} /\ calls'[Caller].pc = "idle"
    <3>1. kept = {} => failed = {}
      BY <2>2 DEF Granted, Failed
    <3> QED
      BY <1>0, <2>1, <2>2, <3>1, EndsOrDeletes
  <2>4. /\ DOMAIN monitoredItems' = kept
        /\ \A h \in kept : monitoredItems'[h] = monitoredItems[h]
        /\ items' = items
    BY <2>1 DEF Restrict, server
  <2>5. ItemsListed(calls[Caller])'
    <3>1. ASSUME NEW i \in items
          PROVE  i.sub = subscription /\ i.handle \in kept
      BY <2>1 DEF AllInv, InTimeInv, InTime, ItemsListed, Granted
    <3> QED
      BY <2>1, <2>3, <2>4, <3>1 DEF ItemsListed, Adding, EntrySteps
  <2>6. ListMonitored(calls[Caller])'
    <3>1. ASSUME NEW h \in kept, monitoredItems[h].id # 0
          PROVE  Monitored(subscription, monitoredItems[h].id, h)
      BY <3>1 DEF AllInv, InTimeInv, InTime, ListMonitored, Granted
    <3>2. \A h \in DOMAIN monitoredItems' : monitoredItems'[h].id # 0 =>
            Monitored(subscription, monitoredItems'[h].id, h)
      BY <2>4, <3>1
    <3> QED
      BY <2>1, <2>3, <2>4, <3>2 DEF ListMonitored, Monitored
  <2>7. SubscriptionUsed(calls[Caller])'
    BY <2>1, <2>3, <2>4 DEF AllInv, InTimeInv, InTime, SubscriptionUsed, server
  <2> QED
    BY <2>5, <2>6, <2>7 DEF InTimeInv, InTime
<1> QED
  BY <1>1, <1>2

LEMMA DeleteSubscriptionReturnsInTime ==
    ASSUME AllInv, SingleThreaded, DeleteSubscriptionReturns(Caller)
    PROVE  InTimeInv'
<1> DEFINE c == calls[Caller]
<1>1. /\ UNCHANGED <<monitoredItems, server>>
      /\ DOMAIN monitoredItems = {}
      /\ \/ c.answer = "good" /\ subscription' = Null
         \/ c.answer = "bad" /\ subscription' = subscription
      /\ calls'[Caller].pc = "idle"
  BY DeleteSubscriptionReturnsCaller DEF AllInv
<1>2. c.pc = "deleteSubscription" /\ subscription = c.sub
  <2>1. c.pc = "deleteSubscription"
    BY DEF DeleteSubscriptionReturns
  <2> QED
    BY <2>1 DEF AllInv, CallerInv, CallPlaced, Services, ItemServices
<1>3. items = {}
  BY <1>1 DEF AllInv, InTimeInv, InTime, ItemsListed
<1>4. ItemsListed(calls[Caller])'
  BY <1>1, <1>3 DEF ItemsListed, server
<1>5. ListMonitored(calls[Caller])'
  BY <1>1 DEF ListMonitored
<1>6. SubscriptionUsed(calls[Caller])'
  BY <1>1, <1>2 DEF AllInv, InTimeInv, InTime, SubscriptionUsed, server
<1> QED
  BY <1>4, <1>5, <1>6 DEF InTimeInv, InTime

LEMMA InTimeStep ==
    ASSUME AllInv, SingleThreaded, AnsweredInTime, [Next]_vars
    PROVE  InTimeInv'
<1>1. CASE Serve(Caller)
  BY <1>1, RefuseInTime, ServeCreateSubscriptionInTime,
     ServeCreateMonitoredItemsInTime, ServeDeleteMonitoredItemsInTime,
     ServeDeleteSubscriptionInTime
  DEF Serve
<1>2. CASE Returns(Caller)
  BY <1>2, CreateSubscriptionReturnsInTime, CreateMonitoredItemsReturnsInTime,
     DeleteMonitoredItemsReturnsInTime, DeleteSubscriptionReturnsInTime
  DEF Returns
<1>3. TypeOK /\ SdkAtRest /\ InTimeInv
  BY DEF AllInv, CallerInv
<1> QED
  BY <1>1, <1>2, <1>3, SingleThreadedStep, LoopInTime,
     StartRemoveInTime, RestsInTime

LEMMA InTimeInvariant ==
    ASSUME SingleThreaded, AnsweredInTime
    PROVE  Spec => [](AllInv)
<1>1. Init => InTimeInv
  <2>1. Init => calls[Caller].pc = "idle"
    BY CallerIsProc DEF Init, Idle
  <2>2. Init => /\ DOMAIN monitoredItems = {} /\ items = {}
                /\ DOMAIN serverSubs = {} /\ subscription = Null
    BY DEF Init, NoItems, NoResults
  <2> QED
    BY <2>1, <2>2
    DEF InTimeInv, InTime, ItemsListed, ListMonitored, SubscriptionUsed, Adding
<1> DEFINE Rest == /\ TypeOK /\ ClaimsInv /\ ServerInv /\ CallerInv
                   /\ IdsInv /\ NamesInv
<1>2. Rest /\ InTimeInv /\ [Next]_vars => InTimeInv'
  BY InTimeStep DEF AllInv
<1>3. /\ AttributionInv /\ CallerInv /\ (~raced => IdsInv)
      => TypeOK /\ ClaimsInv /\ IdsInv
  BY DEF AttributionInv, ClaimsInv, CallerInv
<1>4. Spec => []Rest
  BY <1>3, AttributionInvariant, ServerInvariant, CallerInvariant, IdsInvariant,
     NamesInvariant, PTL
<1>5. Rest /\ InTimeInv => AllInv
  BY DEF AllInv
<1> HIDE DEF Rest
<1> QED
  BY <1>1, <1>2, <1>4, <1>5, PTL DEF Spec

(* The comment of add, "the nodes are in the internal lists before": an    *)
(* item that the server may publish values of is in the list, at every     *)
(* moment of every add and remove, whatever the server refuses.            *)
THEOREM EveryItemListedCorrect ==
    ASSUME SingleThreaded, AnsweredInTime PROVE Spec => []EveryItemListed
<1>1. AllInv => EveryItemListed
  BY DEF AllInv, InTimeInv, InTime, ItemsListed, EveryItemListed
<1> QED
  BY <1>1, InTimeInvariant, PTL

(* Between operations, failed ones included, every entry with an id is an  *)
(* item that the server still monitors.                                    *)
THEOREM ListedItemsExistCorrect ==
    ASSUME SingleThreaded, AnsweredInTime PROVE Spec => []ListedItemsExist
<1>1. AllInv => ListedItemsExist
  BY CallerIsProc DEF AllInv, InTimeInv, InTime, ListMonitored, Monitored,
                      ListedItemsExist, Quiet
<1> QED
  BY <1>1, InTimeInvariant, PTL

(* Between operations the server has no subscription but the one that the  *)
(* object points at, and an empty list points at none, unless the server   *)
(* refused to delete it.                                                   *)
THEOREM NoSubscriptionLeakedCorrect ==
    ASSUME SingleThreaded, AnsweredInTime PROVE Spec => []NoSubscriptionLeaked
<1>1. AllInv => NoSubscriptionLeaked
  BY CallerIsProc DEF AllInv, InTimeInv, InTime, SubscriptionUsed, NoItems,
                      NoSubscriptionLeaked, Quiet
<1> QED
  BY <1>1, InTimeInvariant, PTL
=============================================================================
