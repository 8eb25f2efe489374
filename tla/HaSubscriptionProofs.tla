----------------------- MODULE HaSubscriptionProofs -----------------------
(* Theorems about HaSubscription, for any nodes, threads, faults and bounds.*)
EXTENDS HaSubscription, TLAPS

-----------------------------------------------------------------------------
(* Types.                                                                  *)

(* A step that gives thread p a well typed frame keeps all frames so.      *)
LEMMA GotoOK ==
    ASSUME CallsOK, NEW p \in Procs, NEW frame, FrameOK(frame), Goto(p, frame)
    PROVE  CallsOK'
BY DEF CallsOK, Goto, FrameOK

LEMMA IdleOK ==
    ASSUME NEW op, NEW thrown \in BOOLEAN
    PROVE  FrameOK(Idle(op, thrown))
BY DEF FrameOK, Idle, IsItems, NoItems, NoNodes, NoResults, Null, Services,
       ItemServices

LEMMA CallOK ==
    ASSUME NEW service \in Services, NEW op, NEW request, IsItems(request),
           NEW sub \in Nat, NEW thrown \in BOOLEAN
    PROVE  FrameOK(Call(service, op, request, sub, thrown))
<1>1. service \notin {"counting", "counted"}
  BY DEF Services, ItemServices
<1> QED
  BY <1>1 DEF FrameOK, Call, IsItems, NoNodes, NoResults

(* Nodes by their place in a request.                                      *)
IsNodes(todo) == DOMAIN todo \subseteq Nat /\ todo \in [DOMAIN todo -> Nodes]

LEMMA EntryOK ==
    ASSUME NEW step \in EntrySteps, NEW todo, IsNodes(todo),
           step # "next" => DOMAIN todo # {},
           NEW handle \in Nat, NEW request, IsItems(request)
    PROVE  FrameOK(Entry(step, todo, handle, request))
<1>1. step \in {"counting", "counted"} => DOMAIN todo # {}
  BY DEF EntrySteps
<1> QED
  BY <1>1 DEF FrameOK, Entry, IsItems, IsNodes, NoResults, Null

LEMMA NoItemsOK == IsItems(NoItems)
BY DEF IsItems, NoItems

(* So is a list with one item more.                                        *)
LEMMA WithItemOK ==
    ASSUME NEW f, IsItems(f), NEW handle \in Nat, NEW node \in Nodes
    PROVE  IsItems(WithItem(f, handle, node))
BY DEF IsItems, WithItem, Waiting, Item

(* A part of a list of items is a list of items.                           *)
LEMMA RestrictOK ==
    ASSUME NEW f, IsItems(f), NEW S, S \subseteq DOMAIN f
    PROVE  IsItems(Restrict(f, S))
BY DEF IsItems, Restrict

LEMMA TypeInit == Init => TypeOK
<1> SUFFICES ASSUME Init PROVE TypeOK
  OBVIOUS
<1>1. CallsOK
  BY IdleOK DEF Init, CallsOK
<1>2. IsItems(monitoredItems)
  BY NoItemsOK DEF Init
<1>3. serverSubs = [s \in DOMAIN serverSubs |-> serverSubs[s]]
  BY DEF Init, NoResults
<1>4. DOMAIN serverSubs = {}
  BY DEF Init, NoResults
<1>5. /\ clientHandleCounter = 1 /\ subscription = 0
      /\ callback = {} /\ nextSub = 1 /\ items = {} /\ published = {}
      /\ sdkObjects = {} /\ expired = {}
  BY DEF Init, Null
<1>6. /\ clientHandleCounter \in Nat \ {0} /\ subscription \in Nat
      /\ callback \subseteq [node: Nodes, source: Nodes]
      /\ nextSub \in Nat
      /\ sdkObjects \subseteq Nat /\ expired \subseteq Nat
      /\ items \subseteq [sub: Nat, id: Nat \ {0}, handle: Nat, node: Nodes]
      /\ published \subseteq [sub: Nat, handle: Nat, node: Nodes]
  BY <1>5
<1>7. /\ DOMAIN serverSubs \subseteq Nat
      /\ \A s \in DOMAIN serverSubs : serverSubs[s] \in Nat
  BY <1>4
<1>8. crashed \in BOOLEAN /\ raced \in BOOLEAN
  BY DEF Init
<1> QED
  BY <1>1, <1>2, <1>3, <1>6, <1>7, <1>8, Zenon DEF TypeOK

LEMMA CrashType == TypeOK /\ Crash => TypeOK'
BY DEF TypeOK, Crash, client, server, IsItems, CallsOK, FrameOK

LEMMA AddType ==
    ASSUME TypeOK, NEW t \in Threads, Add(t) PROVE TypeOK'
<1>1. PICK n \in 1 .. MaxRequest : \E todo \in [1 .. n -> Nodes] :
        Goto(t, Entry("next", todo, 0, NoItems))
  BY DEF Add
<1>2. PICK todo \in [1 .. n -> Nodes] :
        Goto(t, Entry("next", todo, 0, NoItems))
  BY <1>1
<1>3. IsNodes(todo)
  BY <1>2 DEF IsNodes
<1>4. FrameOK(Entry("next", todo, 0, NoItems))
  BY <1>3, EntryOK, NoItemsOK DEF EntrySteps
<1>5. CallsOK'
  BY <1>2, <1>4, GotoOK DEF TypeOK, Procs
<1> QED
  BY <1>5 DEF TypeOK, Add, client, server, IsItems

(* The steps of the loop of add.                                           *)
LEMMA EntersType ==
    ASSUME TypeOK, NEW p \in Procs, Enters(p) PROVE TypeOK'
<1> DEFINE c == calls[p]
<1>1. FrameOK(c)
  BY DEF TypeOK, CallsOK
<1>2. IsNodes(c.todo) /\ IsItems(c.request) /\ c.handle \in Nat
  BY <1>1 DEF FrameOK, IsNodes
<1>3. CASE ReadCounter(p)
  <2>1. FrameOK(Entry("counting", c.todo, NextHandle, c.request))
    BY <1>2, <1>3, EntryOK DEF ReadCounter, EntrySteps, NextHandle, TypeOK
  <2>2. CallsOK' /\ raced' \in BOOLEAN
    BY <1>3, <2>1, GotoOK DEF ReadCounter, TypeOK
  <2> QED
    BY <1>3, <2>2 DEF ReadCounter, TypeOK, client, server, IsItems
<1>4. CASE WriteCounter(p)
  <2>1. FrameOK(Entry("counted", c.todo, c.handle, c.request))
    BY <1>1, <1>2, <1>4, EntryOK DEF WriteCounter, EntrySteps, FrameOK
  <2>2. CallsOK' /\ clientHandleCounter' \in Nat \ {0}
    BY <1>2, <1>4, <2>1, GotoOK DEF WriteCounter, TypeOK
  <2> QED
    BY <1>4, <2>2 DEF WriteCounter, TypeOK, server, IsItems
<1>5. CASE EnterItem(p)
  <2>1. PICK place \in DOMAIN c.todo : Enter(p, place)
    BY <1>5 DEF EnterItem
  <2> DEFINE rest == Restrict(c.todo, DOMAIN c.todo \ {place})
             request == WithItem(c.request, c.handle, c.todo[place])
  <2>2. c.todo[place] \in Nodes
    BY <1>2 DEF IsNodes
  <2>3. IsNodes(rest)
    BY <1>2 DEF IsNodes, Restrict
  <2>4. IsItems(request) /\ IsItems(monitoredItems')
    BY <1>2, <2>1, <2>2, WithItemOK DEF Enter, TypeOK
  <2>5. Goto(p, Entry("next", rest, 0, request))
    BY <2>1 DEF Enter
  <2> HIDE DEF rest, request
  <2>6. FrameOK(Entry("next", rest, 0, request))
    BY <2>3, <2>4, EntryOK DEF EntrySteps
  <2>7. CallsOK'
    BY <2>5, <2>6, GotoOK DEF TypeOK
  <2> QED
    BY <1>5, <2>4, <2>7 DEF EnterItem, TypeOK, server
<1>6. CASE AllEntered(p)
  <2>1. ASSUME NEW service \in Services
        PROVE  FrameOK(Call(service, "add", c.request, subscription, FALSE))
    BY <1>2, CallOK DEF TypeOK
  <2>2. CallsOK'
    BY <1>6, <2>1, GotoOK DEF AllEntered, TypeOK, Services, ItemServices
  <2> QED
    BY <1>6, <2>2 DEF AllEntered, TypeOK, client, server, IsItems
<1> QED
  BY <1>3, <1>4, <1>5, <1>6 DEF Enters

LEMMA CreateSubscriptionReturnsType ==
    ASSUME TypeOK, NEW p \in Procs, CreateSubscriptionReturns(p) PROVE TypeOK'
<1>1. FrameOK(calls[p])
  BY DEF TypeOK, CallsOK
<1>2. CallsOK'
  BY <1>1, CallOK, IdleOK, GotoOK
  DEF TypeOK, CreateSubscriptionReturns, FrameOK, Services, ItemServices
<1>3. subscription' \in Nat /\ sdkObjects' \subseteq Nat
  <2>1. calls[p].sub \in Nat /\ Null \in Nat /\ sdkObjects \subseteq Nat
    BY <1>1 DEF TypeOK, FrameOK, Null
  <2>2. \/ /\ subscription' = calls[p].sub
           /\ sdkObjects' = sdkObjects \cup {calls[p].sub}
        \/ subscription' = Null /\ sdkObjects' = sdkObjects
    BY DEF CreateSubscriptionReturns
  <2> QED
    BY <2>1, <2>2
<1>4. UNCHANGED <<monitoredItems, clientHandleCounter, callback, crashed,
                  server, published, expired>>
  BY DEF CreateSubscriptionReturns
<1>5. UNCHANGED raced
  BY DEF CreateSubscriptionReturns
<1>6. crashed' \in BOOLEAN /\ raced' \in BOOLEAN
  BY <1>4, <1>5, Zenon DEF TypeOK
<1> QED
  BY <1>2, <1>3, <1>4, <1>6 DEF TypeOK, server, IsItems

(* The frame left by deleteSubscription, or by the return without it.      *)
LEMMA DeleteSubscriptionOrEndOK ==
    ASSUME TypeOK, NEW p \in Procs, NEW op, NEW thrown \in BOOLEAN,
           DeleteSubscriptionOrEnd(p, op, thrown)
    PROVE  CallsOK'
BY NoItemsOK, IdleOK, CallOK, GotoOK
DEF TypeOK, DeleteSubscriptionOrEnd, Services

LEMMA CreateMonitoredItemsReturnsType ==
    ASSUME TypeOK, NEW p \in Procs, CreateMonitoredItemsReturns(p)
    PROVE  TypeOK'
<1> DEFINE c == calls[p]
           kept == DOMAIN monitoredItems \ Failed(c)
<1>1. FrameOK(c)
  BY DEF TypeOK, CallsOK
<1>2. CASE Crash
  BY <1>2, CrashType
<1>3. CASE ~Crash
  <2>1. /\ monitoredItems' =
              [h \in kept |-> IF h \in Granted(c)
                              THEN [node |-> monitoredItems[h].node,
                                    id |-> c.results[h]]
                              ELSE monitoredItems[h]]
        /\ IF Failed(c) # {} /\ kept = {}
           THEN DeleteSubscriptionOrEnd(p, "add", TRUE)
           ELSE Goto(p, Idle("add", Failed(c) # {}))
        /\ UNCHANGED <<clientHandleCounter, subscription, callback, crashed,
                       sdkObjects, server, published, expired, raced>>
    BY <1>3 DEF CreateMonitoredItemsReturns, ResultOf
  <2>2. \A h \in Granted(c) : c.results[h] \in Nat \ {0}
    BY <1>1 DEF Granted, FrameOK
  <2>3. IsItems(monitoredItems)'
    <3>1. \A h \in kept : h \in Nat /\ monitoredItems[h] \in Item
      BY DEF TypeOK, IsItems
    <3> QED
      BY <2>1, <2>2, <3>1 DEF IsItems, Item
  <2>4. CallsOK'
    BY <2>1, DeleteSubscriptionOrEndOK, IdleOK, GotoOK DEF TypeOK
  <2>5. crashed' \in BOOLEAN /\ raced' \in BOOLEAN
    BY <2>1, Zenon DEF TypeOK
  <2> QED
    BY <2>1, <2>3, <2>4, <2>5 DEF TypeOK, server
<1> QED
  BY <1>2, <1>3

LEMMA StartRemoveType ==
    ASSUME TypeOK, NEW t \in Threads, NEW op, NEW nodes,
           StartRemove(t, op, nodes)
    PROVE  TypeOK'
<1> DEFINE chosen == Restrict(monitoredItems, FirstHandles(nodes))
<1>1. CASE Crash
  BY <1>1, CrashType
<1>2. CASE ~Crash
  <2>1. IsItems(chosen)
    BY RestrictOK DEF TypeOK, FirstHandles
  <2>2. FrameOK(Idle(op, FALSE))
    BY IdleOK
  <2>3. FrameOK(Call("deleteMonitoredItems", op, chosen, subscription, FALSE))
    BY <2>1, CallOK DEF TypeOK, Services, ItemServices
  <2>4. CallsOK'
    BY <1>2, <2>2, <2>3, GotoOK DEF TypeOK, StartRemove, Procs
  <2> QED
    BY <1>2, <2>4 DEF TypeOK, StartRemove, client, server, IsItems
<1> QED
  BY <1>1, <1>2

LEMMA DeleteMonitoredItemsReturnsType ==
    ASSUME TypeOK, NEW p \in Procs, DeleteMonitoredItemsReturns(p)
    PROVE  TypeOK'
<1>1. CASE Crash
  BY <1>1, CrashType
<1>2. CASE ~Crash
  <2>1. IsItems(monitoredItems)'
    <3> DEFINE kept == DOMAIN monitoredItems \ Granted(calls[p])
    <3>1. monitoredItems' = Restrict(monitoredItems, kept)
      BY <1>2 DEF DeleteMonitoredItemsReturns
    <3>2. IsItems(Restrict(monitoredItems, kept))
      BY RestrictOK DEF TypeOK
    <3> QED
      BY <3>1, <3>2
  <2>2. CallsOK'
    <3> DEFINE c == calls[p]
               kept == DOMAIN monitoredItems \ Granted(c)
               failed == IF c.answer = "good"
                         THEN Failed(c) \cap DOMAIN monitoredItems
                         ELSE DOMAIN c.request
    <3>1. IF failed = {} /\ kept = {}
          THEN DeleteSubscriptionOrEnd(p, c.op, FALSE)
          ELSE Goto(p, Idle(c.op, failed # {}))
      BY <1>2 DEF DeleteMonitoredItemsReturns
    <3>2. FrameOK(Idle(c.op, failed # {}))
      BY IdleOK
    <3> HIDE DEF failed, kept
    <3> QED
      BY <3>1, <3>2, DeleteSubscriptionOrEndOK, GotoOK DEF TypeOK
  <2> QED
    BY <1>2, <2>1, <2>2 DEF TypeOK, DeleteMonitoredItemsReturns, server
<1> QED
  BY <1>1, <1>2

(* What the end of subscriptionStatusChanged leaves behind.                *)
LEMMA AddAgainType ==
    ASSUME TypeOK, NEW p \in Procs, NEW old, IsItems(old), AddAgain(p, old)
    PROVE  CallsOK'
<1> DEFINE todo == [h \in DOMAIN old |-> old[h].node]
<1>1. IsNodes(todo)
  BY DEF IsNodes, IsItems, Item
<1>2. Goto(p, Idle("resubscribe", FALSE)) \/ Goto(p, Entry("next", todo, 0, NoItems))
  BY DEF AddAgain
<1> HIDE DEF todo
<1>3. FrameOK(Entry("next", todo, 0, NoItems))
  BY <1>1, EntryOK, NoItemsOK DEF EntrySteps
<1> QED
  BY <1>2, <1>3, IdleOK, GotoOK DEF TypeOK

LEMMA DeleteSubscriptionReturnsType ==
    ASSUME TypeOK, NEW p \in Procs, DeleteSubscriptionReturns(p) PROVE TypeOK'
<1> DEFINE c == calls[p]
<1>1. FrameOK(c)
  BY DEF TypeOK, CallsOK
<1>2. CASE c.answer = "bad"
  <2>1. CallsOK'
    BY <1>2, IdleOK, GotoOK DEF TypeOK, DeleteSubscriptionReturns
  <2> QED
    BY <1>2, <2>1
    DEF TypeOK, DeleteSubscriptionReturns, client, server, IsItems
<1>3. CASE c.answer = "good"
  <2>1. CallsOK'
    <3>1. CASE c.op = "resubscribe"
      <4>1. IsItems(c.request)
        BY <1>1 DEF FrameOK
      <4>2. AddAgain(p, c.request)
        BY <1>3, <3>1 DEF DeleteSubscriptionReturns
      <4> QED
        BY <4>1, <4>2, AddAgainType
    <3>2. CASE c.op # "resubscribe"
      <4>1. FrameOK(Idle(c.op, c.thrown))
        BY <1>1, IdleOK DEF FrameOK
      <4> QED
        BY <1>3, <3>2, <4>1, GotoOK
        DEF TypeOK, DeleteSubscriptionReturns
    <3> QED
      BY <3>1, <3>2
  <2> QED
    BY <1>3, <2>1 DEF TypeOK, DeleteSubscriptionReturns, Null, server, IsItems
<1> QED
  BY <1>2, <1>3 DEF DeleteSubscriptionReturns

LEMMA StatusChangedType == TypeOK /\ StatusChanged => TypeOK'
<1> SUFFICES ASSUME TypeOK, StatusChanged PROVE TypeOK'
  OBVIOUS
<1>1. CASE Crash
  BY <1>1, CrashType
<1>2. CASE ~Crash
  <2>1. CallsOK'
    BY <1>2, CallOK, GotoOK DEF TypeOK, StatusChanged, Services, Procs
  <2> QED
    BY <1>2, <2>1, NoItemsOK DEF TypeOK, StatusChanged, server
<1> QED
  BY <1>1, <1>2

LEMMA DeliverType == TypeOK /\ Deliver => TypeOK'
<1> SUFFICES ASSUME TypeOK, Deliver PROVE TypeOK'
  OBVIOUS
<1>1. callback' \subseteq [node: Nodes, source: Nodes] /\ crashed' \in BOOLEAN
  <2>1. PICK n \in published :
          IF n.node \in EventTypes THEN NewEvents(n) ELSE DataChange(n)
    BY DEF Deliver
  <2>2. n.node \in Nodes
    BY DEF TypeOK

  <2>3. \A h \in DOMAIN monitoredItems : monitoredItems[h].node \in Nodes
    BY DEF TypeOK, IsItems, Item
  <2>4. CASE NewEvents(n)
    BY <2>2, <2>3, <2>4 DEF TypeOK, NewEvents
  <2>5. CASE DataChange(n)
    BY <2>2, <2>3, <2>5 DEF TypeOK, DataChange
  <2> QED
    BY <2>1, <2>4, <2>5
<1> QED
  BY <1>1 DEF TypeOK, Deliver, client, server, IsItems, CallsOK, FrameOK


LEMMA AnswerOK ==
    ASSUME CallsOK, NEW p \in Procs, NEW answer \in {"good", "bad"},
           NEW sub \in Nat, NEW results,
           DOMAIN results \subseteq DOMAIN calls[p].request,
           \A h \in DOMAIN results : results[h] \in Nat \ {0},
           Answer(p, answer, sub, results)
    PROVE  CallsOK'
<1> DEFINE c == calls[p]
           frame == [pc |-> c.pc, op |-> c.op, todo |-> c.todo,
                     handle |-> c.handle, request |-> c.request, sub |-> sub,
                     answer |-> answer, results |-> results,
                     thrown |-> c.thrown]
<1>1. FrameOK(c)
  BY DEF CallsOK
<1>2. FrameOK(frame)
  BY <1>1 DEF FrameOK
<1>3. Goto(p, frame)
  BY DEF Answer
<1> QED
  BY <1>2, <1>3, GotoOK

LEMMA AnswersOK == Answers \subseteq {"good", "bad"}
BY DEF Answers

LEMMA NoResultsOK == DOMAIN NoResults = {}
BY DEF NoResults

LEMMA RefuseType ==
    ASSUME TypeOK, NEW p \in Procs, Refuse(p) PROVE TypeOK'
<1>1. calls[p].sub \in Nat
  BY DEF TypeOK, CallsOK, FrameOK
<1>2. CallsOK'
  BY <1>1, AnswerOK, NoResultsOK DEF TypeOK, Refuse
<1> QED
  BY <1>2 DEF TypeOK, Refuse, client, server, IsItems

LEMMA ServeCreateSubscriptionType ==
    ASSUME TypeOK, NEW p \in Procs, ServeCreateSubscription(p) PROVE TypeOK'
<1>1. PICK answer \in Answers : Answer(p, answer, nextSub, NoResults)
  BY DEF ServeCreateSubscription
<1>2. CallsOK'
  BY <1>1, AnswerOK, AnswersOK, NoResultsOK DEF TypeOK
<1>3. /\ nextSub' \in Nat
      /\ DOMAIN serverSubs' \subseteq Nat
      /\ serverSubs' = [s \in DOMAIN serverSubs' |-> serverSubs'[s]]
      /\ \A s \in DOMAIN serverSubs' : serverSubs'[s] \in Nat
  BY DEF TypeOK, ServeCreateSubscription
<1> QED
  BY <1>2, <1>3 DEF TypeOK, ServeCreateSubscription, client, IsItems

LEMMA ServeCreateMonitoredItemsType ==
    ASSUME TypeOK, NEW p \in Procs, ServeCreateMonitoredItems(p) PROVE TypeOK'
<1> DEFINE c == calls[p]
<1>1. /\ FrameOK(c)
      /\ c.sub \in DOMAIN serverSubs
      /\ serverSubs[c.sub] \in Nat
  BY DEF ServeCreateMonitoredItems, TypeOK, CallsOK
<1>2. PICK granted \in SUBSET DOMAIN c.request, first \in DOMAIN c.request :
        LET idOf(h) == serverSubs[c.sub] + 1 + h - first IN
        /\ \A h \in DOMAIN c.request : first <= h
        /\ items' = items \cup {[sub |-> c.sub, id |-> idOf(h), handle |-> h,
                                 node |-> c.request[h].node] : h \in granted}
        /\ \E last \in DOMAIN c.request :
              serverSubs' = [serverSubs EXCEPT ![c.sub] = idOf(last)]
        /\ \E answer \in Answers :
              Answer(p, answer, c.sub, [h \in granted |-> idOf(h)])
  BY DEF ServeCreateMonitoredItems
<1> DEFINE idOf(h) == serverSubs[c.sub] + 1 + h - first
<1>3. \A h \in DOMAIN c.request : /\ h \in Nat
                                  /\ idOf(h) \in Nat \ {0}
                                  /\ c.request[h].node \in Nodes
  BY <1>1, <1>2 DEF FrameOK, IsItems, Item
<1>4. c.sub \in Nat
  BY <1>1 DEF FrameOK
<1>5. items' \subseteq [sub: Nat, id: Nat \ {0}, handle: Nat, node: Nodes]
  BY <1>2, <1>3, <1>4 DEF TypeOK
<1>6. /\ DOMAIN serverSubs' \subseteq Nat
      /\ serverSubs' = [s \in DOMAIN serverSubs' |-> serverSubs'[s]]
      /\ \A s \in DOMAIN serverSubs' : serverSubs'[s] \in Nat
  <2>1. PICK last \in DOMAIN c.request :
          serverSubs' = [serverSubs EXCEPT ![c.sub] = idOf(last)]
    BY <1>2
  <2>2. idOf(last) \in Nat
    BY <1>3
  <2> HIDE DEF idOf
  <2> QED
    BY <2>1, <2>2 DEF TypeOK
<1>7. CallsOK'
  <2>1. PICK answer \in Answers :
          Answer(p, answer, c.sub, [h \in granted |-> idOf(h)])
    BY <1>2
  <2>2. \A h \in granted : idOf(h) \in Nat \ {0}
    BY <1>3
  <2> DEFINE results == [h \in granted |-> idOf(h)]
  <2>3. /\ DOMAIN results \subseteq DOMAIN calls[p].request
        /\ \A h \in DOMAIN results : results[h] \in Nat \ {0}
        /\ Answer(p, answer, c.sub, results)
    BY <2>1, <2>2
  <2> HIDE DEF results
  <2> QED
    BY <2>1, <2>3, <1>4, AnswerOK, AnswersOK DEF TypeOK
<1> QED
  BY <1>5, <1>6, <1>7
  DEF TypeOK, ServeCreateMonitoredItems, client, IsItems

LEMMA ServeDeleteMonitoredItemsType ==
    ASSUME TypeOK, NEW p \in Procs, ServeDeleteMonitoredItems(p) PROVE TypeOK'
<1> DEFINE c == calls[p]
           of(h) == {i \in items : i.sub = c.sub /\ i.id = c.request[h].id}
           known == {h \in DOMAIN c.request : of(h) # {}}
<1>1. FrameOK(c)
  BY DEF TypeOK, CallsOK
<1>2. PICK deleted \in SUBSET known :
        /\ items' = items \ UNION {of(h) : h \in deleted}
        /\ \E answer \in Answers :
              Answer(p, answer, c.sub, [h \in deleted |-> c.request[h].id])
  BY DEF ServeDeleteMonitoredItems
<1>3. items' \subseteq items
  BY <1>2
<1>4. CallsOK'
  <2>1. PICK answer \in Answers :
          Answer(p, answer, c.sub, [h \in deleted |-> c.request[h].id])
    BY <1>2
  <2>2. \A h \in deleted : c.request[h].id \in Nat \ {0}
    BY DEF TypeOK
  <2>3. deleted \subseteq DOMAIN c.request
    BY <1>2
  <2> DEFINE results == [h \in deleted |-> c.request[h].id]
  <2>4. /\ DOMAIN results \subseteq DOMAIN calls[p].request
        /\ \A h \in DOMAIN results : results[h] \in Nat \ {0}
        /\ Answer(p, answer, c.sub, results)
    BY <2>1, <2>2, <2>3
  <2> HIDE DEF results
  <2> QED
    BY <2>1, <2>4, <1>1, AnswerOK, AnswersOK DEF TypeOK, FrameOK
<1> QED
  BY <1>3, <1>4 DEF TypeOK, ServeDeleteMonitoredItems, client, IsItems

(* The subscriptions that are left when the server drops one.              *)
LEMMA DropSubscriptionOK ==
    ASSUME TypeOK, NEW s,
           serverSubs' = Restrict(serverSubs, DOMAIN serverSubs \ {s})
    PROVE  /\ DOMAIN serverSubs' \subseteq DOMAIN serverSubs
           /\ serverSubs' = [q \in DOMAIN serverSubs' |-> serverSubs'[q]]
           /\ \A q \in DOMAIN serverSubs' : serverSubs'[q] \in Nat
BY DEF TypeOK, Restrict

LEMMA ServeDeleteSubscriptionType ==
    ASSUME TypeOK, NEW p \in Procs, ServeDeleteSubscription(p) PROVE TypeOK'
<1>1. PICK answer \in Answers : Answer(p, answer, calls[p].sub, NoResults)
  BY DEF ServeDeleteSubscription
<1>2. calls[p].sub \in Nat
  BY DEF TypeOK, CallsOK, FrameOK
<1>3. CallsOK'
  BY <1>1, <1>2, AnswerOK, AnswersOK, NoResultsOK DEF TypeOK
<1>4. /\ DOMAIN serverSubs' \subseteq DOMAIN serverSubs
      /\ serverSubs' = [q \in DOMAIN serverSubs' |-> serverSubs'[q]]
      /\ \A q \in DOMAIN serverSubs' : serverSubs'[q] \in Nat
  BY DropSubscriptionOK DEF ServeDeleteSubscription
<1> QED
  BY <1>3, <1>4 DEF TypeOK, ServeDeleteSubscription, client, IsItems

LEMMA PublishType == TypeOK /\ Publish => TypeOK'
<1> SUFFICES ASSUME TypeOK, Publish PROVE TypeOK'
  OBVIOUS
<1>1. PICK i \in items :
        published' = published \cup {[sub |-> i.sub, handle |-> i.handle,
                                      node |-> i.node]}
  BY DEF Publish
<1>2. published' \subseteq [sub: Nat, handle: Nat, node: Nodes]
  BY <1>1 DEF TypeOK
<1> QED
  BY <1>2 DEF TypeOK, Publish, client, server, IsItems, CallsOK, FrameOK

LEMMA LoseSubscriptionType == TypeOK /\ LoseSubscription => TypeOK'
<1> SUFFICES ASSUME TypeOK, LoseSubscription PROVE TypeOK'
  OBVIOUS
<1>1. PICK s \in DOMAIN serverSubs :
        /\ serverSubs' = Restrict(serverSubs, DOMAIN serverSubs \ {s})
        /\ items' = {i \in items : i.sub # s}
        /\ expired' = expired \cup {s}
  BY DEF LoseSubscription
<1>2. /\ DOMAIN serverSubs' \subseteq DOMAIN serverSubs
      /\ serverSubs' = [q \in DOMAIN serverSubs' |-> serverSubs'[q]]
      /\ \A q \in DOMAIN serverSubs' : serverSubs'[q] \in Nat
  BY <1>1, DropSubscriptionOK
<1> QED
  BY <1>1, <1>2
  DEF TypeOK, LoseSubscription, client, IsItems, CallsOK, FrameOK

LEMMA TypeStep == TypeOK /\ [Next]_vars => TypeOK'
<1> SUFFICES ASSUME TypeOK, [Next]_vars PROVE TypeOK'
  OBVIOUS
<1>1. CASE UNCHANGED vars
  BY <1>1 DEF TypeOK, vars, client, server, IsItems, CallsOK, FrameOK
<1>2. ASSUME NEW t \in Threads, Add(t) \/ Remove(t) \/ RemoveAll(t)
      PROVE  TypeOK'
  BY <1>2, AddType, StartRemoveType DEF Remove, RemoveAll
<1>3. ASSUME NEW p \in Procs, Serve(p) PROVE TypeOK'
  BY <1>3, RefuseType, ServeCreateSubscriptionType,
     ServeCreateMonitoredItemsType, ServeDeleteMonitoredItemsType,
     ServeDeleteSubscriptionType
  DEF Serve
<1>4. ASSUME NEW p \in Procs, Returns(p) PROVE TypeOK'
  BY <1>4, CreateSubscriptionReturnsType, CreateMonitoredItemsReturnsType,
     DeleteMonitoredItemsReturnsType, DeleteSubscriptionReturnsType
  DEF Returns
<1>5. ASSUME NEW p \in Procs, Enters(p) \/ UseAfterDelete(p) PROVE TypeOK'
  BY <1>5, EntersType, CrashType DEF UseAfterDelete
<1>6. CASE StatusChanged
  BY <1>6, StatusChangedType
<1>7. CASE Deliver
  BY <1>7, DeliverType
<1>8. CASE Publish
  BY <1>8, PublishType
<1>9. CASE LoseSubscription
  BY <1>9, LoseSubscriptionType
<1> QED
  BY <1>1, <1>2, <1>3, <1>4, <1>5, <1>6, <1>7, <1>8, <1>9 DEF Next, Ended

(* The variables keep their types.                                         *)
THEOREM TypeCorrect == Spec => []TypeOK
BY TypeInit, TypeStep, PTL DEF Spec


-----------------------------------------------------------------------------
(* Attribution of notifications.                                           *)

ClaimsInv == HandlesGiven /\ OneNodePerHandle /\ CountingAlone

(* A step after which no more is said of client handles than before.       *)
NothingClaimed ==
    /\ clientHandleCounter' = clientHandleCounter
    /\ \A h, m : Claims(h, m)' => Claims(h, m)

(* A step that no thread makes between the read of the counter and the     *)
(* entry of its item.                                                      *)
Between == {"counting", "counted"}
Uncounted ==
    \A q \in Procs : calls[q].pc \in Between \/ calls'[q].pc \in Between
                         => calls'[q] = calls[q]

LEMMA ClaimedGiven ==
    ASSUME HandlesGiven, NEW h, NEW m, Claims(h, m) PROVE h \in Given
BY DEF HandlesGiven, Claims

LEMMA GivenClaimed ==
    ASSUME \A h, m : Claims(h, m)' => h \in Given' PROVE HandlesGiven'
BY DEF HandlesGiven, Claims

LEMMA KnownKept ==
    ASSUME HandlesGiven, OneNodePerHandle, NothingClaimed
    PROVE  HandlesGiven' /\ OneNodePerHandle'
<1>1. Given' = Given
  BY DEF NothingClaimed, Given
<1>2. HandlesGiven'
  BY <1>1, ClaimedGiven, GivenClaimed DEF NothingClaimed
<1>3. OneNodePerHandle'
  <2>1. ASSUME NEW h \in Given, NEW m \in Nodes, NEW n \in Nodes,
               Claims(h, m)', Claims(h, n)'
        PROVE  m = n
    BY <2>1 DEF NothingClaimed, OneNodePerHandle
  <2> QED
    BY <1>1, <2>1 DEF OneNodePerHandle
<1> QED
  BY <1>2, <1>3

(* What CountingAlone says of a thread that has counted.                   *)
Counted(p) ==
    /\ calls[p].handle \in Given
    /\ \A n \in Nodes : ~Claims(calls[p].handle, n)
    /\ \A q \in Procs \ {p} :
          calls[q].pc = "counted" => calls[q].handle # calls[p].handle

LEMMA AloneCounted ==
    ASSUME CountingAlone, NEW p \in Procs, calls[p].pc = "counted"
    PROVE  Counted(p)
BY DEF CountingAlone, Counted, Claims

LEMMA CountedAlone ==
    ASSUME NEW p \in Procs, NEW h, calls'[p].handle = h, h \in Given',
           \A n \in Nodes : ~Claims(h, n)',
           \A q \in Procs \ {p} : calls'[q].pc = "counted"
                                     => calls'[q].handle # h
    PROVE  Counted(p)'
<1>1. \A n \in Nodes : ~Claims(calls[p].handle, n)'
  BY DEF Claims
<1> QED
  BY <1>1 DEF Counted, Claims

LEMMA AllAlone ==
    ASSUME \A p \in Procs : calls'[p].pc = "counting" =>
              /\ calls'[p].handle = clientHandleCounter'
              /\ \A q \in Procs \ {p} : calls'[q].pc # "counting",
           \A p \in Procs : calls'[p].pc = "counted" => Counted(p)'
    PROVE  CountingAlone'
BY DEF CountingAlone, Counted, Claims

LEMMA AloneKept ==
    ASSUME CountingAlone, NothingClaimed, Uncounted PROVE CountingAlone'
<1>1. Given' = Given
  BY DEF NothingClaimed, Given
<1>2. \A q \in Procs : calls'[q].pc = "counting" =>
        calls'[q] = calls[q] /\ calls[q].pc = "counting"
  BY DEF Uncounted, Between
<1>3. \A q \in Procs : calls'[q].pc = "counted" =>
        calls'[q] = calls[q] /\ calls[q].pc = "counted"
  BY DEF Uncounted, Between
<1>4. ASSUME NEW p \in Procs, calls'[p].pc = "counting"
      PROVE  /\ calls'[p].handle = clientHandleCounter'
             /\ \A q \in Procs \ {p} : calls'[q].pc # "counting"
  <2>1. calls'[p] = calls[p] /\ calls[p].pc = "counting"
    BY <1>2, <1>4
  <2>2. /\ calls[p].handle = clientHandleCounter
        /\ \A q \in Procs \ {p} : calls[q].pc # "counting"
    BY <2>1 DEF CountingAlone
  <2> QED
    BY <1>2, <2>1, <2>2 DEF NothingClaimed
<1>5. ASSUME NEW p \in Procs, calls'[p].pc = "counted"
      PROVE  Counted(p)'
  <2>1. calls'[p] = calls[p] /\ calls[p].pc = "counted"
    BY <1>3, <1>5
  <2>2. PICK h : h = calls[p].handle
    OBVIOUS
  <2>3. Counted(p)
    BY <2>1, AloneCounted
  <2>4. \A n \in Nodes : ~Claims(h, n)
    BY <2>2, <2>3 DEF Counted
  <2>5. \A n \in Nodes : ~Claims(h, n)'
    BY <2>4 DEF NothingClaimed
  <2>6. \A q \in Procs \ {p} : calls'[q].pc = "counted" => calls'[q].handle # h
    BY <1>3, <2>2, <2>3 DEF Counted
  <2>7. calls'[p].handle = h /\ h \in Given'
    BY <1>1, <2>1, <2>2, <2>3 DEF Counted
  <2> QED
    BY <2>5, <2>6, <2>7, CountedAlone
<1> QED
  BY <1>4, <1>5, AllAlone

LEMMA NoNewClaims ==
    ASSUME clientHandleCounter' = clientHandleCounter,
           \A h, m : Claims(h, m)' => Claims(h, m)
    PROVE  NothingClaimed
BY DEF NothingClaimed

(* What a thread's own step has to show for it.                            *)
LEMMA ThreadClaims ==
    ASSUME TypeOK, NEW p \in Procs, NEW frame, Goto(p, frame),
           \A h \in DOMAIN monitoredItems' :
               Claims(h, monitoredItems'[h].node),
           \A h \in DOMAIN frame.request : Claims(h, frame.request[h].node),
           \A i \in items' : Claims(i.handle, i.node),
           \A n \in published' : Claims(n.handle, n.node)
    PROVE  \A h, m : Claims(h, m)' => Claims(h, m)
<1> SUFFICES ASSUME NEW h, NEW m, Claims(h, m)' PROVE Claims(h, m)
  OBVIOUS
<1>1. \A q \in Procs : calls'[q] = IF q = p THEN frame ELSE calls[q]
  BY DEF Goto, TypeOK, CallsOK
<1>2. CASE h \in DOMAIN monitoredItems' /\ monitoredItems'[h].node = m
  BY <1>2
<1>3. ASSUME NEW q \in Procs, h \in DOMAIN calls'[q].request,
             calls'[q].request[h].node = m
      PROVE  Claims(h, m)
  <2>1. CASE q = p
    BY <1>1, <1>3, <2>1
  <2>2. CASE q # p
    BY <1>1, <1>3, <2>2 DEF Claims
  <2> QED
    BY <2>1, <2>2
<1>4. CASE \E i \in items' : i.handle = h /\ i.node = m
  BY <1>4
<1>5. CASE \E n \in published' : n.handle = h /\ n.node = m
  BY <1>5
<1> QED
  BY <1>2, <1>3, <1>4, <1>5 DEF Claims

(* Every part of the state makes the claims it makes.                      *)
LEMMA OwnClaims ==
    /\ \A h \in DOMAIN monitoredItems : Claims(h, monitoredItems[h].node)
    /\ \A p \in Procs : \A h \in DOMAIN calls[p].request :
          Claims(h, calls[p].request[h].node)
    /\ \A i \in items : Claims(i.handle, i.node)
    /\ \A n \in published : Claims(n.handle, n.node)
BY DEF Claims

LEMMA NoRequest ==
    /\ \A op, thrown : DOMAIN Idle(op, thrown).request = {}
    /\ DOMAIN NoItems = {}
BY DEF Idle, NoItems

LEMMA CallRequest ==
    \A service, op, request, sub, thrown :
        Call(service, op, request, sub, thrown).request = request
BY DEF Call

LEMMA EntryRequest ==
    \A step, todo, handle, request :
        Entry(step, todo, handle, request).request = request
BY DEF Entry

LEMMA GotoEntry ==
    ASSUME NEW p, NEW step, NEW todo, NEW handle, NEW request,
           Goto(p, Entry(step, todo, handle, request))
    PROVE  \E frame : Goto(p, frame) /\ frame.request = request
<1> DEFINE f == Entry(step, todo, handle, request)
<1>1. Goto(p, f) /\ f.request = request
  BY EntryRequest
<1> HIDE DEF f
<1> QED
  BY <1>1

LEMMA GotoCall ==
    ASSUME NEW p, NEW service, NEW op, NEW request, NEW sub, NEW thrown,
           Goto(p, Call(service, op, request, sub, thrown))
    PROVE  \E frame : Goto(p, frame) /\ frame.request = request
<1> DEFINE f == Call(service, op, request, sub, thrown)
<1>1. Goto(p, f) /\ f.request = request
  BY CallRequest
<1> HIDE DEF f
<1> QED
  BY <1>1

LEMMA GotoIdle ==
    ASSUME NEW p, NEW op, NEW thrown, Goto(p, Idle(op, thrown))
    PROVE  \E frame : Goto(p, frame) /\ DOMAIN frame.request = {}
BY NoRequest

LEMMA ClaimsInit == Init => ClaimsInv
<1> SUFFICES ASSUME Init PROVE ClaimsInv
  OBVIOUS
<1>0. \A p \in Procs : calls[p].pc = "idle"
  BY DEF Init, Idle
<1>1. /\ DOMAIN monitoredItems = {} /\ items = {} /\ published = {}
      /\ \A p \in Procs : DOMAIN calls[p].request = {}
  BY NoRequest DEF Init
<1>2. HandlesGiven
  BY <1>1 DEF HandlesGiven
<1>3. ASSUME NEW h, NEW m PROVE ~Claims(h, m)
  BY <1>1 DEF Claims
<1> QED
  BY <1>0, <1>2, <1>3 DEF ClaimsInv, OneNodePerHandle, CountingAlone

(* A step that gives the client nothing new to say of a handle.            *)
LEMMA QuietClaims ==
    ASSUME TypeOK, UNCHANGED <<client, calls>>,
           \A i \in items' : Claims(i.handle, i.node),
           \A n \in published' : Claims(n.handle, n.node)
    PROVE  NothingClaimed
<1>1. \A h, m : Claims(h, m)' => Claims(h, m)
  BY DEF Claims, client
<1> QED
  BY <1>1, NoNewClaims DEF client

LEMMA CrashClaims ==
    ASSUME TypeOK, Crash PROVE NothingClaimed
BY QuietClaims, OwnClaims DEF Crash, server

LEMMA AddClaims ==
    ASSUME TypeOK, NEW t \in Threads, Add(t) PROVE NothingClaimed
<1>1. \E todo : Goto(t, Entry("next", todo, 0, NoItems))
  BY DEF Add
<1>2. PICK frame : Goto(t, frame) /\ DOMAIN frame.request = {}
  BY <1>1, GotoEntry, NoRequest
<1>3. UNCHANGED <<monitoredItems, clientHandleCounter, items, published>>
  BY DEF Add, client, server
<1> QED
  BY <1>2, <1>3, OwnClaims, ThreadClaims, NoNewClaims DEF Procs

LEMMA AllEnteredRequest ==
    ASSUME NEW p, AllEntered(p)
    PROVE  \E frame : Goto(p, frame) /\ frame.request = calls[p].request
<1> DEFINE service == IF subscription = Null THEN "createSubscription"
                                             ELSE "createMonitoredItems"
           frame == Call(service, "add", calls[p].request, subscription, FALSE)
<1>1. Goto(p, frame)
  BY DEF AllEntered
<1>2. frame.request = calls[p].request
  BY DEF Call
<1> HIDE DEF frame
<1> QED
  BY <1>1, <1>2

(* The loop of add says something new only when it enters an item.         *)
LEMMA EntersClaims ==
    ASSUME TypeOK, NEW p \in Procs, ReadCounter(p) \/ AllEntered(p)
    PROVE  NothingClaimed
<1> DEFINE c == calls[p]
<1>1. PICK frame : Goto(p, frame) /\ frame.request = c.request
  <2>1. CASE ReadCounter(p)
    BY <2>1, GotoEntry DEF ReadCounter
  <2>2. CASE AllEntered(p)
    BY <2>2, AllEnteredRequest
  <2> QED
    BY <2>1, <2>2
<1>2. \A h \in DOMAIN frame.request : Claims(h, frame.request[h].node)
  BY <1>1, OwnClaims
<1>3. UNCHANGED <<monitoredItems, clientHandleCounter, items, published>>
  BY DEF ReadCounter, AllEntered, client, server
<1> QED
  BY <1>1, <1>2, <1>3, OwnClaims, ThreadClaims, NoNewClaims

LEMMA CreateSubscriptionReturnsClaims ==
    ASSUME TypeOK, NEW p \in Procs,
           CreateSubscriptionReturns(p)
    PROVE  NothingClaimed
<1> DEFINE c == calls[p]
<1>1. PICK frame : /\ Goto(p, frame)
                   /\ \/ DOMAIN frame.request = {}
                      \/ frame.request = c.request
  <2>1. CASE Goto(p, Idle("add", TRUE))
    BY <2>1, GotoIdle
  <2>2. CASE Goto(p, Call("createMonitoredItems", "add", c.request, c.sub,
                          FALSE))
    <3> DEFINE f == Call("createMonitoredItems", "add", c.request, c.sub,
                         FALSE)
    <3>1. f.request = c.request
      BY DEF Call
    <3>2. Goto(p, f)
      BY <2>2
    <3> HIDE DEF f
    <3> QED
      BY <3>1, <3>2
  <2> QED
    BY <2>1, <2>2 DEF CreateSubscriptionReturns
<1>2. \A h \in DOMAIN c.request : Claims(h, c.request[h].node)
  BY OwnClaims
<1>3. \A h \in DOMAIN frame.request : Claims(h, frame.request[h].node)
  BY <1>1, <1>2
<1>4. UNCHANGED <<monitoredItems, clientHandleCounter, items, published>>
  BY DEF CreateSubscriptionReturns, server
<1> QED
  BY <1>1, <1>3, <1>4, OwnClaims, ThreadClaims, NoNewClaims

(* The frame of a thread that deletes the subscription claims nothing.     *)
LEMMA DeleteSubscriptionOrEndClaims ==
    ASSUME NEW p \in Procs, NEW op, NEW thrown,
           DeleteSubscriptionOrEnd(p, op, thrown)
    PROVE  \E frame : Goto(p, frame) /\ DOMAIN frame.request = {}
BY NoRequest, CallRequest DEF DeleteSubscriptionOrEnd

LEMMA CreateMonitoredItemsReturnsClaims ==
    ASSUME TypeOK, NEW p \in Procs,
           CreateMonitoredItemsReturns(p)
    PROVE  NothingClaimed
<1>1. CASE Crash
  BY <1>1, CrashClaims
<1>2. CASE ~Crash
  <2>1. PICK frame : Goto(p, frame) /\ DOMAIN frame.request = {}
    BY <1>2, DeleteSubscriptionOrEndClaims, NoRequest
    DEF CreateMonitoredItemsReturns
  <2>2. \A h \in DOMAIN monitoredItems' :
          /\ h \in DOMAIN monitoredItems
          /\ monitoredItems'[h].node = monitoredItems[h].node
    <3> DEFINE c == calls[p]
               kept == DOMAIN monitoredItems \ Failed(c)
    <3>1. monitoredItems' =
            [h \in kept |-> IF h \in Granted(c)
                            THEN [node |-> monitoredItems[h].node,
                                  id |-> c.results[h]]
                            ELSE monitoredItems[h]]
      BY <1>2 DEF CreateMonitoredItemsReturns, ResultOf
    <3>2. kept \subseteq DOMAIN monitoredItems
      OBVIOUS
    <3> HIDE DEF kept, c
    <3> QED
      BY <3>1, <3>2
  <2>3. UNCHANGED <<clientHandleCounter, items, published>>
    BY <1>2 DEF CreateMonitoredItemsReturns, server
  <2> QED
    BY <2>1, <2>2, <2>3, OwnClaims, ThreadClaims, NoNewClaims
<1> QED
  BY <1>1, <1>2

LEMMA StartRemoveClaims ==
    ASSUME TypeOK, NEW t \in Threads, NEW op, NEW nodes,
           StartRemove(t, op, nodes)
    PROVE  NothingClaimed
<1>1. CASE Crash
  BY <1>1, CrashClaims
<1>2. CASE ~Crash
  <2>1. PICK frame :
          /\ Goto(t, frame)
          /\ \/ DOMAIN frame.request = {}
             \/ frame.request = Restrict(monitoredItems, FirstHandles(nodes))
    <3>1. CASE Goto(t, Idle(op, FALSE))
      BY <3>1, GotoIdle
    <3>2. CASE Goto(t, Call("deleteMonitoredItems", op,
                            Restrict(monitoredItems, FirstHandles(nodes)),
                            subscription, FALSE))
      BY <3>2, GotoCall
    <3> QED
      BY <1>2, <3>1, <3>2 DEF StartRemove
  <2>2. \A h \in DOMAIN frame.request : Claims(h, frame.request[h].node)
    BY <2>1, OwnClaims DEF Restrict, FirstHandles
  <2>3. UNCHANGED <<monitoredItems, clientHandleCounter, items, published>>
    BY <1>2 DEF StartRemove, client, server
  <2> QED
    BY <2>1, <2>2, <2>3, OwnClaims, ThreadClaims, NoNewClaims DEF Procs
<1> QED
  BY <1>1, <1>2

LEMMA DeleteMonitoredItemsReturnsClaims ==
    ASSUME TypeOK, NEW p \in Procs,
           DeleteMonitoredItemsReturns(p)
    PROVE  NothingClaimed
<1>1. CASE Crash
  BY <1>1, CrashClaims
<1>2. CASE ~Crash
  <2>1. PICK frame : Goto(p, frame) /\ DOMAIN frame.request = {}
    BY <1>2, DeleteSubscriptionOrEndClaims, NoRequest
    DEF DeleteMonitoredItemsReturns
  <2>2. monitoredItems' =
          Restrict(monitoredItems, DOMAIN monitoredItems \ Granted(calls[p]))
    BY <1>2 DEF DeleteMonitoredItemsReturns
  <2>3. \A h \in DOMAIN monitoredItems' :
          Claims(h, monitoredItems'[h].node)
    BY <2>2, OwnClaims DEF Restrict
  <2>4. UNCHANGED <<clientHandleCounter, items, published>>
    BY <1>2 DEF DeleteMonitoredItemsReturns, server
  <2> QED
    BY <2>1, <2>3, <2>4, OwnClaims, ThreadClaims, NoNewClaims
<1> QED
  BY <1>1, <1>2

LEMMA DeleteSubscriptionReturnsClaims ==
    ASSUME TypeOK, NEW p \in Procs,
           DeleteSubscriptionReturns(p)
    PROVE  NothingClaimed
<1> DEFINE c == calls[p]
<1>1. items' = items /\ published' \subseteq published
  BY DEF DeleteSubscriptionReturns, server
<1>2. PICK frame : Goto(p, frame) /\ DOMAIN frame.request = {}
  <2>1. CASE AddAgain(p, c.request)
    <3>1. \/ Goto(p, Idle("resubscribe", FALSE))
          \/ \E todo : Goto(p, Entry("next", todo, 0, NoItems))
      BY <2>1 DEF AddAgain
    <3>2. CASE Goto(p, Idle("resubscribe", FALSE))
      BY <3>2, GotoIdle
    <3>3. CASE \E todo : Goto(p, Entry("next", todo, 0, NoItems))
      BY <3>3, GotoEntry, NoRequest
    <3> QED
      BY <3>1, <3>2, <3>3
  <2>2. CASE \E op, thrown : Goto(p, Idle(op, thrown))
    BY <2>2, GotoIdle
  <2> QED
    BY <2>1, <2>2 DEF DeleteSubscriptionReturns
<1>3. UNCHANGED <<monitoredItems, clientHandleCounter>>
  BY DEF DeleteSubscriptionReturns, client
<1> QED
  BY <1>1, <1>2, <1>3, OwnClaims, ThreadClaims, NoNewClaims

LEMMA StatusChangedClaims ==
    ASSUME TypeOK, StatusChanged PROVE NothingClaimed
<1>1. CASE Crash
  BY <1>1, CrashClaims
<1>2. CASE ~Crash
  <2>1. PICK frame : Goto(Sdk, frame) /\ frame.request = monitoredItems
    <3>1. Goto(Sdk, Call("deleteSubscription", "resubscribe", monitoredItems,
                         subscription, FALSE))
      BY <1>2 DEF StatusChanged
    <3> QED
      BY <3>1, GotoCall
  <2>2. monitoredItems' = NoItems
    BY <1>2 DEF StatusChanged
  <2>3. UNCHANGED <<clientHandleCounter, items, published>>
    BY <1>2 DEF StatusChanged, server
  <2> QED
    BY <2>1, <2>2, <2>3, NoRequest, OwnClaims, ThreadClaims, NoNewClaims
    DEF Procs
<1> QED
  BY <1>1, <1>2


LEMMA AnswerClaims ==
    ASSUME TypeOK, NEW p \in Procs, NEW answer, NEW sub,
           NEW results, Answer(p, answer, sub, results),
           UNCHANGED <<client, published>>,
           \A i \in items' : Claims(i.handle, i.node)
    PROVE  NothingClaimed
<1> DEFINE c == calls[p]
           frame == [pc |-> c.pc, op |-> c.op, todo |-> c.todo,
                     handle |-> c.handle, request |-> c.request, sub |-> sub,
                     answer |-> answer, results |-> results,
                     thrown |-> c.thrown]
<1>1. Goto(p, frame) /\ frame.request = c.request
  BY DEF Answer
<1> HIDE DEF frame
<1>2. \A h \in DOMAIN frame.request : Claims(h, frame.request[h].node)
  BY <1>1, OwnClaims
<1>3. UNCHANGED <<monitoredItems, clientHandleCounter, published>>
  BY DEF client
<1> QED
  BY <1>1, <1>2, <1>3, OwnClaims, ThreadClaims, NoNewClaims

LEMMA ServeClaims ==
    ASSUME TypeOK, NEW p \in Procs, Serve(p)
    PROVE  NothingClaimed
<1> DEFINE c == calls[p]
<1>1. PICK answer, sub, results : Answer(p, answer, sub, results)
  BY DEF Serve, Refuse, ServeCreateSubscription, ServeCreateMonitoredItems,
         ServeDeleteMonitoredItems, ServeDeleteSubscription
<1>2. UNCHANGED <<client, published>>
  BY DEF Serve, Refuse, ServeCreateSubscription, ServeCreateMonitoredItems,
         ServeDeleteMonitoredItems, ServeDeleteSubscription, server
<1>3. \A i \in items' : Claims(i.handle, i.node)
  <2>1. CASE ServeCreateMonitoredItems(p)
    <3>1. PICK granted \in SUBSET DOMAIN c.request :
            \A i \in items' : \/ i \in items
                              \/ \E h \in granted :
                                    /\ i.handle = h
                                    /\ i.node = c.request[h].node
      <4>1. PICK granted \in SUBSET DOMAIN c.request, first \in DOMAIN c.request :
              items' = items \cup {[sub |-> c.sub,
                                    id |-> serverSubs[c.sub] + 1 + h - first,
                                    handle |-> h,
                                    node |-> c.request[h].node] : h \in granted}
        BY <2>1 DEF ServeCreateMonitoredItems
      <4> QED
        BY <4>1
    <3>2. \A h \in granted : Claims(h, c.request[h].node)
      BY OwnClaims
    <3> QED
      BY <3>1, <3>2, OwnClaims
  <2>2. CASE items' \subseteq items
    BY <2>2, OwnClaims
  <2> QED
    BY <2>1, <2>2
    DEF Serve, Refuse, ServeCreateSubscription, ServeDeleteMonitoredItems,
        ServeDeleteSubscription, server
<1> QED
  BY <1>1, <1>2, <1>3, AnswerClaims

LEMMA EnvironmentClaims ==
    ASSUME TypeOK, Deliver \/ Publish \/ LoseSubscription
    PROVE  NothingClaimed
<1>1. CASE Deliver
  <2>1. published' \subseteq published /\ items' = items
    BY <1>1 DEF Deliver, server
  <2> QED
    BY <1>1, <2>1, OwnClaims, QuietClaims DEF Deliver
<1>2. CASE Publish
  <2>1. PICK i \in items :
          published' = published \cup {[sub |-> i.sub, handle |-> i.handle,
                                        node |-> i.node]}
    BY <1>2 DEF Publish
  <2>2. \A n \in published' : Claims(n.handle, n.node)
    BY <2>1, OwnClaims
  <2> QED
    BY <1>2, <2>2, OwnClaims, QuietClaims DEF Publish, server
<1>3. CASE LoseSubscription
  <2>1. items' \subseteq items /\ published' = published
    BY <1>3 DEF LoseSubscription
  <2> QED
    BY <1>3, <2>1, OwnClaims, QuietClaims DEF LoseSubscription
<1> QED
  BY <1>1, <1>2, <1>3

LEMMA StepClaims ==
    ASSUME TypeOK, [Next]_vars,
           \A p \in Procs : ~WriteCounter(p) /\ ~EnterItem(p)
    PROVE  NothingClaimed
<1>1. CASE UNCHANGED vars
  BY <1>1, OwnClaims, QuietClaims DEF vars, server
<1>2. ASSUME NEW t \in Threads, Add(t) \/ Remove(t) \/ RemoveAll(t)
      PROVE  NothingClaimed
  BY <1>2, AddClaims, StartRemoveClaims DEF Remove, RemoveAll
<1>3. ASSUME NEW p \in Procs, Serve(p) PROVE NothingClaimed
  BY <1>3, ServeClaims
<1>4. ASSUME NEW p \in Procs, Returns(p) PROVE NothingClaimed
  BY <1>4, CreateSubscriptionReturnsClaims, CreateMonitoredItemsReturnsClaims,
     DeleteMonitoredItemsReturnsClaims, DeleteSubscriptionReturnsClaims
  DEF Returns
<1>5. ASSUME NEW p \in Procs, Enters(p) \/ UseAfterDelete(p)
      PROVE  NothingClaimed
  BY <1>5, EntersClaims, CrashClaims DEF Enters, UseAfterDelete
<1>6. CASE StatusChanged
  BY <1>6, StatusChangedClaims
<1>7. CASE Deliver \/ Publish \/ LoseSubscription
  BY <1>7, EnvironmentClaims
<1> QED
  BY <1>1, <1>2, <1>3, <1>4, <1>5, <1>6, <1>7 DEF Next, Ended

(* The frames that a thread goes to otherwise are not between the counter  *)
(* and the list.                                                           *)
Leaves(p) == \E frame : Goto(p, frame) /\ frame.pc \notin Between

LEMMA GotoLeaves ==
    ASSUME NEW p, NEW frame, Goto(p, frame), frame.pc \notin Between
    PROVE  Leaves(p)
BY DEF Leaves

LEMMA CallLeaves ==
    ASSUME NEW p, NEW service \in Services, NEW op, NEW request, NEW sub,
           NEW thrown, Goto(p, Call(service, op, request, sub, thrown))
    PROVE  Leaves(p)
<1>1. Call(service, op, request, sub, thrown).pc \notin Between
  BY DEF Call, Services, ItemServices, Between
<1> QED
  BY <1>1, GotoLeaves

LEMMA IdleLeaves ==
    ASSUME NEW p, NEW op, NEW thrown, Goto(p, Idle(op, thrown))
    PROVE  Leaves(p)
<1>1. Idle(op, thrown).pc \notin Between
  BY DEF Idle, Between
<1> QED
  BY <1>1, GotoLeaves

LEMMA EntryLeaves ==
    ASSUME NEW p, NEW todo, NEW request,
           Goto(p, Entry("next", todo, 0, request))
    PROVE  Leaves(p)
<1>1. Entry("next", todo, 0, request).pc \notin Between
  BY DEF Entry, Between
<1> QED
  BY <1>1, GotoLeaves

LEMMA LeavesUncounted ==
    ASSUME TypeOK, NEW p \in Procs, Leaves(p), calls[p].pc \notin Between
    PROVE  Uncounted
<1>1. PICK frame : Goto(p, frame) /\ frame.pc \notin Between
  BY DEF Leaves
<1>2. \A q \in Procs : calls'[q] = IF q = p THEN frame ELSE calls[q]
  BY <1>1 DEF Goto, TypeOK, CallsOK
<1> QED
  BY <1>1, <1>2 DEF Uncounted

LEMMA DeleteSubscriptionOrEndLeaves ==
    ASSUME NEW p, NEW op, NEW thrown, DeleteSubscriptionOrEnd(p, op, thrown)
    PROVE  calls' = calls \/ Leaves(p)
BY CallLeaves, IdleLeaves
DEF DeleteSubscriptionOrEnd, Services, ItemServices

LEMMA ReturnsUncounted ==
    ASSUME TypeOK, NEW p \in Procs, Returns(p)
    PROVE  Uncounted
<1>1. calls[p].pc \notin Between
  BY DEF Returns, CreateSubscriptionReturns, CreateMonitoredItemsReturns,
         DeleteMonitoredItemsReturns, DeleteSubscriptionReturns, Between
<1>2. calls' = calls \/ Leaves(p)
  <2>1. CASE CreateSubscriptionReturns(p)
    BY <2>1, CallLeaves, IdleLeaves
    DEF CreateSubscriptionReturns, Services, ItemServices
  <2>2. CASE CreateMonitoredItemsReturns(p)
    BY <2>2, DeleteSubscriptionOrEndLeaves, IdleLeaves
    DEF CreateMonitoredItemsReturns, Crash
  <2>3. CASE DeleteMonitoredItemsReturns(p)
    <3>1. \/ calls' = calls
          \/ DeleteSubscriptionOrEnd(p, calls[p].op, FALSE)
          \/ \E thrown : Goto(p, Idle(calls[p].op, thrown))
      BY <2>3, Zenon DEF DeleteMonitoredItemsReturns, Crash
    <3> QED
      BY <3>1, DeleteSubscriptionOrEndLeaves, IdleLeaves
  <2>4. CASE DeleteSubscriptionReturns(p)
    BY <2>4, EntryLeaves, IdleLeaves DEF DeleteSubscriptionReturns, AddAgain
  <2> QED
    BY <2>1, <2>2, <2>3, <2>4 DEF Returns
<1>3. CASE calls' = calls
  BY <1>3 DEF Uncounted
<1> QED
  BY <1>1, <1>2, <1>3, LeavesUncounted

LEMMA UncountedStep ==
    ASSUME TypeOK, [Next]_vars,
           \A p \in Procs : ~ReadCounter(p) /\ ~WriteCounter(p) /\ ~EnterItem(p)
    PROVE  Uncounted
<1>1. CASE calls' = calls
  BY <1>1 DEF Uncounted
<1>2. ASSUME NEW t \in Threads, Add(t) PROVE Uncounted
  <2>1. Leaves(t)
    BY <1>2, EntryLeaves DEF Add
  <2>2. calls[t].pc \notin Between /\ t \in Procs
    BY <1>2 DEF Add, Between, Procs
  <2> QED
    BY <2>1, <2>2, LeavesUncounted
<1>3. ASSUME NEW t \in Threads, NEW op, NEW nodes, StartRemove(t, op, nodes)
      PROVE  Uncounted
  <2>1. calls' = calls \/ Leaves(t)
    BY <1>3, IdleLeaves, CallLeaves
    DEF StartRemove, Crash, Services, ItemServices
  <2>2. calls[t].pc \notin Between /\ t \in Procs
    BY <1>3 DEF StartRemove, Between, Procs
  <2> QED
    BY <1>1, <2>1, <2>2, LeavesUncounted
<1>4. ASSUME NEW p \in Procs, Serve(p) PROVE Uncounted
  <2>1. PICK answer, sub, results : Answer(p, answer, sub, results)
    BY <1>4
    DEF Serve, Refuse, ServeCreateSubscription, ServeCreateMonitoredItems,
        ServeDeleteMonitoredItems, ServeDeleteSubscription
  <2>2. calls[p].pc \notin Between
    BY <1>4
    DEF Serve, Refuse, ServeCreateSubscription, ServeCreateMonitoredItems,
        ServeDeleteMonitoredItems, ServeDeleteSubscription, Services,
        ItemServices, Between
  <2>3. PICK frame : Goto(p, frame) /\ frame.pc = calls[p].pc
    BY <2>1 DEF Answer
  <2> QED
    BY <2>2, <2>3, GotoLeaves, LeavesUncounted
<1>5. ASSUME NEW p \in Procs, Returns(p) PROVE Uncounted
  BY <1>5, ReturnsUncounted
<1>6. ASSUME NEW p \in Procs, AllEntered(p) PROVE Uncounted
  <2>1. Leaves(p)
    BY <1>6, CallLeaves DEF AllEntered, Services, ItemServices
  <2>2. calls[p].pc \notin Between
    BY <1>6 DEF AllEntered, Between
  <2> QED
    BY <2>1, <2>2, LeavesUncounted
<1>7. CASE StatusChanged
  <2>1. calls' = calls \/ Leaves(Sdk)
    BY <1>7, CallLeaves DEF StatusChanged, Crash, Services, ItemServices
  <2>2. calls[Sdk].pc \notin Between /\ Sdk \in Procs
    BY <1>7 DEF StatusChanged, Between, Procs
  <2> QED
    BY <1>1, <2>1, <2>2, LeavesUncounted
<1>8. UNCHANGED vars \/ Deliver \/ Publish \/ LoseSubscription \/ Ended
        => calls' = calls
  BY DEF vars, Deliver, Publish, LoseSubscription, Ended
<1>9. ASSUME NEW p \in Procs, UseAfterDelete(p) PROVE calls' = calls
  BY <1>9 DEF UseAfterDelete, Crash
<1> QED
  BY <1>1, <1>2, <1>3, <1>4, <1>5, <1>6, <1>7, <1>8, <1>9
  DEF Next, Remove, RemoveAll, Enters

(* The read: without a race no other thread is between read and write.     *)
LEMMA ReadClaims ==
    ASSUME TypeOK, ClaimsInv, NEW p \in Procs, ReadCounter(p), ~raced'
    PROVE  ClaimsInv'
<1> DEFINE c == calls[p]
           frame == Entry("counting", c.todo, clientHandleCounter, c.request)
<1>1. NothingClaimed
  BY EntersClaims
<1>2. HandlesGiven' /\ OneNodePerHandle'
  BY <1>1, KnownKept DEF ClaimsInv
<1>3. \A q \in Procs \ {p} : calls[q].pc # "counting"
  BY DEF ReadCounter
<1>4. /\ frame.pc = "counting" /\ frame.handle = clientHandleCounter
      /\ Goto(p, frame)
  BY DEF ReadCounter, NextHandle, Entry
<1> HIDE DEF frame
<1>5. \A q \in Procs : calls'[q] = IF q = p THEN frame ELSE calls[q]
  BY <1>4 DEF Goto, TypeOK, CallsOK
<1>6. /\ clientHandleCounter' = clientHandleCounter /\ Given' = Given
      /\ \A h, m : Claims(h, m)' => Claims(h, m)
  BY <1>1 DEF NothingClaimed, Given
<1>7. \A q \in Procs \ {p} : calls'[q].pc # "counting"
  BY <1>3, <1>5
<1>8. calls'[p].pc = "counting" /\ calls'[p].handle = clientHandleCounter'
  BY <1>4, <1>5, <1>6
<1>9. ASSUME NEW q \in Procs, calls'[q].pc = "counted" PROVE Counted(q)'
  <2>1. calls'[q] = calls[q] /\ calls[q].pc = "counted"
    BY <1>5, <1>8, <1>9
  <2>2. \A r \in Procs : calls'[r].pc = "counted" => calls'[r] = calls[r]
    BY <1>5, <1>8
  <2>3. PICK h : h = calls[q].handle
    OBVIOUS
  <2>4. Counted(q)
    BY <2>1, AloneCounted DEF ClaimsInv
  <2>5. \A n \in Nodes : ~Claims(h, n)'
    BY <1>6, <2>3, <2>4 DEF Counted
  <2>6. \A r \in Procs \ {q} : calls'[r].pc = "counted" => calls'[r].handle # h
    BY <2>2, <2>3, <2>4 DEF Counted
  <2>7. calls'[q].handle = h /\ h \in Given'
    BY <1>6, <2>1, <2>3, <2>4 DEF Counted
  <2> QED
    BY <2>5, <2>6, <2>7, CountedAlone
<1> QED
  BY <1>2, <1>7, <1>8, <1>9, AllAlone DEF ClaimsInv

(* The write: what the thread read is the counter still, so its handle is  *)
(* the first of which nothing is said.                                     *)
LEMMA WriteClaims ==
    ASSUME TypeOK, ClaimsInv, NEW p \in Procs, WriteCounter(p)
    PROVE  ClaimsInv'
<1> DEFINE c == calls[p]
           frame == Entry("counted", c.todo, c.handle, c.request)
<1>1. /\ c.handle = clientHandleCounter
      /\ \A q \in Procs \ {p} : calls[q].pc # "counting"
  BY DEF WriteCounter, ClaimsInv, CountingAlone
<1>2. clientHandleCounter' = clientHandleCounter + 1
  BY <1>1 DEF WriteCounter
<1>3. Given' = Given \cup {c.handle} /\ c.handle \notin Given
  BY <1>1, <1>2 DEF Given, TypeOK
<1>4. /\ frame.pc = "counted" /\ frame.handle = c.handle
      /\ frame.request = c.request /\ Goto(p, frame)
  BY DEF WriteCounter, Entry
<1> HIDE DEF frame
<1>5. \A q \in Procs : calls'[q] = IF q = p THEN frame ELSE calls[q]
  BY <1>4 DEF Goto, TypeOK, CallsOK
<1>6. \A h, m : Claims(h, m)' => Claims(h, m)
  <2>1. UNCHANGED <<monitoredItems, items, published>>
    BY DEF WriteCounter, server
  <2>2. \A h \in DOMAIN frame.request : Claims(h, frame.request[h].node)
    BY <1>4, OwnClaims
  <2> QED
    BY <1>4, <2>1, <2>2, OwnClaims, ThreadClaims
<1>7. \A h, m : Claims(h, m) => h \in Given
  BY ClaimedGiven DEF ClaimsInv
<1>8. HandlesGiven'
  BY <1>3, <1>6, <1>7, GivenClaimed
<1>9. OneNodePerHandle'
  BY <1>6, <1>7 DEF ClaimsInv, OneNodePerHandle
<1>10. ASSUME NEW q \in Procs PROVE calls'[q].pc # "counting"
  BY <1>1, <1>4, <1>5
<1>11. \A q \in Procs \ {p} :
         /\ calls'[q] = calls[q]
         /\ calls[q].pc = "counted" => Counted(q)
  BY <1>5, AloneCounted DEF ClaimsInv
<1>12. calls'[p].handle = c.handle
  BY <1>4, <1>5
<1>13. Counted(p)'
  <2>1. PICK h : h = c.handle
    OBVIOUS
  <2>2. \A n \in Nodes : ~Claims(h, n)'
    BY <1>3, <1>6, <1>7, <2>1
  <2>3. \A r \in Procs \ {p} : calls'[r].pc = "counted"
                                  => calls'[r].handle # h
    BY <1>3, <1>11, <2>1 DEF Counted
  <2> QED
    BY <1>3, <1>12, <2>1, <2>2, <2>3, CountedAlone
<1>14. ASSUME NEW q \in Procs \ {p}, calls'[q].pc = "counted" PROVE Counted(q)'
  <2>1. PICK h : h = calls[q].handle
    OBVIOUS
  <2>2. Counted(q) /\ calls'[q] = calls[q]
    BY <1>11, <1>14
  <2>3. \A n \in Nodes : ~Claims(h, n)'
    BY <1>6, <2>1, <2>2 DEF Counted
  <2>4. h \in Given /\ h # c.handle
    BY <1>3, <2>1, <2>2 DEF Counted
  <2>5. \A r \in Procs \ {q} : calls'[r].pc = "counted" => calls'[r].handle # h
    BY <1>11, <1>12, <2>1, <2>2, <2>4 DEF Counted
  <2> QED
    BY <1>3, <2>1, <2>2, <2>3, <2>4, <2>5, CountedAlone
<1> QED
  BY <1>8, <1>9, <1>10, <1>13, <1>14, AllAlone DEF ClaimsInv

(* What the entry of an item changes.                                      *)
LEMMA EnterItemChanges ==
    ASSUME TypeOK, NEW p \in Procs, EnterItem(p)
    PROVE  \E node \in Nodes : \E frame :
             /\ monitoredItems' = WithItem(monitoredItems, calls[p].handle, node)
             /\ frame.pc = "next"
             /\ frame.request = WithItem(calls[p].request, calls[p].handle, node)
             /\ \A q \in Procs : calls'[q] = IF q = p THEN frame ELSE calls[q]
<1> DEFINE c == calls[p]
<1>1. PICK place \in DOMAIN c.todo : Enter(p, place)
  BY DEF EnterItem
<1> DEFINE request == WithItem(c.request, c.handle, c.todo[place])
           rest == Restrict(c.todo, DOMAIN c.todo \ {place})
           frame == Entry("next", rest, 0, request)
<1>2. c.todo[place] \in Nodes
  BY DEF TypeOK, CallsOK, FrameOK
<1>3. /\ monitoredItems' = WithItem(monitoredItems, c.handle, c.todo[place])
      /\ Goto(p, frame)
  BY <1>1 DEF Enter
<1>4. frame.pc = "next" /\ frame.request = request
  BY DEF Entry
<1> HIDE DEF frame
<1>5. \A q \in Procs : calls'[q] = IF q = p THEN frame ELSE calls[q]
  BY <1>3 DEF Goto, TypeOK, CallsOK
<1> QED
  BY <1>2, <1>3, <1>4, <1>5

LEMMA WithItemFields ==
    ASSUME NEW f, NEW handle, NEW node
    PROVE  /\ DOMAIN WithItem(f, handle, node) = DOMAIN f \cup {handle}
           /\ WithItem(f, handle, node)[handle] = Waiting(node)
           /\ \A h \in DOMAIN f \ {handle} :
                 WithItem(f, handle, node)[h] = f[h]
           /\ Waiting(node).node = node /\ Waiting(node).id = 0
BY DEF WithItem, Waiting

LEMMA WithItemSays ==
    ASSUME NEW f, NEW handle, NEW node, NEW h, NEW m,
           h \in DOMAIN WithItem(f, handle, node),
           WithItem(f, handle, node)[h].node = m
    PROVE  (h \in DOMAIN f /\ f[h].node = m) \/ (h = handle /\ m = node)
<1>1. h \in DOMAIN f \cup {handle}
  BY DEF WithItem
<1>2. CASE h = handle
  BY <1>2 DEF WithItem, Waiting
<1>3. CASE h # handle
  BY <1>1, <1>3 DEF WithItem
<1> QED
  BY <1>2, <1>3

(* The entry: the first thing that is said of the handle.                  *)
LEMMA EnterClaims ==
    ASSUME TypeOK, ClaimsInv, NEW p \in Procs, EnterItem(p)
    PROVE  ClaimsInv'
<1> DEFINE c == calls[p]
<1>0. PICK node \in Nodes : \E frame :
        /\ monitoredItems' = WithItem(monitoredItems, c.handle, node)
        /\ frame.pc = "next"
        /\ frame.request = WithItem(c.request, c.handle, node)
        /\ \A q \in Procs : calls'[q] = IF q = p THEN frame ELSE calls[q]
  BY EnterItemChanges
<1>1. PICK frame :
        /\ monitoredItems' = WithItem(monitoredItems, c.handle, node)
        /\ frame.pc = "next"
        /\ frame.request = WithItem(c.request, c.handle, node)
        /\ \A q \in Procs : calls'[q] = IF q = p THEN frame ELSE calls[q]
  BY <1>0
<1>2. /\ c.pc = "counted"
      /\ UNCHANGED <<clientHandleCounter, items, published>>
  BY DEF EnterItem, server
<1>3. Given' = Given
  BY <1>2 DEF Given
<1>4. /\ c.handle \in Given
      /\ \A n \in Nodes : ~Claims(c.handle, n)
      /\ \A q \in Procs \ {p} :
            calls[q].pc = "counted" => calls[q].handle # c.handle
  BY <1>2, AloneCounted DEF ClaimsInv, Counted
<1>5. ASSUME NEW h, NEW m, Claims(h, m)'
      PROVE  Claims(h, m) \/ (h = c.handle /\ m = node)
  <2>1. CASE h \in DOMAIN monitoredItems' /\ monitoredItems'[h].node = m
    <3>1. (h \in DOMAIN monitoredItems /\ monitoredItems[h].node = m)
            \/ (h = c.handle /\ m = node)
      BY <1>1, <2>1, WithItemSays
    <3> QED
      BY <3>1 DEF Claims
  <2>2. ASSUME NEW q \in Procs, h \in DOMAIN calls'[q].request,
               calls'[q].request[h].node = m
        PROVE  Claims(h, m) \/ (h = c.handle /\ m = node)
    <3>1. CASE q = p
      <4>1. calls'[q].request = WithItem(c.request, c.handle, node)
        BY <1>1, <3>1
      <4>2. (h \in DOMAIN c.request /\ c.request[h].node = m)
              \/ (h = c.handle /\ m = node)
        BY <2>2, <4>1, WithItemSays
      <4> QED
        BY <4>2 DEF Claims
    <3>2. CASE q # p
      BY <1>1, <2>2, <3>2 DEF Claims
    <3> QED
      BY <3>1, <3>2
  <2>3. CASE \E i \in items : i.handle = h /\ i.node = m
    BY <2>3 DEF Claims
  <2>4. CASE \E n \in published : n.handle = h /\ n.node = m
    BY <2>4 DEF Claims
  <2> QED
    BY <1>2, <1>5, <2>1, <2>2, <2>3, <2>4 DEF Claims
<1>6. HandlesGiven'
  <2>1. \A h, m : Claims(h, m)' => h \in Given'
    BY <1>3, <1>4, <1>5, ClaimedGiven DEF ClaimsInv
  <2> QED
    BY <2>1, GivenClaimed
<1>7. OneNodePerHandle'
  <2>1. ASSUME NEW h \in Given, NEW m \in Nodes, NEW n \in Nodes,
               Claims(h, m)', Claims(h, n)'
        PROVE  m = n
    BY <1>4, <1>5, <2>1 DEF ClaimsInv, OneNodePerHandle
  <2> QED
    BY <1>3, <2>1 DEF OneNodePerHandle
<1>8. \A q \in Procs : calls'[q].pc \in Between => calls'[q] = calls[q] /\ q # p
  BY <1>1 DEF Between
<1>9. ASSUME NEW q \in Procs, calls'[q].pc = "counting"
      PROVE  /\ calls'[q].handle = clientHandleCounter'
             /\ \A r \in Procs \ {q} : calls'[r].pc # "counting"
  <2>1. calls'[q] = calls[q] /\ calls[q].pc = "counting"
    BY <1>8, <1>9 DEF Between
  <2>2. /\ calls[q].handle = clientHandleCounter
        /\ \A r \in Procs \ {q} : calls[r].pc # "counting"
    BY <2>1 DEF ClaimsInv, CountingAlone
  <2>3. ASSUME NEW r \in Procs, calls'[r].pc = "counting" PROVE r = q
    <3>1. calls'[r] = calls[r]
      BY <1>8, <2>3 DEF Between
    <3> QED
      BY <2>2, <2>3, <3>1
  <2> QED
    BY <1>2, <2>1, <2>2, <2>3
<1>10. ASSUME NEW q \in Procs, calls'[q].pc = "counted" PROVE Counted(q)'
  <2>1. calls'[q] = calls[q] /\ q # p /\ calls[q].pc = "counted"
    BY <1>8, <1>10 DEF Between
  <2>2. PICK h : h = calls[q].handle
    OBVIOUS
  <2>3. Counted(q) /\ h # c.handle
    BY <1>4, <2>1, <2>2, AloneCounted DEF ClaimsInv
  <2>4. \A n \in Nodes : ~Claims(h, n)'
    BY <1>5, <2>2, <2>3 DEF Counted
  <2>5. \A r \in Procs \ {q} : calls'[r].pc = "counted" => calls'[r].handle # h
    BY <1>8, <2>2, <2>3 DEF Counted, Between
  <2> QED
    BY <1>3, <2>1, <2>2, <2>3, <2>4, <2>5, CountedAlone DEF Counted
<1> QED
  BY <1>6, <1>7, <1>9, <1>10, AllAlone DEF ClaimsInv

LEMMA ClaimsStep ==
    ASSUME TypeOK, ClaimsInv, ~raced', [Next]_vars PROVE ClaimsInv'
<1>1. ASSUME NEW p \in Procs, ReadCounter(p) PROVE ClaimsInv'
  BY <1>1, ReadClaims
<1>2. ASSUME NEW p \in Procs, WriteCounter(p) PROVE ClaimsInv'
  BY <1>2, WriteClaims
<1>3. ASSUME NEW p \in Procs, EnterItem(p) PROVE ClaimsInv'
  BY <1>3, EnterClaims
<1>4. ASSUME \A p \in Procs : /\ ~ReadCounter(p)
                              /\ ~WriteCounter(p)
                              /\ ~EnterItem(p)
      PROVE  ClaimsInv'
  BY <1>4, StepClaims, UncountedStep, KnownKept, AloneKept DEF ClaimsInv
<1> QED
  BY <1>1, <1>2, <1>3, <1>4

(* Only the read of the counter makes a race, and only Deliver calls the   *)
(* application back.                                                       *)
LEMMA Quietly ==
    ASSUME [Next]_vars
    PROVE  /\ raced' = raced \/ \E p \in Procs : ReadCounter(p)
           /\ callback' = callback \/ Deliver
<1>1. ASSUME NEW t \in Threads, Add(t) PROVE UNCHANGED <<raced, callback>>
  BY <1>1 DEF Add
<1>2. ASSUME NEW t \in Threads, NEW op, NEW nodes, StartRemove(t, op, nodes)
      PROVE  UNCHANGED <<raced, callback>>
  BY <1>2 DEF StartRemove, Crash
<1>3. ASSUME NEW p \in Procs, Serve(p) PROVE UNCHANGED <<raced, callback>>
  BY <1>3 DEF Serve, Refuse, ServeCreateSubscription,
     ServeCreateMonitoredItems, ServeDeleteMonitoredItems,
     ServeDeleteSubscription
<1>4. ASSUME NEW p \in Procs, Returns(p) PROVE UNCHANGED <<raced, callback>>
  <2>1. CreateSubscriptionReturns(p) => UNCHANGED <<raced, callback>>
    BY DEF CreateSubscriptionReturns
  <2>2. CreateMonitoredItemsReturns(p) => UNCHANGED <<raced, callback>>
    BY DEF CreateMonitoredItemsReturns, Crash
  <2>3. DeleteMonitoredItemsReturns(p) => UNCHANGED <<raced, callback>>
    BY DEF DeleteMonitoredItemsReturns, Crash
  <2>4. DeleteSubscriptionReturns(p) => UNCHANGED <<raced, callback>>
    BY DEF DeleteSubscriptionReturns
  <2> QED
    BY <1>4, <2>1, <2>2, <2>3, <2>4 DEF Returns
<1>5. ASSUME NEW p \in Procs, Enters(p), ~ReadCounter(p)
      PROVE  UNCHANGED <<raced, callback>>
  BY <1>5 DEF Enters, WriteCounter, EnterItem, AllEntered
<1>6. ASSUME NEW p \in Procs, ReadCounter(p) PROVE callback' = callback
  BY <1>6 DEF ReadCounter
<1>7. ASSUME NEW p \in Procs, UseAfterDelete(p) PROVE UNCHANGED <<raced, callback>>
  BY <1>7 DEF UseAfterDelete, Crash
<1>8. StatusChanged \/ Publish \/ LoseSubscription \/ Ended \/ UNCHANGED vars
        => UNCHANGED <<raced, callback>>
  BY DEF StatusChanged, Crash, Publish, LoseSubscription, Ended, vars
<1>9. Deliver => raced' = raced
  BY DEF Deliver
<1> QED
  BY <1>1, <1>2, <1>3, <1>4, <1>5, <1>6, <1>7, <1>8, <1>9
  DEF Next, Remove, RemoveAll

(* Once raced, always raced.                                               *)
LEMMA RacedStays == [Next]_vars /\ ~raced' => ~raced
BY Quietly DEF ReadCounter

LEMMA CallbackStep ==
    ASSUME TypeOK, ~raced => ClaimsInv, NotificationsAttributed, [Next]_vars
    PROVE  NotificationsAttributed'
<1> SUFFICES ASSUME ~raced' PROVE \A c \in callback' : c.node = c.source
  BY DEF NotificationsAttributed
<1>1. ClaimsInv /\ \A c \in callback : c.node = c.source
  BY RacedStays DEF NotificationsAttributed
<1>2. CASE Deliver
  <2>1. PICK n \in published :
          IF n.node \in EventTypes THEN NewEvents(n) ELSE DataChange(n)
    BY <1>2 DEF Deliver
  <2>2. ASSUME n.handle \in DOMAIN monitoredItems
        PROVE  monitoredItems[n.handle].node = n.node
    <3>1. Claims(n.handle, monitoredItems[n.handle].node)
      BY <2>2 DEF Claims
    <3>2. Claims(n.handle, n.node)
      BY DEF Claims
    <3>3. n.handle \in Given
      BY <1>1 DEF ClaimsInv, HandlesGiven
    <3>4. n.node \in Nodes /\ monitoredItems[n.handle].node \in Nodes
      BY <2>2 DEF TypeOK, IsItems, Item
    <3> QED
      BY <1>1, <3>1, <3>2, <3>3, <3>4 DEF ClaimsInv, OneNodePerHandle
  <2>3. callback' = callback \/
        callback' = {[node |-> n.node, source |-> n.node]}
    BY <2>1, <2>2 DEF NewEvents, DataChange
  <2> QED
    BY <1>1, <2>3
<1>3. CASE callback' = callback
  BY <1>1, <1>3
<1> QED
  BY <1>2, <1>3, Quietly

(* AttributionInv is inductive.                                            *)
THEOREM AttributionInvariant == Spec => []AttributionInv
<1>1. Init => AttributionInv
  BY TypeInit, ClaimsInit
  DEF AttributionInv, ClaimsInv, NotificationsAttributed, Init
<1>2. AttributionInv /\ [Next]_vars => AttributionInv'
  <2> SUFFICES ASSUME AttributionInv, [Next]_vars PROVE AttributionInv'
    OBVIOUS
  <2>1. TypeOK /\ (~raced => ClaimsInv) /\ NotificationsAttributed
    BY DEF AttributionInv, ClaimsInv
  <2>2. TypeOK'
    BY <2>1, TypeStep
  <2>3. ~raced' => ClaimsInv'
    BY <2>1, RacedStays, ClaimsStep
  <2>4. NotificationsAttributed'
    BY <2>1, CallbackStep
  <2> QED
    BY <2>2, <2>3, <2>4 DEF AttributionInv, ClaimsInv
<1> QED
  BY <1>1, <1>2, PTL DEF Spec

(* No notification is ever passed on as one of another node, whatever the  *)
(* server does and however many threads use the object, until two of them  *)
(* race at the counter: that is the only way it can happen.                *)
THEOREM AttributionCorrect == Spec => []NotificationsAttributed
<1>1. AttributionInv => NotificationsAttributed
  BY DEF AttributionInv
<1> QED
  BY <1>1, AttributionInvariant, PTL


-----------------------------------------------------------------------------
(* Refinement of the life cycle of client handles.                         *)

(* What the steps of the abstract specification look at.                   *)
LEMMA MappedDomains ==
    /\ DOMAIN NodesOf(WithoutId) = WithoutId
    /\ DOMAIN NodesOf(WithId) = WithId
    /\ \A h \in WithoutId : NodesOf(WithoutId)[h] = monitoredItems[h].node
    /\ \A h \in WithId : NodesOf(WithId)[h] = monitoredItems[h].node
    /\ WithId \cup WithoutId = DOMAIN monitoredItems
    /\ WithId \cap WithoutId = {}
BY DEF NodesOf, WithId, WithoutId

LEMMA MappedDomainsPrimed ==
    /\ (DOMAIN NodesOf(WithoutId))' = WithoutId'
    /\ (DOMAIN NodesOf(WithId))' = WithId'
    /\ \A h \in WithoutId' : NodesOf(WithoutId)'[h] = monitoredItems'[h].node
    /\ \A h \in WithId' : NodesOf(WithId)'[h] = monitoredItems'[h].node
    /\ WithId' \cup WithoutId' = DOMAIN monitoredItems'
    /\ WithId' \cap WithoutId' = {}
BY DEF NodesOf, WithId, WithoutId

(* No handle of the list is one that a thread has counted and not entered. *)
ListedNotReserved ==
    DOMAIN monitoredItems \subseteq Given /\ DOMAIN monitoredItems \cap Reserved = {}

LEMMA ReservedFree ==
    ASSUME TypeOK, ClaimsInv PROVE ListedNotReserved
<1>1. ASSUME NEW h \in DOMAIN monitoredItems PROVE h \notin Reserved
  <2>1. SUFFICES ASSUME NEW p \in Procs, calls[p].pc = "counted",
                        h = calls[p].handle
                 PROVE  FALSE
    BY DEF Reserved
  <2>2. monitoredItems[h].node \in Nodes
    BY DEF TypeOK, IsItems, Item
  <2>3. Claims(h, monitoredItems[h].node)
    BY OwnClaims
  <2> QED
    BY <2>1, <2>2, <2>3, AloneCounted DEF ClaimsInv, Counted
<1> QED
  BY <1>1 DEF ListedNotReserved, ClaimsInv, HandlesGiven

LEMMA ReservedKept ==
    ASSUME \A q \in Procs : calls[q].pc = "counted" \/ calls'[q].pc = "counted"
                                => calls'[q] = calls[q]
    PROVE  Reserved' = Reserved
BY DEF Reserved

LEMMA UncountedReserved == Uncounted => Reserved' = Reserved
BY ReservedKept DEF Uncounted, Between

(* A step that leaves the list, the counter and the callback alone.        *)
LEMMA MappedStutter ==
    ASSUME UNCHANGED <<monitoredItems, clientHandleCounter, callback, Reserved>>
    PROVE  UNCHANGED Handles!handles
BY DEF Handles!handles, NodesOf, WithId, WithoutId, Given

LEMMA MappedRetire ==
    ASSUME ListedNotReserved, NEW kept,
           kept \subseteq DOMAIN monitoredItems,
           monitoredItems' = Restrict(monitoredItems, kept),
           UNCHANGED <<clientHandleCounter, callback, Reserved>>
    PROVE  Handles!Retire
<1>1. /\ DOMAIN monitoredItems' = kept
      /\ \A h \in kept : monitoredItems'[h] = monitoredItems[h]
  BY DEF Restrict
<1>2. WithId' = WithId \cap kept /\ WithoutId' = WithoutId \cap kept
  BY <1>1 DEF WithId, WithoutId
<1>3. Handles!PartOf(NodesOf(WithoutId)', NodesOf(WithoutId))
  BY <1>1, <1>2, MappedDomains, MappedDomainsPrimed, ZenonT(60)
  DEF Handles!PartOf
<1>4. Handles!PartOf(NodesOf(WithId)', NodesOf(WithId))
  BY <1>1, <1>2, MappedDomains, MappedDomainsPrimed, ZenonT(60)
  DEF Handles!PartOf
<1>5. Given \ (kept \cup Reserved) =
          (Given \ (DOMAIN monitoredItems \cup Reserved))
            \cup (WithoutId \ WithoutId') \cup (WithId \ WithId')
  BY <1>2, MappedDomains DEF ListedNotReserved
<1>6. Given' = Given
  BY DEF Given
<1> QED
  BY <1>1, <1>3, <1>4, <1>5, <1>6, MappedDomains, MappedDomainsPrimed
  DEF Handles!Retire

(* The write of the counter: the handle is given out and reserved at once. *)
LEMMA WriteCounterMapped ==
    ASSUME TypeOK, ClaimsInv, NEW p \in Procs, WriteCounter(p)
    PROVE  UNCHANGED Handles!handles
<1> DEFINE c == calls[p]
           frame == Entry("counted", c.todo, c.handle, c.request)
<1>1. c.pc = "counting" /\ c.handle = clientHandleCounter
  BY DEF WriteCounter, ClaimsInv, CountingAlone
<1>2. Given' = Given \cup {c.handle} /\ c.handle \notin Given
  BY <1>1 DEF WriteCounter, Given, TypeOK
<1>3. frame.pc = "counted" /\ frame.handle = c.handle /\ Goto(p, frame)
  BY DEF WriteCounter, Entry
<1> HIDE DEF frame
<1>4. \A q \in Procs : calls'[q] = IF q = p THEN frame ELSE calls[q]
  BY <1>3 DEF Goto, TypeOK, CallsOK
<1>5. Reserved' = Reserved \cup {c.handle}
  BY <1>1, <1>3, <1>4 DEF Reserved
<1>6. Given' \ (DOMAIN monitoredItems \cup Reserved') =
          Given \ (DOMAIN monitoredItems \cup Reserved)
  BY <1>2, <1>5
<1>7. UNCHANGED <<monitoredItems, callback>>
  BY DEF WriteCounter
<1>8. UNCHANGED <<NodesOf(WithoutId), NodesOf(WithId)>>
  BY <1>7 DEF NodesOf, WithId, WithoutId
<1> QED
  BY <1>6, <1>7, <1>8 DEF Handles!handles

(* The entry of an item: its handle is reserved until then.                *)
LEMMA EnterItemMapped ==
    ASSUME TypeOK, ClaimsInv, NEW p \in Procs, EnterItem(p)
    PROVE  Handles!Enter
<1> DEFINE c == calls[p]
<1>0. PICK node \in Nodes : \E frame :
        /\ monitoredItems' = WithItem(monitoredItems, c.handle, node)
        /\ frame.pc = "next"
        /\ frame.request = WithItem(c.request, c.handle, node)
        /\ \A q \in Procs : calls'[q] = IF q = p THEN frame ELSE calls[q]
  BY EnterItemChanges
<1>1. PICK frame :
        /\ monitoredItems' = WithItem(monitoredItems, c.handle, node)
        /\ frame.pc = "next"
        /\ frame.request = WithItem(c.request, c.handle, node)
        /\ \A q \in Procs : calls'[q] = IF q = p THEN frame ELSE calls[q]
  BY <1>0
<1>2. PICK h : h = c.handle
  OBVIOUS
<1>3. /\ c.pc = "counted" /\ Counted(p)
      /\ UNCHANGED <<clientHandleCounter, callback>>
  BY AloneCounted DEF EnterItem, ClaimsInv
<1>4. h \in Reserved /\ h \in Given
  BY <1>2, <1>3 DEF Reserved, Counted
<1>5. ListedNotReserved
  BY ReservedFree
<1>6. Reserved' = Reserved \ {h}
  <2>1. \A q \in Procs : calls'[q].pc = "counted" <=>
                          q # p /\ calls[q].pc = "counted"
    BY <1>1
  <2>2. \A q \in Procs \ {p} : calls'[q] = calls[q]
    BY <1>1
  <2>3. \A q \in Procs \ {p} : calls[q].pc = "counted" => calls[q].handle # h
    BY <1>2, <1>3 DEF Counted
  <2>4. Reserved' = {calls[q].handle : q \in {r \in Procs \ {p} :
                                               calls[r].pc = "counted"}}
    BY <2>1, <2>2 DEF Reserved
  <2>5. Reserved = {calls[q].handle : q \in {r \in Procs \ {p} :
                                              calls[r].pc = "counted"}} \cup {h}
    BY <1>2, <1>3 DEF Reserved
  <2> QED
    BY <2>3, <2>4, <2>5
<1>7. /\ DOMAIN monitoredItems' = DOMAIN monitoredItems \cup {h}
      /\ monitoredItems'[h].id = 0
      /\ h \notin DOMAIN monitoredItems
      /\ \A g \in DOMAIN monitoredItems : monitoredItems'[g] = monitoredItems[g]
  <2>1. h \notin DOMAIN monitoredItems
    BY <1>4, <1>5 DEF ListedNotReserved
  <2>2. monitoredItems' = WithItem(monitoredItems, h, node)
    BY <1>1, <1>2
  <2> QED
    BY <2>1, <2>2 DEF WithItem, Waiting
<1>8. WithId' = WithId /\ WithoutId' = WithoutId \cup {h}
  BY <1>7 DEF WithId, WithoutId
<1>9. Handles!PartOf(NodesOf(WithoutId), NodesOf(WithoutId)')
  BY <1>7, <1>8, MappedDomains, MappedDomainsPrimed, ZenonT(60)
  DEF Handles!PartOf
<1>10. NodesOf(WithId)' = NodesOf(WithId)
  BY <1>7, <1>8 DEF NodesOf, WithId
<1>11. Given' \ (DOMAIN monitoredItems' \cup Reserved') =
          Given \ (DOMAIN monitoredItems \cup Reserved)
  BY <1>3, <1>4, <1>6, <1>7 DEF Given
<1>12. h \notin WithId \cup (Given \ (DOMAIN monitoredItems \cup Reserved))
  BY <1>4, <1>7, MappedDomains
<1> QED
  BY <1>3, <1>8, <1>9, <1>10, <1>11, <1>12, MappedDomains, MappedDomainsPrimed
  DEF Handles!Enter

(* What AddedHandlesWait says before a race.                               *)
Waits ==
    \A p \in Procs : Adding(calls[p]) =>
        /\ \A h \in DOMAIN calls[p].request \cap DOMAIN monitoredItems :
              monitoredItems[h].id = 0
        /\ \A q \in Procs \ {p} : Adding(calls[q]) =>
              DOMAIN calls[p].request \cap DOMAIN calls[q].request = {}

LEMMA CreateMonitoredItemsReturnsMapped ==
    ASSUME TypeOK, ListedNotReserved, Waits,
           NEW p \in Procs, CreateMonitoredItemsReturns(p), ~Crash,
           Reserved' = Reserved
    PROVE  Handles!Settle
<1> DEFINE c == calls[p]
           kept == DOMAIN monitoredItems \ Failed(c)
           granted == Granted(c)
<1>1. /\ DOMAIN c.request \subseteq DOMAIN monitoredItems
      /\ monitoredItems' =
            [h \in kept |-> IF h \in granted
                            THEN [node |-> monitoredItems[h].node,
                                  id |-> c.results[h]]
                            ELSE monitoredItems[h]]
      /\ UNCHANGED <<clientHandleCounter, callback>>
  BY DEF CreateMonitoredItemsReturns, ResultOf
<1>2. /\ granted \subseteq DOMAIN c.request
      /\ \A h \in granted : c.results[h] # 0
  BY DEF TypeOK, CallsOK, FrameOK, Granted
<1>3. \A h \in DOMAIN c.request : monitoredItems[h].id = 0
  BY <1>1 DEF Waits, Adding, CreateMonitoredItemsReturns
<1>4. kept = DOMAIN monitoredItems \ (DOMAIN c.request \ granted)
  BY DEF Failed
<1> HIDE DEF c, kept, granted
<1>5. /\ DOMAIN monitoredItems' = kept
      /\ \A h \in kept : monitoredItems'[h].node = monitoredItems[h].node
      /\ \A h \in granted : h \in kept => monitoredItems'[h].id # 0
      /\ \A h \in kept \ granted : monitoredItems'[h] = monitoredItems[h]
  BY <1>1, <1>2
<1>6. /\ WithId' = WithId \cup granted
      /\ WithoutId' = WithoutId \ DOMAIN c.request
  <2>1. granted \subseteq kept
    BY <1>1, <1>2, <1>4
  <2>2. WithId \cap DOMAIN c.request = {}
    BY <1>3 DEF WithId
  <2>3. WithId' = WithId \cup granted
    BY <1>1, <1>2, <1>4, <1>5, <2>1, <2>2 DEF WithId
  <2>4. WithoutId' = WithoutId \ DOMAIN c.request
    BY <1>1, <1>2, <1>4, <1>5, <2>1 DEF WithoutId
  <2> QED
    BY <2>3, <2>4
<1>7. granted \subseteq WithoutId
  BY <1>1, <1>2, <1>3 DEF WithoutId
<1>8. Handles!PartOf(NodesOf(WithoutId)', NodesOf(WithoutId))
  BY <1>5, <1>6, MappedDomains, MappedDomainsPrimed, ZenonT(60)
  DEF Handles!PartOf
<1>9. Handles!PartOf(NodesOf(WithId), NodesOf(WithId)')
  BY <1>5, <1>6, MappedDomains, MappedDomainsPrimed, ZenonT(60)
  DEF Handles!PartOf
<1>10. \A h \in WithId' \ WithId :
         /\ h \in WithoutId \ WithoutId'
         /\ NodesOf(WithId)'[h] = NodesOf(WithoutId)[h]
  <2> SUFFICES ASSUME NEW h \in WithId' \ WithId
               PROVE  /\ h \in WithoutId \ WithoutId'
                      /\ NodesOf(WithId)'[h] = NodesOf(WithoutId)[h]
    OBVIOUS
  <2>1. h \in granted /\ h \in WithoutId /\ h \in WithId'
    BY <1>6, <1>7
  <2>2. h \in kept /\ h \notin WithoutId'
    BY <2>1, <1>2, <1>5, <1>6, MappedDomainsPrimed
  <2> QED
    BY <2>1, <2>2, <1>5, MappedDomains, MappedDomainsPrimed
<1>11. Given' \ (DOMAIN monitoredItems' \cup Reserved') =
          (Given \ (DOMAIN monitoredItems \cup Reserved))
            \cup (WithoutId \ (WithoutId' \cup WithId'))
  <2>1. Given' = Given
    BY <1>1 DEF Given
  <2>2. DOMAIN monitoredItems' = WithId \cup granted \cup (WithoutId \ DOMAIN c.request)
    BY <1>6, MappedDomainsPrimed
  <2>3. WithoutId \ (WithoutId' \cup WithId') =
           DOMAIN monitoredItems \ DOMAIN monitoredItems'
    BY <1>6, <1>7, <2>2, MappedDomains
  <2>4. DOMAIN monitoredItems' \subseteq DOMAIN monitoredItems
    BY <1>4, <1>5
  <2> QED
    BY <2>1, <2>3, <2>4 DEF ListedNotReserved
<1> QED
  BY <1>1, <1>8, <1>9, <1>10, <1>11, MappedDomains, MappedDomainsPrimed
  DEF Handles!Settle

(* A thread's step that gives ids only to the handles it had asked for     *)
(* keeps all others waiting.                                               *)
LEMMA ThreadWaits ==
    ASSUME TypeOK, Waits, NEW p \in Procs, NEW frame,
           Goto(p, frame),
           Adding(frame) => \/ DOMAIN frame.request = {}
                            \/ /\ Adding(calls[p])
                               /\ frame.request = calls[p].request
                               /\ \A h \in DOMAIN monitoredItems' :
                                     /\ h \in DOMAIN monitoredItems
                                     /\ monitoredItems'[h].id
                                           = monitoredItems[h].id,
           \A h \in DOMAIN monitoredItems' :
               /\ h \in DOMAIN monitoredItems
               /\ \/ monitoredItems'[h].id = monitoredItems[h].id
                  \/ Adding(calls[p]) /\ h \in DOMAIN calls[p].request
    PROVE  Waits'
<1>1. \A q \in Procs : calls'[q] = IF q = p THEN frame ELSE calls[q]
  BY DEF Goto, TypeOK, CallsOK
<1>2. \A q \in Procs : Adding(calls'[q]) =>
          \/ DOMAIN calls'[q].request = {}
          \/ Adding(calls[q]) /\ calls'[q].request = calls[q].request
  BY <1>1
<1>3. ASSUME NEW q \in Procs, Adding(calls'[q]),
             NEW h \in DOMAIN calls'[q].request \cap DOMAIN monitoredItems'
      PROVE  monitoredItems'[h].id = 0
  <2>1. h \in DOMAIN monitoredItems /\ monitoredItems[h].id = 0
    BY <1>2, <1>3 DEF Waits
  <2>2. CASE q = p
    BY <1>1, <1>3, <2>1, <2>2
  <2>3. CASE q # p
    <3>1. ~(Adding(calls[p]) /\ h \in DOMAIN calls[p].request)
      BY <1>2, <1>3, <2>3 DEF Waits
    <3> QED
      BY <2>1, <3>1
  <2> QED
    BY <2>2, <2>3
<1>4. ASSUME NEW q \in Procs, NEW r \in Procs \ {q}, Adding(calls'[q]),
             Adding(calls'[r])
      PROVE  DOMAIN calls'[q].request \cap DOMAIN calls'[r].request = {}
  BY <1>2, <1>4 DEF Waits
<1> QED
  BY <1>3, <1>4 DEF Waits

LEMMA NotAdding ==
    /\ \A op, thrown : ~Adding(Idle(op, thrown))
    /\ \A op, request, sub, thrown :
          /\ ~Adding(Call("deleteMonitoredItems", op, request, sub, thrown))
          /\ ~Adding(Call("deleteSubscription", op, request, sub, thrown))
BY DEF Adding, EntrySteps, Idle, Call

LEMMA SameWaits ==
    ASSUME Waits, UNCHANGED <<monitoredItems, calls>>
    PROVE  Waits'
BY DEF Waits

(* A thread that enters an item waits for a handle nobody else knows.      *)
LEMMA EnterItemWaits ==
    ASSUME TypeOK, ClaimsInv, Waits, NEW p \in Procs, EnterItem(p)
    PROVE  Waits'
<1> DEFINE c == calls[p]
<1>0. PICK node \in Nodes : \E frame :
        /\ monitoredItems' = WithItem(monitoredItems, c.handle, node)
        /\ frame.pc = "next"
        /\ frame.request = WithItem(c.request, c.handle, node)
        /\ \A q \in Procs : calls'[q] = IF q = p THEN frame ELSE calls[q]
  BY EnterItemChanges
<1>1. PICK frame :
        /\ monitoredItems' = WithItem(monitoredItems, c.handle, node)
        /\ frame.pc = "next"
        /\ frame.request = WithItem(c.request, c.handle, node)
        /\ \A q \in Procs : calls'[q] = IF q = p THEN frame ELSE calls[q]
  BY <1>0
<1>2. PICK h : h = c.handle
  OBVIOUS
<1>3. Adding(c) /\ Counted(p)
  BY AloneCounted DEF EnterItem, ClaimsInv, Adding, EntrySteps
<1>4. \A q \in Procs : h \notin DOMAIN calls[q].request
  <2> SUFFICES ASSUME NEW q \in Procs, h \in DOMAIN calls[q].request PROVE FALSE
    OBVIOUS
  <2>1. calls[q].request[h].node \in Nodes
    BY DEF TypeOK, CallsOK, FrameOK, IsItems, Item
  <2>2. Claims(h, calls[q].request[h].node)
    BY OwnClaims
  <2> QED
    BY <1>2, <1>3, <2>1, <2>2 DEF Counted
<1>5. /\ DOMAIN frame.request = DOMAIN c.request \cup {h}
      /\ DOMAIN monitoredItems' = DOMAIN monitoredItems \cup {h}
      /\ monitoredItems'[h].id = 0
      /\ \A g \in DOMAIN monitoredItems \ {h} :
            monitoredItems'[g] = monitoredItems[g]
  <2>1. /\ monitoredItems' = WithItem(monitoredItems, h, node)
        /\ frame.request = WithItem(c.request, h, node)
    BY <1>1, <1>2
  <2> QED
    BY <2>1 DEF WithItem, Waiting
<1>6. ASSUME NEW q \in Procs, Adding(calls'[q]),
             NEW g \in DOMAIN calls'[q].request \cap DOMAIN monitoredItems'
      PROVE  monitoredItems'[g].id = 0
  <2>1. CASE g = h
    BY <1>5, <2>1
  <2>2. CASE g # h
    <3>1. Adding(calls[q]) /\ g \in DOMAIN calls[q].request
      BY <1>1, <1>3, <1>5, <1>6, <2>2
    <3> QED
      BY <1>5, <2>2, <3>1 DEF Waits
  <2> QED
    BY <2>1, <2>2
<1>7. ASSUME NEW q \in Procs, NEW r \in Procs \ {q}, Adding(calls'[q]),
             Adding(calls'[r])
      PROVE  DOMAIN calls'[q].request \cap DOMAIN calls'[r].request = {}
  <2>1. Adding(calls[q]) /\ Adding(calls[r])
    BY <1>1, <1>3, <1>7
  <2>2. DOMAIN calls[q].request \cap DOMAIN calls[r].request = {}
    BY <2>1 DEF Waits
  <2>3. CASE q # p /\ r # p
    BY <1>1, <2>2, <2>3
  <2>4. CASE q = p
    BY <1>1, <1>4, <1>5, <2>2, <2>4
  <2>5. CASE r = p
    BY <1>1, <1>4, <1>5, <2>2, <2>5
  <2> QED
    BY <2>3, <2>4, <2>5
<1> QED
  BY <1>6, <1>7 DEF Waits

(* The other steps of the loop of add.                                     *)
LEMMA EntersWait ==
    ASSUME TypeOK, Waits, NEW p \in Procs,
           ReadCounter(p) \/ WriteCounter(p) \/ AllEntered(p)
    PROVE  Waits'
<1> DEFINE c == calls[p]
<1>1. PICK frame : Goto(p, frame) /\ frame.request = c.request
  <2>1. CASE ReadCounter(p)
    BY <2>1, GotoEntry DEF ReadCounter
  <2>2. CASE WriteCounter(p)
    BY <2>2, GotoEntry DEF WriteCounter
  <2>3. CASE AllEntered(p)
    BY <2>3, AllEnteredRequest
  <2> QED
    BY <2>1, <2>2, <2>3
<1>2. Adding(c)
  BY DEF ReadCounter, WriteCounter, AllEntered, Adding, EntrySteps
<1>3. monitoredItems' = monitoredItems
  BY DEF ReadCounter, WriteCounter, AllEntered, client
<1> QED
  BY <1>1, <1>2, <1>3, ThreadWaits

(* A thread that begins to add asks for nothing yet.                       *)
LEMMA BeginWaits ==
    ASSUME TypeOK, Waits, NEW p \in Procs, NEW todo,
           Goto(p, Entry("next", todo, 0, NoItems)),
           monitoredItems' = monitoredItems
    PROVE  Waits'
<1>1. PICK frame : Goto(p, frame) /\ DOMAIN frame.request = {}
  BY GotoEntry, NoRequest
<1> QED
  BY <1>1, ThreadWaits

(* A thread that goes to a frame with nothing to add and at most takes     *)
(* entries out of the list.                                                *)
LEMMA DropWaits ==
    ASSUME TypeOK, Waits, NEW p \in Procs, NEW frame,
           Goto(p, frame), ~Adding(frame),
           \A h \in DOMAIN monitoredItems' :
               /\ h \in DOMAIN monitoredItems
               /\ monitoredItems'[h] = monitoredItems[h]
    PROVE  Waits'
BY ThreadWaits

LEMMA DeleteSubscriptionOrEndWaits ==
    ASSUME NEW p, NEW op, NEW thrown, DeleteSubscriptionOrEnd(p, op, thrown)
    PROVE  \E frame : Goto(p, frame) /\ ~Adding(frame)
BY NotAdding DEF DeleteSubscriptionOrEnd

LEMMA ReturnsWait ==
    ASSUME TypeOK, Waits, NEW p \in Procs, Returns(p)
    PROVE  Waits'
<1> DEFINE c == calls[p]
<1>1. CASE CreateSubscriptionReturns(p)
  <2>1. monitoredItems' = monitoredItems
    BY <1>1 DEF CreateSubscriptionReturns
  <2>2. CASE Goto(p, Idle("add", TRUE))
    BY <2>1, <2>2, NotAdding, DropWaits
  <2>3. CASE Goto(p, Call("createMonitoredItems", "add", c.request, c.sub,
                          FALSE))
    <3> DEFINE frame == Call("createMonitoredItems", "add", c.request, c.sub,
                             FALSE)
    <3>1. frame.request = c.request /\ Goto(p, frame)
      <4>1. Goto(p, frame)
        BY <2>3
      <4>2. frame.request = c.request
        BY DEF Call
      <4> QED
        BY <4>1, <4>2
    <3>2. Adding(c)
      BY <1>1 DEF CreateSubscriptionReturns, Adding
    <3> HIDE DEF frame
    <3> QED
      BY <2>1, <3>1, <3>2, ThreadWaits
  <2> QED
    BY <1>1, <2>2, <2>3 DEF CreateSubscriptionReturns
<1>2. CASE CreateMonitoredItemsReturns(p)
  <2>1. CASE Crash
    BY <2>1, SameWaits DEF Crash, client
  <2>2. CASE ~Crash
    <3>1. PICK frame : Goto(p, frame) /\ ~Adding(frame)
      BY <1>2, <2>2, DeleteSubscriptionOrEndWaits, NotAdding
      DEF CreateMonitoredItemsReturns
    <3>2. \A h \in DOMAIN monitoredItems' :
             /\ h \in DOMAIN monitoredItems
             /\ \/ monitoredItems'[h].id = monitoredItems[h].id
                \/ h \in Granted(c)
      BY <1>2, <2>2 DEF CreateMonitoredItemsReturns
    <3>3. Adding(c) /\ Granted(c) \subseteq DOMAIN c.request
      BY <1>2
      DEF CreateMonitoredItemsReturns, Adding, Granted, TypeOK, CallsOK,
          FrameOK
    <3> QED
      BY <3>1, <3>2, <3>3, ThreadWaits
  <2> QED
    BY <2>1, <2>2
<1>3. CASE DeleteMonitoredItemsReturns(p)
  <2>1. CASE Crash
    BY <2>1, SameWaits DEF Crash, client
  <2>2. CASE ~Crash
    <3>1. PICK frame : Goto(p, frame) /\ ~Adding(frame)
      BY <1>3, <2>2, DeleteSubscriptionOrEndWaits, NotAdding
      DEF DeleteMonitoredItemsReturns
    <3>2. monitoredItems' =
            Restrict(monitoredItems, DOMAIN monitoredItems \ Granted(c))
      BY <1>3, <2>2 DEF DeleteMonitoredItemsReturns
    <3> QED
      BY <3>1, <3>2, DropWaits DEF Restrict
  <2> QED
    BY <2>1, <2>2
<1>4. CASE DeleteSubscriptionReturns(p)
  <2>1. CASE \E op, thrown : /\ Goto(p, Idle(op, thrown))
                             /\ monitoredItems' = monitoredItems
    BY <2>1, NotAdding, DropWaits
  <2>2. CASE \E todo : /\ Goto(p, Entry("next", todo, 0, NoItems))
                       /\ monitoredItems' = monitoredItems
    BY <2>2, BeginWaits
  <2> QED
    BY <1>4, <2>1, <2>2 DEF DeleteSubscriptionReturns, AddAgain, client
<1> QED
  BY <1>1, <1>2, <1>3, <1>4 DEF Returns

LEMMA ServeWaits ==
    ASSUME TypeOK, Waits, NEW p \in Procs, Serve(p)
    PROVE  Waits'
<1> DEFINE c == calls[p]
<1>1. PICK answer, sub, results : Answer(p, answer, sub, results)
  BY DEF Serve, Refuse, ServeCreateSubscription, ServeCreateMonitoredItems,
         ServeDeleteMonitoredItems, ServeDeleteSubscription
<1>2. monitoredItems' = monitoredItems
  BY DEF Serve, Refuse, ServeCreateSubscription, ServeCreateMonitoredItems,
         ServeDeleteMonitoredItems, ServeDeleteSubscription, client
<1> DEFINE frame == [pc |-> c.pc, op |-> c.op, todo |-> c.todo,
                     handle |-> c.handle, request |-> c.request, sub |-> sub,
                     answer |-> answer, results |-> results,
                     thrown |-> c.thrown]
<1>3. Goto(p, frame) /\ frame.request = c.request /\ frame.pc = c.pc
  BY <1>1 DEF Answer
<1> HIDE DEF frame
<1>4. Adding(frame) => Adding(c)
  BY <1>3 DEF Adding
<1> QED
  BY <1>2, <1>3, <1>4, ThreadWaits

LEMMA WaitStep ==
    ASSUME TypeOK, ClaimsInv, Waits, [Next]_vars
    PROVE  Waits'
<1>1. ASSUME NEW t \in Threads, Add(t) PROVE Waits'
  <2>1. PICK todo : Goto(t, Entry("next", todo, 0, NoItems))
    BY <1>1 DEF Add
  <2>2. monitoredItems' = monitoredItems
    BY <1>1 DEF Add, client
  <2> QED
    BY <2>1, <2>2, BeginWaits DEF Procs
<1>2. ASSUME NEW t \in Threads, NEW op, NEW nodes, StartRemove(t, op, nodes)
      PROVE  Waits'
  <2>1. CASE Crash
    BY <2>1, SameWaits DEF Crash, client
  <2>2. CASE ~Crash
    <3>1. monitoredItems' = monitoredItems
      BY <1>2, <2>2 DEF StartRemove, client
    <3>2. PICK frame : Goto(t, frame) /\ ~Adding(frame)
      BY <1>2, <2>2, NotAdding DEF StartRemove
    <3> QED
      BY <3>1, <3>2, DropWaits DEF Procs
  <2> QED
    BY <2>1, <2>2
<1>3. CASE StatusChanged
  <2>1. CASE Crash
    BY <2>1, SameWaits DEF Crash, client
  <2>2. CASE ~Crash
    <3>1. PICK frame : Goto(Sdk, frame) /\ ~Adding(frame)
      BY <1>3, <2>2, NotAdding DEF StatusChanged
    <3>2. DOMAIN monitoredItems' = {}
      BY <1>3, <2>2, NoRequest DEF StatusChanged
    <3> QED
      BY <3>1, <3>2, DropWaits DEF Procs
  <2> QED
    BY <2>1, <2>2
<1>4. CASE UNCHANGED <<monitoredItems, calls>>
  BY <1>4, SameWaits
<1>5. ASSUME NEW p \in Procs, Enters(p) PROVE Waits'
  BY <1>5, EntersWait, EnterItemWaits DEF Enters
<1> QED
  BY <1>1, <1>2, <1>3, <1>4, <1>5, ServeWaits, ReturnsWait
  DEF Next, vars, client, Remove, RemoveAll, UseAfterDelete, Crash, Deliver,
      Publish, LoseSubscription, Ended

(* A handle is asked for by one call of the server only, and has no id     *)
(* while that call is out, whatever other threads do, until two of them    *)
(* have raced at the counter.                                              *)
THEOREM AddedHandlesWaitCorrect == Spec => []AddedHandlesWait
<1>1. Init => AddedHandlesWait
  <2>1. Init => \A p \in Procs : ~Adding(calls[p])
    BY NotAdding DEF Init
  <2> QED
    BY <2>1 DEF AddedHandlesWait
<1>2. AttributionInv /\ AddedHandlesWait /\ [Next]_vars => AddedHandlesWait'
  <2> SUFFICES ASSUME AttributionInv, AddedHandlesWait, [Next]_vars, ~raced'
               PROVE  Waits'
    BY DEF AddedHandlesWait, Waits
  <2>1. ~raced
    BY RacedStays
  <2>2. ClaimsInv /\ TypeOK /\ Waits
    BY <2>1 DEF AttributionInv, ClaimsInv, AddedHandlesWait, Waits
  <2> QED
    BY <2>2, WaitStep
<1> QED
  BY <1>1, <1>2, AttributionInvariant, PTL DEF Spec

LEMMA MappedInit == Init => Handles!Init
<1> SUFFICES ASSUME Init PROVE Handles!Init
  OBVIOUS
<1>1. DOMAIN monitoredItems = {} /\ callback = {} /\ clientHandleCounter = 1
  BY DEF Init, NoItems
<1>2. WithId = {} /\ WithoutId = {}
  BY <1>1 DEF WithId, WithoutId
<1>3. Given = {}
  BY <1>1 DEF Given
<1>4. {x.node : x \in callback} = {}
  BY <1>1
<1> QED
  BY <1>2, <1>3, <1>4, MappedDomains DEF Handles!Init

(* A notification whose entry is known names its node.                     *)
LEMMA DeliverMapped ==
    ASSUME Deliver
    PROVE  Handles!Tell \/ UNCHANGED Handles!handles
<1>1. PICK n \in published :
          IF n.node \in EventTypes THEN NewEvents(n) ELSE DataChange(n)
    BY DEF Deliver
<1>2. UNCHANGED <<monitoredItems, clientHandleCounter, Reserved>>
  BY DEF Deliver, client, Reserved
<1>3. CASE callback' = callback
  BY <1>2, <1>3, MappedStutter
<1>4. CASE callback' # callback
  <2>1. n.handle \in DOMAIN monitoredItems
    BY <1>1, <1>4 DEF NewEvents, DataChange
  <2>2. \E source : callback' =
           {[node |-> monitoredItems[n.handle].node, source |-> source]}
    BY <1>1, <1>4 DEF NewEvents, DataChange
  <2>3. {x.node : x \in callback}' = {monitoredItems[n.handle].node}
    BY <2>2
  <2>4. \/ /\ n.handle \in WithoutId
           /\ monitoredItems[n.handle].node = NodesOf(WithoutId)[n.handle]
        \/ /\ n.handle \in WithId
           /\ monitoredItems[n.handle].node = NodesOf(WithId)[n.handle]
    BY <2>1, MappedDomains
  <2>5. UNCHANGED <<NodesOf(WithoutId), NodesOf(WithId),
                    Given \ (DOMAIN monitoredItems \cup Reserved)>>
    BY <1>2 DEF NodesOf, WithId, WithoutId, Given
  <2> QED
    BY <2>3, <2>4, <2>5, MappedDomains DEF Handles!Tell
<1> QED
  BY <1>3, <1>4

(* Every step of the object is a step of its life cycle, or none.          *)
LEMMA MappedStep ==
    ASSUME TypeOK, ClaimsInv, Waits, [Next]_vars
    PROVE  Handles!Next \/ UNCHANGED Handles!handles
<1>0. ListedNotReserved
  BY ReservedFree
<1>1. ASSUME NEW p \in Procs, WriteCounter(p)
      PROVE  UNCHANGED Handles!handles
  BY <1>1, WriteCounterMapped
<1>2. ASSUME NEW p \in Procs, EnterItem(p)
      PROVE  Handles!Next
  BY <1>2, EnterItemMapped DEF Handles!Next
<1>3. ASSUME NEW p \in Procs, ReadCounter(p)
      PROVE  UNCHANGED Handles!handles
  <2>1. \E frame : Goto(p, frame) /\ frame.pc # "counted"
    BY <1>3 DEF ReadCounter, Entry
  <2>2. PICK frame : \A q \in Procs :
          /\ calls'[q] = IF q = p THEN frame ELSE calls[q]
          /\ frame.pc # "counted"
    BY <2>1 DEF Goto, TypeOK, CallsOK
  <2>3. Reserved' = Reserved
    BY <1>3, <2>2, ReservedKept DEF ReadCounter
  <2> QED
    BY <1>3, <2>3, MappedStutter DEF ReadCounter, client
<1>4. ASSUME \A p \in Procs : /\ ~ReadCounter(p)
                              /\ ~WriteCounter(p)
                              /\ ~EnterItem(p)
      PROVE  Handles!Next \/ UNCHANGED Handles!handles
  <2>0. Reserved' = Reserved
    BY <1>4, UncountedStep, UncountedReserved
  <2>1. ASSUME NEW t \in Threads, Add(t)
        PROVE  UNCHANGED <<monitoredItems, clientHandleCounter, callback>>
    BY <2>1 DEF Add, client
  <2>2. CASE UNCHANGED <<monitoredItems, clientHandleCounter, callback>>
    BY <2>0, <2>2, MappedStutter
  <2>3. CASE Crash
    BY <2>0, <2>3, MappedStutter DEF Crash, client
  <2>4. ASSUME NEW p \in Procs, CreateMonitoredItemsReturns(p), ~Crash
        PROVE  Handles!Next
    BY <1>0, <2>0, <2>4, CreateMonitoredItemsReturnsMapped DEF Handles!Next
  <2>5. ASSUME NEW p \in Procs, DeleteMonitoredItemsReturns(p), ~Crash
        PROVE  Handles!Next
    <3>1. monitoredItems' =
            Restrict(monitoredItems, DOMAIN monitoredItems \ Granted(calls[p]))
      BY <2>5 DEF DeleteMonitoredItemsReturns
    <3>2. UNCHANGED <<clientHandleCounter, callback>>
      BY <2>5 DEF DeleteMonitoredItemsReturns
    <3> QED
      BY <1>0, <2>0, <3>1, <3>2, MappedRetire DEF Handles!Next
  <2>6. ASSUME NEW p \in Procs, DeleteSubscriptionReturns(p)
        PROVE  UNCHANGED <<monitoredItems, clientHandleCounter, callback>>
    BY <2>6 DEF DeleteSubscriptionReturns, client
  <2>7. ASSUME StatusChanged, ~Crash
        PROVE  Handles!Next
    <3>1. monitoredItems' = Restrict(monitoredItems, {})
      BY <2>7 DEF StatusChanged, NoItems, Restrict
    <3>2. UNCHANGED <<clientHandleCounter, callback>>
      BY <2>7 DEF StatusChanged
    <3> QED
      BY <1>0, <2>0, <3>1, <3>2, MappedRetire DEF Handles!Next
  <2>8. CASE Deliver
    BY <2>8, DeliverMapped DEF Handles!Next
  <2>9. ASSUME NEW p \in Procs, CreateSubscriptionReturns(p) \/ AllEntered(p)
        PROVE  UNCHANGED <<monitoredItems, clientHandleCounter, callback>>
    BY <2>9 DEF CreateSubscriptionReturns, AllEntered, client
  <2>10. ASSUME NEW p \in Procs, Serve(p)
         PROVE  UNCHANGED <<monitoredItems, clientHandleCounter, callback>>
    BY <2>10 DEF Serve, Refuse, ServeCreateSubscription,
       ServeCreateMonitoredItems, ServeDeleteMonitoredItems,
       ServeDeleteSubscription, client
  <2>11. ASSUME NEW t \in Threads, NEW op, NEW nodes, StartRemove(t, op, nodes)
         PROVE  UNCHANGED <<monitoredItems, clientHandleCounter, callback>>
    BY <2>11 DEF StartRemove, Crash, client
  <2> QED
    BY <1>4, <2>1, <2>2, <2>3, <2>4, <2>5, <2>6, <2>7, <2>8, <2>9, <2>10, <2>11
    DEF Next, vars, client, Remove, RemoveAll, Returns, Enters, UseAfterDelete,
        Publish, LoseSubscription, Ended
<1> QED
  BY <1>1, <1>2, <1>3, <1>4

(* The object implements the life cycle of client handles until threads    *)
(* race at the counter: whatever the threads, the callbacks and a failing  *)
(* server do, a handle stands for one node, becomes active once and never  *)
(* comes back after it was given up, and the application hears of nodes    *)
(* only by such handles.                                                   *)
THEOREM Refinement == Spec => HandleLifeCycle
<1>1. Init => Handles!Init
  BY MappedInit
<1>2. AttributionInv /\ AddedHandlesWait /\ [Next]_vars
        => [Handles!Next \/ raced]_(Handles!handles)
  <2> SUFFICES ASSUME AttributionInv, AddedHandlesWait, [Next]_vars, ~raced
               PROVE  Handles!Next \/ UNCHANGED Handles!handles
    OBVIOUS
  <2>1. TypeOK /\ ClaimsInv /\ Waits
    BY DEF AttributionInv, ClaimsInv, AddedHandlesWait, Waits
  <2> QED
    BY <2>1, MappedStep
<1> QED
  BY <1>1, <1>2, AttributionInvariant, AddedHandlesWaitCorrect, PTL
  DEF Spec, HandleLifeCycle
=============================================================================
