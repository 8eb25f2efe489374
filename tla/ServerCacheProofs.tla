------------------------- MODULE ServerCacheProofs -------------------------
(* Theorems about ServerCache, for any variables, clients and bounds.      *)
EXTENDS ServerCache, SequenceTheorems, TLAPS

-----------------------------------------------------------------------------
(* Types.                                                                  *)

(* A step that gives client c a well formed frame keeps all frames so.     *)
LEMMA GotoOK ==
    ASSUME ClientsOK, NEW c \in Clients, NEW frame, FrameOK(frame),
           Goto(c, frame)
    PROVE  ClientsOK'
BY DEF ClientsOK, Goto

LEMMA WriteOK ==
    ASSUME NEW pc \in {"writing", "caching"}, NEW value \in Nat,
           NEW batch \in SUBSET Variables, NEW left \in SUBSET batch,
           left # {}, NEW ok \in BOOLEAN
    PROVE  FrameOK(Write(pc, value, batch, left, ok))
BY DEF FrameOK, Frames, Write, Frame

LEMMA ReadOK ==
    ASSUME NEW request \in Seq(Variables), NEW answers \in Seq(Answers),
           Len(answers) < Len(request)
    PROVE  FrameOK(Read(request, answers))
BY DEF FrameOK, Frames, Read, Frame, Empty

LEMMA IdleOK ==
    ASSUME NEW request \in Seq(Variables), NEW answers \in Seq(Answers),
           Len(answers) = Len(request)
    PROVE  FrameOK(Idle(request, answers))
BY DEF FrameOK, Frames, Idle, Frame, Empty

LEMMA NothingIdleOK == FrameOK(Idle(<< >>, << >>))
<1>1. << >> \in Seq(Variables) /\ << >> \in Seq(Answers) /\ Len(<< >>) = Len(<< >>)
  OBVIOUS
<1> QED
  BY <1>1, IdleOK

(* A request that enumerates variables is a sequence of them.              *)
LEMMA RequestsAreSequences ==
    ASSUME NEW n \in Nat, NEW S, NEW r \in Requests(n, S)
    PROVE  r \in Seq(S) /\ Len(r) \in 1 .. n
<1>1. PICK k \in 1 .. n : r \in [1 .. k -> S]
  BY DEF Requests
<1>2. k \in Nat
  OBVIOUS
<1> QED
  BY <1>1, <1>2, SeqDef

(* What a synchronous read returns has a place for every place of its      *)
(* request.                                                                *)
LEMMA ReturnValuesOK ==
    ASSUME NEW request \in Seq(Variables), NEW answers \in Seq(Answers),
           Len(answers) = Len(request),
           NEW arrayIndex \in ArrayIndices(request),
           NEW last \in LastResults(request)
    PROVE  LET returned == ReturnValues(request, answers, arrayIndex, last)
           IN  returned \in Seq(Answers) /\ Len(returned) = Len(request)
<1> DEFINE returned == ReturnValues(request, answers, arrayIndex, last)
<1>1. DOMAIN request = 1 .. Len(request) /\ Len(request) \in Nat
  OBVIOUS
<1>2. \A i \in DOMAIN request : last[request[i]] \in DOMAIN request
  BY DEF LastResults, Places, Range
<1>3. \A i \in DOMAIN request : answers[last[request[i]]] \in Answers
  BY <1>1, <1>2
<1>4. returned \in [1 .. Len(request) -> Answers]
  BY <1>1, <1>3 DEF ReturnValues, Answers
<1> QED
  BY <1>1, <1>4, SeqDef

LEMMA HistoryTypes ==
    ASSUME HistoryOK, ValuesOK, ValuesOK', History
    PROVE  HistoryOK'
BY DEF HistoryOK, ValuesOK, History

Loops == {"classifying", "subscribing", "reading", "caching"}

LEMMA RoundTypes ==
    ASSUME StartUpOK, NEW loop \in Loops, NEW v \in Variables, Round(loop, v)
    PROVE  /\ phase' \in {"classifying", "subscribing", "reading", "caching",
                          "up"}
           /\ todo' \subseteq Variables
BY DEF StartUpOK, Loops, Round, AfterLoop, With

LEMMA ReadResultsTypes ==
    ASSUME ValuesOK, NEW v \in Variables
    PROVE  ReadResults(v) \subseteq Answers
BY DEF ValuesOK, ReadResults, Answers, Empty

(* A change of a value, with or without a notification.                    *)
LEMMA ChangeTypes ==
    ASSUME ValuesOK, NEW v \in Variables, NEW value \in Nat,
           NEW notifies \in BOOLEAN, Change(v, value, notifies)
    PROVE  /\ provider' \in [Variables -> Nat]
           /\ queue' \in Seq([variable: Variables, value: Nat])
<1> DEFINE S == [variable: Variables, value: Nat]
<1>1. Notification(v, value) \in S
  BY DEF Notification
<1>2. queue \in Seq(S)
  BY DEF ValuesOK
<1>3. Append(queue, Notification(v, value)) \in Seq(S)
  BY <1>1, <1>2, AppendProperties
<1>4. queue' \in Seq(S)
  BY <1>2, <1>3 DEF Change
<1> QED
  BY <1>4 DEF ValuesOK, Change

LEMMA TypeInit == Init => TypeOK
<1> SUFFICES ASSUME Init PROVE TypeOK
  OBVIOUS
<1>1. ClientsOK
  BY NothingIdleOK DEF Init, ClientsOK
<1>2. StartUpOK
  BY DEF Init, StartUpOK, Answers, Empty
<1>3. ValuesOK
  BY DEF Init, ValuesOK, Empty
<1>4. HistoryOK
  BY DEF Init, HistoryOK, Empty
<1> QED
  BY <1>1, <1>2, <1>3, <1>4 DEF TypeOK, Init

LEMMA TypeStartUp ==
    ASSUME TypeOK, StartUpStep
    PROVE  TypeOK'
<1> USE DEF TypeOK
<1>1. PICK v \in Variables :
         \/ SetValueHandling(v) \/ JavaSubscribe(v) \/ PushCallback(v)
         \/ InitialRead(v) \/ SetInitialValue(v)
  BY DEF StartUpStep
<1>2. CASE SetValueHandling(v)
  <2>1. StartUpOK'
    BY <1>2, RoundTypes DEF SetValueHandling, StartUpOK, Loops
  <2>2. ValuesOK' /\ ClientsOK'
    BY <1>2 DEF SetValueHandling, ValuesOK, ClientsOK, java
  <2> QED
    BY <1>2, <2>1, <2>2, HistoryTypes DEF SetValueHandling, process
<1>3. CASE JavaSubscribe(v)
  <2>1. StartUpOK'
    BY <1>3 DEF JavaSubscribe, StartUpOK
  <2>2. ValuesOK' /\ ClientsOK'
    BY <1>3 DEF JavaSubscribe, ValuesOK, ClientsOK
  <2> QED
    BY <1>3, <2>1, <2>2, HistoryTypes DEF JavaSubscribe, process
<1>4. CASE PushCallback(v)
  <2>1. StartUpOK'
    BY <1>4, RoundTypes DEF PushCallback, StartUpOK, Loops
  <2>2. ValuesOK' /\ ClientsOK'
    BY <1>4 DEF PushCallback, ValuesOK, ClientsOK, java
  <2> QED
    BY <1>4, <2>1, <2>2, HistoryTypes DEF PushCallback, process
<1>5. CASE InitialRead(v)
  <2>1. results' \in [Variables -> Answers]
    BY <1>5, ReadResultsTypes DEF InitialRead, StartUpOK
  <2>2. StartUpOK'
    BY <1>5, <2>1, RoundTypes DEF InitialRead, StartUpOK, Loops
  <2>3. ValuesOK' /\ ClientsOK'
    BY <1>5 DEF InitialRead, ValuesOK, ClientsOK, java
  <2> QED
    BY <1>5, <2>2, <2>3, HistoryTypes DEF InitialRead, process
<1>6. CASE SetInitialValue(v)
  <2>1. StartUpOK'
    BY <1>6, RoundTypes DEF SetInitialValue, StartUpOK, Loops
  <2>2. cache' \in [Variables -> Nat]
    BY <1>6 DEF SetInitialValue, StartUpOK, ValuesOK, Answers
  <2>3. ValuesOK' /\ ClientsOK'
    BY <1>6, <2>2 DEF SetInitialValue, ValuesOK, ClientsOK, java
  <2> QED
    BY <1>6, <2>1, <2>3, HistoryTypes DEF SetInitialValue, process
<1> QED
  BY <1>1, <1>2, <1>3, <1>4, <1>5, <1>6

LEMMA TypeNotification ==
    ASSUME TypeOK, DeliverNotification
    PROVE  TypeOK'
<1> USE DEF TypeOK
<1>1. /\ queue' \in Seq([variable: Variables, value: Nat])
      /\ Head(queue) \in [variable: Variables, value: Nat]
  BY HeadTailProperties DEF DeliverNotification, ValuesOK
<1>2. cache' \in [Variables -> Nat]
  BY <1>1 DEF DeliverNotification, ValuesOK
<1>3. ValuesOK' /\ ClientsOK' /\ StartUpOK'
  BY <1>1, <1>2 DEF DeliverNotification, ValuesOK, ClientsOK, StartUpOK,
                    startUp
<1> QED
  BY <1>3, HistoryTypes DEF DeliverNotification, startUp

LEMMA TypeProvider ==
    ASSUME TypeOK, NEW v \in Variables, ProviderChanges(v)
    PROVE  TypeOK'
<1> USE DEF TypeOK
<1>1. nextValue \in Nat /\ nextValue' \in Nat
  BY DEF ProviderChanges, ValuesOK
<1>2. ValuesOK' /\ ClientsOK' /\ StartUpOK'
  BY <1>1, ChangeTypes DEF ProviderChanges, ValuesOK, ClientsOK, StartUpOK,
                           startUp
<1> QED
  BY <1>2, HistoryTypes DEF ProviderChanges, process

(* The frame of a request in progress after one more variable.             *)
LEMMA AfterWriteTypes ==
    ASSUME ClientsOK, NEW c \in Clients, clients[c].pc = "writing",
           NEW v \in clients[c].left, NEW ok \in BOOLEAN,
           AfterWrite(c, v, ok)
    PROVE  ClientsOK'
<1> DEFINE f == clients[c]
<1>1. FrameOK(f)
  BY DEF ClientsOK
<1>2. /\ f.value \in Nat /\ f.batch \in SUBSET Variables
      /\ f.left \in SUBSET f.batch /\ f.left # {}
  BY <1>1 DEF FrameOK, Frames
<1>3. CASE f.left # {v}
  <2>1. FrameOK(Write("writing", f.value, f.batch, f.left \ {v}, ok))
    BY <1>2, <1>3, WriteOK
  <2> QED
    BY <1>3, <2>1, GotoOK DEF AfterWrite
<1>4. CASE f.left = {v} /\ ok
  <2>1. FrameOK(Write("caching", f.value, f.batch, f.batch, TRUE))
    BY <1>2, WriteOK
  <2> QED
    BY <1>4, <2>1, GotoOK DEF AfterWrite
<1>5. CASE f.left = {v} /\ ~ok
  BY <1>5, NothingIdleOK, GotoOK DEF AfterWrite
<1> QED
  BY <1>3, <1>4, <1>5

LEMMA ReadNextTypes ==
    ASSUME ClientsOK, ValuesOK, NEW c \in Clients, ReadNext(c)
    PROVE  ClientsOK'
<1> DEFINE f == clients[c]
           v == f.request[Len(f.answers) + 1]
<1>1. FrameOK(f) /\ f.pc = "reading"
  BY DEF ClientsOK, ReadNext
<1>2. /\ f.request \in Seq(Variables) /\ f.answers \in Seq(Answers)
      /\ Len(f.answers) < Len(f.request)
  BY <1>1 DEF FrameOK, Frames
<1>3. v \in Variables
  BY <1>2
<1>4. PICK value \in ReadResults(v) :
         LET answers == Append(f.answers, value) IN
         IF Len(answers) < Len(f.request)
         THEN Goto(c, Read(f.request, answers))
         ELSE \E arrayIndex \in ArrayIndices(f.request),
                 last \in LastResults(f.request) :
                 Goto(c, Idle(f.request, ReturnValues(f.request, answers,
                                                      arrayIndex, last)))
  BY DEF ReadNext
<1> DEFINE answers == Append(f.answers, value)
<1>5. value \in Answers
  BY <1>3, <1>4, ReadResultsTypes
<1>6. answers \in Seq(Answers) /\ Len(answers) = Len(f.answers) + 1
  BY <1>2, <1>5, AppendProperties
<1>7. CASE Len(answers) < Len(f.request)
  <2>1. FrameOK(Read(f.request, answers))
    BY <1>2, <1>6, <1>7, ReadOK
  <2> QED
    BY <1>4, <1>7, <2>1, GotoOK
<1>8. CASE ~(Len(answers) < Len(f.request))
  <2>1. PICK arrayIndex \in ArrayIndices(f.request),
             last \in LastResults(f.request) :
           Goto(c, Idle(f.request, ReturnValues(f.request, answers,
                                                arrayIndex, last)))
    BY <1>4, <1>8
  <2> DEFINE returned == ReturnValues(f.request, answers, arrayIndex, last)
  <2>2. Len(answers) = Len(f.request)
    BY <1>2, <1>6, <1>8
  <2>3. returned \in Seq(Answers) /\ Len(returned) = Len(f.request)
    BY <1>2, <1>6, <2>1, <2>2, ReturnValuesOK
  <2>4. FrameOK(Idle(f.request, returned))
    BY <1>2, <2>3, IdleOK
  <2> QED
    BY <2>1, <2>4, GotoOK
<1> QED
  BY <1>7, <1>8

LEMMA TypeClient ==
    ASSUME TypeOK, NEW c \in Clients, ClientStep(c)
    PROVE  TypeOK'
<1> USE DEF TypeOK
<1> DEFINE f == clients[c]
<1>f. /\ FrameOK(f) /\ f.value \in Nat /\ f.left \subseteq f.batch
      /\ f.batch \subseteq Variables /\ f.ok \in BOOLEAN
  BY DEF ClientsOK, FrameOK, Frames
<1>1. CASE ReadValues(c)
  <2>1. PICK request \in Requests(MaxRequest,
                                  HandledBy("CacheIsUpdatedOnRequest")) :
           Goto(c, Read(request, << >>))
    BY <1>1 DEF ReadValues
  <2>2. MaxRequest \in Nat
    BY ServerCacheAssumption
  <2>3. HandledBy("CacheIsUpdatedOnRequest") \subseteq Variables
    BY DEF HandledBy
  <2>4. request \in Seq(Variables) /\ Len(request) \in 1 .. MaxRequest
    BY <2>1, <2>2, <2>3, RequestsAreSequences, SeqMonotonic
  <2>5. << >> \in Seq(Answers) /\ Len(<< >>) < Len(request)
    BY <2>2, <2>4
  <2>6. ClientsOK'
    BY <2>1, <2>4, <2>5, ReadOK, GotoOK
  <2>7. StartUpOK' /\ ValuesOK'
    BY <1>1 DEF ReadValues, StartUpOK, ValuesOK, startUp, java
  <2> QED
    BY <1>1, <2>6, <2>7, HistoryTypes DEF ReadValues, process
<1>2. CASE WriteValues(c)
  <2>0. PICK batch \in (SUBSET HandledBy("CacheIsUpdatedOnRequest")) \ {{}} :
           \E left \in Prepared(batch) :
              Goto(c, Write("writing", nextValue, batch, left, TRUE))
    BY <1>2 DEF WriteValues
  <2>1. PICK left \in Prepared(batch) :
           Goto(c, Write("writing", nextValue, batch, left, TRUE))
    BY <2>0
  <2>2. batch \in SUBSET Variables
    BY DEF HandledBy
  <2>3. left \in SUBSET batch /\ left # {}
    BY <2>1 DEF Prepared
  <2>4. nextValue \in Nat
    BY DEF ValuesOK
  <2>5. ClientsOK'
    BY <2>1, <2>2, <2>3, <2>4, WriteOK, GotoOK
  <2>6. StartUpOK' /\ ValuesOK'
    BY <1>2, <2>4 DEF WriteValues, StartUpOK, ValuesOK, startUp, java
  <2> QED
    BY <1>2, <2>5, <2>6, HistoryTypes DEF WriteValues, process
<1>3. CASE SetAttribute(c)
  <2>1. PICK v \in HandledBy("CacheIsSource") :
           Goto(c, Write(IF Handling[v] = "none" THEN "caching"
                                                 ELSE "writing",
                         nextValue, {v}, {v}, TRUE))
    BY <1>3 DEF SetAttribute
  <2>2. v \in Variables /\ nextValue \in Nat
    BY <2>1 DEF HandledBy, ValuesOK
  <2>3. ClientsOK'
    BY <2>1, <2>2, WriteOK, GotoOK
  <2>4. StartUpOK' /\ ValuesOK'
    BY <1>3, <2>2 DEF SetAttribute, StartUpOK, ValuesOK, startUp, java
  <2> QED
    BY <1>3, <2>3, <2>4, HistoryTypes DEF SetAttribute, process
<1>4. CASE ReadNext(c)
  <2>1. ClientsOK'
    BY <1>4, ReadNextTypes
  <2>2. StartUpOK' /\ ValuesOK'
    BY <1>4 DEF ReadNext, StartUpOK, ValuesOK, startUp, java
  <2> QED
    BY <1>4, <2>1, <2>2, HistoryTypes DEF ReadNext, process
<1>5. CASE WriteProvider(c)
  <2>1. PICK v \in f.left :
           \/ /\ \E notifies \in BOOLEAN : Change(v, f.value, notifies)
              /\ AfterWrite(c, v, f.ok)
           \/ /\ AfterWrite(c, v, f.ok)
              /\ UNCHANGED <<provider, queue>>
           \/ /\ AfterWrite(c, v, FALSE)
              /\ UNCHANGED <<provider, queue>>
    BY <1>5 DEF WriteProvider
  <2>2. v \in Variables
    BY <1>f, <2>1
  <2>3. ClientsOK'
    BY <1>5, <1>f, <2>1, AfterWriteTypes DEF WriteProvider
  <2>4. /\ provider' \in [Variables -> Nat]
        /\ queue' \in Seq([variable: Variables, value: Nat])
    BY <1>f, <2>1, <2>2, ChangeTypes DEF ValuesOK
  <2>5. StartUpOK' /\ ValuesOK'
    BY <1>5, <2>4 DEF WriteProvider, StartUpOK, ValuesOK, startUp
  <2> QED
    BY <1>5, <2>3, <2>5, HistoryTypes DEF WriteProvider, process
<1>6. CASE SetCache(c)
  <2>1. PICK v \in f.left :
           /\ cache' = [cache EXCEPT ![v] = f.value] \/ cache' = cache
           /\ IF f.left = {v}
              THEN Goto(c, Idle(<< >>, << >>))
              ELSE Goto(c, Write("caching", f.value, f.batch, f.left \ {v},
                                 TRUE))
    BY <1>6 DEF SetCache
  <2>2. cache' \in [Variables -> Nat]
    BY <1>f, <2>1 DEF ValuesOK
  <2>3. ClientsOK'
    <3>1. CASE f.left = {v}
      BY <2>1, <3>1, NothingIdleOK, GotoOK
    <3>2. CASE f.left # {v}
      <4>1. FrameOK(Write("caching", f.value, f.batch, f.left \ {v}, TRUE))
        BY <1>f, <2>1, <3>2, WriteOK
      <4> QED
        BY <2>1, <3>2, <4>1, GotoOK
    <3> QED
      BY <3>1, <3>2
  <2>4. StartUpOK' /\ ValuesOK'
    BY <1>6, <2>2 DEF SetCache, StartUpOK, ValuesOK, startUp, java
  <2> QED
    BY <1>6, <2>3, <2>4, HistoryTypes DEF SetCache, process
<1> QED
  BY <1>1, <1>2, <1>3, <1>4, <1>5, <1>6 DEF ClientStep, ServeStep

LEMMA TypeShutDown ==
    ASSUME TypeOK, BeforeShutDown
    PROVE  TypeOK'
<1> USE DEF TypeOK
<1>1. StartUpOK' /\ ValuesOK' /\ ClientsOK'
  BY DEF BeforeShutDown, StartUpOK, ValuesOK, ClientsOK, java
<1> QED
  BY <1>1, HistoryTypes DEF BeforeShutDown

LEMMA TypeStutter == TypeOK /\ UNCHANGED vars => TypeOK'
BY DEF TypeOK, ClientsOK, StartUpOK, ValuesOK, HistoryOK, vars, startUp,
       process, java, history

LEMMA TypeStep == TypeOK /\ [Next]_vars => TypeOK'
BY TypeStartUp, TypeProvider, TypeNotification, TypeClient, TypeShutDown,
   TypeStutter DEF Next

(* The variables keep their types, and the loops of the requests never run *)
(* past their ends.                                                        *)
THEOREM TypeCorrect == Spec => []TypeOK
<1>1. Init => TypeOK
  BY TypeInit
<1>2. TypeOK /\ [Next]_vars => TypeOK'
  BY TypeStep
<1> QED
  BY <1>1, <1>2, PTL DEF Spec

-----------------------------------------------------------------------------
(* The cache holds what the provider has had.                              *)

LEMMA QueueElements ==
    ASSUME TypeOK, NEW i \in DOMAIN queue
    PROVE  /\ i \in 1 .. Len(queue)
           /\ queue[i] \in [variable: Variables, value: Nat]
           /\ queue[i].variable \in Variables
<1> DEFINE S == [variable: Variables, value: Nat]
<1>1. queue \in Seq(S)
  BY DEF TypeOK, ValuesOK
<1>2. i \in 1 .. Len(queue)
  BY <1>1, LenProperties
<1>3. queue[i] \in S
  BY <1>1, <1>2, ElementOfSeq
<1> QED
  BY <1>2, <1>3

(* The notifications of a queue without its first.                         *)
LEMMA TailOfQueue ==
    ASSUME NEW S, NEW q \in Seq(S), q # << >>
    PROVE  /\ 1 \in DOMAIN q /\ Head(q) = q[1]
           /\ \A i \in DOMAIN Tail(q) :
                 i + 1 \in DOMAIN q /\ Tail(q)[i] = q[i + 1]
           /\ \A i \in DOMAIN q :
                 i # 1 => i - 1 \in DOMAIN Tail(q) /\ Tail(q)[i - 1] = q[i]
<1>1. Len(q) \in Nat \ {0} /\ DOMAIN q = 1 .. Len(q)
  BY EmptySeq, LenProperties
<1>2. /\ Tail(q) \in Seq(S) /\ Len(Tail(q)) = Len(q) - 1
      /\ \A i \in 1 .. Len(Tail(q)) : Tail(q)[i] = q[i + 1]
  BY HeadTailProperties
<1>3. DOMAIN Tail(q) = 1 .. Len(q) - 1
  BY <1>2, LenProperties
<1>4. Head(q) = q[1]
  OBVIOUS
<1> QED
  BY <1>1, <1>2, <1>3, <1>4

LEMMA HeldGrows ==
    ASSUME TypeOK, TypeOK', History
    PROVE  /\ \A v \in Variables : held[v] \subseteq held'[v]
           /\ ProviderHeld'
<1>1. held' = [v \in Variables |-> held[v] \cup {provider'[v]}]
  BY DEF History
<1> QED
  BY <1>1 DEF ProviderHeld

(* What a step leaves alone stays held.                                    *)
LEMMA HeldStays ==
    ASSUME TypeOK, TypeOK', HeldInv, History
    PROVE  /\ valueSource' = valueSource => SourcesFollowHandling'
           /\ results' = results => ResultsHeld'
           /\ queue' = queue => QueueHeld'
           /\ clients' = clients => WritesHeld'
           /\ cache' = cache => GuardedHeld'
<1>1. \A v \in Variables : held[v] \subseteq held'[v]
  BY HeldGrows
<1>2. valueSource' = valueSource => SourcesFollowHandling'
  BY DEF HeldInv, SourcesFollowHandling, HandledBy
<1>3. results' = results => ResultsHeld'
  BY <1>1 DEF HeldInv, ResultsHeld
<1>4. queue' = queue => QueueHeld'
  <2>1. \A i \in DOMAIN queue : queue[i].variable \in Variables
    BY QueueElements
  <2> QED
    BY <1>1, <2>1 DEF HeldInv, QueueHeld
<1>5. clients' = clients => WritesHeld'
  BY <1>1 DEF HeldInv, WritesHeld, WriteHeld, Guarded, With
<1>6. cache' = cache => GuardedHeld'
  BY <1>1 DEF HeldInv, GuardedHeld, HeldByProvider, Guarded, With
<1> QED
  BY <1>2, <1>3, <1>4, <1>5, <1>6

LEMMA HeldInit == Init => HeldInv
<1> SUFFICES ASSUME Init PROVE HeldInv
  OBVIOUS
<1>1. SourcesFollowHandling
  BY DEF Init, SourcesFollowHandling, HandledBy
<1>2. ProviderHeld /\ ResultsHeld /\ QueueHeld
  BY DEF Init, ProviderHeld, ResultsHeld, QueueHeld
<1>3. WritesHeld
  BY DEF Init, WritesHeld, WriteHeld, Idle, Frame
<1>4. GuardedHeld
  BY DEF Init, GuardedHeld, HeldByProvider, Guarded, With
<1> QED
  BY <1>1, <1>2, <1>3, <1>4 DEF HeldInv

LEMMA HeldReadResults ==
    ASSUME ProviderHeld, NEW v \in Variables
    PROVE  ReadResults(v) \subseteq {Empty, Bad} \cup held[v]
BY DEF ProviderHeld, ReadResults

LEMMA HeldStartUp ==
    ASSUME TypeOK, TypeOK', HeldInv, StartUpStep
    PROVE  HeldInv'
<1>1. PICK v \in Variables :
         \/ SetValueHandling(v) \/ JavaSubscribe(v) \/ PushCallback(v)
         \/ InitialRead(v) \/ SetInitialValue(v)
  BY DEF StartUpStep
<1>2. CASE SetValueHandling(v)
  <2>1. valueSource' = [valueSource EXCEPT ![v] =
                          IF Handling[v] = "sync"
                          THEN "CacheIsUpdatedOnRequest" ELSE "CacheIsSource"]
    BY <1>2 DEF SetValueHandling
  <2>2. SourcesFollowHandling'
    BY <2>1 DEF HeldInv, SourcesFollowHandling, HandledBy, With, TypeOK,
                StartUpOK
  <2> QED
    BY <1>2, <2>2, HeldGrows, HeldStays DEF SetValueHandling, HeldInv, java
<1>3. CASE JavaSubscribe(v)
  BY <1>3, HeldGrows, HeldStays DEF JavaSubscribe, HeldInv
<1>4. CASE PushCallback(v)
  BY <1>4, HeldGrows, HeldStays DEF PushCallback, HeldInv, java
<1>5. CASE InitialRead(v)
  <2>1. PICK value \in ReadResults(v) : results' = [results EXCEPT ![v] = value]
    BY <1>5 DEF InitialRead
  <2>2. value \in {Empty, Bad} \cup held[v]
    BY <2>1, HeldReadResults DEF HeldInv
  <2>3. ResultsHeld'
    BY <1>5, <2>1, <2>2, HeldGrows
    DEF InitialRead, HeldInv, ResultsHeld, TypeOK, StartUpOK
  <2> QED
    BY <1>5, <2>3, HeldGrows, HeldStays DEF InitialRead, HeldInv, java
<1>6. CASE SetInitialValue(v)
  <2>1. GuardedHeld'
    <3>1. CASE cache' = cache
      BY <1>6, <3>1, HeldStays DEF SetInitialValue
    <3>2. CASE results[v] # Bad /\ cache' = [cache EXCEPT ![v] = results[v]]
      <4>1. results[v] \in {Empty} \cup held[v]
        BY <3>2 DEF HeldInv, ResultsHeld
      <4> QED
        BY <1>6, <3>2, <4>1, HeldGrows
        DEF SetInitialValue, HeldInv, GuardedHeld, HeldByProvider, Guarded,
            With, TypeOK, ValuesOK
    <3> QED
      BY <1>6, <3>1, <3>2 DEF SetInitialValue
  <2> QED
    BY <1>6, <2>1, HeldGrows, HeldStays DEF SetInitialValue, HeldInv, java
<1> QED
  BY <1>1, <1>2, <1>3, <1>4, <1>5, <1>6

(* A notification carries the value it is sent for.                        *)
LEMMA HeldChange ==
    ASSUME TypeOK, TypeOK', HeldInv, History, NEW v \in Variables,
           NEW value \in Nat, NEW notifies \in BOOLEAN,
           Change(v, value, notifies)
    PROVE  QueueHeld' /\ value \in held'[v]
<1> DEFINE S == [variable: Variables, value: Nat]
<1>1. provider'[v] = value
  BY DEF Change, TypeOK, ValuesOK
<1>2. value \in held'[v]
  BY <1>1, HeldGrows DEF ProviderHeld
<1>3. CASE queue' = queue
  BY <1>2, <1>3, HeldStays
<1>4. CASE queue' = Append(queue, Notification(v, value))
  <2>1. queue \in Seq(S) /\ Notification(v, value) \in S
    BY DEF TypeOK, ValuesOK, Notification
  <2>2. /\ DOMAIN queue' = 1 .. Len(queue) + 1
        /\ \A i \in 1 .. Len(queue) : queue'[i] = queue[i]
        /\ queue'[Len(queue) + 1] = Notification(v, value)
    BY <1>4, <2>1, AppendProperties, LenProperties
  <2> SUFFICES ASSUME NEW i \in DOMAIN queue'
               PROVE  queue'[i].value \in held'[queue'[i].variable]
    BY <1>2 DEF QueueHeld
  <2>3. CASE i \in 1 .. Len(queue)
    <3>1. /\ queue[i].variable \in Variables
          /\ queue[i].value \in held[queue[i].variable]
      BY <2>1, <2>3, LenProperties, QueueElements DEF HeldInv, QueueHeld
    <3> QED
      BY <2>2, <2>3, <3>1, HeldGrows
  <2>4. CASE i = Len(queue) + 1
    BY <1>2, <2>2, <2>4 DEF Notification
  <2> QED
    BY <2>1, <2>2, <2>3, <2>4, LenProperties
<1> QED
  BY <1>3, <1>4, <1>2 DEF Change

LEMMA HeldProvider ==
    ASSUME TypeOK, TypeOK', HeldInv, NEW v \in Variables, ProviderChanges(v)
    PROVE  HeldInv'
<1>1. nextValue \in Nat /\ History /\ Change(v, nextValue, TRUE)
  BY DEF ProviderChanges, TypeOK, ValuesOK
<1>2. QueueHeld'
  BY <1>1, HeldChange
<1> QED
  BY <1>1, <1>2, HeldGrows, HeldStays DEF ProviderChanges, HeldInv, startUp

LEMMA HeldNotification ==
    ASSUME TypeOK, TypeOK', HeldInv, DeliverNotification
    PROVE  HeldInv'
<1> DEFINE S == [variable: Variables, value: Nat]
           n == Head(queue)
<1>1. queue \in Seq(S) /\ queue # << >> /\ queue' = Tail(queue) /\ History
  BY DEF DeliverNotification, TypeOK, ValuesOK
<1>2. n = queue[1] /\ 1 \in DOMAIN queue
  BY <1>1, TailOfQueue
<1>3. n.variable \in Variables /\ n.value \in held[n.variable]
  BY <1>2, QueueElements DEF HeldInv, QueueHeld
<1>4. QueueHeld'
  <2> SUFFICES ASSUME NEW i \in DOMAIN queue'
               PROVE  queue'[i].value \in held'[queue'[i].variable]
    BY DEF QueueHeld
  <2>1. i + 1 \in DOMAIN queue /\ queue'[i] = queue[i + 1]
    BY <1>1, TailOfQueue
  <2>2. /\ queue[i + 1].variable \in Variables
        /\ queue[i + 1].value \in held[queue[i + 1].variable]
    BY <2>1, QueueElements DEF HeldInv, QueueHeld
  <2> QED
    BY <1>1, <2>1, <2>2, HeldGrows
<1>5. GuardedHeld'
  <2>1. CASE cache' = cache
    BY <1>1, <2>1, HeldStays
  <2>2. CASE cache' = [cache EXCEPT ![n.variable] = n.value]
    BY <1>1, <1>3, <2>2, HeldGrows
    DEF HeldInv, GuardedHeld, HeldByProvider, Guarded, With, TypeOK, ValuesOK
  <2> QED
    BY <2>1, <2>2 DEF DeliverNotification
<1> QED
  BY <1>1, <1>4, <1>5, HeldGrows, HeldStays
  DEF DeliverNotification, HeldInv, startUp

(* Only the request of the client that takes the step has to be looked at. *)
LEMMA HeldOtherWrites ==
    ASSUME TypeOK, TypeOK', HeldInv, History, NEW c \in Clients, NEW frame,
           Goto(c, frame), WriteHeld(clients[c])'
    PROVE  WritesHeld'
<1> SUFFICES ASSUME NEW d \in Clients, d # c
             PROVE  WriteHeld(clients[d])'
  BY DEF WritesHeld
<1>1. clients'[d] = clients[d]
  BY DEF Goto, TypeOK, ClientsOK
<1>2. \A v \in Variables : held[v] \subseteq held'[v]
  BY HeldGrows
<1> QED
  BY <1>1, <1>2 DEF HeldInv, WritesHeld, WriteHeld, Guarded, With

LEMMA GotoFrame ==
    ASSUME ClientsOK, NEW c \in Clients, NEW frame, Goto(c, frame)
    PROVE  clients'[c] = frame
BY DEF ClientsOK, Goto

LEMMA HeldReads ==
    ASSUME TypeOK, TypeOK', HeldInv, NEW c \in Clients,
           ReadValues(c) \/ ReadNext(c)
    PROVE  HeldInv'
<1>0. /\ \A request, answers : Read(request, answers).pc = "reading"
      /\ \A request, answers : Idle(request, answers).pc = "idle"
  BY DEF Read, Idle, Frame
<1>1. PICK frame : Goto(c, frame) /\ frame.pc \in {"reading", "idle"}
  <2>1. CASE ReadValues(c)
    BY <1>0, <2>1 DEF ReadValues
  <2>2. CASE ReadNext(c)
    <3>1. \E request, answers :
             Goto(c, Read(request, answers)) \/ Goto(c, Idle(request, answers))
      BY <2>2, Zenon DEF ReadNext
    <3> QED
      BY <1>0, <3>1
  <2> QED
    BY <2>1, <2>2
<1>2. WriteHeld(clients[c])'
  BY <1>1, GotoFrame DEF WriteHeld, TypeOK
<1>3. History /\ UNCHANGED <<results, valueSource, queue, cache>>
  BY DEF ReadValues, ReadNext, startUp, java
<1>4. WritesHeld'
  BY <1>1, <1>2, <1>3, HeldOtherWrites
<1> QED
  BY <1>3, <1>4, HeldGrows, HeldStays DEF HeldInv

LEMMA HeldNewWrite ==
    ASSUME TypeOK, TypeOK', HeldInv, NEW c \in Clients,
           WriteValues(c) \/ SetAttribute(c)
    PROVE  HeldInv'
<1>1. CASE WriteValues(c)
  <2>1. PICK batch \in (SUBSET HandledBy("CacheIsUpdatedOnRequest")) \ {{}} :
           \E left \in Prepared(batch) :
              Goto(c, Write("writing", nextValue, batch, left, TRUE))
    BY <1>1 DEF WriteValues
  <2>2. PICK left \in Prepared(batch) :
           Goto(c, Write("writing", nextValue, batch, left, TRUE))
    BY <2>1
  <2>3. (batch \ left) \cap Guarded = {}
    <3>1. CASE "conversion" \in Faults
      BY <3>1 DEF HeldInv, SourcesFollowHandling, With, Guarded
    <3>2. CASE "conversion" \notin Faults
      BY <3>2 DEF Prepared
    <3> QED
      BY <3>1, <3>2
  <2>4. WriteHeld(clients[c])'
    BY <2>2, <2>3, GotoFrame DEF WriteHeld, Write, Frame, TypeOK
  <2>5. History /\ UNCHANGED <<results, valueSource, queue, cache>>
    BY <1>1 DEF WriteValues, startUp, java
  <2>6. WritesHeld'
    BY <2>2, <2>4, <2>5, HeldOtherWrites
  <2> QED
    BY <2>5, <2>6, HeldGrows, HeldStays DEF HeldInv
<1>2. CASE SetAttribute(c)
  <2>1. PICK v \in HandledBy("CacheIsSource") :
           Goto(c, Write(IF Handling[v] = "none" THEN "caching"
                                                 ELSE "writing",
                         nextValue, {v}, {v}, TRUE))
    BY <1>2 DEF SetAttribute
  <2>2. WriteHeld(clients[c])'
    BY <2>1, GotoFrame DEF WriteHeld, Write, Frame, Guarded, With, TypeOK
  <2>3. History /\ UNCHANGED <<results, valueSource, queue, cache>>
    BY <1>2 DEF SetAttribute, startUp, java
  <2>4. WritesHeld'
    BY <2>1, <2>2, <2>3, HeldOtherWrites
  <2> QED
    BY <2>3, <2>4, HeldGrows, HeldStays DEF HeldInv
<1> QED
  BY <1>1, <1>2

(* The frame after one variable is written, whether the provider took it   *)
(* (ok) or not.                                                            *)
LEMMA HeldAfterWrite ==
    ASSUME TypeOK, TypeOK', HeldInv, History, NEW c \in Clients,
           clients[c].pc = "writing", NEW v \in clients[c].left,
           NEW ok \in BOOLEAN, AfterWrite(c, v, ok),
           ok => clients[c].ok /\ clients[c].value \in held'[v]
    PROVE  WritesHeld'
<1> DEFINE f == clients[c]
<1>1. f.left \subseteq f.batch /\ f.batch \subseteq Variables
  BY DEF TypeOK, ClientsOK, FrameOK, Frames
<1>2. ok => \A u \in ((f.batch \ f.left) \cup {v}) \cap Guarded :
               f.value \in held'[u]
  <2>1. ok => \A u \in (f.batch \ f.left) \cap Guarded : f.value \in held[u]
    BY DEF HeldInv, WritesHeld, WriteHeld
  <2> QED
    BY <1>1, <2>1, HeldGrows
<1>3. CASE f.left # {v}
  <2>1. Goto(c, Write("writing", f.value, f.batch, f.left \ {v}, ok))
    BY <1>3 DEF AfterWrite
  <2>2. f.batch \ (f.left \ {v}) = (f.batch \ f.left) \cup {v}
    BY <1>1
  <2>3. WriteHeld(clients[c])'
    BY <1>2, <2>1, <2>2, GotoFrame
    DEF WriteHeld, Write, Frame, TypeOK, Guarded, With
  <2> QED
    BY <2>1, <2>3, HeldOtherWrites
<1>4. CASE f.left = {v} /\ ok
  <2>1. Goto(c, Write("caching", f.value, f.batch, f.batch, TRUE))
    BY <1>4 DEF AfterWrite
  <2>2. f.batch = (f.batch \ f.left) \cup {v}
    BY <1>1, <1>4
  <2>3. WriteHeld(clients[c])'
    BY <1>2, <1>4, <2>1, <2>2, GotoFrame
    DEF WriteHeld, Write, Frame, TypeOK, Guarded, With
  <2> QED
    BY <2>1, <2>3, HeldOtherWrites
<1>5. CASE f.left = {v} /\ ~ok
  <2>1. Goto(c, Idle(<< >>, << >>))
    BY <1>5 DEF AfterWrite
  <2>2. WriteHeld(clients[c])'
    BY <2>1, GotoFrame DEF WriteHeld, Idle, Frame, TypeOK
  <2> QED
    BY <2>1, <2>2, HeldOtherWrites
<1> QED
  BY <1>3, <1>4, <1>5

LEMMA HeldWriteProvider ==
    ASSUME TypeOK, TypeOK', HeldInv, "javaException" \notin Faults,
           NEW c \in Clients, WriteProvider(c)
    PROVE  HeldInv'
<1> DEFINE f == clients[c]
<1>1. PICK v \in f.left :
         \/ /\ \E notifies \in BOOLEAN : Change(v, f.value, notifies)
            /\ AfterWrite(c, v, f.ok)
         \/ AfterWrite(c, v, FALSE) /\ UNCHANGED <<provider, queue>>
  BY DEF WriteProvider
<1>2. /\ v \in Variables /\ f.value \in Nat /\ f.ok \in BOOLEAN
      /\ f.pc = "writing" /\ History
      /\ UNCHANGED <<results, valueSource, cache>>
  BY <1>1 DEF TypeOK, ClientsOK, FrameOK, Frames, WriteProvider, startUp
<1>3. QueueHeld' /\ WritesHeld'
  <2>1. CASE /\ \E notifies \in BOOLEAN : Change(v, f.value, notifies)
             /\ AfterWrite(c, v, f.ok)
    <3>1. QueueHeld' /\ f.value \in held'[v]
      BY <1>2, <2>1, HeldChange
    <3> QED
      BY <1>1, <1>2, <2>1, <3>1, HeldAfterWrite
  <2>2. CASE AfterWrite(c, v, FALSE) /\ UNCHANGED <<provider, queue>>
    <3>1. QueueHeld'
      BY <1>2, <2>2, HeldStays
    <3> QED
      BY <1>1, <1>2, <2>2, <3>1, HeldAfterWrite
  <2> QED
    BY <1>1, <2>1, <2>2
<1> QED
  BY <1>2, <1>3, HeldGrows, HeldStays DEF HeldInv

LEMMA HeldSetCache ==
    ASSUME TypeOK, TypeOK', HeldInv, NEW c \in Clients, SetCache(c)
    PROVE  HeldInv'
<1> DEFINE f == clients[c]
<1>1. PICK v \in f.left :
         /\ cache' = [cache EXCEPT ![v] = f.value] \/ cache' = cache
         /\ IF f.left = {v}
            THEN Goto(c, Idle(<< >>, << >>))
            ELSE Goto(c, Write("caching", f.value, f.batch, f.left \ {v},
                               TRUE))
  BY DEF SetCache
<1>2. /\ f.left \subseteq Variables /\ f.pc = "caching" /\ History
      /\ UNCHANGED <<results, valueSource, queue>>
  BY DEF TypeOK, ClientsOK, FrameOK, Frames, SetCache, startUp, java
<1>3. \A u \in f.left \cap Guarded : f.value \in held[u]
  BY <1>2 DEF HeldInv, WritesHeld, WriteHeld
<1>4. GuardedHeld'
  <2>1. CASE cache' = cache
    BY <1>2, <2>1, HeldStays
  <2>2. CASE cache' = [cache EXCEPT ![v] = f.value]
    BY <1>1, <1>2, <1>3, <2>2, HeldGrows
    DEF HeldInv, GuardedHeld, HeldByProvider, Guarded, With, TypeOK, ValuesOK
  <2> QED
    BY <1>1, <2>1, <2>2
<1>5. WritesHeld'
  <2>1. CASE f.left = {v}
    <3>1. WriteHeld(clients[c])'
      BY <1>1, <2>1, GotoFrame DEF WriteHeld, Idle, Frame, TypeOK
    <3> QED
      BY <1>1, <1>2, <2>1, <3>1, HeldOtherWrites
  <2>2. CASE f.left # {v}
    <3>1. \A u \in f.left \cap Guarded : f.value \in held'[u]
      BY <1>2, <1>3, HeldGrows
    <3>2. WriteHeld(clients[c])'
      BY <1>1, <2>2, <3>1, GotoFrame
      DEF WriteHeld, Write, Frame, TypeOK, Guarded, With
    <3> QED
      BY <1>1, <1>2, <2>2, <3>2, HeldOtherWrites
  <2> QED
    BY <2>1, <2>2
<1> QED
  BY <1>2, <1>4, <1>5, HeldGrows, HeldStays DEF HeldInv

LEMMA HeldStep ==
    ASSUME "javaException" \notin Faults, TypeOK, TypeOK', HeldInv,
           [Next]_vars
    PROVE  HeldInv'
<1>1. CASE StartUpStep
  BY <1>1, HeldStartUp
<1>2. CASE \E v \in Variables : ProviderChanges(v)
  BY <1>2, HeldProvider
<1>3. CASE DeliverNotification
  BY <1>3, HeldNotification
<1>4. CASE \E c \in Clients : ClientStep(c)
  BY <1>4, HeldReads, HeldNewWrite, HeldWriteProvider, HeldSetCache
  DEF ClientStep, ServeStep
<1>5. CASE BeforeShutDown
  BY <1>5, HeldGrows, HeldStays DEF BeforeShutDown, HeldInv, java
<1>6. CASE UNCHANGED vars
  BY <1>6 DEF vars, startUp, java, history, HeldInv, SourcesFollowHandling,
              HandledBy, ProviderHeld, ResultsHeld, QueueHeld, WritesHeld,
              WriteHeld, GuardedHeld, HeldByProvider
<1> QED
  BY <1>1, <1>2, <1>3, <1>4, <1>5, <1>6 DEF Next

(* Every value on its way into the cache of a guarded variable has been    *)
(* the provider's.                                                         *)
THEOREM HeldInvariant ==
    ASSUME "javaException" \notin Faults
    PROVE  Spec => []HeldInv
<1>1. Init => HeldInv
  BY HeldInit
<1>2. TypeOK /\ TypeOK' /\ HeldInv /\ [Next]_vars => HeldInv'
  BY HeldStep
<1> QED
  BY <1>1, <1>2, TypeCorrect, PTL DEF Spec

(* The cache of an asynchronous variable holds nothing or a value the      *)
(* provider has had, whatever does not convert.                            *)
THEOREM AsyncCacheCorrect ==
    ASSUME "javaException" \notin Faults
    PROVE  Spec => []AsyncCacheHeld
<1>1. HeldInv => AsyncCacheHeld
  BY DEF HeldInv, GuardedHeld, Guarded, AsyncCacheHeld
<1> QED
  BY <1>1, HeldInvariant, PTL

(* When nothing fails, so does the cache of every variable the provider    *)
(* handles.                                                                *)
THEOREM CacheCorrect ==
    ASSUME "javaException" \notin Faults, "conversion" \notin Faults
    PROVE  Spec => []CacheHeld
<1>1. HeldInv => CacheHeld
  BY DEF HeldInv, GuardedHeld, Guarded, CacheHeld
<1> QED
  BY <1>1, HeldInvariant, PTL

-----------------------------------------------------------------------------
(* The answers to reads.                                                   *)

LEMMA FreshInit == Init => FreshInv
BY DEF Init, FreshInv, ReadsFresh, AnswersFresh, PresentKnown, Idle, Frame

(* The frame of a client stays fresh in a step of another.                 *)
LEMMA FreshStays ==
    ASSUME TypeOK, TypeOK', FreshInv, History, NEW c \in Clients,
           clients'[c] = clients[c]
    PROVE  AnswersFresh(clients[c], current[c])' /\ PresentKnown(clients[c], current[c])'
<1> DEFINE f == clients[c]
<1>1. AnswersFresh(f, current[c]) /\ PresentKnown(f, current[c])
  BY DEF FreshInv, ReadsFresh
<1>2. CASE f.pc = "reading"
  <2>1. current'[c] = [v \in Variables |-> current[c][v] \cup {provider'[v]}]
    BY <1>2 DEF History
  <2>2. \A i \in DOMAIN f.answers : f.request[i] \in Variables
    <3>1. FrameOK(f)
      BY DEF TypeOK, ClientsOK
    <3>2. /\ f.request \in Seq(Variables) /\ f.answers \in Seq(Answers)
          /\ Len(f.answers) < Len(f.request)
      BY <1>2, <3>1 DEF FrameOK, Frames
    <3> QED
      BY <3>2
  <2>3. AnswersFresh(f, current'[c])
    BY <1>1, <2>1, <2>2 DEF AnswersFresh
  <2>4. \A v \in Variables : provider'[v] \in current'[c][v]
    BY <2>1
  <2> QED
    BY <2>3, <2>4 DEF AnswersFresh, PresentKnown
<1>3. CASE f.pc # "reading"
  <2>1. current'[c] = current[c]
    BY <1>3 DEF History
  <2> QED
    BY <1>1, <1>3, <2>1 DEF AnswersFresh, PresentKnown
<1> QED
  BY <1>2, <1>3

(* So a step of client c needs a fresh frame for c only.                   *)
LEMMA FreshOthers ==
    ASSUME TypeOK, TypeOK', FreshInv, History, NEW c \in Clients, NEW frame,
           Goto(c, frame),
           AnswersFresh(clients[c], current[c])' /\ PresentKnown(clients[c], current[c])'
    PROVE  FreshInv'
<1>1. ASSUME NEW d \in Clients
      PROVE  AnswersFresh(clients[d], current[d])' /\ PresentKnown(clients[d], current[d])'
  <2>1. CASE d = c
    BY <2>1
  <2>2. CASE d # c
    <3>1. clients'[d] = clients[d]
      BY <2>2 DEF Goto, TypeOK, ClientsOK
    <3> QED
      BY <3>1, FreshStays
  <2> QED
    BY <2>1, <2>2
<1> QED
  BY <1>1 DEF FreshInv, ReadsFresh

(* A step that leaves the clients alone.                                   *)
LEMMA FreshElsewhere ==
    ASSUME TypeOK, TypeOK', FreshInv, History, clients' = clients
    PROVE  FreshInv'
<1>1. ASSUME NEW c \in Clients
      PROVE  AnswersFresh(clients[c], current[c])' /\ PresentKnown(clients[c], current[c])'
  BY FreshStays
<1> QED
  BY <1>1 DEF FreshInv, ReadsFresh

(* The frame of a write, or of its end, has no request and no answers and  *)
(* is no read.                                                             *)
LEMMA WritesAnswerNothing ==
    ASSUME NEW c \in Clients,
           WriteValues(c) \/ SetAttribute(c) \/ WriteProvider(c) \/ SetCache(c)
    PROVE  \E frame : /\ Goto(c, frame) /\ frame.pc # "reading"
                      /\ frame.answers = << >> /\ frame.request = << >>
<1>f. /\ \A pc, value, batch, left, ok :
            /\ Write(pc, value, batch, left, ok).pc = pc
            /\ Write(pc, value, batch, left, ok).answers = << >>
            /\ Write(pc, value, batch, left, ok).request = << >>
      /\ Idle(<< >>, << >>).pc = "idle" /\ Idle(<< >>, << >>).answers = << >>
      /\ Idle(<< >>, << >>).request = << >>
  BY DEF Write, Idle, Frame
<1>0. ASSUME NEW pc \in {"writing", "caching"}, NEW value, NEW batch, NEW left, NEW ok,
             Goto(c, Write(pc, value, batch, left, ok))
      PROVE  \E frame : /\ Goto(c, frame) /\ frame.pc # "reading"
                         /\ frame.answers = << >> /\ frame.request = << >>
  <2>1. Write(pc, value, batch, left, ok).pc # "reading"
    BY DEF Write, Frame
  <2> QED
    BY <1>f, <1>0, <2>1
<1>1. CASE WriteValues(c)
  <2>1. \E value, batch, left, ok : Goto(c, Write("writing", value, batch, left, ok))
    BY <1>1, Zenon DEF WriteValues
  <2> QED
    BY <1>0, <2>1
<1>2. CASE SetAttribute(c)
  <2>1. PICK v : Goto(c, Write(IF Handling[v] = "none" THEN "caching" ELSE "writing",
                               nextValue, {v}, {v}, TRUE))
    BY <1>2, Zenon DEF SetAttribute
  <2>2. (IF Handling[v] = "none" THEN "caching" ELSE "writing") \in {"writing", "caching"}
    OBVIOUS
  <2> QED
    BY <1>0, <2>1, <2>2
<1>3. CASE WriteProvider(c)
  <2>1. PICK v, ok : AfterWrite(c, v, ok)
    BY <1>3, Zenon DEF WriteProvider
  <2> QED
    BY <1>f, <1>0, <2>1 DEF AfterWrite
<1>4. CASE SetCache(c)
  <2>1. \/ Goto(c, Idle(<< >>, << >>))
        \/ \E value, batch, left, ok : Goto(c, Write("caching", value, batch, left, ok))
    BY <1>4, Zenon DEF SetCache
  <2> QED
    BY <1>f, <1>0, <2>1
<1> QED
  BY <1>1, <1>2, <1>3, <1>4

LEMMA FreshWrites ==
    ASSUME TypeOK, TypeOK', FreshInv, NEW c \in Clients,
           WriteValues(c) \/ SetAttribute(c) \/ WriteProvider(c) \/ SetCache(c)
    PROVE  FreshInv'
<1>1. PICK frame : Goto(c, frame) /\ frame.pc # "reading" /\ frame.answers = << >>
  BY WritesAnswerNothing
<1>2. History
  BY DEF WriteValues, SetAttribute, WriteProvider, SetCache
<1>3. clients'[c] = frame
  BY <1>1, GotoFrame DEF TypeOK
<1>4. AnswersFresh(clients[c], current[c])' /\ PresentKnown(clients[c], current[c])'
  BY <1>1, <1>3 DEF AnswersFresh, PresentKnown
<1> QED
  BY <1>1, <1>2, <1>4, FreshOthers

(* A read begins with the values the provider has now.                     *)
LEMMA FreshReadValues ==
    ASSUME TypeOK, TypeOK', FreshInv, NEW c \in Clients, ReadValues(c)
    PROVE  FreshInv'
<1>1. PICK request : Goto(c, Read(request, << >>))
  BY DEF ReadValues
<1>2. History /\ provider' = provider /\ clients[c].pc = "idle"
  BY DEF ReadValues, java
<1>3. clients'[c] = Read(request, << >>)
  BY <1>1, GotoFrame DEF TypeOK
<1>4. clients'[c].pc = "reading" /\ clients'[c].answers = << >>
  BY <1>3 DEF Read, Frame
<1>5. current'[c] = [v \in Variables |-> {provider[v]}]
  BY <1>2, <1>4 DEF History
<1>6. AnswersFresh(clients[c], current[c])' /\ PresentKnown(clients[c], current[c])'
  BY <1>2, <1>4, <1>5 DEF AnswersFresh, PresentKnown
<1> QED
  BY <1>1, <1>2, <1>6, FreshOthers

(* What a read returns at a place is an answer for the variable there.     *)
LEMMA FreshReturned ==
    ASSUME NEW request \in Seq(Variables), NEW answers \in Seq(Answers),
           Len(answers) = Len(request), NEW values,
           \A i \in DOMAIN answers : answers[i] \in {Bad} \cup values[request[i]],
           NEW arrayIndex, NEW last \in LastResults(request)
    PROVE  AnswersFresh(Idle(request, ReturnValues(request, answers, arrayIndex, last)),
                        values)
<1> DEFINE returned == ReturnValues(request, answers, arrayIndex, last)
<1>1. DOMAIN returned = DOMAIN request /\ DOMAIN answers = DOMAIN request
  BY DEF ReturnValues
<1>2. ASSUME NEW i \in DOMAIN request
      PROVE  returned[i] \in {Bad} \cup values[request[i]]
  <2>1. last \in Places(request) /\ \A v \in DOMAIN last : request[last[v]] = v
    BY DEF LastResults
  <2>2. request[i] \in Range(request)
    BY DEF Range
  <2>3. last[request[i]] \in DOMAIN request /\ request[last[request[i]]] = request[i]
    BY <2>1, <2>2 DEF Places
  <2>4. answers[last[request[i]]] \in {Bad} \cup values[request[i]]
    BY <1>1, <2>3
  <2> QED
    BY <2>4 DEF ReturnValues
<1> QED
  BY <1>1, <1>2 DEF AnswersFresh, Idle, Frame

(* A read goes on, or returns its answers.                                 *)
LEMMA FreshReadNext ==
    ASSUME "javaException" \notin Faults, TypeOK, TypeOK', FreshInv,
           NEW c \in Clients, ReadNext(c)
    PROVE  FreshInv'
<1> DEFINE f == clients[c]
           v == f.request[Len(f.answers) + 1]
<1>1. FrameOK(f) /\ f.pc = "reading"
  BY DEF TypeOK, ClientsOK, ReadNext
<1>2. /\ f.request \in Seq(Variables) /\ f.answers \in Seq(Answers)
      /\ Len(f.answers) < Len(f.request)
  BY <1>1 DEF FrameOK, Frames
<1>3. v \in Variables
  BY <1>2
<1>4. PICK value \in ReadResults(v) :
         LET answers == Append(f.answers, value) IN
         IF Len(answers) < Len(f.request)
         THEN Goto(c, Read(f.request, answers))
         ELSE \E arrayIndex \in ArrayIndices(f.request),
                 last \in LastResults(f.request) :
                 Goto(c, Idle(f.request, ReturnValues(f.request, answers,
                                                      arrayIndex, last)))
  BY DEF ReadNext
<1> DEFINE answers == Append(f.answers, value)
           values == current'[c]
<1>5. History /\ provider' = provider
  BY DEF ReadNext, java
<1>6. values = [w \in Variables |-> current[c][w] \cup {provider[w]}]
  BY <1>1, <1>5 DEF History
<1>7. value \in Answers
  <2>1. ValuesOK
    BY DEF TypeOK
  <2> QED
    BY <1>3, <1>4, <2>1, ReadResultsTypes
<1>8. answers \in Seq(Answers) /\ Len(answers) = Len(f.answers) + 1
  BY <1>2, <1>7, AppendProperties
<1>9. \A i \in DOMAIN answers : answers[i] \in {Bad} \cup values[f.request[i]]
  <2>1. AnswersFresh(f, current[c])
    BY DEF FreshInv, ReadsFresh
  <2>2. value \in {Bad} \cup values[v]
    BY <1>3, <1>4, <1>6 DEF ReadResults
  <2>3. ASSUME NEW i \in DOMAIN f.answers
        PROVE  f.answers[i] \in {Bad} \cup values[f.request[i]]
    <3>1. f.request[i] \in Variables
      BY <1>2
    <3> QED
      BY <1>6, <2>1, <3>1 DEF AnswersFresh
  <2>4. ASSUME NEW i \in DOMAIN answers
        PROVE  answers[i] \in {Bad} \cup values[f.request[i]]
    <3>1. CASE i \in DOMAIN f.answers
      <4>1. answers[i] = f.answers[i]
        BY <1>2, <1>7, <3>1, AppendProperties
      <4> QED
        BY <2>3, <3>1, <4>1
    <3>2. CASE i \notin DOMAIN f.answers
      <4>1. i = Len(f.answers) + 1
        BY <1>2, <1>8, <3>2
      <4>2. answers[i] = value
        BY <1>2, <1>7, <4>1, AppendProperties
      <4> QED
        BY <2>2, <4>1, <4>2
    <3> QED
      BY <3>1, <3>2
  <2> QED
    BY <2>4
<1>10. CASE Len(answers) < Len(f.request)
  <2>1. Goto(c, Read(f.request, answers))
    BY <1>4, <1>10
  <2>2. clients'[c] = Read(f.request, answers)
    BY <2>1, GotoFrame DEF TypeOK
  <2>3. clients'[c].request = f.request /\ clients'[c].answers = answers
    BY <2>2 DEF Read, Frame
  <2>4. AnswersFresh(clients[c], current[c])'
    BY <1>9, <2>3 DEF AnswersFresh
  <2>5. PresentKnown(clients[c], current[c])'
    BY <1>5, <1>6 DEF PresentKnown
  <2> QED
    BY <1>5, <2>1, <2>4, <2>5, FreshOthers
<1>11. CASE ~(Len(answers) < Len(f.request))
  <2>1. PICK arrayIndex \in ArrayIndices(f.request),
             last \in LastResults(f.request) :
           Goto(c, Idle(f.request, ReturnValues(f.request, answers,
                                                arrayIndex, last)))
    BY <1>4, <1>11
  <2> DEFINE returned == ReturnValues(f.request, answers, arrayIndex, last)
  <2>2. Len(answers) = Len(f.request)
    BY <1>2, <1>8, <1>11
  <2>3. clients'[c] = Idle(f.request, returned)
    BY <2>1, GotoFrame DEF TypeOK
  <2>4. AnswersFresh(clients'[c], values)
    BY <1>2, <1>8, <1>9, <2>2, <2>3, FreshReturned
  <2>5. AnswersFresh(clients[c], current[c])'
    BY <2>4 DEF AnswersFresh
  <2>6. PresentKnown(clients[c], current[c])'
    BY <1>5, <1>6 DEF PresentKnown
  <2> QED
    BY <1>5, <2>1, <2>5, <2>6, FreshOthers
<1> QED
  BY <1>10, <1>11

LEMMA FreshStep ==
    ASSUME "javaException" \notin Faults, TypeOK, TypeOK', FreshInv,
           [Next]_vars
    PROVE  FreshInv'
<1>1. CASE \E c \in Clients : ClientStep(c)
  BY <1>1, FreshWrites, FreshReadValues, FreshReadNext
  DEF ClientStep, ServeStep
<1>2. CASE \/ StartUpStep
           \/ \E v \in Variables : ProviderChanges(v)
           \/ DeliverNotification
           \/ BeforeShutDown
  <2>1. History /\ clients' = clients
    BY <1>2 DEF StartUpStep, SetValueHandling, JavaSubscribe, PushCallback,
                InitialRead, SetInitialValue, ProviderChanges,
                DeliverNotification, BeforeShutDown
  <2> QED
    BY <2>1, FreshElsewhere
<1>3. CASE UNCHANGED vars
  BY <1>3 DEF vars, java, history, FreshInv, ReadsFresh, AnswersFresh,
              PresentKnown
<1> QED
  BY <1>1, <1>2, <1>3 DEF Next

(* As long as Java throws nothing, every answer of a synchronous read is a *)
(* bad status or a value the provider has had since the request came.      *)
THEOREM ReadsFreshCorrect ==
    ASSUME "javaException" \notin Faults
    PROVE  Spec => []ReadsFresh
<1>1. Init => FreshInv
  BY FreshInit
<1>2. TypeOK /\ TypeOK' /\ FreshInv /\ [Next]_vars => FreshInv'
  BY FreshStep
<1>3. FreshInv => ReadsFresh
  BY DEF FreshInv
<1> QED
  BY <1>1, <1>2, <1>3, TypeCorrect, PTL DEF Spec

(* Every variable of a read is answered.                                   *)

LEMMA AnsweredInit == Init => AnsweredInv
<1>1. Idle(<< >>, << >>).pc = "idle" /\ Idle(<< >>, << >>).request = << >>
  BY DEF Idle, Frame
<1>2. Range(<< >>) = {}
  BY DEF Range
<1> QED
  BY <1>1, <1>2 DEF Init, AnsweredInv, ReadsAnswered, Answered, NoneBad

LEMMA AnsweredGoto ==
    ASSUME TypeOK, AnsweredInv, NEW c \in Clients, NEW frame, Goto(c, frame),
           Answered(frame), NoneBad(frame)
    PROVE  AnsweredInv'
<1>1. \A d \in Clients : clients'[d] = IF d = c THEN frame ELSE clients[d]
  BY DEF Goto, TypeOK, ClientsOK
<1> QED
  BY <1>1 DEF AnsweredInv, ReadsAnswered, Answered, NoneBad

LEMMA AnsweredWrites ==
    ASSUME TypeOK, AnsweredInv, NEW c \in Clients,
           WriteValues(c) \/ SetAttribute(c) \/ WriteProvider(c) \/ SetCache(c)
    PROVE  AnsweredInv'
<1>1. PICK frame : /\ Goto(c, frame)
                   /\ frame.pc # "reading" /\ frame.request = << >>
  BY WritesAnswerNothing
<1>2. Range(<< >>) = {}
  BY DEF Range
<1> QED
  BY <1>1, <1>2, AnsweredGoto DEF Answered, NoneBad

(* A place that keeps its answer is one place of every variable.           *)
LEMMA AnsweredReturned ==
    ASSUME NEW request \in Seq(Variables), NEW answers \in Seq(Answers),
           Len(answers) = Len(request), \A i \in DOMAIN answers : answers[i] # Bad,
           NEW arrayIndex \in ArrayIndices(request), NEW last \in LastResults(request)
    PROVE  Answered(Idle(request, ReturnValues(request, answers, arrayIndex, last)))
<1> DEFINE returned == ReturnValues(request, answers, arrayIndex, last)
<1>1. DOMAIN answers = DOMAIN request
  OBVIOUS
<1>2. ASSUME NEW v \in Range(request)
      PROVE  \E i \in DOMAIN request : request[i] = v /\ returned[i] # Bad
  <2>1. arrayIndex[v] \in DOMAIN request /\ request[arrayIndex[v]] = v
    BY DEF ArrayIndices, Places
  <2>2. last[v] \in DOMAIN request
    BY DEF LastResults, Places
  <2>3. returned[arrayIndex[v]] = answers[last[v]]
    BY <2>1 DEF ReturnValues
  <2> QED
    BY <1>1, <2>1, <2>2, <2>3
<1>3. Idle(request, returned).request = request /\ Idle(request, returned).answers = returned
  BY DEF Idle, Frame
<1> QED
  BY <1>2, <1>3 DEF Answered

LEMMA AnsweredReadNext ==
    ASSUME Faults = {}, TypeOK, AnsweredInv, NEW c \in Clients, ReadNext(c)
    PROVE  AnsweredInv'
<1> DEFINE f == clients[c]
           v == f.request[Len(f.answers) + 1]
<1>1. FrameOK(f) /\ f.pc = "reading"
  BY DEF TypeOK, ClientsOK, ReadNext
<1>2. /\ f.request \in Seq(Variables) /\ f.answers \in Seq(Answers)
      /\ Len(f.answers) < Len(f.request)
  BY <1>1 DEF FrameOK, Frames
<1>3. PICK value \in ReadResults(v) :
         LET answers == Append(f.answers, value) IN
         IF Len(answers) < Len(f.request)
         THEN Goto(c, Read(f.request, answers))
         ELSE \E arrayIndex \in ArrayIndices(f.request),
                 last \in LastResults(f.request) :
                 Goto(c, Idle(f.request, ReturnValues(f.request, answers,
                                                      arrayIndex, last)))
  BY DEF ReadNext
<1> DEFINE answers == Append(f.answers, value)
<1>4. value \in Nat
  <2>1. v \in Variables
    BY <1>2
  <2> QED
    BY <1>3, <2>1 DEF ReadResults, TypeOK, ValuesOK
<1>5. answers \in Seq(Answers) /\ Len(answers) = Len(f.answers) + 1
  BY <1>2, <1>4, AppendProperties DEF Answers
<1>6. \A i \in DOMAIN answers : answers[i] # Bad
  <2>1. ASSUME NEW i \in DOMAIN answers
        PROVE  answers[i] # Bad
    <3>1. CASE i \in DOMAIN f.answers
      <4>1. answers[i] = f.answers[i]
        BY <1>2, <1>4, <3>1, AppendProperties DEF Answers
      <4>2. NoneBad(f)
        BY DEF AnsweredInv
      <4> QED
        BY <1>1, <3>1, <4>1, <4>2 DEF NoneBad
    <3>2. CASE i \notin DOMAIN f.answers
      <4>1. i = Len(f.answers) + 1
        BY <1>2, <1>5, <3>2
      <4>2. answers[i] = value
        BY <1>2, <1>4, <4>1, AppendProperties DEF Answers
      <4> QED
        BY <1>4, <4>2 DEF Bad
    <3> QED
      BY <3>1, <3>2
  <2> QED
    BY <2>1
<1>7. CASE Len(answers) < Len(f.request)
  <2>1. Goto(c, Read(f.request, answers))
    BY <1>3, <1>7
  <2>2. Answered(Read(f.request, answers)) /\ NoneBad(Read(f.request, answers))
    BY <1>6 DEF Answered, NoneBad, Read, Frame
  <2> QED
    BY <2>1, <2>2, AnsweredGoto
<1>8. CASE ~(Len(answers) < Len(f.request))
  <2>1. PICK arrayIndex \in ArrayIndices(f.request),
             last \in LastResults(f.request) :
           Goto(c, Idle(f.request, ReturnValues(f.request, answers,
                                                arrayIndex, last)))
    BY <1>3, <1>8
  <2> DEFINE frame == Idle(f.request, ReturnValues(f.request, answers, arrayIndex, last))
  <2>2. Len(answers) = Len(f.request)
    BY <1>2, <1>5, <1>8
  <2>3. Answered(frame)
    BY <1>2, <1>5, <1>6, <2>2, AnsweredReturned
  <2>4. NoneBad(frame)
    BY DEF NoneBad, Idle, Frame
  <2> QED
    BY <2>1, <2>3, <2>4, AnsweredGoto
<1> QED
  BY <1>7, <1>8

LEMMA AnsweredStep ==
    ASSUME Faults = {}, TypeOK, AnsweredInv, [Next]_vars
    PROVE  AnsweredInv'
<1>1. CASE clients' = clients
  BY <1>1 DEF AnsweredInv, ReadsAnswered, Answered, NoneBad
<1>2. ASSUME NEW c \in Clients, ReadValues(c)
      PROVE  AnsweredInv'
  <2>1. PICK request : Goto(c, Read(request, << >>))
    BY <1>2 DEF ReadValues
  <2>2. Answered(Read(request, << >>)) /\ NoneBad(Read(request, << >>))
    BY DEF Answered, NoneBad, Read, Frame
  <2> QED
    BY <2>1, <2>2, AnsweredGoto
<1>3. CASE \E c \in Clients : ClientStep(c)
  BY <1>2, <1>3, AnsweredWrites, AnsweredReadNext DEF ClientStep, ServeStep
<1>4. CASE \/ StartUpStep
           \/ \E v \in Variables : ProviderChanges(v)
           \/ DeliverNotification
           \/ BeforeShutDown
  BY <1>1, <1>4 DEF StartUpStep, SetValueHandling, JavaSubscribe, PushCallback,
                    InitialRead, SetInitialValue, ProviderChanges,
                    DeliverNotification, BeforeShutDown
<1>5. CASE UNCHANGED vars
  BY <1>1, <1>5 DEF vars
<1> QED
  BY <1>3, <1>4, <1>5 DEF Next

(* As long as nothing fails every variable of a read gets an answer.       *)
THEOREM ReadsAnsweredCorrect ==
    ASSUME Faults = {}
    PROVE  Spec => []ReadsAnswered
<1>1. Init => AnsweredInv
  BY AnsweredInit
<1>2. TypeOK /\ AnsweredInv /\ [Next]_vars => AnsweredInv'
  BY AnsweredStep
<1>3. AnsweredInv => ReadsAnswered
  BY DEF AnsweredInv
<1> QED
  BY <1>1, <1>2, <1>3, TypeCorrect, PTL DEF Spec

-----------------------------------------------------------------------------
(* No change is lost.                                                      *)

LEMMA CachedGrows ==
    ASSUME TypeOK, TypeOK', History
    PROVE  \A v \in Variables : cached[v] \subseteq cached'[v]
                                /\ cache'[v] \in cached'[v]
<1>1. cached' = [v \in Variables |-> cached[v] \cup {cache'[v]}]
  BY DEF History
<1> QED
  BY <1>1

(* What a round of a loop does to the phase, loop by loop.                 *)
LEMMA RoundSteps ==
    ASSUME NEW loop \in Loops, NEW v, Round(loop, v)
    PROVE  /\ phase = loop /\ v \in todo
           /\ \/ phase' = loop /\ todo' = todo \ {v} /\ todo # {v}
              \/ phase' = "up" /\ todo = {v} /\ With("async") = {}
              \/ /\ todo = {v} /\ todo' = With("async")
                 /\ \/ loop = "classifying" /\ phase' = "subscribing"
                    \/ loop = "subscribing" /\ phase' = "reading"
                    \/ loop = "reading" /\ phase' = "caching"
              \/ phase' = "up" /\ todo = {v} /\ loop = "caching"
<1>1. /\ AfterLoop("classifying") = "subscribing"
      /\ AfterLoop("subscribing") = "reading"
      /\ AfterLoop("reading") = "caching"
      /\ AfterLoop("caching") = "up"
  BY DEF AfterLoop
<1> QED
  BY <1>1 DEF Round, Loops

LEMMA ChangesInit == Init => ChangesKept
<1> SUFFICES ASSUME Init PROVE ChangesKept
  OBVIOUS
<1>1. SourcesFollowHandling
  BY HeldInit DEF HeldInv
<1>2. WritesAlone
  BY DEF Init, WritesAlone, WriteAlone, Idle, Frame
<1>3. CallbacksReady
  BY DEF Init, CallbacksReady, Subscribed
<1>4. \A v \in With("async") : Kept(v)
  BY DEF Init, Kept, OnItsWay
<1> QED
  BY <1>1, <1>2, <1>3, <1>4 DEF ChangesKept

(* A step that leaves the values, the queue and the start-up alone and no  *)
(* request that sets the cache behind keeps every change.                  *)
LEMMA KeptStays ==
    ASSUME TypeOK, TypeOK', History, ChangesKept,
           UNCHANGED <<phase, todo, results, provider, queue>>,
           \A c \in Clients : clients[c].pc = "caching" =>
               clients'[c] = clients[c]
    PROVE  phase' # "closed" => \A v \in With("async") : Kept(v)'
<1> SUFFICES ASSUME phase # "closed", NEW v \in With("async")
             PROVE  Kept(v)'
  OBVIOUS
<1>1. v \in Variables /\ Kept(v)
  BY DEF ChangesKept, With
<1>2. CASE provider[v] \in cached[v]
  BY <1>1, <1>2, CachedGrows DEF Kept
<1>3. CASE OnItsWay(v)
  BY <1>3 DEF OnItsWay, Kept
<1> QED
  BY <1>1, <1>2, <1>3 DEF Kept

LEMMA ReadyStays ==
    ASSUME CallbacksReady,
           UNCHANGED <<phase, todo, asking, callbacks, callbackAlive,
                       subscribed>>
    PROVE  CallbacksReady'
BY DEF CallbacksReady, Subscribed

LEMMA SourcesStay ==
    ASSUME SourcesFollowHandling, UNCHANGED valueSource
    PROVE  SourcesFollowHandling'
BY DEF SourcesFollowHandling, HandledBy

LEMMA AloneStays ==
    ASSUME WritesAlone, UNCHANGED clients
    PROVE  WritesAlone'
BY DEF WritesAlone, WriteAlone

(* Classifying, subscribing in Java and entering the callback: the initial *)
(* read is still to come.                                                  *)
LEMMA ChangesSubscribe ==
    ASSUME TypeOK, TypeOK', ChangesKept, NEW w \in Variables,
           SetValueHandling(w) \/ JavaSubscribe(w) \/ PushCallback(w)
    PROVE  ChangesKept'
<1>1. WritesAlone'
  BY AloneStays
  DEF ChangesKept, SetValueHandling, JavaSubscribe, PushCallback
<1>2. CASE SetValueHandling(w)
  <2>1. SourcesFollowHandling'
    BY <1>2 DEF SetValueHandling, ChangesKept, SourcesFollowHandling,
                HandledBy, With, TypeOK, StartUpOK
  <2>2. /\ "classifying" \in Loops /\ Round("classifying", w)
        /\ UNCHANGED <<asking, callbacks, callbackAlive, subscribed>>
    BY <1>2 DEF SetValueHandling, process, java, Loops
  <2>3. phase = "classifying" /\ CallbacksReady
    BY <2>2, RoundSteps DEF ChangesKept
  <2>4. CallbacksReady'
    BY <2>2, <2>3, RoundSteps DEF CallbacksReady, Subscribed
  <2>5. \A v \in With("async") : Kept(v)'
    BY <2>2, RoundSteps DEF Kept, OnItsWay
  <2> QED
    BY <1>1, <2>1, <2>4, <2>5 DEF ChangesKept
<1>3. CASE JavaSubscribe(w)
  <2>1. SourcesFollowHandling'
    BY <1>3, SourcesStay DEF JavaSubscribe, ChangesKept
  <2>2. phase = "subscribing" /\ CallbacksReady
    BY <1>3 DEF JavaSubscribe, ChangesKept
  <2>3. CallbacksReady'
    BY <1>3, <2>2 DEF JavaSubscribe, CallbacksReady, Subscribed, process
  <2>4. \A v \in With("async") : Kept(v)'
    BY <1>3, <2>2 DEF JavaSubscribe, Kept, OnItsWay
  <2> QED
    BY <1>1, <2>1, <2>3, <2>4 DEF ChangesKept
<1>4. CASE PushCallback(w)
  <2>1. SourcesFollowHandling'
    BY <1>4, SourcesStay DEF PushCallback, ChangesKept
  <2>2. /\ "subscribing" \in Loops /\ Round("subscribing", w)
        /\ asking = w /\ asking' = NoVariable
        /\ callbacks' = callbacks \cup {w}
        /\ UNCHANGED <<callbackAlive, subscribed>>
    BY <1>4 DEF PushCallback, process, java, Loops
  <2>3. phase = "subscribing" /\ CallbacksReady /\ w # NoVariable
    BY <2>2, RoundSteps, ServerCacheAssumption DEF ChangesKept
  <2>4. CallbacksReady'
    BY <2>2, <2>3, RoundSteps DEF CallbacksReady, Subscribed
  <2>5. \A v \in With("async") : Kept(v)'
    BY <2>2, RoundSteps DEF Kept, OnItsWay
  <2> QED
    BY <1>1, <2>1, <2>4, <2>5 DEF ChangesKept
<1> QED
  BY <1>2, <1>3, <1>4

(* The initial read finds the present value.                               *)
LEMMA ChangesInitialRead ==
    ASSUME Faults = {}, TypeOK, TypeOK', ChangesKept, NEW w \in Variables,
           InitialRead(w)
    PROVE  ChangesKept'
<1>1. /\ SourcesFollowHandling' /\ WritesAlone' /\ History
      /\ UNCHANGED <<asking, callbacks, callbackAlive, subscribed, provider,
                     queue, clients>>
  BY SourcesStay, AloneStays DEF InitialRead, ChangesKept, process, java
<1>2. /\ phase = "reading" /\ w \in todo
      /\ \/ phase' = "reading" /\ todo' = todo \ {w}
         \/ phase' = "up" /\ With("async") = {}
         \/ phase' = "caching" /\ todo = {w} /\ todo' = With("async")
  BY RoundSteps DEF InitialRead, Loops
<1>3. results' = [results EXCEPT ![w] = provider[w]]
  BY DEF InitialRead, ReadResults
<1>4. CallbacksReady'
  BY <1>1, <1>2 DEF ChangesKept, CallbacksReady, Subscribed
<1>5. ASSUME NEW v \in With("async")
      PROVE  Kept(v)'
  <2>1. v \in Variables /\ Kept(v)
    BY <1>2 DEF ChangesKept, With
  <2>2. results'[w] = provider'[w] /\ (v # w => results'[v] = results[v])
    BY <1>1, <1>3, <2>1 DEF TypeOK, StartUpOK
  <2>3. CASE provider[v] \in cached[v]
    BY <1>1, <2>1, <2>3, CachedGrows DEF Kept
  <2>4. CASE v \in todo
    BY <1>2, <2>2, <2>4 DEF Kept, OnItsWay
  <2>5. CASE v \notin todo /\ results[v] = provider[v]
    BY <1>1, <1>2, <2>2, <2>5 DEF Kept, OnItsWay
  <2>6. CASE \/ \E i \in DOMAIN queue : queue[i] = Notification(v, provider[v])
             \/ \E c \in Clients : /\ clients[c].pc = "caching"
                                   /\ v \in clients[c].left
                                   /\ clients[c].value = provider[v]
    BY <1>1, <2>6 DEF Kept, OnItsWay
  <2> QED
    BY <1>2, <2>1, <2>3, <2>4, <2>5, <2>6 DEF Kept, OnItsWay
<1> QED
  BY <1>1, <1>4, <1>5 DEF ChangesKept

(* A result that is still the present value goes into the cache.           *)
LEMMA ChangesSetInitialValue ==
    ASSUME Faults = {}, TypeOK, TypeOK', ChangesKept, NEW w \in Variables,
           SetInitialValue(w)
    PROVE  ChangesKept'
<1>1. /\ SourcesFollowHandling' /\ WritesAlone' /\ History
      /\ UNCHANGED <<asking, callbacks, callbackAlive, subscribed, provider,
                     queue, clients, results>>
  BY SourcesStay, AloneStays DEF SetInitialValue, ChangesKept, process, java
<1>2. /\ phase = "caching" /\ w \in todo
      /\ \/ phase' = "caching" /\ todo' = todo \ {w}
         \/ phase' = "up" /\ With("async") = {}
         \/ phase' = "up" /\ todo = {w}
  BY RoundSteps DEF SetInitialValue, Loops
<1>3. results[w] # Bad => cache' = [cache EXCEPT ![w] = results[w]]
  BY DEF SetInitialValue
<1>4. CallbacksReady'
  BY <1>1, <1>2 DEF ChangesKept, CallbacksReady, Subscribed
<1>5. ASSUME NEW v \in With("async")
      PROVE  Kept(v)'
  <2>1. v \in Variables /\ Kept(v)
    BY <1>2 DEF ChangesKept, With
  <2>2. CASE provider[v] \in cached[v]
    BY <1>1, <2>1, <2>2, CachedGrows DEF Kept
  <2>3. CASE v = w /\ results[v] = provider[v]
    <3>1. results[w] # Bad
      BY <2>1, <2>3 DEF TypeOK, ValuesOK, Bad
    <3>2. cache'[v] = provider'[v]
      BY <1>1, <1>3, <2>1, <2>3, <3>1 DEF TypeOK, ValuesOK
    <3> QED
      BY <1>1, <2>1, <3>2, CachedGrows DEF Kept
  <2>4. CASE v # w /\ v \in todo /\ results[v] = provider[v]
    BY <1>1, <1>2, <2>4 DEF Kept, OnItsWay
  <2>5. CASE \/ \E i \in DOMAIN queue : queue[i] = Notification(v, provider[v])
             \/ \E c \in Clients : /\ clients[c].pc = "caching"
                                   /\ v \in clients[c].left
                                   /\ clients[c].value = provider[v]
    BY <1>1, <2>5 DEF Kept, OnItsWay
  <2> QED
    BY <1>2, <2>1, <2>2, <2>3, <2>4, <2>5 DEF Kept, OnItsWay
<1> QED
  BY <1>1, <1>4, <1>5 DEF ChangesKept

(* From the initial read on the provider notifies of every change; what a  *)
(* queue has in it stays in it when one more notification is appended.     *)
LEMMA AppendedQueue ==
    ASSUME NEW S, NEW q \in Seq(S), NEW e \in S
    PROVE  /\ \E i \in DOMAIN Append(q, e) : Append(q, e)[i] = e
           /\ \A i \in DOMAIN q :
                 i \in DOMAIN Append(q, e) /\ Append(q, e)[i] = q[i]
<1>1. /\ Append(q, e) \in Seq(S) /\ Len(Append(q, e)) = Len(q) + 1
      /\ \A i \in 1 .. Len(q) : Append(q, e)[i] = q[i]
      /\ Append(q, e)[Len(q) + 1] = e
  BY AppendProperties
<1>2. /\ DOMAIN Append(q, e) = 1 .. Len(q) + 1 /\ DOMAIN q = 1 .. Len(q)
      /\ Len(q) \in Nat
  BY <1>1, LenProperties
<1>3. Len(q) + 1 \in DOMAIN Append(q, e)
  BY <1>2
<1> QED
  BY <1>1, <1>2, <1>3

LEMMA ChangesProvider ==
    ASSUME TypeOK, TypeOK', ChangesKept, NEW w \in Variables,
           ProviderChanges(w)
    PROVE  ChangesKept'
<1> DEFINE S == [variable: Variables, value: Nat]
<1>1. /\ SourcesFollowHandling' /\ WritesAlone' /\ History
      /\ UNCHANGED <<phase, todo, results, asking, callbacks, callbackAlive,
                     subscribed, clients>>
  BY SourcesStay, AloneStays
  DEF ProviderChanges, ChangesKept, process, startUp
<1>2. phase # "closed" => CallbacksReady'
  BY <1>1, ReadyStays DEF ChangesKept
<1>3. /\ nextValue \in Nat /\ queue \in Seq(S)
      /\ provider' = [provider EXCEPT ![w] = nextValue]
      /\ w \in subscribed => queue' = Append(queue, Notification(w, nextValue))
      /\ w \notin subscribed => queue' = queue
  BY DEF ProviderChanges, Change, TypeOK, ValuesOK
<1>4. Notification(w, nextValue) \in S
  BY <1>3 DEF Notification
<1>5. \A i \in DOMAIN queue : i \in DOMAIN queue' /\ queue'[i] = queue[i]
  BY <1>3, <1>4, AppendedQueue, SMTT(40)
<1>6. ASSUME phase # "closed", NEW v \in With("async")
      PROVE  Kept(v)'
  <2>1. v \in Variables /\ Kept(v) /\ CallbacksReady
    BY <1>6 DEF ChangesKept, With
  <2>2. CASE phase \in {"classifying", "subscribing"}
    BY <1>1, <2>2 DEF Kept, OnItsWay
  <2>3. CASE phase \notin {"classifying", "subscribing"} /\ v = w
    <3>1. w \in subscribed
      BY <2>1, <2>3 DEF CallbacksReady, Subscribed
    <3>2. provider'[v] = nextValue
      BY <1>3, <2>1, <2>3 DEF TypeOK, ValuesOK
    <3>3. \E i \in DOMAIN queue' : queue'[i] = Notification(v, provider'[v])
      BY <1>3, <1>4, <2>3, <3>1, <3>2, AppendedQueue
    <3> QED
      BY <3>3 DEF Kept, OnItsWay, Notification
  <2>4. CASE v # w
    <3>1. provider'[v] = provider[v]
      BY <1>3, <2>1, <2>4 DEF TypeOK, ValuesOK
    <3>2. CASE provider[v] \in cached[v]
      BY <1>1, <2>1, <3>1, <3>2, CachedGrows DEF Kept
    <3>3. CASE \E i \in DOMAIN queue :
                  queue[i] = Notification(v, provider[v])
      BY <1>5, <3>1, <3>3 DEF Kept, OnItsWay, Notification
    <3>4. CASE ~ \E i \in DOMAIN queue :
                    queue[i] = Notification(v, provider[v])
      BY <1>1, <2>1, <3>1, <3>2, <3>4 DEF Kept, OnItsWay
    <3> QED
      BY <3>3, <3>4
  <2> QED
    BY <2>2, <2>3, <2>4
<1> QED
  BY <1>1, <1>2, <1>6 DEF ChangesKept

(* The first notification is delivered to its callback; the others stay.   *)
LEMMA ChangesNotification ==
    ASSUME Faults = {}, TypeOK, TypeOK', ChangesKept, DeliverNotification
    PROVE  ChangesKept'
<1> DEFINE S == [variable: Variables, value: Nat]
           n == Head(queue)
<1>1. /\ SourcesFollowHandling' /\ WritesAlone' /\ History
      /\ UNCHANGED <<phase, todo, results, asking, callbacks, callbackAlive,
                     subscribed, clients, provider>>
  BY SourcesStay, AloneStays DEF DeliverNotification, ChangesKept, startUp
<1>2. phase # "closed" => CallbacksReady'
  BY <1>1, ReadyStays DEF ChangesKept
<1>3. queue \in Seq(S) /\ queue # << >> /\ queue' = Tail(queue)
  BY DEF DeliverNotification, TypeOK, ValuesOK
<1>4. ASSUME phase # "closed", NEW v \in With("async")
      PROVE  Kept(v)'
  <2>1. v \in Variables /\ Kept(v) /\ CallbacksReady
    BY <1>4 DEF ChangesKept, With
  <2>2. CASE phase \in {"classifying", "subscribing"}
    BY <1>1, <2>2 DEF Kept, OnItsWay
  <2>3. CASE provider[v] \in cached[v]
    BY <1>1, <2>1, <2>3, CachedGrows DEF Kept
  <2>4. CASE /\ phase \notin {"classifying", "subscribing"}
             /\ n = Notification(v, provider[v])
    <3>1. Receivers(v) # {} /\ callbackAlive
      BY <2>1, <2>4 DEF CallbacksReady, Subscribed, Receivers
    <3>2. n.variable = v /\ n.value = provider[v]
      BY <2>4 DEF Notification
    <3>3. cache' = [cache EXCEPT ![v] = provider[v]]
      BY <3>1, <3>2 DEF DeliverNotification
    <3>4. cache'[v] = provider'[v]
      BY <1>1, <2>1, <3>3 DEF TypeOK, ValuesOK
    <3> QED
      BY <1>1, <2>1, <3>4, CachedGrows DEF Kept
  <2>5. ASSUME n # Notification(v, provider[v]), NEW i \in DOMAIN queue,
               queue[i] = Notification(v, provider[v])
        PROVE  Kept(v)'
    <3>1. i # 1
      BY <1>3, <2>5, TailOfQueue
    <3>2. i - 1 \in DOMAIN queue' /\ queue'[i - 1] = queue[i]
      BY <1>3, <3>1, TailOfQueue
    <3> QED
      BY <1>1, <2>5, <3>2 DEF Kept, OnItsWay, Notification
  <2>6. CASE ~ \E i \in DOMAIN queue : queue[i] = Notification(v, provider[v])
    BY <1>1, <2>1, <2>3, <2>6 DEF Kept, OnItsWay
  <2>7. CASE \E i \in DOMAIN queue : queue[i] = Notification(v, provider[v])
    BY <2>2, <2>4, <2>5, <2>7
  <2> QED
    BY <2>6, <2>7
<1> QED
  BY <1>1, <1>2, <1>4 DEF ChangesKept

(* Only the request of the client that takes the step has to be looked at. *)
LEMMA AloneOtherWrites ==
    ASSUME TypeOK, WritesAlone, NEW c \in Clients, NEW frame,
           Goto(c, frame), WriteAlone(frame)
    PROVE  WritesAlone'
<1>1. clients'[c] = frame
  BY GotoFrame DEF TypeOK
<1>2. \A d \in Clients : d # c => clients'[d] = clients[d]
  BY DEF Goto, TypeOK, ClientsOK
<1> QED
  BY <1>1, <1>2 DEF WritesAlone, WriteAlone

(* A request begins or a read goes on.                                     *)
LEMMA ChangesRequests ==
    ASSUME Faults = {}, TypeOK, TypeOK', ChangesKept, NEW c \in Clients,
           \/ ReadValues(c) \/ ReadNext(c)
           \/ WriteValues(c) \/ SetAttribute(c)
    PROVE  ChangesKept'
<1>0. /\ \A request, answers : Read(request, answers).pc = "reading"
      /\ \A request, answers : Idle(request, answers).pc = "idle"
  BY DEF Read, Idle, Frame
<1>1. PICK frame : Goto(c, frame) /\ WriteAlone(frame)
  <2>1. CASE ReadValues(c)
    BY <1>0, <2>1 DEF ReadValues, WriteAlone
  <2>2. CASE ReadNext(c)
    <3>1. \E request, answers :
             Goto(c, Read(request, answers)) \/ Goto(c, Idle(request, answers))
      BY <2>2, Zenon DEF ReadNext
    <3> QED
      BY <1>0, <3>1 DEF WriteAlone
  <2>3. CASE WriteValues(c)
    <3>1. PICK batch \in (SUBSET HandledBy("CacheIsUpdatedOnRequest")) \ {{}} :
             \E left \in Prepared(batch) :
                Goto(c, Write("writing", nextValue, batch, left, TRUE))
      BY <2>3 DEF WriteValues
    <3>2. PICK left \in Prepared(batch) :
             Goto(c, Write("writing", nextValue, batch, left, TRUE))
      BY <3>1
    <3>3. With("async") \cap batch = {}
      BY DEF ChangesKept, SourcesFollowHandling, With
    <3>4. WriteAlone(Write("writing", nextValue, batch, left, TRUE))
      BY <3>3 DEF WriteAlone, Write, Frame
    <3> QED
      BY <3>2, <3>4
  <2>4. CASE SetAttribute(c)
    <3>1. PICK v \in HandledBy("CacheIsSource") :
             Goto(c, Write(IF Handling[v] = "none" THEN "caching"
                                                   ELSE "writing",
                           nextValue, {v}, {v}, TRUE))
      BY <2>4 DEF SetAttribute
    <3>2. WriteAlone(Write(IF Handling[v] = "none" THEN "caching"
                                                   ELSE "writing",
                           nextValue, {v}, {v}, TRUE))
      BY DEF WriteAlone, Write, Frame
    <3> QED
      BY <3>1, <3>2
  <2> QED
    BY <2>1, <2>2, <2>3, <2>4
<1>2. WritesAlone'
  BY <1>1, AloneOtherWrites DEF ChangesKept
<1>3. /\ History /\ clients[c].pc # "caching"
      /\ UNCHANGED <<startUp, process, cache, java>>
  BY DEF ReadValues, ReadNext, WriteValues, SetAttribute
<1>4. \A d \in Clients : clients[d].pc = "caching" => clients'[d] = clients[d]
  BY <1>1, <1>3 DEF Goto, TypeOK, ClientsOK
<1>5. /\ SourcesFollowHandling'
      /\ phase # "closed" => CallbacksReady'
  BY <1>3, SourcesStay, ReadyStays DEF ChangesKept, startUp, process, java
<1>6. phase' # "closed" => \A v \in With("async") : Kept(v)'
  BY <1>3, <1>4, KeptStays DEF startUp, java
<1> QED
  BY <1>2, <1>3, <1>5, <1>6 DEF ChangesKept, startUp

(* A change that leaves the other variables alone and loses no             *)
(* notification and no request that sets the cache.                        *)
LEMMA KeptOther ==
    ASSUME TypeOK, TypeOK', History, NEW v \in Variables, Kept(v),
           UNCHANGED <<phase, todo, results>>, provider'[v] = provider[v],
           \A i \in DOMAIN queue : i \in DOMAIN queue' /\ queue'[i] = queue[i],
           \A c \in Clients : clients[c].pc = "caching" =>
               clients'[c] = clients[c]
    PROVE  Kept(v)'
<1>1. CASE provider[v] \in cached[v]
  BY <1>1, CachedGrows DEF Kept
<1>2. CASE \E i \in DOMAIN queue : queue[i] = Notification(v, provider[v])
  BY <1>2 DEF Kept, OnItsWay, Notification
<1>3. CASE /\ provider[v] \notin cached[v]
           /\ ~ \E i \in DOMAIN queue : queue[i] = Notification(v, provider[v])
  BY <1>3 DEF Kept, OnItsWay
<1> QED
  BY <1>1, <1>2, <1>3

(* The provider takes the value of a request: it is about to enter the     *)
(* cache, whether the provider notifies of it or not.                      *)
LEMMA ChangesWriteProvider ==
    ASSUME Faults = {}, TypeOK, TypeOK', ChangesKept, NEW c \in Clients,
           WriteProvider(c)
    PROVE  ChangesKept'
<1> DEFINE S == [variable: Variables, value: Nat]
           f == clients[c]
<1>1. PICK w \in f.left :
         /\ \E notifies \in BOOLEAN : Change(w, f.value, notifies)
         /\ AfterWrite(c, w, f.ok)
  BY DEF WriteProvider
<1>2. /\ w \in Variables /\ f.value \in Nat /\ f.left \subseteq f.batch
      /\ f.pc = "writing" /\ History
      /\ UNCHANGED <<startUp, process, subscribed>>
  BY <1>1 DEF TypeOK, ClientsOK, FrameOK, Frames, WriteProvider
<1>3. f.ok /\ \A v \in With("async") \cap f.batch : f.batch = {v}
  BY <1>2 DEF ChangesKept, WritesAlone, WriteAlone
<1>4. WritesAlone'
  <2>1. CASE f.left # {w}
    <3>1. Goto(c, Write("writing", f.value, f.batch, f.left \ {w}, f.ok))
      BY <1>1, <2>1 DEF AfterWrite
    <3>2. WriteAlone(Write("writing", f.value, f.batch, f.left \ {w}, f.ok))
      BY <1>3 DEF WriteAlone, Write, Frame
    <3> QED
      BY <3>1, <3>2, AloneOtherWrites DEF ChangesKept
  <2>2. CASE f.left = {w}
    <3>1. Goto(c, Write("caching", f.value, f.batch, f.batch, TRUE))
      BY <1>1, <1>3, <2>2 DEF AfterWrite
    <3>2. WriteAlone(Write("caching", f.value, f.batch, f.batch, TRUE))
      BY DEF WriteAlone, Write, Frame
    <3> QED
      BY <3>1, <3>2, AloneOtherWrites DEF ChangesKept
  <2> QED
    BY <2>1, <2>2
<1>5. /\ SourcesFollowHandling'
      /\ phase # "closed" => CallbacksReady'
  BY <1>2, SourcesStay, ReadyStays DEF ChangesKept, startUp, process
<1>6. /\ provider' = [provider EXCEPT ![w] = f.value]
      /\ \A i \in DOMAIN queue : i \in DOMAIN queue' /\ queue'[i] = queue[i]
  <2>1. queue \in Seq(S) /\ Notification(w, f.value) \in S
    BY <1>2 DEF TypeOK, ValuesOK, Notification
  <2>2. \/ queue' = Append(queue, Notification(w, f.value))
        \/ queue' = queue
    BY <1>1 DEF Change
  <2>3. provider' = [provider EXCEPT ![w] = f.value]
    BY <1>1 DEF Change
  <2>4. CASE queue' = Append(queue, Notification(w, f.value))
    BY <2>1, <2>3, <2>4, AppendedQueue
  <2> QED
    BY <2>2, <2>3, <2>4
<1>7. \A d \in Clients : clients[d].pc = "caching" => clients'[d] = clients[d]
  BY <1>1, <1>2 DEF AfterWrite, Goto, TypeOK, ClientsOK
<1>8. ASSUME phase # "closed", NEW v \in With("async")
      PROVE  Kept(v)'
  <2>1. v \in Variables /\ Kept(v)
    BY <1>8 DEF ChangesKept, With
  <2>2. CASE v = w
    <3>1. f.left = {v} /\ f.batch = {v}
      BY <1>1, <1>2, <1>3, <2>2
    <3>2. Goto(c, Write("caching", f.value, f.batch, f.batch, TRUE))
      BY <1>1, <1>3, <2>2, <3>1 DEF AfterWrite
    <3>3. clients'[c] = Write("caching", f.value, f.batch, f.batch, TRUE)
      BY <3>2, GotoFrame DEF TypeOK
    <3>4. provider'[v] = f.value
      BY <1>6, <2>1, <2>2 DEF TypeOK, ValuesOK
    <3>5. /\ clients'[c].pc = "caching" /\ v \in clients'[c].left
          /\ clients'[c].value = provider'[v]
      BY <3>1, <3>3, <3>4 DEF Write, Frame
    <3> QED
      BY <3>5 DEF Kept, OnItsWay
  <2>3. CASE v # w
    <3>1. provider'[v] = provider[v]
      BY <1>6, <2>1, <2>3 DEF TypeOK, ValuesOK
    <3> QED
      BY <1>2, <1>6, <1>7, <2>1, <3>1, KeptOther DEF startUp
  <2> QED
    BY <2>2, <2>3
<1> QED
  BY <1>2, <1>4, <1>5, <1>8 DEF ChangesKept, startUp

(* The cache gets the value of a request.                                  *)
LEMMA ChangesSetCache ==
    ASSUME Faults = {}, TypeOK, TypeOK', ChangesKept, NEW c \in Clients,
           SetCache(c)
    PROVE  ChangesKept'
<1> DEFINE f == clients[c]
           rest(w) == Write("caching", f.value, f.batch, f.left \ {w}, TRUE)
<1>1. PICK w \in f.left :
         /\ cache' = [cache EXCEPT ![w] = f.value]
         /\ IF f.left = {w}
            THEN Goto(c, Idle(<< >>, << >>))
            ELSE Goto(c, rest(w))
  BY DEF SetCache
<1>2. /\ w \in Variables /\ f.pc = "caching" /\ History
      /\ UNCHANGED <<startUp, process, java>>
  BY <1>1 DEF TypeOK, ClientsOK, FrameOK, Frames, SetCache
<1>3. WriteAlone(Idle(<< >>, << >>)) /\ WriteAlone(rest(w))
  BY DEF WriteAlone, Idle, Write, Frame
<1>4. WritesAlone'
  <2>1. CASE f.left = {w}
    BY <1>1, <1>3, <2>1, AloneOtherWrites DEF ChangesKept
  <2>2. CASE f.left # {w}
    BY <1>1, <1>3, <2>2, AloneOtherWrites DEF ChangesKept
  <2> QED
    BY <2>1, <2>2
<1>5. /\ SourcesFollowHandling'
      /\ phase # "closed" => CallbacksReady'
  BY <1>2, SourcesStay, ReadyStays DEF ChangesKept, startUp, process, java
<1>6. \A d \in Clients : d # c => clients'[d] = clients[d]
  BY <1>1 DEF Goto, TypeOK, ClientsOK
<1>7. ASSUME phase # "closed", NEW v \in With("async")
      PROVE  Kept(v)'
  <2>1. v \in Variables /\ Kept(v)
    BY <1>7 DEF ChangesKept, With
  <2>2. CASE provider[v] \in cached[v]
    BY <1>2, <2>1, <2>2, CachedGrows DEF Kept, java
  <2>3. CASE v = w /\ f.value = provider[v]
    <3>1. cache'[v] = provider'[v]
      BY <1>1, <1>2, <2>1, <2>3 DEF TypeOK, ValuesOK, java
    <3> QED
      BY <1>2, <2>1, <3>1, CachedGrows DEF Kept
  <2>4. CASE v # w /\ v \in f.left /\ f.value = provider[v]
    <3>1. clients'[c] = rest(w)
      BY <1>1, <2>4, GotoFrame DEF TypeOK
    <3>2. /\ clients'[c].pc = "caching" /\ v \in clients'[c].left
          /\ clients'[c].value = provider'[v]
      BY <1>2, <2>4, <3>1 DEF Write, Frame, java
    <3> QED
      BY <3>2 DEF Kept, OnItsWay
  <2>5. CASE \E d \in Clients : /\ d # c
                               /\ clients[d].pc = "caching"
                               /\ v \in clients[d].left
                               /\ clients[d].value = provider[v]
    BY <1>2, <1>6, <2>5 DEF Kept, OnItsWay, java
  <2>6. CASE ~ \E d \in Clients : /\ clients[d].pc = "caching"
                                 /\ v \in clients[d].left
                                 /\ clients[d].value = provider[v]
    BY <1>2, <2>1, <2>2, <2>6 DEF Kept, OnItsWay, java, startUp
  <2> QED
    BY <2>3, <2>4, <2>5, <2>6
<1> QED
  BY <1>2, <1>4, <1>5, <1>7 DEF ChangesKept, startUp

LEMMA ChangesShutDown ==
    ASSUME ChangesKept, BeforeShutDown
    PROVE  ChangesKept'
BY SourcesStay, AloneStays DEF BeforeShutDown, ChangesKept

LEMMA ChangesStutter == ChangesKept /\ UNCHANGED vars => ChangesKept'
BY DEF vars, startUp, process, java, history, ChangesKept,
       SourcesFollowHandling, HandledBy, WritesAlone, WriteAlone,
       CallbacksReady, Subscribed, Kept, OnItsWay

LEMMA ChangesStep ==
    ASSUME Faults = {}, TypeOK, TypeOK', ChangesKept, [Next]_vars
    PROVE  ChangesKept'
<1>1. CASE StartUpStep
  BY <1>1, ChangesSubscribe, ChangesInitialRead, ChangesSetInitialValue
  DEF StartUpStep
<1>2. CASE \E v \in Variables : ProviderChanges(v)
  BY <1>2, ChangesProvider
<1>3. CASE DeliverNotification
  BY <1>3, ChangesNotification
<1>4. CASE \E c \in Clients : ClientStep(c)
  BY <1>4, ChangesRequests, ChangesWriteProvider, ChangesSetCache
  DEF ClientStep, ServeStep
<1>5. CASE BeforeShutDown
  BY <1>5, ChangesShutDown
<1>6. CASE UNCHANGED vars
  BY <1>6, ChangesStutter
<1> QED
  BY <1>1, <1>2, <1>3, <1>4, <1>5, <1>6 DEF Next

(* As long as nothing fails the present value of every asynchronous        *)
(* variable is on its way into the cache or has been there.                *)
THEOREM ChangesInvariant ==
    ASSUME Faults = {}
    PROVE  Spec => []ChangesKept
<1>1. Init => ChangesKept
  BY ChangesInit
<1>2. TypeOK /\ TypeOK' /\ ChangesKept /\ [Next]_vars => ChangesKept'
  BY ChangesStep
<1> QED
  BY <1>1, <1>2, TypeCorrect, PTL DEF Spec

(* So no change is lost, not even one between the subscription in Java and *)
(* the callback's entry in the list.                                       *)
THEOREM ChangesCorrect ==
    ASSUME Faults = {}
    PROVE  Spec => []NoChangeLost
<1>1. ChangesKept => NoChangeLost
  <2> SUFFICES ASSUME ChangesKept, Quiet, NEW v \in With("async")
               PROVE  provider[v] \in cached[v]
    BY DEF NoChangeLost
  <2>1. Kept(v)
    BY DEF ChangesKept, Quiet
  <2> QED
    BY <2>1 DEF Kept, OnItsWay, Quiet
<1> QED
  BY <1>1, ChangesInvariant, PTL
=============================================================================
