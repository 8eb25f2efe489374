----------------------- MODULE ClientOperationsProofs -----------------------
(***************************************************************************)
(* Theorems about ClientOperations, for any nodes, methods, types, values  *)
(* and number of pages: the variables keep their types; what Java is       *)
(* answered is what happened; the types of a subscribed node are in the    *)
(* cache; and Java ends up with the current value of such a node.          *)
(***************************************************************************)
EXTENDS ClientOperations, FiniteSetTheorems, WellFoundedInduction, TLAPS

USE OperationsAssumption

-----------------------------------------------------------------------------
(* OperationInv says, for every place where the Java thread waits, which   *)
(* operation it serves there and what of it has happened already; a read   *)
(* has seen every value of its node since it began, so that the value it   *)
(* takes is one of them.                                                   *)

Serves(kind, place) ==
    \/ kind = "none" /\ place = "idle"
    \/ kind \in {"read", "write", "subscribe"} /\ place \in {"class", "value"}
    \/ kind \in {"read", "write"} /\ place = "convert"
    \/ kind = "write" /\ place \in {"write", "written"}
    \/ kind = "subscribe" /\ place \in {"add", "added", "preload"}
    \/ kind = "unsubscribe" /\ place \in {"remove", "removed"}
    \/ kind = "exec" /\ place \in {"arguments", "input", "call", "called", "output"}
    \/ kind = "browse" /\ place \in {"browse", "browseNext"}

OperationOK(o, place) ==
    /\ o = [kind |-> o.kind, node |-> o.node, value |-> o.value, seen |-> o.seen,
            effect |-> o.effect, page |-> o.page, status |-> o.status]
    /\ Serves(o.kind, place)

ReadTrue(o, place) ==
    o.kind = "read" =>
        /\ o.node \in Nodes
        /\ value[o.node] \in o.seen
        /\ place = "convert" => o.value \in o.seen

Done == {"written", "added", "preload", "removed", "called", "output"}

EffectTrue(o, place) == o.effect = IF place \in Done THEN 1 ELSE 0

PagesTrue(o, place) == place = "browse" => o.page = 0

OperationInv ==
    /\ value = [m \in Nodes |-> value[m]]
    /\ OperationOK(op, pc)
    /\ ReadTrue(op, pc)
    /\ EffectTrue(op, pc)
    /\ PagesTrue(op, pc)

opVars == <<value, pc, op>>

LEMMA OperationInit == Init => OperationInv
BY DEF Init, NoOperation, OperationInv, OperationOK, Serves, ReadTrue,
       EffectTrue, Done, PagesTrue

LEMMA OperationKept ==
    ASSUME OperationInv, UNCHANGED opVars
    PROVE  OperationInv'
BY DEF opVars, OperationInv, OperationOK, ReadTrue, EffectTrue, PagesTrue

(* An operation that is answered is over.                                  *)
LEMMA AnswerInv ==
    ASSUME OperationInv, NEW status, Answer(status), value' = value
    PROVE  OperationInv'
BY DEF Answer, NoOperation, OperationInv, OperationOK, Serves, ReadTrue,
       EffectTrue, Done, PagesTrue

LEMMA BeginInv ==
    ASSUME OperationInv, Operations
    PROVE  OperationInv'
<1>1. PICK kind, m, v :
         /\ kind \in {"read", "write", "subscribe", "unsubscribe", "exec", "browse"}
         /\ kind = "read" => m \in Nodes
         /\ Begin(kind, m, v)
  BY DEF Operations
<1>2. value' = value /\ pc' = FirstStep[kind]
  BY <1>1 DEF Begin, serverVars
<1>3. op' = [kind |-> kind, node |-> m, value |-> v, effect |-> 0, page |-> 0,
             seen |-> IF kind = "read" THEN {value[m]} ELSE {}, status |-> "open"]
  BY <1>1 DEF Begin
<1>4. \/ kind \in {"read", "write", "subscribe"} /\ pc' = "class"
      \/ kind = "unsubscribe" /\ pc' = "remove"
      \/ kind = "exec" /\ pc' = "arguments"
      \/ kind = "browse" /\ pc' = "browse"
  <2>1. /\ FirstStep["read"] = "class" /\ FirstStep["write"] = "class"
        /\ FirstStep["subscribe"] = "class" /\ FirstStep["unsubscribe"] = "remove"
        /\ FirstStep["exec"] = "arguments" /\ FirstStep["browse"] = "browse"
    BY DEF FirstStep
  <2> QED
    BY <1>1, <1>2, <2>1
<1>5. OperationOK(op, pc)'
  <2>1. op'.kind = kind /\ Serves(kind, pc')
    BY <1>3, <1>4 DEF Serves
  <2> QED
    BY <1>3, <2>1 DEF OperationOK
<1>6. ReadTrue(op, pc)'
  BY <1>1, <1>2, <1>3, <1>4 DEF ReadTrue
<1>7. EffectTrue(op, pc)' /\ PagesTrue(op, pc)'
  BY <1>3, <1>4 DEF EffectTrue, Done, PagesTrue
<1> QED
  BY <1>2, <1>5, <1>6, <1>7 DEF OperationInv

(* The operation goes on to another place that its kind has, and nothing   *)
(* of it changes.                                                          *)
LEMMA GoesOnInv ==
    ASSUME OperationInv, op' = op, value' = value,
           Serves(op.kind, pc'), pc' # "browse", pc' # "convert",
           (pc \in Done) <=> (pc' \in Done)
    PROVE  OperationInv'
<1>1. OperationOK(op, pc)'
  BY DEF OperationInv, OperationOK
<1> QED
  BY <1>1 DEF OperationInv, ReadTrue, EffectTrue, Done, PagesTrue

LEMMA JavaInv ==
    ASSUME OperationInv, JavaStep
    PROVE  OperationInv'
<1>p. Serves(op.kind, pc)
  BY DEF OperationInv, OperationOK
<1>1. CASE ServiceFails
  BY <1>1, AnswerInv DEF ServiceFails, serverVars
<1>2. CASE ReadClass
  <2>1. pc = "class" /\ pc' = "value" /\ op' = op /\ value' = value
    BY <1>2 DEF ReadClass, serverVars
  <2>2. Serves(op.kind, pc')
    BY <1>p, <2>1 DEF Serves
  <2> QED
    BY <2>1, <2>2, GoesOnInv DEF Done
<1>3. CASE ReadValue
  <2>0. pc = "value" /\ value' = value
    BY <1>3 DEF ReadValue, serverVars
  <2>1. CASE value[op.node] = NoValue
    BY <1>3, <2>0, <2>1, AnswerInv DEF ReadValue
  <2>2. CASE value[op.node] # NoValue
    <3>1. op' = [op EXCEPT !.value = IF op.kind = "read" THEN value[op.node] ELSE @]
      BY <1>3, <2>2 DEF ReadValue
    <3>2. pc' = IF op.kind = "subscribe" THEN "add" ELSE "convert"
      BY <1>3, <2>2 DEF ReadValue
    <3>3. /\ op' = [kind |-> op.kind, node |-> op.node,
                    value |-> IF op.kind = "read" THEN value[op.node] ELSE op.value,
                    seen |-> op.seen, effect |-> op.effect, page |-> op.page,
                    status |-> op.status]
      BY <3>1 DEF OperationInv, OperationOK
    <3>4. OperationOK(op, pc)'
      BY <1>p, <2>0, <3>2, <3>3 DEF OperationOK, Serves
    <3>5. ReadTrue(op, pc)'
      BY <2>0, <3>3 DEF OperationInv, ReadTrue
    <3>6. EffectTrue(op, pc)' /\ PagesTrue(op, pc)'
      BY <2>0, <3>2, <3>3 DEF OperationInv, EffectTrue, Done, PagesTrue
    <3> QED
      BY <2>0, <3>4, <3>5, <3>6 DEF OperationInv
  <2> QED
    BY <2>1, <2>2
<1>4. CASE JavaConversionFails
  BY <1>4, AnswerInv DEF JavaConversionFails, serverVars
<1>5. CASE Converted
  <2>1. CASE op.kind = "read"
    BY <1>5, <2>1, AnswerInv DEF Converted, serverVars
  <2>2. CASE op.kind # "read"
    <3>1. pc = "convert" /\ pc' = "write" /\ op' = op /\ value' = value
      BY <1>5, <2>2 DEF Converted, serverVars
    <3>2. Serves(op.kind, pc')
      BY <1>p, <2>2, <3>1 DEF Serves
    <3> QED
      BY <3>1, <3>2, GoesOnInv DEF Done
  <2> QED
    BY <2>1, <2>2
<1>6. CASE Write \/ Call \/ AddItem \/ RemoveItem
  <2>1. \/ pc = "write" /\ pc' = "written"
        \/ pc = "call" /\ pc' = "called"
        \/ pc = "add" /\ pc' = "added"
        \/ pc = "remove" /\ pc' = "removed"
    BY <1>6 DEF Write, Call, AddItem, RemoveItem
  <2>2. op' = [op EXCEPT !.effect = @ + 1]
    BY <1>6 DEF Write, Call, AddItem, RemoveItem
  <2>3. op' = [kind |-> op.kind, node |-> op.node, value |-> op.value, seen |-> op.seen,
               effect |-> op.effect + 1, page |-> op.page, status |-> op.status]
    BY <2>2 DEF OperationInv, OperationOK
  <2>4. op.effect = 0
    BY <2>1 DEF OperationInv, EffectTrue, Done
  <2>5. OperationOK(op, pc)'
    BY <1>p, <2>1, <2>3 DEF OperationOK, Serves
  <2>6. op.kind # "read"
    BY <1>p, <2>1 DEF Serves
  <2>7. ReadTrue(op, pc)' /\ EffectTrue(op, pc)' /\ PagesTrue(op, pc)'
    BY <2>1, <2>3, <2>4, <2>6 DEF ReadTrue, EffectTrue, Done, PagesTrue
  <2>8. value' = [m \in Nodes |-> value'[m]]
    <3>1. value' = value \/ value' = [value EXCEPT ![op.node] = op.value]
      BY <1>6 DEF Write, Call, AddItem, RemoveItem, serverVars
    <3> QED
      BY <3>1 DEF OperationInv
  <2> QED
    BY <2>5, <2>7, <2>8 DEF OperationInv
<1>7. CASE \/ Written \/ WriteRefused \/ Preloaded \/ NothingToRemove \/ ItemRemoved
           \/ OutputConverted \/ BrowseEnds
  <2>1. value' = value /\ \E status : Answer(status)
    BY <1>7 DEF Written, WriteRefused, Preloaded, NothingToRemove, ItemRemoved,
                OutputConverted, BrowseEnds, serverVars
  <2> QED
    BY <2>1, AnswerInv
<1>8. CASE ItemAdded \/ GetArguments \/ InputConverted \/ Called
  <2>1. /\ \/ pc = "added" /\ pc' = "preload"
           \/ pc = "arguments" /\ pc' = "input"
           \/ pc = "input" /\ pc' = "call"
           \/ pc = "called" /\ pc' = "output"
        /\ op' = op /\ value' = value
    BY <1>8 DEF ItemAdded, GetArguments, InputConverted, Called, serverVars
  <2>2. Serves(op.kind, pc')
    BY <1>p, <2>1 DEF Serves
  <2>3. (pc \in Done) <=> (pc' \in Done)
    BY <2>1 DEF Done
  <2> QED
    BY <2>1, <2>2, <2>3, GoesOnInv
<1>9. CASE Browse
  <2>0. pc = "browse" /\ value' = value
    BY <1>9 DEF Browse, serverVars
  <2>1. CASE Answer("success")
    BY <2>0, <2>1, AnswerInv
  <2>2. CASE op' = [op EXCEPT !.page = 1] /\ pc' = "browseNext"
    <3>1. op' = [kind |-> op.kind, node |-> op.node, value |-> op.value, seen |-> op.seen,
                 effect |-> op.effect, page |-> 1, status |-> op.status]
      BY <2>2 DEF OperationInv, OperationOK
    <3>2. OperationOK(op, pc)'
      BY <1>p, <2>0, <2>2, <3>1 DEF OperationOK, Serves
    <3>3. op.kind = "browse"
      BY <1>p, <2>0 DEF Serves
    <3> QED
      BY <2>0, <2>2, <3>1, <3>2, <3>3 DEF OperationInv, ReadTrue, EffectTrue, Done, PagesTrue
  <2> QED
    BY <1>9, <2>1, <2>2 DEF Browse
<1>10. CASE LookUp("java") \/ Fetched("java")
  BY <1>10, OperationKept DEF LookUp, Fetched, serverVars, opVars
<1> QED
  BY <1>1, <1>2, <1>3, <1>4, <1>5, <1>6, <1>7, <1>8, <1>9, <1>10 DEF JavaStep

LEMMA BrowseNextInv ==
    ASSUME OperationInv, BrowseNext
    PROVE  OperationInv'
<1>1. pc = "browseNext" /\ pc' = pc /\ value' = value
  BY DEF BrowseNext, serverVars
<1>2. op' = [kind |-> op.kind, node |-> op.node, value |-> op.value, seen |-> op.seen,
             effect |-> op.effect, page |-> op.page + 1, status |-> op.status]
  BY DEF BrowseNext, OperationInv, OperationOK
<1>3. OperationOK(op, pc)' /\ op.kind = "browse"
  BY <1>1, <1>2 DEF OperationInv, OperationOK, Serves
<1> QED
  BY <1>1, <1>2, <1>3 DEF OperationInv, ReadTrue, EffectTrue, Done, PagesTrue

(* A node changes: a read of it sees the new value.                        *)
LEMMA ChangeInv ==
    ASSUME OperationInv, NEW m \in Nodes, NEW v, Change(m, v)
    PROVE  OperationInv'
<1>1. value' = [value EXCEPT ![m] = v] /\ pc' = pc
  BY DEF Change
<1>2. op' = [kind |-> op.kind, node |-> op.node, value |-> op.value,
             seen |-> IF op.kind = "read" /\ op.node = m THEN op.seen \cup {v} ELSE op.seen,
             effect |-> op.effect, page |-> op.page, status |-> op.status]
  BY DEF Change, OperationInv, OperationOK
<1>3. OperationOK(op, pc)'
  BY <1>1, <1>2 DEF OperationInv, OperationOK
<1>4. ReadTrue(op, pc)'
  BY <1>1, <1>2 DEF OperationInv, ReadTrue
<1> QED
  BY <1>1, <1>2, <1>3, <1>4 DEF OperationInv, EffectTrue, PagesTrue

LEMMA SdkInv ==
    ASSUME OperationInv, SdkStep \/ Publish
    PROVE  OperationInv'
<1>1. UNCHANGED opVars
  BY DEF SdkStep, Publish, DataChange, NotificationReceived, SdkConversionFails,
         DataChangeEnds, LookUp, Fetched, serverVars, opVars
<1> QED
  BY <1>1, OperationKept

LEMMA OperationStep ==
    ASSUME OperationInv, [Next]_vars
    PROVE  OperationInv'
<1>1. CASE UNCHANGED vars
  BY <1>1, OperationKept DEF vars, serverVars, opVars
<1> QED
  BY <1>1, BeginInv, JavaInv, BrowseNextInv, SdkInv, ChangeInv DEF Next

-----------------------------------------------------------------------------
(* A step that answers success is the last one of the operation: the       *)
(* invariant says what has happened by then.                               *)
LEMMA AnswerTrue ==
    ASSUME OperationInv, [Next]_vars, pc # "idle", pc' = "idle", op'.status = "success"
    PROVE  /\ op.kind = "read" => op.value \in op.seen
           /\ op.kind \in {"write", "exec"} => op.effect = 1
           /\ op.kind = "browse" => op.page \in {0, Pages}
<1>p. Serves(op.kind, pc)
  BY DEF OperationInv, OperationOK
<1>s. \A status : Answer(status) => op'.status = status
  BY DEF Answer, NoOperation
<1>1. JavaStep
  <2>1. ~UNCHANGED vars /\ ~BrowseNext
    BY DEF vars, BrowseNext
  <2>2. ~Operations
    BY DEF Operations, Begin
  <2>3. ~(SdkStep \/ Publish)
    BY DEF SdkStep, Publish, DataChange, NotificationReceived, SdkConversionFails,
           DataChangeEnds, LookUp, Fetched
  <2>4. \A m \in Nodes, v \in Values \cup {NoValue} : ~Change(m, v)
    BY DEF Change
  <2> QED
    BY <2>1, <2>2, <2>3, <2>4 DEF Next
<1>2. ~(ServiceFails \/ JavaConversionFails \/ WriteRefused)
  BY <1>s DEF ServiceFails, JavaConversionFails, WriteRefused
<1>3. ~(ReadClass \/ Write \/ AddItem \/ ItemAdded \/ RemoveItem \/ GetArguments
        \/ InputConverted \/ Call \/ Called \/ LookUp("java") \/ Fetched("java"))
  BY DEF ReadClass, Write, AddItem, ItemAdded, RemoveItem, GetArguments, InputConverted,
         Call, Called, LookUp, Fetched
<1>4. ~ReadValue
  <2>1. CASE value[op.node] = NoValue
    BY <1>s, <2>1 DEF ReadValue
  <2>2. CASE value[op.node] # NoValue
    BY <2>2 DEF ReadValue
  <2> QED
    BY <2>1, <2>2
<1>5. CASE Converted
  <2>1. pc = "convert" /\ op.kind = "read"
    BY <1>5 DEF Converted
  <2> QED
    BY <2>1 DEF OperationInv, ReadTrue
<1>6. CASE Written \/ OutputConverted
  <2>1. pc \in {"written", "output"}
    BY <1>6 DEF Written, OutputConverted
  <2>2. op.kind \in {"write", "exec"} /\ op.effect = 1
    BY <1>p, <2>1 DEF Serves, OperationInv, EffectTrue, Done
  <2> QED
    BY <2>2
<1>7. CASE Preloaded \/ NothingToRemove \/ ItemRemoved
  <2>1. pc \in {"preload", "remove", "removed"}
    BY <1>7 DEF Preloaded, NothingToRemove, ItemRemoved
  <2>2. op.kind \in {"subscribe", "unsubscribe"}
    BY <1>p, <2>1 DEF Serves
  <2> QED
    BY <2>2
<1>8. CASE Browse \/ BrowseEnds
  <2>1. \/ pc = "browse"
        \/ pc = "browseNext" /\ op.page = Pages
    BY <1>8 DEF Browse, BrowseEnds
  <2>2. op.kind = "browse" /\ op.page \in {0, Pages}
    BY <1>p, <2>1 DEF Serves, OperationInv, PagesTrue
  <2> QED
    BY <2>2
<1> QED
  BY <1>1, <1>2, <1>3, <1>4, <1>5, <1>6, <1>7, <1>8 DEF JavaStep

THEOREM OperationInvariant == Spec => []OperationInv
<1>1. Init => OperationInv
  BY OperationInit
<1>2. OperationInv /\ [Next]_vars => OperationInv'
  BY OperationStep
<1> QED
  BY <1>1, <1>2, PTL DEF Spec

(* What Java is answered is what happened, for every operation.            *)
THEOREM AnswersCorrect == Spec => AnswersTrue
<1> DEFINE true == (pc # "idle" /\ pc' = "idle" /\ op'.status = "success") =>
                      /\ op.kind = "read" => op.value \in op.seen
                      /\ op.kind \in {"write", "exec"} => op.effect = 1
                      /\ op.kind = "browse" => op.page \in {0, Pages}
<1>1. OperationInv /\ [Next]_vars => [true]_vars
  BY AnswerTrue
<1> HIDE DEF true
<1>2. Spec => [][true]_vars
  BY <1>1, OperationInvariant, PTL DEF Spec
<1> QED
  BY <1>2 DEF AnswersTrue, true

-----------------------------------------------------------------------------
(* Sequences and what conversions have to know.                            *)

LEMMA SetOfElements ==
    ASSUME NEW S, NEW s \in Seq(S)
    PROVE  ToSet(s) = {s[i] : i \in 1 .. Len(s)}
BY DEF ToSet

LEMMA ElementOf ==
    ASSUME NEW S, NEW s \in Seq(S), NEW i \in 1 .. Len(s)
    PROVE  s[i] \in S
OBVIOUS

LEMMA SequenceMade ==
    ASSUME NEW S, NEW n \in Nat, NEW s \in [1 .. n -> S]
    PROVE  s \in Seq(S) /\ Len(s) = n
OBVIOUS

LEMMA HeadAndTail ==
    ASSUME NEW S, NEW s \in Seq(S), s # <<>>
    PROVE  /\ Head(s) \in S /\ Tail(s) \in Seq(S)
           /\ Len(s) \in Nat \ {0} /\ Len(Tail(s)) = Len(s) - 1
           /\ Head(s) = s[1] /\ \A i \in 1 .. Len(s) - 1 : Tail(s)[i] = s[i + 1]
           /\ ToSet(s) = {Head(s)} \cup ToSet(Tail(s))
<1>1. /\ Head(s) \in S /\ Tail(s) \in Seq(S)
      /\ Len(s) \in Nat \ {0} /\ Len(Tail(s)) = Len(s) - 1
      /\ Head(s) = s[1] /\ \A i \in 1 .. Len(s) - 1 : Tail(s)[i] = s[i + 1]
  OBVIOUS
<1>2. ToSet(s) = {s[i] : i \in 1 .. Len(s)}
  BY DEF ToSet
<1>3. ToSet(Tail(s)) = {Tail(s)[i] : i \in 1 .. Len(s) - 1}
  <2> DEFINE t == Tail(s)
  <2>1. t \in Seq(S) /\ Len(t) = Len(s) - 1
    BY <1>1
  <2> HIDE DEF t
  <2>2. ToSet(t) = {t[i] : i \in 1 .. Len(t)}
    BY <2>1, SetOfElements
  <2>3. ToSet(t) = {t[i] : i \in 1 .. Len(s) - 1}
    BY <2>1, <2>2
  <2> QED
    BY <2>3 DEF t
<1>4. ASSUME NEW x \in ToSet(s) PROVE x \in {Head(s)} \cup ToSet(Tail(s))
  <2>1. PICK i \in 1 .. Len(s) : x = s[i]
    BY <1>2, <1>4
  <2>2. CASE i = 1
    BY <1>1, <2>1, <2>2
  <2>3. CASE i # 1
    <3>1. i - 1 \in 1 .. Len(s) - 1 /\ Tail(s)[i - 1] = x
      BY <1>1, <2>1, <2>3
    <3> QED
      BY <1>3, <3>1
  <2> QED
    BY <2>2, <2>3
<1>5. ASSUME NEW x \in {Head(s)} \cup ToSet(Tail(s)) PROVE x \in ToSet(s)
  <2>1. CASE x = Head(s)
    BY <1>1, <1>2, <2>1
  <2>2. CASE x \in ToSet(Tail(s))
    <3>1. PICK i \in 1 .. Len(s) - 1 : x = s[i + 1]
      BY <1>1, <1>3, <2>2
    <3>2. i + 1 \in 1 .. Len(s)
      BY <1>1
    <3> QED
      BY <1>2, <3>1, <3>2
  <2> QED
    BY <1>5, <2>1, <2>2
<1> QED
  BY <1>1, <1>4, <1>5

LEMMA SetOfConcatenation ==
    ASSUME NEW S, NEW s \in Seq(S), NEW t \in Seq(S)
    PROVE  s \o t \in Seq(S) /\ ToSet(s \o t) = ToSet(s) \cup ToSet(t)
<1>1. /\ s \o t \in Seq(S) /\ Len(s \o t) = Len(s) + Len(t) /\ Len(s) \in Nat /\ Len(t) \in Nat
      /\ \A i \in 1 .. Len(s) + Len(t) :
            (s \o t)[i] = IF i <= Len(s) THEN s[i] ELSE t[i - Len(s)]
  OBVIOUS
<1>2. /\ ToSet(s) = {s[i] : i \in 1 .. Len(s)} /\ ToSet(t) = {t[i] : i \in 1 .. Len(t)}
      /\ ToSet(s \o t) = {(s \o t)[i] : i \in 1 .. Len(s) + Len(t)}
  <2>1. ToSet(s \o t) = {(s \o t)[i] : i \in 1 .. Len(s \o t)}
    BY <1>1, SetOfElements
  <2> QED
    BY <1>1, <2>1, SetOfElements
<1>3. ASSUME NEW x \in ToSet(s \o t) PROVE x \in ToSet(s) \cup ToSet(t)
  <2>1. PICK i \in 1 .. Len(s) + Len(t) : x = (s \o t)[i]
    BY <1>2, <1>3
  <2>2. CASE i <= Len(s)
    BY <1>1, <1>2, <2>1, <2>2
  <2>3. CASE i > Len(s)
    <3>1. i - Len(s) \in 1 .. Len(t) /\ x = t[i - Len(s)]
      BY <1>1, <2>1, <2>3
    <3> QED
      BY <1>2, <3>1
  <2> QED
    BY <1>1, <2>2, <2>3
<1>4. ASSUME NEW x \in ToSet(s) PROVE x \in ToSet(s \o t)
  <2>1. PICK i \in 1 .. Len(s) : x = s[i]
    BY <1>2, <1>4
  <2>2. i \in 1 .. Len(s) + Len(t) /\ (s \o t)[i] = x
    BY <1>1, <2>1
  <2> QED
    BY <1>2, <2>2
<1>5. ASSUME NEW x \in ToSet(t) PROVE x \in ToSet(s \o t)
  <2>1. PICK i \in 1 .. Len(t) : x = t[i]
    BY <1>2, <1>5
  <2>2. i + Len(s) \in 1 .. Len(s) + Len(t) /\ (s \o t)[i + Len(s)] = x
    BY <1>1, <2>1
  <2> QED
    BY <1>2, <2>2
<1> QED
  BY <1>1, <1>3, <1>4, <1>5

LEMMA NeedsTyped ==
    ASSUME NEW type \in 0 .. TypeCount
    PROVE  Needs(type) \in Seq(Infos)
<1>1. type \in Types => <<"superTypes", type>> \in Infos
  BY DEF Infos
<1> QED
  BY <1>1 DEF Needs

(* What comes next is what a conversion asks for next.                     *)
LEMMA GoesOnTyped ==
    ASSUME NEW info \in Infos
    PROVE  GoesOn(info) \in Seq(Infos) /\ ToSet(GoesOn(info)) = AsksFor(info)
<1>1. PICK w \in {"superTypes", "structureDefinition"}, t \in Types : info = <<w, t>>
  BY DEF Infos
<1>2. info[1] = w /\ info[2] = t
  BY <1>1
<1>3. CASE w = "superTypes"
  <2>1. CASE KindOf[t] = "structure"
    <3> DEFINE i == <<"structureDefinition", t>>
    <3>1. GoesOn(info) = <<i>> /\ AsksFor(info) = {i}
      BY <1>2, <1>3, <2>1 DEF GoesOn, AsksFor
    <3>2. i \in Infos
      BY DEF Infos
    <3> HIDE DEF i
    <3>3. <<i>> \in Seq(Infos) /\ ToSet(<<i>>) = {i}
      BY <3>2 DEF ToSet
    <3> QED
      BY <3>1, <3>3
  <2>2. CASE KindOf[t] # "structure"
    <3>1. GoesOn(info) = <<>> /\ AsksFor(info) = {}
      BY <1>2, <1>3, <2>2 DEF GoesOn, AsksFor
    <3> QED
      BY <3>1 DEF ToSet
  <2> QED
    BY <2>1, <2>2
<1>4. CASE w = "structureDefinition"
  <2> DEFINE f == Fields[t]
             s == [i \in 1 .. Len(f) |-> <<"superTypes", f[i]>>]
  <2>1. GoesOn(info) = s /\ AsksFor(info) = {<<"superTypes", u>> : u \in ToSet(f)}
    BY <1>2, <1>4 DEF GoesOn, AsksFor
  <2>2. f \in Seq(1 .. t - 1) /\ t \in Types /\ TypeCount \in Nat
    OBVIOUS
  <2> HIDE DEF f
  <2>3. \A i \in 1 .. Len(f) : f[i] \in Types
    <3>1. \A i \in 1 .. Len(f) : f[i] \in 1 .. t - 1
      BY <2>2, ElementOf, Zenon
    <3>2. \A u \in 1 .. t - 1 : u \in Types
      BY <2>2 DEF Types
    <3> QED
      BY <3>1, <3>2, Zenon
  <2>4. \A i \in 1 .. Len(f) : <<"superTypes", f[i]>> \in Infos
    BY <2>3 DEF Infos
  <2>5. s \in Seq(Infos) /\ Len(s) = Len(f)
    <3>1. Len(f) \in Nat
      BY <2>2
    <3>2. s \in [1 .. Len(f) -> Infos]
      BY <2>4, Zenon
    <3> HIDE DEF s
    <3> QED
      BY <3>1, <3>2, SequenceMade
  <2>6. ToSet(s) = {<<"superTypes", u>> : u \in ToSet(f)}
    <3>1. ToSet(s) = {s[i] : i \in 1 .. Len(f)} /\ ToSet(f) = {f[i] : i \in 1 .. Len(f)}
      BY <2>2, <2>5 DEF ToSet
    <3>2. \A i \in 1 .. Len(f) : s[i] = <<"superTypes", f[i]>>
      OBVIOUS
    <3> HIDE DEF s
    <3>3. ASSUME NEW x \in ToSet(s) PROVE x \in {<<"superTypes", u>> : u \in ToSet(f)}
      BY <3>1, <3>2, <3>3
    <3>4. ASSUME NEW u \in ToSet(f) PROVE <<"superTypes", u>> \in ToSet(s)
      BY <3>1, <3>2, <3>4
    <3> QED
      BY <3>3, <3>4
  <2> QED
    BY <2>1, <2>5, <2>6
<1> QED
  BY <1>3, <1>4

-----------------------------------------------------------------------------
(* Types.  TypeOK is inductive together with what an operation is about,   *)
(* and with what each thread may still have to know: the Java thread only  *)
(* while it converts or preloads, the SDK's only while it has an element   *)
(* of a notification in hand.                                              *)

OpTypes ==
    /\ op.kind \in {"read", "write", "subscribe", "unsubscribe"} => op.node \in Nodes
    /\ op.kind = "exec" => op.node \in Methods
    /\ op.value \in Values \cup {NoValue}

ServerTypes ==
    /\ value \in [Nodes -> Values \cup {NoValue}]
    /\ items \in Seq(Items) /\ Len(items) <= MaxItems
    /\ changed \subseteq {h \in 1 .. Len(items) : items[h].live}
    /\ packets \in Seq(Seq(Elements)) /\ Len(packets) <= MaxPackets

Converting == {"convert", "preload", "input", "output"}

JavaTypes ==
    /\ pc \in {"idle", "class", "value", "convert", "write", "written", "add", "added",
               "preload", "remove", "removed", "arguments", "input", "call", "called", "output", "browse", "browseNext"}
    /\ op.status \in {"open", "success", "failed"} /\ (op.status = "open") = (pc # "idle")
    /\ op.page \in 0 .. Pages
    /\ OpTypes
    /\ todo["java"] # <<>> => pc \in Converting

SdkTypes ==
    /\ sdk # NoElement => sdk \in Elements /\ packets # <<>>
    /\ todo["sdk"] # <<>> => sdk # NoElement

TodoTypes ==
    /\ todo \in [Threads -> Seq(Infos)] /\ fetching \in [Threads -> BOOLEAN]
    /\ \A th \in Threads : fetching[th] => todo[th] # <<>>
    /\ cache \subseteq Infos

ToldTypes ==
    /\ subscribed \subseteq Nodes
    /\ told \in [Nodes -> Values \cup {NoValue}]

TypeInv == OperationInv /\ ServerTypes /\ JavaTypes /\ SdkTypes /\ TodoTypes /\ ToldTypes

LEMMA TypeInvImplies == TypeInv => TypeOK
<1> SUFFICES ASSUME TypeInv PROVE TypeOK
  OBVIOUS
<1>1. op.effect \in 0 .. 1
  BY DEF TypeInv, OperationInv, EffectTrue
<1> QED
  BY <1>1 DEF TypeInv, ServerTypes, JavaTypes, SdkTypes, TodoTypes, ToldTypes, TypeOK

LEMMA TypeInit == Init => TypeInv
<1> SUFFICES ASSUME Init PROVE TypeInv
  OBVIOUS
<1>1. OperationInv
  BY OperationInit
<1>2. ServerTypes
  BY DEF Init, ServerTypes
<1>3. JavaTypes
  BY DEF Init, JavaTypes, OpTypes, NoOperation, Threads
<1>4. SdkTypes
  BY DEF Init, SdkTypes, Threads
<1>5. TodoTypes
  BY DEF Init, TodoTypes
<1>6. ToldTypes
  BY DEF Init, ToldTypes
<1> QED
  BY <1>1, <1>2, <1>3, <1>4, <1>5, <1>6 DEF TypeInv

-----------------------------------------------------------------------------
(* The server's side: items come, and change in what the list or the       *)
(* server knows of them, but keep their handles and their nodes.           *)

LEMMA SequenceIn ==
    ASSUME NEW S, NEW T, S \subseteq T, NEW s \in Seq(S)
    PROVE  s \in Seq(T)
OBVIOUS

LEMMA ItemAppended ==
    ASSUME NEW s \in Seq(Items), NEW x \in Items
    PROVE  /\ Append(s, x) \in Seq(Items) /\ Len(Append(s, x)) = Len(s) + 1 /\ Len(s) \in Nat
           /\ \A h \in 1 .. Len(s) : Append(s, x)[h] = s[h]
           /\ Append(s, x)[Len(s) + 1] = x
OBVIOUS

LEMMA ItemChanged ==
    ASSUME NEW x \in Items
    PROVE  /\ [x EXCEPT !.listed = FALSE] \in Items /\ [x EXCEPT !.live = FALSE] \in Items
           /\ [x EXCEPT !.listed = FALSE].node = x.node /\ [x EXCEPT !.live = FALSE].node = x.node
           /\ [x EXCEPT !.listed = FALSE].live = x.live
           /\ [x EXCEPT !.listed = FALSE].listed = FALSE
           /\ [x EXCEPT !.live = FALSE].listed = x.listed
           /\ [x EXCEPT !.live = FALSE].live = FALSE
BY DEF Items

UnlistedAt(i) ==
    /\ items' \in Seq(Items) /\ Len(items') = Len(items) /\ Len(items) \in Nat
    /\ \A h \in 1 .. Len(items) :
          /\ items'[h].node = items[h].node /\ items'[h].live = items[h].live
          /\ items'[h].listed = IF h = i THEN FALSE ELSE items[h].listed

LEMMA ItemUnlisted ==
    ASSUME items \in Seq(Items), NEW i, items' = [items EXCEPT ![i].listed = FALSE]
    PROVE  UnlistedAt(i)
<1> DEFINE s == items
           t == items'
<1>0. s \in Seq(Items) /\ t = [s EXCEPT ![i].listed = FALSE]
  OBVIOUS
<1> HIDE DEF s, t
<1>1. Len(s) \in Nat /\ s = [h \in 1 .. Len(s) |-> s[h]]
      /\ \A h \in 1 .. Len(s) : s[h] \in Items
  BY <1>0
<1> DEFINE Marked(h) == IF h = i THEN [s[h] EXCEPT !.listed = FALSE] ELSE s[h]
<1>2. t = [h \in 1 .. Len(s) |-> Marked(h)]
  BY <1>0, <1>1
<1>3. \A h \in 1 .. Len(s) : /\ Marked(h) \in Items
                            /\ Marked(h).node = s[h].node /\ Marked(h).live = s[h].live
                            /\ Marked(h).listed = IF h = i THEN FALSE ELSE s[h].listed
  BY <1>1, ItemChanged
<1> HIDE DEF Marked
<1>4. t \in [1 .. Len(s) -> Items]
  BY <1>2, <1>3
<1>5. t \in Seq(Items) /\ Len(t) = Len(s)
  BY <1>1, <1>4, SequenceMade
<1>6. \A h \in 1 .. Len(s) : t[h] = Marked(h)
  BY <1>2
<1> QED
  BY <1>1, <1>3, <1>5, <1>6 DEF s, t, UnlistedAt

GoneAt(i) ==
    /\ items' \in Seq(Items) /\ Len(items') = Len(items) /\ Len(items) \in Nat
    /\ \A h \in 1 .. Len(items) :
          /\ items'[h].node = items[h].node /\ items'[h].listed = items[h].listed
          /\ items'[h].live = IF h = i THEN FALSE ELSE items[h].live

LEMMA ItemGone ==
    ASSUME items \in Seq(Items), NEW i, items' = [items EXCEPT ![i].live = FALSE]
    PROVE  GoneAt(i)
<1> DEFINE s == items
           t == items'
<1>0. s \in Seq(Items) /\ t = [s EXCEPT ![i].live = FALSE]
  OBVIOUS
<1> HIDE DEF s, t
<1>1. Len(s) \in Nat /\ s = [h \in 1 .. Len(s) |-> s[h]]
      /\ \A h \in 1 .. Len(s) : s[h] \in Items
  BY <1>0
<1> DEFINE Marked(h) == IF h = i THEN [s[h] EXCEPT !.live = FALSE] ELSE s[h]
<1>2. t = [h \in 1 .. Len(s) |-> Marked(h)]
  BY <1>0, <1>1
<1>3. \A h \in 1 .. Len(s) : /\ Marked(h) \in Items
                            /\ Marked(h).node = s[h].node /\ Marked(h).listed = s[h].listed
                            /\ Marked(h).live = IF h = i THEN FALSE ELSE s[h].live
  BY <1>1, ItemChanged
<1> HIDE DEF Marked
<1>4. t \in [1 .. Len(s) -> Items]
  BY <1>2, <1>3
<1>5. t \in Seq(Items) /\ Len(t) = Len(s)
  BY <1>1, <1>4, SequenceMade
<1>6. \A h \in 1 .. Len(s) : t[h] = Marked(h)
  BY <1>2
<1> QED
  BY <1>1, <1>3, <1>5, <1>6 DEF s, t, GoneAt

LEMMA ServerTypesKept ==
    ASSUME ServerTypes, UNCHANGED serverVars
    PROVE  ServerTypes'
BY DEF ServerTypes, serverVars, Elements

(* What is under way still is about items.                                 *)
LEMMA ElementsGrow ==
    ASSUME ServerTypes, Len(items') \in Nat, Len(items') >= Len(items)
    PROVE  /\ Elements \subseteq Elements'
           /\ packets \in Seq(Seq(Elements'))
<1>1. Len(items) \in Nat
  BY DEF ServerTypes
<1>2. Elements \subseteq Elements'
  BY <1>1 DEF Elements
<1> DEFINE E == Elements
           F == Elements'
<1>3. E \subseteq F /\ packets \in Seq(Seq(E))
  BY <1>2 DEF ServerTypes
<1> HIDE DEF E, F
<1>4. Seq(E) \subseteq Seq(F)
  BY <1>3, SequenceIn
<1>5. packets \in Seq(Seq(F))
  BY <1>3, <1>4, SequenceIn
<1> QED
  BY <1>2, <1>5 DEF F

(* A notification has each item that changed once, with its node's value.  *)
Reports == {<<h, value[items[h].node]>> : h \in changed}

LEMMA NotificationMade ==
    ASSUME ServerTypes
    PROVE  LET s == SetToSeq(Reports)
           IN  /\ s \in Seq(Elements)
               /\ \A i \in 1 .. Len(s) : \E h \in changed : s[i] = <<h, value[items[h].node]>>
               /\ \A h \in changed : \E i \in 1 .. Len(s) : s[i] = <<h, value[items[h].node]>>
<1> DEFINE S == Reports
           f == [h \in changed |-> <<h, value[items[h].node]>>]
           n == Cardinality(S)
           s == SetToSeq(S)
<1>1. IsFiniteSet(S) /\ n \in Nat /\ ExistsBijection(1 .. n, S)
  <2>1. f \in Surjection(changed, S)
    BY DEF Surjection, Reports
  <2>2. IsFiniteSet(changed)
    <3>1. Len(items) \in Nat /\ changed \subseteq 1 .. Len(items)
      BY DEF ServerTypes
    <3>2. IsFiniteSet(1 .. Len(items))
      BY <3>1, FS_Interval
    <3> QED
      BY <3>1, <3>2, FS_Subset
  <2>3. IsFiniteSet(S)
    BY <2>1, <2>2, FS_Surjection
  <2> QED
    BY <2>3, FS_CardinalityType
<1>2. S \subseteq Elements
  <2>1. ASSUME NEW h \in changed PROVE <<h, value[items[h].node]>> \in Elements
    <3>1. h \in 1 .. Len(items) /\ items[h] \in Items
      BY DEF ServerTypes
    <3>2. value[items[h].node] \in Values \cup {NoValue}
      BY <3>1 DEF ServerTypes, Items
    <3> QED
      BY <3>1, <3>2 DEF Elements
  <2> QED
    BY <2>1 DEF Reports
<1>3. \A x : x \in S <=> \E h \in changed : x = <<h, value[items[h].node]>>
  BY DEF Reports
<1> HIDE DEF S, n
<1>4. s \in [1 .. n -> S] /\ \A i, j \in 1 .. n : s[i] = s[j] => i = j
  <2>1. \E g \in [1 .. n -> S] : \A i, j \in DOMAIN g : g[i] = g[j] => i = j
    <3>1. PICK g : g \in Bijection(1 .. n, S)
      BY <1>1 DEF ExistsBijection
    <3> QED
      BY <3>1 DEF Bijection, Injection, IsInjective
  <2>2. s = CHOOSE g \in [1 .. n -> S] : \A i, j \in DOMAIN g : g[i] = g[j] => i = j
    BY DEF SetToSeq, IsInjective, n
  <2> HIDE DEF s
  <2> QED
    BY <2>1, <2>2
<1> HIDE DEF s
<1>5. Len(s) = n /\ s \in Seq(Elements)
  BY <1>1, <1>2, <1>4
<1>6. \A x \in S : \E i \in 1 .. n : s[i] = x
  <2>1. s \in Injection(1 .. n, S)
    BY <1>4 DEF Injection, IsInjective
  <2>2. IsFiniteSet(1 .. n) /\ Cardinality(1 .. n) = n
    BY <1>1, FS_Interval
  <2>3. s \in Surjection(1 .. n, S)
    BY <1>1, <2>1, <2>2, FS_Injection DEF n
  <2> QED
    BY <2>3 DEF Surjection
<1> QED
  BY <1>3, <1>4, <1>5, <1>6 DEF s, S

LEMMA AtPlaces ==
    ASSUME TypeInv
    PROVE  /\ pc \in {"class", "value", "add", "added", "preload", "remove", "removed", "write",
                      "written", "convert"}
                => op.node \in Nodes
           /\ pc \in {"arguments", "input", "call", "called", "output"} => op.node \in Methods
<1>1. Serves(op.kind, pc) /\ OpTypes
  BY DEF TypeInv, OperationInv, OperationOK, JavaTypes
<1> QED
  BY <1>1 DEF Serves, OpTypes

(* What a step may do to the items.                                        *)
LEMMA ItemsStep ==
    ASSUME TypeInv, Next
    PROVE  \/ items' = items
           \/ AddItem
           \/ RemoveItem
           \/ (ItemRemoved \/ (ServiceFails /\ pc = "added"))
              /\ \E i : items' = [items EXCEPT ![i].listed = FALSE]
<1>1. ASSUME JavaStep, ~AddItem, ~RemoveItem PROVE ItemRemoved \/ ServiceFails \/ items' = items
  BY <1>1, ZenonT(30)
  DEF JavaStep, ReadClass, ReadValue, JavaConversionFails, Converted, Write, Written,
      WriteRefused, ItemAdded, Preloaded, NothingToRemove, GetArguments, InputConverted, Call,
      Called, OutputConverted, Browse, BrowseEnds, LookUp, Fetched, serverVars
<1> DEFINE unlists == \E i : items' = [items EXCEPT ![i].listed = FALSE]
<1>2. ASSUME ItemRemoved \/ (ServiceFails /\ pc = "added") PROVE unlists
  BY <1>2, Zenon DEF ItemRemoved, ServiceFails
<1>3. ServiceFails /\ pc # "added" => items' = items
  BY DEF ServiceFails
<1>4. ASSUME \/ Operations \/ BrowseNext \/ SdkStep \/ Publish
             \/ \E m \in Nodes, v \in Values \cup {NoValue} : Change(m, v)
      PROVE  items' = items
  BY <1>4 DEF Operations, Begin, BrowseNext, SdkStep, DataChange, NotificationReceived,
              SdkConversionFails, DataChangeEnds, LookUp, Fetched, Publish, Change, serverVars
<1> HIDE DEF unlists
<1>5. \/ items' = items \/ AddItem \/ RemoveItem
      \/ (ItemRemoved \/ (ServiceFails /\ pc = "added")) /\ unlists
  <2>1. CASE JavaStep
    <3>1. \/ items' = items \/ AddItem \/ RemoveItem
          \/ ItemRemoved \/ (ServiceFails /\ pc = "added")
      BY <1>1, <1>3, <2>1
    <3> QED
      BY <1>2, <3>1
  <2>2. CASE ~JavaStep
    BY <1>4, <2>2, Zenon DEF Next
  <2> QED
    BY <2>1, <2>2
<1> QED
  BY <1>5, Zenon DEF unlists

(* No handle is lost or gets another node; what leaves the list or the     *)
(* server does not come back.                                              *)
ItemsKept ==
    /\ items' \in Seq(Items) /\ Len(items') \in Nat /\ Len(items') <= MaxItems
    /\ Len(items) \in Nat /\ Len(items') >= Len(items)
    /\ \A h \in 1 .. Len(items) : /\ items'[h].node = items[h].node
                                  /\ items'[h].listed => items[h].listed
                                  /\ items'[h].live => items[h].live

LEMMA ItemsAreKept ==
    ASSUME TypeInv, Next
    PROVE  /\ ItemsKept
           /\ ~RemoveItem => \A h \in 1 .. Len(items) : items'[h].live = items[h].live
<1>t. items \in Seq(Items) /\ Len(items) \in Nat /\ Len(items) <= MaxItems
      /\ \A h \in 1 .. Len(items) : items[h] \in Items
  BY DEF TypeInv, ServerTypes
<1>1. CASE items' = items
  BY <1>t, <1>1 DEF ItemsKept
<1>2. CASE AddItem
  <2> DEFINE x == [node |-> op.node, listed |-> TRUE, live |-> TRUE]
  <2>1. pc = "add" /\ Len(items) < MaxItems /\ items' = Append(items, x)
    BY <1>2 DEF AddItem
  <2>2. x \in Items
    BY <2>1, AtPlaces DEF Items
  <2> HIDE DEF x
  <2>3. /\ items' \in Seq(Items) /\ Len(items') = Len(items) + 1
        /\ \A h \in 1 .. Len(items) : items'[h] = items[h]
    BY <1>t, <2>1, <2>2, ItemAppended
  <2> QED
    BY <1>t, <2>1, <2>3 DEF ItemsKept
<1>3. CASE RemoveItem
  <2>1. items' = [items EXCEPT ![Picked].live = FALSE]
    BY <1>3 DEF RemoveItem
  <2> DEFINE i == Picked
  <2>2. items' = [items EXCEPT ![i].live = FALSE]
    BY <2>1
  <2> HIDE DEF i
  <2>3. GoneAt(i)
    BY <1>t, <2>2, ItemGone
  <2>4. \A h \in 1 .. Len(items) : /\ items'[h].node = items[h].node
                                   /\ items'[h].listed => items[h].listed
                                   /\ items'[h].live => items[h].live
    BY <2>3 DEF GoneAt
  <2> QED
    BY <1>t, <1>3, <2>3, <2>4 DEF ItemsKept, GoneAt
<1>4. ASSUME NEW i, items' = [items EXCEPT ![i].listed = FALSE]
      PROVE  ItemsKept /\ \A h \in 1 .. Len(items) : items'[h].live = items[h].live
  <2>1. UnlistedAt(i)
    BY <1>t, <1>4, ItemUnlisted
  <2>2. \A h \in 1 .. Len(items) : /\ items'[h].node = items[h].node
                                   /\ items'[h].listed => items[h].listed
                                   /\ items'[h].live = items[h].live
    BY <2>1 DEF UnlistedAt
  <2> QED
    BY <1>t, <2>1, <2>2 DEF ItemsKept, UnlistedAt
<1> QED
  BY <1>1, <1>2, <1>3, <1>4, ItemsStep

(* Items of a node at the server are items of the server.                  *)
LEMMA LiveItems ==
    \A m : Live(m) \subseteq {h \in 1 .. Len(items) : items[h].live}
BY DEF Live

LEMMA ServerStepTypes ==
    ASSUME TypeInv, Next
    PROVE  ServerTypes'
<1>t. ServerTypes
  BY DEF TypeInv
<1>i. ItemsKept /\ (~RemoveItem => \A h \in 1 .. Len(items) : items'[h].live = items[h].live)
  BY ItemsAreKept
<1>e. Elements \subseteq Elements' /\ packets \in Seq(Seq(Elements'))
  BY <1>t, <1>i, ElementsGrow DEF ItemsKept
<1>p. packets \in Seq(Seq(Elements)) /\ Len(packets) \in Nat
  BY <1>t DEF ServerTypes
<1>v. value' \in [Nodes -> Values \cup {NoValue}]
  <2>1. CASE Write
    <3>1. value' = [value EXCEPT ![op.node] = op.value]
      BY <2>1 DEF Write
    <3>2. op.value \in Values \cup {NoValue}
      BY DEF TypeInv, JavaTypes, OpTypes
    <3> QED
      BY <1>t, <3>1, <3>2 DEF ServerTypes
  <2>2. CASE \E m \in Nodes, v \in Values \cup {NoValue} : Change(m, v)
    BY <1>t, <2>2 DEF Change, ServerTypes
  <2>3. ASSUME JavaStep, ~Write PROVE value' = value
    BY <2>3, ZenonT(30)
    DEF JavaStep, ServiceFails, ReadClass, ReadValue, JavaConversionFails, Converted, Written,
        WriteRefused, AddItem, ItemAdded, Preloaded, NothingToRemove, RemoveItem, ItemRemoved,
        GetArguments, InputConverted, Call, Called, OutputConverted, Browse, BrowseEnds, LookUp,
        Fetched, serverVars
  <2>4. ASSUME Operations \/ BrowseNext \/ SdkStep \/ Publish PROVE value' = value
    BY <2>4 DEF Operations, Begin, BrowseNext, SdkStep, DataChange, NotificationReceived,
                SdkConversionFails, DataChangeEnds, LookUp, Fetched, Publish, serverVars
  <2> QED
    BY <1>t, <2>1, <2>2, <2>3, <2>4 DEF Next, ServerTypes
<1> DEFINE AtServer == {h \in 1 .. Len(items') : items'[h].live}
<1>l. ~RemoveItem => {h \in 1 .. Len(items) : items[h].live} \subseteq AtServer
  BY <1>i DEF ItemsKept
<1>c. changed' \subseteq AtServer
  <2>1. CASE AddItem
    <3> DEFINE x == [node |-> op.node, listed |-> TRUE, live |-> TRUE]
    <3>1. items' = Append(items, x) /\ changed' = changed \cup {Len(items) + 1} /\ pc = "add"
      BY <2>1 DEF AddItem
    <3>2. x \in Items /\ items \in Seq(Items)
      BY <1>t, <3>1, AtPlaces DEF Items, ServerTypes
    <3>3. Len(items') = Len(items) + 1 /\ Len(items) \in Nat /\ items'[Len(items) + 1] = x
      <4> HIDE DEF x
      <4> QED
        BY <3>1, <3>2, ItemAppended
    <3>4. Len(items) + 1 \in AtServer
      BY <3>3
    <3>5. ~RemoveItem
      BY <3>1 DEF RemoveItem
    <3> HIDE DEF AtServer
    <3> QED
      BY <1>t, <1>l, <3>1, <3>4, <3>5 DEF ServerTypes
  <2>2. CASE RemoveItem
    <3> DEFINE i == Picked
    <3>1. items' = [items EXCEPT ![i].live = FALSE] /\ changed' = changed \ {i}
      BY <2>2 DEF RemoveItem
    <3> HIDE DEF i
    <3>2. GoneAt(i)
      BY <1>t, <3>1, ItemGone DEF ServerTypes
    <3> QED
      BY <1>t, <3>1, <3>2 DEF ServerTypes, GoneAt
  <2>3. CASE ~AddItem /\ ~RemoveItem
    <3>1. changed' \subseteq {h \in 1 .. Len(items) : items[h].live}
      <4>1. CASE Write
        BY <1>t, <4>1, LiveItems DEF Write, ServerTypes
      <4>2. CASE \E m \in Nodes, v \in Values \cup {NoValue} : Change(m, v)
        BY <1>t, <4>2, LiveItems DEF Change, ServerTypes
      <4>3. CASE Publish
        BY <4>3 DEF Publish
      <4>4. ASSUME JavaStep, ~Write PROVE changed' = changed
        BY <2>3, <4>4, ZenonT(30)
        DEF JavaStep, ServiceFails, ReadClass, ReadValue, JavaConversionFails, Converted, Written,
            WriteRefused, ItemAdded, Preloaded, NothingToRemove, ItemRemoved, GetArguments,
            InputConverted, Call, Called, OutputConverted, Browse, BrowseEnds, LookUp, Fetched,
            serverVars
      <4>5. ASSUME Operations \/ BrowseNext \/ SdkStep PROVE changed' = changed
        BY <4>5 DEF Operations, Begin, BrowseNext, SdkStep, DataChange, NotificationReceived,
                    SdkConversionFails, DataChangeEnds, LookUp, Fetched, serverVars
      <4> QED
        BY <1>t, <4>1, <4>2, <4>3, <4>4, <4>5 DEF Next, ServerTypes
    <3> HIDE DEF AtServer
    <3> QED
      BY <1>l, <2>3, <3>1
  <2> QED
    BY <2>1, <2>2, <2>3
<1>k. packets' \in Seq(Seq(Elements')) /\ Len(packets') <= MaxPackets
  <2>1. CASE Publish
    <3> DEFINE s == SetToSeq(Reports)
    <3>1. Len(packets) < MaxPackets /\ packets' = Append(packets, s)
      BY <2>1 DEF Publish, Reports
    <3>2. s \in Seq(Elements)
      BY <1>t, NotificationMade
    <3> HIDE DEF s
    <3>3. s \in Seq(Elements')
      <4> DEFINE E == Elements
                 F == Elements'
      <4>1. E \subseteq F /\ s \in Seq(E)
        BY <1>e, <3>2
      <4> HIDE DEF E, F
      <4>2. s \in Seq(F)
        BY <4>1, SequenceIn
      <4> QED
        BY <4>2 DEF F
    <3> QED
      BY <1>e, <1>p, <3>1, <3>3
  <2>2. CASE DataChange
    <3>1. /\ packets # <<>> /\ Head(packets) # <<>>
          /\ packets' = [packets EXCEPT ![1] = Tail(@)]
      BY <2>2 DEF DataChange
    <3>2. 1 \in 1 .. Len(packets) /\ packets[1] = Head(packets)
      BY <1>p, <3>1
    <3>3. packets[1] \in Seq(Elements')
      BY <1>e, <3>2
    <3> DEFINE F == Elements'
    <3>4. packets \in Seq(Seq(F)) /\ packets[1] \in Seq(F)
      BY <1>e, <3>3
    <3> HIDE DEF F
    <3>5. Tail(packets[1]) \in Seq(F)
      BY <3>1, <3>2, <3>4, HeadAndTail
    <3>o. Len(packets) \in Nat /\ packets = [k \in 1 .. Len(packets) |-> packets[k]]
      BY <3>4
    <3>6. packets' = [k \in 1 .. Len(packets) |-> IF k = 1 THEN Tail(packets[1]) ELSE packets[k]]
      BY <3>1, <3>o
    <3>7. packets' \in [1 .. Len(packets) -> Seq(F)]
      BY <3>4, <3>5, <3>6
    <3>8. packets' \in Seq(Seq(F)) /\ Len(packets') = Len(packets)
      BY <1>p, <3>7, SequenceMade
    <3> QED
      BY <1>t, <3>8 DEF F, ServerTypes
  <2>3. CASE DataChangeEnds
    <3>1. packets # <<>> /\ packets' = Tail(packets)
      BY <2>3 DEF DataChangeEnds
    <3> DEFINE F == Elements'
    <3>2. packets \in Seq(Seq(F))
      BY <1>e
    <3> HIDE DEF F
    <3>3. Tail(packets) \in Seq(Seq(F)) /\ Len(Tail(packets)) = Len(packets) - 1
      BY <3>1, <3>2, HeadAndTail
    <3> QED
      BY <1>t, <1>p, <3>1, <3>3 DEF F, ServerTypes
  <2>4. CASE packets' = packets
    BY <1>t, <1>e, <2>4 DEF ServerTypes
  <2>5. ASSUME JavaStep PROVE packets' = packets
    BY <2>5, ZenonT(30)
    DEF JavaStep, ServiceFails, ReadClass, ReadValue, JavaConversionFails, Converted, Write,
        Written, WriteRefused, AddItem, ItemAdded, Preloaded, NothingToRemove, RemoveItem,
        ItemRemoved, GetArguments, InputConverted, Call, Called, OutputConverted, Browse,
        BrowseEnds, LookUp, Fetched, serverVars
  <2>6. ASSUME \/ Operations \/ BrowseNext
               \/ SdkStep /\ ~DataChange /\ ~DataChangeEnds
               \/ \E m \in Nodes, v \in Values \cup {NoValue} : Change(m, v)
        PROVE  packets' = packets
    BY <2>6 DEF Operations, Begin, BrowseNext, SdkStep, NotificationReceived,
                SdkConversionFails, LookUp, Fetched, Change, serverVars
  <2> QED
    BY <2>1, <2>2, <2>3, <2>4, <2>5, <2>6 DEF Next
<1> QED
  BY <1>i, <1>v, <1>c, <1>k DEF ServerTypes, ItemsKept
-----------------------------------------------------------------------------
(* The Java thread.                                                        *)

LEMMA Answered ==
    ASSUME NEW status \in {"success", "failed"}, Answer(status), todo'["java"] = <<>>
    PROVE  JavaTypes'
<1>1. /\ op'.kind = "none" /\ op'.value = NoValue /\ op'.status = status /\ op'.page = 0
      /\ pc' = "idle"
  BY DEF Answer, NoOperation
<1> QED
  BY <1>1 DEF JavaTypes, OpTypes

LEMMA Moved ==
    ASSUME JavaTypes, pc # "idle",
           pc' \in {"class", "value", "convert", "write", "written", "add", "added", "preload",
                    "remove", "removed", "arguments", "input", "call", "called", "output",
                    "browse", "browseNext"},
           op'.kind = op.kind, op'.node = op.node, op'.value \in Values \cup {NoValue},
           op'.status = op.status, op'.page \in 0 .. Pages,
           todo'["java"] # <<>> => pc' \in Converting
    PROVE  JavaTypes'
BY DEF JavaTypes, OpTypes

LEMMA OpRecord ==
    ASSUME TypeInv
    PROVE  op = [kind |-> op.kind, node |-> op.node, value |-> op.value, seen |-> op.seen,
                 effect |-> op.effect, page |-> op.page, status |-> op.status]
BY DEF TypeInv, OperationInv, OperationOK

LEMMA BeginTypes ==
    ASSUME TypeInv, Operations
    PROVE  JavaTypes'
<1> DEFINE Started(kind, m, v) ==
             /\ kind \in {"read", "write", "subscribe", "unsubscribe", "exec", "browse"}
             /\ kind \in {"read", "write", "subscribe", "unsubscribe"} => m \in Nodes
             /\ kind = "exec" => m \in Methods
             /\ v \in Values \cup {NoValue}
             /\ Begin(kind, m, v)
<1>1. PICK kind, m, v : Started(kind, m, v)
  <2>1. CASE \E m \in Nodes : \E kind \in Kinds \cap {"read", "subscribe", "unsubscribe"} :
                Begin(kind, m, NoValue)
    <3>1. PICK m \in Nodes, kind \in Kinds \cap {"read", "subscribe", "unsubscribe"} :
             Begin(kind, m, NoValue)
      BY <2>1, Zenon
    <3>2. Started(kind, m, NoValue)
      BY <3>1
    <3> HIDE DEF Started
    <3> QED
      BY <3>2, Zenon
  <2>2. CASE \E m \in Nodes : \E v \in Values : Begin("write", m, v)
    <3>1. PICK m \in Nodes, v \in Values : Begin("write", m, v)
      BY <2>2, Zenon
    <3>2. Started("write", m, v)
      BY <3>1
    <3> HIDE DEF Started
    <3> QED
      BY <3>2, Zenon
  <2>3. CASE \E m \in Methods : Begin("exec", m, NoValue)
    <3>1. PICK m \in Methods : Begin("exec", m, NoValue)
      BY <2>3, Zenon
    <3>2. Started("exec", m, NoValue)
      BY <3>1
    <3> HIDE DEF Started
    <3> QED
      BY <3>2, Zenon
  <2>4. CASE Begin("browse", "root", NoValue)
    <3>1. Started("browse", "root", NoValue)
      BY <2>4
    <3> HIDE DEF Started
    <3> QED
      BY <3>1, Zenon
  <2> QED
    BY <2>1, <2>2, <2>3, <2>4, Zenon DEF Operations
<1>2. pc = "idle" /\ pc' = FirstStep[kind] /\ todo' = todo
  BY <1>1 DEF Begin, typeVars
<1>3. op' = [kind |-> kind, node |-> m, value |-> v, effect |-> 0, page |-> 0,
             seen |-> IF kind = "read" THEN {value[m]} ELSE {}, status |-> "open"]
  BY <1>1 DEF Begin
<1>4. /\ op'.kind = kind /\ op'.node = m /\ op'.value = v /\ op'.page = 0
      /\ op'.status = "open"
  BY <1>3
<1>5. pc' \in {"class", "remove", "arguments", "browse"}
  BY <1>1, <1>2 DEF FirstStep
<1>6. todo'["java"] = <<>>
  BY <1>2 DEF TypeInv, JavaTypes, Converting
<1> QED
  BY <1>1, <1>4, <1>5, <1>6 DEF JavaTypes, OpTypes

LEMMA JavaStepTypes ==
    ASSUME TypeInv, JavaStep
    PROVE  JavaTypes'
<1>t. JavaTypes /\ todo \in [Threads -> Seq(Infos)] /\ "java" \in Threads
  BY DEF TypeInv, TodoTypes, Threads
<1>v. op.value \in Values \cup {NoValue} /\ op.page \in 0 .. Pages
  BY <1>t DEF JavaTypes, OpTypes
<1>1. CASE \/ ServiceFails \/ Written \/ WriteRefused \/ NothingToRemove \/ ItemRemoved
           \/ BrowseEnds
  <2>1. pc \notin Converting /\ todo' = todo /\ \E status \in {"success", "failed"} : Answer(status)
    BY <1>1 DEF ServiceFails, Written, WriteRefused, NothingToRemove, ItemRemoved, BrowseEnds,
                typeVars, Converting
  <2> QED
    BY <1>t, <2>1, Answered DEF JavaTypes
<1>2. CASE ReadClass \/ InputConverted
  <2>1. /\ \/ pc = "class" /\ pc' = "value"
           \/ pc = "input" /\ todo["java"] = <<>> /\ pc' = "call"
        /\ op' = op /\ todo' = todo
    BY <1>2 DEF ReadClass, InputConverted, typeVars
  <2>2. todo["java"] = <<>>
    BY <1>t, <2>1 DEF JavaTypes, Converting
  <2> QED
    BY <1>t, <1>v, <2>1, <2>2, Moved
<1>3. CASE ReadValue
  <2>0. pc = "value" /\ todo["java"] = <<>>
    BY <1>t, <1>3 DEF ReadValue, JavaTypes, Converting
  <2>1. CASE value[op.node] = NoValue
    BY <1>3, <2>0, <2>1, Answered DEF ReadValue
  <2>2. CASE value[op.node] # NoValue
    <3>1. /\ op' = [op EXCEPT !.value = IF op.kind = "read" THEN value[op.node] ELSE @]
          /\ \/ pc' = "add" /\ todo' = todo
             \/ pc' = "convert"
      BY <1>3, <2>2 DEF ReadValue
    <3>2. /\ op' = [kind |-> op.kind, node |-> op.node,
                    value |-> IF op.kind = "read" THEN value[op.node] ELSE op.value,
                    seen |-> op.seen, effect |-> op.effect, page |-> op.page,
                    status |-> op.status]
      BY <3>1, OpRecord
    <3>3. /\ op'.kind = op.kind /\ op'.node = op.node /\ op'.status = op.status
          /\ op'.page = op.page
          /\ op'.value = IF op.kind = "read" THEN value[op.node] ELSE op.value
      BY <3>2
    <3>4. op'.value \in Values \cup {NoValue}
      <4>1. op.node \in Nodes /\ value \in [Nodes -> Values \cup {NoValue}]
        BY <2>0, AtPlaces DEF TypeInv, ServerTypes
      <4> QED
        BY <1>v, <3>3, <4>1
    <3> QED
      BY <1>t, <1>v, <2>0, <3>1, <3>3, <3>4, Moved DEF Converting
  <2> QED
    BY <2>1, <2>2
<1>4. CASE JavaConversionFails
  <2>1. todo' = [todo EXCEPT !["java"] = <<>>] /\ Answer("failed")
    BY <1>4 DEF JavaConversionFails, ConversionFails
  <2>2. todo'["java"] = <<>>
    BY <1>t, <2>1
  <2> QED
    BY <2>1, <2>2, Answered
<1>5. CASE Converted
  <2>1. pc = "convert" /\ todo["java"] = <<>> /\ todo' = todo
    BY <1>5 DEF Converted, typeVars
  <2>2. \/ Answer("success")
        \/ pc' = "write" /\ op' = op
    BY <1>5 DEF Converted
  <2> QED
    BY <1>t, <1>v, <2>1, <2>2, Answered, Moved
<1>6. CASE Write \/ Call \/ AddItem \/ RemoveItem
  <2>1. /\ \/ pc = "write" /\ pc' = "written"
           \/ pc = "call" /\ pc' = "called"
           \/ pc = "add" /\ pc' = "added"
           \/ pc = "remove" /\ pc' = "removed"
        /\ op' = [op EXCEPT !.effect = @ + 1] /\ todo' = todo
    BY <1>6 DEF Write, Call, AddItem, RemoveItem, typeVars
  <2>2. op' = [kind |-> op.kind, node |-> op.node, value |-> op.value, seen |-> op.seen,
               effect |-> op.effect + 1, page |-> op.page, status |-> op.status]
    BY <2>1, OpRecord
  <2>3. /\ op'.kind = op.kind /\ op'.node = op.node /\ op'.status = op.status
        /\ op'.page = op.page /\ op'.value = op.value
    BY <2>2
  <2>4. todo["java"] = <<>>
    BY <1>t, <2>1 DEF JavaTypes, Converting
  <2> QED
    BY <1>t, <1>v, <2>1, <2>3, <2>4, Moved
<1>7. CASE Preloaded \/ OutputConverted
  <2>1. todo["java"] = <<>> /\ todo' = todo /\ Answer("success")
    BY <1>7 DEF Preloaded, OutputConverted, typeVars
  <2> QED
    BY <2>1, Answered
<1>8. CASE ItemAdded \/ GetArguments \/ Called
  <2>1. /\ pc # "idle" /\ pc' \in {"preload", "input", "output"} /\ op' = op
    BY <1>8 DEF ItemAdded, GetArguments, Called
  <2> QED
    BY <1>t, <1>v, <2>1, Moved DEF Converting
<1>9. CASE Browse
  <2>0. pc = "browse" /\ todo' = todo /\ todo["java"] = <<>>
    BY <1>t, <1>9 DEF Browse, JavaTypes, Converting, typeVars
  <2>1. CASE Answer("success")
    BY <2>0, <2>1, Answered
  <2>2. CASE op' = [op EXCEPT !.page = 1] /\ pc' = "browseNext"
    <3>1. op' = [kind |-> op.kind, node |-> op.node, value |-> op.value, seen |-> op.seen,
                 effect |-> op.effect, page |-> 1, status |-> op.status]
      BY <2>2, OpRecord
    <3>2. /\ op'.kind = op.kind /\ op'.node = op.node /\ op'.status = op.status
          /\ op'.page = 1 /\ op'.value = op.value
      BY <3>1
    <3>3. 1 \in 0 .. Pages
      OBVIOUS
    <3> QED
      BY <1>t, <1>v, <2>0, <2>2, <3>2, <3>3, Moved
  <2> QED
    BY <1>9, <2>1, <2>2 DEF Browse
<1>10. CASE LookUp("java") \/ Fetched("java")
  <2>1. todo["java"] # <<>> /\ pc' = pc /\ op' = op
    BY <1>10 DEF LookUp, Fetched, TypeInv, TodoTypes, Threads
  <2>2. pc \in Converting
    BY <1>t, <2>1 DEF JavaTypes
  <2> QED
    BY <1>t, <1>v, <2>1, <2>2, Moved DEF Converting
<1> QED
  BY <1>1, <1>2, <1>3, <1>4, <1>5, <1>6, <1>7, <1>8, <1>9, <1>10 DEF JavaStep

LEMMA BrowseNextTypes ==
    ASSUME TypeInv, BrowseNext
    PROVE  JavaTypes'
<1>t. JavaTypes
  BY DEF TypeInv
<1>0. /\ pc = "browseNext" /\ pc' = pc /\ todo' = todo /\ op.page < Pages
      /\ op' = [op EXCEPT !.page = @ + 1]
  BY DEF BrowseNext, typeVars
<1>1. op' = [kind |-> op.kind, node |-> op.node, value |-> op.value, seen |-> op.seen,
             effect |-> op.effect, page |-> op.page + 1, status |-> op.status]
  BY <1>0, OpRecord
<1>2. /\ op'.kind = op.kind /\ op'.node = op.node /\ op'.status = op.status
      /\ op'.page = op.page + 1 /\ op'.value = op.value
  BY <1>1
<1>3. op.page + 1 \in 0 .. Pages /\ todo["java"] = <<>> /\ op.value \in Values \cup {NoValue}
  BY <1>t, <1>0 DEF JavaTypes, OpTypes, Converting
<1> QED
  BY <1>t, <1>0, <1>2, <1>3, Moved

(* The SDK's thread and the server leave what the Java thread has to know  *)
(* alone.                                                                  *)
LEMMA SdkTouchesOwn ==
    ASSUME TypeInv, \/ SdkStep \/ Publish
                    \/ \E m \in Nodes, v \in Values \cup {NoValue} : Change(m, v)
    PROVE  todo'["java"] = todo["java"] /\ pc' = pc
<1>1. CASE SdkStep
  <2>1. \E q : todo' = [todo EXCEPT !["sdk"] = q]
    <3>0. todo = [todo EXCEPT !["sdk"] = todo["sdk"]]
      BY DEF TypeInv, TodoTypes, Threads
    <3>1. CASE SdkConversionFails \/ Fetched("sdk") \/ LookUp("sdk")
      BY <3>0, <3>1 DEF SdkConversionFails, ConversionFails, Fetched, LookUp, Obtained
    <3>2. CASE NotificationReceived \/ DataChangeEnds
      BY <3>0, <3>2 DEF NotificationReceived, DataChangeEnds, typeVars
    <3>3. CASE DataChange
      <4>1. \/ todo' = todo
            \/ todo' = [todo EXCEPT !["sdk"] = Needs(TypeOf[items[Head(Head(packets))[1]].node])]
        BY <3>3 DEF DataChange
      <4> QED
        BY <3>0, <4>1, Zenon
    <3> QED
      BY <1>1, <3>1, <3>2, <3>3 DEF SdkStep
  <2>2. pc' = pc
    BY <1>1 DEF SdkStep, DataChange, NotificationReceived, SdkConversionFails, DataChangeEnds,
                LookUp, Fetched
  <2> QED
    BY <2>1, <2>2 DEF TypeInv, TodoTypes, Threads
<1>2. CASE Publish \/ \E m \in Nodes, v \in Values \cup {NoValue} : Change(m, v)
  BY <1>2 DEF Publish, Change, typeVars
<1> QED
  BY <1>1, <1>2

(* The other steps leave the operation alone, but for what a read sees.    *)
LEMMA OtherJavaTypes ==
    ASSUME TypeInv, \/ SdkStep \/ Publish
                    \/ \E m \in Nodes, v \in Values \cup {NoValue} : Change(m, v)
    PROVE  JavaTypes'
<1>1. todo'["java"] = todo["java"] /\ pc' = pc
  BY SdkTouchesOwn
<1>2. /\ op'.kind = op.kind /\ op'.node = op.node /\ op'.status = op.status
      /\ op'.page = op.page /\ op'.value = op.value
  <2>1. CASE SdkStep \/ Publish
    BY <2>1 DEF SdkStep, Publish, DataChange, NotificationReceived, SdkConversionFails,
                DataChangeEnds, LookUp, Fetched
  <2>2. CASE \E m \in Nodes, v \in Values \cup {NoValue} : Change(m, v)
    <3>1. PICK m \in Nodes, v \in Values \cup {NoValue} : Change(m, v)
      BY <2>2
    <3>2. op' = [kind |-> op.kind, node |-> op.node, value |-> op.value,
                 seen |-> IF op.kind = "read" /\ op.node = m THEN op.seen \cup {v} ELSE op.seen,
                 effect |-> op.effect, page |-> op.page, status |-> op.status]
      BY <3>1, OpRecord DEF Change
    <3> QED
      BY <3>2
  <2> QED
    BY <2>1, <2>2
<1> QED
  BY <1>1, <1>2 DEF TypeInv, JavaTypes, OpTypes

-----------------------------------------------------------------------------
(* What the threads have to know.                                          *)

LEMMA TodoSet ==
    ASSUME TodoTypes, NEW th \in Threads, NEW q \in Seq(Infos), NEW b \in BOOLEAN,
           todo' = [todo EXCEPT ![th] = q], fetching' = [fetching EXCEPT ![th] = b],
           b => q # <<>>, cache' \subseteq Infos
    PROVE  TodoTypes'
BY DEF TodoTypes

LEMMA TodoKept ==
    ASSUME TodoTypes, UNCHANGED typeVars
    PROVE  TodoTypes'
BY DEF TodoTypes, typeVars

(* Once a thread knows what it asked for, it has to know what comes next.  *)
LEMMA ObtainedTyped ==
    ASSUME TodoTypes, NEW th \in Threads, todo[th] # <<>>, Obtained(th)
    PROVE  \E q \in Seq(Infos) :
              /\ todo' = [todo EXCEPT ![th] = q]
              /\ ToSet(q) = AsksFor(Head(todo[th])) \cup ToSet(Tail(todo[th]))
<1> DEFINE s == todo[th]
           h == Head(s)
           q == GoesOn(h) \o Tail(s)
<1>1. todo' = [todo EXCEPT ![th] = q]
  BY DEF Obtained
<1>2. s \in Seq(Infos) /\ s # <<>>
  BY DEF TodoTypes
<1> HIDE DEF s
<1>3. h \in Infos /\ Tail(s) \in Seq(Infos)
  BY <1>2, HeadAndTail
<1> HIDE DEF h
<1>4. GoesOn(h) \in Seq(Infos) /\ ToSet(GoesOn(h)) = AsksFor(h)
  BY <1>3, GoesOnTyped
<1>5. q \in Seq(Infos) /\ ToSet(q) = ToSet(GoesOn(h)) \cup ToSet(Tail(s))
  <2> DEFINE first == GoesOn(h)
             then == Tail(s)
  <2>1. first \in Seq(Infos) /\ then \in Seq(Infos)
    BY <1>3, <1>4
  <2> HIDE DEF first, then
  <2>2. first \o then \in Seq(Infos) /\ ToSet(first \o then) = ToSet(first) \cup ToSet(then)
    BY <2>1, SetOfConcatenation
  <2> QED
    BY <2>2, Zenon DEF first, then
<1> HIDE DEF q
<1>6. ToSet(q) = AsksFor(h) \cup ToSet(Tail(s))
  BY <1>4, <1>5, Zenon
<1>7. ToSet(q) = AsksFor(Head(todo[th])) \cup ToSet(Tail(todo[th]))
  BY <1>6, Zenon DEF s, h
<1> QED
  BY <1>1, <1>5, <1>7, Zenon

LEMMA LookUpTyped ==
    ASSUME TodoTypes, NEW th \in Threads, LookUp(th) \/ Fetched(th)
    PROVE  TodoTypes'
<1>1. todo[th] # <<>> /\ todo[th] \in Seq(Infos) /\ Head(todo[th]) \in Infos
  <2>1. todo[th] # <<>> /\ todo[th] \in Seq(Infos)
    BY DEF LookUp, Fetched, TodoTypes
  <2> QED
    BY <2>1, HeadAndTail
<1>2. cache' \subseteq Infos
  BY <1>1 DEF LookUp, Fetched, TodoTypes
<1>3. \/ Obtained(th)
      \/ todo' = todo
  BY DEF LookUp, Fetched
<1>4. PICK q \in Seq(Infos) : /\ todo' = [todo EXCEPT ![th] = q]
                              /\ Obtained(th) \/ q = todo[th]
  <2>1. CASE Obtained(th)
    BY <1>1, <2>1, ObtainedTyped
  <2>2. CASE todo' = todo
    <3>1. todo' = [todo EXCEPT ![th] = todo[th]]
      BY <2>2 DEF TodoTypes
    <3> QED
      BY <1>1, <3>1
  <2> QED
    BY <1>3, <2>1, <2>2
<1>5. PICK b \in BOOLEAN : /\ fetching' = [fetching EXCEPT ![th] = b]
                           /\ b => todo' = todo
  <2>1. CASE Fetched(th)
    BY <2>1 DEF Fetched
  <2>2. CASE LookUp(th)
    <3>1. CASE fetching' = [fetching EXCEPT ![th] = TRUE] /\ todo' = todo
      BY <3>1
    <3>2. CASE fetching' = fetching /\ Obtained(th)
      <4>1. ~fetching[th]
        BY <2>2 DEF LookUp
      <4>2. fetching' = [fetching EXCEPT ![th] = FALSE]
        BY <3>2, <4>1 DEF TodoTypes
      <4> QED
        BY <4>2
    <3> QED
      BY <2>2, <3>1, <3>2, Zenon DEF LookUp
  <2> QED
    BY <2>1, <2>2
<1>6. b => q # <<>>
  BY <1>1, <1>4, <1>5 DEF TodoTypes
<1> QED
  BY <1>2, <1>4, <1>5, <1>6, TodoSet

LEMMA SdkIdle ==
    ASSUME TypeInv
    PROVE  sdk = NoElement => todo["sdk"] = <<>>
BY DEF TypeInv, SdkTypes

(* The first element of the first notification is about an item.           *)
LEMMA FirstElement ==
    ASSUME TypeInv, packets # <<>>, Head(packets) # <<>>
    PROVE  LET e == Head(Head(packets)) IN
           /\ e \in Elements /\ e[1] \in 1 .. Len(items) /\ e[2] \in Values \cup {NoValue}
           /\ items[e[1]].node \in Nodes /\ e # NoElement
<1>1. Head(packets) \in Seq(Elements)
  BY HeadAndTail DEF TypeInv, ServerTypes
<1> DEFINE e == Head(Head(packets))
<1>2. e \in Elements
  BY <1>1, HeadAndTail
<1> HIDE DEF e
<1>3. e[1] \in 1 .. Len(items) /\ e[2] \in Values \cup {NoValue}
  BY <1>2 DEF Elements
<1>4. items[e[1]] \in Items
  BY <1>3 DEF TypeInv, ServerTypes
<1>5. items[e[1]].node \in Nodes
  BY <1>4 DEF Items
<1>6. e # NoElement
  BY <1>3 DEF NoElement
<1> QED
  BY <1>2, <1>3, <1>5, <1>6 DEF e

LEMMA ThreadsTodo ==
    ASSUME TypeInv, Next
    PROVE  TodoTypes'
<1>t. TodoTypes /\ JavaTypes /\ SdkTypes
  BY DEF TypeInv
<1>1. ASSUME NEW th \in Threads, LookUp(th) \/ Fetched(th) PROVE TodoTypes'
  BY <1>t, <1>1, LookUpTyped
<1>2. CASE JavaConversionFails
  <2>1. /\ todo' = [todo EXCEPT !["java"] = <<>>] /\ fetching' = [fetching EXCEPT !["java"] = FALSE]
        /\ cache' = cache
    BY <1>2 DEF JavaConversionFails, ConversionFails
  <2>2. cache' \subseteq Infos /\ "java" \in Threads /\ <<>> \in Seq(Infos)
    BY <1>t, <2>1 DEF TodoTypes, Threads
  <2> QED
    BY <1>t, <2>1, <2>2, TodoSet
<1>3. ASSUME NEW type \in 0 .. TypeCount, todo' = [todo EXCEPT !["java"] = Needs(type)],
             UNCHANGED <<fetching, cache>>, pc \notin Converting
      PROVE  TodoTypes'
  <2>1. "java" \in Threads /\ Needs(type) \in Seq(Infos) /\ cache' \subseteq Infos
    BY <1>t, <1>3, NeedsTyped DEF Threads, TodoTypes
  <2>2. ~fetching["java"]
    BY <1>t, <1>3, <2>1 DEF TodoTypes, JavaTypes
  <2>3. fetching' = [fetching EXCEPT !["java"] = FALSE]
    BY <1>t, <1>3, <2>2 DEF TodoTypes
  <2> QED
    BY <1>t, <1>3, <2>1, <2>3, TodoSet
<1>4. CASE ReadValue
  <2>1. pc = "value" /\ UNCHANGED <<fetching, cache>>
    BY <1>4 DEF ReadValue
  <2>2. TypeOf[op.node] \in 0 .. TypeCount
    BY <2>1, AtPlaces
  <2>3. todo' = todo \/ todo' = [todo EXCEPT !["java"] = Needs(TypeOf[op.node])]
    BY <1>4 DEF ReadValue
  <2> QED
    BY <1>t, <1>3, <2>1, <2>2, <2>3, TodoKept DEF typeVars, Converting
<1>5. CASE ItemAdded
  <2>1. /\ pc = "added" /\ UNCHANGED <<fetching, cache>>
        /\ todo' = [todo EXCEPT !["java"] = Needs(TypeOf[op.node])]
    BY <1>5 DEF ItemAdded
  <2>2. TypeOf[op.node] \in 0 .. TypeCount
    BY <2>1, AtPlaces
  <2> QED
    BY <1>3, <2>1, <2>2 DEF Converting
<1>6. CASE GetArguments
  <2>1. /\ pc = "arguments" /\ UNCHANGED <<fetching, cache>>
        /\ todo' = [todo EXCEPT !["java"] = Needs(InputType[op.node])]
    BY <1>6 DEF GetArguments
  <2>2. InputType[op.node] \in 0 .. TypeCount
    BY <2>1, AtPlaces
  <2> QED
    BY <1>3, <2>1, <2>2 DEF Converting
<1>7. CASE Called
  <2>1. /\ pc = "called" /\ UNCHANGED <<fetching, cache>>
        /\ todo' = [todo EXCEPT !["java"] = Needs(OutputType[op.node])]
    BY <1>7 DEF Called
  <2>2. OutputType[op.node] \in 0 .. TypeCount
    BY <2>1, AtPlaces
  <2> QED
    BY <1>3, <2>1, <2>2 DEF Converting
<1>9. CASE DataChange
  <2> DEFINE e == Head(Head(packets))
  <2>1. /\ packets # <<>> /\ Head(packets) # <<>> /\ sdk = NoElement
        /\ UNCHANGED <<fetching, cache>>
        /\ \/ todo' = [todo EXCEPT !["sdk"] = Needs(TypeOf[items[e[1]].node])]
           \/ todo' = todo
    BY <1>9 DEF DataChange
  <2>2. items[e[1]].node \in Nodes
    BY <2>1, FirstElement
  <2>3. Needs(TypeOf[items[e[1]].node]) \in Seq(Infos)
    BY <2>2, NeedsTyped
  <2>4. ~fetching["sdk"] /\ "sdk" \in Threads /\ cache' \subseteq Infos
    BY <1>t, <2>1, SdkIdle DEF TodoTypes, Threads
  <2>5. fetching' = [fetching EXCEPT !["sdk"] = FALSE]
    BY <1>t, <2>1, <2>4 DEF TodoTypes
  <2> HIDE DEF e
  <2>6. CASE todo' = todo
    BY <1>t, <2>1, <2>6, TodoKept DEF typeVars
  <2>7. CASE todo' = [todo EXCEPT !["sdk"] = Needs(TypeOf[items[e[1]].node])]
    BY <1>t, <2>3, <2>4, <2>5, <2>7, TodoSet
  <2> QED
    BY <2>1, <2>6, <2>7
<1>10. CASE SdkConversionFails
  <2>1. /\ todo' = [todo EXCEPT !["sdk"] = <<>>] /\ fetching' = [fetching EXCEPT !["sdk"] = FALSE]
        /\ cache' = cache
    BY <1>10 DEF SdkConversionFails, ConversionFails
  <2>2. cache' \subseteq Infos /\ "sdk" \in Threads /\ <<>> \in Seq(Infos)
    BY <1>t, <2>1 DEF TodoTypes, Threads
  <2> QED
    BY <1>t, <2>1, <2>2, TodoSet
<1>11. CASE UNCHANGED typeVars
  BY <1>t, <1>11, TodoKept
<1>12. ASSUME JavaStep
       PROVE  \/ JavaConversionFails \/ ReadValue \/ ItemAdded \/ GetArguments \/ Called
              \/ LookUp("java") \/ Fetched("java") \/ UNCHANGED typeVars
  BY <1>12, ZenonT(30)
  DEF JavaStep, ServiceFails, ReadClass, Converted, Write, Written, WriteRefused, AddItem,
      Preloaded, NothingToRemove, RemoveItem, ItemRemoved, InputConverted, Call,
      OutputConverted, Browse, BrowseEnds
<1>13. ASSUME Operations \/ BrowseNext \/ Publish \/ NotificationReceived \/ DataChangeEnds
              \/ \E m \in Nodes, v \in Values \cup {NoValue} : Change(m, v)
       PROVE  UNCHANGED typeVars
  BY <1>13 DEF Operations, Begin, BrowseNext, Publish, NotificationReceived, DataChangeEnds,
               Change
<1>14. "java" \in Threads /\ "sdk" \in Threads
  BY DEF Threads
<1> QED
  BY <1>1, <1>2, <1>4, <1>5, <1>6, <1>7, <1>9, <1>10, <1>11, <1>12, <1>13, <1>14
  DEF Next, SdkStep

-----------------------------------------------------------------------------
(* The SDK's thread, and what Java was told.                               *)

(* The steps of the Java thread and those of the server leave the SDK's    *)
(* thread and what it has to know alone.                                   *)
LEMMA SdkUntouched ==
    ASSUME TypeInv, \/ Operations \/ BrowseNext \/ Publish \/ JavaStep
                    \/ \E m \in Nodes, v \in Values \cup {NoValue} : Change(m, v)
    PROVE  sdk' = sdk /\ todo'["sdk"] = todo["sdk"]
<1>1. CASE \/ Operations \/ BrowseNext \/ Publish
           \/ \E m \in Nodes, v \in Values \cup {NoValue} : Change(m, v)
  BY <1>1 DEF Operations, Begin, BrowseNext, Publish, Change, typeVars
<1>2. CASE JavaStep
  <2>1. sdk' = sdk
    BY <1>2, ZenonT(30)
    DEF JavaStep, ServiceFails, ReadClass, ReadValue, JavaConversionFails, Converted, Write,
        Written, WriteRefused, AddItem, ItemAdded, Preloaded, NothingToRemove, RemoveItem,
        ItemRemoved, GetArguments, InputConverted, Call, Called, OutputConverted, Browse,
        BrowseEnds, LookUp, Fetched
  <2>2. ASSUME NEW q, todo' = [todo EXCEPT !["java"] = q] PROVE todo'["sdk"] = todo["sdk"]
    BY <2>2 DEF TypeInv, TodoTypes, Threads
  <2>3. CASE \/ ReadValue \/ JavaConversionFails \/ ItemAdded \/ GetArguments \/ Called
             \/ LookUp("java") \/ Fetched("java")
    BY <2>2, <2>3 DEF ReadValue, JavaConversionFails, ConversionFails, ItemAdded, GetArguments,
                      Called, LookUp, Fetched, Obtained
  <2>4. CASE \/ ServiceFails \/ ReadClass \/ Converted \/ Write \/ Written \/ WriteRefused
             \/ AddItem \/ Preloaded \/ NothingToRemove \/ RemoveItem \/ ItemRemoved
             \/ InputConverted \/ Call \/ OutputConverted \/ Browse \/ BrowseEnds
    BY <2>4 DEF ServiceFails, ReadClass, Converted, Write, Written, WriteRefused, AddItem,
                Preloaded, NothingToRemove, RemoveItem, ItemRemoved, InputConverted, Call,
                OutputConverted, Browse, BrowseEnds, typeVars
  <2> QED
    BY <1>2, <2>1, <2>3, <2>4 DEF JavaStep
<1> QED
  BY <1>1, <1>2

(* A notification stays as long as an element of it is handed over.        *)
LEMMA PacketsStay ==
    ASSUME TypeInv, Next, packets # <<>>, ~DataChangeEnds
    PROVE  packets' # <<>>
<1>t. packets \in Seq(Seq(Elements)) /\ Len(packets) \in Nat \ {0}
  BY DEF TypeInv, ServerTypes
<1>1. CASE Publish
  BY <1>t, <1>1 DEF Publish
<1>2. CASE DataChange
  <2> DEFINE new == Tail(packets[1])
  <2>1. packets' = [packets EXCEPT ![1] = new]
    BY <1>2 DEF DataChange
  <2> HIDE DEF new
  <2>2. Len(packets') = Len(packets)
    BY <1>t, <2>1
  <2> QED
    BY <1>t, <2>2
<1>3. ASSUME JavaStep PROVE packets' = packets
  BY <1>3, ZenonT(30)
  DEF JavaStep, ServiceFails, ReadClass, ReadValue, JavaConversionFails, Converted, Write,
      Written, WriteRefused, AddItem, ItemAdded, Preloaded, NothingToRemove, RemoveItem,
      ItemRemoved, GetArguments, InputConverted, Call, Called, OutputConverted, Browse,
      BrowseEnds, LookUp, Fetched, serverVars
<1>4. ASSUME \/ Operations \/ BrowseNext
             \/ SdkStep /\ ~DataChange
             \/ \E m \in Nodes, v \in Values \cup {NoValue} : Change(m, v)
      PROVE  packets' = packets
  BY <1>4 DEF Operations, Begin, BrowseNext, SdkStep, NotificationReceived,
              SdkConversionFails, LookUp, Fetched, Change, serverVars
<1> QED
  BY <1>1, <1>2, <1>3, <1>4 DEF Next

LEMMA SdkStepTypes ==
    ASSUME TypeInv, Next
    PROVE  SdkTypes'
<1>t. SdkTypes /\ TodoTypes
  BY DEF TypeInv
<1>e. Elements \subseteq Elements'
  BY ItemsAreKept, ElementsGrow DEF TypeInv, ItemsKept
<1>1. CASE sdk' = sdk /\ todo'["sdk"] = todo["sdk"] /\ ~DataChangeEnds
  BY <1>t, <1>e, <1>1, PacketsStay DEF SdkTypes
<1>2. CASE LookUp("sdk") \/ Fetched("sdk")
  <2>1. sdk' = sdk /\ todo["sdk"] # <<>> /\ packets' = packets
    BY <1>t, <1>2 DEF LookUp, Fetched, TodoTypes, Threads, serverVars
  <2> QED
    BY <1>t, <1>e, <2>1 DEF SdkTypes
<1>3. CASE DataChange
  <2> DEFINE e == Head(Head(packets))
  <2>1. packets # <<>> /\ Head(packets) # <<>> /\ sdk = NoElement
    BY <1>3 DEF DataChange
  <2>2. e \in Elements /\ e # NoElement
    BY <2>1, FirstElement
  <2>3. packets' # <<>>
    BY <1>3, <2>1, PacketsStay DEF DataChange, DataChangeEnds
  <2>4. CASE sdk' = e
    BY <1>e, <2>2, <2>3, <2>4 DEF SdkTypes
  <2>5. CASE sdk' = sdk /\ todo' = todo
    BY <1>t, <2>1, <2>5 DEF SdkTypes
  <2>6. sdk' = e \/ (sdk' = sdk /\ todo' = todo)
    BY <1>3 DEF DataChange
  <2> QED
    BY <2>4, <2>5, <2>6
<1>4. CASE NotificationReceived \/ SdkConversionFails
  <2>1. sdk' = NoElement /\ todo'["sdk"] = <<>>
    BY <1>t, <1>4 DEF NotificationReceived, SdkConversionFails, ConversionFails, typeVars,
                      TodoTypes, Threads
  <2> QED
    BY <2>1 DEF SdkTypes
<1>5. CASE DataChangeEnds
  <2>1. sdk' = NoElement /\ todo'["sdk"] = todo["sdk"] /\ sdk = NoElement
    BY <1>5 DEF DataChangeEnds, typeVars
  <2> QED
    BY <1>t, <2>1 DEF SdkTypes
<1> QED
  BY <1>1, <1>2, <1>3, <1>4, <1>5, SdkUntouched DEF Next, SdkStep

LEMMA ToldStepTypes ==
    ASSUME TypeInv, Next
    PROVE  ToldTypes'
<1>t. ToldTypes /\ SdkTypes
  BY DEF TypeInv
<1>1. CASE Preloaded
  <2>1. pc = "preload" /\ subscribed' = subscribed \cup {op.node} /\ told' = told
    BY <1>1 DEF Preloaded
  <2>2. op.node \in Nodes
    BY <2>1, AtPlaces
  <2> QED
    BY <1>t, <2>1, <2>2 DEF ToldTypes
<1>2. CASE Operations
  BY <1>t, <1>2 DEF Operations, Begin, ToldTypes
<1>3. CASE NotificationReceived
  <2>1. /\ told' = [told EXCEPT ![items[sdk[1]].node] = sdk[2]]
        /\ sdk # NoElement /\ subscribed' = subscribed
    BY <1>3 DEF NotificationReceived, Tell
  <2>2. sdk[1] \in 1 .. Len(items) /\ sdk[2] \in Values \cup {NoValue}
    BY <1>t, <2>1 DEF SdkTypes, Elements
  <2> QED
    BY <1>t, <2>1, <2>2 DEF ToldTypes
<1>4. CASE UNCHANGED <<subscribed, told>>
  BY <1>t, <1>4 DEF ToldTypes
<1>5. ASSUME JavaStep PROVE Preloaded \/ UNCHANGED <<subscribed, told>>
  BY <1>5, ZenonT(30)
  DEF JavaStep, ServiceFails, ReadClass, ReadValue, JavaConversionFails, Converted, Write,
      Written, WriteRefused, AddItem, ItemAdded, NothingToRemove, RemoveItem, ItemRemoved,
      GetArguments, InputConverted, Call, Called, OutputConverted, Browse, BrowseEnds, LookUp,
      Fetched
<1>6. ASSUME \/ BrowseNext \/ Publish \/ (SdkStep /\ ~NotificationReceived)
             \/ \E m \in Nodes, v \in Values \cup {NoValue} : Change(m, v)
      PROVE  UNCHANGED <<subscribed, told>>
  BY <1>6 DEF BrowseNext, Publish, SdkStep, DataChange, SdkConversionFails,
              DataChangeEnds, LookUp, Fetched, Change
<1> QED
  BY <1>1, <1>2, <1>3, <1>4, <1>5, <1>6 DEF Next

LEMMA TypeStep ==
    ASSUME TypeInv, [Next]_vars
    PROVE  TypeInv'
<1>0. OperationInv'
  BY OperationStep DEF TypeInv
<1>1. CASE UNCHANGED vars
  <2>1. ServerTypes' /\ JavaTypes'
    BY <1>1 DEF vars, serverVars, typeVars, TypeInv, ServerTypes, Elements, JavaTypes, OpTypes
  <2>2. SdkTypes' /\ TodoTypes' /\ ToldTypes'
    BY <1>1 DEF vars, serverVars, typeVars, TypeInv, SdkTypes, Elements, TodoTypes, ToldTypes
  <2> QED
    BY <1>0, <2>1, <2>2 DEF TypeInv
<1>2. CASE Next
  <2>1. JavaTypes'
    BY <1>2, BeginTypes, JavaStepTypes, BrowseNextTypes, OtherJavaTypes DEF Next
  <2> QED
    BY <1>0, <1>2, <2>1, ServerStepTypes, ThreadsTodo, SdkStepTypes, ToldStepTypes DEF TypeInv
<1> QED
  BY <1>1, <1>2

THEOREM TypeInvariant == Spec => []TypeInv
<1>1. Init => TypeInv
  BY TypeInit
<1>2. TypeInv /\ [Next]_vars => TypeInv'
  BY TypeStep
<1> QED
  BY <1>1, <1>2, PTL DEF Spec

(* The variables keep their types: among others, an answer is given to an  *)
(* operation that is open, and a thread fetches only what it has to know.  *)
THEOREM TypeCorrect == Spec => []TypeOK
BY TypeInvariant, TypeInvImplies, PTL

-----------------------------------------------------------------------------
(* The items.  A node's item tells Java of its values while it is both in  *)
(* the list and at the server.  A node that Java subscribed has one, which *)
(* is not the one that is just being added, as that may be taken back; the *)
(* entry that an unsubscribe picks is one of a node that Java has given up *)
(* already.                                                                *)

Tells(m) == Listed(m) \cap Live(m)

NewItem ==
    /\ items # <<>> /\ items[Len(items)].node = op.node
    /\ items[Len(items)].listed /\ items[Len(items)].live

ItemsInv ==
    /\ pc \in {"added", "preload"} => NewItem
    /\ pc = "removed" => Listed(op.node) # {} /\ ~items[Picked].live
    /\ pc \in {"remove", "removed"} => op.node \notin subscribed
    /\ \A m \in subscribed : \E h \in Tells(m) : pc = "added" => h # Len(items)

LEMMA LeastOf ==
    ASSUME NEW S, S \subseteq Nat, S # {}
    PROVE  Min(S) \in S
<1> DEFINE R == {xy \in Nat \X Nat : xy[1] < xy[2]}
<1>1. IsWellFoundedOn(R, Nat)
  BY NatLessThanWellFounded DEF OpToRel
<1> HIDE DEF R
<1>2. PICK x \in S : \A y \in S : ~(<<y, x>> \in R)
  BY <1>1, WFMin
<1>3. ASSUME NEW y \in S PROVE x <= y
  <2>1. <<y, x>> \in Nat \X Nat /\ ~(<<y, x>> \in R)
    BY <1>2
  <2>2. ~(y < x)
    BY <2>1 DEF R
  <2> QED
    BY <2>1, <2>2
<1> QED
  BY <1>3 DEF Min

LEMMA PickedListed ==
    ASSUME Listed(op.node) # {}
    PROVE  Picked \in Listed(op.node)
<1>1. Listed(op.node) \subseteq Nat
  BY DEF Listed
<1> QED
  BY <1>1, LeastOf DEF Picked

LEMMA ItemsSame ==
    ASSUME items' = items
    PROVE  \A m : Listed(m)' = Listed(m) /\ Live(m)' = Live(m) /\ Tells(m)' = Tells(m)
BY DEF Listed, Live, Tells

(* The item of handle i, the last, is new: it tells of its node.           *)
LEMMA TellsAdded ==
    ASSUME TypeInv, AddItem
    PROVE  /\ Len(items') = Len(items) + 1 /\ Len(items) \in Nat
           /\ items'[Len(items')].node = op.node
           /\ items'[Len(items')].listed /\ items'[Len(items')].live
           /\ \A h \in 1 .. Len(items) : items'[h] = items[h]
           /\ \A m : Tells(m)' = IF m = op.node THEN Tells(m) \cup {Len(items')} ELSE Tells(m)
<1> DEFINE x == [node |-> op.node, listed |-> TRUE, live |-> TRUE]
           n == Len(items)
<1>1. pc = "add" /\ items' = Append(items, x) /\ items \in Seq(Items)
  BY DEF AddItem, TypeInv, ServerTypes
<1>2. x \in Items
  BY <1>1, AtPlaces DEF Items
<1>3. x.node = op.node /\ x.listed /\ x.live
  OBVIOUS
<1> HIDE DEF x
<1>4. /\ Len(items') = n + 1 /\ n \in Nat /\ items'[n + 1] = x
      /\ \A h \in 1 .. n : items'[h] = items[h]
  BY <1>1, <1>2, ItemAppended
<1>5. ASSUME NEW m PROVE Tells(m)' = IF m = op.node THEN Tells(m) \cup {n + 1} ELSE Tells(m)
  <2>1. \A h : h \in Tells(m)' <=>
                  h \in 1 .. n + 1 /\ items'[h].listed /\ items'[h].live /\ items'[h].node = m
    BY <1>4 DEF Tells, Listed, Live
  <2>2. \A h : h \in Tells(m) <=>
                  h \in 1 .. n /\ items[h].listed /\ items[h].live /\ items[h].node = m
    BY DEF Tells, Listed, Live
  <2>3. \A h : h \in 1 .. n + 1 <=> h \in 1 .. n \/ h = n + 1
    BY <1>4
  <2>4. \A h : h \in Tells(m)' <=> h \in Tells(m) \/ (h = n + 1 /\ m = op.node)
    BY <1>3, <1>4, <2>1, <2>2, <2>3
  <2> QED
    BY <2>4
<1> QED
  BY <1>3, <1>4, <1>5

(* The item that an unsubscribe picked is gone at the server.              *)
LEMMA TellsRemoved ==
    ASSUME TypeInv, RemoveItem
    PROVE  /\ Len(items') = Len(items) /\ ~items'[Picked].live
           /\ Picked \in Tells(op.node)
           /\ \A m : Listed(m)' = Listed(m) /\ Tells(m)' = Tells(m) \ {Picked}
<1> DEFINE i == Picked
<1>1. /\ items' = [items EXCEPT ![i].live = FALSE] /\ items \in Seq(Items)
      /\ i \in Listed(op.node) /\ items[i].live
  BY PickedListed DEF RemoveItem, TypeInv, ServerTypes
<1>2. i \in Tells(op.node) /\ i \in 1 .. Len(items)
  BY <1>1 DEF Tells, Listed, Live
<1> HIDE DEF i
<1>3. GoneAt(i)
  BY <1>1, ItemGone
<1>4. \A m : Listed(m)' = Listed(m)
  BY <1>3 DEF GoneAt, Listed
<1>5. ASSUME NEW m PROVE Tells(m)' = Tells(m) \ {i}
  <2>1. \A h : h \in Live(m)' <=> h \in Live(m) /\ h # i
    BY <1>3 DEF GoneAt, Live
  <2> QED
    BY <1>4, <2>1 DEF Tells
<1>6. Len(items') = Len(items) /\ ~items'[i].live
  BY <1>2, <1>3 DEF GoneAt
<1> QED
  BY <1>2, <1>4, <1>5, <1>6 DEF i

(* An entry leaves the list: no other item changes.                        *)
LEMMA TellsUnlisted ==
    ASSUME TypeInv, NEW i, items' = [items EXCEPT ![i].listed = FALSE]
    PROVE  /\ Len(items') = Len(items)
           /\ \A m : Tells(m)' = Tells(m) \ {i}
<1>1. UnlistedAt(i)
  BY ItemUnlisted DEF TypeInv, ServerTypes
<1>2. ASSUME NEW m PROVE Tells(m)' = Tells(m) \ {i}
  <2>1. \A h : h \in Listed(m)' <=> h \in Listed(m) /\ h # i
    BY <1>1 DEF UnlistedAt, Listed
  <2>2. Live(m)' = Live(m)
    BY <1>1 DEF UnlistedAt, Live
  <2> QED
    BY <2>1, <2>2 DEF Tells
<1> QED
  BY <1>1, <1>2 DEF UnlistedAt

(* Whether the Java thread stays at one of the places where its operation  *)
(* has to do with an item.                                                 *)
ItemPlaces == {"added", "preload", "remove", "removed"}

LEMMA StaysThere ==
    ASSUME TypeInv, Next, ~Operations, ~AddItem, ~ItemAdded, ~RemoveItem, pc' \in ItemPlaces
    PROVE  /\ pc' = pc /\ op'.node = op.node
           /\ \/ todo'["java"] = todo["java"]
              \/ LookUp("java") \/ Fetched("java")
<1>2. CASE JavaStep \/ BrowseNext
  <2>1. ~(\/ ServiceFails \/ ReadClass \/ JavaConversionFails \/ Converted \/ Write \/ Written
          \/ WriteRefused \/ Preloaded \/ NothingToRemove \/ ItemRemoved \/ GetArguments
          \/ InputConverted \/ Call \/ Called \/ OutputConverted \/ Browse \/ BrowseNext
          \/ BrowseEnds)
    BY DEF ItemPlaces, ServiceFails, ReadClass, JavaConversionFails, Converted, Write, Written,
           WriteRefused, Preloaded, NothingToRemove, ItemRemoved, GetArguments, InputConverted,
           Call, Called, OutputConverted, Browse, BrowseNext, BrowseEnds, Answer
  <2>2. ~ReadValue
    <3>1. ReadValue => pc' \in {"idle", "add", "convert"}
      BY DEF ReadValue, Answer
    <3> QED
      BY <3>1 DEF ItemPlaces
  <2>3. LookUp("java") \/ Fetched("java")
    BY <1>2, <2>1, <2>2 DEF JavaStep
  <2> QED
    BY <2>3 DEF LookUp, Fetched
<1>3. CASE SdkStep \/ Publish \/ \E m \in Nodes, v \in Values \cup {NoValue} : Change(m, v)
  <2>1. pc' = pc
    BY <1>3 DEF SdkStep, DataChange, NotificationReceived, SdkConversionFails, DataChangeEnds,
                LookUp, Fetched, Publish, Change
  <2>2. op'.node = op.node
    <3>1. CASE SdkStep \/ Publish
      BY <3>1 DEF SdkStep, DataChange, NotificationReceived, SdkConversionFails,
                  DataChangeEnds, LookUp, Fetched, Publish
    <3>2. CASE \E m \in Nodes, v \in Values \cup {NoValue} : Change(m, v)
      <4>1. PICK m \in Nodes, v \in Values \cup {NoValue} : Change(m, v)
        BY <3>2
      <4>2. op' = [kind |-> op.kind, node |-> op.node, value |-> op.value,
                   seen |-> IF op.kind = "read" /\ op.node = m THEN op.seen \cup {v} ELSE op.seen,
                   effect |-> op.effect, page |-> op.page, status |-> op.status]
        BY <4>1, OpRecord DEF Change
      <4> QED
        BY <4>2
    <3> QED
      BY <1>3, <3>1, <3>2
  <2>3. todo'["java"] = todo["java"]
    BY <1>3, SdkTouchesOwn
  <2> QED
    BY <2>1, <2>2, <2>3
<1> QED
  BY <1>2, <1>3 DEF Next

LEMMA SubscribedStep ==
    ASSUME Next, ~Operations, ~Preloaded
    PROVE  subscribed' = subscribed
<1>1. ASSUME JavaStep PROVE subscribed' = subscribed
  BY <1>1, ZenonT(30)
  DEF JavaStep, ServiceFails, ReadClass, ReadValue, JavaConversionFails, Converted, Write,
      Written, WriteRefused, AddItem, ItemAdded, NothingToRemove, RemoveItem, ItemRemoved,
      GetArguments, InputConverted, Call, Called, OutputConverted, Browse, BrowseEnds, LookUp,
      Fetched
<1>2. ASSUME \/ BrowseNext \/ SdkStep \/ Publish
             \/ \E m \in Nodes, v \in Values \cup {NoValue} : Change(m, v)
      PROVE  subscribed' = subscribed
  BY <1>2 DEF BrowseNext, SdkStep, DataChange, NotificationReceived, SdkConversionFails,
              DataChangeEnds, LookUp, Fetched, Publish, Change
<1> QED
  BY <1>1, <1>2 DEF Next

LEMMA ItemsInvBegin ==
    ASSUME TypeInv, ItemsInv, Operations
    PROVE  ItemsInv'
<1>1. PICK kind, m, v :
         /\ kind \in {"read", "write", "subscribe", "unsubscribe", "exec", "browse"}
         /\ Begin(kind, m, v)
  BY DEF Operations
<1>2. /\ pc = "idle" /\ items' = items /\ pc' = FirstStep[kind] /\ op'.node = m
      /\ subscribed' = IF kind = "unsubscribe" THEN subscribed \ {m} ELSE subscribed
  BY <1>1 DEF Begin, serverVars
<1>3. /\ pc' \in {"class", "remove", "arguments", "browse"}
      /\ pc' = "remove" => kind = "unsubscribe"
  BY <1>1, <1>2 DEF FirstStep
<1>4. \A n \in subscribed' : \E h \in Tells(n)' : pc' = "added" => h # Len(items')
  <2> SUFFICES ASSUME NEW n \in subscribed' PROVE \E h : h \in Tells(n)'
    BY <1>3
  <2>1. n \in subscribed
    BY <1>2
  <2> QED
    BY <1>2, <2>1, ItemsSame DEF ItemsInv
<1> QED
  BY <1>2, <1>3, <1>4 DEF ItemsInv

LEMMA ItemsInvStep ==
    ASSUME TypeInv, ItemsInv, Next
    PROVE  ItemsInv'
<1>n. items \in Seq(Items) /\ Len(items) \in Nat
  BY DEF TypeInv, ServerTypes
<1>1. CASE Operations
  BY <1>1, ItemsInvBegin
<1>2. CASE AddItem
  <2>1. /\ pc' = "added" /\ pc = "add" /\ subscribed' = subscribed
        /\ op' = [op EXCEPT !.effect = @ + 1]
    BY <1>2 DEF AddItem
  <2>2. op'.node = op.node
    BY <2>1, OpRecord
  <2>3. /\ Len(items') = Len(items) + 1
        /\ items'[Len(items')].node = op.node
        /\ items'[Len(items')].listed /\ items'[Len(items')].live
        /\ \A m : Tells(m)' = IF m = op.node THEN Tells(m) \cup {Len(items')} ELSE Tells(m)
    BY <1>2, TellsAdded
  <2>4. NewItem'
    <3>1. items' # <<>>
      BY <1>n, <2>3
    <3> QED
      BY <2>2, <2>3, <3>1 DEF NewItem
  <2>5. ASSUME NEW m \in subscribed PROVE \E h \in Tells(m)' : h # Len(items')
    <3>1. PICK h \in Tells(m) : TRUE
      BY DEF ItemsInv
    <3>2. h \in 1 .. Len(items)
      BY DEF Tells, Listed
    <3>3. h # Len(items')
      BY <1>n, <2>3, <3>2
    <3>4. Tells(m) \subseteq Tells(m)'
      BY <2>3
    <3> QED
      BY <3>3, <3>4
  <2> QED
    BY <2>1, <2>4, <2>5 DEF ItemsInv
<1>3. CASE ItemAdded
  <2>1. /\ pc = "added" /\ pc' = "preload" /\ op' = op /\ items' = items /\ subscribed' = subscribed
    BY <1>3 DEF ItemAdded, serverVars
  <2>2. NewItem'
    BY <2>1 DEF ItemsInv, NewItem
  <2> QED
    BY <2>1, <2>2, ItemsSame DEF ItemsInv
<1>4. CASE Preloaded
  <2>1. /\ pc = "preload" /\ pc' = "idle" /\ items' = items
        /\ subscribed' = subscribed \cup {op.node}
    BY <1>4 DEF Preloaded, Answer, serverVars
  <2>2. Len(items) \in Tells(op.node)
    <3>1. NewItem /\ Len(items) \in 1 .. Len(items)
      BY <1>n, <2>1 DEF ItemsInv, NewItem
    <3> QED
      BY <3>1 DEF NewItem, Tells, Listed, Live
  <2>3. \A m \in subscribed' : \E h \in Tells(m)' : TRUE
    BY <2>1, <2>2, ItemsSame DEF ItemsInv
  <2> QED
    BY <2>1, <2>3 DEF ItemsInv
<1>5. CASE RemoveItem
  <2>1. /\ pc = "remove" /\ pc' = "removed" /\ subscribed' = subscribed
        /\ Listed(op.node) # {} /\ op' = [op EXCEPT !.effect = @ + 1]
    BY <1>5 DEF RemoveItem
  <2>2. op'.node = op.node /\ op.node \notin subscribed
    BY <2>1, OpRecord DEF ItemsInv
  <2>3. /\ Len(items') = Len(items) /\ ~items'[Picked].live
        /\ Picked \in Tells(op.node)
        /\ \A m : Listed(m)' = Listed(m) /\ Tells(m)' = Tells(m) \ {Picked}
    BY <1>5, TellsRemoved
  <2>4. Listed(op.node)' = Listed(op.node) /\ Picked' = Picked
    <3>1. ASSUME NEW n, op'.node = n, op.node = n PROVE Listed(op.node)' = Listed(op.node)
      <4>1. {h \in 1 .. Len(items') : items'[h].listed /\ items'[h].node = n}
              = {h \in 1 .. Len(items) : items[h].listed /\ items[h].node = n}
        BY <2>3 DEF Listed
      <4> QED
        BY <3>1, <4>1 DEF Listed
    <3>2. Listed(op.node)' = Listed(op.node)
      BY <2>2, <3>1
    <3> QED
      BY <3>2 DEF Picked
  <2>5. ASSUME NEW m \in subscribed PROVE \E h \in Tells(m)' : TRUE
    <3>1. PICK h \in Tells(m) : TRUE
      BY DEF ItemsInv
    <3>2. h # Picked
      <4>1. items[h].node = m /\ items[Picked].node = op.node
        BY <2>3 DEF Tells, Listed
      <4> QED
        BY <2>2, <4>1
    <3>3. h \in Tells(m)'
      BY <2>3, <3>2
    <3> QED
      BY <3>3
  <2> QED
    BY <2>1, <2>2, <2>3, <2>4, <2>5 DEF ItemsInv
<1>6. ASSUME NEW i, items' = [items EXCEPT ![i].listed = FALSE], pc' = "idle",
             subscribed' = subscribed, \A m \in subscribed : \E h \in Tells(m) : h # i
      PROVE  ItemsInv'
  <2>1. \A m : Tells(m)' = Tells(m) \ {i}
    BY <1>6, TellsUnlisted
  <2>2. \A m \in subscribed' : \E h \in Tells(m)' : TRUE
    BY <1>6, <2>1
  <2> QED
    BY <1>6, <2>2 DEF ItemsInv
<1>7. CASE ItemRemoved
  <2>1. /\ items' = [items EXCEPT ![Picked].listed = FALSE] /\ pc = "removed" /\ pc' = "idle"
        /\ subscribed' = subscribed
    BY <1>7 DEF ItemRemoved, Answer
  <2>2. ~items[Picked].live
    BY <2>1 DEF ItemsInv
  <2>3. \A m \in subscribed : \E h \in Tells(m) : h # Picked
    <3>1. \A m : \A h \in Tells(m) : items[h].live
      BY DEF Tells, Live
    <3> QED
      BY <2>2, <3>1 DEF ItemsInv
  <2> QED
    BY <1>6, <2>1, <2>3
<1>8. CASE ServiceFails
  <2>1. pc' = "idle" /\ subscribed' = subscribed
    BY <1>8 DEF ServiceFails, Answer
  <2>2. CASE pc = "added"
    <3>1. items' = [items EXCEPT ![Len(items)].listed = FALSE]
      BY <1>8, <2>2 DEF ServiceFails
    <3>2. \A m \in subscribed : \E h \in Tells(m) : h # Len(items)
      BY <2>2 DEF ItemsInv
    <3> QED
      BY <1>6, <2>1, <3>1, <3>2
  <2>3. CASE pc # "added"
    <3>1. items' = items
      BY <1>8, <2>3 DEF ServiceFails
    <3> QED
      BY <2>1, <3>1, ItemsSame DEF ItemsInv
  <2> QED
    BY <2>2, <2>3
<1>9. CASE ~(\/ Operations \/ AddItem \/ ItemAdded \/ Preloaded \/ RemoveItem \/ ItemRemoved
             \/ ServiceFails)
  <2>1. items' = items /\ subscribed' = subscribed
    BY <1>9, ItemsStep, SubscribedStep
  <2>2. pc' \in ItemPlaces => pc' = pc /\ op'.node = op.node
    BY <1>9, StaysThere
  <2>3. pc' \in {"added", "preload"} => NewItem'
    BY <2>1, <2>2 DEF ItemsInv, NewItem, ItemPlaces
  <2>4. pc' = "removed" => Listed(op.node)' # {} /\ ~items'[Picked'].live
    <3> SUFFICES ASSUME pc' = "removed" PROVE Listed(op.node)' # {} /\ ~items'[Picked'].live
      OBVIOUS
    <3>1. pc = "removed" /\ op'.node = op.node
      BY <2>2 DEF ItemPlaces
    <3>2. Listed(op.node)' = Listed(op.node)
      BY <2>1, <3>1 DEF Listed
    <3>3. Picked' = Picked
      BY <3>2 DEF Picked
    <3> QED
      BY <2>1, <3>1, <3>2, <3>3 DEF ItemsInv
  <2>5. pc' \in {"remove", "removed"} => op'.node \notin subscribed'
    BY <2>1, <2>2 DEF ItemsInv, ItemPlaces
  <2>6. \A m \in subscribed' : \E h \in Tells(m)' : pc' = "added" => h # Len(items')
    <3> SUFFICES ASSUME NEW m \in subscribed'
                 PROVE  \E h \in Tells(m)' : pc' = "added" => h # Len(items')
      OBVIOUS
    <3>1. PICK h \in Tells(m) : pc = "added" => h # Len(items)
      BY <2>1 DEF ItemsInv
    <3>2. h \in Tells(m)'
      BY <2>1, ItemsSame
    <3>3. pc' = "added" => pc = "added"
      BY <2>2 DEF ItemPlaces
    <3> QED
      BY <2>1, <3>1, <3>2, <3>3
  <2> QED
    BY <2>3, <2>4, <2>5, <2>6 DEF ItemsInv
<1> QED
  BY <1>1, <1>2, <1>3, <1>4, <1>5, <1>7, <1>8, <1>9

LEMMA ItemsInvariant == Spec => [](TypeInv /\ ItemsInv)
<1>1. Init => ItemsInv
  BY DEF Init, ItemsInv
<1>2. TypeInv /\ ItemsInv /\ [Next]_vars => ItemsInv'
  <2> SUFFICES ASSUME TypeInv, ItemsInv, [Next]_vars PROVE ItemsInv'
    OBVIOUS
  <2>1. CASE UNCHANGED vars
    BY <2>1 DEF vars, serverVars, ItemsInv, NewItem, Picked, Listed, Live, Tells
  <2> QED
    BY <2>1, ItemsInvStep
<1> QED
  BY <1>1, <1>2, TypeInvariant, PTL DEF Spec

-----------------------------------------------------------------------------
(* Operations are as good as atomic: each step is the one moment of an     *)
(* operation, its call or its answer, or is none of Java's business.       *)

ItemsOf == [m \in Nodes |-> Cardinality(Listed(m) \cap Live(m))]

callVars == <<value, ItemsOf, subscribed, op.kind, op.node, op.value, op.status, Effects>>

LEMMA AtomicStutter == UNCHANGED callVars => UNCHANGED Atomic!calls
BY DEF callVars, ItemsOf, Atomic!calls, Atomic!nodes

LEMMA AtomicInit == Init => Atomic!Init
<1> SUFFICES ASSUME Init PROVE Atomic!Init
  OBVIOUS
<1>1. \A m : Cardinality(Listed(m) \cap Live(m)) = 0
  <2>1. \A m : Listed(m) \cap Live(m) = {}
    BY DEF Init, Listed, Live
  <2> QED
    BY <2>1, FS_EmptySet
<1>2. Nodes = DOMAIN value
  BY DEF Init
<1> QED
  BY <1>1, <1>2 DEF Init, NoOperation, Effects, Atomic!Init, Atomic!Idle

LEMMA ItemsOfSame ==
    ASSUME \A m : Tells(m)' = Tells(m)
    PROVE  ItemsOf' = ItemsOf
BY DEF ItemsOf, Tells

LEMMA ItemsOfKept ==
    ASSUME items' = items
    PROVE  ItemsOf' = ItemsOf
BY ItemsSame, ItemsOfSame

LEMMA TellsFinite ==
    ASSUME TypeInv, NEW m
    PROVE  IsFiniteSet(Tells(m)) /\ Cardinality(Tells(m)) \in Nat /\ Tells(m) \subseteq Nat
<1>1. Len(items) \in Nat /\ Tells(m) \subseteq 1 .. Len(items)
  BY DEF TypeInv, ServerTypes, Tells, Listed
<1>2. IsFiniteSet(1 .. Len(items))
  BY <1>1, FS_Interval
<1>3. IsFiniteSet(Tells(m))
  BY <1>1, <1>2, FS_Subset
<1> QED
  BY <1>1, <1>3, FS_CardinalityType

(* One item more, or one less, of one node.                                *)
LEMMA ItemsOfMore ==
    ASSUME TypeInv, NEW n \in Nodes, NEW h, h \notin Tells(n),
           \A m : Tells(m)' = IF m = n THEN Tells(m) \cup {h} ELSE Tells(m)
    PROVE  ItemsOf' = [ItemsOf EXCEPT ![n] = @ + 1]
<1>1. Cardinality(Tells(n) \cup {h}) = Cardinality(Tells(n)) + 1
  BY TellsFinite, FS_AddElement
<1>2. \A m : Cardinality(Tells(m))' =
               IF m = n THEN Cardinality(Tells(m)) + 1 ELSE Cardinality(Tells(m))
  BY <1>1
<1> QED
  BY <1>2 DEF ItemsOf, Tells

LEMMA ItemsOfLess ==
    ASSUME TypeInv, NEW n \in Nodes, NEW h \in Tells(n),
           \A m : Tells(m)' = Tells(m) \ {h}
    PROVE  ItemsOf' = [ItemsOf EXCEPT ![n] = @ - 1] /\ ItemsOf[n] > 0
<1>1. /\ Cardinality(Tells(n) \ {h}) = Cardinality(Tells(n)) - 1
      /\ Cardinality(Tells(n)) > 0
  <2>1. IsFiniteSet(Tells(n)) /\ Cardinality(Tells(n)) \in Nat
    BY TellsFinite
  <2>2. Cardinality(Tells(n) \ {h}) = Cardinality(Tells(n)) - 1
    BY <2>1, FS_RemoveElement
  <2>3. Cardinality(Tells(n)) # 0
    BY <2>1, FS_EmptySet
  <2> QED
    BY <2>1, <2>2, <2>3
<1>2. \A m : m # n => Tells(m)' = Tells(m)
  <2>1. items[h].node = n
    BY DEF Tells, Listed
  <2>2. \A m : h \in Tells(m) => items[h].node = m
    BY DEF Tells, Listed
  <2> QED
    BY <2>1, <2>2
<1>3. \A m : Cardinality(Tells(m))' =
               IF m = n THEN Cardinality(Tells(m)) - 1 ELSE Cardinality(Tells(m))
  BY <1>1, <1>2
<1> QED
  BY <1>1, <1>3 DEF ItemsOf, Tells


(* The thread goes on to a place where as much of its operation is done.   *)
LEMMA OnTheWay ==
    ASSUME op' = op, UNCHANGED <<value, ItemsOf, subscribed>>, Effects' = Effects
    PROVE  UNCHANGED Atomic!calls
<1>1. UNCHANGED callVars
  BY DEF callVars
<1> QED
  BY <1>1, AtomicStutter

(* What an answer says of the operation that it ends.                      *)
LEMMA AtomicAnswer ==
    ASSUME OperationInv, pc # "idle", NEW status, Answer(status), value' = value
    PROVE  Atomic!Answer(status)
<1>1. op.kind # "none"
  BY DEF OperationInv, OperationOK, Serves
<1>2. op'.kind = "none" /\ op'.effect = 0 /\ op'.status = status
  BY DEF Answer, NoOperation
<1>3. Effects' = 0
  BY <1>2 DEF Effects
<1> QED
  BY <1>1, <1>2, <1>3 DEF Atomic!Answer, Atomic!Idle


LEMMA AtomicFailure ==
    ASSUME OperationInv, pc # "idle", Answer("failed"),
           UNCHANGED <<value, ItemsOf, subscribed>>
    PROVE  Atomic!Next
<1>1. Atomic!Fail
  BY AtomicAnswer DEF Atomic!Fail, ItemsOf
<1> QED
  BY <1>1 DEF Atomic!Next

LEMMA AtomicBegin ==
    ASSUME OperationInv, Operations
    PROVE  Atomic!Ask
<1>1. PICK kind, m, v :
         /\ kind \in {"read", "write", "subscribe", "unsubscribe", "exec", "browse"}
         /\ Begin(kind, m, v)
  BY DEF Operations
<1>2. /\ pc = "idle" /\ UNCHANGED <<value, items>> /\ pc' = FirstStep[kind]
      /\ subscribed' = IF kind = "unsubscribe" THEN subscribed \ {m} ELSE subscribed
  BY <1>1 DEF Begin, serverVars
<1>3. op'.kind = kind /\ op'.node = m /\ op'.effect = 0 /\ op'.status = "open"
  BY <1>1 DEF Begin
<1>4. pc' # "convert"
  BY <1>1, <1>2 DEF FirstStep
<1>5. op.kind = "none"
  BY <1>2 DEF OperationInv, OperationOK, Serves
<1>6. Effects' = 0
  BY <1>3, <1>4 DEF Effects
<1>7. ItemsOf' = ItemsOf
  BY <1>2, ItemsOfKept
<1> QED
  BY <1>1, <1>2, <1>3, <1>5, <1>6, <1>7 DEF Atomic!Ask, Atomic!Idle, ItemsOf
LEMMA AtomicRead ==
    ASSUME OperationInv, ReadValue
    PROVE  Atomic!Next \/ UNCHANGED Atomic!calls
<1>1. pc = "value" /\ UNCHANGED <<value, ItemsOf, subscribed>>
  BY ItemsOfKept DEF ReadValue, serverVars
<1>2. op.kind \in {"read", "write", "subscribe"} /\ op.effect = 0 /\ Effects = 0
  BY <1>1 DEF OperationInv, OperationOK, Serves, EffectTrue, Done, Effects
<1>3. CASE value[op.node] = NoValue
  BY <1>1, <1>3, AtomicFailure DEF ReadValue
<1>4. CASE value[op.node] # NoValue
  <2>1. op' = [op EXCEPT !.value = IF op.kind = "read" THEN value[op.node] ELSE @]
    BY <1>4 DEF ReadValue
  <2>2. /\ op'.kind = op.kind /\ op'.node = op.node /\ op'.effect = op.effect
        /\ op'.status = op.status
        /\ op'.value = IF op.kind = "read" THEN value[op.node] ELSE op.value
    BY <2>1 DEF OperationInv, OperationOK
  <2>3. pc' = IF op.kind = "subscribe" THEN "add" ELSE "convert"
    BY <1>4 DEF ReadValue
  <2>4. CASE op.kind = "read"
    <3>1. Effects' = 1
      BY <2>2, <2>3, <2>4 DEF Effects
    <3>2. Atomic!Do("read")
      BY <1>1, <1>2, <2>2, <2>4, <3>1 DEF Atomic!Do
    <3>m. [kind |-> op.kind, node |-> op.node, value |-> op.value]'
            = [[kind |-> op.kind, node |-> op.node, value |-> op.value]
                  EXCEPT !.value = value[op.node]]
      BY <2>2, <2>4
    <3>n. UNCHANGED <<value, [m \in Nodes |-> Cardinality(Listed(m) \cap Live(m))]>>
      BY <1>1 DEF ItemsOf
    <3>3. Atomic!Read
      BY <1>4, <3>2, <3>m, <3>n DEF Atomic!Read
    <3> QED
      BY <3>3 DEF Atomic!Next
  <2>5. CASE op.kind # "read"
    <3>1. Effects' = 0
      BY <1>2, <2>2, <2>3, <2>5 DEF Effects
    <3>2. UNCHANGED callVars
      BY <1>1, <1>2, <2>2, <2>5, <3>1 DEF callVars
    <3> QED
      BY <3>2, AtomicStutter
  <2> QED
    BY <2>4, <2>5
<1> QED
  BY <1>3, <1>4

(* The steps in which the server does what was asked for.                  *)
LEMMA AtomicEffect ==
    ASSUME TypeInv, Write \/ Call \/ AddItem \/ RemoveItem
    PROVE  Atomic!Next
<1>o. OperationInv
  BY DEF TypeInv
<1>e. ASSUME op' = [op EXCEPT !.effect = @ + 1], pc \in {"write", "call", "add", "remove"},
             pc' \in Done
      PROVE  /\ op'.kind = op.kind /\ op'.node = op.node /\ op'.value = op.value
             /\ op'.status = op.status /\ Effects = 0 /\ Effects' = 1
  <2>1. op.effect = 0 /\ Effects = 0
    BY <1>o, <1>e DEF OperationInv, EffectTrue, Done, Effects
  <2>2. /\ op'.kind = op.kind /\ op'.node = op.node /\ op'.value = op.value
        /\ op'.status = op.status /\ op'.effect = 1
    BY <1>o, <1>e, <2>1 DEF OperationInv, OperationOK
  <2>3. Effects' = 1
    BY <1>e, <2>2 DEF Effects, Done
  <2> QED
    BY <2>1, <2>2, <2>3
<1>1. CASE Write
  <2>1. /\ pc = "write" /\ pc' = "written" /\ UNCHANGED <<items, subscribed>>
        /\ value' = [value EXCEPT ![op.node] = op.value]
        /\ op' = [op EXCEPT !.effect = @ + 1]
    BY <1>1 DEF Write
  <2>2. op.kind = "write" /\ ItemsOf' = ItemsOf
    BY <1>o, <2>1, ItemsOfKept DEF OperationInv, OperationOK, Serves
  <2>3. /\ op'.kind = op.kind /\ op'.node = op.node /\ op'.value = op.value
        /\ op'.status = op.status /\ Effects = 0 /\ Effects' = 1
    BY <1>e, <2>1 DEF Done
  <2>4. Atomic!Write
    BY <2>1, <2>2, <2>3 DEF Atomic!Write, Atomic!Do, ItemsOf
  <2> QED
    BY <2>4 DEF Atomic!Next
<1>2. CASE Call
  <2>1. /\ pc = "call" /\ pc' = "called" /\ UNCHANGED <<value, items, subscribed>>
        /\ op' = [op EXCEPT !.effect = @ + 1]
    BY <1>2 DEF Call, serverVars
  <2>2. op.kind = "exec" /\ ItemsOf' = ItemsOf
    BY <1>o, <2>1, ItemsOfKept DEF OperationInv, OperationOK, Serves
  <2>3. /\ op'.kind = op.kind /\ op'.node = op.node /\ op'.value = op.value
        /\ op'.status = op.status /\ Effects = 0 /\ Effects' = 1
    BY <1>e, <2>1 DEF Done
  <2>4. Atomic!Execute
    BY <2>1, <2>2, <2>3 DEF Atomic!Execute, Atomic!Do, ItemsOf
  <2> QED
    BY <2>4 DEF Atomic!Next
<1>3. CASE AddItem
  <2>1. /\ pc = "add" /\ pc' = "added" /\ UNCHANGED <<value, subscribed>>
        /\ op' = [op EXCEPT !.effect = @ + 1]
    BY <1>3 DEF AddItem
  <2>2. op.kind = "subscribe" /\ op.node \in Nodes
    BY <1>o, <2>1, AtPlaces DEF OperationInv, OperationOK, Serves
  <2>3. /\ op'.kind = op.kind /\ op'.node = op.node /\ op'.value = op.value
        /\ op'.status = op.status /\ Effects = 0 /\ Effects' = 1
    BY <1>e, <2>1 DEF Done
  <2>4. ItemsOf' = [ItemsOf EXCEPT ![op.node] = @ + 1]
    <3> DEFINE n == op.node
               h == Len(items')
    <3>1. /\ Len(items') = Len(items) + 1 /\ Len(items) \in Nat
          /\ \A m : Tells(m)' = IF m = n THEN Tells(m) \cup {h} ELSE Tells(m)
      BY <1>3, TellsAdded
    <3>2. h \notin Tells(n)
      BY <3>1 DEF Tells, Listed
    <3>3. n \in Nodes
      BY <2>2
    <3> HIDE DEF n, h
    <3>4. ItemsOf' = [ItemsOf EXCEPT ![n] = @ + 1]
      BY <3>1, <3>2, <3>3, ItemsOfMore
    <3> QED
      BY <3>4 DEF n
  <2>5. Atomic!Monitor
    BY <2>1, <2>2, <2>3, <2>4 DEF Atomic!Monitor, Atomic!Do, ItemsOf
  <2> QED
    BY <2>5 DEF Atomic!Next
<1>4. CASE RemoveItem
  <2>1. /\ pc = "remove" /\ pc' = "removed" /\ UNCHANGED <<value, subscribed>>
        /\ op' = [op EXCEPT !.effect = @ + 1]
    BY <1>4 DEF RemoveItem
  <2>2. op.kind = "unsubscribe" /\ op.node \in Nodes
    BY <1>o, <2>1, AtPlaces DEF OperationInv, OperationOK, Serves
  <2>3. /\ op'.kind = op.kind /\ op'.node = op.node /\ op'.value = op.value
        /\ op'.status = op.status /\ Effects = 0 /\ Effects' = 1
    BY <1>e, <2>1 DEF Done
  <2>4. ItemsOf' = [ItemsOf EXCEPT ![op.node] = @ - 1] /\ ItemsOf[op.node] > 0
    <3>1. Picked \in Tells(op.node) /\ \A m : Tells(m)' = Tells(m) \ {Picked}
      BY <1>4, TellsRemoved
    <3> QED
      BY <2>2, <3>1, ItemsOfLess
  <2>5. Atomic!Release
    BY <2>1, <2>2, <2>3, <2>4 DEF Atomic!Release, Atomic!Do, ItemsOf
  <2> QED
    BY <2>5 DEF Atomic!Next
<1> QED
  BY <1>1, <1>2, <1>3, <1>4

(* The answers of operations that were done.                               *)
LEMMA AtomicSuccess ==
    ASSUME OperationInv,
           Written \/ OutputConverted \/ Preloaded \/ (Converted /\ op.kind = "read")
    PROVE  Atomic!Next
<1>1. pc # "idle" /\ Answer("success") /\ UNCHANGED <<value, ItemsOf>>
  BY ItemsOfKept DEF Written, OutputConverted, Preloaded, Converted, serverVars
<1>2. op.kind \in {"read", "write", "exec", "subscribe"} /\ Effects = 1
  <2>1. \/ pc \in {"written", "output", "preload"}
        \/ pc = "convert" /\ op.kind = "read"
    BY DEF Written, OutputConverted, Preloaded, Converted
  <2> QED
    BY <2>1 DEF OperationInv, OperationOK, Serves, EffectTrue, Done, Effects
<1>3. subscribed' = IF op.kind = "subscribe" THEN subscribed \cup {op.node} ELSE subscribed
  <2>1. CASE Preloaded
    <3>1. op.kind = "subscribe"
      BY <2>1 DEF Preloaded, OperationInv, OperationOK, Serves
    <3> QED
      BY <2>1, <3>1 DEF Preloaded
  <2>2. CASE Written \/ OutputConverted \/ (Converted /\ op.kind = "read")
    <3>1. op.kind # "subscribe"
      BY <2>2 DEF Written, OutputConverted, Converted, OperationInv, OperationOK, Serves
    <3> QED
      BY <2>2, <3>1 DEF Written, OutputConverted, Converted
  <2> QED
    BY <2>1, <2>2
<1>4. Atomic!Answer("success")
  BY <1>1, AtomicAnswer
<1>5. Atomic!Succeed
  BY <1>1, <1>2, <1>3, <1>4 DEF Atomic!Succeed, ItemsOf
<1> QED
  BY <1>5 DEF Atomic!Next

(* The answers of an unsubscribe.                                          *)
LEMMA AtomicRemoved ==
    ASSUME TypeInv, ItemsInv, NothingToRemove \/ ItemRemoved
    PROVE  Atomic!Next
<1>o. OperationInv
  BY DEF TypeInv
<1>1. CASE NothingToRemove
  <2>1. /\ pc = "remove" /\ Listed(op.node) = {} /\ Answer("success")
        /\ UNCHANGED <<value, items, subscribed>>
    BY <1>1 DEF NothingToRemove, serverVars
  <2>2. op.kind = "unsubscribe" /\ op.node \in Nodes
    BY <1>o, <2>1, AtPlaces DEF OperationInv, OperationOK, Serves
  <2>3. ItemsOf[op.node] = 0
    <3>1. Listed(op.node) \cap Live(op.node) = {}
      BY <2>1
    <3> QED
      BY <2>2, <3>1, FS_EmptySet DEF ItemsOf
  <2>4. Atomic!Answer("success")
    BY <1>o, <2>1, AtomicAnswer
  <2>5. Atomic!Succeed
    BY <2>1, <2>2, <2>3, <2>4, ItemsOfKept DEF Atomic!Succeed, ItemsOf
  <2> QED
    BY <2>5 DEF Atomic!Next
<1>2. CASE ItemRemoved
  <2>1. /\ pc = "removed" /\ (Answer("success") \/ Answer("failed"))
        /\ items' = [items EXCEPT ![Picked].listed = FALSE]
        /\ UNCHANGED <<value, subscribed>>
    BY <1>2 DEF ItemRemoved
  <2>2. op.kind = "unsubscribe" /\ Effects = 1
    BY <1>o, <2>1 DEF OperationInv, OperationOK, Serves, EffectTrue, Done, Effects
  <2>3. ItemsOf' = ItemsOf
    <3>1. \A m : Tells(m)' = Tells(m) \ {Picked}
      BY <2>1, TellsUnlisted
    <3>2. \A m : Picked \notin Tells(m)
      BY <2>1 DEF ItemsInv, Tells, Live
    <3>3. \A m : Tells(m)' = Tells(m)
      BY <3>1, <3>2
    <3> QED
      BY <3>3, ItemsOfSame
  <2>4. CASE Answer("success")
    <3>1. Atomic!Answer("success")
      BY <1>o, <2>1, <2>4, AtomicAnswer
    <3>2. Atomic!Succeed
      BY <2>1, <2>2, <2>3, <3>1 DEF Atomic!Succeed, ItemsOf
    <3> QED
      BY <3>2 DEF Atomic!Next
  <2>5. CASE Answer("failed")
    BY <1>o, <2>1, <2>3, <2>5, AtomicFailure
  <2> QED
    BY <2>1, <2>4, <2>5
<1> QED
  BY <1>1, <1>2

(* A service that fails: a new item is taken back.                         *)
LEMMA AtomicServiceFails ==
    ASSUME TypeInv, ItemsInv, ServiceFails
    PROVE  Atomic!Next
<1>o. OperationInv
  BY DEF TypeInv
<1>1. pc # "idle" /\ Answer("failed") /\ UNCHANGED <<value, subscribed>>
  BY DEF ServiceFails
<1>2. CASE pc # "added"
  BY <1>o, <1>1, <1>2, ItemsOfKept, AtomicFailure DEF ServiceFails
<1>3. CASE pc = "added"
  <2>1. items' = [items EXCEPT ![Len(items)].listed = FALSE]
    BY <1>3 DEF ServiceFails
  <2>2. op.kind = "subscribe" /\ Effects = 1 /\ op.node \in Nodes
    BY <1>o, <1>3, AtPlaces DEF OperationInv, OperationOK, Serves, EffectTrue, Done, Effects
  <2>3. Len(items) \in Tells(op.node)
    <3>1. NewItem /\ Len(items) \in 1 .. Len(items)
      BY <1>3 DEF ItemsInv, NewItem, TypeInv, ServerTypes
    <3> QED
      BY <3>1 DEF NewItem, Tells, Listed, Live
  <2>4. ItemsOf' = [ItemsOf EXCEPT ![op.node] = @ - 1]
    BY <2>1, <2>2, <2>3, TellsUnlisted, ItemsOfLess
  <2>5. Atomic!Answer("failed")
    BY <1>o, <1>1, AtomicAnswer
  <2>6. Atomic!Fail
    BY <1>1, <2>2, <2>4, <2>5 DEF Atomic!Fail, ItemsOf
  <2> QED
    BY <2>6 DEF Atomic!Next
<1> QED
  BY <1>2, <1>3

LEMMA AtomicBrowse ==
    ASSUME OperationInv, Browse \/ BrowseNext \/ BrowseEnds
    PROVE  Atomic!Next \/ UNCHANGED Atomic!calls
<1>1. pc \in {"browse", "browseNext"} /\ UNCHANGED <<value, ItemsOf, subscribed>>
  BY ItemsOfKept DEF Browse, BrowseNext, BrowseEnds, serverVars
<1>2. op.kind = "browse" /\ Effects = op.effect
  BY <1>1 DEF OperationInv, OperationOK, Serves, Effects
<1>3. CASE Answer("success")
  <2>1. Atomic!Answer("success")
    BY <1>1, <1>3, AtomicAnswer
  <2>2. Atomic!Succeed
    BY <1>1, <1>2, <2>1 DEF Atomic!Succeed, ItemsOf
  <2> QED
    BY <2>2 DEF Atomic!Next
<1>4. CASE \E page : op' = [op EXCEPT !.page = page]
  <2>1. /\ op'.kind = op.kind /\ op'.node = op.node /\ op'.value = op.value
        /\ op'.status = op.status /\ op'.effect = op.effect
    BY <1>4 DEF OperationInv, OperationOK
  <2>2. Effects' = Effects
    BY <1>2, <2>1 DEF Effects
  <2>3. UNCHANGED callVars
    BY <1>1, <2>1, <2>2 DEF callVars
  <2> QED
    BY <2>3, AtomicStutter
<1>5. Answer("success") \/ \E page : op' = [op EXCEPT !.page = page]
  BY DEF Browse, BrowseNext, BrowseEnds
<1> QED
  BY <1>3, <1>4, <1>5

(* Steps between the call, the effect and the answer.                      *)
LEMMA AtomicProgress ==
    ASSUME OperationInv,
           \/ ReadClass \/ ItemAdded \/ GetArguments \/ InputConverted \/ Called
           \/ Converted /\ op.kind # "read"
           \/ LookUp("java") \/ Fetched("java") \/ SdkStep \/ Publish
    PROVE  UNCHANGED Atomic!calls
<1>1. op' = op /\ UNCHANGED <<value, ItemsOf, subscribed>>
  BY ItemsOfKept
  DEF ReadClass, ItemAdded, GetArguments, InputConverted, Called, Converted, LookUp, Fetched,
      SdkStep, DataChange, NotificationReceived, SdkConversionFails, DataChangeEnds, Publish,
      serverVars
<1>2. CASE pc' = pc
  BY <1>1, <1>2, OnTheWay DEF Effects
<1>3. CASE pc' # pc
  <2>1. /\ pc \in {"class", "added", "arguments", "input", "called", "convert"}
        /\ pc = "convert" => op.kind # "read"
        /\ pc' \in {"value", "preload", "input", "call", "output", "write"}
    BY <1>3 DEF ReadClass, ItemAdded, GetArguments, InputConverted, Called, Converted, LookUp,
                Fetched, SdkStep, DataChange, NotificationReceived, SdkConversionFails, DataChangeEnds,
                Publish
  <2>2. Effects' = Effects
    BY <1>1, <2>1 DEF Effects
  <2> QED
    BY <1>1, <2>2, OnTheWay
<1> QED
  BY <1>2, <1>3

LEMMA AtomicChange ==
    ASSUME OperationInv, NEW m \in Nodes, NEW v, Change(m, v)
    PROVE  Atomic!Change
<1>1. value' = [value EXCEPT ![m] = v] /\ UNCHANGED <<pc, ItemsOf, subscribed>>
  BY ItemsOfKept DEF Change
<1>2. /\ op'.kind = op.kind /\ op'.node = op.node /\ op'.value = op.value
      /\ op'.status = op.status /\ op'.effect = op.effect
  BY DEF Change, OperationInv, OperationOK
<1>3. Effects' = Effects
  BY <1>1, <1>2 DEF Effects
<1>4. m \in DOMAIN value /\ value' = [value EXCEPT ![m] = value'[m]]
  <2>1. DOMAIN value = Nodes
    BY DEF OperationInv
  <2> QED
    BY <1>1, <2>1
<1> QED
  BY <1>1, <1>2, <1>3, <1>4 DEF Atomic!Change, ItemsOf

LEMMA AtomicStep ==
    ASSUME TypeInv, ItemsInv, [Next]_vars
    PROVE  Atomic!Next \/ UNCHANGED Atomic!calls
<1>0. OperationInv
  BY DEF TypeInv
<1>1. CASE UNCHANGED vars
  <2>1. UNCHANGED callVars
    BY <1>1, ItemsOfKept DEF vars, serverVars, callVars, Effects
  <2> QED
    BY <2>1, AtomicStutter
<1>2. CASE Operations
  BY <1>0, <1>2, AtomicBegin DEF Atomic!Next
<1>3. CASE JavaConversionFails \/ WriteRefused
  <2>1. pc # "idle"
    <3>1. CASE WriteRefused
      BY <3>1 DEF WriteRefused
    <3>2. CASE JavaConversionFails
      BY <3>2 DEF JavaConversionFails, ConversionFails, TypeInv, JavaTypes, Converting
    <3> QED
      BY <1>3, <3>1, <3>2
  <2>2. Answer("failed") /\ UNCHANGED <<value, ItemsOf, subscribed>>
    BY <1>3, ItemsOfKept DEF JavaConversionFails, WriteRefused, serverVars
  <2> QED
    BY <1>0, <2>1, <2>2, AtomicFailure
<1>4. CASE SdkStep \/ Publish
  BY <1>0, <1>4, AtomicProgress
<1>5. ASSUME NEW m \in Nodes, NEW v, Change(m, v) PROVE Atomic!Next
  BY <1>0, <1>5, AtomicChange DEF Atomic!Next
<1>6. CASE \/ ReadClass \/ ItemAdded \/ GetArguments \/ InputConverted \/ Called
           \/ LookUp("java") \/ Fetched("java")
  BY <1>0, <1>6, AtomicProgress
<1>7. CASE Converted
  BY <1>0, <1>7, AtomicProgress, AtomicSuccess
<1> QED
  BY <1>0, <1>1, <1>2, <1>3, <1>4, <1>5, <1>6, <1>7, AtomicRead, AtomicEffect, AtomicSuccess,
     AtomicRemoved, AtomicServiceFails, AtomicBrowse DEF Next, JavaStep

(* Every operation is as good as atomic: the client implements the calls   *)
(* of AtomicCalls.                                                         *)
THEOREM Refinement == Spec => OperationsAtomic
<1>1. Init => Atomic!Init
  BY AtomicInit
<1>2. TypeInv /\ ItemsInv /\ [Next]_vars => [Atomic!Next]_(Atomic!calls)
  BY AtomicStep
<1> QED
  BY <1>1, <1>2, ItemsInvariant, PTL DEF Spec, OperationsAtomic, Atomic!Spec

-----------------------------------------------------------------------------
(* The types of a subscribed node.  While a node is preloaded, what the    *)
(* cache has and what the Java thread has still to know are together all   *)
(* that a conversion may ask for; nothing without super types is among     *)
(* what is known already.  Neither thread takes anything out of the cache. *)

NoneUnknown(infos) == \A info \in infos : ~Unknown(info)

CanKnow(type, infos) ==
    ToSet(Needs(type)) \subseteq infos /\ Complete(infos) /\ NoneUnknown(infos)

Convertible(type) == \E infos \in SUBSET Infos : CanKnow(type, infos)

LoadedIn(type, known) == \E infos \in SUBSET known : CanKnow(type, infos)

LoadingIn(type, left, known) ==
    \E infos \in SUBSET known :
        /\ NoneUnknown(infos)
        /\ ToSet(Needs(type)) \subseteq infos \cup left
        /\ \A info \in infos : AsksFor(info) \subseteq infos \cup left

LoadedInv ==
    /\ pc = "preload" => LoadingIn(TypeOf[op.node], ToSet(todo["java"]), cache)
    /\ \A m \in subscribed : LoadedIn(TypeOf[m], cache)

LEMMA LoadedGrows ==
    ASSUME NEW type, NEW known, NEW more, known \subseteq more, LoadedIn(type, known)
    PROVE  LoadedIn(type, more)
BY DEF LoadedIn

LEMMA LoadingGrows ==
    ASSUME NEW type, NEW left, NEW known, NEW more, known \subseteq more,
           LoadingIn(type, left, known)
    PROVE  LoadingIn(type, left, more)
BY DEF LoadingIn

LEMMA LoadingBegun ==
    ASSUME NEW type, NEW known
    PROVE  LoadingIn(type, ToSet(Needs(type)), known)
<1>1. {} \in SUBSET known /\ NoneUnknown({})
  BY DEF NoneUnknown
<1>2. ToSet(Needs(type)) \subseteq {} \cup ToSet(Needs(type))
  OBVIOUS
<1> QED
  BY <1>1, <1>2, Zenon DEF LoadingIn

LEMMA LoadingDone ==
    ASSUME NEW type, NEW known, LoadingIn(type, {}, known)
    PROVE  LoadedIn(type, known)
BY DEF LoadingIn, LoadedIn, CanKnow, Complete

(* The first of what was left is known now: what it asks for is left.      *)
LEMMA LoadingGoesOn ==
    ASSUME NEW type, NEW info, NEW left, NEW known, NEW more,
           LoadingIn(type, {info} \cup left, known), known \subseteq more, info \in more,
           ~Unknown(info)
    PROVE  LoadingIn(type, AsksFor(info) \cup left, more)
<1>1. PICK infos \in SUBSET known :
        /\ NoneUnknown(infos)
        /\ ToSet(Needs(type)) \subseteq infos \cup ({info} \cup left)
        /\ \A i \in infos : AsksFor(i) \subseteq infos \cup ({info} \cup left)
  BY DEF LoadingIn
<1> DEFINE all == infos \cup {info}
           rest == AsksFor(info) \cup left
<1>2. all \in SUBSET more /\ NoneUnknown(all)
  BY <1>1 DEF NoneUnknown
<1>3. ToSet(Needs(type)) \subseteq all \cup rest
  BY <1>1
<1>4. \A i \in all : AsksFor(i) \subseteq all \cup rest
  BY <1>1
<1> HIDE DEF all, rest
<1>5. LoadingIn(type, rest, more)
  BY <1>2, <1>3, <1>4 DEF LoadingIn
<1> QED
  BY <1>5 DEF rest

LEMMA CacheGrows ==
    ASSUME Next
    PROVE  cache \subseteq cache'
<1>1. CASE SdkStep \/ Publish \/ \E m \in Nodes, v \in Values \cup {NoValue} : Change(m, v)
  BY <1>1 DEF SdkStep, DataChange, NotificationReceived, SdkConversionFails, DataChangeEnds,
              ConversionFails, LookUp, Fetched, Publish, Change, typeVars
<1>2. CASE Operations \/ BrowseNext
  BY <1>2 DEF Operations, Begin, BrowseNext, typeVars
<1>3. CASE JavaStep
  <2>1. CASE LookUp("java") \/ Fetched("java")
    BY <2>1 DEF LookUp, Fetched
  <2>2. CASE ~(LookUp("java") \/ Fetched("java"))
    <3>1. cache' = cache \/ UNCHANGED typeVars
      BY <1>3, <2>2, ZenonT(30)
      DEF JavaStep, ServiceFails, ReadClass, ReadValue, JavaConversionFails, ConversionFails,
          Converted, Write, Written, WriteRefused, AddItem, ItemAdded, Preloaded,
          NothingToRemove, RemoveItem, ItemRemoved, GetArguments, InputConverted, Call, Called,
          OutputConverted, Browse, BrowseEnds
    <3> QED
      BY <3>1 DEF typeVars
  <2> QED
    BY <2>1, <2>2
<1> QED
  BY <1>1, <1>2, <1>3 DEF Next

LEMMA LoadedStep ==
    ASSUME TypeInv, LoadedInv, Next
    PROVE  LoadedInv'
<1>t. TodoTypes
  BY DEF TypeInv
<1>c. cache \subseteq cache'
  BY CacheGrows
<1>1. \A m \in subscribed : LoadedIn(TypeOf[m], cache')
  BY <1>c, LoadedGrows DEF LoadedInv
<1>2. CASE ItemAdded
  <2>1. /\ pc' = "preload" /\ op' = op /\ subscribed' = subscribed
        /\ todo' = [todo EXCEPT !["java"] = Needs(TypeOf[op.node])]
    BY <1>2 DEF ItemAdded
  <2>2. todo'["java"] = Needs(TypeOf[op.node])
    BY <1>t, <2>1 DEF TodoTypes, Threads
  <2>3. LoadingIn(TypeOf[op.node], ToSet(todo'["java"]), cache')
    BY <2>2, LoadingBegun
  <2> QED
    BY <1>1, <2>1, <2>3 DEF LoadedInv
<1>3. CASE Preloaded
  <2>1. /\ pc = "preload" /\ todo["java"] = <<>> /\ pc' = "idle"
        /\ cache' = cache /\ subscribed' = subscribed \cup {op.node}
    BY <1>3 DEF Preloaded, Answer, typeVars
  <2>2. ToSet(todo["java"]) = {}
    BY <2>1 DEF ToSet
  <2>3. LoadedIn(TypeOf[op.node], cache')
    BY <2>1, <2>2, LoadingDone DEF LoadedInv
  <2> QED
    BY <1>1, <2>1, <2>3 DEF LoadedInv
<1>4. CASE Operations
  <2>1. /\ \E kind \in {"read", "write", "subscribe", "unsubscribe", "exec", "browse"} :
               pc' = FirstStep[kind]
        /\ subscribed' \subseteq subscribed
    BY <1>4 DEF Operations, Begin
  <2>2. pc' # "preload"
    BY <2>1 DEF FirstStep
  <2> QED
    BY <1>1, <2>1, <2>2 DEF LoadedInv
<1>5. CASE AddItem \/ RemoveItem
  <2>1. pc' \in {"added", "removed"} /\ subscribed' = subscribed
    BY <1>5 DEF AddItem, RemoveItem
  <2> QED
    BY <1>1, <2>1 DEF LoadedInv
<1>6. CASE ~(ItemAdded \/ Preloaded \/ Operations \/ AddItem \/ RemoveItem)
  <2>1. subscribed' = subscribed
    BY <1>6, SubscribedStep
  <2>2. ASSUME pc' = "preload"
        PROVE  /\ pc = "preload" /\ op'.node = op.node
               /\ LoadingIn(TypeOf[op.node], ToSet(todo'["java"]), cache')
    <3>1. /\ pc = "preload" /\ op'.node = op.node
          /\ \/ todo'["java"] = todo["java"]
             \/ LookUp("java") \/ Fetched("java")
      BY <1>6, <2>2, StaysThere DEF ItemPlaces
    <3>2. LoadingIn(TypeOf[op.node], ToSet(todo["java"]), cache)
      BY <3>1 DEF LoadedInv
    <3>3. CASE todo'["java"] = todo["java"]
      BY <1>c, <3>1, <3>2, <3>3, LoadingGrows
    <3>4. CASE LookUp("java") \/ Fetched("java")
      <4> DEFINE s == todo["java"]
                 h == Head(s)
      <4>1. s # <<>> /\ s \in Seq(Infos) /\ "java" \in Threads
        BY <1>t, <3>4 DEF LookUp, Fetched, TodoTypes, Threads
      <4>2. ToSet(s) = {h} \cup ToSet(Tail(s))
        BY <4>1, HeadAndTail
      <4>3. \/ todo' = todo
            \/ Obtained("java") /\ ~Unknown(h) /\ h \in cache'
        BY <3>4 DEF LookUp, Fetched
      <4>4. CASE todo' = todo
        BY <1>c, <3>1, <3>2, <4>4, LoadingGrows
      <4>5. CASE Obtained("java") /\ ~Unknown(h) /\ h \in cache'
        <5>1. PICK q \in Seq(Infos) : /\ todo' = [todo EXCEPT !["java"] = q]
                                      /\ ToSet(q) = AsksFor(h) \cup ToSet(Tail(s))
          BY <1>t, <4>1, <4>5, ObtainedTyped
        <5>2. todo'["java"] = q
          BY <1>t, <4>1, <5>1 DEF TodoTypes
        <5> HIDE DEF h, s
        <5>3. LoadingIn(TypeOf[op.node], {h} \cup ToSet(Tail(s)), cache)
          BY <3>2, <4>2 DEF s
        <5>4. LoadingIn(TypeOf[op.node], AsksFor(h) \cup ToSet(Tail(s)), cache')
          BY <1>c, <4>5, <5>3, LoadingGoesOn
        <5> QED
          BY <3>1, <5>1, <5>2, <5>4
      <4> QED
        BY <4>3, <4>4, <4>5
    <3> QED
      BY <3>1, <3>3, <3>4
  <2> QED
    BY <1>1, <2>1, <2>2 DEF LoadedInv
<1> QED
  BY <1>2, <1>3, <1>4, <1>5, <1>6

LEMMA LoadedInvariant == Spec => [](TypeInv /\ LoadedInv)
<1>1. Init => LoadedInv
  BY DEF Init, LoadedInv
<1>2. TypeInv /\ LoadedInv /\ [Next]_vars => LoadedInv'
  <2> SUFFICES ASSUME TypeInv, LoadedInv, [Next]_vars PROVE LoadedInv'
    OBVIOUS
  <2>1. CASE UNCHANGED vars
    BY <2>1 DEF vars, serverVars, typeVars, LoadedInv
  <2> QED
    BY <2>1, LoadedStep
<1> QED
  BY <1>1, <1>2, TypeInvariant, PTL DEF Spec

(* Once Java was told of a subscription, every type that a conversion of   *)
(* the node's values may ask for is in the cache, whichever thread put it  *)
(* there and whatever failed for other nodes.                              *)
THEOREM TypesPreloadedCorrect == Spec => []TypesPreloaded
<1>1. LoadedInv => TypesPreloaded
  BY DEF LoadedInv, LoadedIn, CanKnow, TypesPreloaded
<1> QED
  BY <1>1, LoadedInvariant, PTL

-----------------------------------------------------------------------------
(* What the SDK's thread has still to know it needs for the first element  *)
(* of the notification in hand: so that the conversion of a node all of    *)
(* whose types can be known does not come upon one that has no super type. *)

KnowInv ==
    todo["sdk"] # <<>> =>
        \A infos \in SUBSET Infos :
            CanKnow(TypeOf[items[sdk[1]].node], infos) => ToSet(todo["sdk"]) \subseteq infos

(* Items keep their nodes, that of the element in hand among them.         *)
LEMMA SdkItemKept ==
    ASSUME TypeInv, Next, sdk # NoElement
    PROVE  items'[sdk[1]].node = items[sdk[1]].node
<1>1. sdk[1] \in 1 .. Len(items)
  BY DEF TypeInv, SdkTypes, Elements
<1> QED
  BY <1>1, ItemsAreKept DEF ItemsKept

LEMMA KnowGoesOn ==
    ASSUME TypeInv, KnowInv, LookUp("sdk") \/ Fetched("sdk")
    PROVE  KnowInv'
<1> DEFINE s == todo["sdk"]
           h == Head(s)
           type == TypeOf[items[sdk[1]].node]
<1>1. TodoTypes /\ "sdk" \in Threads /\ sdk' = sdk /\ items' = items
  BY DEF TypeInv, Threads, LookUp, Fetched, serverVars
<1>2. s # <<>> /\ s \in Seq(Infos)
  BY <1>1 DEF LookUp, Fetched, TodoTypes
<1>3. ToSet(s) = {h} \cup ToSet(Tail(s))
  BY <1>2, HeadAndTail
<1>4. todo' = todo \/ Obtained("sdk")
  BY DEF LookUp, Fetched
<1>5. CASE todo' = todo
  BY <1>1, <1>5 DEF KnowInv
<1>6. CASE Obtained("sdk")
  <2>1. PICK q \in Seq(Infos) : /\ todo' = [todo EXCEPT !["sdk"] = q]
                                /\ ToSet(q) = AsksFor(h) \cup ToSet(Tail(s))
    BY <1>1, <1>2, <1>6, ObtainedTyped
  <2>2. todo'["sdk"] = q
    BY <1>1, <2>1 DEF TodoTypes
  <2>3. ASSUME NEW infos \in SUBSET Infos, CanKnow(type, infos)
        PROVE  ToSet(q) \subseteq infos
    <3>1. ToSet(s) \subseteq infos
      BY <1>2, <2>3 DEF KnowInv
    <3> HIDE DEF s, h
    <3>2. h \in infos /\ ToSet(Tail(s)) \subseteq infos
      BY <1>3, <3>1
    <3>3. AsksFor(h) \subseteq infos
      BY <2>3, <3>2 DEF CanKnow, Complete
    <3> QED
      BY <2>1, <3>2, <3>3
  <2> QED
    BY <1>1, <2>2, <2>3 DEF KnowInv
<1> QED
  BY <1>4, <1>5, <1>6

LEMMA KnowStep ==
    ASSUME TypeInv, KnowInv, Next
    PROVE  KnowInv'
<1>t. SdkTypes /\ TodoTypes
  BY DEF TypeInv
<1>1. CASE sdk' = sdk /\ todo'["sdk"] = todo["sdk"]
  <2>1. CASE todo["sdk"] = <<>>
    BY <1>1, <2>1 DEF KnowInv
  <2>2. CASE todo["sdk"] # <<>>
    <3>1. items'[sdk[1]].node = items[sdk[1]].node
      BY <1>t, <2>2, SdkItemKept DEF SdkTypes
    <3> QED
      BY <1>1, <3>1 DEF KnowInv
  <2> QED
    BY <2>1, <2>2
<1>2. CASE LookUp("sdk") \/ Fetched("sdk")
  BY <1>2, KnowGoesOn
<1>3. CASE DataChange
  <2> DEFINE e == Head(Head(packets))
             type == TypeOf[items[e[1]].node]
  <2>1. /\ items' = items
        /\ \/ sdk' = sdk /\ todo' = todo
           \/ sdk' = e /\ todo' = [todo EXCEPT !["sdk"] = Needs(type)]
    BY <1>3 DEF DataChange
  <2>2. CASE sdk' = sdk /\ todo' = todo
    BY <2>1, <2>2 DEF KnowInv
  <2>3. CASE sdk' = e /\ todo' = [todo EXCEPT !["sdk"] = Needs(type)]
    <3>1. todo'["sdk"] = Needs(type)
      BY <1>t, <2>3 DEF TodoTypes, Threads
    <3>2. TypeOf[items'[sdk'[1]].node] = type
      BY <2>1, <2>3
    <3> HIDE DEF type, e
    <3> QED
      BY <3>1, <3>2 DEF KnowInv, CanKnow
  <2> QED
    BY <2>1, <2>2, <2>3
<1>4. CASE NotificationReceived \/ SdkConversionFails
  <2>1. todo'["sdk"] = <<>>
    BY <1>4, <1>t DEF NotificationReceived, SdkConversionFails, ConversionFails, typeVars,
                      TodoTypes, Threads
  <2> QED
    BY <2>1 DEF KnowInv
<1>5. CASE DataChangeEnds
  BY <1>1, <1>5 DEF DataChangeEnds, typeVars
<1> QED
  BY <1>1, <1>2, <1>3, <1>4, <1>5, SdkUntouched DEF Next, SdkStep

(* Its conversion does not fail unless a type cannot be fetched.           *)
LEMMA Converts ==
    ASSUME TypeInv, KnowInv, SdkConversionFails, "sdk" \notin FetchFails
    PROVE  ~Convertible(TypeOf[items[sdk[1]].node])
<1> SUFFICES ASSUME NEW infos \in SUBSET Infos, CanKnow(TypeOf[items[sdk[1]].node], infos)
             PROVE  FALSE
  BY DEF Convertible
<1>1. todo["sdk"] # <<>> /\ Unknown(Head(todo["sdk"])) /\ todo["sdk"] \in Seq(Infos)
  BY DEF SdkConversionFails, ConversionFails, TypeInv, TodoTypes, Threads
<1>2. ToSet(todo["sdk"]) \subseteq infos
  BY <1>1 DEF KnowInv
<1>3. Head(todo["sdk"]) \in infos
  BY <1>1, <1>2, HeadAndTail
<1> QED
  BY <1>1, <1>3 DEF CanKnow, NoneUnknown

-----------------------------------------------------------------------------
(* Where the value of a node is.  For every item that tells of the node    *)
(* and whose value has been published since it changed, an element with    *)
(* that value comes after all older values of the node, whichever item of  *)
(* the node they are about; or it is in hand; or Java was told it last.    *)

After(ps, k, i, e) ==
    \E k2 \in 1 .. Len(ps) : \E i2 \in 1 .. Len(ps[k2]) :
        (k2 > k \/ (k2 = k /\ i2 > i)) /\ ps[k2][i2] = e

OlderFirst(ps, hand, older, e) ==
    /\ \A k \in 1 .. Len(ps) : \A i \in 1 .. Len(ps[k]) : ps[k][i] \in older => After(ps, k, i, e)
    /\ hand \in older => After(ps, 1, 0, e)

OlderOf(m) == {x \in Elements : items[x[1]].node = m /\ x[2] # value[m]}

CurrentFor(h, m) ==
    LET e == <<h, value[m]>> IN
    /\ OlderFirst(packets, sdk, OlderOf(m), e)
    /\ \/ After(packets, 1, 0, e) \/ sdk = e
       \/ value[m] = NoValue \/ told[m] = value[m]

CurrentInv ==
    "sdk" \notin FetchFails =>
        \A m \in Nodes : Convertible(TypeOf[m]) =>
            \A h \in Tells(m) : h \notin changed => CurrentFor(h, m)

(* Another notification, without older values.                             *)
LEMMA AppendedAfter ==
    ASSUME NEW E, NEW ps \in Seq(Seq(E)), NEW s \in Seq(E), NEW e,
           NEW k, NEW i, After(ps, k, i, e)
    PROVE  After(Append(ps, s), k, i, e)
<1>1. PICK k2, i2 : /\ k2 \in 1 .. Len(ps) /\ i2 \in 1 .. Len(ps[k2])
                    /\ (k2 > k \/ (k2 = k /\ i2 > i)) /\ ps[k2][i2] = e
  BY DEF After
<1>2. k2 \in 1 .. Len(Append(ps, s)) /\ Append(ps, s)[k2] = ps[k2]
  BY <1>1
<1> QED
  BY <1>1, <1>2 DEF After

LEMMA OlderFirstAppended ==
    ASSUME NEW E, NEW ps \in Seq(Seq(E)), NEW s \in Seq(E), NEW hand, NEW older, NEW e,
           \A i \in 1 .. Len(s) : s[i] \notin older,
           \/ OlderFirst(ps, hand, older, e)
           \/ \E i \in 1 .. Len(s) : s[i] = e
    PROVE  OlderFirst(Append(ps, s), hand, older, e)
<1> DEFINE qs == Append(ps, s)
           n == Len(ps)
<1>1. /\ n \in Nat /\ Len(qs) = n + 1 /\ qs[n + 1] = s
      /\ \A k \in 1 .. n : qs[k] = ps[k]
  OBVIOUS
<1>2. ASSUME NEW i \in 1 .. Len(s), s[i] = e
      PROVE  OlderFirst(qs, hand, older, e)
  <2> HIDE DEF qs, n
  <2>1. ASSUME NEW k \in 1 .. n, NEW j PROVE After(qs, k, j, e)
    <3>1. n + 1 \in 1 .. Len(qs) /\ i \in 1 .. Len(qs[n + 1]) /\ n + 1 > k /\ qs[n + 1][i] = e
      BY <1>1, <1>2
    <3> QED
      BY <3>1 DEF After
  <2>2. After(qs, 1, 0, e)
    <3>1. /\ n + 1 \in 1 .. Len(qs) /\ i \in 1 .. Len(qs[n + 1]) /\ qs[n + 1][i] = e
          /\ n + 1 > 1 \/ (n + 1 = 1 /\ i > 0)
      BY <1>1, <1>2
    <3> QED
      BY <3>1 DEF After
  <2>3. ASSUME NEW k \in 1 .. Len(qs), NEW j \in 1 .. Len(qs[k]), qs[k][j] \in older
        PROVE  k \in 1 .. n
    <3>1. k # n + 1
      BY <1>1, <2>3
    <3> QED
      BY <1>1, <3>1
  <2> QED
    BY <2>1, <2>2, <2>3 DEF OlderFirst
<1>3. CASE OlderFirst(ps, hand, older, e)
  <2>1. \A k, j : After(ps, k, j, e) => After(qs, k, j, e)
    BY AppendedAfter
  <2> HIDE DEF qs, n
  <2>2. ASSUME NEW k \in 1 .. Len(qs), NEW j \in 1 .. Len(qs[k]), qs[k][j] \in older
        PROVE  After(qs, k, j, e)
    <3>1. k # n + 1
      BY <1>1, <2>2
    <3>2. k \in 1 .. n /\ qs[k] = ps[k]
      BY <1>1, <3>1
    <3>3. After(ps, k, j, e)
      BY <1>3, <2>2, <3>2 DEF OlderFirst, n
    <3> QED
      BY <2>1, <3>3
  <2>3. hand \in older => After(qs, 1, 0, e)
    BY <1>3, <2>1 DEF OlderFirst
  <2> QED
    BY <2>2, <2>3 DEF OlderFirst, qs
<1> QED
  BY <1>2, <1>3

(* The first element of the first notification is taken: it comes before   *)
(* all that remain.                                                        *)
LEMMA TakenAfter ==
    ASSUME NEW E, NEW ps \in Seq(Seq(E)), NEW qs \in Seq(Seq(E)), ps # <<>>, ps[1] # <<>>,
           Len(qs) = Len(ps), qs[1] = Tail(ps[1]),
           \A k \in 2 .. Len(ps) : qs[k] = ps[k], NEW e
    PROVE  /\ \A k \in 1 .. Len(ps), i \in Nat :
                 After(ps, k, i, e) /\ (k = 1 => i # 0)
                     => After(qs, k, IF k = 1 THEN i - 1 ELSE i, e)
           /\ After(ps, 1, 0, e) => After(qs, 1, 0, e) \/ ps[1][1] = e
<1>1. /\ Len(ps) \in Nat \ {0} /\ ps[1] \in Seq(E)
      /\ Len(ps[1]) \in Nat \ {0} /\ Len(qs[1]) = Len(ps[1]) - 1
      /\ \A i \in 1 .. Len(ps[1]) - 1 : qs[1][i] = ps[1][i + 1]
  <2>1. Len(ps) \in Nat \ {0} /\ ps[1] \in Seq(E)
    OBVIOUS
  <2> QED
    BY <2>1, HeadAndTail
<1>2. ASSUME NEW k \in 1 .. Len(ps), NEW i \in Nat, After(ps, k, i, e), k = 1 => i # 0
      PROVE  After(qs, k, IF k = 1 THEN i - 1 ELSE i, e)
  <2>1. PICK k2, i2 : /\ k2 \in 1 .. Len(ps) /\ i2 \in 1 .. Len(ps[k2])
                      /\ (k2 > k \/ (k2 = k /\ i2 > i)) /\ ps[k2][i2] = e
    BY <1>2 DEF After
  <2>2. CASE k2 = 1
    <3>1. k = 1 /\ i2 > i /\ i2 - 1 \in 1 .. Len(qs[1]) /\ qs[1][i2 - 1] = e /\ i2 - 1 > i - 1
      <4>1. k = 1 /\ i2 > i /\ i # 0 /\ i2 \in 1 .. Len(ps[1])
        BY <1>1, <1>2, <2>1, <2>2
      <4>2. i2 - 1 \in 1 .. Len(ps[1]) - 1 /\ i2 - 1 > i - 1 /\ (i2 - 1) + 1 = i2
        BY <1>1, <4>1
      <4> QED
        BY <1>1, <2>1, <2>2, <4>1, <4>2
    <3> QED
      BY <1>1, <2>2, <3>1 DEF After
  <2>3. CASE k2 # 1
    <3>1. k2 \in 2 .. Len(ps) /\ qs[k2] = ps[k2]
      BY <1>1, <2>1, <2>3
    <3>2. k2 > k \/ (k2 = k /\ i2 > IF k = 1 THEN i - 1 ELSE i)
      BY <2>1, <2>3
    <3> QED
      BY <2>1, <3>1, <3>2 DEF After
  <2> QED
    BY <2>2, <2>3
<1>3. ASSUME After(ps, 1, 0, e), ps[1][1] # e PROVE After(qs, 1, 0, e)
  <2>1. PICK k2, i2 : k2 \in 1 .. Len(ps) /\ i2 \in 1 .. Len(ps[k2]) /\ ps[k2][i2] = e
    BY <1>3 DEF After
  <2>2. CASE k2 = 1
    <3>1. i2 # 1 /\ i2 \in 1 .. Len(ps[1])
      BY <1>3, <2>1, <2>2
    <3>2. i2 - 1 \in 1 .. Len(ps[1]) - 1 /\ (i2 - 1) + 1 = i2 /\ i2 - 1 > 0
      BY <1>1, <3>1
    <3>3. i2 - 1 \in 1 .. Len(qs[1]) /\ qs[1][i2 - 1] = e /\ 1 \in 1 .. Len(qs)
      BY <1>1, <2>1, <2>2, <3>2
    <3> QED
      BY <3>2, <3>3 DEF After
  <2>3. CASE k2 # 1
    <3>1. k2 \in 1 .. Len(qs) /\ qs[k2] = ps[k2] /\ k2 > 1
      BY <1>1, <2>1, <2>3
    <3> QED
      BY <2>1, <3>1 DEF After
  <2> QED
    BY <2>2, <2>3
<1> QED
  BY <1>2, <1>3

LEMMA OlderFirstTaken ==
    ASSUME NEW E, NEW ps \in Seq(Seq(E)), NEW qs \in Seq(Seq(E)), ps # <<>>, ps[1] # <<>>,
           Len(qs) = Len(ps), qs[1] = Tail(ps[1]),
           \A k \in 2 .. Len(ps) : qs[k] = ps[k],
           NEW e, NEW hand, NEW older, OlderFirst(ps, hand, older, e), hand \notin older
    PROVE  OlderFirst(qs, ps[1][1], older, e) /\ OlderFirst(qs, hand, older, e)
<1>0. /\ \A k \in 1 .. Len(ps), i \in Nat :
               After(ps, k, i, e) /\ (k = 1 => i # 0)
                   => After(qs, k, IF k = 1 THEN i - 1 ELSE i, e)
  BY TakenAfter
<1>1. /\ Len(ps) \in Nat \ {0} /\ ps[1] \in Seq(E)
      /\ Len(ps[1]) \in Nat \ {0} /\ Len(qs[1]) = Len(ps[1]) - 1
      /\ \A i \in 1 .. Len(ps[1]) - 1 : qs[1][i] = ps[1][i + 1]
  <2>1. Len(ps) \in Nat \ {0} /\ ps[1] \in Seq(E)
    OBVIOUS
  <2> QED
    BY <2>1, HeadAndTail
<1>2. ASSUME NEW k \in 1 .. Len(qs), NEW i \in 1 .. Len(qs[k]), qs[k][i] \in older
      PROVE  After(qs, k, i, e)
  <2>1. CASE k = 1
    <3>0. i \in 1 .. Len(ps[1]) - 1
      BY <1>1, <2>1
    <3>a. qs[1][i] = ps[1][i + 1] /\ qs[1][i] \in older
      BY <1>1, <1>2, <2>1, <3>0
    <3>b. i + 1 \in 1 .. Len(ps[1]) /\ 1 \in 1 .. Len(ps)
      BY <1>1, <3>0
    <3>1. i + 1 \in 1 .. Len(ps[1]) /\ ps[1][i + 1] \in older /\ 1 \in 1 .. Len(ps)
      BY <3>a, <3>b
    <3>2. After(ps, 1, i + 1, e)
      BY <3>1 DEF OlderFirst
    <3>3. i + 1 \in Nat /\ i + 1 # 0 /\ (i + 1) - 1 = i
      BY <1>1, <2>1
    <3>4. After(qs, 1, (i + 1) - 1, e)
      BY <1>0, <3>1, <3>2, <3>3
    <3> QED
      BY <2>1, <3>3, <3>4
  <2>2. CASE k # 1
    <3>1. k \in 1 .. Len(ps) /\ qs[k] = ps[k]
      BY <1>1, <2>2
    <3>2. After(ps, k, i, e)
      BY <1>2, <3>1 DEF OlderFirst
    <3>3. i \in Nat
      BY <3>1
    <3> QED
      BY <1>0, <2>2, <3>1, <3>2, <3>3
  <2> QED
    BY <2>1, <2>2
<1>3. ps[1][1] \in older => After(qs, 1, 0, e)
  <2> SUFFICES ASSUME ps[1][1] \in older PROVE After(qs, 1, 0, e)
    OBVIOUS
  <2>1. 1 \in 1 .. Len(ps) /\ 1 \in 1 .. Len(ps[1])
    BY <1>1
  <2>2. After(ps, 1, 1, e)
    BY <2>1 DEF OlderFirst
  <2>3. After(qs, 1, 1 - 1, e)
    BY <1>0, <2>1, <2>2
  <2> QED
    BY <2>3
<1> QED
  BY <1>2, <1>3 DEF OlderFirst

(* A notification of which nothing is left ends.                           *)
LEMMA EndedAfter ==
    ASSUME NEW E, NEW ps \in Seq(Seq(E)), ps # <<>>, ps[1] = <<>>, NEW e,
           NEW k \in Nat \ {0}, NEW i, After(ps, k, i, e)
    PROVE  After(Tail(ps), IF k = 1 THEN 1 ELSE k - 1, IF k = 1 THEN 0 ELSE i, e)
<1> DEFINE qs == Tail(ps)
<1>1. /\ Len(ps) \in Nat \ {0} /\ Len(qs) = Len(ps) - 1
      /\ \A j \in 1 .. Len(ps) - 1 : qs[j] = ps[j + 1]
  BY HeadAndTail
<1>2. PICK k2, i2 : /\ k2 \in 1 .. Len(ps) /\ i2 \in 1 .. Len(ps[k2])
                    /\ (k2 > k \/ (k2 = k /\ i2 > i)) /\ ps[k2][i2] = e
  BY DEF After
<1>3. k2 # 1
  BY <1>2
<1> HIDE DEF qs
<1>4. k2 - 1 \in 1 .. Len(qs) /\ qs[k2 - 1] = ps[k2] /\ i2 \in Nat \ {0}
  <2>1. k2 - 1 \in 1 .. Len(ps) - 1 /\ (k2 - 1) + 1 = k2
    BY <1>1, <1>2, <1>3
  <2>2. ps[k2] \in Seq(E)
    BY <1>2
  <2> QED
    BY <1>1, <1>2, <2>1, <2>2
<1>5. CASE k = 1
  <2>1. k2 - 1 > 1 \/ (k2 - 1 = 1 /\ i2 > 0)
    BY <1>1, <1>2, <1>3, <1>4
  <2>2. After(qs, 1, 0, e)
    BY <1>2, <1>4, <2>1 DEF After
  <2> QED
    BY <1>5, <2>2 DEF qs
<1>6. CASE k # 1
  <2>1. k2 - 1 > k - 1 \/ (k2 - 1 = k - 1 /\ i2 > i)
    BY <1>1, <1>2
  <2>2. After(qs, k - 1, i, e)
    BY <1>2, <1>4, <2>1 DEF After
  <2> QED
    BY <1>6, <2>2 DEF qs
<1> QED
  BY <1>5, <1>6

LEMMA OlderFirstEnded ==
    ASSUME NEW E, NEW ps \in Seq(Seq(E)), ps # <<>>, ps[1] = <<>>,
           NEW e, NEW hand, NEW older, OlderFirst(ps, hand, older, e)
    PROVE  OlderFirst(Tail(ps), hand, older, e)
<1> DEFINE qs == Tail(ps)
<1>1. /\ Len(ps) \in Nat \ {0} /\ Len(qs) = Len(ps) - 1
      /\ \A j \in 1 .. Len(ps) - 1 : qs[j] = ps[j + 1]
  BY HeadAndTail
<1>a. \A k \in Nat \ {0} : \A i :
          After(ps, k, i, e) => After(qs, IF k = 1 THEN 1 ELSE k - 1, IF k = 1 THEN 0 ELSE i, e)
  BY EndedAfter
<1> HIDE DEF qs
<1>2. ASSUME NEW k \in 1 .. Len(qs), NEW i \in 1 .. Len(qs[k]), qs[k][i] \in older
      PROVE  After(qs, k, i, e)
  <2>1. k + 1 \in 1 .. Len(ps) /\ qs[k] = ps[k + 1] /\ k + 1 # 1 /\ k + 1 \in Nat \ {0}
        /\ (k + 1) - 1 = k
    BY <1>1
  <2>2. After(ps, k + 1, i, e)
    BY <1>2, <2>1 DEF OlderFirst
  <2>3. After(qs, (k + 1) - 1, i, e)
    BY <1>a, <2>1, <2>2
  <2> QED
    BY <2>1, <2>3
<1>3. hand \in older => After(qs, 1, 0, e)
  <2>1. After(ps, 1, 0, e) => After(qs, 1, 0, e)
    BY <1>a
  <2> QED
    BY <2>1 DEF OlderFirst
<1> QED
  BY <1>2, <1>3 DEF OlderFirst, qs

LEMMA PacketsTyped ==
    ASSUME TypeInv
    PROVE  /\ packets \in Seq(Seq(Elements)) /\ sdk \in Elements \cup {NoElement}
           /\ Len(items) \in Nat /\ NoElement \notin Elements /\ NoElement \notin Elements'
           /\ \A x \in Elements : x[1] \in 1 .. Len(items)
BY DEF TypeInv, ServerTypes, SdkTypes, Elements, NoElement

(* An element under way is an older value of a node after a step only if   *)
(* it was before, as long as the node keeps its value.                     *)
LEMMA OlderKept ==
    ASSUME TypeInv, Next, NEW m, value'[m] = value[m]
    PROVE  \A x \in Elements \cup {NoElement} : x \in OlderOf(m)' => x \in OlderOf(m)
<1> SUFFICES ASSUME NEW x \in Elements \cup {NoElement}, x \in OlderOf(m)'
             PROVE  x \in OlderOf(m)
  OBVIOUS
<1>1. x \in Elements' /\ items'[x[1]].node = m /\ x[2] # value[m]
  BY DEF OlderOf
<1>2. x \in Elements /\ x[1] \in 1 .. Len(items)
  BY <1>1, PacketsTyped
<1>3. items'[x[1]].node = items[x[1]].node
  BY <1>2, ItemsAreKept DEF ItemsKept
<1> QED
  BY <1>1, <1>2, <1>3 DEF OlderOf

LEMMA FewerOlder ==
    ASSUME NEW E, NEW ps \in Seq(Seq(E)), NEW F, E \subseteq F, NEW hand \in F,
           NEW older, NEW still, \A x \in F : x \in still => x \in older,
           NEW e, OlderFirst(ps, hand, older, e)
    PROVE  OlderFirst(ps, hand, still, e)
<1>1. ASSUME NEW k \in 1 .. Len(ps), NEW i \in 1 .. Len(ps[k]), ps[k][i] \in still
      PROVE  After(ps, k, i, e)
  <2>1. ps[k] \in Seq(E)
    OBVIOUS
  <2>2. ps[k][i] \in E
    BY <2>1, ElementOf
  <2>3. ps[k][i] \in older
    BY <1>1, <2>2
  <2> QED
    BY <2>3 DEF OlderFirst
<1> QED
  BY <1>1 DEF OlderFirst

LEMMA OlderFirstKept ==
    ASSUME TypeInv, Next, NEW m, value'[m] = value[m], NEW e,
           OlderFirst(packets, sdk, OlderOf(m), e)
    PROVE  OlderFirst(packets, sdk, OlderOf(m)', e)
<1> DEFINE E == Elements
           F == Elements \cup {NoElement}
           older == OlderOf(m)
           still == OlderOf(m)'
<1>1. /\ packets \in Seq(Seq(E)) /\ E \subseteq F /\ sdk \in F
      /\ \A x \in F : x \in still => x \in older
      /\ OlderFirst(packets, sdk, older, e)
  BY PacketsTyped, OlderKept
<1> HIDE DEF E, F, older, still
<1>2. OlderFirst(packets, sdk, still, e)
  BY <1>1, FewerOlder
<1> QED
  BY <1>2 DEF still

(* Which items tell of a node, and of which the value is published.        *)
LEMMA TellsStep ==
    ASSUME TypeInv, Next, ~Publish, NEW m, NEW h \in Tells(m)', h \notin changed'
    PROVE  h \in Tells(m) /\ h \notin changed /\ value'[m] = value[m]
<1>t. items \in Seq(Items) /\ Len(items) \in Nat /\ value \in [Nodes -> Values \cup {NoValue}]
  BY DEF TypeInv, ServerTypes
<1>1. CASE AddItem
  <2>1. changed' = changed \cup {Len(items) + 1} /\ value' = value
    BY <1>1 DEF AddItem
  <2>2. /\ Len(items') = Len(items) + 1
        /\ Tells(m)' = IF m = op.node THEN Tells(m) \cup {Len(items')} ELSE Tells(m)
    BY <1>1, TellsAdded
  <2> QED
    BY <2>1, <2>2
<1>2. CASE RemoveItem
  <2>1. changed' = changed \ {Picked} /\ value' = value
    BY <1>2 DEF RemoveItem
  <2>2. Tells(m)' = Tells(m) \ {Picked}
    BY <1>2, TellsRemoved
  <2> QED
    BY <2>1, <2>2
<1>3. ASSUME NEW i, items' = [items EXCEPT ![i].listed = FALSE], changed' = changed, value' = value
      PROVE  h \in Tells(m) /\ h \notin changed /\ value'[m] = value[m]
  <2>1. Tells(m)' = Tells(m) \ {i}
    BY <1>3, TellsUnlisted
  <2> QED
    BY <1>3, <2>1
<1>4. CASE ItemRemoved \/ (ServiceFails /\ pc = "added")
  <2>1. changed' = changed /\ value' = value
    BY <1>4 DEF ItemRemoved, ServiceFails
  <2>2. \E i : items' = [items EXCEPT ![i].listed = FALSE]
    BY <1>4, Zenon DEF ItemRemoved, ServiceFails
  <2> QED
    BY <1>3, <2>1, <2>2
<1>5. ASSUME NEW n \in Nodes, NEW v, items' = items, value' = [value EXCEPT ![n] = v],
             changed' = changed \cup Live(n)
      PROVE  h \in Tells(m) /\ h \notin changed /\ value'[m] = value[m]
  <2>1. h \in Tells(m)
    BY <1>5, ItemsSame
  <2>2. m # n
    BY <1>5, <2>1 DEF Tells
  <2> QED
    BY <1>t, <1>5, <2>1, <2>2
<1>6. CASE Write
  <2>1. items' = items /\ value' = [value EXCEPT ![op.node] = op.value] /\ pc = "write"
        /\ changed' = changed \cup Live(op.node)
    BY <1>6 DEF Write
  <2>2. op.node \in Nodes
    BY <2>1, AtPlaces
  <2> QED
    BY <1>5, <2>1, <2>2
<1>7. CASE \E n \in Nodes, v \in Values \cup {NoValue} : Change(n, v)
  <2>1. PICK n \in Nodes, v \in Values \cup {NoValue} : Change(n, v)
    BY <1>7
  <2>2. items' = items /\ value' = [value EXCEPT ![n] = v] /\ changed' = changed \cup Live(n)
    BY <2>1 DEF Change
  <2> QED
    BY <1>5, <2>2
<1>8. CASE ~(\/ AddItem \/ RemoveItem \/ ItemRemoved \/ (ServiceFails /\ pc = "added") \/ Write
             \/ \E n \in Nodes, v \in Values \cup {NoValue} : Change(n, v))
  <2>1. value' = value /\ changed' = changed
    <3>1. ASSUME JavaStep PROVE value' = value /\ changed' = changed
      BY <1>8, <3>1, ZenonT(30)
      DEF JavaStep, ServiceFails, ReadClass, ReadValue, JavaConversionFails, Converted, Written,
          WriteRefused, ItemAdded, Preloaded, NothingToRemove, GetArguments, InputConverted,
          Call, Called, OutputConverted, Browse, BrowseEnds, LookUp, Fetched, serverVars
    <3>2. ASSUME Operations \/ BrowseNext \/ SdkStep PROVE value' = value /\ changed' = changed
      BY <3>2 DEF Operations, Begin, BrowseNext, SdkStep, DataChange, NotificationReceived,
                  SdkConversionFails, DataChangeEnds, LookUp, Fetched, serverVars
    <3> QED
      BY <1>8, <3>1, <3>2 DEF Next
  <2>2. items' = items
    BY <1>8, ItemsStep
  <2> QED
    BY <2>1, <2>2, ItemsSame
<1> QED
  BY <1>1, <1>2, <1>4, <1>6, <1>7, <1>8

(* Nothing of the node is published, taken or told.                        *)
LEMMA CurrentKept ==
    ASSUME TypeInv, Next, NEW h, NEW m, CurrentFor(h, m), value'[m] = value[m],
           packets' = packets, sdk' = sdk, told'[m] = told[m]
    PROVE  CurrentFor(h, m)'
<1> DEFINE e == <<h, value[m]>>
<1>1. e' = e
  OBVIOUS
<1>2. OlderFirst(packets, sdk, OlderOf(m), e) /\ (After(packets, 1, 0, e) \/ sdk = e
         \/ value[m] = NoValue \/ told[m] = value[m])
  BY DEF CurrentFor
<1>3. CurrentFor(h, m)' = (/\ OlderFirst(packets', sdk', OlderOf(m)', e')
                           /\ \/ After(packets', 1, 0, e') \/ sdk' = e'
                              \/ value'[m] = NoValue \/ told'[m] = value'[m])
  BY DEF CurrentFor, OlderFirst, After
<1> HIDE DEF e
<1>4. OlderFirst(packets', sdk', OlderOf(m)', e')
  BY <1>1, <1>2, OlderFirstKept
<1> QED
  BY <1>1, <1>2, <1>3, <1>4

(* What CurrentFor says in the next state.                                 *)
LEMMA CurrentNext ==
    ASSUME NEW h, NEW m, NEW e, e = <<h, value'[m]>>,
           OlderFirst(packets', sdk', OlderOf(m)', e),
           \/ After(packets', 1, 0, e) \/ sdk' = e
           \/ value'[m] = NoValue \/ told'[m] = value'[m]
    PROVE  CurrentFor(h, m)'
<1> DEFINE f == <<h, value[m]>>
<1>1. f' = e
  OBVIOUS
<1>2. CurrentFor(h, m)' = (/\ OlderFirst(packets', sdk', OlderOf(m)', f')
                           /\ \/ After(packets', 1, 0, f') \/ sdk' = f'
                              \/ value'[m] = NoValue \/ told'[m] = value'[m])
  BY DEF CurrentFor, OlderFirst, After
<1> HIDE DEF f
<1> QED
  BY <1>1, <1>2

LEMMA CurrentPublished ==
    ASSUME TypeInv, CurrentInv, Publish, "sdk" \notin FetchFails,
           NEW m \in Nodes, Convertible(TypeOf[m]), NEW h \in Tells(m)
    PROVE  CurrentFor(h, m)'
<1> DEFINE e == <<h, value[m]>>
           s == SetToSeq(Reports)
           E == Elements
           older == OlderOf(m)
<1>n. Next
  BY DEF Next
<1>1. /\ packets' = Append(packets, s) /\ changed' = {}
      /\ value' = value /\ items' = items /\ sdk' = sdk /\ told' = told
  BY DEF Publish, Reports
<1>2. /\ s \in Seq(E)
      /\ \A i \in 1 .. Len(s) : \E g \in changed : s[i] = <<g, value[items[g].node]>>
      /\ \A g \in changed : \E i \in 1 .. Len(s) : s[i] = <<g, value[items[g].node]>>
  BY NotificationMade DEF TypeInv
<1>3. packets \in Seq(Seq(E))
  BY PacketsTyped
<1>o. OlderOf(m)' = older
  BY <1>1 DEF OlderOf, Elements
<1>4. items[h].node = m
  BY DEF Tells, Live
<1>5. \A i \in 1 .. Len(s) : s[i] \notin older
  <2> SUFFICES ASSUME NEW i \in 1 .. Len(s), s[i] \in older PROVE FALSE
    OBVIOUS
  <2>1. PICK g \in changed : s[i] = <<g, value[items[g].node]>>
    BY <1>2
  <2>2. s[i][1] = g /\ s[i][2] = value[items[g].node]
    BY <2>1
  <2> HIDE DEF s
  <2> QED
    BY <2>2 DEF OlderOf
<1>6. CASE h \in changed
  <2>1. \E i \in 1 .. Len(s) : s[i] = e
    BY <1>2, <1>4, <1>6
  <2> HIDE DEF s, E, older, e
  <2>2. OlderFirst(packets', sdk, older, e)
    BY <1>1, <1>2, <1>3, <1>5, <2>1, OlderFirstAppended
  <2>3. After(packets', 1, 0, e)
    <3>1. PICK i \in 1 .. Len(s) : s[i] = e
      BY <2>1
    <3> DEFINE n == Len(packets)
    <3>2. n \in Nat /\ Len(packets') = n + 1 /\ packets'[n + 1] = s /\ i > 0
      BY <1>1, <1>2, <1>3
    <3>3. n + 1 \in 1 .. Len(packets') /\ (n + 1 > 1 \/ (n + 1 = 1 /\ i > 0))
      BY <3>2
    <3> HIDE DEF n
    <3> QED
      BY <3>1, <3>2, <3>3 DEF After
  <2>4. e = <<h, value'[m]>>
    BY <1>1 DEF e
  <2> QED
    BY <1>1, <1>o, <2>2, <2>3, <2>4, CurrentNext
<1>7. CASE h \notin changed
  <2>1. /\ OlderFirst(packets, sdk, older, e)
        /\ \/ After(packets, 1, 0, e) \/ sdk = e
           \/ value[m] = NoValue \/ told[m] = value[m]
    BY <1>7 DEF CurrentInv, CurrentFor
  <2>4. e = <<h, value'[m]>>
    BY <1>1
  <2> HIDE DEF s, E, older, e
  <2>2. OlderFirst(packets', sdk, older, e)
    BY <1>1, <1>2, <1>3, <1>5, <2>1, OlderFirstAppended
  <2>3. After(packets, 1, 0, e) => After(packets', 1, 0, e)
    BY <1>1, <1>2, <1>3, AppendedAfter
  <2> QED
    BY <1>1, <1>o, <2>1, <2>2, <2>3, <2>4, CurrentNext
<1> QED
  BY <1>6, <1>7

LEMMA CurrentTaken ==
    ASSUME TypeInv, CurrentInv, DataChange, "sdk" \notin FetchFails,
           NEW m \in Nodes, Convertible(TypeOf[m]), NEW h \in Tells(m), h \notin changed
    PROVE  CurrentFor(h, m)'
<1> DEFINE e == <<h, value[m]>>
           E == Elements
           older == OlderOf(m)
           first == packets[1][1]
<1>1. /\ packets # <<>> /\ packets[1] # <<>> /\ Head(packets) = packets[1]
      /\ packets \in Seq(Seq(E)) /\ sdk = NoElement /\ NoElement \notin older
      /\ Len(packets) \in Nat \ {0} /\ packets[1] \in Seq(E)
  <2>1. packets # <<>> /\ Head(packets) # <<>> /\ sdk = NoElement
    BY DEF DataChange
  <2>2. packets \in Seq(Seq(E)) /\ NoElement \notin older
    BY PacketsTyped DEF OlderOf
  <2> QED
    BY <2>1, <2>2
<1>2. /\ value' = value /\ items' = items /\ told' = told /\ changed' = changed
      /\ packets' = [packets EXCEPT ![1] = Tail(@)]
  BY DEF DataChange
<1>3. first = Head(Head(packets)) /\ Tail(packets[1]) \in Seq(E) /\ first \in E
  <2> DEFINE p == packets[1]
  <2>1. p \in Seq(E) /\ p # <<>> /\ Head(packets) = p
    BY <1>1
  <2> HIDE DEF p, E
  <2> QED
    BY <2>1, HeadAndTail DEF p
<1>4. sdk' = first \/ (sdk' = sdk /\ (~items[first[1]].listed \/ first[2] = NoValue))
  BY <1>3 DEF DataChange
<1>5. /\ packets' \in Seq(Seq(E)) /\ Len(packets') = Len(packets)
      /\ packets'[1] = Tail(packets[1])
      /\ \A k \in 2 .. Len(packets) : packets'[k] = packets[k]
  <2> DEFINE t == Tail(packets[1])
             n == Len(packets)
  <2>1. packets = [k \in 1 .. n |-> packets[k]] /\ packets' = [packets EXCEPT ![1] = t]
    BY <1>1, <1>2
  <2>2. t \in Seq(E) /\ n \in Nat \ {0} /\ \A k \in 1 .. n : packets[k] \in Seq(E)
    BY <1>1, <1>3
  <2> HIDE DEF t, n, E
  <2>3. packets' = [k \in 1 .. n |-> IF k = 1 THEN t ELSE packets[k]]
    BY <2>1
  <2>4. packets' \in [1 .. n -> Seq(E)]
    BY <2>2, <2>3
  <2>5. packets' \in Seq(Seq(E)) /\ Len(packets') = n
    BY <2>2, <2>4, SequenceMade
  <2>6. packets'[1] = t /\ \A k \in 2 .. n : packets'[k] = packets[k]
    BY <2>2, <2>3
  <2> QED
    BY <2>5, <2>6 DEF t, n
<1>o. OlderOf(m)' = older /\ e = <<h, value'[m]>>
  BY <1>2 DEF OlderOf, Elements
<1>6. /\ OlderFirst(packets, sdk, older, e)
      /\ \/ After(packets, 1, 0, e) \/ sdk = e
         \/ value[m] = NoValue \/ told[m] = value[m]
  BY DEF CurrentInv, CurrentFor
<1>7. items[h].listed /\ h \in 1 .. Len(items) /\ e[1] = h /\ e[2] = value[m] /\ e # NoElement
  BY DEF Tells, Listed, NoElement
<1> HIDE DEF e, E, older
<1>8. OlderFirst(packets', first, older, e) /\ OlderFirst(packets', sdk, older, e)
  BY <1>1, <1>5, <1>6, OlderFirstTaken
<1>9. OlderFirst(packets', sdk', older, e)
  BY <1>4, <1>8
<1>10. After(packets, 1, 0, e) => After(packets', 1, 0, e) \/ first = e
  BY <1>1, <1>5, TakenAfter
<1>11. \/ After(packets', 1, 0, e) \/ sdk' = e
       \/ value[m] = NoValue \/ told[m] = value[m]
  BY <1>1, <1>4, <1>6, <1>7, <1>10
<1> QED
  BY <1>2, <1>9, <1>11, <1>o, CurrentNext

(* The element in hand is told, or was of a node that cannot be converted. *)
LEMMA CurrentTold ==
    ASSUME TypeInv, CurrentInv, KnowInv, NotificationReceived \/ SdkConversionFails,
           "sdk" \notin FetchFails,
           NEW m \in Nodes, Convertible(TypeOf[m]), NEW h \in Tells(m), h \notin changed
    PROVE  CurrentFor(h, m)'
<1> DEFINE e == <<h, value[m]>>
           E == Elements
           older == OlderOf(m)
<1>1. /\ value' = value /\ items' = items /\ packets' = packets
      /\ sdk' = NoElement /\ sdk # NoElement
  <2>1. SdkConversionFails => sdk # NoElement
    BY SdkIdle DEF SdkConversionFails, ConversionFails
  <2> QED
    BY <2>1 DEF NotificationReceived, SdkConversionFails, serverVars
<1>2. sdk \in E /\ NoElement \notin older /\ told \in [Nodes -> Values \cup {NoValue}]
  BY <1>1, PacketsTyped DEF OlderOf, TypeInv, ToldTypes
<1>o. OlderOf(m)' = older /\ e = <<h, value'[m]>>
  BY <1>1 DEF OlderOf, Elements
<1>6. /\ OlderFirst(packets, sdk, older, e)
      /\ \/ After(packets, 1, 0, e) \/ sdk = e
         \/ value[m] = NoValue \/ told[m] = value[m]
  BY DEF CurrentInv, CurrentFor
<1>7. items[h].node = m /\ e[1] = h /\ e[2] = value[m]
  BY DEF Tells, Listed
<1>8. OlderFirst(packets', sdk', older, e)
  BY <1>1, <1>2, <1>6 DEF OlderFirst
<1>9. CASE NotificationReceived
  <2>1. told' = [told EXCEPT ![items[sdk[1]].node] = sdk[2]]
    BY <1>9 DEF NotificationReceived, Tell
  <2>2. CASE items[sdk[1]].node = m
    <3>1. told'[m] = sdk[2]
      BY <1>2, <2>1, <2>2
    <3>2. sdk[2] # value[m] => After(packets, 1, 0, e)
      <4>1. sdk[2] # value[m] => sdk \in older
        BY <1>2, <2>2 DEF OlderOf
      <4> HIDE DEF older, e
      <4> QED
        BY <1>6, <4>1 DEF OlderFirst
    <3> HIDE DEF older, e
    <3> QED
      BY <1>1, <1>8, <1>o, <3>1, <3>2, CurrentNext
  <2>3. CASE items[sdk[1]].node # m
    <3>1. told'[m] = told[m] /\ sdk # e
      BY <1>2, <1>7, <2>1, <2>3
    <3> HIDE DEF older, e
    <3> QED
      BY <1>1, <1>6, <1>8, <1>o, <3>1, CurrentNext
  <2> QED
    BY <2>2, <2>3
<1>10. CASE SdkConversionFails
  <2>1. told' = told
    BY <1>10 DEF SdkConversionFails
  <2>2. items[sdk[1]].node # m
    BY <1>10, Converts
  <2>3. sdk # e
    BY <1>7, <2>2
  <2> HIDE DEF older, e
  <2> QED
    BY <1>1, <1>6, <1>8, <1>o, <2>1, <2>3, CurrentNext
<1> QED
  BY <1>9, <1>10

LEMMA CurrentEnded ==
    ASSUME TypeInv, CurrentInv, DataChangeEnds, "sdk" \notin FetchFails,
           NEW m \in Nodes, Convertible(TypeOf[m]), NEW h \in Tells(m), h \notin changed
    PROVE  CurrentFor(h, m)'
<1> DEFINE e == <<h, value[m]>>
           E == Elements
           older == OlderOf(m)
<1>1. /\ packets # <<>> /\ packets[1] = <<>> /\ packets' = Tail(packets)
      /\ value' = value /\ items' = items /\ told' = told /\ sdk' = sdk
      /\ packets \in Seq(Seq(E))
  <2>1. /\ packets # <<>> /\ Head(packets) = <<>> /\ packets' = Tail(packets)
        /\ value' = value /\ items' = items /\ told' = told /\ sdk' = sdk
    BY DEF DataChangeEnds
  <2>2. packets \in Seq(Seq(E))
    BY PacketsTyped
  <2>3. Head(packets) = packets[1]
    BY <2>1, <2>2
  <2> QED
    BY <2>1, <2>2, <2>3
<1>o. OlderOf(m)' = older /\ e = <<h, value'[m]>>
  BY <1>1 DEF OlderOf, Elements
<1>6. /\ OlderFirst(packets, sdk, older, e)
      /\ \/ After(packets, 1, 0, e) \/ sdk = e
         \/ value[m] = NoValue \/ told[m] = value[m]
  BY DEF CurrentInv, CurrentFor
<1> HIDE DEF e, E, older
<1>7. OlderFirst(packets', sdk', older, e)
  BY <1>1, <1>6, OlderFirstEnded
<1>8. After(packets, 1, 0, e) => After(packets', 1, 0, e)
  <2>1. 1 \in Nat \ {0}
    OBVIOUS
  <2> SUFFICES ASSUME After(packets, 1, 0, e) PROVE After(packets', 1, 0, e)
    OBVIOUS
  <2>2. After(Tail(packets), IF 1 = 1 THEN 1 ELSE 1 - 1, IF 1 = 1 THEN 0 ELSE 0, e)
    BY <1>1, <2>1, EndedAfter
  <2> QED
    BY <1>1, <2>2
<1> QED
  BY <1>1, <1>6, <1>7, <1>8, <1>o, CurrentNext

LEMMA CurrentStep ==
    ASSUME TypeInv, KnowInv, CurrentInv, Next
    PROVE  CurrentInv'
<1> SUFFICES ASSUME "sdk" \notin FetchFails, NEW m \in Nodes, Convertible(TypeOf[m]),
                    NEW h \in Tells(m)', h \notin changed'
             PROVE  CurrentFor(h, m)'
  BY DEF CurrentInv
<1>1. CASE Publish
  <2>1. items' = items
    BY <1>1 DEF Publish
  <2>2. h \in Tells(m)
    BY <2>1, ItemsSame
  <2> QED
    BY <1>1, <2>2, CurrentPublished
<1>2. CASE ~Publish
  <2>1. h \in Tells(m) /\ h \notin changed /\ value'[m] = value[m]
    BY <1>2, TellsStep
  <2>2. CASE DataChange
    BY <2>1, <2>2, CurrentTaken
  <2>3. CASE NotificationReceived \/ SdkConversionFails
    BY <2>1, <2>3, CurrentTold
  <2>4. CASE DataChangeEnds
    BY <2>1, <2>4, CurrentEnded
  <2>5. CASE ~(DataChange \/ NotificationReceived \/ SdkConversionFails \/ DataChangeEnds)
    <3>1. packets' = packets /\ sdk' = sdk /\ told' = told
      <4>1. ASSUME JavaStep PROVE packets' = packets /\ sdk' = sdk /\ told' = told
        BY <4>1, ZenonT(30)
        DEF JavaStep, ServiceFails, ReadClass, ReadValue, JavaConversionFails, Converted, Write,
            Written, WriteRefused, AddItem, ItemAdded, Preloaded, NothingToRemove, RemoveItem,
            ItemRemoved, GetArguments, InputConverted, Call, Called, OutputConverted, Browse,
            BrowseEnds, LookUp, Fetched, serverVars
      <4>2. ASSUME \/ Operations \/ BrowseNext \/ LookUp("sdk") \/ Fetched("sdk")
                   \/ \E n \in Nodes, v \in Values \cup {NoValue} : Change(n, v)
            PROVE  packets' = packets /\ sdk' = sdk /\ told' = told
        BY <4>2 DEF Operations, Begin, BrowseNext, LookUp, Fetched, Change, serverVars
      <4> QED
        BY <1>2, <2>5, <4>1, <4>2 DEF Next, SdkStep
    <3>2. CurrentFor(h, m)
      BY <2>1 DEF CurrentInv
    <3> QED
      BY <2>1, <3>1, <3>2, CurrentKept
  <2> QED
    BY <2>2, <2>3, <2>4, <2>5
<1> QED
  BY <1>1, <1>2

LEMMA CurrentInvariant == Spec => [](TypeInv /\ ItemsInv /\ LoadedInv /\ KnowInv /\ CurrentInv)
<1>1. Init => KnowInv /\ CurrentInv
  BY DEF Init, KnowInv, CurrentInv, Threads, Tells, Listed
<1>2. TypeInv /\ KnowInv /\ CurrentInv /\ [Next]_vars => KnowInv' /\ CurrentInv'
  <2> SUFFICES ASSUME TypeInv, KnowInv, CurrentInv, [Next]_vars PROVE KnowInv' /\ CurrentInv'
    OBVIOUS
  <2>1. CASE UNCHANGED vars
    <3>1. /\ UNCHANGED <<items, changed, packets, value, sdk, told, todo>>
          /\ \A m : OlderOf(m)' = OlderOf(m) /\ Tells(m)' = Tells(m)
      BY <2>1, ItemsSame DEF vars, serverVars, typeVars, OlderOf, Elements
    <3>2. ASSUME NEW h, NEW m, CurrentFor(h, m) PROVE CurrentFor(h, m)'
      <4> DEFINE e == <<h, value[m]>>
      <4>1. /\ OlderFirst(packets, sdk, OlderOf(m), e)
            /\ \/ After(packets, 1, 0, e) \/ sdk = e
               \/ value[m] = NoValue \/ told[m] = value[m]
        BY <3>2 DEF CurrentFor
      <4>2. e = <<h, value'[m]>>
        BY <3>1
      <4> HIDE DEF e
      <4> QED
        BY <3>1, <4>1, <4>2, CurrentNext
    <3>3. KnowInv'
      BY <3>1 DEF KnowInv
    <3>4. CurrentInv'
      BY <3>1, <3>2 DEF CurrentInv
    <3> QED
      BY <3>3, <3>4
  <2> QED
    BY <2>1, KnowStep, CurrentStep
<1> QED
  BY <1>1, <1>2, ItemsInvariant, LoadedInvariant, PTL DEF Spec

(* When nothing is under way Java has been told the value that a           *)
(* subscribed node has now, whatever it subscribed, wrote and unsubscribed *)
(* and whatever answers were late, as long as the SDK's thread can get the *)
(* types it has to know.                                                   *)
THEOREM CurrentCorrect == Spec => []Current
<1>1. TypeInv /\ ItemsInv /\ LoadedInv /\ CurrentInv => Current
  <2> SUFFICES ASSUME TypeInv, ItemsInv, LoadedInv, CurrentInv, "sdk" \notin FetchFails,
                      changed = {}, packets = <<>>, NEW m \in subscribed, value[m] # NoValue
               PROVE  told[m] = value[m]
    BY DEF Current
  <2>1. m \in Nodes /\ cache \subseteq Infos
    BY DEF TypeInv, ToldTypes, TodoTypes
  <2>2. PICK h \in Tells(m) : TRUE
    BY DEF ItemsInv
  <2>3. Convertible(TypeOf[m])
    BY <2>1 DEF LoadedInv, LoadedIn, Convertible
  <2>4. CurrentFor(h, m)
    BY <2>1, <2>2, <2>3 DEF CurrentInv
  <2>5. sdk = NoElement
    BY DEF TypeInv, SdkTypes
  <2>6. sdk # <<h, value[m]>>
    <3>1. h # 0
      BY DEF Tells, Listed
    <3> QED
      BY <2>5, <3>1 DEF NoElement
  <2>7. ~After(packets, 1, 0, <<h, value[m]>>)
    BY DEF After
  <2> QED
    BY <2>4, <2>6, <2>7 DEF CurrentFor
<1> QED
  BY <1>1, CurrentInvariant, PTL
=============================================================================
