------------------------- MODULE EventDeliveryProofs -------------------------
(***************************************************************************)
(* Theorems about EventDelivery, for any event types with any variables,   *)
(* any requests that the server fails and any number of events: the fields *)
(* of an event type are the nearest of their names, and each event reaches *)
(* the client's Java once, in order, with its own values.                  *)
(***************************************************************************)
EXTENDS EventDelivery, FiniteSetTheorems, SequenceTheorems, TLAPS

-----------------------------------------------------------------------------
(* Induction over the types: the least counterexample.                     *)

LEMMA LeastNat ==
    ASSUME NEW T \in SUBSET Nat, T # {}
    PROVE  \E n \in T : \A m \in T : n <= m
<1> DEFINE Below == {1 .. n : n \in T}
<1>1. Below \subseteq FiniteSubsetsOf(Nat)
  <2>1. \A n \in Nat : IsFiniteSet(1 .. n)
    BY FS_Interval
  <2> QED
    BY <2>1 DEF FiniteSubsetsOf
<1>2. PICK b \in Below : \A c \in Below : ~ (<<c, b>> \in StrictSubsetOrdering(Nat))
  <2>1. IsWellFoundedOn(StrictSubsetOrdering(Nat), FiniteSubsetsOf(Nat))
    BY FS_StrictSubsetOrderingWellFounded
  <2>2. Below # {}
    OBVIOUS
  <2> HIDE DEF Below
  <2> QED
    BY <1>1, <2>1, <2>2, WFMin, Zenon
<1>3. PICK n \in T : b = 1 .. n
  BY <1>2
<1>4. ASSUME NEW m \in T PROVE n <= m
  <2>1. ~ (<<1 .. m, 1 .. n>> \in StrictSubsetOrdering(Nat))
    BY <1>2, <1>3
  <2>2. /\ 1 .. m \in SUBSET Nat /\ 1 .. n \in SUBSET Nat
    OBVIOUS
  <2>3. ~(1 .. m \subseteq 1 .. n) \/ 1 .. m = 1 .. n
    BY <2>1, <2>2, Zenon DEF StrictSubsetOrdering
  <2>4. m < n => 1 .. m \subseteq 1 .. n /\ n \in 1 .. n /\ n \notin 1 .. m
    OBVIOUS
  <2> QED
    BY <2>3, <2>4
<1> QED
  BY <1>3, <1>4

(* A function may be defined by its values at smaller arguments: above is  *)
(* the set of arguments that have one, down says which, and step takes the *)
(* value there to the value here.                                          *)
Descends(above, down) == \A t \in above : down[t] \in 0 .. t - 1

Follows(f, n, start, above, down, step) ==
    \A t \in 0 .. n :
       f[t] = IF t \in above THEN step[t][f[down[t]]] ELSE start[t]

LEMMA DownwardDefinition ==
    ASSUME NEW n \in Nat, NEW values, NEW start \in [0 .. n -> values],
           NEW above \in SUBSET (0 .. n), NEW down, Descends(above, down),
           NEW step \in [0 .. n -> [values -> values]]
    PROVE  \E f \in [0 .. n -> values] : Follows(f, n, start, above, down, step)
<1> USE DEF Descends, Follows
<1> DEFINE Defined(f, k) == Follows(f, k, start, above, down, step)
           Undefinable == {k \in 0 .. n : ~ \E f \in [0 .. n -> values] : Defined(f, k)}
<1>1. Undefinable = {}
  <2> SUFFICES ASSUME Undefinable # {} PROVE FALSE
    OBVIOUS
  <2>1. PICK k \in Undefinable : \A m \in Undefinable : k <= m
    <3>1. Undefinable \in SUBSET Nat
      OBVIOUS
    <3> HIDE DEF Undefinable
    <3> QED
      BY <3>1, LeastNat
  <2>2. k \in 0 .. n
    BY <2>1
  <2>3. PICK f \in [0 .. n -> values] : \A t \in 0 .. k - 1 :
           f[t] = IF t \in above THEN step[t][f[down[t]]] ELSE start[t]
    <3>1. CASE k = 0
      BY <3>1
    <3>2. CASE k > 0
      <4>1. k - 1 \in 0 .. n /\ ~(k <= k - 1)
        BY <2>2, <3>2
      <4>2. k - 1 \notin Undefinable
        BY <2>1, <4>1
      <4>3. \E f \in [0 .. n -> values] : Defined(f, k - 1)
        BY <4>1, <4>2
      <4> QED
        BY <4>3
    <3>3. k = 0 \/ k > 0
      BY <2>2
    <3> QED
      BY <3>1, <3>2, <3>3, Zenon
  <2> DEFINE g == [t \in 0 .. n |->
                      IF t = k
                      THEN IF k \in above THEN step[k][f[down[k]]] ELSE start[k]
                      ELSE f[t]]
  <2>4. g \in [0 .. n -> values]
    <3>1. k \in above => down[k] \in 0 .. n /\ f[down[k]] \in values
      BY <2>2, <2>3
    <3>2. k \in above => step[k][f[down[k]]] \in values
      BY <2>2, <3>1
    <3> QED
      BY <2>2, <2>3, <3>2
  <2>5. Defined(g, k)
    <3> SUFFICES ASSUME NEW t \in 0 .. k
                 PROVE  g[t] = IF t \in above THEN step[t][g[down[t]]]
                                              ELSE start[t]
      OBVIOUS
    <3>1. t \in 0 .. n
      BY <2>2
    <3>2. t \in above => /\ down[t] \in 0 .. n /\ down[t] # k
                         /\ g[down[t]] = f[down[t]]
      BY <2>2, <3>1
    <3>3. CASE t = k
      BY <3>1, <3>2, <3>3
    <3>4. CASE t # k
      <4>1. t \in 0 .. k - 1
        BY <2>2, <3>4
      <4> QED
        BY <2>3, <3>1, <3>2, <3>4, <4>1
    <3> QED
      BY <3>3, <3>4
  <2> QED
    BY <2>1, <2>4, <2>5
<1>2. n \in 0 .. n
  OBVIOUS
<1> QED
  BY <1>1, <1>2

-----------------------------------------------------------------------------
(* The line of a type.                                                     *)

LEMMA Ids == /\ TypeCount \in Nat
             /\ EventTypeIds = 0 .. TypeCount
             /\ ModelTypes = EventTypeIds \ {0}
             /\ \A t \in ModelTypes : SuperOf[t] \in 0 .. t - 1 /\ SuperOf[t] \in EventTypeIds
<1>1. /\ TypeCount \in Nat
      /\ \A t \in 1 .. TypeCount : SuperOf[t] \in 0 .. t - 1
  BY EventTypesAssumption DEF ModelTypes
<1>2. /\ ModelTypes = 1 .. TypeCount
      /\ EventTypeIds = {0} \cup 1 .. TypeCount
  BY DEF EventTypeIds, ModelTypes, BaseEventType
<1>3. EventTypeIds = 0 .. TypeCount /\ ModelTypes = EventTypeIds \ {0}
  BY <1>1, <1>2
<1>4. ASSUME NEW t \in ModelTypes
      PROVE  SuperOf[t] \in 0 .. t - 1 /\ SuperOf[t] \in EventTypeIds
  <2>1. SuperOf[t] \in 0 .. t - 1 /\ t \in 1 .. TypeCount
    BY <1>1, <1>2
  <2> QED
    BY <1>1, <1>3, <2>1
<1> QED
  BY <1>1, <1>3, <1>4

LEMMA LineDefinition ==
    /\ Line \in [EventTypeIds -> Seq(EventTypeIds)]
    /\ \A t \in EventTypeIds :
          Line[t] = IF t = 0 THEN <<t>> ELSE <<t>> \o Line[SuperOf[t]]
<1> DEFINE lines == Seq(EventTypeIds)
           start == [t \in 0 .. TypeCount |-> <<t>>]
           step  == [t \in 0 .. TypeCount |-> [line \in lines |-> <<t>> \o line]]
<1>1. start \in [0 .. TypeCount -> lines]
  BY Ids
<1>2. step \in [0 .. TypeCount -> [lines -> lines]]
  BY Ids
<1>3. PICK f \in [0 .. TypeCount -> lines] : \A t \in 0 .. TypeCount :
         f[t] = IF t \in ModelTypes THEN step[t][f[SuperOf[t]]] ELSE start[t]
  <2>1. TypeCount \in Nat /\ ModelTypes \in SUBSET (0 .. TypeCount)
    BY Ids
  <2>2. Descends(ModelTypes, SuperOf)
    BY Ids DEF Descends
  <2> HIDE DEF lines, start, step
  <2>3. PICK f \in [0 .. TypeCount -> lines] :
           Follows(f, TypeCount, start, ModelTypes, SuperOf, step)
    BY <1>1, <1>2, <2>1, <2>2, DownwardDefinition
  <2> QED
    BY <2>3 DEF Follows
<1>4. \A t \in EventTypeIds :
         f[t] = IF t = BaseEventType THEN <<t>> ELSE <<t>> \o f[SuperOf[t]]
  <2> SUFFICES ASSUME NEW t \in EventTypeIds
               PROVE  f[t] = IF t = BaseEventType THEN <<t>>
                                                  ELSE <<t>> \o f[SuperOf[t]]
    OBVIOUS
  <2>1. CASE t \in ModelTypes
    <3>1. f[t] = step[t][f[SuperOf[t]]]
      BY <1>3, <2>1, Ids
    <3>2. f[SuperOf[t]] \in lines
      BY <1>3, <2>1, Ids
    <3>3. step[t][f[SuperOf[t]]] = <<t>> \o f[SuperOf[t]]
      BY <3>2, Ids
    <3> QED
      BY <2>1, <3>1, <3>3, Ids DEF BaseEventType
  <2>2. CASE t = 0
    BY <1>3, <2>2, Ids DEF BaseEventType
  <2> QED
    BY <2>1, <2>2, Ids
<1>5. f = [t \in EventTypeIds |->
              IF t = BaseEventType THEN <<t>> ELSE <<t>> \o f[SuperOf[t]]]
  BY <1>3, <1>4, Ids
<1>6. Line = [t \in EventTypeIds |->
                 IF t = BaseEventType THEN <<t>> ELSE <<t>> \o Line[SuperOf[t]]]
  <2> HIDE DEF lines, start, step
  <2> QED
    BY <1>5, Zenon DEF Line
<1>7. \A t \in EventTypeIds :
         Line[t] = IF t = 0 THEN <<t>> ELSE <<t>> \o Line[SuperOf[t]]
  BY <1>6 DEF BaseEventType
<1>8. \A t \in EventTypeIds : Line[t] \in Seq(EventTypeIds)
  <2> DEFINE bad == {t \in EventTypeIds : Line[t] \notin Seq(EventTypeIds)}
  <2> SUFFICES ASSUME bad # {} PROVE FALSE
    OBVIOUS
  <2>1. PICK t \in bad : \A u \in bad : t <= u
    <3>1. bad \in SUBSET Nat
      BY Ids
    <3> HIDE DEF bad
    <3> QED
      BY <3>1, LeastNat
  <2>2. /\ t \in EventTypeIds /\ Line[t] \notin Seq(EventTypeIds)
        /\ \A u \in EventTypeIds : Line[u] \notin Seq(EventTypeIds) => t <= u
    BY <2>1, Zenon
  <2> HIDE DEF bad
  <2>3. <<t>> \in Seq(EventTypeIds)
    BY <2>2
  <2>4. CASE t = 0
    <3>1. Line[t] = <<t>>
      BY <1>7, <2>2, <2>4, Zenon
    <3> QED
      BY <2>2, <2>3, <3>1
  <2>5. CASE t # 0
    <3>1. SuperOf[t] \in EventTypeIds /\ ~(t <= SuperOf[t])
      BY <2>2, <2>5, Ids
    <3>2. Line[SuperOf[t]] \in Seq(EventTypeIds)
      BY <2>2, <3>1, Zenon
    <3>3. Line[t] = <<t>> \o Line[SuperOf[t]]
      BY <1>7, <2>2, <2>5, Zenon
    <3>4. Line[t] \in Seq(EventTypeIds)
      BY <2>3, <3>2, <3>3, ConcatProperties
    <3> QED
      BY <2>2, <3>4
  <2> QED
    BY <2>4, <2>5
<1> QED
  BY <1>6, <1>7, <1>8

(* From the type up to BaseEventType, every time to the super type.        *)
IsLine(line, t) ==
    /\ line \in Seq(EventTypeIds)
    /\ Len(line) > 0 /\ line[1] = t /\ line[Len(line)] = 0
    /\ \A i \in 1 .. Len(line) - 1 : line[i] # 0 /\ line[i + 1] = SuperOf[line[i]]
    /\ \A i, j \in 1 .. Len(line) : i < j => line[j] < line[i]

LEMMA LongerLine ==
    ASSUME NEW t \in EventTypeIds, t # 0, NEW line, IsLine(line, SuperOf[t])
    PROVE  /\ IsLine(<<t>> \o line, t)
           /\ Len(<<t>> \o line) = Len(line) + 1
           /\ \A i \in 1 .. Len(line) : (<<t>> \o line)[i + 1] = line[i]
<1> DEFINE longer == <<t>> \o line
<1>1. /\ line \in Seq(EventTypeIds) /\ Len(line) \in Nat /\ Len(line) > 0
      /\ <<t>> \in Seq(EventTypeIds) /\ Len(<<t>>) = 1
  BY DEF IsLine
<1>2. /\ longer \in Seq(EventTypeIds)
      /\ Len(longer) = Len(line) + 1
      /\ longer[1] = t
      /\ \A i \in 1 .. Len(line) : longer[i + 1] = line[i]
  BY <1>1
<1> HIDE DEF longer
<1>3. t \in ModelTypes /\ SuperOf[t] \in 0 .. t - 1
  BY Ids
<1>4. \A i \in 1 .. Len(line) : line[i] \in Nat /\ line[i] < t
  <2> SUFFICES ASSUME NEW i \in 1 .. Len(line) PROVE line[i] \in Nat /\ line[i] < t
    OBVIOUS
  <2>1. line[i] \in Nat /\ (i = 1 \/ line[i] < line[1]) /\ line[1] = SuperOf[t]
    <3>1. line[i] \in EventTypeIds /\ line[1] = SuperOf[t]
      BY <1>1 DEF IsLine
    <3>2. 1 \in 1 .. Len(line) /\ (i = 1 \/ 1 < i)
      BY <1>1
    <3>3. i = 1 \/ line[i] < line[1]
      BY <3>2 DEF IsLine
    <3> QED
      BY <3>1, <3>3, Ids
  <2> QED
    BY <1>3, <2>1, Ids
<1>5. ASSUME NEW i \in 1 .. Len(longer) - 1
      PROVE  longer[i] # 0 /\ longer[i + 1] = SuperOf[longer[i]]
  <2>1. CASE i = 1
    BY <1>1, <1>2, <2>1 DEF IsLine
  <2>2. CASE i # 1
    <3>1. i - 1 \in 1 .. Len(line) - 1 /\ i \in 1 .. Len(line)
      BY <1>1, <1>2, <2>2
    <3>2. longer[i] = line[i - 1] /\ longer[i + 1] = line[i]
      <4>1. i - 1 \in 1 .. Len(line) /\ (i - 1) + 1 = i
        BY <1>1, <3>1
      <4> QED
        BY <1>2, <3>1, <4>1
    <3>3. line[i - 1] # 0 /\ line[(i - 1) + 1] = SuperOf[line[i - 1]]
      BY <3>1 DEF IsLine
    <3>4. (i - 1) + 1 = i
      BY <3>1
    <3> QED
      BY <3>2, <3>3, <3>4
  <2> QED
    BY <2>1, <2>2
<1>6. ASSUME NEW i \in 1 .. Len(longer), NEW j \in 1 .. Len(longer), i < j
      PROVE  longer[j] < longer[i]
  <2>1. j - 1 \in 1 .. Len(line) /\ (j - 1) + 1 = j
    BY <1>1, <1>2, <1>6
  <2>2. longer[j] = line[j - 1]
    BY <1>2, <2>1
  <2>3. CASE i = 1
    BY <1>2, <1>4, <2>1, <2>2, <2>3
  <2>4. CASE i # 1
    <3>1. i - 1 \in 1 .. Len(line) /\ (i - 1) + 1 = i /\ i - 1 < j - 1
      BY <1>1, <1>2, <1>6, <2>1, <2>4
    <3>2. longer[i] = line[i - 1]
      BY <1>2, <3>1
    <3> QED
      BY <2>1, <2>2, <3>1, <3>2 DEF IsLine
  <2> QED
    BY <2>3, <2>4
<1>7. longer[Len(longer)] = 0
  <2>1. Len(line) \in 1 .. Len(line) /\ Len(longer) = Len(line) + 1
    BY <1>1, <1>2
  <2> QED
    BY <1>2, <2>1 DEF IsLine
<1> QED
  BY <1>1, <1>2, <1>5, <1>6, <1>7 DEF IsLine, longer

LEMMA Lines == \A t \in EventTypeIds : IsLine(Line[t], t)
<1> DEFINE bad == {t \in EventTypeIds : ~IsLine(Line[t], t)}
<1> SUFFICES ASSUME bad # {} PROVE FALSE
  OBVIOUS
<1>1. PICK t \in bad : \A u \in bad : t <= u
  <2>1. bad \in SUBSET Nat
    BY Ids
  <2> HIDE DEF bad
  <2> QED
    BY <2>1, LeastNat
<1>2. CASE t = 0
  <2>1. Line[t] = <<0>> /\ 0 \in EventTypeIds
    BY <1>1, <1>2, LineDefinition
  <2>2. IsLine(<<0>>, 0)
    BY <2>1 DEF IsLine
  <2> QED
    BY <1>1, <1>2, <2>1, <2>2
<1>3. CASE t # 0
  <2>1. SuperOf[t] \in EventTypeIds /\ SuperOf[t] \notin bad
    BY <1>1, <1>3, Ids
  <2>2. Line[t] = <<t>> \o Line[SuperOf[t]]
    BY <1>1, <1>3, LineDefinition
  <2>3. IsLine(<<t>> \o Line[SuperOf[t]], t)
    BY <1>1, <1>3, <2>1, LongerLine
  <2> QED
    BY <1>1, <2>2, <2>3
<1> QED
  BY <1>2, <1>3

-----------------------------------------------------------------------------
(* The variables of a name.                                                *)

LEMMA NamedOne ==
    ASSUME NEW t \in EventTypeIds, NEW v \in ToSet(Members[t]),
           NEW w \in ToSet(Members[t]), NameOf[v] = NameOf[w]
    PROVE  v = w
<1> DEFINE names == [i \in DOMAIN Members[t] |-> NameOf[Members[t][i]]]
<1>1. \A i, j \in DOMAIN Members[t] : names[i] = names[j] => i = j
  BY EventTypesAssumption DEF IsInjective
<1>2. PICK i \in DOMAIN Members[t] : v = Members[t][i]
  BY DEF ToSet
<1>3. PICK j \in DOMAIN Members[t] : w = Members[t][j]
  BY DEF ToSet
<1> QED
  BY <1>1, <1>2, <1>3

LEMMA OwnType ==
    ASSUME NEW t \in EventTypeIds, NEW u \in EventTypeIds,
           NEW v \in ToSet(Members[t]), v \in ToSet(Members[u])
    PROVE  t = u
BY EventTypesAssumption

LEMMA LeastPlace ==
    ASSUME NEW places \in SUBSET Nat, NEW k \in places, \A j \in places : k <= j
    PROVE  Min(places) = k
<1>1. \A j \in places : (\A y \in places : j <= y) => j = k
  OBVIOUS
<1> QED
  BY <1>1, Zenon DEF Min

(* Nearest is what the first type declares that declares the name.         *)
LEMMA NearestAt ==
    ASSUME NEW t \in EventTypeIds, NEW name, NEW k \in DOMAIN Line[t],
           Named(Line[t][k], name) # {},
           \A j \in DOMAIN Line[t] : j < k => Named(Line[t][j], name) = {}
    PROVE  /\ Nearest(t, name) \in Named(Line[t][k], name)
           /\ \A v \in Named(Line[t][k], name) : v = Nearest(t, name)
<1> DEFINE places == {j \in DOMAIN Line[t] : Named(Line[t][j], name) # {}}
<1>1. IsLine(Line[t], t)
  BY Lines
<1>2. DOMAIN Line[t] = 1 .. Len(Line[t]) /\ Len(Line[t]) \in Nat
  BY <1>1 DEF IsLine
<1>3. k \in places /\ places \in SUBSET Nat
  BY <1>2
<1>4. ASSUME NEW j \in places PROVE k <= j
  <2>1. j \in DOMAIN Line[t] /\ Named(Line[t][j], name) # {}
    OBVIOUS
  <2>2. ~(j < k)
    BY <2>1
  <2> QED
    BY <1>2, <2>1, <2>2
<1>5. Min(places) = k
  <2> HIDE DEF places
  <2> QED
    BY <1>3, <1>4, LeastPlace
<1>6. Nearest(t, name) = CHOOSE v \in Named(Line[t][k], name) : TRUE
  <2>1. Nearest(t, name) = IF places = {} THEN NoVariable
                           ELSE CHOOSE v \in Named(Line[t][Min(places)], name) : TRUE
    BY DEF Nearest
  <2> QED
    BY <1>3, <1>5, <2>1
<1>7. Nearest(t, name) \in Named(Line[t][k], name)
  BY <1>6
<1>8. Line[t][k] \in EventTypeIds
  BY <1>1, <1>2 DEF IsLine
<1> QED
  BY <1>7, <1>8, NamedOne DEF Named

LEMMA NearestNone ==
    ASSUME NEW t \in EventTypeIds, NEW name,
           \A j \in DOMAIN Line[t] : Named(Line[t][j], name) = {}
    PROVE  Nearest(t, name) = NoVariable
BY DEF Nearest

LEMMA FirstPlace ==
    ASSUME NEW t \in EventTypeIds, NEW name, NEW j \in DOMAIN Line[t],
           Named(Line[t][j], name) # {}
    PROVE  \E k \in DOMAIN Line[t] :
              /\ k <= j
              /\ Named(Line[t][k], name) # {}
              /\ \A i \in DOMAIN Line[t] : i < k => Named(Line[t][i], name) = {}
<1> DEFINE places == {i \in DOMAIN Line[t] : Named(Line[t][i], name) # {}}
<1>1. DOMAIN Line[t] = 1 .. Len(Line[t]) /\ Len(Line[t]) \in Nat
  BY Lines DEF IsLine
<1>2. j \in places /\ places \in SUBSET Nat
  BY <1>1
<1>3. PICK k \in places : \A i \in places : k <= i
  <2> HIDE DEF places
  <2> QED
    BY <1>2, LeastNat
<1>4. ASSUME NEW i \in DOMAIN Line[t], i < k PROVE Named(Line[t][i], name) = {}
  <2>1. ~(k <= i)
    BY <1>1, <1>4
  <2> QED
    BY <1>3, <2>1
<1>5. k <= j
  BY <1>2, <1>3
<1>6. k \in DOMAIN Line[t] /\ Named(Line[t][k], name) # {}
  BY <1>3
<1> QED
  BY <1>4, <1>5, <1>6

(* A variable is the nearest of its name if no type of the line declares   *)
(* the name before its own.                                                *)
LEMMA IsNearest ==
    ASSUME NEW t \in EventTypeIds, NEW k \in DOMAIN Line[t],
           NEW v \in ToSet(Members[Line[t][k]])
    PROVE  v = Nearest(t, NameOf[v]) <=>
              \A j \in DOMAIN Line[t] : j < k => Named(Line[t][j], NameOf[v]) = {}
<1>1. v \in Named(Line[t][k], NameOf[v])
  BY DEF Named
<1>2. ASSUME \A j \in DOMAIN Line[t] : j < k => Named(Line[t][j], NameOf[v]) = {}
      PROVE  v = Nearest(t, NameOf[v])
  BY <1>1, <1>2, NearestAt
<1>3. ASSUME v = Nearest(t, NameOf[v]),
             NEW j \in DOMAIN Line[t], j < k, Named(Line[t][j], NameOf[v]) # {}
      PROVE  FALSE
  <2>1. PICK i \in DOMAIN Line[t] :
              /\ i <= j
              /\ Named(Line[t][i], NameOf[v]) # {}
              /\ \A m \in DOMAIN Line[t] : m < i => Named(Line[t][m], NameOf[v]) = {}
    BY <1>3, FirstPlace
  <2>2. v \in Named(Line[t][i], NameOf[v])
    BY <1>3, <2>1, NearestAt
  <2>3. /\ IsLine(Line[t], t)
        /\ DOMAIN Line[t] = 1 .. Len(Line[t])
    BY Lines DEF IsLine
  <2>4. Line[t][i] \in EventTypeIds /\ Line[t][k] \in EventTypeIds
    BY <2>3 DEF IsLine
  <2>5. Line[t][i] = Line[t][k]
    BY <2>2, <2>4, OwnType DEF Named
  <2>6. i < k
    BY <1>3, <2>1, <2>3
  <2>7. Line[t][k] < Line[t][i]
    BY <2>3, <2>6 DEF IsLine
  <2> QED
    BY <2>4, <2>5, <2>7, Ids
<1> QED
  BY <1>2, <1>3

LEMMA InheritedNearest ==
    ASSUME NEW t \in ModelTypes, NEW name, Named(t, name) = {}
    PROVE  Nearest(t, name) = Nearest(SuperOf[t], name)
<1> DEFINE line == Line[t]
           rest == Line[SuperOf[t]]
<1>1. t \in EventTypeIds /\ t # 0 /\ SuperOf[t] \in EventTypeIds
  BY Ids
<1>2. line = <<t>> \o rest
  BY <1>1, LineDefinition
<1>3. IsLine(rest, SuperOf[t]) /\ IsLine(line, t)
  BY <1>1, Lines
<1>4. /\ Len(line) = Len(rest) + 1
      /\ \A i \in 1 .. Len(rest) : line[i + 1] = rest[i]
  BY <1>1, <1>2, <1>3, LongerLine
<1>5. /\ DOMAIN line = 1 .. Len(line) /\ DOMAIN rest = 1 .. Len(rest)
      /\ Len(rest) \in Nat /\ line[1] = t
  BY <1>3 DEF IsLine
<1> HIDE DEF line, rest
<1>6. CASE \A j \in DOMAIN rest : Named(rest[j], name) = {}
  <2>1. ASSUME NEW j \in DOMAIN line PROVE Named(line[j], name) = {}
    <3>1. CASE j = 1
      BY <1>5, <3>1
    <3>2. CASE j # 1
      <4>1. j - 1 \in 1 .. Len(rest) /\ (j - 1) + 1 = j
        BY <1>4, <1>5, <3>2
      <4>2. line[j] = rest[j - 1]
        BY <1>4, <4>1
      <4> QED
        BY <1>5, <1>6, <4>1, <4>2
    <3> QED
      BY <3>1, <3>2
  <2> QED
    BY <1>1, <1>6, <2>1, NearestNone DEF line, rest
<1>7. ASSUME NEW j \in DOMAIN rest, Named(rest[j], name) # {}
      PROVE  Nearest(t, name) = Nearest(SuperOf[t], name)
  <2>1. PICK k \in DOMAIN rest :
              /\ k <= j
              /\ Named(rest[k], name) # {}
              /\ \A i \in DOMAIN rest : i < k => Named(rest[i], name) = {}
    BY <1>1, <1>7, FirstPlace DEF rest
  <2>2. k + 1 \in DOMAIN line /\ line[k + 1] = rest[k]
    BY <1>4, <1>5
  <2>3. ASSUME NEW i \in DOMAIN line, i < k + 1
        PROVE  Named(line[i], name) = {}
    <3>1. CASE i = 1
      BY <1>5, <3>1
    <3>2. CASE i # 1
      <4>1. i - 1 \in 1 .. Len(rest) /\ (i - 1) + 1 = i /\ i - 1 < k
        BY <1>4, <1>5, <2>3, <3>2
      <4>2. line[i] = rest[i - 1]
        BY <1>4, <4>1
      <4> QED
        BY <1>5, <2>1, <4>1, <4>2
    <3> QED
      BY <3>1, <3>2
  <2>4. Nearest(SuperOf[t], name) \in Named(rest[k], name)
    BY <1>1, <2>1, NearestAt DEF rest
  <2>5. \A v \in Named(line[k + 1], name) : v = Nearest(t, name)
    BY <1>1, <2>1, <2>2, <2>3, NearestAt DEF line
  <2> QED
    BY <2>2, <2>4, <2>5
<1> QED
  BY <1>6, <1>7

-----------------------------------------------------------------------------
(* The registry of the server.                                             *)

Registry ==
    /\ DOMAIN eventTypes \subseteq ModelTypes
    /\ \A t \in DOMAIN eventTypes : eventTypes[t] = SuperOf[t]
    /\ eventFields = UNION {Entries(t) : t \in DOMAIN eventTypes}

LEMMA RegisteredNamed ==
    ASSUME Registry, NEW t \in EventTypeIds, NEW name
    PROVE  Registered(t, name) = IF t \in DOMAIN eventTypes THEN Named(t, name) ELSE {}
<1>1. ASSUME NEW v, v \in Registered(t, name)
      PROVE  t \in DOMAIN eventTypes /\ v \in Named(t, name)
  <2>1. PICK u \in DOMAIN eventTypes : <<t, name, v>> \in Entries(u)
    BY <1>1 DEF Registered, Registry
  <2>2. PICK w \in ToSet(Members[u]) : <<t, name, v>> = <<u, NameOf[w], w>>
    BY <2>1 DEF Entries, Element
  <2> QED
    BY <2>1, <2>2 DEF Named
<1>2. ASSUME NEW v, t \in DOMAIN eventTypes, v \in Named(t, name)
      PROVE  v \in Registered(t, name)
  <2>1. v \in Variables
    BY <1>2 DEF Named, Variables
  <2>2. <<t, name, v>> \in Entries(t)
    BY <1>2 DEF Named, Entries, Element
  <2> QED
    BY <1>2, <2>1, <2>2 DEF Registered, Registry
<1> QED
  BY <1>1, <1>2

(* What the registry finds for a name is what the type means by it.        *)
LEMMA FieldNodeIdNearest ==
    ASSUME Registry, NEW t \in EventTypeIds, NEW name,
           FieldNodeId(t, name) # NoVariable
    PROVE  FieldNodeId(t, name) = Nearest(t, name)
<1> DEFINE values == Variables \cup {NoVariable}
           found(u) == CHOOSE v \in Registered(u, name) : TRUE
           start == [u \in 0 .. TypeCount |->
                        IF Registered(u, name) # {} THEN found(u) ELSE NoVariable]
           above == {u \in DOMAIN eventTypes : Registered(u, name) = {}}
           step  == [u \in 0 .. TypeCount |-> [v \in values |-> v]]
           Walks(w) == w = [u \in EventTypeIds |->
                               IF Registered(u, name) # {} THEN found(u)
                               ELSE IF u \in DOMAIN eventTypes THEN w[eventTypes[u]]
                               ELSE NoVariable]
<1>1. start \in [0 .. TypeCount -> values]
  BY DEF Registered
<1>2. step \in [0 .. TypeCount -> [values -> values]]
  OBVIOUS
<1>3. above \in SUBSET (0 .. TypeCount) /\ TypeCount \in Nat
  BY Ids DEF Registry
<1>4. Descends(above, eventTypes)
  BY Ids DEF Registry, Descends
<1>5. PICK f \in [0 .. TypeCount -> values] :
         Follows(f, TypeCount, start, above, eventTypes, step)
  <2> HIDE DEF values, start, above, step
  <2> QED
    BY <1>1, <1>2, <1>3, <1>4, DownwardDefinition
<1>6. Walks(f)
  <2>1. ASSUME NEW u \in EventTypeIds
        PROVE  f[u] = IF Registered(u, name) # {} THEN found(u)
                      ELSE IF u \in DOMAIN eventTypes THEN f[eventTypes[u]]
                      ELSE NoVariable
    <3>1. u \in 0 .. TypeCount
      BY Ids
    <3>2. f[u] = IF u \in above THEN step[u][f[eventTypes[u]]] ELSE start[u]
      BY <1>5, <3>1 DEF Follows
    <3>3. u \in above => f[eventTypes[u]] \in values
      BY <1>5, Ids DEF Registry
    <3>4. u \in above => step[u][f[eventTypes[u]]] = f[eventTypes[u]]
      BY <3>1, <3>3
    <3> QED
      BY <3>1, <3>2, <3>4
  <2>2. DOMAIN f = EventTypeIds
    BY <1>5, Ids
  <2> QED
    BY <1>5, <2>1, <2>2
<1> DEFINE walk == CHOOSE w : Walks(w)
<1>7. Walks(walk)
  <2> HIDE DEF Walks
  <2> QED
    BY <1>6, Zenon
<1>8. FieldNodeId(t, name) = walk[t]
  BY Zenon DEF FieldNodeId
<1> HIDE DEF walk
<1>9. \A u \in EventTypeIds : walk[u] = NoVariable \/ walk[u] = Nearest(u, name)
  <2> DEFINE bad == {u \in EventTypeIds :
                        ~(walk[u] = NoVariable \/ walk[u] = Nearest(u, name))}
  <2> SUFFICES ASSUME bad # {} PROVE FALSE
    OBVIOUS
  <2>1. PICK u \in bad : \A s \in bad : u <= s
    <3>1. bad \in SUBSET Nat
      BY Ids
    <3> HIDE DEF bad
    <3> QED
      BY <3>1, LeastNat
  <2>2. u \in EventTypeIds
    BY <2>1
  <2>3. walk[u] = IF Registered(u, name) # {} THEN found(u)
                  ELSE IF u \in DOMAIN eventTypes THEN walk[eventTypes[u]]
                  ELSE NoVariable
    BY <1>7, <2>2
  <2>4. CASE Registered(u, name) # {}
    <3>1. found(u) \in Named(u, name)
      BY <2>2, <2>4, RegisteredNamed
    <3>2. IsLine(Line[u], u) /\ 1 \in DOMAIN Line[u] /\ Line[u][1] = u
      BY <2>2, Lines DEF IsLine
    <3>3. \A j \in DOMAIN Line[u] : ~(j < 1)
      BY <3>2 DEF IsLine
    <3>4. found(u) = Nearest(u, name)
      <4> HIDE DEF found
      <4> QED
        BY <2>2, <3>1, <3>2, <3>3, NearestAt
    <3> QED
      BY <2>1, <2>3, <2>4, <3>4
  <2>5. CASE Registered(u, name) = {} /\ u \in DOMAIN eventTypes
    <3>1. u \in ModelTypes /\ eventTypes[u] = SuperOf[u]
      BY <2>5 DEF Registry
    <3>2. Named(u, name) = {}
      BY <2>2, <2>5, RegisteredNamed
    <3>3. SuperOf[u] \in EventTypeIds /\ SuperOf[u] \notin bad
      BY <2>1, <3>1, Ids
    <3>4. Nearest(u, name) = Nearest(SuperOf[u], name)
      BY <3>1, <3>2, InheritedNearest
    <3> QED
      BY <2>1, <2>3, <2>5, <3>1, <3>3, <3>4
  <2> QED
    BY <2>1, <2>3, <2>4, <2>5
<1> QED
  BY <1>8, <1>9

-----------------------------------------------------------------------------
(* The invariants.                                                         *)

(* The server: what is left to examine, what is registered, asked, heard   *)
(* and fired.                                                              *)
EventRecords == [type : ModelTypes, given : SUBSET Variables]

ServerInv ==
    /\ Registry
    /\ toExamine \subseteq ModelTypes
    /\ DOMAIN eventTypes \cap toExamine = {}
    /\ asked # {} => toExamine = {}
    /\ listening \subseteq asked /\ asked \subseteq Asynchronous
    /\ reported \in 0 .. MaxEvents
    /\ fired \in Seq(EventRecords) /\ Len(fired) <= reported
    /\ fired # <<>> => asked # {}
    /\ serverDown \in BOOLEAN
    /\ serverDown => \E t \in asked : HasSubtypes(t)

(* The client: the subscription under way has no item in the list until    *)
(* the server is asked for one, and none at the server before that.        *)
Fields  == [variable : Variables, failed : BOOLEAN]
Steps   == {"idle", "browse", "fields", "collected", "create", "created"}
Collects(pc) == pc \in {"browse", "fields", "collected"}
Names(l) == [i \in DOMAIN l |-> NameOf[l[i]]]

ClientInv ==
    /\ op \in [pc : Steps, type : EventTypeIds, at : EventTypeIds,
               rest : Seq(Variables), fields : Seq(Fields)]
    /\ tried \subseteq Wanted
    /\ DOMAIN list \subseteq tried
    /\ DOMAIN items \subseteq DOMAIN list
    /\ \A t \in DOMAIN list : list[t] \in Seq(Variables)
    /\ \A t \in DOMAIN items : items[t] = Names(list[t])
    /\ Collects(op.pc) => op.type \in tried \ DOMAIN list
    /\ op.pc = "create" => op.type \in DOMAIN list \ DOMAIN items
    /\ clientDown \in BOOLEAN

(* The variables that a type means by their names, of the first types of   *)
(* its line.                                                               *)
NearestOf(t, k) == {v \in Variables :
                       /\ v = Nearest(t, NameOf[v])
                       /\ \E j \in DOMAIN Line[t] :
                             j <= k /\ v \in ToSet(Members[Line[t][j]])}

Found == {op.fields[i].variable : i \in DOMAIN op.fields}

(* The search for fields, before it browses the k-th type of the line,     *)
(* while it visits the variables of that type, and at its end.             *)
Visiting(t, k) ==
    /\ op.at = Line[t][k]
    /\ \A i, j \in DOMAIN op.rest : op.rest[i] = op.rest[j] => i = j
    /\ ToSet(op.rest) \subseteq ToSet(Members[op.at])
    /\ Found = NearestOf(t, k) \ ToSet(op.rest)

EndsAt(t, k) == k = Len(Line[t]) \/ Line[t][k + 1] \in BrowseFails

SearchAt(k) ==
    \/ op.pc = "browse" /\ op.at = Line[op.type][k] /\ Found = NearestOf(op.type, k - 1)
    \/ op.pc = "fields" /\ Visiting(op.type, k)
    \/ op.pc = "collected" /\ Found = NearestOf(op.type, k) /\ EndsAt(op.type, k)

SearchInv ==
    Collects(op.pc) =>
       /\ \A i, j \in DOMAIN op.fields :
             NameOf[op.fields[i].variable] = NameOf[op.fields[j].variable] => i = j
       /\ \A i \in DOMAIN op.fields :
             op.fields[i].failed => op.fields[i].variable \in ReadFails
       /\ \E k \in DOMAIN Line[op.type] : SearchAt(k)

(* What a list entry keeps of the search.                                  *)
Entry(t, l) ==
    /\ \A i, j \in DOMAIN l : NameOf[l[i]] = NameOf[l[j]] => i = j
    /\ \E k \in DOMAIN Line[t] : ToSet(l) = NearestOf(t, k) /\ EndsAt(t, k)

ListInv == \A t \in DOMAIN list : Entry(t, list[t])

(* What may be selected of an event for a name: nothing; what its Java     *)
(* gave for the variable that its type means by the name; or a variable of *)
(* BaseEventType.                                                          *)
Selected(event, name, v) ==
    \/ v = NoVariable
    \/ v \in event.given /\ v = Nearest(event.type, name)
    \/ v \in BaseVariables /\ NameOf[v] = name

NoteOf(n, event, names) ==
    /\ IsSubtype(event.type, n.item)
    /\ n.values \in Seq(Variables \cup {NoVariable})
    /\ Len(n.values) = Len(names)
    /\ \A i \in 1 .. Len(names) : Selected(event, names[i], n.values[i])

(* What Java was told of an event is what the provider's Java gave.        *)
Truthful(e, event) ==
    /\ IsSubtype(event.type, e.item)
    /\ \A f \in e.elements : f[2] = Nearest(event.type, NameOf[f[1]]) /\ f[2] \in event.given

Notes     == [item : ModelTypes, number : Nat, values : Seq(Variables \cup {NoVariable})]
Tellings  == [item : ModelTypes, number : Nat, elements : SUBSET (Variables \X Variables),
              time : {"of the event", "uninitialised"}]

NotesInv ==
    /\ published \in Seq(Notes)
    /\ \A i \in DOMAIN published :
          /\ published[i].item \in DOMAIN items
          /\ published[i].number \in 1 .. Len(fired)
          /\ NoteOf(published[i], fired[published[i].number], items[published[i].item])

ToldInv ==
    /\ told \in Seq(Tellings)
    /\ \A i \in DOMAIN told :
          told[i].number \in 1 .. Len(fired) /\ Truthful(told[i], fired[told[i].number])

(* The numbers of the events rise from one notification of an item to the  *)
(* next, across those that Java was told of and those that are published.  *)
Increasing(s) ==
    \A i, j \in DOMAIN s : (i < j /\ s[i].item = s[j].item) => s[i].number < s[j].number

OrderInv ==
    /\ Increasing(published) /\ Increasing(told)
    /\ \A i \in DOMAIN told, j \in DOMAIN published :
          told[i].item = published[j].item => told[i].number < published[j].number

(* What has crashed the client.                                            *)
CrashInv ==
    clientDown => \/ \E i \in DOMAIN op.fields :
                        op.fields[i].failed /\ op.fields[i].variable \in ReadFails
                  \/ \E t \in DOMAIN list : /\ Message \notin ToSet(list[t])
                                            /\ ToSet(Line[t]) \cap BrowseFails # {}

-----------------------------------------------------------------------------
(* The server.                                                             *)

LEMMA MembersSeq ==
    ASSUME NEW t \in EventTypeIds
    PROVE  /\ Members[t] \in Seq(Variables)
           /\ DOMAIN Members[t] = 1 .. Len(Members[t])
           /\ \A i, j \in DOMAIN Members[t] : Members[t][i] = Members[t][j] => i = j
<1>1. Members[t] \in Seq(ToSet(Members[t])) /\ ToSet(Members[t]) \subseteq Variables
  BY EventTypesAssumption DEF Variables
<1>2. Members[t] \in Seq(Variables)
  BY <1>1, SeqMonotonic
<1>3. DOMAIN Members[t] = 1 .. Len(Members[t])
  BY <1>2
<1> DEFINE names == [i \in DOMAIN Members[t] |-> NameOf[Members[t][i]]]
<1>4. \A i, j \in DOMAIN Members[t] : names[i] = names[j] => i = j
  BY EventTypesAssumption DEF IsInjective
<1> QED
  BY <1>2, <1>3, <1>4

LEMMA LineIds ==
    ASSUME NEW t \in EventTypeIds
    PROVE  /\ DOMAIN Line[t] = 1 .. Len(Line[t]) /\ Len(Line[t]) \in Nat /\ Len(Line[t]) > 0
           /\ \A k \in DOMAIN Line[t] : Line[t][k] \in EventTypeIds
           /\ Line[t][1] = t /\ Line[t][Len(Line[t])] = 0
BY Lines DEF IsLine

LEMMA DeclaredVariables ==
    ASSUME NEW t \in EventTypeIds
    PROVE  DeclaredBy(Line[t]) \subseteq Variables
BY LineIds DEF DeclaredBy, Variables

LEMMA ServerInitially == ServerInit => ServerInv
<1> SUFFICES ASSUME ServerInit PROVE ServerInv
  OBVIOUS
<1>1. DOMAIN eventTypes = {} /\ eventFields = {}
  BY DEF ServerInit
<1>2. Registry
  BY <1>1 DEF Registry
<1>3. fired \in Seq(EventRecords) /\ Len(fired) <= reported /\ reported \in 0 .. MaxEvents
  BY ServerEventsAssumption DEF ServerInit
<1>4. /\ toExamine = ModelTypes /\ asked = {} /\ listening = {}
      /\ fired = <<>> /\ serverDown = FALSE /\ serverDown \in BOOLEAN
  BY DEF ServerInit
<1>5. DOMAIN eventTypes \cap toExamine = {} /\ listening \subseteq asked
  BY <1>1, <1>4
<1>6. asked \subseteq Asynchronous
  BY <1>4
<1> QED
  BY <1>2, <1>3, <1>4, <1>5, <1>6, Zenon DEF ServerInv

LEMMA RegisterTypeKeepsServer ==
    ASSUME ServerInv, NEW t \in ModelTypes, RegisterType(t)
    PROVE  ServerInv'
<1>1. asked = {} /\ fired = <<>>
  BY DEF ServerInv, RegisterType
<1>2. UNCHANGED <<asked, listening, reported, fired, serverDown>>
  BY DEF RegisterType
<1>3. toExamine' = toExamine \ {t}
  BY DEF RegisterType
<1>4. CASE /\ eventTypes' = [u \in DOMAIN eventTypes \cup {t} |-> Element(u).parent]
           /\ eventFields' = eventFields \cup Entries(t)
  <2>1. DOMAIN eventTypes' = DOMAIN eventTypes \cup {t}
    BY <1>4
  <2>2. \A u \in DOMAIN eventTypes' : eventTypes'[u] = SuperOf[u]
    BY <1>4 DEF Element
  <2>3. eventFields' = UNION {Entries(u) : u \in DOMAIN eventTypes'}
    <3>1. eventFields = UNION {Entries(u) : u \in DOMAIN eventTypes}
      BY DEF ServerInv, Registry
    <3> HIDE DEF Entries
    <3> QED
      BY <1>4, <2>1, <3>1, Zenon
  <2>4. Registry'
    <3>1. \A u : Entries(u)' = Entries(u)
      BY DEF Entries, Element
    <3> QED
      BY <2>1, <2>2, <2>3, <3>1 DEF ServerInv, Registry
  <2> QED
    BY <1>1, <1>2, <1>3, <2>1, <2>4 DEF ServerInv
<1>5. CASE UNCHANGED registry
  BY <1>1, <1>2, <1>3, <1>5 DEF ServerInv, Registry, registry
<1> QED
  BY <1>4, <1>5 DEF RegisterType

LEMMA AskingKeepsServer ==
    ASSUME ServerInv, (\E t \in ModelTypes : AskJava(t)) \/ AddCallback
    PROVE  ServerInv'
<1>1. UNCHANGED registry /\ Registry' /\ Asynchronous' = Asynchronous
  BY DEF ServerInv, Registry, registry, AskJava, AddCallback, Asynchronous
<1>2. CASE \E t \in ModelTypes : AskJava(t)
  BY <1>1, <1>2 DEF ServerInv, AskJava, registry
<1>3. CASE AddCallback
  BY <1>1, <1>3 DEF ServerInv, AddCallback, registry
<1> QED
  BY <1>2, <1>3

LEMMA ReportKeepsServer ==
    ASSUME ServerInv, NEW t \in ModelTypes, NEW given \in GivenSets(t),
           NEW inOrder \in BOOLEAN, JavaEvent(t, given, inOrder)
    PROVE  /\ ServerInv' /\ UNCHANGED registry
           /\ fired' = fired \/ fired' = Append(fired, [type |-> t, given |-> given])
<1>1. UNCHANGED registry /\ Registry' /\ Asynchronous' = Asynchronous
  BY DEF ServerInv, Registry, registry, JavaEvent, Asynchronous
<1>2. reported' = reported + 1 /\ reported' \in 0 .. MaxEvents
  BY ServerEventsAssumption DEF ServerInv, JavaEvent
<1>3. UNCHANGED <<toExamine, asked>> /\ t \in asked
  BY DEF JavaEvent
<1>4. [type |-> t, given |-> given] \in EventRecords
  BY DeclaredVariables, Ids DEF GivenSets, EventRecords
<1>5. CASE BrowseFields(t)
  BY <1>1, <1>2, <1>3, <1>5 DEF ServerInv, BrowseFields, registry
<1>6. CASE DropEvent(t, inOrder)
  BY <1>1, <1>2, <1>3, <1>6 DEF ServerInv, DropEvent, registry
<1>7. CASE Fire(t, given)
  <2> DEFINE event == [type |-> t, given |-> given]
  <2>1. fired' = Append(fired, event)
    BY <1>7 DEF Fire
  <2>2. fired \in Seq(EventRecords)
    BY DEF ServerInv
  <2> HIDE DEF event
  <2>3. fired' \in Seq(EventRecords) /\ Len(fired') = Len(fired) + 1
    BY <1>4, <2>1, <2>2 DEF event
  <2>4. Len(fired') <= reported'
    BY <1>2, <2>2, <2>3 DEF ServerInv
  <2>5. UNCHANGED <<listening, serverDown>>
    BY <1>7 DEF Fire
  <2>6. ServerInv'
    BY <1>1, <1>2, <1>3, <2>3, <2>4, <2>5 DEF ServerInv, registry
  <2> QED
    BY <1>1, <2>1, <2>6 DEF event
<1> QED
  BY <1>5, <1>6, <1>7 DEF JavaEvent

LEMMA SameServer ==
    ASSUME ServerInv, UNCHANGED serverVars
    PROVE  ServerInv'
BY DEF ServerInv, Registry, Asynchronous, serverVars, registry

LEMMA ServerKept == ServerInv /\ [Next]_vars => ServerInv'
<1> SUFFICES ASSUME ServerInv, [Next]_vars PROVE ServerInv'
  OBVIOUS
<1>1. CASE ServerStep
  BY <1>1, RegisterTypeKeepsServer, AskingKeepsServer, Zenon DEF ServerStep, StartUp
<1>2. CASE Events
  BY <1>2, ReportKeepsServer, Zenon DEF Events, Report
<1>3. CASE UNCHANGED serverVars
  BY <1>3, SameServer
<1> QED
  BY <1>1, <1>2, <1>3, Zenon DEF Next, ClientStep, SdkStep, vars

-----------------------------------------------------------------------------
(* The client's records.                                                   *)

LEMMA ClientInitially == ClientInit => ClientInv
<1> SUFFICES ASSUME ClientInit PROVE ClientInv
  OBVIOUS
<1>1. DOMAIN list = {} /\ DOMAIN items = {} /\ tried = {} /\ clientDown = FALSE
  BY DEF ClientInit
<1>2. op \in [pc : Steps, type : EventTypeIds, at : EventTypeIds,
              rest : Seq(Variables), fields : Seq(Fields)]
  BY Ids DEF ClientInit, NoOp, Steps
<1>3. op.pc = "idle"
  BY DEF ClientInit, NoOp
<1> QED
  BY <1>1, <1>2, <1>3 DEF ClientInv, Collects

LEMMA EndingKeepsClient ==
    ASSUME ClientInv, op' = NoOp, UNCHANGED <<items, tried, clientDown>>,
           \/ UNCHANGED list
           \/ op.pc = "create" /\ list' = [t \in DOMAIN list \ {op.type} |-> list[t]]
    PROVE  ClientInv'
<1>1. /\ op' \in [pc : Steps, type : EventTypeIds, at : EventTypeIds,
                  rest : Seq(Variables), fields : Seq(Fields)]
      /\ op'.pc = "idle"
  BY Ids DEF NoOp, Steps
<1>2. ~Collects(op'.pc) /\ op'.pc # "create"
  BY <1>1 DEF Collects
<1>3. /\ DOMAIN list' \subseteq DOMAIN list
      /\ DOMAIN items \subseteq DOMAIN list'
      /\ \A t \in DOMAIN list' : list'[t] = list[t]
  BY DEF ClientInv
<1>4. \A t \in DOMAIN items' : items'[t] = Names(list'[t])
  BY <1>3 DEF ClientInv
<1>5. DOMAIN list' \subseteq tried' /\ \A t \in DOMAIN list' : list'[t] \in Seq(Variables)
  BY <1>3 DEF ClientInv
<1> QED
  BY <1>1, <1>2, <1>3, <1>4, <1>5 DEF ClientInv, Names

(* The search touches no list: it stays the same as long as it is about    *)
(* the same type.                                                          *)
LEMMA SearchingKeepsClient ==
    ASSUME ClientInv, UNCHANGED <<items, list, tried>>, clientDown' \in BOOLEAN,
           Collects(op.pc), Collects(op'.pc), op'.type = op.type,
           op' \in [pc : Steps, type : EventTypeIds, at : EventTypeIds,
                    rest : Seq(Variables), fields : Seq(Fields)]
    PROVE  ClientInv'
BY DEF ClientInv, Names, Collects

LEMMA SubscribeKeepsClient ==
    ASSUME ClientInv, NEW t \in Wanted, Subscribe(t)
    PROVE  ClientInv'
<1>1. t \in EventTypeIds /\ t \notin tried /\ t \notin DOMAIN list
  BY Ids, ClientEventsAssumption DEF Subscribe, ClientInv
<1>2. /\ op'.pc = "browse" /\ op'.type = t
      /\ op' \in [pc : Steps, type : EventTypeIds, at : EventTypeIds,
                  rest : Seq(Variables), fields : Seq(Fields)]
  <2>1. op' = [pc |-> "browse", type |-> t, at |-> t, rest |-> <<>>, fields |-> <<>>]
    BY DEF Subscribe, NoOp
  <2>2. <<>> \in Seq(Variables) /\ <<>> \in Seq(Fields)
    OBVIOUS
  <2> QED
    BY <1>1, <2>1, <2>2 DEF Steps
<1>3. tried' = tried \cup {t} /\ UNCHANGED <<items, list, clientDown>>
  BY DEF Subscribe
<1> QED
  BY <1>1, <1>2, <1>3 DEF ClientInv, Names, Collects

LEMMA NextFieldOp ==
    ASSUME ClientInv, NextField
    PROVE  /\ op.rest \in Seq(Variables) /\ op.rest # <<>>
           /\ Head(op.rest) \in Variables /\ Tail(op.rest) \in Seq(Variables)
           /\ \/ /\ Comparison(NameOf[Head(op.rest)]) = "new"
                 /\ \E failed \in BOOLEAN :
                       /\ failed => Head(op.rest) \in ReadFails
                       /\ op' = [op EXCEPT !.rest = Tail(@),
                                  !.fields = Append(@, [variable |-> Head(op.rest),
                                                        failed |-> failed])]
                 /\ UNCHANGED clientDown
              \/ /\ Comparison(NameOf[Head(op.rest)]) = "found"
                 /\ op' = [op EXCEPT !.rest = Tail(@)] /\ UNCHANGED clientDown
              \/ /\ Comparison(NameOf[Head(op.rest)]) = "null"
                 /\ clientDown' = TRUE /\ op' = op
<1>1. op.rest \in Seq(Variables) /\ op.rest # <<>>
  BY DEF ClientInv, NextField
<1>2. Head(op.rest) \in Variables /\ Tail(op.rest) \in Seq(Variables)
  BY <1>1
<1> DEFINE v == Head(op.rest)
<1>3. ASSUME NEW outcome \in ReadOutcomes(v),
             op' = [op EXCEPT !.rest = Tail(@),
                       !.fields = Append(@, [variable |-> v, failed |-> outcome = "failed"])]
      PROVE  \E failed \in BOOLEAN :
                /\ failed => v \in ReadFails
                /\ op' = [op EXCEPT !.rest = Tail(@),
                             !.fields = Append(@, [variable |-> v, failed |-> failed])]
  <2>1. outcome = "failed" => v \in ReadFails
    BY <1>3 DEF ReadOutcomes
  <2>2. (outcome = "failed") \in BOOLEAN
    OBVIOUS
  <2> HIDE DEF v
  <2> QED
    BY <1>3, <2>1, <2>2, Zenon
<1> QED
  BY <1>1, <1>2, <1>3, Zenon DEF NextField

LEMMA CollectedKeepsClient ==
    ASSUME ClientInv, Collected
    PROVE  ClientInv'
<1>1. op.pc = "collected" /\ UNCHANGED <<items, tried, clientDown>>
  BY DEF Collected
<1>2. CASE op' = NoOp /\ UNCHANGED list
  BY <1>1, <1>2, EndingKeepsClient
<1>3. CASE /\ op' = [op EXCEPT !.pc = "create", !.rest = <<>>, !.fields = <<>>]
           /\ list' = [t \in DOMAIN list \cup {op.type} |->
                          IF t = op.type
                          THEN [i \in DOMAIN op.fields |-> op.fields[i].variable] ELSE list[t]]
  <2>1. /\ op'.pc = "create" /\ op'.type = op.type
        /\ op' \in [pc : Steps, type : EventTypeIds, at : EventTypeIds,
                    rest : Seq(Variables), fields : Seq(Fields)]
    <3>1. <<>> \in Seq(Variables) /\ <<>> \in Seq(Fields)
      OBVIOUS
    <3> QED
      BY <1>3, <3>1 DEF ClientInv, Steps
  <2>2. op.type \in tried \ DOMAIN list
    BY <1>1 DEF ClientInv, Collects
  <2>3. op.fields \in Seq(Fields)
    BY DEF ClientInv
  <2>4. [i \in DOMAIN op.fields |-> op.fields[i].variable] \in Seq(Variables)
    <3>1. DOMAIN op.fields = 1 .. Len(op.fields) /\ Len(op.fields) \in Nat
      BY <2>3
    <3>2. \A i \in 1 .. Len(op.fields) : op.fields[i].variable \in Variables
      <4>1. \A i \in 1 .. Len(op.fields) : op.fields[i] \in Fields
        BY <2>3
      <4> QED
        BY <4>1 DEF Fields
    <3>3. [i \in 1 .. Len(op.fields) |-> op.fields[i].variable] \in Seq(Variables)
      BY <3>1, <3>2, IsASeq
    <3> QED
      BY <3>1, <3>3
  <2>5. /\ DOMAIN list' = DOMAIN list \cup {op.type}
        /\ list'[op.type] \in Seq(Variables)
        /\ \A t \in DOMAIN list : list'[t] = list[t]
    BY <1>3, <2>2, <2>4
  <2>6. \A t \in DOMAIN list' : list'[t] \in Seq(Variables)
    BY <2>5 DEF ClientInv
  <2>7. \A t \in DOMAIN items' : items'[t] = Names(list'[t])
    BY <1>1, <2>5 DEF ClientInv
  <2>8. ~Collects(op'.pc)
    BY <2>1 DEF Collects
  <2> QED
    BY <1>1, <2>1, <2>2, <2>5, <2>6, <2>7, <2>8 DEF ClientInv, Names
<1> QED
  BY <1>2, <1>3 DEF Collected, Done

LEMMA CreateKeepsClient ==
    ASSUME ClientInv, CreateItem
    PROVE  ClientInv'
<1>1. op.pc = "create" /\ UNCHANGED <<list, tried, clientDown>> /\ op.type \in DOMAIN list
  BY DEF CreateItem, ClientInv
<1>2. /\ op'.pc = "created"
      /\ op' \in [pc : Steps, type : EventTypeIds, at : EventTypeIds,
                  rest : Seq(Variables), fields : Seq(Fields)]
  BY DEF CreateItem, ClientInv, Steps
<1>3. /\ DOMAIN items' = DOMAIN items \cup {op.type}
      /\ \A t \in DOMAIN items' : items'[t] = Names(list[t])
  BY DEF CreateItem, ClientInv, Names
<1>4. ~Collects(op'.pc)
  BY <1>2 DEF Collects
<1> QED
  BY <1>1, <1>2, <1>3, <1>4 DEF ClientInv, Names

LEMMA ClientKept ==
    ASSUME ClientInv, [Next]_vars
    PROVE  ClientInv'
<1> DEFINE Ops == [pc : Steps, type : EventTypeIds, at : EventTypeIds,
                   rest : Seq(Variables), fields : Seq(Fields)]
<1>1. CASE UNCHANGED <<items, list, op, tried, clientDown>>
  BY <1>1 DEF ClientInv, Names
<1>2. ASSUME NEW t \in Wanted, Subscribe(t) PROVE ClientInv'
  BY <1>2, SubscribeKeepsClient
<1>3. CASE Browse
  <2>1. Members[op.at] \in Seq(Variables)
    BY MembersSeq DEF ClientInv
  <2>2. op' \in Ops /\ op'.pc = "fields" /\ op'.type = op.type
    BY <1>3, <2>1 DEF Browse, ClientInv, Steps
  <2> QED
    BY <1>3, <2>2, SearchingKeepsClient DEF Browse, Collects, ClientInv
<1>4. CASE BrowseFailed
  <2>1. CASE op' = NoOp
    BY <1>4, <2>1, EndingKeepsClient DEF BrowseFailed
  <2>2. CASE op' = [op EXCEPT !.pc = "collected"]
    <3>1. op' \in Ops /\ op'.pc = "collected" /\ op'.type = op.type
      BY <2>2 DEF ClientInv, Steps
    <3> QED
      BY <1>4, <3>1, SearchingKeepsClient DEF BrowseFailed, Collects, ClientInv
  <2> QED
    BY <1>4, <2>1, <2>2 DEF BrowseFailed, Done
<1>5. CASE NextField
  <2>1. /\ op.pc = "fields" /\ UNCHANGED <<items, list, tried>>
        /\ op \in Ops /\ clientDown \in BOOLEAN
    BY <1>5 DEF NextField, ClientInv
  <2>2. Head(op.rest) \in Variables /\ Tail(op.rest) \in Seq(Variables)
    BY <1>5, NextFieldOp
  <2>3. ASSUME NEW failed \in BOOLEAN,
               op' = [op EXCEPT !.rest = Tail(@),
                         !.fields = Append(@, [variable |-> Head(op.rest), failed |-> failed])]
        PROVE  op' \in Ops /\ op'.pc = op.pc /\ op'.type = op.type
    <3>1. Append(op.fields, [variable |-> Head(op.rest), failed |-> failed]) \in Seq(Fields)
      BY <2>1, <2>2 DEF Fields
    <3> QED
      BY <2>1, <2>2, <2>3, <3>1
  <2>4. ASSUME op' = [op EXCEPT !.rest = Tail(@)]
        PROVE  op' \in Ops /\ op'.pc = op.pc /\ op'.type = op.type
    BY <2>1, <2>2, <2>4
  <2>5. op' \in Ops /\ op'.pc = op.pc /\ op'.type = op.type /\ clientDown' \in BOOLEAN
    <3> HIDE DEF Ops
    <3> QED
      BY <1>5, <2>1, <2>3, <2>4, NextFieldOp, Zenon
  <2> QED
    BY <2>1, <2>5, SearchingKeepsClient DEF Collects
<1>6. CASE SuperType
  <2>1. op \in Ops /\ op.pc = "fields"
    BY <1>6 DEF SuperType, ClientInv
  <2>2. op.at # 0 => SuperOf[op.at] \in EventTypeIds
    BY <2>1, Ids
  <2>3. op' \in Ops /\ Collects(op'.pc) /\ op'.type = op.type
    BY <1>6, <2>1, <2>2 DEF SuperType, Steps, Collects, BaseEventType
  <2> QED
    BY <1>6, <2>3, SearchingKeepsClient DEF SuperType, Collects, ClientInv
<1>7. CASE Collected
  BY <1>7, CollectedKeepsClient
<1>8. CASE CreateItem
  BY <1>8, CreateKeepsClient
<1>9. CASE ItemRefused \/ Preloaded
  BY <1>9, EndingKeepsClient DEF ItemRefused, Preloaded, Done
<1>10. CASE NewEvents
  <2>1. UNCHANGED <<items, list, op, tried>> /\ clientDown' \in BOOLEAN
    BY <1>10 DEF NewEvents, ClientInv
  <2> QED
    BY <2>1 DEF ClientInv
<1>11. CASE ServerStep \/ Events
  BY <1>1, <1>11, Zenon DEF ServerStep, Events, Report, JavaEvent, clientVars
<1>12. CASE UNCHANGED vars
  BY <1>1, <1>12 DEF vars, clientVars
<1> QED
  BY <1>2, <1>3, <1>4, <1>5, <1>6, <1>7, <1>8, <1>9, <1>10, <1>11, <1>12, Zenon
  DEF Next, ClientStep, ClientCall, SdkStep

-----------------------------------------------------------------------------
(* The search for the fields of an event type.                             *)

LEMMA NearestOfNone == ASSUME NEW t \in EventTypeIds PROVE NearestOf(t, 0) = {}
BY LineIds DEF NearestOf

(* Types of a line share no variable.                                      *)
LEMMA OwnPlace ==
    ASSUME NEW t \in EventTypeIds, NEW i \in DOMAIN Line[t], NEW k \in DOMAIN Line[t],
           NEW v \in ToSet(Members[Line[t][i]]), v \in ToSet(Members[Line[t][k]])
    PROVE  i = k
<1>1. /\ DOMAIN Line[t] = 1 .. Len(Line[t])
      /\ \A a, b \in 1 .. Len(Line[t]) : a < b => Line[t][b] < Line[t][a]
  <2>1. IsLine(Line[t], t)
    BY Lines
  <2> QED
    BY <2>1, LineIds DEF IsLine
<1>2. Line[t][i] = Line[t][k] /\ Line[t][i] \in Nat
  <2>1. Line[t][i] \in EventTypeIds /\ Line[t][k] \in EventTypeIds
    BY LineIds
  <2>2. Line[t][i] = Line[t][k]
    BY <2>1, OwnType
  <2> QED
    BY <2>1, <2>2, Ids
<1>3. ~(i < k) /\ ~(k < i)
  BY <1>1, <1>2
<1> QED
  BY <1>1, <1>3

LEMMA NearestBefore ==
    ASSUME NEW t \in EventTypeIds, NEW k \in DOMAIN Line[t]
    PROVE  NearestOf(t, k) \ ToSet(Members[Line[t][k]]) = NearestOf(t, k - 1)
<1>1. DOMAIN Line[t] = 1 .. Len(Line[t])
  BY LineIds
<1>2. ASSUME NEW v \in NearestOf(t, k), v \notin ToSet(Members[Line[t][k]])
      PROVE  v \in NearestOf(t, k - 1)
  <2>1. PICK j \in DOMAIN Line[t] : j <= k /\ v \in ToSet(Members[Line[t][j]])
    BY <1>2 DEF NearestOf
  <2>2. j # k
    BY <1>2, <2>1
  <2>3. j <= k - 1
    BY <1>1, <2>1, <2>2
  <2> QED
    BY <1>2, <2>1, <2>3 DEF NearestOf
<1>3. ASSUME NEW v \in NearestOf(t, k - 1)
      PROVE  v \in NearestOf(t, k) /\ v \notin ToSet(Members[Line[t][k]])
  <2>1. PICK j \in DOMAIN Line[t] : j <= k - 1 /\ v \in ToSet(Members[Line[t][j]])
    BY <1>3 DEF NearestOf
  <2>2. j <= k /\ j # k
    BY <1>1, <2>1
  <2>3. v \in NearestOf(t, k)
    BY <1>3, <2>1, <2>2 DEF NearestOf
  <2> QED
    BY <2>1, <2>2, <2>3, OwnPlace
<1> QED
  BY <1>2, <1>3

LEMMA Comparisons ==
    ASSUME ClientInv, NEW name
    PROVE  /\ Comparison(name) = "new" =>
                 \A i \in DOMAIN op.fields : NameOf[op.fields[i].variable] # name
           /\ Comparison(name) = "found" =>
                 \E i \in DOMAIN op.fields : NameOf[op.fields[i].variable] = name
           /\ Comparison(name) = "null" => \E i \in DOMAIN op.fields : op.fields[i].failed
<1> DEFINE hits == {i \in 1 .. Len(op.fields) :
                       op.fields[i].failed \/ NameOf[op.fields[i].variable] = name}
           hit  == IF hits # {} THEN Min(hits) ELSE 0
<1>1. DOMAIN op.fields = 1 .. Len(op.fields) /\ hits \in SUBSET Nat
  BY DEF ClientInv
<1>2. Comparison(name) = IF hit = 0 THEN "new" ELSE IF op.fields[hit].failed THEN "null"
                                                    ELSE "found"
  BY Zenon DEF Comparison, SelectInSeq
<1>3. CASE hits = {}
  BY <1>1, <1>2, <1>3
<1>4. CASE hits # {}
  <2>1. PICK i \in hits : \A j \in hits : i <= j
    <3> HIDE DEF hits
    <3> QED
      BY <1>1, <1>4, LeastNat
  <2>2. Min(hits) = i
    <3> HIDE DEF hits
    <3> QED
      BY <1>1, <2>1, LeastPlace
  <2>3. hit = i /\ i # 0 /\ i \in 1 .. Len(op.fields)
    BY <1>4, <2>1, <2>2
  <2> QED
    BY <1>1, <1>2, <2>1, <2>3
<1> QED
  BY <1>3, <1>4

(* A variable that is visited is entered if and only if the type means it  *)
(* by its name.                                                            *)
LEMMA NewIsNearest ==
    ASSUME ClientInv, NEW t \in EventTypeIds, NEW k \in DOMAIN Line[t], Visiting(t, k),
           NEW v \in ToSet(op.rest)
    PROVE  /\ Comparison(NameOf[v]) = "new" => v \in NearestOf(t, k)
           /\ Comparison(NameOf[v]) = "found" => v \notin NearestOf(t, k)
<1>1. v \in ToSet(Members[Line[t][k]]) /\ v \in Variables
  <2>1. Line[t][k] \in EventTypeIds
    BY LineIds
  <2> QED
    BY <2>1 DEF Visiting, Variables
<1>2. ASSUME Comparison(NameOf[v]) = "new", v # Nearest(t, NameOf[v])
      PROVE  FALSE
  <2>1. PICK j \in DOMAIN Line[t] : j < k /\ Named(Line[t][j], NameOf[v]) # {}
    BY <1>1, <1>2, IsNearest
  <2>2. PICK i \in DOMAIN Line[t] :
              /\ i <= j
              /\ Named(Line[t][i], NameOf[v]) # {}
              /\ \A m \in DOMAIN Line[t] : m < i => Named(Line[t][m], NameOf[v]) = {}
    BY <2>1, FirstPlace
  <2> DEFINE w == Nearest(t, NameOf[v])
  <2>3. w \in Named(Line[t][i], NameOf[v])
    BY <2>2, NearestAt
  <2>4. w \in ToSet(Members[Line[t][i]]) /\ NameOf[w] = NameOf[v]
    BY <2>3 DEF Named
  <2>5. i \in Nat /\ j \in Nat /\ k \in Nat /\ i <= k /\ i # k
    BY <2>1, <2>2, LineIds
  <2>6. Line[t][i] \in EventTypeIds
    BY LineIds
  <2>7. w \in NearestOf(t, k)
    <3>1. w \in Variables
      BY <2>4, <2>6 DEF Variables
    <3>2. w = Nearest(t, NameOf[w])
      BY <2>4
    <3> HIDE DEF w
    <3> QED
      BY <2>4, <2>5, <3>1, <3>2 DEF NearestOf
  <2> HIDE DEF w
  <2>8. w \notin ToSet(op.rest)
    BY <2>4, <2>5, OwnPlace DEF Visiting
  <2>9. w \in Found
    BY <2>7, <2>8 DEF Visiting
  <2> QED
    BY <1>2, <2>4, <2>9, Comparisons DEF Found
<1>3. ASSUME Comparison(NameOf[v]) = "found", v \in NearestOf(t, k)
      PROVE  FALSE
  <2>1. PICK i \in DOMAIN op.fields : NameOf[op.fields[i].variable] = NameOf[v]
    BY <1>3, Comparisons
  <2> DEFINE u == op.fields[i].variable
  <2>2. u \in NearestOf(t, k) /\ u \notin ToSet(op.rest)
    BY DEF Visiting, Found
  <2>3. u = Nearest(t, NameOf[v]) /\ v = Nearest(t, NameOf[v])
    BY <1>3, <2>1, <2>2 DEF NearestOf
  <2> QED
    BY <2>2, <2>3
<1>4. v = Nearest(t, NameOf[v]) => v \in NearestOf(t, k)
  <2>1. k <= k
    BY LineIds
  <2> QED
    BY <1>1, <2>1 DEF NearestOf
<1> QED
  BY <1>2, <1>3, <1>4

(* The place of the search, action by action.                              *)
LEMMA BrowsedPlace ==
    ASSUME ClientInv, SearchInv, Browse
    PROVE  \E k \in DOMAIN Line[op'.type] : SearchAt(k)'
<1>1. PICK k \in DOMAIN Line[op.type] : SearchAt(k)
  BY DEF Browse, SearchInv, Collects
<1>2. op.at = Line[op.type][k] /\ Found = NearestOf(op.type, k - 1)
  BY <1>1 DEF Browse, SearchAt
<1>3. op.type \in EventTypeIds /\ op.at \in EventTypeIds
  BY DEF ClientInv
<1>4. /\ op'.pc = "fields" /\ op'.type = op.type /\ op'.at = op.at
      /\ op'.rest = Members[op.at] /\ op'.fields = op.fields
  BY DEF Browse, ClientInv
<1>5. Found' = Found
  BY <1>4 DEF Found
<1>6. NearestOf(op.type, k) \ ToSet(op'.rest) = NearestOf(op.type, k - 1)
  BY <1>2, <1>3, <1>4, NearestBefore
<1>7. \A i, j \in DOMAIN op'.rest : op'.rest[i] = op'.rest[j] => i = j
  BY <1>3, <1>4, MembersSeq
<1>8. Visiting(op.type, k)'
  BY <1>2, <1>4, <1>5, <1>6, <1>7 DEF Visiting
<1> QED
  BY <1>4, <1>8 DEF SearchAt

LEMMA BrowseFailedPlace ==
    ASSUME ClientInv, SearchInv, BrowseFailed, op' # NoOp
    PROVE  \E k \in DOMAIN Line[op'.type] : SearchAt(k)'
<1>1. PICK k \in DOMAIN Line[op.type] : SearchAt(k)
  BY DEF BrowseFailed, SearchInv, Collects
<1>2. op.at = Line[op.type][k] /\ Found = NearestOf(op.type, k - 1)
  BY <1>1 DEF BrowseFailed, SearchAt
<1>3. op.type \in EventTypeIds /\ op.at # op.type /\ op.at \in BrowseFails
  BY DEF BrowseFailed, ClientInv, Done
<1>4. op'.pc = "collected" /\ op'.type = op.type /\ op'.fields = op.fields
  BY DEF BrowseFailed, ClientInv, Done
<1>5. Found' = Found
  BY <1>4 DEF Found
<1>6. k - 1 \in DOMAIN Line[op.type] /\ (k - 1) + 1 = k
  BY <1>2, <1>3, LineIds
<1>7. EndsAt(op.type, k - 1)
  BY <1>2, <1>3, <1>6 DEF EndsAt
<1>8. SearchAt(k - 1)'
  BY <1>2, <1>4, <1>5, <1>7 DEF SearchAt, EndsAt
<1> QED
  BY <1>4, <1>6, <1>8

LEMMA SuperTypePlace ==
    ASSUME ClientInv, SearchInv, SuperType
    PROVE  \E k \in DOMAIN Line[op'.type] : SearchAt(k)'
<1>1. PICK k \in DOMAIN Line[op.type] : SearchAt(k)
  BY DEF SuperType, SearchInv, Collects
<1>2. Visiting(op.type, k) /\ op.rest = <<>> /\ op.type \in EventTypeIds
  BY <1>1 DEF SuperType, SearchAt, ClientInv
<1>3. op.at = Line[op.type][k] /\ Found = NearestOf(op.type, k)
  BY <1>2 DEF Visiting, ToSet
<1>4. op'.type = op.type /\ op'.fields = op.fields
  BY DEF SuperType, ClientInv
<1>5. Found' = Found
  BY <1>4 DEF Found
<1>6. /\ DOMAIN Line[op.type] = 1 .. Len(Line[op.type]) /\ Len(Line[op.type]) \in Nat
      /\ \A i \in 1 .. Len(Line[op.type]) - 1 :
            Line[op.type][i] # 0 /\ Line[op.type][i + 1] = SuperOf[Line[op.type][i]]
      /\ Line[op.type][Len(Line[op.type])] = 0
  BY <1>2, Lines DEF IsLine
<1>7. CASE op.at = 0
  <2>1. op'.pc = "collected"
    BY <1>7 DEF SuperType, ClientInv, BaseEventType
  <2>2. k = Len(Line[op.type])
    <3>1. k # Len(Line[op.type]) => k \in 1 .. Len(Line[op.type]) - 1
      BY <1>6
    <3> QED
      BY <1>3, <1>6, <1>7, <3>1
  <2>3. SearchAt(k)'
    BY <1>3, <1>4, <1>5, <2>1, <2>2 DEF SearchAt, EndsAt
  <2> QED
    BY <1>4, <2>3
<1>8. CASE op.at # 0
  <2>1. op'.pc = "browse" /\ op'.at = SuperOf[op.at]
    BY <1>8 DEF SuperType, ClientInv, BaseEventType
  <2>2. k \in 1 .. Len(Line[op.type]) - 1
    BY <1>3, <1>6, <1>8
  <2>3. k + 1 \in DOMAIN Line[op.type] /\ op'.at = Line[op.type][k + 1] /\ (k + 1) - 1 = k
    BY <1>3, <1>6, <2>1, <2>2
  <2>4. SearchAt(k + 1)'
    BY <1>3, <1>4, <1>5, <2>1, <2>3 DEF SearchAt
  <2> QED
    BY <1>4, <2>3, <2>4
<1> QED
  BY <1>7, <1>8

LEMMA VisitedRest ==
    ASSUME NEW rest \in Seq(Variables), rest # <<>>,
           \A i, j \in DOMAIN rest : rest[i] = rest[j] => i = j
    PROVE  /\ Head(rest) \in ToSet(rest)
           /\ ToSet(Tail(rest)) = ToSet(rest) \ {Head(rest)}
           /\ \A i, j \in DOMAIN Tail(rest) : Tail(rest)[i] = Tail(rest)[j] => i = j
<1> DEFINE tail == Tail(rest)
<1>1. /\ tail \in Seq(Variables) /\ Len(tail) = Len(rest) - 1 /\ Len(rest) \in Nat
      /\ DOMAIN tail = 1 .. Len(tail) /\ DOMAIN rest = 1 .. Len(rest)
      /\ \A i \in 1 .. Len(tail) : tail[i] = rest[i + 1]
      /\ Head(rest) = rest[1] /\ 1 \in DOMAIN rest
  BY HeadTailProperties
<1> HIDE DEF tail
<1>2. ASSUME NEW v \in ToSet(tail) PROVE v \in ToSet(rest) /\ v # Head(rest)
  <2>1. PICK i \in DOMAIN tail : v = tail[i]
    BY DEF ToSet
  <2>2. i + 1 \in DOMAIN rest /\ v = rest[i + 1] /\ i + 1 # 1
    BY <1>1, <2>1
  <2> QED
    BY <1>1, <2>2 DEF ToSet
<1>3. ASSUME NEW v \in ToSet(rest), v # Head(rest) PROVE v \in ToSet(tail)
  <2>1. PICK i \in DOMAIN rest : v = rest[i]
    BY DEF ToSet
  <2>2. i - 1 \in DOMAIN tail /\ (i - 1) + 1 = i
    BY <1>1, <1>3, <2>1
  <2> QED
    BY <1>1, <2>1, <2>2 DEF ToSet
<1>4. \A i, j \in DOMAIN tail : tail[i] = tail[j] => i = j
  <2> SUFFICES ASSUME NEW i \in DOMAIN tail, NEW j \in DOMAIN tail, tail[i] = tail[j]
               PROVE  i = j
    OBVIOUS
  <2>1. i + 1 \in DOMAIN rest /\ j + 1 \in DOMAIN rest /\ rest[i + 1] = rest[j + 1]
    BY <1>1
  <2>2. i + 1 = j + 1
    BY <2>1
  <2> QED
    BY <1>1, <2>2
<1>5. Head(rest) \in ToSet(rest)
  BY <1>1 DEF ToSet
<1> QED
  BY <1>2, <1>3, <1>4, <1>5 DEF tail

LEMMA NextFieldPlace ==
    ASSUME ClientInv, SearchInv, NextField
    PROVE  /\ \E k \in DOMAIN Line[op'.type] : SearchAt(k)'
           /\ \A i, j \in DOMAIN op'.fields :
                 NameOf[op'.fields[i].variable] = NameOf[op'.fields[j].variable] => i = j
           /\ \A i \in DOMAIN op'.fields :
                 op'.fields[i].failed => op'.fields[i].variable \in ReadFails
<1> DEFINE v == Head(op.rest)
<1>1. PICK k \in DOMAIN Line[op.type] : SearchAt(k)
  BY DEF NextField, SearchInv, Collects
<1>2. /\ op.pc = "fields" /\ Visiting(op.type, k) /\ op.type \in EventTypeIds
      /\ op.fields \in Seq(Fields)
      /\ op \in [pc : Steps, type : EventTypeIds, at : EventTypeIds,
                 rest : Seq(Variables), fields : Seq(Fields)]
  BY <1>1 DEF NextField, SearchAt, ClientInv
<1>3. /\ op.rest \in Seq(Variables) /\ op.rest # <<>>
      /\ v \in Variables /\ Tail(op.rest) \in Seq(Variables)
  BY NextFieldOp
<1>4. /\ v \in ToSet(op.rest)
      /\ ToSet(Tail(op.rest)) = ToSet(op.rest) \ {v}
      /\ \A i, j \in DOMAIN Tail(op.rest) : Tail(op.rest)[i] = Tail(op.rest)[j] => i = j
  BY <1>2, <1>3, VisitedRest DEF Visiting
<1>5. /\ \A i, j \in DOMAIN op.fields :
            NameOf[op.fields[i].variable] = NameOf[op.fields[j].variable] => i = j
      /\ \A i \in DOMAIN op.fields :
            op.fields[i].failed => op.fields[i].variable \in ReadFails
  BY <1>2 DEF SearchInv, Collects
<1> HIDE DEF v
<1>6. ASSUME Comparison(NameOf[v]) = "new", NEW failed \in BOOLEAN, failed => v \in ReadFails,
             op' = [op EXCEPT !.rest = Tail(@),
                       !.fields = Append(@, [variable |-> v, failed |-> failed])]
      PROVE  /\ \E n \in DOMAIN Line[op'.type] : SearchAt(n)'
             /\ \A i, j \in DOMAIN op'.fields :
                   NameOf[op'.fields[i].variable] = NameOf[op'.fields[j].variable] => i = j
             /\ \A i \in DOMAIN op'.fields :
                   op'.fields[i].failed => op'.fields[i].variable \in ReadFails
  <2> DEFINE field == [variable |-> v, failed |-> failed]
  <2>1. /\ op'.pc = "fields" /\ op'.type = op.type /\ op'.at = op.at
        /\ op'.rest = Tail(op.rest) /\ op'.fields = Append(op.fields, field)
    BY <1>2, <1>6
  <2>2. field \in Fields /\ field.variable = v /\ field.failed = failed
    BY <1>3 DEF Fields
  <2> HIDE DEF field
  <2>3. /\ DOMAIN op'.fields = 1 .. Len(op.fields) + 1 /\ DOMAIN op.fields = 1 .. Len(op.fields)
        /\ op'.fields[Len(op.fields) + 1] = field
        /\ \A i \in DOMAIN op.fields : op'.fields[i] = op.fields[i]
        /\ Len(op.fields) \in Nat
    BY <1>2, <2>1, <2>2
  <2>4. Found' = Found \cup {v}
    <3>1. ASSUME NEW u \in Found PROVE u \in Found'
      BY <2>3 DEF Found
    <3>2. v \in Found'
      BY <2>2, <2>3 DEF Found
    <3>3. ASSUME NEW u \in Found' PROVE u \in Found \/ u = v
      <4>1. PICK i \in DOMAIN op'.fields : u = op'.fields[i].variable
        BY DEF Found
      <4>2. i \in DOMAIN op.fields \/ i = Len(op.fields) + 1
        BY <2>3
      <4> QED
        BY <2>2, <2>3, <4>1, <4>2 DEF Found
    <3> QED
      BY <3>1, <3>2, <3>3
  <2>5. v \in NearestOf(op.type, k)
    BY <1>2, <1>4, <1>6, NewIsNearest
  <2>6. Found' = NearestOf(op.type, k) \ ToSet(op'.rest)
    BY <1>2, <1>4, <2>1, <2>4, <2>5 DEF Visiting
  <2>7. Visiting(op.type, k)'
    BY <1>2, <1>4, <2>1, <2>6 DEF Visiting
  <2>8. SearchAt(k)' /\ k \in DOMAIN Line[op'.type]
    BY <1>1, <2>1, <2>7 DEF SearchAt
  <2>9. \A i \in DOMAIN op.fields : NameOf[op.fields[i].variable] # NameOf[v]
    BY <1>6, Comparisons
  <2>10. \A i, j \in DOMAIN op'.fields :
            NameOf[op'.fields[i].variable] = NameOf[op'.fields[j].variable] => i = j
    <3> SUFFICES ASSUME NEW i \in DOMAIN op'.fields, NEW j \in DOMAIN op'.fields,
                        NameOf[op'.fields[i].variable] = NameOf[op'.fields[j].variable]
                 PROVE  i = j
      OBVIOUS
    <3>1. /\ i \in DOMAIN op.fields \/ i = Len(op.fields) + 1
          /\ j \in DOMAIN op.fields \/ j = Len(op.fields) + 1
      BY <2>3
    <3>2. CASE i \in DOMAIN op.fields /\ j \in DOMAIN op.fields
      BY <1>5, <2>3, <3>2
    <3>3. CASE i \in DOMAIN op.fields /\ j = Len(op.fields) + 1
      BY <2>2, <2>3, <2>9, <3>3
    <3>4. CASE i = Len(op.fields) + 1 /\ j \in DOMAIN op.fields
      BY <2>2, <2>3, <2>9, <3>4
    <3> QED
      BY <3>1, <3>2, <3>3, <3>4
  <2>11. ASSUME NEW i \in DOMAIN op'.fields, op'.fields[i].failed
         PROVE  op'.fields[i].variable \in ReadFails
    <3>1. i \in DOMAIN op.fields \/ i = Len(op.fields) + 1
      BY <2>3
    <3> QED
      BY <1>5, <1>6, <2>2, <2>3, <2>11, <3>1
  <2> QED
    BY <2>8, <2>10, <2>11
<1>7. ASSUME Comparison(NameOf[v]) = "found", op' = [op EXCEPT !.rest = Tail(@)]
      PROVE  (\E n \in DOMAIN Line[op'.type] : SearchAt(n)') /\ op'.fields = op.fields
  <2>1. /\ op'.pc = "fields" /\ op'.type = op.type /\ op'.at = op.at
        /\ op'.rest = Tail(op.rest) /\ op'.fields = op.fields
    BY <1>2, <1>7
  <2>2. Found' = Found
    BY <2>1 DEF Found
  <2>3. v \notin NearestOf(op.type, k)
    BY <1>2, <1>4, <1>7, NewIsNearest
  <2>4. Visiting(op.type, k)'
    BY <1>2, <1>4, <2>1, <2>2, <2>3 DEF Visiting
  <2> QED
    BY <1>1, <2>1, <2>4 DEF SearchAt
<1>8. CASE op' = op
  <2>1. SearchAt(k)'
    BY <1>1, <1>8 DEF SearchAt, Visiting, Found
  <2> QED
    BY <1>1, <1>5, <1>8, <2>1
<1> QED
  BY <1>5, <1>6, <1>7, <1>8, NextFieldOp DEF v

LEMMA SearchKept ==
    ASSUME ClientInv, SearchInv, [Next]_vars
    PROVE  SearchInv'
<1>1. CASE op' = op
  BY <1>1 DEF SearchInv, SearchAt, Visiting, Found
<1>2. CASE ~Collects(op'.pc)
  BY <1>2 DEF SearchInv
<1>3. ASSUME op'.fields = op.fields, Collects(op.pc),
             \E k \in DOMAIN Line[op'.type] : SearchAt(k)'
      PROVE  SearchInv'
  BY <1>3 DEF SearchInv
<1>4. ASSUME NEW t \in Wanted, Subscribe(t) PROVE SearchInv'
  <2>1. t \in EventTypeIds
    BY Ids, ClientEventsAssumption
  <2>2. op'.pc = "browse" /\ op'.type = t /\ op'.at = t /\ op'.fields = <<>>
    BY <1>4 DEF Subscribe, NoOp
  <2>3. DOMAIN op'.fields = {} /\ Found' = {}
    BY <2>2 DEF Found
  <2>4. 1 \in DOMAIN Line[t] /\ Line[t][1] = t /\ 1 - 1 = 0
    BY <2>1, LineIds
  <2>5. SearchAt(1)'
    BY <2>1, <2>2, <2>3, <2>4, NearestOfNone DEF SearchAt
  <2> QED
    BY <2>2, <2>3, <2>4, <2>5 DEF SearchInv
<1>5. CASE Browse
  BY <1>3, <1>5, BrowsedPlace DEF Browse, Collects, ClientInv
<1>6. CASE BrowseFailed
  <2>1. CASE op' = NoOp
    BY <1>2, <2>1 DEF NoOp, Collects
  <2>2. CASE op' # NoOp
    <3>1. op'.fields = op.fields /\ Collects(op.pc)
      BY <1>6, <2>2 DEF BrowseFailed, Done, Collects, ClientInv
    <3> QED
      BY <1>3, <1>6, <2>2, <3>1, BrowseFailedPlace
  <2> QED
    BY <2>1, <2>2
<1>7. CASE NextField
  BY <1>7, NextFieldPlace DEF SearchInv
<1>8. CASE SuperType
  BY <1>3, <1>8, SuperTypePlace DEF SuperType, Collects, ClientInv
<1>9. CASE Collected \/ CreateItem \/ ItemRefused \/ Preloaded
  <2>1. op'.pc \in {"idle", "create", "created"}
    <3>1. CASE Collected
      <4>1. CASE op' = NoOp
        BY <4>1 DEF NoOp
      <4>2. CASE op' = [op EXCEPT !.pc = "create", !.rest = <<>>, !.fields = <<>>]
        BY <4>2 DEF ClientInv
      <4> QED
        BY <3>1, <4>1, <4>2 DEF Collected, Done
    <3>2. CASE CreateItem
      BY <3>2 DEF CreateItem, ClientInv
    <3>3. CASE ItemRefused \/ Preloaded
      BY <3>3 DEF ItemRefused, Preloaded, Done, NoOp
    <3> QED
      BY <1>9, <3>1, <3>2, <3>3
  <2> QED
    BY <1>2, <2>1 DEF Collects
<1>10. CASE ServerStep \/ Events \/ NewEvents \/ UNCHANGED vars
  BY <1>1, <1>10, Zenon DEF ServerStep, Events, Report, NewEvents, vars, clientVars
<1> QED
  BY <1>4, <1>5, <1>6, <1>7, <1>8, <1>9, <1>10, Zenon
  DEF Next, ClientStep, ClientCall, SdkStep

-----------------------------------------------------------------------------
(* The fields of the items, and what crashes the client.                   *)

LEMMA ListKept ==
    ASSUME ClientInv, SearchInv, ListInv, [Next]_vars
    PROVE  ListInv'
<1>1. CASE UNCHANGED list
  BY <1>1 DEF ListInv, Entry
<1>2. CASE /\ op.pc = "collected"
           /\ list' = [t \in DOMAIN list \cup {op.type} |->
                          IF t = op.type
                          THEN [i \in DOMAIN op.fields |-> op.fields[i].variable] ELSE list[t]]
  <2> DEFINE fields == [i \in DOMAIN op.fields |-> op.fields[i].variable]
  <2>1. Collects(op.pc)
    BY <1>2 DEF Collects
  <2>2. PICK k \in DOMAIN Line[op.type] : SearchAt(k)
    BY <2>1 DEF SearchInv
  <2>3. Found = NearestOf(op.type, k) /\ EndsAt(op.type, k)
    BY <1>2, <2>2 DEF SearchAt
  <2>4. ToSet(fields) = Found
    BY DEF ToSet, Found
  <2>5. \A i, j \in DOMAIN fields : NameOf[fields[i]] = NameOf[fields[j]] => i = j
    BY <2>1 DEF SearchInv
  <2> HIDE DEF fields
  <2>6. Entry(op.type, fields)
    BY <2>3, <2>4, <2>5 DEF Entry
  <2>7. ASSUME NEW t \in DOMAIN list' PROVE Entry(t, list'[t])
    <3>1. CASE t = op.type
      BY <1>2, <2>6, <3>1 DEF fields
    <3>2. CASE t # op.type
      BY <1>2, <3>2 DEF ListInv
    <3> QED
      BY <3>1, <3>2
  <2> QED
    BY <2>7 DEF ListInv, Entry
<1>3. CASE list' = [t \in DOMAIN list \ {op.type} |-> list[t]]
  BY <1>3 DEF ListInv, Entry
<1> QED
  BY <1>1, <1>2, <1>3, Zenon
  DEF Next, ServerStep, Events, Report, ClientStep, ClientCall, Subscribe, Browse, BrowseFailed,
      NextField, SuperType, Collected, CreateItem, ItemRefused, Preloaded, SdkStep, NewEvents,
      vars, clientVars

LEMMA NearestOfDeclared ==
    ASSUME NEW t \in EventTypeIds, NEW k \in DOMAIN Line[t]
    PROVE  NearestOf(t, k) = {v \in DeclaredBy(SubSeq(Line[t], 1, k)) : v = Nearest(t, NameOf[v])}
<1> DEFINE first == SubSeq(Line[t], 1, k)
<1>1. DOMAIN Line[t] = 1 .. Len(Line[t]) /\ Len(Line[t]) \in Nat
  BY LineIds
<1>2. DOMAIN first = 1 .. k /\ \A j \in 1 .. k : first[j] = Line[t][j]
  <2>1. Line[t] \in Seq(EventTypeIds)
    BY LineDefinition
  <2> QED
    BY <1>1, <2>1
<1> HIDE DEF first
<1>3. ASSUME NEW v \in NearestOf(t, k) PROVE v \in DeclaredBy(first)
  <2>1. PICK j \in DOMAIN Line[t] : j <= k /\ v \in ToSet(Members[Line[t][j]])
    BY DEF NearestOf
  <2>2. j \in 1 .. k
    BY <1>1, <2>1
  <2> QED
    BY <1>2, <2>1, <2>2 DEF DeclaredBy
<1>4. ASSUME NEW v \in DeclaredBy(first), v = Nearest(t, NameOf[v]) PROVE v \in NearestOf(t, k)
  <2>1. PICK j \in 1 .. k : v \in ToSet(Members[Line[t][j]])
    BY <1>2 DEF DeclaredBy
  <2>2. j \in DOMAIN Line[t] /\ j <= k
    BY <1>1
  <2>3. v \in Variables
    <3>1. Line[t][j] \in EventTypeIds
      BY <2>2, LineIds
    <3> QED
      BY <2>1, <3>1 DEF Variables
  <2> QED
    BY <1>4, <2>1, <2>2, <2>3 DEF NearestOf
<1>5. \A v \in NearestOf(t, k) : v = Nearest(t, NameOf[v])
  BY DEF NearestOf
<1> QED
  BY <1>3, <1>4, <1>5 DEF first

LEMMA ListedNearest ==
    ASSUME ClientInv, ListInv
    PROVE  FieldsNearest
<1> SUFFICES ASSUME NEW t \in DOMAIN list
             PROVE  \E k \in DOMAIN Line[t] :
                       /\ ToSet(list[t]) = {v \in DeclaredBy(SubSeq(Line[t], 1, k)) :
                                               v = Nearest(t, NameOf[v])}
                       /\ \A i, j \in DOMAIN list[t] :
                             NameOf[list[t][i]] = NameOf[list[t][j]] => i = j
                       /\ k = Len(Line[t]) \/ Line[t][k + 1] \in BrowseFails
  BY DEF FieldsNearest
<1>1. t \in EventTypeIds
  BY ClientEventsAssumption, Ids DEF ClientInv
<1>2. PICK k \in DOMAIN Line[t] : ToSet(list[t]) = NearestOf(t, k) /\ EndsAt(t, k)
  BY DEF ListInv, Entry
<1>3. \A i, j \in DOMAIN list[t] : NameOf[list[t][i]] = NameOf[list[t][j]] => i = j
  BY DEF ListInv, Entry
<1> QED
  BY <1>1, <1>2, <1>3, NearestOfDeclared, Zenon DEF EndsAt

(* No type of the model declares the name of a variable of BaseEventType.  *)
BaseNamesKept ==
    \A t \in ModelTypes : \A v \in ToSet(Members[t]) : \A w \in BaseVariables :
        NameOf[v] # NameOf[w]

LEMMA BaseNearest ==
    ASSUME BaseNamesKept, NEW t \in EventTypeIds, NEW w \in BaseVariables
    PROVE  w = Nearest(t, NameOf[w]) /\ w \in NearestOf(t, Len(Line[t]))
<1> DEFINE k == Len(Line[t])
<1>1. k \in DOMAIN Line[t] /\ Line[t][k] = 0 /\ w \in ToSet(Members[Line[t][k]])
  BY LineIds DEF BaseVariables, BaseEventType
<1>2. ASSUME NEW j \in DOMAIN Line[t], j < k PROVE Named(Line[t][j], NameOf[w]) = {}
  <2>1. Line[t][j] \in EventTypeIds /\ Line[t][j] # 0
    <3>1. IsLine(Line[t], t) /\ j \in 1 .. Len(Line[t]) - 1
      BY <1>2, Lines, LineIds
    <3> QED
      BY <3>1, LineIds DEF IsLine
  <2> QED
    BY <2>1, Ids DEF BaseNamesKept, Named
<1>3. w = Nearest(t, NameOf[w])
  <2> HIDE DEF k
  <2> QED
    BY <1>1, <1>2, IsNearest
<1>4. k <= k
  BY LineIds
<1>5. w \in Variables
  BY DEF BaseVariables, Variables, EventTypeIds
<1> QED
  BY <1>1, <1>3, <1>4, <1>5 DEF NearestOf

(* An item without a Message is one of a type whose search was cut short.  *)
LEMMA NoMessage ==
    ASSUME BaseNamesKept, ClientInv, ListInv,
           NEW t \in DOMAIN list, Message \notin ToSet(list[t])
    PROVE  ToSet(Line[t]) \cap BrowseFails # {}
<1>1. t \in EventTypeIds
  BY ClientEventsAssumption, Ids DEF ClientInv
<1>2. PICK k \in DOMAIN Line[t] : ToSet(list[t]) = NearestOf(t, k) /\ EndsAt(t, k)
  BY DEF ListInv, Entry
<1>3. k # Len(Line[t])
  BY <1>1, <1>2, BaseNearest, EventTypesAssumption
<1>4. k + 1 \in DOMAIN Line[t] /\ Line[t][k + 1] \in BrowseFails
  BY <1>1, <1>2, <1>3, LineIds DEF EndsAt
<1> QED
  BY <1>4 DEF ToSet

-----------------------------------------------------------------------------
(* Notifications.                                                          *)

LEMMA FieldDataSelected ==
    ASSUME Registry, NEW event \in EventRecords, NEW name
    PROVE  /\ Selected(event, name, FieldData(event, name))
           /\ FieldData(event, name) \in Variables \cup {NoVariable}
<1> DEFINE v == FieldNodeId(event.type, name)
           bases == {w \in BaseVariables : NameOf[w] = name}
<1>1. event.type \in EventTypeIds /\ event.given \subseteq Variables
  BY Ids DEF EventRecords
<1>2. BaseVariables \subseteq Variables
  BY DEF BaseVariables, Variables, EventTypeIds
<1>3. v # NoVariable => v = Nearest(event.type, name)
  BY <1>1, FieldNodeIdNearest
<1>4. FieldData(event, name) =
         IF v # NoVariable THEN IF v \in event.given THEN v ELSE NoVariable
         ELSE IF \E w \in BaseVariables : NameOf[w] = name
              THEN CHOOSE w \in BaseVariables : NameOf[w] = name ELSE NoVariable
  BY DEF FieldData
<1> HIDE DEF v
<1>5. CASE v # NoVariable
  BY <1>1, <1>3, <1>4, <1>5 DEF Selected
<1>6. CASE v = NoVariable /\ \E w \in BaseVariables : NameOf[w] = name
  <2>1. FieldData(event, name) \in BaseVariables /\ NameOf[FieldData(event, name)] = name
    BY <1>4, <1>6, Zenon
  <2> QED
    BY <1>2, <2>1 DEF Selected
<1>7. CASE v = NoVariable /\ ~ \E w \in BaseVariables : NameOf[w] = name
  BY <1>4, <1>7 DEF Selected
<1> QED
  BY <1>5, <1>6, <1>7

NoteFor(t, event, number) ==
    [item |-> t, number |-> number,
     values |-> [i \in DOMAIN items[t] |-> FieldData(event, items[t][i])]]

LEMMA NoteForItem ==
    ASSUME Registry, ClientInv, NEW event \in EventRecords, NEW number \in Nat,
           NEW t \in DOMAIN items, IsSubtype(event.type, t)
    PROVE  /\ NoteFor(t, event, number) \in Notes
           /\ NoteFor(t, event, number).item = t
           /\ NoteFor(t, event, number).number = number
           /\ NoteOf(NoteFor(t, event, number), event, items[t])
<1> DEFINE values == [i \in DOMAIN items[t] |-> FieldData(event, items[t][i])]
           length == Len(list[t])
<1>1. t \in ModelTypes /\ list[t] \in Seq(Variables) /\ items[t] = Names(list[t])
  BY ClientEventsAssumption DEF ClientInv
<1>2. length \in Nat /\ DOMAIN list[t] = 1 .. length
  BY <1>1
<1>3. DOMAIN items[t] = 1 .. length /\ items[t] = [i \in 1 .. length |-> NameOf[list[t][i]]]
  BY <1>1, <1>2 DEF Names
<1> HIDE DEF length
<1>4. Len(items[t]) = length
  BY <1>2, <1>3
<1>5. \A i \in 1 .. length : /\ Selected(event, items[t][i], FieldData(event, items[t][i]))
                             /\ FieldData(event, items[t][i]) \in Variables \cup {NoVariable}
  BY FieldDataSelected
<1>6. /\ values \in Seq(Variables \cup {NoVariable}) /\ Len(values) = length
      /\ \A i \in 1 .. length : values[i] = FieldData(event, items[t][i])
  <2>1. values = [i \in 1 .. length |-> FieldData(event, items[t][i])]
    BY <1>3
  <2> HIDE DEF values
  <2> QED
    BY <1>2, <1>5, <2>1
<1> HIDE DEF values
<1>7. NoteFor(t, event, number) = [item |-> t, number |-> number, values |-> values]
  BY DEF NoteFor, values
<1> QED
  BY <1>1, <1>4, <1>5, <1>6, <1>7 DEF NoteOf, Notes

(* An event has one notification for each of the items that select it.     *)
LEMMA NotificationsOf ==
    ASSUME Registry, ClientInv, NEW event \in EventRecords, NEW number \in Nat
    PROVE  /\ Notifications(event, number) \in Seq(Notes)
           /\ \A i \in DOMAIN Notifications(event, number) :
                 LET n == Notifications(event, number)[i] IN
                 /\ n.item \in DOMAIN items /\ n.number = number
                 /\ NoteOf(n, event, items[n.item])
           /\ \A i, j \in DOMAIN Notifications(event, number) :
                 Notifications(event, number)[i].item = Notifications(event, number)[j].item
                    => i = j
<1> DEFINE matching == {t \in DOMAIN items : IsSubtype(event.type, t)}
           notes == {NoteFor(t, event, number) : t \in matching}
<1>1. Notifications(event, number) = SetToSeq(notes)
  BY DEF Notifications, NoteFor
<1>2. ASSUME NEW n \in notes
      PROVE  /\ n \in Notes /\ n.item \in DOMAIN items /\ n.number = number
             /\ NoteOf(n, event, items[n.item])
             /\ n = NoteFor(n.item, event, number)
  <2>1. PICK t \in matching : n = NoteFor(t, event, number)
    OBVIOUS
  <2> QED
    BY <2>1, NoteForItem
<1> HIDE DEF notes
<1>3. IsFiniteSet(notes)
  <2> DEFINE itemOf == [n \in notes |-> n.item]
  <2>1. \A n \in notes : n.item \in ModelTypes
    BY <1>2, ClientEventsAssumption DEF ClientInv
  <2>2. itemOf \in Injection(notes, ModelTypes)
    <3>1. itemOf \in [notes -> ModelTypes]
      BY <2>1
    <3>2. \A m, n \in notes : m.item = n.item => m = n
      BY <1>2
    <3> QED
      BY <3>1, <3>2 DEF Injection, IsInjective
  <2>3. IsFiniteSet(ModelTypes)
    BY EventTypesAssumption, FS_Interval DEF ModelTypes
  <2> HIDE DEF itemOf
  <2> QED
    BY <2>2, <2>3, FS_Injection
<1> DEFINE size == Cardinality(notes)
           seq  == SetToSeq(notes)
<1>4. size \in Nat /\ \E f \in [1 .. size -> notes] : IsInjective(f)
  <2>1. size \in Nat /\ ExistsBijection(1 .. size, notes)
    BY <1>3, FS_CardinalityType
  <2> QED
    BY <2>1 DEF ExistsBijection, Bijection, Injection
<1>5. seq \in [1 .. size -> notes] /\ IsInjective(seq)
  <2>1. seq = CHOOSE f \in [1 .. size -> notes] : IsInjective(f)
    BY DEF SetToSeq
  <2> HIDE DEF seq, size
  <2> QED
    BY <1>4, <2>1, Zenon
<1> HIDE DEF seq, size
<1>6. DOMAIN seq = 1 .. size /\ \A i \in 1 .. size : seq[i] \in notes
  BY <1>5
<1>7. seq \in Seq(Notes)
  BY <1>2, <1>4, <1>5
<1>8. \A i, j \in DOMAIN seq : seq[i].item = seq[j].item => i = j
  <2> SUFFICES ASSUME NEW i \in DOMAIN seq, NEW j \in DOMAIN seq, seq[i].item = seq[j].item
               PROVE  i = j
    OBVIOUS
  <2>1. seq[i] = seq[j]
    BY <1>2, <1>6
  <2> QED
    BY <1>5, <2>1 DEF IsInjective
<1>9. Notifications(event, number) = seq
  BY <1>1 DEF seq
<1> QED
  BY <1>2, <1>6, <1>7, <1>8, <1>9

(* A report fires nothing, or one event with its notifications.            *)
FiresWith(event, notes) ==
    /\ event \in EventRecords /\ fired' = Append(fired, event)
    /\ notes \in Seq(Notes) /\ published' = published \o notes
    /\ \A i \in DOMAIN notes : /\ notes[i].item \in DOMAIN items
                               /\ notes[i].number = Len(fired) + 1
                               /\ NoteOf(notes[i], event, items[notes[i].item])
    /\ \A i, j \in DOMAIN notes : notes[i].item = notes[j].item => i = j

LEMMA Reported ==
    ASSUME ServerInv, ClientInv, NotesInv, NEW t \in ModelTypes, NEW given \in GivenSets(t),
           NEW inOrder \in BOOLEAN, Report(t, given, inOrder)
    PROVE  \/ UNCHANGED <<fired, published>>
           \/ \E event, notes : FiresWith(event, notes)
<1>1. published \in Seq(Notes) /\ fired \in Seq(EventRecords)
  BY DEF NotesInv, ServerInv
<1>2. published' = published \o (IF fired' = fired THEN <<>>
                                 ELSE Notifications(Last(fired'), Len(fired')))
  BY DEF Report
<1>3. CASE fired' = fired
  BY <1>1, <1>2, <1>3
<1>4. CASE fired' # fired
  <2> DEFINE event == [type |-> t, given |-> given]
             notes == Notifications(event, Len(fired) + 1)
  <2>1. fired' = Append(fired, event) /\ JavaEvent(t, given, inOrder)
    BY <1>4, ReportKeepsServer DEF Report
  <2>2. event \in EventRecords
    BY DeclaredVariables, Ids DEF GivenSets, EventRecords
  <2> HIDE DEF event
  <2>3. Len(fired') = Len(fired) + 1 /\ Last(fired') = event /\ Len(fired) + 1 \in Nat
    BY <1>1, <2>1, <2>2 DEF Last
  <2>4. published' = published \o notes
    BY <1>2, <1>4, <2>3
  <2>5. Registry
    BY DEF ServerInv
  <2>6. /\ notes \in Seq(Notes)
        /\ \A i \in DOMAIN notes : /\ notes[i].item \in DOMAIN items
                                   /\ notes[i].number = Len(fired) + 1
                                   /\ NoteOf(notes[i], event, items[notes[i].item])
        /\ \A i, j \in DOMAIN notes : notes[i].item = notes[j].item => i = j
    BY <2>2, <2>3, <2>5, NotificationsOf
  <2> HIDE DEF notes
  <2>7. FiresWith(event, notes)
    BY <2>1, <2>2, <2>4, <2>6 DEF FiresWith
  <2> QED
    BY <2>7
<1> QED
  BY <1>3, <1>4

LEMMA Appended ==
    ASSUME ServerInv, NEW event, NEW notes, FiresWith(event, notes)
    PROVE  /\ Len(fired') = Len(fired) + 1 /\ Len(fired) \in Nat
           /\ fired'[Len(fired) + 1] = event
           /\ \A k \in 1 .. Len(fired) : fired'[k] = fired[k]
<1>1. fired \in Seq(EventRecords) /\ event \in EventRecords /\ fired' = Append(fired, event)
  BY DEF ServerInv, FiresWith
<1> QED
  BY <1>1

(* Steps that publish nothing keep what is true of the notifications that  *)
(* remain.                                                                 *)
LEMMA NotesRemain ==
    ASSUME NotesInv, UNCHANGED fired, published' \in Seq(Notes),
           \A i \in DOMAIN published' : \E j \in DOMAIN published : published'[i] = published[j],
           \A t \in DOMAIN items : t \in DOMAIN items' /\ items'[t] = items[t]
    PROVE  NotesInv'
<1>1. ASSUME NEW i \in DOMAIN published'
      PROVE  /\ published'[i].item \in DOMAIN items'
             /\ published'[i].number \in 1 .. Len(fired)
             /\ NoteOf(published'[i], fired[published'[i].number], items'[published'[i].item])
  <2>1. PICK j \in DOMAIN published : published'[i] = published[j]
    OBVIOUS
  <2> QED
    BY <2>1 DEF NotesInv
<1> QED
  BY <1>1 DEF NotesInv, NoteOf, Selected

LEMMA NotesAdded ==
    ASSUME ServerInv, NotesInv, UNCHANGED items, NEW event, NEW notes, FiresWith(event, notes)
    PROVE  NotesInv'
<1>1. published \in Seq(Notes) /\ notes \in Seq(Notes) /\ published' = published \o notes
  BY DEF NotesInv, FiresWith
<1>2. /\ published' \in Seq(Notes) /\ Len(published') = Len(published) + Len(notes)
      /\ Len(published) \in Nat /\ Len(notes) \in Nat
      /\ DOMAIN published' = 1 .. Len(published') /\ DOMAIN published = 1 .. Len(published)
      /\ DOMAIN notes = 1 .. Len(notes)
      /\ \A i \in 1 .. Len(published') :
            published'[i] = IF i <= Len(published) THEN published[i]
                            ELSE notes[i - Len(published)]
  BY <1>1, ConcatProperties
<1>3. /\ Len(fired') = Len(fired) + 1 /\ Len(fired) \in Nat
      /\ fired'[Len(fired) + 1] = event
      /\ \A k \in 1 .. Len(fired) : fired'[k] = fired[k]
  BY Appended
<1>4. ASSUME NEW i \in DOMAIN published'
      PROVE  /\ published'[i].item \in DOMAIN items
             /\ published'[i].number \in 1 .. Len(fired')
             /\ NoteOf(published'[i], fired'[published'[i].number], items[published'[i].item])
  <2>1. CASE i <= Len(published)
    <3>1. i \in DOMAIN published /\ published'[i] = published[i]
      BY <1>2, <2>1
    <3>2. /\ published[i].item \in DOMAIN items
          /\ published[i].number \in 1 .. Len(fired)
          /\ NoteOf(published[i], fired[published[i].number], items[published[i].item])
      BY <3>1 DEF NotesInv
    <3>3. published[i].number \in 1 .. Len(fired') /\ fired'[published[i].number] = fired[published[i].number]
      BY <1>3, <3>2
    <3> QED
      BY <3>1, <3>2, <3>3
  <2>2. CASE ~(i <= Len(published))
    <3>1. i - Len(published) \in DOMAIN notes /\ published'[i] = notes[i - Len(published)]
      BY <1>2, <2>2
    <3> DEFINE n == notes[i - Len(published)]
    <3>2. n.item \in DOMAIN items /\ n.number = Len(fired) + 1 /\ NoteOf(n, event, items[n.item])
      BY <3>1 DEF FiresWith
    <3> HIDE DEF n
    <3> QED
      BY <1>3, <3>1, <3>2 DEF n
  <2> QED
    BY <2>1, <2>2
<1> QED
  BY <1>2, <1>4 DEF NotesInv, NoteOf, Selected

LEMMA NotesKept ==
    ASSUME ServerInv, ClientInv, NotesInv, [Next]_vars
    PROVE  NotesInv'
<1>1. published \in Seq(Notes)
  BY DEF NotesInv
<1>2. CASE UNCHANGED <<fired, published, items>>
  BY <1>1, <1>2, NotesRemain
<1>3. CASE Events
  <2>1. PICK t \in ModelTypes : \E given \in GivenSets(t) : \E inOrder \in BOOLEAN :
                                   Report(t, given, inOrder)
    BY <1>3 DEF Events
  <2>2. PICK given \in GivenSets(t) : \E inOrder \in BOOLEAN : Report(t, given, inOrder)
    BY <2>1
  <2>3. PICK inOrder \in BOOLEAN : Report(t, given, inOrder)
    BY <2>2
  <2>4. UNCHANGED items
    BY <2>3 DEF Report
  <2> QED
    BY <1>2, <2>3, <2>4, Reported, NotesAdded
<1>4. CASE CreateItem /\ UNCHANGED fired
  <2>1. op.type \notin DOMAIN items /\ UNCHANGED published
    BY <1>4 DEF CreateItem, ClientInv
  <2>2. \A t \in DOMAIN items : t \in DOMAIN items' /\ items'[t] = items[t]
    BY <1>4, <2>1 DEF CreateItem
  <2> QED
    BY <1>1, <1>4, <2>1, <2>2, NotesRemain
<1>5. CASE NewEvents /\ UNCHANGED fired
  <2>1. published # <<>> /\ published' = Tail(published) /\ UNCHANGED items
    BY <1>5 DEF NewEvents
  <2>2. published' \in Seq(Notes)
    BY <1>1, <2>1
  <2>3. \A i \in DOMAIN published' : i + 1 \in DOMAIN published /\ published'[i] = published[i + 1]
    BY <1>1, <2>1, HeadTailProperties
  <2> QED
    BY <1>5, <2>1, <2>2, <2>3, NotesRemain
<1>6. ASSUME ServerStep PROVE UNCHANGED <<fired, published, items>>
  BY <1>6, Zenon DEF ServerStep, StartUp, RegisterType, AskJava, AddCallback, clientVars
<1>7. ASSUME ClientStep PROVE UNCHANGED <<fired, published, items>> \/ CreateItem
  BY <1>7, Zenon
  DEF ClientStep, ClientCall, Subscribe, Browse, BrowseFailed, NextField, SuperType, Collected,
      ItemRefused, Preloaded, serverVars
<1>8. ClientStep \/ SdkStep => UNCHANGED fired
  BY DEF ClientStep, SdkStep, serverVars
<1> QED
  BY <1>2, <1>3, <1>4, <1>5, <1>6, <1>7, <1>8, Zenon
  DEF Next, SdkStep, vars, serverVars, clientVars

-----------------------------------------------------------------------------
(* What Java is told.                                                      *)

LEMMA FirstNote ==
    ASSUME NotesInv, published # <<>>
    PROVE  /\ 1 \in DOMAIN published /\ Head(published) = published[1]
           /\ Head(published) \in Notes
BY DEF NotesInv

LEMMA EventOfTruthful ==
    ASSUME BaseNamesKept, ServerInv, ClientInv, NotesInv, published # <<>>,
           NEW n, n = Head(published), Convertible(n)
    PROVE  /\ EventOf(n) \in Tellings
           /\ EventOf(n).item = n.item /\ EventOf(n).number = n.number
           /\ n.number \in 1 .. Len(fired)
           /\ Truthful(EventOf(n), fired[n.number])
<1> DEFINE fields == list[n.item]
           event  == fired[n.number]
           kept   == {j \in DOMAIN fields : fields[j] \notin BaseVariables}
           elements == {<<fields[i], ValueOf(n, i)>> : i \in kept}
<1>1. /\ n \in Notes /\ n.item \in DOMAIN items /\ n.number \in 1 .. Len(fired)
      /\ NoteOf(n, event, items[n.item])
  BY FirstNote DEF NotesInv
<1>2. event \in EventRecords
  BY <1>1 DEF ServerInv
<1>3. fields \in Seq(Variables) /\ items[n.item] = Names(fields) /\ n.item \in ModelTypes
  BY <1>1, ClientEventsAssumption DEF ClientInv
<1>4. EventOf(n).elements = elements /\ EventOf(n).item = n.item /\ EventOf(n).number = n.number
  BY DEF EventOf
<1>5. DOMAIN fields = 1 .. Len(fields) /\ Len(fields) \in Nat
  BY <1>3
<1>6. /\ DOMAIN items[n.item] = 1 .. Len(fields) /\ Len(items[n.item]) = Len(fields)
      /\ \A i \in DOMAIN fields : items[n.item][i] = NameOf[fields[i]]
  <2>1. items[n.item] = [i \in 1 .. Len(fields) |-> NameOf[fields[i]]]
    BY <1>3, <1>5 DEF Names
  <2> HIDE DEF fields
  <2> QED
    BY <1>5, <2>1
<1> HIDE DEF event, fields
<1>7. ASSUME NEW i \in kept
      PROVE  /\ fields[i] \in Variables /\ ValueOf(n, i) \in Variables
             /\ ValueOf(n, i) = Nearest(event.type, NameOf[fields[i]])
             /\ ValueOf(n, i) \in event.given
  <2>1. i \in DOMAIN fields /\ fields[i] \notin BaseVariables /\ fields[i] \in Variables
    BY <1>3
  <2>2. ValueOf(n, i) = n.values[i] /\ n.values[i] # NoVariable
    BY <2>1 DEF Convertible, ValueOf, fields
  <2>3. Selected(event, NameOf[fields[i]], n.values[i])
    BY <1>1, <1>5, <1>6, <2>1 DEF NoteOf
  <2>4. ~(\E w \in BaseVariables : NameOf[w] = NameOf[fields[i]])
    <3>1. PICK t \in EventTypeIds : fields[i] \in ToSet(Members[t])
      BY <2>1 DEF Variables
    <3>2. t \in ModelTypes
      BY <2>1, <3>1, Ids DEF BaseVariables, BaseEventType
    <3> QED
      BY <3>1, <3>2 DEF BaseNamesKept
  <2>5. n.values[i] \in event.given /\ n.values[i] = Nearest(event.type, NameOf[fields[i]])
    BY <2>2, <2>3, <2>4 DEF Selected
  <2>6. event.given \subseteq Variables
    BY <1>2 DEF EventRecords
  <2> QED
    BY <2>1, <2>2, <2>5, <2>6
<1>8. elements \in SUBSET (Variables \X Variables)
  BY <1>7
<1>9. \A e \in elements : e[2] = Nearest(event.type, NameOf[e[1]]) /\ e[2] \in event.given
  BY <1>7
<1>10. EventOf(n) \in Tellings
  <2>1. n.number \in Nat
    BY <1>1 DEF Notes
  <2> DEFINE time == IF Time \in ToSet(fields) THEN "of the event" ELSE "uninitialised"
             pairs == Variables \X Variables
  <2>2. EventOf(n) = [item |-> n.item, number |-> n.number, elements |-> elements,
                      time |-> time]
    BY DEF EventOf, fields
  <2>3. time \in {"of the event", "uninitialised"} /\ elements \in SUBSET pairs
    BY <1>8
  <2>4. Tellings = [item : ModelTypes, number : Nat, elements : SUBSET pairs,
                    time : {"of the event", "uninitialised"}]
    BY DEF Tellings
  <2> HIDE DEF elements, time, pairs
  <2>5. [item |-> n.item, number |-> n.number, elements |-> elements, time |-> time]
           \in [item : ModelTypes, number : Nat, elements : SUBSET pairs,
                time : {"of the event", "uninitialised"}]
    BY <1>3, <2>1, <2>3
  <2> QED
    BY <2>2, <2>4, <2>5, Zenon
<1> HIDE DEF elements
<1>11. Truthful(EventOf(n), event)
  BY <1>1, <1>4, <1>9 DEF Truthful, NoteOf
<1> QED
  BY <1>1, <1>4, <1>10, <1>11 DEF event

LEMMA ToldKept ==
    ASSUME BaseNamesKept, ServerInv, ClientInv, NotesInv, ToldInv, [Next]_vars
    PROVE  ToldInv'
<1>1. told \in Seq(Tellings)
  BY DEF ToldInv
<1>2. ASSUME UNCHANGED told, Len(fired) \in Nat, Len(fired') \in Nat, Len(fired) <= Len(fired'),
             \A k \in 1 .. Len(fired) : fired'[k] = fired[k]
      PROVE  ToldInv'
  BY <1>2 DEF ToldInv, Truthful
<1>3. Len(fired) \in Nat
  BY DEF ServerInv
<1>4. CASE UNCHANGED <<told, fired>>
  BY <1>2, <1>3, <1>4
<1>5. CASE Events
  <2>1. PICK t \in ModelTypes : \E given \in GivenSets(t) : \E inOrder \in BOOLEAN :
                                   Report(t, given, inOrder)
    BY <1>5 DEF Events
  <2>2. PICK given \in GivenSets(t) : \E inOrder \in BOOLEAN : Report(t, given, inOrder)
    BY <2>1
  <2>3. PICK inOrder \in BOOLEAN : Report(t, given, inOrder)
    BY <2>2
  <2>4. UNCHANGED told
    BY <2>3 DEF Report
  <2>5. CASE \E event, notes : FiresWith(event, notes)
    BY <1>2, <2>4, <2>5, Appended
  <2> QED
    BY <1>4, <2>3, <2>4, <2>5, Reported
<1>6. CASE NewEvents /\ UNCHANGED fired
  <2> DEFINE n == Head(published)
  <2>1. CASE UNCHANGED told
    BY <1>4, <1>6, <2>1
  <2>2. CASE Convertible(n) /\ told' = Append(told, EventOf(n))
    <3>1. /\ EventOf(n) \in Tellings /\ EventOf(n).number = n.number
          /\ n.number \in 1 .. Len(fired) /\ Truthful(EventOf(n), fired[n.number])
      BY <1>6, <2>2, EventOfTruthful DEF NewEvents
    <3> DEFINE e == EventOf(n)
    <3>2. e \in Tellings /\ e.number \in 1 .. Len(fired) /\ Truthful(e, fired[e.number])
      BY <3>1
    <3>3. told' = Append(told, e)
      BY <2>2
    <3> HIDE DEF e
    <3>4. told' \in Seq(Tellings)
      BY <1>1, <3>2, <3>3
    <3>5. ASSUME NEW i \in DOMAIN told'
          PROVE  told'[i].number \in 1 .. Len(fired) /\ Truthful(told'[i], fired[told'[i].number])
      <4>1. \/ i \in DOMAIN told /\ told'[i] = told[i]
            \/ told'[i] = e
        BY <1>1, <3>2, <3>3
      <4> QED
        BY <3>2, <4>1 DEF ToldInv
    <3> QED
      BY <1>6, <3>4, <3>5 DEF ToldInv, Truthful
  <2> QED
    BY <1>6, <2>1, <2>2, Zenon DEF NewEvents
<1>7. ServerStep => UNCHANGED <<told, fired>>
  BY Zenon DEF ServerStep, StartUp, RegisterType, AskJava, AddCallback, clientVars
<1>8. ClientStep => UNCHANGED <<told, fired>>
  BY Zenon
  DEF ClientStep, ClientCall, Subscribe, Browse, BrowseFailed, NextField, SuperType, Collected,
      CreateItem, ItemRefused, Preloaded, serverVars
<1> QED
  BY <1>4, <1>5, <1>6, <1>7, <1>8, Zenon DEF Next, SdkStep, vars, serverVars, clientVars

(* The order of the numbers.                                               *)
LEMMA NumbersRise ==
    ASSUME ServerInv, NotesInv, ToldInv, OrderInv, UNCHANGED told,
           NEW event, NEW notes, FiresWith(event, notes)
    PROVE  OrderInv'
<1>1. published \in Seq(Notes) /\ notes \in Seq(Notes) /\ published' = published \o notes
  BY DEF NotesInv, FiresWith
<1>2. /\ Len(published) \in Nat /\ Len(notes) \in Nat
      /\ DOMAIN published' = 1 .. Len(published) + Len(notes)
      /\ DOMAIN published = 1 .. Len(published) /\ DOMAIN notes = 1 .. Len(notes)
      /\ \A i \in 1 .. Len(published) + Len(notes) :
            published'[i] = IF i <= Len(published) THEN published[i]
                            ELSE notes[i - Len(published)]
  BY <1>1, ConcatProperties
<1>3. Len(fired) \in Nat
  BY DEF ServerInv
<1>4. ASSUME NEW i \in DOMAIN published'
      PROVE  \/ i \in DOMAIN published /\ published'[i] = published[i]
                /\ published'[i].number <= Len(fired)
             \/ /\ i - Len(published) \in DOMAIN notes /\ i > Len(published)
                /\ published'[i] = notes[i - Len(published)]
                /\ published'[i].number = Len(fired) + 1
  <2>1. CASE i <= Len(published)
    <3>1. i \in DOMAIN published /\ published'[i] = published[i]
      BY <1>2, <2>1
    <3>2. published[i].number \in 1 .. Len(fired)
      BY <3>1 DEF NotesInv
    <3> QED
      BY <1>3, <3>1, <3>2
  <2>2. CASE ~(i <= Len(published))
    <3>1. /\ i - Len(published) \in DOMAIN notes /\ i > Len(published)
          /\ published'[i] = notes[i - Len(published)]
      BY <1>2, <2>2
    <3> QED
      BY <3>1 DEF FiresWith
  <2> QED
    BY <2>1, <2>2
<1>5. ASSUME NEW i \in DOMAIN published', NEW j \in DOMAIN published', i < j,
             published'[i].item = published'[j].item
      PROVE  published'[i].number < published'[j].number
  <2>1. CASE j \in DOMAIN published /\ published'[j] = published[j]
    <3>1. i \in DOMAIN published /\ published'[i] = published[i]
      BY <1>2, <1>4, <1>5, <2>1
    <3> QED
      BY <1>5, <2>1, <3>1 DEF OrderInv, Increasing
  <2>2. CASE /\ j - Len(published) \in DOMAIN notes
             /\ published'[j] = notes[j - Len(published)]
             /\ published'[j].number = Len(fired) + 1
    <3>1. CASE published'[i].number <= Len(fired)
      <4>1. i \in DOMAIN published' /\ published'[i].number \in Nat
        <5>1. published'[i] \in Notes
          BY <1>1, <1>2, ConcatProperties
        <5> QED
          BY <5>1 DEF Notes
      <4> QED
        BY <1>3, <2>2, <3>1, <4>1
    <3>2. CASE /\ i - Len(published) \in DOMAIN notes
               /\ published'[i] = notes[i - Len(published)]
      <4>1. i - Len(published) = j - Len(published)
        BY <1>5, <2>2, <3>2 DEF FiresWith
      <4> QED
        BY <1>2, <1>5, <4>1
    <3> QED
      BY <1>4, <3>1, <3>2
  <2> QED
    BY <1>4, <2>1, <2>2
<1>6. ASSUME NEW i \in DOMAIN told, NEW j \in DOMAIN published',
             told[i].item = published'[j].item
      PROVE  told[i].number < published'[j].number
  <2>1. told[i].number \in 1 .. Len(fired)
    BY DEF ToldInv
  <2>2. CASE j \in DOMAIN published /\ published'[j] = published[j]
    BY <1>6, <2>2 DEF OrderInv
  <2>3. CASE published'[j].number = Len(fired) + 1
    BY <1>3, <2>1, <2>3
  <2> QED
    BY <1>4, <2>2, <2>3
<1> QED
  BY <1>5, <1>6 DEF OrderInv, Increasing

LEMMA FirstLeaves ==
    ASSUME ServerInv, ClientInv, NotesInv, ToldInv, OrderInv, NewEvents
    PROVE  OrderInv'
<1> DEFINE n == Head(published)
<1>1. published \in Seq(Notes) /\ published # <<>> /\ published' = Tail(published)
  BY DEF NotesInv, NewEvents
<1>2. \A i \in DOMAIN published' :
         i + 1 \in DOMAIN published /\ i \in Nat /\ 1 < i + 1 /\ published'[i] = published[i + 1]
  BY <1>1, HeadTailProperties
<1>3. 1 \in DOMAIN published /\ n = published[1]
  BY <1>1
<1> HIDE DEF n
<1>4. Increasing(published')
  <2> SUFFICES ASSUME NEW i \in DOMAIN published', NEW j \in DOMAIN published', i < j,
                      published'[i].item = published'[j].item
               PROVE  published'[i].number < published'[j].number
    BY DEF Increasing
  <2>1. i + 1 < j + 1
    BY <1>2
  <2> QED
    BY <1>2, <2>1 DEF OrderInv, Increasing
<1>5. CASE UNCHANGED told
  <2>1. ASSUME NEW i \in DOMAIN told, NEW j \in DOMAIN published',
               told[i].item = published'[j].item
        PROVE  told[i].number < published'[j].number
    BY <1>2, <2>1 DEF OrderInv
  <2> QED
    BY <1>4, <1>5, <2>1 DEF OrderInv, Increasing
<1>6. CASE told' = Append(told, EventOf(n))
  <2> DEFINE e == EventOf(n)
  <2>1. told \in Seq(Tellings) /\ told' = Append(told, e)
    BY <1>6 DEF ToldInv
  <2>2. e.item = n.item /\ e.number = n.number
    BY DEF EventOf
  <2> HIDE DEF e
  <2>3. /\ DOMAIN told' = 1 .. Len(told) + 1 /\ DOMAIN told = 1 .. Len(told) /\ Len(told) \in Nat
        /\ told'[Len(told) + 1] = e /\ \A i \in DOMAIN told : told'[i] = told[i]
    BY <2>1
  <2>4. \A i \in DOMAIN told : told[i].item = n.item => told[i].number < n.number
    BY <1>3 DEF OrderInv
  <2>5. ASSUME NEW i \in DOMAIN told', NEW j \in DOMAIN told', i < j,
               told'[i].item = told'[j].item
        PROVE  told'[i].number < told'[j].number
    <3>1. i \in DOMAIN told
      BY <2>3, <2>5
    <3>2. CASE j \in DOMAIN told
      BY <2>3, <2>5, <3>1, <3>2 DEF OrderInv, Increasing
    <3>3. CASE j = Len(told) + 1
      BY <2>2, <2>3, <2>4, <2>5, <3>1, <3>3
    <3> QED
      BY <2>3, <3>2, <3>3
  <2>6. ASSUME NEW i \in DOMAIN told', NEW j \in DOMAIN published',
               told'[i].item = published'[j].item
        PROVE  told'[i].number < published'[j].number
    <3>1. CASE i \in DOMAIN told
      BY <1>2, <2>3, <2>6, <3>1 DEF OrderInv
    <3>2. CASE i = Len(told) + 1
      BY <1>2, <1>3, <2>2, <2>3, <2>6, <3>2 DEF OrderInv, Increasing
    <3> QED
      BY <2>3, <3>1, <3>2
  <2> QED
    BY <1>4, <2>5, <2>6 DEF OrderInv, Increasing
<1> QED
  BY <1>5, <1>6, Zenon DEF NewEvents, n

LEMMA OrderKept ==
    ASSUME ServerInv, ClientInv, NotesInv, ToldInv, OrderInv, [Next]_vars
    PROVE  OrderInv'
<1>1. CASE UNCHANGED <<told, published>>
  BY <1>1 DEF OrderInv, Increasing
<1>2. CASE Events
  <2>1. PICK t \in ModelTypes : \E given \in GivenSets(t) : \E inOrder \in BOOLEAN :
                                   Report(t, given, inOrder)
    BY <1>2 DEF Events
  <2>2. PICK given \in GivenSets(t) : \E inOrder \in BOOLEAN : Report(t, given, inOrder)
    BY <2>1
  <2>3. PICK inOrder \in BOOLEAN : Report(t, given, inOrder)
    BY <2>2
  <2>4. UNCHANGED told
    BY <2>3 DEF Report
  <2> QED
    BY <1>1, <2>3, <2>4, Reported, NumbersRise
<1>3. CASE NewEvents
  BY <1>3, FirstLeaves
<1>4. ServerStep => UNCHANGED <<told, published>>
  BY Zenon DEF ServerStep, clientVars
<1>5. ClientStep => UNCHANGED <<told, published>>
  BY Zenon
  DEF ClientStep, ClientCall, Subscribe, Browse, BrowseFailed, NextField, SuperType, Collected,
      CreateItem, ItemRefused, Preloaded, serverVars
<1> QED
  BY <1>1, <1>2, <1>3, <1>4, <1>5, Zenon DEF Next, SdkStep, vars, clientVars

-----------------------------------------------------------------------------
(* What crashes the client.                                                *)

LEMMA CrashKept ==
    ASSUME BaseNamesKept, ClientInv, SearchInv, ListInv, NotesInv, CrashInv, [Next]_vars
    PROVE  CrashInv'
<1>1. CASE UNCHANGED <<clientDown, op, list>>
  BY <1>1 DEF CrashInv
<1>2. CASE ~clientDown'
  BY <1>2 DEF CrashInv
<1>3. CASE NextField /\ clientDown'
  <2>1. ~clientDown /\ UNCHANGED list /\ Collects(op.pc)
    BY <1>3 DEF NextField, Collects
  <2>2. Comparison(NameOf[Head(op.rest)]) = "null" /\ op' = op
    BY <1>3, <2>1, NextFieldOp
  <2>3. PICK i \in DOMAIN op.fields : op.fields[i].failed
    BY <2>2, Comparisons
  <2>4. op.fields[i].variable \in ReadFails
    BY <2>1, <2>3 DEF SearchInv
  <2> QED
    BY <2>2, <2>3, <2>4 DEF CrashInv
<1>4. CASE NewEvents /\ clientDown'
  <2> DEFINE n == Head(published)
  <2>1. /\ published # <<>> /\ UNCHANGED <<op, list>>
        /\ UNCHANGED clientDown \/ Message \notin ToSet(list[n.item])
    BY <1>4 DEF NewEvents
  <2>2. n.item \in DOMAIN list
    BY <2>1, FirstNote DEF NotesInv, ClientInv
  <2>3. CASE UNCHANGED clientDown
    BY <1>1, <2>1, <2>3
  <2>4. CASE Message \notin ToSet(list[n.item])
    <3>1. ToSet(Line[n.item]) \cap BrowseFails # {}
      BY <2>2, <2>4, NoMessage
    <3> HIDE DEF n
    <3> QED
      BY <2>1, <2>2, <2>4, <3>1 DEF CrashInv
  <2> QED
    BY <2>1, <2>3, <2>4
<1>5. ServerStep \/ Events => UNCHANGED <<clientDown, op, list>>
  BY Zenon DEF ServerStep, Events, Report, clientVars
<1>6. ClientStep => ~clientDown' \/ NextField
  BY Zenon
  DEF ClientStep, ClientCall, Subscribe, Browse, BrowseFailed, SuperType, Collected,
      CreateItem, ItemRefused, Preloaded
<1> QED
  BY <1>1, <1>2, <1>3, <1>4, <1>5, <1>6, Zenon DEF Next, SdkStep, vars, clientVars

-----------------------------------------------------------------------------
(* The theorems.                                                           *)

SubscribedInv == ServerInv /\ ClientInv /\ SearchInv /\ ListInv /\ NotesInv
DeliveredInv  == SubscribedInv /\ ToldInv /\ OrderInv /\ CrashInv

LEMMA Initially == Init => DeliveredInv
<1> SUFFICES ASSUME Init PROVE DeliveredInv
  OBVIOUS
<1>1. ServerInv /\ ClientInv
  BY ServerInitially, ClientInitially DEF Init
<1>2. /\ op.pc = "idle" /\ DOMAIN list = {} /\ published = <<>> /\ told = <<>>
      /\ clientDown = FALSE
  BY DEF Init, ClientInit, NoOp
<1>3. SearchInv /\ ListInv /\ CrashInv
  BY <1>2 DEF SearchInv, Collects, ListInv, CrashInv
<1>4. NotesInv /\ ToldInv
  BY <1>2 DEF NotesInv, ToldInv
<1>5. OrderInv
  BY <1>2 DEF OrderInv, Increasing
<1> QED
  BY <1>1, <1>3, <1>4, <1>5 DEF DeliveredInv, SubscribedInv

LEMMA SubscribedKept == SubscribedInv /\ [Next]_vars => SubscribedInv'
BY ServerKept, ClientKept, SearchKept, ListKept, NotesKept, Zenon DEF SubscribedInv

LEMMA SubscribedAlways == Spec => []SubscribedInv
<1>1. Init => SubscribedInv
  BY Initially DEF DeliveredInv
<1> QED
  BY <1>1, SubscribedKept, PTL DEF Spec

LEMMA DeliveredAlways == ASSUME BaseNamesKept PROVE Spec => []DeliveredInv
<1>1. DeliveredInv /\ [Next]_vars => DeliveredInv'
  BY SubscribedKept, ToldKept, OrderKept, CrashKept, Zenon DEF DeliveredInv, SubscribedInv
<1> QED
  BY <1>1, Initially, PTL DEF Spec

(* The state of the registry, of the search and of the items is as         *)
(* ServerEvents and ClientEvents describe it: nothing is asked of Java     *)
(* that is not registered, an item exists at the server only for an entry  *)
(* of HaSubscription's list and with a name for each of its fields, and    *)
(* every notification is for an item.                                      *)
THEOREM TypeOKCorrect == Spec => []TypeOK
<1>1. SubscribedInv => TypeOK
  <2> SUFFICES ASSUME SubscribedInv PROVE TypeOK
    OBVIOUS
  <2>1. DOMAIN eventTypes \subseteq ModelTypes \ toExamine
    BY DEF SubscribedInv, ServerInv, Registry
  <2>2. ASSUME NEW t \in DOMAIN items PROVE Len(items[t]) = Len(list[t])
    <3>1. list[t] \in Seq(Variables) /\ items[t] = Names(list[t])
      BY DEF SubscribedInv, ClientInv
    <3>2. Len(list[t]) \in Nat /\ items[t] = [i \in 1 .. Len(list[t]) |-> NameOf[list[t][i]]]
      BY <3>1 DEF Names
    <3> QED
      BY <3>2
  <2>3. op.pc \in Steps
    BY DEF SubscribedInv, ClientInv
  <2>4. \A i \in DOMAIN published : published[i].item \in DOMAIN items
    BY DEF SubscribedInv, NotesInv
  <2>5. /\ toExamine \subseteq ModelTypes
        /\ listening \subseteq asked /\ asked \subseteq Asynchronous
        /\ reported \in 0 .. MaxEvents /\ Len(fired) <= reported
        /\ serverDown \in BOOLEAN
    BY DEF SubscribedInv, ServerInv
  <2>6. /\ DOMAIN items \subseteq DOMAIN list /\ DOMAIN list \subseteq tried
        /\ clientDown \in BOOLEAN
    BY DEF SubscribedInv, ClientInv
  <2> QED
    BY <2>1, <2>2, <2>3, <2>4, <2>5, <2>6 DEF TypeOK, Steps
<1> QED
  BY <1>1, SubscribedAlways, PTL

(* Whatever the event types declare, redeclare and inherit, and whichever  *)
(* requests the server fails, the fields that getEventFields collects are  *)
(* the nearest variable of each name that the types browsed declare, no    *)
(* name twice, and only a type whose references the server failed to       *)
(* return ends the search before BaseEventType.                            *)
THEOREM FieldsNearestCorrect == Spec => []FieldsNearest
<1>1. SubscribedInv => FieldsNearest
  BY ListedNearest DEF SubscribedInv
<1> QED
  BY <1>1, SubscribedAlways, PTL

(* If no type redeclares a variable of BaseEventType, Java is told of the  *)
(* events of an item in the order in which they were fired, each once, and *)
(* as the value of each field only what the provider's Java gave, in that  *)
(* event, for the variable that its type means by the name: pairing the    *)
(* values with the fields by place (newEvents) is sound.                   *)
THEOREM EventsTrueCorrect == ASSUME BaseNamesKept PROVE Spec => []EventsTrue
<1>1. DeliveredInv => EventsTrue
  <2> SUFFICES ASSUME DeliveredInv PROVE EventsTrue
    OBVIOUS
  <2>1. \A i, j \in DOMAIN told :
           (i < j /\ told[i].item = told[j].item) => told[i].number < told[j].number
    BY DEF DeliveredInv, OrderInv, Increasing
  <2>2. \A i \in DOMAIN told : Truthful(told[i], fired[told[i].number])
    BY DEF DeliveredInv, ToldInv
  <2> QED
    BY <2>1, <2>2, Zenon DEF EventsTrue, Truthful
<1> QED
  BY <1>1, DeliveredAlways, PTL

(* If no type redeclares a variable of BaseEventType, the client's process *)
(* is brought down by events only after the server failed to return the    *)
(* attributes of a variable (a field without a name is then compared with) *)
(* or the references of a type (there is then no Message to convert), the  *)
(* server's only by an event of a type that has subtypes.                  *)
THEOREM NoCrashCorrect == ASSUME BaseNamesKept PROVE Spec => []NoCrash
<1>1. DeliveredInv => NoCrash
  BY DEF DeliveredInv, SubscribedInv, ServerInv, CrashInv, NoCrash
<1> QED
  BY <1>1, DeliveredAlways, PTL
=============================================================================
