----------------------- MODULE ServerLifeCycleProofs -----------------------
(* Theorems about ServerLifeCycle, for any directory, faults and number of *)
(* attempts.                                                               *)
EXTENDS ServerLifeCycle, TLAPS

USE FilesAssumption, FaultsAssumption, BoundAssumption

(* Every step of close stands at its place and goes on to the next one.    *)
Closes(step, next) ==
    pc = step /\ pc' = next /\ opens' = opens /\ closedBy' = closedBy

LEMMA CloseSteps ==
    /\ At("stopCore") => Closes("stopCore", "deleteCore")
    /\ At("deleteCore") => Closes("deleteCore", "closeSasProviders")
    /\ At("closeSasProviders") =>
          Closes("closeSasProviders", "closeIOProviders")
    /\ At("closeIOProviders") =>
          Closes("closeIOProviders", "clearIOProviders")
    /\ At("clearIOProviders") => Closes("clearIOProviders", "closeLibraries")
    /\ At("closeLibraries") => Closes("closeLibraries", "cleanup")
    /\ At("cleanup") => Closes("cleanup", "closed")
<1>. DEFINE order == ClosingOrder
<1>1. /\ Len(order) = 8
      /\ order[1] = "stopCore" /\ order[2] = "deleteCore"
      /\ order[3] = "closeSasProviders" /\ order[4] = "closeIOProviders"
      /\ order[5] = "clearIOProviders" /\ order[6] = "closeLibraries"
      /\ order[7] = "cleanup" /\ order[8] = "closed"
  BY DEF ClosingOrder
<1>2. ASSUME NEW step, At(step)
      PROVE  \E k \in 1..7 : /\ pc = step
                             /\ order[k] = step
                             /\ pc' = order[k + 1]
                             /\ opens' = opens /\ closedBy' = closedBy
  BY <1>1, <1>2 DEF At, Goto
<1>. HIDE DEF order
<1>3. \A k \in 1..7 : k = 1 \/ k = 2 \/ k = 3 \/ k = 4 \/ k = 5 \/ k = 6
                            \/ k = 7
  OBVIOUS
<1>. QED BY <1>1, <1>2, <1>3 DEF Closes

-----------------------------------------------------------------------------
LEMMA EntryType ==
    \A k \in DOMAIN Files : Files[k] \in FileSet
BY DEF FileSet

LEMMA TypeInit == Init => TypeOK
<1>1. Len(Files) \in Nat
  OBVIOUS
<1>2. 1 \in 1..(Len(Files) + 1)
  BY <1>1
<1>3. ASSUME Init
      PROVE  /\ pc \in Steps /\ entry \in 1..(Len(Files) + 1)
             /\ opens \in 0..MaxOpens /\ inside \in 0..MaxOpens
  BY <1>2, <1>3 DEF Init, FirstEntry, Steps
<1>. QED BY <1>3 DEF Init, TypeOK

Started == opens = 0 => pc = "closed"

LEMMA TypeStep == TypeOK /\ Started /\ [Next]_vars => TypeOK' /\ Started'
<1>. SUFFICES ASSUME TypeOK, Started, [Next]_vars PROVE TypeOK' /\ Started'
  OBVIOUS
<1>now. opens # 0 => opens \in Opens
  BY DEF TypeOK, Opens
<1>len. Len(Files) \in Nat /\ DOMAIN Files = 1..Len(Files)
  OBVIOUS
<1>. USE DEF TypeOK, Started, Steps, coreVars, libraryVars, ioVars, sasVars,
             javaVars, Goto, Fail, Closes
<1>1. CASE Open BY <1>1 DEF Open
<1>2. CASE InitPlatform BY <1>2 DEF InitPlatform
<1>3. CASE StartCore BY <1>3 DEF StartCore
<1>4. CASE ReadDirectory BY <1>4, <1>len DEF ReadDirectory, FirstEntry
<1>5. CASE OpenLibrary
  <2>1. /\ entry \in 1..Len(Files) /\ entry' = entry + 1
        /\ Files[entry] \in FileSet
    BY <1>5, <1>len, EntryType DEF OpenLibrary
  <2>. QED BY <1>5, <2>1, <1>len DEF OpenLibrary, Chosen
<1>6. CASE LibrariesDone BY <1>6 DEF LibrariesDone
<1>7. CASE CreateIOProvider BY <1>7, <1>now DEF CreateIOProvider
<1>8. CASE OpenIOProvider BY <1>8, <1>now DEF OpenIOProvider
<1>9. CASE CreateSasProvider BY <1>9, <1>now DEF CreateSasProvider
<1>10. CASE OpenSasProvider BY <1>10, <1>now DEF OpenSasProvider
<1>11. CASE AddNodeManagers BY <1>11 DEF AddNodeManagers
<1>12. CASE Close BY <1>12 DEF Close
<1>13. CASE StopCore BY <1>13, CloseSteps DEF StopCore
<1>14. CASE DeleteCore BY <1>14, CloseSteps DEF DeleteCore
<1>15. CASE CloseSasProviders
  BY <1>15, CloseSteps DEF CloseSasProviders, Deleted
<1>16. CASE CloseIOProviders
  BY <1>16, CloseSteps DEF CloseIOProviders, Deleted
<1>17. CASE ClearIOProviders BY <1>17, CloseSteps DEF ClearIOProviders
<1>18. CASE CloseLibraries BY <1>18, CloseSteps DEF CloseLibraries
<1>19. CASE CleanUp BY <1>19, CloseSteps DEF CleanUp
<1>20. CASE Notify
  <2>1. inside' \in 0..MaxOpens
    BY <1>20 DEF Notify, Opens
  <2>2. crashed' \in BOOLEAN
    BY <1>20 DEF Notify
  <2>. QED BY <1>20, <2>1, <2>2 DEF Notify
<1>21. CASE ReturnNotification BY <1>21 DEF ReturnNotification
<1>22. CASE UNCHANGED vars BY <1>22 DEF vars
<1>. QED
  BY <1>1, <1>2, <1>3, <1>4, <1>5, <1>6, <1>7, <1>8, <1>9, <1>10, <1>11,
     <1>12, <1>13, <1>14, <1>15, <1>16, <1>17, <1>18, <1>19, <1>20, <1>21,
     <1>22 DEF Next, Opening, Closing

-----------------------------------------------------------------------------
LEMMA LifeInit == Init => LifeInv
BY DEF Init, LifeInv, OpeningInv, ClosingInv, ObjectInv, JavaInv,
       DependenciesHeld, OpenedProviders, IsOpening, Beginning, BeforeIO,
       BeforeSas, Complete, IOCleared, SasCleared, CoreGone, Steps

(* One lemma per part of open and close; the parts of the invariant are    *)
(* expanded as a whole, as each step touches several.                      *)
LEMMA OpeningStep ==
    TypeOK /\ LifeInv /\ Opening => LifeInv'
<1>. SUFFICES ASSUME TypeOK, LifeInv, Opening PROVE LifeInv'
  OBVIOUS
<1>. USE DEF LifeInv, OpeningInv, ClosingInv, ObjectInv, JavaInv,
             DependenciesHeld, OpenedProviders, IsOpening, Beginning,
             BeforeIO, BeforeSas, Complete, IOCleared, SasCleared, CoreGone,
             coreVars, libraryVars, ioVars, sasVars, javaVars, Goto, Fail
<1>1. CASE Open BY <1>1 DEF Open, TypeOK
<1>2. CASE InitPlatform BY <1>2 DEF InitPlatform
<1>3. CASE StartCore BY <1>3 DEF StartCore
<1>4. CASE ReadDirectory BY <1>4 DEF ReadDirectory
<1>5. CASE OpenLibrary BY <1>5 DEF OpenLibrary, Chosen
<1>6. CASE LibrariesDone BY <1>6 DEF LibrariesDone
<1>7. CASE CreateIOProvider BY <1>7 DEF CreateIOProvider, TypeOK
<1>8. CASE OpenIOProvider BY <1>8 DEF OpenIOProvider
<1>9. CASE CreateSasProvider BY <1>9 DEF CreateSasProvider, TypeOK
<1>10. CASE OpenSasProvider BY <1>10 DEF OpenSasProvider
<1>11. CASE AddNodeManagers BY <1>11 DEF AddNodeManagers, StatusChecked
<1>. QED
  BY <1>1, <1>2, <1>3, <1>4, <1>5, <1>6, <1>7, <1>8, <1>9, <1>10, <1>11
     DEF Opening

LEMMA ClosingStep ==
    TypeOK /\ LifeInv /\ Closing => LifeInv'
<1>. SUFFICES ASSUME TypeOK, LifeInv, Closing PROVE LifeInv'
  OBVIOUS
<1>. USE DEF LifeInv, OpeningInv, ClosingInv, ObjectInv, JavaInv,
             DependenciesHeld, OpenedProviders, IsOpening, Beginning,
             BeforeIO, BeforeSas, Complete, IOCleared, SasCleared, CoreGone,
             coreVars, libraryVars, ioVars, sasVars, javaVars, Closes, Deleted
<1>1. CASE Close BY <1>1 DEF Close, Goto
<1>2. CASE StopCore BY <1>2, CloseSteps DEF StopCore
<1>3. CASE DeleteCore BY <1>3, CloseSteps DEF DeleteCore
<1>4. CASE CloseSasProviders BY <1>4, CloseSteps DEF CloseSasProviders
<1>5. CASE CloseIOProviders BY <1>5, CloseSteps DEF CloseIOProviders
<1>6. CASE ClearIOProviders BY <1>6, CloseSteps DEF ClearIOProviders
<1>7. CASE CloseLibraries BY <1>7, CloseSteps DEF CloseLibraries
<1>8. CASE CleanUp BY <1>8, CloseSteps DEF CleanUp
<1>. QED
  BY <1>1, <1>2, <1>3, <1>4, <1>5, <1>6, <1>7, <1>8 DEF Closing

LEMMA JavaStep ==
    TypeOK /\ LifeInv /\ (Notify \/ ReturnNotification) => LifeInv'
<1>. SUFFICES ASSUME TypeOK, LifeInv, Notify \/ ReturnNotification
              PROVE  LifeInv'
  OBVIOUS
<1>1. UNCHANGED <<pc, opens, closedBy, subscribed, coreVars, libraryVars,
                  ioVars, sasVars>>
  BY DEF Notify, ReturnNotification
<1>2. OpeningInv' /\ ClosingInv' /\ ObjectInv' /\ DependenciesHeld'
  BY <1>1 DEF LifeInv, OpeningInv, ClosingInv, ObjectInv, DependenciesHeld,
              OpenedProviders, IsOpening, coreVars, libraryVars, ioVars,
              sasVars
<1>3. /\ pc' = pc /\ closedBy' = closedBy /\ subscribed' = subscribed
      /\ nodeManagers' = nodeManagers /\ ioObjects' = ioObjects
  BY <1>1 DEF coreVars, ioVars
<1>4. CASE Notify
  <2>1. PICK o \in ioDataProviders :
          IF o \in ioObjects
          THEN inside' = o /\ UNCHANGED crashed
          ELSE crashed' = TRUE /\ UNCHANGED inside
    BY <1>4 DEF Notify
  <2>2. subscribed /\ inside = 0
    BY <1>4 DEF Notify
  <2>3. pc = "running" => o \in ioObjects
    BY DEF LifeInv, ClosingInv
  <2>. QED BY <1>2, <1>3, <2>1, <2>2, <2>3 DEF LifeInv, JavaInv
<1>5. CASE ReturnNotification
  <2>1. inside # 0 /\ inside' = 0 /\ (crashed' <=> inside \notin ioObjects)
    BY <1>5 DEF ReturnNotification
  <2>. QED BY <1>2, <1>3, <2>1 DEF LifeInv, JavaInv
<1>. QED BY <1>2, <1>4, <1>5 DEF LifeInv

(* At each step of open and of close exactly what the earlier steps got or *)
(* left is there (Server::open and Server::close).                         *)
THEOREM LifeInvariant == Spec => []LifeInv
<1>. DEFINE Inv == TypeOK /\ Started /\ LifeInv
<1>1. Init => Inv
  BY TypeInit, LifeInit DEF Init, Started
<1>2. Inv /\ [Next]_vars => Inv'
  <2>. SUFFICES ASSUME Inv, [Next]_vars PROVE LifeInv'
    BY TypeStep
  <2>1. CASE Next BY <2>1, OpeningStep, ClosingStep, JavaStep DEF Next
  <2>2. CASE UNCHANGED vars
    BY <2>2 DEF vars, LifeInv, OpeningInv, ClosingInv, ObjectInv, JavaInv,
                DependenciesHeld, OpenedProviders, IsOpening
  <2>. QED BY <2>1, <2>2
<1>. QED BY <1>1, <1>2, PTL DEF Spec

(* Every variable keeps its type (the members of ServerPrivate).           *)
THEOREM TypeCorrect == Spec => []TypeOK
<1>1. Init => TypeOK /\ Started
  BY TypeInit DEF Init, Started
<1>. QED BY <1>1, TypeStep, PTL DEF Spec

(* Nothing is in use without what it needs, wherever open fails.           *)
THEOREM DependenciesCorrect == Spec => []DependenciesHeld
<1>1. LifeInv => DependenciesHeld
  BY DEF LifeInv
<1>. QED BY <1>1, LifeInvariant, PTL

(* A closed server holds nothing, and each failed open has left at most    *)
(* one provider object behind.                                             *)
THEOREM NothingLeftCorrect == Spec => []NothingLeft
<1>1. TypeOK /\ LifeInv => NothingLeft
  BY DEF TypeOK, LifeInv, OpeningInv, ClosingInv, ObjectInv, JavaInv,
         NothingLeft, Beginning, BeforeIO, BeforeSas, IOCleared, SasCleared,
         CoreGone, IsOpening
<1>. QED BY <1>1, LifeInvariant, TypeCorrect, PTL

(* A notification never meets a deleted provider because of an open that   *)
(* failed.                                                                 *)
THEOREM NotificationsCorrect == Spec => []NotificationsMeetProvider
<1>1. TypeOK /\ LifeInv => NotificationsMeetProvider
  BY DEF TypeOK, LifeInv, JavaInv, NotificationsMeetProvider
<1>. QED BY <1>1, LifeInvariant, TypeCorrect, PTL

-----------------------------------------------------------------------------
(* Opening one more library keeps the first factory of a kind: the entries *)
(* differ, so the new one is none of those before it.                      *)
Found(factory, n) == factory # NoFile => \E j \in 1..n : factory = Files[j]
First(factory, exporting, libs, n) ==
    \A k \in 1..n : Files[k] \in libs \cap exporting =>
                        \E j \in 1..k : factory = Files[j]

LEMMA ChosenIsFirst ==
    ASSUME NEW e \in DOMAIN Files, NEW factory, NEW exporting,
           NEW libs, NEW libs2, NEW factory2,
           Found(factory, e - 1), First(factory, exporting, libs, e - 1),
           \/ /\ libs2 = libs \cup {Files[e]}
              /\ factory2 = Chosen(factory, Files[e], exporting)
           \/ /\ libs2 = libs /\ Files[e] \notin libs
              /\ factory2 = factory
    PROVE  Found(factory2, e) /\ First(factory2, exporting, libs2, e)
<1>1. /\ e \in 1..Len(Files) /\ Len(Files) \in Nat
      /\ \A j, k \in 1..Len(Files) : Files[j] = Files[k] => j = k
      /\ \A k \in 1..Len(Files) : Files[k] # NoFile
  BY EntryType
<1>2. \A k \in 1..(e - 1) : Files[k] # Files[e]
  BY <1>1
<1>3. \A k \in 1..e : k \in 1..(e - 1) \/ k = e
  BY <1>1
<1>4. CASE factory # NoFile
  <2>1. factory2 = factory
    BY <1>4 DEF Chosen
  <2>2. PICK j \in 1..(e - 1) : factory = Files[j]
    BY <1>4 DEF Found
  <2>3. j \in 1..e
    BY <1>1
  <2>. QED BY <1>2, <1>3, <2>1, <2>2, <2>3 DEF First, Found
<1>5. CASE factory = NoFile
  <2>1. \A k \in 1..(e - 1) : Files[k] \notin libs \cap exporting
    BY <1>1, <1>5 DEF First
  <2>2. factory2 = NoFile \/ factory2 = Files[e]
    BY <1>5 DEF Chosen
  <2>3. e \in 1..e
    BY <1>1
  <2>4. Files[e] \in libs2 \cap exporting => factory2 = Files[e]
    BY <1>5 DEF Chosen
  <2>. QED BY <1>2, <1>3, <2>1, <2>2, <2>3, <2>4 DEF First, Found
<1>. QED BY <1>4, <1>5

(* FirstFactoryWins is inductive with two facts: a factory comes from an   *)
(* entry that was looked at, and so does every open library.               *)
FactoryInv ==
    pc \in (BeforeSas \ Beginning) \cup Complete =>
        /\ First(ioFactory, IOFiles, libHandles, entry - 1)
        /\ First(sasFactory, SasFiles, libHandles, entry - 1)
        /\ Found(ioFactory, entry - 1) /\ Found(sasFactory, entry - 1)
        /\ \A f \in libHandles : \E j \in 1..(entry - 1) : f = Files[j]

LEMMA FactoryInit == Init => FactoryInv
BY DEF Init, FactoryInv, BeforeSas, BeforeIO, Beginning, Complete

LEMMA LibraryStep ==
    TypeOK /\ FactoryInv /\ OpenLibrary => FactoryInv'
<1>. SUFFICES ASSUME TypeOK, FactoryInv, OpenLibrary PROVE FactoryInv'
  OBVIOUS
<1>1. /\ pc = "libraries" /\ entry \in DOMAIN Files /\ entry' = entry + 1
      /\ entry \in 1..Len(Files) /\ Len(Files) \in Nat
      /\ \A j, k \in 1..Len(Files) : Files[j] = Files[k] => j = k
  BY DEF OpenLibrary
<1>2. /\ First(ioFactory, IOFiles, libHandles, entry - 1)
      /\ First(sasFactory, SasFiles, libHandles, entry - 1)
      /\ Found(ioFactory, entry - 1) /\ Found(sasFactory, entry - 1)
      /\ \A f \in libHandles : \E j \in 1..(entry - 1) : f = Files[j]
  BY <1>1 DEF FactoryInv, BeforeSas, BeforeIO, Beginning
<1>3. Files[entry] \notin libHandles
  BY <1>1, <1>2
<1>4. \/ /\ libHandles' = libHandles \cup {Files[entry]}
         /\ ioFactory' = Chosen(ioFactory, Files[entry], IOFiles)
         /\ sasFactory' = Chosen(sasFactory, Files[entry], SasFiles)
      \/ /\ libHandles' = libHandles
         /\ ioFactory' = ioFactory /\ sasFactory' = sasFactory
  BY DEF OpenLibrary
<1>5. Found(ioFactory', entry) /\ First(ioFactory', IOFiles, libHandles', entry)
  <2>1. \/ /\ libHandles' = libHandles \cup {Files[entry]}
           /\ ioFactory' = Chosen(ioFactory, Files[entry], IOFiles)
        \/ /\ libHandles' = libHandles /\ Files[entry] \notin libHandles
           /\ ioFactory' = ioFactory
    BY <1>3, <1>4
  <2>. QED BY <1>1, <1>2, <2>1, ChosenIsFirst, Zenon
<1>6. Found(sasFactory', entry) /\ First(sasFactory', SasFiles, libHandles', entry)
  <2>1. \/ /\ libHandles' = libHandles \cup {Files[entry]}
           /\ sasFactory' = Chosen(sasFactory, Files[entry], SasFiles)
        \/ /\ libHandles' = libHandles /\ Files[entry] \notin libHandles
           /\ sasFactory' = sasFactory
    BY <1>3, <1>4
  <2>. QED BY <1>1, <1>2, <2>1, ChosenIsFirst, Zenon
<1>7. \A f \in libHandles' : \E j \in 1..entry : f = Files[j]
  BY <1>1, <1>2, <1>4
<1>8. entry' - 1 = entry
  BY <1>1
<1>. QED BY <1>5, <1>6, <1>7, <1>8 DEF FactoryInv

LEMMA FactoryStep ==
    TypeOK /\ LifeInv /\ FactoryInv /\ [Next]_vars => FactoryInv'
<1>. SUFFICES ASSUME TypeOK, LifeInv, FactoryInv, [Next]_vars
              PROVE  FactoryInv'
  OBVIOUS
<1>. USE DEF BeforeSas, BeforeIO, Beginning, Complete
<1>1. CASE OpenLibrary BY <1>1, LibraryStep
<1>2. CASE ReadDirectory
  <2>1. libHandles' = {} /\ ioFactory' = NoFile /\ sasFactory' = NoFile
    BY <1>2 DEF ReadDirectory, LifeInv, OpeningInv
  <2>. QED BY <2>1 DEF FactoryInv, First, Found
<1>3. ASSUME ~OpenLibrary, ~ReadDirectory
      PROVE  \/ pc' \notin (BeforeSas \ Beginning) \cup Complete
             \/ /\ pc \in (BeforeSas \ Beginning) \cup Complete
                /\ UNCHANGED libraryVars
  <2>1. CASE Opening
    BY <1>3, <2>1 DEF Opening, Open, InitPlatform, StartCore, LibrariesDone,
       CreateIOProvider, OpenIOProvider, CreateSasProvider, OpenSasProvider,
       AddNodeManagers, Goto, Fail
  <2>2. CASE Closing
    BY <2>2, CloseSteps DEF Closing, Close, Goto, StopCore, DeleteCore,
       CloseSasProviders, CloseIOProviders, ClearIOProviders, CloseLibraries,
       CleanUp, Closes
  <2>3. CASE Notify \/ ReturnNotification
    BY <2>3 DEF Notify, ReturnNotification
  <2>4. CASE UNCHANGED vars
    BY <2>4 DEF vars, libraryVars
  <2>. QED BY <2>1, <2>2, <2>3, <2>4 DEF Next
<1>. QED BY <1>1, <1>2, <1>3 DEF FactoryInv, First, Found, libraryVars

(* Of the libraries that open, the first that has a factory provides it.   *)
THEOREM FirstFactoryCorrect == Spec => []FirstFactoryWins
<1>1. TypeOK /\ TypeOK' /\ LifeInv /\ FactoryInv /\ [Next]_vars => FactoryInv'
  BY FactoryStep
<1>2. FactoryInv => FirstFactoryWins
  BY DEF FactoryInv, FirstFactoryWins, First, IsFirst
<1>. QED BY FactoryInit, <1>1, <1>2, TypeCorrect, LifeInvariant, PTL DEF Spec
=============================================================================
