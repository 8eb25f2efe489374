-------------------------- MODULE ServerLifeCycle --------------------------
(* Opening and closing the server (src/src/Server.cpp), as the native      *)
(* library of Java's OPCUADataProvider drives it: the SDK's platform layer *)
(* and core, the libraries of the provider directory, the factories they   *)
(* export, the providers these create, and the node managers that the      *)
(* model provider adds to the running core.                                *)
(*                                                                         *)
(* One thread opens and closes.  Java's thread, which passes notifications *)
(* on to the providers, runs between any two of its steps, as nothing is   *)
(* locked.                                                                 *)
EXTENDS Naturals, Sequences

CONSTANTS
    Files,      \* the sorted entries of the provider directory
    IOFiles,    \* those that export createIODataProviderFactory
    SasFiles,   \* those that export createSASModelProviderFactory
    NoFile,     \* no entry
    Faults,     \* what may go wrong, of MayFail
    MaxOpens    \* bound: how often Java opens

(* The steps of open that throw, and the library that dlopen refuses,      *)
(* which is only logged.                                                   *)
MayFail == {"platform", "core", "directory", "createProvider",
            "openIOProvider", "openSasProvider", "library"}

FileSet == {Files[k] : k \in DOMAIN Files}
Opens == 1..MaxOpens

ASSUME FilesAssumption ==
    /\ Files \in Seq(FileSet)
    /\ \A j, k \in DOMAIN Files : Files[j] = Files[k] => j = k
    /\ NoFile \notin FileSet
    /\ IOFiles \subseteq FileSet
    /\ SasFiles \subseteq FileSet
ASSUME FaultsAssumption == Faults \subseteq MayFail
ASSUME BoundAssumption == MaxOpens \in Nat

VARIABLES
    pc,                 \* where the opening or closing thread is
    opens,              \* the calls of open so far; the last one's number
                        \* also names the provider objects it creates
    platform,           \* UaPlatformLayer has been initialised
    core,               \* opcUaServerCore: "none", "created" or "started"
    entry,              \* the directory entry that is looked at
    libHandles,         \* the libraries that are open
    ioFactory,          \* the file whose factory is in the map, or NoFile
    sasFactory,
    ioDataProviders,    \* the provider objects in the vectors
    sasModelProviders,
    ioObjects,          \* the provider objects that exist
    sasObjects,
    nodeManagers,       \* the core has node managers
    subscribed,         \* they have subscribed in Java, for good
    closedBy,           \* why it closes: "nobody", "failure" or "user"
    inside,             \* the provider object a notification is in, or 0
    crashed             \* a deleted provider was used
vars == <<pc, opens, platform, core, entry, libHandles, ioFactory, sasFactory,
          ioDataProviders, sasModelProviders, ioObjects, sasObjects,
          nodeManagers, subscribed, closedBy, inside, crashed>>

(* What the core has, what libraries gave, and what Java does.             *)
coreVars == <<platform, core, nodeManagers>>
libraryVars == <<entry, libHandles, ioFactory, sasFactory>>
ioVars == <<ioDataProviders, ioObjects>>
sasVars == <<sasModelProviders, sasObjects>>
javaVars == <<subscribed, inside, crashed>>

-----------------------------------------------------------------------------
(* Opening.                                                                *)

Goto(step) == pc' = step

(* An exception is thrown: open catches it, closes and throws it again.    *)
Fail ==
    /\ Goto("stopCore")
    /\ closedBy' = "failure"

(* The native open makes a Server of its own and opens it.  Java may call  *)
(* it again after it has failed.                                           *)
Open ==
    /\ pc = "closed"
    /\ closedBy # "user"
    /\ opens < MaxOpens
    /\ Goto("platform")
    /\ opens' = opens + 1
    /\ closedBy' = "nobody"
    /\ UNCHANGED <<coreVars, libraryVars, ioVars, sasVars, javaVars>>

InitPlatform ==
    /\ pc = "platform"
    /\ \/ platform' = TRUE /\ Goto("core") /\ UNCHANGED closedBy
       \/ "platform" \in Faults /\ Fail /\ UNCHANGED platform
    /\ UNCHANGED <<opens, core, nodeManagers, libraryVars, ioVars, sasVars,
                   javaVars>>

(* From start on the core serves clients, before there are any providers.  *)
StartCore ==
    /\ pc = "core"
    /\ \/ core' = "started" /\ Goto("directory") /\ UNCHANGED closedBy
       \/ "core" \in Faults /\ core' = "created" /\ Fail
    /\ UNCHANGED <<opens, platform, nodeManagers, libraryVars, ioVars,
                   sasVars, javaVars>>

FirstEntry == 1
ReadDirectory ==
    /\ pc = "directory"
    /\ \/ Goto("libraries") /\ entry' = FirstEntry /\ UNCHANGED closedBy
       \/ "directory" \in Faults /\ Fail /\ UNCHANGED entry
    /\ UNCHANGED <<opens, coreVars, libHandles, ioFactory, sasFactory, ioVars,
                   sasVars, javaVars>>

(* The first factory of a kind is taken, later ones are ignored.           *)
Chosen(factory, file, exporting) ==
    IF file \in exporting /\ factory = NoFile THEN file ELSE factory

OpenLibrary ==
    /\ pc = "libraries"
    /\ entry \in DOMAIN Files
    /\ LET file == Files[entry]
       IN  \/ /\ libHandles' = libHandles \cup {file}
              /\ ioFactory' = Chosen(ioFactory, file, IOFiles)
              /\ sasFactory' = Chosen(sasFactory, file, SasFiles)
           \/ /\ "library" \in Faults
              /\ UNCHANGED <<libHandles, ioFactory, sasFactory>>
    /\ entry' = entry + 1
    /\ UNCHANGED <<pc, opens, closedBy, coreVars, ioVars, sasVars, javaVars>>

LibrariesDone ==
    /\ pc = "libraries"
    /\ entry \notin DOMAIN Files
    /\ Goto("createIOProvider")
    /\ UNCHANGED <<opens, closedBy, coreVars, libraryVars, ioVars, sasVars,
                   javaVars>>

(* The factory's create makes the provider.  Without a factory the list    *)
(* of providers stays empty, which is an error too.                        *)
CreateIOProvider ==
    /\ pc = "createIOProvider"
    /\ \/ /\ ioFactory # NoFile
          /\ ioObjects' = ioObjects \cup {opens}
          /\ Goto("openIOProvider")
          /\ UNCHANGED closedBy
       \/ /\ ioFactory = NoFile \/ "createProvider" \in Faults
          /\ Fail
          /\ UNCHANGED ioObjects
    /\ UNCHANGED <<opens, coreVars, libraryVars, ioDataProviders, sasVars,
                   javaVars>>

(* A provider that cannot be opened does not enter the list, so nobody     *)
(* deletes it.                                                             *)
OpenIOProvider ==
    /\ pc = "openIOProvider"
    /\ \/ /\ ioDataProviders' = ioDataProviders \cup {opens}
          /\ Goto("createSasProvider")
          /\ UNCHANGED closedBy
       \/ "openIOProvider" \in Faults /\ Fail /\ UNCHANGED ioDataProviders
    /\ UNCHANGED <<opens, coreVars, libraryVars, ioObjects, sasVars, javaVars>>

CreateSasProvider ==
    /\ pc = "createSasProvider"
    /\ \/ /\ sasFactory # NoFile
          /\ sasObjects' = sasObjects \cup {opens}
          /\ Goto("openSasProvider")
          /\ UNCHANGED closedBy
       \/ /\ sasFactory = NoFile \/ "createProvider" \in Faults
          /\ Fail
          /\ UNCHANGED sasObjects
    /\ UNCHANGED <<opens, coreVars, libraryVars, sasModelProviders, ioVars,
                   javaVars>>

(* The model provider keeps a reference to the IO data provider.           *)
OpenSasProvider ==
    /\ pc = "openSasProvider"
    /\ \/ /\ sasModelProviders' = sasModelProviders \cup {opens}
          /\ Goto("addNodeManagers")
          /\ UNCHANGED closedBy
       \/ "openSasProvider" \in Faults /\ Fail /\ UNCHANGED sasModelProviders
    /\ UNCHANGED <<opens, coreVars, libraryVars, sasObjects, ioVars, javaVars>>

(* Adding node managers and modules to the running core starts them, and   *)
(* they subscribe in Java.  What addNodeManager and addModule return is    *)
(* not looked at, so open does not fail any more.                          *)
Mutant_StatusChecked == TRUE
StatusChecked == FALSE
AddNodeManagers ==
    /\ pc = "addNodeManagers"
    /\ nodeManagers' = TRUE
    /\ subscribed' = TRUE
    /\ \/ Goto("running") /\ UNCHANGED closedBy
       \/ StatusChecked /\ Fail
    /\ UNCHANGED <<opens, platform, core, libraryVars, ioVars, sasVars,
                   inside, crashed>>

-----------------------------------------------------------------------------
(* Closing, after a failure or because the owner of the Server wants it.   *)

Close ==
    /\ pc = "running"
    /\ Goto("stopCore")
    /\ closedBy' = "user"
    /\ UNCHANGED <<opens, coreVars, libraryVars, ioVars, sasVars, javaVars>>

Mutant_ClosingOrder ==
    <<"stopCore", "deleteCore", "closeIOProviders", "clearIOProviders",
      "closeSasProviders", "closeLibraries", "cleanup", "closed">>
ClosingOrder ==
    <<"stopCore", "deleteCore", "closeSasProviders", "closeIOProviders",
      "clearIOProviders", "closeLibraries", "cleanup", "closed">>

(* The thread does this step of close and goes on to the next one.         *)
At(step) ==
    \E k \in 1..(Len(ClosingOrder) - 1) :
        /\ pc = step
        /\ ClosingOrder[k] = step
        /\ Goto(ClosingOrder[k + 1])
        /\ UNCHANGED <<opens, closedBy>>

(* Stopping the core shuts its node managers down; the notifications go    *)
(* on, as nobody unsubscribes.                                             *)
StopCore ==
    /\ At("stopCore")
    /\ core' = IF core = "started" THEN "created" ELSE core
    /\ nodeManagers' = FALSE
    /\ UNCHANGED <<platform, libraryVars, ioVars, sasVars, javaVars>>

DeleteCore ==
    /\ At("deleteCore")
    /\ core' = "none"
    /\ UNCHANGED <<platform, nodeManagers, libraryVars, ioVars, sasVars,
                   javaVars>>

(* The listed providers are closed and deleted.                            *)
Mutant_Deleted(objects, list) == objects
Deleted(objects, list) == objects \ list

CloseSasProviders ==
    /\ At("closeSasProviders")
    /\ sasObjects' = Deleted(sasObjects, sasModelProviders)
    /\ sasModelProviders' = {}
    /\ sasFactory' = NoFile
    /\ UNCHANGED <<coreVars, entry, libHandles, ioFactory, ioVars, javaVars>>

CloseIOProviders ==
    /\ At("closeIOProviders")
    /\ ioObjects' = Deleted(ioObjects, ioDataProviders)
    /\ UNCHANGED <<coreVars, libraryVars, ioDataProviders, sasVars, javaVars>>

ClearIOProviders ==
    /\ At("clearIOProviders")
    /\ ioDataProviders' = {}
    /\ ioFactory' = NoFile
    /\ UNCHANGED <<coreVars, entry, libHandles, sasFactory, ioObjects,
                   sasVars, javaVars>>

CloseLibraries ==
    /\ At("closeLibraries")
    /\ libHandles' = {}
    /\ UNCHANGED <<coreVars, entry, ioFactory, sasFactory, ioVars, sasVars,
                   javaVars>>

CleanUp ==
    /\ At("cleanup")
    /\ platform' = FALSE
    /\ UNCHANGED <<core, nodeManagers, libraryVars, ioVars, sasVars, javaVars>>

-----------------------------------------------------------------------------
(* Java's thread.  It notifies once it has a subscription, and the native  *)
(* method goes through the list of providers.                              *)

Notify ==
    /\ subscribed
    /\ inside = 0
    /\ \E o \in ioDataProviders :
          IF o \in ioObjects
          THEN inside' = o /\ UNCHANGED crashed
          ELSE crashed' = TRUE /\ UNCHANGED inside
    /\ UNCHANGED <<pc, opens, closedBy, subscribed, coreVars, libraryVars,
                   ioVars, sasVars>>

(* After each callback the notification looks at the provider's list of    *)
(* callbacks again.                                                        *)
ReturnNotification ==
    /\ inside # 0
    /\ inside' = 0
    /\ crashed' = (inside \notin ioObjects)
    /\ UNCHANGED <<pc, opens, closedBy, subscribed, coreVars, libraryVars,
                   ioVars, sasVars>>

-----------------------------------------------------------------------------
Init ==
    /\ pc = "closed"
    /\ opens = 0
    /\ platform = FALSE
    /\ core = "none"
    /\ entry = 1
    /\ libHandles = {}
    /\ ioFactory = NoFile
    /\ sasFactory = NoFile
    /\ ioDataProviders = {}
    /\ sasModelProviders = {}
    /\ ioObjects = {}
    /\ sasObjects = {}
    /\ nodeManagers = FALSE
    /\ subscribed = FALSE
    /\ closedBy = "nobody"
    /\ inside = 0
    /\ crashed = FALSE

Opening ==
    \/ Open \/ InitPlatform \/ StartCore \/ ReadDirectory
    \/ OpenLibrary \/ LibrariesDone
    \/ CreateIOProvider \/ OpenIOProvider
    \/ CreateSasProvider \/ OpenSasProvider
    \/ AddNodeManagers

Closing ==
    \/ Close \/ StopCore \/ DeleteCore
    \/ CloseSasProviders \/ CloseIOProviders \/ ClearIOProviders
    \/ CloseLibraries \/ CleanUp

Next == ~crashed /\ (Opening \/ Closing \/ Notify \/ ReturnNotification)

Spec == Init /\ [][Next]_vars

-----------------------------------------------------------------------------
Steps ==
    {"platform", "core", "directory", "libraries", "createIOProvider",
     "openIOProvider", "createSasProvider", "openSasProvider",
     "addNodeManagers", "running", "stopCore", "deleteCore",
     "closeSasProviders", "closeIOProviders", "clearIOProviders",
     "closeLibraries", "cleanup", "closed"}

(* The steps of open up to the libraries, up to the IO data provider, up   *)
(* to the model provider, and after it.                                    *)
Beginning == {"closed", "platform", "core", "directory"}
BeforeIO == Beginning \cup {"libraries", "createIOProvider", "openIOProvider"}
BeforeSas == BeforeIO \cup {"createSasProvider", "openSasProvider"}
Complete == {"addNodeManagers", "running"}

(* The type of every variable; in particular the walk over the directory   *)
(* neither misses its first entry nor runs past the last (Server.cpp 147). *)
TypeOK ==
    /\ pc \in Steps
    /\ opens \in 0..MaxOpens
    /\ platform \in BOOLEAN
    /\ core \in {"none", "created", "started"}
    /\ entry \in 1..(Len(Files) + 1)
    /\ libHandles \subseteq FileSet
    /\ {ioFactory, sasFactory} \subseteq FileSet \cup {NoFile}
    /\ ioDataProviders \subseteq Opens
    /\ sasModelProviders \subseteq Opens
    /\ ioObjects \subseteq Opens
    /\ sasObjects \subseteq Opens
    /\ nodeManagers \in BOOLEAN
    /\ subscribed \in BOOLEAN
    /\ closedBy \in {"nobody", "failure", "user"}
    /\ inside \in 0..MaxOpens
    /\ crashed \in BOOLEAN

(* Whatever is in use has what it needs, at every point of opening and of  *)
(* closing after a failure at any place: the core the platform layer, a    *)
(* factory and its provider their library, the model provider the IO data  *)
(* provider it refers to, and the node managers the core and both.         *)
OpenedProviders == ioDataProviders \cap ioObjects # {}
DependenciesHeld ==
    /\ core # "none" => platform
    /\ ioFactory # NoFile => ioFactory \in libHandles
    /\ sasFactory # NoFile => sasFactory \in libHandles
    /\ OpenedProviders => ioFactory # NoFile
    /\ sasModelProviders # {} =>
          /\ sasModelProviders \subseteq sasObjects
          /\ sasFactory # NoFile
          /\ OpenedProviders
    /\ nodeManagers => core = "started" /\ sasModelProviders # {}

(* A closed server has given everything back.  What it may leave is one    *)
(* provider object for each failed open, the one that could not be opened, *)
(* and none when it had been running.                                      *)
NothingLeft ==
    pc = "closed" =>
        /\ ~platform /\ core = "none" /\ ~nodeManagers
        /\ libHandles = {} /\ ioFactory = NoFile /\ sasFactory = NoFile
        /\ ioDataProviders = {} /\ sasModelProviders = {}
        /\ ioObjects \cap sasObjects = {}
        /\ closedBy = "user" => opens \notin ioObjects \cup sasObjects

(* Of the libraries that could be opened the first one in the order of the *)
(* directory that has a factory provides it; both kinds may be in one.     *)
IsFirst(factory, exporting) ==
    \A k \in 1..(entry - 1) :
        Files[k] \in libHandles \cap exporting =>
            \E j \in 1..k : factory = Files[j]
FirstFactoryWins ==
    pc \in (BeforeSas \ Beginning) \cup Complete =>
        /\ IsFirst(ioFactory, IOFiles)
        /\ IsFirst(sasFactory, SasFiles)

(* Unless the owner closes the running server, a notification never meets  *)
(* a deleted provider: an open that fails, and so closes, does so before   *)
(* anything has subscribed in Java.                                        *)
NotificationsMeetProvider ==
    closedBy # "user" => ~crashed /\ (inside # 0 => inside \in ioObjects)

-----------------------------------------------------------------------------
(* What makes the invariants inductive: what there is at each step of open *)
(* and of close.                                                           *)
IsOpening ==
    \/ pc \in BeforeSas \cup Complete /\ pc # "closed"
    \/ pc = "closed" /\ opens = 0
IOCleared == {"closeLibraries", "cleanup", "closed"}
SasCleared == {"closeIOProviders", "clearIOProviders"} \cup IOCleared
CoreGone == {"closeSasProviders"} \cup SasCleared

OpeningInv ==
    /\ opens = 0 => pc = "closed"
    /\ IsOpening <=> closedBy = "nobody"
    /\ IsOpening /\ pc \notin Beginning => core = "started"
    /\ pc = "directory" => core = "started"
    /\ pc \in {"platform", "core"} => core = "none"
    /\ pc \in {"core", "directory"} => platform
    /\ pc \in Beginning =>
          libHandles = {} /\ ioFactory = NoFile /\ sasFactory = NoFile
    /\ pc \in BeforeIO => ioDataProviders = {}
    /\ pc \in BeforeSas => sasModelProviders = {}
    /\ IsOpening /\ pc \notin BeforeIO => ioDataProviders = {opens}
    /\ pc \in Complete => sasModelProviders = {opens}
    /\ pc = "openIOProvider" => ioFactory # NoFile /\ opens \in ioObjects
    /\ pc = "openSasProvider" => sasFactory # NoFile /\ opens \in sasObjects
    /\ IsOpening /\ pc # "openSasProvider" /\ pc \notin Complete =>
          opens \notin sasObjects

ClosingInv ==
    /\ pc \in CoreGone => core = "none"
    /\ pc = "deleteCore" => core # "started"
    /\ pc \in SasCleared => sasModelProviders = {} /\ sasFactory = NoFile
    /\ pc = "clearIOProviders" => ioDataProviders \cap ioObjects = {}
    /\ pc # "clearIOProviders" => ioDataProviders \subseteq ioObjects
    /\ pc \in IOCleared => ioDataProviders = {} /\ ioFactory = NoFile
    /\ pc \in {"cleanup", "closed"} => libHandles = {}
    /\ pc = "closed" => ~platform

ObjectInv ==
    /\ ioObjects \cup sasObjects \subseteq 1..opens
    /\ ioObjects \cap sasObjects \subseteq ioDataProviders
    /\ closedBy = "user" =>
          /\ opens \in ioObjects => opens \in ioDataProviders
          /\ opens \in sasObjects => opens \in sasModelProviders

JavaInv ==
    /\ nodeManagers => pc \in {"running", "stopCore"}
    /\ subscribed /\ closedBy # "user" => pc = "running"
    /\ inside # 0 \/ crashed => subscribed
    /\ pc = "running" => ~crashed /\ (inside # 0 => inside \in ioObjects)

(* The invariant the theorems rest on: at each step of open and of close   *)
(* exactly what the earlier steps got or left is there.                    *)
LifeInv == OpeningInv /\ ClosingInv /\ ObjectInv /\ JavaInv /\ DependenciesHeld
=============================================================================
